---------------------------- MODULE RedoLogProofs ----------------------------
(***************************************************************************)
(* Proofs about RedoLog, for any sets of threads and callbacks and any     *)
(* bound on the LSN: the write and the flush of the log have one owner     *)
(* each, the positions of the log never overtake each other, what is       *)
(* reported to be durable is durable, and the redo log implements          *)
(* DurableLog as long as nobody switches innodb_log_file_write_through.    *)
(*                                                                         *)
(* What a thread knows about the shared positions follows from where it is *)
(* in log0log.cc, so most parts of the inductive invariant say something   *)
(* of each thread.  A thread that holds flush_lock (write_lock) need not   *)
(* fear that others move the positions that this lock protects; the other  *)
(* positions only grow.                                                    *)
(***************************************************************************)
EXTENDS RedoLog, FiniteSetTheorems, WellFoundedInduction, TLAPS

\* Where a thread is in log0log.cc when it must own flush_lock, write_lock.
OwnsFlush(t) ==
    \/ at[t] \in {"promise", "log_flush", "fsync", "fsynced", "flushed",
                  "prepare_write", "exclusive"}
    \/ /\ at[t] \in {"write", "write_buf", "wrote", "write_release"}
       /\ job[t].durable
OwnsWrite(t) == at[t] \in {"write_buf", "wrote", "exclusive"}

Acquiring == {"loop", "mutex", "sleep", "ACQUIRED", "EXPIRED",
              "CALLBACK_QUEUED"}

\* A thread is inside, owns or has nothing to do with each of the locks.
Placed(t) ==
    /\ at[t] = "idle" <=> job[t].op = "none"
    /\ at[t] = "flush" => job[t].op = "write_up_to" /\ job[t].durable
    /\ at[t] = "promise" => job[t].op = "write_up_to" /\ job[t].durable
    /\ at[t] = "write" => job[t].op # "resize"
    /\ at[t] \in {"prepare_flush", "prepare_write"} =>
           job[t].op \in {"write_and_flush", "resize"}
    /\ at[t] = "exclusive" => job[t].op = "resize"
    /\ at[t] \in {"write_buf", "log_flush", "fsync", "fsynced"} =>
           job[t].op # "resize"
    /\ job[t].op \in {"write_and_flush", "resize"} => job[t].durable
    /\ at[t] \in {"flush_release", "log_flush", "fsync", "fsynced",
                  "flushed"} => job[t].durable

InFlushLock(t) ==
    /\ OwnsFlush(t) => f_pc[t] = "ACQUIRED"
    /\ at[t] \in {"flush", "prepare_flush"} => f_pc[t] \in Acquiring
    /\ at[t] = "flush_release" => f_pc[t] \in {"release", "released"}
    /\ /\ ~OwnsFlush(t)
       /\ at[t] \notin {"flush", "prepare_flush", "flush_release"}
       => f_pc[t] \in F!Outside

InWriteLock(t) ==
    /\ OwnsWrite(t) => w_pc[t] = "ACQUIRED"
    /\ at[t] = "write" /\ job[t].op = "write_and_flush" =>
           w_pc[t] = "ACQUIRED"
    /\ at[t] \in {"write", "prepare_write"} => w_pc[t] \in Acquiring
    /\ at[t] = "write_release" => w_pc[t] \in {"release", "released"}
    /\ /\ ~OwnsWrite(t)
       /\ at[t] \notin {"write", "prepare_write", "write_release"}
       => w_pc[t] \in W!Outside

\* Each lock has at most one owner.
OneFlushOwner ==
    /\ \A t, u \in Thread :
           f_pc[t] = "ACQUIRED" /\ f_pc[u] = "ACQUIRED" => t = u
    /\ f_lock <=> \E t \in Thread : f_pc[t] = "ACQUIRED"
OneWriteOwner ==
    /\ \A t, u \in Thread :
           w_pc[t] = "ACQUIRED" /\ w_pc[u] = "ACQUIRED" => t = u
    /\ w_lock <=> \E t \in Thread : w_pc[t] = "ACQUIRED"

Owners ==
    /\ \A t \in Thread : Placed(t) /\ InFlushLock(t) /\ InWriteLock(t)
    /\ OneFlushOwner
    /\ OneWriteOwner

-----------------------------------------------------------------------------

\* The order of the positions, and what the leaders keep in their locals.
Order ==
    /\ f_value <= flushed_to_disk_lsn
    /\ flushed_to_disk_lsn <= w_value
    /\ w_value <= write_lsn
    /\ write_lsn <= lsn
    /\ f_pending_value <= lsn
    /\ w_pending_value <= lsn

\* LSN that is going to be written or flushed by t.
Target(t) ==
    /\ job[t].lsn <= lsn
    /\ at[t] \in {"write_buf", "wrote"} => w_value <= job[t].n
    /\ at[t] = "write_buf" => job[t].n <= lsn
    /\ at[t] = "wrote" => job[t].n <= write_lsn
    /\ /\ at[t] \in {"write_buf", "wrote"}
       /\ job[t].durable
       /\ job[t].op # "resize"
       => flushed_to_disk_lsn <= job[t].n
    /\ /\ at[t] \in {"write_release", "log_flush"}
       /\ job[t].op = "write_and_flush"
       => flushed_to_disk_lsn <= job[t].n /\ job[t].n <= w_value
    /\ at[t] \in {"fsync", "fsynced"} =>
           flushed_to_disk_lsn <= job[t].n /\ job[t].n <= w_value
    /\ at[t] = "flushed" =>
           f_value <= job[t].n /\ job[t].n <= flushed_to_disk_lsn

Positions == Order /\ \A t \in Thread : Target(t)

-----------------------------------------------------------------------------

\* What of the file is not durable: with O_DSYNC only what was there before.
Cache ==
    /\ cached \subseteq 1..write_lsn
    /\ log_write_through => cached \subseteq exposed
    /\ (1..flushed_to_disk_lsn) \cap cached \subseteq exposed
    /\ \A t \in Thread :
           at[t] = "fsynced" => (1..job[t].n) \cap cached \subseteq exposed

-----------------------------------------------------------------------------

\* If c is observed, it was passed with n (and d).
PassedWith(c, n, d) ==
    c \in Callback => n > 0 /\ asked[c] = [lsn |-> n, durable |-> d]

\* Wherever a callback is, it is there with the number that it was passed
\* with, on the lock that durable selects.
CallbackOf(t) ==
    /\ f_pc[t] \in F!InAcquire => PassedWith(cb[t], num[t], TRUE)
    /\ w_pc[t] \in W!InAcquire => PassedWith(cb[t], num[t], FALSE)
    /\ cb[t] # NoCallback => num[t] <= lsn
    /\ f_pc[t] = "release" =>
           \A x \in callbacks[t] :
               PassedWith(x.cb, x.num, TRUE) /\ x.num <= f_value
    /\ w_pc[t] = "release" =>
           \A x \in callbacks[t] :
               PassedWith(x.cb, x.num, FALSE) /\ x.num <= w_value

PendingNumbers ==
    /\ \A x \in f_pending_callbacks :
           PassedWith(x.cb, x.num, TRUE) /\ x.num <= lsn
    /\ \A x \in w_pending_callbacks :
           PassedWith(x.cb, x.num, FALSE) /\ x.num <= lsn

InTime(c) ==
    /\ asked[c].lsn > 0
    /\ asked[c].durable => asked[c].lsn <= f_value
    /\ ~asked[c].durable => asked[c].lsn <= w_value
FiredInTime == \A c \in Callback : fired[c] # 0 => InTime(c)

CallbackNumbers ==
    (\A t \in Thread : CallbackOf(t)) /\ PendingNumbers /\ FiredInTime

-----------------------------------------------------------------------------

\* Nobody who left a callback behind on the lock counts on more than n.
FlushCovers(n) ==
    /\ f_pending_value <= n
    /\ f_waiters_list # {} \/ \A x \in f_pending_callbacks : x.num <= n
WriteCovers(n) ==
    /\ w_pending_value <= n
    /\ w_waiters_list # {} \/ \A x \in w_pending_callbacks : x.num <= n

\* A leader that is not resizing the log reaches what it has promised, and
\* what the caller asked for.
Promise(t) ==
    job[t].op # "resize" =>
        /\ at[t] = "write" /\ job[t].durable =>
               /\ w_pc[t] \in W!InAcquire =>
                      num[t] = job[t].lsn /\ cb[t] = NoCallback
               /\ w_pc[t] # "CALLBACK_QUEUED"
               /\ w_pc[t] = "EXPIRED" => job[t].lsn <= w_value
        /\ at[t] \in {"write_buf", "wrote"} =>
               /\ job[t].durable => job[t].lsn <= job[t].n
               /\ WriteCovers(job[t].n)
        /\ \/ at[t] = "write_release" /\ job[t].durable
           \/ at[t] = "log_flush"
           => job[t].lsn <= FlushTo(t)
        /\ \/ at[t] = "promise"
           \/ /\ at[t] \in {"write", "write_buf", "wrote", "write_release"}
              /\ job[t].durable
           \/ at[t] = "log_flush"
           => FlushCovers(job[t].lsn)
        /\ at[t] \in {"fsync", "fsynced", "flushed"} =>
               job[t].lsn <= job[t].n /\ FlushCovers(job[t].n)

\* What release() returned and what is left of it.
Returned(t) ==
    /\ ret[t] <= lsn /\ job[t].owed <= lsn
    /\ job[t].op # "resize" =>
           /\ at[t] \in {"write_release", "flush_release"} => ret[t] = 0
           /\ job[t].owed = 0

\* What a durable call must have made durable when it returns.
Goal(t) ==
    /\ ~job[t].durable => job[t].goal = 0
    /\ job[t].op = "resize" => job[t].goal = 0
    /\ at[t] \in {"prepare_flush", "prepare_write"} => job[t].goal = 0
    /\ at[t] = "flush" =>
           /\ job[t].goal <= lsn
           /\ f_pc[t] \in F!InAcquire =>
                  job[t].goal <= num[t] /\ (cb[t] # NoCallback => job[t].goal = 0)
           /\ f_pc[t] = "EXPIRED" => job[t].goal <= f_value
           /\ f_pc[t] = "CALLBACK_QUEUED" => job[t].goal = 0
    /\ at[t] = "flush_release" => job[t].goal <= f_value
    /\ at[t] \notin {"flush", "flush_release"} => job[t].goal <= job[t].lsn

Promises == \A t \in Thread : Promise(t) /\ Returned(t) /\ Goal(t)

-----------------------------------------------------------------------------

\* Those who have reserved an LSN can append.
Room == lsn + Reserved <= MaxLsn

IInv ==
    /\ TypeOK
    /\ Room
    /\ Owners
    /\ Positions
    /\ Cache
    /\ CallbackNumbers
    /\ Promises

-----------------------------------------------------------------------------
(* Types.  The parts of TypeOK: each lock, the locals of the threads, and  *)
(* the rest.                                                               *)

Pending == [num : Nat, cb : Callback \cup {Dummy}]
Label == {"idle", "EXPIRED", "CALLBACK_QUEUED", "released", "loop", "mutex",
          "sleep", "ACQUIRED", "release"}

FLockType ==
    /\ f_value \in Nat
    /\ f_pending_value \in Nat
    /\ f_lock \in BOOLEAN
    /\ f_waiters_list \subseteq Thread
    /\ f_pending_callbacks \subseteq Pending
    /\ f_pc \in [Thread -> Label]

WLockType ==
    /\ w_value \in Nat
    /\ w_pending_value \in Nat
    /\ w_lock \in BOOLEAN
    /\ w_waiters_list \subseteq Thread
    /\ w_pending_callbacks \subseteq Pending
    /\ w_pc \in [Thread -> Label]

ThreadType ==
    /\ num \in [Thread -> Nat]
    /\ cb \in [Thread -> Callback \cup {Dummy, NoCallback}]
    /\ leader \in [Thread -> BOOLEAN]
    /\ sema \in [Thread -> {0, 1}]
    /\ lead \in [Thread -> Thread \cup {NoThread}]
    /\ wakeup \in [Thread -> SUBSET Thread]
    /\ callbacks \in [Thread -> SUBSET Pending]
    /\ ret \in [Thread -> Nat]
    /\ fired \in [Callback -> Nat]

LogLabel == {"idle", "flush", "promise", "write", "write_buf", "wrote",
             "write_release", "log_flush", "fsync", "fsynced", "flushed",
             "flush_release", "prepare_flush", "prepare_write", "exclusive"}

LogType ==
    /\ lsn \in Lsn /\ write_lsn \in Lsn /\ flushed_to_disk_lsn \in Lsn
    /\ log_write_through \in WriteThrough
    /\ latch \in Thread \cup {NoThread}
    /\ cached \subseteq Lsn
    /\ at \in [Thread -> LogLabel]
    /\ job \in [Thread -> Job]
    /\ asked \in [Callback -> [lsn : Lsn, durable : BOOLEAN]]
    /\ exposed \subseteq Lsn

LEMMA TypeParts ==
    TypeOK <=> FLockType /\ WLockType /\ ThreadType /\ LogType
<1>1. /\ F!PendingCallback = Pending /\ W!PendingCallback = Pending
      /\ F!AnyCallback = Callback \cup {Dummy}
      /\ W!AnyCallback = Callback \cup {Dummy}
      /\ F!Outside \cup F!InAcquire \cup {"ACQUIRED", "release"} = Label
      /\ W!Outside \cup W!InAcquire \cup {"ACQUIRED", "release"} = Label
      /\ (Callback \cup {Dummy}) \cup {NoCallback} =
             Callback \cup {Dummy, NoCallback}
  BY DEF Pending, Label, F!PendingCallback, W!PendingCallback, F!AnyCallback,
         W!AnyCallback, F!Outside, W!Outside, F!InAcquire, W!InAcquire
<1> HIDE DEF Pending, Label
<1>2. F!TypeOK <=> FLockType /\ ThreadType
  BY <1>1 DEF F!TypeOK, FLockType, ThreadType
<1>3. W!TypeOK <=> WLockType /\ ThreadType
  BY <1>1 DEF W!TypeOK, WLockType, ThreadType
<1>4. QED BY <1>2, <1>3 DEF TypeOK, LogType, LogLabel

LEMMA FAcquireType ==
    ASSUME NEW t \in Thread, NEW n \in Nat,
           NEW c \in Callback \cup {Dummy, NoCallback},
           FLockType, ThreadType, F!Acquire(t, n, c)
    PROVE  FLockType' /\ ThreadType'
<1> USE DEF FLockType, ThreadType, Label, F!Goto, F!lockVars, F!waiterVars,
            F!releaseVars
<1>1. CASE F!AcquireFast(t, n, c)
  BY <1>1 DEF F!AcquireFast, F!Invoke
<1>2. CASE F!AcquireSlow(t, n, c)
  BY <1>2 DEF F!AcquireSlow
<1> QED BY <1>1, <1>2 DEF F!Acquire

LEMMA WAcquireType ==
    ASSUME NEW t \in Thread, NEW n \in Nat,
           NEW c \in Callback \cup {Dummy, NoCallback},
           WLockType, ThreadType, W!Acquire(t, n, c)
    PROVE  WLockType' /\ ThreadType'
<1> USE DEF WLockType, ThreadType, Label, W!Goto, W!lockVars, W!waiterVars,
            W!releaseVars
<1>1. CASE W!AcquireFast(t, n, c)
  BY <1>1 DEF W!AcquireFast, W!Invoke
<1>2. CASE W!AcquireSlow(t, n, c)
  BY <1>2 DEF W!AcquireSlow
<1> QED BY <1>1, <1>2 DEF W!Acquire

LEMMA FSetPendingType ==
    ASSUME NEW t \in Thread, NEW n \in Nat,
           FLockType, ThreadType, F!SetPending(t, n)
    PROVE  FLockType' /\ ThreadType'
BY DEF FLockType, ThreadType, F!SetPending, F!waiterVars, F!releaseVars

LEMMA WSetPendingType ==
    ASSUME NEW t \in Thread, NEW n \in Nat,
           WLockType, ThreadType, W!SetPending(t, n)
    PROVE  WLockType' /\ ThreadType'
BY DEF WLockType, ThreadType, W!SetPending, W!waiterVars, W!releaseVars

LEMMA FReleaseType ==
    ASSUME NEW t \in Thread, NEW n \in Nat,
           FLockType, ThreadType, F!Release(t, n)
    PROVE  FLockType' /\ ThreadType'
<1>1. /\ F!StillPending(n) \subseteq Pending
      /\ F!Due(n) \subseteq Pending
      /\ F!Unreached(n) \subseteq Thread
      /\ F!Reached(n) \subseteq Thread
      /\ F!Candidates(n) \subseteq Thread
  BY DEF F!StillPending, F!Due, F!Unreached, F!Reached, F!Candidates,
         FLockType
<1>2. /\ callbacks' \in [Thread -> SUBSET Pending]
      /\ fired' \in [Callback -> Nat]
      /\ f_pending_callbacks' \subseteq Pending
  BY <1>1 DEF F!Release, F!CollectCallbacks, F!Invoke, FLockType, ThreadType
<1>3. /\ leader' \in [Thread -> BOOLEAN]
      /\ lead' \in [Thread -> Thread \cup {NoThread}]
      /\ f_waiters_list' \subseteq Thread
      /\ wakeup' \in [Thread -> SUBSET Thread]
      /\ ret' \in [Thread -> Nat]
  <2>1. CASE \E l \in F!Candidates(n) : F!WakeWithLeader(t, n, l)
    BY <2>1, <1>1 DEF F!WakeWithLeader, ThreadType
  <2>2. CASE F!WakeWithoutLeader(t, n)
    <3>1. \A c \in F!StillPending(n) : c.num \in Nat
      BY <1>1 DEF Pending
    <3>2. ret' \in [Thread -> Nat]
      BY <2>2, <3>1 DEF F!WakeWithoutLeader, ThreadType
    <3> QED BY <2>2, <3>2, <1>1 DEF F!WakeWithoutLeader, ThreadType
  <2> QED BY <2>1, <2>2 DEF F!Release
<1>4. /\ f_value' \in Nat /\ f_pending_value' \in Nat /\ f_lock' \in BOOLEAN
      /\ f_pc' \in [Thread -> Label]
      /\ UNCHANGED <<num, cb, sema>>
  BY DEF F!Release, F!Goto, FLockType, Label
<1> QED BY <1>2, <1>3, <1>4 DEF FLockType, ThreadType

LEMMA WReleaseType ==
    ASSUME NEW t \in Thread, NEW n \in Nat,
           WLockType, ThreadType, W!Release(t, n)
    PROVE  WLockType' /\ ThreadType'
<1>1. /\ W!StillPending(n) \subseteq Pending
      /\ W!Due(n) \subseteq Pending
      /\ W!Unreached(n) \subseteq Thread
      /\ W!Reached(n) \subseteq Thread
      /\ W!Candidates(n) \subseteq Thread
  BY DEF W!StillPending, W!Due, W!Unreached, W!Reached, W!Candidates,
         WLockType
<1>2. /\ callbacks' \in [Thread -> SUBSET Pending]
      /\ fired' \in [Callback -> Nat]
      /\ w_pending_callbacks' \subseteq Pending
  BY <1>1 DEF W!Release, W!CollectCallbacks, W!Invoke, WLockType, ThreadType
<1>3. /\ leader' \in [Thread -> BOOLEAN]
      /\ lead' \in [Thread -> Thread \cup {NoThread}]
      /\ w_waiters_list' \subseteq Thread
      /\ wakeup' \in [Thread -> SUBSET Thread]
      /\ ret' \in [Thread -> Nat]
  <2>1. CASE \E l \in W!Candidates(n) : W!WakeWithLeader(t, n, l)
    BY <2>1, <1>1 DEF W!WakeWithLeader, ThreadType
  <2>2. CASE W!WakeWithoutLeader(t, n)
    <3>1. \A c \in W!StillPending(n) : c.num \in Nat
      BY <1>1 DEF Pending
    <3>2. ret' \in [Thread -> Nat]
      BY <2>2, <3>1 DEF W!WakeWithoutLeader, ThreadType
    <3> QED BY <2>2, <3>2, <1>1 DEF W!WakeWithoutLeader, ThreadType
  <2> QED BY <2>1, <2>2 DEF W!Release
<1>4. /\ w_value' \in Nat /\ w_pending_value' \in Nat /\ w_lock' \in BOOLEAN
      /\ w_pc' \in [Thread -> Label]
      /\ UNCHANGED <<num, cb, sema>>
  BY DEF W!Release, W!Goto, WLockType, Label
<1> QED BY <1>2, <1>3, <1>4 DEF WLockType, ThreadType

LEMMA FStepType ==
    ASSUME NEW t \in Thread, FLockType, ThreadType,
           F!AcquireStep(t) \/ F!ReleaseStep(t)
    PROVE  FLockType' /\ ThreadType'
<1> USE DEF FLockType, ThreadType, Label, F!Goto, F!Return, F!lockVars,
            F!waiterVars, F!releaseVars
<1>1. CASE F!LoopEnter(t) BY <1>1 DEF F!LoopEnter
<1>2. CASE F!LoopExit(t) BY <1>2 DEF F!LoopExit, F!Invoke
<1>3. CASE F!RecheckExpired(t) BY <1>3 DEF F!RecheckExpired, F!Invoke
<1>4. CASE F!TakeLock(t)
  BY <1>4 DEF F!TakeLock, F!PushCallback, Pending
<1>5. CASE F!QueueCallback(t)
  BY <1>5 DEF F!QueueCallback, F!PushCallback, Pending
<1>6. CASE F!Enqueue(t) BY <1>6 DEF F!Enqueue
<1>7. CASE F!WakeUp(t) BY <1>7 DEF F!WakeUp
<1>8. CASE F!WakeLead(t) BY <1>8 DEF F!WakeLead
<1>9. CASE F!RunCallback(t) BY <1>9 DEF F!RunCallback, F!Invoke
<1>10. CASE F!WakeOther(t) BY <1>10 DEF F!WakeOther
<1>11. CASE F!ReleaseReturn(t) BY <1>11 DEF F!ReleaseReturn
<1> QED BY <1>1, <1>2, <1>3, <1>4, <1>5, <1>6, <1>7, <1>8, <1>9, <1>10, <1>11
        DEF F!AcquireStep, F!ReleaseStep

LEMMA WStepType ==
    ASSUME NEW t \in Thread, WLockType, ThreadType,
           W!AcquireStep(t) \/ W!ReleaseStep(t)
    PROVE  WLockType' /\ ThreadType'
<1> USE DEF WLockType, ThreadType, Label, W!Goto, W!Return, W!lockVars,
            W!waiterVars, W!releaseVars
<1>1. CASE W!LoopEnter(t) BY <1>1 DEF W!LoopEnter
<1>2. CASE W!LoopExit(t) BY <1>2 DEF W!LoopExit, W!Invoke
<1>3. CASE W!RecheckExpired(t) BY <1>3 DEF W!RecheckExpired, W!Invoke
<1>4. CASE W!TakeLock(t)
  BY <1>4 DEF W!TakeLock, W!PushCallback, Pending
<1>5. CASE W!QueueCallback(t)
  BY <1>5 DEF W!QueueCallback, W!PushCallback, Pending
<1>6. CASE W!Enqueue(t) BY <1>6 DEF W!Enqueue
<1>7. CASE W!WakeUp(t) BY <1>7 DEF W!WakeUp
<1>8. CASE W!WakeLead(t) BY <1>8 DEF W!WakeLead
<1>9. CASE W!RunCallback(t) BY <1>9 DEF W!RunCallback, W!Invoke
<1>10. CASE W!WakeOther(t) BY <1>10 DEF W!WakeOther
<1>11. CASE W!ReleaseReturn(t) BY <1>11 DEF W!ReleaseReturn
<1> QED BY <1>1, <1>2, <1>3, <1>4, <1>5, <1>6, <1>7, <1>8, <1>9, <1>10, <1>11
        DEF W!AcquireStep, W!ReleaseStep

-----------------------------------------------------------------------------
(* What a step of one thread leaves alone.                                 *)

\* The locals that log0log.cc and the locks keep of thread u, except for the
\* semaphore and the leader flag, which other threads set.
Same(u) ==
    /\ at'[u] = at[u] /\ job'[u] = job[u]
    /\ f_pc'[u] = f_pc[u] /\ w_pc'[u] = w_pc[u]
    /\ num'[u] = num[u] /\ cb'[u] = cb[u]
    /\ callbacks'[u] = callbacks[u] /\ ret'[u] = ret[u]

LocksSame(u) ==
    /\ f_pc'[u] = f_pc[u] /\ w_pc'[u] = w_pc[u]
    /\ num'[u] = num[u] /\ cb'[u] = cb[u]
    /\ callbacks'[u] = callbacks[u] /\ ret'[u] = ret[u]

LEMMA FLockOthers ==
    ASSUME NEW t \in Thread, NEW u \in Thread \ {t},
           FLockType, ThreadType, UNCHANGED w_pc,
           \/ \E n, c : F!Acquire(t, n, c)
           \/ \E n : F!SetPending(t, n)
           \/ \E n : F!Release(t, n)
           \/ F!AcquireStep(t) \/ F!ReleaseStep(t)
    PROVE  LocksSame(u)
<1> USE DEF FLockType, ThreadType, LocksSame, F!Goto, F!Return, F!lockVars,
            F!waiterVars, F!releaseVars
<1>1. ASSUME NEW n, NEW c, F!Acquire(t, n, c) PROVE LocksSame(u)
  BY <1>1 DEF F!Acquire, F!AcquireFast, F!AcquireSlow
<1>2. ASSUME NEW n, F!SetPending(t, n) PROVE LocksSame(u)
  BY <1>2 DEF F!SetPending
<1>3. ASSUME NEW n, F!Release(t, n) PROVE LocksSame(u)
  <2>1. /\ f_pc'[u] = f_pc[u] /\ num'[u] = num[u] /\ cb'[u] = cb[u]
        /\ callbacks'[u] = callbacks[u]
    BY <1>3 DEF F!Release, F!CollectCallbacks
  <2>2. ret'[u] = ret[u]
    BY <1>3 DEF F!Release, F!WakeWithLeader, F!WakeWithoutLeader
  <2> QED BY <2>1, <2>2
<1>4. CASE F!AcquireStep(t)
  BY <1>4 DEF F!AcquireStep, F!LoopEnter, F!LoopExit, F!RecheckExpired,
     F!TakeLock, F!QueueCallback, F!Enqueue, F!WakeUp
<1>5. CASE F!ReleaseStep(t)
  BY <1>5 DEF F!ReleaseStep, F!WakeLead, F!RunCallback, F!WakeOther,
     F!ReleaseReturn
<1> QED BY <1>1, <1>2, <1>3, <1>4, <1>5

LEMMA WLockOthers ==
    ASSUME NEW t \in Thread, NEW u \in Thread \ {t},
           WLockType, ThreadType, UNCHANGED f_pc,
           \/ \E n, c : W!Acquire(t, n, c)
           \/ \E n : W!SetPending(t, n)
           \/ \E n : W!Release(t, n)
           \/ W!AcquireStep(t) \/ W!ReleaseStep(t)
    PROVE  LocksSame(u)
<1> USE DEF WLockType, ThreadType, LocksSame, W!Goto, W!Return, W!lockVars,
            W!waiterVars, W!releaseVars
<1>1. ASSUME NEW n, NEW c, W!Acquire(t, n, c) PROVE LocksSame(u)
  BY <1>1 DEF W!Acquire, W!AcquireFast, W!AcquireSlow
<1>2. ASSUME NEW n, W!SetPending(t, n) PROVE LocksSame(u)
  BY <1>2 DEF W!SetPending
<1>3. ASSUME NEW n, W!Release(t, n) PROVE LocksSame(u)
  <2>1. /\ w_pc'[u] = w_pc[u] /\ num'[u] = num[u] /\ cb'[u] = cb[u]
        /\ callbacks'[u] = callbacks[u]
    BY <1>3 DEF W!Release, W!CollectCallbacks
  <2>2. ret'[u] = ret[u]
    BY <1>3 DEF W!Release, W!WakeWithLeader, W!WakeWithoutLeader
  <2> QED BY <2>1, <2>2
<1>4. CASE W!AcquireStep(t)
  BY <1>4 DEF W!AcquireStep, W!LoopEnter, W!LoopExit, W!RecheckExpired,
     W!TakeLock, W!QueueCallback, W!Enqueue, W!WakeUp
<1>5. CASE W!ReleaseStep(t)
  BY <1>5 DEF W!ReleaseStep, W!WakeLead, W!RunCallback, W!WakeOther,
     W!ReleaseReturn
<1> QED BY <1>1, <1>2, <1>3, <1>4, <1>5

LEMMA Others ==
    ASSUME TypeOK, NEW t \in Thread, Start(t) \/ Continue(t),
           NEW u \in Thread \ {t}
    PROVE  Same(u)
<1> USE TypeParts, FLockOthers, WLockOthers DEF Same, LocksSame, Go, LogType
<1>L. ASSUME UNCHANGED <<fVars, wVars, threadVars>> PROVE LocksSame(u)
  BY <1>L DEF fVars, wVars, threadVars
<1>W. ASSUME UNCHANGED wVars PROVE UNCHANGED w_pc
  BY <1>W DEF wVars
<1>F. ASSUME UNCHANGED fVars PROVE UNCHANGED f_pc
  BY <1>F DEF fVars
<1>R. ASSUME NEW j, Repeat(t, j) PROVE Same(u)
  <2>1. at'[u] = at[u] /\ job'[u] = job[u]
    BY <1>R DEF Repeat
  <2>2. CASE F!Acquire(t, j.lsn, j.cb) /\ UNCHANGED wVars
    BY <2>1, <2>2, <1>W
  <2>3. CASE W!Acquire(t, j.lsn, j.cb) /\ UNCHANGED fVars
    BY <2>1, <2>3, <1>F
  <2> QED BY <1>R, <2>2, <2>3 DEF Repeat
<1>D. ASSUME Finish(t) PROVE Same(u)
  BY <1>D DEF Finish, FLockType, WLockType, ThreadType
<1>P. ASSUME PrepareFlushLock(t) PROVE LocksSame(u) /\ at'[u] = at[u]
  BY <1>P, <1>W DEF PrepareFlushLock
<1>Q. ASSUME PrepareWriteLock(t) PROVE Same(u)
  BY <1>Q, <1>F DEF PrepareWriteLock
<1>1. CASE CallWriteUpTo(t) BY <1>1, <1>R DEF CallWriteUpTo
<1>2. CASE CallWriteAndFlush(t) BY <1>2, <1>P DEF CallWriteAndFlush
<1>3. CASE CallResize(t) BY <1>3, <1>P DEF CallResize
<1>4. CASE LockStep(t)
  <2>1. CASE (F!AcquireStep(t) \/ F!ReleaseStep(t)) /\ UNCHANGED wVars
    BY <1>4, <2>1, <1>W DEF LockStep
  <2>2. CASE (W!AcquireStep(t) \/ W!ReleaseStep(t)) /\ UNCHANGED fVars
    BY <1>4, <2>2, <1>F DEF LockStep
  <2> QED BY <1>4, <2>1, <2>2 DEF LockStep
<1>5. CASE FlushCovered(t) BY <1>5, <1>D DEF FlushCovered
<1>6. CASE FlushLead(t) BY <1>6, <1>W DEF FlushLead
<1>7. CASE AcquireWriteLock(t) BY <1>7, <1>F DEF AcquireWriteLock
<1>8. CASE WriteCovered(t) BY <1>8, <1>D, <1>L DEF WriteCovered
<1>9. CASE StartWrite(t) BY <1>9, <1>L, <1>F DEF StartWrite
<1>10. CASE WriteBuf(t) BY <1>10, <1>L DEF WriteBuf
<1>11. CASE ReleaseWriteLock(t) BY <1>11, <1>F DEF ReleaseWriteLock
<1>12. CASE WriteReleased(t)
  BY <1>12, <1>D, <1>L, <1>R DEF WriteReleased, Settle
<1>13. CASE LogFlush(t) BY <1>13, <1>W DEF LogFlush
<1>14. CASE Fsync(t) BY <1>14, <1>L DEF Fsync
<1>15. CASE PublishFlushed(t) BY <1>15, <1>L DEF PublishFlushed
<1>16. CASE ReleaseFlushLock(t) BY <1>16, <1>W DEF ReleaseFlushLock
<1>17. CASE FlushReleased(t) BY <1>17, <1>D, <1>R DEF FlushReleased, Settle
<1>18. CASE PrepareAgain(t) BY <1>18, <1>P, <1>Q DEF PrepareAgain
<1>19. CASE LatchExclusive(t) BY <1>19, <1>L DEF LatchExclusive
<1>20. CASE ResizeSection(t) BY <1>20, <1>L DEF ResizeSection
<1> QED BY <1>1, <1>2, <1>3, <1>4, <1>5, <1>6, <1>7, <1>8, <1>9, <1>10,
           <1>11, <1>12, <1>13, <1>14, <1>15, <1>16, <1>17, <1>18, <1>19,
           <1>20 DEF Start, Continue

-----------------------------------------------------------------------------
(* The owners of the locks.                                                *)

\* Where a call of flush_lock starts and how far its steps go.
LEMMA FLockSelf ==
    ASSUME NEW t \in Thread, FLockType
    PROVE  /\ \A n, c : F!Acquire(t, n, c) =>
                  f_pc[t] \in F!Outside /\ f_pc'[t] \in {"EXPIRED", "loop"}
           /\ \A n : F!SetPending(t, n) => f_pc[t] = "ACQUIRED" /\ f_pc' = f_pc
           /\ \A n : F!Release(t, n) =>
                  f_pc[t] = "ACQUIRED" /\ f_pc'[t] = "release"
           /\ F!AcquireStep(t) =>
                  f_pc[t] \in F!InAcquire /\ f_pc'[t] \in Acquiring
           /\ F!ReleaseStep(t) =>
                  f_pc[t] = "release" /\ f_pc'[t] \in {"release", "released"}
<1> USE DEF FLockType, F!Goto, F!Return, F!InAcquire, Acquiring
<1>1. ASSUME NEW n, NEW c, F!Acquire(t, n, c)
      PROVE  f_pc[t] \in F!Outside /\ f_pc'[t] \in {"EXPIRED", "loop"}
  BY <1>1 DEF F!Acquire, F!AcquireFast, F!AcquireSlow
<1>2. ASSUME NEW n, F!SetPending(t, n)
      PROVE  f_pc[t] = "ACQUIRED" /\ f_pc' = f_pc
  BY <1>2 DEF F!SetPending
<1>3. ASSUME NEW n, F!Release(t, n)
      PROVE  f_pc[t] = "ACQUIRED" /\ f_pc'[t] = "release"
  BY <1>3 DEF F!Release
<1>4. ASSUME F!AcquireStep(t)
      PROVE  f_pc[t] \in F!InAcquire /\ f_pc'[t] \in Acquiring
  BY <1>4 DEF F!AcquireStep, F!LoopEnter, F!LoopExit, F!RecheckExpired,
     F!TakeLock, F!QueueCallback, F!Enqueue, F!WakeUp
<1>5. ASSUME F!ReleaseStep(t)
      PROVE  f_pc[t] = "release" /\ f_pc'[t] \in {"release", "released"}
  BY <1>5 DEF F!ReleaseStep, F!WakeLead, F!RunCallback, F!WakeOther,
     F!ReleaseReturn
<1> QED BY <1>1, <1>2, <1>3, <1>4, <1>5

\* Where a call of write_lock starts and how far its steps go.
LEMMA WLockSelf ==
    ASSUME NEW t \in Thread, WLockType
    PROVE  /\ \A n, c : W!Acquire(t, n, c) =>
                  w_pc[t] \in W!Outside /\ w_pc'[t] \in {"EXPIRED", "loop"}
           /\ \A n : W!SetPending(t, n) => w_pc[t] = "ACQUIRED" /\ w_pc' = w_pc
           /\ \A n : W!Release(t, n) =>
                  w_pc[t] = "ACQUIRED" /\ w_pc'[t] = "release"
           /\ W!AcquireStep(t) =>
                  w_pc[t] \in W!InAcquire /\ w_pc'[t] \in Acquiring
           /\ W!ReleaseStep(t) =>
                  w_pc[t] = "release" /\ w_pc'[t] \in {"release", "released"}
<1> USE DEF WLockType, W!Goto, W!Return, W!InAcquire, Acquiring
<1>1. ASSUME NEW n, NEW c, W!Acquire(t, n, c)
      PROVE  w_pc[t] \in W!Outside /\ w_pc'[t] \in {"EXPIRED", "loop"}
  BY <1>1 DEF W!Acquire, W!AcquireFast, W!AcquireSlow
<1>2. ASSUME NEW n, W!SetPending(t, n)
      PROVE  w_pc[t] = "ACQUIRED" /\ w_pc' = w_pc
  BY <1>2 DEF W!SetPending
<1>3. ASSUME NEW n, W!Release(t, n)
      PROVE  w_pc[t] = "ACQUIRED" /\ w_pc'[t] = "release"
  BY <1>3 DEF W!Release
<1>4. ASSUME W!AcquireStep(t)
      PROVE  w_pc[t] \in W!InAcquire /\ w_pc'[t] \in Acquiring
  BY <1>4 DEF W!AcquireStep, W!LoopEnter, W!LoopExit, W!RecheckExpired,
     W!TakeLock, W!QueueCallback, W!Enqueue, W!WakeUp
<1>5. ASSUME W!ReleaseStep(t)
      PROVE  w_pc[t] = "release" /\ w_pc'[t] \in {"release", "released"}
  BY <1>5 DEF W!ReleaseStep, W!WakeLead, W!RunCallback, W!WakeOther,
     W!ReleaseReturn
<1> QED BY <1>1, <1>2, <1>3, <1>4, <1>5

\* flush_lock keeps having at most one owner.
LEMMA FLockOwner ==
    ASSUME NEW t \in Thread, FLockType, OneFlushOwner,
           \/ \E n, c : F!Acquire(t, n, c)
           \/ \E n : F!SetPending(t, n)
           \/ \E n : F!Release(t, n)
           \/ F!AcquireStep(t) \/ F!ReleaseStep(t)
           \/ UNCHANGED <<f_pc, f_lock>>
           \/ /\ f_pc[t] # "ACQUIRED" /\ f_lock' = f_lock
              /\ f_pc' = [f_pc EXCEPT ![t] = "idle"]
    PROVE  OneFlushOwner'
<1> USE DEF OneFlushOwner
<1>T. f_pc \in [Thread -> Label]
  BY DEF FLockType
<1>1. CASE /\ f_lock' = f_lock
           /\ \E l \in Label \ {"ACQUIRED"} :
                  f_pc[t] # "ACQUIRED" /\ f_pc' = [f_pc EXCEPT ![t] = l]
  BY <1>1, <1>T
<1>2. CASE UNCHANGED <<f_pc, f_lock>>
  BY <1>2
<1>3. CASE F!TakeLock(t)
  BY <1>3, <1>T DEF F!TakeLock, F!Return, F!Goto
<1>4. ASSUME NEW n, F!Release(t, n) PROVE OneFlushOwner'
  BY <1>4, <1>T DEF F!Release, F!Goto
<1> USE DEF Label, F!Goto, F!Return, F!lockVars
<1>5. ASSUME NEW n, NEW c, F!Acquire(t, n, c) PROVE OneFlushOwner'
  BY <1>5, <1>1 DEF F!Acquire, F!AcquireFast, F!AcquireSlow, F!Outside
<1>6. CASE F!AcquireStep(t)
  BY <1>6, <1>1, <1>3 DEF F!AcquireStep, F!LoopEnter, F!LoopExit,
     F!RecheckExpired, F!QueueCallback, F!Enqueue, F!WakeUp
<1>7. CASE F!ReleaseStep(t)
  BY <1>7, <1>1, <1>2 DEF F!ReleaseStep, F!WakeLead, F!RunCallback,
     F!WakeOther, F!ReleaseReturn
<1>8. ASSUME NEW n, F!SetPending(t, n) PROVE OneFlushOwner'
  BY <1>8, <1>2 DEF F!SetPending
<1>9. CASE /\ f_pc[t] # "ACQUIRED" /\ f_lock' = f_lock
           /\ f_pc' = [f_pc EXCEPT ![t] = "idle"]
  BY <1>9, <1>1
<1> QED BY <1>2, <1>4, <1>5, <1>6, <1>7, <1>8, <1>9

\* write_lock keeps having at most one owner.
LEMMA WLockOwner ==
    ASSUME NEW t \in Thread, WLockType, OneWriteOwner,
           \/ \E n, c : W!Acquire(t, n, c)
           \/ \E n : W!SetPending(t, n)
           \/ \E n : W!Release(t, n)
           \/ W!AcquireStep(t) \/ W!ReleaseStep(t)
           \/ UNCHANGED <<w_pc, w_lock>>
           \/ /\ w_pc[t] # "ACQUIRED" /\ w_lock' = w_lock
              /\ w_pc' = [w_pc EXCEPT ![t] = "idle"]
    PROVE  OneWriteOwner'
<1> USE DEF OneWriteOwner
<1>T. w_pc \in [Thread -> Label]
  BY DEF WLockType
<1>1. CASE /\ w_lock' = w_lock
           /\ \E l \in Label \ {"ACQUIRED"} :
                  w_pc[t] # "ACQUIRED" /\ w_pc' = [w_pc EXCEPT ![t] = l]
  BY <1>1, <1>T
<1>2. CASE UNCHANGED <<w_pc, w_lock>>
  BY <1>2
<1>3. CASE W!TakeLock(t)
  BY <1>3, <1>T DEF W!TakeLock, W!Return, W!Goto
<1>4. ASSUME NEW n, W!Release(t, n) PROVE OneWriteOwner'
  BY <1>4, <1>T DEF W!Release, W!Goto
<1> USE DEF Label, W!Goto, W!Return, W!lockVars
<1>5. ASSUME NEW n, NEW c, W!Acquire(t, n, c) PROVE OneWriteOwner'
  BY <1>5, <1>1 DEF W!Acquire, W!AcquireFast, W!AcquireSlow, W!Outside
<1>6. CASE W!AcquireStep(t)
  BY <1>6, <1>1, <1>3 DEF W!AcquireStep, W!LoopEnter, W!LoopExit,
     W!RecheckExpired, W!QueueCallback, W!Enqueue, W!WakeUp
<1>7. CASE W!ReleaseStep(t)
  BY <1>7, <1>1, <1>2 DEF W!ReleaseStep, W!WakeLead, W!RunCallback,
     W!WakeOther, W!ReleaseReturn
<1>8. ASSUME NEW n, W!SetPending(t, n) PROVE OneWriteOwner'
  BY <1>8, <1>2 DEF W!SetPending
<1>9. CASE /\ w_pc[t] # "ACQUIRED" /\ w_lock' = w_lock
           /\ w_pc' = [w_pc EXCEPT ![t] = "idle"]
  BY <1>9, <1>1
<1> QED BY <1>2, <1>4, <1>5, <1>6, <1>7, <1>8, <1>9

\* The locals of the calls of log_write_up_to() that the model makes.
SyncCall(l, d) ==
    [NoJob EXCEPT !.op = "write_up_to", !.lsn = l, !.durable = d,
                  !.goal = IF d THEN l ELSE 0]
AsyncCall(l, d, c) ==
    [NoJob EXCEPT !.op = "write_up_to", !.lsn = l, !.durable = d, !.cb = c]
Again(j, l) ==
    [j EXCEPT !.op = "write_up_to", !.lsn = l, !.owed = 0, !.n = 0,
              !.cb = IF j.op = "resize" THEN NoCallback ELSE Dummy]

LEMMA Calls ==
    /\ \A l, d :
           /\ SyncCall(l, d).op = "write_up_to"
           /\ SyncCall(l, d).lsn = l
           /\ SyncCall(l, d).durable = d
           /\ SyncCall(l, d).cb = NoCallback
           /\ SyncCall(l, d).n = 0
           /\ SyncCall(l, d).owed = 0
           /\ SyncCall(l, d).goal = IF d THEN l ELSE 0
    /\ \A l, d, c :
           /\ AsyncCall(l, d, c).op = "write_up_to"
           /\ AsyncCall(l, d, c).lsn = l
           /\ AsyncCall(l, d, c).durable = d
           /\ AsyncCall(l, d, c).cb = c
           /\ AsyncCall(l, d, c).n = 0
           /\ AsyncCall(l, d, c).owed = 0
           /\ AsyncCall(l, d, c).goal = 0
    /\ \A j \in Job : \A l :
           /\ Again(j, l).op = "write_up_to"
           /\ Again(j, l).lsn = l
           /\ Again(j, l).durable = j.durable
           /\ Again(j, l).cb = IF j.op = "resize" THEN NoCallback ELSE Dummy
           /\ Again(j, l).n = 0
           /\ Again(j, l).owed = 0
           /\ Again(j, l).goal = j.goal
BY DEF SyncCall, AsyncCall, Again, NoJob, Job

\* Who calls log_write_up_to(), or calls it again.
LEMMA CallCases ==
    ASSUME NEW t \in Thread, CallWriteUpTo(t)
    PROVE  \E l \in 1..lsn, d \in BOOLEAN :
               \/ Repeat(t, SyncCall(l, d)) /\ UNCHANGED asked
               \/ \E c \in Callback :
                      /\ asked[c] = NotAsked
                      /\ asked' = [asked EXCEPT ![c] = [lsn |-> l,
                                                       durable |-> d]]
                      /\ Repeat(t, AsyncCall(l, d, c))
BY DEF CallWriteUpTo, SyncCall, AsyncCall

LEMMA SettleCases ==
    ASSUME NEW t \in Thread, NEW l, Settle(t, l)
    PROVE  \/ l = 0 /\ Finish(t) /\ UNCHANGED latch
           \/ l # 0 /\ Repeat(t, Again(job[t], l)) /\ UNCHANGED asked
BY DEF Settle, Again

InPlace(t) == Placed(t) /\ InFlushLock(t) /\ InWriteLock(t)

LEMMA InPlaceStable ==
    ASSUME NEW u \in Thread, InPlace(u), Same(u)
    PROVE  InPlace(u)'
BY DEF InPlace, Placed, InFlushLock, InWriteLock, OwnsFlush, OwnsWrite, Same

\* Where the steps of one thread take it.
LEMMA InPlaceStep ==
    ASSUME TypeOK, NEW t \in Thread, InPlace(t), Start(t) \/ Continue(t)
    PROVE  InPlace(t)'
<1> USE TypeParts, FLockSelf, WLockSelf
    DEF InPlace, Placed, InFlushLock, InWriteLock, OwnsFlush, OwnsWrite, Go,
        LogType, Job, NoJob, F!Outside, W!Outside, F!InAcquire, W!InAcquire,
        Acquiring
<1>L. ASSUME UNCHANGED <<fVars, wVars, threadVars>>
      PROVE  f_pc'[t] = f_pc[t] /\ w_pc'[t] = w_pc[t]
  BY <1>L DEF fVars, wVars
<1>W. ASSUME UNCHANGED wVars PROVE w_pc'[t] = w_pc[t]
  BY <1>W DEF wVars
<1>F. ASSUME UNCHANGED fVars PROVE f_pc'[t] = f_pc[t]
  BY <1>F DEF fVars
<1>R. ASSUME NEW j, Repeat(t, j), j.op = "write_up_to",
             j.durable \in BOOLEAN,
             f_pc[t] \in F!Outside, w_pc[t] \in W!Outside
      PROVE  InPlace(t)'
  BY <1>R, <1>W, <1>F DEF Repeat
<1>D. ASSUME Finish(t) PROVE InPlace(t)'
  BY <1>D DEF Finish, FLockType, WLockType
<1>1. CASE CallWriteUpTo(t)
  <2>1. at[t] = "idle" BY <1>1 DEF CallWriteUpTo
  <2> QED BY <1>1, <2>1, <1>R, Calls, CallCases
<1>2. CASE CallWriteAndFlush(t)
  BY <1>2, <1>W DEF CallWriteAndFlush, PrepareFlushLock
<1>3. CASE CallResize(t) BY <1>3, <1>W DEF CallResize, PrepareFlushLock
<1>4. CASE LockStep(t)
  <2>1. CASE (F!AcquireStep(t) \/ F!ReleaseStep(t)) /\ UNCHANGED wVars
    BY <1>4, <2>1, <1>W DEF LockStep
  <2>2. CASE (W!AcquireStep(t) \/ W!ReleaseStep(t)) /\ UNCHANGED fVars
    BY <1>4, <2>2, <1>F DEF LockStep
  <2> QED BY <1>4, <2>1, <2>2 DEF LockStep
<1>5. CASE FlushCovered(t) BY <1>5, <1>D DEF FlushCovered
<1>6. CASE FlushLead(t) BY <1>6, <1>W DEF FlushLead
<1>7. CASE AcquireWriteLock(t) BY <1>7, <1>F DEF AcquireWriteLock
<1>8. CASE WriteCovered(t) BY <1>8, <1>D, <1>L DEF WriteCovered
<1>9. CASE StartWrite(t) BY <1>9, <1>L, <1>F DEF StartWrite
<1>10. CASE WriteBuf(t) BY <1>10, <1>L DEF WriteBuf
<1>11. CASE ReleaseWriteLock(t) BY <1>11, <1>F DEF ReleaseWriteLock
<1>S. ASSUME NEW l, Settle(t, l), f_pc[t] \in F!Outside,
             w_pc[t] \in W!Outside
      PROVE  InPlace(t)'
  <2>1. job[t] \in Job /\ job[t].durable \in BOOLEAN
    OBVIOUS
  <2> QED BY <1>S, <2>1, <1>D, <1>R, Calls, SettleCases
<1>12. CASE WriteReleased(t)
  BY <1>12, <1>L, <1>S DEF WriteReleased
<1>13. CASE LogFlush(t) BY <1>13, <1>W DEF LogFlush
<1>14. CASE Fsync(t) BY <1>14, <1>L DEF Fsync
<1>15. CASE PublishFlushed(t) BY <1>15, <1>L DEF PublishFlushed
<1>16. CASE ReleaseFlushLock(t) BY <1>16, <1>W DEF ReleaseFlushLock
<1>17. CASE FlushReleased(t) BY <1>17, <1>D, <1>S DEF FlushReleased
<1>18. CASE PrepareAgain(t)
  BY <1>18, <1>W, <1>F DEF PrepareAgain, PrepareFlushLock, PrepareWriteLock
<1>19. CASE LatchExclusive(t) BY <1>19, <1>L DEF LatchExclusive
<1>20. CASE ResizeSection(t) BY <1>20, <1>L DEF ResizeSection
<1> QED BY <1>1, <1>2, <1>3, <1>4, <1>5, <1>6, <1>7, <1>8, <1>9, <1>10,
           <1>11, <1>12, <1>13, <1>14, <1>15, <1>16, <1>17, <1>18, <1>19,
           <1>20 DEF Start, Continue

\* What each step does with the two locks.
FlushOp(t) ==
    \/ \E n, c : F!Acquire(t, n, c)
    \/ \E n : F!SetPending(t, n)
    \/ \E n : F!Release(t, n)
    \/ F!AcquireStep(t) \/ F!ReleaseStep(t)
WriteOp(t) ==
    \/ \E n, c : W!Acquire(t, n, c)
    \/ \E n : W!SetPending(t, n)
    \/ \E n : W!Release(t, n)
    \/ W!AcquireStep(t) \/ W!ReleaseStep(t)

LEMMA LockOps ==
    ASSUME NEW t \in Thread, InPlace(t), Start(t) \/ Continue(t)
    PROVE  \/ FlushOp(t) /\ UNCHANGED wVars
           \/ WriteOp(t) /\ UNCHANGED fVars
           \/ UNCHANGED <<fVars, wVars, threadVars>>
           \/ Finish(t) /\ f_pc[t] \in F!Outside /\ w_pc[t] \in W!Outside
<1> DEFINE Uses == \/ FlushOp(t) /\ UNCHANGED wVars
                   \/ WriteOp(t) /\ UNCHANGED fVars
                   \/ UNCHANGED <<fVars, wVars, threadVars>>
                   \/ /\ Finish(t)
                      /\ f_pc[t] \in F!Outside /\ w_pc[t] \in W!Outside
<1> SUFFICES Uses OBVIOUS
<1> USE DEF InPlace, Placed, InFlushLock, InWriteLock, OwnsFlush, OwnsWrite,
            FlushOp, WriteOp, F!Outside, W!Outside
<1>R. ASSUME NEW j, Repeat(t, j) PROVE Uses
  BY <1>R DEF Repeat
<1>1. CASE CallWriteUpTo(t) BY <1>1, <1>R DEF CallWriteUpTo
<1>2. CASE CallWriteAndFlush(t)
  BY <1>2 DEF CallWriteAndFlush, PrepareFlushLock
<1>3. CASE CallResize(t) BY <1>3 DEF CallResize, PrepareFlushLock
<1>4. CASE LockStep(t) BY <1>4 DEF LockStep
<1>5. CASE FlushCovered(t) BY <1>5 DEF FlushCovered
<1>6. CASE FlushLead(t) BY <1>6 DEF FlushLead
<1>7. CASE AcquireWriteLock(t) BY <1>7 DEF AcquireWriteLock
<1>8. CASE WriteCovered(t) BY <1>8 DEF WriteCovered
<1>9. CASE StartWrite(t) BY <1>9 DEF StartWrite
<1>10. CASE WriteBuf(t) BY <1>10 DEF WriteBuf
<1>11. CASE ReleaseWriteLock(t) BY <1>11 DEF ReleaseWriteLock
<1>12. CASE WriteReleased(t) BY <1>12, <1>R DEF WriteReleased, Settle
<1>13. CASE LogFlush(t) BY <1>13 DEF LogFlush
<1>14. CASE Fsync(t) BY <1>14 DEF Fsync
<1>15. CASE PublishFlushed(t) BY <1>15 DEF PublishFlushed
<1>16. CASE ReleaseFlushLock(t) BY <1>16 DEF ReleaseFlushLock
<1>17. CASE FlushReleased(t) BY <1>17, <1>R DEF FlushReleased, Settle
<1>18. CASE PrepareAgain(t)
  BY <1>18 DEF PrepareAgain, PrepareFlushLock, PrepareWriteLock
<1>19. CASE LatchExclusive(t) BY <1>19 DEF LatchExclusive
<1>20. CASE ResizeSection(t) BY <1>20 DEF ResizeSection
<1> QED BY <1>1, <1>2, <1>3, <1>4, <1>5, <1>6, <1>7, <1>8, <1>9, <1>10,
           <1>11, <1>12, <1>13, <1>14, <1>15, <1>16, <1>17, <1>18, <1>19,
           <1>20 DEF Start, Continue

LEMMA OwnersStep ==
    ASSUME TypeOK, Owners, NEW t \in Thread, Start(t) \/ Continue(t)
    PROVE  Owners'
<1>1. \A u \in Thread : InPlace(u)
  BY DEF Owners, InPlace
<1>2. ASSUME NEW u \in Thread PROVE InPlace(u)'
  BY <1>1, <1>2, Others, InPlaceStable, InPlaceStep
<1>3. OneFlushOwner' /\ OneWriteOwner'
  <2> USE TypeParts DEF Owners
  <2>1. CASE FlushOp(t) /\ UNCHANGED wVars
    BY <2>1, FLockOwner, WLockOwner DEF FlushOp, wVars
  <2>2. CASE WriteOp(t) /\ UNCHANGED fVars
    BY <2>2, FLockOwner, WLockOwner DEF WriteOp, fVars
  <2>3. CASE UNCHANGED <<fVars, wVars, threadVars>>
    BY <2>3, FLockOwner, WLockOwner DEF fVars, wVars
  <2>4. CASE /\ Finish(t)
             /\ f_pc[t] \in F!Outside /\ w_pc[t] \in W!Outside
    <3>1. /\ f_pc[t] # "ACQUIRED" /\ w_pc[t] # "ACQUIRED"
          /\ f_lock' = f_lock /\ w_lock' = w_lock
          /\ f_pc' = [f_pc EXCEPT ![t] = "idle"]
          /\ w_pc' = [w_pc EXCEPT ![t] = "idle"]
      BY <2>4 DEF Finish, F!Outside, W!Outside
    <3> QED BY <3>1, FLockOwner, WLockOwner
  <2> QED BY <1>1, <2>1, <2>2, <2>3, <2>4, LockOps
<1> QED BY <1>2, <1>3 DEF Owners, InPlace

-----------------------------------------------------------------------------
(* The positions of the log.                                               *)

LEMMA FLockValues ==
    ASSUME NEW t \in Thread
    PROVE  /\ \A n, c : F!Acquire(t, n, c) =>
                  UNCHANGED <<f_value, f_pending_value>>
           /\ \A n : F!SetPending(t, n) =>
                  n >= f_value /\ f_value' = f_value /\ f_pending_value' = n
           /\ \A n : F!Release(t, n) =>
                  /\ n >= f_value /\ f_value' = n
                  /\ f_pending_value' = f_pending_value
           /\ F!AcquireStep(t) => UNCHANGED <<f_value, f_pending_value>>
           /\ F!ReleaseStep(t) => UNCHANGED <<f_value, f_pending_value>>
<1> USE DEF F!lockVars
<1>1. ASSUME NEW n, NEW c, F!Acquire(t, n, c)
      PROVE  UNCHANGED <<f_value, f_pending_value>>
  BY <1>1 DEF F!Acquire, F!AcquireFast, F!AcquireSlow
<1>2. ASSUME NEW n, F!SetPending(t, n)
      PROVE  n >= f_value /\ f_value' = f_value /\ f_pending_value' = n
  BY <1>2 DEF F!SetPending
<1>3. ASSUME NEW n, F!Release(t, n)
      PROVE  /\ n >= f_value /\ f_value' = n
             /\ f_pending_value' = f_pending_value
  BY <1>3 DEF F!Release
<1>4. ASSUME F!AcquireStep(t)
      PROVE  UNCHANGED <<f_value, f_pending_value>>
  BY <1>4 DEF F!AcquireStep, F!LoopEnter, F!LoopExit, F!RecheckExpired,
     F!TakeLock, F!QueueCallback, F!Enqueue, F!WakeUp
<1>5. ASSUME F!ReleaseStep(t)
      PROVE  UNCHANGED <<f_value, f_pending_value>>
  BY <1>5 DEF F!ReleaseStep, F!WakeLead, F!RunCallback, F!WakeOther,
     F!ReleaseReturn
<1> QED BY <1>1, <1>2, <1>3, <1>4, <1>5

LEMMA WLockValues ==
    ASSUME NEW t \in Thread
    PROVE  /\ \A n, c : W!Acquire(t, n, c) =>
                  UNCHANGED <<w_value, w_pending_value>>
           /\ \A n : W!SetPending(t, n) =>
                  n >= w_value /\ w_value' = w_value /\ w_pending_value' = n
           /\ \A n : W!Release(t, n) =>
                  /\ n >= w_value /\ w_value' = n
                  /\ w_pending_value' = w_pending_value
           /\ W!AcquireStep(t) => UNCHANGED <<w_value, w_pending_value>>
           /\ W!ReleaseStep(t) => UNCHANGED <<w_value, w_pending_value>>
<1> USE DEF W!lockVars
<1>1. ASSUME NEW n, NEW c, W!Acquire(t, n, c)
      PROVE  UNCHANGED <<w_value, w_pending_value>>
  BY <1>1 DEF W!Acquire, W!AcquireFast, W!AcquireSlow
<1>2. ASSUME NEW n, W!SetPending(t, n)
      PROVE  n >= w_value /\ w_value' = w_value /\ w_pending_value' = n
  BY <1>2 DEF W!SetPending
<1>3. ASSUME NEW n, W!Release(t, n)
      PROVE  /\ n >= w_value /\ w_value' = n
             /\ w_pending_value' = w_pending_value
  BY <1>3 DEF W!Release
<1>4. ASSUME W!AcquireStep(t)
      PROVE  UNCHANGED <<w_value, w_pending_value>>
  BY <1>4 DEF W!AcquireStep, W!LoopEnter, W!LoopExit, W!RecheckExpired,
     W!TakeLock, W!QueueCallback, W!Enqueue, W!WakeUp
<1>5. ASSUME W!ReleaseStep(t)
      PROVE  UNCHANGED <<w_value, w_pending_value>>
  BY <1>5 DEF W!ReleaseStep, W!WakeLead, W!RunCallback, W!WakeOther,
     W!ReleaseReturn
<1> QED BY <1>1, <1>2, <1>3, <1>4, <1>5

\* What the others can count on: positions grow, and what a lock protects is
\* changed by its owner only.
Guarantee(t) ==
    /\ lsn <= lsn' /\ write_lsn <= write_lsn'
    /\ f_value <= f_value' /\ w_value <= w_value'
    /\ flushed_to_disk_lsn <= flushed_to_disk_lsn'
    /\ f_pc[t] # "ACQUIRED" =>
           UNCHANGED <<f_value, f_pending_value, flushed_to_disk_lsn>>
    /\ w_pc[t] # "ACQUIRED" => UNCHANGED <<w_value, w_pending_value>>

NumberType ==
    /\ lsn \in Nat /\ write_lsn \in Nat /\ flushed_to_disk_lsn \in Nat
    /\ f_value \in Nat /\ f_pending_value \in Nat
    /\ w_value \in Nat /\ w_pending_value \in Nat
    /\ \A t \in Thread :
           /\ job[t].lsn \in Nat /\ job[t].n \in Nat
           /\ job[t].owed \in Nat /\ job[t].goal \in Nat
           /\ job[t].durable \in BOOLEAN /\ job[t] \in Job
           /\ ret[t] \in Nat /\ num[t] \in Nat

LEMMA NumberTypes == TypeOK => NumberType
<1> SUFFICES ASSUME TypeOK PROVE NumberType
  OBVIOUS
<1> USE TypeParts, RedoLogAssumption
<1>1. Lsn \subseteq Nat
  BY DEF Lsn
<1>2. /\ lsn \in Nat /\ write_lsn \in Nat /\ flushed_to_disk_lsn \in Nat
      /\ \A t \in Thread : job[t] \in Job
  BY <1>1 DEF LogType
<1>3. \A j \in Job : /\ j.lsn \in Nat /\ j.n \in Nat /\ j.owed \in Nat
                     /\ j.goal \in Nat /\ j.durable \in BOOLEAN
  BY <1>1 DEF Job
<1> QED BY <1>2, <1>3 DEF FLockType, WLockType, ThreadType, NumberType

LEMMA TargetStable ==
    ASSUME TypeOK, TypeOK', Owners, NEW t \in Thread, NEW u \in Thread \ {t},
           Same(u), Guarantee(t), Target(u)
    PROVE  Target(u)'
<1>1. InPlace(u) /\ OneFlushOwner /\ OneWriteOwner
  BY DEF Owners, InPlace
<1>2. OwnsFlush(u) => UNCHANGED <<f_value, flushed_to_disk_lsn>>
  BY <1>1 DEF InPlace, InFlushLock, OneFlushOwner, Guarantee
<1>3. OwnsWrite(u) => UNCHANGED w_value
  BY <1>1 DEF InPlace, InWriteLock, OneWriteOwner, Guarantee
<1>4. UNCHANGED <<at[u], job[u]>>
  BY DEF Same
<1>5. lsn <= lsn' /\ write_lsn <= write_lsn' /\ w_value <= w_value'
  BY DEF Guarantee
<1>6. /\ lsn' \in Nat /\ write_lsn' \in Nat /\ w_value' \in Nat
      /\ flushed_to_disk_lsn' \in Nat /\ f_value' \in Nat
  <2>1. NumberType'
    BY NumberTypes, PTL
  <2> QED BY <2>1 DEF NumberType
<1>7. job[u].op \in {"write_and_flush"} => job[u].durable
  BY <1>1 DEF InPlace, Placed
<1> QED BY <1>2, <1>3, <1>4, <1>5, <1>6, <1>7, NumberTypes
        DEF Target, OwnsFlush, OwnsWrite, NumberType

\* The positions that a step leaves, and what it may change.
LEMMA PositionsStepOf ==
    ASSUME TypeOK, NEW t \in Thread, InPlace(t), Order, Target(t),
           Returned(t), Start(t) \/ Continue(t)
    PROVE  Guarantee(t) /\ Order' /\ Target(t)'
<1> DEFINE Aim == Guarantee(t) /\ Order' /\ Target(t)'
           fUnch == UNCHANGED <<f_value, f_pending_value>>
           wUnch == UNCHANGED <<w_value, w_pending_value>>
           logUnch == UNCHANGED <<lsn, write_lsn, flushed_to_disk_lsn>>
<1> SUFFICES Aim OBVIOUS
<1>N. NumberType BY NumberTypes
<1>J. job \in [Thread -> Job] /\ at \in [Thread -> LogLabel]
  BY TypeParts DEF LogType
<1> USE <1>N, <1>J, FLockValues, WLockValues, FLockSelf, WLockSelf, TypeParts
    DEF Guarantee, Order, Target, NumberType, Go
<1>L. ASSUME UNCHANGED <<fVars, wVars, threadVars>> PROVE fUnch /\ wUnch
  BY <1>L DEF fVars, wVars
<1>W. ASSUME UNCHANGED wVars PROVE wUnch
  BY <1>W DEF wVars
<1>F. ASSUME UNCHANGED fVars PROVE fUnch
  BY <1>F DEF fVars
<1>I. ASSUME UNCHANGED fileVars
      PROVE  UNCHANGED <<write_lsn, flushed_to_disk_lsn>>
  BY <1>I DEF fileVars
<1>R. ASSUME NEW j, Repeat(t, j), j.lsn <= lsn PROVE Aim
  <2>1. fUnch /\ wUnch /\ logUnch
    BY <1>R, <1>W, <1>F, <1>I DEF Repeat
  <2>2. job'[t] = j /\ at'[t] \in {"flush", "write"}
    BY <1>R DEF Repeat
  <2> QED BY <1>R, <2>1, <2>2
<1>D. ASSUME Finish(t) PROVE Aim
  <2>1. fUnch /\ wUnch /\ logUnch
    BY <1>D, <1>I DEF Finish
  <2>2. job'[t].lsn = 0 /\ at'[t] = "idle"
    BY <1>D DEF Finish, NoJob
  <2> QED BY <2>1, <2>2
<1>S. ASSUME NEW l, l <= lsn, Settle(t, l) PROVE Aim
  BY <1>S, <1>D, <1>R, Calls, SettleCases
<1>1. CASE CallWriteUpTo(t) BY <1>1, <1>R, Calls, CallCases
<1>P. ASSUME PrepareFlushLock(t), job'[t].lsn <= lsn PROVE Aim
  BY <1>P, <1>W, <1>I DEF PrepareFlushLock
<1>Q. ASSUME PrepareWriteLock(t) PROVE Aim
  BY <1>Q, <1>F, <1>I DEF PrepareWriteLock
<1>2. CASE CallWriteAndFlush(t)
  BY <1>2, <1>P DEF CallWriteAndFlush, NoJob
<1>3. CASE CallResize(t) BY <1>3, <1>P DEF CallResize, NoJob
<1>4. CASE LockStep(t)
  <2>1. CASE (F!AcquireStep(t) \/ F!ReleaseStep(t)) /\ UNCHANGED wVars
    BY <1>4, <2>1, <1>W, <1>I DEF LockStep
  <2>2. CASE (W!AcquireStep(t) \/ W!ReleaseStep(t)) /\ UNCHANGED fVars
    BY <1>4, <2>2, <1>F, <1>I DEF LockStep
  <2> QED BY <1>4, <2>1, <2>2 DEF LockStep
<1>5. CASE FlushCovered(t) BY <1>5, <1>D DEF FlushCovered
<1>6. CASE FlushLead(t) BY <1>6, <1>W, <1>I DEF FlushLead, Job
<1>7. CASE AcquireWriteLock(t) BY <1>7, <1>F, <1>I DEF AcquireWriteLock
<1>8. CASE WriteCovered(t)
  BY <1>8, <1>D, <1>L, <1>I DEF WriteCovered, InPlace, InWriteLock
<1>9. CASE StartWrite(t) BY <1>9, <1>L, <1>F, <1>I DEF StartWrite, Job
<1>10. CASE WriteBuf(t) BY <1>10, <1>L DEF WriteBuf, Larger
<1>11. CASE ReleaseWriteLock(t)
  BY <1>11, <1>F, <1>I DEF ReleaseWriteLock
<1>12. CASE WriteReleased(t)
  BY <1>12, <1>L, <1>S, <1>I DEF WriteReleased, Returned, Job
<1>13. CASE LogFlush(t) BY <1>13, <1>W, <1>I DEF LogFlush, FlushTo, Job
<1>14. CASE Fsync(t) BY <1>14, <1>L DEF Fsync
<1>15. CASE PublishFlushed(t)
  BY <1>15, <1>L DEF PublishFlushed, InPlace, InFlushLock, OwnsFlush
<1>16. CASE ReleaseFlushLock(t) BY <1>16, <1>W, <1>I DEF ReleaseFlushLock
<1>17. CASE FlushReleased(t)
  BY <1>17, <1>D, <1>S DEF FlushReleased, Returned, Larger
<1>18. CASE PrepareAgain(t) BY <1>18, <1>P, <1>Q DEF PrepareAgain
<1>19. CASE LatchExclusive(t) BY <1>19, <1>L, <1>I DEF LatchExclusive, Job
<1>20. CASE ResizeSection(t) BY <1>20, <1>L DEF ResizeSection, Job
<1> QED BY <1>1, <1>2, <1>3, <1>4, <1>5, <1>6, <1>7, <1>8, <1>9, <1>10,
           <1>11, <1>12, <1>13, <1>14, <1>15, <1>16, <1>17, <1>18, <1>19,
           <1>20 DEF Start, Continue

-----------------------------------------------------------------------------
(* Room in the bounded log, and the types.                                 *)

Reserving(t) ==
    /\ job[t].op = "write_and_flush"
    /\ at[t] \in {"prepare_flush", "prepare_write"}
Reservations == {t \in Thread : Reserving(t)}

ReservedCounts ==
    /\ Reserved = Cardinality(Reservations)
    /\ IsFiniteSet(Reservations)
    /\ Reserved \in Nat

LEMMA ReservedIs == ReservedCounts
<1>1. Reserved = Cardinality(Reservations)
  BY DEF Reserved, Reservations, Reserving
<1>2. IsFiniteSet(Reservations)
  BY FS_Subset, RedoLogAssumption DEF Reservations
<1> QED BY <1>1, <1>2, FS_CardinalityType DEF ReservedCounts

\* Who holds a reservation after a step held one before, unless the step
\* made it; and whoever appends gives it back.
LEMMA Reservers ==
    ASSUME TypeOK, NEW t \in Thread, Start(t) \/ Continue(t)
    PROVE  \/ lsn' = lsn /\ Reservations' \subseteq Reservations
           \/ /\ lsn' = lsn /\ lsn + Reserved < MaxLsn
              /\ Reservations' \subseteq Reservations \cup {t}
           \/ /\ lsn' = lsn + 1 /\ t \in Reservations
              /\ Reservations' \subseteq Reservations \ {t}
<1> DEFINE Aim == \/ lsn' = lsn /\ Reservations' \subseteq Reservations
                  \/ /\ lsn' = lsn /\ lsn + Reserved < MaxLsn
                     /\ Reservations' \subseteq Reservations \cup {t}
                  \/ /\ lsn' = lsn + 1 /\ t \in Reservations
                     /\ Reservations' \subseteq Reservations \ {t}
<1> SUFFICES Aim OBVIOUS
<1>J. job \in [Thread -> Job] /\ at \in [Thread -> LogLabel]
  BY TypeParts DEF LogType
<1>O. \A u \in Thread \ {t} : Reserving(u)' <=> Reserving(u)
  BY Others DEF Same, Reserving
<1>A. ASSUME lsn' = lsn, Reserving(t)' => Reserving(t) PROVE Aim
  BY <1>A, <1>O DEF Reservations
<1>B. ASSUME lsn' = lsn, lsn + Reserved < MaxLsn PROVE Aim
  BY <1>B, <1>O DEF Reservations
<1>C. ASSUME lsn' = lsn + 1, Reserving(t), ~Reserving(t)' PROVE Aim
  BY <1>C, <1>O DEF Reservations
<1> HIDE DEF Aim
<1> USE <1>J DEF Reserving, Go
<1>R. ASSUME NEW j, Repeat(t, j) PROVE Aim
  BY <1>R, <1>A DEF Repeat
<1>D. ASSUME Finish(t) PROVE Aim
  BY <1>D, <1>A DEF Finish
<1>S. ASSUME NEW l, Settle(t, l) PROVE Aim
  BY <1>S, <1>D, <1>R DEF Settle
<1>1. CASE CallWriteUpTo(t) BY <1>1, <1>R DEF CallWriteUpTo
<1>2. CASE CallWriteAndFlush(t)
  BY <1>2, <1>B DEF CallWriteAndFlush, PrepareFlushLock
<1>3. CASE CallResize(t)
  BY <1>3, <1>A DEF CallResize, PrepareFlushLock, NoJob
<1>4. CASE LockStep(t) BY <1>4, <1>A DEF LockStep
<1>5. CASE FlushCovered(t) BY <1>5, <1>D DEF FlushCovered
<1>6. CASE FlushLead(t) BY <1>6, <1>A DEF FlushLead
<1>7. CASE AcquireWriteLock(t) BY <1>7, <1>A DEF AcquireWriteLock
<1>8. CASE WriteCovered(t) BY <1>8, <1>D, <1>A DEF WriteCovered
<1>9. CASE StartWrite(t) BY <1>9, <1>A DEF StartWrite
<1>10. CASE WriteBuf(t) BY <1>10, <1>A DEF WriteBuf
<1>11. CASE ReleaseWriteLock(t) BY <1>11, <1>A DEF ReleaseWriteLock
<1>12. CASE WriteReleased(t) BY <1>12, <1>A, <1>S DEF WriteReleased
<1>13. CASE LogFlush(t) BY <1>13, <1>A DEF LogFlush
<1>14. CASE Fsync(t) BY <1>14, <1>A DEF Fsync
<1>15. CASE PublishFlushed(t) BY <1>15, <1>A DEF PublishFlushed
<1>16. CASE ReleaseFlushLock(t) BY <1>16, <1>A DEF ReleaseFlushLock
<1>17. CASE FlushReleased(t) BY <1>17, <1>D, <1>S DEF FlushReleased
<1>18. CASE PrepareAgain(t)
  BY <1>18, <1>A DEF PrepareAgain, PrepareFlushLock, PrepareWriteLock
<1>19. CASE LatchExclusive(t) BY <1>19, <1>A, <1>C DEF LatchExclusive
<1>20. CASE ResizeSection(t) BY <1>20, <1>A DEF ResizeSection
<1> QED BY <1>1, <1>2, <1>3, <1>4, <1>5, <1>6, <1>7, <1>8, <1>9, <1>10,
           <1>11, <1>12, <1>13, <1>14, <1>15, <1>16, <1>17, <1>18, <1>19,
           <1>20 DEF Start, Continue

\* Nobody appends beyond the end, and the room for the reservations remains.
LEMMA RoomStep ==
    ASSUME TypeOK, Room, NEW t \in Thread, Start(t) \/ Continue(t)
    PROVE  lsn' \in Lsn /\ Room'
<1> DEFINE n == Reserved
           m == Reserved'
<1>N. lsn \in Nat /\ MaxLsn \in Nat
  BY NumberTypes, RedoLogAssumption DEF NumberType
<1>1. n \in Nat /\ n = Cardinality(Reservations) /\ IsFiniteSet(Reservations)
  BY ReservedIs DEF ReservedCounts
<1>2. m \in Nat /\ m = Cardinality(Reservations')
                /\ IsFiniteSet(Reservations')
  <2>1. ReservedCounts'
    BY ReservedIs, PTL
  <2> QED BY <2>1 DEF ReservedCounts
<1>3. lsn + n <= MaxLsn
  BY DEF Room
<1>4. CASE lsn' = lsn /\ Reservations' \subseteq Reservations
  <2>1. m <= n
    BY <1>1, <1>2, <1>4, FS_Subset
  <2> HIDE DEF n, m
  <2>2. lsn' + m <= MaxLsn /\ lsn' <= MaxLsn /\ lsn' \in Nat
    BY <2>1, <1>N, <1>1, <1>2, <1>3, <1>4
  <2> QED BY <2>2, <1>N DEF Lsn, Room, m
<1>5. CASE /\ lsn' = lsn /\ lsn + Reserved < MaxLsn
           /\ Reservations' \subseteq Reservations \cup {t}
  <2>1. /\ IsFiniteSet(Reservations \cup {t})
        /\ Cardinality(Reservations \cup {t}) \in {n, n + 1}
    BY <1>1, FS_AddElement
  <2>2. m <= n + 1
    BY <1>1, <1>2, <1>5, <2>1, FS_Subset
  <2> HIDE DEF n, m
  <2>3. lsn + n < MaxLsn
    BY <1>5 DEF n
  <2>4. lsn' + m <= MaxLsn /\ lsn' <= MaxLsn /\ lsn' \in Nat
    BY <2>2, <2>3, <1>N, <1>1, <1>2, <1>5
  <2> QED BY <2>4, <1>N DEF Lsn, Room, m
<1>6. CASE /\ lsn' = lsn + 1 /\ t \in Reservations
           /\ Reservations' \subseteq Reservations \ {t}
  <2>1. /\ IsFiniteSet(Reservations \ {t})
        /\ Cardinality(Reservations \ {t}) = n - 1
    BY <1>1, <1>6, FS_RemoveElement
  <2>2. m <= n - 1
    BY <1>1, <1>2, <1>6, <2>1, FS_Subset
  <2> HIDE DEF n, m
  <2>3. lsn' + m <= MaxLsn /\ lsn' <= MaxLsn /\ lsn' \in Nat
    BY <2>2, <1>N, <1>1, <1>2, <1>3, <1>6
  <2> QED BY <2>3, <1>N DEF Lsn, Room, m
<1> QED BY <1>4, <1>5, <1>6, Reservers

LEMMA AppendRoom ==
    ASSUME TypeOK, Room, Append
    PROVE  lsn' \in Lsn /\ Room'
<1>1. Reserved' = Reserved
  BY DEF Append, Reserved
<1>2. Reserved \in Nat /\ lsn \in Nat /\ MaxLsn \in Nat
  BY ReservedIs, NumberTypes, RedoLogAssumption DEF ReservedCounts, NumberType
<1>3. lsn' = lsn + 1 /\ lsn + Reserved < MaxLsn
  BY DEF Append
<1> QED BY <1>1, <1>2, <1>3 DEF Room, Lsn

\* Every variable keeps its type.
LEMMA LockTypeStep ==
    ASSUME TypeOK, NEW t \in Thread, InPlace(t), Order, Target(t),
           Returned(t), Start(t) \/ Continue(t)
    PROVE  FLockType' /\ WLockType' /\ ThreadType'
<1> DEFINE Aim == FLockType' /\ WLockType' /\ ThreadType'
<1> SUFFICES Aim OBVIOUS
<1>T. FLockType /\ WLockType /\ ThreadType /\ LogType
  BY TypeParts
<1>N. /\ lsn \in Nat /\ w_value \in Nat /\ job[t].lsn \in Nat
      /\ job[t].n \in Nat /\ lsn + 1 \in Nat /\ FlushTo(t) \in Nat
  BY NumberTypes DEF NumberType, FlushTo
<1>C. /\ Callback \subseteq Callback \cup {Dummy, NoCallback}
      /\ NoCallback \in Callback \cup {Dummy, NoCallback}
  OBVIOUS
<1>L. ASSUME UNCHANGED <<fVars, wVars, threadVars>> PROVE Aim
  BY <1>L, <1>T DEF fVars, wVars, threadVars, FLockType, WLockType, ThreadType
<1>W. ASSUME UNCHANGED wVars PROVE WLockType'
  BY <1>W, <1>T DEF wVars, WLockType
<1>F. ASSUME UNCHANGED fVars PROVE FLockType'
  BY <1>F, <1>T DEF fVars, FLockType
<1>R. ASSUME NEW j, Repeat(t, j), j.lsn \in Nat,
             j.cb \in Callback \cup {Dummy, NoCallback}
      PROVE  Aim
  <2>1. CASE F!Acquire(t, j.lsn, j.cb) /\ UNCHANGED wVars
    BY <1>R, <1>T, <2>1, <1>W, FAcquireType
  <2>2. CASE W!Acquire(t, j.lsn, j.cb) /\ UNCHANGED fVars
    BY <1>R, <1>T, <2>2, <1>F, WAcquireType
  <2> QED BY <1>R, <2>1, <2>2 DEF Repeat
<1>D. ASSUME Finish(t) PROVE Aim
  BY <1>D, <1>T DEF Finish, FLockType, WLockType, ThreadType, Label
<1>S. ASSUME NEW l \in Nat, Settle(t, l) PROVE Aim
  <2>1. job[t] \in Job
    BY <1>T DEF LogType
  <2> QED BY <1>S, <2>1, <1>D, <1>R, Calls, SettleCases
<1>P. ASSUME PrepareFlushLock(t) PROVE Aim
  BY <1>P, <1>T, <1>N, <1>C, <1>W, FAcquireType DEF PrepareFlushLock
<1>Q. ASSUME PrepareWriteLock(t) PROVE Aim
  BY <1>Q, <1>T, <1>N, <1>C, <1>F, WAcquireType DEF PrepareWriteLock
<1>1. CASE CallWriteUpTo(t)
  <2>1. \A l \in 1..lsn : l \in Nat
    BY <1>N
  <2> QED BY <1>1, <2>1, <1>C, <1>R, Calls, CallCases
<1>2. CASE CallWriteAndFlush(t) BY <1>2, <1>P DEF CallWriteAndFlush
<1>3. CASE CallResize(t) BY <1>3, <1>P DEF CallResize
<1>4. CASE LockStep(t)
  <2>1. CASE (F!AcquireStep(t) \/ F!ReleaseStep(t)) /\ UNCHANGED wVars
    BY <2>1, <1>T, <1>W, FStepType
  <2>2. CASE (W!AcquireStep(t) \/ W!ReleaseStep(t)) /\ UNCHANGED fVars
    BY <2>2, <1>T, <1>F, WStepType
  <2> QED BY <1>4, <2>1, <2>2 DEF LockStep
<1>5. CASE FlushCovered(t) BY <1>5, <1>D DEF FlushCovered
<1>6. CASE FlushLead(t)
  BY <1>6, <1>T, <1>N, <1>W, FSetPendingType DEF FlushLead
<1>7. CASE AcquireWriteLock(t)
  BY <1>7, <1>T, <1>N, <1>C, <1>F, WAcquireType DEF AcquireWriteLock
<1>8. CASE WriteCovered(t) BY <1>8, <1>D, <1>L DEF WriteCovered
<1>9. CASE StartWrite(t)
  <2>1. CASE W!SetPending(t, lsn) /\ UNCHANGED fVars
    BY <2>1, <1>T, <1>N, <1>F, WSetPendingType
  <2> QED BY <1>9, <2>1, <1>L DEF StartWrite
<1>10. CASE WriteBuf(t) BY <1>10, <1>L DEF WriteBuf
<1>11. CASE ReleaseWriteLock(t)
  BY <1>11, <1>T, <1>N, <1>F, WReleaseType DEF ReleaseWriteLock
<1>12. CASE WriteReleased(t)
  <2>1. ret[t] \in Nat
    BY <1>T DEF ThreadType
  <2> QED BY <1>12, <2>1, <1>L, <1>S DEF WriteReleased
<1>13. CASE LogFlush(t)
  BY <1>13, <1>T, <1>N, <1>W, FSetPendingType DEF LogFlush
<1>14. CASE Fsync(t) BY <1>14, <1>L DEF Fsync
<1>15. CASE PublishFlushed(t) BY <1>15, <1>L DEF PublishFlushed
<1>16. CASE ReleaseFlushLock(t)
  BY <1>16, <1>T, <1>N, <1>W, FReleaseType DEF ReleaseFlushLock
<1>17. CASE FlushReleased(t)
  <2>1. Larger(job[t].owed, ret[t]) \in Nat
    BY NumberTypes DEF Larger, NumberType
  <2> QED BY <1>17, <2>1, <1>D, <1>S DEF FlushReleased
<1>18. CASE PrepareAgain(t) BY <1>18, <1>P, <1>Q DEF PrepareAgain
<1>19. CASE LatchExclusive(t) BY <1>19, <1>L DEF LatchExclusive
<1>20. CASE ResizeSection(t) BY <1>20, <1>L DEF ResizeSection
<1> QED BY <1>1, <1>2, <1>3, <1>4, <1>5, <1>6, <1>7, <1>8, <1>9, <1>10,
           <1>11, <1>12, <1>13, <1>14, <1>15, <1>16, <1>17, <1>18, <1>19,
           <1>20 DEF Start, Continue

LEMMA LogTypeStep ==
    ASSUME TypeOK, Room, NEW t \in Thread, InPlace(t), Order, Target(t),
           Returned(t), Start(t) \/ Continue(t)
    PROVE  LogType'
<1> DEFINE File == /\ write_lsn \in Lsn /\ flushed_to_disk_lsn \in Lsn
                   /\ log_write_through \in WriteThrough
                   /\ cached \subseteq Lsn /\ exposed \subseteq Lsn
           Rest == /\ latch \in Thread \cup {NoThread}
                   /\ asked \in [Callback -> [lsn : Lsn, durable : BOOLEAN]]
           Aim == File' /\ at' \in [Thread -> LogLabel]
                        /\ job' \in [Thread -> Job] /\ Rest'
<1>T. LogType
  BY TypeParts
<1>V. File /\ Rest /\ lsn \in Lsn
  BY <1>T DEF LogType
<1>J. job \in [Thread -> Job] /\ at \in [Thread -> LogLabel] /\ job[t] \in Job
  BY <1>T DEF LogType
<1>L. /\ 0 \in Lsn /\ f_value \in Lsn /\ w_value \in Lsn /\ ret[t] \in Lsn
      /\ lsn \in Lsn /\ job[t].owed \in Lsn /\ lsn' \in Lsn
      /\ 1..lsn \subseteq Lsn /\ FlushTo(t) \in Lsn /\ job[t].n \in Lsn
      /\ job[t].lsn \in Lsn /\ job[t].goal \in Lsn
  <2>1. lsn \in Lsn /\ lsn' \in Lsn /\ MaxLsn \in Nat
    BY <1>V, RoomStep, RedoLogAssumption
  <2>2. /\ f_value <= lsn /\ w_value <= lsn /\ ret[t] <= lsn
        /\ job[t].owed <= lsn
    BY NumberTypes DEF Order, Returned, NumberType
  <2>3. job[t].n \in Lsn /\ job[t].lsn \in Lsn /\ job[t].goal \in Lsn
    BY <1>J DEF Job
  <2> QED BY <2>1, <2>2, <2>3, NumberTypes DEF Lsn, NumberType, FlushTo
<1>G. ASSUME Aim PROVE LogType'
  BY <1>G, <1>L DEF LogType
<1> SUFFICES Aim BY <1>G
<1>I. ASSUME UNCHANGED fileVars PROVE File'
  BY <1>I, <1>V DEF fileVars
<1>A. ASSUME NEW l \in LogLabel, Go(t, l) PROVE at' \in [Thread -> LogLabel]
  BY <1>A, <1>J DEF Go
<1>B. ASSUME NEW j \in Job, job' = [job EXCEPT ![t] = j]
      PROVE  job' \in [Thread -> Job]
  BY <1>B, <1>J
<1>K. ASSUME NEW n \in Lsn
      PROVE  /\ [job EXCEPT ![t].n = n] \in [Thread -> Job]
             /\ [job EXCEPT ![t].lsn = n] \in [Thread -> Job]
             /\ [job EXCEPT ![t].owed = n] \in [Thread -> Job]
  BY <1>J DEF Job
<1>C. NoJob \in Job
  BY <1>L DEF NoJob, Job
<1>E. \A l \in Lsn, d \in BOOLEAN :
          /\ SyncCall(l, d) \in Job
          /\ \A c \in Callback : AsyncCall(l, d, c) \in Job
          /\ Again(job[t], l) \in Job
  BY <1>C, <1>J, <1>L DEF SyncCall, AsyncCall, Again, Job
<1> HIDE DEF File
<1>R. ASSUME NEW j \in Job, Repeat(t, j), Rest' PROVE Aim
  <2>1. "flush" \in LogLabel /\ "write" \in LogLabel BY DEF LogLabel
  <2> QED BY <1>R, <2>1, <1>I, <1>A, <1>B DEF Repeat
<1>X. ASSUME UNCHANGED <<asked, latch>> PROVE Rest'
  BY <1>X, <1>V
<1>Y. ASSUME UNCHANGED asked, latch' \in Thread \cup {NoThread} PROVE Rest'
  BY <1>Y, <1>V
<1> HIDE DEF Rest
<1>D. ASSUME Finish(t), latch' = latch \/ latch' = NoThread PROVE Aim
  <2>1. File' /\ at' \in [Thread -> LogLabel] /\ job' \in [Thread -> Job]
    BY <1>D, <1>I, <1>A, <1>B, <1>C DEF Finish, LogLabel
  <2>2. latch' \in Thread \cup {NoThread} /\ UNCHANGED asked
    BY <1>D, <1>V DEF Finish, Rest
  <2> QED BY <2>1, <2>2, <1>Y
<1>S. ASSUME NEW l \in Lsn, Settle(t, l) PROVE Aim
  <2>1. CASE Finish(t) /\ UNCHANGED latch
    BY <2>1, <1>D
  <2>2. CASE Repeat(t, Again(job[t], l)) /\ UNCHANGED asked
    <3>1. Again(job[t], l) \in Job
      BY <1>E
    <3>2. Rest'
      BY <2>2, <1>X DEF Repeat
    <3> QED BY <2>2, <3>1, <3>2, <1>R
  <2> QED BY <1>S, <2>1, <2>2, SettleCases
<1>P. ASSUME PrepareFlushLock(t), job' \in [Thread -> Job] PROVE Aim
  BY <1>P, <1>I, <1>A, <1>X DEF PrepareFlushLock, LogLabel
<1>Q. ASSUME PrepareWriteLock(t) PROVE Aim
  BY <1>Q, <1>J, <1>I, <1>A, <1>X DEF PrepareWriteLock, LogLabel
<1>1. CASE CallWriteUpTo(t)
  <2>1. PICK l \in 1..lsn, d \in BOOLEAN :
            \/ Repeat(t, SyncCall(l, d)) /\ UNCHANGED asked
            \/ \E c \in Callback :
                   /\ asked' = [asked EXCEPT ![c] = [lsn |-> l,
                                                    durable |-> d]]
                   /\ Repeat(t, AsyncCall(l, d, c))
    BY <1>1, CallCases
  <2>2. l \in Lsn
    BY <1>L
  <2>3. CASE Repeat(t, SyncCall(l, d)) /\ UNCHANGED asked
    <3>1. Rest'
      BY <2>3, <1>X DEF Repeat
    <3> QED BY <2>2, <2>3, <3>1, <1>E, <1>R
  <2>4. ASSUME NEW c \in Callback,
               asked' = [asked EXCEPT ![c] = [lsn |-> l, durable |-> d]],
               Repeat(t, AsyncCall(l, d, c))
        PROVE  Aim
    <3>1. Rest'
      BY <2>2, <2>4, <1>V DEF Repeat, Rest
    <3> QED BY <2>2, <2>4, <3>1, <1>E, <1>R
  <2> QED BY <2>1, <2>3, <2>4
<1>2. CASE CallWriteAndFlush(t)
  <2>1. [NoJob EXCEPT !.op = "write_and_flush", !.durable = TRUE] \in Job
    BY <1>C DEF Job
  <2> QED BY <1>2, <2>1, <1>B, <1>P DEF CallWriteAndFlush
<1>3. CASE CallResize(t)
  <2>1. [NoJob EXCEPT !.op = "resize", !.durable = TRUE] \in Job
    BY <1>C DEF Job
  <2> QED BY <1>3, <2>1, <1>B, <1>P DEF CallResize
<1>4. CASE LockStep(t) BY <1>4, <1>J, <1>I, <1>X DEF LockStep
<1>5. CASE FlushCovered(t) BY <1>5, <1>D DEF FlushCovered
<1>6. CASE FlushLead(t)
  BY <1>6, <1>K, <1>L, <1>I, <1>A, <1>X DEF FlushLead, LogLabel
<1>7. CASE AcquireWriteLock(t)
  BY <1>7, <1>J, <1>I, <1>A, <1>X DEF AcquireWriteLock, LogLabel
<1>8. CASE WriteCovered(t)
  BY <1>8, <1>D, <1>J, <1>I, <1>A, <1>X DEF WriteCovered, LogLabel
<1>9. CASE StartWrite(t)
  BY <1>9, <1>K, <1>L, <1>I, <1>A, <1>X DEF StartWrite, LogLabel
<1>10. CASE WriteBuf(t)
  <2>1. (write_lsn + 1)..job[t].n \subseteq Lsn
    BY <1>L, <1>V, RedoLogAssumption DEF File, Lsn
  <2>2. File'
    BY <1>10, <1>V, <1>L, <2>1 DEF WriteBuf, File, Larger
  <2> QED BY <1>10, <2>2, <1>J, <1>A, <1>X DEF WriteBuf, LogLabel
<1>11. CASE ReleaseWriteLock(t)
  BY <1>11, <1>J, <1>I, <1>A, <1>X DEF ReleaseWriteLock, LogLabel
<1>12. CASE WriteReleased(t)
  <2>1. [job EXCEPT ![t].owed = ret[t], ![t].n = f_value] \in [Thread -> Job]
    BY <1>J, <1>L DEF Job
  <2>2. CASE /\ job' = [job EXCEPT ![t].owed = ret[t]]
             /\ Go(t, "log_flush")
             /\ UNCHANGED <<latch, fileVars, asked>>
    BY <2>2, <1>K, <1>L, <1>I, <1>A, <1>X DEF LogLabel
  <2>3. CASE /\ job' = [job EXCEPT ![t].owed = ret[t], ![t].n = f_value]
             /\ Go(t, "flushed")
             /\ UNCHANGED <<latch, fileVars, asked>>
    BY <2>1, <2>3, <1>I, <1>A, <1>X DEF LogLabel
  <2>4. CASE Settle(t, ret[t])
    BY <2>4, <1>L, <1>S
  <2> QED BY <1>12, <2>2, <2>3, <2>4 DEF WriteReleased
<1>13. CASE LogFlush(t)
  BY <1>13, <1>K, <1>L, <1>I, <1>A, <1>X DEF LogFlush, LogLabel
<1>14. CASE Fsync(t)
  <2>1. File'
    BY <1>14, <1>V DEF Fsync, File
  <2> QED BY <1>14, <2>1, <1>J, <1>A, <1>X DEF Fsync, LogLabel
<1>15. CASE PublishFlushed(t)
  <2>1. File'
    BY <1>15, <1>V, <1>L DEF PublishFlushed, File
  <2> QED BY <1>15, <2>1, <1>J, <1>A, <1>X DEF PublishFlushed, LogLabel
<1>16. CASE ReleaseFlushLock(t)
  BY <1>16, <1>J, <1>I, <1>A, <1>X DEF ReleaseFlushLock, LogLabel
<1>17. CASE FlushReleased(t)
  BY <1>17, <1>D, <1>S, <1>L DEF FlushReleased, Larger
<1>18. CASE PrepareAgain(t) BY <1>18, <1>J, <1>P, <1>Q DEF PrepareAgain
<1>19. CASE LatchExclusive(t)
  <2>1. job' \in [Thread -> Job]
    <3>1. CASE lsn' = lsn + 1 /\
               job' = [job EXCEPT ![t].lsn = lsn + 1, ![t].goal = lsn + 1]
      <4>1. job' = [job EXCEPT ![t].lsn = lsn', ![t].goal = lsn']
        BY <3>1
      <4> QED BY <4>1, <1>J, <1>L DEF Job
    <3> QED BY <1>19, <3>1, <1>J DEF LatchExclusive
  <2> QED BY <1>19, <2>1, <1>I, <1>A, <1>Y DEF LatchExclusive, LogLabel
<1>20. CASE ResizeSection(t)
  <2>1. File'
    BY <1>20, <1>V DEF ResizeSection, File
  <2> QED BY <1>20, <2>1, <1>K, <1>L, <1>A, <1>Y DEF ResizeSection, LogLabel
<1> QED BY <1>1, <1>2, <1>3, <1>4, <1>5, <1>6, <1>7, <1>8, <1>9, <1>10,
           <1>11, <1>12, <1>13, <1>14, <1>15, <1>16, <1>17, <1>18, <1>19,
           <1>20 DEF Start, Continue

LEMMA TypeStep ==
    ASSUME TypeOK, Room, Owners, Positions, Promises,
           NEW t \in Thread, Start(t) \/ Continue(t)
    PROVE  TypeOK'
<1>1. InPlace(t) /\ Order /\ Target(t) /\ Returned(t)
  BY DEF Owners, Positions, Promises, InPlace
<1>2. FLockType' /\ WLockType' /\ ThreadType' /\ LogType'
  BY <1>1, LockTypeStep, LogTypeStep
<1> QED BY <1>2, TypeParts, PTL

LEMMA PositionsStep ==
    ASSUME TypeOK, Room, Owners, Positions, Promises,
           NEW t \in Thread, Start(t) \/ Continue(t)
    PROVE  Guarantee(t) /\ Positions'
<1>1. InPlace(t) /\ Order /\ Target(t) /\ Returned(t)
  BY DEF Owners, Positions, Promises, InPlace
<1>2. Guarantee(t) /\ Order' /\ Target(t)'
  BY <1>1, PositionsStepOf
<1>3. ASSUME NEW u \in Thread \ {t} PROVE Target(u)'
  <2>1. Same(u) /\ TypeOK' /\ Target(u)
    BY Others, TypeStep DEF Positions
  <2> QED BY <2>1, <1>2, TargetStable
<1> QED BY <1>2, <1>3 DEF Positions

-----------------------------------------------------------------------------
(* The file system cache.                                                  *)

LEMMA FileOps ==
    ASSUME TypeOK, NEW t \in Thread, Start(t) \/ Continue(t)
    PROVE  \/ WriteBuf(t) \/ Fsync(t) \/ PublishFlushed(t) \/ ResizeSection(t)
           \/ /\ UNCHANGED fileVars
              /\ at'[t] # "fsynced" \/ UNCHANGED <<at, job>>
<1> DEFINE Aim == \/ WriteBuf(t) \/ Fsync(t) \/ PublishFlushed(t)
                  \/ ResizeSection(t)
                  \/ /\ UNCHANGED fileVars
                     /\ at'[t] # "fsynced" \/ UNCHANGED <<at, job>>
<1> SUFFICES Aim OBVIOUS
<1>J. at \in [Thread -> LogLabel]
  BY TypeParts DEF LogType
<1> USE <1>J DEF Go
<1>R. ASSUME NEW j, Repeat(t, j) PROVE Aim
  BY <1>R DEF Repeat
<1>D. ASSUME Finish(t) PROVE Aim
  BY <1>D DEF Finish
<1>S. ASSUME NEW l, Settle(t, l) PROVE Aim
  BY <1>S, <1>D, <1>R DEF Settle
<1>1. CASE CallWriteUpTo(t) BY <1>1, <1>R DEF CallWriteUpTo
<1>2. CASE CallWriteAndFlush(t)
  BY <1>2 DEF CallWriteAndFlush, PrepareFlushLock
<1>3. CASE CallResize(t) BY <1>3 DEF CallResize, PrepareFlushLock
<1>4. CASE LockStep(t) BY <1>4 DEF LockStep
<1>5. CASE FlushCovered(t) BY <1>5, <1>D DEF FlushCovered
<1>6. CASE FlushLead(t) BY <1>6 DEF FlushLead
<1>7. CASE AcquireWriteLock(t) BY <1>7 DEF AcquireWriteLock
<1>8. CASE WriteCovered(t) BY <1>8, <1>D DEF WriteCovered
<1>9. CASE StartWrite(t) BY <1>9 DEF StartWrite
<1>11. CASE ReleaseWriteLock(t) BY <1>11 DEF ReleaseWriteLock
<1>12. CASE WriteReleased(t) BY <1>12, <1>S DEF WriteReleased
<1>13. CASE LogFlush(t) BY <1>13 DEF LogFlush
<1>16. CASE ReleaseFlushLock(t) BY <1>16 DEF ReleaseFlushLock
<1>17. CASE FlushReleased(t) BY <1>17, <1>D, <1>S DEF FlushReleased
<1>18. CASE PrepareAgain(t)
  BY <1>18 DEF PrepareAgain, PrepareFlushLock, PrepareWriteLock
<1>19. CASE LatchExclusive(t) BY <1>19 DEF LatchExclusive
<1> QED BY <1>1, <1>2, <1>3, <1>4, <1>5, <1>6, <1>7, <1>8, <1>9, <1>11,
           <1>12, <1>13, <1>16, <1>17, <1>18, <1>19 DEF Start, Continue

\* A write adds to the cache beyond everything that is flushed or being
\* flushed; fsync() empties it; with O_DSYNC nothing is added.
LEMMA CacheStep ==
    ASSUME TypeOK, Positions, Cache, NEW t \in Thread, Start(t) \/ Continue(t)
    PROVE  Cache'
<1>T. /\ at \in [Thread -> LogLabel] /\ job \in [Thread -> Job]
      /\ log_write_through \in BOOLEAN
  BY TypeParts, RedoLogAssumption DEF LogType
<1>N. NumberType BY NumberTypes
<1>P. \A u \in Thread : Target(u)
  BY DEF Positions
<1>O. \A u \in Thread \ {t} : at'[u] = at[u] /\ job'[u] = job[u]
  BY Others DEF Same
<1>1. CASE WriteBuf(t)
  <2> DEFINE new == (write_lsn + 1)..job[t].n
  <2>1. /\ cached' \subseteq cached \cup new
        /\ log_write_through => cached' = cached
        /\ UNCHANGED <<log_write_through, flushed_to_disk_lsn, exposed, job>>
        /\ at'[t] = "wrote"
    BY <1>1, <1>T DEF WriteBuf, Go
  <2>2. cached' \subseteq 1..write_lsn'
    BY <1>1, <1>N DEF WriteBuf, Larger, Cache, NumberType
  <2>3. (1..flushed_to_disk_lsn) \cap new = {}
    BY <1>N DEF Positions, Order, NumberType
  <2>4. ASSUME NEW u \in Thread, at'[u] = "fsynced"
        PROVE  (1..job'[u].n) \cap cached' \subseteq exposed'
    <3>1. u # t /\ at[u] = "fsynced" /\ job'[u] = job[u]
      BY <2>1, <2>4, <1>O
    <3>2. job[u].n <= write_lsn
      BY <3>1, <1>P, <1>N DEF Target, Positions, Order, NumberType
    <3>3. (1..job[u].n) \cap new = {}
      BY <3>2, <1>N DEF NumberType
    <3> QED BY <2>1, <3>1, <3>3 DEF Cache
  <2> QED BY <2>1, <2>2, <2>3, <2>4 DEF Cache
<1>2. CASE Fsync(t)
  <2>1. /\ \/ log_write_through /\ cached' = cached
           \/ cached' = {}
        /\ UNCHANGED <<log_write_through, flushed_to_disk_lsn, write_lsn,
                       exposed, job>>
    BY <1>2 DEF Fsync
  <2> QED BY <2>1, <1>O DEF Cache
<1>3. CASE PublishFlushed(t)
  <2>1. /\ flushed_to_disk_lsn' = job[t].n /\ at[t] = "fsynced"
        /\ UNCHANGED <<log_write_through, cached, write_lsn, exposed, job>>
        /\ at'[t] = "flushed"
    BY <1>3, <1>T DEF PublishFlushed, Go
  <2> QED BY <2>1, <1>O DEF Cache
<1>4. CASE ResizeSection(t)
  <2>1. /\ exposed \subseteq exposed'
        /\ log_write_through' => cached \subseteq exposed'
        /\ UNCHANGED <<flushed_to_disk_lsn, cached, write_lsn>>
        /\ at'[t] = "wrote"
    BY <1>4, <1>T DEF ResizeSection, Go, Cache
  <2> QED BY <2>1, <1>O DEF Cache
<1>5. CASE UNCHANGED fileVars /\ (at'[t] # "fsynced" \/ UNCHANGED <<at, job>>)
  BY <1>5, <1>O DEF Cache, fileVars
<1> QED BY <1>1, <1>2, <1>3, <1>4, <1>5, FileOps

-----------------------------------------------------------------------------
(* The callbacks.                                                          *)

\* Who was passed before keeps what it was passed with.
AskedGrows ==
    \A c \in Callback : asked[c].lsn > 0 => asked'[c] = asked[c]

LEMMA AskedOnce ==
    ASSUME TypeOK,
           \/ asked' = asked
           \/ \E c \in Callback : \E a :
                  asked[c] = NotAsked /\ asked' = [asked EXCEPT ![c] = a]
    PROVE  AskedGrows
<1>1. asked \in [Callback -> [lsn : Lsn, durable : BOOLEAN]]
  BY TypeParts DEF LogType
<1>2. NotAsked.lsn = 0
  BY DEF NotAsked
<1> QED BY <1>1, <1>2 DEF AskedGrows

LEMMA PassedStable ==
    ASSUME AskedGrows, NEW x, NEW n, NEW d, PassedWith(x, n, d)
    PROVE  x \in Callback => /\ n > 0
                             /\ asked[x] = [lsn |-> n, durable |-> d]
                             /\ asked'[x] = [lsn |-> n, durable |-> d]
BY DEF AskedGrows, PassedWith

\* For a thread that is not running the numbers may only grow.
LEMMA CallbackStable ==
    ASSUME TypeOK, TypeOK', NEW t \in Thread, NEW u \in Thread, LocksSame(u),
           Guarantee(t), AskedGrows, CallbackOf(u)
    PROVE  CallbackOf(u)'
<1>1. NumberType /\ NumberType'
  BY NumberTypes, PTL
<1>2. \A x \in callbacks[u] : x.num \in Nat
  BY TypeParts DEF ThreadType, Pending
<1>3. lsn <= lsn' /\ f_value <= f_value' /\ w_value <= w_value'
  BY DEF Guarantee
<1>8. f_value \in Nat /\ f_value' \in Nat /\ w_value \in Nat /\ w_value' \in Nat
  BY <1>1 DEF NumberType
<1>4. cb'[u] # NoCallback => num'[u] <= lsn'
  BY <1>1, <1>3 DEF CallbackOf, LocksSame, NumberType
<1>5. /\ f_pc'[u] \in F!InAcquire => PassedWith(cb[u], num[u], TRUE)
      /\ w_pc'[u] \in W!InAcquire => PassedWith(cb[u], num[u], FALSE)
  BY DEF CallbackOf, LocksSame
<1>6. /\ f_pc'[u] \in F!InAcquire => PassedWith(cb[u], num[u], TRUE)'
      /\ w_pc'[u] \in W!InAcquire => PassedWith(cb[u], num[u], FALSE)'
  BY <1>5, PassedStable DEF PassedWith, LocksSame
<1>7. ASSUME NEW x \in callbacks'[u]
      PROVE  /\ f_pc'[u] = "release" =>
                    PassedWith(x.cb, x.num, TRUE)' /\ x.num <= f_value'
             /\ w_pc'[u] = "release" =>
                    PassedWith(x.cb, x.num, FALSE)' /\ x.num <= w_value'
  <2>1. x \in callbacks[u] /\ x.num \in Nat
    BY <1>2 DEF LocksSame
  <2>2. /\ f_pc'[u] = "release" =>
               PassedWith(x.cb, x.num, TRUE) /\ x.num <= f_value
        /\ w_pc'[u] = "release" =>
               PassedWith(x.cb, x.num, FALSE) /\ x.num <= w_value
    BY <2>1 DEF CallbackOf, LocksSame
  <2>3. /\ f_pc'[u] = "release" => PassedWith(x.cb, x.num, TRUE)'
        /\ w_pc'[u] = "release" => PassedWith(x.cb, x.num, FALSE)'
    BY <2>2, PassedStable DEF PassedWith
  <2>4. /\ f_pc'[u] = "release" => x.num <= f_value'
        /\ w_pc'[u] = "release" => x.num <= w_value'
    <3>1. /\ f_pc'[u] = "release" => x.num <= f_value
          /\ w_pc'[u] = "release" => x.num <= w_value
      BY <2>2
    <3> QED BY <2>1, <3>1, <1>3, <1>8
  <2> QED BY <2>3, <2>4
<1> QED BY <1>4, <1>6, <1>7 DEF CallbackOf

\* A call of acquire() on flush_lock: the callback runs at once, or stays
\* with the caller.
LEMMA FAcquireCallbacks ==
    ASSUME TypeOK, NEW t \in Thread, NEW n, NEW c, F!Acquire(t, n, c),
           n \in Nat, c \in Callback \cup {Dummy, NoCallback},
           UNCHANGED <<lsn, wVars>>, w_pc[t] \in W!Outside \cup {"ACQUIRED"},
           AskedGrows, PassedWith(c, n, TRUE)', c # NoCallback => n <= lsn,
           CallbackOf(t), PendingNumbers, FiredInTime
    PROVE  CallbackOf(t)' /\ PendingNumbers' /\ FiredInTime'
<1>T. FLockType /\ WLockType /\ ThreadType
  BY TypeParts
<1>1. /\ UNCHANGED <<f_value, f_pending_callbacks, w_value,
                     w_pending_callbacks, w_pc, callbacks, ret, lsn>>
      /\ f_pc'[t] \in {"EXPIRED", "loop"}
      /\ w_pc'[t] \notin W!InAcquire \cup {"release"}
  BY <1>T DEF F!Acquire, F!AcquireFast, F!AcquireSlow, F!lockVars,
     F!releaseVars, F!Goto, FLockType, wVars, W!InAcquire, W!Outside
<1>2. PendingNumbers'
  BY <1>1, PassedStable DEF PendingNumbers, PassedWith
<1>3. CallbackOf(t)'
  <2>1. CASE F!AcquireFast(t, n, c)
    <3>1. UNCHANGED <<num, cb>> /\ f_pc'[t] = "EXPIRED"
      BY <2>1, <1>T DEF F!AcquireFast, F!waiterVars, F!Goto, FLockType
    <3> QED BY <3>1, <1>1 DEF CallbackOf, F!InAcquire
  <2>2. CASE F!AcquireSlow(t, n, c)
    <3>1. num'[t] = n /\ cb'[t] = c /\ f_pc'[t] = "loop"
      BY <2>2, <1>T DEF F!AcquireSlow, F!Goto, FLockType, ThreadType
    <3> QED BY <3>1, <1>1 DEF CallbackOf, PassedWith
  <2> QED BY <2>1, <2>2 DEF F!Acquire
<1>4. FiredInTime'
  <2> SUFFICES ASSUME NEW d \in Callback, fired'[d] # 0
               PROVE  InTime(d)'
    BY DEF FiredInTime
  <2>1. CASE fired[d] # 0
    BY <2>1, <1>1 DEF FiredInTime, InTime, AskedGrows
  <2>2. CASE fired[d] = 0
    <3>1. d = c /\ n <= f_value
      BY <2>2 DEF F!Acquire, F!AcquireFast, F!AcquireSlow, F!Invoke
    <3> QED BY <3>1, <1>1 DEF PassedWith, InTime
  <2>3. fired[d] \in Nat
    BY <1>T DEF ThreadType
  <2> QED BY <2>1, <2>2
<1> QED BY <1>2, <1>3, <1>4

\* A call of acquire() on write_lock: the callback runs at once, or stays
\* with the caller.
LEMMA WAcquireCallbacks ==
    ASSUME TypeOK, NEW t \in Thread, NEW n, NEW c, W!Acquire(t, n, c),
           n \in Nat, c \in Callback \cup {Dummy, NoCallback},
           UNCHANGED <<lsn, fVars>>, f_pc[t] \in F!Outside \cup {"ACQUIRED"},
           AskedGrows, PassedWith(c, n, FALSE)', c # NoCallback => n <= lsn,
           CallbackOf(t), PendingNumbers, FiredInTime
    PROVE  CallbackOf(t)' /\ PendingNumbers' /\ FiredInTime'
<1>T. WLockType /\ FLockType /\ ThreadType
  BY TypeParts
<1>1. /\ UNCHANGED <<w_value, w_pending_callbacks, f_value,
                     f_pending_callbacks, f_pc, callbacks, ret, lsn>>
      /\ w_pc'[t] \in {"EXPIRED", "loop"}
      /\ f_pc'[t] \notin F!InAcquire \cup {"release"}
  BY <1>T DEF W!Acquire, W!AcquireFast, W!AcquireSlow, W!lockVars,
     W!releaseVars, W!Goto, WLockType, fVars, F!InAcquire, F!Outside
<1>2. PendingNumbers'
  BY <1>1, PassedStable DEF PendingNumbers, PassedWith
<1>3. CallbackOf(t)'
  <2>1. CASE W!AcquireFast(t, n, c)
    <3>1. UNCHANGED <<num, cb>> /\ w_pc'[t] = "EXPIRED"
      BY <2>1, <1>T DEF W!AcquireFast, W!waiterVars, W!Goto, WLockType
    <3> QED BY <3>1, <1>1 DEF CallbackOf, W!InAcquire
  <2>2. CASE W!AcquireSlow(t, n, c)
    <3>1. num'[t] = n /\ cb'[t] = c /\ w_pc'[t] = "loop"
      BY <2>2, <1>T DEF W!AcquireSlow, W!Goto, WLockType, ThreadType
    <3> QED BY <3>1, <1>1 DEF CallbackOf, PassedWith
  <2> QED BY <2>1, <2>2 DEF W!Acquire
<1>4. FiredInTime'
  <2> SUFFICES ASSUME NEW d \in Callback, fired'[d] # 0
               PROVE  InTime(d)'
    BY DEF FiredInTime
  <2>1. CASE fired[d] # 0
    BY <2>1, <1>1 DEF FiredInTime, InTime, AskedGrows
  <2>2. CASE fired[d] = 0
    <3>1. d = c /\ n <= w_value
      BY <2>2 DEF W!Acquire, W!AcquireFast, W!AcquireSlow, W!Invoke
    <3> QED BY <3>1, <1>1 DEF PassedWith, InTime
  <2>3. fired[d] \in Nat
    BY <1>T DEF ThreadType
  <2> QED BY <2>1, <2>2
<1> QED BY <1>2, <1>3, <1>4

\* The steps of acquire() on flush_lock: a callback runs when its number is
\* reached, or moves to the pending callbacks.
LEMMA FAcquireStepCallbacks ==
    ASSUME TypeOK, NEW t \in Thread, F!AcquireStep(t),
           UNCHANGED <<lsn, asked, wVars>>, w_pc[t] \in W!Outside \cup {"ACQUIRED"},
           CallbackOf(t), PendingNumbers, FiredInTime
    PROVE  CallbackOf(t)' /\ PendingNumbers' /\ FiredInTime'
<1>T. FLockType /\ WLockType /\ ThreadType
  BY TypeParts
<1>1. UNCHANGED <<f_value, w_value, w_pending_callbacks, w_pc, callbacks, lsn,
                  asked>>
  BY DEF wVars, F!AcquireStep, F!LoopEnter, F!LoopExit, F!RecheckExpired,
     F!TakeLock, F!QueueCallback, F!Enqueue, F!WakeUp, F!lockVars,
     F!releaseVars
<1>2. /\ f_pc[t] \in F!InAcquire
      /\ f_pc'[t] # "release"
      /\ w_pc'[t] \notin W!InAcquire \cup {"release"}
  BY <1>1, <1>T, FLockSelf DEF Acquiring, W!InAcquire, W!Outside
<1>3. PassedWith(cb[t], num[t], TRUE)
  BY <1>2 DEF CallbackOf
<1>4. cb[t] # NoCallback => num[t] <= lsn
  BY DEF CallbackOf
<1>5. \/ UNCHANGED <<cb, num>>
      \/ f_pc'[t] \notin F!InAcquire /\ cb'[t] = NoCallback
  BY <1>T DEF F!AcquireStep, F!LoopEnter, F!LoopExit, F!RecheckExpired,
     F!TakeLock, F!QueueCallback, F!Enqueue, F!WakeUp, F!Return, F!Goto,
     F!waiterVars, F!InAcquire, FLockType, ThreadType
<1>6. \/ f_pending_callbacks' = f_pending_callbacks
      \/ F!PushCallback(t)
  BY DEF F!AcquireStep, F!LoopEnter, F!LoopExit, F!RecheckExpired,
     F!TakeLock, F!QueueCallback, F!Enqueue, F!WakeUp, F!lockVars
<1>7. \/ fired' = fired
      \/ num[t] <= f_value /\ F!Invoke({cb[t]})
  <2>1. ASSUME F!LoopExit(t) PROVE num[t] <= f_value
    BY <2>1, <1>T DEF F!LoopExit, FLockType, ThreadType
  <2> QED BY <2>1 DEF F!AcquireStep, F!LoopEnter, F!LoopExit,
      F!RecheckExpired, F!Expired, F!TakeLock, F!QueueCallback, F!Enqueue,
      F!WakeUp
<1>8. CallbackOf(t)'
  <2>1. CASE UNCHANGED <<cb, num>>
    BY <2>1, <1>1, <1>2, <1>3, <1>4 DEF CallbackOf, PassedWith
  <2>2. CASE f_pc'[t] \notin F!InAcquire /\ cb'[t] = NoCallback
    BY <2>2, <1>1, <1>2 DEF CallbackOf
  <2> QED BY <1>5, <2>1, <2>2
<1>9. PendingNumbers'
  <2>1. \A x \in f_pending_callbacks' \ f_pending_callbacks :
            x.cb = cb[t] /\ x.num = num[t] /\ cb[t] # NoCallback
    BY <1>6 DEF F!PushCallback
  <2>2. \A x \in f_pending_callbacks' :
            PassedWith(x.cb, x.num, TRUE) /\ x.num <= lsn
    BY <2>1, <1>3, <1>4 DEF PendingNumbers
  <2> QED BY <2>2, <1>1 DEF PendingNumbers, PassedWith
<1>10. FiredInTime'
  <2> SUFFICES ASSUME NEW d \in Callback, fired'[d] # 0
               PROVE  InTime(d)'
    BY DEF FiredInTime
  <2>1. CASE fired[d] # 0
    BY <2>1, <1>1 DEF FiredInTime, InTime
  <2>2. CASE fired[d] = 0
    <3>1. d = cb[t] /\ num[t] <= f_value
      BY <2>2, <1>7 DEF F!Invoke
    <3> QED BY <3>1, <1>1, <1>3 DEF PassedWith, InTime
  <2> QED BY <2>1, <2>2
<1> QED BY <1>8, <1>9, <1>10

\* The steps of acquire() on write_lock: a callback runs when its number is
\* reached, or moves to the pending callbacks.
LEMMA WAcquireStepCallbacks ==
    ASSUME TypeOK, NEW t \in Thread, W!AcquireStep(t),
           UNCHANGED <<lsn, asked, fVars>>, f_pc[t] \in F!Outside \cup {"ACQUIRED"},
           CallbackOf(t), PendingNumbers, FiredInTime
    PROVE  CallbackOf(t)' /\ PendingNumbers' /\ FiredInTime'
<1>T. WLockType /\ FLockType /\ ThreadType
  BY TypeParts
<1>1. UNCHANGED <<w_value, f_value, f_pending_callbacks, f_pc, callbacks, lsn,
                  asked>>
  BY DEF fVars, W!AcquireStep, W!LoopEnter, W!LoopExit, W!RecheckExpired,
     W!TakeLock, W!QueueCallback, W!Enqueue, W!WakeUp, W!lockVars,
     W!releaseVars
<1>2. /\ w_pc[t] \in W!InAcquire
      /\ w_pc'[t] # "release"
      /\ f_pc'[t] \notin F!InAcquire \cup {"release"}
  BY <1>1, <1>T, WLockSelf DEF Acquiring, F!InAcquire, F!Outside
<1>3. PassedWith(cb[t], num[t], FALSE)
  BY <1>2 DEF CallbackOf
<1>4. cb[t] # NoCallback => num[t] <= lsn
  BY DEF CallbackOf
<1>5. \/ UNCHANGED <<cb, num>>
      \/ w_pc'[t] \notin W!InAcquire /\ cb'[t] = NoCallback
  BY <1>T DEF W!AcquireStep, W!LoopEnter, W!LoopExit, W!RecheckExpired,
     W!TakeLock, W!QueueCallback, W!Enqueue, W!WakeUp, W!Return, W!Goto,
     W!waiterVars, W!InAcquire, WLockType, ThreadType
<1>6. \/ w_pending_callbacks' = w_pending_callbacks
      \/ W!PushCallback(t)
  BY DEF W!AcquireStep, W!LoopEnter, W!LoopExit, W!RecheckExpired,
     W!TakeLock, W!QueueCallback, W!Enqueue, W!WakeUp, W!lockVars
<1>7. \/ fired' = fired
      \/ num[t] <= w_value /\ W!Invoke({cb[t]})
  <2>1. ASSUME W!LoopExit(t) PROVE num[t] <= w_value
    BY <2>1, <1>T DEF W!LoopExit, WLockType, ThreadType
  <2> QED BY <2>1 DEF W!AcquireStep, W!LoopEnter, W!LoopExit,
      W!RecheckExpired, W!Expired, W!TakeLock, W!QueueCallback, W!Enqueue,
      W!WakeUp
<1>8. CallbackOf(t)'
  <2>1. CASE UNCHANGED <<cb, num>>
    BY <2>1, <1>1, <1>2, <1>3, <1>4 DEF CallbackOf, PassedWith
  <2>2. CASE w_pc'[t] \notin W!InAcquire /\ cb'[t] = NoCallback
    BY <2>2, <1>1, <1>2 DEF CallbackOf
  <2> QED BY <1>5, <2>1, <2>2
<1>9. PendingNumbers'
  <2>1. \A x \in w_pending_callbacks' \ w_pending_callbacks :
            x.cb = cb[t] /\ x.num = num[t] /\ cb[t] # NoCallback
    BY <1>6 DEF W!PushCallback
  <2>2. \A x \in w_pending_callbacks' :
            PassedWith(x.cb, x.num, FALSE) /\ x.num <= lsn
    BY <2>1, <1>3, <1>4 DEF PendingNumbers
  <2> QED BY <2>2, <1>1 DEF PendingNumbers, PassedWith
<1>10. FiredInTime'
  <2> SUFFICES ASSUME NEW d \in Callback, fired'[d] # 0
               PROVE  InTime(d)'
    BY DEF FiredInTime
  <2>1. CASE fired[d] # 0
    BY <2>1, <1>1 DEF FiredInTime, InTime
  <2>2. CASE fired[d] = 0
    <3>1. d = cb[t] /\ num[t] <= w_value
      BY <2>2, <1>7 DEF W!Invoke
    <3> QED BY <3>1, <1>1, <1>3 DEF PassedWith, InTime
  <2> QED BY <2>1, <2>2
<1> QED BY <1>8, <1>9, <1>10

\* release() on flush_lock takes exactly the callbacks whose number is
\* reached; they run at once or later.
LEMMA FReleaseCallbacks ==
    ASSUME TypeOK, NEW t \in Thread, NEW n \in Nat, F!Release(t, n),
           UNCHANGED <<lsn, asked, wVars>>, w_pc[t] \in W!Outside \cup {"ACQUIRED"},
           CallbackOf(t), PendingNumbers, FiredInTime
    PROVE  CallbackOf(t)' /\ PendingNumbers' /\ FiredInTime'
<1>T. FLockType /\ WLockType /\ ThreadType
  BY TypeParts
<1>1. /\ UNCHANGED <<w_value, w_pending_callbacks, w_pc, lsn, asked, cb, num>>
      /\ f_value' = n /\ f_value <= n /\ f_pc'[t] = "release"
      /\ f_pending_callbacks' \subseteq f_pending_callbacks
      /\ w_pc'[t] \notin W!InAcquire \cup {"release"}
  BY <1>T DEF wVars, F!Release, F!CollectCallbacks, F!StillPending, F!Goto,
     FLockType, W!InAcquire, W!Outside
<1>2. ASSUME NEW x \in F!Due(n)
      PROVE  PassedWith(x.cb, x.num, TRUE) /\ x.num <= n
  <2>1. x \in f_pending_callbacks /\ ~(x.num > n)
    BY DEF F!Due, F!StillPending
  <2>2. x.num \in Nat
    BY <2>1, <1>T DEF FLockType, Pending
  <2>3. x.num <= n
    BY <2>1, <2>2
  <2> QED BY <2>1, <2>3 DEF PendingNumbers
<1>3. PICK batch \in SUBSET F!Due(n) :
          /\ callbacks' = [callbacks EXCEPT ![t] = batch]
          /\ F!Invoke({c.cb : c \in F!Due(n) \ batch})
  BY DEF F!Release, F!CollectCallbacks
<1>4. CallbackOf(t)'
  <2>1. callbacks'[t] = batch
    BY <1>3, <1>T DEF ThreadType
  <2>2. \A x \in callbacks'[t] :
            PassedWith(x.cb, x.num, TRUE)' /\ x.num <= f_value'
    BY <2>1, <1>1, <1>2 DEF PassedWith
  <2> QED BY <2>2, <1>1 DEF CallbackOf, F!InAcquire
<1>5. PendingNumbers'
  BY <1>1 DEF PendingNumbers, PassedWith
<1>6. FiredInTime'
  <2> SUFFICES ASSUME NEW d \in Callback, fired'[d] # 0
               PROVE  InTime(d)'
    BY DEF FiredInTime
  <2>N. f_value \in Nat /\ w_value \in Nat
    BY <1>T DEF FLockType, WLockType
  <2>A. asked[d].lsn \in Nat
    <3>1. asked[d].lsn \in Lsn
      BY TypeParts DEF LogType
    <3> QED BY <3>1 DEF Lsn
  <2>1. CASE fired[d] # 0
    BY <2>1, <2>N, <2>A, <1>1 DEF FiredInTime, InTime
  <2>2. CASE fired[d] = 0
    <3>1. PICK x \in F!Due(n) : d = x.cb
      BY <2>2, <1>3 DEF F!Invoke
    <3>2. PassedWith(d, x.num, TRUE) /\ x.num <= n
      BY <3>1, <1>2
    <3> QED BY <3>2, <1>1 DEF PassedWith, InTime
  <2> QED BY <2>1, <2>2
<1> QED BY <1>4, <1>5, <1>6

\* release() on write_lock takes exactly the callbacks whose number is
\* reached; they run at once or later.
LEMMA WReleaseCallbacks ==
    ASSUME TypeOK, NEW t \in Thread, NEW n \in Nat, W!Release(t, n),
           UNCHANGED <<lsn, asked, fVars>>, f_pc[t] \in F!Outside \cup {"ACQUIRED"},
           CallbackOf(t), PendingNumbers, FiredInTime
    PROVE  CallbackOf(t)' /\ PendingNumbers' /\ FiredInTime'
<1>T. WLockType /\ FLockType /\ ThreadType
  BY TypeParts
<1>1. /\ UNCHANGED <<f_value, f_pending_callbacks, f_pc, lsn, asked, cb, num>>
      /\ w_value' = n /\ w_value <= n /\ w_pc'[t] = "release"
      /\ w_pending_callbacks' \subseteq w_pending_callbacks
      /\ f_pc'[t] \notin F!InAcquire \cup {"release"}
  BY <1>T DEF fVars, W!Release, W!CollectCallbacks, W!StillPending, W!Goto,
     WLockType, F!InAcquire, F!Outside
<1>2. ASSUME NEW x \in W!Due(n)
      PROVE  PassedWith(x.cb, x.num, FALSE) /\ x.num <= n
  <2>1. x \in w_pending_callbacks /\ ~(x.num > n)
    BY DEF W!Due, W!StillPending
  <2>2. x.num \in Nat
    BY <2>1, <1>T DEF WLockType, Pending
  <2>3. x.num <= n
    BY <2>1, <2>2
  <2> QED BY <2>1, <2>3 DEF PendingNumbers
<1>3. PICK batch \in SUBSET W!Due(n) :
          /\ callbacks' = [callbacks EXCEPT ![t] = batch]
          /\ W!Invoke({c.cb : c \in W!Due(n) \ batch})
  BY DEF W!Release, W!CollectCallbacks
<1>4. CallbackOf(t)'
  <2>1. callbacks'[t] = batch
    BY <1>3, <1>T DEF ThreadType
  <2>2. \A x \in callbacks'[t] :
            PassedWith(x.cb, x.num, FALSE)' /\ x.num <= w_value'
    BY <2>1, <1>1, <1>2 DEF PassedWith
  <2> QED BY <2>2, <1>1 DEF CallbackOf, W!InAcquire
<1>5. PendingNumbers'
  BY <1>1 DEF PendingNumbers, PassedWith
<1>6. FiredInTime'
  <2> SUFFICES ASSUME NEW d \in Callback, fired'[d] # 0
               PROVE  InTime(d)'
    BY DEF FiredInTime
  <2>N. w_value \in Nat /\ f_value \in Nat
    BY <1>T DEF WLockType, FLockType
  <2>A. asked[d].lsn \in Nat
    <3>1. asked[d].lsn \in Lsn
      BY TypeParts DEF LogType
    <3> QED BY <3>1 DEF Lsn
  <2>1. CASE fired[d] # 0
    BY <2>1, <2>N, <2>A, <1>1 DEF FiredInTime, InTime
  <2>2. CASE fired[d] = 0
    <3>1. PICK x \in W!Due(n) : d = x.cb
      BY <2>2, <1>3 DEF W!Invoke
    <3>2. PassedWith(d, x.num, FALSE) /\ x.num <= n
      BY <3>1, <1>2
    <3> QED BY <3>2, <1>1 DEF PassedWith, InTime
  <2> QED BY <2>1, <2>2
<1> QED BY <1>4, <1>5, <1>6

LEMMA FReleaseStepCallbacks ==
    ASSUME TypeOK, NEW t \in Thread, F!ReleaseStep(t),
           UNCHANGED <<lsn, asked, wVars>>, w_pc[t] \in W!Outside \cup {"ACQUIRED"},
           CallbackOf(t), PendingNumbers, FiredInTime
    PROVE  CallbackOf(t)' /\ PendingNumbers' /\ FiredInTime'
<1>T. FLockType /\ WLockType /\ ThreadType
  BY TypeParts
<1>1. /\ UNCHANGED <<f_value, f_pending_callbacks, w_value,
                     w_pending_callbacks, w_pc, lsn, asked, cb, num>>
      /\ f_pc[t] = "release"
      /\ f_pc'[t] \notin F!InAcquire
      /\ w_pc'[t] \notin W!InAcquire \cup {"release"}
  BY <1>T DEF wVars, F!ReleaseStep, F!WakeLead, F!RunCallback, F!WakeOther,
     F!ReleaseReturn, F!lockVars, F!waiterVars, F!Goto, F!InAcquire,
     FLockType, W!InAcquire, W!Outside
<1>2. \A x \in callbacks[t] :
          PassedWith(x.cb, x.num, TRUE) /\ x.num <= f_value
  BY <1>1 DEF CallbackOf
<1>3. /\ callbacks'[t] \subseteq callbacks[t]
      /\ \/ fired' = fired
         \/ \E x \in callbacks[t] : F!Invoke({x.cb})
  <2>1. CASE F!RunCallback(t)
    BY <2>1, <1>T DEF F!RunCallback, ThreadType
  <2>2. CASE UNCHANGED <<callbacks, fired>>
    BY <2>2
  <2> QED BY <2>1, <2>2 DEF F!ReleaseStep, F!WakeLead, F!WakeOther,
          F!ReleaseReturn, F!releaseVars
<1>4. CallbackOf(t)'
  BY <1>1, <1>2, <1>3 DEF CallbackOf, PassedWith
<1>5. PendingNumbers'
  BY <1>1 DEF PendingNumbers, PassedWith
<1>6. FiredInTime'
  <2> SUFFICES ASSUME NEW d \in Callback, fired'[d] # 0
               PROVE  InTime(d)'
    BY DEF FiredInTime
  <2>1. CASE fired[d] # 0
    BY <2>1, <1>1 DEF FiredInTime, InTime
  <2>2. CASE fired[d] = 0
    <3>1. PICK x \in callbacks[t] : d = x.cb
      BY <2>2, <1>3 DEF F!Invoke
    <3>2. PassedWith(d, x.num, TRUE) /\ x.num <= f_value
      BY <3>1, <1>2
    <3> QED BY <3>2, <1>1 DEF PassedWith, InTime
  <2> QED BY <2>1, <2>2
<1> QED BY <1>4, <1>5, <1>6

LEMMA WReleaseStepCallbacks ==
    ASSUME TypeOK, NEW t \in Thread, W!ReleaseStep(t),
           UNCHANGED <<lsn, asked, fVars>>, f_pc[t] \in F!Outside \cup {"ACQUIRED"},
           CallbackOf(t), PendingNumbers, FiredInTime
    PROVE  CallbackOf(t)' /\ PendingNumbers' /\ FiredInTime'
<1>T. WLockType /\ FLockType /\ ThreadType
  BY TypeParts
<1>1. /\ UNCHANGED <<w_value, w_pending_callbacks, f_value,
                     f_pending_callbacks, f_pc, lsn, asked, cb, num>>
      /\ w_pc[t] = "release"
      /\ w_pc'[t] \notin W!InAcquire
      /\ f_pc'[t] \notin F!InAcquire \cup {"release"}
  BY <1>T DEF fVars, W!ReleaseStep, W!WakeLead, W!RunCallback, W!WakeOther,
     W!ReleaseReturn, W!lockVars, W!waiterVars, W!Goto, W!InAcquire,
     WLockType, F!InAcquire, F!Outside
<1>2. \A x \in callbacks[t] :
          PassedWith(x.cb, x.num, FALSE) /\ x.num <= w_value
  BY <1>1 DEF CallbackOf
<1>3. /\ callbacks'[t] \subseteq callbacks[t]
      /\ \/ fired' = fired
         \/ \E x \in callbacks[t] : W!Invoke({x.cb})
  <2>1. CASE W!RunCallback(t)
    BY <2>1, <1>T DEF W!RunCallback, ThreadType
  <2>2. CASE UNCHANGED <<callbacks, fired>>
    BY <2>2
  <2> QED BY <2>1, <2>2 DEF W!ReleaseStep, W!WakeLead, W!WakeOther,
          W!ReleaseReturn, W!releaseVars
<1>4. CallbackOf(t)'
  BY <1>1, <1>2, <1>3 DEF CallbackOf, PassedWith
<1>5. PendingNumbers'
  BY <1>1 DEF PendingNumbers, PassedWith
<1>6. FiredInTime'
  <2> SUFFICES ASSUME NEW d \in Callback, fired'[d] # 0
               PROVE  InTime(d)'
    BY DEF FiredInTime
  <2>1. CASE fired[d] # 0
    BY <2>1, <1>1 DEF FiredInTime, InTime
  <2>2. CASE fired[d] = 0
    <3>1. PICK x \in callbacks[t] : d = x.cb
      BY <2>2, <1>3 DEF W!Invoke
    <3>2. PassedWith(d, x.num, FALSE) /\ x.num <= w_value
      BY <3>1, <1>2
    <3> QED BY <3>2, <1>1 DEF PassedWith, InTime
  <2> QED BY <2>1, <2>2
<1> QED BY <1>4, <1>5, <1>6

LEMMA FSetPendingCallbacks ==
    ASSUME NEW t \in Thread, NEW n, F!SetPending(t, n),
           UNCHANGED <<lsn, asked, wVars>>,
           CallbackOf(t), PendingNumbers, FiredInTime
    PROVE  CallbackOf(t)' /\ PendingNumbers' /\ FiredInTime'
<1>1. UNCHANGED <<f_value, f_pending_callbacks, f_pc, w_value,
                  w_pending_callbacks, w_pc, lsn, asked, cb, num, callbacks,
                  fired>>
  BY DEF wVars, F!SetPending, F!waiterVars, F!releaseVars
<1>2. CallbackOf(t)'
  BY <1>1 DEF CallbackOf, PassedWith
<1>3. PendingNumbers' /\ FiredInTime'
  BY <1>1 DEF PendingNumbers, FiredInTime, InTime, PassedWith
<1> QED BY <1>2, <1>3

LEMMA WSetPendingCallbacks ==
    ASSUME NEW t \in Thread, NEW n, W!SetPending(t, n),
           UNCHANGED <<lsn, asked, fVars>>,
           CallbackOf(t), PendingNumbers, FiredInTime
    PROVE  CallbackOf(t)' /\ PendingNumbers' /\ FiredInTime'
<1>1. UNCHANGED <<w_value, w_pending_callbacks, w_pc, f_value,
                  f_pending_callbacks, f_pc, lsn, asked, cb, num, callbacks,
                  fired>>
  BY DEF fVars, W!SetPending, W!waiterVars, W!releaseVars
<1>2. CallbackOf(t)'
  BY <1>1 DEF CallbackOf, PassedWith
<1>3. PendingNumbers' /\ FiredInTime'
  BY <1>1 DEF PendingNumbers, FiredInTime, InTime, PassedWith
<1> QED BY <1>2, <1>3

\* Steps that do not touch the locks.
LEMMA QuietCallbacks ==
    ASSUME TypeOK, TypeOK', NEW t \in Thread,
           UNCHANGED <<fVars, wVars, threadVars, asked>>, lsn <= lsn',
           CallbackOf(t), PendingNumbers, FiredInTime
    PROVE  CallbackOf(t)' /\ PendingNumbers' /\ FiredInTime'
<1>1. UNCHANGED <<f_value, f_pending_callbacks, f_pc, w_value,
                  w_pending_callbacks, w_pc, asked, cb, num, callbacks, fired>>
  BY DEF fVars, wVars, threadVars
<1>2. lsn \in Nat /\ lsn' \in Nat /\ num[t] \in Nat
  <2>1. NumberType /\ NumberType'
    BY NumberTypes, PTL
  <2> QED BY <2>1 DEF NumberType
<1>3. /\ \A x \in f_pending_callbacks : x.num \in Nat
      /\ \A x \in w_pending_callbacks : x.num \in Nat
  BY TypeParts DEF FLockType, WLockType, Pending
<1>4. CallbackOf(t)'
  <2>1. cb'[t] # NoCallback => num'[t] <= lsn'
    BY <1>1, <1>2 DEF CallbackOf
  <2> QED BY <1>1, <2>1 DEF CallbackOf, PassedWith
<1>5. /\ \A x \in f_pending_callbacks' : x.num <= lsn'
      /\ \A x \in w_pending_callbacks' : x.num <= lsn'
  <2>1. /\ \A x \in f_pending_callbacks : x.num <= lsn
        /\ \A x \in w_pending_callbacks : x.num <= lsn
    BY DEF PendingNumbers
  <2> QED BY <2>1, <1>1, <1>2, <1>3
<1>6. PendingNumbers' /\ FiredInTime'
  BY <1>1, <1>5 DEF PendingNumbers, FiredInTime, InTime, PassedWith
<1> QED BY <1>4, <1>6

LEMMA FinishCallbacks ==
    ASSUME TypeOK, NEW t \in Thread, Finish(t),
           CallbackOf(t), PendingNumbers, FiredInTime
    PROVE  CallbackOf(t)' /\ PendingNumbers' /\ FiredInTime'
<1>1. /\ UNCHANGED <<f_value, f_pending_callbacks, w_value,
                     w_pending_callbacks, asked, cb, num, lsn, fired>>
      /\ f_pc'[t] = "idle" /\ w_pc'[t] = "idle"
  BY TypeParts DEF Finish, FLockType, WLockType
<1>2. CallbackOf(t)'
  BY <1>1 DEF CallbackOf, F!InAcquire, W!InAcquire
<1>3. PendingNumbers' /\ FiredInTime'
  BY <1>1 DEF PendingNumbers, FiredInTime, InTime, PassedWith
<1> QED BY <1>2, <1>3

\* The asking calls: what is passed to acquire() is what was asked.
LEMMA CallbacksOfSelf ==
    ASSUME TypeOK, TypeOK', NEW t \in Thread, InPlace(t), Returned(t),
           lsn <= lsn',
           CallbackOf(t), PendingNumbers, FiredInTime, Start(t) \/ Continue(t)
    PROVE  /\ AskedGrows
           /\ CallbackOf(t)' /\ PendingNumbers' /\ FiredInTime'
<1> DEFINE Cbs == CallbackOf(t)' /\ PendingNumbers' /\ FiredInTime'
           Aim == AskedGrows /\ Cbs
<1> SUFFICES Aim OBVIOUS
<1>N. NumberType BY NumberTypes
<1>M. /\ lsn \in Nat /\ lsn + 1 \in Nat /\ job[t].lsn \in Nat
      /\ ret[t] \in Nat /\ job[t].n \in Nat /\ job[t] \in Job
  BY <1>N DEF NumberType
<1>C. /\ NoCallback \notin Callback /\ Dummy \notin Callback
      /\ NoCallback \in Callback \cup {Dummy, NoCallback}
  BY RedoLogAssumption
<1>G. ASSUME UNCHANGED asked PROVE AskedGrows
  BY <1>G DEF AskedGrows
<1>P. ASSUME NEW n, NEW d PROVE PassedWith(NoCallback, n, d)'
  BY <1>C DEF PassedWith
<1> HIDE DEF Cbs
<1>Q. ASSUME UNCHANGED <<fVars, wVars, threadVars, asked>> PROVE Aim
  BY <1>Q, <1>G, QuietCallbacks DEF Cbs
<1>R. ASSUME NEW j, Repeat(t, j), j.lsn \in Nat,
             j.cb \in Callback \cup {Dummy, NoCallback}, AskedGrows,
             PassedWith(j.cb, j.lsn, j.durable)', j.durable \in BOOLEAN,
             j.cb # NoCallback => j.lsn <= lsn,
             f_pc[t] \in F!Outside, w_pc[t] \in W!Outside
      PROVE  Cbs
  <2>1. CASE /\ j.durable /\ F!Acquire(t, j.lsn, j.cb)
             /\ UNCHANGED <<lsn, wVars>>
    <3>1. j.durable = TRUE
      BY <2>1, <1>R
    <3>2. PassedWith(j.cb, j.lsn, TRUE)'
      BY <3>1, <1>R
    <3> QED BY <2>1, <3>2, <1>R, FAcquireCallbacks DEF Cbs
  <2>2. CASE /\ ~j.durable /\ W!Acquire(t, j.lsn, j.cb)
             /\ UNCHANGED <<lsn, fVars>>
    <3>1. j.durable = FALSE
      BY <2>2, <1>R
    <3>2. PassedWith(j.cb, j.lsn, FALSE)'
      BY <3>1, <1>R
    <3> QED BY <2>2, <3>2, <1>R, WAcquireCallbacks DEF Cbs
  <2> QED BY <1>R, <2>1, <2>2 DEF Repeat
<1>D. ASSUME Finish(t) PROVE Aim
  BY <1>D, <1>G, FinishCallbacks DEF Cbs, Finish
<1>S. ASSUME NEW l \in Nat, l <= lsn, Settle(t, l),
             f_pc[t] \in F!Outside, w_pc[t] \in W!Outside
      PROVE  Aim
  <2>1. CASE Repeat(t, Again(job[t], l)) /\ UNCHANGED asked
    <3>0. PICK j : j = Again(job[t], l)
      OBVIOUS
    <3>1. /\ j.lsn = l /\ j.cb \in {Dummy, NoCallback}
          /\ j.durable \in BOOLEAN
      BY <3>0, <1>M, <1>N, Calls DEF NumberType
    <3>2. Repeat(t, j) /\ AskedGrows
      BY <3>0, <2>1, <1>G
    <3>3. PassedWith(j.cb, j.lsn, j.durable)'
      BY <3>1, <1>C DEF PassedWith
    <3> QED BY <3>1, <3>2, <3>3, <1>S, <1>R
  <2> QED BY <1>S, <2>1, <1>D, SettleCases
<1>1. CASE CallWriteUpTo(t)
  <2>0. f_pc[t] \in F!Outside /\ w_pc[t] \in W!Outside
    BY <1>1 DEF CallWriteUpTo, InPlace, InFlushLock, InWriteLock, OwnsFlush,
       OwnsWrite
  <2>1. PICK l \in 1..lsn, d \in BOOLEAN :
            \/ Repeat(t, SyncCall(l, d)) /\ UNCHANGED asked
            \/ \E c \in Callback :
                   /\ asked[c] = NotAsked
                   /\ asked' = [asked EXCEPT ![c] = [lsn |-> l,
                                                    durable |-> d]]
                   /\ Repeat(t, AsyncCall(l, d, c))
    BY <1>1, CallCases
  <2>2. l \in Nat /\ l <= lsn /\ l > 0
    BY <1>M
  <2>3. CASE Repeat(t, SyncCall(l, d)) /\ UNCHANGED asked
    <3> DEFINE j == SyncCall(l, d)
    <3>1. j.lsn = l /\ j.durable = d /\ j.cb = NoCallback
      BY Calls
    <3>2. Repeat(t, j) /\ AskedGrows
      BY <2>3, <1>G
    <3> HIDE DEF j
    <3>3. PassedWith(j.cb, j.lsn, j.durable)'
      BY <3>1, <1>C DEF PassedWith
    <3>4. /\ j.lsn \in Nat /\ j.cb \in Callback \cup {Dummy, NoCallback}
          /\ j.durable \in BOOLEAN /\ (j.cb # NoCallback => j.lsn <= lsn)
      BY <3>1, <2>2
    <3> QED BY <3>2, <3>3, <3>4, <2>0, <1>R
  <2>4. ASSUME NEW c \in Callback, asked[c] = NotAsked,
               asked' = [asked EXCEPT ![c] = [lsn |-> l, durable |-> d]],
               Repeat(t, AsyncCall(l, d, c))
        PROVE  Aim
    <3> DEFINE j == AsyncCall(l, d, c)
    <3>1. j.lsn = l /\ j.durable = d /\ j.cb = c
      BY Calls
    <3>2. Repeat(t, j) /\ AskedGrows
      BY <2>4, AskedOnce
    <3> HIDE DEF j
    <3>3. PassedWith(j.cb, j.lsn, j.durable)'
      <4>1. asked'[c] = [lsn |-> l, durable |-> d]
        BY <2>4, TypeParts DEF LogType
      <4> QED BY <3>1, <2>2, <4>1 DEF PassedWith
    <3>4. /\ j.lsn \in Nat /\ j.cb \in Callback \cup {Dummy, NoCallback}
          /\ j.durable \in BOOLEAN /\ (j.cb # NoCallback => j.lsn <= lsn)
      BY <3>1, <2>2
    <3> QED BY <3>2, <3>3, <3>4, <2>0, <1>R
  <2> QED BY <2>1, <2>3, <2>4
<1>X. ASSUME PrepareFlushLock(t), w_pc[t] \in W!Outside PROVE Aim
  BY <1>X, <1>M, <1>C, <1>P, <1>G, FAcquireCallbacks
     DEF PrepareFlushLock, Cbs
<1>Y. ASSUME NEW n \in Nat, W!Acquire(t, n, NoCallback),
             UNCHANGED <<lsn, asked, fVars>>, f_pc[t] = "ACQUIRED"
      PROVE  Aim
  BY <1>Y, <1>C, <1>P, <1>G, WAcquireCallbacks DEF Cbs
<1> USE DEF InPlace, InFlushLock, InWriteLock, OwnsFlush, OwnsWrite, Placed
<1>2. CASE CallWriteAndFlush(t) BY <1>2, <1>X DEF CallWriteAndFlush
<1>3. CASE CallResize(t) BY <1>3, <1>X DEF CallResize
<1>4. CASE LockStep(t)
  <2>1. CASE F!AcquireStep(t) /\ UNCHANGED wVars
    <3>1. w_pc[t] \in W!Outside \cup {"ACQUIRED"}
      BY <2>1, TypeParts, FLockSelf DEF F!InAcquire, F!Outside
    <3> QED BY <1>4, <2>1, <3>1, <1>G, FAcquireStepCallbacks DEF LockStep, Cbs
  <2>2. CASE F!ReleaseStep(t) /\ UNCHANGED wVars
    <3>1. w_pc[t] \in W!Outside \cup {"ACQUIRED"}
      BY <2>2, TypeParts, FLockSelf DEF F!Outside
    <3> QED BY <1>4, <2>2, <3>1, <1>G, FReleaseStepCallbacks DEF LockStep, Cbs
  <2>3. CASE W!AcquireStep(t) /\ UNCHANGED fVars
    <3>1. f_pc[t] \in F!Outside \cup {"ACQUIRED"}
      BY <2>3, TypeParts, WLockSelf DEF W!InAcquire, W!Outside
    <3> QED BY <1>4, <2>3, <3>1, <1>G, WAcquireStepCallbacks DEF LockStep, Cbs
  <2>4. CASE W!ReleaseStep(t) /\ UNCHANGED fVars
    <3>1. f_pc[t] \in F!Outside \cup {"ACQUIRED"}
      BY <2>4, TypeParts, WLockSelf DEF W!Outside
    <3> QED BY <1>4, <2>4, <3>1, <1>G, WReleaseStepCallbacks DEF LockStep, Cbs
  <2> QED BY <1>4, <2>1, <2>2, <2>3, <2>4 DEF LockStep
<1>5. CASE FlushCovered(t) BY <1>5, <1>D DEF FlushCovered
<1>6. CASE FlushLead(t)
  BY <1>6, <1>G, FSetPendingCallbacks DEF FlushLead, Cbs
<1>7. CASE AcquireWriteLock(t)
  BY <1>7, <1>M, <1>Y DEF AcquireWriteLock
<1>8. CASE WriteCovered(t) BY <1>8, <1>D, <1>Q DEF WriteCovered
<1>9. CASE StartWrite(t)
  BY <1>9, <1>G, <1>Q, WSetPendingCallbacks DEF StartWrite, Cbs
<1>10. CASE WriteBuf(t) BY <1>10, <1>Q DEF WriteBuf
<1>11. CASE ReleaseWriteLock(t)
  <2>1. f_pc[t] \in F!Outside \cup {"ACQUIRED"}
    BY <1>11 DEF ReleaseWriteLock, F!Outside
  <2> QED BY <1>11, <2>1, <1>M, <1>G, WReleaseCallbacks
          DEF ReleaseWriteLock, Cbs
<1>12. CASE WriteReleased(t)
  <2>1. ret[t] <= lsn
    BY DEF Returned
  <2>2. ~job[t].durable => f_pc[t] \in F!Outside /\ w_pc[t] \in W!Outside
    BY <1>12 DEF WriteReleased, W!Outside
  <2> QED BY <1>12, <2>1, <2>2, <1>M, <1>Q, <1>S DEF WriteReleased
<1>13. CASE LogFlush(t)
  BY <1>13, <1>G, FSetPendingCallbacks DEF LogFlush, Cbs
<1>14. CASE Fsync(t) BY <1>14, <1>Q DEF Fsync
<1>15. CASE PublishFlushed(t) BY <1>15, <1>Q DEF PublishFlushed
<1>16. CASE ReleaseFlushLock(t)
  <2>1. w_pc[t] \in W!Outside \cup {"ACQUIRED"}
    BY <1>16 DEF ReleaseFlushLock
  <2> QED BY <1>16, <2>1, <1>M, <1>G, FReleaseCallbacks
          DEF ReleaseFlushLock, Cbs
<1>17. CASE FlushReleased(t)
  <2>1. Larger(job[t].owed, ret[t]) \in Nat
        /\ Larger(job[t].owed, ret[t]) <= lsn
    BY <1>N DEF Larger, NumberType, Returned
  <2>2. f_pc[t] \in F!Outside /\ w_pc[t] \in W!Outside
    BY <1>17 DEF FlushReleased, F!Outside
  <2> QED BY <1>17, <2>1, <2>2, <1>D, <1>S DEF FlushReleased
<1>18. CASE PrepareAgain(t)
  BY <1>18, <1>M, <1>X, <1>Y DEF PrepareAgain, PrepareWriteLock
<1>19. CASE LatchExclusive(t) BY <1>19, <1>Q DEF LatchExclusive
<1>20. CASE ResizeSection(t) BY <1>20, <1>Q DEF ResizeSection
<1> QED BY <1>1, <1>2, <1>3, <1>4, <1>5, <1>6, <1>7, <1>8, <1>9, <1>10,
           <1>11, <1>12, <1>13, <1>14, <1>15, <1>16, <1>17, <1>18, <1>19,
           <1>20 DEF Start, Continue

\* Callbacks stay with their numbers.
LEMMA CallbacksStep ==
    ASSUME TypeOK, TypeOK', Owners, Positions, Promises, CallbackNumbers,
           NEW t \in Thread, Guarantee(t), Start(t) \/ Continue(t)
    PROVE  CallbackNumbers'
<1>1. InPlace(t) /\ Returned(t) /\ lsn <= lsn'
  BY DEF Owners, Promises, Guarantee, InPlace
<1>2. AskedGrows /\ CallbackOf(t)' /\ PendingNumbers' /\ FiredInTime'
  BY <1>1, CallbacksOfSelf DEF CallbackNumbers
<1>3. ASSUME NEW u \in Thread \ {t} PROVE CallbackOf(u)'
  <2>1. LocksSame(u) /\ CallbackOf(u)
    BY Others DEF Same, LocksSame, CallbackNumbers
  <2> QED BY <2>1, <1>2, CallbackStable
<1> QED BY <1>2, <1>3 DEF CallbackNumbers

-----------------------------------------------------------------------------
(* Promises: who counts on whom.                                           *)

\* Somebody other than the owner of a lock never takes a waiter away, and
\* leaves only callbacks behind that the owner or a waiter will see to.
FlushGentle ==
    /\ f_pending_value' = f_pending_value
    /\ f_waiters_list \subseteq f_waiters_list'
    /\ \A x \in f_pending_callbacks' :
           \/ x \in f_pending_callbacks
           \/ f_waiters_list # {}
           \/ x.num <= f_pending_value
WriteGentle ==
    /\ w_pending_value' = w_pending_value
    /\ w_waiters_list \subseteq w_waiters_list'
    /\ \A x \in w_pending_callbacks' :
           \/ x \in w_pending_callbacks
           \/ w_waiters_list # {}
           \/ x.num <= w_pending_value

LEMMA FStepGentle ==
    ASSUME NEW t \in Thread, f_lock, f_pc[t] # "ACQUIRED", FlushOp(t)
    PROVE  FlushGentle
<1> USE DEF FlushGentle, F!lockVars
<1>1. CASE \E n, c : F!Acquire(t, n, c)
  BY <1>1 DEF F!Acquire, F!AcquireFast, F!AcquireSlow
<1>2. CASE F!AcquireStep(t)
  <2>1. CASE F!QueueCallback(t)
    BY <2>1 DEF F!QueueCallback, F!PushCallback, F!MayQueue
  <2>2. CASE F!Enqueue(t)
    BY <2>2 DEF F!Enqueue
  <2>3. CASE UNCHANGED F!lockVars
    BY <2>3
  <2> QED BY <1>2, <2>1, <2>2, <2>3 DEF F!AcquireStep, F!LoopEnter,
          F!LoopExit, F!RecheckExpired, F!TakeLock, F!WakeUp
<1>3. CASE F!ReleaseStep(t)
  BY <1>3 DEF F!ReleaseStep, F!WakeLead, F!RunCallback, F!WakeOther,
     F!ReleaseReturn
<1> QED BY <1>1, <1>2, <1>3 DEF FlushOp, F!SetPending, F!Release

LEMMA WStepGentle ==
    ASSUME NEW t \in Thread, w_lock, w_pc[t] # "ACQUIRED", WriteOp(t)
    PROVE  WriteGentle
<1> USE DEF WriteGentle, W!lockVars
<1>1. CASE \E n, c : W!Acquire(t, n, c)
  BY <1>1 DEF W!Acquire, W!AcquireFast, W!AcquireSlow
<1>2. CASE W!AcquireStep(t)
  <2>1. CASE W!QueueCallback(t)
    BY <2>1 DEF W!QueueCallback, W!PushCallback, W!MayQueue
  <2>2. CASE W!Enqueue(t)
    BY <2>2 DEF W!Enqueue
  <2>3. CASE UNCHANGED W!lockVars
    BY <2>3
  <2> QED BY <1>2, <2>1, <2>2, <2>3 DEF W!AcquireStep, W!LoopEnter,
          W!LoopExit, W!RecheckExpired, W!TakeLock, W!WakeUp
<1>3. CASE W!ReleaseStep(t)
  BY <1>3 DEF W!ReleaseStep, W!WakeLead, W!RunCallback, W!WakeOther,
     W!ReleaseReturn
<1> QED BY <1>1, <1>2, <1>3 DEF WriteOp, W!SetPending, W!Release

\* What acquire() returns, and what it was called with while it runs.
LEMMA FStepSelf ==
    ASSUME FLockType, ThreadType, NEW t \in Thread
    PROVE  /\ \A n, c : F!Acquire(t, n, c) =>
                  /\ ret' = ret
                  /\ \/ f_pc'[t] = "EXPIRED" /\ n <= f_value
                     \/ f_pc'[t] = "loop" /\ num'[t] = n /\ cb'[t] = c
           /\ F!AcquireStep(t) =>
                  /\ ret' = ret
                  /\ \/ /\ f_pc'[t] \in F!InAcquire
                        /\ num'[t] = num[t] /\ cb'[t] = cb[t]
                     \/ f_pc'[t] = "EXPIRED" /\ num[t] <= f_value
                     \/ f_pc'[t] = "CALLBACK_QUEUED" /\ cb[t] # NoCallback
                     \/ f_pc'[t] = "ACQUIRED"
           /\ F!ReleaseStep(t) => ret' = ret /\ UNCHANGED F!lockVars
<1> USE DEF FLockType, ThreadType, F!Goto, F!waiterVars, F!releaseVars
<1>1. ASSUME NEW n, NEW c, F!Acquire(t, n, c)
      PROVE  /\ ret' = ret
             /\ \/ f_pc'[t] = "EXPIRED" /\ n <= f_value
                \/ f_pc'[t] = "loop" /\ num'[t] = n /\ cb'[t] = c
  <2>1. CASE F!AcquireFast(t, n, c) BY <2>1 DEF F!AcquireFast
  <2>2. CASE F!AcquireSlow(t, n, c) BY <2>2 DEF F!AcquireSlow
  <2> QED BY <1>1, <2>1, <2>2 DEF F!Acquire
<1>2. ASSUME F!AcquireStep(t)
      PROVE  /\ ret' = ret
             /\ \/ /\ f_pc'[t] \in F!InAcquire
                   /\ num'[t] = num[t] /\ cb'[t] = cb[t]
                \/ f_pc'[t] = "EXPIRED" /\ num[t] <= f_value
                \/ f_pc'[t] = "CALLBACK_QUEUED" /\ cb[t] # NoCallback
                \/ f_pc'[t] = "ACQUIRED"
  <2> USE DEF F!Return, F!InAcquire
  <2>1. CASE F!LoopEnter(t) BY <2>1 DEF F!LoopEnter
  <2>2. CASE F!LoopExit(t) BY <2>2 DEF F!LoopExit
  <2>3. CASE F!RecheckExpired(t) BY <2>3 DEF F!RecheckExpired, F!Expired
  <2>4. CASE F!TakeLock(t) BY <2>4 DEF F!TakeLock
  <2>5. CASE F!QueueCallback(t) BY <2>5 DEF F!QueueCallback, F!MayQueue
  <2>6. CASE F!Enqueue(t) BY <2>6 DEF F!Enqueue
  <2>7. CASE F!WakeUp(t) BY <2>7 DEF F!WakeUp
  <2> QED BY <1>2, <2>1, <2>2, <2>3, <2>4, <2>5, <2>6, <2>7
          DEF F!AcquireStep
<1>3. F!ReleaseStep(t) => ret' = ret /\ UNCHANGED F!lockVars
  BY DEF F!ReleaseStep, F!WakeLead, F!RunCallback, F!WakeOther,
     F!ReleaseReturn
<1> QED BY <1>1, <1>2, <1>3

\* What acquire() returns, and what it was called with while it runs.
LEMMA WStepSelf ==
    ASSUME WLockType, ThreadType, NEW t \in Thread
    PROVE  /\ \A n, c : W!Acquire(t, n, c) =>
                  /\ ret' = ret
                  /\ \/ w_pc'[t] = "EXPIRED" /\ n <= w_value
                     \/ w_pc'[t] = "loop" /\ num'[t] = n /\ cb'[t] = c
           /\ W!AcquireStep(t) =>
                  /\ ret' = ret
                  /\ \/ /\ w_pc'[t] \in W!InAcquire
                        /\ num'[t] = num[t] /\ cb'[t] = cb[t]
                     \/ w_pc'[t] = "EXPIRED" /\ num[t] <= w_value
                     \/ w_pc'[t] = "CALLBACK_QUEUED" /\ cb[t] # NoCallback
                     \/ w_pc'[t] = "ACQUIRED"
           /\ W!ReleaseStep(t) => ret' = ret /\ UNCHANGED W!lockVars
<1> USE DEF WLockType, ThreadType, W!Goto, W!waiterVars, W!releaseVars
<1>1. ASSUME NEW n, NEW c, W!Acquire(t, n, c)
      PROVE  /\ ret' = ret
             /\ \/ w_pc'[t] = "EXPIRED" /\ n <= w_value
                \/ w_pc'[t] = "loop" /\ num'[t] = n /\ cb'[t] = c
  <2>1. CASE W!AcquireFast(t, n, c) BY <2>1 DEF W!AcquireFast
  <2>2. CASE W!AcquireSlow(t, n, c) BY <2>2 DEF W!AcquireSlow
  <2> QED BY <1>1, <2>1, <2>2 DEF W!Acquire
<1>2. ASSUME W!AcquireStep(t)
      PROVE  /\ ret' = ret
             /\ \/ /\ w_pc'[t] \in W!InAcquire
                   /\ num'[t] = num[t] /\ cb'[t] = cb[t]
                \/ w_pc'[t] = "EXPIRED" /\ num[t] <= w_value
                \/ w_pc'[t] = "CALLBACK_QUEUED" /\ cb[t] # NoCallback
                \/ w_pc'[t] = "ACQUIRED"
  <2> USE DEF W!Return, W!InAcquire
  <2>1. CASE W!LoopEnter(t) BY <2>1 DEF W!LoopEnter
  <2>2. CASE W!LoopExit(t) BY <2>2 DEF W!LoopExit
  <2>3. CASE W!RecheckExpired(t) BY <2>3 DEF W!RecheckExpired, W!Expired
  <2>4. CASE W!TakeLock(t) BY <2>4 DEF W!TakeLock
  <2>5. CASE W!QueueCallback(t) BY <2>5 DEF W!QueueCallback, W!MayQueue
  <2>6. CASE W!Enqueue(t) BY <2>6 DEF W!Enqueue
  <2>7. CASE W!WakeUp(t) BY <2>7 DEF W!WakeUp
  <2> QED BY <1>2, <2>1, <2>2, <2>3, <2>4, <2>5, <2>6, <2>7
          DEF W!AcquireStep
<1>3. W!ReleaseStep(t) => ret' = ret /\ UNCHANGED W!lockVars
  BY DEF W!ReleaseStep, W!WakeLead, W!RunCallback, W!WakeOther,
     W!ReleaseReturn
<1> QED BY <1>1, <1>2, <1>3

\* release() returns a number only if nobody is left to lead, and not if
\* the owner has reached what everybody counts on.
LEMMA FReleaseReturns ==
    ASSUME FLockType, ThreadType, NEW t \in Thread, NEW n \in Nat,
           F!Release(t, n)
    PROVE  /\ ret'[t] = 0 \/ \E x \in f_pending_callbacks : ret'[t] = x.num
           /\ FlushCovers(n) => ret'[t] = 0
<1>1. \/ ret'[t] = 0
      \/ /\ F!Candidates(n) = {}
         /\ \E x \in F!StillPending(n) : ret'[t] = x.num
  BY DEF F!Release, F!WakeWithLeader, F!WakeWithoutLeader, ThreadType
<1>2. ASSUME NEW x \in F!StillPending(n), FlushCovers(n)
      PROVE  F!Candidates(n) # {}
  <2>1. x \in f_pending_callbacks /\ x.num > n /\ x.num \in Nat
    BY DEF F!StillPending, FLockType, Pending
  <2>2. f_waiters_list # {}
    BY <1>2, <2>1 DEF FlushCovers
  <2>3. F!Unreached(n) = {} => F!Reached(n) # {}
    BY <2>2 DEF F!Reached
  <2> QED BY <2>3 DEF F!Candidates
<1> QED BY <1>1, <1>2 DEF F!StillPending

\* release() returns a number only if nobody is left to lead, and not if
\* the owner has reached what everybody counts on.
LEMMA WReleaseReturns ==
    ASSUME WLockType, ThreadType, NEW t \in Thread, NEW n \in Nat,
           W!Release(t, n)
    PROVE  /\ ret'[t] = 0 \/ \E x \in w_pending_callbacks : ret'[t] = x.num
           /\ WriteCovers(n) => ret'[t] = 0
<1>1. \/ ret'[t] = 0
      \/ /\ W!Candidates(n) = {}
         /\ \E x \in W!StillPending(n) : ret'[t] = x.num
  BY DEF W!Release, W!WakeWithLeader, W!WakeWithoutLeader, ThreadType
<1>2. ASSUME NEW x \in W!StillPending(n), WriteCovers(n)
      PROVE  W!Candidates(n) # {}
  <2>1. x \in w_pending_callbacks /\ x.num > n /\ x.num \in Nat
    BY DEF W!StillPending, WLockType, Pending
  <2>2. w_waiters_list # {}
    BY <1>2, <2>1 DEF WriteCovers
  <2>3. W!Unreached(n) = {} => W!Reached(n) # {}
    BY <2>2 DEF W!Reached
  <2> QED BY <2>3 DEF W!Candidates
<1> QED BY <1>1, <1>2 DEF W!StillPending

\* A step of t does not break what u, the owner of the lock, has promised.
LEMMA FStepCovers ==
    ASSUME TypeOK, Owners, NEW t \in Thread, NEW u \in Thread \ {t},
           Start(t) \/ Continue(t), f_pc[u] = "ACQUIRED"
    PROVE  FlushGentle
<1>1. f_lock /\ f_pc[t] # "ACQUIRED" /\ InPlace(t)
  BY DEF Owners, OneFlushOwner, InPlace
<1>2. CASE FlushOp(t)
  BY <1>1, <1>2, FStepGentle
<1>3. CASE UNCHANGED fVars
  BY <1>3 DEF FlushGentle, fVars
<1>4. CASE Finish(t)
  BY <1>4 DEF FlushGentle, Finish
<1> QED BY <1>1, <1>2, <1>3, <1>4, LockOps

LEMMA FStepCoversStable ==
    ASSUME FLockType, FLockType', FlushGentle
    PROVE  \A n \in Nat : FlushCovers(n) => FlushCovers(n)'
<1> SUFFICES ASSUME NEW n \in Nat, FlushCovers(n) PROVE FlushCovers(n)'
  OBVIOUS
<1>1. /\ f_pending_value \in Nat
      /\ \A x \in f_pending_callbacks' : x.num \in Nat
  BY DEF FLockType, Pending
<1> QED BY <1>1 DEF FlushGentle, FlushCovers

\* A step of t does not break what u, the owner of the lock, has promised.
LEMMA WStepCovers ==
    ASSUME TypeOK, Owners, NEW t \in Thread, NEW u \in Thread \ {t},
           Start(t) \/ Continue(t), w_pc[u] = "ACQUIRED"
    PROVE  WriteGentle
<1>1. w_lock /\ w_pc[t] # "ACQUIRED" /\ InPlace(t)
  BY DEF Owners, OneWriteOwner, InPlace
<1>2. CASE WriteOp(t)
  BY <1>1, <1>2, WStepGentle
<1>3. CASE UNCHANGED wVars
  BY <1>3 DEF WriteGentle, wVars
<1>4. CASE Finish(t)
  BY <1>4 DEF WriteGentle, Finish
<1> QED BY <1>1, <1>2, <1>3, <1>4, LockOps

LEMMA WStepCoversStable ==
    ASSUME WLockType, WLockType', WriteGentle
    PROVE  \A n \in Nat : WriteCovers(n) => WriteCovers(n)'
<1> SUFFICES ASSUME NEW n \in Nat, WriteCovers(n) PROVE WriteCovers(n)'
  OBVIOUS
<1>1. /\ w_pending_value \in Nat
      /\ \A x \in w_pending_callbacks' : x.num \in Nat
  BY DEF WLockType, Pending
<1> QED BY <1>1 DEF WriteGentle, WriteCovers

LEMMA PromisesStable ==
    ASSUME TypeOK, TypeOK', Owners, NEW t \in Thread, NEW u \in Thread \ {t},
           Start(t) \/ Continue(t), Same(u), Guarantee(t),
           Promise(u), Returned(u), Goal(u)
    PROVE  Promise(u)' /\ Returned(u)' /\ Goal(u)'
<1>N. NumberType /\ NumberType'
  BY NumberTypes, PTL
<1>T. FLockType /\ FLockType' /\ WLockType /\ WLockType'
  <2>1. FLockType /\ WLockType
    BY TypeParts
  <2>2. FLockType' /\ WLockType'
    BY TypeParts, PTL
  <2> QED BY <2>1, <2>2
<1>P. InPlace(u)
  BY DEF Owners, InPlace
<1>F. OwnsFlush(u) => \A n \in Nat : FlushCovers(n) => FlushCovers(n)'
  BY <1>P, <1>T, FStepCovers, FStepCoversStable DEF InPlace, InFlushLock
<1>W. OwnsWrite(u) => \A n \in Nat : WriteCovers(n) => WriteCovers(n)'
  BY <1>P, <1>T, WStepCovers, WStepCoversStable DEF InPlace, InWriteLock
<1>G. /\ lsn <= lsn' /\ f_value <= f_value' /\ w_value <= w_value'
      /\ lsn \in Nat /\ lsn' \in Nat /\ f_value \in Nat /\ f_value' \in Nat
      /\ w_value \in Nat /\ w_value' \in Nat
  BY <1>N DEF Guarantee, NumberType
<1>J. PICK j, a, m : j = job[u] /\ a = at[u] /\ m = num[u]
  OBVIOUS
<1>K. /\ j = job[u] /\ j = job'[u] /\ a = at[u] /\ a = at'[u]
      /\ m = num[u] /\ m = num'[u] /\ m \in Nat
      /\ f_pc'[u] = f_pc[u] /\ w_pc'[u] = w_pc[u] /\ cb'[u] = cb[u]
      /\ ret'[u] = ret[u] /\ ret[u] \in Nat
      /\ j.lsn \in Nat /\ j.n \in Nat /\ j.owed \in Nat /\ j.goal \in Nat
  BY <1>J, <1>N DEF Same, NumberType
<1>1. Returned(u)'
  BY <1>G, <1>K DEF Returned
<1>2. Goal(u)'
  BY <1>G, <1>K DEF Goal
<1>3. FlushTo(u) <= FlushTo(u)' /\ FlushTo(u) \in Nat /\ FlushTo(u)' \in Nat
  BY <1>G, <1>K DEF FlushTo
<1>4. Promise(u)'
  <2> SUFFICES ASSUME j.op # "resize" PROVE Promise(u)'
    BY <1>K DEF Promise
  <2>1. a = "write" /\ j.durable =>
            /\ w_pc'[u] \in W!InAcquire => num'[u] = j.lsn /\ cb'[u] = NoCallback
            /\ w_pc'[u] # "CALLBACK_QUEUED"
            /\ w_pc'[u] = "EXPIRED" => j.lsn <= w_value'
    BY <1>G, <1>K DEF Promise
  <2>2. a \in {"write_buf", "wrote"} =>
            (j.durable => j.lsn <= j.n) /\ WriteCovers(j.n)'
    BY <1>W, <1>K DEF Promise, OwnsWrite
  <2>3. \/ a = "write_release" /\ j.durable
        \/ a = "log_flush"
        => j.lsn <= FlushTo(u)'
    BY <1>3, <1>K DEF Promise
  <2>4. \/ a = "promise"
        \/ /\ a \in {"write", "write_buf", "wrote", "write_release"}
           /\ j.durable
        \/ a = "log_flush"
        => FlushCovers(j.lsn)'
    BY <1>F, <1>K DEF Promise, OwnsFlush
  <2>5. a \in {"fsync", "fsynced", "flushed"} =>
            j.lsn <= j.n /\ FlushCovers(j.n)'
    BY <1>F, <1>K DEF Promise, OwnsFlush
  <2> QED BY <2>1, <2>2, <2>3, <2>4, <2>5, <1>K
          DEF Promise, FlushCovers, WriteCovers
<1> QED BY <1>1, <1>2, <1>4

\* What the steps of a thread do to its own promises.
LEMMA PromisesOfSelf ==
    ASSUME TypeOK, TypeOK', NEW t \in Thread, InPlace(t), Order, Target(t),
           CallbackOf(t), PendingNumbers, Promise(t), Returned(t), Goal(t),
           Start(t) \/ Continue(t)
    PROVE  Promise(t)' /\ Returned(t)' /\ Goal(t)'
<1> DEFINE Aim == Promise(t)' /\ Returned(t)' /\ Goal(t)'
<1> SUFFICES Aim OBVIOUS
<1>N. NumberType BY NumberTypes
<1>T. FLockType /\ WLockType /\ ThreadType BY TypeParts
<1>J. job \in [Thread -> Job] /\ at \in [Thread -> LogLabel]
  BY TypeParts DEF LogType
<1>C. /\ \A x \in f_pending_callbacks : x.num <= lsn
      /\ \A x \in w_pending_callbacks : x.num <= lsn
      /\ f_pending_value <= lsn /\ w_pending_value <= lsn
  BY DEF PendingNumbers, Order
<1>X. FlushCovers(lsn) /\ WriteCovers(lsn)
  BY <1>C DEF FlushCovers, WriteCovers
<1>D. ASSUME Finish(t) PROVE Aim
  <2>1. /\ job'[t] = NoJob /\ at'[t] = "idle" /\ ret'[t] = 0 /\ lsn' = lsn
    BY <1>D, <1>J, <1>T DEF Finish, Go, ThreadType
  <2> QED BY <2>1, <1>N DEF NoJob, Promise, Returned, Goal, NumberType
<1>Q. ASSUME NEW j, Repeat(t, j), j.op = "write_up_to", j.owed = 0,
             j.lsn \in Nat, j.goal \in Nat, j.goal <= lsn,
             ~j.durable => j.goal = 0, j.goal <= j.lsn,
             j.cb # NoCallback => j.goal = 0
      PROVE  Aim
  <2>1. job'[t] = j /\ lsn' = lsn /\ ret' = ret
    BY <1>Q, <1>J, <1>T, FStepSelf, WStepSelf DEF Repeat
  <2>2. Returned(t)'
    BY <2>1, <1>Q, <1>N, <1>J DEF Returned, Repeat, Go, NumberType
  <2>3. CASE j.durable /\ F!Acquire(t, j.lsn, j.cb) /\ Go(t, "flush")
    <3>1. at'[t] = "flush" /\ f_value' = f_value
      BY <2>3, <1>J, FLockValues DEF Go
    <3>2. \/ f_pc'[t] = "EXPIRED" /\ j.lsn <= f_value
          \/ f_pc'[t] = "loop" /\ num'[t] = j.lsn /\ cb'[t] = j.cb
      BY <2>3, <1>T, FStepSelf
    <3>3. Goal(t)'
      BY <3>1, <3>2, <2>1, <2>3, <1>Q, <1>N DEF Goal, NumberType, F!InAcquire
    <3> QED BY <3>1, <2>1, <2>2, <3>3 DEF Promise
  <2>4. CASE ~j.durable /\ Go(t, "write")
    <3>1. at'[t] = "write"
      BY <2>4, <1>J DEF Go
    <3> QED BY <3>1, <2>1, <2>2, <2>4, <1>Q DEF Promise, Goal
  <2> QED BY <1>Q, <2>3, <2>4 DEF Repeat
<1>S. ASSUME NEW l \in Nat, Settle(t, l), l # 0 => job[t].goal = 0 PROVE Aim
  <2>1. CASE l # 0 /\ Repeat(t, Again(job[t], l))
    <3>0. PICK j : j = Again(job[t], l)
      OBVIOUS
    <3>1. /\ j.op = "write_up_to" /\ j.owed = 0 /\ j.lsn = l
          /\ j.goal = job[t].goal
      BY <3>0, <1>N, Calls DEF NumberType
    <3>2. j.goal = 0 /\ lsn \in Nat
      BY <3>1, <2>1, <1>S, <1>N DEF NumberType
    <3> QED BY <3>0, <3>1, <3>2, <2>1, <1>Q
  <2> QED BY <1>S, <2>1, <1>D, SettleCases
<1>1. CASE CallWriteUpTo(t)
  <2>1. PICK l \in 1..lsn, d \in BOOLEAN :
            \/ Repeat(t, SyncCall(l, d))
            \/ \E c \in Callback : Repeat(t, AsyncCall(l, d, c))
    BY <1>1, CallCases
  <2>2. l \in Nat /\ l <= lsn /\ lsn \in Nat
    BY <1>N DEF NumberType
  <2> QED BY <2>1, <2>2, <1>Q, Calls
<1>P. ASSUME PrepareFlushLock(t), job'[t].goal = 0, job'[t].owed = 0,
             job'[t].lsn \in Nat
      PROVE  Aim
  <2>1. at'[t] = "prepare_flush" /\ ret' = ret /\ lsn' = lsn
    BY <1>P, <1>J, <1>T, FStepSelf DEF PrepareFlushLock, Go
  <2> QED BY <1>P, <2>1, <1>N DEF Promise, Returned, Goal, NumberType
<1>2. CASE CallWriteAndFlush(t)
  <2>1. job'[t].goal = 0 /\ job'[t].owed = 0 /\ job'[t].lsn \in Nat
    BY <1>2, <1>J DEF CallWriteAndFlush, NoJob
  <2> QED BY <1>2, <2>1, <1>P DEF CallWriteAndFlush
<1>3. CASE CallResize(t)
  <2>1. job'[t].goal = 0 /\ job'[t].owed = 0 /\ job'[t].lsn \in Nat
    BY <1>3, <1>J DEF CallResize, NoJob
  <2> QED BY <1>3, <2>1, <1>P DEF CallResize
<1>4. CASE LockStep(t)
  <2>0. /\ UNCHANGED <<at, job, lsn>>
        /\ UNCHANGED <<f_value, f_pending_value, w_value, w_pending_value>>
    BY <1>4, FLockValues, WLockValues DEF LockStep, fVars, wVars
  <2>1. CASE F!AcquireStep(t) /\ UNCHANGED wVars
    <3>1. at[t] \in {"flush", "prepare_flush"}
      BY <2>1, <1>T, FLockSelf DEF InPlace, InFlushLock, F!InAcquire,
         F!Outside
    <3>2. ret' = ret /\ UNCHANGED <<w_pc, w_waiters_list, w_pending_callbacks>>
      BY <2>1, <1>T, FStepSelf DEF wVars
    <3>3. Goal(t)'
      <4>1. f_pc[t] \in F!InAcquire
        BY <2>1, <1>T, FLockSelf
      <4>2. \/ /\ f_pc'[t] \in F!InAcquire
               /\ num'[t] = num[t] /\ cb'[t] = cb[t]
            \/ f_pc'[t] = "EXPIRED" /\ num[t] <= f_value
            \/ f_pc'[t] = "CALLBACK_QUEUED" /\ cb[t] # NoCallback
            \/ f_pc'[t] = "ACQUIRED"
        BY <2>1, <1>T, FStepSelf
      <4> QED BY <2>0, <4>1, <4>2, <1>N DEF Goal, NumberType, F!InAcquire
    <3>4. Returned(t)'
      BY <2>0, <3>2 DEF Returned
    <3> QED BY <2>0, <3>1, <3>3, <3>4 DEF Promise
  <2>2. CASE F!ReleaseStep(t) /\ UNCHANGED wVars
    <3>1. at[t] = "flush_release"
      BY <2>2, <1>T, FLockSelf DEF InPlace, InFlushLock, F!Outside,
         Acquiring
    <3>2. ret' = ret
      BY <2>2, <1>T, FStepSelf
    <3> QED BY <2>0, <3>1, <3>2 DEF Goal, Returned, Promise
  <2>3. CASE W!AcquireStep(t) /\ UNCHANGED fVars
    <3>1. at[t] \in {"write", "prepare_write"} /\ w_pc[t] \in W!InAcquire
      BY <2>3, <1>T, WLockSelf DEF InPlace, InWriteLock, W!InAcquire,
         W!Outside
    <3>2. /\ UNCHANGED <<f_pc, f_waiters_list, f_pending_callbacks>>
          /\ ret' = ret
          /\ \/ /\ w_pc'[t] \in W!InAcquire
                /\ num'[t] = num[t] /\ cb'[t] = cb[t]
             \/ w_pc'[t] = "EXPIRED" /\ num[t] <= w_value
             \/ w_pc'[t] = "CALLBACK_QUEUED" /\ cb[t] # NoCallback
             \/ w_pc'[t] = "ACQUIRED"
      BY <2>3, <1>T, WStepSelf DEF fVars
    <3>3. Goal(t)' /\ Returned(t)'
      BY <2>0, <3>1, <3>2 DEF Goal, Returned
    <3>4. Promise(t)'
      BY <2>0, <3>1, <3>2 DEF Promise, FlushCovers, W!InAcquire
    <3> QED BY <3>3, <3>4
  <2>4. CASE W!ReleaseStep(t) /\ UNCHANGED fVars
    <3>1. at[t] = "write_release"
      BY <2>4, <1>T, WLockSelf DEF InPlace, InWriteLock, W!Outside,
         Acquiring
    <3>2. /\ UNCHANGED <<f_waiters_list, f_pending_callbacks>>
          /\ ret' = ret
      BY <2>4, <1>T, WStepSelf DEF fVars
    <3> QED BY <2>0, <3>1, <3>2 DEF Goal, Returned, Promise, FlushCovers,
            FlushTo
  <2> QED BY <1>4, <2>1, <2>2, <2>3, <2>4 DEF LockStep
<1>5. CASE FlushCovered(t) BY <1>5, <1>D DEF FlushCovered
<1>6. CASE FlushLead(t)
  <2>1. /\ at'[t] = "promise" /\ lsn' = lsn /\ ret' = ret
        /\ job'[t] = [job[t] EXCEPT !.lsn = lsn]
        /\ f_pending_value' = lsn /\ at[t] = "flush"
        /\ UNCHANGED <<f_waiters_list, f_pending_callbacks>>
    BY <1>6, <1>J DEF FlushLead, Go, F!SetPending, F!releaseVars
  <2>2. /\ job'[t].lsn = lsn /\ job'[t].op = job[t].op
        /\ job'[t].goal = job[t].goal /\ job'[t].owed = job[t].owed
        /\ job'[t].durable = job[t].durable
    BY <2>1, <1>J DEF Job
  <2>3. f_pending_value' <= lsn
    BY <2>1, <1>N DEF NumberType
  <2>4. Goal(t)' /\ Returned(t)'
    BY <2>1, <2>2 DEF Goal, Returned
  <2>5. Promise(t)'
    BY <2>1, <2>2, <2>3, <1>C DEF Promise, FlushCovers
  <2> QED BY <2>4, <2>5
<1>7. CASE AcquireWriteLock(t)
  <2>1. /\ at[t] = "promise" /\ at'[t] = "write" /\ UNCHANGED <<lsn, job>>
        /\ ret' = ret /\ w_value' = w_value
        /\ UNCHANGED <<f_pending_value, f_waiters_list, f_pending_callbacks>>
        /\ \/ w_pc'[t] = "EXPIRED" /\ job[t].lsn <= w_value
           \/ /\ w_pc'[t] = "loop"
              /\ num'[t] = job[t].lsn /\ cb'[t] = NoCallback
    BY <1>7, <1>J, <1>T, WStepSelf, WLockValues
       DEF AcquireWriteLock, Go, fVars
  <2> QED BY <2>1 DEF Goal, Returned, Promise, FlushCovers, W!InAcquire
<1>8. CASE WriteCovered(t)
  <2>1. CASE /\ job[t].durable /\ Go(t, "log_flush")
             /\ UNCHANGED <<lsn, job, fVars, wVars, threadVars>>
    <3>1. /\ at[t] = "write" /\ at'[t] = "log_flush"
          /\ w_pc[t] \in {"EXPIRED", "CALLBACK_QUEUED"}
          /\ UNCHANGED <<lsn, job, ret, w_value, f_pending_value,
                         f_waiters_list, f_pending_callbacks>>
      BY <1>8, <2>1, <1>J DEF WriteCovered, Go, fVars, wVars, threadVars
    <3>2. job[t].op \notin {"resize", "write_and_flush"}
      BY <3>1 DEF InPlace, Placed, InWriteLock
    <3> QED BY <2>1, <3>1, <3>2 DEF Goal, Returned, Promise, FlushCovers,
            FlushTo
  <2> QED BY <1>8, <2>1, <1>D DEF WriteCovered
<1>9. CASE StartWrite(t)
  <2>1. /\ at[t] = "write" /\ at'[t] = "write_buf" /\ lsn' = lsn /\ ret' = ret
        /\ job'[t] = [job[t] EXCEPT !.n = lsn]
        /\ w_pending_value' \in {lsn, w_pending_value}
        /\ UNCHANGED <<w_waiters_list, w_pending_callbacks, f_pending_value,
                       f_waiters_list, f_pending_callbacks>>
    BY <1>9, <1>J DEF StartWrite, Go, W!SetPending, W!releaseVars, fVars,
       wVars, threadVars
  <2>2. /\ job'[t].n = lsn /\ job'[t].op = job[t].op
        /\ job'[t].goal = job[t].goal /\ job'[t].owed = job[t].owed
        /\ job'[t].durable = job[t].durable /\ job'[t].lsn = job[t].lsn
    BY <2>1, <1>J DEF Job
  <2>3. w_pending_value' <= lsn /\ job[t].lsn <= lsn
    BY <2>1, <1>N, <1>C DEF NumberType, Target
  <2>4. Goal(t)' /\ Returned(t)'
    BY <2>1, <2>2 DEF Goal, Returned
  <2>5. Promise(t)'
    BY <2>1, <2>2, <2>3, <1>C DEF Promise, FlushCovers, WriteCovers
  <2> QED BY <2>4, <2>5
<1>10. CASE WriteBuf(t)
  <2>1. /\ at[t] = "write_buf" /\ at'[t] = "wrote"
        /\ UNCHANGED <<lsn, job, ret, w_pending_value, w_waiters_list,
                       w_pending_callbacks, f_pending_value,
                       f_waiters_list, f_pending_callbacks>>
    BY <1>10, <1>J DEF WriteBuf, Go, fVars, wVars, threadVars
  <2> QED BY <2>1 DEF Goal, Returned, Promise, FlushCovers, WriteCovers
<1>11. CASE ReleaseWriteLock(t)
  <2>1. /\ at[t] = "wrote" /\ at'[t] = "write_release"
        /\ UNCHANGED <<lsn, job, f_pending_value, f_waiters_list,
                       f_pending_callbacks>>
        /\ w_value' = job[t].n /\ W!Release(t, job[t].n)
        /\ job[t].n \in Nat
    BY <1>11, <1>J, <1>N, WLockValues
       DEF ReleaseWriteLock, Go, fVars, NumberType
  <2>2. /\ ret'[t] = 0 \/ \E x \in w_pending_callbacks : ret'[t] = x.num
        /\ WriteCovers(job[t].n) => ret'[t] = 0
    BY <2>1, <1>T, WReleaseReturns
  <2>3. ret'[t] <= lsn /\ (job[t].op # "resize" => ret'[t] = 0)
    BY <2>1, <2>2, <1>C, <1>N DEF Promise, NumberType
  <2>4. Goal(t)' /\ Returned(t)'
    BY <2>1, <2>3 DEF Goal, Returned
  <2>5. Promise(t)'
    BY <2>1 DEF Promise, FlushCovers, FlushTo
  <2> QED BY <2>4, <2>5
<1>12. CASE WriteReleased(t)
  <2>0. at[t] = "write_release"
    BY <1>12 DEF WriteReleased
  <2>1. CASE /\ job[t].op # "resize" /\ job[t].durable
             /\ job' = [job EXCEPT ![t].owed = ret[t]]
             /\ Go(t, "log_flush")
             /\ UNCHANGED <<lsn, fVars, wVars, threadVars>>
    <3>1. /\ at'[t] = "log_flush"
          /\ job'[t] = [job[t] EXCEPT !.owed = ret[t]]
          /\ UNCHANGED <<lsn, ret, w_value, f_pending_value, f_waiters_list,
                         f_pending_callbacks>>
      BY <2>1, <1>J DEF Go, fVars, wVars, threadVars
    <3>2. /\ job'[t].owed = ret[t] /\ job'[t].op = job[t].op
          /\ job'[t].goal = job[t].goal /\ job'[t].n = job[t].n
          /\ job'[t].durable = job[t].durable /\ job'[t].lsn = job[t].lsn
      BY <3>1, <1>J DEF Job
    <3>3. Goal(t)' /\ Returned(t)'
      BY <2>0, <2>1, <3>1, <3>2 DEF Goal, Returned
    <3>4. Promise(t)'
      BY <2>0, <2>1, <3>1, <3>2 DEF Promise, FlushCovers, FlushTo
    <3> QED BY <3>3, <3>4
  <2>2. CASE /\ job[t].op = "resize"
             /\ job' = [job EXCEPT ![t].owed = ret[t], ![t].n = f_value]
             /\ Go(t, "flushed")
             /\ UNCHANGED <<lsn, threadVars>>
    <3>1. /\ at'[t] = "flushed"
          /\ job'[t] = [job[t] EXCEPT !.owed = ret[t], !.n = f_value]
          /\ UNCHANGED <<lsn, ret>>
      BY <2>2, <1>J DEF Go, threadVars
    <3>2. /\ job'[t].owed = ret[t] /\ job'[t].op = "resize"
          /\ job'[t].goal = job[t].goal
          /\ job'[t].durable = job[t].durable /\ job'[t].lsn = job[t].lsn
      BY <2>2, <3>1, <1>J DEF Job
    <3> QED BY <2>0, <2>2, <3>1, <3>2 DEF Goal, Returned, Promise
  <2>3. CASE ~job[t].durable /\ Settle(t, ret[t])
    BY <2>3, <1>S, <1>N DEF Goal, NumberType
  <2> QED BY <1>12, <2>1, <2>2, <2>3 DEF WriteReleased
<1>13. CASE LogFlush(t)
  <2>1. /\ at[t] = "log_flush" /\ at'[t] = "fsync" /\ lsn' = lsn /\ ret' = ret
        /\ job'[t] = [job[t] EXCEPT !.n = FlushTo(t)]
        /\ f_pending_value' = FlushTo(t)
        /\ UNCHANGED <<f_waiters_list, f_pending_callbacks>>
    BY <1>13, <1>J DEF LogFlush, Go, F!SetPending, F!releaseVars
  <2>2. /\ job'[t].n = FlushTo(t) /\ job'[t].op = job[t].op
        /\ job'[t].goal = job[t].goal /\ job'[t].owed = job[t].owed
        /\ job'[t].durable = job[t].durable /\ job'[t].lsn = job[t].lsn
    BY <2>1, <1>J DEF Job
  <2>3. /\ FlushTo(t) \in Nat /\ job[t].lsn \in Nat
        /\ \A x \in f_pending_callbacks : x.num \in Nat
    BY <1>N, <1>T DEF FlushTo, NumberType, FLockType, Pending
  <2>4. Goal(t)' /\ Returned(t)'
    BY <2>1, <2>2 DEF Goal, Returned
  <2>5. job[t].op # "resize" => job[t].lsn <= FlushTo(t)
                                /\ FlushCovers(job[t].lsn)
    BY <2>1 DEF Promise
  <2>6. Promise(t)'
    BY <2>1, <2>2, <2>3, <2>5 DEF Promise, FlushCovers
  <2> QED BY <2>4, <2>6
<1>14. CASE Fsync(t)
  <2>1. /\ at[t] = "fsync" /\ at'[t] = "fsynced"
        /\ UNCHANGED <<lsn, job, ret, f_pending_value, f_waiters_list,
                       f_pending_callbacks>>
    BY <1>14, <1>J DEF Fsync, Go, fVars, threadVars
  <2> QED BY <2>1 DEF Goal, Returned, Promise, FlushCovers
<1>15. CASE PublishFlushed(t)
  <2>1. /\ at[t] = "fsynced" /\ at'[t] = "flushed"
        /\ UNCHANGED <<lsn, job, ret, f_pending_value, f_waiters_list,
                       f_pending_callbacks>>
    BY <1>15, <1>J DEF PublishFlushed, Go, fVars, threadVars
  <2> QED BY <2>1 DEF Goal, Returned, Promise, FlushCovers
<1>16. CASE ReleaseFlushLock(t)
  <2>1. /\ at[t] = "flushed" /\ at'[t] = "flush_release"
        /\ UNCHANGED <<lsn, job>>
        /\ f_value' = job[t].n /\ F!Release(t, job[t].n)
        /\ job[t].n \in Nat
    BY <1>16, <1>J, <1>N, FLockValues DEF ReleaseFlushLock, Go, NumberType
  <2>2. /\ ret'[t] = 0 \/ \E x \in f_pending_callbacks : ret'[t] = x.num
        /\ FlushCovers(job[t].n) => ret'[t] = 0
    BY <2>1, <1>T, FReleaseReturns
  <2>3. ret'[t] <= lsn /\ (job[t].op # "resize" => ret'[t] = 0)
    BY <2>1, <2>2, <1>C, <1>N DEF Promise, NumberType
  <2>4. job[t].goal <= job[t].n
    <3>1. job[t].op = "resize" => job[t].goal = 0
      BY DEF Goal
    <3>2. job[t].op # "resize" => /\ job[t].goal <= job[t].lsn
                                  /\ job[t].lsn <= job[t].n
      BY <2>1 DEF Goal, Promise
    <3> QED BY <3>1, <3>2, <1>N DEF NumberType
  <2> QED BY <2>1, <2>3, <2>4 DEF Promise, Goal, Returned
<1>17. CASE FlushReleased(t)
  <2>1. Larger(job[t].owed, ret[t]) \in Nat
    BY <1>N DEF Larger, NumberType
  <2>2. Larger(job[t].owed, ret[t]) # 0 => job[t].goal = 0
    BY <1>17 DEF FlushReleased, Larger, Returned, Goal
  <2> QED BY <1>17, <2>1, <2>2, <1>D, <1>S DEF FlushReleased
<1>18. CASE PrepareAgain(t)
  <2>1. job[t].goal = 0
    BY <1>18 DEF PrepareAgain, Goal
  <2>2. CASE UNCHANGED job /\ PrepareFlushLock(t)
    <3>1. at'[t] = "prepare_flush" /\ ret' = ret /\ UNCHANGED <<lsn, job>>
      BY <2>2, <1>J, <1>T, FStepSelf DEF PrepareFlushLock, Go
    <3> QED BY <2>1, <3>1, <1>N DEF Promise, Returned, Goal, NumberType
  <2>3. CASE PrepareWriteLock(t)
    <3>1. at'[t] = "prepare_write" /\ ret' = ret /\ UNCHANGED <<lsn, job>>
      BY <2>3, <1>J, <1>T, WStepSelf DEF PrepareWriteLock, Go
    <3> QED BY <2>1, <3>1, <1>N DEF Promise, Returned, Goal, NumberType
  <2> QED BY <1>18, <2>2, <2>3 DEF PrepareAgain
<1>19. CASE LatchExclusive(t)
  <2>0. at[t] = "prepare_write" /\ w_pc[t] = "ACQUIRED"
    BY <1>19 DEF LatchExclusive
  <2>1. CASE /\ job[t].op = "write_and_flush" /\ lsn' = lsn + 1
             /\ job' = [job EXCEPT ![t].lsn = lsn + 1, ![t].goal = lsn + 1]
             /\ Go(t, "write") /\ UNCHANGED <<fVars, wVars, threadVars>>
    <3>1. /\ at'[t] = "write"
          /\ job'[t] = [job[t] EXCEPT !.lsn = lsn + 1, !.goal = lsn + 1]
          /\ UNCHANGED <<ret, w_pc, f_pending_value, f_waiters_list,
                         f_pending_callbacks>>
      BY <2>1, <1>J DEF Go, fVars, wVars, threadVars
    <3>2. /\ job'[t].owed = job[t].owed /\ job'[t].op = job[t].op
          /\ job'[t].goal = lsn + 1 /\ job'[t].lsn = lsn + 1
          /\ job'[t].durable = job[t].durable
      BY <3>1, <1>J DEF Job
    <3>3. /\ f_pending_value <= lsn + 1 /\ lsn + 1 \in Nat
          /\ \A x \in f_pending_callbacks : x.num <= lsn + 1
      BY <1>C, <1>N, <1>T DEF NumberType, FLockType, Pending
    <3>4. job[t].durable
      BY <2>1 DEF InPlace, Placed
    <3>5. Returned(t)'
      BY <2>0, <2>1, <3>1, <3>2, <1>N DEF Returned, NumberType
    <3>6. Goal(t)'
      <4>1. job'[t].durable /\ job'[t].op = "write_and_flush"
        BY <2>1, <3>2, <3>4
      <4>2. job'[t].goal <= job'[t].lsn
        BY <3>2, <1>N DEF NumberType
      <4> QED BY <3>1, <4>1, <4>2 DEF Goal
    <3>7. Promise(t)'
      BY <2>0, <3>1, <3>2, <3>3 DEF Promise, FlushCovers, W!InAcquire
    <3> QED BY <3>5, <3>6, <3>7
  <2>2. CASE /\ job[t].op = "resize" /\ Go(t, "exclusive")
             /\ UNCHANGED <<lsn, job, threadVars>>
    <3>1. at'[t] = "exclusive" /\ UNCHANGED <<lsn, job, ret>>
      BY <2>2, <1>J DEF Go, threadVars
    <3> QED BY <2>0, <2>2, <3>1 DEF Goal, Returned, Promise
  <2> QED BY <1>19, <2>1, <2>2 DEF LatchExclusive
<1>20. CASE ResizeSection(t)
  <2>1. /\ at[t] = "exclusive" /\ at'[t] = "wrote"
        /\ job'[t] = [job[t] EXCEPT !.n = w_value]
        /\ UNCHANGED <<lsn, ret>>
    BY <1>20, <1>J DEF ResizeSection, Go, threadVars
  <2>2. /\ job'[t].owed = job[t].owed /\ job'[t].op = job[t].op
        /\ job'[t].goal = job[t].goal /\ job'[t].lsn = job[t].lsn
        /\ job'[t].durable = job[t].durable
    BY <2>1, <1>J DEF Job
  <2>3. job[t].op = "resize"
    BY <2>1 DEF InPlace, Placed
  <2> QED BY <2>1, <2>2, <2>3 DEF Goal, Returned, Promise
<1> QED BY <1>1, <1>2, <1>3, <1>4, <1>5, <1>6, <1>7, <1>8, <1>9, <1>10,
           <1>11, <1>12, <1>13, <1>14, <1>15, <1>16, <1>17, <1>18, <1>19,
           <1>20 DEF Start, Continue

LEMMA PromisesStep ==
    ASSUME TypeOK, TypeOK', Owners, Positions, CallbackNumbers, Promises,
           NEW t \in Thread, Guarantee(t), Start(t) \/ Continue(t)
    PROVE  Promises'
<1>1. Promise(t)' /\ Returned(t)' /\ Goal(t)'
  BY PromisesOfSelf DEF Owners, Positions, CallbackNumbers, Promises, InPlace
<1>2. ASSUME NEW u \in Thread \ {t}
      PROVE  Promise(u)' /\ Returned(u)' /\ Goal(u)'
  <2>1. Same(u) /\ Promise(u) /\ Returned(u) /\ Goal(u)
    BY Others DEF Promises
  <2> QED BY <2>1, PromisesStable
<1> QED BY <1>1, <1>2 DEF Promises

-----------------------------------------------------------------------------
(* The inductive invariant.                                                *)

LEMMA AppendStep ==
    ASSUME IInv, Append
    PROVE  IInv'
<1>N. NumberType BY NumberTypes DEF IInv
<1>U. /\ lsn' = lsn + 1
      /\ UNCHANGED <<latch, fileVars, asked, at, job, fVars, wVars, threadVars>>
  BY DEF Append
<1>L. /\ lsn \in Nat /\ lsn' \in Nat /\ lsn <= lsn'
      /\ \A n \in Nat : n <= lsn => n <= lsn'
  BY <1>U, <1>N DEF NumberType
<1>1. lsn' \in Lsn /\ Room'
  BY AppendRoom DEF IInv
<1>2. TypeOK'
  <2>1. FLockType /\ WLockType /\ ThreadType /\ LogType
    BY TypeParts DEF IInv
  <2>2. FLockType' /\ WLockType' /\ ThreadType'
    BY <1>U, <2>1 DEF FLockType, WLockType, ThreadType, fVars, wVars,
       threadVars
  <2>3. LogType'
    BY <1>U, <1>1, <2>1 DEF LogType, fileVars
  <2> QED BY <2>2, <2>3, TypeParts, PTL
<1>3. Owners'
  <2>1. \A t \in Thread : InPlace(t) /\ Same(t)
    BY <1>U DEF IInv, Owners, InPlace, Same, fVars, wVars, threadVars
  <2>2. \A t \in Thread : InPlace(t)'
    BY <2>1, InPlaceStable
  <2>3. OneFlushOwner' /\ OneWriteOwner'
    BY <1>U DEF IInv, Owners, OneFlushOwner, OneWriteOwner, fVars, wVars
  <2> QED BY <2>2, <2>3 DEF Owners, InPlace
<1>4. Positions'
  BY <1>U, <1>L, <1>N DEF IInv, Positions, Order, Target, fileVars, fVars,
     wVars, NumberType
<1>5. Cache'
  BY <1>U DEF IInv, Cache, fileVars
<1>6. CallbackNumbers'
  <2>1. \A t \in Thread : CallbackOf(t) /\ LocksSame(t)
    BY <1>U DEF IInv, CallbackNumbers, LocksSame, fVars, wVars, threadVars
  <2>2. AskedGrows
    BY <1>U DEF AskedGrows
  <2>3. UNCHANGED <<f_value, w_value, f_pending_callbacks,
                    w_pending_callbacks, fired, asked, num, cb, callbacks,
                    f_pc, w_pc>>
    BY <1>U DEF fVars, wVars, threadVars
  <2>4. FiredInTime'
    BY <2>3 DEF IInv, CallbackNumbers, FiredInTime, InTime
  <2>5. PendingNumbers'
    <3>1. /\ \A x \in f_pending_callbacks : x.num \in Nat
          /\ \A x \in w_pending_callbacks : x.num \in Nat
      BY TypeParts DEF IInv, FLockType, WLockType, Pending
    <3> QED BY <2>3, <3>1, <1>L DEF IInv, CallbackNumbers, PendingNumbers,
            PassedWith
  <2>6. ASSUME NEW t \in Thread PROVE CallbackOf(t)'
    <3>1. num[t] \in Nat
      BY <1>N DEF NumberType
    <3> QED BY <2>3, <3>1, <1>L DEF IInv, CallbackNumbers, CallbackOf,
            PassedWith
  <2> QED BY <2>4, <2>5, <2>6 DEF CallbackNumbers
<1>7. Promises'
  <2>1. UNCHANGED <<f_value, w_value, f_pending_value, w_pending_value,
                    f_pending_callbacks, w_pending_callbacks,
                    f_waiters_list, w_waiters_list,
                    num, cb, f_pc, w_pc, ret, at, job>>
    BY <1>U DEF fVars, wVars, threadVars
  <2>2. ASSUME NEW t \in Thread
        PROVE  Promise(t)' /\ Returned(t)' /\ Goal(t)'
    <3>1. Promise(t) /\ Returned(t) /\ Goal(t)
      BY DEF IInv, Promises
    <3>2. Promise(t)'
      BY <2>1, <3>1 DEF Promise, FlushCovers, WriteCovers, FlushTo
    <3>3. Returned(t)' /\ Goal(t)'
      BY <2>1, <3>1, <1>L, <1>N DEF Returned, Goal, NumberType
    <3> QED BY <3>2, <3>3
  <2> QED BY <2>2 DEF Promises
<1> QED BY <1>1, <1>2, <1>3, <1>4, <1>5, <1>6, <1>7 DEF IInv

LEMMA InitIInv == Init => IInv
<1> SUFFICES ASSUME Init PROVE IInv
  OBVIOUS
<1>A. /\ MaxLsn \in Nat /\ WriteThrough \subseteq BOOLEAN
      /\ NoCallback \notin Callback
  BY RedoLogAssumption
<1>1. /\ f_value = 0 /\ f_pending_value = 0 /\ f_lock = FALSE
      /\ f_waiters_list = {} /\ f_pending_callbacks = {}
      /\ f_pc = [t \in Thread |-> "idle"]
      /\ w_value = 0 /\ w_pending_value = 0 /\ w_lock = FALSE
      /\ w_waiters_list = {} /\ w_pending_callbacks = {}
      /\ w_pc = [t \in Thread |-> "idle"]
  BY DEF Init, F!LockInit, W!LockInit
<1>2. /\ num = [t \in Thread |-> 0]
      /\ cb = [t \in Thread |-> NoCallback]
      /\ leader = [t \in Thread |-> FALSE]
      /\ sema = [t \in Thread |-> 0]
      /\ lead = [t \in Thread |-> NoThread]
      /\ wakeup = [t \in Thread |-> {}]
      /\ callbacks = [t \in Thread |-> {}]
      /\ ret = [t \in Thread |-> 0]
      /\ fired = [c \in Callback |-> 0]
  BY DEF Init, F!ThreadInit
<1>3. /\ lsn = 0 /\ write_lsn = 0 /\ flushed_to_disk_lsn = 0
      /\ log_write_through \in WriteThrough
      /\ latch = NoThread /\ cached = {} /\ exposed = {}
      /\ at = [t \in Thread |-> "idle"]
      /\ job = [t \in Thread |-> NoJob]
      /\ asked = [c \in Callback |-> NotAsked]
  BY DEF Init
<1>4. TypeOK
  <2>1. FLockType /\ WLockType
    BY <1>1 DEF FLockType, WLockType, Label
  <2>2. ThreadType
    BY <1>2 DEF ThreadType
  <2>3. 0 \in Lsn
    BY <1>A DEF Lsn
  <2>4. NoJob \in Job
    BY <2>3 DEF NoJob, Job
  <2>5. LogType
    BY <1>3, <2>3, <2>4 DEF LogType, LogLabel, NotAsked
  <2> QED BY <2>1, <2>2, <2>5, TypeParts
<1>5. Room
  <2>1. Reservations = {}
    BY <1>3 DEF Reservations, Reserving
  <2>2. Reserved = 0
    BY <2>1, ReservedIs, FS_EmptySet DEF ReservedCounts
  <2> QED BY <2>2, <1>3, <1>A DEF Room
<1>6. Owners
  <2>1. \A t \in Thread : at[t] = "idle" /\ job[t].op = "none"
                          /\ f_pc[t] = "idle" /\ w_pc[t] = "idle"
    BY <1>1, <1>3 DEF NoJob
  <2>2. OneFlushOwner /\ OneWriteOwner
    BY <1>1, <2>1 DEF OneFlushOwner, OneWriteOwner
  <2>3. \A t \in Thread : Placed(t) /\ InFlushLock(t) /\ InWriteLock(t)
    BY <2>1 DEF Placed, InFlushLock, InWriteLock, OwnsFlush, OwnsWrite,
       F!Outside, W!Outside
  <2> QED BY <2>2, <2>3 DEF Owners
<1>7. Positions
  BY <1>1, <1>3 DEF Positions, Order, Target, NoJob
<1>8. Cache
  BY <1>3 DEF Cache
<1>9. CallbackNumbers
  <2>1. \A t \in Thread : CallbackOf(t)
    BY <1>1, <1>2 DEF CallbackOf, F!InAcquire, W!InAcquire
  <2>2. PendingNumbers
    BY <1>1 DEF PendingNumbers
  <2>3. FiredInTime
    BY <1>2 DEF FiredInTime
  <2> QED BY <2>1, <2>2, <2>3 DEF CallbackNumbers
<1>10. Promises
  <2>1. ASSUME NEW t \in Thread PROVE Promise(t) /\ Returned(t) /\ Goal(t)
    <3>1. at[t] = "idle" /\ job[t] = NoJob /\ ret[t] = 0
      BY <1>2, <1>3
    <3> QED BY <3>1, <1>3 DEF Promise, Returned, Goal, NoJob
  <2> QED BY <2>1 DEF Promises
<1> QED BY <1>4, <1>5, <1>6, <1>7, <1>8, <1>9, <1>10 DEF IInv

LEMMA ThreadStep ==
    ASSUME IInv, NEW t \in Thread, Start(t) \/ Continue(t)
    PROVE  IInv' /\ Guarantee(t)
<1>0. TypeOK /\ Room /\ Owners /\ Positions /\ Cache /\ CallbackNumbers
      /\ Promises
  BY DEF IInv
<1>1. TypeOK'
  BY <1>0, TypeStep
<1>2. Room'
  BY <1>0, RoomStep
<1>3. Owners'
  BY <1>0, OwnersStep
<1>4. Guarantee(t) /\ Positions'
  BY <1>0, PositionsStep
<1>5. Cache'
  BY <1>0, CacheStep
<1>6. CallbackNumbers'
  BY <1>0, <1>1, <1>4, CallbacksStep
<1>7. Promises'
  BY <1>0, <1>1, <1>4, PromisesStep
<1> QED BY <1>1, <1>2, <1>3, <1>4, <1>5, <1>6, <1>7 DEF IInv

LEMMA StutterStep ==
    ASSUME IInv, UNCHANGED redoVars
    PROVE  IInv'
<1>1. /\ UNCHANGED <<lsn, latch, asked, at, job>>
      /\ UNCHANGED fileVars /\ UNCHANGED fVars /\ UNCHANGED wVars
      /\ UNCHANGED threadVars
  BY DEF redoVars
<1>2. UNCHANGED <<lsn, latch, asked, at, job,
                  write_lsn, flushed_to_disk_lsn, log_write_through, cached,
                  exposed, f_value, f_pending_value, f_lock, f_waiters_list,
                  f_pending_callbacks, f_pc, w_value, w_pending_value, w_lock,
                  w_waiters_list, w_pending_callbacks, w_pc, num, cb, leader,
                  sema, lead, wakeup, callbacks, ret, fired>>
  BY <1>1 DEF fileVars, fVars, wVars, threadVars
<1>3. TypeOK' /\ Room'
  <2>1. FLockType /\ WLockType /\ ThreadType /\ LogType
    BY TypeParts DEF IInv
  <2>2. FLockType' /\ WLockType' /\ ThreadType' /\ LogType'
    BY <1>2, <2>1 DEF FLockType, WLockType, ThreadType, LogType
  <2>3. TypeOK'
    BY <2>2, TypeParts, PTL
  <2> QED BY <1>2, <2>3 DEF IInv, Room, Reserved
<1>4. Owners'
  BY <1>2 DEF IInv, Owners, Placed, InFlushLock, InWriteLock, OwnsFlush,
     OwnsWrite, OneFlushOwner, OneWriteOwner
<1>5. Positions' /\ Cache'
  BY <1>2 DEF IInv, Positions, Order, Target, Cache
<1>6. CallbackNumbers'
  BY <1>2 DEF IInv, CallbackNumbers, CallbackOf, PendingNumbers, FiredInTime,
     InTime, PassedWith
<1>7. Promises'
  BY <1>2 DEF IInv, Promises, Promise, Returned, Goal, FlushCovers,
     WriteCovers, FlushTo
<1> QED BY <1>3, <1>4, <1>5, <1>6, <1>7 DEF IInv

LEMMA Invariance == Spec => []IInv
<1>1. IInv /\ [Next]_redoVars => IInv'
  BY AppendStep, ThreadStep, StutterStep DEF Next
<1> QED BY InitIInv, <1>1, PTL DEF Spec

-----------------------------------------------------------------------------
(* What follows from it.                                                   *)

\* Every variable has its type: log_write_up_to() and the others never pass
\* an LSN past the end of the log to either lock.
THEOREM TypeCorrect == Spec => []TypeOK
<1>1. IInv => TypeOK
  BY DEF IInv
<1> QED BY Invariance, <1>1, PTL

\* One thread at a time is in log_sys.write_buf() and one in log_flush(),
\* and nobody is in either while log_resize_acquire() protects the log.
THEOREM AlwaysExclusive == Spec => []ExclusiveFileAccess
<1>1. IInv => ExclusiveFileAccess
  <2> SUFFICES ASSUME Owners PROVE ExclusiveFileAccess
    BY DEF IInv
  <2>1. ASSUME NEW t \in Thread, NEW u \in Thread, t # u
        PROVE  /\ ~(OwnsFlush(t) /\ OwnsFlush(u))
               /\ ~(OwnsWrite(t) /\ OwnsWrite(u))
    BY <2>1 DEF Owners, OneFlushOwner, OneWriteOwner, InFlushLock, InWriteLock
  <2> QED BY <2>1 DEF ExclusiveFileAccess, OwnsFlush, OwnsWrite
<1> QED BY Invariance, <1>1, PTL

\* The positions of the log never overtake each other, and the assertions of
\* set_pending(), release() and log_t::flush() hold.
THEOREM AlwaysOrdered == Spec => []PositionsOrdered
<1>1. IInv => PositionsOrdered
  <2> SUFFICES ASSUME IInv PROVE PositionsOrdered
    OBVIOUS
  <2>1. NumberType
    BY NumberTypes DEF IInv
  <2>2. Order /\ \A t \in Thread : Target(t)
    BY DEF IInv, Positions
  <2> QED BY <2>1, <2>2 DEF PositionsOrdered, Order, Target, FlushTo,
          NumberType
<1> QED BY Invariance, <1>1, PTL

\* What get_flushed_lsn() and the callbacks of durable calls report to be
\* durable is durable, unless set_write_through() has taken it back.
THEOREM AlwaysDurable == Spec => []DurabilityUnlessSwitched
<1>1. IInv => DurabilityUnlessSwitched
  <2> SUFFICES ASSUME IInv, NEW l \in Promised
               PROVE  (1..l) \cap Volatile \subseteq exposed
    BY DEF DurabilityUnlessSwitched
  <2>1. NumberType
    BY NumberTypes DEF IInv
  <2>2. Order /\ Cache /\ FiredInTime
    BY DEF IInv, Positions, CallbackNumbers
  <2>3. l \in Nat /\ l <= flushed_to_disk_lsn
    <3>1. CASE l = flushed_to_disk_lsn
      BY <3>1, <2>1 DEF NumberType
    <3>2. ASSUME NEW d \in Callback, asked[d].durable, fired[d] # 0,
                 l = asked[d].lsn
          PROVE  l \in Nat /\ l <= flushed_to_disk_lsn
      <4>1. asked[d].lsn \in Lsn
        BY TypeParts DEF IInv, LogType
      <4>2. asked[d].lsn \in Nat
        BY <4>1, RedoLogAssumption DEF Lsn
      <4>3. asked[d].lsn <= f_value
        BY <3>2, <2>2 DEF FiredInTime, InTime
      <4> QED BY <3>2, <4>2, <4>3, <2>1, <2>2 DEF Order, NumberType
    <3> QED BY <3>1, <3>2 DEF Promised
  <2>4. (1..l) \cap ((write_lsn + 1)..lsn) = {}
    BY <2>1, <2>2, <2>3 DEF Order, NumberType
  <2>5. 1..l \subseteq 1..flushed_to_disk_lsn
    BY <2>1, <2>3 DEF NumberType
  <2> QED BY <2>2, <2>4, <2>5 DEF Cache, Volatile
<1> QED BY Invariance, <1>1, PTL

\* The callback of a call that is not durable runs when the file has been
\* written up to its LSN, whoever wrote it.
THEOREM AlwaysWrittenBeforeCallback == Spec => []WrittenBeforeCallback
<1>1. IInv => WrittenBeforeCallback
  <2> SUFFICES ASSUME IInv, NEW d \in Callback, ~asked[d].durable,
                      fired[d] # 0
               PROVE  asked[d].lsn <= write_lsn
    BY DEF WrittenBeforeCallback
  <2>1. NumberType /\ Order /\ FiredInTime
    BY NumberTypes DEF IInv, Positions, CallbackNumbers
  <2>2. asked[d].lsn \in Lsn
    BY TypeParts DEF IInv, LogType
  <2>3. asked[d].lsn <= w_value
    BY <2>1 DEF FiredInTime, InTime
  <2> QED BY <2>1, <2>2, <2>3, RedoLogAssumption DEF Order, NumberType, Lsn
<1> QED BY Invariance, <1>1, PTL

\* Both release() calls of log_write_up_to() and log_write_and_flush()
\* return 0: no callback is left without somebody who sees to it.
THEOREM NoOrphans == Spec => []OrphansOnlyAfterResize
<1>1. IInv => OrphansOnlyAfterResize
  BY DEF IInv, Promises, Returned, OrphansOnlyAfterResize
<1> QED BY Invariance, <1>1, PTL

\* Who returns from a call: a thread that was told by flush_lock that its
\* goal is reached, or that has no goal.
LEMMA ReturnStep ==
    ASSUME IInv, NEW t \in Thread, Start(t) \/ Continue(t),
           job[t] # NoJob, job'[t] = NoJob
    PROVE  job[t].goal <= f_value
<1>0. InPlace(t) /\ InPlace(t)' /\ Goal(t) /\ TypeOK
  <2>1. Owners'
    BY ThreadStep DEF IInv
  <2> QED BY <2>1 DEF IInv, Owners, Promises, InPlace
<1>1. at'[t] = "idle"
  BY <1>0 DEF InPlace, Placed, NoJob
<1>J. job \in [Thread -> Job] /\ at \in [Thread -> LogLabel]
  BY <1>0, TypeParts DEF LogType
<1>N. 0 <= f_value
  BY <1>0, NumberTypes DEF NumberType
<1>2. at[t] # "flush" /\ ~job[t].durable => job[t].goal <= f_value
  BY <1>0, <1>N DEF Goal
<1>R. ASSUME NEW j, Repeat(t, j) PROVE FALSE
  BY <1>R, <1>1, <1>J DEF Repeat, Go
<1>G. ASSUME NEW label \in LogLabel \ {"idle"}, Go(t, label) PROVE FALSE
  BY <1>G, <1>1, <1>J DEF Go
<1> USE <1>G DEF LogLabel
<1>3. CASE FlushCovered(t)
  BY <1>3, <1>0, <1>N DEF FlushCovered, Goal
<1>4. CASE WriteCovered(t)
  BY <1>4, <1>2 DEF WriteCovered
<1>5. CASE WriteReleased(t)
  BY <1>5, <1>2 DEF WriteReleased
<1>6. CASE FlushReleased(t)
  BY <1>6, <1>0 DEF FlushReleased, Goal
<1>7. CASE Start(t)
  BY <1>7, <1>R DEF Start, CallWriteUpTo, CallWriteAndFlush, CallResize,
     PrepareFlushLock
<1>8. CASE LockStep(t)
  BY <1>8 DEF LockStep
<1>9. CASE FlushLead(t) \/ AcquireWriteLock(t) \/ StartWrite(t)
           \/ WriteBuf(t) \/ ReleaseWriteLock(t)
  BY <1>9 DEF FlushLead, AcquireWriteLock, StartWrite, WriteBuf,
     ReleaseWriteLock
<1>10. CASE LogFlush(t) \/ Fsync(t) \/ PublishFlushed(t)
            \/ ReleaseFlushLock(t)
  BY <1>10 DEF LogFlush, Fsync, PublishFlushed, ReleaseFlushLock
<1>11. CASE PrepareAgain(t) \/ LatchExclusive(t) \/ ResizeSection(t)
  BY <1>11 DEF PrepareAgain, PrepareFlushLock, PrepareWriteLock,
     LatchExclusive, ResizeSection
<1> QED BY <1>3, <1>4, <1>5, <1>6, <1>7, <1>8, <1>9, <1>10, <1>11
        DEF Continue

\* A synchronous durable call of log_write_up_to(), and log_write_and_flush(),
\* returns only when the log that it was called for is durable, whoever has
\* written and flushed it.
THEOREM AlwaysReturnsDurable == Spec => ReturnsDurable
<1> DEFINE Returns(t) ==
               job[t] # NoJob /\ job'[t] = NoJob =>
                   (1..job[t].goal) \cap Volatile' \subseteq exposed'
<1>1. ASSUME IInv, Next PROVE \A t \in Thread : Returns(t)
  <2> SUFFICES ASSUME NEW t \in Thread, job[t] # NoJob, job'[t] = NoJob
               PROVE  (1..job[t].goal) \cap Volatile' \subseteq exposed'
    OBVIOUS
  <2>1. PICK u \in Thread : Start(u) \/ Continue(u)
    BY <1>1 DEF Next, Append
  <2>2. u = t
    BY <1>1, <2>1, Others DEF IInv, Same
  <2>3. job[t].goal <= f_value /\ IInv' /\ Guarantee(t)
    BY <1>1, <2>1, <2>2, ReturnStep, ThreadStep
  <2>4. NumberType /\ NumberType' /\ Order /\ Order' /\ Cache'
    <3>1. NumberType /\ Order
      BY <1>1, NumberTypes DEF IInv, Positions
    <3>2. TypeOK' /\ Order' /\ Cache'
      BY <2>3 DEF IInv, Positions
    <3>3. NumberType'
      BY <3>2, NumberTypes, PTL
    <3> QED BY <3>1, <3>2, <3>3
  <2>5. job[t].goal \in Nat /\ job[t].goal <= flushed_to_disk_lsn'
    BY <2>3, <2>4 DEF NumberType, Order, Guarantee
  <2>6. (1..job[t].goal) \cap ((write_lsn' + 1)..lsn') = {}
    BY <2>4, <2>5 DEF NumberType, Order
  <2>7. 1..job[t].goal \subseteq 1..flushed_to_disk_lsn'
    BY <2>4, <2>5 DEF NumberType
  <2> QED BY <2>4, <2>6, <2>7 DEF Cache, Volatile
<1>2. IInv /\ [Next]_redoVars => [\A t \in Thread : Returns(t)]_redoVars
  BY <1>1
<1> QED BY Invariance, <1>2, PTL DEF Spec, ReturnsDurable

-----------------------------------------------------------------------------
(* The redo log implements DurableLog.                                     *)

\* The first k records of a file with w records are those before the first
\* that is only cached.
IsPrefix(k, w, c) ==
    /\ k \in 0..w
    /\ (1..k) \cap c = {}
    /\ k = w \/ k + 1 \in c

\* There is one such k.
LEMMA PrefixUnique ==
    ASSUME NEW w \in Nat, NEW c, NEW k, NEW m,
           IsPrefix(k, w, c), IsPrefix(m, w, c)
    PROVE  k = m
<1>1. ASSUME NEW i, NEW j, IsPrefix(i, w, c), IsPrefix(j, w, c), i < j
      PROVE  FALSE
  <2>1. i \in Nat /\ j \in Nat /\ i + 1 \in 1..j /\ i # w
    BY <1>1 DEF IsPrefix
  <2> QED BY <1>1, <2>1 DEF IsPrefix
<1>2. k \in Nat /\ m \in Nat
  BY DEF IsPrefix
<1> QED BY <1>1, <1>2

LEMMA PrefixExists ==
    ASSUME NEW w \in Nat, NEW c
    PROVE  \E k : IsPrefix(k, w, c)
<1> DEFINE S == (1..w) \cap c
           R == OpToRel(<, Nat)
<1>1. CASE S = {}
  <2>1. w \in 0..w
    OBVIOUS
  <2> QED BY <1>1, <2>1 DEF IsPrefix
<1>2. CASE S # {}
  <2>0. IsWellFoundedOn(R, Nat)
    BY NatLessThanWellFounded
  <2>1. S \in SUBSET Nat
    OBVIOUS
  <2>2. \A x, y \in Nat : y < x => <<y, x>> \in R
    BY DEF OpToRel
  <2> HIDE DEF R
  <2>3. PICK i \in S : \A y \in S : ~(<<y, i>> \in R)
    BY <1>2, <2>0, <2>1, WFMin
  <2>4. \A y \in S : ~(y < i)
    BY <2>1, <2>2, <2>3
  <2>5. i \in 1..w /\ i \in c /\ i - 1 \in 0..w /\ (i - 1) + 1 = i
    BY <2>3
  <2>6. (1..(i - 1)) \cap c = {}
    <3> SUFFICES ASSUME NEW y \in 1..(i - 1), y \in c PROVE FALSE
      OBVIOUS
    <3>1. y \in S /\ y < i
      BY <2>5
    <3> QED BY <3>1, <2>4
  <2> QED BY <2>5, <2>6 DEF IsPrefix
<1> QED BY <1>1, <1>2

LEMMA DurablePrefixIs ==
    TypeOK => IsPrefix(DurablePrefix, write_lsn, Unsynced)
<1> SUFFICES ASSUME TypeOK PROVE IsPrefix(DurablePrefix, write_lsn, Unsynced)
  OBVIOUS
<1>1. write_lsn \in Nat
  BY NumberTypes DEF NumberType
<1>2. \E k : IsPrefix(k, write_lsn, Unsynced)
  BY <1>1, PrefixExists
<1> QED BY <1>2 DEF DurablePrefix, IsPrefix

\* The log grows by one record, or not at all.
LEMMA LsnSteps ==
    ASSUME NEW t \in Thread, Start(t) \/ Continue(t)
    PROVE  \/ lsn' = lsn
           \/ lsn' = lsn + 1 /\ UNCHANGED fileVars
<1> DEFINE Aim == lsn' = lsn \/ (lsn' = lsn + 1 /\ UNCHANGED fileVars)
<1>D. ASSUME Finish(t) PROVE Aim BY <1>D DEF Finish
<1>R. ASSUME NEW j, Repeat(t, j) PROVE Aim BY <1>R DEF Repeat
<1>S. ASSUME NEW l, Settle(t, l) PROVE Aim BY <1>S, <1>D, <1>R DEF Settle
<1>1. CASE Start(t)
  BY <1>1, <1>R DEF Start, CallWriteUpTo, CallWriteAndFlush, CallResize,
     PrepareFlushLock
<1>2. CASE LockStep(t) BY <1>2 DEF LockStep
<1>3. CASE FlushCovered(t) \/ WriteCovered(t) \/ WriteReleased(t)
           \/ FlushReleased(t)
  BY <1>3, <1>D, <1>S DEF FlushCovered, WriteCovered, WriteReleased,
     FlushReleased
<1>4. CASE FlushLead(t) \/ AcquireWriteLock(t) \/ StartWrite(t)
           \/ WriteBuf(t) \/ ReleaseWriteLock(t)
  BY <1>4 DEF FlushLead, AcquireWriteLock, StartWrite, WriteBuf,
     ReleaseWriteLock
<1>5. CASE LogFlush(t) \/ Fsync(t) \/ PublishFlushed(t)
           \/ ReleaseFlushLock(t)
  BY <1>5 DEF LogFlush, Fsync, PublishFlushed, ReleaseFlushLock
<1>6. CASE PrepareAgain(t) \/ LatchExclusive(t) \/ ResizeSection(t)
  BY <1>6 DEF PrepareAgain, PrepareFlushLock, PrepareWriteLock,
     LatchExclusive, ResizeSection
<1> QED BY <1>1, <1>2, <1>3, <1>4, <1>5, <1>6 DEF Continue

\* The step of DurableLog that each step is.
LEMMA RefinementStep ==
    ASSUME IInv, IInv', Next
    PROVE  [Abstract!Next]_<<lsn, DurablePrefix, flushed_to_disk_lsn>>
<1>N. NumberType
  BY NumberTypes DEF IInv
<1>O. Order /\ Cache /\ Order' /\ \A t \in Thread : Target(t)
  BY DEF IInv, Positions
<1>M. NumberType'
  BY NumberTypes, PTL DEF IInv
<1>K. /\ IsPrefix(DurablePrefix, write_lsn, Unsynced)
      /\ IsPrefix(DurablePrefix, write_lsn, Unsynced)'
  <2>1. TypeOK /\ TypeOK'
    BY DEF IInv
  <2> QED BY <2>1, DurablePrefixIs, PTL
<1>P. PICK p, q : p = DurablePrefix /\ q = DurablePrefix'
  OBVIOUS
<1>Q. /\ p = DurablePrefix /\ q = DurablePrefix'
      /\ IsPrefix(p, write_lsn, Unsynced) /\ IsPrefix(q, write_lsn', Unsynced')
      /\ p \in Nat /\ q \in Nat /\ p <= write_lsn /\ q <= write_lsn'
  BY <1>P, <1>K, <1>N, <1>M DEF IsPrefix, NumberType
<1>S. ASSUME UNCHANGED <<write_lsn, cached, exposed>> PROVE q = p
  <2>1. Unsynced' = Unsynced
    BY <1>S DEF Unsynced
  <2> QED BY <1>S, <2>1, <1>Q, <1>N, PrefixUnique DEF NumberType
<1>A. ASSUME lsn' = lsn + 1, UNCHANGED fileVars PROVE Abstract!AppendRecord
  BY <1>A, <1>S, <1>Q DEF Abstract!AppendRecord, fileVars
<1>D. ASSUME p <= q, UNCHANGED <<lsn, flushed_to_disk_lsn>>
      PROVE  [Abstract!Next]_<<lsn, DurablePrefix, flushed_to_disk_lsn>>
  <2>1. q <= lsn
    BY <1>D, <1>Q, <1>O, <1>N, <1>M DEF Order, NumberType
  <2>2. CASE p = q
    BY <1>D, <2>2, <1>Q
  <2>3. CASE p # q
    BY <1>D, <2>1, <2>3, <1>Q, <1>N DEF Abstract!Next, Abstract!Persist,
       NumberType
  <2> QED BY <2>2, <2>3
<1>F. ASSUME write_lsn <= write_lsn', (1..p) \cap Unsynced' = {} PROVE p <= q
  <2>1. ASSUME q < p PROVE FALSE
    <3>0. /\ write_lsn \in Nat /\ write_lsn' \in Nat
          /\ p \in Nat /\ q \in Nat /\ p <= write_lsn
      BY <1>Q, <1>N, <1>M DEF NumberType
    <3>1. q # write_lsn' /\ q + 1 \in 1..p
      BY <1>F, <2>1, <3>0
    <3>2. q + 1 \in Unsynced'
      BY <3>1, <1>Q DEF IsPrefix
    <3> QED BY <1>F, <3>1, <3>2
  <2> QED BY <2>1, <1>Q
<1>1. CASE Append
  BY <1>1, <1>A DEF Append, Abstract!Next
<1>2. ASSUME NEW t \in Thread, Start(t) \/ Continue(t)
      PROVE  [Abstract!Next]_<<lsn, DurablePrefix, flushed_to_disk_lsn>>
  <2>1. CASE WriteBuf(t)
    <3>1. UNCHANGED <<lsn, flushed_to_disk_lsn>>
      BY <2>1 DEF WriteBuf
    <3>2. /\ cached' \subseteq cached \cup (write_lsn + 1)..job[t].n
          /\ exposed' = exposed
      BY <2>1 DEF WriteBuf
    <3>3. write_lsn <= write_lsn' /\ job[t].n \in Nat
      BY <2>1, <1>N DEF WriteBuf, Larger, NumberType
    <3>4. (1..p) \cap Unsynced' = {}
      BY <3>2, <3>3, <1>Q, <1>N DEF IsPrefix, Unsynced, NumberType
    <3>5. p <= q
      BY <3>3, <3>4, <1>F
    <3> QED BY <3>1, <3>5, <1>D
  <2>2. CASE Fsync(t)
    <3>1. UNCHANGED <<lsn, flushed_to_disk_lsn, write_lsn, exposed>>
          /\ cached' \in {cached, {}}
      BY <2>2 DEF Fsync
    <3>2. p <= q
      <4>1. (1..p) \cap Unsynced' = {}
        BY <3>1, <1>Q DEF IsPrefix, Unsynced
      <4> QED BY <3>1, <4>1, <1>F, <1>N DEF NumberType
    <3> QED BY <3>1, <3>2, <1>D
  <2>3. CASE PublishFlushed(t)
    <3>1. /\ flushed_to_disk_lsn' = job[t].n /\ at[t] = "fsynced"
          /\ UNCHANGED <<lsn, write_lsn, cached, exposed>>
      BY <2>3 DEF PublishFlushed
    <3>2. /\ job[t].n \in Nat /\ job[t].n <= write_lsn
          /\ flushed_to_disk_lsn <= job[t].n
          /\ (1..job[t].n) \cap Unsynced = {}
      BY <3>1, <1>O, <1>N
         DEF Target, Order, Cache, NumberType, Unsynced
    <3>3. job[t].n <= p
      <4>1. p < job[t].n => p + 1 \in Unsynced /\ p + 1 \in 1..job[t].n
        BY <3>2, <1>Q, <1>N DEF IsPrefix, NumberType
      <4> QED BY <4>1, <3>2, <1>Q
    <3>4. q = p
      BY <3>1, <1>S
    <3>5. CASE job[t].n = flushed_to_disk_lsn
      BY <3>1, <3>4, <3>5, <1>Q
    <3>6. CASE job[t].n # flushed_to_disk_lsn
      BY <3>1, <3>2, <3>3, <3>4, <3>6, <1>Q, <1>N
         DEF Abstract!Next, Abstract!Promise, NumberType
    <3> QED BY <3>5, <3>6
  <2>4. CASE ResizeSection(t)
    <3>1. /\ UNCHANGED <<lsn, flushed_to_disk_lsn, write_lsn, cached>>
          /\ exposed \subseteq exposed'
      BY <2>4 DEF ResizeSection
    <3>2. (1..p) \cap Unsynced' = {}
      BY <3>1, <1>Q DEF IsPrefix, Unsynced
    <3>3. p <= q
      BY <3>1, <3>2, <1>F, <1>N DEF NumberType
    <3> QED BY <3>1, <3>3, <1>D
  <2>5. CASE UNCHANGED fileVars
    BY <1>2, <2>5, <1>A, <1>S, <1>Q, LsnSteps DEF fileVars, Abstract!Next
  <2> QED BY <1>2, <2>1, <2>2, <2>3, <2>4, <2>5, FileOps DEF IInv
<1> QED BY <1>1, <1>2 DEF Next

\* The redo log implements DurableLog, whoever leads, resizes or switches
\* innodb_log_file_write_through: it becomes durable from its start on, and
\* flushed_to_disk_lsn neither goes back nor past the durable part (with the
\* exception of what a switch exposed).
THEOREM Refinement == Spec => ImplementsDurableLog
<1>1. Init => Abstract!Init
  <2> SUFFICES ASSUME Init PROVE Abstract!Init
    OBVIOUS
  <2>1. lsn = 0 /\ write_lsn = 0 /\ flushed_to_disk_lsn = 0
    BY DEF Init
  <2>2. IsPrefix(DurablePrefix, write_lsn, Unsynced)
    BY InitIInv, DurablePrefixIs DEF IInv
  <2>3. DurablePrefix = 0
    BY <2>1, <2>2 DEF IsPrefix
  <2> QED BY <2>1, <2>3 DEF Abstract!Init
<1>2. ASSUME IInv, IInv', [Next]_redoVars
      PROVE  [Abstract!Next]_<<lsn, DurablePrefix, flushed_to_disk_lsn>>
  <2>1. CASE UNCHANGED redoVars
    BY <2>1 DEF redoVars, fileVars, DurablePrefix, Unsynced
  <2> QED BY <1>2, <2>1, RefinementStep
<1> QED BY Invariance, <1>1, <1>2, PTL
        DEF Spec, ImplementsDurableLog, Abstract!Spec

\* As long as nobody switches log_write_through, nothing is exposed.
NoneExposed == exposed = {}
NeverSwitched == [][UNCHANGED log_write_through]_redoVars

LEMMA NothingExposed == Spec /\ NeverSwitched => []NoneExposed
<1>1. Init => NoneExposed
  BY DEF Init, NoneExposed
<1>2. ASSUME IInv, NoneExposed, [Next]_redoVars,
             [UNCHANGED log_write_through]_redoVars
      PROVE  NoneExposed'
  <2> USE DEF NoneExposed
  <2>1. CASE UNCHANGED exposed
    BY <1>2, <2>1
  <2>2. ASSUME NEW t \in Thread, ResizeSection(t) PROVE exposed' = {}
    <3>1. log_write_through' = log_write_through
      BY <1>2 DEF redoVars, fileVars
    <3> QED BY <1>2, <2>2, <3>1 DEF ResizeSection
  <2>3. ASSUME NEW t \in Thread, Start(t) \/ Continue(t) PROVE exposed' = {}
    BY <1>2, <2>1, <2>2, <2>3, FileOps DEF IInv, WriteBuf, Fsync,
       PublishFlushed, fileVars
  <2> QED BY <1>2, <2>1, <2>3 DEF Next, Append, fileVars, redoVars
<1> QED BY Invariance, <1>1, <1>2, PTL DEF Spec, NeverSwitched

\* log_flush() keeps its word for as long as nobody switches
\* innodb_log_file_write_through: what was promised to be durable is.
THEOREM DurableIfNeverSwitched == Spec /\ NeverSwitched => []Durability
<1>1. DurabilityUnlessSwitched /\ NoneExposed => Durability
  BY DEF DurabilityUnlessSwitched, NoneExposed, Durability
<1> QED BY <1>1, AlwaysDurable, NothingExposed, PTL
=============================================================================
