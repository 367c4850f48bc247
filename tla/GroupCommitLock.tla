---------------------------- MODULE GroupCommitLock ----------------------------
(***************************************************************************)
(* group_commit_lock of storage/innobase/log/log0sync.{h,cc}: the lock     *)
(* that InnoDB takes around a redo log write (write_lock) and around a     *)
(* redo log flush (flush_lock).  It carries a growing value (an LSN);      *)
(* acquire(num) returns when the value has reached num (EXPIRED), when the *)
(* caller became the group commit leader (ACQUIRED), or at once, leaving a *)
(* completion callback behind (CALLBACK_QUEUED).                           *)
(*                                                                         *)
(* A thread's call is broken at the points where other threads can run:    *)
(* every access outside m_mtx is a step of its own, every critical section *)
(* of m_mtx is one step.                                                   *)
(*                                                                         *)
(* Abstractions.                                                           *)
(*  - The waiters list and the vector of pending callbacks are sets: their *)
(*    order only decides which waiter becomes the next leader, in which    *)
(*    order sleeping threads are woken and which pending number release()  *)
(*    returns.  Every order is allowed.                                    *)
(*  - The spin in acquire() re-reads the value and changes nothing; a      *)
(*    failed round is a stuttering step before AcquireSlow.                *)
(*  - binary_semaphore is atomic here: wait() needs the signal and takes   *)
(*    it, wake() sets it.                                                  *)
(***************************************************************************)
EXTENDS Naturals, FiniteSets

CONSTANTS
    Thread,        \* threads that call acquire() and release()
    NoThread,      \* the null group_commit_waiter_t pointer
    Callback,      \* completion callbacks whose invocation is observed
    Dummy,         \* dummy_callback of log0log.cc, which does nothing
    NoCallback,    \* the null completion_callback pointer
    MaxCallbacks   \* array_elements(callbacks) in release(): 1000 in the code

ASSUME GCLAssumption ==
    /\ NoThread \notin Thread
    /\ NoCallback \notin Callback \cup {Dummy}
    /\ Dummy \notin Callback
    /\ MaxCallbacks \in Nat

VARIABLES
    m_value,              \* the current value
    m_pending_value,      \* what the value is expected to become
    m_lock,               \* whether there is a group commit leader
    m_waiters_list,       \* threads in the list
    m_pending_callbacks,  \* set of [num, cb]
    pc,                   \* where each thread is in acquire() or release()
    num,                  \* acquire()'s num, thread_local_waiter.m_value
    cb,                   \* acquire()'s callback argument
    leader,               \* thread_local_waiter.m_group_commit_leader
    sema,                 \* thread_local_waiter.m_sema.m_signalled
    lead,                 \* release(): head of wakeup_list, if marked leader
    wakeup,               \* release(): the other threads of wakeup_list
    callbacks,            \* release(): callbacks to run after unlocking m_mtx
    ret,                  \* return value of the thread's last release()
    fired                 \* how often each callback has been invoked

lockVars == <<m_value, m_pending_value, m_lock, m_waiters_list,
              m_pending_callbacks>>
waiterVars == <<num, cb, leader, sema>>
releaseVars == <<lead, wakeup, callbacks, ret>>
vars == <<lockVars, pc, waiterVars, releaseVars, fired>>

AnyCallback == Callback \cup {Dummy}
PendingCallback == [num : Nat, cb : AnyCallback]

\* Not inside a call and not holding the lock.
Outside == {"idle", "EXPIRED", "CALLBACK_QUEUED", "released"}
InAcquire == {"loop", "mutex", "sleep"}

TypeOK ==
    /\ m_value \in Nat
    /\ m_pending_value \in Nat
    /\ m_lock \in BOOLEAN
    /\ m_waiters_list \subseteq Thread
    /\ m_pending_callbacks \subseteq PendingCallback
    /\ pc \in [Thread -> Outside \cup InAcquire \cup {"ACQUIRED", "release"}]
    /\ num \in [Thread -> Nat]
    /\ cb \in [Thread -> AnyCallback \cup {NoCallback}]
    /\ leader \in [Thread -> BOOLEAN]
    /\ sema \in [Thread -> {0, 1}]
    /\ lead \in [Thread -> Thread \cup {NoThread}]
    /\ wakeup \in [Thread -> SUBSET Thread]
    /\ callbacks \in [Thread -> SUBSET PendingCallback]
    /\ ret \in [Thread -> Nat]
    /\ fired \in [Callback -> Nat]

\* group_commit_lock::group_commit_lock()
LockInit ==
    /\ m_value = 0
    /\ m_pending_value = 0
    /\ m_lock = FALSE
    /\ m_waiters_list = {}
    /\ m_pending_callbacks = {}
    /\ pc = [t \in Thread |-> "idle"]

\* The thread_local group_commit_waiter_t and the locals of release().
ThreadInit ==
    /\ num = [t \in Thread |-> 0]
    /\ cb = [t \in Thread |-> NoCallback]
    /\ leader = [t \in Thread |-> FALSE]
    /\ sema = [t \in Thread |-> 0]
    /\ lead = [t \in Thread |-> NoThread]
    /\ wakeup = [t \in Thread |-> {}]
    /\ callbacks = [t \in Thread |-> {}]
    /\ ret = [t \in Thread |-> 0]
    /\ fired = [c \in Callback |-> 0]

-----------------------------------------------------------------------------
(* acquire(num, callback) *)

Goto(t, label) == pc' = [pc EXCEPT ![t] = label]

\* Return from acquire(): its parameters go out of scope, and the waiter's
\* fields are not read before the next call sets them.
Return(t, code) ==
    /\ Goto(t, code)
    /\ leader' = [leader EXCEPT ![t] = FALSE]
    /\ num' = [num EXCEPT ![t] = 0]
    /\ cb' = [cb EXCEPT ![t] = NoCallback]

\* do_completion_callback(): every callback of S that does something runs.
Invoke(S) == fired' = [c \in Callback |-> IF c \in S THEN fired[c] + 1
                                                     ELSE fired[c]]

\* The value has already reached num: no need to wait.
AcquireFast(t, n, c) ==
    /\ pc[t] \in Outside
    /\ n <= m_value
    /\ Invoke({c})
    /\ Goto(t, "EXPIRED")
    /\ UNCHANGED <<lockVars, waiterVars, releaseVars>>

\* Done spinning: prepare the thread's waiter and enter the loop.
AcquireSlow(t, n, c) ==
    /\ pc[t] \in Outside
    /\ n > m_value
    /\ num' = [num EXCEPT ![t] = n]
    /\ cb' = [cb EXCEPT ![t] = c]
    /\ leader' = [leader EXCEPT ![t] = FALSE]
    /\ Goto(t, "loop")
    /\ UNCHANGED <<lockVars, sema, releaseVars, fired>>

Acquire(t, n, c) == AcquireFast(t, n, c) \/ AcquireSlow(t, n, c)

\* while (num > value() || m_group_commit_leader), read without m_mtx.
LoopEnter(t) ==
    /\ pc[t] = "loop"
    /\ num[t] > m_value \/ leader[t]
    /\ Goto(t, "mutex")
    /\ UNCHANGED <<lockVars, waiterVars, releaseVars, fired>>

LoopExit(t) ==
    /\ pc[t] = "loop"
    /\ ~(num[t] > m_value \/ leader[t])
    /\ Invoke({cb[t]})
    /\ Return(t, "EXPIRED")
    /\ UNCHANGED <<lockVars, sema, releaseVars>>

\* Mutant: a designated leader whose number is reached just leaves.
ExpiredLeaderLeaves(t) == num[t] <= m_value

\* The check that is repeated once m_mtx is held.
Expired(t) == num[t] <= m_value /\ (~leader[t] \/ m_lock)

RecheckExpired(t) ==
    /\ pc[t] = "mutex"
    /\ Expired(t)
    /\ Invoke({cb[t]})
    /\ Return(t, "EXPIRED")
    /\ UNCHANGED <<lockVars, sema, releaseVars>>

\* Mutant: push_back() without the test of the pointer.
PushCallbackUnchecked(t) ==
    m_pending_callbacks' =
        m_pending_callbacks \cup {[num |-> num[t], cb |-> cb[t]]}

\* m_pending_callbacks.push_back({num, *callback}), if there is a callback.
PushCallback(t) ==
    m_pending_callbacks' =
        m_pending_callbacks \cup
            {[num |-> num[t], cb |-> c] : c \in {cb[t]} \ {NoCallback}}

\* Mutant: m_lock is not looked at.
TakeLockUnchecked(t) ==
    /\ pc[t] = "mutex"
    /\ ~Expired(t)
    /\ m_lock' = TRUE
    /\ PushCallback(t)
    /\ Return(t, "ACQUIRED")
    /\ UNCHANGED <<m_value, m_pending_value, m_waiters_list, sema,
                   releaseVars, fired>>

\* Mutant: the leader's own callback is not queued.
TakeLockNoCallback(t) ==
    /\ pc[t] = "mutex"
    /\ ~Expired(t)
    /\ ~m_lock
    /\ m_lock' = TRUE
    /\ Return(t, "ACQUIRED")
    /\ UNCHANGED <<m_value, m_pending_value, m_waiters_list,
                   m_pending_callbacks, sema, releaseVars, fired>>

TakeLock(t) ==
    /\ pc[t] = "mutex"
    /\ ~Expired(t)
    /\ ~m_lock
    /\ m_lock' = TRUE
    /\ PushCallback(t)
    /\ Return(t, "ACQUIRED")
    /\ UNCHANGED <<m_value, m_pending_value, m_waiters_list, sema,
                   releaseVars, fired>>

\* The lock is taken; leave the callback behind instead of sleeping.
MayQueue(t) ==
    cb[t] # NoCallback /\ (m_waiters_list # {} \/ num[t] <= m_pending_value)

QueueCallback(t) ==
    /\ pc[t] = "mutex"
    /\ ~Expired(t)
    /\ m_lock
    /\ MayQueue(t)
    /\ PushCallback(t)
    /\ Return(t, "CALLBACK_QUEUED")
    /\ UNCHANGED <<m_value, m_pending_value, m_lock, m_waiters_list,
                   sema, releaseVars, fired>>

Enqueue(t) ==
    /\ pc[t] = "mutex"
    /\ ~Expired(t)
    /\ m_lock
    /\ ~MayQueue(t)
    /\ leader' = [leader EXCEPT ![t] = FALSE]
    /\ m_waiters_list' = m_waiters_list \cup {t}
    /\ Goto(t, "sleep")
    /\ UNCHANGED <<m_value, m_pending_value, m_lock, m_pending_callbacks,
                   num, cb, sema, releaseVars, fired>>

\* thread_local_waiter.m_sema.wait()
WakeUp(t) ==
    /\ pc[t] = "sleep"
    /\ sema[t] = 1
    /\ sema' = [sema EXCEPT ![t] = 0]
    /\ Goto(t, "loop")
    /\ UNCHANGED <<lockVars, num, cb, leader, releaseVars, fired>>

AcquireStep(t) ==
    \/ LoopEnter(t)
    \/ LoopExit(t)
    \/ RecheckExpired(t)
    \/ TakeLock(t)
    \/ QueueCallback(t)
    \/ Enqueue(t)
    \/ WakeUp(t)

-----------------------------------------------------------------------------
(* set_pending(num) and release(num), called by the lock's owner *)

SetPending(t, n) ==
    /\ pc[t] = "ACQUIRED"
    /\ n >= m_value                      \* ut_a(num >= value())
    /\ m_pending_value' = n
    /\ UNCHANGED <<m_value, m_lock, m_waiters_list, m_pending_callbacks, pc,
                   waiterVars, releaseVars, fired>>

\* Waiters whose number is not reached by n, and those who are woken.
Unreached(n) == {w \in m_waiters_list : num[w] > n}
Reached(n) == m_waiters_list \ Unreached(n)
\* Mutant: a callback runs one number too early.
StillPendingOffByOne(n) == {c \in m_pending_callbacks : c.num > n + 1}

\* Pending callbacks whose number is not reached by n, and those to run.
StillPending(n) == {c \in m_pending_callbacks : c.num > n}
Due(n) == m_pending_callbacks \ StillPending(n)

\* Who may become the next group commit leader when n is released.
Candidates(n) ==
    IF Unreached(n) # {} THEN Unreached(n)
    ELSE IF StillPending(n) # {} THEN Reached(n)
    ELSE {}

\* Mutant: callbacks that do not fit into the array are forgotten.
CollectCallbacksTruncated(t, n) ==
    /\ m_pending_callbacks' = StillPending(n)
    /\ \E batch \in SUBSET Due(n) :
           /\ Cardinality(batch) = IF Cardinality(Due(n)) <= MaxCallbacks
                                   THEN Cardinality(Due(n)) ELSE MaxCallbacks
           /\ callbacks' = [callbacks EXCEPT ![t] = batch]
           /\ UNCHANGED fired

\* The first MaxCallbacks callbacks that are due are copied, to be run after
\* m_mtx is unlocked; the rest is run at once.
CollectCallbacks(t, n) ==
    /\ m_pending_callbacks' = StillPending(n)
    /\ \E batch \in SUBSET Due(n) :
           /\ Cardinality(batch) = IF Cardinality(Due(n)) <= MaxCallbacks
                                   THEN Cardinality(Due(n)) ELSE MaxCallbacks
           /\ callbacks' = [callbacks EXCEPT ![t] = batch]
           /\ Invoke({c.cb : c \in Due(n) \ batch})

\* Mutant: the new leader stays in the waiters list.
WakeWithLeaderKept(t, n, l) ==
    /\ leader' = [leader EXCEPT ![l] = TRUE]
    /\ lead' = [lead EXCEPT ![t] = l]
    /\ m_waiters_list' = Unreached(n)
    /\ wakeup' = [wakeup EXCEPT ![t] = Reached(n) \ {l}]
    /\ ret' = [ret EXCEPT ![t] = 0]

\* Put l at the head of wakeup_list, marked as group commit leader.
WakeWithLeader(t, n, l) ==
    /\ leader' = [leader EXCEPT ![l] = TRUE]
    /\ lead' = [lead EXCEPT ![t] = l]
    /\ m_waiters_list' = Unreached(n) \ {l}
    /\ wakeup' = [wakeup EXCEPT ![t] = Reached(n) \ {l}]
    /\ ret' = [ret EXCEPT ![t] = 0]

\* Nobody can be marked; if callbacks are left, return one of their numbers.
WakeWithoutLeader(t, n) ==
    /\ Candidates(n) = {}
    /\ m_waiters_list' = {}
    /\ wakeup' = [wakeup EXCEPT ![t] = Reached(n)]
    /\ \/ /\ StillPending(n) = {}
          /\ ret' = [ret EXCEPT ![t] = 0]
       \/ \E c \in StillPending(n) : ret' = [ret EXCEPT ![t] = c.num]
    /\ UNCHANGED <<leader, lead>>

\* The critical section of release().
Release(t, n) ==
    /\ pc[t] = "ACQUIRED"
    /\ n >= m_value                      \* ut_a(num >= value())
    /\ m_lock' = FALSE
    /\ m_value' = n
    /\ CollectCallbacks(t, n)
    /\ \/ \E l \in Candidates(n) : WakeWithLeader(t, n, l)
       \/ WakeWithoutLeader(t, n)
    /\ Goto(t, "release")
    /\ UNCHANGED <<m_pending_value, num, cb, sema>>

\* Mutant: the new leader is not signalled.
WakeLeadSilently(t) ==
    /\ pc[t] = "release"
    /\ lead[t] # NoThread
    /\ lead' = [lead EXCEPT ![t] = NoThread]
    /\ UNCHANGED <<lockVars, pc, waiterVars, wakeup, callbacks, ret, fired>>

\* m_sema.wake() on the designated leader, before anything else.
WakeLead(t) ==
    /\ pc[t] = "release"
    /\ lead[t] # NoThread
    /\ sema' = [sema EXCEPT ![lead[t]] = 1]
    /\ lead' = [lead EXCEPT ![t] = NoThread]
    /\ UNCHANGED <<lockVars, pc, num, cb, leader, wakeup, callbacks, ret,
                   fired>>

RunCallback(t) ==
    /\ pc[t] = "release"
    /\ lead[t] = NoThread
    /\ \E c \in callbacks[t] :
           /\ callbacks' = [callbacks EXCEPT ![t] = @ \ {c}]
           /\ Invoke({c.cb})
    /\ UNCHANGED <<lockVars, pc, waiterVars, lead, wakeup, ret>>

\* m_sema.wake() on one of the others.
WakeOther(t) ==
    /\ pc[t] = "release"
    /\ lead[t] = NoThread
    /\ callbacks[t] = {}
    /\ \E w \in wakeup[t] :
           /\ sema' = [sema EXCEPT ![w] = 1]
           /\ wakeup' = [wakeup EXCEPT ![t] = @ \ {w}]
    /\ UNCHANGED <<lockVars, pc, num, cb, leader, lead, callbacks, ret, fired>>

ReleaseReturn(t) ==
    /\ pc[t] = "release"
    /\ lead[t] = NoThread
    /\ callbacks[t] = {}
    /\ wakeup[t] = {}
    /\ Goto(t, "released")
    /\ UNCHANGED <<lockVars, waiterVars, releaseVars, fired>>

ReleaseStep(t) ==
    WakeLead(t) \/ RunCallback(t) \/ WakeOther(t) \/ ReleaseReturn(t)

=============================================================================
