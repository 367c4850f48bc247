-------------------------- MODULE GroupCommitClients --------------------------
(***************************************************************************)
(* One group_commit_lock with its callers, and what makes it correct.  The *)
(* callers follow the contract of log0sync.h: they pass each completion    *)
(* callback once, release the lock they acquired with a number not below   *)
(* the value, and when release() returns a number they acquire the lock    *)
(* for it (the goto repeat of log_write_up_to()).                          *)
(***************************************************************************)
EXTENDS GroupCommitLock

CONSTANT MaxValue    \* bound on the numbers that the callers use

ASSUME MaxValueAssumption == MaxValue \in Nat

VARIABLE asked    \* the number each callback was passed with, 0 before that

clientVars == <<vars, asked>>

Init ==
    /\ LockInit
    /\ ThreadInit
    /\ asked = [c \in Callback |-> 0]

\* Whether the thread owes a call for the number release() returned.
MustRetry(t) == pc[t] = "released" /\ ret[t] # 0

CallAcquire(t) ==
    /\ ~MustRetry(t)
    /\ \E n \in 1..MaxValue :
           \/ /\ Acquire(t, n, NoCallback)
              /\ UNCHANGED asked
           \/ \E c \in Callback :
                  /\ asked[c] = 0
                  /\ asked' = [asked EXCEPT ![c] = n]
                  /\ Acquire(t, n, c)

\* goto repeat in log_write_up_to(), with callback= &dummy_callback
Reacquire(t) ==
    /\ MustRetry(t)
    /\ Acquire(t, ret[t], Dummy)
    /\ UNCHANGED asked

CallSetPending(t) ==
    /\ \E n \in m_value..MaxValue : SetPending(t, n)
    /\ UNCHANGED asked

CallRelease(t) ==
    /\ \E n \in m_value..MaxValue : Release(t, n)
    /\ UNCHANGED asked

Step(t) ==
    /\ AcquireStep(t) \/ ReleaseStep(t)
    /\ UNCHANGED asked

Next ==
    \E t \in Thread :
        \/ CallAcquire(t)
        \/ Reacquire(t)
        \/ CallSetPending(t)
        \/ CallRelease(t)
        \/ Step(t)

Spec == Init /\ [][Next]_clientVars

-----------------------------------------------------------------------------
(* Properties *)

\* At most one thread is the group commit leader, and m_lock says whether
\* there is one.
SingleLeader ==
    /\ \A t, u \in Thread : pc[t] = "ACQUIRED" /\ pc[u] = "ACQUIRED" => t = u
    /\ m_lock <=> \E t \in Thread : pc[t] = "ACQUIRED"

\* A thread that release() took off the waiters list and has not woken yet.
BeingWoken(t) == \E r \in Thread : lead[r] = t \/ t \in wakeup[r]

\* No wakeup is lost, and none is left over: a thread sleeps on its
\* semaphore if and only if it is on the waiters list, or a thread in
\* release() is about to wake it, or its semaphore has been signalled, and it
\* is only one of these.  A signal left over would end the next sleep of the
\* same thread_local waiter, on this lock or on another.
NoLostOrStaleWakeup ==
    \A t \in Thread :
        /\ pc[t] = "sleep" <=> \/ t \in m_waiters_list
                               \/ BeingWoken(t)
                               \/ sema[t] = 1
        /\ t \in m_waiters_list => ~BeingWoken(t) /\ sema[t] = 0
        /\ BeingWoken(t) => sema[t] = 0
        /\ \A r, s \in Thread :
               /\ (lead[r] = t \/ t \in wakeup[r])
               /\ (lead[s] = t \/ t \in wakeup[s])
               => r = s /\ ~(lead[r] = t /\ t \in wakeup[r])

\* A thread that is not on the waiters list and takes the lock when it finds
\* it free: it needs a number that is not reached, or was marked as leader by
\* release(), or must call again for the number that release() returned.
Contender(t) ==
    \/ /\ pc[t] \in InAcquire
       /\ t \notin m_waiters_list
       /\ leader[t] \/ num[t] > m_value
    \/ pc[t] \in {"release", "released"} /\ ret[t] > m_value

\* Nobody is left waiting for eternity (the comment in release()): while a
\* thread is on the waiters list or a callback is pending, somebody holds the
\* lock or is on the way to take it.
NoStall ==
    m_waiters_list # {} \/ m_pending_callbacks # {} =>
        m_lock \/ \E t \in Thread : Contender(t)

\* A completion callback runs at most once, and only when the value has
\* reached the number it was passed with.
CallbackOnceAndInTime ==
    \A c \in Callback :
        /\ fired[c] <= 1
        /\ fired[c] = 1 => asked[c] # 0 /\ asked[c] <= m_value

\* A callback that was passed to acquire() is never dropped: until it has
\* run, the caller is still in acquire() with it, or it is pending, or a
\* thread in release() is about to run it.
CallbackNotLost ==
    \A c \in Callback :
        asked[c] # 0 /\ fired[c] = 0 =>
            \/ \E t \in Thread : pc[t] \in InAcquire /\ cb[t] = c
            \/ \E p \in m_pending_callbacks : p.cb = c
            \/ \E t \in Thread : \E p \in callbacks[t] : p.cb = c
=============================================================================
