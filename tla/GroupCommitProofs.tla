--------------------------- MODULE GroupCommitProofs ---------------------------
(***************************************************************************)
(* Proofs about group_commit_lock and its callers (GroupCommitClients),    *)
(* for any set of threads, any set of callbacks and any bound.             *)
(***************************************************************************)
EXTENDS GroupCommitClients, TLAPS

\* asked is part of the closed system only, so TypeOK does not mention it.
AskedOK == asked \in [Callback -> Nat]

\* Every variable of the lock and of the calls in progress keeps its type
\* through every step of acquire() and release().
THEOREM TypeCorrect == Spec => [](TypeOK /\ AskedOK)
<1> USE GCLAssumption
<1>1. Init => TypeOK /\ AskedOK
  <2> SUFFICES ASSUME Init PROVE TypeOK /\ AskedOK
    OBVIOUS
  <2> USE DEF Init, LockInit, ThreadInit
  <2>1. /\ m_value \in Nat /\ m_pending_value \in Nat /\ m_lock \in BOOLEAN
        /\ m_waiters_list \subseteq Thread
        /\ m_pending_callbacks \subseteq PendingCallback
    OBVIOUS
  <2>2. pc \in [Thread -> Outside \cup InAcquire \cup {"ACQUIRED", "release"}]
    BY DEF Outside
  <2>3. /\ num \in [Thread -> Nat]
        /\ cb \in [Thread -> AnyCallback \cup {NoCallback}]
        /\ leader \in [Thread -> BOOLEAN]
        /\ sema \in [Thread -> {0, 1}]
    OBVIOUS
  <2>4. /\ lead \in [Thread -> Thread \cup {NoThread}]
        /\ wakeup \in [Thread -> SUBSET Thread]
        /\ callbacks \in [Thread -> SUBSET PendingCallback]
    OBVIOUS
  <2>5. ret \in [Thread -> Nat] /\ fired \in [Callback -> Nat] /\ AskedOK
    BY DEF AskedOK
  <2> QED BY <2>1, <2>2, <2>3, <2>4, <2>5 DEF TypeOK
<1>2. TypeOK /\ AskedOK /\ [Next]_clientVars => TypeOK' /\ AskedOK'
  <2> SUFFICES ASSUME TypeOK, AskedOK, [Next]_clientVars
               PROVE  TypeOK' /\ AskedOK'
    OBVIOUS
  <2> USE DEF TypeOK, AskedOK, Outside, InAcquire
  <2>0. CASE UNCHANGED clientVars
    BY <2>0 DEF clientVars, vars, lockVars, waiterVars, releaseVars
  <2>1. ASSUME NEW t \in Thread, NEW n \in Nat,
               NEW c \in AnyCallback \cup {NoCallback}, Acquire(t, n, c)
        PROVE  TypeOK'
    <3>1. CASE AcquireFast(t, n, c)
      BY <3>1 DEF AcquireFast, Goto, Invoke, lockVars, waiterVars, releaseVars
    <3>2. CASE AcquireSlow(t, n, c)
      BY <3>2 DEF AcquireSlow, Goto, lockVars, waiterVars, releaseVars
    <3> QED BY <2>1, <3>1, <3>2 DEF Acquire
  <2>2. ASSUME NEW t \in Thread, CallAcquire(t)
        PROVE  TypeOK' /\ AskedOK'
    <3>1. PICK n \in 1..MaxValue :
              \/ Acquire(t, n, NoCallback) /\ UNCHANGED asked
              \/ \E c \in Callback : /\ asked' = [asked EXCEPT ![c] = n]
                                     /\ Acquire(t, n, c)
      BY <2>2 DEF CallAcquire
    <3>2. n \in Nat OBVIOUS
    <3>3. AskedOK' BY <3>1, <3>2
    <3> QED BY <2>1, <3>1, <3>2, <3>3 DEF AnyCallback
  <2>3. ASSUME NEW t \in Thread, Reacquire(t)
        PROVE  TypeOK' /\ AskedOK'
    BY <2>1, <2>3 DEF Reacquire, AnyCallback
  <2>4. ASSUME NEW t \in Thread, CallSetPending(t)
        PROVE  TypeOK' /\ AskedOK'
    BY <2>4 DEF CallSetPending, SetPending, waiterVars, releaseVars
  <2>5. ASSUME NEW t \in Thread, CallRelease(t)
        PROVE  TypeOK' /\ AskedOK'
    <3>1. PICK n \in m_value..MaxValue : Release(t, n)
      BY <2>5 DEF CallRelease
    <3>2. n \in Nat OBVIOUS
    <3>3. /\ StillPending(n) \subseteq PendingCallback
          /\ Due(n) \subseteq PendingCallback
          /\ Unreached(n) \subseteq Thread
          /\ Reached(n) \subseteq Thread
          /\ Candidates(n) \subseteq Thread
      BY DEF StillPending, Due, Unreached, Reached, Candidates
    <3>4. /\ callbacks' \in [Thread -> SUBSET PendingCallback]
          /\ fired' \in [Callback -> Nat]
          /\ m_pending_callbacks' \subseteq PendingCallback
      BY <3>1, <3>3 DEF Release, CollectCallbacks, Invoke
    <3>5. /\ leader' \in [Thread -> BOOLEAN]
          /\ lead' \in [Thread -> Thread \cup {NoThread}]
          /\ m_waiters_list' \subseteq Thread
          /\ wakeup' \in [Thread -> SUBSET Thread]
          /\ ret' \in [Thread -> Nat]
      <4>1. CASE \E l \in Candidates(n) : WakeWithLeader(t, n, l)
        BY <4>1, <3>3 DEF WakeWithLeader
      <4>2. CASE WakeWithoutLeader(t, n)
        <5>1. \A c \in StillPending(n) : c.num \in Nat
          BY <3>3 DEF PendingCallback
        <5>2. ret' \in [Thread -> Nat]
          BY <4>2, <5>1 DEF WakeWithoutLeader
        <5> QED BY <4>2, <5>2, <3>3 DEF WakeWithoutLeader
      <4> QED BY <3>1, <4>1, <4>2 DEF Release
    <3>6. AskedOK' BY <2>5 DEF CallRelease
    <3> QED BY <3>1, <3>2, <3>4, <3>5, <3>6 DEF Release, Goto
  <2>6. ASSUME NEW t \in Thread, AcquireStep(t), UNCHANGED asked
        PROVE  TypeOK' /\ AskedOK'
    <3> USE DEF Goto, Return, lockVars, waiterVars, releaseVars
    <3>1. CASE LoopEnter(t) BY <2>6, <3>1 DEF LoopEnter
    <3>2. CASE LoopExit(t) BY <2>6, <3>2 DEF LoopExit, Invoke
    <3>3. CASE RecheckExpired(t) BY <2>6, <3>3 DEF RecheckExpired, Invoke
    <3>4. CASE TakeLock(t) BY <2>6, <3>4 DEF TakeLock, PushCallback, PendingCallback
    <3>5. CASE QueueCallback(t) BY <2>6, <3>5 DEF QueueCallback, PushCallback, PendingCallback
    <3>6. CASE Enqueue(t) BY <2>6, <3>6 DEF Enqueue
    <3>7. CASE WakeUp(t) BY <2>6, <3>7 DEF WakeUp
    <3> QED BY <2>6, <3>1, <3>2, <3>3, <3>4, <3>5, <3>6, <3>7 DEF AcquireStep
  <2>7. ASSUME NEW t \in Thread, ReleaseStep(t), UNCHANGED asked
        PROVE  TypeOK' /\ AskedOK'
    <3> USE DEF Goto, lockVars, waiterVars, releaseVars
    <3>1. CASE WakeLead(t) BY <2>7, <3>1 DEF WakeLead
    <3>2. CASE RunCallback(t) BY <2>7, <3>2 DEF RunCallback, Invoke
    <3>3. CASE WakeOther(t) BY <2>7, <3>3 DEF WakeOther
    <3>4. CASE ReleaseReturn(t) BY <2>7, <3>4 DEF ReleaseReturn
    <3> QED BY <2>7, <3>1, <3>2, <3>3, <3>4 DEF ReleaseStep
  <2> QED BY <2>0, <2>2, <2>3, <2>4, <2>5, <2>6, <2>7 DEF Next, Step
<1> QED BY <1>1, <1>2, PTL DEF Spec

\* There is never more than one group commit leader, and m_lock tells whether
\* there is one: acquire() sets m_lock only when it finds it clear, and only
\* release() by the leader clears it.
THEOREM SingleLeaderAlways == Spec => []SingleLeader
<1>1. Init => SingleLeader
  BY DEF Init, LockInit, SingleLeader
<1>2. TypeOK /\ SingleLeader /\ [Next]_clientVars => SingleLeader'
  <2> SUFFICES ASSUME TypeOK, SingleLeader, [Next]_clientVars
               PROVE  SingleLeader'
    OBVIOUS
  <2> USE DEF SingleLeader, Outside, InAcquire
  <2>T. pc \in [Thread -> Outside \cup InAcquire \cup {"ACQUIRED", "release"}]
    BY DEF TypeOK
  <2>1. CASE /\ m_lock' = m_lock
             /\ \E t \in Thread, l \in Outside \cup InAcquire \cup {"release"} :
                    pc[t] # "ACQUIRED" /\ pc' = [pc EXCEPT ![t] = l]
    BY <2>1, <2>T
  <2>2. CASE UNCHANGED <<m_lock, pc>>
    BY <2>2
  <2>3. ASSUME NEW t \in Thread, TakeLock(t)
        PROVE  SingleLeader'
    BY <2>3, <2>T DEF TakeLock, Return, Goto
  <2>4. ASSUME NEW t \in Thread, NEW n, Release(t, n)
        PROVE  SingleLeader'
    BY <2>4, <2>T DEF Release, Goto
  <2>5. ASSUME NEW t \in Thread, NEW n, NEW c, Acquire(t, n, c)
        PROVE  SingleLeader'
    BY <2>5, <2>1 DEF Acquire, AcquireFast, AcquireSlow, Goto, lockVars
  <2>6. ASSUME NEW t \in Thread, AcquireStep(t)
        PROVE  SingleLeader'
    BY <2>6, <2>1, <2>3 DEF AcquireStep, LoopEnter, LoopExit, RecheckExpired,
       QueueCallback, Enqueue, WakeUp, Return, Goto, lockVars
  <2>7. ASSUME NEW t \in Thread, ReleaseStep(t)
        PROVE  SingleLeader'
    BY <2>7, <2>1, <2>2 DEF ReleaseStep, WakeLead, RunCallback, WakeOther,
       ReleaseReturn, Goto, lockVars
  <2>8. ASSUME NEW t \in Thread, NEW n, SetPending(t, n)
        PROVE  SingleLeader'
    BY <2>8, <2>2 DEF SetPending
  <2>9. CASE UNCHANGED clientVars
    BY <2>9, <2>2 DEF clientVars, vars, lockVars
  <2> QED BY <2>4, <2>5, <2>6, <2>7, <2>8, <2>9
          DEF Next, CallAcquire, Reacquire, CallSetPending, CallRelease, Step
<1> QED BY <1>1, <1>2, TypeCorrect, PTL DEF Spec

\* The locals of release() hold something only while the call is running.
ReleaseLocals ==
    \A r \in Thread : pc[r] # "release" =>
        lead[r] = NoThread /\ wakeup[r] = {} /\ callbacks[r] = {}

\* No wakeup is lost and none is left over: enqueueing in acquire(), moving
\* waiters to wakeup_list in release() and signalling them keep the exact
\* correspondence between sleeping threads and pending or delivered signals.
THEOREM WakeupsExact == Spec => [](ReleaseLocals /\ NoLostOrStaleWakeup)
<1> USE GCLAssumption
<1> DEFINE Inv == ReleaseLocals /\ NoLostOrStaleWakeup
<1>1. Init => Inv
  BY DEF Init, LockInit, ThreadInit, ReleaseLocals, NoLostOrStaleWakeup,
         BeingWoken
<1>2. TypeOK /\ Inv /\ [Next]_clientVars => Inv'
  <2> SUFFICES ASSUME TypeOK, Inv, [Next]_clientVars
               PROVE  Inv'
    OBVIOUS
  <2> USE DEF ReleaseLocals, NoLostOrStaleWakeup, BeingWoken, Outside,
              InAcquire
  <2>T. /\ pc \in [Thread -> Outside \cup InAcquire
                                 \cup {"ACQUIRED", "release"}]
        /\ sema \in [Thread -> {0, 1}]
        /\ lead \in [Thread -> Thread \cup {NoThread}]
        /\ wakeup \in [Thread -> SUBSET Thread]
        /\ m_waiters_list \subseteq Thread
    BY DEF TypeOK
  <2> HIDE DEF TypeOK
  \* Steps that neither fall asleep nor touch the lists.
  <2>1. CASE /\ UNCHANGED <<m_waiters_list, sema, lead, wakeup, callbacks>>
             /\ \E t \in Thread,
                   l \in Outside \cup {"loop", "mutex", "ACQUIRED"} :
                    /\ pc[t] \notin {"sleep", "release"}
                    /\ pc' = [pc EXCEPT ![t] = l]
    BY <2>1, <2>T
  <2>2. CASE UNCHANGED <<m_waiters_list, sema, lead, wakeup, callbacks, pc>>
    BY <2>2
  <2>3. ASSUME NEW t \in Thread, NEW n, NEW c, Acquire(t, n, c)
        PROVE  Inv'
    BY <2>3, <2>1 DEF Acquire, AcquireFast, AcquireSlow, Goto, lockVars,
       waiterVars, releaseVars
  <2>4. ASSUME NEW t \in Thread, NEW n, SetPending(t, n)
        PROVE  Inv'
    BY <2>4, <2>2 DEF SetPending, waiterVars, releaseVars
  <2>5. ASSUME NEW t \in Thread, AcquireStep(t)
        PROVE  Inv'
    <3>1. CASE LoopEnter(t) \/ LoopExit(t) \/ RecheckExpired(t) \/ TakeLock(t)
               \/ QueueCallback(t)
      BY <3>1, <2>1 DEF LoopEnter, LoopExit, RecheckExpired, TakeLock,
         QueueCallback, Return, Goto, lockVars, waiterVars, releaseVars
    <3>2. CASE Enqueue(t)
      BY <3>2, <2>T DEF Enqueue, Goto, releaseVars
    <3>3. CASE WakeUp(t)
      BY <3>3, <2>T DEF WakeUp, Goto, lockVars, releaseVars
    <3> QED BY <2>5, <3>1, <3>2, <3>3 DEF AcquireStep
  <2>6. ASSUME NEW t \in Thread, NEW n, Release(t, n)
        PROVE  Inv'
    <3> DEFINE U == Unreached(n)
               R == Reached(n)
    <3>1. U \cup R = m_waiters_list /\ U \cap R = {} /\ Candidates(n) \subseteq m_waiters_list
      BY DEF Unreached, Reached, Candidates
    <3>2. /\ pc[t] = "ACQUIRED"
          /\ pc' = [pc EXCEPT ![t] = "release"]
          /\ sema' = sema
          /\ \E b : callbacks' = [callbacks EXCEPT ![t] = b]
      BY <2>6 DEF Release, Goto, CollectCallbacks
    <3>3. /\ ReleaseLocals'
          /\ \A r \in Thread : r # t => lead'[r] = lead[r] /\ wakeup'[r] = wakeup[r]
      BY <2>6, <3>2, <2>T DEF Release, WakeWithLeader, WakeWithoutLeader, TypeOK
    <3>4. CASE \E l \in Candidates(n) : WakeWithLeader(t, n, l)
      <4> PICK l \in Candidates(n) : WakeWithLeader(t, n, l)
        BY <3>4
      <4> HIDE DEF U, R
      <4>1. /\ lead' = [lead EXCEPT ![t] = l]
            /\ m_waiters_list' = U \ {l}
            /\ wakeup' = [wakeup EXCEPT ![t] = R \ {l}]
            /\ l \in m_waiters_list
        BY <3>1 DEF WakeWithLeader, U, R
      <4> QED BY <3>1, <3>2, <3>3, <4>1, <2>T
    <3>5. CASE WakeWithoutLeader(t, n)
      <4>1. /\ lead' = lead
            /\ m_waiters_list' = {}
            /\ wakeup' = [wakeup EXCEPT ![t] = R]
            /\ U = {}
        BY <3>5 DEF WakeWithoutLeader, Candidates
      <4> HIDE DEF U, R
      <4> QED BY <3>1, <3>2, <3>3, <4>1, <2>T
    <3> QED BY <2>6, <3>4, <3>5 DEF Release
  <2>7. ASSUME NEW t \in Thread, ReleaseStep(t)
        PROVE  Inv'
    <3>1. CASE WakeLead(t)
      BY <3>1, <2>T DEF WakeLead, lockVars
    <3>2. CASE RunCallback(t)
      BY <3>2, <2>T DEF RunCallback, lockVars, waiterVars
    <3>3. CASE WakeOther(t)
      BY <3>3, <2>T DEF WakeOther, lockVars
    <3>4. CASE ReleaseReturn(t)
      BY <3>4, <2>T DEF ReleaseReturn, Goto, lockVars, waiterVars, releaseVars
    <3> QED BY <2>7, <3>1, <3>2, <3>3, <3>4 DEF ReleaseStep
  <2>8. CASE UNCHANGED clientVars
    BY <2>8, <2>2 DEF clientVars, vars, lockVars, waiterVars, releaseVars
  <2> QED BY <2>3, <2>4, <2>5, <2>6, <2>7, <2>8
          DEF Next, CallAcquire, Reacquire, CallSetPending, CallRelease, Step
<1> QED BY <1>1, <1>2, TypeCorrect, PTL DEF Spec

\* While a thread waits or a callback is pending, somebody holds the lock or
\* is on the way to take it.  The proof needs the exact wakeups: the leader
\* that release() marks is asleep, off the list and about to be signalled.
THEOREM NoStallAlways == Spec => []NoStall
<1> USE GCLAssumption
<1> DEFINE Known == TypeOK /\ ReleaseLocals /\ NoLostOrStaleWakeup
<1>1. Init => NoStall
  BY DEF Init, LockInit, NoStall
<1>2. Known /\ NoStall /\ [Next]_clientVars => NoStall'
  <2> SUFFICES ASSUME Known, NoStall, [Next]_clientVars
               PROVE  NoStall'
    OBVIOUS
  <2>T. /\ pc \in [Thread -> Outside \cup InAcquire
                                 \cup {"ACQUIRED", "release"}]
        /\ num \in [Thread -> Nat]
        /\ ret \in [Thread -> Nat]
        /\ leader \in [Thread -> BOOLEAN]
        /\ m_value \in Nat
        /\ m_waiters_list \subseteq Thread
        /\ m_lock \in BOOLEAN
        /\ m_pending_callbacks \subseteq PendingCallback
    BY DEF TypeOK
  <2>W. \A t \in Thread :
            /\ t \in m_waiters_list => pc[t] = "sleep"
            /\ pc[t] = "sleep" /\ sema[t] = 1 => t \notin m_waiters_list
    BY DEF NoLostOrStaleWakeup
  \* Every contender is one after the step, and the lists do not grow.
  <2>1. ASSUME m_waiters_list' \subseteq m_waiters_list,
               m_pending_callbacks' \subseteq m_pending_callbacks,
               m_lock' = m_lock,
               \A u \in Thread : Contender(u) => Contender(u)'
        PROVE  NoStall'
    BY <2>1 DEF NoStall
  <2>2. CASE m_lock'
    BY <2>2 DEF NoStall
  <2>3. CASE /\ UNCHANGED <<m_waiters_list, m_pending_callbacks, m_lock>>
             /\ UNCHANGED <<pc, num, leader, ret, m_value>>
    BY <2>3, <2>1 DEF Contender
  <2>4. ASSUME NEW t \in Thread, NEW n \in Nat, NEW c, Acquire(t, n, c),
               MustRetry(t) => n = ret[t]
        PROVE  NoStall'
    <3>1. /\ UNCHANGED lockVars
          /\ UNCHANGED releaseVars
          /\ pc[t] \in Outside
      BY <2>4 DEF Acquire, AcquireFast, AcquireSlow
    <3>2. \A u \in Thread : Contender(u) => Contender(u)'
      <4> SUFFICES ASSUME NEW u \in Thread, Contender(u) PROVE Contender(u)'
        OBVIOUS
      <4>1. CASE u # t
        BY <4>1, <3>1, <2>4, <2>T DEF Acquire, AcquireFast, AcquireSlow, Goto,
           Contender, lockVars, waiterVars, releaseVars
      <4>2. CASE u = t
        <5>1. pc[t] = "released" /\ ret[t] > m_value
          BY <4>2, <3>1 DEF Contender, Outside, InAcquire
        <5>2. n > m_value
          BY <5>1, <2>4, <2>T DEF MustRetry
        <5>3. AcquireSlow(t, n, c)
          BY <5>2, <2>4, <2>T DEF Acquire, AcquireFast
        <5>4. t \notin m_waiters_list
          BY <5>1, <2>W
        <5> QED BY <4>2, <5>2, <5>3, <5>4, <2>T DEF AcquireSlow, Goto,
                Contender, lockVars, InAcquire
      <4> QED BY <4>1, <4>2
    <3> QED BY <3>1, <3>2, <2>1 DEF lockVars
  <2>5. ASSUME NEW t \in Thread, AcquireStep(t)
        PROVE  NoStall'
    <3> USE DEF Contender, Goto, lockVars, waiterVars, releaseVars, InAcquire
    <3>1. CASE LoopEnter(t)
      BY <3>1, <2>1, <2>T DEF LoopEnter
    <3>2. CASE LoopExit(t)
      BY <3>2, <2>1, <2>T DEF LoopExit, Return
    <3>3. CASE RecheckExpired(t)
      BY <3>3, <2>1, <2>2, <2>T DEF RecheckExpired, Expired, Return
    <3>4. CASE TakeLock(t)
      BY <3>4, <2>2 DEF TakeLock
    <3>5. CASE QueueCallback(t) \/ Enqueue(t)
      BY <3>5, <2>2 DEF QueueCallback, Enqueue
    <3>6. CASE WakeUp(t)
      BY <3>6, <2>1, <2>W, <2>T DEF WakeUp
    <3> QED BY <2>5, <3>1, <3>2, <3>3, <3>4, <3>5, <3>6 DEF AcquireStep
  <2>6. ASSUME NEW t \in Thread, NEW n \in Nat, Release(t, n)
        PROVE  NoStall'
    <3>1. /\ pc[t] = "ACQUIRED"
          /\ pc' = [pc EXCEPT ![t] = "release"]
          /\ m_value' = n
          /\ m_pending_callbacks' = StillPending(n)
      BY <2>6 DEF Release, Goto, CollectCallbacks
    <3>2. CASE \E l \in Candidates(n) : WakeWithLeader(t, n, l)
      <4> PICK l \in Candidates(n) : WakeWithLeader(t, n, l)
        BY <3>2
      <4>1. l \in m_waiters_list
        BY DEF Candidates, Unreached, Reached
      <4>2. l \in Thread /\ pc[l] = "sleep"
        BY <4>1, <2>T, <2>W
      <4>3. pc'[l] = "sleep" /\ l \notin m_waiters_list' /\ leader'[l]
        BY <4>2, <3>1, <2>T DEF WakeWithLeader
      <4> QED BY <4>2, <4>3 DEF NoStall, Contender, InAcquire
    <3>3. CASE WakeWithoutLeader(t, n)
      <4>1. CASE StillPending(n) = {}
        BY <4>1, <3>1, <3>3 DEF WakeWithoutLeader, NoStall
      <4>2. CASE StillPending(n) # {}
        <5>1. PICK p \in StillPending(n) : ret' = [ret EXCEPT ![t] = p.num]
          BY <3>3, <4>2 DEF WakeWithoutLeader
        <5>2. ret'[t] > m_value'
          BY <5>1, <3>1, <2>T DEF StillPending
        <5> QED BY <3>1, <5>2, <2>T DEF NoStall, Contender
      <4> QED BY <4>1, <4>2
    <3> QED BY <2>6, <3>2, <3>3 DEF Release
  <2>7. ASSUME NEW t \in Thread, ReleaseStep(t)
        PROVE  NoStall'
    <3>1. CASE WakeLead(t) \/ RunCallback(t) \/ WakeOther(t)
      BY <3>1, <2>3 DEF WakeLead, RunCallback, WakeOther, lockVars, waiterVars
    <3>2. CASE ReleaseReturn(t)
      BY <3>2, <2>1, <2>T DEF ReleaseReturn, Goto, Contender, lockVars,
         waiterVars, releaseVars, InAcquire
    <3> QED BY <2>7, <3>1, <3>2 DEF ReleaseStep
  <2>8. ASSUME NEW t \in Thread, NEW n, SetPending(t, n)
        PROVE  NoStall'
    BY <2>8, <2>3 DEF SetPending, waiterVars, releaseVars
  <2>9. CASE UNCHANGED clientVars
    BY <2>9, <2>3 DEF clientVars, vars, lockVars, waiterVars, releaseVars
  <2>10. ASSUME NEW t \in Thread, CallAcquire(t) \/ Reacquire(t)
         PROVE  NoStall'
    <3>1. \A n \in 1..MaxValue : n \in Nat
      OBVIOUS
    <3> QED BY <2>10, <2>4, <2>T, <3>1 DEF CallAcquire, Reacquire
  <2>11. ASSUME NEW t \in Thread, CallRelease(t) \/ CallSetPending(t)
         PROVE  NoStall'
    <3>1. \A n \in m_value..MaxValue : n \in Nat
      BY <2>T
    <3> QED BY <2>11, <2>6, <2>8, <3>1 DEF CallRelease, CallSetPending
  <2> QED BY <2>5, <2>7, <2>9, <2>10, <2>11 DEF Next, Step
<1> QED BY <1>1, <1>2, TypeCorrect, WakeupsExact, PTL DEF Spec

-----------------------------------------------------------------------------
\* Where a callback is: with its caller in acquire(), pending, or taken off
\* the pending callbacks by a thread in release().
Held(c) == \E t \in Thread : cb[t] = c
Queued(c) == \E p \in m_pending_callbacks : p.cb = c
Collected(c) == \E t \in Thread : \E p \in callbacks[t] : p.cb = c

\* Wherever it is, it is there once and with the number it was passed with.
Numbers ==
    /\ \A t \in Thread : pc[t] \notin InAcquire => cb[t] = NoCallback
    /\ \A t \in Thread :
           cb[t] \in Callback => num[t] = asked[cb[t]] /\ num[t] # 0
    /\ \A t, u \in Thread : t # u /\ cb[t] = cb[u] => cb[t] \notin Callback
    /\ \A p \in m_pending_callbacks :
           p.cb \in Callback => p.num = asked[p.cb] /\ p.num # 0
    /\ \A t \in Thread : \A p \in callbacks[t] :
           p.cb \in Callback =>
               p.num = asked[p.cb] /\ p.num # 0 /\ p.num <= m_value
    /\ \A t, u \in Thread : t # u =>
           \A p \in callbacks[t], q \in callbacks[u] :
               p.cb = q.cb => p.cb \notin Callback

\* It is in exactly one place, or it has run.
Places ==
    \A c \in Callback :
        /\ Held(c) => ~Queued(c) /\ ~Collected(c) /\ fired[c] = 0
        /\ Queued(c) => ~Collected(c) /\ fired[c] = 0
        /\ Collected(c) => fired[c] = 0
        /\ fired[c] \in {0, 1}
        /\ fired[c] = 1 => asked[c] # 0 /\ asked[c] <= m_value
        /\ asked[c] # 0 => \/ Held(c) \/ Queued(c) \/ Collected(c)
                           \/ fired[c] = 1

\* What the steps below need of the types.
CallbackTypes ==
    /\ m_value \in Nat
    /\ m_pending_callbacks \subseteq PendingCallback
    /\ pc \in [Thread -> Outside \cup InAcquire \cup {"ACQUIRED", "release"}]
    /\ num \in [Thread -> Nat]
    /\ cb \in [Thread -> AnyCallback \cup {NoCallback}]
    /\ callbacks \in [Thread -> SUBSET PendingCallback]
    /\ fired \in [Callback -> Nat]
    /\ asked \in [Callback -> Nat]

\* A step that moves no callback.
LEMMA NothingMoves ==
    ASSUME CallbackTypes, Numbers, Places,
           UNCHANGED <<m_value, m_pending_callbacks, callbacks, fired, asked>>,
           UNCHANGED <<cb, num>>,
           \A u \in Thread : pc'[u] \notin InAcquire => pc[u] \notin InAcquire
    PROVE  Numbers' /\ Places'
<1>1. Numbers'
  BY DEF Numbers
<1>2. \A c \in Callback : /\ Held(c)' <=> Held(c)
                          /\ Queued(c)' <=> Queued(c)
                          /\ Collected(c)' <=> Collected(c)
  BY DEF Held, Queued, Collected
<1>3. Places'
  BY <1>2 DEF Places
<1> QED BY <1>1, <1>3

\* acquire() finds the number reached and runs the callback it was passed.
LEMMA RunAtOnce ==
    ASSUME CallbackTypes, Numbers, Places,
           NEW t \in Thread, NEW n \in Nat \ {0},
           NEW c \in AnyCallback \cup {NoCallback},
           AcquireFast(t, n, c),
           c \in Callback => asked[c] = 0 /\ asked' = [asked EXCEPT ![c] = n],
           c \notin Callback => asked' = asked
    PROVE  Numbers' /\ Places'
<1>1. /\ UNCHANGED <<m_value, m_pending_callbacks, callbacks>>
      /\ UNCHANGED <<cb, num>> /\ n <= m_value
      /\ pc[t] \in Outside /\ pc' = [pc EXCEPT ![t] = "EXPIRED"]
  BY DEF AcquireFast, Goto, lockVars, waiterVars, releaseVars
<1>2. \A d \in Callback : fired'[d] = IF d = c THEN fired[d] + 1 ELSE fired[d]
  BY DEF AcquireFast, Invoke
<1>3. \A d \in Callback : asked'[d] = IF d = c THEN n ELSE asked[d]
  BY DEF CallbackTypes
<1>4. \A u \in Thread : pc'[u] \notin InAcquire => pc[u] \notin InAcquire
  BY <1>1 DEF CallbackTypes, Outside, InAcquire
<1>5. c \in Callback => ~Held(c) /\ ~Queued(c) /\ ~Collected(c) /\ fired[c] = 0
  <2> SUFFICES ASSUME c \in Callback
               PROVE  ~Held(c) /\ ~Queued(c) /\ ~Collected(c) /\ fired[c] = 0
    OBVIOUS
  <2>1. asked[c] = 0
    OBVIOUS
  <2>2. ~Held(c) /\ ~Queued(c) /\ ~Collected(c)
    BY <2>1 DEF Numbers, Held, Queued, Collected
  <2> QED BY <2>1, <2>2 DEF Places
<1>6. \A d \in Callback : /\ Held(d)' <=> Held(d)
                          /\ Queued(d)' <=> Queued(d)
                          /\ Collected(d)' <=> Collected(d)
  BY <1>1 DEF Held, Queued, Collected
<1>7. Numbers'
  <2>1. \A u \in Thread : cb[u] \in Callback => cb[u] # c
    BY <1>5 DEF Held
  <2>2. \A p \in m_pending_callbacks : p.cb \in Callback => p.cb # c
    BY <1>5 DEF Queued
  <2>3. \A u \in Thread : \A p \in callbacks[u] : p.cb \in Callback => p.cb # c
    BY <1>5 DEF Collected
  <2> QED BY <1>1, <1>3, <1>4, <2>1, <2>2, <2>3 DEF Numbers
<1>8. Places'
  BY <1>1, <1>2, <1>3, <1>5, <1>6 DEF Places, CallbackTypes
<1> QED BY <1>7, <1>8

\* acquire() has to wait and keeps the callback.
LEMMA Hold ==
    ASSUME CallbackTypes, Numbers, Places,
           NEW t \in Thread, NEW n \in Nat \ {0},
           NEW c \in AnyCallback \cup {NoCallback},
           AcquireSlow(t, n, c),
           c \in Callback => asked[c] = 0 /\ asked' = [asked EXCEPT ![c] = n],
           c \notin Callback => asked' = asked
    PROVE  Numbers' /\ Places'
<1> USE GCLAssumption
<1>1. /\ UNCHANGED <<m_value, m_pending_callbacks, callbacks, fired>>
      /\ num' = [num EXCEPT ![t] = n] /\ cb' = [cb EXCEPT ![t] = c]
      /\ pc[t] \in Outside /\ pc' = [pc EXCEPT ![t] = "loop"]
  BY DEF AcquireSlow, Goto, lockVars, releaseVars
<1>2. \A d \in Callback : asked'[d] = IF d = c THEN n ELSE asked[d]
  BY DEF CallbackTypes
<1>3. c \in Callback => ~Held(c) /\ ~Queued(c) /\ ~Collected(c) /\ fired[c] = 0
  <2> SUFFICES ASSUME c \in Callback
               PROVE  ~Held(c) /\ ~Queued(c) /\ ~Collected(c) /\ fired[c] = 0
    OBVIOUS
  <2>1. asked[c] = 0
    OBVIOUS
  <2>2. ~Held(c) /\ ~Queued(c) /\ ~Collected(c)
    BY <2>1 DEF Numbers, Held, Queued, Collected
  <2> QED BY <2>1, <2>2 DEF Places
<1>4. cb[t] = NoCallback
  BY <1>1 DEF Numbers, Outside, InAcquire
<1>5. /\ cb'[t] = c /\ num'[t] = n /\ pc'[t] = "loop"
      /\ \A u \in Thread : u # t => /\ cb'[u] = cb[u] /\ num'[u] = num[u]
                                    /\ pc'[u] = pc[u]
  BY <1>1 DEF CallbackTypes
<1>6. \A d \in Callback : /\ Held(d)' <=> Held(d) \/ d = c
                          /\ Queued(d)' <=> Queued(d)
                          /\ Collected(d)' <=> Collected(d)
  BY <1>1, <1>4, <1>5 DEF Held, Queued, Collected
<1>7. Numbers'
  <2>1. \A u \in Thread : cb[u] \in Callback => cb[u] # c
    BY <1>3 DEF Held
  <2>2. \A p \in m_pending_callbacks : p.cb \in Callback => p.cb # c
    BY <1>3 DEF Queued
  <2>3. \A u \in Thread : \A p \in callbacks[u] : p.cb \in Callback => p.cb # c
    BY <1>3 DEF Collected
  <2>4. \A u \in Thread : pc'[u] \notin InAcquire => cb'[u] = NoCallback
    BY <1>5 DEF Numbers, InAcquire
  <2>5. \A u \in Thread :
            cb'[u] \in Callback => num'[u] = asked'[cb'[u]] /\ num'[u] # 0
    BY <1>2, <1>5, <2>1 DEF Numbers
  <2>6. \A u, v \in Thread : u # v /\ cb'[u] = cb'[v] => cb'[u] \notin Callback
    BY <1>5, <2>1 DEF Numbers
  <2> QED BY <1>1, <1>2, <2>2, <2>3, <2>4, <2>5, <2>6 DEF Numbers
<1>8. Places'
  BY <1>1, <1>2, <1>3, <1>6 DEF Places, CallbackTypes
<1> QED BY <1>7, <1>8

\* acquire() returns EXPIRED and runs the callback it holds.
LEMMA RunHeld ==
    ASSUME CallbackTypes, Numbers, Places, NEW t \in Thread, num[t] <= m_value,
           Invoke({cb[t]}), Return(t, "EXPIRED"),
           UNCHANGED <<m_value, m_pending_callbacks, callbacks, asked>>
    PROVE  Numbers' /\ Places'
<1> USE GCLAssumption
<1>1. /\ cb'[t] = NoCallback
      /\ \A u \in Thread : u # t => /\ cb'[u] = cb[u] /\ num'[u] = num[u]
                                    /\ pc'[u] = pc[u]
  BY DEF CallbackTypes, Return, Goto
<1>2. \A d \in Callback :
          fired'[d] = IF d = cb[t] THEN fired[d] + 1 ELSE fired[d]
  BY DEF Invoke
<1>3. \A d \in Callback : /\ Held(d)' <=> Held(d) /\ d # cb[t]
                          /\ Queued(d)' <=> Queued(d)
                          /\ Collected(d)' <=> Collected(d)
  BY <1>1 DEF Held, Queued, Collected, Numbers
<1>4. cb[t] \in Callback =>
          Held(cb[t]) /\ asked[cb[t]] # 0 /\ asked[cb[t]] <= m_value
  BY DEF Held, Numbers
<1>5. Numbers'
  BY <1>1 DEF Numbers
<1>6. Places'
  BY <1>2, <1>3, <1>4 DEF Places, CallbackTypes
<1> QED BY <1>5, <1>6

\* acquire() pushes the callback it holds and returns.
LEMMA Push ==
    ASSUME CallbackTypes, Numbers, Places, NEW t \in Thread,
           NEW code, PushCallback(t), Return(t, code),
           UNCHANGED <<m_value, callbacks, fired, asked>>
    PROVE  Numbers' /\ Places'
<1> USE GCLAssumption
<1>1. /\ cb'[t] = NoCallback
      /\ \A u \in Thread : u # t => /\ cb'[u] = cb[u] /\ num'[u] = num[u]
                                    /\ pc'[u] = pc[u]
  BY DEF CallbackTypes, Return, Goto
<1>2. /\ \A p \in m_pending_callbacks :  p \in m_pending_callbacks'
      /\ \A p \in m_pending_callbacks' :
             \/ p \in m_pending_callbacks
             \/ cb[t] # NoCallback /\ p.num = num[t] /\ p.cb = cb[t]
      /\ cb[t] # NoCallback =>
             \E p \in m_pending_callbacks' : p.cb = cb[t]
  <2>1. CASE cb[t] = NoCallback
    BY <2>1 DEF PushCallback
  <2>2. CASE cb[t] # NoCallback
    <3>1. m_pending_callbacks' =
              m_pending_callbacks \cup {[num |-> num[t], cb |-> cb[t]]}
      BY <2>2 DEF PushCallback
    <3> DEFINE new == [num |-> num[t], cb |-> cb[t]]
    <3>2. new.num = num[t] /\ new.cb = cb[t]
      OBVIOUS
    <3> HIDE DEF new
    <3>3. m_pending_callbacks' = m_pending_callbacks \cup {new}
      BY <3>1 DEF new
    <3> QED BY <2>2, <3>2, <3>3
  <2> QED BY <2>1, <2>2
<1>3. \A d \in Callback : /\ Held(d)' <=> Held(d) /\ d # cb[t]
                          /\ Collected(d)' <=> Collected(d)
  BY <1>1 DEF Held, Collected, Numbers
<1>4. \A d \in Callback : Queued(d)' <=> Queued(d) \/ d = cb[t]
  BY <1>2 DEF Queued
<1>5. cb[t] \in Callback => Held(cb[t])
  BY DEF Held
<1>6. Numbers'
  <2>1. \A p \in m_pending_callbacks' :
            p.cb \in Callback => p.num = asked[p.cb] /\ p.num # 0
    BY <1>2 DEF Numbers
  <2> QED BY <1>1, <2>1 DEF Numbers
<1>7. Places'
  BY <1>3, <1>4, <1>5 DEF Places
<1> QED BY <1>6, <1>7

\* release() takes the callbacks that are due off the pending ones: a batch
\* to be run without m_mtx, the rest at once.
LEMMA Collect ==
    ASSUME CallbackTypes, Numbers, Places, NEW t \in Thread, NEW n \in Nat,
           callbacks[t] = {}, Release(t, n), asked' = asked
    PROVE  Numbers' /\ Places'
<1>1. /\ m_pending_callbacks' = StillPending(n)
      /\ m_value' = n /\ n >= m_value
      /\ UNCHANGED <<cb, num>>
      /\ pc[t] = "ACQUIRED" /\ pc' = [pc EXCEPT ![t] = "release"]
  BY DEF Release, CollectCallbacks, Goto
<1>2. PICK batch \in SUBSET Due(n) :
          /\ callbacks' = [callbacks EXCEPT ![t] = batch]
          /\ Invoke({p.cb : p \in Due(n) \ batch})
  BY DEF Release, CollectCallbacks
<1>3. \A u \in Thread : pc'[u] \notin InAcquire => pc[u] \notin InAcquire
  BY <1>1 DEF CallbackTypes, InAcquire
<1>4. /\ callbacks'[t] = batch
      /\ \A u \in Thread : u # t => callbacks'[u] = callbacks[u]
  BY <1>2 DEF CallbackTypes
<1>5. /\ StillPending(n) \subseteq m_pending_callbacks
      /\ Due(n) = m_pending_callbacks \ StillPending(n)
      /\ \A p \in Due(n) : p \in m_pending_callbacks /\ p.num <= n
  BY DEF Due, StillPending, CallbackTypes, PendingCallback
<1>6. \A p, q \in m_pending_callbacks :
          p.cb = q.cb /\ p.cb \in Callback => p = q
  <2> SUFFICES ASSUME NEW p \in m_pending_callbacks,
                      NEW q \in m_pending_callbacks,
                      p.cb = q.cb, p.cb \in Callback
               PROVE  p = q
    OBVIOUS
  <2>1. p.num = q.num
    BY DEF Numbers
  <2>2. p \in PendingCallback /\ q \in PendingCallback
    BY DEF CallbackTypes
  <2> QED BY <2>1, <2>2 DEF PendingCallback
<1>7. \A d \in Callback :
          fired'[d] = IF \E p \in Due(n) \ batch : p.cb = d
                      THEN fired[d] + 1 ELSE fired[d]
  BY <1>2 DEF Invoke
<1>8. Numbers'
  <2>1. \A p \in m_pending_callbacks' :
            p.cb \in Callback => p.num = asked[p.cb] /\ p.num # 0
    BY <1>1, <1>5 DEF Numbers
  <2>2. ASSUME NEW u \in Thread, NEW p \in callbacks'[u], p.cb \in Callback
        PROVE  p.num = asked[p.cb] /\ p.num # 0 /\ p.num <= n
    <3>1. CASE u = t
      BY <1>4, <1>5, <2>2, <3>1 DEF Numbers
    <3>2. CASE u # t
      <4>1. p \in callbacks[u] /\ p.num \in Nat
        BY <1>4, <2>2, <3>2 DEF CallbackTypes, PendingCallback
      <4>2. p.num = asked[p.cb] /\ p.num # 0 /\ p.num <= m_value
        BY <2>2, <4>1 DEF Numbers
      <4> QED BY <1>1, <4>1, <4>2 DEF CallbackTypes
    <3> QED BY <3>1, <3>2
  <2>3. ASSUME NEW u \in Thread, NEW v \in Thread, u # v,
               NEW p \in callbacks'[u], NEW q \in callbacks'[v],
               p.cb = q.cb, p.cb \in Callback
        PROVE  FALSE
    <3>1. ASSUME NEW x \in Thread, x # t, NEW r \in callbacks[x],
                 NEW s \in batch, r.cb = s.cb, r.cb \in Callback
          PROVE  FALSE
      <4>1. Collected(r.cb)
        BY <3>1 DEF Collected
      <4>2. Queued(r.cb)
        BY <1>5, <3>1 DEF Queued
      <4> QED BY <3>1, <4>1, <4>2 DEF Places
    <3>2. CASE u = t
      BY <1>4, <2>3, <3>1, <3>2
    <3>3. CASE v = t
      BY <1>4, <2>3, <3>1, <3>3
    <3>4. CASE u # t /\ v # t
      BY <1>4, <2>3, <3>4 DEF Numbers
    <3> QED BY <3>2, <3>3, <3>4
  <2> QED BY <1>1, <1>3, <2>1, <2>2, <2>3 DEF Numbers
<1>9. Places'
  <2> SUFFICES ASSUME NEW d \in Callback
               PROVE  /\ Held(d)' => /\ ~Queued(d)' /\ ~Collected(d)'
                                     /\ fired'[d] = 0
                      /\ Queued(d)' => ~Collected(d)' /\ fired'[d] = 0
                      /\ Collected(d)' => fired'[d] = 0
                      /\ fired'[d] \in {0, 1}
                      /\ fired'[d] = 1 => asked'[d] # 0 /\ asked'[d] <= m_value'
                      /\ asked'[d] # 0 => \/ Held(d)' \/ Queued(d)'
                                          \/ Collected(d)' \/ fired'[d] = 1
    BY DEF Places
  <2> DEFINE Rest == \E p \in Due(n) \ batch : p.cb = d
             Batch == \E p \in batch : p.cb = d
             Still == \E p \in StillPending(n) : p.cb = d
  <2>1. Held(d)' <=> Held(d)
    BY <1>1 DEF Held
  <2>2. Queued(d)' <=> Still
    BY <1>1 DEF Queued
  <2>3. Queued(d) <=> Still \/ Batch \/ Rest
    BY <1>5 DEF Queued
  <2>4. Collected(d)' <=> Collected(d) \/ Batch
    BY <1>4 DEF Collected
  <2>5. ~(Still /\ Batch) /\ ~(Still /\ Rest) /\ ~(Batch /\ Rest)
    BY <1>5, <1>6
  <2>6. Rest => asked[d] # 0 /\ asked[d] <= n
    BY <1>5 DEF Numbers
  <2>7. fired'[d] = IF Rest THEN fired[d] + 1 ELSE fired[d]
    BY <1>7
  <2>8. asked[d] \in Nat /\ m_value \in Nat /\ fired[d] \in Nat
    BY DEF CallbackTypes
  <2>9. /\ Held(d) => ~Queued(d) /\ ~Collected(d) /\ fired[d] = 0
        /\ Queued(d) => ~Collected(d) /\ fired[d] = 0
        /\ Collected(d) => fired[d] = 0
        /\ fired[d] \in {0, 1}
        /\ fired[d] = 1 => asked[d] # 0 /\ asked[d] <= m_value
        /\ asked[d] # 0 => \/ Held(d) \/ Queued(d) \/ Collected(d)
                           \/ fired[d] = 1
    BY DEF Places
  <2> HIDE DEF Rest, Batch, Still
  <2>10. asked'[d] = asked[d] /\ m_value' = n /\ m_value <= n
    BY <1>1, <2>8
  <2>11. CASE Rest
    BY <2>1, <2>2, <2>3, <2>4, <2>5, <2>6, <2>7, <2>8, <2>9, <2>10, <2>11
  <2>12. CASE ~Rest
    BY <2>1, <2>2, <2>3, <2>4, <2>5, <2>7, <2>8, <2>9, <2>10, <2>12
  <2> QED BY <2>11, <2>12
<1> QED BY <1>8, <1>9

\* release() runs one callback of its batch.
LEMMA RunCollected ==
    ASSUME CallbackTypes, Numbers, Places, NEW t \in Thread, RunCallback(t),
           asked' = asked
    PROVE  Numbers' /\ Places'
<1>1. UNCHANGED <<m_value, m_pending_callbacks, pc, cb, num>>
  BY DEF RunCallback, lockVars, waiterVars
<1>2. PICK p \in callbacks[t] : /\ callbacks' = [callbacks EXCEPT ![t] = @ \ {p}]
                                /\ Invoke({p.cb})
  BY DEF RunCallback
<1>3. /\ callbacks'[t] = callbacks[t] \ {p}
      /\ \A u \in Thread : u # t => callbacks'[u] = callbacks[u]
  BY <1>2 DEF CallbackTypes
<1>4. \A d \in Callback : fired'[d] = IF d = p.cb THEN fired[d] + 1 ELSE fired[d]
  BY <1>2 DEF Invoke
<1>5. \A q \in callbacks[t] : p.cb = q.cb /\ p.cb \in Callback => p = q
  <2> SUFFICES ASSUME NEW q \in callbacks[t], p.cb = q.cb, p.cb \in Callback
               PROVE  p = q
    OBVIOUS
  <2>1. p.num = q.num
    BY DEF Numbers
  <2>2. p \in PendingCallback /\ q \in PendingCallback
    BY DEF CallbackTypes
  <2> QED BY <2>1, <2>2 DEF PendingCallback
<1>6. \A d \in Callback : Collected(d)' <=> Collected(d) /\ d # p.cb
  <2> SUFFICES ASSUME NEW d \in Callback
               PROVE  Collected(d)' <=> Collected(d) /\ d # p.cb
    OBVIOUS
  <2>1. ASSUME NEW u \in Thread, NEW q \in callbacks'[u], q.cb = d
        PROVE  q \in callbacks[u] /\ d # p.cb
    <3>1. CASE u = t
      BY <1>3, <1>5, <2>1, <3>1
    <3>2. CASE u # t
      BY <1>2, <1>3, <2>1, <3>2 DEF Numbers
    <3> QED BY <3>1, <3>2
  <2>2. ASSUME NEW u \in Thread, NEW q \in callbacks[u], q.cb = d, d # p.cb
        PROVE  q \in callbacks'[u]
    BY <1>3, <2>2
  <2> QED BY <2>1, <2>2 DEF Collected
<1>7. \A d \in Callback : /\ Held(d)' <=> Held(d)
                          /\ Queued(d)' <=> Queued(d)
  BY <1>1 DEF Held, Queued
<1>8. p.cb \in Callback =>
          Collected(p.cb) /\ asked[p.cb] # 0 /\ asked[p.cb] <= m_value
  BY DEF Collected, Numbers
<1>9. Numbers'
  <2>1. \A u \in Thread : callbacks'[u] \subseteq callbacks[u]
    BY <1>3
  <2>2. /\ \A u \in Thread : \A q \in callbacks'[u] :
               q.cb \in Callback =>
                   q.num = asked[q.cb] /\ q.num # 0 /\ q.num <= m_value
        /\ \A u, v \in Thread : u # v =>
               \A q \in callbacks'[u], r \in callbacks'[v] :
                   q.cb = r.cb => q.cb \notin Callback
    BY <2>1 DEF Numbers
  <2> QED BY <1>1, <2>2 DEF Numbers
<1>10. Places'
  BY <1>1, <1>4, <1>6, <1>7, <1>8 DEF Places, CallbackTypes
<1> QED BY <1>9, <1>10

\* Every callback passed to acquire() is in one place until it runs, once.
THEOREM CallbacksExact == Spec => [](Numbers /\ Places)
<1> USE GCLAssumption
<1>1. Init => Numbers /\ Places
  BY DEF Init, LockInit, ThreadInit, Numbers, Places, Held, Queued, Collected
<1>2. /\ TypeOK /\ AskedOK /\ ReleaseLocals /\ Numbers /\ Places
      /\ [Next]_clientVars
      => Numbers' /\ Places'
  <2> SUFFICES ASSUME TypeOK, AskedOK, ReleaseLocals, Numbers, Places,
                      [Next]_clientVars
               PROVE  Numbers' /\ Places'
    OBVIOUS
  <2>T. CallbackTypes
    BY DEF TypeOK, AskedOK, CallbackTypes
  <2>1. ASSUME NEW t \in Thread, NEW n \in Nat \ {0},
               NEW c \in AnyCallback \cup {NoCallback}, Acquire(t, n, c),
               c \in Callback => asked[c] = 0 /\ asked' = [asked EXCEPT ![c] = n],
               c \notin Callback => asked' = asked
        PROVE  Numbers' /\ Places'
    BY <2>1, <2>T, RunAtOnce, Hold DEF Acquire
  <2>2. ASSUME NEW t \in Thread, CallAcquire(t)
        PROVE  Numbers' /\ Places'
    <3>1. PICK n \in 1..MaxValue :
              \/ Acquire(t, n, NoCallback) /\ UNCHANGED asked
              \/ \E c \in Callback : /\ asked[c] = 0
                                     /\ asked' = [asked EXCEPT ![c] = n]
                                     /\ Acquire(t, n, c)
      BY <2>2 DEF CallAcquire
    <3>2. n \in Nat \ {0}
      BY MaxValueAssumption
    <3>3. CASE Acquire(t, n, NoCallback) /\ UNCHANGED asked
      BY <2>1, <3>2, <3>3
    <3>4. ASSUME NEW c \in Callback, asked[c] = 0,
                 asked' = [asked EXCEPT ![c] = n], Acquire(t, n, c)
          PROVE  Numbers' /\ Places'
      BY <2>1, <3>2, <3>4 DEF AnyCallback
    <3> QED BY <3>1, <3>3, <3>4
  <2>3. ASSUME NEW t \in Thread, Reacquire(t)
        PROVE  Numbers' /\ Places'
    <3>1. ret[t] \in Nat \ {0}
      BY <2>3 DEF Reacquire, MustRetry, TypeOK
    <3> QED BY <2>1, <2>3, <3>1 DEF Reacquire, AnyCallback
  <2>4. ASSUME NEW t \in Thread, CallSetPending(t)
        PROVE  Numbers' /\ Places'
    BY <2>4, <2>T, NothingMoves
       DEF CallSetPending, SetPending, waiterVars, releaseVars
  <2>5. ASSUME NEW t \in Thread, CallRelease(t)
        PROVE  Numbers' /\ Places'
    <3>1. PICK n \in m_value..MaxValue : Release(t, n)
      BY <2>5 DEF CallRelease
    <3>2. n \in Nat
      BY <2>T DEF CallbackTypes
    <3>3. callbacks[t] = {}
      BY <3>1 DEF Release, ReleaseLocals
    <3> QED BY <2>5, <2>T, <3>1, <3>2, <3>3, Collect DEF CallRelease
  <2>6. ASSUME NEW t \in Thread, AcquireStep(t), UNCHANGED asked
        PROVE  Numbers' /\ Places'
    <3>1. CASE LoopEnter(t) \/ Enqueue(t) \/ WakeUp(t)
      <4>1. \A u \in Thread : pc'[u] \notin InAcquire => pc[u] \notin InAcquire
        BY <3>1, <2>T
           DEF LoopEnter, Enqueue, WakeUp, Goto, InAcquire, CallbackTypes
      <4>2. /\ UNCHANGED <<m_value, m_pending_callbacks, callbacks, fired, asked>>
            /\ UNCHANGED <<cb, num>>
        BY <3>1, <2>6 DEF LoopEnter, Enqueue, WakeUp, lockVars, waiterVars,
                          releaseVars
      <4> QED BY <2>T, <4>1, <4>2, NothingMoves
    <3>2. CASE LoopExit(t) \/ RecheckExpired(t)
      <4>1. num[t] <= m_value
        BY <3>2, <2>T DEF LoopExit, RecheckExpired, Expired, CallbackTypes
      <4> QED BY <3>2, <2>6, <2>T, <4>1, RunHeld
                 DEF LoopExit, RecheckExpired, lockVars, releaseVars
    <3>3. CASE TakeLock(t)
      BY <3>3, <2>6, <2>T, Push DEF TakeLock, releaseVars
    <3>4. CASE QueueCallback(t)
      BY <3>4, <2>6, <2>T, Push DEF QueueCallback, releaseVars
    <3> QED BY <2>6, <3>1, <3>2, <3>3, <3>4 DEF AcquireStep
  <2>7. ASSUME NEW t \in Thread, ReleaseStep(t), UNCHANGED asked
        PROVE  Numbers' /\ Places'
    <3>1. CASE WakeLead(t) \/ WakeOther(t) \/ ReleaseReturn(t)
      <4>1. \A u \in Thread : pc'[u] \notin InAcquire => pc[u] \notin InAcquire
        BY <3>1, <2>T
           DEF WakeLead, WakeOther, ReleaseReturn, Goto, InAcquire, CallbackTypes
      <4>2. /\ UNCHANGED <<m_value, m_pending_callbacks, callbacks, fired, asked>>
            /\ UNCHANGED <<cb, num>>
        BY <3>1, <2>7 DEF WakeLead, WakeOther, ReleaseReturn, lockVars,
                          waiterVars, releaseVars
      <4> QED BY <2>T, <4>1, <4>2, NothingMoves
    <3>2. CASE RunCallback(t)
      BY <3>2, <2>7, <2>T, RunCollected
    <3> QED BY <2>7, <3>1, <3>2 DEF ReleaseStep
  <2>8. CASE UNCHANGED clientVars
    BY <2>8, <2>T, NothingMoves
       DEF clientVars, vars, lockVars, waiterVars, releaseVars
  <2> QED BY <2>2, <2>3, <2>4, <2>5, <2>6, <2>7, <2>8 DEF Next, Step
<1> QED BY <1>1, <1>2, TypeCorrect, WakeupsExact, PTL DEF Spec

\* A completion callback runs at most once, and not before the value has
\* reached its number: from acquire() itself, from the batch of release(), or
\* at once when the batch is full, but never from two of them.
THEOREM CallbackAlwaysOnceAndInTime == Spec => []CallbackOnceAndInTime
<1>1. Places => CallbackOnceAndInTime
  BY DEF Places, CallbackOnceAndInTime
<1> QED BY <1>1, CallbacksExact, PTL

\* No completion callback is dropped, however many are due in one release()
\* and wherever its caller leaves acquire().
THEOREM CallbackNeverLost == Spec => []CallbackNotLost
<1>1. TypeOK /\ AskedOK /\ Numbers /\ Places => CallbackNotLost
  <2> SUFFICES ASSUME Numbers, Places, NEW c \in Callback, asked[c] # 0,
                      fired[c] = 0
               PROVE  \/ \E t \in Thread : pc[t] \in InAcquire /\ cb[t] = c
                      \/ \E p \in m_pending_callbacks : p.cb = c
                      \/ \E t \in Thread : \E p \in callbacks[t] : p.cb = c
    BY DEF CallbackNotLost
  <2>1. Held(c) \/ Queued(c) \/ Collected(c)
    BY DEF Places
  <2>2. Held(c) => \E t \in Thread : pc[t] \in InAcquire /\ cb[t] = c
    BY GCLAssumption DEF Held, Numbers
  <2> QED BY <2>1, <2>2 DEF Queued, Collected
<1> QED BY <1>1, TypeCorrect, CallbacksExact, PTL
=============================================================================
