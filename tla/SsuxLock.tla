------------------------------- MODULE SsuxLock -------------------------------
(***************************************************************************)
(* ssux_lock_impl and srw_mutex_impl of InnoDB (srw_lock.h, srw_lock.cc,   *)
(* futex implementation): the slim shared / update / exclusive lock that   *)
(* is the core of index and page latches.                                  *)
(*                                                                         *)
(* S is compatible with S and U, U with S, X with nothing.  U and X        *)
(* holders own the mutex `writer`; its lock word carries a HOLDER flag and *)
(* counts the owner and everybody who waits for it.  The word `readers`    *)
(* counts S holders and carries a WRITER flag, set by the owner of the     *)
(* mutex while it has or waits for X.  Threads sleep in the kernel on      *)
(* either word.                                                            *)
(*                                                                         *)
(* Every access to a word and every futex system call is one step.         *)
(*                                                                         *)
(* Abstractions.                                                           *)
(*  - A word is a pair of its flag and its count; counts do not overflow   *)
(*    (each is at most the number of threads).                             *)
(*  - Memory is sequentially consistent.                                   *)
(*  - Spinning (template parameter spinloop) reads a word again and        *)
(*    changes nothing; it has the outcomes of a futex wait that returns    *)
(*    spuriously (Spurious) or of a later first attempt.                   *)
(*  - A compare-and-swap loop is one step: a failed round has no effect.   *)
(***************************************************************************)
EXTENDS Naturals, FiniteSets

CONSTANT Thread

ASSUME ThreadAssumption == IsFiniteSet(Thread)

VARIABLES
    HOLDER,   \* writer.lock & HOLDER
    waiters,  \* writer.lock / WAITER
    WRITER,   \* readers & WRITER
    count,    \* readers & ~WRITER
    pc,       \* the mode a thread holds, or where it is in a call
    goal,     \* the mode in which a thread's last or current call ends
    wl,       \* local copy of writer.lock (wl in rd_wait(), lk in the mutex)
    lk        \* local copy of readers & ~WRITER in wr_wait()

vars == <<HOLDER, waiters, WRITER, count, pc, goal, wl, lk>>

lock == <<HOLDER, waiters>>

\* What a thread holds between calls.  "SU": rd_u_upgrade_try() succeeded and
\* the S latch has not been released yet.
Mode == {"none", "S", "SU", "U", "X"}

\* Labels of srw_mutex_impl::wait_and_lock(), and of rd_wait().
MutexWait == {"mutex_check", "mutex_sleep", "mutex_reload"}
ReadWait == {"rd_check", "rd_sleep", "rd_try", "rd_wake_all", "rd_reload"}

Label ==
    Mode \cup MutexWait \cup ReadWait \cup
    {"rd_wait", "rd_unsubscribe", "rd_wake_others", "rd_wake",
     "mutex_wait", "x_request", "x_try", "x_check", "x_sleep", "x_reload",
     "unlock", "wake"}

TypeOK ==
    /\ HOLDER \in BOOLEAN
    /\ waiters \in Nat
    /\ WRITER \in BOOLEAN
    /\ count \in Nat
    /\ pc \in [Thread -> Label]
    /\ goal \in [Thread -> Mode]
    /\ wl \in [Thread -> BOOLEAN \X Nat]
    /\ lk \in [Thread -> Nat]

\* The value of a local variable that is not in use.
NoWord == <<FALSE, 0>>

\* Both words are zero: is_vacant().
Init ==
    /\ HOLDER = FALSE
    /\ waiters = 0
    /\ WRITER = FALSE
    /\ count = 0
    /\ pc = [t \in Thread |-> "none"]
    /\ goal = [t \in Thread |-> "none"]
    /\ wl = [t \in Thread |-> NoWord]
    /\ lk = [t \in Thread |-> 0]

-----------------------------------------------------------------------------
(* The futex *)

Asleep(label) == label \in {"mutex_sleep", "rd_sleep", "x_sleep"}
OnLock == {t \in Thread : pc[t] \in {"mutex_sleep", "rd_sleep"}}
OnReaders == {t \in Thread : pc[t] = "x_sleep"}

\* Where a sleeping thread continues.
Woken(label) ==
    CASE label = "mutex_sleep" -> "mutex_reload"
      [] label = "rd_sleep" -> "rd_try"
      [] label = "x_sleep" -> "x_reload"
      [] OTHER -> label

Goto(t, label) == pc' = [pc EXCEPT ![t] = label]

\* FUTEX_WAKE of 1: one of the sleepers, if there are any.
WakeOne(t, sleepers, label) ==
    \/ sleepers = {} /\ Goto(t, label)
    \/ \E s \in sleepers :
           pc' = [pc EXCEPT ![s] = Woken(@), ![t] = label]

\* FUTEX_WAKE of INT_MAX on writer.lock
WakeAll(t, label) ==
    pc' = [s \in Thread |-> IF s = t THEN label
                            ELSE IF s \in OnLock THEN Woken(pc[s])
                            ELSE pc[s]]

\* A futex wait may return at any time.
Spurious(t) ==
    /\ Asleep(pc[t])
    /\ Goto(t, Woken(pc[t]))
    /\ UNCHANGED <<HOLDER, waiters, WRITER, count, goal, wl, lk>>

-----------------------------------------------------------------------------
(* Shared latch: rd_lock(), rd_lock_try(), rd_wait(), rd_unlock() *)

\* rd_lock_try_low(), when it succeeds
ReadTry(t, label) ==
    /\ ~WRITER
    /\ count' = count + 1
    /\ Goto(t, label)
    /\ UNCHANGED <<HOLDER, waiters, WRITER, wl, lk>>

\* rd_lock() or rd_lock_try().  The latter has no effect if it fails.
RdLock(t) ==
    /\ pc[t] = "none"
    /\ ReadTry(t, "S")
    /\ goal' = [goal EXCEPT ![t] = "S"]

RdLockWait(t) ==
    /\ pc[t] = "none"
    /\ WRITER
    /\ Goto(t, "rd_wait")
    /\ goal' = [goal EXCEPT ![t] = "S"]
    /\ UNCHANGED <<HOLDER, waiters, WRITER, count, wl, lk>>

\* Mutant: the thread looks at writer.lock but does not add itself to it.
SubscribeUncounted(t) ==
    /\ pc[t] = "rd_wait"
    /\ wl' = [wl EXCEPT ![t] = lock]
    /\ Goto(t, "rd_check")
    /\ UNCHANGED <<HOLDER, waiters, WRITER, count, goal, lk>>

\* Subscribe to writer.wake() and writer.wake_all().
Subscribe(t) ==
    /\ pc[t] = "rd_wait"
    /\ waiters' = waiters + 1
    /\ wl' = [wl EXCEPT ![t] = <<HOLDER, waiters + 1>>]
    /\ Goto(t, "rd_check")
    /\ UNCHANGED <<HOLDER, WRITER, count, goal, lk>>

\* writer.wait(wl), if wl has the HOLDER flag
ReadCheck(t) ==
    /\ pc[t] = "rd_check"
    /\ Goto(t, IF wl[t][1] /\ wl[t] = lock THEN "rd_sleep" ELSE "rd_try")
    /\ wl' = [wl EXCEPT ![t] = NoWord]
    /\ UNCHANGED <<HOLDER, waiters, WRITER, count, goal, lk>>

ReadRetry(t) ==
    /\ pc[t] = "rd_try"
    /\ ReadTry(t, "rd_unsubscribe")
    /\ UNCHANGED goal

\* An X latch was granted (readers = WRITER): wake everybody up.
ReadRetryFails(t) ==
    /\ pc[t] = "rd_try"
    /\ WRITER
    /\ Goto(t, IF count = 0 THEN "rd_wake_all" ELSE "rd_reload")
    /\ UNCHANGED <<HOLDER, waiters, WRITER, count, goal, wl, lk>>

ReadWakeAll(t) ==
    /\ pc[t] = "rd_wake_all"
    /\ WakeAll(t, "rd_reload")
    /\ UNCHANGED <<HOLDER, waiters, WRITER, count, goal, wl, lk>>

ReadReload(t) ==
    /\ pc[t] = "rd_reload"
    /\ wl' = [wl EXCEPT ![t] = lock]
    /\ Goto(t, "rd_check")
    /\ UNCHANGED <<HOLDER, waiters, WRITER, count, goal, lk>>

\* Mutant: the thread does not tell the others that it is leaving.
UnsubscribeSilently(t) ==
    /\ pc[t] = "rd_unsubscribe"
    /\ waiters' = waiters - 1
    /\ Goto(t, "S")
    /\ UNCHANGED <<HOLDER, WRITER, count, goal, wl, lk>>

Unsubscribe(t) ==
    /\ pc[t] = "rd_unsubscribe"
    /\ waiters' = waiters - 1
    /\ Goto(t, IF HOLDER \/ waiters > 1 THEN "rd_wake_others" ELSE "S")
    /\ UNCHANGED <<HOLDER, WRITER, count, goal, wl, lk>>

ReadWakeOthers(t) ==
    /\ pc[t] = "rd_wake_others"
    /\ WakeAll(t, "S")
    /\ UNCHANGED <<HOLDER, waiters, WRITER, count, goal, wl, lk>>

\* rd_unlock(), also by a thread that went on to own the mutex
RdUnlock(t) ==
    /\ pc[t] \in {"S", "SU"}
    /\ count' = count - 1
    /\ LET rest == IF pc[t] = "SU" THEN "U" ELSE "none"
       IN  /\ Goto(t, IF WRITER /\ count = 1 THEN "rd_wake" ELSE rest)
           /\ goal' = [goal EXCEPT ![t] = rest]
    /\ UNCHANGED <<HOLDER, waiters, WRITER, wl, lk>>

\* ssux_lock_impl::wake() by the last reader
ReadWake(t) ==
    /\ pc[t] = "rd_wake"
    /\ WakeOne(t, OnReaders, goal[t])
    /\ UNCHANGED <<HOLDER, waiters, WRITER, count, goal, wl, lk>>

-----------------------------------------------------------------------------
(* srw_mutex_impl: wr_lock(), wr_lock_try(), wait_and_lock(), wr_unlock() *)

\* Where the owner of the mutex goes on: u_lock() returns, wr_lock() sets
\* WRITER.
Owned(t) == IF goal'[t] = "X" THEN "x_request" ELSE goal'[t]

\* wr_lock_try(), when it succeeds
MutexTry(t, label) ==
    /\ lock = <<FALSE, 0>>
    /\ HOLDER' = TRUE
    /\ waiters' = 1
    /\ Goto(t, label)
    /\ UNCHANGED <<WRITER, count, wl, lk>>

\* u_lock(), u_lock_try() and wr_lock(), when the mutex is free
MutexLock(t, mode) ==
    /\ pc[t] = "none"
    /\ goal' = [goal EXCEPT ![t] = mode]
    /\ MutexTry(t, Owned(t))

MutexLockWait(t, mode) ==
    /\ pc[t] = "none"
    /\ lock # <<FALSE, 0>>
    /\ goal' = [goal EXCEPT ![t] = mode]
    /\ Goto(t, "mutex_wait")
    /\ UNCHANGED <<HOLDER, waiters, WRITER, count, wl, lk>>

\* wait_and_lock(): register as a waiter.
MutexRegister(t) ==
    /\ pc[t] = "mutex_wait"
    /\ waiters' = waiters + 1
    /\ wl' = [wl EXCEPT ![t] = <<HOLDER, waiters + 1>>]
    /\ Goto(t, "mutex_check")
    /\ UNCHANGED <<HOLDER, WRITER, count, goal, lk>>

\* wait(lk)
MutexCheck(t) ==
    /\ pc[t] = "mutex_check"
    /\ wl[t][1]
    /\ Goto(t, IF wl[t] = lock THEN "mutex_sleep" ELSE "mutex_reload")
    /\ wl' = [wl EXCEPT ![t] = NoWord]
    /\ UNCHANGED <<HOLDER, waiters, WRITER, count, goal, lk>>

MutexReload(t) ==
    /\ pc[t] = "mutex_reload"
    /\ wl' = [wl EXCEPT ![t] = lock]
    /\ Goto(t, "mutex_check")
    /\ UNCHANGED <<HOLDER, waiters, WRITER, count, goal, lk>>

\* Mutant: the flag is stored without looking at its previous value.
MutexTakeUnchecked(t) ==
    /\ pc[t] = "mutex_check"
    /\ ~wl[t][1]
    /\ HOLDER' = TRUE
    /\ wl' = [wl EXCEPT ![t] = NoWord]
    /\ UNCHANGED <<waiters, WRITER, count, goal, lk>>
    /\ Goto(t, Owned(t))

\* lock.fetch_or(HOLDER): whoever finds the flag clear owns the mutex.
MutexTake(t) ==
    /\ pc[t] = "mutex_check"
    /\ ~wl[t][1]
    /\ HOLDER' = TRUE
    /\ wl' = [wl EXCEPT ![t] = NoWord]
    /\ UNCHANGED <<waiters, WRITER, count, goal, lk>>
    /\ Goto(t, IF HOLDER THEN "mutex_reload" ELSE Owned(t))

\* Mutant: nobody is woken.
MutexUnlockNoWake(t) ==
    /\ HOLDER' = FALSE
    /\ waiters' = waiters - 1
    /\ Goto(t, goal'[t])

\* wr_unlock(): drop HOLDER + WAITER; somebody else may have to be woken.
MutexUnlock(t) ==
    /\ HOLDER' = FALSE
    /\ waiters' = waiters - 1
    /\ Goto(t, IF waiters > 1 THEN "wake" ELSE goal'[t])

MutexWake(t) ==
    /\ pc[t] = "wake"
    /\ WakeOne(t, OnLock, goal[t])
    /\ UNCHANGED <<HOLDER, waiters, WRITER, count, goal, wl, lk>>

-----------------------------------------------------------------------------
(* Update and exclusive latch *)

UUnlock(t) ==
    /\ pc[t] = "U"
    /\ goal' = [goal EXCEPT ![t] = "none"]
    /\ MutexUnlock(t)
    /\ UNCHANGED <<WRITER, count, wl, lk>>

\* wr_lock(), once the mutex is owned, or u_wr_upgrade(): add WRITER to the
\* word, which toggles the flag.
Request(t) ==
    /\ pc[t] = "x_request" \/ pc[t] = "U"
    /\ WRITER' = ~WRITER
    /\ goal' = [goal EXCEPT ![t] = "X"]
    /\ Goto(t, IF ~WRITER /\ count = 0 THEN "X" ELSE "x_check")
    /\ lk' = [lk EXCEPT ![t] = count]
    /\ UNCHANGED <<HOLDER, waiters, count, wl>>

\* wr_wait(): wait(lk)
WriteCheck(t) ==
    /\ pc[t] = "x_check"
    /\ Goto(t, IF WRITER /\ count = lk[t] THEN "x_sleep" ELSE "x_reload")
    /\ lk' = [lk EXCEPT ![t] = 0]
    /\ UNCHANGED <<HOLDER, waiters, WRITER, count, goal, wl>>

WriteReload(t) ==
    /\ pc[t] = "x_reload"
    /\ Goto(t, IF WRITER /\ count = 0 THEN "X" ELSE "x_check")
    /\ lk' = [lk EXCEPT ![t] = count]
    /\ UNCHANGED <<HOLDER, waiters, WRITER, count, goal, wl>>

\* wr_lock_try(): the mutex first, then readers; back out if there are any.
WrLockTry(t) ==
    /\ pc[t] = "none"
    /\ MutexTry(t, "x_try")
    /\ goal' = [goal EXCEPT ![t] = "X"]

WrLockTryReaders(t) ==
    /\ pc[t] = "x_try"
    /\ WRITER' = (WRITER \/ count = 0)
    /\ IF ~WRITER /\ count = 0
       THEN Goto(t, "X") /\ UNCHANGED goal
       ELSE Goto(t, "unlock") /\ goal' = [goal EXCEPT ![t] = "none"]
    /\ UNCHANGED <<HOLDER, waiters, count, wl, lk>>

\* wr_unlock(): readers = 0; the mutex follows.
WrUnlock(t) ==
    /\ pc[t] = "X"
    /\ WRITER' = FALSE
    /\ count' = 0
    /\ Goto(t, "unlock")
    /\ goal' = [goal EXCEPT ![t] = "none"]
    /\ UNCHANGED <<HOLDER, waiters, wl, lk>>

\* The writer.wr_unlock() at the end of a call
Unlock(t) ==
    /\ pc[t] = "unlock"
    /\ UNCHANGED goal
    /\ MutexUnlock(t)
    /\ UNCHANGED <<WRITER, count, wl, lk>>

\* rd_u_upgrade_try(): take the mutex and keep the S latch.
RdUUpgradeTry(t) ==
    /\ pc[t] = "S"
    /\ MutexTry(t, "SU")
    /\ goal' = [goal EXCEPT ![t] = "SU"]

\* Mutant: the mutex is released before the thread counts as a reader.
URdDowngradeLate(t) ==
    /\ pc[t] = "U"
    /\ Goto(t, "unlock")
    /\ goal' = [goal EXCEPT ![t] = "S"]
    /\ UNCHANGED <<HOLDER, waiters, WRITER, count, wl, lk>>

\* u_rd_downgrade(): become a reader, then release the mutex.
URdDowngrade(t) ==
    /\ pc[t] = "U"
    /\ count' = count + 1
    /\ Goto(t, "unlock")
    /\ goal' = [goal EXCEPT ![t] = "S"]
    /\ UNCHANGED <<HOLDER, waiters, WRITER, wl, lk>>

\* wr_u_downgrade(): readers = 0; pending rd_lock() calls are not woken.
WrUDowngrade(t) ==
    /\ pc[t] = "X"
    /\ WRITER' = FALSE
    /\ count' = 0
    /\ Goto(t, "U")
    /\ goal' = [goal EXCEPT ![t] = "U"]
    /\ UNCHANGED <<HOLDER, waiters, wl, lk>>

-----------------------------------------------------------------------------
\* A new call that acquires, upgrades or downgrades.
Call(t) ==
    \/ RdLock(t)
    \/ RdLockWait(t)
    \/ \E mode \in {"U", "X"} : MutexLock(t, mode) \/ MutexLockWait(t, mode)
    \/ WrLockTry(t)
    \/ RdUUpgradeTry(t)
    \/ URdDowngrade(t)
    \/ WrUDowngrade(t)
    \/ pc[t] = "U" /\ Request(t)

\* A call that gives up a latch.
Leave(t) == RdUnlock(t) \/ UUnlock(t) \/ WrUnlock(t)

\* The next step of a call in progress.
Continue(t) ==
    \/ Subscribe(t)
    \/ ReadCheck(t)
    \/ ReadRetry(t)
    \/ ReadRetryFails(t)
    \/ ReadWakeAll(t)
    \/ ReadReload(t)
    \/ Unsubscribe(t)
    \/ ReadWakeOthers(t)
    \/ ReadWake(t)
    \/ MutexRegister(t)
    \/ MutexCheck(t)
    \/ MutexReload(t)
    \/ MutexTake(t)
    \/ MutexWake(t)
    \/ pc[t] = "x_request" /\ Request(t)
    \/ WriteCheck(t)
    \/ WriteReload(t)
    \/ WrLockTryReaders(t)
    \/ Unlock(t)

Next == \E t \in Thread : Call(t) \/ Leave(t) \/ Continue(t) \/ Spurious(t)

Spec == Init /\ [][Next]_vars

\* A thread that runs goes on with its call, and a latch is held for a
\* limited time.
Fairness == \A t \in Thread : WF_vars(Continue(t)) /\ WF_vars(Leave(t))

FairSpec == Spec /\ Fairness

-----------------------------------------------------------------------------
(* Properties *)

\* X excludes every other latch, and there is one U or X latch at a time.
\* The unit test asserts the first half with its flag `critical`.
Exclusion ==
    \A t, u \in Thread : t # u =>
        /\ pc[t] = "X" => pc[u] \notin {"S", "SU", "U", "X"}
        /\ pc[t] \in {"SU", "U"} => pc[u] \notin {"SU", "U", "X"}

\* Threads that own the mutex, that writer.lock counts, that readers counts.
Owner == {t \in Thread :
             pc[t] \in {"SU", "U", "X", "x_request", "x_try", "x_check",
                       "x_sleep", "x_reload", "unlock"}}
Subscriber == Owner \cup
              {t \in Thread : pc[t] \in MutexWait \cup ReadWait \cup
                                       {"rd_unsubscribe"}}
Reader == {t \in Thread :
              \/ pc[t] \in {"S", "SU", "rd_unsubscribe", "rd_wake_others"}
              \/ pc[t] \in {"unlock", "wake"} /\ goal[t] = "S"}

\* The two words account for every thread, although they are changed one at
\* a time: HOLDER says whether the mutex has its one owner, the counts are
\* exact, WRITER is set while the owner has or waits for X ("we know that the
\* bit was previously clear"), and no reader is left when X is granted, so
\* that readers = 0 in wr_unlock() and wr_u_downgrade() forgets nobody.
WordsExact ==
    /\ HOLDER <=> Owner # {}
    /\ \A t, u \in Owner : t = u
    /\ waiters = Cardinality(Subscriber)
    /\ count = Cardinality(Reader)
    /\ WRITER <=> \E t \in Owner :
                     pc[t] \in {"X", "x_check", "x_sleep", "x_reload"}
    /\ (\E t \in Thread : pc[t] = "X") => Reader = {}

\* A thread that is awake and will look at the lock word again, or is about
\* to wake others that will.
Rouser(t) ==
    pc[t] \in {"mutex_check", "mutex_reload", "rd_check", "rd_try",
              "rd_wake_all", "rd_reload", "rd_unsubscribe", "rd_wake_others",
              "wake"}

\* No futex wakeup is lost.  While a thread sleeps on writer.lock, the mutex
\* has an owner, who will find the count above 1 in wr_unlock(), or some
\* thread is a rouser; while a thread sleeps on readers, a reader is left
\* or the last one is about to call wake().
NoLostWakeup ==
    /\ OnLock # {} => HOLDER \/ \E t \in Thread : Rouser(t)
    /\ OnReaders # {} => count > 0 \/ \E t \in Thread : pc[t] = "rd_wake"

\* From some time on, no thread calls for more than it has.  (The mutex is
\* not fair: new calls can overtake a waiting one for ever.)
CallsStop == <>[][\A t \in Thread : ~Call(t)]_vars

\* Every call returns: no waiting thread is forgotten, whatever the order in
\* which latches are released, wakeups delivered and words read again.
CallsReturn ==
    CallsStop => \A t \in Thread : pc[t] \notin Mode ~> pc[t] \in Mode
=============================================================================
