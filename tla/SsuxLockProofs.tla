---------------------------- MODULE SsuxLockProofs ----------------------------
(***************************************************************************)
(* The safety properties of SsuxLock, for every finite set of threads.     *)
(*                                                                         *)
(* Exclusion is not inductive: that X is granted when readers = WRITER     *)
(* excludes S holders only because the count in `readers` is the number of *)
(* S holders, and the flags tell who is on the way to which latch.  The    *)
(* inductive invariant is WordsExact with the types and Goals.             *)
(*                                                                         *)
(* Every step is the step of one thread t; other threads at most wake up.  *)
(* So a step is summarised by Local(t), what it does to the words and to   *)
(* the place of t, and WordsExact' follows from the summary alone.         *)
(***************************************************************************)
EXTENDS SsuxLock, FiniteSetTheorems, TLAPS

\* Where a call may lead from the labels at which its end is still to come.
Goals ==
    \A t \in Thread :
        /\ pc[t] \in MutexWait \cup {"mutex_wait"} => goal[t] \in {"U", "X"}
        /\ pc[t] \in {"unlock", "wake"} => goal[t] \in {"none", "S"}
        /\ pc[t] = "rd_wake" => goal[t] = "none"

IInv == TypeOK /\ Goals /\ WordsExact

\* Threads that account for the WRITER flag.
Writing == {t \in Thread : pc[t] \in {"X", "x_check", "x_sleep", "x_reload"}}

\* Only t moves; others may be woken.
OnlyMoves(t) ==
    \A u \in Thread \ {t} :
        /\ goal'[u] = goal[u]
        /\ \/ pc'[u] = pc[u]
           \/ pc[u] = "mutex_sleep" /\ pc'[u] = "mutex_reload"
           \/ pc[u] = "rd_sleep" /\ pc'[u] = "rd_try"
           \/ pc[u] = "x_sleep" /\ pc'[u] = "x_reload"

\* A word's count changes as the set that it counts.
Counts(n, m, before, after) ==
    \/ (before <=> after) /\ m = n
    \/ ~before /\ after /\ m = n + 1
    \/ before /\ ~after /\ m = n - 1

\* A flag changes as the membership of t.
Flags(f, g, before, after) ==
    \/ (before <=> after) /\ g = f
    \/ ~f /\ g /\ ~before /\ after
    \/ ~g /\ before /\ ~after

Local(t) ==
    /\ OnlyMoves(t)
    /\ TypeOK'
    /\ Goals'
    /\ Counts(waiters, waiters', t \in Subscriber, t \in Subscriber')
    /\ Counts(count, count', t \in Reader, t \in Reader')
    /\ Flags(HOLDER, HOLDER', t \in Owner, t \in Owner')
    /\ Flags(WRITER, WRITER', t \in Writing, t \in Writing')
    /\ t \notin Reader /\ t \in Reader' => ~WRITER /\ t \notin Writing'
    /\ pc'[t] = "X" /\ pc[t] # "X" => count = 0 /\ t \notin Reader'

-----------------------------------------------------------------------------
(* Finite sets *)

\* The cardinality of a set without one of its elements.
LEMMA CardWithout ==
    ASSUME NEW S, IsFiniteSet(S), NEW x \in S
    PROVE  Cardinality(S) \in Nat \ {0} /\ Cardinality(S \ {x}) = Cardinality(S) - 1
  <1>1. Cardinality(S) \in Nat /\ Cardinality(S \ {x}) \in Nat
    BY FS_CardinalityType, FS_RemoveElement
  <1>2. Cardinality(S \ {x}) = Cardinality(S) - 1
    BY FS_RemoveElement
  <1>3. QED
    BY <1>1, <1>2, FS_EmptySet

\* A set with two elements has a cardinality above 1.
LEMMA CardTwo ==
    ASSUME NEW S, IsFiniteSet(S), NEW x \in S, NEW y \in S, x # y
    PROVE  Cardinality(S) > 1
  <1>1. IsFiniteSet(S \ {x}) /\ y \in S \ {x}
    BY FS_RemoveElement
  <1>2. Cardinality(S \ {x}) \in Nat \ {0}
    BY <1>1, CardWithout
  <1>3. Cardinality(S) \in Nat /\ Cardinality(S \ {x}) = Cardinality(S) - 1
    BY CardWithout
  <1>4. QED
    BY <1>2, <1>3

\* If two sets agree but for t, Counts relates their cardinalities.
LEMMA CountsExact ==
    ASSUME NEW S, IsFiniteSet(S), NEW T, NEW t,
           \A u : u # t => (u \in S <=> u \in T),
           NEW m,
           Counts(Cardinality(S), m, t \in S, t \in T)
    PROVE  m = Cardinality(T)
  <1>1. CASE (t \in S <=> t \in T) /\ m = Cardinality(S)
    <2>1. S = T
      BY <1>1
    <2>2. QED
      BY <1>1, <2>1
  <1>2. CASE t \notin S /\ t \in T /\ m = Cardinality(S) + 1
    <2>1. T = S \cup {t}
      BY <1>2
    <2>2. QED
      BY <1>2, <2>1, FS_AddElement
  <1>3. CASE t \in S /\ t \notin T /\ m = Cardinality(S) - 1
    <2>1. T = S \ {t}
      BY <1>3
    <2>2. QED
      BY <1>3, <2>1, FS_RemoveElement
  <1>4. QED
    BY <1>1, <1>2, <1>3 DEF Counts

\* The sets that the words count are finite.
LEMMA SetsFinite == IsFiniteSet(Subscriber) /\ IsFiniteSet(Reader)
  <1>1. Subscriber \in SUBSET Thread /\ Reader \in SUBSET Thread
    BY DEF Subscriber, Owner, Reader
  <1>2. QED
    BY <1>1, ThreadAssumption, FS_Subset

\* A counted thread keeps the count from being zero.
LEMMA CountsPositive ==
    ASSUME IInv
    PROVE  /\ \A t \in Subscriber : waiters # 0
           /\ \A t \in Reader : count # 0
           /\ count = 0 => Reader = {}
  <1>1. \A t \in Subscriber : waiters # 0
    BY SetsFinite, CardWithout DEF IInv, WordsExact
  <1>2. \A t \in Reader : count # 0
    BY SetsFinite, CardWithout DEF IInv, WordsExact
  <1>3. count = 0 => Reader = {}
    BY <1>2
  <1>4. QED
    BY <1>1, <1>2, <1>3

-----------------------------------------------------------------------------
(* A step with summary Local(t) preserves WordsExact *)

\* The other threads stay in or out of the sets.
LEMMA OthersStay ==
    ASSUME NEW t \in Thread, OnlyMoves(t), NEW u \in Thread \ {t}
    PROVE  /\ u \in Owner <=> u \in Owner'
           /\ u \in Subscriber <=> u \in Subscriber'
           /\ u \in Reader <=> u \in Reader'
           /\ u \in Writing <=> u \in Writing'
           /\ pc[u] = "X" <=> pc'[u] = "X"
  BY DEF OnlyMoves, Owner, Subscriber, Reader, Writing, MutexWait, ReadWait

\* WordsExact follows from the summary of the step.
LEMMA LocalPreserves ==
    ASSUME IInv, NEW t \in Thread, Local(t)
    PROVE  IInv'
  <1>0. /\ Owner \subseteq Thread /\ Owner' \subseteq Thread
        /\ Subscriber \subseteq Thread /\ Subscriber' \subseteq Thread
        /\ Reader \subseteq Thread /\ Reader' \subseteq Thread
        /\ Writing \subseteq Owner /\ Writing' \subseteq Owner'
    BY DEF Owner, Subscriber, Reader, Writing
  <1>1. \A u \in Thread \ {t} :
           /\ u \in Owner <=> u \in Owner'
           /\ u \in Subscriber <=> u \in Subscriber'
           /\ u \in Reader <=> u \in Reader'
           /\ u \in Writing <=> u \in Writing'
           /\ pc[u] = "X" <=> pc'[u] = "X"
    BY OthersStay DEF Local
  <1>2. (HOLDER <=> Owner # {})' /\ (\A u, v \in Owner : u = v)'
    BY <1>0, <1>1 DEF Local, Flags, IInv, TypeOK, WordsExact
  <1>3. waiters' = Cardinality(Subscriber')
    <2>1. Counts(Cardinality(Subscriber), waiters', t \in Subscriber, t \in Subscriber')
      BY DEF Local, IInv, WordsExact
    <2>2. \A u : u # t => (u \in Subscriber <=> u \in Subscriber')
      BY <1>0, <1>1
    <2>3. QED
      BY <2>1, <2>2, SetsFinite, CountsExact
  <1>4. count' = Cardinality(Reader')
    <2>1. Counts(Cardinality(Reader), count', t \in Reader, t \in Reader')
      BY DEF Local, IInv, WordsExact
    <2>2. \A u : u # t => (u \in Reader <=> u \in Reader')
      BY <1>0, <1>1
    <2>3. QED
      BY <2>1, <2>2, SetsFinite, CountsExact
  <1>5. WRITER <=> Writing # {}
    BY DEF IInv, WordsExact, Writing, Owner
  <1>6. WRITER' <=> Writing' # {}
    BY <1>0, <1>1, <1>2, <1>5 DEF Local, Flags, IInv, TypeOK, WordsExact
  <1>7. (WRITER <=> \E u \in Owner :
                       pc[u] \in {"X", "x_check", "x_sleep", "x_reload"})'
    BY <1>0, <1>6 DEF Writing
  <1>8. ASSUME NEW u \in Thread, pc'[u] = "X" PROVE Reader' = {}
    <2>1. CASE u = t /\ pc[t] # "X"
      BY <2>1, <1>0, <1>1, <1>8, CountsPositive DEF Local
    <2>2. CASE u # t \/ pc[t] = "X"
      <3>1. pc[u] = "X" /\ u \in Writing /\ Reader = {} /\ WRITER
        BY <2>2, <1>1, <1>5, <1>8 DEF IInv, WordsExact, Writing
      <3>2. t \notin Reader'
        BY <3>1 DEF Local
      <3>3. QED
        BY <3>1, <3>2, <1>0, <1>1
    <2>3. QED
      BY <2>1, <2>2
  <1>9. QED
    BY <1>2, <1>3, <1>4, <1>7, <1>8 DEF Local, IInv, WordsExact

-----------------------------------------------------------------------------
(* The summary of every action *)

\* What the invariant says about a thread from where it is.
LEMMA PlaceFacts ==
    ASSUME IInv, NEW t \in Thread
    PROVE  /\ t \in Owner => HOLDER /\ (WRITER <=> t \in Writing)
           /\ t \in Subscriber => waiters # 0
           /\ t \in Reader => count # 0
           /\ pc[t] = "X" => count = 0
  <1>1. t \in Owner => HOLDER /\ (WRITER <=> t \in Writing)
    BY DEF IInv, WordsExact, Writing
  <1>2. pc[t] = "X" => count = 0
    BY FS_EmptySet DEF IInv, WordsExact
  <1>3. QED
    BY <1>1, <1>2, CountsPositive

\* Steps that change no word, but may wake other threads.
LEMMA QuietLocal ==
    ASSUME IInv, NEW t \in Thread,
           \/ RdLockWait(t) \/ ReadCheck(t) \/ ReadRetryFails(t)
           \/ ReadWakeAll(t) \/ ReadReload(t) \/ ReadWakeOthers(t)
           \/ ReadWake(t) \/ MutexCheck(t) \/ MutexReload(t) \/ MutexWake(t)
           \/ \E mode \in {"U", "X"} : MutexLockWait(t, mode)
           \/ WriteCheck(t) \/ WriteReload(t) \/ Spurious(t)
    PROVE  Local(t)
  <1> USE DEF Local, OnlyMoves, TypeOK, Goals, Counts, Flags, Owner,
              Subscriber, Reader, Writing, MutexWait, ReadWait, Label, Mode,
              IInv, Goto, NoWord, lock, Woken, OnLock
  <1>1. CASE RdLockWait(t)
    BY <1>1 DEF RdLockWait
  <1>2. CASE ReadCheck(t)
    BY <1>2 DEF ReadCheck
  <1>3. CASE ReadRetryFails(t)
    BY <1>3 DEF ReadRetryFails
  <1>4. CASE ReadWakeAll(t)
    BY <1>4 DEF ReadWakeAll, WakeAll
  <1>5. CASE ReadReload(t)
    BY <1>5 DEF ReadReload
  <1>6. CASE ReadWakeOthers(t)
    BY <1>6 DEF ReadWakeOthers, WakeAll
  <1>7. CASE ReadWake(t)
    BY <1>7 DEF ReadWake, WakeOne, OnReaders
  <1>8. CASE MutexCheck(t)
    BY <1>8 DEF MutexCheck
  <1>9. CASE MutexReload(t)
    BY <1>9 DEF MutexReload
  <1>10. CASE MutexWake(t)
    BY <1>10 DEF MutexWake, WakeOne
  <1>11. CASE \E mode \in {"U", "X"} : MutexLockWait(t, mode)
    BY <1>11 DEF MutexLockWait
  <1>12. CASE WriteCheck(t)
    BY <1>12 DEF WriteCheck
  <1>13. CASE WriteReload(t)
    BY <1>13, PlaceFacts DEF WriteReload
  <1>14. CASE Spurious(t)
    BY <1>14 DEF Spurious, Asleep
  <1>15. QED
    BY <1>1, <1>2, <1>3, <1>4, <1>5, <1>6, <1>7, <1>8, <1>9, <1>10, <1>11,
       <1>12, <1>13, <1>14

\* Dropping one subscription leaves a count.
LEMMA DropWaiter ==
    ASSUME IInv, waiters # 0, waiters' = waiters - 1
    PROVE  waiters' \in Nat
  BY DEF IInv, TypeOK

\* Steps that change the words.
LEMMA WordLocal ==
    ASSUME IInv, NEW t \in Thread,
           \/ RdLock(t) \/ Subscribe(t) \/ ReadRetry(t) \/ Unsubscribe(t)
           \/ RdUnlock(t)
           \/ \E mode \in {"U", "X"} : MutexLock(t, mode)
           \/ MutexRegister(t) \/ MutexTake(t) \/ UUnlock(t) \/ Request(t)
           \/ WrLockTry(t) \/ WrLockTryReaders(t) \/ WrUnlock(t)
           \/ Unlock(t) \/ RdUUpgradeTry(t) \/ URdDowngrade(t)
           \/ WrUDowngrade(t)
    PROVE  Local(t)
  <1>0. /\ TypeOK
        /\ Goals
        /\ t \in Owner => HOLDER /\ (WRITER <=> t \in Writing)
        /\ t \in Subscriber => waiters # 0
        /\ t \in Reader => count # 0
        /\ pc[t] = "X" => count = 0
    BY PlaceFacts DEF IInv
  <1> USE <1>0
      DEF Local, OnlyMoves, TypeOK, Goals, Counts, Flags, Owner,
          Subscriber, Reader, Writing, MutexWait, ReadWait, Label, Mode,
          Goto, NoWord, lock
  <1>1. CASE RdLock(t)
    BY <1>1 DEF RdLock, ReadTry
  <1>2. CASE Subscribe(t)
    BY <1>2 DEF Subscribe
  <1>3. CASE ReadRetry(t)
    BY <1>3 DEF ReadRetry, ReadTry
  <1>4. CASE Unsubscribe(t)
    BY <1>4 DEF Unsubscribe
  <1>5. CASE RdUnlock(t)
    BY <1>5 DEF RdUnlock
  <1>6. CASE \E mode \in {"U", "X"} : MutexLock(t, mode)
    BY <1>6 DEF MutexLock, MutexTry, Owned
  <1>7. CASE MutexRegister(t)
    BY <1>7 DEF MutexRegister
  <1>8. CASE MutexTake(t)
    BY <1>8 DEF MutexTake, Owned
  <1>9. CASE UUnlock(t)
    <2>1. /\ HOLDER' = FALSE /\ waiters' = waiters - 1
          /\ goal' = [goal EXCEPT ![t] = "none"]
          /\ pc[t] = "U" /\ UNCHANGED <<WRITER, count, wl, lk>>
      BY <1>9 DEF UUnlock, MutexUnlock
    <2>2. \/ pc' = [pc EXCEPT ![t] = "wake"]
          \/ pc' = [pc EXCEPT ![t] = "none"]
      BY <1>9, <2>1 DEF UUnlock, MutexUnlock
    <2>3. waiters # 0 /\ t \notin Reader
      BY <2>1
    <2>4. TypeOK' /\ Goals'
      <3>1. HOLDER' \in BOOLEAN
        BY <2>1, Zenon
      <3>2. waiters' \in Nat
        BY <2>1, <2>3, DropWaiter
      <3>3. /\ pc' \in [Thread -> Label] /\ goal' \in [Thread -> Mode]
            /\ Goals'
        BY <2>1, <2>2, <2>3
      <3>4. QED
        BY <2>1, <3>1, <3>2, <3>3
    <2>5. OnlyMoves(t)
      BY <2>1, <2>2
    <2>6. /\ Counts(waiters, waiters', t \in Subscriber, t \in Subscriber')
          /\ Counts(count, count', t \in Reader, t \in Reader')
      BY <2>1, <2>2, <2>3
    <2>7. /\ Flags(HOLDER, HOLDER', t \in Owner, t \in Owner')
          /\ Flags(WRITER, WRITER', t \in Writing, t \in Writing')
      BY <2>1, <2>2, <2>3
    <2>8. pc'[t] # "X" /\ ~(t \notin Reader /\ t \in Reader')
      BY <2>1, <2>2, <2>3
    <2> HIDE DEF OnlyMoves, TypeOK, Goals, Counts, Flags, Owner, Subscriber,
                 Reader, Writing
    <2>9. QED
      BY <2>4, <2>5, <2>6, <2>7, <2>8
  <1>10. CASE Request(t)
    BY <1>10 DEF Request
  <1>11. CASE WrLockTry(t)
    BY <1>11 DEF WrLockTry, MutexTry
  <1>12. CASE WrLockTryReaders(t)
    <2>1. CASE ~WRITER /\ count = 0
      <3>1. /\ pc[t] = "x_try" /\ WRITER' = TRUE
            /\ pc' = [pc EXCEPT ![t] = "X"]
            /\ UNCHANGED <<HOLDER, waiters, count, goal, wl, lk>>
        BY <1>12, <2>1 DEF WrLockTryReaders
      <3>2. QED
        BY <2>1, <3>1
    <2>2. CASE WRITER \/ count # 0
      <3>1. /\ pc[t] = "x_try" /\ UNCHANGED WRITER
            /\ pc' = [pc EXCEPT ![t] = "unlock"]
            /\ goal' = [goal EXCEPT ![t] = "none"]
            /\ UNCHANGED <<HOLDER, waiters, count, wl, lk>>
        BY <1>12, <2>2 DEF WrLockTryReaders
      <3>2. QED
        BY <3>1
    <2>3. QED
      BY <2>1, <2>2
  <1>13. CASE WrUnlock(t)
    BY <1>13 DEF WrUnlock
  <1>14. CASE Unlock(t)
    <2>1. /\ HOLDER' = FALSE /\ waiters' = waiters - 1
          /\ pc[t] = "unlock" /\ UNCHANGED <<WRITER, count, goal, wl, lk>>
      BY <1>14 DEF Unlock, MutexUnlock
    <2>2. \/ pc' = [pc EXCEPT ![t] = "wake"]
          \/ pc' = [pc EXCEPT ![t] = goal[t]]
      BY <1>14, <2>1 DEF Unlock, MutexUnlock
    <2>3. waiters # 0 /\ goal[t] \in {"none", "S"}
      BY <2>1
    <2>4. TypeOK' /\ Goals'
      <3>1. HOLDER' \in BOOLEAN
        BY <2>1, Zenon
      <3>2. waiters' \in Nat
        BY <2>1, <2>3, DropWaiter
      <3>3. /\ pc' \in [Thread -> Label] /\ goal' \in [Thread -> Mode]
            /\ Goals'
        BY <2>1, <2>2, <2>3
      <3>4. QED
        BY <2>1, <3>1, <3>2, <3>3
    <2>5. OnlyMoves(t)
      BY <2>1, <2>2
    <2>6. /\ Counts(waiters, waiters', t \in Subscriber, t \in Subscriber')
          /\ Counts(count, count', t \in Reader, t \in Reader')
      BY <2>1, <2>2, <2>3
    <2>7. /\ Flags(HOLDER, HOLDER', t \in Owner, t \in Owner')
          /\ Flags(WRITER, WRITER', t \in Writing, t \in Writing')
      BY <2>1, <2>2, <2>3
    <2>8. pc'[t] # "X" /\ ~(t \notin Reader /\ t \in Reader')
      BY <2>1, <2>2, <2>3
    <2> HIDE DEF OnlyMoves, TypeOK, Goals, Counts, Flags, Owner, Subscriber,
                 Reader, Writing
    <2>9. QED
      BY <2>4, <2>5, <2>6, <2>7, <2>8
  <1>15. CASE RdUUpgradeTry(t)
    BY <1>15 DEF RdUUpgradeTry, MutexTry
  <1>16. CASE URdDowngrade(t)
    BY <1>16 DEF URdDowngrade
  <1>17. CASE WrUDowngrade(t)
    BY <1>17 DEF WrUDowngrade
  <1>18. QED
    BY <1>1, <1>2, <1>3, <1>4, <1>5, <1>6, <1>7, <1>8, <1>9, <1>10, <1>11,
       <1>12, <1>13, <1>14, <1>15, <1>16, <1>17

-----------------------------------------------------------------------------
(* Theorems *)

\* The initial words are exact: nobody holds or waits for anything.
LEMMA InitInvariant == Init => IInv
  <1> SUFFICES ASSUME Init PROVE IInv
    OBVIOUS
  <1>1. TypeOK /\ Goals
    BY DEF Init, TypeOK, Goals, Label, Mode, MutexWait, NoWord
  <1>2. Owner = {} /\ Subscriber = {} /\ Reader = {}
    BY DEF Init, Owner, Subscriber, Reader, MutexWait, ReadWait
  <1>3. WordsExact
    BY <1>2, FS_EmptySet DEF Init, WordsExact
  <1>4. QED
    BY <1>1, <1>3 DEF IInv

\* Every step of the specification has the summary Local.
LEMMA NextLocal ==
    ASSUME IInv, NEW t \in Thread,
           Call(t) \/ Leave(t) \/ Continue(t) \/ Spurious(t)
    PROVE  Local(t)
  <1>1. CASE Call(t)
    BY <1>1, QuietLocal, WordLocal DEF Call
  <1>2. CASE Leave(t)
    BY <1>2, WordLocal DEF Leave
  <1>3. CASE Continue(t)
    BY <1>3, QuietLocal, WordLocal DEF Continue
  <1>4. CASE Spurious(t)
    BY <1>4, QuietLocal
  <1>5. QED
    BY <1>1, <1>2, <1>3, <1>4

\* A step that changes nothing preserves the invariant.
LEMMA StutterPreserves == IInv /\ UNCHANGED vars => IInv'
  BY DEF vars, IInv, TypeOK, Goals, WordsExact, Owner, Subscriber, Reader

\* The words of ssux_lock_impl account for every thread, in every reachable
\* state and for any number of threads (with the types, which they need).
THEOREM WordsAlwaysExact == Spec => [](TypeOK /\ WordsExact)
  <1>1. IInv /\ [Next]_vars => IInv'
    BY NextLocal, LocalPreserves, StutterPreserves DEF Next
  <1>2. IInv => TypeOK /\ WordsExact
    BY DEF IInv
  <1>3. QED
    BY InitInvariant, <1>1, <1>2, PTL DEF Spec

\* The counts of the two words never go below zero, and every thread is at a
\* label of some call: fetch_sub() is only executed by a thread that the word
\* counts.
THEOREM TypeCorrect == Spec => []TypeOK
  BY WordsAlwaysExact, PTL

\* An X latch excludes every other one and there is one U or X latch at a
\* time, for any number of threads.
THEOREM AlwaysExclusion == Spec => []Exclusion
  <1>1. TypeOK /\ WordsExact => Exclusion
    BY DEF WordsExact, Exclusion, Owner, Reader
  <1>2. QED
    BY WordsAlwaysExact, <1>1, PTL

-----------------------------------------------------------------------------
(* No futex wakeup is lost *)

\* wr_wait() waits with a copy of `readers` in which readers were counted.
WaitsForReaders == \A t \in Thread : pc[t] = "x_check" => lk[t] > 0

\* A thread other than a sleeper keeps the count of writer.lock above 1.
LEMMA SleeperCounted ==
    ASSUME IInv, NEW t \in Subscriber, waiters <= 1
    PROVE  \A s \in OnLock : s = t
  <1> SUFFICES ASSUME NEW s \in OnLock, s # t PROVE FALSE
    OBVIOUS
  <1>1. s \in Subscriber
    BY DEF OnLock, Subscriber, MutexWait, ReadWait
  <1>2. Cardinality(Subscriber) > 1 /\ Cardinality(Subscriber) \in Nat
    BY <1>1, SetsFinite, CardTwo, FS_CardinalityType
  <1>3. QED
    BY <1>2 DEF IInv, WordsExact

\* What a step of t does for the threads that sleep on writer.lock: if it
\* leaves the mutex without an owner, somebody is a rouser, or nobody sleeps,
\* or t had nothing to do with them.
Rouses(t) ==
    \/ HOLDER'
    \/ \E u \in Thread : Rouser(u)'
    \/ OnLock' = {}
    \/ ~HOLDER /\ ~Rouser(t) /\ t \notin OnLock'

\* Every step of a call in progress has that effect.
LEMMA ContinueRouses ==
    ASSUME IInv, NEW t \in Thread, Continue(t)
    PROVE  Rouses(t)
  <1> USE DEF Rouses, Rouser, OnLock, IInv, TypeOK, Goals, Goto, lock, Mode,
              MutexWait, ReadWait
  <1>1. CASE \/ Subscribe(t) \/ ReadRetry(t) \/ ReadRetryFails(t)
             \/ ReadWakeAll(t) \/ ReadReload(t) \/ MutexRegister(t)
             \/ MutexReload(t)
    BY <1>1 DEF Subscribe, ReadRetry, ReadTry, ReadRetryFails, ReadWakeAll,
                WakeAll, ReadReload, MutexRegister, MutexReload
  <1>2. CASE ReadCheck(t) \/ MutexCheck(t)
    <2>1. pc' = [pc EXCEPT ![t] = "rd_try"] \/ pc' = [pc EXCEPT ![t] = "mutex_reload"] \/ HOLDER'
      BY <1>2 DEF ReadCheck, MutexCheck
    <2>2. QED
      BY <2>1
  <1>3. CASE MutexTake(t)
    BY <1>3 DEF MutexTake
  <1>4. CASE ReadWakeOthers(t)
    BY <1>4 DEF ReadWakeOthers, WakeAll, Woken
  <1>5. CASE MutexWake(t)
    <2>1. CASE OnLock = {} /\ Goto(t, goal[t])
      BY <1>5, <2>1 DEF MutexWake
    <2>2. CASE \E s \in OnLock :
                   pc' = [pc EXCEPT ![s] = Woken(@), ![t] = goal[t]]
      <3>1. PICK s \in OnLock :
                pc' = [pc EXCEPT ![s] = Woken(@), ![t] = goal[t]]
        BY <2>2
      <3>2. s # t
        BY <1>5 DEF MutexWake
      <3>3. Rouser(s)'
        BY <3>1, <3>2 DEF Woken
      <3>4. QED
        BY <3>3
    <2>3. QED
      BY <1>5, <2>1, <2>2 DEF MutexWake, WakeOne
  <1>6. CASE Unsubscribe(t)
    <2>1. CASE HOLDER \/ waiters > 1
      BY <1>6, <2>1 DEF Unsubscribe
    <2>2. CASE ~HOLDER /\ waiters <= 1
      <3>1. t \in Subscriber
        BY <1>6 DEF Unsubscribe, Subscriber
      <3>2. \A s \in OnLock : s = t
        BY <2>2, <3>1, SleeperCounted
      <3>3. QED
        BY <1>6, <2>2, <3>2 DEF Unsubscribe
    <2>3. QED
      BY <2>1, <2>2
  <1>7. CASE Unlock(t)
    <2>1. t \in Subscriber
      BY <1>7 DEF Unlock, Subscriber, Owner
    <2>2. waiters <= 1 => \A s \in OnLock : s = t
      BY <2>1, SleeperCounted
    <2>3. \/ waiters > 1 /\ pc' = [pc EXCEPT ![t] = "wake"]
          \/ waiters <= 1 /\ pc' = [pc EXCEPT ![t] = goal[t]]
      <3>1. pc' = [pc EXCEPT ![t] = IF waiters > 1 THEN "wake" ELSE goal[t]]
        BY <1>7 DEF Unlock, MutexUnlock
      <3>2. waiters > 1 \/ waiters <= 1
        OBVIOUS
      <3>3. QED
        BY <3>1, <3>2
    <2>4. goal[t] \in {"none", "S"}
      BY <1>7 DEF Unlock
    <2>5. QED
      BY <2>2, <2>3, <2>4
  <1>8. CASE \/ ReadWake(t) \/ Request(t) \/ WriteCheck(t)
             \/ WriteReload(t) \/ WrLockTryReaders(t)
    <2>1. /\ UNCHANGED HOLDER
          /\ pc[t] \in {"rd_wake", "U", "x_request", "x_check", "x_reload",
                       "x_try"}
      BY <1>8 DEF ReadWake, Request, WriteCheck, WriteReload, WrLockTryReaders
    <2>2. t \notin OnLock'
      <3>1. CASE ReadWake(t)
        <4>1. pc[t] = "rd_wake" /\ goal[t] = "none" /\ t \notin OnReaders
          BY <3>1 DEF ReadWake, OnReaders
        <4>2. pc'[t] = "none"
          BY <3>1, <4>1 DEF ReadWake, WakeOne, OnReaders
        <4>3. QED
          BY <4>2
      <3>2. CASE ~ReadWake(t)
        BY <1>8, <3>2 DEF Request, WriteCheck, WriteReload, WrLockTryReaders
      <3>3. QED
        BY <3>1, <3>2
    <2>3. QED
      BY <2>1, <2>2
  <1> HIDE DEF Rouses, IInv
  <1>9. QED
    BY <1>1, <1>2, <1>3, <1>4, <1>5, <1>6, <1>7, <1>8 DEF Continue

\* Calls that acquire or give up latches do not harm sleepers either.
LEMMA CallRouses ==
    ASSUME IInv, NEW t \in Thread, Call(t) \/ Leave(t) \/ Spurious(t)
    PROVE  Rouses(t)
  <1> USE DEF Rouses, Rouser, OnLock, IInv, TypeOK, Goals, Goto, Mode
  <1>1. CASE Spurious(t)
    BY <1>1 DEF Spurious, Asleep, Woken
  <1>2. CASE UUnlock(t)
    <2>1. t \in Subscriber
      BY <1>2 DEF UUnlock, Subscriber, Owner
    <2>2. waiters <= 1 => \A s \in OnLock : s = t
      BY <2>1, SleeperCounted
    <2>3. goal'[t] = "none"
      BY <1>2 DEF UUnlock
    <2>4. pc' = [pc EXCEPT ![t] = IF waiters > 1 THEN "wake" ELSE goal'[t]]
      BY <1>2 DEF UUnlock, MutexUnlock
    <2>5. waiters > 1 \/ waiters <= 1
      OBVIOUS
    <2>6. QED
      BY <2>2, <2>3, <2>4, <2>5
  <1>3. CASE RdUnlock(t) \/ WrUnlock(t)
    BY <1>3 DEF RdUnlock, WrUnlock
  <1>4. CASE RdLock(t) \/ RdLockWait(t)
    BY <1>4 DEF RdLock, ReadTry, RdLockWait
  <1>5. CASE \E mode \in {"U", "X"} :
                 MutexLock(t, mode) \/ MutexLockWait(t, mode)
    BY <1>5 DEF MutexLock, MutexTry, MutexLockWait
  <1>6. CASE WrLockTry(t) \/ RdUUpgradeTry(t)
    BY <1>6 DEF WrLockTry, RdUUpgradeTry, MutexTry
  <1>7. CASE \/ URdDowngrade(t) \/ WrUDowngrade(t)
             \/ pc[t] = "U" /\ Request(t)
    BY <1>7 DEF URdDowngrade, WrUDowngrade, Request
  <1> HIDE DEF Rouses, IInv
  <1>8. QED
    BY <1>1, <1>2, <1>3, <1>4, <1>5, <1>6, <1>7, Zenon DEF Call, Leave

\* At most one thread sleeps on `readers`, and only while WRITER is set.
LEMMA OneWaitsForReaders ==
    ASSUME IInv
    PROVE  /\ OnReaders # {} => WRITER
           /\ \A s \in OnReaders : s \in Owner
           /\ \A s \in OnReaders, t \in Owner : s = t
  BY DEF IInv, WordsExact, OnReaders, Owner

\* What a step of t does for a thread that sleeps on `readers`.
TellsWriter(t) ==
    \/ count' > 0
    \/ \E u \in Thread : pc'[u] = "rd_wake"
    \/ OnReaders' = {}
    \/ count' = count /\ pc[t] # "rd_wake" /\ t \notin OnReaders'

\* A step of t that removes the last reader tells the thread that waits for
\* readers, and nobody falls asleep on `readers` without a reader.
LEMMA StepTellsWriter ==
    ASSUME IInv, WaitsForReaders, NEW t \in Thread,
           Call(t) \/ Leave(t) \/ Continue(t) \/ Spurious(t)
    PROVE  TellsWriter(t)
  <1> USE DEF TellsWriter, IInv, TypeOK, Goto
  <1>1. CASE RdUnlock(t)
    <2>1. count # 0
      BY <1>1, PlaceFacts DEF RdUnlock, Reader
    <2>2. CASE count = 1 /\ WRITER
      BY <1>1, <2>2 DEF RdUnlock
    <2>3. CASE count = 1 /\ ~WRITER
      BY <1>1, <2>3, OneWaitsForReaders DEF RdUnlock, OnReaders
    <2>4. CASE count > 1
      BY <1>1, <2>4 DEF RdUnlock
    <2>5. count \in Nat
      OBVIOUS
    <2>6. count = 1 \/ count > 1
      <3> HIDE DEF TellsWriter, IInv, TypeOK, Goto
      <3> QED BY <2>1, <2>5
    <2> HIDE DEF TellsWriter, IInv, TypeOK, Goto
    <2> QED BY <2>2, <2>3, <2>4, <2>6
  <1>2. CASE WrUnlock(t) \/ WrUDowngrade(t)
    <2>1. t \in Owner /\ t \notin OnReaders
      BY <1>2 DEF WrUnlock, WrUDowngrade, Owner, OnReaders
    <2>2. OnReaders = {}
      BY <2>1, OneWaitsForReaders
    <2>3. QED
      BY <1>2, <2>2 DEF WrUnlock, WrUDowngrade, OnReaders
  <1>3. CASE ReadWake(t)
    <2>1. pc[t] = "rd_wake" /\ goal[t] = "none"
      BY <1>3 DEF ReadWake, Goals
    <2>2. CASE OnReaders = {} /\ Goto(t, goal[t])
      BY <2>1, <2>2 DEF OnReaders
    <2>3. CASE \E s \in OnReaders :
                   pc' = [pc EXCEPT ![s] = Woken(@), ![t] = goal[t]]
      <3>1. PICK s \in OnReaders :
                   pc' = [pc EXCEPT ![s] = Woken(@), ![t] = goal[t]]
        BY <2>3
      <3>2. \A u \in OnReaders : u = s
        BY OneWaitsForReaders
      <3>3. OnReaders' = {}
        BY <2>1, <3>1, <3>2 DEF OnReaders, Woken
      <3>4. QED
        BY <3>3
    <2>4. QED
      BY <1>3, <2>2, <2>3 DEF ReadWake, WakeOne
  <1>4. CASE WriteCheck(t)
    <2>1. CASE WRITER /\ count = lk[t]
      BY <1>4, <2>1 DEF WriteCheck, WaitsForReaders
    <2>2. CASE ~(WRITER /\ count = lk[t])
      BY <1>4, <2>2 DEF WriteCheck, OnReaders
    <2>3. QED
      BY <2>1, <2>2
  <1>5. CASE RdLock(t) \/ ReadRetry(t) \/ URdDowngrade(t)
    BY <1>5 DEF RdLock, ReadRetry, ReadTry, URdDowngrade
  <1>6. CASE \/ RdLockWait(t) \/ Subscribe(t) \/ ReadCheck(t)
             \/ ReadRetryFails(t) \/ ReadReload(t) \/ Unsubscribe(t)
             \/ MutexRegister(t) \/ MutexCheck(t) \/ MutexReload(t)
    BY <1>6 DEF RdLockWait, Subscribe, ReadCheck, ReadRetryFails, ReadReload,
                Unsubscribe, MutexRegister, MutexCheck, MutexReload,
                OnReaders
  <1>7. CASE ReadWakeAll(t) \/ ReadWakeOthers(t)
    BY <1>7 DEF ReadWakeAll, ReadWakeOthers, WakeAll, OnReaders
  <1>8. CASE \E mode \in {"U", "X"} :
                 MutexLock(t, mode) \/ MutexLockWait(t, mode)
    BY <1>8 DEF MutexLock, MutexTry, MutexLockWait, OnReaders, Owned
  <1>9. CASE MutexTake(t)
    BY <1>9 DEF MutexTake, Owned, Mode, OnReaders
  <1>10. CASE UUnlock(t) \/ Unlock(t)
    BY <1>10 DEF UUnlock, Unlock, MutexUnlock, Mode, OnReaders
  <1>11. CASE MutexWake(t)
    BY <1>11 DEF MutexWake, WakeOne, OnLock, Woken, Mode, OnReaders
  <1>12. CASE \/ Request(t) \/ WriteReload(t) \/ WrLockTry(t)
              \/ WrLockTryReaders(t) \/ RdUUpgradeTry(t)
    BY <1>12 DEF Request, WriteReload, WrLockTry, MutexTry, WrLockTryReaders,
                 RdUUpgradeTry, OnReaders
  <1>13. CASE Spurious(t)
    BY <1>13 DEF Spurious, Asleep, Woken, OnReaders
  <1> HIDE DEF TellsWriter, IInv, TypeOK, Goto
  <1>14. QED
    BY <1>1, <1>2, <1>3, <1>4, <1>5, <1>6, <1>7, <1>8, <1>9, <1>10, <1>11,
       <1>12, <1>13 DEF Call, Leave, Continue

\* wr_wait() starts to wait only when readers are left.
LEMMA WaitsPreserved ==
    ASSUME IInv, WaitsForReaders, NEW t \in Thread,
           Call(t) \/ Leave(t) \/ Continue(t) \/ Spurious(t)
    PROVE  WaitsForReaders'
  <1>1. OnlyMoves(t) /\ pc' \in [Thread -> Label]
    BY NextLocal DEF Local, TypeOK
  <1>2. \A u \in Thread \ {t} : lk'[u] = lk[u]
    BY DEF Call, Leave, Continue, Spurious, RdLock, RdLockWait, ReadTry,
           MutexLock, MutexLockWait, MutexTry, WrLockTry, RdUUpgradeTry,
           URdDowngrade, WrUDowngrade, Request, RdUnlock, UUnlock, WrUnlock,
           Subscribe, ReadCheck, ReadRetry, ReadRetryFails, ReadWakeAll,
           ReadReload, Unsubscribe, ReadWakeOthers, ReadWake, MutexRegister,
           MutexCheck, MutexReload, MutexTake, MutexWake, WriteCheck,
           WriteReload, WrLockTryReaders, Unlock, IInv, TypeOK
  <1>3. \A u \in Thread \ {t} : pc'[u] = "x_check" => pc[u] = "x_check"
    BY <1>1 DEF OnlyMoves
  <1>4. pc'[t] = "x_check" => lk'[t] > 0
    <2>1. CASE Request(t) \/ WriteReload(t)
      <3>1. t \in Owner /\ (WRITER <=> t \in Writing)
        BY <2>1, PlaceFacts DEF Request, WriteReload, Owner
      <3>2. pc[t] = "x_reload" => WRITER
        BY <3>1 DEF Writing
      <3>3. pc[t] \in {"U", "x_request"} => ~WRITER
        BY <3>1 DEF Writing
      <3>4. pc'[t] = "x_check" => count # 0
        BY <2>1, <3>2, <3>3 DEF Request, WriteReload, Goto, IInv, TypeOK
      <3>5. lk'[t] = count
        BY <2>1 DEF Request, WriteReload, IInv, TypeOK
      <3>6. QED
        BY <3>4, <3>5 DEF IInv, TypeOK
    <2>2. CASE ~(Request(t) \/ WriteReload(t))
      <3>1. pc'[t] # "x_check"
        <4> USE DEF IInv, TypeOK, Goals, Goto, Mode, MutexWait
        <4>1. CASE Call(t) \/ Leave(t) \/ Spurious(t)
          BY <2>2, <4>1
          DEF Call, Leave, Spurious, RdLock, RdLockWait, ReadTry, MutexLock,
              MutexLockWait, MutexTry, WrLockTry, RdUUpgradeTry,
              URdDowngrade, WrUDowngrade, RdUnlock, UUnlock, WrUnlock,
              MutexUnlock, Owned, Asleep, Woken
        <4>2. CASE MutexWake(t) \/ ReadWake(t)
          BY <4>2 DEF MutexWake, ReadWake, WakeOne, OnLock, OnReaders, Woken
        <4>3. CASE Continue(t) /\ ~MutexWake(t) /\ ~ReadWake(t)
          BY <2>2, <4>3
          DEF Continue, Subscribe, ReadCheck, ReadRetry, ReadTry,
              ReadRetryFails, ReadWakeAll, ReadReload, Unsubscribe,
              ReadWakeOthers, WakeAll, MutexRegister, MutexCheck,
              MutexReload, MutexTake, Owned, WriteCheck, WrLockTryReaders,
              Unlock, MutexUnlock
        <4>4. QED
          BY <4>1, <4>2, <4>3
      <3>2. QED
        BY <3>1
    <2>3. QED
      BY <2>1, <2>2
  <1>5. QED
    BY <1>2, <1>3, <1>4 DEF WaitsForReaders

\* No futex wakeup is lost, for any number of threads: whoever sleeps on a
\* word of ssux_lock_impl will be woken by a thread that is not asleep.
THEOREM WakeupsNeverLost == Spec => []NoLostWakeup
  <1> DEFINE Inv == IInv /\ WaitsForReaders /\ NoLostWakeup
  <1>1. Init => Inv
    <2> SUFFICES ASSUME Init PROVE Inv
      OBVIOUS
    <2>1. WaitsForReaders /\ OnLock = {} /\ OnReaders = {}
      BY DEF Init, WaitsForReaders, OnLock, OnReaders
    <2>2. QED
      BY <2>1, InitInvariant DEF NoLostWakeup
  <1>2. ASSUME Inv, NEW t \in Thread,
               Call(t) \/ Leave(t) \/ Continue(t) \/ Spurious(t)
        PROVE  Inv'
    <2>1. Local(t) /\ IInv'
      BY <1>2, NextLocal, LocalPreserves
    <2>2. WaitsForReaders'
      BY <1>2, WaitsPreserved
    <2>3. Rouses(t)
      BY <1>2, ContinueRouses, CallRouses
    <2>4. OnLock' # {} => HOLDER' \/ \E u \in Thread : Rouser(u)'
      BY <1>2, <2>1, <2>3
      DEF NoLostWakeup, Rouses, Rouser, OnLock, Local, OnlyMoves
    <2>5. TellsWriter(t)
      BY <1>2, StepTellsWriter
    <2>6. OnReaders' # {} =>
              count' > 0 \/ \E u \in Thread : pc'[u] = "rd_wake"
      BY <1>2, <2>1, <2>5
      DEF NoLostWakeup, TellsWriter, OnReaders, Local, OnlyMoves
    <2>7. QED
      BY <2>1, <2>2, <2>4, <2>6 DEF NoLostWakeup
  <1>3. Inv /\ UNCHANGED vars => Inv'
    BY StutterPreserves
    DEF vars, WaitsForReaders, NoLostWakeup, OnLock, OnReaders, Rouser
  <1>4. Inv /\ [Next]_vars => Inv'
    BY <1>2, <1>3 DEF Next
  <1>5. Inv => NoLostWakeup
    OBVIOUS
  <1>6. QED
    BY <1>1, <1>4, <1>5, PTL DEF Spec
=============================================================================
