-------------------------- MODULE ThreadPoolProofs --------------------------
(***************************************************************************)
(* Proofs about the thread pool, for any finite set of workers, any tasks  *)
(* and any bounds.                                                         *)
(***************************************************************************)
EXTENDS ThreadPool, SequenceTheorems, FiniteSetTheorems, TLAPS

-----------------------------------------------------------------------------
(* Counting *)

(* Two sets that differ in one element at most. *)
LEMMA CardMove ==
    ASSUME NEW S, NEW T, NEW x, IsFiniteSet(S), S \ {x} = T \ {x}
    PROVE  /\ IsFiniteSet(T)
           /\ Cardinality(S) \in Nat /\ Cardinality(T) \in Nat
           /\ x \in S /\ x \notin T => Cardinality(T) = Cardinality(S) - 1
           /\ x \notin S /\ x \in T => Cardinality(T) = Cardinality(S) + 1
           /\ (x \in S <=> x \in T) => T = S
<1>1. T = S \cup {x} \/ T = S \ {x}
  OBVIOUS
<1>2. IsFiniteSet(T)
  BY <1>1, FS_AddElement, FS_RemoveElement
<1>3. Cardinality(S) \in Nat /\ Cardinality(T) \in Nat
  BY <1>2, FS_CardinalityType
<1>4. ASSUME x \in S, x \notin T
      PROVE  Cardinality(T) = Cardinality(S) - 1
  <2>1. T = S \ {x}
    BY <1>4
  <2> QED BY <1>4, <2>1, FS_RemoveElement
<1>5. ASSUME x \notin S, x \in T
      PROVE  Cardinality(T) = Cardinality(S) + 1
  <2>1. T = S \cup {x}
    BY <1>5
  <2> QED BY <1>5, <2>1, FS_AddElement
<1> QED BY <1>2, <1>3, <1>4, <1>5

(* A number of slots of a queue is a natural number. *)
LEMMA OccurrencesType ==
    ASSUME NEW S, NEW q \in Seq(S), NEW t
    PROVE  /\ IsFiniteSet({i \in DOMAIN q : q[i] = t})
           /\ Occurrences(q, t) \in Nat
<1>1. Len(q) \in Nat /\ DOMAIN q = 1 .. Len(q)
  BY LenProperties
<1>2. IsFiniteSet(1 .. Len(q))
  BY <1>1, FS_Interval
<1>3. {i \in DOMAIN q : q[i] = t} \in SUBSET (1 .. Len(q))
  BY <1>1
<1>4. IsFiniteSet({i \in DOMAIN q : q[i] = t})
  BY <1>2, <1>3, FS_Subset
<1> QED BY <1>4, FS_CardinalityType DEF Occurrences

LEMMA OccurrencesEmpty ==
    ASSUME NEW t
    PROVE  Occurrences(<<>>, t) = 0
<1>1. {i \in DOMAIN <<>> : <<>>[i] = t} = {}
  OBVIOUS
<1> QED BY <1>1, FS_EmptySet DEF Occurrences

LEMMA OccurrencesAppend ==
    ASSUME NEW S, NEW q \in Seq(S), NEW x \in S, NEW t
    PROVE  Occurrences(Append(q, x), t)
             = Occurrences(q, t) + IF x = t THEN 1 ELSE 0
<1> DEFINE A == {i \in DOMAIN q : q[i] = t}
           B == {i \in DOMAIN Append(q, x) : Append(q, x)[i] = t}
           n == Len(q) + 1
<1>1. Len(q) \in Nat /\ DOMAIN q = 1 .. Len(q)
  BY LenProperties
<1>2. /\ Append(q, x) \in Seq(S) /\ Len(Append(q, x)) = n
      /\ \A i \in 1 .. Len(q) : Append(q, x)[i] = q[i]
      /\ Append(q, x)[n] = x
  BY <1>1, AppendProperties
<1>3. DOMAIN Append(q, x) = 1 .. n
  BY <1>2, LenProperties
<1>4. A \ {n} = B \ {n}
  BY <1>1, <1>2, <1>3
<1>5. n \notin A /\ (n \in B <=> x = t)
  BY <1>1, <1>2, <1>3
<1>6. IsFiniteSet(A)
  BY OccurrencesType
<1> HIDE DEF A, B, n
<1>7. Cardinality(A) \in Nat
  BY <1>6, FS_CardinalityType
<1>8. Cardinality(B) = Cardinality(A) + IF x = t THEN 1 ELSE 0
  BY <1>4, <1>5, <1>6, <1>7, CardMove
<1> QED BY <1>8 DEF Occurrences, A, B

(* The slots of the tail are the slots but the first, one place further.   *)
LEMMA OccurrencesTail ==
    ASSUME NEW S, NEW q \in Seq(S), q # <<>>, NEW t
    PROVE  Occurrences(Tail(q), t)
             = Occurrences(q, t) - IF Head(q) = t THEN 1 ELSE 0
<1> DEFINE A == {i \in DOMAIN q : q[i] = t}
           B == {i \in DOMAIN Tail(q) : Tail(q)[i] = t}
           C == A \ {1}
           f == [i \in B |-> i + 1]
<1>1. Len(q) \in Nat \ {0} /\ DOMAIN q = 1 .. Len(q)
  BY LenProperties, EmptySeq
<1>2. /\ Tail(q) \in Seq(S) /\ Len(Tail(q)) = Len(q) - 1
      /\ \A i \in 1 .. Len(q) - 1 : Tail(q)[i] = q[i + 1]
  BY HeadTailProperties
<1>3. DOMAIN Tail(q) = 1 .. Len(q) - 1
  BY <1>2, LenProperties
<1>4. Head(q) = q[1]
  BY <1>1
<1>5. \A i \in B : i \in Nat /\ i + 1 \in C
  BY <1>1, <1>2, <1>3
<1>6. \A j \in C : j - 1 \in B /\ (j - 1) + 1 = j
  BY <1>1, <1>2, <1>3
<1>7. IsFiniteSet(A) /\ IsFiniteSet(B)
  BY <1>2, OccurrencesType
<1>8. 1 \in A <=> Head(q) = t
  BY <1>1, <1>4
<1> HIDE DEF A, B
<1>9. f \in Bijection(B, C)
  <2>1. f \in [B -> C]
    BY <1>5
  <2>2. \A i, j \in B : f[i] = f[j] => i = j
    BY <1>5
  <2>3. \A j \in C : \E i \in B : f[i] = j
    BY <1>6
  <2> QED BY <2>1, <2>2, <2>3 DEF Bijection, Injection, Surjection, IsInjective
<1>10. Cardinality(C) = Cardinality(B)
  BY <1>7, <1>9, FS_Bijection DEF ExistsBijection
<1>11. Cardinality(C) = IF 1 \in A THEN Cardinality(A) - 1 ELSE Cardinality(A)
  BY <1>7, FS_RemoveElement
<1>12. Cardinality(A) \in Nat
  BY <1>7, FS_CardinalityType
<1>13. Cardinality(B) = Cardinality(A) - IF Head(q) = t THEN 1 ELSE 0
  BY <1>8, <1>10, <1>11, <1>12
<1> QED BY <1>13 DEF Occurrences, A, B

(* cancel_pending(): no slot of the task is left, the others stay. *)
LEMMA OccurrencesCancelled ==
    ASSUME NEW S, Null \in S, NEW q \in Seq(S), NEW t, t # Null, NEW u, u # Null
    PROVE  /\ Cancelled(q, t) \in Seq(S)
           /\ Cancelled(q, t) = <<>> <=> q = <<>>
           /\ Occurrences(Cancelled(q, t), u)
                = IF u = t THEN 0 ELSE Occurrences(q, u)
<1> DEFINE c == Cancelled(q, t)
<1>1. /\ Len(q) \in Nat /\ DOMAIN q = 1 .. Len(q)
      /\ \A i \in 1 .. Len(q) : q[i] \in S
  BY LenProperties
<1>2. /\ c = [i \in 1 .. Len(q) |-> IF q[i] = t THEN Null ELSE q[i]]
      /\ DOMAIN c = 1 .. Len(q)
  BY <1>1 DEF Cancelled
<1>3. c \in Seq(S) /\ Len(c) = Len(q)
  <2>1. c \in [1 .. Len(q) -> S]
    BY <1>1, <1>2
  <2> HIDE DEF c
  <2>2. c \in Seq(S)
    BY <1>1, <2>1
  <2> QED BY <1>1, <1>2, <2>2, LenProperties
<1>4. c = <<>> <=> q = <<>>
  <2> HIDE DEF c
  <2> QED BY <1>1, <1>3, EmptySeq
<1>5. CASE u = t
  <2>1. {i \in DOMAIN c : c[i] = u} = {}
    BY <1>2, <1>5
  <2>2. Occurrences(c, u) = 0
    BY <2>1, FS_EmptySet DEF Occurrences
  <2> QED BY <1>3, <1>4, <1>5, <2>2
<1>6. CASE u # t
  <2>1. {i \in DOMAIN c : c[i] = u} = {i \in DOMAIN q : q[i] = u}
    BY <1>1, <1>2, <1>6
  <2>2. Occurrences(c, u) = Occurrences(q, u)
    BY <2>1 DEF Occurrences
  <2> QED BY <1>3, <1>4, <1>6, <2>2
<1> QED BY <1>5, <1>6

-----------------------------------------------------------------------------
(* The standby list *)

(* The list s holds the workers of S, once each. *)
Lists(s, S) ==
    /\ s \in Seq(Worker)
    /\ IsInjective(s)
    /\ ToSet(s) = S

LEMMA ListsFacts ==
    ASSUME NEW s, NEW S, Lists(s, S)
    PROVE  /\ Len(s) \in Nat
           /\ DOMAIN s = 1 .. Len(s)
           /\ \A i \in 1 .. Len(s) : s[i] \in S /\ s[i] \in Worker
           /\ \A i, j \in 1 .. Len(s) : s[i] = s[j] => i = j
           /\ \A w \in S : \E i \in 1 .. Len(s) : s[i] = w
<1>1. Len(s) \in Nat /\ DOMAIN s = 1 .. Len(s) /\ s \in [1 .. Len(s) -> Worker]
  BY LenProperties DEF Lists
<1>2. \A i, j \in 1 .. Len(s) : s[i] = s[j] => i = j
  BY <1>1 DEF Lists, IsInjective
<1>3. S = {s[i] : i \in 1 .. Len(s)}
  BY <1>1 DEF Lists, ToSet
<1> QED BY <1>1, <1>2, <1>3

LEMMA ListsIntro ==
    ASSUME NEW s \in Seq(Worker), NEW S,
           \A i \in 1 .. Len(s) : s[i] \in S,
           \A i, j \in 1 .. Len(s) : s[i] = s[j] => i = j,
           \A w \in S : \E i \in 1 .. Len(s) : s[i] = w
    PROVE  Lists(s, S)
<1>1. DOMAIN s = 1 .. Len(s)
  BY LenProperties
<1>2. ToSet(s) = {s[i] : i \in 1 .. Len(s)}
  BY <1>1 DEF ToSet
<1>3. IsInjective(s)
  BY <1>1 DEF IsInjective
<1> QED BY <1>2, <1>3 DEF Lists

LEMMA ListsEmpty == Lists(<<>>, {})
<1>1. <<>> \in Seq(Worker) /\ Len(<<>>) = 0
  BY EmptySeq
<1>2. 1 .. 0 = {}
  OBVIOUS
<1> QED BY <1>1, <1>2, ListsIntro

LEMMA ListsAppend ==
    ASSUME NEW s, NEW S, Lists(s, S), NEW w \in Worker, w \notin S
    PROVE  Lists(Append(s, w), S \cup {w})
<1> DEFINE a == Append(s, w)
           n == Len(s)
<1>1. /\ s \in Seq(Worker) /\ n \in Nat
      /\ \A i \in 1 .. n : s[i] \in S
      /\ \A i, j \in 1 .. n : s[i] = s[j] => i = j
      /\ \A v \in S : \E i \in 1 .. n : s[i] = v
  BY ListsFacts DEF Lists
<1>2. /\ a \in Seq(Worker) /\ Len(a) = n + 1
      /\ \A i \in 1 .. n : a[i] = s[i]
      /\ a[n + 1] = w
  BY <1>1, AppendProperties
<1> HIDE DEF a, n
<1>3. \A i \in 1 .. n + 1 : a[i] = IF i = n + 1 THEN w ELSE s[i]
  BY <1>1, <1>2
<1>4. \A i \in 1 .. n + 1 : a[i] \in S \cup {w}
  BY <1>1, <1>3
<1>5. \A i, j \in 1 .. n + 1 : a[i] = a[j] => i = j
  BY <1>1, <1>3
<1>6. \A v \in S \cup {w} : \E i \in 1 .. n + 1 : a[i] = v
  <2> TAKE v \in S \cup {w}
  <2>1. CASE v = w
    BY <1>1, <1>2, <2>1
  <2>2. CASE v \in S
    <3>1. PICK i \in 1 .. n : s[i] = v
      BY <1>1, <2>2
    <3> QED BY <1>1, <1>2, <3>1
  <2> QED BY <2>1, <2>2
<1>7. Lists(a, S \cup {w})
  BY <1>2, <1>4, <1>5, <1>6, ListsIntro
<1> QED BY <1>7 DEF a

(* The list without its entry k. *)
LEMMA ListsRemove ==
    ASSUME NEW s, NEW S, Lists(s, S), NEW k \in 1 .. Len(s)
    PROVE  Lists(RemoveAt(s, k), S \ {s[k]})
<1> DEFINE a == SubSeq(s, 1, k - 1)
           b == SubSeq(s, k + 1, Len(s))
           r == a \o b
           n == Len(s)
<1>1. /\ s \in Seq(Worker) /\ n \in Nat /\ k \in Nat \ {0} /\ k <= n
      /\ \A i \in 1 .. n : s[i] \in S /\ s[i] \in Worker
      /\ \A i, j \in 1 .. n : s[i] = s[j] => i = j
      /\ \A v \in S : \E i \in 1 .. n : s[i] = v
  BY ListsFacts DEF Lists
<1>2. /\ a \in Seq(Worker) /\ Len(a) = k - 1
      /\ \A i \in 1 .. k - 1 : a[i] = s[i]
  <2>1. \A i \in 1 .. k - 1 : s[i] \in Worker
    BY <1>1
  <2> QED BY <1>1, <2>1, SubSeqProperties
<1>3. /\ b \in Seq(Worker) /\ Len(b) = n - k
      /\ \A i \in 1 .. n - k : b[i] = s[k + i]
  <2>1. \A i \in k + 1 .. n : s[i] \in Worker
    BY <1>1
  <2> QED BY <1>1, <2>1, SubSeqProperties
<1> HIDE DEF a, b, n
<1>4. /\ r \in Seq(Worker) /\ Len(r) = n - 1
      /\ \A i \in 1 .. n - 1 :
           r[i] = IF i <= k - 1 THEN a[i] ELSE b[i - (k - 1)]
  <2>1. Len(a) + Len(b) = n - 1
    BY <1>1, <1>2, <1>3
  <2>2. /\ r \in Seq(Worker) /\ Len(r) = Len(a) + Len(b)
        /\ \A i \in 1 .. Len(a) + Len(b) :
             r[i] = IF i <= Len(a) THEN a[i] ELSE b[i - Len(a)]
    BY <1>2, <1>3, ConcatProperties
  <2> HIDE DEF r
  <2> QED BY <1>2, <2>1, <2>2
<1> HIDE DEF r
<1>5. \A i \in 1 .. n - 1 : r[i] = IF i < k THEN s[i] ELSE s[i + 1]
  <2> TAKE i \in 1 .. n - 1
  <2>1. CASE i < k
    <3>1. i \in 1 .. k - 1 /\ i <= k - 1
      BY <1>1, <2>1
    <3> QED BY <1>2, <1>4, <2>1, <3>1
  <2>2. CASE i >= k
    <3>1. i - (k - 1) \in 1 .. n - k /\ k + (i - (k - 1)) = i + 1
      BY <1>1, <2>2
    <3>2. ~(i <= k - 1) /\ ~(i < k)
      BY <1>1, <2>2
    <3> QED BY <1>3, <1>4, <3>1, <3>2
  <2> QED BY <1>1, <2>1, <2>2
<1>6. \A i \in 1 .. n - 1 : r[i] \in S \ {s[k]}
  <2> TAKE i \in 1 .. n - 1
  <2> DEFINE j == IF i < k THEN i ELSE i + 1
  <2>1. j \in 1 .. n /\ j # k
    BY <1>1
  <2>2. r[i] = s[j]
    BY <1>5
  <2> HIDE DEF j
  <2>3. s[j] \in S /\ s[j] # s[k]
    BY <1>1, <2>1
  <2> QED BY <2>2, <2>3
<1>7. \A i, j \in 1 .. n - 1 : r[i] = r[j] => i = j
  <2> DEFINE g(i) == IF i < k THEN i ELSE i + 1
  <2>1. \A i \in 1 .. n - 1 : g(i) \in 1 .. n
    BY <1>1
  <2>2. \A i \in 1 .. n - 1 : r[i] = s[g(i)]
    BY <1>5
  <2>3. \A i, j \in 1 .. n - 1 : g(i) = g(j) => i = j
    BY <1>1
  <2> HIDE DEF g
  <2> QED BY <1>1, <2>1, <2>2, <2>3
<1>8. \A v \in S \ {s[k]} : \E i \in 1 .. n - 1 : r[i] = v
  <2> TAKE v \in S \ {s[k]}
  <2>1. PICK i \in 1 .. n : s[i] = v
    BY <1>1
  <2>2. CASE i < k
    <3>1. i \in 1 .. n - 1 /\ r[i] = v
      BY <1>1, <1>5, <2>1, <2>2
    <3> QED BY <3>1
  <2>3. CASE i > k
    <3>1. i - 1 \in 1 .. n - 1 /\ r[i - 1] = v
      BY <1>1, <1>5, <2>1, <2>3
    <3> QED BY <3>1
  <2>4. i # k
    BY <2>1
  <2> QED BY <1>1, <2>2, <2>3, <2>4
<1>9. Lists(r, S \ {s[k]})
  BY <1>4, <1>6, <1>7, <1>8, ListsIntro
<1> QED BY <1>9 DEF RemoveAt, r, a, b

LEMMA ListsFront ==
    ASSUME NEW s, NEW S, Lists(s, S), s # <<>>
    PROVE  Last(s) \in S /\ Last(s) \in Worker /\ Lists(Front(s), S \ {Last(s)})
<1> DEFINE n == Len(s)
           f == SubSeq(s, 1, n - 1)
<1>1. /\ s \in Seq(Worker) /\ n \in Nat \ {0}
      /\ \A i \in 1 .. n : s[i] \in S /\ s[i] \in Worker
      /\ \A i, j \in 1 .. n : s[i] = s[j] => i = j
      /\ \A v \in S : \E i \in 1 .. n : s[i] = v
  BY ListsFacts, EmptySeq DEF Lists
<1>2. /\ f \in Seq(Worker) /\ Len(f) = n - 1
      /\ \A i \in 1 .. n - 1 : f[i] = s[i]
  <2>1. \A i \in 1 .. n - 1 : s[i] \in Worker
    BY <1>1
  <2> HIDE DEF n
  <2>2. /\ f \in Seq(Worker)
        /\ Len(f) = IF 1 <= n - 1 THEN (n - 1) - 1 + 1 ELSE 0
        /\ \A i \in 1 .. (n - 1) - 1 + 1 : f[i] = s[1 + i - 1]
    BY <1>1, <2>1, SubSeqProperties
  <2> HIDE DEF f
  <2> QED BY <1>1, <2>2
<1> HIDE DEF f, n
<1>3. \A i \in 1 .. n - 1 : f[i] \in S \ {s[n]}
  BY <1>1, <1>2
<1>4. \A i, j \in 1 .. n - 1 : f[i] = f[j] => i = j
  BY <1>1, <1>2
<1>5. \A v \in S \ {s[n]} : \E i \in 1 .. n - 1 : f[i] = v
  <2> TAKE v \in S \ {s[n]}
  <2>1. PICK i \in 1 .. n : s[i] = v
    BY <1>1
  <2>2. i \in 1 .. n - 1 /\ f[i] = v
    BY <1>1, <1>2, <2>1
  <2> QED BY <2>2
<1>6. Lists(f, S \ {s[n]})
  BY <1>2, <1>3, <1>4, <1>5, ListsIntro
<1>7. s[n] \in S /\ s[n] \in Worker
  BY <1>1
<1> QED BY <1>6, <1>7 DEF Front, Last, f, n

-----------------------------------------------------------------------------
(* The inductive invariant *)

Places == {"idle", "starting", "get", "standby", "woken", "ending", "timer",
           "callback", "release", "group", "run", "next"}

(* The places of a worker that has no task. *)
Neutral == {"idle", "starting", "get", "standby", "woken", "ending"}

Types ==
    /\ queue \in Seq(Task \cup {Null})
    /\ in_shutdown \in BOOLEAN
    /\ long \in 0 .. UINT_MAX
    /\ task \in [Worker -> Task \cup {Null}]
    /\ state \in [Worker -> SUBSET {"EXECUTING_TASK", "LONG_TASK", "WAITING"}]
    /\ blocked \subseteq Worker
    /\ group_queue \in Seq(Grouped \cup {Null})
    /\ max_tasks \in Limits
    /\ callbacks \in [Timer -> Nat]
    /\ disarm \in [Timer -> {"on", "cancel", "wait", "off"}]
    /\ ref \in [Task -> Int]
    /\ submits \in [Task -> 0 .. MaxSubmits]

Standby == {w \in Worker : pc[w] = "standby"}

Pool ==
    /\ pc \in [Worker -> Places]
    /\ creating \in BOOLEAN
    /\ Lists(standby, Standby)

(* The worker has the task that its place in the code asks for. *)
Held ==
    \A w \in Worker :
        /\ pc[w] \in {"timer", "callback", "release"} => task[w] \in Timer
        /\ pc[w] \in {"group", "run"} => task[w] \in Grouped

(* m_waiting_task_count counts the workers in WAITING, and those are       *)
(* blocked in a callback.                                                  *)
Waiters == {w \in Worker : "WAITING" \in state[w]}

Blocking ==
    /\ \A w \in blocked : pc[w] = "callback"
    /\ Waiters \subseteq blocked
    /\ waiting = Cardinality(Waiters)

Running(t)  == {w \in Worker : task[w] = t /\ pc[w] = "callback"}
Entering(t) == {w \in Worker : task[w] = t /\ pc[w] = "timer"}
Looping     == {w \in Worker : pc[w] \in {"run", "next"}}

(* A timer's m_running is positive while exactly one worker repeats its    *)
(* callback, and every pending repetition was submitted.                   *)
Callbacks ==
    \A t \in Timer :
        /\ callbacks[t] > 0 <=> Running(t) # {}
        /\ \A v, w \in Running(t) : v = w
        /\ callbacks[t] + Occurrences(queue, t) + Cardinality(Entering(t))
             <= submits[t]

(* A task has no more references than it was submitted, and a timer that   *)
(* is disarmed has none.                                                   *)
Bounded ==
    /\ \A t \in Task : ref[t] <= submits[t]
    /\ \A t \in Timer : disarm[t] = "off" => ref[t] = 0

IInv ==
    /\ Types /\ Pool /\ Held /\ Blocking
    /\ RefsExact /\ GroupBusy /\ Callbacks /\ Bounded

-----------------------------------------------------------------------------
(* What a step does to the sets of workers that are counted *)

Holds(w, t) ==
    task[w] = t /\ pc[w] \in {"timer", "callback", "release", "group", "run"}

LEMMA WorkersFinite ==
    ASSUME NEW S, S \subseteq Worker
    PROVE  IsFiniteSet(S) /\ Cardinality(S) \in 0 .. MaxThreads /\ MaxThreads \in Nat
<1>1. IsFiniteSet(Worker)
  BY ConstantsAssumption
<1>2. IsFiniteSet(S) /\ Cardinality(S) <= Cardinality(Worker)
  BY <1>1, FS_Subset
<1>3. Cardinality(S) \in Nat /\ Cardinality(Worker) \in Nat
  BY <1>1, <1>2, FS_CardinalityType
<1> QED BY <1>2, <1>3 DEF MaxThreads

(* Nothing happens to the worker, unless it has no task and gets none. *)
Stays(w) ==
    \/ pc'[w] = pc[w] /\ task'[w] = task[w]
    \/ pc[w] \in Neutral /\ pc'[w] \in Neutral

(* Only w moves. *)
Others(w) == \A v \in Worker \ {w} : pc'[v] = pc[v] /\ task'[v] = task[v]

LEMMA QuietSets ==
    ASSUME \A w \in Worker : Stays(w)
    PROVE  /\ \A t : /\ Holders(t)' = Holders(t)
                     /\ Running(t)' = Running(t)
                     /\ Entering(t)' = Entering(t)
           /\ Looping' = Looping
<1>1. ASSUME NEW t
      PROVE  /\ Holders(t)' = Holders(t)
             /\ Running(t)' = Running(t)
             /\ Entering(t)' = Entering(t)
  BY DEF Stays, Neutral, Holders, Running, Entering
<1>2. Looping' = Looping
  BY DEF Stays, Neutral, Looping
<1> QED BY <1>1, <1>2

LEMMA HoldersMove ==
    ASSUME NEW w \in Worker, Others(w), NEW t
    PROVE  /\ Cardinality(Holders(t)) \in Nat
           /\ Cardinality(Holders(t))' \in Nat
           /\ Holds(w, t) /\ ~Holds(w, t)'
                => Cardinality(Holders(t))' = Cardinality(Holders(t)) - 1
           /\ ~Holds(w, t) /\ Holds(w, t)'
                => Cardinality(Holders(t))' = Cardinality(Holders(t)) + 1
           /\ (Holds(w, t) <=> Holds(w, t)')
                => Cardinality(Holders(t))' = Cardinality(Holders(t))
<1>1. Holders(t) \ {w} = Holders(t)' \ {w}
  BY DEF Others, Holders
<1>2. (w \in Holders(t) <=> Holds(w, t)) /\ (w \in Holders(t)' <=> Holds(w, t)')
  BY DEF Holders, Holds
<1>3. IsFiniteSet(Holders(t))
  <2>1. Holders(t) \subseteq Worker
    BY DEF Holders
  <2> QED BY <2>1, WorkersFinite
<1> QED BY <1>1, <1>2, <1>3, CardMove

LEMMA EnteringMove ==
    ASSUME NEW w \in Worker, Others(w), NEW t
    PROVE  /\ Cardinality(Entering(t)) \in Nat
           /\ Cardinality(Entering(t))' \in Nat
           /\ w \in Entering(t) /\ w \notin Entering(t)'
                => Cardinality(Entering(t))' = Cardinality(Entering(t)) - 1
           /\ w \notin Entering(t) /\ w \in Entering(t)'
                => Cardinality(Entering(t))' = Cardinality(Entering(t)) + 1
           /\ (w \in Entering(t) <=> w \in Entering(t)')
                => Cardinality(Entering(t))' = Cardinality(Entering(t))
<1>1. Entering(t) \ {w} = Entering(t)' \ {w}
  BY DEF Others, Entering
<1>2. IsFiniteSet(Entering(t))
  <2>1. Entering(t) \subseteq Worker
    BY DEF Entering
  <2> QED BY <2>1, WorkersFinite
<1> QED BY <1>1, <1>2, CardMove

LEMMA LoopingMove ==
    ASSUME NEW w \in Worker, Others(w)
    PROVE  /\ Cardinality(Looping) \in Nat
           /\ Cardinality(Looping)' \in Nat
           /\ w \in Looping /\ w \notin Looping'
                => Cardinality(Looping)' = Cardinality(Looping) - 1
           /\ w \notin Looping /\ w \in Looping'
                => Cardinality(Looping)' = Cardinality(Looping) + 1
           /\ (w \in Looping <=> w \in Looping')
                => Cardinality(Looping)' = Cardinality(Looping)
<1>1. Looping \ {w} = Looping' \ {w}
  BY DEF Others, Looping
<1>2. IsFiniteSet(Looping)
  <2>1. Looping \subseteq Worker
    BY DEF Looping
  <2> QED BY <2>1, WorkersFinite
<1> QED BY <1>1, <1>2, CardMove

LEMMA RunningMove ==
    ASSUME NEW w \in Worker, Others(w), NEW t,
           w \in Running(t) <=> w \in Running(t)'
    PROVE  Running(t)' = Running(t)
BY DEF Others, Running

-----------------------------------------------------------------------------
(* Wakeup and creation of workers *)

(* A step of the pool that gives no worker a task and takes none. *)
PoolMoves ==
    \A w \in Worker : pc'[w] = pc[w] \/ (pc[w] \in Neutral /\ pc'[w] \in Neutral)

LEMMA PoolUnchanged ==
    ASSUME Pool, UNCHANGED pool
    PROVE  Pool' /\ PoolMoves
<1>1. pc' = pc /\ standby' = standby /\ creating' = creating
  BY DEF pool
<1>2. Standby' = Standby
  BY <1>1 DEF Standby
<1> QED BY <1>1, <1>2 DEF Pool, PoolMoves, Lists

LEMMA AddThread ==
    ASSUME Pool, NEW ok, add_thread(ok)
    PROVE  Pool' /\ PoolMoves
<1>1. CASE UNCHANGED pool
  BY <1>1, PoolUnchanged
<1>2. ASSUME NEW w \in Worker, Goto(w, "idle", "starting"), creating' = ~fixed,
             UNCHANGED standby
      PROVE  Pool' /\ PoolMoves
  <2>1. /\ pc \in [Worker -> Places] /\ pc[w] = "idle"
        /\ pc' = [pc EXCEPT ![w] = "starting"]
    BY <1>2 DEF Pool, Goto
  <2>2. pc' \in [Worker -> Places] /\ PoolMoves
    BY <2>1 DEF Places, PoolMoves, Neutral
  <2>3. Standby' = Standby
    BY <2>1 DEF Standby
  <2>4. creating' \in BOOLEAN
    BY <1>2 DEF fixed
  <2> QED BY <1>2, <2>2, <2>3, <2>4 DEF Pool, Lists
<1> QED BY <1>1, <1>2 DEF add_thread

LEMMA Wake ==
    ASSUME Pool, standby # <<>>, wake
    PROVE  Pool' /\ PoolMoves
<1>1. PICK l : l = Last(standby)
  OBVIOUS
<1>2. l \in Standby /\ l \in Worker /\ Lists(Front(standby), Standby \ {l})
  BY <1>1, ListsFront DEF Pool
<1>3. /\ pc \in [Worker -> Places] /\ pc' = [pc EXCEPT ![l] = "woken"]
      /\ standby' = Front(standby) /\ creating' = creating
  BY <1>1 DEF wake, Pool
<1>4. Standby' = Standby \ {l}
  BY <1>2, <1>3 DEF Standby
<1>5. pc' \in [Worker -> Places] /\ PoolMoves
  BY <1>2, <1>3 DEF Places, PoolMoves, Neutral, Standby
<1> QED BY <1>2, <1>3, <1>4, <1>5 DEF Pool

LEMMA MaybeWake ==
    ASSUME Pool, NEW q, NEW l, NEW n, NEW ok,
           maybe_wake_or_create_thread(q, l, n, ok)
    PROVE  Pool' /\ PoolMoves
<1>1. CASE Wakes(q, l, n)
  <2>1. standby # <<>> /\ wake
    BY <1>1 DEF Wakes, maybe_wake_or_create_thread
  <2> QED BY <2>1, Wake
<1>2. CASE ~Wakes(q, l, n) /\ q # <<>> /\ ~too_many(l, n)
  <2>1. add_thread(ok)
    BY <1>2 DEF maybe_wake_or_create_thread
  <2> QED BY <2>1, AddThread
<1>3. CASE ~Wakes(q, l, n) /\ ~(q # <<>> /\ ~too_many(l, n))
  <2>1. UNCHANGED pool
    BY <1>3 DEF maybe_wake_or_create_thread
  <2> QED BY <2>1, PoolUnchanged
<1> QED BY <1>1, <1>2, <1>3

(* One worker that is not on standby goes to another such place. *)
LEMMA PoolGoto ==
    ASSUME Pool, NEW w \in Worker, NEW to \in Places \ {"standby"},
           pc[w] # "standby", pc' = [pc EXCEPT ![w] = to],
           standby' = standby, creating' \in BOOLEAN
    PROVE  Pool'
<1>1. pc' \in [Worker -> Places]
  BY DEF Pool
<1>2. Standby' = Standby
  BY DEF Standby, Pool
<1> QED BY <1>1, <1>2 DEF Pool, Lists

-----------------------------------------------------------------------------
(* Steps that leave the tasks where they are *)

LEMMA QuietStep ==
    ASSUME IInv, \A w \in Worker : Stays(w),
           UNCHANGED <<queue, group_queue, tasks_running, callbacks, ref, client>>
    PROVE  Held' /\ RefsExact' /\ GroupBusy' /\ Callbacks' /\ Bounded'
<1>1. /\ \A t : /\ Holders(t)' = Holders(t)
                /\ Running(t)' = Running(t)
                /\ Entering(t)' = Entering(t)
      /\ Looping' = Looping
  BY QuietSets
<1>2. Held'
  BY DEF Stays, IInv, Held, Neutral
<1>3. RefsExact'
  BY <1>1 DEF IInv, RefsExact
<1>4. GroupBusy'
  BY <1>1 DEF IInv, GroupBusy, Looping
<1>5. Callbacks'
  BY <1>1 DEF IInv, Callbacks, client
<1>6. Bounded'
  BY DEF IInv, Bounded, client
<1> QED BY <1>2, <1>3, <1>4, <1>5, <1>6

(* Nobody starts or stops to wait. *)
LEMMA BlockingKept ==
    ASSUME Types, Blocking, UNCHANGED <<blocked, waiting>>,
           \A w \in Worker : "WAITING" \in state'[w] <=> "WAITING" \in state[w],
           \A w \in blocked : pc'[w] = pc[w]
    PROVE  Blocking'
<1>1. Waiters' = Waiters
  BY DEF Waiters
<1> QED BY <1>1 DEF Types, Blocking

(* One worker that is not blocked moves. *)
LEMMA BlockingMove ==
    ASSUME Types, Blocking, NEW w \in Worker, Others(w), w \notin blocked,
           UNCHANGED <<blocked, waiting>>,
           state' = state \/ \E x \in {{}, {"EXECUTING_TASK"}} :
                               state' = [state EXCEPT ![w] = x]
    PROVE  Blocking'
<1>1. "WAITING" \notin state[w]
  BY DEF Blocking, Waiters
<1>2. \A v \in Worker : "WAITING" \in state'[v] <=> "WAITING" \in state[v]
  <2>1. CASE state' = state
    BY <2>1
  <2>2. ASSUME NEW x \in {{}, {"EXECUTING_TASK"}},
               state' = [state EXCEPT ![w] = x]
        PROVE  \A v \in Worker : "WAITING" \in state'[v] <=> "WAITING" \in state[v]
    <3>1. \A v \in Worker : state'[v] = IF v = w THEN x ELSE state[v]
      BY <2>2 DEF Types
    <3>2. "WAITING" \notin x
      BY <2>2
    <3> QED BY <1>1, <3>1, <3>2
  <2> QED BY <2>1, <2>2
<1>3. \A v \in blocked : pc'[v] = pc[v]
  BY DEF Types, Others
<1> QED BY <1>2, <1>3, BlockingKept

LEMMA StartPreserves ==
    ASSUME IInv, NEW w \in Worker, Start(w)
    PROVE  IInv'
<1> USE DEF IInv
<1>1. /\ pc[w] = "starting" /\ pc' = [pc EXCEPT ![w] = "get"]
      /\ creating' = FALSE
      /\ UNCHANGED <<queue, in_shutdown, task, state, blocked, callbacks, ref,
                     standby, counts, group, client>>
  BY DEF Start, Goto
<1>2. pc \in [Worker -> Places]
  BY DEF Pool
<1>3. Types'
  BY <1>1 DEF Types, counts, group, client
<1>4. Pool'
  BY <1>1, PoolGoto DEF Places
<1>5. Held' /\ RefsExact' /\ GroupBusy' /\ Callbacks' /\ Bounded'
  <2>1. \A v \in Worker : Stays(v)
    BY <1>1, <1>2 DEF Stays, Neutral
  <2> QED BY <1>1, <2>1, QuietStep DEF group
<1>6. Blocking'
  <2>1. w \notin blocked
    BY <1>1 DEF Blocking
  <2>2. Others(w)
    BY <1>1, <1>2 DEF Others
  <2> QED BY <1>1, <2>1, <2>2, BlockingMove DEF counts
<1> QED BY <1>3, <1>4, <1>5, <1>6

LEMMA DecLongType ==
    ASSUME Types, NEW w \in Worker
    PROVE  DecLong(w) \in 0 .. UINT_MAX
BY ConstantsAssumption DEF Types, DecLong

LEMMA ParkPreserves ==
    ASSUME IInv, NEW w \in Worker, Park(w)
    PROVE  IInv'
<1> USE DEF IInv
<1>1. /\ pc[w] \in {"get", "woken"}
      /\ pc' = [pc EXCEPT ![w] = IF in_shutdown THEN "ending" ELSE "standby"]
      /\ standby' = IF in_shutdown THEN standby ELSE Append(standby, w)
      /\ long' = DecLong(w)
      /\ state' = [state EXCEPT ![w] = {}]
      /\ UNCHANGED <<queue, in_shutdown, task, blocked, callbacks, ref, creating,
                     waiting, group, client>>
  BY DEF Park
<1>2. pc \in [Worker -> Places] /\ creating \in BOOLEAN
  BY DEF Pool
<1>3. Types'
  <2>1. long' \in 0 .. UINT_MAX
    BY <1>1, DecLongType
  <2>2. state' \in [Worker -> SUBSET {"EXECUTING_TASK", "LONG_TASK", "WAITING"}]
    BY <1>1 DEF Types
  <2> QED BY <1>1, <2>1, <2>2 DEF Types, group, client
<1>4. Pool'
  <2>1. CASE in_shutdown
    BY <1>1, <1>2, <2>1, PoolGoto DEF Places
  <2>2. CASE ~in_shutdown
    <3>1. pc' \in [Worker -> Places] /\ creating' \in BOOLEAN
      BY <1>1, <1>2, <2>2 DEF Places
    <3>2. w \notin Standby /\ Standby' = Standby \cup {w}
      BY <1>1, <1>2, <2>2 DEF Standby
    <3>3. Lists(Append(standby, w), Standby \cup {w})
      BY <3>2, ListsAppend DEF Pool
    <3> QED BY <1>1, <2>2, <3>1, <3>2, <3>3 DEF Pool
  <2> QED BY <2>1, <2>2
<1>5. Held' /\ RefsExact' /\ GroupBusy' /\ Callbacks' /\ Bounded'
  <2>1. \A v \in Worker : Stays(v)
    BY <1>1, <1>2 DEF Stays, Neutral
  <2> QED BY <1>1, <2>1, QuietStep DEF group
<1>6. Blocking'
  <2>1. w \notin blocked
    BY <1>1 DEF Blocking
  <2>2. Others(w)
    BY <1>1, <1>2 DEF Others
  <2> QED BY <1>1, <2>1, <2>2, BlockingMove
<1> QED BY <1>3, <1>4, <1>5, <1>6

LEMMA TimeoutPreserves ==
    ASSUME IInv, NEW w \in Worker, Timeout(w)
    PROVE  IInv'
<1> USE DEF IInv
<1>1. /\ pc[w] = "standby" /\ pc' = [pc EXCEPT ![w] = "ending"]
      /\ UNCHANGED <<queue, in_shutdown, task, state, blocked, callbacks, ref,
                     creating, counts, group, client>>
  BY DEF Timeout, Goto
<1>2. pc \in [Worker -> Places] /\ Lists(standby, Standby)
  BY DEF Pool
<1>3. Types'
  BY <1>1 DEF Types, counts, group, client
<1>4. Pool'
  <2>1. PICK i \in DOMAIN standby : standby[i] = w /\ standby' = RemoveAt(standby, i)
    BY DEF Timeout
  <2>2. i \in 1 .. Len(standby)
    BY <1>2, <2>1, ListsFacts
  <2>3. Lists(standby', Standby \ {w})
    BY <1>2, <2>1, <2>2, ListsRemove
  <2>4. Standby' = Standby \ {w}
    BY <1>1, <1>2 DEF Standby
  <2>5. pc' \in [Worker -> Places]
    BY <1>1, <1>2 DEF Places
  <2> QED BY <1>1, <2>3, <2>4, <2>5 DEF Pool
<1>5. Held' /\ RefsExact' /\ GroupBusy' /\ Callbacks' /\ Bounded'
  <2>1. \A v \in Worker : Stays(v)
    BY <1>1, <1>2 DEF Stays, Neutral
  <2> QED BY <1>1, <2>1, QuietStep DEF group
<1>6. Blocking'
  <2>1. w \notin blocked
    BY <1>1 DEF Blocking
  <2>2. Others(w)
    BY <1>1, <1>2 DEF Others
  <2> QED BY <1>1, <2>1, <2>2, BlockingMove DEF counts
<1> QED BY <1>3, <1>4, <1>5, <1>6

LEMMA WorkerEndPreserves ==
    ASSUME IInv, NEW w \in Worker, worker_end(w)
    PROVE  IInv'
<1> USE DEF IInv
<1>1. /\ pc[w] = "ending" /\ pc' = [pc EXCEPT ![w] = "idle"]
      /\ task' = [task EXCEPT ![w] = Null]
      /\ UNCHANGED <<queue, in_shutdown, state, blocked, callbacks, ref, standby,
                     creating, counts, group, client>>
  BY DEF worker_end, Goto
<1>2. pc \in [Worker -> Places] /\ creating \in BOOLEAN
  BY DEF Pool
<1>3. Types'
  BY <1>1 DEF Types, counts, group, client
<1>4. Pool'
  BY <1>1, <1>2, PoolGoto DEF Places
<1>5. \A v \in Worker \ {w} : pc'[v] = pc[v] /\ task'[v] = task[v]
  BY <1>1, <1>2 DEF Types
<1>6. Held' /\ RefsExact' /\ GroupBusy' /\ Callbacks' /\ Bounded'
  <2>1. \A v \in Worker : Stays(v)
    BY <1>1, <1>2, <1>5 DEF Stays, Neutral
  <2> QED BY <1>1, <2>1, QuietStep DEF group
<1>7. Blocking'
  <2>1. w \notin blocked
    BY <1>1 DEF Blocking
  <2>2. Others(w)
    BY <1>5 DEF Others
  <2> QED BY <1>1, <2>1, <2>2, BlockingMove DEF counts
<1> QED BY <1>3, <1>4, <1>6, <1>7

LEMMA SetMaxTasksPreserves ==
    ASSUME IInv, NEW n \in Limits, set_max_tasks(n)
    PROVE  IInv'
<1> USE DEF IInv
<1>1. /\ max_tasks' = n
      /\ UNCHANGED <<queue, in_shutdown, task, state, blocked, callbacks, ref,
                     pool, counts, group_queue, tasks_running, client>>
  BY DEF set_max_tasks
<1>2. Types'
  BY <1>1 DEF Types, counts, client
<1>3. Pool'
  BY <1>1, PoolUnchanged
<1>4. Held' /\ RefsExact' /\ GroupBusy' /\ Callbacks' /\ Bounded'
  <2>1. \A v \in Worker : Stays(v)
    BY <1>1 DEF Stays, pool
  <2> QED BY <1>1, <2>1, QuietStep
<1>5. Blocking'
  BY <1>1, BlockingKept DEF counts, pool
<1> QED BY <1>2, <1>3, <1>4, <1>5

LEMMA ShutdownPreserves ==
    ASSUME IInv, Shutdown
    PROVE  IInv'
<1> USE DEF IInv
<1>1. /\ in_shutdown' = TRUE
      /\ pc' = [w \in Worker |-> IF pc[w] = "standby" THEN "woken" ELSE pc[w]]
      /\ standby' = <<>>
      /\ UNCHANGED <<queue, task, state, blocked, callbacks, ref, creating,
                     counts, group, client>>
  BY DEF Shutdown
<1>2. pc \in [Worker -> Places]
  BY DEF Pool
<1>3. Types'
  BY <1>1 DEF Types, counts, group, client
<1>4. Pool'
  <2>1. pc' \in [Worker -> Places]
    BY <1>1, <1>2 DEF Places
  <2>2. Standby' = {}
    BY <1>1, <1>2 DEF Standby
  <2> QED BY <1>1, <2>1, <2>2, ListsEmpty DEF Pool
<1>5. Held' /\ RefsExact' /\ GroupBusy' /\ Callbacks' /\ Bounded'
  <2>1. \A v \in Worker : Stays(v)
    BY <1>1, <1>2 DEF Stays, Neutral
  <2> QED BY <1>1, <2>1, QuietStep DEF group
<1>6. Blocking'
  <2>1. \A w \in blocked : pc'[w] = pc[w]
    BY <1>1 DEF Blocking, Types
  <2> QED BY <1>1, <2>1, BlockingKept DEF counts
<1> QED BY <1>3, <1>4, <1>5, <1>6

LEMMA MaintenancePreserves ==
    ASSUME IInv, NEW ok \in BOOLEAN, maintenance(ok)
    PROVE  IInv'
<1> USE DEF IInv
<1>1. UNCHANGED <<queue, in_shutdown, task, blocked, callbacks, ref, waiting,
                  group, client>>
  BY DEF maintenance
<1>2. /\ Pool' /\ PoolMoves
      /\ long' \in 0 .. UINT_MAX
      /\ state' \in [Worker -> SUBSET {"EXECUTING_TASK", "LONG_TASK", "WAITING"}]
      /\ \A w \in Worker : "WAITING" \in state'[w] <=> "WAITING" \in state[w]
  <2>1. CASE UNCHANGED <<state, long, pool>>
    BY <2>1, PoolUnchanged DEF Types
  <2>2. ASSUME NEW ls \in SUBSET Worker,
               state' = [w \in Worker |-> IF w \in ls
                                          THEN state[w] \cup {"LONG_TASK"}
                                          ELSE state[w]],
               long' = Cardinality(ls),
               \/ maybe_wake_or_create_thread(queue, long', waiting, ok)
               \/ add_thread(ok)
        PROVE  <1>2!:
    <3>1. Pool' /\ PoolMoves
      BY <2>2, MaybeWake, AddThread
    <3>2. long' \in 0 .. UINT_MAX
      <4>1. Cardinality(ls) \in 0 .. MaxThreads /\ MaxThreads \in Nat
        BY WorkersFinite
      <4> QED BY <2>2, <4>1, ConstantsAssumption
    <3>3. \A w \in Worker :
            state[w] \in SUBSET {"EXECUTING_TASK", "LONG_TASK", "WAITING"}
      BY DEF Types
    <3>4. state' \in [Worker -> SUBSET {"EXECUTING_TASK", "LONG_TASK", "WAITING"}]
      BY <2>2, <3>3
    <3>5. \A w \in Worker : "WAITING" \in state'[w] <=> "WAITING" \in state[w]
      BY <2>2
    <3> QED BY <3>1, <3>2, <3>4, <3>5
  <2> QED BY <2>1, <2>2 DEF maintenance, active
<1>3. Types'
  BY <1>1, <1>2 DEF Types, group, client
<1>4. Held' /\ RefsExact' /\ GroupBusy' /\ Callbacks' /\ Bounded'
  <2>1. \A v \in Worker : Stays(v)
    BY <1>1, <1>2 DEF Stays, PoolMoves
  <2> QED BY <1>1, <2>1, QuietStep DEF group
<1>5. Blocking'
  <2>1. \A w \in blocked : pc'[w] = pc[w]
    BY <1>2 DEF Blocking, Types, PoolMoves, Neutral
  <2> QED BY <1>1, <1>2, <2>1, BlockingKept
<1> QED BY <1>2, <1>3, <1>4, <1>5

LEMMA WaitBeginPreserves ==
    ASSUME IInv, NEW w \in Worker, NEW ok \in BOOLEAN, wait_begin(w, ok)
    PROVE  IInv'
<1> USE DEF IInv
<1>1. /\ pc[w] = "callback" /\ w \notin blocked
      /\ blocked' = blocked \cup {w}
      /\ UNCHANGED <<queue, in_shutdown, task, callbacks, ref, long, group,
                     client>>
  BY DEF wait_begin
<1>2. \/ UNCHANGED <<state, waiting, pool>>
      \/ /\ state' = [state EXCEPT ![w] = @ \cup {"WAITING"}]
         /\ waiting' = waiting + 1
         /\ maybe_wake_or_create_thread(queue, long, waiting + 1, ok)
  BY DEF wait_begin
<1>3. Pool' /\ PoolMoves
  BY <1>2, PoolUnchanged, MaybeWake
<1>4. Types'
  <2>1. state' \in [Worker -> SUBSET {"EXECUTING_TASK", "LONG_TASK", "WAITING"}]
    <3>1. CASE UNCHANGED state
      BY <3>1 DEF Types
    <3>2. CASE state' = [state EXCEPT ![w] = @ \cup {"WAITING"}]
      BY <3>2 DEF Types
    <3> QED BY <1>2, <3>1, <3>2
  <2> QED BY <1>1, <2>1 DEF Types, group, client
<1>5. Held' /\ RefsExact' /\ GroupBusy' /\ Callbacks' /\ Bounded'
  <2>1. \A v \in Worker : Stays(v)
    BY <1>1, <1>3 DEF Stays, PoolMoves
  <2> QED BY <1>1, <2>1, QuietStep DEF group
<1>6. Blocking'
  <2>1. \A v \in blocked' : pc'[v] = "callback"
    BY <1>1, <1>3 DEF Blocking, Types, PoolMoves, Neutral
  <2>2. w \notin Waiters
    BY <1>1 DEF Blocking
  <2>3. IsFiniteSet(Waiters)
    BY WorkersFinite DEF Waiters
  <2>4. CASE UNCHANGED <<state, waiting, pool>>
    <3>1. Waiters' = Waiters
      BY <2>4 DEF Waiters
    <3> QED BY <1>1, <2>1, <2>4, <3>1 DEF Blocking
  <2>5. CASE /\ state' = [state EXCEPT ![w] = @ \cup {"WAITING"}]
             /\ waiting' = waiting + 1
    <3>1. Waiters' = Waiters \cup {w}
      BY <2>5 DEF Waiters, Types
    <3>2. Cardinality(Waiters') = Cardinality(Waiters) + 1
      BY <2>2, <2>3, <3>1, FS_AddElement
    <3> QED BY <1>1, <2>1, <2>5, <3>1, <3>2 DEF Blocking
  <2> QED BY <1>2, <2>4, <2>5
<1> QED BY <1>3, <1>4, <1>5, <1>6

LEMMA WaitEndPreserves ==
    ASSUME IInv, NEW w \in Worker, wait_end(w)
    PROVE  IInv'
<1> USE DEF IInv
<1>1. /\ w \in blocked
      /\ blocked' = blocked \ {w}
      /\ waiting' = IF "WAITING" \in state[w] THEN waiting - 1 ELSE waiting
      /\ state' = [state EXCEPT ![w] = @ \ {"WAITING"}]
      /\ UNCHANGED <<queue, in_shutdown, task, callbacks, ref, pool, long,
                     group, client>>
  BY DEF wait_end
<1>2. Types'
  <2>1. state' \in [Worker -> SUBSET {"EXECUTING_TASK", "LONG_TASK", "WAITING"}]
    BY <1>1 DEF Types
  <2> QED BY <1>1, <2>1 DEF Types, group, client
<1>3. Pool'
  BY <1>1, PoolUnchanged
<1>4. Held' /\ RefsExact' /\ GroupBusy' /\ Callbacks' /\ Bounded'
  <2>1. \A v \in Worker : Stays(v)
    BY <1>1 DEF Stays, pool
  <2> QED BY <1>1, <2>1, QuietStep DEF group
<1>5. Blocking'
  <2>1. Waiters' = Waiters \ {w}
    BY <1>1 DEF Waiters, Types
  <2>2. IsFiniteSet(Waiters)
    BY WorkersFinite DEF Waiters
  <2>3. Cardinality(Waiters') = IF w \in Waiters THEN Cardinality(Waiters) - 1
                                                 ELSE Cardinality(Waiters)
    BY <2>1, <2>2, FS_RemoveElement
  <2>4. w \in Waiters <=> "WAITING" \in state[w]
    BY DEF Waiters
  <2> QED BY <1>1, <2>1, <2>3, <2>4 DEF Blocking, pool
<1> QED BY <1>2, <1>3, <1>4, <1>5

-----------------------------------------------------------------------------
(* Steps that move a task *)

LEMMA QueueCounts ==
    ASSUME Types
    PROVE  \A u : Occurrences(queue, u) \in Nat /\ Occurrences(group_queue, u) \in Nat
BY OccurrencesType DEF Types

LEMMA SetCounts ==
    \A u : Cardinality(Holders(u)) \in Nat /\ Cardinality(Entering(u)) \in Nat
<1> TAKE u
<1>1. Holders(u) \subseteq Worker /\ Entering(u) \subseteq Worker
  BY DEF Holders, Entering
<1> QED BY <1>1, WorkersFinite

LEMMA RefsNatural == Types /\ RefsExact => \A u \in Task : ref[u] \in Nat
<1> SUFFICES ASSUME Types, RefsExact, NEW u \in Task
             PROVE  ref[u] \in Nat
  OBVIOUS
<1>1. ref[u] = Occurrences(queue, u) + Occurrences(group_queue, u)
                 + Cardinality(Holders(u))
  BY DEF RefsExact
<1>2. Occurrences(queue, u) \in Nat /\ Occurrences(group_queue, u) \in Nat
  BY QueueCounts
<1>3. Cardinality(Holders(u)) \in Nat
  BY SetCounts
<1> QED BY <1>1, <1>2, <1>3

(* References are given up, and RefsExact keeps them from going below 0. *)
LEMMA BoundedDown ==
    ASSUME Types, Bounded, Types', RefsExact', UNCHANGED submits,
           \A u \in Task : ref'[u] <= ref[u],
           \A u \in Timer : disarm'[u] = "off" => disarm[u] = "off"
    PROVE  Bounded'
<1>1. (Types /\ RefsExact => \A u \in Task : ref[u] \in Nat)'
  BY RefsNatural, PTL
<1>2. \A u \in Task : ref[u] \in Int /\ ref'[u] \in Nat /\ submits[u] \in Nat
  BY <1>1, ConstantsAssumption DEF Types
<1>3. \A u \in Task : ref[u] <= submits[u]
  BY DEF Bounded
<1>4. \A u \in Task : ref'[u] <= submits'[u]
  BY <1>2, <1>3
<1>5. \A u \in Timer : disarm'[u] = "off" => ref'[u] = 0
  BY <1>2 DEF Bounded, Task
<1> QED BY <1>4, <1>5 DEF Bounded

(* The set of workers in the loop of the group and its queue. *)
LEMMA GroupBusyKept ==
    ASSUME GroupBusy, Cardinality(Looping)' = Cardinality(Looping),
           UNCHANGED tasks_running, group_queue' # <<>> => group_queue # <<>>
    PROVE  GroupBusy'
BY DEF GroupBusy, Looping

LEMMA SubmitPreserves ==
    ASSUME IInv, NEW t \in Task, NEW ok \in BOOLEAN, submit_task(t, ok)
    PROVE  IInv'
<1> USE DEF IInv
<1>1. /\ t \in Timer => disarm[t] = "on"
      /\ submits[t] < MaxSubmits
      /\ submits' = [submits EXCEPT ![t] = @ + 1]
      /\ ref' = [ref EXCEPT ![t] = @ + 1]
      /\ queue' = Append(queue, t)
      /\ UNCHANGED <<in_shutdown, task, state, blocked, callbacks, counts, group,
                     disarm>>
  BY DEF submit_task
<1>2. Pool' /\ PoolMoves
  BY MaybeWake DEF submit_task
<1>3. Types'
  <2>1. queue' \in Seq(Task \cup {Null})
    BY <1>1, AppendProperties DEF Types
  <2>2. submits' \in [Task -> 0 .. MaxSubmits] /\ ref' \in [Task -> Int]
    BY <1>1, ConstantsAssumption DEF Types
  <2> QED BY <1>1, <2>1, <2>2 DEF Types, counts, group
<1>4. \A v \in Worker : Stays(v)
  BY <1>1, <1>2 DEF Stays, PoolMoves
<1>5. /\ \A u : /\ Holders(u)' = Holders(u)
                /\ Running(u)' = Running(u)
                /\ Entering(u)' = Entering(u)
      /\ Looping' = Looping
  BY <1>4, QuietSets
<1>6. \A u : Occurrences(queue, u)' = Occurrences(queue, u) + IF t = u THEN 1 ELSE 0
  <2> TAKE u
  <2>1. Occurrences(Append(queue, t), u)
          = Occurrences(queue, u) + IF t = u THEN 1 ELSE 0
    <3>1. queue \in Seq(Task \cup {Null}) /\ t \in Task \cup {Null}
      BY DEF Types
    <3> QED BY <3>1, OccurrencesAppend
  <2>2. Occurrences(queue, u)' = Occurrences(queue', u)
    BY DEF Occurrences
  <2> QED BY <1>1, <2>1, <2>2
<1>7. \A u \in Task : /\ ref'[u] = ref[u] + IF t = u THEN 1 ELSE 0
                      /\ submits'[u] = submits[u] + IF t = u THEN 1 ELSE 0
                      /\ ref[u] \in Int /\ submits[u] \in Nat
  BY <1>1, ConstantsAssumption DEF Types
<1>8. Held'
  BY <1>4 DEF Stays, Held, Neutral
<1>9. RefsExact'
  <2> SUFFICES ASSUME NEW u \in Task
               PROVE  ref'[u] = Occurrences(queue, u)'
                                  + Occurrences(group_queue, u)'
                                  + Cardinality(Holders(u))'
    BY DEF RefsExact
  <2>1. ref[u] = Occurrences(queue, u) + Occurrences(group_queue, u)
                   + Cardinality(Holders(u))
    BY DEF RefsExact
  <2>2. Occurrences(group_queue, u)' = Occurrences(group_queue, u)
    BY <1>1 DEF Occurrences, group
  <2>3. Cardinality(Holders(u))' = Cardinality(Holders(u))
    BY <1>5
  <2>4. /\ Occurrences(queue, u) \in Nat /\ Occurrences(group_queue, u) \in Nat
        /\ Cardinality(Holders(u)) \in Nat
    BY QueueCounts, SetCounts
  <2> QED BY <1>6, <1>7, <2>1, <2>2, <2>3, <2>4
<1>10. GroupBusy'
  BY <1>1, <1>5 DEF GroupBusy, Looping, group
<1>11. Callbacks'
  <2> SUFFICES ASSUME NEW u \in Timer
               PROVE  /\ callbacks'[u] > 0 <=> Running(u)' # {}
                      /\ \A v, w \in Running(u)' : v = w
                      /\ callbacks'[u] + Occurrences(queue, u)'
                           + Cardinality(Entering(u))' <= submits'[u]
    BY DEF Callbacks
  <2>1. /\ callbacks[u] > 0 <=> Running(u) # {}
        /\ \A v, w \in Running(u) : v = w
        /\ callbacks[u] + Occurrences(queue, u) + Cardinality(Entering(u))
             <= submits[u]
    BY DEF Callbacks
  <2>2. callbacks' = callbacks /\ callbacks[u] \in Nat
    BY <1>1 DEF Types
  <2>3. Cardinality(Entering(u))' = Cardinality(Entering(u))
    BY <1>5
  <2>4. Occurrences(queue, u) \in Nat /\ Cardinality(Entering(u)) \in Nat
    BY QueueCounts, SetCounts
  <2>5. u \in Task
    BY DEF Task
  <2>6. callbacks'[u] + Occurrences(queue, u)' + Cardinality(Entering(u))'
          <= submits'[u]
    BY <1>6, <1>7, <2>1, <2>2, <2>3, <2>4, <2>5
  <2> QED BY <1>5, <2>1, <2>2, <2>6
<1>12. Bounded'
  BY <1>1, <1>7 DEF Bounded, Task
<1>13. Blocking'
  <2>1. \A w \in blocked : pc'[w] = pc[w]
    BY <1>2 DEF Blocking, Types, PoolMoves, Neutral
  <2> QED BY <1>1, <2>1, BlockingKept DEF counts
<1> QED BY <1>2, <1>3, <1>8, <1>9, <1>10, <1>11, <1>12, <1>13

(* The references, the slots and the holders of each task change alike. *)
LEMMA RefsBalanced ==
    ASSUME Types, RefsExact, Types',
           \A u \in Task :
             ref'[u] = ref[u] + (Occurrences(queue, u)' - Occurrences(queue, u))
                         + (Occurrences(group_queue, u)'
                              - Occurrences(group_queue, u))
                         + (Cardinality(Holders(u))' - Cardinality(Holders(u)))
    PROVE  RefsExact'
<1> SUFFICES ASSUME NEW u \in Task
             PROVE  ref'[u] = Occurrences(queue, u)'
                                + Occurrences(group_queue, u)'
                                + Cardinality(Holders(u))'
  BY DEF RefsExact
<1>1. ref[u] = Occurrences(queue, u) + Occurrences(group_queue, u)
                 + Cardinality(Holders(u))
  BY DEF RefsExact
<1>2. /\ Occurrences(queue, u) \in Nat /\ Occurrences(group_queue, u) \in Nat
      /\ Cardinality(Holders(u)) \in Nat
  BY QueueCounts, SetCounts
<1>3. /\ Occurrences(queue, u)' \in Nat /\ Occurrences(group_queue, u)' \in Nat
      /\ Cardinality(Holders(u))' \in Nat
  <2>1. Occurrences(queue', u) \in Nat /\ Occurrences(group_queue', u) \in Nat
    BY OccurrencesType DEF Types
  <2>2. Occurrences(queue, u)' = Occurrences(queue', u)
    BY DEF Occurrences
  <2>3. Occurrences(group_queue, u)' = Occurrences(group_queue', u)
    BY DEF Occurrences
  <2>4. Cardinality(Holders(u))' \in Nat
    <3>1. Holders(u)' \subseteq Worker
      BY DEF Holders
    <3> QED BY <3>1, WorkersFinite
  <2> QED BY <2>1, <2>2, <2>3, <2>4
<1> QED BY <1>1, <1>2, <1>3

(* No callback starts or ends, and no repetition is added. *)
LEMMA CallbacksKept ==
    ASSUME Types, Callbacks, Types', UNCHANGED <<callbacks, submits>>,
           \A u \in Timer : Running(u)' = Running(u),
           \A u \in Timer :
             Occurrences(queue, u)' + Cardinality(Entering(u))'
               <= Occurrences(queue, u) + Cardinality(Entering(u))
    PROVE  Callbacks'
<1> SUFFICES ASSUME NEW u \in Timer
             PROVE  /\ callbacks'[u] > 0 <=> Running(u)' # {}
                    /\ \A v, w \in Running(u)' : v = w
                    /\ callbacks'[u] + Occurrences(queue, u)'
                         + Cardinality(Entering(u))' <= submits'[u]
  BY DEF Callbacks
<1>1. /\ callbacks[u] > 0 <=> Running(u) # {}
      /\ \A v, w \in Running(u) : v = w
      /\ callbacks[u] + Occurrences(queue, u) + Cardinality(Entering(u))
           <= submits[u]
  BY DEF Callbacks
<1>2. callbacks[u] \in Nat /\ submits[u] \in Nat
  BY ConstantsAssumption DEF Types, Task
<1>3. Occurrences(queue, u) \in Nat /\ Cardinality(Entering(u)) \in Nat
  BY QueueCounts, SetCounts
<1>4. Occurrences(queue, u)' \in Nat /\ Cardinality(Entering(u))' \in Nat
  <2>1. Occurrences(queue', u) \in Nat
    BY OccurrencesType DEF Types
  <2>2. Occurrences(queue, u)' = Occurrences(queue', u)
    BY DEF Occurrences
  <2>3. Entering(u)' \subseteq Worker
    BY DEF Entering
  <2> QED BY <2>1, <2>2, <2>3, WorkersFinite
<1>5. callbacks'[u] + Occurrences(queue, u)' + Cardinality(Entering(u))'
        <= submits'[u]
  <2>1. Occurrences(queue, u)' + Cardinality(Entering(u))'
          <= Occurrences(queue, u) + Cardinality(Entering(u))
    OBVIOUS
  <2>2. callbacks'[u] = callbacks[u] /\ submits'[u] = submits[u]
    OBVIOUS
  <2> QED BY <1>1, <1>2, <1>3, <1>4, <2>1, <2>2
<1> QED BY <1>1, <1>5

(* The steps of disarm() that only change the timer. *)
LEMMA DisarmPreserves ==
    ASSUME IInv, NEW t \in Timer, DisarmStop(t) \/ DisarmWait(t)
    PROVE  IInv'
<1> USE DEF IInv
<1>1. /\ \/ disarm' = [disarm EXCEPT ![t] = "cancel"]
         \/ disarm' = [disarm EXCEPT ![t] = "off"] /\ ref[t] = 0
      /\ UNCHANGED <<queue, in_shutdown, task, state, blocked, callbacks, ref,
                     pool, counts, group, submits>>
  BY DEF DisarmStop, DisarmWait
<1>2. Types'
  <2>1. disarm' \in [Timer -> {"on", "cancel", "wait", "off"}]
    BY <1>1 DEF Types
  <2> QED BY <1>1, <2>1 DEF Types, counts, group
<1>3. Pool'
  BY <1>1, PoolUnchanged
<1>4. \A v \in Worker : Stays(v)
  BY <1>1 DEF Stays, pool
<1>5. /\ \A u : /\ Holders(u)' = Holders(u)
                /\ Running(u)' = Running(u)
                /\ Entering(u)' = Entering(u)
      /\ Looping' = Looping
  BY <1>4, QuietSets
<1>6. Held'
  BY <1>4 DEF Stays, Held, Neutral
<1>7. RefsExact'
  BY <1>1, <1>5 DEF RefsExact, group
<1>8. GroupBusy'
  BY <1>1, <1>5 DEF GroupBusy, Looping, group
<1>9. Callbacks'
  BY <1>1, <1>5 DEF Callbacks
<1>10. Bounded'
  BY <1>1 DEF Bounded, Types
<1>11. Blocking'
  BY <1>1, BlockingKept DEF counts, pool
<1> QED BY <1>2, <1>3, <1>6, <1>7, <1>8, <1>9, <1>10, <1>11

LEMMA CancelPreserves ==
    ASSUME IInv, NEW t \in Timer, cancel_pending(t)
    PROVE  IInv'
<1> USE DEF IInv
<1>1. /\ disarm' = [disarm EXCEPT ![t] = "wait"]
      /\ queue' = Cancelled(queue, t)
      /\ ref' = [ref EXCEPT ![t] = @ - Occurrences(queue, t)]
      /\ UNCHANGED <<in_shutdown, task, state, blocked, callbacks, pool, counts,
                     group, submits>>
  BY DEF cancel_pending
<1>2. t \in Task /\ t # Null /\ \A u \in Task : u # Null
  BY ConstantsAssumption DEF Task
<1>3. /\ queue' \in Seq(Task \cup {Null})
      /\ \A u \in Task : Occurrences(queue', u)
                           = IF u = t THEN 0 ELSE Occurrences(queue, u)
  BY <1>1, <1>2, OccurrencesCancelled DEF Types
<1>4. \A u : Occurrences(queue, u) \in Nat /\ Occurrences(group_queue, u) \in Nat
  BY QueueCounts
<1>5. \A u \in Task : /\ ref[u] \in Int
                      /\ ref'[u] = ref[u] - IF u = t THEN Occurrences(queue, u)
                                            ELSE 0
  BY <1>1, <1>2, <1>4 DEF Types
<1>6. Types'
  <2>1. ref' \in [Task -> Int]
    BY <1>1, <1>2, <1>4 DEF Types
  <2>2. disarm' \in [Timer -> {"on", "cancel", "wait", "off"}]
    BY <1>1 DEF Types
  <2> QED BY <1>1, <1>3, <2>1, <2>2 DEF Types, counts, group
<1>7. Pool'
  BY <1>1, PoolUnchanged
<1>8. \A v \in Worker : Stays(v)
  BY <1>1 DEF Stays, pool
<1>9. /\ \A u : /\ Holders(u)' = Holders(u)
                /\ Running(u)' = Running(u)
                /\ Entering(u)' = Entering(u)
      /\ Looping' = Looping
  BY <1>8, QuietSets
<1>10. Held'
  BY <1>8 DEF Stays, Held, Neutral
<1>11. \A u \in Task : Occurrences(queue, u)' = IF u = t THEN 0
                                                ELSE Occurrences(queue, u)
  BY <1>3 DEF Occurrences
<1>12. RefsExact'
  <2>1. \A u : Occurrences(group_queue, u)' = Occurrences(group_queue, u)
    BY <1>1 DEF Occurrences, group
  <2>2. \A u : /\ Cardinality(Holders(u))' = Cardinality(Holders(u))
               /\ Cardinality(Holders(u)) \in Nat
    BY <1>9, SetCounts
  <2>3. \A u \in Task :
          ref'[u] = ref[u] + (Occurrences(queue, u)' - Occurrences(queue, u))
                      + (Occurrences(group_queue, u)' - Occurrences(group_queue, u))
                      + (Cardinality(Holders(u))' - Cardinality(Holders(u)))
    BY <1>4, <1>5, <1>11, <2>1, <2>2
  <2> QED BY <1>6, <2>3, RefsBalanced
<1>13. GroupBusy'
  BY <1>1, <1>9 DEF GroupBusy, Looping, group
<1>14. Callbacks'
  <2>1. \A u \in Timer : Occurrences(queue, u)' <= Occurrences(queue, u)
    BY <1>4, <1>11 DEF Task
  <2>2. \A u \in Timer : Occurrences(queue, u)' \in Nat
    BY <1>4, <1>11 DEF Task
  <2>3. \A u \in Timer : /\ Cardinality(Entering(u))' = Cardinality(Entering(u))
                         /\ Cardinality(Entering(u)) \in Nat
    BY <1>9, SetCounts
  <2>4. \A u \in Timer : Occurrences(queue, u)' + Cardinality(Entering(u))'
                           <= Occurrences(queue, u) + Cardinality(Entering(u))
    BY <1>4, <2>1, <2>2, <2>3
  <2> QED BY <1>1, <1>6, <1>9, <2>4, CallbacksKept
<1>15. Bounded'
  <2>1. \A u \in Task : ref'[u] <= ref[u]
    BY <1>4, <1>5
  <2>2. \A u \in Timer : disarm'[u] = "off" => disarm[u] = "off"
    BY <1>1 DEF Types
  <2> QED BY <1>1, <1>6, <1>12, <2>1, <2>2, BoundedDown
<1>16. Blocking'
  BY <1>1, BlockingKept DEF counts, pool
<1> QED BY <1>6, <1>7, <1>10, <1>12, <1>13, <1>14, <1>15, <1>16

(* A worker without a timer's task moves, and gets none. *)
LEMMA CallbacksOfOthers ==
    ASSUME Types, Callbacks, Types', NEW w \in Worker, Others(w),
           pc[w] \notin {"timer", "callback"}, pc'[w] \notin {"timer", "callback"},
           UNCHANGED <<queue, callbacks, submits>>
    PROVE  Callbacks'
<1>1. \A u \in Timer : Running(u)' = Running(u)
  <2> TAKE u \in Timer
  <2>1. w \notin Running(u) /\ w \notin Running(u)'
    BY DEF Running
  <2> QED BY <2>1, RunningMove
<1>2. \A u \in Timer : /\ Cardinality(Entering(u)) \in Nat
                       /\ Cardinality(Entering(u))' = Cardinality(Entering(u))
  <2> TAKE u \in Timer
  <2>1. w \notin Entering(u) /\ w \notin Entering(u)'
    BY DEF Entering
  <2> QED BY <2>1, EnteringMove
<1>3. \A u : /\ Occurrences(queue, u)' = Occurrences(queue, u)
             /\ Occurrences(queue, u) \in Nat
  BY QueueCounts
<1>4. \A u \in Timer : Occurrences(queue, u)' + Cardinality(Entering(u))'
                         <= Occurrences(queue, u) + Cardinality(Entering(u))
  BY <1>2, <1>3
<1> QED BY <1>1, <1>4, CallbacksKept

LEMMA GroupCancelPreserves ==
    ASSUME IInv, NEW t \in Grouped, GroupCancel(t)
    PROVE  IInv'
<1> USE DEF IInv
<1>1. /\ group_queue' = Cancelled(group_queue, t)
      /\ ref' = [ref EXCEPT ![t] = @ - Occurrences(group_queue, t)]
      /\ UNCHANGED <<queue, in_shutdown, task, state, blocked, callbacks, pool,
                     counts, tasks_running, max_tasks, client>>
  BY DEF GroupCancel
<1>2. t \in Task /\ t # Null /\ \A u \in Task : u # Null
  BY ConstantsAssumption DEF Task
<1>3. /\ group_queue' \in Seq(Grouped \cup {Null})
      /\ group_queue' = <<>> <=> group_queue = <<>>
      /\ \A u \in Task : Occurrences(group_queue', u)
                           = IF u = t THEN 0 ELSE Occurrences(group_queue, u)
  <2> DEFINE c == Cancelled(group_queue, t)
  <2>1. group_queue \in Seq(Grouped \cup {Null})
    BY DEF Types
  <2>2. c \in Seq(Grouped \cup {Null}) /\ (c = <<>> <=> group_queue = <<>>)
    BY <1>2, <2>1, OccurrencesCancelled
  <2>3. \A u \in Task :
          Occurrences(c, u) = IF u = t THEN 0 ELSE Occurrences(group_queue, u)
    BY <1>2, <2>1, OccurrencesCancelled
  <2> HIDE DEF c
  <2>4. group_queue' = c
    BY <1>1 DEF c
  <2> QED BY <2>2, <2>3, <2>4
<1>4. \A u : Occurrences(queue, u) \in Nat /\ Occurrences(group_queue, u) \in Nat
  BY QueueCounts
<1>5. \A u \in Task :
        /\ ref[u] \in Int
        /\ ref'[u] = ref[u] - IF u = t THEN Occurrences(group_queue, u) ELSE 0
  BY <1>1, <1>2, <1>4 DEF Types
<1>6. Types'
  <2>1. ref' \in [Task -> Int]
    BY <1>1, <1>2, <1>4 DEF Types
  <2> QED BY <1>1, <1>3, <2>1 DEF Types, counts, client
<1>7. Pool'
  BY <1>1, PoolUnchanged
<1>8. \A v \in Worker : Stays(v)
  BY <1>1 DEF Stays, pool
<1>9. /\ \A u : /\ Holders(u)' = Holders(u)
                /\ Running(u)' = Running(u)
                /\ Entering(u)' = Entering(u)
      /\ Looping' = Looping
  BY <1>8, QuietSets
<1>10. Held'
  BY <1>8 DEF Stays, Held, Neutral
<1>11. \A u \in Task :
         Occurrences(group_queue, u)' = IF u = t THEN 0
                                        ELSE Occurrences(group_queue, u)
  BY <1>3 DEF Occurrences
<1>12. RefsExact'
  <2>1. \A u : Occurrences(queue, u)' = Occurrences(queue, u)
    BY <1>1 DEF Occurrences
  <2>2. \A u : /\ Cardinality(Holders(u))' = Cardinality(Holders(u))
               /\ Cardinality(Holders(u)) \in Nat
    BY <1>9, SetCounts
  <2>3. \A u \in Task :
          ref'[u] = ref[u] + (Occurrences(queue, u)' - Occurrences(queue, u))
                      + (Occurrences(group_queue, u)' - Occurrences(group_queue, u))
                      + (Cardinality(Holders(u))' - Cardinality(Holders(u)))
    BY <1>4, <1>5, <1>11, <2>1, <2>2
  <2> QED BY <1>6, <2>3, RefsBalanced
<1>13. GroupBusy'
  BY <1>1, <1>3, <1>9, GroupBusyKept
<1>14. Callbacks'
  BY <1>1, <1>9 DEF Callbacks, client
<1>15. Bounded'
  <2>1. \A u \in Task : ref'[u] <= ref[u]
    BY <1>4, <1>5
  <2> QED BY <1>1, <1>6, <1>12, <2>1, BoundedDown DEF client
<1>16. Blocking'
  BY <1>1, BlockingKept DEF counts, pool
<1> QED BY <1>6, <1>7, <1>10, <1>12, <1>13, <1>14, <1>15, <1>16

LEMMA DequeuePreserves ==
    ASSUME IInv, NEW w \in Worker, Dequeue(w)
    PROVE  IInv'
<1> USE DEF IInv
<1>1. PICK h : h = Head(queue)
  OBVIOUS
<1>2. /\ pc[w] \in {"get", "woken"}
      /\ queue # <<>>
      /\ queue' = Tail(queue)
      /\ task' = [task EXCEPT ![w] = h]
      /\ pc' = [pc EXCEPT ![w] = IF h = Null THEN "ending"
                                 ELSE IF h \in Timer THEN "timer" ELSE "group"]
      /\ long' = DecLong(w)
      /\ state' = [state EXCEPT ![w] = {"EXECUTING_TASK"}]
      /\ UNCHANGED <<in_shutdown, blocked, callbacks, ref, standby, creating,
                     waiting, group, client>>
  BY <1>1 DEF Dequeue
<1>3. /\ pc \in [Worker -> Places] /\ creating \in BOOLEAN
      /\ task \in [Worker -> Task \cup {Null}]
  BY DEF Pool, Types
<1>4. h \in Task \cup {Null} /\ queue' \in Seq(Task \cup {Null})
  BY <1>1, <1>2, HeadTailProperties DEF Types
<1>5. \A u \in Task : u # Null /\ (u \in Timer <=> u \notin Grouped)
  BY ConstantsAssumption DEF Task
<1>6. Others(w)
  BY <1>2, <1>3 DEF Others
<1>7. /\ task'[w] = h
      /\ pc'[w] = IF h = Null THEN "ending"
                  ELSE IF h \in Timer THEN "timer" ELSE "group"
  BY <1>2, <1>3
<1>8. Types'
  <2>1. long' \in 0 .. UINT_MAX
    BY <1>2, DecLongType
  <2>2. state' \in [Worker -> SUBSET {"EXECUTING_TASK", "LONG_TASK", "WAITING"}]
    BY <1>2 DEF Types
  <2>3. task' \in [Worker -> Task \cup {Null}]
    BY <1>2, <1>3, <1>4
  <2> QED BY <1>2, <1>4, <2>1, <2>2, <2>3 DEF Types, group, client
<1>9. Pool'
  BY <1>2, <1>3, PoolGoto DEF Places
<1>10. Held'
  <2>1. \A v \in Worker \ {w} : pc'[v] = pc[v] /\ task'[v] = task[v]
    BY <1>6 DEF Others
  <2>2. /\ pc'[w] \in {"timer", "callback", "release"} => task'[w] \in Timer
        /\ pc'[w] \in {"group", "run"} => task'[w] \in Grouped
    BY <1>4, <1>5, <1>7
  <2> QED BY <2>1, <2>2 DEF Held
<1>11. \A u : Occurrences(queue, u)' = Occurrences(queue, u)
                                         - IF h = u THEN 1 ELSE 0
  <2> TAKE u
  <2>1. Occurrences(Tail(queue), u)
          = Occurrences(queue, u) - IF Head(queue) = u THEN 1 ELSE 0
    BY <1>2, OccurrencesTail DEF Types
  <2>2. Occurrences(queue, u)' = Occurrences(queue', u)
    BY DEF Occurrences
  <2> QED BY <1>1, <1>2, <2>1, <2>2
<1>12. \A u : Occurrences(queue, u) \in Nat /\ Occurrences(group_queue, u) \in Nat
  BY QueueCounts
<1>13. RefsExact'
  <2>1. ASSUME NEW u \in Task
        PROVE  /\ Cardinality(Holders(u)) \in Nat
               /\ Cardinality(Holders(u))' = Cardinality(Holders(u))
                                               + IF h = u THEN 1 ELSE 0
    <3>1. ~Holds(w, u) /\ (Holds(w, u)' <=> h = u)
      BY <1>2, <1>5, <1>7 DEF Holds
    <3> QED BY <1>6, <3>1, HoldersMove
  <2>2. \A u : Occurrences(group_queue, u)' = Occurrences(group_queue, u)
    BY <1>2 DEF Occurrences, group
  <2>3. ref' = ref /\ \A u \in Task : ref[u] \in Int
    BY <1>2 DEF Types
  <2>4. \A u \in Task :
          ref'[u] = ref[u] + (Occurrences(queue, u)' - Occurrences(queue, u))
                      + (Occurrences(group_queue, u)' - Occurrences(group_queue, u))
                      + (Cardinality(Holders(u))' - Cardinality(Holders(u)))
    BY <1>11, <1>12, <2>1, <2>2, <2>3
  <2> QED BY <1>8, <2>4, RefsBalanced
<1>14. GroupBusy'
  <2>1. w \notin Looping /\ w \notin Looping'
    BY <1>2, <1>7 DEF Looping
  <2> QED BY <1>2, <1>6, <2>1, LoopingMove, GroupBusyKept DEF group
<1>15. Callbacks'
  <2>1. \A u \in Timer : Running(u)' = Running(u)
    <3> TAKE u \in Timer
    <3>1. w \notin Running(u) /\ w \notin Running(u)'
      BY <1>2, <1>7 DEF Running
    <3> QED BY <1>6, <3>1, RunningMove
  <2>2. ASSUME NEW u \in Timer
        PROVE  /\ Cardinality(Entering(u)) \in Nat
               /\ Cardinality(Entering(u))' = Cardinality(Entering(u))
                                                + IF h = u THEN 1 ELSE 0
    <3>1. w \notin Entering(u)
      BY <1>2 DEF Entering
    <3>2. w \in Entering(u)' <=> h = u
      BY <1>5, <1>7 DEF Entering, Task
    <3> QED BY <1>6, <3>1, <3>2, EnteringMove
  <2>3. \A u \in Timer : Occurrences(queue, u)' + Cardinality(Entering(u))'
                           <= Occurrences(queue, u) + Cardinality(Entering(u))
    BY <1>11, <1>12, <2>2
  <2> QED BY <1>2, <1>8, <2>1, <2>3, CallbacksKept DEF client
<1>16. Bounded'
  BY <1>2 DEF Bounded, client
<1>17. Blocking'
  <2>1. w \notin blocked
    BY <1>2 DEF Blocking
  <2> QED BY <1>2, <1>6, <2>1, BlockingMove
<1> QED BY <1>8, <1>9, <1>10, <1>13, <1>14, <1>15, <1>16, <1>17

LEMMA ReleasePreserves ==
    ASSUME IInv, NEW w \in Worker, release(w)
    PROVE  IInv'
<1> USE DEF IInv
<1>1. PICK t : t = task[w]
  OBVIOUS
<1>2. /\ pc[w] = "release" /\ pc' = [pc EXCEPT ![w] = "get"]
      /\ ref' = [ref EXCEPT ![t] = @ - 1]
      /\ task' = [task EXCEPT ![w] = Null]
      /\ UNCHANGED <<queue, in_shutdown, state, blocked, callbacks, standby,
                     creating, counts, group, client>>
  BY <1>1 DEF release, Goto
<1>3. /\ pc \in [Worker -> Places] /\ creating \in BOOLEAN
      /\ task \in [Worker -> Task \cup {Null}]
  BY DEF Pool, Types
<1>4. t \in Timer /\ t \in Task
  BY <1>1, <1>2 DEF Held, Task
<1>5. Others(w)
  BY <1>2, <1>3 DEF Others
<1>6. task'[w] = Null /\ pc'[w] = "get"
  BY <1>2, <1>3
<1>7. \A u \in Task : /\ ref[u] \in Int
                      /\ ref'[u] = ref[u] - IF u = t THEN 1 ELSE 0
  BY <1>2, <1>4 DEF Types
<1>8. Types'
  <2>1. task' \in [Worker -> Task \cup {Null}]
    BY <1>2, <1>3
  <2>2. ref' \in [Task -> Int]
    BY <1>2, <1>4 DEF Types
  <2> QED BY <1>2, <2>1, <2>2 DEF Types, counts, group, client
<1>9. Pool'
  BY <1>2, <1>3, PoolGoto DEF Places
<1>10. Held'
  BY <1>5, <1>6 DEF Held, Others
<1>11. RefsExact'
  <2>1. ASSUME NEW u \in Task
        PROVE  /\ Cardinality(Holders(u)) \in Nat
               /\ Cardinality(Holders(u))' = Cardinality(Holders(u))
                                               - IF u = t THEN 1 ELSE 0
    <3>1. ~Holds(w, u)' /\ (Holds(w, u) <=> u = t)
      BY <1>1, <1>2, <1>6 DEF Holds
    <3> QED BY <1>5, <3>1, HoldersMove
  <2>2. \A u : /\ Occurrences(group_queue, u)' = Occurrences(group_queue, u)
               /\ Occurrences(queue, u)' = Occurrences(queue, u)
    BY <1>2 DEF Occurrences, group
  <2>3. \A u : Occurrences(queue, u) \in Nat /\ Occurrences(group_queue, u) \in Nat
    BY QueueCounts
  <2>4. \A u \in Task :
          ref'[u] = ref[u] + (Occurrences(queue, u)' - Occurrences(queue, u))
                      + (Occurrences(group_queue, u)' - Occurrences(group_queue, u))
                      + (Cardinality(Holders(u))' - Cardinality(Holders(u)))
    BY <1>7, <2>1, <2>2, <2>3
  <2> QED BY <1>8, <2>4, RefsBalanced
<1>12. GroupBusy'
  <2>1. w \notin Looping /\ w \notin Looping'
    BY <1>2, <1>6 DEF Looping
  <2> QED BY <1>2, <1>5, <2>1, LoopingMove, GroupBusyKept DEF group
<1>13. Callbacks'
  BY <1>2, <1>5, <1>6, <1>8, CallbacksOfOthers DEF client
<1>14. Bounded'
  <2>1. \A u \in Task : ref'[u] <= ref[u]
    BY <1>7
  <2> QED BY <1>2, <1>8, <1>11, <2>1, BoundedDown DEF client
<1>15. Blocking'
  <2>1. w \notin blocked
    BY <1>2 DEF Blocking
  <2> QED BY <1>2, <1>5, <2>1, BlockingMove DEF counts
<1> QED BY <1>8, <1>9, <1>10, <1>11, <1>12, <1>13, <1>14, <1>15

LEMMA TimerEnterPreserves ==
    ASSUME IInv, NEW w \in Worker, TimerEnter(w)
    PROVE  IInv'
<1> USE DEF IInv
<1>1. PICK t : t = task[w]
  OBVIOUS
<1>2. /\ pc[w] = "timer"
      /\ pc' = [pc EXCEPT ![w] = IF callbacks[t] > 0 THEN "release"
                                 ELSE "callback"]
      /\ callbacks' = [callbacks EXCEPT ![t] = @ + 1]
      /\ UNCHANGED <<queue, in_shutdown, task, state, blocked, ref, standby,
                     creating, counts, group, client>>
  BY <1>1 DEF TimerEnter, Goto
<1>3. /\ pc \in [Worker -> Places] /\ creating \in BOOLEAN
      /\ task \in [Worker -> Task \cup {Null}]
  BY DEF Pool, Types
<1>4. t \in Timer
  BY <1>1, <1>2 DEF Held
<1>5. Others(w)
  BY <1>2, <1>3 DEF Others
<1>6. /\ task'[w] = t
      /\ pc'[w] = IF callbacks[t] > 0 THEN "release" ELSE "callback"
  BY <1>1, <1>2, <1>3
<1>7. \A u \in Timer : /\ callbacks[u] \in Nat
                       /\ callbacks'[u] = callbacks[u] + IF u = t THEN 1 ELSE 0
  BY <1>2, <1>4 DEF Types
<1>8. Types'
  <2>1. callbacks' \in [Timer -> Nat]
    BY <1>2, <1>4 DEF Types
  <2> QED BY <1>2, <2>1 DEF Types, counts, group, client
<1>9. Pool'
  BY <1>2, <1>3, PoolGoto DEF Places
<1>10. Held'
  BY <1>4, <1>5, <1>6 DEF Held, Others
<1>11. RefsExact'
  <2>1. \A u : Cardinality(Holders(u))' = Cardinality(Holders(u))
    <3> TAKE u
    <3>1. Holds(w, u) <=> Holds(w, u)'
      BY <1>1, <1>2, <1>6 DEF Holds
    <3> QED BY <1>5, <3>1, HoldersMove
  <2> QED BY <1>2, <2>1 DEF RefsExact, group
<1>12. GroupBusy'
  <2>1. w \notin Looping /\ w \notin Looping'
    BY <1>2, <1>6 DEF Looping
  <2> QED BY <1>2, <1>5, <2>1, LoopingMove, GroupBusyKept DEF group
<1>13. Callbacks'
  <2> SUFFICES ASSUME NEW u \in Timer
               PROVE  /\ callbacks'[u] > 0 <=> Running(u)' # {}
                      /\ \A x, y \in Running(u)' : x = y
                      /\ callbacks'[u] + Occurrences(queue, u)'
                           + Cardinality(Entering(u))' <= submits'[u]
    BY DEF Callbacks
  <2>1. /\ callbacks[u] > 0 <=> Running(u) # {}
        /\ \A x, y \in Running(u) : x = y
        /\ callbacks[u] + Occurrences(queue, u) + Cardinality(Entering(u))
             <= submits[u]
    BY DEF Callbacks
  <2>2. callbacks'[u] + Occurrences(queue, u)' + Cardinality(Entering(u))'
          <= submits'[u]
    <3>1. Cardinality(Entering(u))' = Cardinality(Entering(u))
                                        - IF u = t THEN 1 ELSE 0
      <4>1. w \notin Entering(u)' /\ (w \in Entering(u) <=> u = t)
        BY <1>1, <1>2, <1>6 DEF Entering
      <4>2. Cardinality(Entering(u)) \in Nat
        BY SetCounts
      <4> QED BY <1>5, <4>1, <4>2, EnteringMove
    <3>2. /\ Occurrences(queue, u)' = Occurrences(queue, u)
          /\ submits'[u] = submits[u]
      BY <1>2 DEF client
    <3>3. /\ Occurrences(queue, u) \in Nat /\ Cardinality(Entering(u)) \in Nat
          /\ submits[u] \in Nat
      BY QueueCounts, SetCounts, ConstantsAssumption DEF Types, Task
    <3> QED BY <1>7, <2>1, <3>1, <3>2, <3>3
  <2>3. w \notin Running(u) /\ (w \in Running(u)' <=> u = t /\ ~(callbacks[t] > 0))
    BY <1>2, <1>6 DEF Running
  <2>4. CASE u = t /\ ~(callbacks[t] > 0)
    <3>1. Running(u) = {} /\ Running(u)' \ {w} = Running(u) \ {w}
      BY <1>5, <2>1, <2>4 DEF Running, Others
    <3>2. Running(u)' = {w}
      BY <2>3, <2>4, <3>1
    <3>3. callbacks'[u] > 0
      BY <1>7, <2>4
    <3> QED BY <2>2, <3>2, <3>3
  <2>5. CASE ~(u = t /\ ~(callbacks[t] > 0))
    <3>1. Running(u)' = Running(u)
      BY <1>5, <2>3, <2>5, RunningMove
    <3>2. callbacks'[u] > 0 <=> callbacks[u] > 0
      BY <1>7, <2>5
    <3> QED BY <2>1, <2>2, <3>1, <3>2
  <2> QED BY <2>4, <2>5
<1>14. Bounded'
  BY <1>2 DEF Bounded, client
<1>15. Blocking'
  <2>1. w \notin blocked
    BY <1>2 DEF Blocking
  <2> QED BY <1>2, <1>5, <2>1, BlockingMove DEF counts
<1> QED BY <1>8, <1>9, <1>10, <1>11, <1>12, <1>13, <1>14, <1>15

LEMMA TimerNextPreserves ==
    ASSUME IInv, NEW w \in Worker, TimerNext(w)
    PROVE  IInv'
<1> USE DEF IInv
<1>1. PICK t : t = task[w]
  OBVIOUS
<1>2. /\ w \notin blocked
      /\ pc[w] = "callback"
      /\ pc' = [pc EXCEPT ![w] = IF callbacks[t] > 1 THEN "callback"
                                 ELSE "release"]
      /\ callbacks' = [callbacks EXCEPT ![t] = @ - 1]
      /\ UNCHANGED <<queue, in_shutdown, task, state, blocked, ref, standby,
                     creating, counts, group, client>>
  BY <1>1 DEF TimerNext, Goto
<1>3. /\ pc \in [Worker -> Places] /\ creating \in BOOLEAN
      /\ task \in [Worker -> Task \cup {Null}]
  BY DEF Pool, Types
<1>4. t \in Timer
  BY <1>1, <1>2 DEF Held
<1>5. Others(w)
  BY <1>2, <1>3 DEF Others
<1>6. /\ task'[w] = t
      /\ pc'[w] = IF callbacks[t] > 1 THEN "callback" ELSE "release"
  BY <1>1, <1>2, <1>3
<1>7. w \in Running(t)
  BY <1>1, <1>2 DEF Running
<1>8. callbacks[t] \in Nat /\ callbacks[t] > 0
  BY <1>4, <1>7 DEF Callbacks, Types
<1>9. \A u \in Timer : /\ callbacks[u] \in Nat
                       /\ callbacks'[u] = callbacks[u] - IF u = t THEN 1 ELSE 0
  BY <1>2, <1>4 DEF Types
<1>10. Types'
  <2>1. callbacks[t] - 1 \in Nat
    BY <1>8
  <2>2. callbacks' \in [Timer -> Nat]
    BY <1>2, <1>4, <2>1 DEF Types
  <2> QED BY <1>2, <2>2 DEF Types, counts, group, client
<1>11. Pool'
  BY <1>2, <1>3, PoolGoto DEF Places
<1>12. Held'
  BY <1>4, <1>5, <1>6 DEF Held, Others
<1>13. RefsExact'
  <2>1. \A u : Cardinality(Holders(u))' = Cardinality(Holders(u))
    <3> TAKE u
    <3>1. Holds(w, u) <=> Holds(w, u)'
      BY <1>1, <1>2, <1>6 DEF Holds
    <3> QED BY <1>5, <3>1, HoldersMove
  <2> QED BY <1>2, <2>1 DEF RefsExact, group
<1>14. GroupBusy'
  <2>1. w \notin Looping /\ w \notin Looping'
    BY <1>2, <1>6 DEF Looping
  <2> QED BY <1>2, <1>5, <2>1, LoopingMove, GroupBusyKept DEF group
<1>15. Callbacks'
  <2> SUFFICES ASSUME NEW u \in Timer
               PROVE  /\ callbacks'[u] > 0 <=> Running(u)' # {}
                      /\ \A x, y \in Running(u)' : x = y
                      /\ callbacks'[u] + Occurrences(queue, u)'
                           + Cardinality(Entering(u))' <= submits'[u]
    BY DEF Callbacks
  <2>1. /\ callbacks[u] > 0 <=> Running(u) # {}
        /\ \A x, y \in Running(u) : x = y
        /\ callbacks[u] + Occurrences(queue, u) + Cardinality(Entering(u))
             <= submits[u]
    BY DEF Callbacks
  <2>2. callbacks'[u] + Occurrences(queue, u)' + Cardinality(Entering(u))'
          <= submits'[u]
    <3>1. Cardinality(Entering(u))' = Cardinality(Entering(u))
      <4>1. w \notin Entering(u)' /\ w \notin Entering(u)
        BY <1>2, <1>6 DEF Entering
      <4> QED BY <1>5, <4>1, EnteringMove
    <3>2. /\ Occurrences(queue, u)' = Occurrences(queue, u)
          /\ submits'[u] = submits[u]
      BY <1>2 DEF client
    <3>3. /\ Occurrences(queue, u) \in Nat /\ Cardinality(Entering(u)) \in Nat
          /\ submits[u] \in Nat
      BY QueueCounts, SetCounts, ConstantsAssumption DEF Types, Task
    <3> QED BY <1>9, <2>1, <3>1, <3>2, <3>3
  <2>3. /\ w \in Running(u) <=> u = t
        /\ w \in Running(u)' <=> u = t /\ callbacks[t] > 1
    BY <1>1, <1>2, <1>6 DEF Running
  <2>4. CASE u = t /\ ~(callbacks[t] > 1)
    <3>1. Running(u) = {w}
      BY <2>1, <2>3, <2>4
    <3>2. Running(u)' \ {w} = Running(u) \ {w}
      BY <1>5 DEF Running, Others
    <3>3. Running(u)' = {}
      BY <2>3, <2>4, <3>1, <3>2
    <3>4. ~(callbacks'[u] > 0)
      BY <1>8, <1>9, <2>4
    <3> QED BY <2>2, <3>3, <3>4
  <2>5. CASE ~(u = t /\ ~(callbacks[t] > 1))
    <3>1. Running(u)' = Running(u)
      BY <1>5, <2>3, <2>5, RunningMove
    <3>2. callbacks'[u] > 0 <=> callbacks[u] > 0
      BY <1>8, <1>9, <2>5
    <3> QED BY <2>1, <2>2, <3>1, <3>2
  <2> QED BY <2>4, <2>5
<1>16. Bounded'
  BY <1>2 DEF Bounded, client
<1>17. Blocking'
  BY <1>2, <1>5, BlockingMove DEF counts
<1> QED BY <1>10, <1>11, <1>12, <1>13, <1>14, <1>15, <1>16, <1>17

LEMMA GroupEnterPreserves ==
    ASSUME IInv, NEW w \in Worker, GroupEnter(w)
    PROVE  IInv'
<1> USE DEF IInv
<1>1. PICK t : t = task[w]
  OBVIOUS
<1>2. PICK full \in BOOLEAN : full <=> tasks_running = max_tasks
  OBVIOUS
<1>3. /\ pc[w] = "group"
      /\ pc' = [pc EXCEPT ![w] = IF full THEN "get" ELSE "run"]
      /\ group_queue' = IF full THEN Append(group_queue, t) ELSE group_queue
      /\ tasks_running' = IF full THEN tasks_running ELSE tasks_running + 1
      /\ task' = [task EXCEPT ![w] = IF full THEN Null ELSE t]
      /\ UNCHANGED <<queue, in_shutdown, state, blocked, callbacks, ref,
                     standby, creating, counts, max_tasks, client>>
  BY <1>1, <1>2 DEF GroupEnter, Goto
<1>4. /\ pc \in [Worker -> Places] /\ creating \in BOOLEAN
      /\ task \in [Worker -> Task \cup {Null}]
  BY DEF Pool, Types
<1>5. t \in Grouped /\ t \in Task /\ Null \notin Task
  BY <1>1, <1>3, ConstantsAssumption DEF Held, Task
<1>6. Others(w)
  BY <1>3, <1>4 DEF Others
<1>7. /\ task'[w] = IF full THEN Null ELSE t
      /\ pc'[w] = IF full THEN "get" ELSE "run"
  BY <1>3, <1>4
<1>8. group_queue \in Seq(Grouped \cup {Null}) /\ t \in Grouped \cup {Null}
  BY <1>5 DEF Types
<1>9. Types'
  <2>1. group_queue' \in Seq(Grouped \cup {Null})
    BY <1>3, <1>8, AppendProperties
  <2>2. task' \in [Worker -> Task \cup {Null}]
    BY <1>3, <1>4, <1>5
  <2> QED BY <1>3, <2>1, <2>2 DEF Types, counts, client
<1>10. Pool'
  BY <1>3, <1>4, PoolGoto DEF Places
<1>11. Held'
  BY <1>5, <1>6, <1>7 DEF Held, Others
<1>12. RefsExact'
  <2>1. ASSUME NEW u \in Task
        PROVE  /\ Cardinality(Holders(u)) \in Nat
               /\ Cardinality(Holders(u))' = Cardinality(Holders(u))
                                               - IF full /\ t = u THEN 1 ELSE 0
    <3>1. /\ Holds(w, u) <=> t = u
          /\ Holds(w, u)' <=> ~full /\ t = u
      BY <1>1, <1>3, <1>5, <1>7 DEF Holds
    <3> QED BY <1>6, <3>1, HoldersMove
  <2>2. \A u : /\ Occurrences(group_queue, u) \in Nat
               /\ Occurrences(queue, u)' = Occurrences(queue, u)
               /\ Occurrences(queue, u) \in Nat
    BY <1>3, QueueCounts
  <2>3. \A u : Occurrences(group_queue, u)'
                 = Occurrences(group_queue, u) + IF full /\ t = u THEN 1 ELSE 0
    <3> TAKE u
    <3>1. Occurrences(group_queue, u)' = Occurrences(group_queue', u)
      BY DEF Occurrences
    <3>2. CASE full
      <4>1. Occurrences(Append(group_queue, t), u)
              = Occurrences(group_queue, u) + IF t = u THEN 1 ELSE 0
        BY <1>8, OccurrencesAppend
      <4> QED BY <1>3, <3>1, <3>2, <4>1
    <3>3. CASE ~full
      BY <1>3, <2>2, <3>1, <3>3
    <3> QED BY <3>2, <3>3
  <2>4. ref' = ref /\ \A u \in Task : ref[u] \in Int
    BY <1>3 DEF Types
  <2>5. \A u \in Task :
          ref'[u] = ref[u] + (Occurrences(queue, u)' - Occurrences(queue, u))
                      + (Occurrences(group_queue, u)' - Occurrences(group_queue, u))
                      + (Cardinality(Holders(u))' - Cardinality(Holders(u)))
    BY <2>1, <2>2, <2>3, <2>4
  <2> QED BY <1>9, <2>5, RefsBalanced
<1>13. GroupBusy'
  <2>1. w \notin Looping /\ (w \in Looping' <=> ~full)
    BY <1>3, <1>7 DEF Looping
  <2>2. /\ Cardinality(Looping) \in Nat
        /\ Cardinality(Looping)' = Cardinality(Looping) + IF full THEN 0 ELSE 1
    BY <1>6, <2>1, LoopingMove
  <2>3. tasks_running = Cardinality(Looping)
    BY DEF GroupBusy, Looping
  <2>4. tasks_running' = Cardinality(Looping)'
    BY <1>3, <2>2, <2>3
  <2>5. tasks_running' > 0
    <3>1. max_tasks \in Nat \ {0}
      BY ConstantsAssumption DEF Types
    <3> QED BY <1>2, <1>3, <2>2, <2>3, <3>1
  <2> QED BY <2>4, <2>5 DEF GroupBusy, Looping
<1>14. Callbacks'
  BY <1>3, <1>6, <1>7, <1>9, CallbacksOfOthers DEF client
<1>15. Bounded'
  BY <1>3 DEF Bounded, client
<1>16. Blocking'
  <2>1. w \notin blocked
    BY <1>3 DEF Blocking
  <2> QED BY <1>3, <1>6, <2>1, BlockingMove DEF counts
<1> QED BY <1>9, <1>10, <1>11, <1>12, <1>13, <1>14, <1>15, <1>16

LEMMA GroupRunPreserves ==
    ASSUME IInv, NEW w \in Worker, GroupRun(w)
    PROVE  IInv'
<1> USE DEF IInv
<1>1. PICK t : t = task[w]
  OBVIOUS
<1>2. /\ pc[w] = "run" /\ pc' = [pc EXCEPT ![w] = "next"]
      /\ ref' = [ref EXCEPT ![t] = @ - 1]
      /\ task' = [task EXCEPT ![w] = Null]
      /\ UNCHANGED <<queue, in_shutdown, state, blocked, callbacks, standby,
                     creating, counts, group, client>>
  BY <1>1 DEF GroupRun, Goto
<1>3. /\ pc \in [Worker -> Places] /\ creating \in BOOLEAN
      /\ task \in [Worker -> Task \cup {Null}]
  BY DEF Pool, Types
<1>4. t \in Task
  BY <1>1, <1>2 DEF Held, Task
<1>5. Others(w)
  BY <1>2, <1>3 DEF Others
<1>6. task'[w] = Null /\ pc'[w] = "next"
  BY <1>2, <1>3
<1>7. \A u \in Task : /\ ref[u] \in Int
                      /\ ref'[u] = ref[u] - IF u = t THEN 1 ELSE 0
  BY <1>2, <1>4 DEF Types
<1>8. Types'
  <2>1. task' \in [Worker -> Task \cup {Null}]
    BY <1>2, <1>3
  <2>2. ref' \in [Task -> Int]
    BY <1>2, <1>4 DEF Types
  <2> QED BY <1>2, <2>1, <2>2 DEF Types, counts, group, client
<1>9. Pool'
  BY <1>2, <1>3, PoolGoto DEF Places
<1>10. Held'
  BY <1>5, <1>6 DEF Held, Others
<1>11. RefsExact'
  <2>1. ASSUME NEW u \in Task
        PROVE  /\ Cardinality(Holders(u)) \in Nat
               /\ Cardinality(Holders(u))' = Cardinality(Holders(u))
                                               - IF u = t THEN 1 ELSE 0
    <3>1. ~Holds(w, u)' /\ (Holds(w, u) <=> u = t)
      BY <1>1, <1>2, <1>6 DEF Holds
    <3> QED BY <1>5, <3>1, HoldersMove
  <2>2. \A u : /\ Occurrences(group_queue, u)' = Occurrences(group_queue, u)
               /\ Occurrences(queue, u)' = Occurrences(queue, u)
    BY <1>2 DEF Occurrences, group
  <2>3. \A u : Occurrences(queue, u) \in Nat /\ Occurrences(group_queue, u) \in Nat
    BY QueueCounts
  <2>4. \A u \in Task :
          ref'[u] = ref[u] + (Occurrences(queue, u)' - Occurrences(queue, u))
                      + (Occurrences(group_queue, u)' - Occurrences(group_queue, u))
                      + (Cardinality(Holders(u))' - Cardinality(Holders(u)))
    BY <1>7, <2>1, <2>2, <2>3
  <2> QED BY <1>8, <2>4, RefsBalanced
<1>12. GroupBusy'
  <2>1. w \in Looping /\ w \in Looping'
    BY <1>2, <1>6 DEF Looping
  <2> QED BY <1>2, <1>5, <2>1, LoopingMove, GroupBusyKept DEF group
<1>13. Callbacks'
  BY <1>2, <1>5, <1>6, <1>8, CallbacksOfOthers DEF client
<1>14. Bounded'
  <2>1. \A u \in Task : ref'[u] <= ref[u]
    BY <1>7
  <2> QED BY <1>2, <1>8, <1>11, <2>1, BoundedDown DEF client
<1>15. Blocking'
  <2>1. w \notin blocked
    BY <1>2 DEF Blocking
  <2> QED BY <1>2, <1>5, <2>1, BlockingMove DEF counts
<1> QED BY <1>8, <1>9, <1>10, <1>11, <1>12, <1>13, <1>14, <1>15

LEMMA GroupNextPreserves ==
    ASSUME IInv, NEW w \in Worker, GroupNext(w)
    PROVE  IInv'
<1> USE DEF IInv
<1>1. UNCHANGED <<queue, in_shutdown, state, blocked, callbacks, ref, standby,
                  creating, counts, max_tasks, client>>
  BY DEF GroupNext
<1>2. /\ pc \in [Worker -> Places] /\ creating \in BOOLEAN
      /\ task \in [Worker -> Task \cup {Null}]
  BY DEF Pool, Types
<1>3. pc[w] = "next"
  BY DEF GroupNext, Goto
<1>4. w \notin blocked
  BY <1>3 DEF Blocking
<1>5. Bounded'
  BY <1>1 DEF Bounded, client
<1>6. \A u : /\ Occurrences(group_queue, u) \in Nat
             /\ Occurrences(queue, u)' = Occurrences(queue, u)
             /\ Occurrences(queue, u) \in Nat
  BY <1>1, QueueCounts
<1>7. ref' = ref /\ \A u \in Task : ref[u] \in Int
  BY <1>1 DEF Types
<1>8. /\ Cardinality(Looping) \in Nat
      /\ tasks_running = Cardinality(Looping)
      /\ w \in Looping
  <2>1. Looping \subseteq Worker
    BY DEF Looping
  <2> QED BY <1>3, <2>1, WorkersFinite DEF GroupBusy, Looping
<1>9. CASE /\ group_queue = <<>>
           /\ pc' = [pc EXCEPT ![w] = "get"]
           /\ tasks_running' = tasks_running - 1
           /\ UNCHANGED <<group_queue, task>>
  <2>1. Others(w) /\ pc'[w] = "get"
    BY <1>2, <1>9 DEF Others
  <2>2. Types'
    BY <1>1, <1>9 DEF Types, counts, client
  <2>3. Pool'
    BY <1>1, <1>2, <1>3, <1>9, PoolGoto DEF Places
  <2>4. Held'
    BY <2>1 DEF Held, Others
  <2>5. RefsExact'
    <3>1. \A u : Cardinality(Holders(u))' = Cardinality(Holders(u))
      <4> TAKE u
      <4>1. ~Holds(w, u) /\ ~Holds(w, u)'
        BY <1>3, <2>1 DEF Holds
      <4> QED BY <2>1, <4>1, HoldersMove
    <3> QED BY <1>1, <1>9, <3>1 DEF RefsExact
  <2>6. GroupBusy'
    <3>1. w \notin Looping'
      BY <2>1 DEF Looping
    <3>2. Cardinality(Looping)' = Cardinality(Looping) - 1
      BY <1>8, <2>1, <3>1, LoopingMove
    <3> QED BY <1>8, <1>9, <3>2 DEF GroupBusy, Looping
  <2>7. Callbacks'
    BY <1>1, <1>3, <2>1, <2>2, CallbacksOfOthers DEF client
  <2>8. Blocking'
    BY <1>1, <1>4, <2>1, BlockingMove DEF counts
  <2> QED BY <1>5, <2>2, <2>3, <2>4, <2>5, <2>6, <2>7, <2>8
<1>10. ASSUME NEW h, h = Head(group_queue),
              group_queue # <<>>,
              pc' = [pc EXCEPT ![w] = IF h = Null THEN "next" ELSE "run"],
              task' = [task EXCEPT ![w] = h],
              group_queue' = Tail(group_queue),
              UNCHANGED tasks_running
       PROVE  IInv'
  <2>1. h \in Grouped \cup {Null} /\ group_queue' \in Seq(Grouped \cup {Null})
    BY <1>10, HeadTailProperties DEF Types
  <2>2. /\ Others(w) /\ task'[w] = h
        /\ pc'[w] = IF h = Null THEN "next" ELSE "run"
    BY <1>2, <1>10 DEF Others
  <2>3. Types'
    <3>1. task' \in [Worker -> Task \cup {Null}]
      BY <1>2, <1>10, <2>1 DEF Task
    <3> QED BY <1>1, <2>1, <3>1 DEF Types, counts, client
  <2>4. Pool'
    BY <1>1, <1>2, <1>3, <1>10, PoolGoto DEF Places
  <2>5. Held'
    BY <2>1, <2>2 DEF Held, Others
  <2>6. RefsExact'
    <3>1. ASSUME NEW u \in Task
          PROVE  /\ Cardinality(Holders(u)) \in Nat
                 /\ Cardinality(Holders(u))' = Cardinality(Holders(u))
                                                 + IF h = u THEN 1 ELSE 0
      <4>1. ~Holds(w, u) /\ (Holds(w, u)' <=> h = u)
        BY <1>3, <2>2, ConstantsAssumption DEF Holds
      <4> QED BY <2>2, <4>1, HoldersMove
    <3>2. \A u : Occurrences(group_queue, u)'
                   = Occurrences(group_queue, u) - IF h = u THEN 1 ELSE 0
      <4> TAKE u
      <4>1. Occurrences(Tail(group_queue), u)
              = Occurrences(group_queue, u)
                  - IF Head(group_queue) = u THEN 1 ELSE 0
        BY <1>10, OccurrencesTail DEF Types
      <4>2. Occurrences(group_queue, u)' = Occurrences(group_queue', u)
        BY DEF Occurrences
      <4> QED BY <1>10, <4>1, <4>2
    <3>3. \A u \in Task :
            ref'[u] = ref[u] + (Occurrences(queue, u)' - Occurrences(queue, u))
                        + (Occurrences(group_queue, u)'
                             - Occurrences(group_queue, u))
                        + (Cardinality(Holders(u))' - Cardinality(Holders(u)))
      BY <1>6, <1>7, <3>1, <3>2
    <3> QED BY <2>3, <3>3, RefsBalanced
  <2>7. GroupBusy'
    <3>1. w \in Looping'
      BY <2>2 DEF Looping
    <3>2. Cardinality(Looping)' = Cardinality(Looping)
      BY <1>8, <2>2, <3>1, LoopingMove
    <3> QED BY <1>10, <3>2, GroupBusyKept
  <2>8. Callbacks'
    BY <1>1, <1>3, <2>2, <2>3, CallbacksOfOthers DEF client
  <2>9. Blocking'
    BY <1>1, <1>4, <2>2, BlockingMove DEF counts
  <2> QED BY <1>5, <2>3, <2>4, <2>5, <2>6, <2>7, <2>8, <2>9
<1> QED BY <1>9, <1>10 DEF GroupNext, Goto

-----------------------------------------------------------------------------
(* The invariant holds *)

LEMMA InitEstablishes == Init => IInv
<1> SUFFICES ASSUME Init
             PROVE  IInv
  OBVIOUS
<1> USE DEF Init
<1>1. \A u : Occurrences(queue, u) = 0 /\ Occurrences(group_queue, u) = 0
  BY OccurrencesEmpty
<1>2. \A u \in Task : Holders(u) = {} /\ Running(u) = {} /\ Entering(u) = {}
  BY DEF Holders, Running, Entering
<1>3. Looping = {} /\ Waiters = {} /\ Standby = {}
  BY DEF Looping, Waiters, Standby
<1>4. Types
  <2>1. queue \in Seq(Task \cup {Null}) /\ group_queue \in Seq(Grouped \cup {Null})
    OBVIOUS
  <2>2. 0 \in 0 .. UINT_MAX /\ 0 \in 0 .. MaxSubmits
    BY ConstantsAssumption
  <2>3. /\ state \in [Worker -> SUBSET {"EXECUTING_TASK", "LONG_TASK", "WAITING"}]
        /\ task \in [Worker -> Task \cup {Null}]
    OBVIOUS
  <2>4. /\ callbacks \in [Timer -> Nat] /\ ref \in [Task -> Int]
        /\ submits \in [Task -> 0 .. MaxSubmits]
    BY <2>2
  <2>5. /\ disarm \in [Timer -> {"on", "cancel", "wait", "off"}]
        /\ in_shutdown \in BOOLEAN /\ long \in 0 .. UINT_MAX
        /\ blocked \subseteq Worker /\ max_tasks \in Limits
    BY <2>2
  <2> QED BY <2>1, <2>3, <2>4, <2>5 DEF Types
<1>5. Pool
  BY <1>3, ListsEmpty DEF Pool, Places
<1>6. Held
  BY DEF Held
<1>7. Blocking
  BY <1>3, FS_EmptySet DEF Blocking
<1>8. RefsExact
  <2>1. \A u \in Task : ref[u] = 0
    OBVIOUS
  <2>2. \A u \in Task : Cardinality(Holders(u)) = 0
    BY <1>2, FS_EmptySet
  <2>3. 0 = 0 + 0 + 0
    OBVIOUS
  <2> QED BY <1>1, <2>1, <2>2, <2>3 DEF RefsExact
<1>9. GroupBusy
  BY <1>3, FS_EmptySet DEF GroupBusy, Looping
<1>10. Callbacks
  <2>1. \A u \in Timer : callbacks[u] = 0 /\ submits[u] = 0 /\ u \in Task
    BY DEF Task
  <2>2. \A u \in Timer : Running(u) = {} /\ Cardinality(Entering(u)) = 0
    BY <1>2, <2>1, FS_EmptySet
  <2>3. 0 + 0 + 0 <= 0 /\ ~(0 > 0)
    OBVIOUS
  <2> QED BY <1>1, <2>1, <2>2, <2>3 DEF Callbacks
<1>11. Bounded
  BY DEF Bounded
<1> QED BY <1>4, <1>5, <1>6, <1>7, <1>8, <1>9, <1>10, <1>11 DEF IInv

LEMMA NextPreserves == IInv /\ [Next]_vars => IInv'
<1> SUFFICES ASSUME IInv, [Next]_vars
             PROVE  IInv'
  OBVIOUS
<1>1. CASE UNCHANGED vars
  <2>1. UNCHANGED <<queue, in_shutdown, task, state, blocked, callbacks, ref,
                    pool, counts, group, client>>
    BY <1>1 DEF vars
  <2>2. Types'
    BY <2>1 DEF IInv, Types, counts, group, client
  <2>3. Pool'
    BY <2>1, PoolUnchanged DEF IInv
  <2>4. Held' /\ RefsExact' /\ GroupBusy' /\ Callbacks' /\ Bounded'
    <3>1. \A v \in Worker : Stays(v)
      BY <2>1 DEF Stays, pool
    <3> QED BY <2>1, <3>1, QuietStep DEF group
  <2>5. Blocking'
    BY <2>1, BlockingKept DEF IInv, counts, pool
  <2> QED BY <2>2, <2>3, <2>4, <2>5 DEF IInv
<1>2. ASSUME NEW w \in Worker, WorkerStep(w) \/ Timeout(w)
      PROVE  IInv'
  <2>1. CASE Start(w)
    BY <2>1, StartPreserves
  <2>2. CASE Park(w)
    BY <2>2, ParkPreserves
  <2>3. CASE Dequeue(w)
    BY <2>3, DequeuePreserves
  <2>4. CASE worker_end(w)
    BY <2>4, WorkerEndPreserves
  <2>5. CASE TimerEnter(w)
    BY <2>5, TimerEnterPreserves
  <2>6. CASE TimerNext(w)
    BY <2>6, TimerNextPreserves
  <2>7. CASE release(w)
    BY <2>7, ReleasePreserves
  <2>8. CASE wait_end(w)
    BY <2>8, WaitEndPreserves
  <2>9. CASE GroupEnter(w)
    BY <2>9, GroupEnterPreserves
  <2>10. CASE GroupRun(w)
    BY <2>10, GroupRunPreserves
  <2>11. CASE GroupNext(w)
    BY <2>11, GroupNextPreserves
  <2>12. CASE Timeout(w)
    BY <2>12, TimeoutPreserves
  <2> QED BY <1>2, <2>1, <2>2, <2>3, <2>4, <2>5, <2>6, <2>7, <2>8, <2>9, <2>10,
             <2>11, <2>12 DEF WorkerStep
<1>3. ASSUME NEW ok \in Outcomes, maintenance(ok)
      PROVE  IInv'
  BY <1>3, MaintenancePreserves, ConstantsAssumption
<1>4. ASSUME NEW ok \in Outcomes, NEW t \in Task, submit_task(t, ok)
      PROVE  IInv'
  BY <1>4, SubmitPreserves, ConstantsAssumption
<1>5. ASSUME NEW ok \in Outcomes, NEW w \in Worker, wait_begin(w, ok)
      PROVE  IInv'
  BY <1>5, WaitBeginPreserves, ConstantsAssumption
<1>6. ASSUME NEW t \in Timer, DisarmStop(t) \/ cancel_pending(t) \/ DisarmWait(t)
      PROVE  IInv'
  BY <1>6, DisarmPreserves, CancelPreserves
<1>7. ASSUME NEW t \in Grouped, GroupCancel(t)
      PROVE  IInv'
  BY <1>7, GroupCancelPreserves
<1>8. ASSUME NEW n \in Limits, set_max_tasks(n)
      PROVE  IInv'
  BY <1>8, SetMaxTasksPreserves
<1>9. CASE Shutdown
  BY <1>9, ShutdownPreserves
<1> QED BY <1>1, <1>2, <1>3, <1>4, <1>5, <1>6, <1>7, <1>8, <1>9 DEF Next

LEMMA Invariance == Spec => []IInv
BY InitEstablishes, NextPreserves, PTL DEF Spec

-----------------------------------------------------------------------------
(* What it implies *)

LEMMA IInvTypes == IInv => TypeOK
<1> SUFFICES ASSUME IInv
             PROVE  TypeOK
  OBVIOUS
<1> USE DEF IInv
<1>1. waiting \in 0 .. UINT_MAX
  <2>1. Cardinality(Waiters) \in 0 .. MaxThreads /\ MaxThreads \in Nat
    BY WorkersFinite DEF Waiters
  <2> QED BY <2>1, ConstantsAssumption DEF Blocking
<1>2. tasks_running \in 0 .. MaxThreads
  <2>1. Looping \subseteq Worker
    BY DEF Looping
  <2> QED BY <2>1, WorkersFinite DEF GroupBusy, Looping
<1>3. submits \in [Task -> 0 .. MaxSubmits] /\ MaxSubmits \in Nat
  BY ConstantsAssumption DEF Types
<1>4. callbacks \in [Timer -> 0 .. MaxSubmits]
  <2>1. callbacks \in [Timer -> Nat]
    BY DEF Types
  <2>2. ASSUME NEW t \in Timer
        PROVE  callbacks[t] \in 0 .. MaxSubmits
    <3>1. callbacks[t] + Occurrences(queue, t) + Cardinality(Entering(t))
            <= submits[t]
      BY DEF Callbacks
    <3>2. Occurrences(queue, t) \in Nat /\ Cardinality(Entering(t)) \in Nat
      BY QueueCounts, SetCounts
    <3>3. submits[t] \in 0 .. MaxSubmits
      BY <1>3 DEF Task
    <3>4. callbacks[t] \in Nat
      BY <2>1
    <3> QED BY <1>3, <3>1, <3>2, <3>3, <3>4
  <2> QED BY <2>1, <2>2
<1>5. ref \in [Task -> 0 .. MaxSubmits]
  <2>1. \A t \in Task : ref[t] \in Nat /\ ref[t] <= submits[t]
    BY RefsNatural DEF Bounded
  <2>2. \A t \in Task : ref[t] \in 0 .. MaxSubmits
    BY <1>3, <2>1
  <2> QED BY <2>2 DEF Types
<1>6. /\ standby \in Seq(Worker) /\ IsInjective(standby)
      /\ ToSet(standby) = {w \in Worker : pc[w] = "standby"}
  BY DEF Pool, Lists, Standby
<1> QED BY <1>1, <1>2, <1>3, <1>4, <1>5, <1>6 DEF TypeOK, Types, Pool, Places

LEMMA IInvTimerQuiet == IInv => TimerQuiet
<1> SUFFICES ASSUME IInv, NEW t \in Timer
             PROVE  /\ Cardinality({w \in Holders(t) : pc[w] = "callback"}) <= 1
                    /\ disarm[t] = "off" => Holders(t) = {} /\ callbacks[t] = 0
  BY DEF TimerQuiet
<1> USE DEF IInv
<1>1. {w \in Holders(t) : pc[w] = "callback"} = Running(t)
  BY DEF Holders, Running
<1>2. Cardinality(Running(t)) <= 1
  <2>1. CASE Running(t) = {}
    BY <2>1, FS_EmptySet
  <2>2. CASE Running(t) # {}
    <3>1. PICK w : w \in Running(t)
      BY <2>2
    <3>2. Running(t) = {w}
      BY <3>1 DEF Callbacks
    <3> QED BY <3>2, FS_Singleton
  <2> QED BY <2>1, <2>2
<1>3. ASSUME disarm[t] = "off"
      PROVE  Holders(t) = {} /\ callbacks[t] = 0
  <2>1. t \in Task
    BY DEF Task
  <2>2. ref[t] = 0
    BY <1>3 DEF Bounded
  <2>3. ref[t] = Occurrences(queue, t) + Occurrences(group_queue, t)
                   + Cardinality(Holders(t))
    BY <2>1 DEF RefsExact
  <2>4. /\ Occurrences(queue, t) \in Nat /\ Occurrences(group_queue, t) \in Nat
        /\ Cardinality(Holders(t)) \in Nat
    BY QueueCounts, SetCounts
  <2>5. Cardinality(Holders(t)) = 0
    BY <2>2, <2>3, <2>4
  <2>6. Holders(t) = {}
    <3>1. Holders(t) \subseteq Worker
      BY DEF Holders
    <3>2. IsFiniteSet(Holders(t))
      BY <3>1, WorkersFinite
    <3> QED BY <2>5, <3>2, FS_EmptySet
  <2>7. Running(t) = {}
    BY <1>1, <2>6
  <2>8. callbacks[t] \in Nat
    BY DEF Types
  <2>9. ~(callbacks[t] > 0)
    BY <2>7 DEF Callbacks
  <2>10. callbacks[t] = 0
    BY <2>8, <2>9
  <2> QED BY <2>6, <2>10
<1> QED BY <1>1, <1>2, <1>3

(* Every variable keeps its type, and the standby list holds exactly the   *)
(* idle workers, for any number of workers, tasks and submissions: the     *)
(* counts of long and of waiting tasks stay within an unsigned int,        *)
(* m_tasks_running within the number of workers and m_running within the   *)
(* number of submissions.                                                  *)
THEOREM TypeCorrect == Spec => []TypeOK
BY Invariance, IInvTypes, PTL

(* waitable_task::m_ref_count is at every moment the number of slots of    *)
(* the two queues and of workers that hold the task: no interleaving of    *)
(* submit_task(), get_task(), task_group::execute() and both               *)
(* cancel_pending() loses, duplicates or releases twice.                   *)
THEOREM RefsAlwaysExact == Spec => []RefsExact
<1>1. IInv => RefsExact
  BY DEF IInv
<1> QED BY <1>1, Invariance, PTL

(* m_tasks_running is the number of workers in task_group::execute(), and  *)
(* no task waits in the queue of the group without one, whatever           *)
(* set_max_tasks() does in between.                                        *)
THEOREM GroupAlwaysBusy == Spec => []GroupBusy
<1>1. IInv => GroupBusy
  BY DEF IInv
<1> QED BY <1>1, Invariance, PTL

(* A timer's callback never runs in two workers at a time, and after       *)
(* disarm() has returned it neither runs nor is held by any worker.        *)
THEOREM TimerAlwaysQuiet == Spec => []TimerQuiet
BY Invariance, IInvTimerQuiet, PTL
-----------------------------------------------------------------------------
(* Pools of fixed size that are destroyed with tasks in the queue *)

(* In such a pool no worker ends while there is something to do, and a     *)
(* task never waits without an active worker: no slot is cancelled, no     *)
(* idle worker times out, and submit_task() wakes up or creates a worker   *)
(* when there is none.                                                     *)
Served ==
    /\ queue \in Seq(Task)
    /\ long = 0 /\ blocked = {}
    /\ \A w \in Worker : "LONG_TASK" \notin state[w]
    /\ \A w \in Worker : pc[w] = "ending" => in_shutdown /\ queue = <<>>
    /\ queue # <<>> => active # {}

LEMMA ServedKept ==
    ASSUME Served, UNCHANGED <<queue, long, blocked, state, in_shutdown>>,
           \A w \in Worker : pc'[w] = "ending" => pc[w] = "ending",
           active \subseteq active'
    PROVE  Served'
<1>1. queue' # <<>> => active' # {}
  BY DEF Served
<1> QED BY <1>1 DEF Served

(* A worker that goes on to a place outside of the cache and the standby   *)
(* list, other than the end.                                               *)
LEMMA ServedGoto ==
    ASSUME Pool, Served, UNCHANGED <<queue, long, blocked, state, in_shutdown>>,
           NEW w \in Worker, NEW to, to \notin {"idle", "standby", "ending"},
           pc' = [pc EXCEPT ![w] = to]
    PROVE  Served'
<1>1. \A v \in Worker : pc'[v] = IF v = w THEN to ELSE pc[v]
  BY DEF Pool
<1>2. active \subseteq active'
  BY <1>1 DEF active
<1> QED BY <1>1, <1>2, ServedKept

(* The standby list is as long as there are idle workers. *)
LEMMA ListsLen ==
    ASSUME NEW s, NEW S, Lists(s, S)
    PROVE  Len(s) = Cardinality(S)
<1>1. /\ s \in Seq(Worker) /\ IsInjective(s) /\ ToSet(s) = S
  BY DEF Lists
<1>2. Len(s) \in Nat /\ DOMAIN s = 1 .. Len(s)
  BY <1>1, LenProperties
<1>3. \A i \in 1 .. Len(s) : s[i] \in S
  BY <1>1, <1>2 DEF ToSet
<1>4. \A x \in S : \E i \in 1 .. Len(s) : s[i] = x
  BY <1>1, <1>2 DEF ToSet
<1>5. \A i, j \in 1 .. Len(s) : s[i] = s[j] => i = j
  BY <1>1, <1>2 DEF IsInjective
<1> DEFINE f == [i \in 1 .. Len(s) |-> s[i]]
<1>6. f \in Bijection(1 .. Len(s), S)
  BY <1>3, <1>4, <1>5 DEF Bijection, Injection, Surjection, IsInjective
<1>7. IsFiniteSet(1 .. Len(s)) /\ Cardinality(1 .. Len(s)) = Len(s)
  <2>1. \A n \in Nat : IsFiniteSet(1 .. n) /\ Cardinality(1 .. n) = n
    <3> TAKE n \in Nat
    <3>1. 1 \in Int /\ n \in Int
      OBVIOUS
    <3>2. /\ IsFiniteSet(1 .. n)
          /\ Cardinality(1 .. n) = IF 1 > n THEN 0 ELSE n - 1 + 1
      BY ONLY <3>1, FS_Interval
    <3>3. n \in Nat => (IF 1 > n THEN 0 ELSE n - 1 + 1) = n
      OBVIOUS
    <3> QED BY <3>2, <3>3
  <2> QED BY <1>2, <2>1
<1> QED BY <1>6, <1>7, FS_Bijection DEF ExistsBijection

LEMMA ThreadCount ==
    ASSUME Pool
    PROVE  /\ Cardinality(active) \in Nat /\ Len(standby) \in Nat
           /\ thread_count <= MaxThreads
           /\ Len(standby) = Cardinality(Standby)
<1>1. active \subseteq Worker /\ Standby \subseteq Worker
  BY DEF active, Standby
<1>2. IsFiniteSet(active) /\ IsFiniteSet(Standby)
  BY <1>1, WorkersFinite
<1>3. Len(standby) = Cardinality(Standby)
  BY ListsLen DEF Pool
<1>4. active \cap Standby = {}
  BY DEF active, Standby
<1>5. Cardinality(active) \in Nat /\ Cardinality(Standby) \in Nat
  BY <1>2, FS_CardinalityType
<1>6. Cardinality(active \cup Standby) = Cardinality(active) + Cardinality(Standby)
  <2>1. Cardinality(active \cap Standby) = 0
    BY <1>4, FS_EmptySet
  <2>2. Cardinality(active \cup Standby) =
          Cardinality(active) + Cardinality(Standby) - Cardinality(active \cap Standby)
    BY <1>2, FS_Union
  <2> QED BY <1>5, <2>1, <2>2
<1>7. Cardinality(active \cup Standby) <= MaxThreads
  <2>1. active \cup Standby \subseteq Worker
    BY <1>1
  <2>2. Cardinality(active \cup Standby) \in 0 .. MaxThreads /\ MaxThreads \in Nat
    BY <2>1, WorkersFinite
  <2> QED BY <2>2
<1> QED BY <1>3, <1>5, <1>6, <1>7 DEF thread_count

(* Without an active worker the submitted task gets one. *)
LEMMA SubmitServes ==
    ASSUME Pool, FixedPool, NEW q, q # <<>>,
           maybe_wake_or_create_thread(q, 0, 0, TRUE)
    PROVE  /\ active' # {} /\ active \subseteq active'
           /\ \A w \in Worker : pc'[w] = "ending" => pc[w] = "ending"
<1>1. Pool' /\ PoolMoves
  BY MaybeWake
<1>2. pc \in [Worker -> Places]
  BY DEF Pool
<1>3. \/ UNCHANGED pc
      \/ \E w \in Worker : /\ pc[w] \in {"idle", "standby"}
                           /\ \/ pc' = [pc EXCEPT ![w] = "woken"]
                              \/ pc' = [pc EXCEPT ![w] = "starting"]
  <2>1. CASE Wakes(q, 0, 0)
    <3>1. wake /\ standby # <<>>
      BY <2>1 DEF maybe_wake_or_create_thread, Wakes
    <3>2. Last(standby) \in Standby
      BY <3>1, ListsFront DEF Pool
    <3> QED BY <3>1, <3>2 DEF wake, Standby
  <2>2. CASE ~Wakes(q, 0, 0) /\ ~too_many(0, 0)
    <3>1. add_thread(TRUE)
      BY <2>2 DEF maybe_wake_or_create_thread
    <3> QED BY <3>1 DEF add_thread, Goto, pool
  <2>3. CASE ~Wakes(q, 0, 0) /\ too_many(0, 0)
    BY <2>3 DEF maybe_wake_or_create_thread, pool
  <2> QED BY <2>1, <2>2, <2>3
<1>4. active \subseteq active'
  BY <1>2, <1>3 DEF active
<1>5. \A w \in Worker : pc'[w] = "ending" => pc[w] = "ending"
  BY <1>2, <1>3
<1>6. CASE active # {}
  BY <1>4, <1>5, <1>6
<1>7. CASE active = {}
  <2>1. Cardinality(active) = 0
    BY <1>7, FS_EmptySet
  <2>2. MinThreads \in Nat \ {0} /\ MaxThreads \in Nat \ {0} /\ Concurrency \in Nat
    BY WorkersFinite, ConstantsAssumption
  <2>3. ~too_many(0, 0)
    BY <2>1, <2>2 DEF too_many
  <2>4. UNCHANGED pc => FALSE
    <3>1. SUFFICES ASSUME UNCHANGED pc PROVE FALSE
      OBVIOUS
    <3>2. CASE standby # <<>>
      <4>1. wake
        BY <2>3, <3>2 DEF Wakes, maybe_wake_or_create_thread
      <4>2. Last(standby) \in Standby
        BY <3>2, ListsFront DEF Pool
      <4> QED BY <1>2, <3>1, <4>1, <4>2 DEF wake, Standby
    <3>3. CASE standby = <<>>
      <4>1. add_thread(TRUE)
        BY <2>3, <3>3 DEF Wakes, maybe_wake_or_create_thread
      <4>2. thread_count < MaxThreads
        BY <2>1, <2>2, <3>3 DEF thread_count
      <4>3. thread_count \in Nat
        BY <2>1, <3>3 DEF thread_count
      <4>4. \E w \in Worker : Goto(w, "idle", "starting")
        BY <2>2, <4>1, <4>2, <4>3 DEF add_thread, FixedPool
      <4> QED BY <1>2, <3>1, <4>4 DEF Goto
    <3> QED BY <3>2, <3>3
  <2>5. PICK w \in Worker : pc' = [pc EXCEPT ![w] = "woken"]
                              \/ pc' = [pc EXCEPT ![w] = "starting"]
    BY <1>3, <2>4
  <2>6. w \in active'
    BY <1>2, <2>5 DEF active
  <2> QED BY <1>4, <1>5, <2>6
<1> QED BY <1>6, <1>7

LEMMA ServedStep ==
    ASSUME IInv, FixedPool, Served, [Next]_vars
    PROVE  Served'
<1> USE DEF IInv
<1>N. /\ \A t : t \notin Timer
      /\ Task = Grouped /\ Null \notin Task
  BY ConstantsAssumption DEF FixedPool, Task
<1>P. pc \in [Worker -> Places]
  BY DEF Pool
<1>C. \A w \in Worker : pc[w] \notin {"timer", "callback", "release"}
  BY <1>N DEF Held
<1>1. CASE UNCHANGED vars
  <2>1. UNCHANGED <<queue, in_shutdown, task, state, blocked, pool, counts>>
    BY <1>1 DEF vars
  <2>2. active \subseteq active'
    BY <2>1 DEF active, pool
  <2> QED BY <2>1, <2>2, ServedKept DEF pool, counts
<1>2. ASSUME NEW w \in Worker, Start(w) PROVE Served'
  BY <1>2, ServedGoto DEF Start, Goto, counts
<1>3. ASSUME NEW w \in Worker, Park(w) PROVE Served'
  <2>1. long' = 0
    BY <1>3 DEF Park, DecLong, Served
  <2>2. /\ queue = <<>> /\ UNCHANGED <<queue, in_shutdown, blocked>>
        /\ pc' = [pc EXCEPT ![w] = IF in_shutdown THEN "ending" ELSE "standby"]
        /\ state' = [state EXCEPT ![w] = {}]
    BY <1>3 DEF Park
  <2>3. \A v \in Worker : "LONG_TASK" \notin state'[v]
    BY <2>2 DEF Served, Types
  <2>4. \A v \in Worker : pc'[v] = "ending" => in_shutdown' /\ queue' = <<>>
    BY <1>P, <2>2 DEF Served
  <2> QED BY <2>1, <2>2, <2>3, <2>4 DEF Served
<1>4. ASSUME NEW w \in Worker, Dequeue(w) PROVE Served'
  <2>1. long' = 0
    BY <1>4 DEF Dequeue, DecLong, Served
  <2>2. /\ queue # <<>> /\ queue' = Tail(queue) /\ UNCHANGED <<in_shutdown, blocked>>
        /\ pc' = [pc EXCEPT ![w] = IF Head(queue) = Null THEN "ending"
                                   ELSE IF Head(queue) \in Timer THEN "timer"
                                   ELSE "group"]
        /\ state' = [state EXCEPT ![w] = {"EXECUTING_TASK"}]
    BY <1>4 DEF Dequeue
  <2>3. Head(queue) \in Task /\ Tail(queue) \in Seq(Task)
    BY <2>2, HeadTailProperties DEF Served
  <2>4. pc' = [pc EXCEPT ![w] = "group"]
    BY <1>N, <2>2, <2>3
  <2>5. \A v \in Worker : "LONG_TASK" \notin state'[v]
    BY <2>2 DEF Served, Types
  <2>6. \A v \in Worker : pc'[v] # "ending"
    BY <1>P, <2>2, <2>4 DEF Served
  <2>7. w \in active'
    BY <1>P, <2>4 DEF active
  <2> QED BY <2>1, <2>2, <2>3, <2>5, <2>6, <2>7 DEF Served
<1>5. ASSUME NEW w \in Worker, worker_end(w) PROVE Served'
  <2>1. /\ pc[w] = "ending" /\ pc' = [pc EXCEPT ![w] = "idle"]
        /\ UNCHANGED <<queue, long, blocked, state, in_shutdown>>
    BY <1>5 DEF worker_end, Goto, counts
  <2>2. queue = <<>>
    BY <2>1 DEF Served
  <2>3. \A v \in Worker : pc'[v] = "ending" => pc[v] = "ending"
    BY <1>P, <2>1
  <2> QED BY <2>1, <2>2, <2>3 DEF Served
<1>6. ASSUME NEW w \in Worker, TimerEnter(w) \/ TimerNext(w) \/ release(w)
      PROVE  Served'
  BY <1>6, <1>C DEF TimerEnter, TimerNext, release, Goto
<1>7. ASSUME NEW w \in Worker, wait_end(w) PROVE Served'
  BY <1>7 DEF wait_end, Served
<1>8. ASSUME NEW w \in Worker, GroupEnter(w) \/ GroupRun(w) \/ GroupNext(w)
      PROVE  Served'
  <2>1. /\ UNCHANGED <<queue, long, blocked, state, in_shutdown>>
        /\ \E to \in {"get", "run", "next"} : pc' = [pc EXCEPT ![w] = to]
    BY <1>8 DEF GroupEnter, GroupRun, GroupNext, Goto, counts
  <2> QED BY <2>1, ServedGoto
<1>9. ASSUME NEW w \in Worker, Timeout(w) PROVE Served'
  <2>1. thread_count > MinThreads /\ MinThreads = MaxThreads
    BY <1>9 DEF Timeout, FixedPool, fixed
  <2>2. thread_count <= MaxThreads /\ thread_count \in Nat /\ MaxThreads \in Nat
    BY ThreadCount, WorkersFinite DEF thread_count
  <2> QED BY <2>1, <2>2
<1>10. ASSUME NEW ok, maintenance(ok) PROVE Served'
  BY <1>10 DEF maintenance, FixedPool
<1>11. ASSUME NEW ok \in Outcomes, NEW t \in Task, submit_task(t, ok) PROVE Served'
  <2>1. /\ queue' = Append(queue, t)
        /\ maybe_wake_or_create_thread(queue', long, waiting, ok)
        /\ ~in_shutdown
        /\ UNCHANGED <<long, blocked, state, in_shutdown>>
    BY <1>11 DEF submit_task, counts
  <2>2. ok = TRUE /\ long = 0
    BY DEF FixedPool, Served
  <2>3. waiting = 0
    <3>1. Waiters = {}
      BY DEF Blocking, Served
    <3> QED BY <3>1, FS_EmptySet DEF Blocking
  <2>4. queue' \in Seq(Task) /\ queue' # <<>>
    <3>1. queue \in Seq(Task)
      BY DEF Served
    <3>2. Len(queue) \in Nat /\ Len(Append(queue, t)) = Len(queue) + 1
      BY <3>1, LenProperties, AppendProperties
    <3>3. Append(queue, t) # <<>>
      BY <3>2
    <3> QED BY <2>1, <3>1, <3>3, AppendProperties
  <2>5. maybe_wake_or_create_thread(queue', 0, 0, TRUE)
    BY <2>1, <2>2, <2>3
  <2>6. /\ active' # {}
        /\ \A w \in Worker : pc'[w] = "ending" => pc[w] = "ending"
    <3>1. PICK q : q = queue'
      OBVIOUS
    <3>2. q # <<>> /\ maybe_wake_or_create_thread(q, 0, 0, TRUE)
      BY <2>4, <2>5, <3>1
    <3> QED BY <3>2, SubmitServes
  <2> QED BY <2>1, <2>4, <2>6 DEF Served
<1>12. ASSUME NEW ok, NEW w \in Worker, wait_begin(w, ok) PROVE Served'
  BY <1>12, <1>C DEF wait_begin
<1>13. ASSUME NEW t \in Grouped, GroupCancel(t) PROVE Served'
  <2>1. UNCHANGED <<queue, long, blocked, state, in_shutdown, pc>>
    BY <1>13 DEF GroupCancel, counts, pool
  <2>2. active \subseteq active'
    BY <2>1 DEF active
  <2> QED BY <2>1, <2>2, ServedKept
<1>14. ASSUME NEW n \in Limits, set_max_tasks(n) PROVE Served'
  <2>1. UNCHANGED <<queue, long, blocked, state, in_shutdown, pc>>
    BY <1>14 DEF set_max_tasks, counts, pool
  <2>2. active \subseteq active'
    BY <2>1 DEF active
  <2> QED BY <2>1, <2>2, ServedKept
<1>15. CASE Shutdown
  <2>1. /\ ~in_shutdown /\ in_shutdown'
        /\ pc' = [w \in Worker |-> IF pc[w] = "standby" THEN "woken" ELSE pc[w]]
        /\ UNCHANGED <<queue, long, blocked, state>>
    BY <1>15 DEF Shutdown, counts
  <2>2. \A w \in Worker : pc'[w] # "ending"
    BY <2>1 DEF Served
  <2>3. active \subseteq active'
    BY <2>1 DEF active
  <2> QED BY <2>1, <2>2, <2>3 DEF Served
<1> QED BY <1>1, <1>2, <1>3, <1>4, <1>5, <1>6, <1>7, <1>8, <1>9, <1>10, <1>11,
           <1>12, <1>13, <1>14, <1>15, <1>N DEF Next, WorkerStep

LEMMA ServedDrained == IInv /\ (FixedPool => Served) => Drained
<1> SUFFICES ASSUME IInv, Served, destroyed, NEW t \in Task
             PROVE  ref[t] = 0
  BY DEF Drained
<1> USE DEF IInv
<1>1. /\ Cardinality(active) \in Nat /\ Len(standby) \in Nat
      /\ Len(standby) = Cardinality(Standby)
  BY ThreadCount
<1>2. Cardinality(active) = 0 /\ Cardinality(Standby) = 0
  BY <1>1 DEF destroyed, thread_count
<1>3. active \subseteq Worker /\ Standby \subseteq Worker
  BY DEF active, Standby
<1>4. active = {} /\ Standby = {}
  BY <1>2, <1>3, WorkersFinite, FS_EmptySet
<1>5. \A w \in Worker : pc[w] = "idle"
  BY <1>4 DEF active, Standby
<1>6. queue = <<>>
  BY <1>4 DEF Served
<1>7. group_queue = <<>>
  <2>1. {w \in Worker : pc[w] \in {"run", "next"}} = {}
    BY <1>5
  <2>2. tasks_running = 0
    BY <2>1, FS_EmptySet DEF GroupBusy
  <2> QED BY <2>2 DEF GroupBusy
<1>8. Holders(t) = {}
  BY <1>5 DEF Holders
<1>9. /\ Occurrences(queue, t) = 0 /\ Occurrences(group_queue, t) = 0
      /\ Cardinality(Holders(t)) = 0
  BY <1>6, <1>7, <1>8, OccurrencesEmpty, FS_EmptySet
<1> QED BY <1>9 DEF RefsExact

(* The destructor of a pool of fixed size without timers, whose threads    *)
(* can be created, returns only after every task submitted before has run  *)
(* or been cancelled: get_task() empties the queue before it looks at      *)
(* m_in_shutdown, and submit_task() never leaves a task without a worker.  *)
THEOREM FixedPoolDrains == Spec => []Drained
<1>1. Init => (FixedPool => Served)
  <2> SUFFICES ASSUME Init PROVE Served
    OBVIOUS
  <2> QED BY EmptySeq DEF Init, Served
<1>2. IInv /\ (FixedPool => Served) /\ [Next]_vars => (FixedPool => Served)'
  <2> SUFFICES ASSUME IInv, FixedPool, Served, [Next]_vars PROVE Served'
    BY DEF FixedPool, fixed
  <2> QED BY ServedStep
<1> QED BY <1>1, <1>2, Invariance, ServedDrained, PTL DEF Spec
=============================================================================
