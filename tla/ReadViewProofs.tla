--------------------------- MODULE ReadViewProofs ---------------------------
(***************************************************************************)
(* Proofs about ReadView, for any sets of readers and writers, any number  *)
(* of identifiers and any number of restarted iterations: what read views  *)
(* see, in which order history is purged, and that purge removes nothing   *)
(* an open view needs.                                                     *)
(***************************************************************************)
EXTENDS ReadView, FiniteSetTheorems, WellFoundedInduction, TLAPS

Viewer == Reader \cup {Purge}

-----------------------------------------------------------------------------
(* The inductive invariant *)

(* Transactions between an allocation and the refresh of the version. *)
Pending == {t \in Trx : pc[t] \in {"insert", "store"}}

(* The version lags behind the counter by the allocations in progress, so  *)
(* snapshot_ids() starts when there is none.                               *)
VersionLags ==
    /\ IsFiniteSet(Pending)
    /\ m_max_trx_id = m_rw_trx_hash_version + Cardinality(Pending)

(* What the program counter of a transaction says about its identifier. *)
Registered ==
    /\ \A t \in Trx :
          /\ id[t] < m_max_trx_id
          /\ id[t] = 0 <=> pc[t] = "idle"
          /\ id[t] \in live <=> pc[t] \in {"active", "store", "serialised"}
          /\ id[t] \in committed <=> pc[t] = "unlink"
    /\ \A t, u \in Trx : t # u /\ id[t] = id[u] => id[t] = 0
    /\ \A i \in live \cup committed : i < m_max_trx_id
    /\ live \cap committed = {}

(* Serialisation numbers are allocated after the identifier, and once. *)
Numbered ==
    /\ \A t \in Trx :
          /\ number[t] < m_max_trx_id
          /\ number[t] # 0 <=> pc[t] = "store"
          /\ number[t] # 0 => id[t] < number[t]
          /\ pc[t] \in {"insert", "active", "store"} => no[id[t]] = TRX_ID_MAX
          /\ number[t] # 0 => \A i \in Ids : no[i] # number[t]
    /\ \A t, u \in Trx : t # u /\ number[t] = number[u] => number[t] = 0
    /\ \A i \in Ids : no[i] # TRX_ID_MAX => i < no[i] /\ no[i] < m_max_trx_id
    /\ \A i, j \in Ids : i # j /\ no[i] = no[j] => no[i] = TRX_ID_MAX

(* A view, open or closed, of the past: it sees no active transaction, its *)
(* limit for purge is not above any number still to be committed, and it   *)
(* sees every transaction serialised below that limit.                     *)
ViewOK(v) ==
    /\ v.low_limit_id <= m_max_trx_id
    /\ v.low_limit_no <= m_max_trx_id
    /\ \A i \in v.ids : v.up_limit_id <= i
    /\ \A u \in Trx : id[u] # 0 /\ id[u] \notin committed
                          => ~changes_visible(v, id[u])
    /\ \A j \in live : v.low_limit_no <= no[j]
    /\ \A u \in Trx : number[u] # 0 => v.low_limit_no <= number[u]
    /\ \A i \in Ids : no[i] < v.low_limit_no => changes_visible(v, i)

(* A snapshot in progress has met, or has yet to meet, every transaction   *)
(* that is active with an identifier below its limit.                      *)
ScanOK(s) ==
    /\ s.id <= m_max_trx_id
    /\ s.no <= s.id
    /\ \A i \in s.ids \cup s.todo : i < s.id
    /\ \A u \in Trx : id[u] # 0 /\ id[u] \notin committed /\ id[u] < s.id
                          => id[u] \in live /\ id[u] \in s.ids \cup s.todo
    /\ \A u \in Trx : number[u] # 0 => s.id <= number[u]
    /\ \A i \in Ids : no[i] < s.no => i \notin s.ids
    /\ \A i \in live : no[i] < s.no => i \in s.todo

Views == \A w \in Viewer : ViewOK(view[w])
Scans == \A w \in Viewer : at[w] = "iterate" => ScanOK(scan[w])

(* What purge may take for granted about the view of t: what is purged     *)
(* already, and what the purge view sees once append_to() is past t.       *)
Known(t, i) ==
    \/ i \in purged
    \/ /\ at[Purge] = "append" => t \notin left
       /\ i \in committed
       /\ changes_visible(view[Purge], i)

Knowledge ==
    \A t \in Reader :
        /\ at[t] = "iterate" =>
              \A i \in Ids : Known(t, i) \/ i \in must[t]
                                 => i < scan[t].id /\ i \notin scan[t].ids
        /\ at[t] = "reuse" => view[t].ids = {}
        /\ (m_open[t] \/ at[t] = "reuse") /\ t \notin miscounted =>
              \A i \in must[t] : changes_visible(view[t], i)
        /\ m_open[t] /\ t \notin stale \cup miscounted =>
              \A i \in Ids : Known(t, i) => changes_visible(view[t], i)
        /\ must[t] \subseteq committed

(* Only committed transactions are purged. *)
History ==
    /\ history \subseteq live \cup committed
    /\ \A i \in history \cup purged : no[i] # TRX_ID_MAX
    /\ purged \subseteq committed
    /\ history \cap purged = {}

IInv ==
    /\ TypeOK
    /\ VersionLags /\ Registered /\ Numbered
    /\ Views /\ Scans /\ Knowledge /\ History /\ PurgedInOrder

-----------------------------------------------------------------------------
(* Sets of natural numbers *)

(* Every set of natural numbers has a least element. *)
LEMMA NatLeast ==
    ASSUME NEW S \in SUBSET Nat, S # {}
    PROVE  \E i \in S : \A j \in S : i <= j
<1> DEFINE R == OpToRel(<, Nat)
<1>1. IsWellFoundedOn(R, Nat)
  BY NatLessThanWellFounded
<1>2. \A x, y \in Nat : y < x => <<y, x>> \in R
  BY DEF OpToRel
<1> HIDE DEF R
<1>3. PICK x \in S : \A y \in S : ~(<<y, x>> \in R)
  BY <1>1, WFMin
<1>4. \A y \in S : ~(y < x)
  BY <1>2, <1>3
<1> QED BY <1>3, <1>4

(* The front of the sorted m_ids is its smallest identifier. *)
LEMMA LowestIsLeast ==
    ASSUME NEW S \in SUBSET Nat, S # {}
    PROVE  Lowest(S) \in S /\ \A j \in S : Lowest(S) <= j
BY NatLeast DEF Lowest

(* If the identifiers number as many as there are from the smallest one to *)
(* the limit, they are all of them.                                        *)
LEMMA Contiguous ==
    ASSUME NEW S \in SUBSET Nat, S # {}, NEW n \in Nat, \A i \in S : i < n,
           n = Lowest(S) + Cardinality(S)
    PROVE  \A i \in Nat : Lowest(S) <= i /\ i < n => i \in S
<1> DEFINE l == Lowest(S)
           I == l .. n - 1
<1>1. l \in Nat /\ l < n /\ \A i \in S : l <= i
  BY LowestIsLeast
<1> HIDE DEF l
<1>2. IsFiniteSet(I) /\ Cardinality(I) = n - l
  <2>1. l \in Int /\ n - 1 \in Int /\ ~(l > n - 1)
    BY <1>1
  <2>2. /\ IsFiniteSet(I)
        /\ Cardinality(I) = IF l > n - 1 THEN 0 ELSE (n - 1) - l + 1
    BY <2>1, FS_Interval
  <2> QED BY <1>1, <2>1, <2>2
<1>3. S \subseteq I
  BY <1>1
<1>4. IsFiniteSet(S)
  BY <1>2, <1>3, FS_Subset
<1>5. Cardinality(S) \in Nat
  BY <1>4, FS_CardinalityType
<1>6. Cardinality(S) = Cardinality(I)
  BY <1>1, <1>2, <1>5 DEF l
<1>7. S = I
  BY <1>2, <1>3, <1>6, FS_Subset
<1> QED BY <1>1, <1>7 DEF l

-----------------------------------------------------------------------------
(* The hash of active transactions *)

HashStep(t) ==
    \/ RegisterAllocate(t) \/ RegisterInsert(t)
    \/ AssignAllocate(t) \/ AssignStore(t)
    \/ DeregisterMark(t) \/ DeregisterUnlink(t)

HashInv == HashTypeOK /\ VersionLags /\ Registered /\ Numbered

(* Readers and the purge coordinator change nothing in the hash. *)
LEMMA HashSteps ==
    ASSUME [Next]_vars
    PROVE  (\E t \in Trx : HashStep(t)) \/ UNCHANGED hashVars
<1>1. Writer \subseteq Trx
  BY RolesAssumption
<1>2. ASSUME NEW t \in Writer,
             Register(t) \/ Serialise(t) \/ CommitInMemory(t) \/ Unlink(t)
      PROVE  HashStep(t)
  BY <1>2 DEF Register, Serialise, CommitInMemory, Unlink, HashStep
<1>3. ASSUME NEW t \in Reader,
             \/ OpenCheck(t) \/ OpenReuse(t) \/ OpenSnapshot(t)
             \/ OpenFinish(t) \/ Close(t) \/ CloneAppend(t)
      PROVE  UNCHANGED hashVars
  BY <1>3 DEF OpenCheck, OpenReuse, OpenSnapshot, OpenFinish, Close,
              CloneAppend
<1>4. ASSUME NEW w \in Viewer, Iterate(w)
      PROVE  UNCHANGED hashVars
  BY <1>4 DEF Iterate, copy_one_id, Retry
<1>5. ASSUME \/ CloneBegin \/ CloneSnapshot \/ \E i \in Ids : PurgeNext(i)
             \/ UNCHANGED vars
      PROVE  UNCHANGED hashVars
  BY <1>5 DEF CloneBegin, CloneSnapshot, PurgeNext, vars
<1> QED BY <1>1, <1>2, <1>3, <1>4, <1>5 DEF Next, Viewer

(* Only an allocation in progress refreshes the version, so the version    *)
(* stays behind the counter.                                               *)
LEMMA PendingBehind ==
    ASSUME HashInv
    PROVE  /\ m_rw_trx_hash_version <= m_max_trx_id
           /\ \A t \in Pending : m_rw_trx_hash_version < m_max_trx_id
           /\ m_rw_trx_hash_version = m_max_trx_id => Pending = {}
<1>1. Cardinality(Pending) \in Nat /\ (Pending # {} => Cardinality(Pending) # 0)
  BY FS_CardinalityType, FS_EmptySet DEF HashInv, VersionLags
<1>2. m_rw_trx_hash_version \in Nat /\ m_max_trx_id \in Nat
  BY MaxTrxIdAssumption DEF HashInv, HashTypeOK
<1> QED BY <1>1, <1>2 DEF HashInv, VersionLags

LEMMA HashTypeStep ==
    ASSUME HashInv, NEW t \in Trx, HashStep(t)
    PROVE  HashTypeOK'
<1> USE MaxTrxIdAssumption
<1>T. HashTypeOK
  BY DEF HashInv
<1> DEFINE Labels == {"idle", "insert", "active", "store", "serialised",
                      "unlink"}
<1>P. ASSUME NEW a, NEW b \in Labels, Goto(t, a, b)
      PROVE  pc' \in [Trx -> Labels]
  BY <1>T, <1>P DEF Goto, HashTypeOK
<1>R. ASSUME t \in Pending, refresh_rw_trx_hash_version
      PROVE  /\ m_max_trx_id' \in 1 .. MaxTrxId + 1
             /\ m_rw_trx_hash_version' \in 1 .. MaxTrxId + 1
  BY <1>R, <1>T, PendingBehind DEF HashTypeOK, refresh_rw_trx_hash_version
<1>G. ASSUME get_new_trx_id_no_refresh
      PROVE  /\ m_max_trx_id' \in 1 .. MaxTrxId + 1
             /\ m_rw_trx_hash_version' \in 1 .. MaxTrxId + 1
             /\ m_max_trx_id \in Ids
  BY <1>G, <1>T DEF HashTypeOK, get_new_trx_id_no_refresh, Ids
<1>I. pc[t] # "idle" => id[t] \in Ids
  BY <1>T DEF HashTypeOK, HashInv, Registered
<1>N. pc[t] = "store" => number[t] \in Ids
  BY <1>T DEF HashTypeOK, HashInv, Numbered
<1>1. CASE RegisterAllocate(t)
  BY <1>1, <1>T, <1>P, <1>G DEF RegisterAllocate, HashTypeOK
<1>2. CASE RegisterInsert(t)
  BY <1>2, <1>T, <1>P, <1>R, <1>I DEF RegisterInsert, HashTypeOK, Pending, Goto
<1>3. CASE AssignAllocate(t)
  BY <1>3, <1>T, <1>P, <1>G DEF AssignAllocate, HashTypeOK
<1>4. CASE AssignStore(t)
  BY <1>4, <1>T, <1>P, <1>R, <1>I, <1>N
     DEF AssignStore, HashTypeOK, Pending, Goto
<1>5. CASE DeregisterMark(t)
  BY <1>5, <1>T, <1>P, <1>I DEF DeregisterMark, HashTypeOK, counters
<1>6. CASE DeregisterUnlink(t)
  BY <1>6, <1>T, <1>P DEF DeregisterUnlink, HashTypeOK, counters
<1> QED BY <1>1, <1>2, <1>3, <1>4, <1>5, <1>6 DEF HashStep

LEMMA VersionStep ==
    ASSUME HashInv, NEW t \in Trx, HashStep(t)
    PROVE  VersionLags'
<1> USE MaxTrxIdAssumption
<1>T. /\ m_rw_trx_hash_version \in Nat /\ m_max_trx_id \in Nat
      /\ pc \in [Trx -> {"idle", "insert", "active", "store", "serialised",
                         "unlink"}]
      /\ Cardinality(Pending) \in Nat
  BY FS_CardinalityType DEF HashInv, HashTypeOK, VersionLags
<1>V. /\ IsFiniteSet(Pending)
      /\ m_max_trx_id = m_rw_trx_hash_version + Cardinality(Pending)
  BY DEF HashInv, VersionLags
<1>1. ASSUME NEW a, NEW b \in {"insert", "store"}, Goto(t, a, b),
             a \notin {"insert", "store"}, get_new_trx_id_no_refresh
      PROVE  VersionLags'
  <2>1. Pending' = Pending \cup {t} /\ t \notin Pending
    BY <1>1, <1>T DEF Pending, Goto
  <2>2. /\ IsFiniteSet(Pending')
        /\ Cardinality(Pending') = Cardinality(Pending) + 1
    BY <2>1, <1>V, FS_AddElement
  <2> QED BY <1>1, <1>T, <1>V, <2>2 DEF VersionLags, get_new_trx_id_no_refresh
<1>2. ASSUME NEW a \in {"insert", "store"}, NEW b, Goto(t, a, b),
             b \notin {"insert", "store"}, refresh_rw_trx_hash_version
      PROVE  VersionLags'
  <2>1. Pending' = Pending \ {t} /\ t \in Pending
    BY <1>2, <1>T DEF Pending, Goto
  <2>2. /\ IsFiniteSet(Pending')
        /\ Cardinality(Pending') = Cardinality(Pending) - 1
    BY <2>1, <1>V, FS_RemoveElement
  <2> QED BY <1>2, <1>T, <1>V, <2>2
             DEF VersionLags, refresh_rw_trx_hash_version
<1>3. ASSUME NEW a, NEW b, Goto(t, a, b), a \notin {"insert", "store"},
             b \notin {"insert", "store"}, UNCHANGED counters
      PROVE  VersionLags'
  <2>1. Pending' = Pending
    BY <1>3, <1>T DEF Pending, Goto
  <2> QED BY <1>3, <1>V, <2>1 DEF VersionLags, counters
<1>4. CASE RegisterAllocate(t)
  BY <1>1, <1>4 DEF RegisterAllocate
<1>5. CASE RegisterInsert(t)
  BY <1>2, <1>5 DEF RegisterInsert
<1>6. CASE AssignAllocate(t)
  BY <1>1, <1>6 DEF AssignAllocate
<1>7. CASE AssignStore(t)
  BY <1>2, <1>7 DEF AssignStore
<1>8. CASE DeregisterMark(t)
  BY <1>3, <1>8 DEF DeregisterMark
<1>9. CASE DeregisterUnlink(t)
  BY <1>3, <1>9 DEF DeregisterUnlink
<1> QED BY <1>4, <1>5, <1>6, <1>7, <1>8, <1>9 DEF HashStep

LEMMA RegisteredStep ==
    ASSUME HashInv, NEW t \in Trx, HashStep(t)
    PROVE  Registered'
<1> USE MaxTrxIdAssumption
<1>T. /\ m_max_trx_id \in Nat /\ id \in [Trx -> Nat]
      /\ pc \in [Trx -> {"idle", "insert", "active", "store", "serialised",
                         "unlink"}]
      /\ live \subseteq Nat \ {0} /\ committed \subseteq Nat \ {0}
      /\ m_max_trx_id # 0
  BY DEF HashInv, HashTypeOK, Ids
<1>R. Registered
  BY DEF HashInv
<1>1. CASE RegisterAllocate(t)
  BY <1>1, <1>T, <1>R DEF RegisterAllocate, Goto, get_new_trx_id_no_refresh,
                          Registered
<1>2. CASE RegisterInsert(t)
  <2>1. /\ id[t] # 0 /\ id[t] \notin committed
        /\ \A u \in Trx : u # t => id[u] # id[t]
    BY <1>2, <1>T, <1>R DEF RegisterInsert, Goto, Registered
  <2> QED BY <1>2, <1>T, <1>R, <2>1
             DEF RegisterInsert, Goto, refresh_rw_trx_hash_version, Registered
<1>3. CASE AssignAllocate(t)
  BY <1>3, <1>T, <1>R DEF AssignAllocate, Goto, get_new_trx_id_no_refresh,
                          Registered
<1>4. CASE AssignStore(t)
  BY <1>4, <1>T, <1>R DEF AssignStore, Goto, refresh_rw_trx_hash_version,
                          Registered
<1>5. CASE DeregisterMark(t)
  <2>1. /\ id[t] # 0 /\ id[t] \in live
        /\ \A u \in Trx : u # t => id[u] # id[t]
    BY <1>5, <1>T, <1>R DEF DeregisterMark, Goto, Registered
  <2> QED BY <1>5, <1>T, <1>R, <2>1
             DEF DeregisterMark, Goto, counters, Registered
<1>6. CASE DeregisterUnlink(t)
  BY <1>6, <1>T, <1>R DEF DeregisterUnlink, Goto, counters, Registered
<1> QED BY <1>1, <1>2, <1>3, <1>4, <1>5, <1>6 DEF HashStep

LEMMA NumberedStep ==
    ASSUME HashInv, NEW t \in Trx, HashStep(t)
    PROVE  Numbered'
<1> USE MaxTrxIdAssumption
<1>T. /\ m_max_trx_id \in Nat /\ id \in [Trx -> Ids \cup {0}]
      /\ pc \in [Trx -> {"idle", "insert", "active", "store", "serialised",
                         "unlink"}]
      /\ number \in [Trx -> Nat]
      /\ no \in [Ids -> Nat]
      /\ m_max_trx_id # 0 /\ m_max_trx_id < TRX_ID_MAX
      /\ Ids \subseteq Nat \ {0} /\ TRX_ID_MAX \in Nat
  BY DEF HashInv, HashTypeOK, Ids, TRX_ID_MAX
<1>R. Registered
  BY DEF HashInv
<1>N. Numbered
  BY DEF HashInv
<1>1. CASE RegisterAllocate(t)
  <2>1. \A i \in Ids : i >= m_max_trx_id => no[i] = TRX_ID_MAX
    BY <1>T, <1>N DEF Numbered
  <2>2. m_max_trx_id \in Ids
    BY <1>1 DEF RegisterAllocate, get_new_trx_id_no_refresh
  <2>3. no[m_max_trx_id] = TRX_ID_MAX
    BY <1>T, <2>1, <2>2
  <2> QED BY <1>1, <1>T, <1>N, <2>3
             DEF RegisterAllocate, Goto, get_new_trx_id_no_refresh, Numbered
<1>2. CASE RegisterInsert(t)
  <2>1. /\ id[t] \in Ids /\ no[id[t]] = TRX_ID_MAX
        /\ no' = no
    BY <1>2, <1>T, <1>N, <1>R DEF RegisterInsert, Goto, Registered, Numbered
  <2> QED BY <1>2, <1>T, <1>N, <2>1
             DEF RegisterInsert, Goto, refresh_rw_trx_hash_version, Numbered
<1>3. CASE AssignAllocate(t)
  <2>1. m_max_trx_id \in Ids /\ id[t] < m_max_trx_id
    BY <1>3, <1>R DEF AssignAllocate, get_new_trx_id_no_refresh, Registered
  <2>2. \A i \in Ids : no[i] # m_max_trx_id
    BY <1>T, <1>N DEF Numbered
  <2> QED BY <1>3, <1>T, <1>N, <2>1, <2>2
             DEF AssignAllocate, Goto, get_new_trx_id_no_refresh, Numbered
<1>4. CASE AssignStore(t)
  <2>1. /\ id[t] \in Ids /\ number[t] # 0 /\ id[t] < number[t]
        /\ number[t] < m_max_trx_id
        /\ \A i \in Ids : no[i] # number[t]
        /\ \A u \in Trx : u # t => number[u] # number[t]
        /\ \A u \in Trx : u # t => id[u] # id[t]
    BY <1>4, <1>T, <1>N, <1>R DEF AssignStore, Goto, Numbered, Registered
  <2>2. /\ pc' = [pc EXCEPT ![t] = "serialised"] /\ id' = id
        /\ no' = [no EXCEPT ![id[t]] = number[t]]
        /\ number' = [number EXCEPT ![t] = 0]
        /\ m_max_trx_id' = m_max_trx_id
    BY <1>4 DEF AssignStore, Goto, refresh_rw_trx_hash_version
  <2>3. /\ no'[id[t]] = number[t]
        /\ \A i \in Ids : i # id[t] => no'[i] = no[i]
    BY <1>T, <2>1, <2>2
  <2>4. number'[t] = 0 /\ \A u \in Trx : u # t => number'[u] = number[u]
    BY <1>T, <2>2
  <2>5. pc'[t] = "serialised" /\ \A u \in Trx : u # t => pc'[u] = pc[u]
    BY <1>T, <2>2
  <2>6. /\ \A i \in Ids : no'[i] # TRX_ID_MAX
                              => i < no'[i] /\ no'[i] < m_max_trx_id'
        /\ \A i, j \in Ids : i # j /\ no'[i] = no'[j] => no'[i] = TRX_ID_MAX
    BY <1>T, <1>N, <2>1, <2>2, <2>3 DEF Numbered
  <2>7. ASSUME NEW u \in Trx, u # t
        PROVE  /\ number'[u] < m_max_trx_id'
               /\ number'[u] # 0 <=> pc'[u] = "store"
               /\ number'[u] # 0 => id'[u] < number'[u]
               /\ pc'[u] \in {"insert", "active", "store"}
                      => no'[id'[u]] = TRX_ID_MAX
               /\ number'[u] # 0 => \A i \in Ids : no'[i] # number'[u]
    <3>1. pc[u] \in {"insert", "active", "store"} => id[u] \in Ids
      BY <1>T, <1>R DEF Registered
    <3> QED BY <1>T, <1>N, <2>1, <2>2, <2>3, <2>4, <2>5, <2>7, <3>1
               DEF Numbered
  <2>8. \A u, v \in Trx : u # v /\ number'[u] = number'[v] => number'[u] = 0
    BY <1>N, <2>4 DEF Numbered
  <2> QED BY <1>T, <2>1, <2>2, <2>4, <2>5, <2>6, <2>7, <2>8 DEF Numbered
<1>5. CASE DeregisterMark(t)
  BY <1>5, <1>T, <1>N DEF DeregisterMark, Goto, counters, Numbered
<1>6. CASE DeregisterUnlink(t)
  BY <1>6, <1>T, <1>N DEF DeregisterUnlink, Goto, counters, Numbered
<1> QED BY <1>1, <1>2, <1>3, <1>4, <1>5, <1>6 DEF HashStep

(* What readers rely on when the hash changes: identifiers and numbers     *)
(* only come from the counter, a number moves into the hash element, and   *)
(* whatever is committed was active before.                                *)
Advance ==
    /\ m_max_trx_id <= m_max_trx_id'
    /\ \A u \in Trx : id'[u] # 0 /\ id'[u] \notin committed' =>
          \/ /\ id'[u] = id[u] /\ id[u] # 0 /\ id[u] \notin committed
             /\ id[u] \in live => id[u] \in live'
          \/ m_max_trx_id <= id'[u]
    /\ \A u \in Trx : number'[u] # 0 => \/ number'[u] = number[u]
                                        \/ m_max_trx_id <= number'[u]
    /\ \A i \in Ids : \/ no'[i] = no[i]
                      \/ no'[i] = TRX_ID_MAX
                      \/ \E u \in Trx : number[u] # 0 /\ no'[i] = number[u]
    /\ \A i \in live' : i \in live \/ no'[i] = TRX_ID_MAX
    /\ \A i \in committed' \ committed :
          \E u \in Trx : id[u] = i /\ id[u] # 0 /\ id[u] \notin committed
    /\ committed \subseteq committed'
    /\ \A i \in committed : no'[i] = no[i] /\ i \notin live'

LEMMA AdvanceStep ==
    ASSUME HashInv, NEW t \in Trx, HashStep(t)
    PROVE  Advance
<1> USE MaxTrxIdAssumption
<1>T. /\ m_max_trx_id \in Nat /\ id \in [Trx -> Ids \cup {0}]
      /\ pc \in [Trx -> {"idle", "insert", "active", "store", "serialised",
                         "unlink"}]
      /\ number \in [Trx -> Nat]
      /\ no \in [Ids -> Nat]
      /\ Ids \subseteq Nat \ {0} /\ TRX_ID_MAX \in Nat
      /\ live \subseteq Ids /\ committed \subseteq Ids
  BY DEF HashInv, HashTypeOK, Ids, TRX_ID_MAX
<1>R. Registered
  BY DEF HashInv
<1>N. Numbered
  BY DEF HashInv
<1>1. CASE RegisterAllocate(t)
  BY <1>1, <1>T, <1>R DEF RegisterAllocate, get_new_trx_id_no_refresh, Advance,
                          Registered
<1>2. CASE RegisterInsert(t)
  <2>1. /\ id[t] \in Ids /\ no[id[t]] = TRX_ID_MAX
        /\ no' = no /\ id[t] \notin committed
    BY <1>2, <1>T, <1>N, <1>R DEF RegisterInsert, Goto, Registered, Numbered
  <2> QED BY <1>2, <1>T, <1>R, <2>1
             DEF RegisterInsert, refresh_rw_trx_hash_version, Advance,
                 Registered
<1>3. CASE AssignAllocate(t)
  BY <1>3, <1>T, <1>R DEF AssignAllocate, get_new_trx_id_no_refresh, Advance,
                          Registered
<1>4. CASE AssignStore(t)
  <2>1. /\ id[t] \in Ids /\ id[t] \notin committed /\ number[t] # 0
    BY <1>4, <1>T, <1>N, <1>R DEF AssignStore, Goto, Registered, Numbered
  <2>2. /\ no'[id[t]] = number[t]
        /\ \A i \in Ids : i # id[t] => no'[i] = no[i]
    BY <1>4, <1>T, <2>1 DEF AssignStore
  <2>3. \A u \in Trx : number'[u] # 0 => number'[u] = number[u]
    BY <1>4, <1>T DEF AssignStore
  <2>4. UNCHANGED <<m_max_trx_id, id, live, committed>>
    BY <1>4 DEF AssignStore, refresh_rw_trx_hash_version
  <2> QED BY <1>T, <1>R, <2>1, <2>2, <2>3, <2>4 DEF Advance, Registered
<1>5. CASE DeregisterMark(t)
  <2>1. /\ id[t] # 0 /\ id[t] \in live /\ id[t] \notin committed
        /\ \A u \in Trx : u # t => id[u] # id[t]
    BY <1>5, <1>T, <1>R DEF DeregisterMark, Goto, Registered
  <2>2. /\ UNCHANGED <<m_max_trx_id, id, no, number>>
        /\ live' = live \ {id[t]} /\ committed' = committed \cup {id[t]}
    BY <1>5 DEF DeregisterMark, counters
  <2> QED BY <1>T, <1>R, <2>1, <2>2 DEF Advance, Registered
<1>6. CASE DeregisterUnlink(t)
  BY <1>6, <1>T, <1>R DEF DeregisterUnlink, counters, Advance, Registered
<1> QED BY <1>1, <1>2, <1>3, <1>4, <1>5, <1>6 DEF HashStep

(* The step of the invariant of the hash, and what the others need of it. *)
LEMMA HashInvStep ==
    ASSUME HashInv, [Next]_vars
    PROVE  HashInv' /\ Advance
<1>1. ASSUME NEW t \in Trx, HashStep(t) PROVE HashInv' /\ Advance
  BY <1>1, HashTypeStep, VersionStep, RegisteredStep, NumberedStep, AdvanceStep
     DEF HashInv
<1>2. CASE UNCHANGED hashVars
  <2>1. HashInv'
    BY <1>2 DEF hashVars, counters, HashInv, HashTypeOK, VersionLags, Pending,
                Registered, Numbered
  <2>2. m_max_trx_id \in Nat
    BY MaxTrxIdAssumption DEF HashInv, HashTypeOK
  <2>3. UNCHANGED <<m_max_trx_id, id, number, no, live, committed>>
    BY <1>2 DEF hashVars, counters
  <2> QED BY <2>1, <2>2, <2>3 DEF Advance, HashInv, Registered
<1> QED BY <1>1, <1>2, HashSteps

-----------------------------------------------------------------------------
(* Views and snapshots while the hash changes *)

HashNumbers ==
    /\ m_max_trx_id \in Nat /\ m_max_trx_id < TRX_ID_MAX
    /\ id \in [Trx -> Nat]
    /\ number \in [Trx -> Nat]
    /\ no \in [Ids -> Nat]
    /\ Ids \subseteq Nat \ {0} /\ TRX_ID_MAX \in Nat
    /\ live \subseteq Ids /\ committed \subseteq Ids

LEMMA HashNumbersOK == HashTypeOK => HashNumbers
BY MaxTrxIdAssumption DEF HashTypeOK, HashNumbers, Ids, TRX_ID_MAX

LEMMA ViewTypes ==
    ASSUME NEW v \in ViewSet
    PROVE  /\ v.low_limit_id \in Nat /\ v.up_limit_id \in Nat
           /\ v.low_limit_no \in Nat /\ v.ids \in SUBSET Ids
BY MaxTrxIdAssumption DEF ViewSet, Limits

LEMMA ScanTypes ==
    ASSUME NEW s \in ScanSet
    PROVE  /\ s.id \in Nat /\ s.no \in Nat /\ s.size \in Nat
           /\ s.ids \in SUBSET Ids /\ s.todo \in SUBSET Ids
BY MaxTrxIdAssumption DEF ScanSet, Limits

(* A complete view stays right while transactions come and go: what comes  *)
(* has identifiers and numbers from the counter, above the limits.         *)
LEMMA ViewStable ==
    ASSUME HashTypeOK, HashTypeOK', Advance, NEW v \in ViewSet, ViewOK(v)
    PROVE  /\ v.low_limit_id <= m_max_trx_id'
           /\ v.low_limit_no <= m_max_trx_id'
           /\ \A u \in Trx : id'[u] # 0 /\ id'[u] \notin committed'
                                 => ~changes_visible(v, id'[u])
           /\ \A j \in live' : v.low_limit_no <= no'[j]
           /\ \A u \in Trx : number'[u] # 0 => v.low_limit_no <= number'[u]
           /\ \A i \in Ids : no'[i] < v.low_limit_no => changes_visible(v, i)
<1>1. HashNumbers
  BY HashNumbersOK
<1>2. HashNumbers'
  BY HashNumbersOK, PTL
<1>3. /\ v.low_limit_id \in Nat /\ v.up_limit_id \in Nat
      /\ v.low_limit_no \in Nat /\ v.ids \in SUBSET Ids
  BY ViewTypes
<1>4. /\ v.low_limit_id <= m_max_trx_id'
      /\ v.low_limit_no <= m_max_trx_id'
  BY <1>1, <1>2, <1>3 DEF HashNumbers, Advance, ViewOK
<1>5. ASSUME NEW u \in Trx, id'[u] # 0, id'[u] \notin committed'
      PROVE  ~changes_visible(v, id'[u])
  BY <1>1, <1>2, <1>3, <1>5 DEF HashNumbers, Advance, ViewOK, changes_visible
<1>6. \A u \in Trx : number'[u] # 0 => v.low_limit_no <= number'[u]
  BY <1>1, <1>2, <1>3 DEF HashNumbers, Advance, ViewOK
<1>7. ASSUME NEW i \in Ids
      PROVE  no'[i] = no[i] \/ v.low_limit_no <= no'[i]
  BY <1>1, <1>2, <1>3 DEF HashNumbers, Advance, ViewOK
<1>8. \A j \in live' : v.low_limit_no <= no'[j]
  BY <1>1, <1>2, <1>3, <1>7 DEF HashNumbers, Advance, ViewOK
<1>9. \A i \in Ids : no'[i] < v.low_limit_no => changes_visible(v, i)
  BY <1>1, <1>2, <1>3, <1>7 DEF HashNumbers, ViewOK
<1> QED BY <1>4, <1>5, <1>6, <1>8, <1>9

LEMMA ScanStable ==
    ASSUME HashTypeOK, HashTypeOK', Advance, NEW s \in ScanSet, ScanOK(s)
    PROVE  /\ s.id <= m_max_trx_id'
           /\ \A u \in Trx :
                 id'[u] # 0 /\ id'[u] \notin committed' /\ id'[u] < s.id
                     => id'[u] \in live' /\ id'[u] \in s.ids \cup s.todo
           /\ \A u \in Trx : number'[u] # 0 => s.id <= number'[u]
           /\ \A i \in Ids : no'[i] < s.no => i \notin s.ids
           /\ \A i \in live' : no'[i] < s.no => i \in s.todo
<1>1. HashNumbers
  BY HashNumbersOK
<1>2. HashNumbers'
  BY HashNumbersOK, PTL
<1>3. /\ s.id \in Nat /\ s.no \in Nat
      /\ s.ids \in SUBSET Ids /\ s.todo \in SUBSET Ids
  BY ScanTypes
<1>4. s.id <= m_max_trx_id'
  BY <1>1, <1>2, <1>3 DEF HashNumbers, Advance, ScanOK
<1>5. ASSUME NEW u \in Trx, id'[u] # 0, id'[u] \notin committed',
             id'[u] < s.id
      PROVE  id'[u] \in live' /\ id'[u] \in s.ids \cup s.todo
  BY <1>1, <1>2, <1>3, <1>5 DEF HashNumbers, Advance, ScanOK
<1>6. \A u \in Trx : number'[u] # 0 => s.id <= number'[u]
  BY <1>1, <1>2, <1>3 DEF HashNumbers, Advance, ScanOK
<1>7. ASSUME NEW i \in Ids
      PROVE  no'[i] = no[i] \/ s.no <= no'[i]
  BY <1>1, <1>2, <1>3 DEF HashNumbers, Advance, ScanOK
<1>8. \A i \in live' : no'[i] < s.no => i \in s.todo
  BY <1>1, <1>2, <1>3, <1>7 DEF HashNumbers, Advance, ScanOK
<1>9. \A i \in Ids : no'[i] < s.no => i \notin s.ids
  BY <1>1, <1>2, <1>3, <1>7 DEF HashNumbers, ScanOK
<1> QED BY <1>4, <1>5, <1>6, <1>8, <1>9

-----------------------------------------------------------------------------
(* What ReadViewBase::snapshot() and append() build *)

LEMMA NoViewOK ==
    ASSUME HashTypeOK
    PROVE  NoView \in ViewSet /\ ViewOK(NoView)
<1>1. NoView \in ViewSet
  BY MaxTrxIdAssumption DEF NoView, ViewSet, Limits
<1>2. HashNumbers
  BY HashNumbersOK
<1>3. /\ NoView.low_limit_id = 0 /\ NoView.up_limit_id = 0
      /\ NoView.low_limit_no = 0 /\ NoView.ids = {}
  BY DEF NoView
<1>4. \A i \in Nat : ~changes_visible(NoView, i)
  BY <1>3 DEF changes_visible
<1>5. /\ 0 <= m_max_trx_id
      /\ \A i \in Ids : no[i] \in Nat /\ 0 <= no[i] /\ ~(no[i] < 0)
      /\ \A u \in Trx : id[u] \in Nat /\ 0 <= number[u]
      /\ live \subseteq Ids
  BY <1>2 DEF HashNumbers
<1>6. \A i \in NoView.ids : NoView.up_limit_id <= i
  BY <1>3
<1>7. \A u \in Trx : ~changes_visible(NoView, id[u])
  BY <1>4, <1>5
<1>8. \A j \in live : NoView.low_limit_no <= no[j]
  BY <1>3, <1>5
<1> HIDE DEF NoView
<1> QED BY <1>1, <1>3, <1>5, <1>6, <1>7, <1>8 DEF ViewOK

(* A complete snapshot makes a view of the past.  Unless duplicates made   *)
(* it collapse, it sees every smaller identifier it did not meet.          *)
LEMMA ViewOfOK ==
    ASSUME HashInv, NEW s \in ScanSet, ScanOK(s), s.todo \cap live = {}
    PROVE  /\ ViewOf(s) \in ViewSet
           /\ ViewOK(ViewOf(s))
           /\ ~(Collapses(s) /\ Cardinality(s.ids) # s.size) =>
                 \A i \in Ids : i < s.id /\ i \notin s.ids
                                    => changes_visible(ViewOf(s), i)
<1> DEFINE up == IF s.ids = {} THEN s.id ELSE Lowest(s.ids)
           v  == ViewOf(s)
<1>1. HashNumbers
  BY HashNumbersOK DEF HashInv
<1>2. /\ s.id \in Nat /\ s.no \in Nat /\ s.ids \in SUBSET Nat
      /\ s.ids \in SUBSET Ids /\ s.size \in Nat /\ s.todo \in SUBSET Ids
  BY <1>1, ScanTypes DEF HashNumbers
<1>3. /\ up \in Nat /\ up <= s.id
      /\ \A i \in s.ids : up <= i
  <2>1. CASE s.ids = {}
    BY <1>2, <2>1
  <2>2. CASE s.ids # {}
    <3>1. Lowest(s.ids) \in s.ids /\ \A i \in s.ids : Lowest(s.ids) <= i
      BY <1>2, <2>2, LowestIsLeast
    <3>2. \A i \in s.ids : i < s.id
      BY DEF ScanOK
    <3>3. Lowest(s.ids) \in Nat /\ Lowest(s.ids) < s.id
      BY <1>2, <3>1, <3>2
    <3> QED BY <1>2, <2>2, <3>1, <3>3
  <2> QED BY <2>1, <2>2
<1>4. ASSUME Collapses(s)
      PROVE  v = [low_limit_id |-> up, up_limit_id |-> up, ids |-> {},
                  low_limit_no |-> up]
  BY <1>4 DEF ViewOf
<1>5. ASSUME ~Collapses(s)
      PROVE  v = [low_limit_id |-> s.id, up_limit_id |-> up, ids |-> s.ids,
                  low_limit_no |-> s.no]
  BY <1>5 DEF ViewOf
<1>C. Collapses(s) => up = Lowest(s.ids) /\ s.no = s.id /\ s.ids # {}
  BY DEF Collapses
<1>M. s.id \in Limits /\ s.no \in Limits
  BY DEF ScanSet
<1> HIDE DEF up, v
<1>U. up \in Limits
  BY <1>2, <1>3, <1>M, MaxTrxIdAssumption DEF Limits
<1>6. v \in ViewSet
  <2>1. 0 \in Limits /\ {} \in SUBSET Ids
    BY MaxTrxIdAssumption DEF Limits
  <2>2. CASE Collapses(s)
    BY <1>4, <1>U, <2>2 DEF ViewSet
  <2>3. CASE ~Collapses(s)
    BY <1>2, <1>5, <1>U, <1>M, <2>3 DEF ViewSet
  <2> QED BY <2>2, <2>3
<1>7. /\ v.up_limit_id = up
      /\ v.low_limit_id = IF Collapses(s) THEN up ELSE s.id
      /\ v.low_limit_no = IF Collapses(s) THEN up ELSE s.no
      /\ v.ids = IF Collapses(s) THEN {} ELSE s.ids
  BY <1>4, <1>5
<1>8. /\ v.low_limit_id <= s.id /\ v.low_limit_no <= s.no
      /\ v.low_limit_id \in Nat /\ v.low_limit_no \in Nat
  BY <1>2, <1>3, <1>7, <1>C DEF ScanOK
<1>9. ViewOK(v)
  <2>1. v.low_limit_id <= m_max_trx_id /\ v.low_limit_no <= m_max_trx_id
    BY <1>1, <1>2, <1>8 DEF ScanOK, HashNumbers
  <2>2. \A i \in v.ids : v.up_limit_id <= i
    BY <1>3, <1>7
  <2>3. ASSUME NEW u \in Trx, id[u] # 0, id[u] \notin committed
        PROVE  ~changes_visible(v, id[u])
    <3>1. id[u] \in Nat
      BY <1>1 DEF HashNumbers
    <3>2. id[u] < s.id => id[u] \in s.ids
      BY <2>3 DEF ScanOK
    <3>3. id[u] < s.id => up <= id[u]
      BY <1>3, <3>2
    <3> QED BY <1>2, <1>3, <1>7, <1>8, <3>1, <3>2, <3>3 DEF changes_visible
  <2>4. \A j \in live : v.low_limit_no <= no[j]
    <3> SUFFICES ASSUME NEW j \in live PROVE v.low_limit_no <= no[j]
      OBVIOUS
    <3>1. no[j] \in Nat /\ ~(no[j] < s.no)
      BY <1>1 DEF ScanOK, HashNumbers
    <3> QED BY <1>2, <1>8, <3>1
  <2>5. \A u \in Trx : number[u] # 0 => v.low_limit_no <= number[u]
    <3> SUFFICES ASSUME NEW u \in Trx, number[u] # 0
                 PROVE  v.low_limit_no <= number[u]
      OBVIOUS
    <3>1. number[u] \in Nat /\ s.id <= number[u] /\ s.no <= s.id
      BY <1>1 DEF ScanOK, HashNumbers
    <3> QED BY <1>2, <1>8, <3>1
  <2>6. ASSUME NEW i \in Ids, no[i] < v.low_limit_no
        PROVE  changes_visible(v, i)
    <3>N. no[i] \in Nat /\ i \in Nat
      BY <1>1 DEF HashNumbers
    <3>1. no[i] \in Nat /\ i \in Nat /\ i < no[i]
      BY <1>1, <1>8, <2>1, <2>6, <3>N DEF HashNumbers, HashInv, Numbered
    <3>2. CASE Collapses(s)
      BY <1>3, <1>7, <2>6, <3>1, <3>2 DEF changes_visible
    <3>3. CASE ~Collapses(s)
      <4>1. no[i] < s.no /\ i \notin s.ids /\ s.no <= s.id
        BY <1>7, <2>6, <3>3 DEF ScanOK
      <4> QED BY <1>2, <1>7, <2>6, <3>1, <3>3, <4>1 DEF changes_visible
    <3> QED BY <3>2, <3>3
  <2> QED BY <2>1, <2>2, <2>3, <2>4, <2>5, <2>6 DEF ViewOK
<1>10. ASSUME ~(Collapses(s) /\ Cardinality(s.ids) # s.size),
              NEW i \in Ids, i < s.id, i \notin s.ids
       PROVE  changes_visible(v, i)
  <2>1. i \in Nat
    BY <1>1 DEF HashNumbers
  <2>2. CASE ~Collapses(s)
    BY <1>7, <1>10, <2>1, <2>2 DEF changes_visible
  <2>3. CASE Collapses(s)
    <3>1. s.id = Lowest(s.ids) + Cardinality(s.ids)
      BY <1>10, <2>3 DEF Collapses
    <3>2. \A j \in s.ids : j < s.id
      BY DEF ScanOK
    <3>3. \A j \in Nat : Lowest(s.ids) <= j /\ j < s.id => j \in s.ids
      BY <1>2, <1>C, <2>3, <3>1, <3>2, Contiguous
    <3>4. i < up
      BY <1>3, <1>10, <1>C, <2>1, <2>3, <3>3
    <3> QED BY <1>7, <2>3, <3>4 DEF changes_visible
  <2> QED BY <2>2, <2>3
<1> QED BY <1>6, <1>9, <1>10 DEF v

(* The view append() builds sees what both views see, and nothing else. *)
LEMMA AppendOK ==
    ASSUME HashTypeOK, NEW v \in ViewSet, NEW o \in ViewSet,
           ViewOK(v), ViewOK(o)
    PROVE  /\ Append(v, o) \in ViewSet
           /\ ViewOK(Append(v, o))
           /\ \A i \in Ids : changes_visible(Append(v, o), i)
                                => changes_visible(v, i) /\ changes_visible(o, i)
<1> DEFINE low == Smaller(o.low_limit_id, v.low_limit_id)
           ids == {i \in v.ids \cup o.ids : i < low}
           up  == IF ids = {} THEN low ELSE Lowest(ids)
           ln  == Smaller(o.low_limit_no, v.low_limit_no)
           a   == Append(v, o)
<1>1. HashNumbers
  BY HashNumbersOK
<1>2. /\ v.low_limit_id \in Nat /\ v.up_limit_id \in Nat
      /\ v.low_limit_no \in Nat /\ v.ids \in SUBSET Ids
      /\ o.low_limit_id \in Nat /\ o.up_limit_id \in Nat
      /\ o.low_limit_no \in Nat /\ o.ids \in SUBSET Ids
      /\ v.low_limit_id \in Limits /\ o.low_limit_id \in Limits
      /\ v.low_limit_no \in Limits /\ o.low_limit_no \in Limits
  BY ViewTypes DEF ViewSet
<1>3. /\ low \in Nat /\ low <= v.low_limit_id /\ low <= o.low_limit_id
      /\ low \in {v.low_limit_id, o.low_limit_id}
  BY <1>2 DEF Smaller
<1>4. /\ ln \in Nat /\ ln <= v.low_limit_no /\ ln <= o.low_limit_no
      /\ ln \in {v.low_limit_no, o.low_limit_no}
  BY <1>2 DEF Smaller
<1>5. a = [low_limit_id |-> low, up_limit_id |-> up, ids |-> ids,
           low_limit_no |-> ln]
  BY DEF Append
<1> HIDE DEF low, ln, a
<1>6. ids \in SUBSET Ids /\ ids \in SUBSET Nat
  BY <1>1, <1>2 DEF HashNumbers
<1>7. up \in Nat /\ up <= low /\ \A i \in ids : up <= i
  <2>1. CASE ids = {}
    BY <1>3, <2>1
  <2>2. CASE ids # {}
    <3>1. Lowest(ids) \in ids /\ \A i \in ids : Lowest(ids) <= i
      BY <1>6, <2>2, LowestIsLeast
    <3>2. \A i \in ids : i < low
      OBVIOUS
    <3>3. Lowest(ids) \in Nat /\ Lowest(ids) < low
      BY <1>6, <3>1, <3>2
    <3> QED BY <1>3, <2>2, <3>1, <3>3
  <2> QED BY <2>1, <2>2
<1>I. \A i \in Nat : i \in ids <=> i \in v.ids \cup o.ids /\ i < low
  BY <1>1, <1>2 DEF HashNumbers
<1> HIDE DEF up, ids
<1>8. /\ a.low_limit_id = low /\ a.up_limit_id = up
      /\ a.ids = ids /\ a.low_limit_no = ln
  BY <1>5
<1>9. a \in ViewSet
  <2>1. low \in Limits /\ ln \in Limits
    BY <1>2, <1>3, <1>4
  <2>2. up \in Limits
    BY <2>1, <1>3, <1>7, MaxTrxIdAssumption DEF Limits
  <2> QED BY <1>5, <1>6, <2>1, <2>2 DEF ViewSet
<1>10. ASSUME NEW i \in Nat
       PROVE  changes_visible(a, i) <=> i < low /\ i \notin v.ids \cup o.ids
  BY <1>3, <1>7, <1>8, <1>10, <1>I DEF changes_visible
<1>11. ASSUME NEW i \in Nat, changes_visible(a, i)
       PROVE  changes_visible(v, i) /\ changes_visible(o, i)
  BY <1>2, <1>3, <1>10, <1>11 DEF changes_visible
<1>12. ASSUME NEW i \in Nat, changes_visible(v, i), changes_visible(o, i)
       PROVE  changes_visible(a, i)
  <2>1. i < low
    BY <1>3, <1>12 DEF changes_visible
  <2>2. i \notin v.ids
    BY <1>2, <1>12 DEF changes_visible, ViewOK
  <2>3. i \notin o.ids
    BY <1>2, <1>12 DEF changes_visible, ViewOK
  <2> QED BY <1>10, <2>1, <2>2, <2>3
<1>13. ViewOK(a)
  <2>1. a.low_limit_id <= m_max_trx_id /\ a.low_limit_no <= m_max_trx_id
    BY <1>3, <1>4, <1>8 DEF ViewOK
  <2>2. \A i \in a.ids : a.up_limit_id <= i
    BY <1>7, <1>8
  <2>3. \A u \in Trx : id[u] # 0 /\ id[u] \notin committed
                           => ~changes_visible(a, id[u])
    BY <1>1, <1>11 DEF ViewOK, HashNumbers
  <2>4. \A j \in live : a.low_limit_no <= no[j]
    BY <1>4, <1>8 DEF ViewOK
  <2>5. \A u \in Trx : number[u] # 0 => a.low_limit_no <= number[u]
    BY <1>4, <1>8 DEF ViewOK
  <2>6. ASSUME NEW i \in Ids, no[i] < a.low_limit_no
        PROVE  changes_visible(a, i)
    <3>1. no[i] \in Nat /\ i \in Nat
      BY <1>1 DEF HashNumbers
    <3>2. no[i] < v.low_limit_no /\ no[i] < o.low_limit_no
      BY <1>2, <1>4, <1>8, <2>6, <3>1
    <3>3. changes_visible(v, i) /\ changes_visible(o, i)
      BY <3>2 DEF ViewOK
    <3> QED BY <1>12, <3>1, <3>3
  <2> QED BY <2>1, <2>2, <2>3, <2>4, <2>5, <2>6 DEF ViewOK
<1>14. Ids \subseteq Nat
  BY <1>1 DEF HashNumbers
<1> QED BY <1>9, <1>11, <1>13, <1>14 DEF a

-----------------------------------------------------------------------------
(* Types *)

VTypes ==
    /\ view \in [Viewer -> ViewSet]
    /\ m_open \in [Reader -> BOOLEAN]
    /\ at \in [Viewer -> {"none", "reuse", "iterate", "append"}]
    /\ scan \in [Viewer -> ScanSet]
    /\ retries \in 0 .. MaxRetry
    /\ must \in [Reader -> SUBSET Ids]
    /\ stale \subseteq Reader
    /\ miscounted \subseteq Viewer

PTypes ==
    /\ left \subseteq Reader
    /\ history \subseteq Ids
    /\ purged \subseteq Ids

LEMMA TypeParts == TypeOK <=> HashTypeOK /\ VTypes /\ PTypes
BY DEF TypeOK, VTypes, PTypes, Viewer

LEMMA HashInvOK == IInv => HashInv
BY DEF IInv, HashInv, TypeOK

LEMMA ReadersViewers == Reader \subseteq Viewer /\ Purge \in Viewer
                        /\ Purge \notin Reader /\ Writer \subseteq Trx
                        /\ Reader \subseteq Trx
BY RolesAssumption DEF Viewer

LEMMA SnapshotBeginTypes ==
    ASSUME HashInv, VTypes, NEW w \in Viewer, SnapshotBegin(w)
    PROVE  /\ at' \in [Viewer -> {"none", "reuse", "iterate", "append"}]
           /\ scan' \in [Viewer -> ScanSet]
           /\ Marked \subseteq committed
<1> DEFINE s == [id |-> m_rw_trx_hash_version, no |-> m_rw_trx_hash_version,
                 ids |-> {}, size |-> 0, todo |-> live]
<1>1. Marked \subseteq committed
  BY DEF Marked, HashInv, Registered
<1>2. live \cup Marked \in SUBSET Ids
  BY <1>1 DEF HashInv, HashTypeOK
<1>3. m_rw_trx_hash_version \in Limits
  BY MaxTrxIdAssumption DEF HashInv, HashTypeOK, Limits
<1>4. s \in ScanSet
  BY <1>2, <1>3 DEF ScanSet
<1>5. /\ at' = [at EXCEPT ![w] = "iterate"]
      /\ scan' = [scan EXCEPT ![w] = s]
  BY DEF SnapshotBegin
<1> HIDE DEF s
<1> QED BY <1>1, <1>4, <1>5 DEF VTypes

LEMMA SnapshotEndTypes ==
    ASSUME HashInv, VTypes, Scans, NEW w \in Viewer,
           NEW next \in {"none", "append"}, SnapshotEnd(w, next)
    PROVE  /\ at' \in [Viewer -> {"none", "reuse", "iterate", "append"}]
           /\ view' \in [Viewer -> ViewSet]
           /\ scan' \in [Viewer -> ScanSet]
           /\ miscounted' \subseteq Viewer
<1>1. ScanOK(scan[w]) /\ scan[w].todo \cap live = {} /\ scan[w] \in ScanSet
  BY DEF SnapshotEnd, Scans, VTypes
<1>2. ViewOf(scan[w]) \in ViewSet
  BY <1>1, ViewOfOK
<1>3. NoScan \in ScanSet
  BY MaxTrxIdAssumption DEF NoScan, ScanSet, Limits
<1>4. miscounted' \subseteq Viewer
  BY DEF SnapshotEnd, VTypes
<1> QED BY <1>2, <1>3, <1>4 DEF SnapshotEnd, VTypes

LEMMA CloseTypes ==
    ASSUME VTypes, HashTypeOK, NEW t \in Reader, close(t)
    PROVE  /\ view' \in [Viewer -> ViewSet]
           /\ m_open' \in [Reader -> BOOLEAN]
           /\ must' \in [Reader -> SUBSET Ids]
           /\ stale' \subseteq Reader
           /\ miscounted' \subseteq Viewer
<1>1. NoView \in ViewSet
  BY NoViewOK
<1>2. view' = view \/ view' = [view EXCEPT ![t] = NoView]
  BY DEF close
<1>3. view' \in [Viewer -> ViewSet]
  BY <1>1, <1>2 DEF VTypes
<1>4. /\ m_open' \in [Reader -> BOOLEAN]
      /\ must' \in [Reader -> SUBSET Ids]
  BY DEF close, VTypes
<1>5. stale' \subseteq Reader /\ miscounted' \subseteq Viewer
  BY DEF close, VTypes
<1> QED BY <1>3, <1>4, <1>5

LEMMA VTypesStep ==
    ASSUME IInv, [Next]_vars
    PROVE  VTypes'
<1>T. HashTypeOK /\ VTypes /\ PTypes /\ HashInv
  BY TypeParts, HashInvOK DEF IInv
<1>R. Reader \subseteq Viewer /\ Purge \in Viewer
  BY ReadersViewers
<1>0. CASE UNCHANGED views
  BY <1>0, <1>T DEF views, VTypes
<1>1. ASSUME NEW t \in Writer, Register(t) \/ Serialise(t) \/ Unlink(t)
      PROVE  VTypes'
  BY <1>0, <1>1 DEF Register, Serialise, Unlink
<1>2. ASSUME NEW t \in Writer, CommitInMemory(t)
      PROVE  VTypes'
  <2>1. CASE t \in Reader
    BY <1>2, <1>T, <2>1, CloseTypes DEF CommitInMemory, VTypes
  <2>2. CASE t \notin Reader
    BY <1>2, <1>T, <2>2 DEF CommitInMemory, VTypes
  <2> QED BY <2>1, <2>2
<1>3. ASSUME NEW t \in Reader, OpenCheck(t)
      PROVE  VTypes'
  <2>1. committed \in SUBSET Ids
    BY <1>T DEF HashTypeOK
  <2> QED BY <1>3, <1>T, <1>R, <2>1 DEF OpenCheck, VTypes
<1>4. ASSUME NEW t \in Reader, OpenReuse(t)
      PROVE  VTypes'
  <2>1. stale' \subseteq Reader
    BY <1>4, <1>T DEF OpenReuse, VTypes
  <2> QED BY <1>4, <1>T, <1>R, <2>1 DEF OpenReuse, VTypes
<1>5. ASSUME NEW t \in Reader, OpenSnapshot(t)
      PROVE  VTypes'
  <2>1. committed \in SUBSET Ids
    BY <1>T DEF HashTypeOK
  <2>2. /\ at' \in [Viewer -> {"none", "reuse", "iterate", "append"}]
        /\ scan' \in [Viewer -> ScanSet]
    BY <1>5, <1>T, <1>R, SnapshotBeginTypes DEF OpenSnapshot
  <2> QED BY <1>5, <1>T, <1>R, <2>1, <2>2 DEF OpenSnapshot, VTypes
<1>6. ASSUME NEW t \in Reader, OpenFinish(t)
      PROVE  VTypes'
  <2>1. Scans
    BY DEF IInv
  <2>2. /\ at' \in [Viewer -> {"none", "reuse", "iterate", "append"}]
        /\ view' \in [Viewer -> ViewSet]
        /\ scan' \in [Viewer -> ScanSet]
        /\ miscounted' \subseteq Viewer
    BY <1>6, <1>T, <1>R, <2>1, SnapshotEndTypes DEF OpenFinish
  <2> QED BY <1>6, <1>T, <1>R, <2>2 DEF OpenFinish, VTypes
<1>7. ASSUME NEW t \in Reader, Close(t)
      PROVE  VTypes'
  BY <1>7, <1>T, CloseTypes DEF Close, VTypes
<1>8. ASSUME NEW t \in Reader, CloneAppend(t)
      PROVE  VTypes'
  <2>1. ViewOK(view[Purge]) /\ ViewOK(view[t])
    BY <1>R DEF IInv, Views
  <2>2. view[Purge] \in ViewSet /\ view[t] \in ViewSet
    BY <1>R, <1>T DEF VTypes
  <2>3. Append(view[Purge], view[t]) \in ViewSet
    BY <1>T, <2>1, <2>2, AppendOK
  <2>4. view' \in [Viewer -> ViewSet]
    BY <1>8, <1>T, <2>3 DEF CloneAppend, VTypes
  <2>5. at' \in [Viewer -> {"none", "reuse", "iterate", "append"}]
    BY <1>8, <1>T DEF CloneAppend, VTypes
  <2> QED BY <1>8, <1>T, <2>4, <2>5 DEF CloneAppend, VTypes
<1>9. ASSUME NEW w \in Viewer, Iterate(w)
      PROVE  VTypes'
  <2>1. PICK e : copy_one_id(w, e) \/ Retry(w)
    BY <1>9 DEF Iterate
  <2>2. scan[w] \in ScanSet
    BY <1>T DEF VTypes
  <2>3. CASE copy_one_id(w, e)
    <3>1. e \in Ids /\ no[e] \in Limits \cup {TRX_ID_MAX}
      BY <1>T, <2>3, MaxTrxIdAssumption
         DEF copy_one_id, HashTypeOK, Ids, Limits
    <3>2. no[e] \in Nat /\ Limits \subseteq Nat /\ scan[w].no \in Limits
      BY <2>2, <3>1, MaxTrxIdAssumption DEF TRX_ID_MAX, Limits, ScanSet
    <3>3. Smaller(no[e], scan[w].no) \in Limits
      BY <3>1, <3>2, MaxTrxIdAssumption DEF Smaller, TRX_ID_MAX, Limits
    <3> DEFINE s == [id   |-> scan[w].id,
                     no   |-> Smaller(no[e], scan[w].no),
                     ids  |-> scan[w].ids \cup {e},
                     size |-> scan[w].size + 1,
                     todo |-> scan[w].todo \ {e}]
    <3>4. s \in ScanSet
      BY <2>2, <3>1, <3>3 DEF ScanSet
    <3>5. scan' = [scan EXCEPT ![w] = s]
      BY <2>3 DEF copy_one_id
    <3> HIDE DEF s
    <3>6. scan' \in [Viewer -> ScanSet]
      BY <1>T, <3>4, <3>5 DEF VTypes
    <3> QED BY <1>T, <2>3, <3>6 DEF copy_one_id, VTypes
  <2>4. CASE Retry(w)
    <3>1. PICK again \in SUBSET scan[w].ids :
              scan' = [scan EXCEPT ![w].todo = @ \cup again]
      BY <2>4 DEF Retry
    <3>2. [scan[w] EXCEPT !.todo = @ \cup again] \in ScanSet
      BY <2>2 DEF ScanSet
    <3>3. scan' \in [Viewer -> ScanSet]
      BY <1>T, <3>1, <3>2 DEF VTypes
    <3>4. retries' \in 0 .. MaxRetry
      BY <1>T, <2>4, RolesAssumption DEF Retry, VTypes
    <3> QED BY <1>T, <2>4, <3>3, <3>4 DEF Retry, VTypes
  <2> QED BY <2>1, <2>3, <2>4
<1>10. ASSUME CloneBegin
       PROVE  VTypes'
  <2>1. view' = [view EXCEPT ![Purge] = NoView] /\ NoView \in ViewSet
    BY <1>10, <1>T, NoViewOK DEF CloneBegin
  <2>2. view' \in [Viewer -> ViewSet]
    BY <1>T, <1>R, <2>1 DEF VTypes
  <2> QED BY <1>10, <1>T, <1>R, <2>2, SnapshotBeginTypes DEF CloneBegin, VTypes
<1>11. ASSUME CloneSnapshot
       PROVE  VTypes'
  <2>1. Scans
    BY DEF IInv
  <2> QED BY <1>11, <1>T, <1>R, <2>1, SnapshotEndTypes DEF CloneSnapshot, VTypes
<1>12. ASSUME (\E i \in Ids : PurgeNext(i)) \/ UNCHANGED vars
       PROVE  VTypes'
  BY <1>0, <1>12 DEF PurgeNext, vars
<1> QED BY <1>1, <1>2, <1>3, <1>4, <1>5, <1>6, <1>7, <1>8, <1>9, <1>10, <1>11,
           <1>12 DEF Next, Viewer

LEMMA PTypesStep ==
    ASSUME IInv, [Next]_vars
    PROVE  PTypes'
<1>T. HashTypeOK /\ VTypes /\ PTypes /\ HashInv
  BY TypeParts, HashInvOK DEF IInv
<1>0. CASE UNCHANGED purge
  BY <1>0, <1>T DEF purge, PTypes
<1>1. ASSUME NEW t \in Writer,
             Register(t) \/ CommitInMemory(t) \/ Unlink(t)
      PROVE  PTypes'
  BY <1>0, <1>1 DEF Register, CommitInMemory, Unlink
<1>2. ASSUME NEW t \in Writer, Serialise(t)
      PROVE  PTypes'
  <2>1. UNCHANGED <<left, purged>>
    BY <1>2 DEF Serialise
  <2>2. CASE UNCHANGED history
    BY <1>T, <2>1, <2>2 DEF PTypes
  <2>3. CASE AssignStore(t) /\ history' = history \cup {id[t]}
    <3>1. id[t] \in Ids
      BY <1>T, <2>3, ReadersViewers
         DEF AssignStore, Goto, HashInv, Registered, HashTypeOK
    <3> QED BY <1>T, <2>1, <2>3, <3>1 DEF PTypes
  <2> QED BY <1>2, <2>2, <2>3 DEF Serialise
<1>3. ASSUME NEW t \in Reader,
             \/ OpenCheck(t) \/ OpenReuse(t) \/ OpenSnapshot(t)
             \/ OpenFinish(t) \/ Close(t)
      PROVE  PTypes'
  BY <1>0, <1>3 DEF OpenCheck, OpenReuse, OpenSnapshot, OpenFinish, Close
<1>4. ASSUME NEW t \in Reader, CloneAppend(t)
      PROVE  PTypes'
  BY <1>4, <1>T DEF CloneAppend, PTypes
<1>5. ASSUME NEW w \in Viewer, Iterate(w)
      PROVE  PTypes'
  BY <1>0, <1>5 DEF Iterate, copy_one_id, Retry
<1>6. CASE CloneBegin \/ UNCHANGED vars
  BY <1>0, <1>6 DEF CloneBegin, vars
<1>7. CASE CloneSnapshot
  BY <1>7, <1>T DEF CloneSnapshot, PTypes
<1>8. ASSUME NEW i \in Ids, PurgeNext(i)
      PROVE  PTypes'
  BY <1>8, <1>T DEF PurgeNext, PTypes
<1> QED BY <1>1, <1>2, <1>3, <1>4, <1>5, <1>6, <1>7, <1>8 DEF Next, Viewer

-----------------------------------------------------------------------------
(* Views and snapshots *)

(* The four things that can happen to a view. *)
LEMMA ViewUpdates ==
    ASSUME IInv, [Next]_vars, NEW w \in Viewer
    PROVE  \/ view'[w] = view[w]
           \/ view'[w] = NoView
           \/ /\ UNCHANGED hashVars
              /\ at[w] = "iterate"
              /\ scan[w].todo \cap live = {}
              /\ view'[w] = ViewOf(scan[w])
           \/ /\ UNCHANGED hashVars
              /\ \E t \in Reader : view'[w] = Append(view[w], view[t])
<1>T. VTypes
  BY TypeParts DEF IInv
<1>R. Reader \subseteq Viewer /\ Purge \in Viewer
  BY ReadersViewers
<1> USE DEF VTypes
<1>1. ASSUME NEW t \in Writer, Register(t) \/ Serialise(t) \/ Unlink(t)
      PROVE  view' = view
  BY <1>1 DEF Register, Serialise, Unlink, views
<1>C. ASSUME NEW t \in Reader, close(t)
      PROVE  view'[w] = view[w] \/ view'[w] = NoView
  BY <1>C, <1>T DEF close
<1>2. ASSUME NEW t \in Writer, CommitInMemory(t)
      PROVE  view'[w] = view[w] \/ view'[w] = NoView
  BY <1>2, <1>C DEF CommitInMemory
<1>3. ASSUME NEW t \in Reader, OpenCheck(t) \/ OpenReuse(t) \/ OpenSnapshot(t)
      PROVE  view' = view
  BY <1>3 DEF OpenCheck, OpenReuse, OpenSnapshot
<1>E. ASSUME NEW v \in Viewer, NEW next, SnapshotEnd(v, next)
      PROVE  \/ view'[w] = view[w]
             \/ /\ at[w] = "iterate"
                /\ scan[w].todo \cap live = {}
                /\ view'[w] = ViewOf(scan[w])
  BY <1>E, <1>T DEF SnapshotEnd
<1>4. ASSUME NEW t \in Reader, OpenFinish(t)
      PROVE  \/ view'[w] = view[w]
             \/ /\ UNCHANGED hashVars
                /\ at[w] = "iterate"
                /\ scan[w].todo \cap live = {}
                /\ view'[w] = ViewOf(scan[w])
  BY <1>4, <1>E, <1>R DEF OpenFinish
<1>5. ASSUME NEW t \in Reader, Close(t)
      PROVE  view'[w] = view[w] \/ view'[w] = NoView
  BY <1>5, <1>C DEF Close
<1>6. ASSUME NEW t \in Reader, CloneAppend(t)
      PROVE  \/ view'[w] = view[w]
             \/ /\ UNCHANGED hashVars
                /\ view'[w] = Append(view[w], view[t])
  BY <1>6, <1>T DEF CloneAppend
<1>7. ASSUME NEW v \in Viewer, Iterate(v)
      PROVE  view' = view
  BY <1>7 DEF Iterate, copy_one_id, Retry
<1>8. CASE UNCHANGED vars \/ \E i \in Ids : PurgeNext(i)
  BY <1>8 DEF vars, PurgeNext, views
<1>9. CASE CloneSnapshot
  BY <1>9, <1>E, <1>R DEF CloneSnapshot
<1>10. ASSUME CloneBegin
       PROVE  view'[w] = view[w] \/ view'[w] = NoView
  BY <1>10, <1>T DEF CloneBegin
<1> QED BY <1>1, <1>2, <1>3, <1>4, <1>5, <1>6, <1>7, <1>8, <1>9, <1>10
           DEF Next, Viewer

LEMMA ViewsStep ==
    ASSUME IInv, [Next]_vars
    PROVE  Views'
<1>T. HashTypeOK /\ VTypes /\ HashInv
  BY TypeParts, HashInvOK DEF IInv
<1>T1. HashInv' /\ HashTypeOK' /\ Advance
  BY <1>T, HashInvStep DEF HashInv
<1> SUFFICES ASSUME NEW w \in Viewer PROVE ViewOK(view[w])'
  BY DEF Views
<1>V. view[w] \in ViewSet /\ ViewOK(view[w])
  BY <1>T DEF VTypes, IInv, Views
<1>1. CASE view'[w] = view[w]
  <2>1. \A i \in view[w].ids : view[w].up_limit_id <= i
    BY <1>V DEF ViewOK
  <2>2. /\ view[w].low_limit_id <= m_max_trx_id'
        /\ view[w].low_limit_no <= m_max_trx_id'
        /\ \A u \in Trx : id'[u] # 0 /\ id'[u] \notin committed'
                              => ~changes_visible(view[w], id'[u])
        /\ \A j \in live' : view[w].low_limit_no <= no'[j]
        /\ \A u \in Trx : number'[u] # 0 => view[w].low_limit_no <= number'[u]
        /\ \A i \in Ids : no'[i] < view[w].low_limit_no
                              => changes_visible(view[w], i)
    BY <1>T, <1>T1, <1>V, ViewStable
  <2> QED BY <1>1, <2>1, <2>2 DEF ViewOK, changes_visible
<1>2. CASE view'[w] = NoView
  <2>1. HashNumbers'
    BY <1>T1, HashNumbersOK, PTL
  <2>2. /\ view'[w].low_limit_id = 0 /\ view'[w].up_limit_id = 0
        /\ view'[w].low_limit_no = 0 /\ view'[w].ids = {}
    BY <1>2 DEF NoView
  <2> QED BY <2>1, <2>2 DEF ViewOK, changes_visible, HashNumbers
<1>F. ASSUME UNCHANGED hashVars, ViewOK(view'[w]) PROVE ViewOK(view[w])'
  BY <1>F DEF ViewOK, changes_visible, hashVars, counters
<1>3. CASE /\ UNCHANGED hashVars
           /\ at[w] = "iterate"
           /\ scan[w].todo \cap live = {}
           /\ view'[w] = ViewOf(scan[w])
  <2>1. ScanOK(scan[w]) /\ scan[w] \in ScanSet
    BY <1>3, <1>T DEF IInv, Scans, VTypes
  <2>2. ViewOK(ViewOf(scan[w]))
    BY <1>3, <1>T, <2>1, ViewOfOK
  <2> QED BY <1>3, <1>F, <2>2
<1>4. ASSUME UNCHANGED hashVars, NEW t \in Reader,
             view'[w] = Append(view[w], view[t])
      PROVE  ViewOK(view[w])'
  <2>1. view[t] \in ViewSet /\ ViewOK(view[t])
    BY <1>T, ReadersViewers DEF VTypes, IInv, Views
  <2>2. ViewOK(Append(view[w], view[t]))
    BY <1>T, <1>V, <2>1, AppendOK
  <2> QED BY <1>4, <1>F, <2>2
<1> QED BY <1>1, <1>2, <1>3, <1>4, ViewUpdates

(* The snapshot that begins now, with e visited, and with some elements to *)
(* be met again.                                                           *)
Started == [id |-> m_rw_trx_hash_version, no |-> m_rw_trx_hash_version,
            ids |-> {}, size |-> 0, todo |-> live]

Visited(s, e) ==
    [id |-> s.id, no |-> Smaller(no[e], s.no), ids |-> s.ids \cup {e},
     size |-> s.size + 1, todo |-> s.todo \ {e}]

Again(s, again) == [s EXCEPT !.todo = @ \cup again]

(* The four things that can happen to a snapshot in progress. *)
LEMMA ScanUpdates ==
    ASSUME IInv, [Next]_vars, NEW w \in Viewer, at'[w] = "iterate"
    PROVE  \/ /\ at[w] = "iterate" /\ scan'[w] = scan[w]
              /\ w \in Reader => must'[w] = must[w]
           \/ /\ UNCHANGED hashVars
              /\ m_rw_trx_hash_version = m_max_trx_id
              /\ scan'[w] = Started
              /\ UNCHANGED <<purged, left>>
              /\ at'[Purge] = "append" => at[Purge] = "append"
              /\ w \in Reader => must'[w] = committed /\ view' = view
           \/ /\ UNCHANGED hashVars /\ at[w] = "iterate"
              /\ UNCHANGED <<at, must, purged, left, view>>
              /\ \/ \E e \in scan[w].todo \cap live :
                        scan'[w] = Visited(scan[w], e)
                 \/ \E again \in SUBSET scan[w].ids :
                        scan'[w] = Again(scan[w], again)
<1>T. VTypes
  BY TypeParts DEF IInv
<1>R. Reader \subseteq Viewer /\ Purge \in Viewer /\ Purge \notin Reader
  BY ReadersViewers
<1> USE DEF VTypes
<1> DEFINE Same == /\ at[w] = "iterate" /\ scan'[w] = scan[w]
                   /\ w \in Reader => must'[w] = must[w]
           Begun == /\ UNCHANGED hashVars
                    /\ m_rw_trx_hash_version = m_max_trx_id
                    /\ scan'[w] = Started
                    /\ UNCHANGED <<purged, left>>
                    /\ at'[Purge] = "append" => at[Purge] = "append"
                    /\ w \in Reader => must'[w] = committed /\ view' = view
<1>1. ASSUME NEW t \in Writer, Register(t) \/ Serialise(t) \/ Unlink(t)
      PROVE  Same
  BY <1>1 DEF Register, Serialise, Unlink, views
<1>2. ASSUME NEW t \in Writer, CommitInMemory(t)
      PROVE  Same
  <2>1. at' = at /\ scan' = scan
    BY <1>2 DEF CommitInMemory
  <2>2. w \in Reader => must'[w] = must[w]
    BY <1>2, <1>T, <2>1 DEF CommitInMemory, close, Outside
  <2> QED BY <2>1, <2>2
<1>3. ASSUME NEW t \in Reader, OpenCheck(t) \/ OpenReuse(t)
      PROVE  Same
  <2>1. CASE w = t
    BY <1>3, <1>T, <1>R, <2>1 DEF OpenCheck, OpenReuse
  <2>2. CASE w # t
    BY <1>3, <1>T, <1>R, <2>2 DEF OpenCheck, OpenReuse
  <2> QED BY <2>1, <2>2
<1>B. ASSUME NEW v \in Viewer, SnapshotBegin(v)
      PROVE  /\ m_rw_trx_hash_version = m_max_trx_id
             /\ at' = [at EXCEPT ![v] = "iterate"]
             /\ scan' = [scan EXCEPT ![v] = Started]
  BY <1>B DEF SnapshotBegin, Started
<1>4. ASSUME NEW t \in Reader, OpenSnapshot(t)
      PROVE  Same \/ Begun
  <2>1. /\ m_rw_trx_hash_version = m_max_trx_id
        /\ at' = [at EXCEPT ![t] = "iterate"]
        /\ scan' = [scan EXCEPT ![t] = Started]
        /\ must' = [must EXCEPT ![t] = committed]
        /\ UNCHANGED hashVars /\ UNCHANGED <<purged, left, view>>
    BY <1>4, <1>B, <1>R DEF OpenSnapshot, purge
  <2>2. CASE w = t
    <3>1. at'[Purge] = at[Purge]
      BY <1>T, <1>R, <2>1
    <3> QED BY <1>T, <1>R, <2>1, <2>2, <3>1
  <2>3. CASE w # t
    BY <1>T, <1>R, <2>1, <2>3
  <2> QED BY <2>2, <2>3
<1>5. ASSUME NEW t \in Reader, OpenFinish(t)
      PROVE  Same
  <2>1. at' = [at EXCEPT ![t] = "none"] /\ must' = must
        /\ scan' = [scan EXCEPT ![t] = NoScan]
    BY <1>5 DEF OpenFinish, SnapshotEnd
  <2>2. w # t
    BY <1>T, <1>R, <2>1
  <2> QED BY <1>T, <1>R, <2>1, <2>2
<1>6. ASSUME NEW t \in Reader, Close(t)
      PROVE  Same
  <2>1. at' = at /\ scan' = scan
    BY <1>6 DEF Close
  <2>2. w \in Reader => must'[w] = must[w]
    BY <1>6, <1>T, <2>1 DEF Close, close
  <2> QED BY <2>1, <2>2
<1>7. ASSUME NEW t \in Reader, CloneAppend(t)
      PROVE  Same
  BY <1>7, <1>T, <1>R DEF CloneAppend
<1>8. ASSUME NEW v \in Viewer, Iterate(v)
      PROVE  \/ Same
             \/ /\ UNCHANGED hashVars /\ at[w] = "iterate"
                /\ UNCHANGED <<at, must, purged, left, view>>
                /\ \/ \E e \in scan[w].todo \cap live :
                          scan'[w] = Visited(scan[w], e)
                   \/ \E again \in SUBSET scan[w].ids :
                          scan'[w] = Again(scan[w], again)
  <2>1. PICK e : copy_one_id(v, e) \/ Retry(v)
    BY <1>8 DEF Iterate
  <2>2. UNCHANGED hashVars /\ UNCHANGED <<at, must, purged, left, view>>
    BY <2>1 DEF copy_one_id, Retry, purge
  <2>3. CASE w # v
    <3>1. scan'[w] = scan[w]
      BY <1>T, <2>1, <2>3 DEF copy_one_id, Retry
    <3> QED BY <2>2, <3>1
  <2>4. CASE w = v /\ copy_one_id(v, e)
    <3>1. e \in scan[w].todo \cap live /\ scan'[w] = Visited(scan[w], e)
      BY <1>T, <2>4 DEF copy_one_id, Visited
    <3> QED BY <2>2, <3>1
  <2>5. CASE w = v /\ Retry(v)
    <3>1. PICK again \in SUBSET scan[w].ids :
              scan' = [scan EXCEPT ![w].todo = @ \cup again]
      BY <2>5 DEF Retry
    <3>2. scan'[w] = Again(scan[w], again)
      BY <1>T, <3>1 DEF Again
    <3> QED BY <2>2, <3>2
  <2> QED BY <2>1, <2>3, <2>4, <2>5
<1>9. CASE CloneBegin
  <2>1. /\ m_rw_trx_hash_version = m_max_trx_id
        /\ at' = [at EXCEPT ![Purge] = "iterate"]
        /\ scan' = [scan EXCEPT ![Purge] = Started]
        /\ must' = must
        /\ UNCHANGED hashVars /\ UNCHANGED <<purged, left>>
    BY <1>9, <1>B, <1>R DEF CloneBegin, purge
  <2>2. CASE w = Purge
    BY <1>T, <1>R, <2>1, <2>2
  <2>3. CASE w # Purge
    BY <1>T, <1>R, <2>1, <2>3
  <2> QED BY <2>2, <2>3
<1>10. CASE CloneSnapshot
  <2>1. at' = [at EXCEPT ![Purge] = "append"] /\ must' = must
        /\ scan' = [scan EXCEPT ![Purge] = NoScan]
    BY <1>10 DEF CloneSnapshot, SnapshotEnd
  <2>2. w # Purge
    BY <1>T, <1>R, <2>1
  <2> QED BY <1>T, <1>R, <2>1, <2>2
<1>11. CASE UNCHANGED vars \/ \E i \in Ids : PurgeNext(i)
  BY <1>11 DEF vars, PurgeNext, views
<1> QED BY <1>1, <1>2, <1>3, <1>4, <1>5, <1>6, <1>7, <1>8, <1>9, <1>10, <1>11
           DEF Next, Viewer

LEMMA StartedOK ==
    ASSUME HashInv, m_rw_trx_hash_version = m_max_trx_id
    PROVE  ScanOK(Started)
<1>1. HashNumbers
  BY HashNumbersOK DEF HashInv
<1>2. \A u \in Trx : pc[u] \notin {"insert", "store"}
  BY PendingBehind DEF Pending
<1>3. /\ Started.id = m_max_trx_id /\ Started.no = m_max_trx_id
      /\ Started.ids = {} /\ Started.todo = live
  BY DEF Started
<1>4. live \cup Marked \subseteq live \cup committed
  BY DEF Marked, HashInv, Registered
<1>5. \A i \in Started.ids \cup Started.todo : i < m_max_trx_id
  BY <1>3, <1>4 DEF HashInv, Registered
<1>6. ASSUME NEW u \in Trx, id[u] # 0, id[u] \notin committed
      PROVE  id[u] \in live
  BY <1>2, <1>6 DEF HashInv, HashTypeOK, Registered
<1>7. \A u \in Trx : number[u] = 0
  BY <1>2 DEF HashInv, Numbered
<1> QED BY <1>1, <1>3, <1>5, <1>6, <1>7 DEF ScanOK, HashNumbers

LEMMA ScansStep ==
    ASSUME IInv, [Next]_vars
    PROVE  Scans'
<1>T. HashTypeOK /\ VTypes /\ HashInv
  BY TypeParts, HashInvOK DEF IInv
<1>T1. HashInv' /\ HashTypeOK' /\ Advance
  BY <1>T, HashInvStep DEF HashInv
<1>N. HashNumbers
  BY <1>T, HashNumbersOK
<1> SUFFICES ASSUME NEW w \in Viewer, at'[w] = "iterate"
             PROVE  ScanOK(scan[w])'
  BY DEF Scans
<1>S. scan[w] \in ScanSet /\ (at[w] = "iterate" => ScanOK(scan[w]))
  BY <1>T DEF VTypes, IInv, Scans
<1>S1. /\ scan[w].id \in Nat /\ scan[w].no \in Nat
       /\ scan[w].ids \in SUBSET Ids /\ scan[w].todo \in SUBSET Ids
  BY <1>S, ScanTypes
<1>F. ASSUME UNCHANGED hashVars, ScanOK(scan'[w]) PROVE ScanOK(scan[w])'
  BY <1>F DEF ScanOK, hashVars, counters
<1>1. CASE at[w] = "iterate" /\ scan'[w] = scan[w]
  <2>1. /\ scan[w].no <= scan[w].id
        /\ \A i \in scan[w].ids \cup scan[w].todo : i < scan[w].id
    BY <1>1, <1>S DEF ScanOK
  <2>2. /\ scan[w].id <= m_max_trx_id'
        /\ \A u \in Trx :
              id'[u] # 0 /\ id'[u] \notin committed' /\ id'[u] < scan[w].id
                  => id'[u] \in live' /\ id'[u] \in scan[w].ids \cup scan[w].todo
        /\ \A u \in Trx : number'[u] # 0 => scan[w].id <= number'[u]
        /\ \A i \in Ids : no'[i] < scan[w].no => i \notin scan[w].ids
        /\ \A i \in live' : no'[i] < scan[w].no => i \in scan[w].todo
    BY <1>1, <1>T, <1>T1, <1>S, ScanStable
  <2> QED BY <1>1, <2>1, <2>2 DEF ScanOK
<1>2. CASE /\ UNCHANGED hashVars
           /\ m_rw_trx_hash_version = m_max_trx_id
           /\ scan'[w] = Started
  BY <1>2, <1>F, <1>T, StartedOK
<1>3. ASSUME UNCHANGED hashVars, at[w] = "iterate",
             NEW e \in scan[w].todo \cap live, scan'[w] = Visited(scan[w], e)
      PROVE  ScanOK(scan[w])'
  <2> DEFINE s == scan[w]
             v == Visited(s, e)
  <2>1. /\ v.id = s.id /\ v.no = Smaller(no[e], s.no)
        /\ v.ids = s.ids \cup {e} /\ v.todo = s.todo \ {e}
    BY DEF Visited
  <2>2. ScanOK(s)
    BY <1>3, <1>S
  <2>3. e \in Ids /\ no[e] \in Nat
    BY <1>N DEF HashNumbers
  <2>4. /\ s.id \in Nat /\ s.no \in Nat
        /\ s.ids \in SUBSET Ids /\ s.todo \in SUBSET Ids /\ e \in s.todo
    BY <1>S1
  <2> HIDE DEF s, v
  <2>5. /\ v.no \in Nat /\ v.no <= s.no /\ v.no <= no[e]
    BY <2>1, <2>3, <2>4 DEF Smaller
  <2>6. ScanOK(v)
    <3>1. v.id <= m_max_trx_id /\ v.no <= v.id
      BY <2>1, <2>2, <2>4, <2>5 DEF ScanOK
    <3>2. v.ids \cup v.todo = s.ids \cup s.todo
      BY <2>1, <2>4
    <3>3. /\ \A i \in v.ids \cup v.todo : i < v.id
          /\ \A u \in Trx : id[u] # 0 /\ id[u] \notin committed /\ id[u] < v.id
                                => id[u] \in live /\ id[u] \in v.ids \cup v.todo
          /\ \A u \in Trx : number[u] # 0 => v.id <= number[u]
      BY <2>1, <2>2, <3>2 DEF ScanOK
    <3>4. \A i \in Ids : no[i] < v.no => no[i] < s.no /\ i # e
      <4> SUFFICES ASSUME NEW i \in Ids, no[i] < v.no
                   PROVE  no[i] < s.no /\ i # e
        OBVIOUS
      <4>1. no[i] \in Nat
        BY <1>N DEF HashNumbers
      <4>2. no[i] < s.no
        BY <2>4, <2>5, <4>1
      <4>3. no[i] # no[e]
        BY <2>3, <2>5, <4>1
      <4> QED BY <4>2, <4>3
    <3>5. live \subseteq Ids
      BY <1>N DEF HashNumbers
    <3>6. \A i \in Ids : no[i] < v.no => i \notin v.ids
      BY <2>1, <2>2, <3>4 DEF ScanOK
    <3>7. \A i \in live : no[i] < v.no => i \in v.todo
      BY <2>1, <2>2, <3>4, <3>5 DEF ScanOK
    <3> QED BY <3>1, <3>3, <3>6, <3>7 DEF ScanOK
  <2> QED BY <1>3, <1>F, <2>6 DEF s, v
<1>4. ASSUME UNCHANGED hashVars, at[w] = "iterate",
             NEW again \in SUBSET scan[w].ids, scan'[w] = Again(scan[w], again)
      PROVE  ScanOK(scan[w])'
  <2>1. /\ scan'[w].id = scan[w].id /\ scan'[w].no = scan[w].no
        /\ scan'[w].ids = scan[w].ids /\ scan'[w].todo = scan[w].todo \cup again
    BY <1>4, <1>S DEF Again, ScanSet
  <2>2. ScanOK(scan[w])
    BY <1>4, <1>S
  <2>3. ScanOK(scan'[w])
    BY <2>1, <2>2 DEF ScanOK
  <2> QED BY <1>4, <1>F, <2>3
<1> QED BY <1>1, <1>2, <1>3, <1>4, ScanUpdates

-----------------------------------------------------------------------------
(* Purge and the views of the readers *)

(* Purge takes nothing for granted about t that it did not before, except  *)
(* what append_to() finds in the view of t.                                *)
LEMMA KnownStep ==
    ASSUME IInv, [Next]_vars, NEW t \in Reader, NEW i \in Ids, Known(t, i)'
    PROVE  \/ Known(t, i)
           \/ /\ at[t] # "iterate"
              /\ at'[t] = at[t]
              /\ view'[t] = view[t]
              /\ UNCHANGED <<m_open, stale, miscounted, must>>
              /\ m_open[t] => changes_visible(view[t], i)
<1>T. HashTypeOK /\ VTypes /\ HashInv
  BY TypeParts, HashInvOK DEF IInv
<1>R. Reader \subseteq Viewer /\ Purge \in Viewer /\ Purge \notin Reader
      /\ Writer \subseteq Trx
  BY ReadersViewers
<1>N. HashNumbers
  BY <1>T, HashNumbersOK
<1> USE DEF VTypes
<1>0. ASSUME UNCHANGED <<purged, left, committed>>,
             view'[Purge] = view[Purge],
             at'[Purge] = at[Purge] \/ at[Purge] # "append"
      PROVE  Known(t, i)
  BY <1>0 DEF Known, changes_visible
<1>1. ASSUME NEW u \in Writer, Register(u) \/ Serialise(u) \/ Unlink(u)
      PROVE  Known(t, i)
  <2>1. UNCHANGED <<purged, left, committed>> /\ UNCHANGED <<view, at>>
    BY <1>1 DEF Register, Serialise, Unlink, views, purge, RegisterAllocate,
                RegisterInsert, AssignAllocate, AssignStore, DeregisterUnlink
  <2> QED BY <1>0, <2>1
<1>2. ASSUME NEW u \in Writer, CommitInMemory(u)
      PROVE  Known(t, i)
  <2>1. /\ UNCHANGED <<purged, left, at>> /\ DeregisterMark(u)
        /\ committed' = committed \cup {id[u]}
    BY <1>2 DEF CommitInMemory, DeregisterMark, purge
  <2>2. view'[Purge] = view[Purge]
    BY <1>2, <1>T, <1>R DEF CommitInMemory, close
  <2>3. id[u] # 0 /\ id[u] \notin committed
    BY <2>1, <1>T, <1>R DEF DeregisterMark, Goto, HashInv, Registered
  <2>4. ~changes_visible(view[Purge], id[u])
    BY <1>R, <2>3 DEF IInv, Views, ViewOK
  <2> QED BY <2>1, <2>2, <2>4 DEF Known, changes_visible
<1>3. ASSUME NEW u \in Reader,
             OpenCheck(u) \/ OpenReuse(u) \/ OpenSnapshot(u) \/ OpenFinish(u)
      PROVE  Known(t, i)
  <2>1. UNCHANGED <<purged, left, committed>>
    BY <1>3 DEF OpenCheck, OpenReuse, OpenSnapshot, OpenFinish, purge, hashVars
  <2>2. u # Purge
    BY <1>R
  <2>3. view'[Purge] = view[Purge]
    BY <1>3, <1>T, <1>R, <2>2
       DEF OpenCheck, OpenReuse, OpenSnapshot, OpenFinish, SnapshotEnd
  <2>4. at'[Purge] = at[Purge]
    BY <1>3, <1>T, <1>R, <2>2 DEF OpenCheck, OpenReuse, OpenSnapshot,
       OpenFinish, SnapshotBegin, SnapshotEnd
  <2> QED BY <1>0, <2>1, <2>3, <2>4
<1>4. ASSUME NEW u \in Reader, Close(u)
      PROVE  Known(t, i)
  <2>1. UNCHANGED <<purged, left, committed, at>>
    BY <1>4 DEF Close, purge, hashVars
  <2>2. view'[Purge] = view[Purge]
    BY <1>4, <1>T, <1>R DEF Close, close
  <2> QED BY <1>0, <2>1, <2>2
<1>5. ASSUME NEW u \in Reader, CloneAppend(u)
      PROVE  \/ Known(t, i)
             \/ /\ at[t] # "iterate"
                /\ at'[t] = at[t]
                /\ view'[t] = view[t]
                /\ UNCHANGED <<m_open, stale, miscounted, must>>
                /\ m_open[t] => changes_visible(view[t], i)
  <2>1. /\ purged' = purged /\ committed' = committed /\ left' = left \ {u}
        /\ UNCHANGED <<m_open, stale, miscounted, must>> /\ at[u] # "iterate"
        /\ at[Purge] = "append"
    BY <1>5 DEF CloneAppend, hashVars
  <2>2. at'[t] = at[t] /\ view'[t] = view[t]
    BY <1>5, <1>T, <1>R DEF CloneAppend
  <2>3. \/ ~m_open[u] /\ view'[Purge] = view[Purge]
        \/ view'[Purge] = Append(view[Purge], view[u])
    BY <1>5, <1>T, <1>R DEF CloneAppend
  <2>4. \A j \in Ids : changes_visible(Append(view[Purge], view[u]), j)
                           => /\ changes_visible(view[Purge], j)
                              /\ changes_visible(view[u], j)
    <3>1. view[Purge] \in ViewSet /\ view[u] \in ViewSet
      BY <1>T, <1>R
    <3>2. ViewOK(view[Purge]) /\ ViewOK(view[u])
      BY <1>R DEF IInv, Views
    <3> QED BY <1>T, <3>1, <3>2, AppendOK
  <2>5. CASE i \in purged
    BY <2>5 DEF Known
  <2>6. CASE i \notin purged
    <3>1. /\ i \in committed /\ changes_visible(view'[Purge], i)
          /\ at'[Purge] = "append" => t \notin left'
      BY <2>1, <2>6 DEF Known, changes_visible
    <3>2. changes_visible(view[Purge], i)
      BY <2>3, <2>4, <3>1
    <3>3. CASE u = t
      BY <2>1, <2>2, <2>3, <2>4, <3>1, <3>3
    <3>4. CASE u # t
      <4>1. t \notin left
        <5>1. CASE left = {u}
          BY <3>4, <5>1
        <5>2. CASE left # {u}
          <6>1. at'[Purge] = "append"
            BY <1>5, <2>1, <5>2 DEF CloneAppend
          <6> QED BY <2>1, <3>1, <3>4, <6>1
        <5> QED BY <5>1, <5>2
      <4> QED BY <3>1, <3>2, <4>1 DEF Known
    <3> QED BY <3>3, <3>4
  <2> QED BY <2>5, <2>6
<1>6. ASSUME NEW w \in Viewer, Iterate(w)
      PROVE  Known(t, i)
  <2>1. UNCHANGED <<purged, left, committed>> /\ UNCHANGED <<view, at>>
    BY <1>6 DEF Iterate, copy_one_id, Retry, purge, hashVars
  <2> QED BY <1>0, <2>1
<1>7. CASE CloneBegin
  <2>1. purged' = purged /\ view'[Purge] = NoView
    BY <1>7, <1>T, <1>R DEF CloneBegin, purge
  <2>2. ~changes_visible(NoView, i)
    BY DEF changes_visible, NoView, Ids
  <2>3. changes_visible(view[Purge], i)' <=> changes_visible(view'[Purge], i)
    BY DEF changes_visible
  <2> QED BY <2>1, <2>2, <2>3 DEF Known
<1>8. CASE CloneSnapshot
  <2>1. purged' = purged /\ left' = Reader /\ at'[Purge] = "append"
    BY <1>8, <1>T, <1>R DEF CloneSnapshot, SnapshotEnd
  <2> QED BY <2>1 DEF Known
<1>9. ASSUME NEW k \in Ids, PurgeNext(k)
      PROVE  Known(t, i)
  <2>1. /\ UNCHANGED <<left, committed>> /\ UNCHANGED <<view, at>>
        /\ purged' = purged \cup {k} /\ at[Purge] = "none"
        /\ k \in history /\ no[k] < view[Purge].low_limit_no
    BY <1>9 DEF PurgeNext, views, hashVars
  <2>2. ViewOK(view[Purge]) /\ view[Purge] \in ViewSet
    BY <1>T, <1>R DEF IInv, Views
  <2>3. changes_visible(view[Purge], k)
    BY <2>1, <2>2 DEF ViewOK
  <2>4. k \notin live
    BY <1>N, <2>1, <2>2, ViewTypes DEF ViewOK, HashNumbers
  <2>5. k \in committed
    BY <2>1, <2>4 DEF IInv, History
  <2>6. Known(t, k)
    BY <2>1, <2>3, <2>5 DEF Known
  <2>7. i = k \/ Known(t, i)
    BY <2>1 DEF Known, changes_visible
  <2> QED BY <2>6, <2>7
<1>10. CASE UNCHANGED vars
  BY <1>10, <1>0 DEF vars, views, purge, hashVars
<1> QED BY <1>1, <1>2, <1>3, <1>4, <1>5, <1>6, <1>7, <1>8, <1>9, <1>10
           DEF Next, Viewer

(* What a reader's own steps, or close() in the commit of its transaction, *)
(* do to its view.                                                         *)
LEMMA ReaderUpdates ==
    ASSUME IInv, [Next]_vars, NEW t \in Reader
    PROVE  \/ /\ at'[t] = at[t] /\ view'[t] = view[t]
              /\ m_open'[t] = m_open[t] /\ must'[t] = must[t]
              /\ t \in stale' <=> t \in stale
              /\ t \in miscounted' <=> t \in miscounted
           \/ at'[t] = "none" /\ ~m_open'[t] /\ must'[t] = {}
           \/ /\ UNCHANGED hashVars
              /\ at'[t] = "reuse" /\ ~m_open'[t] /\ must'[t] = committed
              /\ view'[t] = view[t]
              /\ view[t].ids = {} /\ view[t].low_limit_id = m_max_trx_id
           \/ /\ UNCHANGED hashVars
              /\ at[t] = "reuse" /\ at'[t] = "none"
              /\ view'[t] = view[t] /\ must'[t] = must[t]
              /\ t \in miscounted' <=> t \in miscounted
              /\ t \notin stale' => view[t].low_limit_id = m_max_trx_id
           \/ /\ UNCHANGED hashVars
              /\ at'[t] = "iterate" /\ ~m_open'[t] /\ must'[t] = committed
           \/ /\ UNCHANGED hashVars
              /\ at[t] = "iterate" /\ at'[t] = "none"
              /\ scan[t].todo \cap live = {}
              /\ view'[t] = ViewOf(scan[t]) /\ must'[t] = must[t]
              /\ t \notin miscounted' =>
                    ~(Collapses(scan[t])
                      /\ Cardinality(scan[t].ids) # scan[t].size)
<1>T. VTypes
  BY TypeParts DEF IInv
<1>R. Reader \subseteq Viewer /\ Purge \in Viewer /\ Purge \notin Reader
  BY ReadersViewers
<1> USE DEF VTypes
<1> DEFINE Same == /\ at'[t] = at[t] /\ view'[t] = view[t]
                   /\ m_open'[t] = m_open[t] /\ must'[t] = must[t]
                   /\ t \in stale' <=> t \in stale
                   /\ t \in miscounted' <=> t \in miscounted
           Closed == at'[t] = "none" /\ ~m_open'[t] /\ must'[t] = {}
<1>1. ASSUME NEW u \in Writer, Register(u) \/ Serialise(u) \/ Unlink(u)
      PROVE  Same
  BY <1>1 DEF Register, Serialise, Unlink, views
<1>C. ASSUME NEW u \in Reader, close(u), at' = at, at[u] = "none"
      PROVE  Same \/ Closed
  <2>1. CASE u = t
    BY <1>C, <1>T, <2>1 DEF close
  <2>2. CASE u # t
    <3>1. view'[t] = view[t]
      BY <1>C, <1>T, <1>R, <2>2 DEF close
    <3>2. m_open'[t] = m_open[t] /\ must'[t] = must[t]
      BY <1>C, <1>T, <1>R, <2>2 DEF close
    <3>3. /\ t \in stale' <=> t \in stale
          /\ t \in miscounted' <=> t \in miscounted
      BY <1>C, <2>2 DEF close
    <3> QED BY <1>C, <3>1, <3>2, <3>3
  <2> QED BY <2>1, <2>2
<1>2. ASSUME NEW u \in Writer, CommitInMemory(u)
      PROVE  Same \/ Closed
  BY <1>2, <1>C DEF CommitInMemory, Outside
<1>3. ASSUME NEW u \in Reader, Close(u)
      PROVE  Same \/ Closed
  BY <1>3, <1>C DEF Close
<1>4. ASSUME NEW u \in Reader, u # t,
             OpenCheck(u) \/ OpenReuse(u) \/ OpenSnapshot(u)
      PROVE  Same
  <2>1. at'[t] = at[t]
    BY <1>4, <1>T, <1>R DEF OpenCheck, OpenReuse, OpenSnapshot, SnapshotBegin
  <2>2. m_open'[t] = m_open[t] /\ must'[t] = must[t]
    BY <1>4, <1>T, <1>R DEF OpenCheck, OpenReuse, OpenSnapshot
  <2>3. /\ view' = view
        /\ t \in stale' <=> t \in stale
        /\ t \in miscounted' <=> t \in miscounted
    BY <1>4 DEF OpenCheck, OpenReuse, OpenSnapshot
  <2> QED BY <2>1, <2>2, <2>3
<1>5. ASSUME NEW u \in Reader, u # t, OpenFinish(u)
      PROVE  Same
  <2>1. at'[t] = at[t] /\ view'[t] = view[t]
    BY <1>5, <1>T, <1>R DEF OpenFinish, SnapshotEnd
  <2>2. m_open'[t] = m_open[t] /\ must' = must
    BY <1>5, <1>T, <1>R DEF OpenFinish
  <2>3. /\ t \in stale' <=> t \in stale
        /\ t \in miscounted' <=> t \in miscounted
    BY <1>5 DEF OpenFinish, SnapshotEnd
  <2> QED BY <2>1, <2>2, <2>3
<1>6. CASE OpenCheck(t)
  BY <1>6, <1>T, <1>R DEF OpenCheck, CanOpen, Reusable
<1>7. CASE OpenReuse(t)
  BY <1>7, <1>T, <1>R DEF OpenReuse
<1>8. CASE OpenSnapshot(t)
  BY <1>8, <1>T, <1>R DEF OpenSnapshot, SnapshotBegin, CanOpen
<1>9. CASE OpenFinish(t)
  <2>1. /\ UNCHANGED hashVars /\ must' = must
        /\ at[t] = "iterate" /\ at'[t] = "none"
        /\ scan[t].todo \cap live = {}
        /\ view'[t] = ViewOf(scan[t])
    BY <1>9, <1>T, <1>R DEF OpenFinish, SnapshotEnd
  <2>2. t \notin miscounted' => ~(Collapses(scan[t])
                                  /\ Cardinality(scan[t].ids) # scan[t].size)
    BY <1>9 DEF OpenFinish, SnapshotEnd
  <2> QED BY <2>1, <2>2
<1>10. ASSUME NEW u \in Reader, CloneAppend(u)
       PROVE  Same
  BY <1>10, <1>T, <1>R DEF CloneAppend
<1>11. ASSUME NEW w \in Viewer, Iterate(w)
       PROVE  Same
  BY <1>11 DEF Iterate, copy_one_id, Retry
<1>12. ASSUME CloneBegin
       PROVE  Same
  BY <1>12, <1>T, <1>R DEF CloneBegin, SnapshotBegin
<1>13. ASSUME CloneSnapshot
       PROVE  Same
  <2>1. at'[t] = at[t] /\ view'[t] = view[t]
    BY <1>13, <1>T, <1>R DEF CloneSnapshot, SnapshotEnd
  <2>2. t \in miscounted' <=> t \in miscounted
    BY <1>13, <1>R DEF CloneSnapshot, SnapshotEnd
  <2> QED BY <1>13, <2>1, <2>2 DEF CloneSnapshot
<1>14. ASSUME UNCHANGED vars \/ \E i \in Ids : PurgeNext(i)
       PROVE  Same
  BY <1>14 DEF vars, PurgeNext, views
<1> HIDE DEF Same, Closed
<1>15. CASE Same \/ Closed
  BY <1>15 DEF Same, Closed
<1> QED BY <1>1, <1>2, <1>3, <1>4, <1>5, <1>6, <1>7, <1>8, <1>9, <1>10, <1>11,
           <1>12, <1>13, <1>14, <1>15 DEF Next, Viewer

LEMMA KnowledgeStep ==
    ASSUME IInv, [Next]_vars
    PROVE  Knowledge'
<1>T. HashTypeOK /\ VTypes /\ HashInv
  BY TypeParts, HashInvOK DEF IInv
<1>R. Reader \subseteq Viewer /\ Purge \in Viewer /\ Purge \notin Reader
  BY ReadersViewers
<1>N. HashNumbers
  BY <1>T, HashNumbersOK
<1>A. committed \subseteq committed'
  BY <1>T, HashInvStep DEF Advance
<1> SUFFICES ASSUME NEW t \in Reader
             PROVE  /\ at'[t] = "iterate" =>
                          \A i \in Ids :
                              Known(t, i)' \/ i \in must'[t]
                                  => i < scan'[t].id /\ i \notin scan'[t].ids
                    /\ at'[t] = "reuse" => view'[t].ids = {}
                    /\ (m_open'[t] \/ at'[t] = "reuse") /\ t \notin miscounted' =>
                          \A i \in must'[t] : changes_visible(view'[t], i)
                    /\ m_open'[t] /\ t \notin stale' \cup miscounted' =>
                          \A i \in Ids :
                              Known(t, i)' => changes_visible(view'[t], i)
                    /\ must'[t] \subseteq committed'
  BY DEF Knowledge, changes_visible
<1>K. /\ at[t] = "iterate" =>
            \A i \in Ids : Known(t, i) \/ i \in must[t]
                               => i < scan[t].id /\ i \notin scan[t].ids
      /\ at[t] = "reuse" => view[t].ids = {}
      /\ (m_open[t] \/ at[t] = "reuse") /\ t \notin miscounted =>
            \A i \in must[t] : changes_visible(view[t], i)
      /\ m_open[t] /\ t \notin stale \cup miscounted =>
            \A i \in Ids : Known(t, i) => changes_visible(view[t], i)
      /\ must[t] \subseteq committed
  BY DEF IInv, Knowledge
<1>M. must[t] \subseteq Ids /\ committed \subseteq Ids /\ Ids \subseteq Nat
  BY <1>K, <1>N DEF HashNumbers
<1>C. \A i \in Ids : Known(t, i) => i \in committed
  BY DEF Known, IInv, History
<1>L. \A i \in committed : i < m_max_trx_id /\ i \notin live
  BY DEF IInv, Registered
<1>V. view[t] \in ViewSet
  BY <1>T, <1>R DEF VTypes
<1>S. /\ scan[t] \in ScanSet
      /\ at[t] = "iterate" => ScanOK(scan[t])
  BY <1>T, <1>R DEF VTypes, IInv, Scans
<1>1. ASSUME at'[t] = "iterate", NEW i \in Ids, Known(t, i)' \/ i \in must'[t]
      PROVE  i < scan'[t].id /\ i \notin scan'[t].ids
  <2>1. Known(t, i)' => Known(t, i)
    BY <1>1, KnownStep
  <2>2. CASE /\ at[t] = "iterate" /\ scan'[t] = scan[t]
             /\ must'[t] = must[t]
    BY <1>1, <1>K, <2>1, <2>2
  <2>3. CASE /\ m_rw_trx_hash_version = m_max_trx_id
             /\ scan'[t] = Started
             /\ must'[t] = committed
    BY <1>1, <1>C, <1>L, <2>1, <2>3 DEF Started
  <2>4. ASSUME at[t] = "iterate", must' = must,
               NEW e \in live, scan'[t] = Visited(scan[t], e)
        PROVE  i < scan'[t].id /\ i \notin scan'[t].ids
    <3>1. i \in committed /\ i # e
      BY <1>1, <1>C, <1>K, <1>L, <2>1, <2>4
    <3>2. scan'[t].id = scan[t].id /\ scan'[t].ids = scan[t].ids \cup {e}
      BY <2>4 DEF Visited
    <3> QED BY <1>1, <1>K, <2>1, <2>4, <3>1, <3>2
  <2>5. ASSUME at[t] = "iterate", must' = must,
               NEW again, scan'[t] = Again(scan[t], again)
        PROVE  i < scan'[t].id /\ i \notin scan'[t].ids
    <3>1. scan'[t].id = scan[t].id /\ scan'[t].ids = scan[t].ids
      BY <1>S, <2>5 DEF Again, ScanSet
    <3> QED BY <1>1, <1>K, <2>1, <2>5, <3>1
  <2> QED BY <1>1, <1>R, <2>2, <2>3, <2>4, <2>5, ScanUpdates
<1>2. CASE /\ at'[t] = at[t] /\ view'[t] = view[t]
           /\ m_open'[t] = m_open[t] /\ must'[t] = must[t]
           /\ t \in stale' <=> t \in stale
           /\ t \in miscounted' <=> t \in miscounted
  <2>1. ASSUME m_open'[t], t \notin stale' \cup miscounted',
               NEW i \in Ids, Known(t, i)'
        PROVE  changes_visible(view'[t], i)
    BY <1>2, <1>K, <2>1, KnownStep
  <2> QED BY <1>1, <1>2, <1>A, <1>K, <2>1
<1>3. CASE at'[t] = "none" /\ ~m_open'[t] /\ must'[t] = {}
  BY <1>3
<1>4. CASE /\ UNCHANGED hashVars
           /\ at'[t] = "reuse" /\ ~m_open'[t] /\ must'[t] = committed
           /\ view'[t] = view[t]
           /\ view[t].ids = {} /\ view[t].low_limit_id = m_max_trx_id
  BY <1>4, <1>A, <1>L DEF changes_visible
<1>5. CASE /\ UNCHANGED hashVars
           /\ at[t] = "reuse" /\ at'[t] = "none"
           /\ view'[t] = view[t] /\ must'[t] = must[t]
           /\ t \in miscounted' <=> t \in miscounted
           /\ t \notin stale' => view[t].low_limit_id = m_max_trx_id
  <2>1. ASSUME t \notin stale' \cup miscounted', NEW i \in Ids, Known(t, i)'
        PROVE  changes_visible(view'[t], i)
    <3>1. Known(t, i)
      BY <1>5, <2>1, KnownStep
    <3> QED BY <1>5, <1>C, <1>K, <1>L, <2>1, <3>1 DEF changes_visible
  <2> QED BY <1>5, <1>A, <1>K, <2>1
<1>6. CASE /\ UNCHANGED hashVars
           /\ at'[t] = "iterate" /\ ~m_open'[t] /\ must'[t] = committed
  BY <1>1, <1>6, <1>A
<1>7. CASE /\ UNCHANGED hashVars
           /\ at[t] = "iterate" /\ at'[t] = "none"
           /\ scan[t].todo \cap live = {}
           /\ view'[t] = ViewOf(scan[t]) /\ must'[t] = must[t]
           /\ t \notin miscounted' =>
                 ~(Collapses(scan[t])
                   /\ Cardinality(scan[t].ids) # scan[t].size)
  <2>1. t \notin miscounted' =>
            \A i \in Ids : i < scan[t].id /\ i \notin scan[t].ids
                               => changes_visible(view'[t], i)
    BY <1>7, <1>T, <1>S, ViewOfOK
  <2>2. \A i \in Ids : Known(t, i)' => Known(t, i)
    BY <1>7, KnownStep
  <2> QED BY <1>7, <1>A, <1>K, <1>M, <2>1, <2>2
<1> QED BY <1>2, <1>3, <1>4, <1>5, <1>6, <1>7, ReaderUpdates

-----------------------------------------------------------------------------
(* The history and its order *)

LEMMA HistoryStep ==
    ASSUME IInv, [Next]_vars
    PROVE  History' /\ PurgedInOrder'
<1>T. HashTypeOK /\ VTypes /\ PTypes /\ HashInv
  BY TypeParts, HashInvOK DEF IInv
<1>R. Writer \subseteq Trx /\ Purge \in Viewer
  BY ReadersViewers
<1>N. HashNumbers
  BY <1>T, HashNumbersOK
<1>H. /\ history \subseteq live \cup committed
      /\ \A i \in history \cup purged : no[i] # TRX_ID_MAX
      /\ purged \subseteq committed
      /\ history \cap purged = {}
  BY DEF IInv, History
<1>P. \A i \in purged :
          /\ \A j \in live \cup history : no[i] < no[j]
          /\ \A t \in Writer : number[t] # 0 => no[i] < number[t]
  BY DEF IInv, PurgedInOrder
<1>I. Registered /\ Numbered
  BY DEF IInv
<1>S. purged \subseteq Ids /\ history \subseteq Ids
  BY <1>T DEF PTypes
<1>0. ASSUME UNCHANGED <<live, committed, no, number, history, purged>>
      PROVE  History' /\ PurgedInOrder'
  BY <1>0, <1>H, <1>P DEF History, PurgedInOrder
<1>1. ASSUME NEW t \in Writer, RegisterAllocate(t) \/ DeregisterUnlink(t),
             UNCHANGED <<history, purged>>
      PROVE  History' /\ PurgedInOrder'
  BY <1>0, <1>1 DEF RegisterAllocate, DeregisterUnlink
<1>2. ASSUME NEW t \in Writer, RegisterInsert(t), UNCHANGED <<history, purged>>
      PROVE  History' /\ PurgedInOrder'
  <2>1. /\ no' = no /\ no[id[t]] = TRX_ID_MAX /\ live' = live \cup {id[t]}
        /\ UNCHANGED <<committed, number>>
    <3>1. id[t] \in Ids /\ no[id[t]] = TRX_ID_MAX
      BY <1>2, <1>T, <1>R, <1>I
         DEF RegisterInsert, Goto, Registered, Numbered, HashTypeOK
    <3> QED BY <1>2, <1>N, <3>1 DEF RegisterInsert, HashNumbers
  <2>2. \A i \in purged : no[i] < TRX_ID_MAX
    <3> SUFFICES ASSUME NEW i \in purged PROVE no[i] < TRX_ID_MAX
      OBVIOUS
    <3>1. no[i] \in Nat /\ no[i] < m_max_trx_id
      BY <1>N, <1>H, <1>I, <1>S DEF Numbered, HashNumbers
    <3> QED BY <1>N, <3>1 DEF HashNumbers
  <2>3. History'
    BY <1>2, <1>H, <2>1 DEF History
  <2>4. PurgedInOrder'
    BY <1>2, <1>P, <2>1, <2>2 DEF PurgedInOrder
  <2> QED BY <2>3, <2>4
<1>3. ASSUME NEW t \in Writer, AssignAllocate(t), UNCHANGED <<history, purged>>
      PROVE  History' /\ PurgedInOrder'
  <2>1. /\ UNCHANGED <<live, committed, no>>
        /\ number' = [number EXCEPT ![t] = m_max_trx_id]
    BY <1>3 DEF AssignAllocate
  <2>2. \A i \in purged : no[i] < m_max_trx_id
    BY <1>H, <1>I, <1>S DEF Numbered
  <2>3. \A u \in Trx : number'[u] = number[u] \/ number'[u] = m_max_trx_id
    BY <1>N, <1>R, <2>1 DEF HashNumbers
  <2> QED BY <1>3, <1>H, <1>P, <1>R, <2>1, <2>2, <2>3 DEF History, PurgedInOrder
<1>4. ASSUME NEW t \in Writer, AssignStore(t),
             history' \in {history, history \cup {id[t]}}, purged' = purged
      PROVE  History' /\ PurgedInOrder'
  <2>1. /\ id[t] \in Ids /\ id[t] \notin committed /\ id[t] \in live
        /\ number[t] # 0 /\ number[t] < m_max_trx_id
    BY <1>4, <1>T, <1>R, <1>I
       DEF AssignStore, Goto, Registered, Numbered, HashTypeOK
  <2>2. /\ no'[id[t]] = number[t]
        /\ \A i \in Ids : i # id[t] => no'[i] = no[i]
    BY <1>4, <1>N, <2>1 DEF AssignStore, HashNumbers
  <2>3. \A u \in Trx : number'[u] # 0 => number'[u] = number[u]
    BY <1>4, <1>N, <1>R DEF AssignStore, HashNumbers
  <2>4. UNCHANGED <<live, committed>>
    BY <1>4 DEF AssignStore
  <2>5. number[t] # TRX_ID_MAX
    BY <1>N, <1>R, <2>1 DEF HashNumbers
  <2>6. \A i \in purged : i # id[t] /\ no'[i] = no[i] /\ no[i] < number[t]
    BY <1>H, <1>P, <1>S, <2>1, <2>2
  <2>7. \A i \in history' \cup purged' : no'[i] # TRX_ID_MAX
    BY <1>4, <1>H, <1>S, <2>2, <2>5
  <2>8. History'
    BY <1>4, <1>H, <2>1, <2>4, <2>7 DEF History
  <2>9. live \subseteq Ids
    BY <1>N DEF HashNumbers
  <2>10. PurgedInOrder'
    <3>1. ASSUME NEW i \in purged, NEW j \in live \cup history'
          PROVE  no'[i] < no'[j]
      <4>1. CASE j = id[t]
        BY <2>2, <2>6, <4>1
      <4>2. CASE j # id[t]
        BY <1>4, <1>P, <1>S, <2>2, <2>6, <2>9, <4>2
      <4> QED BY <4>1, <4>2
    <3>2. ASSUME NEW i \in purged, NEW u \in Writer, number'[u] # 0
          PROVE  no'[i] < number'[u]
      BY <1>P, <1>R, <2>3, <2>6, <3>2
    <3> QED BY <1>4, <2>4, <3>1, <3>2 DEF PurgedInOrder
  <2> QED BY <2>8, <2>10
<1>5. ASSUME NEW t \in Writer, DeregisterMark(t), UNCHANGED <<history, purged>>
      PROVE  History' /\ PurgedInOrder'
  BY <1>5, <1>H, <1>P DEF DeregisterMark, History, PurgedInOrder
<1>6. ASSUME NEW t \in Writer,
             Register(t) \/ Serialise(t) \/ CommitInMemory(t) \/ Unlink(t)
      PROVE  History' /\ PurgedInOrder'
  BY <1>1, <1>2, <1>3, <1>4, <1>5, <1>6
     DEF Register, Serialise, CommitInMemory, Unlink, purge
<1>7. ASSUME NEW t \in Reader,
             \/ OpenCheck(t) \/ OpenReuse(t) \/ OpenSnapshot(t)
             \/ OpenFinish(t) \/ Close(t) \/ CloneAppend(t)
      PROVE  History' /\ PurgedInOrder'
  BY <1>0, <1>7 DEF OpenCheck, OpenReuse, OpenSnapshot, OpenFinish, Close,
                    CloneAppend, purge, hashVars
<1>8. ASSUME NEW w \in Viewer, Iterate(w)
      PROVE  History' /\ PurgedInOrder'
  BY <1>0, <1>8 DEF Iterate, copy_one_id, Retry, purge, hashVars
<1>9. CASE CloneBegin \/ CloneSnapshot \/ UNCHANGED vars
  BY <1>0, <1>9 DEF CloneBegin, CloneSnapshot, vars, purge, hashVars
<1>10. ASSUME NEW k \in Ids, PurgeNext(k)
       PROVE  History' /\ PurgedInOrder'
  <2>1. /\ k \in history /\ no[k] < view[Purge].low_limit_no
        /\ \A j \in history : no[k] <= no[j]
        /\ history' = history \ {k} /\ purged' = purged \cup {k}
        /\ UNCHANGED <<live, committed, no, number>>
    BY <1>10 DEF PurgeNext, hashVars
  <2>2. ViewOK(view[Purge]) /\ view[Purge].low_limit_no \in Nat
    BY <1>T, <1>R, ViewTypes DEF IInv, Views, VTypes
  <2>3. no[k] \in Nat
    BY <1>N DEF HashNumbers
  <2>4. \A j \in live : no[k] < no[j]
    BY <1>N, <2>1, <2>2, <2>3 DEF ViewOK, HashNumbers
  <2>5. \A u \in Writer : number[u] # 0 => no[k] < number[u]
    BY <1>N, <1>R, <2>1, <2>2, <2>3 DEF ViewOK, HashNumbers
  <2>6. k \in committed
    BY <1>H, <2>1, <2>3, <2>4
  <2>7. \A j \in history : j # k => no[k] < no[j]
    <3> SUFFICES ASSUME NEW j \in history, j # k PROVE no[k] < no[j]
      OBVIOUS
    <3>1. no[k] # no[j] /\ no[j] \in Nat
      BY <1>N, <1>H, <1>I, <1>S, <2>1 DEF Numbered, HashNumbers
    <3> QED BY <2>1, <2>3, <3>1
  <2>8. History'
    BY <1>H, <2>1, <2>6 DEF History
  <2>9. PurgedInOrder'
    BY <1>P, <2>1, <2>4, <2>5, <2>7 DEF PurgedInOrder
  <2> QED BY <2>8, <2>9
<1> QED BY <1>6, <1>7, <1>8, <1>9, <1>10 DEF Next, Viewer

-----------------------------------------------------------------------------
LEMMA InitIInv == Init => IInv
<1> SUFFICES ASSUME Init PROVE IInv
  OBVIOUS
<1>1. HashTypeOK
  BY MaxTrxIdAssumption DEF Init, HashInit, HashTypeOK, Ids, TRX_ID_MAX
<1>2. NoView \in ViewSet /\ ViewOK(NoView)
  BY <1>1, NoViewOK
<1>3. NoScan \in ScanSet
  BY MaxTrxIdAssumption DEF NoScan, ScanSet, Limits
<1>4. VTypes
  BY <1>2, <1>3, RolesAssumption DEF Init, VTypes, Viewer
<1>5. PTypes
  BY DEF Init, PTypes
<1>6. VersionLags
  <2>1. Pending = {}
    BY DEF Init, HashInit, Pending
  <2> QED BY <2>1, FS_EmptySet DEF Init, HashInit, VersionLags
<1>7. Registered
  BY DEF Init, HashInit, Registered
<1>8. Numbered
  BY MaxTrxIdAssumption DEF Init, HashInit, Numbered, TRX_ID_MAX
<1>9. Views
  BY <1>2 DEF Init, Views, Viewer
<1>10. Scans
  BY DEF Init, Scans, Viewer
<1>11. Knowledge
  BY DEF Init, HashInit, Knowledge, Viewer
<1>12. History /\ PurgedInOrder
  BY DEF Init, History, PurgedInOrder
<1> QED BY <1>1, <1>4, <1>5, <1>6, <1>7, <1>8, <1>9, <1>10, <1>11, <1>12,
           TypeParts DEF IInv

(* The inductive invariant holds in every reachable state. *)
THEOREM Invariance == Spec => []IInv
<1>1. IInv /\ [Next]_vars => IInv'
  <2> SUFFICES ASSUME IInv, [Next]_vars PROVE IInv'
    OBVIOUS
  <2>1. HashInv
    BY HashInvOK
  <2>2. HashInv'
    BY <2>1, HashInvStep
  <2>3. VTypes' /\ PTypes'
    BY VTypesStep, PTypesStep
  <2>4. TypeOK'
    <3>1. HashTypeOK'
      BY <2>2 DEF HashInv
    <3> QED BY <2>3, <3>1, TypeParts, PTL
  <2>5. Views' /\ Scans' /\ Knowledge' /\ History' /\ PurgedInOrder'
    BY ViewsStep, ScansStep, KnowledgeStep, HistoryStep
  <2> QED BY <2>2, <2>4, <2>5 DEF IInv, HashInv
<1> QED BY <1>1, InitIInv, PTL DEF Spec

(* Every variable of the hash, the views and purge keeps its type; in      *)
(* particular the version never overtakes the counter and assign_new_trx_no*)
(* never stores the number 0.                                              *)
THEOREM TypeCorrect == Spec => []TypeOK
<1>1. IInv => TypeOK
  BY DEF IInv
<1> QED BY <1>1, Invariance, PTL

(* No open view sees a transaction that is still active: snapshot_ids()    *)
(* begins when m_rw_trx_hash_version has caught up with the counter, so    *)
(* every active identifier below its limit is in the hash, and the         *)
(* iteration meets it or it has committed meanwhile.                       *)
THEOREM NeverDirtyRead == Spec => []NoDirtyRead
<1>1. IInv => NoDirtyRead
  <2> SUFFICES ASSUME IInv, NEW t \in Reader, NEW u \in Writer, t # u,
                      id[u] # 0, id[u] \notin committed, Sees(t, id[u])
               PROVE  FALSE
    BY DEF NoDirtyRead
  <2>1. u \in Trx /\ t \in Trx /\ t \in Viewer
    BY ReadersViewers
  <2>2. ~changes_visible(view[t], id[u])
    BY <2>1 DEF IInv, Views, ViewOK
  <2>3. id[t] # id[u]
    BY <2>1 DEF IInv, Registered
  <2> QED BY <2>2, <2>3 DEF Sees
<1> QED BY <1>1, Invariance, PTL

(* A view sees whatever was committed when open() was called, unless       *)
(* duplicates in m_ids made snapshot() collapse it.                        *)
THEOREM AlwaysSeesCommittedBefore == Spec => []SeesCommittedBefore
<1>1. IInv => SeesCommittedBefore
  BY DEF IInv, Knowledge, SeesCommittedBefore, Sees
<1> QED BY <1>1, Invariance, PTL

(* Undo logs are purged in the order of the serialisation numbers, and     *)
(* nothing with a smaller number is active or waits in a history list.     *)
THEOREM AlwaysPurgedInOrder == Spec => []PurgedInOrder
<1>1. IInv => PurgedInOrder
  BY DEF IInv
<1> QED BY <1>1, Invariance, PTL

(* The complete purge view is the oldest: what it sees, every open view    *)
(* sees that was neither reopened over a moved counter nor collapsed by    *)
(* duplicates, also the views opened while clone_oldest_view() was running.*)
THEOREM PurgeViewAlwaysOldest == Spec => []PurgeViewOldest
<1>1. IInv => PurgeViewOldest
  <2> SUFFICES ASSUME IInv, NEW t \in Reader, at[Purge] = "none", m_open[t],
                      t \notin stale \cup miscounted,
                      NEW i \in committed, changes_visible(view[Purge], i)
               PROVE  changes_visible(view[t], i)
    BY DEF PurgeViewOldest, Sees
  <2>1. i \in Ids
    BY TypeParts DEF IInv, HashTypeOK
  <2>2. Known(t, i)
    BY DEF Known
  <2> QED BY <2>1, <2>2 DEF IInv, Knowledge
<1> QED BY <1>1, Invariance, PTL

(* FACT C of read0read.cc: purge never removes the undo log of a           *)
(* transaction that such an open view does not see.                        *)
THEOREM PurgeAlwaysSafe == Spec => []PurgeSafe
<1>1. IInv => PurgeSafe
  <2> SUFFICES ASSUME IInv, NEW t \in Reader, m_open[t],
                      t \notin stale \cup miscounted, NEW i \in purged
               PROVE  changes_visible(view[t], i)
    BY DEF PurgeSafe, Sees
  <2>1. i \in Ids
    BY TypeParts DEF IInv, PTypes
  <2>2. Known(t, i)
    BY DEF Known
  <2> QED BY <2>1, <2>2 DEF IInv, Knowledge
<1> QED BY <1>1, Invariance, PTL
=============================================================================
