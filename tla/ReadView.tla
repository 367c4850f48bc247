------------------------------ MODULE ReadView ------------------------------
(***************************************************************************)
(* MVCC read views of InnoDB and the purge of history: ReadView::open(),   *)
(* snapshot(), close() and append(), trx_sys_t::snapshot_ids() and         *)
(* clone_oldest_view(), and the purge coordinator that removes the undo    *)
(* logs its view allows.                                                   *)
(*                                                                         *)
(* A snapshot iterates the lock-free hash of TrxHash without any mutex,    *)
(* one element at a time and in any order.  When an iteration fails to     *)
(* unlink a marked element it starts again and meets elements twice        *)
(* (l_find()); m_ids keeps the duplicates, so its size is kept apart from  *)
(* the set.  Only waiting for m_rw_trx_hash_version is not a step: the     *)
(* loop ends exactly when both counters are equal.                         *)
(***************************************************************************)
EXTENDS TrxHash

CONSTANTS
    Writer,     \* the trx_t that modify data
    Reader,     \* the trx_t that open read views; the sets may overlap
    MaxRetry    \* bound: restarts of the iterations in a behaviour

Purge == "purge_coordinator_task"

ASSUME RolesAssumption ==
    /\ Writer \cup Reader = Trx
    /\ Purge \notin Trx
    /\ MaxRetry \in Nat

VARIABLES
    view,       \* ReadViewBase of trx_t::read_view and of purge_sys.view
    m_open,     \* ReadView::m_open
    at,         \* where the thread is in open() or clone_oldest_view()
    scan,       \* snapshot_ids_arg and the elements yet to be visited
    retries,    \* restarts so far
    left,       \* views clone_oldest_view() has not looked at yet
    history,    \* identifiers whose undo log is in a history list
    purged,     \* identifiers whose undo log was purged
    must,       \* history: what was committed when open() was called
    stale,      \* history: views reopened although the counter had moved
    miscounted  \* history: views collapsed because of duplicates in m_ids

views == <<view, m_open, at, scan, retries, must, stale, miscounted>>
purge == <<left, history, purged>>
vars  == <<hashVars, views, purge>>

Limits  == 0 .. MaxTrxId + 1
ViewSet == [low_limit_id : Limits, up_limit_id : Limits, ids : SUBSET Ids,
            low_limit_no : Limits]
ScanSet == [id : Limits, no : Limits, ids : SUBSET Ids, size : Nat,
            todo : SUBSET Ids]
NoView  == [low_limit_id |-> 0, up_limit_id |-> 0, ids |-> {},
            low_limit_no |-> 0]
NoScan  == [id |-> 0, no |-> 0, ids |-> {}, size |-> 0, todo |-> {}]

(* Every variable stays within the values its type in the code can have.   *)
TypeOK ==
    /\ HashTypeOK
    /\ view \in [Reader \cup {Purge} -> ViewSet]
    /\ m_open \in [Reader -> BOOLEAN]
    /\ at \in [Reader \cup {Purge} -> {"none", "reuse", "iterate", "append"}]
    /\ scan \in [Reader \cup {Purge} -> ScanSet]
    /\ retries \in 0 .. MaxRetry
    /\ left \subseteq Reader
    /\ history \subseteq Ids
    /\ purged \subseteq Ids
    /\ must \in [Reader -> SUBSET Ids]
    /\ stale \subseteq Reader
    /\ miscounted \subseteq Reader \cup {Purge}

Init ==
    /\ HashInit
    /\ view = [w \in Reader \cup {Purge} |-> NoView]
    /\ m_open = [t \in Reader |-> FALSE]
    /\ at = [w \in Reader \cup {Purge} |-> "none"]
    /\ scan = [w \in Reader \cup {Purge} |-> NoScan]
    /\ retries = 0
    /\ left = {}
    /\ history = {}
    /\ purged = {}
    /\ must = [t \in Reader |-> {}]
    /\ stale = {}
    /\ miscounted = {}

Smaller(a, b) == IF a < b THEN a ELSE b

Lowest(S) == CHOOSE i \in S : \A j \in S : i <= j

(* ReadViewBase::changes_visible() *)
changes_visible(v, i) ==
    /\ i < v.low_limit_id
    /\ i < v.up_limit_id \/ i \notin v.ids

-----------------------------------------------------------------------------
(* trx_sys_t::snapshot_ids() *)

(* Mutant: the snapshot does not wait for the allocations in progress. *)
SnapshotBeginNoWait(w) ==
    /\ at' = [at EXCEPT ![w] = "iterate"]
    /\ scan' = [scan EXCEPT ![w] = [id |-> m_max_trx_id, no |-> m_max_trx_id,
                                    ids |-> {}, size |-> 0,
                                    todo |-> live]]

(* Mutant: the minimum of the numbers starts from TRX_ID_MAX. *)
SnapshotBeginNoLimit(w) ==
    /\ m_rw_trx_hash_version = m_max_trx_id
    /\ at' = [at EXCEPT ![w] = "iterate"]
    /\ scan' = [scan EXCEPT ![w] = [id |-> m_rw_trx_hash_version,
                                    no |-> TRX_ID_MAX, ids |-> {}, size |-> 0,
                                    todo |-> live]]

(* The wait for the version ends; the iteration of the hash begins. *)
SnapshotBegin(w) ==
    /\ m_rw_trx_hash_version = m_max_trx_id
    /\ at' = [at EXCEPT ![w] = "iterate"]
    /\ scan' = [scan EXCEPT ![w] = [id |-> m_rw_trx_hash_version,
                                    no |-> m_rw_trx_hash_version,
                                    ids |-> {}, size |-> 0,
                                    todo |-> live]]

(* copy_one_id() on an element that is not marked.  An element inserted    *)
(* after SnapshotBegin(w) is not in todo: its identifier is not below      *)
(* m_id, so copy_one_id() would skip it.                                   *)
copy_one_id(w, e) ==
    /\ at[w] = "iterate"
    /\ e \in scan[w].todo \cap live
    /\ LET s == scan[w]
       IN  scan' = [scan EXCEPT ![w] = [id   |-> s.id,
                                        no   |-> Smaller(no[e], s.no),
                                        ids  |-> s.ids \cup {e},
                                        size |-> s.size + 1,
                                        todo |-> s.todo \ {e}]]
    /\ UNCHANGED <<hashVars, view, m_open, at, retries, must, stale,
                   miscounted, purge>>

(* l_find() meets a marked element and loses the race for unlinking it:    *)
(* it goes back, and elements between the last dummy node and this one are *)
(* met again.  The marked element may have been inserted after             *)
(* SnapshotBegin(w), but is none the iteration has left behind.  Winning   *)
(* the race is no step, nothing else depends on it.                        *)
Retry(w) ==
    /\ at[w] = "iterate"
    /\ retries < MaxRetry
    /\ \E e \in Marked : e \in scan[w].ids => e \in scan[w].todo
    /\ retries' = retries + 1
    /\ \E again \in SUBSET (scan[w].ids \cap live) \ {{}} :
           scan' = [scan EXCEPT ![w].todo = @ \cup again]
    /\ UNCHANGED <<hashVars, view, m_open, at, must, stale, miscounted,
                   purge>>

(* Mutant: the view collapses without counting its identifiers. *)
CollapsesUncounted(s) == s.ids # {} /\ s.no = s.id

(* ReadViewBase::snapshot() after snapshot_ids(): sort, take the smallest  *)
(* identifier, and collapse the view when all identifiers from the         *)
(* smallest one on are active.                                             *)
Collapses(s) ==
    /\ s.ids # {}
    /\ s.no = s.id
    /\ s.id = Lowest(s.ids) + s.size

ViewOf(s) ==
    LET up == IF s.ids = {} THEN s.id ELSE Lowest(s.ids)
    IN  IF Collapses(s)
        THEN [low_limit_id |-> up, up_limit_id |-> up, ids |-> {},
              low_limit_no |-> up]
        ELSE [low_limit_id |-> s.id, up_limit_id |-> up, ids |-> s.ids,
              low_limit_no |-> s.no]

(* The iteration ends when nothing it has yet to meet is in the hash. *)
SnapshotEnd(w, next) ==
    /\ at[w] = "iterate"
    /\ scan[w].todo \cap live = {}
    /\ at' = [at EXCEPT ![w] = next]
    /\ view' = [view EXCEPT ![w] = ViewOf(scan[w])]
    /\ scan' = [scan EXCEPT ![w] = NoScan]
    /\ miscounted' = IF Collapses(scan[w])
                          /\ Cardinality(scan[w].ids) # scan[w].size
                     THEN miscounted \cup {w} ELSE miscounted \ {w}

-----------------------------------------------------------------------------
(* ReadView::open() of a trx_t, and ReadView::close() *)

CanOpen(t) == at[t] = "none" /\ ~m_open[t] /\ pc[t] \in {"idle", "active"}

(* An autocommit non-locking read may use its closed view again. *)
Reusable(t) ==
    /\ pc[t] = "idle"
    /\ view[t].ids = {}
    /\ view[t].low_limit_id = m_max_trx_id

(* open(): the closed view passes the test, without any mutex. *)
OpenCheck(t) ==
    /\ CanOpen(t) /\ Reusable(t)
    /\ at' = [at EXCEPT ![t] = "reuse"]
    /\ must' = [must EXCEPT ![t] = committed]
    /\ UNCHANGED <<hashVars, view, m_open, scan, retries, stale, miscounted,
                   purge>>

(* open(): m_open.store(true) after the test. *)
OpenReuse(t) ==
    /\ at[t] = "reuse"
    /\ at' = [at EXCEPT ![t] = "none"]
    /\ m_open' = [m_open EXCEPT ![t] = TRUE]
    /\ stale' = IF view[t].low_limit_id = m_max_trx_id THEN stale \ {t}
                                                       ELSE stale \cup {t}
    /\ UNCHANGED <<hashVars, view, scan, retries, must, miscounted, purge>>

(* open(): a new snapshot, under m_mutex until OpenFinish(t).  A locking   *)
(* or multi-statement transaction never uses its view again.               *)
OpenSnapshot(t) ==
    /\ CanOpen(t)
    /\ SnapshotBegin(t)
    /\ must' = [must EXCEPT ![t] = committed]
    /\ UNCHANGED <<hashVars, view, m_open, retries, stale, miscounted, purge>>

(* open(): the snapshot is complete, the view open, m_mutex released. *)
OpenFinish(t) ==
    /\ SnapshotEnd(t, "none")
    /\ m_open' = [m_open EXCEPT ![t] = TRUE]
    /\ stale' = stale \ {t}
    /\ UNCHANGED <<hashVars, retries, must, purge>>

(* The effect of ReadView::close().  The counter only grows, so a view     *)
(* that cannot be used again now never can: it is forgotten.               *)
close(t) ==
    LET kept == view[t].ids = {} /\ view[t].low_limit_id = m_max_trx_id
    IN  /\ m_open' = [m_open EXCEPT ![t] = FALSE]
        /\ must' = [must EXCEPT ![t] = {}]
        /\ stale' = stale \ {t}
        /\ view' = IF kept THEN view ELSE [view EXCEPT ![t] = NoView]
        /\ miscounted' = IF kept THEN miscounted ELSE miscounted \ {t}

(* ReadView::close(), at the end of a statement or of a read-only          *)
(* transaction.                                                            *)
Close(t) ==
    /\ m_open[t]
    /\ at[t] = "none"
    /\ close(t)
    /\ UNCHANGED <<hashVars, at, scan, retries, purge>>

-----------------------------------------------------------------------------
(* Read-write transactions *)

Outside(t) == t \in Reader => at[t] = "none"

Register(t) ==
    /\ Outside(t)
    /\ RegisterAllocate(t) \/ RegisterInsert(t)
    /\ UNCHANGED <<views, purge>>

(* trx_t::write_serialisation_history(): the number, then the undo log     *)
(* goes to the history list, unless everything was rolled back.            *)
Serialise(t) ==
    /\ Outside(t)
    /\ \/ AssignAllocate(t) /\ UNCHANGED history
       \/ /\ AssignStore(t)
          /\ history' \in {history, history \cup {id[t]}}
    /\ UNCHANGED <<views, left, purged>>

(* trx_t::commit_in_memory(): the view is closed, the transaction leaves   *)
(* the hash.                                                               *)
CommitInMemory(t) ==
    /\ Outside(t)
    /\ DeregisterMark(t)
    /\ IF t \in Reader THEN close(t)
                       ELSE UNCHANGED <<view, m_open, must, stale, miscounted>>
    /\ UNCHANGED <<at, scan, retries, purge>>

Unlink(t) ==
    /\ DeregisterUnlink(t)
    /\ UNCHANGED <<views, purge>>

-----------------------------------------------------------------------------
(* The purge coordinator *)

(* do_purge() calls trx_purge() while there is history, purged or not;     *)
(* clone_oldest_view() takes a snapshot of its own first.  It is made in   *)
(* place, under purge_sys.latch: nobody looks at the old view any more.    *)
CloneBegin ==
    /\ at[Purge] = "none"
    /\ history \cup purged # {}
    /\ SnapshotBegin(Purge)
    /\ view' = [view EXCEPT ![Purge] = NoView]
    /\ miscounted' = miscounted \ {Purge}
    /\ UNCHANGED <<hashVars, m_open, retries, must, stale, purge>>

CloneSnapshot ==
    /\ SnapshotEnd(Purge, "append")
    /\ left' = Reader
    /\ UNCHANGED <<hashVars, m_open, retries, must, stale, history, purged>>

(* Mutant: append() leaves low_limit_no alone. *)
AppendKeepsNo(v, other) ==
    LET low == Smaller(other.low_limit_id, v.low_limit_id)
        ids == {i \in v.ids \cup other.ids : i < low}
    IN  [low_limit_id |-> low,
         up_limit_id  |-> IF ids = {} THEN low ELSE Lowest(ids),
         ids          |-> ids,
         low_limit_no |-> v.low_limit_no]

(* ReadViewBase::append(): the older of both views in every respect. *)
Append(v, other) ==
    LET low == Smaller(other.low_limit_id, v.low_limit_id)
        ids == {i \in v.ids \cup other.ids : i < low}
    IN  [low_limit_id |-> low,
         up_limit_id  |-> IF ids = {} THEN low ELSE Lowest(ids),
         ids          |-> ids,
         low_limit_no |-> Smaller(other.low_limit_no, v.low_limit_no)]

(* Mutant: append_to() does not take m_mutex. *)
CloneAppendNoMutex(t) ==
    /\ at[Purge] = "append"
    /\ t \in left
    /\ left' = left \ {t}
    /\ view' = IF m_open[t]
               THEN [view EXCEPT ![Purge] = Append(@, view[t])]
               ELSE view
    /\ at' = IF left = {t} THEN [at EXCEPT ![Purge] = "none"] ELSE at
    /\ UNCHANGED <<hashVars, m_open, scan, retries, must, stale, miscounted,
                   history, purged>>

(* append_to() of one trx_t, which waits for a snapshot in progress. *)
CloneAppend(t) ==
    /\ at[Purge] = "append"
    /\ t \in left
    /\ at[t] # "iterate"
    /\ left' = left \ {t}
    /\ view' = IF m_open[t]
               THEN [view EXCEPT ![Purge] = Append(@, view[t])]
               ELSE view
    /\ at' = IF left = {t} THEN [at EXCEPT ![Purge] = "none"] ELSE at
    /\ UNCHANGED <<hashVars, m_open, scan, retries, must, stale, miscounted,
                   history, purged>>

(* Mutant: the wrong limit of the purge view. *)
PurgeNextById(i) ==
    /\ at[Purge] = "none"
    /\ i \in history
    /\ \A j \in history : no[i] <= no[j]
    /\ no[i] < view[Purge].low_limit_id
    /\ history' = history \ {i}
    /\ purged' = purged \cup {i}
    /\ UNCHANGED <<hashVars, views, left>>

(* fetch_next_rec(): the oldest undo log, if the view allows it. *)
PurgeNext(i) ==
    /\ at[Purge] = "none"
    /\ i \in history
    /\ \A j \in history : no[i] <= no[j]
    /\ no[i] < view[Purge].low_limit_no
    /\ history' = history \ {i}
    /\ purged' = purged \cup {i}
    /\ UNCHANGED <<hashVars, views, left>>

-----------------------------------------------------------------------------
Iterate(w) ==
    \/ \E e \in scan[w].todo : copy_one_id(w, e)
    \/ Retry(w)

Next ==
    \/ \E t \in Writer : \/ Register(t) \/ Serialise(t)
                         \/ CommitInMemory(t) \/ Unlink(t)
    \/ \E t \in Reader : \/ OpenCheck(t) \/ OpenReuse(t) \/ OpenSnapshot(t)
                         \/ OpenFinish(t) \/ Close(t) \/ CloneAppend(t)
    \/ \E w \in Reader \cup {Purge} : Iterate(w)
    \/ CloneBegin
    \/ CloneSnapshot
    \/ \E i \in Ids : PurgeNext(i)

Spec == Init /\ [][Next]_vars

-----------------------------------------------------------------------------
(* Properties *)

(* The view of t sees the changes of transaction i. *)
Sees(t, i) == i = id[t] \/ changes_visible(view[t], i)

(* No open view sees the changes of a transaction that is still active,    *)
(* in particular of one that has its identifier but is not in the hash     *)
(* yet: the gap m_rw_trx_hash_version is there to close.                   *)
NoDirtyRead ==
    \A t \in Reader, u \in Writer :
        m_open[t] /\ t # u /\ id[u] # 0 /\ id[u] \notin committed
            => ~Sees(t, id[u])

(* A view sees every transaction that was committed when open() was        *)
(* called, unless duplicates in m_ids made snapshot() collapse the view.   *)
SeesCommittedBefore ==
    \A t \in Reader :
        m_open[t] /\ t \notin miscounted
            => \A i \in must[t] : Sees(t, i)

(* FACT C of read0read.cc: purge removes only undo logs of transactions    *)
(* every open view sees.  The reuse of a view races purge, as open() says, *)
(* and a view that collapsed because of duplicates hides transactions that *)
(* may have been purged.                                                   *)
PurgeSafe ==
    \A t \in Reader :
        m_open[t] /\ t \notin stale \cup miscounted
            => \A i \in purged : Sees(t, i)

(* The purge view, once complete, is not newer than any open view: what it *)
(* sees, they see.                                                         *)
PurgeViewOldest ==
    \A t \in Reader :
        at[Purge] = "none" /\ m_open[t] /\ t \notin stale \cup miscounted
            => \A i \in committed :
                  changes_visible(view[Purge], i) => Sees(t, i)

(* History is purged in the order of the serialisation numbers: whatever   *)
(* was serialised before a purged transaction has left the hash and the    *)
(* history lists, and every number on its way into the hash is larger.     *)
PurgedInOrder ==
    \A i \in purged :
        /\ \A j \in live \cup history : no[i] < no[j]
        /\ \A t \in Writer : number[t] # 0 => no[i] < number[t]
=============================================================================
