------------------------------ MODULE TrxHash ------------------------------
(***************************************************************************)
(* The set of active read-write transactions of InnoDB: the identifier     *)
(* counter of trx_sys, the lock-free hash trx_sys.rw_trx_hash, and the     *)
(* steps by which a transaction enters it (register_rw), obtains its       *)
(* serialisation number (assign_new_trx_no) and leaves it (deregister_rw). *)
(*                                                                         *)
(* Identifiers and serialisation numbers come from the same counter.       *)
(* Nothing but the order of the steps of one thread protects the hash: the *)
(* counter moves in one step, the change of the hash follows in another.   *)
(* That change and the increment of m_rw_trx_hash_version after it are one *)
(* step here: whoever waits for the version cannot start in between, and   *)
(* nobody else reads the version.  An element is removed in two steps, as  *)
(* lf_hash does: its link is marked, which hides it, and it is unlinked.   *)
(***************************************************************************)
EXTENDS Naturals, FiniteSets

CONSTANTS
    Trx,        \* trx_t objects, each used by one thread
    MaxTrxId    \* bound: identifiers and numbers allocated in a behaviour

ASSUME MaxTrxIdAssumption == MaxTrxId \in Nat \ {0}

VARIABLES
    m_max_trx_id,           \* the next identifier to allocate
    m_rw_trx_hash_version,  \* how far the hash reflects the allocations
    pc,                     \* per trx_t: the next step of its transaction
    id,                     \* trx_t::id, 0 when there is none
    number,                 \* a number allocated but not stored in `no' yet
    live,                   \* identifiers in the hash, not marked
    no,                     \* rw_trx_hash_element_t::no, kept after removal
    committed               \* history: identifiers deregistered so far

counters == <<m_max_trx_id, m_rw_trx_hash_version>>
hashVars == <<counters, pc, id, number, live, no, committed>>

Ids == 1 .. MaxTrxId

(* Larger than every identifier and every limit of a view. *)
TRX_ID_MAX == MaxTrxId + 2

HashTypeOK ==
    /\ m_max_trx_id \in 1 .. MaxTrxId + 1
    /\ m_rw_trx_hash_version \in 1 .. MaxTrxId + 1
    /\ pc \in [Trx -> {"idle", "insert", "active", "store", "serialised",
                       "unlink"}]
    /\ id \in [Trx -> Ids \cup {0}]
    /\ number \in [Trx -> Ids \cup {0}]
    /\ live \subseteq Ids
    /\ no \in [Ids -> Ids \cup {TRX_ID_MAX}]
    /\ committed \subseteq Ids

HashInit ==
    /\ m_max_trx_id = 1
    /\ m_rw_trx_hash_version = 1
    /\ pc = [t \in Trx |-> "idle"]
    /\ id = [t \in Trx |-> 0]
    /\ number = [t \in Trx |-> 0]
    /\ live = {}
    /\ no = [i \in Ids |-> TRX_ID_MAX]
    /\ committed = {}

(* Elements whose link is marked deleted but that are still in the list. *)
Marked == {id[t] : t \in {u \in Trx : pc[u] = "unlink"}}

(* The step of t: its program counter moves from one label to another. *)
Goto(t, from, to) ==
    /\ pc[t] = from
    /\ pc' = [pc EXCEPT ![t] = to]

get_new_trx_id_no_refresh ==
    /\ m_max_trx_id \in Ids
    /\ m_max_trx_id' = m_max_trx_id + 1
    /\ UNCHANGED m_rw_trx_hash_version

refresh_rw_trx_hash_version ==
    /\ m_rw_trx_hash_version' = m_rw_trx_hash_version + 1
    /\ UNCHANGED m_max_trx_id

-----------------------------------------------------------------------------
(* register_rw(): trx->id= get_new_trx_id_no_refresh() *)
RegisterAllocate(t) ==
    /\ Goto(t, "idle", "insert")
    /\ get_new_trx_id_no_refresh
    /\ id' = [id EXCEPT ![t] = m_max_trx_id]
    /\ UNCHANGED <<number, live, no, committed>>

(* register_rw(): rw_trx_hash.insert(trx), then the version is refreshed.  *)
(* The element enters the hash with no = TRX_ID_MAX.                       *)
RegisterInsert(t) ==
    /\ Goto(t, "insert", "active")
    /\ live' = live \cup {id[t]}
    /\ no' = [no EXCEPT ![id[t]] = TRX_ID_MAX]
    /\ refresh_rw_trx_hash_version
    /\ UNCHANGED <<id, number, committed>>

(* assign_new_trx_no(): get_new_trx_id_no_refresh() *)
AssignAllocate(t) ==
    /\ Goto(t, "active", "store")
    /\ get_new_trx_id_no_refresh
    /\ number' = [number EXCEPT ![t] = m_max_trx_id]
    /\ UNCHANGED <<id, live, no, committed>>

(* assign_new_trx_no(): the number is stored in the hash element, then the *)
(* version is refreshed.                                                   *)
AssignStore(t) ==
    /\ Goto(t, "store", "serialised")
    /\ no' = [no EXCEPT ![id[t]] = number[t]]
    /\ number' = [number EXCEPT ![t] = 0]
    /\ refresh_rw_trx_hash_version
    /\ UNCHANGED <<id, live, committed>>

(* deregister_rw(): lf_hash_delete() marks the element, from here on no    *)
(* iteration reports it.  A transaction without undo log has no number.    *)
DeregisterMark(t) ==
    /\ pc[t] \in {"active", "serialised"}
    /\ Goto(t, pc[t], "unlink")
    /\ live' = live \ {id[t]}
    /\ committed' = committed \cup {id[t]}
    /\ UNCHANGED <<counters, id, number, no>>

(* deregister_rw(): the element is unlinked, trx_t::id is cleared. *)
DeregisterUnlink(t) ==
    /\ Goto(t, "unlink", "idle")
    /\ id' = [id EXCEPT ![t] = 0]
    /\ UNCHANGED <<counters, number, live, no, committed>>
=============================================================================
