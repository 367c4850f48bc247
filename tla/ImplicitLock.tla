---------------------------- MODULE ImplicitLock ----------------------------
(***************************************************************************)
(* Implicit record locks on a page of a secondary index.  A transaction    *)
(* that changes the page holds an implicit exclusive lock until it is      *)
(* deregistered, and stamps the page with PAGE_MAX_TRX_ID.  A locking read *)
(* asks trx_sys_t::find_same_or_older() whether any transaction up to that *)
(* stamp is active; trx_t::max_inactive_id caches negative answers.        *)
(*                                                                         *)
(* The page latch makes the change of the page, and the check, one step    *)
(* each: an element that is in the hash during a whole iteration is found, *)
(* one that leaves it meanwhile has released its locks.                    *)
(***************************************************************************)
EXTENDS TrxHash

VARIABLES
    page_max_trx_id,  \* PAGE_MAX_TRX_ID of the page, 0 when never written
    holders,          \* identifiers that changed the page
    max_inactive_id,  \* trx_t::max_inactive_id, never reset
    missed            \* history: implicit locks a check overlooked

lockVars == <<page_max_trx_id, holders, max_inactive_id, missed>>

Init ==
    /\ HashInit
    /\ page_max_trx_id = 0
    /\ holders = {}
    /\ max_inactive_id = [t \in Trx |-> 0]
    /\ missed = {}

(* A change of the page: page_update_max_trx_id() only ever raises the     *)
(* stamp.                                                                  *)
Write(t) ==
    /\ pc[t] = "active"
    /\ page_max_trx_id' = IF id[t] > page_max_trx_id THEN id[t]
                                                     ELSE page_max_trx_id
    /\ holders' = holders \cup {id[t]}
    /\ UNCHANGED <<hashVars, max_inactive_id, missed>>

(* The answer of find_same_or_older(t, i). *)
SameOrOlder(t, i) ==
    /\ max_inactive_id[t] < i
    /\ \E e \in live : e <= i

(* lock_sec_rec_some_has_impl(): a negative answer ends the check, and t   *)
(* goes on as if nobody else had locked the record.                        *)
CheckImplicit(t) ==
    /\ pc[t] \in {"idle", "active"}
    /\ page_max_trx_id # 0
    /\ IF SameOrOlder(t, page_max_trx_id)
       THEN UNCHANGED <<max_inactive_id, missed>>
       ELSE /\ max_inactive_id' =
                 [max_inactive_id EXCEPT
                    ![t] = IF @ < page_max_trx_id THEN page_max_trx_id ELSE @]
            /\ missed' = missed \cup ((holders \cap live) \ {id[t]})
    /\ UNCHANGED <<hashVars, page_max_trx_id, holders>>

Next ==
    \E t \in Trx :
        \/ Write(t)
        \/ CheckImplicit(t)
        \/ (RegisterAllocate(t) \/ RegisterInsert(t) \/ AssignAllocate(t)
              \/ AssignStore(t) \/ DeregisterMark(t) \/ DeregisterUnlink(t))
             /\ UNCHANGED lockVars

Spec == Init /\ [][Next]_<<hashVars, lockVars>>

-----------------------------------------------------------------------------
(* lock_sec_rec_some_has_impl() is documented to return "false positives   *)
(* but never false negatives": a check never overlooks the implicit lock   *)
(* of a transaction that is still active.                                  *)
NoFalseNegatives == missed = {}
=============================================================================
