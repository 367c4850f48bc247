----------------------------- MODULE DurableLog -----------------------------
(***************************************************************************)
(* What the redo log promises: records are appended, the log becomes       *)
(* durable from its start on, and it is reported to be durable up to an    *)
(* LSN only when it is.  Neither the durable part nor the promise shrinks. *)
(***************************************************************************)
EXTENDS Naturals

VARIABLES
    appended,   \* the end of the log
    durable,    \* how much of it survives a power failure
    promised    \* up to where it has been reported to be durable

Init == appended = 0 /\ durable = 0 /\ promised = 0

AppendRecord ==
    /\ appended' = appended + 1
    /\ UNCHANGED <<durable, promised>>

Persist ==
    /\ durable' \in (durable + 1)..appended
    /\ UNCHANGED <<appended, promised>>

Promise ==
    /\ promised' \in (promised + 1)..durable
    /\ UNCHANGED <<appended, durable>>

Next == AppendRecord \/ Persist \/ Promise

Spec == Init /\ [][Next]_<<appended, durable, promised>>
=============================================================================
