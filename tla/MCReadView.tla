----------------------------- MODULE MCReadView -----------------------------
(* ReadView with two interchangeable writers and one transaction that both *)
(* reads and writes.                                                       *)
EXTENDS ReadView, TLC

CONSTANTS w1, w2, r1

WriterSymmetry == Permutations({w1, w2})
=============================================================================
