------------------------------ MODULE MCRedoLog ------------------------------
EXTENDS RedoLog, TLC

\* Writers are interchangeable (Writer and Maintainer are equal or disjoint).
Symmetry == Permutations(Writer)
=============================================================================
