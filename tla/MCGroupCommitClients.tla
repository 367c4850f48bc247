------------------------ MODULE MCGroupCommitClients ------------------------
EXTENDS GroupCommitClients, TLC

\* Threads and callbacks are interchangeable; NoThread, Dummy and NoCallback
\* are not among them.
Symmetry == Permutations(Thread) \cup Permutations(Callback)
=============================================================================
