--------------------------- MODULE MCDecisionLog ---------------------------
EXTENDS DecisionLog, TLC

Symmetric == Permutations(Procs)
=============================================================================
