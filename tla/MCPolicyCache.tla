---------------------------- MODULE MCPolicyCache ----------------------------
EXTENDS PolicyCache, TLC

Symmetric == Permutations(Procs) \union Permutations(Projects)
=============================================================================
