-------------------------- MODULE MCPreventivaEnvio --------------------------
EXTENDS PreventivaEnvio, TLC

CONSTANTS p1, v1, v2, n1, n2, a1, e1, externa

Simetria == Permutations({n1, n2}) \cup Permutations({v1, v2})
=============================================================================
