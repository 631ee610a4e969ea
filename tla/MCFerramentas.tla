---------------------------- MODULE MCFerramentas ----------------------------
EXTENDS Ferramentas, TLC

CONSTANTS u1, u2, t1, t2, f1, e1, r1, r2, s1, s2

MCTipoDe == u1 :> t1 @@ u2 :> t2

\* The kit has a unit of each tool; an edit under way leaves it empty.
MCComposicoes == {t1 :> 1 @@ t2 :> 1}

MCPeriodos == {<<1, 1>>}

Simetria == Permutations({s1, s2}) \cup Permutations({r1, r2})
=============================================================================
