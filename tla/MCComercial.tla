---- MODULE MCComercial ----
\* Model of Comercial: the proposals, sessions and runs are interchangeable.
EXTENDS Comercial, TLC

Simetria == Permutations(Propostas) \cup Permutations(Sessoes)
                \cup Permutations(Execucoes)
====
