--------------------------- MODULE MCAtendimento ---------------------------
\* Model of Atendimento.  No symmetry: the run checks a liveness property.
EXTENDS Atendimento
=============================================================================
