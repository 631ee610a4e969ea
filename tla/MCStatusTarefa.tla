--------------------------- MODULE MCStatusTarefa ---------------------------
EXTENDS StatusTarefa

CONSTANTS o1, e1, e2, i1
=============================================================================
