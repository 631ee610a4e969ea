--------------------------- MODULE MCAberturaAuvo ---------------------------
EXTENDS AberturaAuvo

CONSTANTS o1, o2, a1, a2, e1, externa
=============================================================================
