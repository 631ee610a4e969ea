----------------------------- MODULE MCCobranca -----------------------------
EXTENDS Cobranca

CONSTANTS l1, pix, boleto, e1, e2, w1, w2, c1
=============================================================================
