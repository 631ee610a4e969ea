---------------------------- MODULE MCAuvoOutbox ----------------------------
EXTENDS AuvoOutbox, TLC

CONSTANTS r1, r2, d1, d2

\* Families of descriptors in _shared/auvo/registry.  ADR-0001 says the Auvo
\* keeps externalId unique; segments do not accept one.
DCliente  == [writeEnabled |-> TRUE, deleteStrategy |-> "soft-patch",
              supportsUpdate |-> TRUE,  externalIdUnico |-> TRUE]
DSegmento == [writeEnabled |-> TRUE, deleteStrategy |-> "hard-delete",
              supportsUpdate |-> TRUE,  externalIdUnico |-> FALSE]

MCClienteSegmento == r1 :> DCliente @@ r2 :> DSegmento
=============================================================================
