---------------------------- MODULE FilaEntrega ----------------------------
(***************************************************************************)
(* What a work queue such as pcm.auvo_sync_outbox promises its writers and *)
(* its workers, seen through the status column alone: entries are appended *)
(* pending, a worker reserves an initial segment of what is pending, and   *)
(* an entry that was reserved is closed once, as sent or as error, or      *)
(* stays reserved.  No entry is ever handed out twice.                     *)
(***************************************************************************)
EXTENDS Naturals, Sequences, FiniteSets

CONSTANT TamLote        \* how many entries one reservation may take

VARIABLE fila           \* fila[i] is the status of the i-th entry

Situacao == {"pending", "processing", "sent", "error"}
Final    == {"sent", "error"}

Init == fila = <<>>

\* The pending entries older than i.
PendentesAntes(i) == {j \in DOMAIN fila : j < i /\ fila[j] = "pending"}

\* The oldest TamLote pending entries.
Lote == {i \in DOMAIN fila :
           /\ fila[i] = "pending"
           /\ Cardinality(PendentesAntes(i)) < TamLote}

Enfileirar == fila' = Append(fila, "pending")

Reivindicar ==
    /\ Lote # {}
    /\ fila' = [i \in DOMAIN fila |-> IF i \in Lote THEN "processing" ELSE fila[i]]

Concluir ==
    \E i \in DOMAIN fila, s \in Final :
        /\ fila[i] = "processing"
        /\ fila' = [fila EXCEPT ![i] = s]

Next == Enfileirar \/ Reivindicar \/ Concluir

Spec == Init /\ [][Next]_fila
=============================================================================
