----------------------------- MODULE AuvoOutbox -----------------------------
(***************************************************************************)
(* The write path PCM -> Auvo: the trigger pcm.fn_auvo_enqueue appends one *)
(* row to pcm.auvo_sync_outbox for every user write on a synchronised      *)
(* table, and any number of invocations of the Edge Function pcm-auvo-push *)
(* ("drains": the one-minute cron, and one more per write) reserve batches *)
(* of it, call the Auvo API and write the outcome back.                    *)
(*                                                                         *)
(* Abstractions.  A row's content is the number of the write that produced *)
(* it, so "newer" is "greater".  The outbox is a sequence in commit order; *)
(* its index stands for id and enqueued_at.  The Auvo is a sequence of the *)
(* records it ever created, an id being an index (0 is SQL null).          *)
(* auvo_sync_status and auvo_entity_status are display columns that no     *)
(* step of this path reads; they are left out.                             *)
(***************************************************************************)
EXTENDS Naturals, Sequences, FiniteSets

CONSTANTS
    Linhas,        \* ids of the origin rows in the synchronised tables
    Drenos,        \* concurrent invocations of pcm-auvo-push
    Descritor,     \* registry descriptor of the entity each row belongs to
    TamLote,       \* BATCH_SIZE
    MaxEscritas,   \* bound: user writes, hence outbox rows, of a behaviour
    Falhas         \* kinds of fault the environment may inject

TiposFalha == {"leitura",    \* fetchOrigem rejects
               "auvo",       \* the Auvo answers an error, nothing changed there
               "resposta",   \* the Auvo did the work, its answer was lost
               "aplicar",    \* fn_apply_auvo_sync rejects
               "gravar",     \* the result of the row could not be stored
               "queda"}      \* the isolate running the drain dies

\* externalIdUnico: the Auvo recognises a repeated externalId on POST.
Descritores == [writeEnabled    : BOOLEAN,
                deleteStrategy  : {"soft-patch", "hard-delete", "unsupported"},
                supportsUpdate  : BOOLEAN,
                externalIdUnico : BOOLEAN]

ASSUME DescritorAssumption == Descritor \in [Linhas -> Descritores]
ASSUME LimitesAssumption   == TamLote \in Nat \ {0} /\ MaxEscritas \in Nat
ASSUME FalhasAssumption    == Falhas \subseteq TiposFalha

VARIABLES
    origem,   \* the origin rows
    outbox,   \* pcm.auvo_sync_outbox
    auvo,     \* the records the Auvo holds or held
    pc,       \* where each drain is in the loop over its batch
    lote,     \* rows of the batch the drain has not reached yet
    atual,    \* row of the batch the drain is processing, 0 for none
    lida,     \* the origin row as the drain read it
    idAuvo,   \* auvoId as processOutboxRow holds it
    ok        \* resultado.ok of the row being processed

drenoVars == <<pc, lote, atual, lida, idAuvo, ok>>
vars      == <<origem, outbox, auvo, drenoVars>>

Op       == {"create", "update", "delete"}
Situacao == {"pending", "processing", "sent", "error"}
Final    == {"sent", "error"}

Origem  == [estado : {"ausente", "viva", "excluida", "apagada"}, ver : Nat, auvoId : Nat]
Entrada == [linha : Linhas, op : Op, status : Situacao]
\* maior is the newest content the record ever received, ver the current one.
Registro == [ref : Linhas, ver : Nat, maior : Nat, ativo : BOOLEAN, existe : BOOLEAN]

SemLinha == [estado |-> "ausente", ver |-> 0, auvoId |-> 0]

Init ==
    /\ origem = [r \in Linhas |-> SemLinha]
    /\ outbox = <<>>
    /\ auvo   = <<>>
    /\ pc     = [d \in Drenos |-> "ocioso"]
    /\ lote   = [d \in Drenos |-> {}]
    /\ atual  = [d \in Drenos |-> 0]
    /\ lida   = [d \in Drenos |-> SemLinha]
    /\ idAuvo = [d \in Drenos |-> 0]
    /\ ok     = [d \in Drenos |-> FALSE]

-----------------------------------------------------------------------------
(* The trigger and the writes that fire it.                                *)

\* The op the trigger derives from the row before and after the statement.
OpDaEscrita(antes, depois) ==
    CASE depois.estado = "apagada"                                -> "delete"
      [] antes.estado = "ausente"                                 -> "create"
      [] antes.estado = "viva" /\ depois.estado = "excluida"      -> "delete"
      [] OTHER                                                    -> "update"

\* Mutant: TG_OP stored as it comes.
EnfileirarTgOp(r, depois, guc) ==
    IF guc THEN outbox' = outbox
    ELSE outbox' = Append(outbox, [linha |-> r, op |-> "insert", status |-> "pending"])

\* Mutant: the anti-loop test forgotten.
EnfileirarSemGuc(r, depois, guc) ==
    outbox' = Append(outbox, [linha  |-> r,
                              op     |-> OpDaEscrita(origem[r], depois),
                              status |-> "pending"])

\* guc is app.auvo_sync_write, set for the transaction by the sync RPCs.
Enfileirar(r, depois, guc) ==
    IF guc THEN outbox' = outbox
    ELSE outbox' = Append(outbox, [linha  |-> r,
                                   op     |-> OpDaEscrita(origem[r], depois),
                                   status |-> "pending"])

\* A statement of a user on one row, with its trigger, in one transaction.
Escrever(r, depois) ==
    /\ Len(outbox) < MaxEscritas
    /\ origem' = [origem EXCEPT ![r] = depois]
    /\ Enfileirar(r, depois, FALSE)
    /\ UNCHANGED <<auvo, drenoVars>>

Inserir(r) ==
    /\ origem[r].estado = "ausente"
    /\ Escrever(r, [estado |-> "viva", ver |-> Len(outbox) + 1, auvoId |-> 0])

\* The adapters filter by id only, so a row another user has just excluded
\* may still be edited; the edit keeps deleted_at and ativo.
Editar(r) ==
    /\ origem[r].estado \in {"viva", "excluida"}
    /\ Escrever(r, [origem[r] EXCEPT !.ver = Len(outbox) + 1])

\* Soft delete: deleted_at and ativo = false.  Excluding again what another
\* user has excluded only renews deleted_at: the trigger sees an update, and
\* it is an Editar.
Excluir(r) ==
    /\ origem[r].estado = "viva"
    /\ Escrever(r, [origem[r] EXCEPT !.estado = "excluida"])

\* Physical delete, which the trigger maps to the same op.
Apagar(r) ==
    /\ origem[r].estado \in {"viva", "excluida"}
    /\ Escrever(r, [origem[r] EXCEPT !.estado = "apagada"])

-----------------------------------------------------------------------------
(* fn_claim_auvo_outbox_batch.                                             *)

Pendentes == {i \in DOMAIN outbox : outbox[i].status = "pending"}

\* Mutants of the claim: everything not yet closed; newest first; full
\* batches only.
LoteNaoFinal == {i \in DOMAIN outbox : outbox[i].status \in {"pending", "processing"}}
LoteMaisNovo ==
    {i \in Pendentes : Cardinality({j \in Pendentes : j > i}) < TamLote}
LoteCheio ==
    {i \in Pendentes : /\ Cardinality({j \in Pendentes : j < i}) < TamLote
                       /\ Cardinality(Pendentes) >= TamLote}

\* order by enqueued_at limit p_limit; rows of another claim are not pending.
LotePendente ==
    {i \in Pendentes : Cardinality({j \in Pendentes : j < i}) < TamLote}

Reivindicar(d) ==
    /\ pc[d] = "ocioso"
    /\ lote' = [lote EXCEPT ![d] = LotePendente]
    /\ outbox' = [i \in DOMAIN outbox |->
                    IF i \in LotePendente
                      THEN [outbox[i] EXCEPT !.status = "processing"]
                      ELSE outbox[i]]
    /\ pc' = [pc EXCEPT ![d] = IF LotePendente = {} THEN "ocioso" ELSE "laco"]
    /\ UNCHANGED <<origem, auvo, atual, lida, idAuvo, ok>>

-----------------------------------------------------------------------------
(* processOutboxRow, up to the call to the Auvo.  "returning *" has no     *)
(* order, so the loop may meet the rows of its batch in any order.         *)

\* The descriptor lets the drain write and fetchOrigem finds the row, which
\* it does for an excluded one too: the query has no deleted_at filter.
Enviavel(r) == Descritor[r].writeEnabled /\ origem[r].estado \in {"viva", "excluida"}

\* A delete the Auvo never knew of, or has no endpoint for, stays local.
SoLocal(r, op) ==
    op = "delete" /\ (origem[r].auvoId = 0 \/ Descritor[r].deleteStrategy = "unsupported")

\* An update with no endpoint in the Auvo is a successful no-op.
SemEdicao(r, op) == op = "update" /\ ~Descritor[r].supportsUpdate

Passar(d, destino, resultado) ==
    /\ pc' = [pc EXCEPT ![d] = destino]
    /\ ok' = [ok EXCEPT ![d] = resultado]

ProcessarLinha(d) ==
    /\ pc[d] = "laco"
    /\ \E i \in lote[d] :
         LET r  == outbox[i].linha
             op == outbox[i].op
         IN  /\ lote'   = [lote EXCEPT ![d] = @ \ {i}]
             /\ atual'  = [atual EXCEPT ![d] = i]
             /\ lida'   = [lida EXCEPT ![d] = origem[r]]
             /\ idAuvo' = [idAuvo EXCEPT ![d] = origem[r].auvoId]
             /\ \/ ~Enviavel(r) /\ Passar(d, "gravar", FALSE)
                \/ /\ Descritor[r].writeEnabled /\ "leitura" \in Falhas
                   /\ Passar(d, "gravar", FALSE)
                \/ Enviavel(r) /\ SoLocal(r, op) /\ Passar(d, "aplicar", FALSE)
                \/ Enviavel(r) /\ SemEdicao(r, op) /\ Passar(d, "gravar", TRUE)
                \/ /\ Enviavel(r) /\ ~SoLocal(r, op) /\ ~SemEdicao(r, op)
                   /\ Passar(d, "chamar", FALSE)
    /\ UNCHANGED <<origem, outbox, auvo>>

-----------------------------------------------------------------------------
(* The call to the Auvo: one HTTP request, chosen by op and by auvo_id as  *)
(* the drain read it.                                                      *)

Entidade(d) == Descritor[outbox[atual[d]].linha]

Maior(a, b) == IF a > b THEN a ELSE b

\* Mutant: active sent as a constant.
ComConteudoAtivo(reg, d) ==
    [reg EXCEPT !.ver = lida[d].ver, !.maior = Maior(@, lida[d].ver), !.ativo = TRUE]

\* toAuvo(origem) carries the content, and active = ativo where the resource
\* has that field; the hard-delete ones have none.
ComConteudo(reg, d) ==
    [reg EXCEPT !.ver   = lida[d].ver,
                !.maior = Maior(@, lida[d].ver),
                !.ativo = IF Entidade(d).deleteStrategy = "soft-patch"
                            THEN lida[d].estado = "viva" ELSE @]

Novo(d) == [ref |-> outbox[atual[d]].linha, ver |-> 0, maior |-> 0,
            ativo |-> TRUE, existe |-> TRUE]

\* Mutant: the entity's externalId instead of the row's.
ExternalIdDaEntidade(d) == {k \in DOMAIN auvo : Entidade(d).externalIdUnico /\ auvo[k].existe}

\* Records a POST with this externalId would meet again.
MesmoExternalId(d) ==
    {k \in DOMAIN auvo : /\ Entidade(d).externalIdUnico
                         /\ auvo[k].existe
                         /\ auvo[k].ref = outbox[atual[d]].linha}

Post(d) ==
    \/ \E k \in MesmoExternalId(d) :
         /\ auvo'   = [auvo EXCEPT ![k] = ComConteudo(@, d)]
         /\ idAuvo' = [idAuvo EXCEPT ![d] = k]
    \/ /\ MesmoExternalId(d) = {}
       /\ auvo'   = Append(auvo, ComConteudo(Novo(d), d))
       /\ idAuvo' = [idAuvo EXCEPT ![d] = Len(auvo) + 1]

Patch(d) ==
    /\ auvo[idAuvo[d]].existe
    /\ auvo' = [auvo EXCEPT ![idAuvo[d]] = ComConteudo(@, d)]
    /\ UNCHANGED idAuvo

Desativar(d) ==
    /\ auvo[idAuvo[d]].existe
    /\ auvo' = [auvo EXCEPT ![idAuvo[d]] =
                  IF Entidade(d).deleteStrategy = "hard-delete"
                    THEN [@ EXCEPT !.existe = FALSE]
                    ELSE [@ EXCEPT !.ativo = FALSE]]
    /\ UNCHANGED idAuvo

\* AC-4: PATCH whenever the drain read an auvo_id, whatever op says.
Requisicao(d) ==
    \/ outbox[atual[d]].op = "delete" /\ Desativar(d)
    \/ outbox[atual[d]].op # "delete" /\ lida[d].auvoId # 0 /\ Patch(d)
    \/ outbox[atual[d]].op # "delete" /\ lida[d].auvoId = 0 /\ Post(d)

ChamarAuvo(d) ==
    /\ pc[d] = "chamar"
    /\ Requisicao(d)
    /\ \/ Passar(d, "aplicar", FALSE)
       \/ "resposta" \in Falhas /\ Passar(d, "gravar", FALSE)
    /\ UNCHANGED <<origem, outbox, lote, atual, lida>>

\* 4xx, 5xx or no network; also what a PATCH or DELETE of a removed record gets.
AuvoRecusa(d) ==
    /\ pc[d] = "chamar"
    /\ \/ "auvo" \in Falhas
       \/ idAuvo[d] # 0 /\ ~auvo[idAuvo[d]].existe
    /\ Passar(d, "gravar", FALSE)
    /\ UNCHANGED <<origem, outbox, auvo, lote, atual, lida, idAuvo>>

-----------------------------------------------------------------------------
(* fn_apply_auvo_sync and the result of the row.                           *)

\* Mutant: the auvo_id of the answer is not stored.
AplicarSyncSemId(d) ==
    /\ pc[d] = "aplicar"
    /\ Passar(d, "gravar", TRUE)
    /\ UNCHANGED <<origem, outbox, auvo, lote, atual, lida, idAuvo>>

\* The UPDATE finds no row to change once the origin row is gone.
AplicarSync(d) ==
    /\ pc[d] = "aplicar"
    /\ LET r      == outbox[atual[d]].linha
           depois == IF outbox[atual[d]].op = "delete" \/ origem[r].estado = "apagada"
                       THEN origem[r]
                       ELSE [origem[r] EXCEPT !.auvoId = idAuvo[d]]
       IN  \/ /\ origem' = [origem EXCEPT ![r] = depois]
              /\ Enfileirar(r, depois, TRUE)
              /\ Passar(d, "gravar", TRUE)
           \/ /\ "aplicar" \in Falhas
              /\ UNCHANGED <<origem, outbox>>
              /\ Passar(d, "gravar", FALSE)
    /\ UNCHANGED <<auvo, lote, atual, lida, idAuvo>>

\* The locals of the iteration go out of scope.
Largar(d) ==
    /\ atual'  = [atual EXCEPT ![d] = 0]
    /\ lida'   = [lida EXCEPT ![d] = SemLinha]
    /\ idAuvo' = [idAuvo EXCEPT ![d] = 0]
    /\ ok'     = [ok EXCEPT ![d] = FALSE]

\* Mutant: a caught exception counts as done.
GravarSempreEnviado(d) ==
    /\ pc[d] = "gravar"
    /\ outbox' = [outbox EXCEPT ![atual[d]].status = "sent"]
    /\ pc' = [pc EXCEPT ![d] = IF lote[d] = {} THEN "ocioso" ELSE "laco"]
    /\ Largar(d)
    /\ UNCHANGED <<origem, auvo, lote>>

GravarResultado(d) ==
    /\ pc[d] = "gravar"
    /\ \/ outbox' = [outbox EXCEPT ![atual[d]].status = IF ok[d] THEN "sent" ELSE "error"]
       \/ "gravar" \in Falhas /\ UNCHANGED outbox
    /\ pc' = [pc EXCEPT ![d] = IF lote[d] = {} THEN "ocioso" ELSE "laco"]
    /\ Largar(d)
    /\ UNCHANGED <<origem, auvo, lote>>

\* The isolate dies; what it had reserved stays "processing".
Queda(d) ==
    /\ "queda" \in Falhas
    /\ pc[d] # "ocioso"
    /\ pc'   = [pc EXCEPT ![d] = "ocioso"]
    /\ lote' = [lote EXCEPT ![d] = {}]
    /\ Largar(d)
    /\ UNCHANGED <<origem, outbox, auvo>>

-----------------------------------------------------------------------------

Usuario == \E r \in Linhas : Inserir(r) \/ Editar(r) \/ Excluir(r) \/ Apagar(r)

Dreno(d) == \/ Reivindicar(d) \/ ProcessarLinha(d)
            \/ ChamarAuvo(d) \/ AuvoRecusa(d)
            \/ AplicarSync(d) \/ GravarResultado(d)

Next == Usuario \/ \E d \in Drenos : Dreno(d) \/ Queda(d)

Spec == Init /\ [][Next]_vars

\* The cron fires every minute and a drain that started runs on unless it
\* dies; users owe nothing.
FairSpec == Spec /\ \A d \in Drenos : WF_vars(Dreno(d))

-----------------------------------------------------------------------------
(* Properties.                                                             *)

\* Every variable keeps its type (table 0024:26-41; OutboxRow, index.ts:42-48).
TypeOK ==
    /\ origem \in [Linhas -> Origem]
    /\ outbox \in Seq(Entrada)
    /\ auvo   \in Seq(Registro)
    /\ pc     \in [Drenos -> {"ocioso", "laco", "chamar", "aplicar", "gravar"}]
    /\ lote   \in [Drenos -> SUBSET Nat]
    /\ atual  \in [Drenos -> Nat]
    /\ lida   \in [Drenos -> Origem]
    /\ idAuvo \in [Drenos -> Nat]
    /\ ok     \in [Drenos -> BOOLEAN]

EmPosse(d) == lote[d] \cup ({atual[d]} \ {0})

\* Two invocations of the drain never hold the same outbox row, whatever they
\* crash on, and a row in the hands of a drain is never offered to another
\* (fn_claim_auvo_outbox_batch; spec E01-S22, concurrent invocations).
ReservaExclusiva ==
    \A d \in Drenos : \A i \in EmPosse(d) :
        /\ i \in DOMAIN outbox /\ outbox[i].status = "processing"
        /\ \A e \in Drenos \ {d} : i \notin EmPosse(e)

\* "sent" is never a lie: a create, or an update the resource can take, marked
\* sent has had its content, or newer content of the same row, accepted by an
\* Auvo record of that row.
EnvioEntregue ==
    \A i \in DOMAIN outbox :
        /\ outbox[i].status = "sent"
        /\ outbox[i].op # "delete"
        /\ ~SemEdicao(outbox[i].linha, outbox[i].op)
        => \E k \in DOMAIN auvo : auvo[k].ref = outbox[i].linha /\ auvo[k].maior >= i

\* auvo_id always names an Auvo record that was created for that very row,
\* however many drains create and store ids at once.
VinculoCorreto ==
    \A r \in Linhas : origem[r].auvoId # 0 =>
        origem[r].auvoId \in DOMAIN auvo /\ auvo[origem[r].auvoId].ref = r

\* Anti-loop: only a user write adds to the outbox; storing what the Auvo
\* answered never schedules another call (GUC app.auvo_sync_write, AC-2).
SemEco ==
    [][Len(outbox') # Len(outbox) =>
         \E r \in Linhas : \/ origem[r].ver # origem'[r].ver
                           \/ origem[r].estado # origem'[r].estado]_vars

\* Seen through its status column the outbox is a queue that hands out each
\* entry at most once, oldest first.
Fila == INSTANCE FilaEntrega WITH fila <- [i \in DOMAIN outbox |-> outbox[i].status]
FilaSpec == Fila!Spec

Da(r) == {i \in DOMAIN outbox : outbox[i].linha = r}

Inacabada(i, d) ==
    \/ outbox[i].status = "error"
    \/ outbox[i].status = "processing" /\ i \notin EmPosse(d)

\* However many drains run, a row gets another Auvo record only from a drain
\* that read it before its auvo_id was stored, or after an earlier try of it
\* that has not ended well, or of a row physically deleted meanwhile: once
\* everything of a row was sent, nothing creates it again (AC-4,
\* index.ts:150-160).  The race is there, whatever spec E01-S36:53 says.
SemDuplicataSilenciosa ==
    [][\A k \in DOMAIN auvo' \ DOMAIN auvo :
         (\E j \in DOMAIN auvo : auvo[j].ref = auvo'[k].ref) =>
           \E d \in Drenos :
              /\ pc[d] = "chamar" /\ lida[d].auvoId = 0
              /\ outbox[atual[d]].linha = auvo'[k].ref
              /\ \/ origem[auvo'[k].ref].auvoId # 0
                 \/ origem[auvo'[k].ref].estado = "apagada"
                 \/ \E i \in Da(auvo'[k].ref) : Inacabada(i, d)]_vars

\* At most one drain at a time is processing an entry of the row; others may
\* be processing other rows, or hold entries of this one for later.
Mexe(d, r)  == atual[d] # 0 /\ outbox[atual[d]].linha = r
Sozinha(r)  == \A d, e \in Drenos : Mexe(d, r) /\ Mexe(e, r) => d = e

\* Once everything of the row was sent, the Auvo holds its current content,
\* active exactly if the row is not excluded.
ConvergeLinha(r) ==
    /\ origem[r].estado \in {"viva", "excluida"}
    /\ Descritor[r].deleteStrategy = "soft-patch"
    /\ Descritor[r].supportsUpdate
    /\ \A i \in Da(r) : outbox[i].status = "sent"
    => /\ origem[r].auvoId \in DOMAIN auvo
       /\ auvo[origem[r].auvoId].ver = origem[r].ver
       /\ auvo[origem[r].auvoId].ativo = (origem[r].estado = "viva")

\* A row that two drains never process at the same time converges, whatever
\* runs beside it, in whatever order its entries are processed and whatever
\* fails on the way.  Two drains that do dispute a row may leave the older
\* content last.
ConvergeSozinha == \A r \in Linhas : []Sozinha(r) => []ConvergeLinha(r)

\* No drain holds the row and its status says one does.
Orfa(i) == outbox[i].status = "processing" /\ \A d \in Drenos : i \notin EmPosse(d)

\* Every outbox row is eventually closed, or abandoned by the drain that
\* reserved it; it never waits in pending for ever.
TodaEscritaTermina ==
    \A i \in 1..MaxEscritas :
        (i \in DOMAIN outbox) ~>
            (i \in DOMAIN outbox /\ (outbox[i].status \in Final \/ Orfa(i)))
=============================================================================
