---------------------------- MODULE Atendimento ----------------------------
(***************************************************************************)
(* One WhatsApp conversation served by the agent Zé: the webhook records a *)
(* message and debounces it into a queue, runs of the agent claim rows of  *)
(* the queue, propose calls to the requester and, on a confirmation, open  *)
(* one call and OS for each item proposed; people of the office pause the  *)
(* agent, hand the conversation back or force an answer.                   *)
(*                                                                         *)
(* Sources: src/supabase/functions/pcm-whatsapp-webhook/index.ts,          *)
(* pcm-ze-agent/index.ts, atendimento-whatsapp-envio/index.ts and          *)
(* fn_debounce_wa_queue, fn_definir_handoff of migration 0149.  Every      *)
(* await of the agent that reads or writes shared state is a step; the     *)
(* waiting time of a row has passed or not, whichever the run finds.       *)
(*                                                                         *)
(* A message is what interpretarConfirmacao tells apart: "sim", "nao", or  *)
(* "pedido" for any other text.  The language model is free to ask, to     *)
(* propose or to fail.                                                     *)
(* The conversation exists, has a customer and is routed to the calls      *)
(* agent: the commercial qualification flow is not modelled.               *)
(***************************************************************************)
EXTENDS Naturals, Sequences, FiniteSets

CONSTANTS
    Execucoes,      \* invocations of pcm-ze-agent under way at once
    Itens,          \* calls in one proposal
    Janela,         \* messages a run reads: the limit of buscarMensagens
    MaxMensagens,   \* bound: messages received
    MaxPropostas,   \* bound: proposals made
    MaxQuedas       \* bound: functions that die half-way

ASSUME LimitesAssumption ==
    /\ Itens \in Nat \ {0}
    /\ Janela \in Nat \ {0}
    /\ MaxMensagens \in Nat
    /\ MaxPropostas \in Nat
    /\ MaxQuedas \in Nat

VARIABLES
    mensagens,      \* atendimento.wa_messages, by arrival
    aEnfileirar,    \* messages whose webhook has not enqueued them yet
    fila,           \* status of the rows of atendimento.wa_queue, by creation
    modo,           \* atendimento.conversas.modo
    pendentes,      \* conversas.chamados_pendentes: number of the proposal
    propostas,      \* proposals made so far
    os,             \* times the OS of an item of a proposal was opened
    execucao,       \* state of each invocation
    lidas,          \* messages some run has read
    quedas          \* functions that died

vEntrada == <<mensagens, aEnfileirar>>
vConversa == <<modo, pendentes, propostas>>
vars == <<vEntrada, fila, vConversa, os, execucao, lidas, quedas>>

Tipos == {"pedido", "sim", "nao"}
StatusFila == {"pending", "processing", "done", "skipped", "error"}
Finais == {"done", "skipped", "error"}
Fases == {"vista", "reservada", "leu", "avaliar", "propor", "criar",
          "recusar", "finalizar", "limpar"}
Ociosa == [fase |-> "ociosa"]

\* item is the row of the queue, ultima the last message read, proposta what
\* it confirms (0 for nothing) and feitos the OSs it opened of it, fim the
\* status it will leave in the row.
Andamento == [fase : Fases, item : 1 .. MaxMensagens, forcada : BOOLEAN,
              ultima : 0 .. MaxMensagens, proposta : 0 .. MaxPropostas,
              feitos : 0 .. Itens, fim : {"done", "skipped"}]

Na(e, fase) == execucao[e].fase = fase
Segue(e, novo) == execucao' = [execucao EXCEPT ![e] = novo]
Para(e, fase) == Segue(e, [execucao[e] EXCEPT !.fase = fase])
Termina(e, fase, fim) ==
    Segue(e, [execucao[e] EXCEPT !.fase = fase, !.fim = fim])

Init ==
    /\ mensagens = <<>>
    /\ aEnfileirar = {}
    /\ fila = <<>>
    /\ modo = "auto"
    /\ pendentes = 0
    /\ propostas = 0
    /\ os = [p \in 1 .. MaxPropostas |-> [i \in 1 .. Itens |-> 0]]
    /\ execucao = [e \in Execucoes |-> Ociosa]
    /\ lidas = {}
    /\ quedas = 0

-----------------------------------------------------------------------------
(* The webhook.                                                            *)

\* The message is inserted; a repeated message_id is answered and ignored.
Receber(tipo) ==
    /\ Len(mensagens) < MaxMensagens
    /\ mensagens' = Append(mensagens, tipo)
    /\ aEnfileirar' = aEnfileirar \cup {Len(mensagens) + 1}
    /\ UNCHANGED <<fila, vConversa, os, execucao, lidas, quedas>>

\* Mutant: a row being processed also takes the message in.
DebounceProcessando ==
    \E i \in DOMAIN fila : fila[i] \in {"pending", "processing"}

\* fn_debounce_wa_queue, under an advisory lock: a pending row only has its
\* waiting time moved, otherwise a row is inserted.
HaPendente == \E i \in DOMAIN fila : fila[i] = "pending"

Enfileirar(m) ==
    /\ m \in aEnfileirar
    /\ aEnfileirar' = aEnfileirar \ {m}
    /\ fila' = IF HaPendente THEN fila ELSE Append(fila, "pending")
    /\ UNCHANGED <<mensagens, vConversa, os, execucao, lidas, quedas>>

\* The webhook dies between the two: the repeated delivery is a duplicate.
PerderWebhook(m) ==
    /\ m \in aEnfileirar
    /\ quedas < MaxQuedas
    /\ quedas' = quedas + 1
    /\ aEnfileirar' = aEnfileirar \ {m}
    /\ UNCHANGED <<mensagens, fila, vConversa, os, execucao, lidas>>

-----------------------------------------------------------------------------
(* The office: atendimento-whatsapp-envio.                                 *)

\* "assumir", and the handoff that a message sent by a person implies.
Assumir ==
    /\ modo = "auto"
    /\ modo' = "pausado"
    /\ UNCHANGED <<vEntrada, fila, pendentes, propostas, os, execucao,
                   lidas, quedas>>

Devolver ==
    /\ modo = "pausado"
    /\ modo' = "auto"
    /\ UNCHANGED <<vEntrada, fila, pendentes, propostas, os, execucao,
                   lidas, quedas>>

-----------------------------------------------------------------------------
(* A run of the agent: claim.                                              *)

Nova(fase, item, forcada) ==
    [fase |-> fase, item |-> item, forcada |-> forcada, ultima |-> 0,
     proposta |-> 0, feitos |-> 0, fim |-> "done"]

\* The scheduled call and the minutely cron: the update that claims the row
\* repeats the condition of the query that listed it, so the two are one step.
Reservar(e, i) ==
    /\ Na(e, "ociosa")
    /\ i \in DOMAIN fila /\ fila[i] = "pending"
    /\ fila' = [fila EXCEPT ![i] = "processing"]
    /\ Segue(e, Nova("reservada", i, FALSE))
    /\ UNCHANGED <<vEntrada, vConversa, os, lidas, quedas>>

\* "Responder com IA agora": the latest row, whatever its status.
AcionarIa(e) ==
    /\ Na(e, "ociosa")
    /\ fila # <<>>
    /\ {f \in Execucoes : ~Na(f, "ociosa") /\ execucao[f].forcada} = {}  \* bound
    /\ Segue(e, Nova("vista", Len(fila), TRUE))
    /\ UNCHANGED <<vEntrada, fila, vConversa, os, lidas, quedas>>

\* The claim of a forced run is by id alone.
ReservarForcada(e) ==
    /\ Na(e, "vista")
    /\ fila' = [fila EXCEPT ![execucao[e].item] = "processing"]
    /\ Para(e, "reservada")
    /\ UNCHANGED <<vEntrada, vConversa, os, lidas, quedas>>

-----------------------------------------------------------------------------
(* A run of the agent: reading and deciding.                               *)

\* buscarMensagens: the last messages of the conversation, twenty at most.
Recentes ==
    {m \in 1 .. Len(mensagens) : m + Janela > Len(mensagens)}

LerMensagens(e) ==
    /\ Na(e, "reservada")
    /\ Segue(e, [execucao[e] EXCEPT !.fase = "leu",
                                    !.ultima = Len(mensagens)])
    /\ lidas' = lidas \cup Recentes
    /\ UNCHANGED <<vEntrada, fila, vConversa, os, quedas>>

\* A pending proposal is answered before any other gate is looked at, and the
\* message that was read counts no more.
Decide(e, fase, proposta) ==
    Segue(e, [execucao[e] EXCEPT !.fase = fase, !.ultima = 0,
                                 !.proposta = proposta])

LerPendentes(e) ==
    /\ Na(e, "leu")
    /\ LET tipo == mensagens[execucao[e].ultima] IN
       CASE pendentes = 0 -> Decide(e, "avaliar", 0)
         [] pendentes # 0 /\ tipo = "sim" -> Decide(e, "criar", pendentes)
         [] pendentes # 0 /\ tipo = "nao" -> Decide(e, "recusar", 0)
         [] pendentes # 0 /\ tipo = "pedido" -> Decide(e, "finalizar", 0)
    /\ UNCHANGED <<vEntrada, fila, vConversa, os, lidas, quedas>>

\* Paused conversation, agent not called, out of hours, quota spent.
Pular(e) ==
    /\ Na(e, "avaliar")
    /\ Termina(e, "finalizar", "skipped")
    /\ UNCHANGED <<vEntrada, fila, vConversa, os, lidas, quedas>>

Ativa(e) == execucao[e].forcada \/ modo = "auto"

\* deveTransferirParaHumano: the automatic handoff pauses the conversation.
Transferir(e) ==
    /\ Na(e, "avaliar") /\ ~execucao[e].forcada /\ modo = "auto"
    /\ modo' = "pausado"
    /\ Termina(e, "finalizar", "skipped")
    /\ UNCHANGED <<vEntrada, fila, pendentes, propostas, os, lidas, quedas>>

\* The model asks for what is missing.
Perguntar(e) ==
    /\ Na(e, "avaliar") /\ Ativa(e)
    /\ Para(e, "finalizar")
    /\ UNCHANGED <<vEntrada, fila, vConversa, os, lidas, quedas>>

\* The model has extracted the calls.
Extrair(e) ==
    /\ Na(e, "avaliar") /\ Ativa(e)
    /\ propostas < MaxPropostas
    /\ \A f \in Execucoes : ~Na(f, "propor")    \* bound
    /\ Para(e, "propor")
    /\ UNCHANGED <<vEntrada, fila, vConversa, os, lidas, quedas>>

SalvarPendentes(e) ==
    /\ Na(e, "propor")
    /\ propostas' = propostas + 1
    /\ pendentes' = propostas + 1
    /\ Para(e, "finalizar")
    /\ UNCHANGED <<vEntrada, fila, modo, os, lidas, quedas>>

-----------------------------------------------------------------------------
(* A run of the agent: effects and end.                                    *)

\* criarChamadosConfirmados: one call and OS for each item; counted to two.
CriarOs(e) ==
    /\ Na(e, "criar") /\ execucao[e].feitos < Itens
    /\ LET i == execucao[e].feitos + 1 IN
       /\ os' = [os EXCEPT ![execucao[e].proposta][i] =
                    IF @ = 0 THEN 1 ELSE 2]
       /\ Segue(e, [execucao[e] EXCEPT
                !.feitos = i, !.fase = IF i = Itens THEN "finalizar" ELSE @])
    /\ UNCHANGED <<vEntrada, fila, vConversa, lidas, quedas>>

\* A refusal clears the proposal before it is answered.
LimparRecusados(e) ==
    /\ Na(e, "recusar")
    /\ pendentes' = 0
    /\ Para(e, "finalizar")
    /\ UNCHANGED <<vEntrada, fila, modo, propostas, os, lidas, quedas>>

\* finalizarFila; after a confirmation the proposal is still to be cleared.
Finalizar(e) ==
    /\ Na(e, "finalizar")
    /\ fila' = [fila EXCEPT ![execucao[e].item] = execucao[e].fim]
    /\ IF execucao[e].proposta # 0 THEN Para(e, "limpar") ELSE Segue(e, Ociosa)
    /\ UNCHANGED <<vEntrada, vConversa, os, lidas, quedas>>

LimparConfirmados(e) ==
    /\ Na(e, "limpar")
    /\ pendentes' = 0
    /\ Segue(e, Ociosa)
    /\ UNCHANGED <<vEntrada, fila, modo, propostas, os, lidas, quedas>>

\* Mutant: the failure is answered but not written in the row.
NaoGravarErro(e) == UNCHANGED fila

\* Mutant: the row takes a status the table does not have.
GravarErroTraduzido(e) == fila' = [fila EXCEPT ![execucao[e].item] = "erro"]

GravarErro(e) == fila' = [fila EXCEPT ![execucao[e].item] = "error"]

\* Any await of a claimed run throws: the catch marks the row.
Falhar(e) ==
    /\ execucao[e].fase \notin {"ociosa", "vista"}
    /\ GravarErro(e)
    /\ Segue(e, Ociosa)
    /\ UNCHANGED <<vEntrada, vConversa, os, lidas, quedas>>

\* The function is killed, or the write of its catch fails unread: nothing
\* marks the row.
Cair(e) ==
    /\ execucao[e].fase \notin {"ociosa", "vista"}
    /\ quedas < MaxQuedas
    /\ quedas' = quedas + 1
    /\ Segue(e, Ociosa)
    /\ UNCHANGED <<vEntrada, fila, vConversa, os, lidas>>

-----------------------------------------------------------------------------
Passo(e) ==
    \/ ReservarForcada(e) \/ LerMensagens(e) \/ LerPendentes(e)
    \/ Pular(e) \/ Transferir(e) \/ Perguntar(e) \/ Extrair(e)
    \/ SalvarPendentes(e) \/ CriarOs(e) \/ LimparRecusados(e)
    \/ Finalizar(e) \/ LimparConfirmados(e) \/ Falhar(e)

Next ==
    \/ \E t \in Tipos : Receber(t)
    \/ \E m \in aEnfileirar : Enfileirar(m)
    \/ \E m \in aEnfileirar : PerderWebhook(m)
    \/ Assumir \/ Devolver
    \/ \E e \in Execucoes, i \in DOMAIN fila : Reservar(e, i)
    \/ \E e \in Execucoes : AcionarIa(e)
    \/ \E e \in Execucoes : Passo(e)
    \/ \E e \in Execucoes : Cair(e)

Spec == Init /\ [][Next]_vars

\* The cron lists pending rows every minute, whichever invocation serves it,
\* and a run that started goes on to its end or fails.
Agendado == \E e \in Execucoes, i \in DOMAIN fila : Reservar(e, i)

SpecJusta ==
    /\ Spec
    /\ \A e \in Execucoes : WF_vars(Passo(e))
    /\ SF_vars(Agendado)

-----------------------------------------------------------------------------
(* Properties.                                                             *)

\* Every table and every run has the shape the code gives it.
TypeOK ==
    /\ mensagens \in Seq(Tipos) /\ Len(mensagens) <= MaxMensagens
    /\ aEnfileirar \subseteq 1 .. Len(mensagens)
    /\ fila \in Seq(StatusFila) /\ Len(fila) <= MaxMensagens
    /\ modo \in {"auto", "pausado"}
    /\ propostas \in 0 .. MaxPropostas
    /\ pendentes \in 0 .. propostas
    /\ os \in [1 .. MaxPropostas -> [1 .. Itens -> 0 .. 2]]
    /\ execucao \in [Execucoes -> Andamento \cup {Ociosa}]
    /\ \A e \in Execucoes : ~Na(e, "ociosa") => execucao[e].item \in DOMAIN fila
    /\ lidas \subseteq 1 .. Len(mensagens)
    /\ quedas \in 0 .. MaxQuedas

\* A run has read a message that pushed m out of what it and the later ones
\* read: m was not among the last Janela of the conversation then.
Ultrapassada(m) == \E n \in lidas : n >= m + Janela

\* No enqueued message is swallowed by the debounce: until some run has read
\* it, a row waits or a run has claimed one and is about to read.  Only a
\* function that died, a run whose row ended in error, or Janela newer messages
\* when the conversation was read may leave it behind unread.
NenhumaEsquecida ==
    \A m \in 1 .. Len(mensagens) :
        \/ m \in aEnfileirar
        \/ m \in lidas
        \/ Ultrapassada(m)
        \/ HaPendente
        \/ \E e \in Execucoes : Na(e, "reservada")
        \/ \E i \in DOMAIN fila : fila[i] = "error"
        \/ quedas > 0

\* Every row of the queue ends, whatever fails on the way, as long as no
\* function is killed.
FilaTermina ==
    \A i \in 1 .. MaxMensagens :
        []<>(quedas > 0 \/ (i \in DOMAIN fila => fila[i] \in Finais))
=============================================================================
