--------------------------- MODULE PreventivaEnvio ---------------------------
(***************************************************************************)
(* Sending a preventive maintenance to the Auvo: pcm-preventivas-confirmar *)
(* reserves the occurrence, inserts its OS, creates the task without a     *)
(* search, verifies it and stores its id in the OS and in the occurrence;  *)
(* a failure leaves the occurrence repeatable (falha) or for someone to    *)
(* reconcile (incerto).  The OS is one like any other, so an operator may  *)
(* open it and the webhook may adopt its task meanwhile: those are the     *)
(* steps of AberturaAuvo.                                                  *)
(*                                                                         *)
(* Abstractions.  The OS of an occurrence is the occurrence itself (the    *)
(* index over ocorrencia_preventiva_id is unique).  The PATCH and the GET  *)
(* that follow the creation are one step.  The contract is validated.      *)
(***************************************************************************)
EXTENDS Naturals, Sequences

CONSTANTS
    Ocorrencias,  \* pcm.ocorrencias_preventivas, already materialised
    Visitas,      \* dates and technicians a user may choose
    SemVisita,    \* null
    Envios,       \* concurrent invocations of pcm-preventivas-confirmar
    SemOS, Aberturas, Entradas,
    MaxTasks,     \* bound: tasks in the Auvo
    Falhas

TiposRecusa == {"recusa"}     \* the Auvo answers 4xx to a confirmation

VARIABLES os, vencida, tasks, adotadas, abre, ent,  \* as in AberturaAuvo
          inseridas,   \* occurrences whose OS exists
          oc,          \* envio_estado, auvo_task_id and visita_em
          origem,      \* of each task: how it was created, and what became of it
          envia        \* each confirmation under way

Abertura == INSTANCE AberturaAuvo WITH OSs <- Ocorrencias, Falhas <- Falhas \ TiposRecusa

ASSUME RecusaAssumption == Falhas \ TiposRecusa \subseteq Abertura!TiposFalha

daAbertura == <<os, vencida, tasks, adotadas, abre, ent>>
doEnvio    == <<inseridas, oc, origem, envia>>
vars       == <<os, vencida, tasks, adotadas, abre, ent, inseridas, oc, origem, envia>>

\* lida: the visit the Auvo confirmed.  recusada: a call about it got a 4xx.
Origem     == [envio : BOOLEAN, lida : Visitas \cup {SemVisita}, recusada : BOOLEAN]
Ocorrencia == [estado : {"prevista", "enviando", "falha", "incerto", "disponivel"},
               task : Nat, visita : Visitas \cup {SemVisita}]
Ociosa     == [pc |-> "ociosa"]
Envio      == {Ociosa}
                \cup [pc : {"tomar", "preparar", "postar", "verificar", "gravar", "falhar",
                             "vincular"},
                      oc : Ocorrencias, visita : Visitas, task : Nat,
                      falta : SUBSET {"os", "ocorrencia"}, erro : BOOLEAN,
                      estado : {"falha", "incerto"}]

Init ==
    /\ Abertura!Init
    /\ inseridas = {} /\ origem = << >>
    /\ oc = [o \in Ocorrencias |-> [estado |-> "prevista", task |-> 0, visita |-> SemVisita]]
    /\ envia = [e \in Envios |-> Ociosa]

Ir(e, estado) == envia' = [envia EXCEPT ![e] = estado]
Vai(e, pc)    == Ir(e, [envia[e] EXCEPT !.pc = pc])
Sair(e)       == Ir(e, Ociosa)

\* Mutant: what follows the POST is not told from what precedes it.
ClassificarSoRecusa(iniciada, recusa) == "falha"

\* classificarFalhaEnvioPreventiva
Classificar(iniciada, recusa) == IF ~iniciada \/ recusa THEN "falha" ELSE "incerto"

\* A throw inside the try, with what is known of the task.
Lancar(e, k, iniciada, recusa) ==
    Ir(e, [envia[e] EXCEPT !.pc = "falhar", !.task = k,
                           !.estado = Classificar(iniciada, recusa)])

-----------------------------------------------------------------------------
(* The handler.                                                            *)

Repetivel(o) == oc[o].estado \in {"prevista", "falha"}

Confirmar(e, o, v) ==
    /\ envia[e] = Ociosa /\ Repetivel(o)
    /\ Ir(e, [pc |-> "tomar", oc |-> o, visita |-> v, task |-> 0,
              falta |-> {"os", "ocorrencia"}, erro |-> FALSE, estado |-> "incerto"])
    /\ UNCHANGED <<daAbertura, inseridas, oc, origem>>

\* UPDATE ... WHERE envio_estado IN ('prevista', 'falha').
Tomar(e) ==
    /\ envia[e].pc = "tomar" /\ Repetivel(envia[e].oc)
    /\ oc' = [oc EXCEPT ![envia[e].oc].estado = "enviando",
                        ![envia[e].oc].visita = envia[e].visita]
    /\ Vai(e, "preparar")
    /\ UNCHANGED <<daAbertura, inseridas, origem>>

\* 409: somebody else took it; 500: the statement failed.
TomadaNegada(e) ==
    /\ envia[e].pc = "tomar" /\ (~Repetivel(envia[e].oc) \/ "banco" \in Falhas)
    /\ Sair(e)
    /\ UNCHANGED <<daAbertura, inseridas, oc, origem>>

\* The OS is found or inserted; one that has a task is not sent again.
Preparar(e) ==
    /\ envia[e].pc = "preparar" /\ os[envia[e].oc].task = 0
    /\ inseridas' = inseridas \cup {envia[e].oc}
    /\ Vai(e, "postar")
    /\ UNCHANGED <<daAbertura, oc, origem>>

PreparoFalha(e) ==
    /\ envia[e].pc = "preparar"
    /\ os[envia[e].oc].task # 0 \/ Falhas \cap {"cadastro", "banco"} # {}
    /\ Lancar(e, 0, FALSE, FALSE)
    /\ UNCHANGED <<daAbertura, inseridas, oc, origem>>

\* POST /tasks with no search before it.
Criada(e) ==
    /\ Len(tasks) < MaxTasks
    /\ tasks' = Append(tasks, [ref |-> envia[e].oc, cega |-> FALSE])
    /\ origem' = Append(origem, [envio |-> TRUE, lida |-> SemVisita, recusada |-> FALSE])
    /\ UNCHANGED <<os, vencida, adotadas, abre, ent, inseridas, oc>>

Postar(e) ==
    /\ envia[e].pc = "postar"
    /\ Criada(e)
    /\ Ir(e, [envia[e] EXCEPT !.pc = "verificar", !.task = Len(tasks) + 1])

\* It may have been created: an answer lost, late or with no id.
PostagemFalha(e) ==
    /\ envia[e].pc = "postar"
    /\ \/ "resposta" \in Falhas /\ Criada(e) /\ Lancar(e, 0, TRUE, FALSE)
       \/ /\ \/ "auvo" \in Falhas /\ Lancar(e, 0, TRUE, FALSE)
             \/ "recusa" \in Falhas /\ Lancar(e, 0, TRUE, TRUE)
          /\ UNCHANGED <<daAbertura, inseridas, oc, origem>>

\* Mutant: what the Auvo kept is not read back.
VerificarSemLer(e) ==
    /\ envia[e].pc = "verificar"
    /\ Vai(e, "gravar")
    /\ UNCHANGED <<daAbertura, inseridas, oc, origem>>

\* PATCH, then GET: technician, date, target and questionnaire as asked.
Verificar(e) ==
    /\ envia[e].pc = "verificar"
    /\ origem' = [origem EXCEPT ![envia[e].task].lida = envia[e].visita]
    /\ Vai(e, "gravar")
    /\ UNCHANGED <<daAbertura, inseridas, oc>>

VerificacaoFalha(e) ==
    /\ envia[e].pc = "verificar"
    /\ \/ /\ "recusa" \in Falhas
          /\ origem' = [origem EXCEPT ![envia[e].task].recusada = TRUE]
          /\ Lancar(e, envia[e].task, TRUE, TRUE)
       \/ /\ Falhas \cap {"auvo", "resposta", "cadastro"} # {}
          /\ UNCHANGED origem
          /\ Lancar(e, envia[e].task, TRUE, FALSE)
    /\ UNCHANGED <<daAbertura, inseridas, oc>>

\* The two writes run at once; the first error is thrown when both ended.
PodeVincular(e) == envia[e].task \notin Abertura!Conhecidas \ {os[envia[e].oc].task}
Vincular(e, sync) ==
    /\ os' = [os EXCEPT ![envia[e].oc] = [sync |-> sync, task |-> envia[e].task]]
    /\ vencida' = vencida \ {envia[e].oc}

Gravou(e, qual, erro) ==
    Ir(e, [envia[e] EXCEPT !.falta = @ \ {qual}, !.erro = @ \/ erro])

GravarOS(e) ==
    /\ envia[e].pc = "gravar" /\ "os" \in envia[e].falta
    /\ \/ PodeVincular(e) /\ Vincular(e, "synced") /\ Gravou(e, "os", FALSE)
       \/ /\ ~PodeVincular(e) \/ "banco" \in Falhas
          /\ UNCHANGED <<os, vencida>> /\ Gravou(e, "os", TRUE)
    /\ UNCHANGED <<tasks, adotadas, abre, ent, inseridas, oc, origem>>

GravarOcorrencia(e) ==
    /\ envia[e].pc = "gravar" /\ "ocorrencia" \in envia[e].falta
    /\ \/ /\ oc' = [oc EXCEPT ![envia[e].oc].estado = "disponivel",
                              ![envia[e].oc].task = envia[e].task]
          /\ Gravou(e, "ocorrencia", FALSE)
       \/ "banco" \in Falhas /\ UNCHANGED oc /\ Gravou(e, "ocorrencia", TRUE)
    /\ UNCHANGED <<daAbertura, inseridas, origem>>

Responder(e) ==
    /\ envia[e].pc = "gravar" /\ envia[e].falta = {}
    /\ IF envia[e].erro THEN Lancar(e, envia[e].task, TRUE, FALSE) ELSE Sair(e)
    /\ UNCHANGED <<daAbertura, inseridas, oc, origem>>

\* The catch: first the occurrence, then the OS if the task is known; neither
\* write's error is looked at.
MarcarOcorrencia(e) ==
    /\ envia[e].pc = "falhar"
    /\ \/ oc' = [oc EXCEPT ![envia[e].oc].estado = envia[e].estado,
                           ![envia[e].oc].task = envia[e].task]
       \/ "banco" \in Falhas /\ UNCHANGED oc
    /\ IF envia[e].task = 0 THEN Sair(e) ELSE Vai(e, "vincular")
    /\ UNCHANGED <<daAbertura, inseridas, origem>>

\* Mutant: the status word of the outbox.
MarcarErroOS(e) ==
    /\ envia[e].pc = "vincular"
    /\ PodeVincular(e) /\ Vincular(e, "error")
    /\ Sair(e)
    /\ UNCHANGED <<tasks, adotadas, abre, ent, inseridas, oc, origem>>

MarcarOS(e) ==
    /\ envia[e].pc = "vincular"
    /\ \/ PodeVincular(e) /\ Vincular(e, "failed")
       \/ (~PodeVincular(e) \/ "banco" \in Falhas) /\ UNCHANGED <<os, vencida>>
    /\ Sair(e)
    /\ UNCHANGED <<tasks, adotadas, abre, ent, inseridas, oc, origem>>

Queda(e) ==
    /\ "queda" \in Falhas
    /\ envia[e] # Ociosa
    /\ Sair(e)
    /\ UNCHANGED <<daAbertura, inseridas, oc, origem>>

-----------------------------------------------------------------------------
(* The other ways into the same OS: an operator opens it, the webhook and  *)
(* the import adopt tasks, a technician creates some.                      *)

SemEnvio == [envio |-> FALSE, lida |-> SemVisita, recusada |-> FALSE]

\* Tasks the step created were created by somebody else.
PorFora ==
    /\ origem' = IF tasks' = tasks THEN origem ELSE Append(origem, SemEnvio)
    /\ UNCHANGED <<inseridas, oc, envia>>

Outros ==
    /\ \/ \E a \in Aberturas :
            \/ \E o \in inseridas : Abertura!Clicar(a, o)
            \/ /\ abre[a] # Ociosa
               /\ Abertura!Abrir(a) \/ Abertura!Queda(a)
       \/ \E o \in inseridas : Abertura!Editar(o) \/ Abertura!Vencer(o)
       \/ Abertura!TecnicoCria
       \/ \E i \in Entradas : Abertura!Conferir(i) \/ Abertura!Inserir(i)
    /\ PorFora

Next ==
    \/ \E e \in Envios :
         \/ \E o \in Ocorrencias, v \in Visitas : Confirmar(e, o, v)
         \/ Tomar(e) \/ TomadaNegada(e) \/ Preparar(e) \/ PreparoFalha(e)
         \/ Postar(e) \/ PostagemFalha(e) \/ Verificar(e) \/ VerificacaoFalha(e)
         \/ GravarOS(e) \/ GravarOcorrencia(e) \/ Responder(e)
         \/ MarcarOcorrencia(e) \/ MarcarOS(e) \/ Queda(e)
    \/ Outros

Spec == Init /\ [][Next]_vars

-----------------------------------------------------------------------------
(* Properties.                                                             *)

\* Every variable keeps its type (0224:65-84).
TypeOK ==
    /\ Abertura!TypeOK
    /\ inseridas \subseteq Ocorrencias
    /\ oc \in [Ocorrencias -> Ocorrencia]
    /\ origem \in Seq(Origem) /\ Len(origem) = Len(tasks)
    /\ envia \in [Envios -> Envio]

\* An occurrence offered as available has a task of its own OS in which the
\* Auvo confirmed the very visit the occurrence shows, not one another user
\* asked for (confirmar:267-307).
DisponivelConfirmada ==
    \A o \in Ocorrencias : oc[o].estado = "disponivel" =>
        /\ oc[o].task \in DOMAIN tasks /\ tasks[oc[o].task].ref = o
        /\ origem[oc[o].task].lida = oc[o].visita

Repetida(j, k) ==
    j < k /\ tasks[j].ref = tasks[k].ref /\ origem[j].envio /\ origem[k].envio

\* After an answer that was lost, late or incomplete, a crash or a failed write
\* the creation is not repeated: "podem ter criado a task: reconciliação
\* obrigatória" (confirmacao.ts:4-6).  What is left is the refusal of a later
\* call, the one way to NuncaSegundaTask's counterexample.
IncertaNaoRepete ==
    \A j, k \in DOMAIN tasks : Repetida(j, k) => origem[j].recusada

\* confirmacao.ts:4-5 allows a repetition only after a failure known to come
\* before the remote effect, and AC-4 of E01-S53 no second task of a retry.
\* Refuted: a 4xx of the PATCH or the GET, after the POST created the task,
\* makes the occurrence repeatable (confirmar:326-331) before its OS is told of
\* that task.
NuncaSegundaTask == \A j, k \in DOMAIN tasks : ~Repetida(j, k)
=============================================================================
