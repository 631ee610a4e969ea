---------------------------- MODULE StatusTarefa ----------------------------
(***************************************************************************)
(* What happens in the PCM while a technician works on an Auvo task an OS  *)
(* is linked to: pcm-auvo-webhook moves the OS and, when the task is       *)
(* finished, records the result of the preventive maintenance or the PMOC  *)
(* visit; the hourly pcm-auvo-tasks-import brings the results again; the   *)
(* reconciliation of deleted tasks, which a button starts, cancels the OSs *)
(* left behind.                                                            *)
(*                                                                         *)
(* Abstractions.  The details and the snapshot the webhook also stores are *)
(* data: their failure is one of EntregaFalha.  The questionnaire is what  *)
(* consolidarResultadoPreventiva tells apart.  An OS has an occurrence or  *)
(* a PMOC visit, never both.  "backlog" stands for every status an OS has  *)
(* before its execution.                                                   *)
(***************************************************************************)
EXTENDS Naturals

CONSTANTS
    OSs,          \* work orders linked to a task
    Entregas,     \* concurrent invocations of the webhook
    Importacoes,  \* concurrent invocations of the import
    MaxData,      \* bound on the answers and check-outs of a task
    Falhas        \* kinds of fault the environment may inject

TiposFalha == {"servidor",  \* a statement, the isolate or the Auvo fails a function
               "perda"}     \* a delivery is lost for good, or the answer 200 to it

ASSUME FalhasAssumption  == Falhas \subseteq TiposFalha
ASSUME DataAssumption    == MaxData \in Nat

VARIABLES
    tarefa,     \* the task of each OS in the Auvo
    excluidas,  \* OSs whose task was deleted in the Auvo
    avisos,     \* events the Auvo has to deliver
    os,         \* the status of each OS, and what it was created for
    ocor,       \* the result of its occurrence and the date of it (0 is null)
    visita,     \* the status of its PMOC visit
    ent,        \* each delivery under way
    imp,        \* each import under way
    sinc        \* the last reconciliation of deleted tasks

vars == <<tarefa, excluidas, avisos, os, ocor, visita, ent, imp, sinc>>

Status    == {"backlog", "em_execucao", "finalizado", "cancelado"}
Respostas == {"nenhuma", "parcial", "ok", "nao_ok"}
Estado    == {"pendente", "ok", "nao_ok"}
Datas     == 0..MaxData
Tarefa    == [sit : {"aberta", "andamento", "finalizada"}, data : Datas, resp : Respostas]
Aviso     == [os : OSs, alvo : {"em_execucao", "finalizado", "cancelado"}]
Ociosa    == [pc |-> "ociosa"]
Entrega   == {Ociosa} \cup [pc : {"status", "buscar", "visita"}, aviso : Aviso]
                      \cup [pc : {"resultado"}, aviso : Aviso, lido : Tarefa]
Lidas     == UNION {[S -> Tarefa] : S \in SUBSET OSs}
Sinc      == [pc : {"parada", "cancelar", "falhou"}, lidas : SUBSET OSs]

\* ocorrencia_preventiva_id, pmoc_schedule_id.
Preventivas == {o \in OSs : os[o].de = "preventiva"}
Visitas     == {o \in OSs : os[o].de = "visita"}

Init ==
    /\ tarefa = [o \in OSs |-> [sit |-> "aberta", data |-> 0, resp |-> "nenhuma"]]
    /\ excluidas = {} /\ avisos = {}
    /\ os \in [OSs -> [status : {"backlog"}, de : {"preventiva", "visita"}]]
    /\ ocor = [o \in OSs |-> [estado |-> "pendente", em |-> 0]]
    /\ visita = [o \in OSs |-> "agendado"]
    /\ ent = [e \in Entregas |-> Ociosa]
    /\ imp = [i \in Importacoes |-> <<>>]
    /\ sinc = [pc |-> "parada", lidas |-> {}]

-----------------------------------------------------------------------------
(* The Auvo and its technician.  Every change of a task is an event.       *)

MudarTarefa(o, t, alvo) ==
    /\ o \notin excluidas
    /\ tarefa' = [tarefa EXCEPT ![o] = t]
    /\ avisos' = avisos \cup {[os |-> o, alvo |-> alvo]}
    /\ UNCHANGED <<excluidas, os, ocor, visita, ent, imp, sinc>>

CheckIn(o) ==
    /\ tarefa[o].sit = "aberta"
    /\ MudarTarefa(o, [tarefa[o] EXCEPT !.sit = "andamento"], "em_execucao")

\* An answer has a date of its own, later than those before it.
Responder(o, r) ==
    /\ tarefa[o].sit = "andamento" /\ tarefa[o].data < MaxData
    /\ r # "nenhuma"
    /\ MudarTarefa(o, [tarefa[o] EXCEPT !.resp = r, !.data = @ + 1], "em_execucao")

\* The check-out has a date too, which counts when it is later than the answers'.
Finalizar(o) ==
    /\ tarefa[o].sit = "andamento"
    /\ \E d \in {tarefa[o].data, tarefa[o].data + 1} \cap Datas :
         MudarTarefa(o, [tarefa[o] EXCEPT !.sit = "finalizada", !.data = d], "finalizado")

ExcluirTarefa(o) ==
    /\ o \notin excluidas
    /\ excluidas' = excluidas \cup {o}
    /\ avisos' = avisos \cup {[os |-> o, alvo |-> "cancelado"]}
    /\ UNCHANGED <<tarefa, os, ocor, visita, ent, imp, sinc>>

PerderAviso(m) ==
    /\ "perda" \in Falhas
    /\ m \in avisos
    /\ avisos' = avisos \ {m}
    /\ UNCHANGED <<tarefa, excluidas, os, ocor, visita, ent, imp, sinc>>

-----------------------------------------------------------------------------
(* The results of a preventive maintenance.                                *)

\* Mutant: an unfinished task is pending, whatever was answered.
ConsolidarSoConcluida(concluida, resp) ==
    CASE ~concluida       -> "pendente"
      [] resp = "nao_ok"  -> "nao_ok"
      [] resp = "ok"      -> "ok"
      [] OTHER            -> "pendente"

\* consolidarResultadoPreventiva.
Consolidar(concluida, resp) ==
    CASE resp = "nao_ok"            -> "nao_ok"
      [] resp = "ok" /\ concluida   -> "ok"
      [] OTHER                      -> "pendente"

\* Mutants: the date it is recorded for the date of origin; a guard that
\* refuses the same date.
AtualizarAgora(o, estado, em) ==
    ocor' = [ocor EXCEPT ![o] = [estado |-> estado, em |-> tarefa[o].data]]
AtualizarMaisNovo(o, estado, em) ==
    ocor' = IF em > ocor[o].em
              THEN [ocor EXCEPT ![o] = [estado |-> estado, em |-> em]] ELSE ocor

\* pcm.atualizar_resultado_preventiva, one UPDATE.
AtualizarResultado(o, estado, em) ==
    ocor' = IF em >= ocor[o].em
              THEN [ocor EXCEPT ![o] = [estado |-> estado, em |-> em]] ELSE ocor

-----------------------------------------------------------------------------
(* pcm-auvo-webhook.                                                       *)

Ir(e, estado) == ent' = [ent EXCEPT ![e] = estado]

\* 200: the event is delivered, unless the Auvo does not hear so.
Concluir(e) ==
    /\ Ir(e, Ociosa)
    /\ \/ avisos' = avisos \ {ent[e].aviso}
       \/ "perda" \in Falhas /\ UNCHANGED avisos

Receber(e, m) ==
    /\ m \in avisos
    /\ ent[e] = Ociosa
    /\ Ir(e, [pc |-> "status", aviso |-> m])
    /\ UNCHANGED <<tarefa, excluidas, avisos, os, ocor, visita, imp, sinc>>

\* UPDATE ... WHERE status <> alvo, and what a finished task then calls for.
AtualizarStatus(e) ==
    LET m == ent[e].aviso IN
    /\ ent[e].pc = "status"
    /\ os' = [os EXCEPT ![m.os].status = m.alvo]
    /\ \/ /\ m.alvo = "finalizado" /\ m.os \in Preventivas
          /\ Ir(e, [pc |-> "buscar", aviso |-> m])
          /\ UNCHANGED avisos
       \/ /\ m.alvo = "finalizado" /\ m.os \in Visitas
          /\ Ir(e, [pc |-> "visita", aviso |-> m])
          /\ UNCHANGED avisos
       \/ m.alvo # "finalizado" /\ Concluir(e)
    /\ UNCHANGED <<tarefa, excluidas, ocor, visita, imp, sinc>>

\* GET /tasks/:id; without a date of origin nothing is stored.
BuscarTarefa(e) ==
    LET m == ent[e].aviso IN
    /\ ent[e].pc = "buscar"
    /\ m.os \notin excluidas
    /\ IF tarefa[m.os].data = 0
         THEN Concluir(e)
         ELSE /\ Ir(e, [pc |-> "resultado", aviso |-> m, lido |-> tarefa[m.os]])
              /\ UNCHANGED avisos
    /\ UNCHANGED <<tarefa, excluidas, os, ocor, visita, imp, sinc>>

\* osConcluida is true here whatever the task that was read says.
GravarResultado(e) ==
    /\ ent[e].pc = "resultado"
    /\ AtualizarResultado(ent[e].aviso.os, Consolidar(TRUE, ent[e].lido.resp),
                          ent[e].lido.data)
    /\ Concluir(e)
    /\ UNCHANGED <<tarefa, excluidas, os, visita, imp, sinc>>

\* The row the webhook inserts names no author; pmoc_records.created_by is
\* NOT NULL and has no default.
RegistroDaVisita(o) == [schedule_id |-> o, created_by |-> "nulo"]
RegistroAceito(r)   == r.created_by # "nulo"

RegistrarVisita(e) ==
    LET o == ent[e].aviso.os IN
    /\ ent[e].pc = "visita"
    /\ IF visita[o] = "realizado" \/ RegistroAceito(RegistroDaVisita(o))
         THEN visita' = [visita EXCEPT ![o] = "realizado"] /\ Concluir(e)
         ELSE Ir(e, Ociosa) /\ UNCHANGED <<visita, avisos>>
    /\ UNCHANGED <<tarefa, excluidas, os, ocor, imp, sinc>>

\* 500, or no answer: the Auvo delivers the event again.
EntregaFalha(e) ==
    /\ ent[e] # Ociosa
    /\ \/ "servidor" \in Falhas
       \/ ent[e].pc = "buscar" /\ ent[e].aviso.os \in excluidas
    /\ Ir(e, Ociosa)
    /\ UNCHANGED <<tarefa, excluidas, avisos, os, ocor, visita, imp, sinc>>

-----------------------------------------------------------------------------
(* pcm-auvo-tasks-import: the page it read, applied one result at a time.  *)

ComResposta == {o \in Preventivas \ excluidas : tarefa[o].resp # "nenhuma"}

LerTarefas(i) ==
    /\ imp[i] = <<>>
    /\ imp' = [imp EXCEPT ![i] = [o \in ComResposta |-> tarefa[o]]]
    /\ UNCHANGED <<tarefa, excluidas, avisos, os, ocor, visita, ent, sinc>>

GravarLido(i, o) ==
    /\ o \in DOMAIN imp[i]
    /\ AtualizarResultado(o, Consolidar(imp[i][o].sit = "finalizada", imp[i][o].resp),
                          imp[i][o].data)
    /\ imp' = [imp EXCEPT ![i] = [p \in DOMAIN @ \ {o} |-> @[p]]]
    /\ UNCHANGED <<tarefa, excluidas, avisos, os, visita, ent, sinc>>

ImportacaoFalha(i) ==
    /\ "servidor" \in Falhas
    /\ imp[i] # <<>>
    /\ imp' = [imp EXCEPT ![i] = <<>>]
    /\ UNCHANGED <<tarefa, excluidas, avisos, os, ocor, visita, ent, sinc>>

-----------------------------------------------------------------------------
(* The reconciliation of deleted tasks, the users and the clock.           *)

\* Mutants: the reason for the status; an OS in execution counts as done.
CancelarComMotivo(S) ==
    [o \in OSs |-> IF o \in S /\ os[o].status # "finalizado"
                     THEN [os[o] EXCEPT !.status = "excluida_no_auvo"] ELSE os[o]]
CancelarSoParadas(S) ==
    [o \in OSs |-> IF o \in S /\ os[o].status = "backlog"
                     THEN [os[o] EXCEPT !.status = "cancelado"] ELSE os[o]]

\* fn_cancelar_os_tarefas_auvo_excluidas.
CancelarOS(S) ==
    [o \in OSs |-> IF o \in S /\ os[o].status # "finalizado"
                     THEN [os[o] EXCEPT !.status = "cancelado"] ELSE os[o]]

\* The pages of GetDeletedTasks, for a window: the last 14 days unless the
\* caller asks for another.  What fell out of it is not listed.
ListarExcluidas ==
    /\ sinc.pc # "cancelar"
    /\ \E S \in SUBSET excluidas : sinc' = [pc |-> "cancelar", lidas |-> S]
    /\ UNCHANGED <<tarefa, excluidas, avisos, os, ocor, visita, ent, imp>>

CancelarListadas ==
    /\ sinc.pc = "cancelar"
    /\ os' = CancelarOS(sinc.lidas)
    /\ sinc' = [pc |-> "parada", lidas |-> {}]
    /\ UNCHANGED <<tarefa, excluidas, avisos, ocor, visita, ent, imp>>

SincronizacaoFalha ==
    /\ "servidor" \in Falhas
    /\ sinc' = [pc |-> "falhou", lidas |-> {}]
    /\ UNCHANGED <<tarefa, excluidas, avisos, os, ocor, visita, ent, imp>>

SincronizarExcluidas == ListarExcluidas \/ CancelarListadas \/ SincronizacaoFalha

AlterarStatus(o, s) ==
    /\ os' = [os EXCEPT ![o].status = s]
    /\ UNCHANGED <<tarefa, excluidas, avisos, ocor, visita, ent, imp, sinc>>

\* fn_pmoc_marcar_atrasadas, daily.
MarcarAtrasada(o) ==
    /\ o \in Visitas /\ visita[o] = "agendado"
    /\ visita' = [visita EXCEPT ![o] = "atrasado"]
    /\ UNCHANGED <<tarefa, excluidas, avisos, os, ocor, ent, imp, sinc>>

-----------------------------------------------------------------------------

Tecnico(o) == \/ CheckIn(o) \/ Finalizar(o) \/ ExcluirTarefa(o)
              \/ \E r \in Respostas : Responder(o, r)

Processar(e) == \/ AtualizarStatus(e) \/ BuscarTarefa(e) \/ GravarResultado(e)
                \/ RegistrarVisita(e) \/ EntregaFalha(e)

Next ==
    \/ \E o \in OSs : \/ Tecnico(o) \/ MarcarAtrasada(o)
                      \/ \E s \in Status : AlterarStatus(o, s)
    \/ \E m \in avisos : PerderAviso(m) \/ \E e \in Entregas : Receber(e, m)
    \/ \E e \in Entregas : Processar(e)
    \/ \E i \in Importacoes : \/ LerTarefas(i) \/ ImportacaoFalha(i)
                              \/ \E o \in OSs : GravarLido(i, o)
    \/ SincronizarExcluidas

Spec == Init /\ [][Next]_vars

\* A function runs on until it ends or fails; the Auvo delivers every event it
\* does not lose; the import runs every hour (0084:36-48), reads again every task
\* scheduled in the last 21 days and does not fail all that long.  The
\* reconciliation of deleted tasks has no cron: once somebody pressed
\* "Sincronizar Auvo" it runs on, but nobody has to press.
FairSpec ==
    /\ Spec
    /\ \A e \in Entregas : WF_vars(Processar(e))
    /\ \A m \in Aviso : SF_vars(\E e \in Entregas : Receber(e, m))
    /\ \A i \in Importacoes : WF_vars(LerTarefas(i))
    /\ \A i \in Importacoes : \A o \in OSs : SF_vars(GravarLido(i, o))
    /\ WF_vars(CancelarListadas)

-----------------------------------------------------------------------------
(* Properties.                                                             *)

\* Every variable keeps its type (0228:8-9, 0023:92-93, 0077:55-58).
TypeOK ==
    /\ tarefa \in [OSs -> Tarefa]
    /\ excluidas \subseteq OSs
    /\ avisos \subseteq Aviso
    /\ os \in [OSs -> [status : Status, de : {"preventiva", "visita"}]]
    /\ ocor \in [OSs -> [estado : Estado, em : Datas]]
    /\ visita \in [OSs -> {"agendado", "atrasado", "realizado"}]
    /\ ent \in [Entregas -> Entrega]
    /\ imp \in [Importacoes -> Lidas]
    /\ sinc \in Sinc

\* Redelivered events, stale reads of the import and two functions at once
\* never record a result the technician did not give: once it has the date of
\* his last answer, it is what that answer says (webhook:304-306).
ResultadoDoTecnico ==
    \A o \in Preventivas :
        /\ ocor[o].em <= tarefa[o].data
        /\ ocor[o].em = tarefa[o].data =>
             \E c \in BOOLEAN : ocor[o].estado = Consolidar(c, tarefa[o].resp)

\* An import that read the task before it was finished never hides a "não ok"
\* the webhook recorded: only a later answer does (resultado.ts:34-36).
NaoOkPermanece ==
    [][\A o \in Preventivas :
         ocor[o].estado = "nao_ok" /\ ocor'[o].estado # "nao_ok" =>
             ocor'[o].em > ocor[o].em]_vars

\* Whatever is lost or late, the result of a finished preventive maintenance
\* ends up as the technician left it (webhook:306, "o import periódico continua
\* cobrindo eventos perdidos").
ResultadoConverge ==
    \A o \in OSs :
        tarefa[o].sit = "finalizada" /\ o \in Preventivas ~>
            [](o \in excluidas \/ ocor[o].estado = Consolidar(TRUE, tarefa[o].resp))

Encerrada(o) == os[o].status \in {"cancelado", "finalizado"}

\* The OS of a deleted task that a reconciliation listed is closed unless that
\* run fails, whatever users and older events make of the OS between the
\* listing and the update (AC-1 of E01-S58).
ListadaSeEncerra ==
    \A o \in OSs : (sinc.pc = "cancelar" /\ o \in sinc.lidas)
                     ~> (Encerrada(o) \/ sinc.pc = "falhou")

=============================================================================
