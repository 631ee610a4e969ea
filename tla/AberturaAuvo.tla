---------------------------- MODULE AberturaAuvo ----------------------------
(***************************************************************************)
(* Opening a work order (OS) in the Auvo on demand: pcm-auvo-open-task     *)
(* reserves the OS in the database and calls pcm-auvo-create-task, which   *)
(* looks for a task with the OS's externalId, creates one if there is none *)
(* and stores its id; meanwhile pcm-auvo-webhook and pcm-auvo-tasks-import *)
(* make an OS of every Auvo task no OS is linked to.                       *)
(*                                                                         *)
(* Abstractions.  The two functions of an opening are one invocation here: *)
(* whether the caller outlives the callee changes nothing that is stored.  *)
(* Customers are synchronised.  An OS is never soft-deleted: nothing in    *)
(* the application does it.  The tasks the Auvo deletes are left out, and  *)
(* so are the OSs of pcm-preventivas-confirmar, which creates their tasks  *)
(* itself.                                                                 *)
(***************************************************************************)
EXTENDS Naturals, Sequences

CONSTANTS
    OSs,          \* work orders that were created in the PCM
    SemOS,        \* externalId of a task created in the Auvo itself
    Aberturas,    \* concurrent openings
    Entradas,     \* concurrent invocations of the webhook and of the import
    MaxTasks,     \* bound: once so many tasks exist, only an opening whose search
                  \* found none still creates one
    Falhas        \* kinds of fault the environment may inject

TiposFalha == {"banco",     \* a database statement fails, or its answer is lost
               "cadastro",  \* the task type, customer or equipment is missing
               "busca",     \* the Auvo answers 400 to the search by externalId
               "auvo",      \* the Auvo answers an error, nothing changed there
               "resposta",  \* it created the task, its answer was lost
               "queda"}     \* the isolate running a function dies

ASSUME FalhasAssumption == Falhas \subseteq TiposFalha
ASSUME LimiteAssumption == MaxTasks \in Nat
ASSUME SemOSAssumption  == SemOS \notin OSs

VARIABLES
    os,         \* auvo_sync_status and auvo_task_id (0 is null) of each OS
    vencida,    \* OSs last updated more than five minutes ago
    tasks,      \* the tasks of the Auvo, an id being an index
    adotadas,   \* tasks an OS of their own was made from
    abre,       \* each opening under way
    ent         \* each webhook or import under way

vars == <<os, vencida, tasks, adotadas, abre, ent>>

\* cega: created without the answer of a search.
Task     == [ref : OSs \cup {SemOS}, cega : BOOLEAN]
Vinculo  == [sync : {"nenhum", "opening", "synced", "failed"}, task : Nat]
Ociosa   == [pc |-> "ociosa"]
Abertura == {Ociosa}
              \cup [pc : {"reservar", "ler", "buscar", "falhar"}, os : OSs]
              \cup [pc : {"criar"}, os : OSs, cega : BOOLEAN]
              \cup [pc : {"gravar"}, os : OSs, task : Nat]
Entrada  == {Ociosa} \cup [pc : {"inserir"}, quais : SUBSET Nat]

Init ==
    /\ os = [o \in OSs |-> [sync |-> "nenhum", task |-> 0]]
    /\ vencida = {} /\ tasks = <<>> /\ adotadas = {}
    /\ abre = [a \in Aberturas |-> Ociosa]
    /\ ent  = [e \in Entradas |-> Ociosa]

DaOS(o) == {k \in DOMAIN tasks : tasks[k].ref = o}

\* auvo_task_id is unique over all the rows, adopted or not.
Conhecidas == (adotadas \cup {os[o].task : o \in OSs}) \ {0}

Ir(a, estado) == abre' = [abre EXCEPT ![a] = estado]
Sair(a)       == Ir(a, Ociosa)
Falhar(a)     == Ir(a, [pc |-> "falhar", os |-> abre[a].os])

-----------------------------------------------------------------------------
(* pcm-auvo-open-task.                                                     *)

Clicar(a, o) ==
    /\ abre[a] = Ociosa
    /\ os[o].task = 0
    /\ Ir(a, [pc |-> "reservar", os |-> o])
    /\ UNCHANGED <<os, vencida, tasks, adotadas, ent>>

\* Mutants: the reservation held by another opening not looked at; a
\* reservation that never expires.
LivreSempre(o) == os[o].task = 0
LivreSemPrazo(o) == os[o].task = 0 /\ os[o].sync # "opening"

Livre(o) == os[o].task = 0 /\ (os[o].sync # "opening" \/ o \in vencida)

\* fn_iniciar_abertura_auvo, one UPDATE.
Reservar(a) ==
    /\ abre[a].pc = "reservar"
    /\ Livre(abre[a].os)
    /\ os' = [os EXCEPT ![abre[a].os].sync = "opening"]
    /\ vencida' = vencida \ {abre[a].os}
    /\ Ir(a, [pc |-> "ler", os |-> abre[a].os])
    /\ UNCHANGED <<tasks, adotadas, ent>>

ReservaNegada(a) ==
    /\ abre[a].pc = "reservar"
    /\ ~Livre(abre[a].os) \/ "banco" \in Falhas
    /\ Sair(a)
    /\ UNCHANGED <<os, vencida, tasks, adotadas, ent>>

-----------------------------------------------------------------------------
(* pcm-auvo-create-task.                                                   *)

LerOS(a) ==
    /\ abre[a].pc = "ler"
    /\ IF os[abre[a].os].task # 0
         THEN Sair(a) ELSE Ir(a, [pc |-> "buscar", os |-> abre[a].os])
    /\ UNCHANGED <<os, vencida, tasks, adotadas, ent>>

\* An error before the try ends in 500 and marks nothing.
LeituraFalha(a) ==
    /\ abre[a].pc = "ler"
    /\ \/ "banco" \in Falhas /\ Sair(a)
       \/ "cadastro" \in Falhas /\ Falhar(a)
    /\ UNCHANGED <<os, vencida, tasks, adotadas, ent>>

\* Mutants: the first task of the answer taken as it comes; no search.
BuscarPrimeira(a) ==
    /\ abre[a].pc = "buscar"
    /\ \/ \E k \in DOMAIN tasks :
            Ir(a, [pc |-> "gravar", os |-> abre[a].os, task |-> k])
       \/ /\ DOMAIN tasks = {}
          /\ Ir(a, [pc |-> "criar", os |-> abre[a].os, cega |-> FALSE])
    /\ UNCHANGED <<os, vencida, tasks, adotadas, ent>>
BuscarNada(a) ==
    /\ abre[a].pc = "buscar"
    /\ Ir(a, [pc |-> "criar", os |-> abre[a].os, cega |-> FALSE])
    /\ UNCHANGED <<os, vencida, tasks, adotadas, ent>>

\* GET /tasks by externalId; only an exact match counts.
Buscar(a) ==
    /\ abre[a].pc = "buscar"
    /\ \/ \E k \in DaOS(abre[a].os) :
            Ir(a, [pc |-> "gravar", os |-> abre[a].os, task |-> k])
       \/ /\ DaOS(abre[a].os) = {}
          /\ Ir(a, [pc |-> "criar", os |-> abre[a].os, cega |-> FALSE])
    /\ UNCHANGED <<os, vencida, tasks, adotadas, ent>>

\* A search refused with 400 is taken for one that found nothing.
BuscaFalha(a) ==
    /\ abre[a].pc = "buscar"
    /\ \/ "busca" \in Falhas /\ Ir(a, [pc |-> "criar", os |-> abre[a].os, cega |-> TRUE])
       \/ Falhas \cap {"auvo", "banco", "cadastro"} # {} /\ Falhar(a)
    /\ UNCHANGED <<os, vencida, tasks, adotadas, ent>>

\* POST /tasks; nothing is assumed of what the Auvo does with a repeated
\* externalId.
Postar(a) == tasks' = Append(tasks, [ref |-> abre[a].os, cega |-> abre[a].cega])

Criar(a) ==
    /\ abre[a].pc = "criar" /\ (abre[a].cega => Len(tasks) < MaxTasks)
    /\ Postar(a)
    /\ Ir(a, [pc |-> "gravar", os |-> abre[a].os, task |-> Len(tasks) + 1])
    /\ UNCHANGED <<os, vencida, adotadas, ent>>

CriacaoFalha(a) ==
    /\ abre[a].pc = "criar"
    /\ \/ "resposta" \in Falhas /\ Len(tasks) < MaxTasks /\ Postar(a)
       \/ "auvo" \in Falhas /\ UNCHANGED tasks
    /\ Falhar(a)
    /\ UNCHANGED <<os, vencida, adotadas, ent>>

Vincular(a) ==
    /\ os' = [os EXCEPT ![abre[a].os] = [sync |-> "synced", task |-> abre[a].task]]
    /\ vencida' = vencida \ {abre[a].os}

\* The UPDATE filters by id alone; the unique auvo_task_id refuses a task that
\* is another row's.
PodeVincular(a) == abre[a].task \notin Conhecidas \ {os[abre[a].os].task}

Gravar(a) ==
    /\ abre[a].pc = "gravar" /\ PodeVincular(a)
    /\ Vincular(a)
    /\ Sair(a)
    /\ UNCHANGED <<tasks, adotadas, ent>>

GravacaoFalha(a) ==
    /\ abre[a].pc = "gravar"
    /\ \/ (~PodeVincular(a) \/ "banco" \in Falhas) /\ UNCHANGED <<os, vencida>>
       \/ "banco" \in Falhas /\ PodeVincular(a) /\ Vincular(a)
    /\ Falhar(a)
    /\ UNCHANGED <<tasks, adotadas, ent>>

\* Mutant: the status word of the outbox.
MarcarErro(a) ==
    /\ abre[a].pc = "falhar"
    /\ os' = [os EXCEPT ![abre[a].os].sync = "error"]
    /\ vencida' = vencida \ {abre[a].os}
    /\ Sair(a)
    /\ UNCHANGED <<tasks, adotadas, ent>>

\* markFailed, whatever the OS has become; its own error is only logged.
MarcarFalha(a) ==
    /\ abre[a].pc = "falhar"
    /\ \/ /\ os' = [os EXCEPT ![abre[a].os].sync = "failed"]
          /\ vencida' = vencida \ {abre[a].os}
       \/ "banco" \in Falhas /\ UNCHANGED <<os, vencida>>
    /\ Sair(a)
    /\ UNCHANGED <<tasks, adotadas, ent>>

Queda(a) ==
    /\ "queda" \in Falhas
    /\ abre[a] # Ociosa
    /\ Sair(a)
    /\ UNCHANGED <<os, vencida, tasks, adotadas, ent>>

-----------------------------------------------------------------------------
(* Users, time and the Auvo.                                               *)

\* Every edit of an OS, status included, renews updated_at.
Editar(o) ==
    /\ o \in vencida
    /\ vencida' = vencida \ {o}
    /\ UNCHANGED <<os, tasks, adotadas, abre, ent>>

NaReserva(a, o) == abre[a].pc \notin {"ociosa", "reservar"} /\ abre[a].os = o

\* Five minutes without an update.  The platform ends a function after 150 s
\* (tasks-import:226-228), so no opening that reserved the OS is still alive.
Vencer(o) ==
    /\ o \notin vencida
    /\ os[o].sync = "opening"
    /\ \A a \in Aberturas : ~NaReserva(a, o)
    /\ vencida' = vencida \cup {o}
    /\ UNCHANGED <<os, tasks, adotadas, abre, ent>>

TecnicoCria ==
    /\ Len(tasks) < MaxTasks
    /\ tasks' = Append(tasks, [ref |-> SemOS, cega |-> FALSE])
    /\ UNCHANGED <<os, vencida, adotadas, abre, ent>>

-----------------------------------------------------------------------------
(* Tasks that come in: one by the webhook, a page of them by the import.   *)

Conferir(e) ==
    /\ ent[e] = Ociosa
    /\ \E T \in SUBSET DOMAIN tasks :
         /\ T \ Conhecidas # {}
         /\ ent' = [ent EXCEPT ![e] = [pc |-> "inserir", quais |-> T \ Conhecidas]]
    /\ UNCHANGED <<os, vencida, tasks, adotadas, abre>>

\* One statement: a task linked meanwhile refuses the whole batch.
Inserir(e) ==
    /\ ent[e].pc = "inserir"
    /\ \/ ent[e].quais \cap Conhecidas = {} /\ adotadas' = adotadas \cup ent[e].quais
       \/ /\ (ent[e].quais \cap Conhecidas # {} \/ Falhas \cap {"banco", "queda"} # {})
          /\ UNCHANGED adotadas
    /\ ent' = [ent EXCEPT ![e] = Ociosa]
    /\ UNCHANGED <<os, vencida, tasks, abre>>

-----------------------------------------------------------------------------

Abrir(a) == \/ \E o \in OSs : Clicar(a, o)
            \/ Reservar(a) \/ ReservaNegada(a) \/ LerOS(a) \/ LeituraFalha(a)
            \/ Buscar(a) \/ BuscaFalha(a) \/ Criar(a) \/ CriacaoFalha(a)
            \/ Gravar(a) \/ GravacaoFalha(a) \/ MarcarFalha(a)

Next ==
    \/ \E a \in Aberturas : Abrir(a) \/ Queda(a)
    \/ \E o \in OSs : Editar(o) \/ Vencer(o)
    \/ TecnicoCria
    \/ \E e \in Entradas : Conferir(e) \/ Inserir(e)

Spec == Init /\ [][Next]_vars

\* Time passes, a function runs on until it ends or dies, the operator clicks
\* again for as long as the OS has no task, neither the database nor the Auvo
\* fails him every time, and at last he leaves the OS unedited.
FairSpec ==
    /\ Spec
    /\ <>[][\A o \in OSs : ~Editar(o)]_vars
    /\ \A a \in Aberturas : WF_vars(Abrir(a))
    /\ \A o \in OSs : SF_vars(Vencer(o)) /\ SF_vars(\E a \in Aberturas : Clicar(a, o))
    /\ SF_vars(\E a \in Aberturas : Reservar(a))
    /\ SF_vars(\E a \in Aberturas : LerOS(a))
    /\ SF_vars(\E a \in Aberturas : Buscar(a))
    /\ SF_vars(\E a \in Aberturas : Criar(a))
    /\ SF_vars(\E a \in Aberturas : Gravar(a))

-----------------------------------------------------------------------------
(* Properties.                                                             *)

\* Every variable keeps its type (0001:81-84, 0169:10-28).
TypeOK ==
    /\ os \in [OSs -> Vinculo]
    /\ vencida \subseteq OSs
    /\ tasks \in Seq(Task)
    /\ adotadas \subseteq DOMAIN tasks
    /\ abre \in [Aberturas -> Abertura]
    /\ ent \in [Entradas -> Entrada]

\* Two operators who confirm the same OS never both get past the reservation,
\* whatever they crash on and however often they try again (0169:1-3).
AberturaExclusiva ==
    \A a, b \in Aberturas : \A o \in OSs :
        NaReserva(a, o) /\ NaReserva(b, o) => a = b

\* Lost answers, crashes, failed statements and retries never make a second
\* task of an OS, unless the Auvo refused the search that would have found the
\* first (AC-6 of E01-S125, "nunca duplica").
TaskUnica ==
    \A j, k \in DOMAIN tasks :
        j < k /\ tasks[j].ref = tasks[k].ref /\ tasks[k].ref # SemOS => tasks[k].cega

\* An OS is only ever linked to a task that carries its own externalId
\* (create-task:211-214).
VinculoDaTask ==
    \A o \in OSs : os[o].task # 0 =>
        os[o].task \in DOMAIN tasks /\ tasks[os[o].task].ref = o

\* The task of an OS is never replaced by another, though the UPDATE that
\* stores it filters by id alone (create-task:268-278).
VinculoEstavel ==
    [][\A o \in OSs : os[o].task # 0 => os'[o].task = os[o].task]_vars

Adotada(o) == DaOS(o) \cap adotadas # {}

\* A reservation never shuts an OS out: an opening that failed or died can be
\* tried again until the OS has its task, or the task went to an OS of its own
\* (0169:3; AC-7 of E01-S125).
PorFimAberta ==
    \A o \in OSs : (os[o].sync = "opening") ~> (os[o].task # 0 \/ Adotada(o))
=============================================================================
