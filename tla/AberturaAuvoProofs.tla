------------------------- MODULE AberturaAuvoProofs -------------------------
(***************************************************************************)
(* Proofs about the opening of work orders, for any number of OSs,         *)
(* openings, incoming tasks and any faults.                                *)
(***************************************************************************)
EXTENDS AberturaAuvo, SequenceTheorems, TLAPS

\* While an opening is past the reservation, no other can reserve the OS: the
\* reservation stands and is young, or the OS has its task.
Reservada ==
    \A a \in Aberturas : \A o \in OSs : NaReserva(a, o) =>
        (os[o].sync = "opening" /\ o \notin vencida) \/ os[o].task # 0

\* What an opening knows is still so: the OS has no task before it is stored,
\* none exists when one is about to be created after a search, and the one
\* about to be stored is the OS's own.
SabeDaOS ==
    \A a \in Aberturas :
        /\ abre[a].pc \in {"buscar", "criar", "gravar"} => os[abre[a].os].task = 0
        /\ abre[a].pc = "criar" /\ ~abre[a].cega => DaOS(abre[a].os) = {}
        /\ abre[a].pc = "gravar" => abre[a].task \in DaOS(abre[a].os)

\* The tasks an import is about to insert exist.
LoteExiste ==
    \A e \in Entradas : ent[e].pc = "inserir" => ent[e].quais \subseteq DOMAIN tasks

IInv == /\ TypeOK /\ LoteExiste /\ Reservada /\ AberturaExclusiva
        /\ SabeDaOS /\ TaskUnica /\ VinculoDaTask

-----------------------------------------------------------------------------
(* The record an opening is in, and what changes it.                       *)

LEMMA Estados ==
    ASSUME TypeOK, NEW a \in Aberturas
    PROVE  /\ abre[a].pc = "ociosa" <=> abre[a] = Ociosa
           /\ abre[a].pc # "ociosa" => abre[a].os \in OSs
           /\ abre[a].pc = "criar" => abre[a].cega \in BOOLEAN
           /\ abre[a].pc = "gravar" => abre[a].task \in Nat
  BY DEF TypeOK, Abertura, Ociosa

LEMMA IrEfeito ==
    ASSUME TypeOK, NEW a \in Aberturas, NEW x, Ir(a, x)
    PROVE  /\ abre'[a] = x
           /\ \A b \in Aberturas \ {a} : abre'[b] = abre[b]
           /\ x \in Abertura => abre' \in [Aberturas -> Abertura]
  BY DEF TypeOK, Ir

LEMMA PostarEfeito ==
    ASSUME TypeOK, NEW t \in Task, tasks' = Append(tasks, t)
    PROVE  /\ tasks' \in Seq(Task)
           /\ Len(tasks) + 1 \in DOMAIN tasks'
           /\ DOMAIN tasks' = DOMAIN tasks \cup {Len(tasks) + 1}
           /\ Len(tasks) + 1 \notin DOMAIN tasks
           /\ \A k \in DOMAIN tasks : k \in Nat \ {0} /\ k < Len(tasks) + 1
           /\ tasks'[Len(tasks) + 1] = t
           /\ \A k \in DOMAIN tasks : tasks'[k] = tasks[k]
  BY DEF TypeOK

\* A step that leaves the OSs, the reservations and the tasks as they are.
Calmo == UNCHANGED <<os, vencida, tasks>>

\* One opening goes where what it then claims to know holds.
LEMMA CalmoInv ==
    ASSUME IInv, NEW a \in Aberturas, NEW x \in Abertura, Calmo, Ir(a, x),
           UNCHANGED <<adotadas, ent>>,
           x.pc \notin {"ociosa", "reservar"} => NaReserva(a, x.os),
           x.pc \in {"buscar", "criar", "gravar"} => os[x.os].task = 0,
           x.pc = "criar" /\ ~x.cega => DaOS(x.os) = {},
           x.pc = "gravar" => x.task \in DaOS(x.os)
    PROVE  IInv'
<1> USE DEF IInv
<1>1. /\ abre'[a] = x /\ abre' \in [Aberturas -> Abertura]
      /\ \A b \in Aberturas \ {a} : abre'[b] = abre[b]
  BY IrEfeito
<1>2. TypeOK' /\ LoteExiste'
  BY <1>1 DEF TypeOK, LoteExiste, Calmo
<1>3. \A b \in Aberturas : \A o \in OSs : NaReserva(b, o)' => NaReserva(b, o)
  BY <1>1 DEF NaReserva
<1>4. Reservada'
  BY <1>3 DEF Reservada, Calmo
<1>5. AberturaExclusiva'
  BY <1>3 DEF AberturaExclusiva
<1>6. SabeDaOS'
  BY <1>1 DEF SabeDaOS, Calmo, DaOS
<1>7. TaskUnica' /\ VinculoDaTask'
  BY DEF TaskUnica, VinculoDaTask, Calmo
<1>8. QED
  BY <1>2, <1>4, <1>5, <1>6, <1>7

-----------------------------------------------------------------------------

LEMMA ClicarInv ==
    ASSUME IInv, NEW a \in Aberturas, NEW o \in OSs, Clicar(a, o)
    PROVE  IInv'
<1> DEFINE x == [pc |-> "reservar", os |-> o]
<1>1. x \in Abertura /\ x.pc = "reservar"
  BY DEF Abertura
<1>2. Ir(a, x) /\ Calmo /\ UNCHANGED <<adotadas, ent>>
  BY DEF Clicar, Calmo
<1>3. QED
  BY <1>1, <1>2, CalmoInv

LEMMA SairInv ==
    ASSUME IInv, NEW a \in Aberturas, Sair(a), Calmo, UNCHANGED <<adotadas, ent>>
    PROVE  IInv'
<1>1. Ociosa \in Abertura /\ Ociosa.pc = "ociosa"
  BY DEF Abertura, Ociosa
<1>2. QED
  BY <1>1, CalmoInv DEF Sair

LEMMA FalharInv ==
    ASSUME IInv, NEW a \in Aberturas, Falhar(a), Calmo, UNCHANGED <<adotadas, ent>>,
           abre[a].pc \notin {"ociosa", "reservar"}
    PROVE  IInv'
<1> DEFINE x == [pc |-> "falhar", os |-> abre[a].os]
<1>1. abre[a].os \in OSs
  BY Estados DEF IInv
<1>2. x \in Abertura /\ x.pc = "falhar" /\ NaReserva(a, x.os)
  BY <1>1 DEF Abertura, NaReserva
<1>3. QED
  BY <1>2, CalmoInv DEF Falhar

-----------------------------------------------------------------------------
(* An opening past its reservation writes the OS, and is done with it.     *)

LEMMA EscreverInv ==
    ASSUME IInv, NEW a \in Aberturas, NEW o \in OSs, NEW v \in Vinculo,
           NEW x \in Abertura, NaReserva(a, o), Ir(a, x),
           os' = [os EXCEPT ![o] = v], vencida' = vencida \ {o},
           UNCHANGED <<tasks, adotadas, ent>>,
           v.task # 0 => v.task \in DaOS(o),
           \/ x.pc = "ociosa"
           \/ x.pc = "falhar" /\ x.os = o /\ v.task # 0
    PROVE  IInv'
<1> USE DEF IInv
<1>1. /\ abre'[a] = x /\ abre' \in [Aberturas -> Abertura]
      /\ \A b \in Aberturas \ {a} : abre'[b] = abre[b]
  BY IrEfeito
<1>2. os'[o] = v /\ \A p \in OSs \ {o} : os'[p] = os[p]
  BY DEF TypeOK
<1>3. TypeOK' /\ LoteExiste'
  BY <1>1 DEF TypeOK, LoteExiste
<1>4. ASSUME NEW b \in Aberturas, NEW p \in OSs, NaReserva(b, p)'
      PROVE  NaReserva(b, p) /\ (b = a => x.pc = "falhar" /\ p = o)
                             /\ (b # a => p # o)
  <2>1. CASE b = a
    BY <1>1, <1>4, <2>1 DEF NaReserva
  <2>2. CASE b # a
    <3>1. NaReserva(b, p)
      BY <1>1, <1>4, <2>2 DEF NaReserva
    <3>2. QED
      BY <3>1, <2>2 DEF AberturaExclusiva
  <2>3. QED
    BY <2>1, <2>2
<1>5. Reservada'
  <2> SUFFICES ASSUME NEW b \in Aberturas, NEW p \in OSs, NaReserva(b, p)'
               PROVE  (os'[p].sync = "opening" /\ p \notin vencida') \/ os'[p].task # 0
    BY DEF Reservada
  <2>1. CASE b = a
    BY <1>2, <1>4, <2>1
  <2>2. CASE b # a
    BY <1>2, <1>4, <2>2 DEF Reservada
  <2>3. QED
    BY <2>1, <2>2
<1>6. AberturaExclusiva'
  BY <1>4 DEF AberturaExclusiva
<1>7. SabeDaOS'
  <2> SUFFICES ASSUME NEW b \in Aberturas
               PROVE  /\ abre'[b].pc \in {"buscar", "criar", "gravar"}
                           => os'[abre'[b].os].task = 0
                      /\ abre'[b].pc = "criar" /\ ~abre'[b].cega
                           => DaOS(abre[b].os) = {}
                      /\ abre'[b].pc = "gravar" => abre'[b].task \in DaOS(abre[b].os)
                      /\ abre'[b].pc \in {"criar", "gravar"} => abre'[b] = abre[b]
    BY DEF SabeDaOS, DaOS
  <2>1. CASE b = a
    BY <1>1, <2>1
  <2>2. CASE b # a /\ abre[b].pc \in {"buscar", "criar", "gravar"}
    <3>1. abre'[b] = abre[b] /\ abre[b].os \in OSs
      BY <1>1, <2>2, Estados
    <3>2. NaReserva(b, abre[b].os)'
      BY <3>1, <2>2 DEF NaReserva
    <3>3. os'[abre[b].os] = os[abre[b].os]
      BY <1>2, <1>4, <2>2, <3>1, <3>2
    <3>4. QED
      BY <3>1, <3>3 DEF SabeDaOS
  <2>3. CASE b # a /\ abre[b].pc \notin {"buscar", "criar", "gravar"}
    BY <1>1, <2>3
  <2>4. QED
    BY <2>1, <2>2, <2>3
<1>8. TaskUnica'
  BY DEF TaskUnica
<1>9. VinculoDaTask'
  BY <1>2 DEF VinculoDaTask, DaOS
<1>10. QED
  BY <1>3, <1>5, <1>6, <1>7, <1>8, <1>9

-----------------------------------------------------------------------------
(* A task that appears in the Auvo.                                        *)

LEMMA TaskNova ==
    ASSUME IInv, NEW t \in Task, tasks' = Append(tasks, t), UNCHANGED os,
           t.ref # SemOS /\ ~t.cega => DaOS(t.ref) = {}
    PROVE  /\ TaskUnica' /\ VinculoDaTask'
           /\ Len(tasks) + 1 \in DOMAIN tasks' /\ tasks'[Len(tasks) + 1] = t
           /\ \A p \in OSs : p # t.ref => DaOS(p)' = DaOS(p)
<1> USE DEF IInv
<1> DEFINE n == Len(tasks) + 1
<1>1. /\ n \in DOMAIN tasks' /\ DOMAIN tasks' = DOMAIN tasks \cup {n}
      /\ n \notin DOMAIN tasks /\ tasks'[n] = t
      /\ \A k \in DOMAIN tasks : k \in Nat \ {0} /\ k < n
      /\ \A k \in DOMAIN tasks : tasks'[k] = tasks[k]
  BY PostarEfeito
<1>2. n \in Nat
  BY DEF TypeOK
<1> HIDE DEF n
<1>3. TaskUnica'
  <2> SUFFICES ASSUME NEW j \in DOMAIN tasks', NEW k \in DOMAIN tasks', j < k,
                      tasks'[j].ref = tasks'[k].ref, tasks'[k].ref # SemOS
               PROVE  tasks'[k].cega
    BY DEF TaskUnica
  <2>1. CASE k \in DOMAIN tasks
    <3>1. j \in DOMAIN tasks
      BY <1>1, <1>2, <2>1
    <3>2. QED
      BY <1>1, <2>1, <3>1 DEF TaskUnica
  <2>2. CASE k = n
    <3>1. j \in DOMAIN tasks
      BY <1>1, <1>2, <2>2
    <3>2. j \in DaOS(t.ref)
      BY <1>1, <2>2, <3>1 DEF DaOS
    <3>3. QED
      BY <1>1, <2>2, <3>2
  <2>3. QED
    BY <1>1, <2>1, <2>2
<1>4. VinculoDaTask'
  BY <1>1 DEF VinculoDaTask
<1>5. ASSUME NEW p \in OSs, p # t.ref PROVE DaOS(p)' = DaOS(p)
  BY <1>1, <1>5 DEF DaOS
<1>6. QED
  BY <1>1, <1>3, <1>4, <1>5 DEF n

\* POST /tasks by an opening that goes on to store the task, or to fail.
LEMMA PostarInv ==
    ASSUME IInv, NEW a \in Aberturas, abre[a].pc = "criar", Postar(a),
           NEW x \in Abertura, Ir(a, x), x.pc \in {"gravar", "falhar"},
           x.os = abre[a].os, x.pc = "gravar" => x.task = Len(tasks) + 1,
           UNCHANGED <<os, vencida, adotadas, ent>>
    PROVE  IInv'
<1> USE DEF IInv
<1> DEFINE o == abre[a].os
           t == [ref |-> o, cega |-> abre[a].cega]
<1>1. o \in OSs /\ t \in Task /\ NaReserva(a, o)
  BY Estados DEF Task, NaReserva
<1>2. tasks' = Append(tasks, t)
  BY DEF Postar
<1>3. t.ref # SemOS /\ ~t.cega => DaOS(t.ref) = {}
  BY DEF SabeDaOS
<1>4. /\ TaskUnica' /\ VinculoDaTask'
      /\ Len(tasks) + 1 \in DOMAIN tasks' /\ tasks'[Len(tasks) + 1].ref = o
      /\ \A p \in OSs : p # o => DaOS(p)' = DaOS(p)
  BY <1>1, <1>2, <1>3, TaskNova
<1>5. /\ tasks' \in Seq(Task) /\ DOMAIN tasks \subseteq DOMAIN tasks'
  BY <1>1, <1>2, PostarEfeito
<1>6. /\ abre'[a] = x /\ abre' \in [Aberturas -> Abertura]
      /\ \A b \in Aberturas \ {a} : abre'[b] = abre[b]
  BY IrEfeito
<1>7. TypeOK' /\ LoteExiste'
  BY <1>5, <1>6 DEF TypeOK, LoteExiste
<1>8. \A b \in Aberturas : \A p \in OSs : NaReserva(b, p)' => NaReserva(b, p)
  BY <1>6 DEF NaReserva
<1>9. Reservada'
  BY <1>8 DEF Reservada
<1>10. AberturaExclusiva'
  BY <1>8 DEF AberturaExclusiva
<1>11. SabeDaOS'
  <2> SUFFICES ASSUME NEW b \in Aberturas
               PROVE  /\ abre'[b].pc \in {"buscar", "criar", "gravar"}
                           => os[abre'[b].os].task = 0
                      /\ abre'[b].pc = "criar" /\ ~abre'[b].cega
                           => DaOS(abre[b].os)' = {}
                      /\ abre'[b].pc = "gravar"
                           => abre'[b].task \in DaOS(abre[b].os)'
                      /\ abre'[b].os = abre[b].os
    BY DEF SabeDaOS, DaOS
  <2>1. CASE b = a
    BY <1>4, <1>6, <2>1 DEF SabeDaOS, DaOS
  <2>2. CASE b # a /\ abre[b].pc \in {"buscar", "criar", "gravar"}
    <3>1. abre'[b] = abre[b] /\ abre[b].os \in OSs
      BY <1>6, <2>2, Estados
    <3>2. NaReserva(b, abre[b].os)
      BY <2>2 DEF NaReserva
    <3>3. abre[b].os # o
      BY <1>1, <2>2, <3>1, <3>2 DEF AberturaExclusiva
    <3>4. QED
      BY <1>4, <3>1, <3>3 DEF SabeDaOS, DaOS
  <2>3. CASE b # a /\ abre[b].pc \notin {"buscar", "criar", "gravar"}
    BY <1>6, <2>3
  <2>4. QED
    BY <2>1, <2>2, <2>3
<1>12. QED
  BY <1>4, <1>7, <1>9, <1>10, <1>11

-----------------------------------------------------------------------------
(* Each action.                                                            *)

\* fn_iniciar_abertura_auvo: whoever is past the reservation of the OS makes
\* it not free.
LEMMA ReservarInv ==
    ASSUME IInv, NEW a \in Aberturas, Reservar(a)
    PROVE  IInv'
<1> USE DEF IInv, Reservar
<1> DEFINE o == abre[a].os
           x == [pc |-> "ler", os |-> o]
<1>1. o \in OSs /\ x \in Abertura
  BY Estados DEF Abertura
<1>2. /\ abre'[a] = x /\ abre' \in [Aberturas -> Abertura]
      /\ \A b \in Aberturas \ {a} : abre'[b] = abre[b]
  BY <1>1, IrEfeito
<1>3. /\ os' \in [OSs -> Vinculo] /\ os'[o].sync = "opening"
      /\ \A p \in OSs : os'[p].task = os[p].task
      /\ \A p \in OSs \ {o} : os'[p] = os[p]
  BY <1>1 DEF TypeOK, Vinculo
<1>4. TypeOK' /\ LoteExiste'
  BY <1>2, <1>3 DEF TypeOK, LoteExiste
<1>5. \A b \in Aberturas : ~NaReserva(b, o)
  BY <1>1 DEF Reservada, Livre
<1>6. ASSUME NEW b \in Aberturas, NEW p \in OSs, NaReserva(b, p)'
      PROVE  (b = a /\ p = o) \/ (b # a /\ p # o /\ NaReserva(b, p))
  BY <1>2, <1>5, <1>6 DEF NaReserva
<1>7. Reservada'
  BY <1>3, <1>6 DEF Reservada
<1>8. AberturaExclusiva'
  BY <1>6 DEF AberturaExclusiva
<1>9. SabeDaOS'
  BY <1>2, <1>3, Estados DEF SabeDaOS, DaOS
<1>10. TaskUnica' /\ VinculoDaTask'
  BY <1>3 DEF TaskUnica, VinculoDaTask
<1>11. QED
  BY <1>4, <1>7, <1>8, <1>9, <1>10

\* create-task re-reads the OS, and either ends or goes on to the search.
LEMMA LerInv ==
    ASSUME IInv, NEW a \in Aberturas, LerOS(a) \/ LeituraFalha(a)
    PROVE  IInv'
<1> DEFINE x == [pc |-> "buscar", os |-> abre[a].os]
<1>1. abre[a].pc = "ler" /\ Calmo /\ UNCHANGED <<adotadas, ent>>
  BY DEF LerOS, LeituraFalha, Calmo
<1>2. CASE Sair(a)
  BY <1>1, <1>2, SairInv
<1>3. CASE Falhar(a)
  BY <1>1, <1>3, FalharInv
<1>4. CASE os[abre[a].os].task = 0 /\ Ir(a, x)
  <2>1. abre[a].os \in OSs
    BY <1>1, Estados DEF IInv
  <2>2. x \in Abertura /\ NaReserva(a, x.os)
    BY <1>1, <2>1 DEF Abertura, NaReserva
  <2>3. QED
    BY <1>1, <1>4, <2>2, CalmoInv
<1>5. QED
  BY <1>2, <1>3, <1>4 DEF LerOS, LeituraFalha

LEMMA BuscarInv ==
    ASSUME IInv, NEW a \in Aberturas, Buscar(a) \/ BuscaFalha(a)
    PROVE  IInv'
<1> DEFINE o == abre[a].os
<1>1. abre[a].pc = "buscar" /\ Calmo /\ UNCHANGED <<adotadas, ent>>
  BY DEF Buscar, BuscaFalha, Calmo
<1>2. o \in OSs /\ NaReserva(a, o) /\ os[o].task = 0
  BY <1>1, Estados DEF IInv, NaReserva, SabeDaOS
<1>3. ASSUME NEW k \in DaOS(o), Ir(a, [pc |-> "gravar", os |-> o, task |-> k])
      PROVE  IInv'
  <2> DEFINE x == [pc |-> "gravar", os |-> o, task |-> k]
  <2>1. k \in Nat
    BY DEF DaOS, IInv, TypeOK
  <2>2. x \in Abertura
    BY <1>2, <2>1 DEF Abertura
  <2>3. QED
    BY <1>1, <1>2, <1>3, <2>2, CalmoInv
<1>4. ASSUME NEW c \in BOOLEAN, ~c => DaOS(o) = {},
             Ir(a, [pc |-> "criar", os |-> o, cega |-> c])
      PROVE  IInv'
  <2> DEFINE x == [pc |-> "criar", os |-> o, cega |-> c]
  <2>1. x \in Abertura
    BY <1>2 DEF Abertura
  <2>2. QED
    BY <1>1, <1>2, <1>4, <2>1, CalmoInv
<1>5. CASE Falhar(a)
  BY <1>1, <1>5, FalharInv
<1>6. QED
  BY <1>3, <1>4, <1>5 DEF Buscar, BuscaFalha

LEMMA CriarInv ==
    ASSUME IInv, NEW a \in Aberturas, Criar(a) \/ CriacaoFalha(a)
    PROVE  IInv'
<1> DEFINE o == abre[a].os
           n == Len(tasks) + 1
           g == [pc |-> "gravar", os |-> o, task |-> n]
           f == [pc |-> "falhar", os |-> o]
<1>1. abre[a].pc = "criar" /\ UNCHANGED <<os, vencida, adotadas, ent>>
  BY DEF Criar, CriacaoFalha
<1>2. o \in OSs /\ n \in Nat
  BY <1>1, Estados DEF IInv, TypeOK
<1>3. g \in Abertura /\ f \in Abertura
  BY <1>2 DEF Abertura
<1>4. CASE Postar(a) /\ Ir(a, g)
  BY <1>1, <1>3, <1>4, PostarInv
<1>5. CASE Postar(a) /\ Falhar(a)
  BY <1>1, <1>3, <1>5, PostarInv DEF Falhar
<1>6. CASE UNCHANGED tasks /\ Falhar(a)
  BY <1>1, <1>6, FalharInv DEF Calmo
<1>7. QED
  BY <1>4, <1>5, <1>6 DEF Criar, CriacaoFalha

LEMMA GravarInv ==
    ASSUME IInv, NEW a \in Aberturas, Gravar(a) \/ GravacaoFalha(a)
    PROVE  IInv'
<1> DEFINE o == abre[a].os
           v == [sync |-> "synced", task |-> abre[a].task]
           f == [pc |-> "falhar", os |-> o]
<1>1. abre[a].pc = "gravar" /\ UNCHANGED <<tasks, adotadas, ent>>
  BY DEF Gravar, GravacaoFalha
<1>2. o \in OSs /\ NaReserva(a, o) /\ abre[a].task \in DaOS(o)
  BY <1>1, Estados DEF IInv, NaReserva, SabeDaOS
<1>3. v \in Vinculo /\ v.task # 0
  BY <1>2 DEF Vinculo, DaOS, IInv, TypeOK
<1>4. Ociosa \in Abertura /\ Ociosa.pc = "ociosa" /\ f \in Abertura
  BY <1>2 DEF Abertura, Ociosa
<1>5. CASE Vincular(a) /\ Sair(a)
  BY <1>1, <1>2, <1>3, <1>4, <1>5, EscreverInv DEF Vincular, Sair
<1>6. CASE Vincular(a) /\ Falhar(a)
  BY <1>1, <1>2, <1>3, <1>4, <1>6, EscreverInv DEF Vincular, Falhar
<1>7. CASE UNCHANGED <<os, vencida>> /\ Falhar(a)
  BY <1>1, <1>7, FalharInv DEF Calmo
<1>8. QED
  BY <1>5, <1>6, <1>7 DEF Gravar, GravacaoFalha

\* The reservation is exclusive, so a failed opening that marks its OS ends
\* nobody else's.
LEMMA MarcarInv ==
    ASSUME IInv, NEW a \in Aberturas, MarcarFalha(a)
    PROVE  IInv'
<1> DEFINE o == abre[a].os
           v == [os[o] EXCEPT !.sync = "failed"]
<1>1. abre[a].pc = "falhar" /\ Sair(a) /\ UNCHANGED <<tasks, adotadas, ent>>
  BY DEF MarcarFalha
<1>2. o \in OSs /\ NaReserva(a, o)
  BY <1>1, Estados DEF IInv, NaReserva
<1>3. v \in Vinculo /\ v.task = os[o].task
  BY <1>2 DEF IInv, TypeOK, Vinculo
<1>4. v.task # 0 => v.task \in DaOS(o)
  BY <1>2, <1>3 DEF IInv, VinculoDaTask, DaOS
<1>5. Ociosa \in Abertura /\ Ociosa.pc = "ociosa"
  BY DEF Abertura, Ociosa
<1>6. CASE os' = [os EXCEPT ![o].sync = "failed"] /\ vencida' = vencida \ {o}
  <2>1. os' = [os EXCEPT ![o] = v]
    BY <1>2, <1>6 DEF IInv, TypeOK, Vinculo
  <2> HIDE DEF v
  <2>2. QED
    BY <1>1, <1>2, <1>3, <1>4, <1>5, <1>6, <2>1, EscreverInv DEF Sair
<1>7. CASE UNCHANGED <<os, vencida>>
  BY <1>1, <1>7, SairInv DEF Calmo
<1>8. QED
  BY <1>6, <1>7 DEF MarcarFalha

\* Whoever leaves without writing: a refused reservation, a crash.
LEMMA LargarInv ==
    ASSUME IInv, NEW a \in Aberturas, ReservaNegada(a) \/ Queda(a)
    PROVE  IInv'
<1>1. Sair(a) /\ Calmo /\ UNCHANGED <<adotadas, ent>>
  BY DEF ReservaNegada, Queda, Calmo
<1>2. QED
  BY <1>1, SairInv

\* An edit renews the reservation; it lapses only when its opening is over.
LEMMA PrazoInv ==
    ASSUME IInv, NEW o \in OSs, Editar(o) \/ Vencer(o)
    PROVE  IInv'
<1> USE DEF IInv
<1>1. UNCHANGED <<os, tasks, adotadas, abre, ent>>
  BY DEF Editar, Vencer
<1>2. TypeOK' /\ LoteExiste'
  BY <1>1 DEF TypeOK, LoteExiste, Editar, Vencer
<1>3. Reservada'
  BY <1>1 DEF Reservada, NaReserva, Editar, Vencer
<1>4. AberturaExclusiva' /\ SabeDaOS' /\ TaskUnica' /\ VinculoDaTask'
  BY <1>1 DEF AberturaExclusiva, NaReserva, SabeDaOS, DaOS, TaskUnica,
              VinculoDaTask
<1>5. QED
  BY <1>2, <1>3, <1>4

LEMMA TecnicoCriaInv ==
    ASSUME IInv, TecnicoCria
    PROVE  IInv'
<1> USE DEF IInv
<1> DEFINE t == [ref |-> SemOS, cega |-> FALSE]
<1>1. /\ t \in Task /\ tasks' = Append(tasks, t)
      /\ UNCHANGED <<os, vencida, adotadas, abre, ent>>
  BY DEF Task, TecnicoCria
<1>2. /\ TaskUnica' /\ VinculoDaTask'
      /\ \A p \in OSs : DaOS(p)' = DaOS(p)
  BY <1>1, TaskNova, SemOSAssumption
<1>3. tasks' \in Seq(Task) /\ DOMAIN tasks \subseteq DOMAIN tasks'
  BY <1>1, PostarEfeito
<1>4. TypeOK' /\ LoteExiste'
  BY <1>1, <1>3 DEF TypeOK, LoteExiste
<1>5. Reservada' /\ AberturaExclusiva'
  BY <1>1 DEF Reservada, AberturaExclusiva, NaReserva
<1>6. SabeDaOS'
  <2> SUFFICES ASSUME NEW a \in Aberturas
               PROVE  /\ abre[a].pc \in {"buscar", "criar", "gravar"}
                           => os[abre[a].os].task = 0
                      /\ abre[a].pc = "criar" /\ ~abre[a].cega
                           => DaOS(abre[a].os)' = {}
                      /\ abre[a].pc = "gravar" => abre[a].task \in DaOS(abre[a].os)'
    BY <1>1 DEF SabeDaOS
  <2>1. CASE abre[a].pc \in {"criar", "gravar"}
    <3>1. abre[a].os \in OSs
      BY <2>1, Estados
    <3>2. DaOS(abre[a].os)' = DaOS(abre[a].os)
      BY <1>1, <1>2, <3>1 DEF DaOS
    <3>3. QED
      BY <3>2 DEF SabeDaOS
  <2>2. CASE abre[a].pc \notin {"criar", "gravar"}
    BY <2>2 DEF SabeDaOS
  <2>3. QED
    BY <2>1, <2>2
<1>7. QED
  BY <1>2, <1>4, <1>5, <1>6

LEMMA EntradaInv ==
    ASSUME IInv, NEW e \in Entradas, Conferir(e) \/ Inserir(e)
    PROVE  IInv'
<1> USE DEF IInv
<1>1. UNCHANGED <<os, vencida, tasks, abre>>
  BY DEF Conferir, Inserir
<1>2. TypeOK' /\ LoteExiste'
  <2>1. DOMAIN tasks \subseteq Nat
    BY DEF TypeOK
  <2>2. CASE Conferir(e)
    <3>1. PICK T \in SUBSET DOMAIN tasks :
            ent' = [ent EXCEPT ![e] = [pc |-> "inserir", quais |-> T \ Conhecidas]]
      BY <2>2 DEF Conferir
    <3>2. [pc |-> "inserir", quais |-> T \ Conhecidas] \in Entrada
      BY <2>1 DEF Entrada
    <3>3. QED
      BY <1>1, <2>2, <3>1, <3>2 DEF TypeOK, LoteExiste, Conferir
  <2>3. CASE Inserir(e)
    <3>1. Ociosa \in Entrada
      BY DEF Entrada, Ociosa
    <3>2. adotadas' \subseteq DOMAIN tasks
      BY <2>3 DEF TypeOK, LoteExiste, Inserir
    <3>3. QED
      BY <1>1, <2>3, <3>1, <3>2 DEF TypeOK, LoteExiste, Inserir, Ociosa
  <2>4. QED
    BY <2>2, <2>3
<1>3. Reservada' /\ AberturaExclusiva' /\ SabeDaOS' /\ TaskUnica' /\ VinculoDaTask'
  BY <1>1 DEF Reservada, AberturaExclusiva, NaReserva, SabeDaOS, DaOS,
              TaskUnica, VinculoDaTask
<1>4. QED
  BY <1>2, <1>3

-----------------------------------------------------------------------------
(* The theorems.                                                           *)

LEMMA Inicio == Init => IInv
<1> SUFFICES ASSUME Init PROVE IInv
  OBVIOUS
<1>1. tasks \in Seq(Task) /\ DOMAIN tasks = {}
  BY DEF Init
<1>2. TypeOK
  BY <1>1 DEF Init, TypeOK, Vinculo, Abertura, Entrada
<1>3. QED
  BY <1>1, <1>2 DEF IInv, Init, LoteExiste, Reservada, AberturaExclusiva, NaReserva,
                    SabeDaOS, TaskUnica, VinculoDaTask, Ociosa

LEMMA Passo ==
    ASSUME IInv, [Next]_vars
    PROVE  IInv'
<1>1. ASSUME NEW a \in Aberturas, Abrir(a) \/ Queda(a) PROVE IInv'
  BY <1>1, ClicarInv, ReservarInv, LargarInv, LerInv, BuscarInv, CriarInv,
     GravarInv, MarcarInv DEF Abrir
<1>2. CASE UNCHANGED vars
  BY <1>2 DEF vars, IInv, TypeOK, LoteExiste, Reservada, AberturaExclusiva, NaReserva,
              SabeDaOS, DaOS, TaskUnica, VinculoDaTask
<1>3. QED
  BY <1>1, <1>2, PrazoInv, TecnicoCriaInv, EntradaInv DEF Next

\* The strengthened invariant: each opening knows what is so, and the
\* reservation it holds keeps it so until it is done.
THEOREM InvarianteDaAbertura == Spec => []IInv
  BY Inicio, Passo, PTL DEF Spec

\* Every variable keeps its type.
THEOREM TipoDaAbertura == Spec => []TypeOK
<1>1. IInv => TypeOK
  BY DEF IInv
<1>2. QED
  BY <1>1, InvarianteDaAbertura, PTL

\* Two openings never work on the same OS past the reservation.
THEOREM ReservaExclui == Spec => []AberturaExclusiva
<1>1. IInv => AberturaExclusiva
  BY DEF IInv
<1>2. QED
  BY <1>1, InvarianteDaAbertura, PTL

\* An OS never gets a second task, unless the search for the first was refused.
THEOREM NuncaDuplica == Spec => []TaskUnica
<1>1. IInv => TaskUnica
  BY DEF IInv
<1>2. QED
  BY <1>1, InvarianteDaAbertura, PTL

\* An OS is only ever linked to a task of its own.
THEOREM VinculaASua == Spec => []VinculoDaTask
<1>1. IInv => VinculoDaTask
  BY DEF IInv
<1>2. QED
  BY <1>1, InvarianteDaAbertura, PTL

LEMMA PassoEstavel ==
    ASSUME IInv, [Next]_vars, NEW o \in OSs, os[o].task # 0
    PROVE  os'[o].task = os[o].task
<1> USE DEF IInv
<1>1. ASSUME NEW a \in Aberturas, Vincular(a), abre[a].pc = "gravar"
      PROVE  os'[o] = os[o]
  <2>1. abre[a].os # o
    BY <1>1 DEF SabeDaOS
  <2>2. QED
    BY <1>1, <2>1 DEF Vincular, TypeOK
<1>2. ASSUME NEW p, NEW s, os' = [os EXCEPT ![p].sync = s]
      PROVE  os'[o].task = os[o].task
  <2>1. os[o] \in Vinculo
    BY DEF TypeOK
  <2>2. CASE p = o
    <3>1. os'[o] = [os[o] EXCEPT !.sync = s]
      BY <1>2, <2>2 DEF TypeOK
    <3>2. QED
      BY <2>1, <3>1 DEF Vinculo
  <2>3. CASE p # o
    BY <1>2, <2>3 DEF TypeOK
  <2>4. QED
    BY <2>2, <2>3
<1>3. ASSUME NEW a \in Aberturas, Abrir(a) \/ Queda(a)
      PROVE  os'[o].task = os[o].task
  <2>1. CASE Reservar(a)
    BY <1>2, <2>1 DEF Reservar
  <2>2. CASE MarcarFalha(a)
    BY <1>2, <2>2 DEF MarcarFalha
  <2>3. CASE Gravar(a) \/ GravacaoFalha(a)
    BY <1>1, <2>3 DEF Gravar, GravacaoFalha
  <2>4. CASE UNCHANGED os
    BY <2>4
  <2>5. QED
    BY <1>3, <2>1, <2>2, <2>3, <2>4 DEF Abrir, Clicar, ReservaNegada, LerOS,
       LeituraFalha, Buscar, BuscaFalha, Criar, CriacaoFalha, Queda
<1>4. QED
  BY <1>3 DEF Next, Editar, Vencer, TecnicoCria, Conferir, Inserir, vars

\* The task of an OS is never replaced by another.
THEOREM VinculoNaoMuda == Spec => VinculoEstavel
<1>1. IInv /\ [Next]_vars => [\A o \in OSs : os[o].task # 0 => os'[o].task = os[o].task]_vars
  BY PassoEstavel
<1>2. QED
  BY <1>1, InvarianteDaAbertura, PTL DEF Spec, VinculoEstavel
=============================================================================
