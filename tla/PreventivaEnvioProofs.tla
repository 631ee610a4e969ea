------------------------ MODULE PreventivaEnvioProofs ------------------------
(***************************************************************************)
(* Proofs about PreventivaEnvio, for any number of occurrences, visits,    *)
(* confirmations and openings, and any faults: what is offered as          *)
(* available was confirmed, and what is uncertain is not created again.    *)
(***************************************************************************)
EXTENDS PreventivaEnvio, SequenceTheorems, TLAPS

\* Places where a confirmation holds the occurrence it took.
Tem == {"preparar", "postar", "verificar", "gravar", "falhar"}

\* Tasks that a confirmation created for o.
Enviada(o, k) == tasks[k].ref = o /\ origem[k].envio

\* The Auvo refused each of them, or each but k.
Recusadas(o) == \A j \in DOMAIN tasks : Enviada(o, j) => origem[j].recusada
RecusadasMenos(o, k) ==
    \A j \in DOMAIN tasks \ {k} : Enviada(o, j) => origem[j].recusada

\* The tasks an import is about to insert exist.
LoteExiste ==
    \A i \in Entradas : ent[i].pc = "inserir" => ent[i].quais \subseteq DOMAIN tasks

\* Two confirmations never hold one occurrence.
Exclusiva ==
    \A e, f \in Envios :
        envia[e].pc \in Tem /\ envia[f].pc \in Tem /\ envia[e].oc = envia[f].oc => e = f

\* An occurrence that may be taken has no task the Auvo did not refuse.
RepeteSemDuplicar == \A o \in Ocorrencias : Repetivel(o) => Recusadas(o)

\* What a confirmation in state x knows is so.
SabeDe(x) ==
    /\ x.pc \in Tem => ~Repetivel(x.oc)
    /\ x.pc \in {"preparar", "postar", "verificar"} => oc[x.oc].estado = "enviando"
    /\ x.pc \in {"preparar", "postar", "verificar", "gravar"} =>
            oc[x.oc].visita = x.visita
    /\ x.pc \in {"preparar", "postar"} => Recusadas(x.oc)
    /\ x.pc \in {"verificar", "gravar"} =>
            x.task \in DOMAIN tasks /\ tasks[x.task].ref = x.oc
    /\ x.pc = "verificar" => RecusadasMenos(x.oc, x.task)
    /\ x.pc = "gravar" => origem[x.task].lida = x.visita
    /\ x.pc = "falhar" /\ x.estado = "falha" => Recusadas(x.oc)

Sabe(e) == SabeDe(envia[e])

IInv == /\ TypeOK /\ LoteExiste /\ Exclusiva /\ RepeteSemDuplicar
        /\ \A e \in Envios : Sabe(e)
        /\ DisponivelConfirmada /\ IncertaNaoRepete

-----------------------------------------------------------------------------
(* The records of a confirmation and of an occurrence, and what changes    *)
(* them.                                                                   *)

Ativo == [pc : {"tomar", "preparar", "postar", "verificar", "gravar", "falhar", "vincular"},
          oc : Ocorrencias, visita : Visitas, task : Nat,
          falta : SUBSET {"os", "ocorrencia"}, erro : BOOLEAN,
          estado : {"falha", "incerto"}]

LEMMA Registro ==
    ASSUME TypeOK, NEW e \in Envios
    PROVE  /\ envia[e] \in Envio /\ Ociosa \in Envio /\ Ociosa.pc = "ociosa"
           /\ envia[e].pc = "ociosa" <=> envia[e] = Ociosa
           /\ envia[e].pc # "ociosa" => envia[e] \in Ativo
BY DEF TypeOK, Envio, Ociosa, Ativo

LEMMA AtivoEhEnvio == Ativo \subseteq Envio
BY DEF Ativo, Envio

LEMMA Novo ==
    ASSUME NEW r \in Ativo, NEW p \in Tem \cup {"tomar", "vincular"}, NEW k \in Nat,
           NEW z \in {"falha", "incerto"}
    PROVE  /\ [r EXCEPT !.pc = p] \in Ativo
           /\ [r EXCEPT !.pc = p, !.task = k] \in Ativo
           /\ [r EXCEPT !.pc = p, !.task = k, !.estado = z] \in Ativo
BY DEF Ativo, Tem

LEMMA IrEfeito ==
    ASSUME TypeOK, NEW e \in Envios, NEW x \in Envio, Ir(e, x)
    PROVE  /\ envia' \in [Envios -> Envio] /\ envia'[e] = x
           /\ \A f \in Envios \ {e} : envia'[f] = envia[f]
BY DEF TypeOK, Ir

LEMMA Tarefas ==
    ASSUME TypeOK
    PROVE  /\ tasks \in Seq(Abertura!Task) /\ origem \in Seq(Origem)
           /\ Len(tasks) \in Nat /\ Len(origem) = Len(tasks)
           /\ DOMAIN tasks = 1 .. Len(tasks) /\ DOMAIN origem = DOMAIN tasks
BY DEF TypeOK, Abertura!TypeOK

\* What is known of the tasks of p survives what happens to those of others.
LEMMA RecusadasFica ==
    ASSUME NEW p, NEW o, p # o,
           DOMAIN tasks \subseteq DOMAIN tasks',
           \A k \in DOMAIN tasks : tasks'[k] = tasks[k]
                                  /\ (tasks[k].ref # o => origem'[k] = origem[k]),
           \A k \in DOMAIN tasks' \ DOMAIN tasks : tasks'[k].ref = o \/ ~origem'[k].envio
    PROVE  /\ Recusadas(p) => Recusadas(p)'
           /\ \A k : RecusadasMenos(p, k) => RecusadasMenos(p, k)'
BY DEF Recusadas, RecusadasMenos, Enviada

\* A step about occurrence o leaves what the others know as it is.
Alheio(o) ==
    /\ \A p \in Ocorrencias \ {o} : oc'[p] = oc[p]
    /\ DOMAIN tasks \subseteq DOMAIN tasks'
    /\ \A k \in DOMAIN tasks : tasks'[k] = tasks[k]
                               /\ (tasks[k].ref # o => origem'[k] = origem[k])
    /\ \A k \in DOMAIN tasks' \ DOMAIN tasks : tasks'[k].ref = o \/ ~origem'[k].envio

LEMMA SabeFica ==
    ASSUME NEW o, NEW x, x.pc # "ociosa" => x.oc \in Ocorrencias, SabeDe(x), Alheio(o),
           x.pc \in Tem => x.oc # o
    PROVE  SabeDe(x)'
<1>1. CASE x.pc \notin Tem
    BY <1>1 DEF SabeDe, Tem
<1>2. CASE x.pc \in Tem
    <2>1. x.oc \in Ocorrencias /\ x.oc # o /\ oc'[x.oc] = oc[x.oc]
        BY <1>2 DEF Tem, Alheio
    <2>2. /\ Recusadas(x.oc) => Recusadas(x.oc)'
          /\ RecusadasMenos(x.oc, x.task) => RecusadasMenos(x.oc, x.task)'
        BY <2>1, RecusadasFica DEF Alheio
    <2>3. x.pc \in {"verificar", "gravar"} =>
            /\ x.task \in DOMAIN tasks' /\ tasks'[x.task].ref = x.oc
            /\ origem'[x.task] = origem[x.task]
        BY <2>1 DEF SabeDe, Alheio
    <2>. QED
        BY <2>1, <2>2, <2>3 DEF SabeDe, Repetivel
<1>. QED
    BY <1>1, <1>2

\* A confirmation moves: what the others know stays, and nobody else takes
\* the occurrence.
LEMMA PassoEnvio ==
    ASSUME IInv, NEW e \in Envios, NEW o \in Ocorrencias, NEW x \in Envio, Ir(e, x),
           Alheio(o),
           \A f \in Envios \ {e} : envia[f].pc \in Tem => envia[f].oc # o,
           x.pc \in Tem => x.oc = o,
           SabeDe(x)', Repetivel(o)' => Recusadas(o)'
    PROVE  Exclusiva' /\ (\A f \in Envios : Sabe(f)') /\ RepeteSemDuplicar'
<1>1. TypeOK /\ envia'[e] = x /\ \A f \in Envios \ {e} : envia'[f] = envia[f]
    BY IrEfeito DEF IInv
<1>2. Exclusiva'
    BY <1>1 DEF IInv, Exclusiva
<1>3. ASSUME NEW f \in Envios
      PROVE  Sabe(f)'
    <2>1. CASE f = e
        BY <1>1, <2>1 DEF Sabe, SabeDe, Repetivel, Recusadas, RecusadasMenos, Enviada
    <2>2. CASE f # e
        <3>. DEFINE y == envia[f]
        <3>1. SabeDe(y) /\ (y.pc \in Tem => y.oc # o) /\ envia'[f] = y
            BY <1>1, <2>2 DEF IInv, Sabe
        <3>2. y.pc # "ociosa" => y.oc \in Ocorrencias
            BY <1>1, Registro DEF Ativo
        <3>3. PICK z : z = y
            OBVIOUS
        <3>4. SabeDe(z)'
            BY <3>1, <3>2, <3>3, SabeFica
        <3>. QED
            BY <3>1, <3>3, <3>4
               DEF Sabe, SabeDe, Repetivel, Recusadas, RecusadasMenos, Enviada
    <2>. QED
        BY <2>1, <2>2
<1>4. ASSUME NEW p \in Ocorrencias, Repetivel(p)'
      PROVE  Recusadas(p)'
    <2>1. CASE p = o
        BY <1>4, <2>1
    <2>2. CASE p # o
        <3>1. Repetivel(p)
            BY <1>4, <2>2 DEF Repetivel, Alheio
        <3>. QED
            BY <2>2, <3>1, RecusadasFica DEF IInv, RepeteSemDuplicar, Alheio
    <2>. QED
        BY <2>1, <2>2
<1>. QED
    BY <1>2, <1>3, <1>4 DEF RepeteSemDuplicar

\* Steps that change neither the tasks nor the occurrences.
LEMMA SoEnvio ==
    ASSUME IInv, NEW e \in Envios, NEW x \in Envio, Ir(e, x),
           UNCHANGED <<tasks, origem, oc, ent>>, Abertura!TypeOK',
           inseridas' \subseteq Ocorrencias, SabeDe(x),
           x.pc \in Tem => envia[e].pc \in Tem /\ x.oc = envia[e].oc
    PROVE  IInv'
<1>1. /\ TypeOK /\ envia' \in [Envios -> Envio] /\ envia'[e] = x
      /\ \A f \in Envios \ {e} : envia'[f] = envia[f]
    BY IrEfeito DEF IInv
<1>2. TypeOK'
    BY <1>1 DEF TypeOK
<1>3. LoteExiste' /\ RepeteSemDuplicar' /\ DisponivelConfirmada' /\ IncertaNaoRepete'
    BY DEF IInv, LoteExiste, RepeteSemDuplicar, Repetivel, Recusadas, Enviada,
           DisponivelConfirmada, IncertaNaoRepete, Repetida
<1>4. Exclusiva'
    BY <1>1 DEF IInv, Exclusiva
<1>5. \A f \in Envios : Sabe(f)'
    BY <1>1 DEF IInv, Sabe, SabeDe, Repetivel, Recusadas, RecusadasMenos, Enviada
<1>. QED
    BY <1>2, <1>3, <1>4, <1>5 DEF IInv

\* The tables of AberturaAuvo, kept or with one OS written.
LEMMA TabelasFicam ==
    ASSUME TypeOK, UNCHANGED daAbertura
    PROVE  Abertura!TypeOK'
BY DEF TypeOK, daAbertura, Abertura!TypeOK

LEMMA VincularTipo ==
    ASSUME TypeOK, NEW e \in Envios, envia[e].pc # "ociosa",
           NEW sync \in {"synced", "failed"}, Vincular(e, sync),
           UNCHANGED <<tasks, adotadas, abre, ent>>
    PROVE  Abertura!TypeOK'
<1>1. envia[e].oc \in Ocorrencias /\ envia[e].task \in Nat
    BY Registro DEF Ativo
<1>2. [sync |-> sync, task |-> envia[e].task] \in Abertura!Vinculo
    BY <1>1 DEF Abertura!Vinculo
<1>. QED
    BY <1>1, <1>2 DEF TypeOK, Abertura!TypeOK, Vincular

\* A confirmation ends or dies.
LEMMA SairInv ==
    ASSUME IInv, NEW e \in Envios, Sair(e), UNCHANGED <<tasks, origem, oc, ent>>,
           Abertura!TypeOK', inseridas' \subseteq Ocorrencias
    PROVE  IInv'
<1>1. Ociosa \in Envio /\ Ociosa.pc = "ociosa"
    BY Registro DEF IInv
<1>2. SabeDe(Ociosa)
    BY <1>1 DEF SabeDe, Tem
<1>3. Ociosa.pc \notin Tem
    BY <1>1 DEF Tem
<1>4. Ir(e, Ociosa)
    BY DEF Sair
<1>. QED
    BY <1>1, <1>2, <1>3, <1>4, SoEnvio

-----------------------------------------------------------------------------
(* Steps of a confirmation that write neither its occurrence nor a task.   *)

LEMMA LancarInv ==
    ASSUME IInv, NEW e \in Envios, NEW k \in Nat, NEW ini \in BOOLEAN, NEW rec \in BOOLEAN,
           Lancar(e, k, ini, rec), envia[e].pc \in Tem,
           Classificar(ini, rec) = "falha" => Recusadas(envia[e].oc),
           UNCHANGED <<daAbertura, inseridas, oc, origem>>
    PROVE  IInv'
<1>. DEFINE z == Classificar(ini, rec)
            x == [envia[e] EXCEPT !.pc = "falhar", !.task = k, !.estado = z]
<1>1. TypeOK /\ envia[e] \in Ativo /\ z \in {"falha", "incerto"}
    BY Registro DEF IInv, Tem, Classificar
<1>2. Ir(e, x)
    BY DEF Lancar
<1>3. z = "falha" => Recusadas(envia[e].oc)
    OBVIOUS
<1>4. ~Repetivel(envia[e].oc)
    BY DEF IInv, Sabe, SabeDe
<1>. HIDE DEF z
<1>5. x \in Ativo /\ x.pc = "falhar" /\ x.oc = envia[e].oc /\ x.estado = z
    <2>1. "falhar" \in Tem \cup {"tomar", "vincular"}
        BY DEF Tem
    <2>2. x \in Ativo
        BY <1>1, <2>1, Novo
    <2>. QED
        BY <1>1, <2>2 DEF Ativo
<1>. HIDE DEF x
<1>6. SabeDe(x)
    BY <1>3, <1>4, <1>5 DEF SabeDe, Tem
<1>7. Abertura!TypeOK' /\ inseridas' \subseteq Ocorrencias
    BY <1>1, TabelasFicam DEF TypeOK
<1>. QED
    BY <1>2, <1>5, <1>6, <1>7, AtivoEhEnvio, SoEnvio DEF daAbertura

LEMMA ConfirmarInv ==
    ASSUME IInv, NEW e \in Envios, NEW o \in Ocorrencias, NEW v \in Visitas,
           Confirmar(e, o, v)
    PROVE  IInv'
<1>. DEFINE x == [pc |-> "tomar", oc |-> o, visita |-> v, task |-> 0,
                  falta |-> {"os", "ocorrencia"}, erro |-> FALSE, estado |-> "incerto"]
<1>1. TypeOK
    BY DEF IInv
<1>2. x \in Ativo /\ x.pc = "tomar"
    BY DEF Ativo
<1>3. Ir(e, x) /\ UNCHANGED <<daAbertura, inseridas, oc, origem>>
    BY DEF Confirmar
<1>. HIDE DEF x
<1>4. SabeDe(x) /\ x.pc \notin Tem
    BY <1>2 DEF SabeDe, Tem
<1>5. Abertura!TypeOK' /\ inseridas' \subseteq Ocorrencias
    BY <1>1, <1>3, TabelasFicam DEF TypeOK
<1>. QED
    BY <1>2, <1>3, <1>4, <1>5, AtivoEhEnvio, SoEnvio DEF daAbertura

LEMMA PararInv ==
    ASSUME IInv, NEW e \in Envios, TomadaNegada(e) \/ Queda(e)
    PROVE  IInv'
<1>1. Sair(e) /\ UNCHANGED <<daAbertura, inseridas, oc, origem>>
    BY DEF TomadaNegada, Queda
<1>2. Abertura!TypeOK' /\ inseridas' \subseteq Ocorrencias
    BY <1>1, TabelasFicam DEF IInv, TypeOK
<1>. QED
    BY <1>1, <1>2, SairInv DEF daAbertura

LEMMA PrepararInv ==
    ASSUME IInv, NEW e \in Envios, Preparar(e)
    PROVE  IInv'
<1>. DEFINE x == [envia[e] EXCEPT !.pc = "postar"]
<1>1. TypeOK /\ envia[e].pc = "preparar" /\ envia[e] \in Ativo /\ SabeDe(envia[e])
    BY Registro DEF IInv, Preparar, Sabe
<1>2. Ir(e, x) /\ inseridas' = inseridas \cup {envia[e].oc}
      /\ UNCHANGED <<daAbertura, oc, origem>>
    BY DEF Preparar, Vai
<1>3. x \in Ativo /\ x.pc = "postar" /\ x.oc = envia[e].oc /\ x.visita = envia[e].visita
    BY <1>1 DEF Ativo
<1>. HIDE DEF x
<1>4. SabeDe(x)
    BY <1>1, <1>3 DEF SabeDe, Tem
<1>5. Abertura!TypeOK' /\ inseridas' \subseteq Ocorrencias
    BY <1>1, <1>2, TabelasFicam DEF TypeOK, Ativo
<1>. QED
    BY <1>1, <1>2, <1>3, <1>4, <1>5, AtivoEhEnvio, SoEnvio DEF daAbertura, Tem

LEMMA PreparoFalhaInv ==
    ASSUME IInv, NEW e \in Envios, PreparoFalha(e)
    PROVE  IInv'
<1>1. /\ envia[e].pc = "preparar" /\ Lancar(e, 0, FALSE, FALSE)
      /\ UNCHANGED <<daAbertura, inseridas, oc, origem>>
    BY DEF PreparoFalha
<1>2. Recusadas(envia[e].oc) /\ envia[e].pc \in Tem
    BY <1>1 DEF IInv, Sabe, SabeDe, Tem
<1>. QED
    BY <1>1, <1>2, LancarInv

\* A write that leaves the occurrence alone; the OS may have got its task.
LEMMA GravouInv ==
    ASSUME IInv, NEW e \in Envios, NEW q \in {"os", "ocorrencia"}, NEW b \in BOOLEAN,
           envia[e].pc = "gravar", Gravou(e, q, b),
           Abertura!TypeOK', UNCHANGED <<tasks, ent, inseridas, oc, origem>>
    PROVE  IInv'
<1>. DEFINE r == envia[e]
            x == [r EXCEPT !.falta = @ \ {q}, !.erro = @ \/ b]
<1>1. TypeOK /\ r \in Ativo /\ SabeDe(r) /\ inseridas' \subseteq Ocorrencias
    BY Registro DEF IInv, Sabe, TypeOK
<1>2. Ir(e, x)
    BY DEF Gravou
<1>3. r.pc = "gravar"
    OBVIOUS
<1>4. r.falta \ {q} \in SUBSET {"os", "ocorrencia"} /\ (r.erro \/ b) \in BOOLEAN
    BY <1>1 DEF Ativo
<1>5. /\ x \in Ativo /\ x.pc = "gravar" /\ x.oc = r.oc /\ x.visita = r.visita
      /\ x.task = r.task
    BY <1>1, <1>3, <1>4 DEF Ativo
<1>. HIDE DEF x
<1>6. SabeDe(x)
    BY <1>1, <1>3, <1>5 DEF SabeDe, Tem
<1>. QED
    BY <1>1, <1>2, <1>3, <1>5, <1>6, AtivoEhEnvio, SoEnvio DEF Tem

LEMMA GravarOSInv ==
    ASSUME IInv, NEW e \in Envios, GravarOS(e)
    PROVE  IInv'
<1>1. TypeOK /\ envia[e].pc = "gravar"
      /\ UNCHANGED <<tasks, adotadas, abre, ent, inseridas, oc, origem>>
    BY DEF IInv, GravarOS
<1>2. CASE Vincular(e, "synced") /\ Gravou(e, "os", FALSE)
    BY <1>1, <1>2, VincularTipo, GravouInv
<1>3. CASE UNCHANGED <<os, vencida>> /\ Gravou(e, "os", TRUE)
    BY <1>1, <1>3, TabelasFicam, GravouInv DEF daAbertura
<1>. QED
    BY <1>2, <1>3 DEF GravarOS

LEMMA ResponderInv ==
    ASSUME IInv, NEW e \in Envios, Responder(e)
    PROVE  IInv'
<1>1. TypeOK /\ envia[e].pc = "gravar" /\ UNCHANGED <<daAbertura, inseridas, oc, origem>>
    BY DEF IInv, Responder
<1>2. CASE Sair(e)
    BY <1>1, <1>2, TabelasFicam, SairInv DEF TypeOK, daAbertura
<1>3. CASE Lancar(e, envia[e].task, TRUE, FALSE)
    BY <1>1, <1>3, Registro, LancarInv DEF Ativo, Tem, Classificar
<1>. QED
    BY <1>2, <1>3 DEF Responder

LEMMA MarcarOSInv ==
    ASSUME IInv, NEW e \in Envios, MarcarOS(e)
    PROVE  IInv'
<1>1. /\ TypeOK /\ envia[e].pc = "vincular" /\ Sair(e)
      /\ UNCHANGED <<tasks, adotadas, abre, ent, inseridas, oc, origem>>
    BY DEF IInv, MarcarOS
<1>2. CASE Vincular(e, "failed")
    BY <1>1, <1>2, VincularTipo, SairInv DEF TypeOK
<1>3. CASE UNCHANGED <<os, vencida>>
    BY <1>1, <1>3, TabelasFicam, SairInv DEF TypeOK, daAbertura
<1>. QED
    BY <1>2, <1>3 DEF MarcarOS

-----------------------------------------------------------------------------
(* Steps of a confirmation that write its occurrence.                      *)

LEMMA OcorrenciaEfeito ==
    ASSUME TypeOK, NEW o \in Ocorrencias, NEW r \in Ocorrencia, oc' = [oc EXCEPT ![o] = r]
    PROVE  /\ oc' \in [Ocorrencias -> Ocorrencia] /\ oc'[o] = r
           /\ \A p \in Ocorrencias \ {o} : oc'[p] = oc[p]
BY DEF TypeOK

LEMMA EscreverInv ==
    ASSUME IInv, NEW e \in Envios, NEW o \in Ocorrencias, NEW x \in Envio,
           NEW r \in Ocorrencia, Ir(e, x), oc' = [oc EXCEPT ![o] = r],
           UNCHANGED <<daAbertura, inseridas, origem>>,
           \A f \in Envios \ {e} : envia[f].pc \in Tem => envia[f].oc # o,
           x.pc \in Tem => x.oc = o, SabeDe(x)',
           r.estado \in {"prevista", "falha"} => Recusadas(o),
           r.estado = "disponivel" =>
                /\ r.task \in DOMAIN tasks /\ tasks[r.task].ref = o
                /\ origem[r.task].lida = r.visita
    PROVE  IInv'
<1>1. /\ TypeOK /\ oc' \in [Ocorrencias -> Ocorrencia] /\ oc'[o] = r
      /\ \A p \in Ocorrencias \ {o} : oc'[p] = oc[p]
      /\ envia' \in [Envios -> Envio]
      /\ UNCHANGED <<tasks, origem, ent, inseridas>>
    BY OcorrenciaEfeito, IrEfeito DEF IInv, daAbertura
<1>2. TypeOK'
    BY <1>1, TabelasFicam DEF TypeOK
<1>3. LoteExiste' /\ IncertaNaoRepete'
    BY <1>1 DEF IInv, LoteExiste, IncertaNaoRepete, Repetida
<1>4. Alheio(o)
    BY <1>1 DEF Alheio
<1>5. Repetivel(o)' => Recusadas(o)'
    BY <1>1 DEF Repetivel, Recusadas, Enviada
<1>6. DisponivelConfirmada'
    BY <1>1 DEF IInv, DisponivelConfirmada
<1>7. Exclusiva' /\ (\A f \in Envios : Sabe(f)') /\ RepeteSemDuplicar'
    BY <1>4, <1>5, PassoEnvio
<1>. QED
    BY <1>2, <1>3, <1>6, <1>7 DEF IInv

LEMMA TomarInv ==
    ASSUME IInv, NEW e \in Envios, Tomar(e)
    PROVE  IInv'
<1>. DEFINE o == envia[e].oc
            r == [oc[o] EXCEPT !.estado = "enviando", !.visita = envia[e].visita]
<1>1. TypeOK /\ envia[e].pc = "tomar" /\ envia[e] \in Ativo /\ Repetivel(o)
      /\ o \in Ocorrencias /\ oc[o] \in Ocorrencia /\ envia[e].visita \in Visitas
    BY Registro DEF IInv, Tomar, TypeOK, Ativo
<1>2. PICK x : x = [envia[e] EXCEPT !.pc = "preparar"]
    OBVIOUS
<1>3. Ir(e, x) /\ UNCHANGED <<daAbertura, inseridas, origem>>
    BY <1>2 DEF Tomar, Vai
<1>4. /\ x \in Ativo /\ x.pc = "preparar" /\ x.oc = o /\ x.visita = envia[e].visita
    BY <1>1, <1>2 DEF Ativo
<1>5. oc' = [oc EXCEPT ![o] = r]
    BY <1>1 DEF Tomar, TypeOK
<1>6. r \in Ocorrencia /\ r.estado = "enviando" /\ r.visita = envia[e].visita
    BY <1>1 DEF Ocorrencia
<1>7. oc'[o] = r
    BY <1>1, <1>5 DEF TypeOK
<1>8. Recusadas(o)
    BY <1>1 DEF IInv, RepeteSemDuplicar
<1>9. SabeDe(x)'
    <2>1. Recusadas(x.oc)'
        BY <1>3, <1>4, <1>8 DEF Recusadas, Enviada, daAbertura
    <2>2. oc'[x.oc].estado = "enviando" /\ oc'[x.oc].visita = x.visita
        BY <1>4, <1>6, <1>7
    <2>. QED
        BY <1>4, <2>1, <2>2 DEF SabeDe, Repetivel
<1>10. \A f \in Envios \ {e} : envia[f].pc \in Tem => envia[f].oc # o
    BY <1>1 DEF IInv, Sabe, SabeDe
<1>. HIDE DEF o, r
<1>. QED
    BY <1>1, <1>3, <1>4, <1>5, <1>6, <1>9, <1>10, AtivoEhEnvio, EscreverInv

\* A confirmation that holds its occurrence writes it: nobody else holds it.
LEMMA SoEle ==
    ASSUME IInv, NEW e \in Envios, envia[e].pc \in Tem
    PROVE  \A f \in Envios \ {e} : envia[f].pc \in Tem => envia[f].oc # envia[e].oc
BY DEF IInv, Exclusiva

LEMMA GravarOcorrenciaInv ==
    ASSUME IInv, NEW e \in Envios, GravarOcorrencia(e)
    PROVE  IInv'
<1>. DEFINE o == envia[e].oc
            r == [oc[o] EXCEPT !.estado = "disponivel", !.task = envia[e].task]
<1>1. TypeOK /\ envia[e].pc = "gravar" /\ envia[e] \in Ativo /\ SabeDe(envia[e])
      /\ o \in Ocorrencias /\ oc[o] \in Ocorrencia /\ envia[e].task \in Nat
      /\ UNCHANGED <<daAbertura, inseridas, origem>>
    BY Registro DEF IInv, GravarOcorrencia, TypeOK, Ativo, Sabe
<1>2. CASE UNCHANGED oc /\ Gravou(e, "ocorrencia", TRUE)
    BY <1>1, <1>2, TabelasFicam, GravouInv DEF daAbertura
<1>3. CASE /\ oc' = [oc EXCEPT ![envia[e].oc].estado = "disponivel",
                               ![envia[e].oc].task = envia[e].task]
           /\ Gravou(e, "ocorrencia", FALSE)
    <2>1. PICK x : x = [envia[e] EXCEPT !.falta = @ \ {"ocorrencia"}, !.erro = @ \/ FALSE]
        OBVIOUS
    <2>2. Ir(e, x)
        BY <1>3, <2>1 DEF Gravou
    <2>3. /\ x \in Ativo /\ x.pc = "gravar" /\ x.oc = o /\ x.visita = envia[e].visita
          /\ x.task = envia[e].task
        BY <1>1, <2>1 DEF Ativo
    <2>4. oc' = [oc EXCEPT ![o] = r]
        BY <1>1, <1>3 DEF TypeOK
    <2>5. r \in Ocorrencia /\ r.estado = "disponivel" /\ r.visita = oc[o].visita
          /\ r.task = envia[e].task
        BY <1>1 DEF Ocorrencia
    <2>6. oc'[o] = r
        BY <1>1, <2>4 DEF TypeOK
    <2>7. /\ envia[e].task \in DOMAIN tasks /\ tasks[envia[e].task].ref = o
          /\ origem[envia[e].task].lida = envia[e].visita
          /\ oc[o].visita = envia[e].visita
        BY <1>1 DEF SabeDe
    <2>8. SabeDe(x)'
        BY <1>1, <2>3, <2>5, <2>6, <2>7 DEF SabeDe, Repetivel, daAbertura
    <2>9. \A f \in Envios \ {e} : envia[f].pc \in Tem => envia[f].oc # o
        BY <1>1, SoEle DEF Tem
    <2>10. /\ x \in Envio /\ r.estado \notin {"prevista", "falha"}
           /\ r.task \in DOMAIN tasks /\ tasks[r.task].ref = o
           /\ origem[r.task].lida = r.visita
        BY <2>3, <2>5, <2>7, AtivoEhEnvio
    <2>. HIDE DEF o, r
    <2>. QED
        BY <1>1, <2>2, <2>3, <2>4, <2>5, <2>8, <2>9, <2>10, EscreverInv
<1>. QED
    BY <1>2, <1>3 DEF GravarOcorrencia

LEMMA MarcarOcorrenciaInv ==
    ASSUME IInv, NEW e \in Envios, MarcarOcorrencia(e)
    PROVE  IInv'
<1>. DEFINE o == envia[e].oc
            r == [oc[o] EXCEPT !.estado = envia[e].estado, !.task = envia[e].task]
            y == [envia[e] EXCEPT !.pc = "vincular"]
<1>1. TypeOK /\ envia[e].pc = "falhar" /\ envia[e] \in Ativo /\ SabeDe(envia[e])
      /\ o \in Ocorrencias /\ oc[o] \in Ocorrencia /\ envia[e].task \in Nat
      /\ envia[e].estado \in {"falha", "incerto"}
      /\ UNCHANGED <<daAbertura, inseridas, origem>>
    BY Registro DEF IInv, MarcarOcorrencia, TypeOK, Ativo, Sabe
<1>2. y \in Envio /\ y.pc = "vincular" /\ Ociosa \in Envio /\ Ociosa.pc = "ociosa"
    BY <1>1, AtivoEhEnvio, Registro DEF Ativo
<1>3. PICK x \in {Ociosa, y} : Ir(e, x)
    BY DEF MarcarOcorrencia, Sair, Vai
<1>. HIDE DEF y
<1>4. x \in Envio /\ x.pc \notin Tem
    BY <1>2, <1>3 DEF Tem
<1>5. SabeDe(x)'
    BY <1>4 DEF SabeDe, Tem
<1>6. SabeDe(x)
    BY <1>4 DEF SabeDe, Tem
<1>7. CASE UNCHANGED oc
    BY <1>1, <1>3, <1>4, <1>6, <1>7, TabelasFicam, SoEnvio DEF TypeOK, daAbertura
<1>8. CASE oc' = [oc EXCEPT ![envia[e].oc].estado = envia[e].estado,
                            ![envia[e].oc].task = envia[e].task]
    <2>1. oc' = [oc EXCEPT ![o] = r]
        BY <1>1, <1>8 DEF TypeOK
    <2>2. r \in Ocorrencia /\ r.estado = envia[e].estado
        BY <1>1 DEF Ocorrencia
    <2>3. r.estado = "falha" => Recusadas(o)
        BY <1>1, <2>2 DEF SabeDe
    <2>4. \A f \in Envios \ {e} : envia[f].pc \in Tem => envia[f].oc # o
        BY <1>1, SoEle DEF Tem
    <2>5. r.estado \in {"falha", "incerto"}
        BY <1>1, <2>2
    <2>. HIDE DEF o, r
    <2>. QED
        BY <1>1, <1>3, <1>4, <1>5, <2>1, <2>2, <2>3, <2>4, <2>5, EscreverInv
<1>. QED
    BY <1>7, <1>8 DEF MarcarOcorrencia

-----------------------------------------------------------------------------
(* A task is created.                                                      *)

LEMMA Cresce ==
    ASSUME TypeOK, NEW t \in Abertura!Task, NEW w \in Origem,
           tasks' = Append(tasks, t), origem' = Append(origem, w)
    PROVE  /\ tasks' \in Seq(Abertura!Task) /\ origem' \in Seq(Origem)
           /\ Len(origem') = Len(tasks')
           /\ Len(tasks) + 1 \in Nat
           /\ DOMAIN tasks' = DOMAIN tasks \cup {Len(tasks) + 1}
           /\ tasks'[Len(tasks) + 1] = t /\ origem'[Len(tasks) + 1] = w
           /\ \A k \in DOMAIN tasks : /\ k \in Nat /\ k < Len(tasks) + 1
                                      /\ tasks'[k] = tasks[k] /\ origem'[k] = origem[k]
<1>1. /\ tasks \in Seq(Abertura!Task) /\ origem \in Seq(Origem)
      /\ Len(tasks) \in Nat /\ Len(origem) = Len(tasks)
      /\ DOMAIN tasks = 1 .. Len(tasks) /\ DOMAIN origem = 1 .. Len(tasks)
    BY Tarefas
<1>2. /\ tasks' \in Seq(Abertura!Task) /\ Len(tasks') = Len(tasks) + 1
      /\ tasks'[Len(tasks) + 1] = t
      /\ \A k \in 1 .. Len(tasks) : tasks'[k] = tasks[k]
    BY <1>1
<1>3. /\ origem' \in Seq(Origem) /\ Len(origem') = Len(tasks) + 1
      /\ origem'[Len(tasks) + 1] = w
      /\ \A k \in 1 .. Len(tasks) : origem'[k] = origem[k]
    BY <1>1
<1>4. DOMAIN tasks' = 1 .. (Len(tasks) + 1)
    BY <1>1, <1>2
<1>. QED
    BY <1>1, <1>2, <1>3, <1>4

\* The POST of a confirmation creates a task, and whatever it then knows.
LEMMA CriadaInv ==
    ASSUME IInv, NEW e \in Envios, envia[e].pc = "postar", Criada(e),
           NEW x \in Envio, Ir(e, x), x.pc \in Tem => x.oc = envia[e].oc, SabeDe(x)'
    PROVE  IInv'
<1>. PICK o, n : o = envia[e].oc /\ n = Len(tasks) + 1
    OBVIOUS
<1>. DEFINE t == [ref |-> o, cega |-> FALSE]
            w == [envio |-> TRUE, lida |-> SemVisita, recusada |-> FALSE]
<1>1. /\ TypeOK /\ o \in Ocorrencias /\ SabeDe(envia[e])
      /\ envia' \in [Envios -> Envio]
    BY Registro, IrEfeito DEF IInv, Ativo, Sabe
<1>2. /\ tasks' = Append(tasks, t) /\ origem' = Append(origem, w)
      /\ UNCHANGED <<os, vencida, adotadas, abre, ent, inseridas, oc>>
    BY DEF Criada
<1>3. t \in Abertura!Task /\ w \in Origem
    BY <1>1 DEF Abertura!Task, Origem
<1>4. t.ref = o /\ w.envio
    OBVIOUS
<1>. HIDE DEF t, w
<1>5. /\ tasks' \in Seq(Abertura!Task) /\ origem' \in Seq(Origem)
      /\ Len(origem') = Len(tasks') /\ n \in Nat
      /\ DOMAIN tasks' = DOMAIN tasks \cup {n}
      /\ tasks'[n] = t /\ origem'[n] = w
      /\ \A k \in DOMAIN tasks : /\ k \in Nat /\ k < n
                                 /\ tasks'[k] = tasks[k] /\ origem'[k] = origem[k]
    BY <1>1, <1>2, <1>3, Cresce
<1>6. Abertura!TypeOK'
    BY <1>1, <1>2, <1>5 DEF TypeOK, Abertura!TypeOK
<1>7. TypeOK'
    BY <1>1, <1>2, <1>5, <1>6 DEF TypeOK
<1>8. LoteExiste'
    BY <1>2, <1>5 DEF IInv, LoteExiste
<1>9. Alheio(o)
    BY <1>2, <1>4, <1>5 DEF Alheio
<1>10. /\ \A f \in Envios \ {e} : envia[f].pc \in Tem => envia[f].oc # o
       /\ ~Repetivel(o)'
    BY <1>1, <1>2, SoEle DEF Tem, SabeDe, Repetivel
<1>11. Exclusiva' /\ (\A f \in Envios : Sabe(f)') /\ RepeteSemDuplicar'
    BY <1>1, <1>9, <1>10, PassoEnvio
<1>12. DisponivelConfirmada'
    BY <1>2, <1>5 DEF IInv, DisponivelConfirmada
<1>13. IncertaNaoRepete'
    <2>. SUFFICES ASSUME NEW j \in DOMAIN tasks', NEW k \in DOMAIN tasks',
                         j < k, tasks'[j].ref = tasks'[k].ref,
                         origem'[j].envio, origem'[k].envio
                  PROVE  origem'[j].recusada
        BY DEF IncertaNaoRepete, Repetida
    <2>1. j \in DOMAIN tasks
        BY <1>5
    <2>2. CASE k \in DOMAIN tasks
        BY <1>5, <2>1, <2>2 DEF IInv, IncertaNaoRepete, Repetida
    <2>3. CASE k = n
        <3>1. Recusadas(o)
            BY <1>1 DEF SabeDe
        <3>2. tasks[j].ref = o /\ origem[j].envio /\ origem'[j] = origem[j]
            BY <1>4, <1>5, <2>1, <2>3
        <3>. QED
            BY <2>1, <3>1, <3>2 DEF Recusadas, Enviada
    <2>. QED
        BY <1>5, <2>2, <2>3
<1>. QED
    BY <1>7, <1>8, <1>11, <1>12, <1>13 DEF IInv

LEMMA PostarInv ==
    ASSUME IInv, NEW e \in Envios, Postar(e)
    PROVE  IInv'
<1>. PICK o, n : o = envia[e].oc /\ n = Len(tasks) + 1
    OBVIOUS
<1>. DEFINE t == [ref |-> o, cega |-> FALSE]
            w == [envio |-> TRUE, lida |-> SemVisita, recusada |-> FALSE]
<1>1. /\ TypeOK /\ envia[e].pc = "postar" /\ Criada(e) /\ envia[e] \in Ativo
      /\ SabeDe(envia[e]) /\ o \in Ocorrencias
    BY Registro DEF IInv, Postar, Sabe, Ativo
<1>2. PICK x : x = [envia[e] EXCEPT !.pc = "verificar", !.task = n]
    OBVIOUS
<1>3. Ir(e, x)
    BY <1>2 DEF Postar
<1>4. /\ tasks' = Append(tasks, t) /\ origem' = Append(origem, w) /\ oc' = oc
    BY <1>1 DEF Criada
<1>5. t \in Abertura!Task /\ w \in Origem /\ t.ref = o
    BY <1>1 DEF Abertura!Task, Origem
<1>. HIDE DEF t, w
<1>6. /\ n \in Nat /\ DOMAIN tasks' = DOMAIN tasks \cup {n} /\ tasks'[n] = t
      /\ \A k \in DOMAIN tasks : tasks'[k] = tasks[k] /\ origem'[k] = origem[k]
    BY <1>1, <1>4, <1>5, Cresce
<1>7. /\ x \in Ativo /\ x.pc = "verificar" /\ x.task = n /\ x.oc = o
      /\ x.visita = envia[e].visita
    BY <1>1, <1>2, <1>6 DEF Ativo
<1>8. /\ oc[o].estado = "enviando" /\ oc[o].visita = envia[e].visita /\ Recusadas(o)
    BY <1>1 DEF SabeDe
<1>9. RecusadasMenos(o, n)'
    BY <1>6, <1>8 DEF RecusadasMenos, Recusadas, Enviada
<1>10. SabeDe(x)'
    <2>1. RecusadasMenos(x.oc, x.task)'
        BY <1>7, <1>9 DEF RecusadasMenos, Enviada
    <2>2. x.task \in DOMAIN tasks' /\ tasks'[x.task].ref = x.oc
        BY <1>5, <1>6, <1>7
    <2>3. oc'[x.oc].estado = "enviando" /\ oc'[x.oc].visita = x.visita
        BY <1>4, <1>7, <1>8
    <2>. QED
        BY <1>7, <2>1, <2>2, <2>3 DEF SabeDe, Repetivel
<1>. QED
    BY <1>1, <1>3, <1>7, <1>10, AtivoEhEnvio, CriadaInv

\* An answer that was lost leaves the occurrence for someone to reconcile.
LEMMA PostagemFalhaInv ==
    ASSUME IInv, NEW e \in Envios, PostagemFalha(e)
    PROVE  IInv'
<1>1. /\ TypeOK /\ envia[e].pc = "postar" /\ envia[e] \in Ativo /\ SabeDe(envia[e])
      /\ envia[e].pc \in Tem
    BY Registro DEF IInv, PostagemFalha, Sabe, Tem
<1>2. CASE Criada(e) /\ Lancar(e, 0, TRUE, FALSE)
    <2>1. PICK x : x = [envia[e] EXCEPT !.pc = "falhar", !.task = 0, !.estado = "incerto"]
        OBVIOUS
    <2>2. Ir(e, x)
        BY <1>2, <2>1 DEF Lancar, Classificar
    <2>3. x \in Ativo /\ x.pc = "falhar" /\ x.oc = envia[e].oc /\ x.estado = "incerto"
        BY <1>1, <2>1 DEF Ativo
    <2>4. ~Repetivel(x.oc)'
        BY <1>1, <1>2, <2>3 DEF SabeDe, Repetivel, Criada
    <2>5. SabeDe(x)'
        BY <2>3, <2>4 DEF SabeDe, Repetivel
    <2>. QED
        BY <1>1, <1>2, <2>2, <2>3, <2>5, AtivoEhEnvio, CriadaInv
<1>3. CASE /\ Lancar(e, 0, TRUE, FALSE) \/ Lancar(e, 0, TRUE, TRUE)
           /\ UNCHANGED <<daAbertura, inseridas, oc, origem>>
    BY <1>1, <1>3, LancarInv DEF SabeDe
<1>. QED
    BY <1>2, <1>3 DEF PostagemFalha

-----------------------------------------------------------------------------
(* What the Auvo says of a task is recorded.                               *)

LEMMA AnotarInv ==
    ASSUME IInv, NEW e \in Envios, envia[e].pc = "verificar",
           NEW x \in Envio, Ir(e, x), NEW w \in Origem,
           origem' = [origem EXCEPT ![envia[e].task] = w],
           w.envio = origem[envia[e].task].envio,
           origem[envia[e].task].recusada => w.recusada,
           UNCHANGED <<daAbertura, inseridas, oc>>,
           x.pc \in Tem => x.oc = envia[e].oc, SabeDe(x)'
    PROVE  IInv'
<1>. PICK o, k : o = envia[e].oc /\ k = envia[e].task
    OBVIOUS
<1>1. /\ TypeOK /\ o \in Ocorrencias /\ SabeDe(envia[e])
      /\ envia' \in [Envios -> Envio]
    BY Registro, IrEfeito DEF IInv, Ativo, Sabe
<1>2. k \in DOMAIN tasks /\ tasks[k].ref = o /\ oc[o].estado = "enviando"
    BY <1>1 DEF SabeDe
<1>3. /\ origem' \in Seq(Origem) /\ Len(origem') = Len(tasks)
      /\ origem'[k] = w /\ w.envio = origem[k].envio /\ (origem[k].recusada => w.recusada)
      /\ \A j \in DOMAIN tasks \ {k} : origem'[j] = origem[j]
    BY <1>1, <1>2, Tarefas, ExceptSeq
<1>4. UNCHANGED <<tasks, ent, inseridas, oc>>
    BY DEF daAbertura
<1>5. TypeOK'
    BY <1>1, <1>3, <1>4, TabelasFicam DEF TypeOK
<1>6. LoteExiste'
    BY <1>4 DEF IInv, LoteExiste
<1>7. Alheio(o)
    BY <1>2, <1>3, <1>4 DEF Alheio
<1>8. /\ \A f \in Envios \ {e} : envia[f].pc \in Tem => envia[f].oc # o
      /\ ~Repetivel(o)'
    BY <1>2, <1>4, SoEle DEF Tem, Repetivel
<1>9. Exclusiva' /\ (\A f \in Envios : Sabe(f)') /\ RepeteSemDuplicar'
    BY <1>1, <1>7, <1>8, PassoEnvio
<1>10. DisponivelConfirmada'
    BY <1>2, <1>3, <1>4 DEF IInv, DisponivelConfirmada
<1>11. IncertaNaoRepete'
    BY <1>3, <1>4 DEF IInv, IncertaNaoRepete, Repetida
<1>. QED
    BY <1>5, <1>6, <1>9, <1>10, <1>11 DEF IInv

LEMMA VerificarInv ==
    ASSUME IInv, NEW e \in Envios, Verificar(e)
    PROVE  IInv'
<1>. PICK o, k : o = envia[e].oc /\ k = envia[e].task
    OBVIOUS
<1>1. /\ TypeOK /\ envia[e].pc = "verificar" /\ envia[e] \in Ativo /\ SabeDe(envia[e])
      /\ UNCHANGED <<daAbertura, inseridas, oc>> /\ envia[e].visita \in Visitas
    BY Registro DEF IInv, Verificar, Sabe, Ativo
<1>2. /\ k \in DOMAIN tasks /\ tasks[k].ref = o /\ oc[o].estado = "enviando"
      /\ oc[o].visita = envia[e].visita
    BY <1>1 DEF SabeDe
<1>3. PICK x : x = [envia[e] EXCEPT !.pc = "gravar"]
    OBVIOUS
<1>4. Ir(e, x)
    BY <1>3 DEF Verificar, Vai
<1>5. /\ x \in Ativo /\ x.pc = "gravar" /\ x.oc = o /\ x.visita = envia[e].visita
      /\ x.task = k
    BY <1>1, <1>3 DEF Ativo
<1>6. PICK w : w = [origem[k] EXCEPT !.lida = envia[e].visita]
    OBVIOUS
<1>7. origem[k] \in Origem
    BY <1>1, <1>2, Tarefas
<1>8. /\ w \in Origem /\ w.envio = origem[k].envio /\ w.recusada = origem[k].recusada
      /\ w.lida = envia[e].visita
    BY <1>1, <1>6, <1>7 DEF Origem
<1>9. origem' = [origem EXCEPT ![k] = w] /\ origem'[k] = w
    BY <1>1, <1>2, <1>6, Tarefas DEF Verificar
<1>10. SabeDe(x)'
    BY <1>1, <1>2, <1>5, <1>8, <1>9 DEF SabeDe, Repetivel, daAbertura
<1>. QED
    BY <1>1, <1>4, <1>5, <1>8, <1>9, <1>10, AtivoEhEnvio, AnotarInv

\* After a refusal every task of the occurrence was refused.
LEMMA VerificacaoFalhaInv ==
    ASSUME IInv, NEW e \in Envios, VerificacaoFalha(e)
    PROVE  IInv'
<1>. PICK o, k : o = envia[e].oc /\ k = envia[e].task
    OBVIOUS
<1>1. /\ TypeOK /\ envia[e].pc = "verificar" /\ envia[e] \in Ativo /\ SabeDe(envia[e])
      /\ UNCHANGED <<daAbertura, inseridas, oc>> /\ k \in Nat /\ envia[e].pc \in Tem
    BY Registro DEF IInv, VerificacaoFalha, Sabe, Ativo, Tem
<1>2. k \in DOMAIN tasks /\ tasks[k].ref = o /\ ~Repetivel(o) /\ RecusadasMenos(o, k)
    BY <1>1 DEF SabeDe
<1>3. CASE UNCHANGED origem /\ Lancar(e, k, TRUE, FALSE)
    BY <1>1, <1>3, LancarInv DEF Classificar
<1>4. CASE /\ origem' = [origem EXCEPT ![k].recusada = TRUE]
           /\ Lancar(e, k, TRUE, TRUE)
    <2>1. PICK x : x = [envia[e] EXCEPT !.pc = "falhar", !.task = k, !.estado = "falha"]
        OBVIOUS
    <2>2. Ir(e, x)
        BY <1>4, <2>1 DEF Lancar, Classificar
    <2>3. x \in Ativo /\ x.pc = "falhar" /\ x.oc = o
        BY <1>1, <2>1 DEF Ativo
    <2>4. PICK w : w = [origem[k] EXCEPT !.recusada = TRUE]
        OBVIOUS
    <2>5. origem[k] \in Origem
        BY <1>1, <1>2, Tarefas
    <2>6. w \in Origem /\ w.envio = origem[k].envio /\ w.recusada
        BY <2>4, <2>5 DEF Origem
    <2>7. /\ origem' = [origem EXCEPT ![k] = w] /\ origem'[k] = w
          /\ \A j \in DOMAIN tasks \ {k} : origem'[j] = origem[j]
        BY <1>1, <1>2, <1>4, <2>4, Tarefas
    <2>8. Recusadas(o)'
        BY <1>1, <1>2, <2>6, <2>7 DEF Recusadas, RecusadasMenos, Enviada, daAbertura
    <2>9. SabeDe(x)'
        BY <1>1, <1>2, <2>3, <2>8 DEF SabeDe, Repetivel, Recusadas, Enviada
    <2>. QED
        BY <1>1, <2>2, <2>3, <2>6, <2>7, <2>9, AtivoEhEnvio, AnotarInv
<1>. QED
    BY <1>3, <1>4 DEF VerificacaoFalha

-----------------------------------------------------------------------------
(* The other ways into the same OSs.                                       *)

\* A step of AberturaAuvo: its tables keep their shape and at most one task is
\* added.
Cresceu ==
    /\ Abertura!TypeOK' /\ LoteExiste'
    /\ tasks' = tasks \/ \E t \in Abertura!Task : tasks' = Append(tasks, t)

LEMMA AbreTipo ==
    ASSUME TypeOK, NEW a \in Aberturas
    PROVE  /\ abre[a].pc # "ociosa" => abre[a].os \in Ocorrencias
           /\ abre[a].pc = "criar" => abre[a].cega \in BOOLEAN
           /\ abre[a].pc = "gravar" => abre[a].task \in Nat
BY DEF TypeOK, Abertura!TypeOK, Abertura!Abertura, Abertura!Ociosa

\* A step that goes to x and leaves tables and tasks alone.
LEMMA AbreVai ==
    ASSUME TypeOK, LoteExiste, NEW a \in Aberturas, NEW x \in Abertura!Abertura,
           Abertura!Ir(a, x), UNCHANGED <<os, vencida, tasks, adotadas, ent>>
    PROVE  Cresceu
BY DEF TypeOK, Abertura!TypeOK, Abertura!Ir, Cresceu, LoteExiste

LEMMA AbreSai ==
    ASSUME TypeOK, LoteExiste, NEW a \in Aberturas, Abertura!Sair(a),
           UNCHANGED <<os, vencida, tasks, adotadas, ent>>
    PROVE  Cresceu
<1>1. Abertura!Ociosa \in Abertura!Abertura
    BY DEF Abertura!Abertura
<1>. QED
    BY <1>1, AbreVai DEF Abertura!Sair

LEMMA AbreFalha ==
    ASSUME TypeOK, LoteExiste, NEW a \in Aberturas, abre[a].pc # "ociosa",
           Abertura!Falhar(a), UNCHANGED <<os, vencida, tasks, adotadas, ent>>
    PROVE  Cresceu
<1>1. [pc |-> "falhar", os |-> abre[a].os] \in Abertura!Abertura
    BY AbreTipo DEF Abertura!Abertura
<1>. QED
    BY <1>1, AbreVai DEF Abertura!Falhar

\* A step that writes an OS.
LEMMA AbreEscreve ==
    ASSUME TypeOK, LoteExiste, NEW a \in Aberturas, NEW x \in Abertura!Abertura,
           NEW p \in Ocorrencias, NEW v \in Abertura!Vinculo, Abertura!Ir(a, x),
           os' = [os EXCEPT ![p] = v], vencida' \subseteq vencida,
           UNCHANGED <<tasks, adotadas, ent>>
    PROVE  Cresceu
BY DEF TypeOK, Abertura!TypeOK, Abertura!Ir, Cresceu, LoteExiste

LEMMA AcrescentaTask ==
    ASSUME TypeOK, LoteExiste, NEW t \in Abertura!Task, tasks' = Append(tasks, t),
           abre' \in [Aberturas -> Abertura!Abertura],
           UNCHANGED <<os, vencida, adotadas, ent>>
    PROVE  Cresceu
<1>1. tasks' \in Seq(Abertura!Task) /\ DOMAIN tasks \subseteq DOMAIN tasks'
    BY DEF TypeOK, Abertura!TypeOK
<1>2. Abertura!TypeOK'
    BY <1>1 DEF TypeOK, Abertura!TypeOK
<1>3. LoteExiste'
    BY <1>1 DEF LoteExiste
<1>. QED
    BY <1>2, <1>3 DEF Cresceu

LEMMA ReservarCresce ==
    ASSUME TypeOK, LoteExiste, NEW a \in Aberturas, Abertura!Reservar(a)
    PROVE  Cresceu
<1>. DEFINE o == abre[a].os
            v == [os[o] EXCEPT !.sync = "opening"]
            x == [pc |-> "ler", os |-> o]
<1>1. o \in Ocorrencias /\ os \in [Ocorrencias -> Abertura!Vinculo]
    BY AbreTipo DEF Abertura!Reservar, TypeOK, Abertura!TypeOK
<1>2. x \in Abertura!Abertura /\ v \in Abertura!Vinculo
    BY <1>1 DEF Abertura!Abertura, Abertura!Vinculo
<1>3. os' = [os EXCEPT ![o] = v] /\ vencida' \subseteq vencida
      /\ Abertura!Ir(a, x) /\ UNCHANGED <<tasks, adotadas, ent>>
    BY <1>1 DEF Abertura!Reservar
<1>. HIDE DEF v, x
<1>. QED
    BY <1>1, <1>2, <1>3, AbreEscreve

LEMMA LerCresce ==
    ASSUME TypeOK, LoteExiste, NEW a \in Aberturas,
           Abertura!ReservaNegada(a) \/ Abertura!LerOS(a) \/ Abertura!LeituraFalha(a)
           \/ Abertura!Queda(a)
    PROVE  Cresceu
<1>1. UNCHANGED <<os, vencida, tasks, adotadas, ent>>
    BY DEF Abertura!ReservaNegada, Abertura!LerOS, Abertura!LeituraFalha, Abertura!Queda
<1>2. CASE Abertura!Sair(a)
    BY <1>1, <1>2, AbreSai
<1>3. CASE abre[a].pc = "ler" /\ Abertura!Falhar(a)
    BY <1>1, <1>3, AbreFalha
<1>4. CASE abre[a].pc = "ler" /\ Abertura!Ir(a, [pc |-> "buscar", os |-> abre[a].os])
    <2>1. [pc |-> "buscar", os |-> abre[a].os] \in Abertura!Abertura
        BY <1>4, AbreTipo DEF Abertura!Abertura
    <2>. QED
        BY <1>1, <1>4, <2>1, AbreVai
<1>. QED
    BY <1>2, <1>3, <1>4
       DEF Abertura!ReservaNegada, Abertura!LerOS, Abertura!LeituraFalha, Abertura!Queda

LEMMA BuscarCresce ==
    ASSUME TypeOK, LoteExiste, NEW a \in Aberturas,
           Abertura!Buscar(a) \/ Abertura!BuscaFalha(a)
    PROVE  Cresceu
<1>. DEFINE o == abre[a].os
<1>1. /\ o \in Ocorrencias /\ abre[a].pc # "ociosa"
      /\ \A k \in DOMAIN tasks : k \in Nat
    BY AbreTipo, Tarefas DEF Abertura!Buscar, Abertura!BuscaFalha
<1>2. UNCHANGED <<os, vencida, tasks, adotadas, ent>>
    BY DEF Abertura!Buscar, Abertura!BuscaFalha
<1>3. ASSUME NEW k \in DOMAIN tasks, Abertura!Ir(a, [pc |-> "gravar", os |-> o, task |-> k])
      PROVE  Cresceu
    <2>1. [pc |-> "gravar", os |-> o, task |-> k] \in Abertura!Abertura
        BY <1>1 DEF Abertura!Abertura
    <2>. QED
        BY <1>2, <1>3, <2>1, AbreVai
<1>4. ASSUME NEW b \in BOOLEAN, Abertura!Ir(a, [pc |-> "criar", os |-> o, cega |-> b])
      PROVE  Cresceu
    <2>1. [pc |-> "criar", os |-> o, cega |-> b] \in Abertura!Abertura
        BY <1>1 DEF Abertura!Abertura
    <2>. QED
        BY <1>2, <1>4, <2>1, AbreVai
<1>5. CASE Abertura!Falhar(a)
    BY <1>1, <1>2, <1>5, AbreFalha
<1>6. CASE Abertura!Buscar(a)
    BY <1>3, <1>4, <1>6 DEF Abertura!Buscar, Abertura!DaOS
<1>7. CASE Abertura!BuscaFalha(a)
    BY <1>4, <1>5, <1>7 DEF Abertura!BuscaFalha
<1>. QED
    BY <1>6, <1>7

LEMMA ClicarCresce ==
    ASSUME TypeOK, LoteExiste, NEW a \in Aberturas, NEW o \in Ocorrencias,
           Abertura!Clicar(a, o)
    PROVE  Cresceu
<1>1. [pc |-> "reservar", os |-> o] \in Abertura!Abertura
    BY DEF Abertura!Abertura
<1>. QED
    BY <1>1, AbreVai DEF Abertura!Clicar

LEMMA CriarCresce ==
    ASSUME TypeOK, LoteExiste, NEW a \in Aberturas,
           Abertura!Criar(a) \/ Abertura!CriacaoFalha(a)
    PROVE  Cresceu
<1>. DEFINE o == abre[a].os
            t == [ref |-> o, cega |-> abre[a].cega]
            x == [pc |-> "gravar", os |-> o, task |-> Len(tasks) + 1]
<1>1. /\ abre[a].pc = "criar" /\ o \in Ocorrencias /\ abre[a].cega \in BOOLEAN
      /\ Len(tasks) + 1 \in Nat /\ abre \in [Aberturas -> Abertura!Abertura]
      /\ UNCHANGED <<os, vencida, adotadas, ent>>
    BY AbreTipo, Tarefas
       DEF TypeOK, Abertura!TypeOK, Abertura!Criar, Abertura!CriacaoFalha
<1>2. t \in Abertura!Task
    BY <1>1 DEF Abertura!Task
<1>3. x \in Abertura!Abertura /\ [pc |-> "falhar", os |-> o] \in Abertura!Abertura
    BY <1>1 DEF Abertura!Abertura
<1>4. tasks' = Append(tasks, t) \/ (UNCHANGED tasks /\ Abertura!Falhar(a))
    BY DEF Abertura!Criar, Abertura!CriacaoFalha, Abertura!Postar
<1>5. Abertura!Ir(a, x) \/ Abertura!Ir(a, [pc |-> "falhar", os |-> o])
    BY DEF Abertura!Criar, Abertura!CriacaoFalha, Abertura!Falhar
<1>. HIDE DEF t, x
<1>6. abre' \in [Aberturas -> Abertura!Abertura]
    BY <1>1, <1>3, <1>5 DEF Abertura!Ir
<1>7. CASE tasks' = Append(tasks, t)
    BY <1>1, <1>2, <1>6, <1>7, AcrescentaTask
<1>8. CASE UNCHANGED tasks /\ Abertura!Falhar(a)
    BY <1>1, <1>8, AbreFalha
<1>. QED
    BY <1>4, <1>7, <1>8

LEMMA GravarCresce ==
    ASSUME TypeOK, LoteExiste, NEW a \in Aberturas,
           Abertura!Gravar(a) \/ Abertura!GravacaoFalha(a)
    PROVE  Cresceu
<1>. DEFINE o == abre[a].os
            v == [sync |-> "synced", task |-> abre[a].task]
<1>1. /\ abre[a].pc = "gravar" /\ o \in Ocorrencias /\ abre[a].task \in Nat
      /\ UNCHANGED <<tasks, adotadas, ent>>
    BY AbreTipo DEF Abertura!Gravar, Abertura!GravacaoFalha
<1>2. v \in Abertura!Vinculo
    BY <1>1 DEF Abertura!Vinculo
<1>3. PICK x \in {Abertura!Ociosa, [pc |-> "falhar", os |-> o]} : Abertura!Ir(a, x)
    BY DEF Abertura!Gravar, Abertura!GravacaoFalha, Abertura!Sair, Abertura!Falhar
<1>4. x \in Abertura!Abertura
    BY <1>1, <1>3 DEF Abertura!Abertura
<1>5. CASE UNCHANGED <<os, vencida>>
    BY <1>1, <1>3, <1>4, <1>5, AbreVai
<1>6. CASE Abertura!Vincular(a)
    <2>1. os' = [os EXCEPT ![o] = v] /\ vencida' \subseteq vencida
        BY <1>6 DEF Abertura!Vincular
    <2>. HIDE DEF v
    <2>. QED
        BY <1>1, <1>2, <1>3, <1>4, <2>1, AbreEscreve
<1>. QED
    BY <1>5, <1>6 DEF Abertura!Gravar, Abertura!GravacaoFalha

LEMMA MarcarCresce ==
    ASSUME TypeOK, LoteExiste, NEW a \in Aberturas, Abertura!MarcarFalha(a)
    PROVE  Cresceu
<1>. DEFINE o == abre[a].os
            v == [os[o] EXCEPT !.sync = "failed"]
<1>1. /\ o \in Ocorrencias /\ Abertura!Ir(a, Abertura!Ociosa)
      /\ os \in [Ocorrencias -> Abertura!Vinculo]
      /\ UNCHANGED <<tasks, adotadas, ent>>
    BY AbreTipo DEF Abertura!MarcarFalha, Abertura!Sair, TypeOK, Abertura!TypeOK
<1>2. v \in Abertura!Vinculo /\ Abertura!Ociosa \in Abertura!Abertura
    BY <1>1 DEF Abertura!Vinculo, Abertura!Abertura
<1>3. CASE UNCHANGED <<os, vencida>>
    BY <1>1, <1>2, <1>3, AbreVai
<1>4. CASE os' = [os EXCEPT ![o].sync = "failed"] /\ vencida' = vencida \ {o}
    <2>1. os' = [os EXCEPT ![o] = v] /\ vencida' \subseteq vencida
        BY <1>1, <1>4
    <2>. HIDE DEF v
    <2>. QED
        BY <1>1, <1>2, <2>1, AbreEscreve
<1>. QED
    BY <1>3, <1>4 DEF Abertura!MarcarFalha

LEMMA EntradaCresce ==
    ASSUME TypeOK, LoteExiste, NEW i \in Entradas,
           Abertura!Conferir(i) \/ Abertura!Inserir(i)
    PROVE  Cresceu
<1>1. /\ ent \in [Entradas -> Abertura!Entrada] /\ adotadas \subseteq DOMAIN tasks
      /\ UNCHANGED <<os, vencida, tasks, abre>> /\ \A k \in DOMAIN tasks : k \in Nat
    BY Tarefas DEF TypeOK, Abertura!TypeOK, Abertura!Conferir, Abertura!Inserir
<1>2. CASE Abertura!Conferir(i)
    <2>1. PICK T \in SUBSET DOMAIN tasks :
            ent' = [ent EXCEPT ![i] = [pc |-> "inserir", quais |-> T \ Abertura!Conhecidas]]
        BY <1>2 DEF Abertura!Conferir
    <2>2. PICK Q : Q = T \ Abertura!Conhecidas
        OBVIOUS
    <2>3. Q \in SUBSET Nat /\ Q \subseteq DOMAIN tasks
        BY <1>1, <2>2
    <2>4. [pc |-> "inserir", quais |-> Q] \in Abertura!Entrada
        BY <2>3 DEF Abertura!Entrada
    <2>5. ent' = [ent EXCEPT ![i] = [pc |-> "inserir", quais |-> Q]]
        BY <2>1, <2>2
    <2>6. Abertura!TypeOK' /\ LoteExiste'
        BY <1>1, <1>2, <2>3, <2>4, <2>5
           DEF TypeOK, Abertura!TypeOK, Abertura!Conferir, LoteExiste
    <2>. QED
        BY <1>1, <2>6 DEF Cresceu
<1>3. CASE Abertura!Inserir(i)
    <2>1. /\ adotadas' \subseteq DOMAIN tasks
          /\ ent' = [ent EXCEPT ![i] = Abertura!Ociosa]
        BY <1>1, <1>3 DEF Abertura!Inserir, LoteExiste
    <2>2. Abertura!Ociosa \in Abertura!Entrada /\ Abertura!Ociosa.pc = "ociosa"
        BY DEF Abertura!Entrada, Abertura!Ociosa
    <2>3. Abertura!TypeOK' /\ LoteExiste'
        BY <1>1, <2>1, <2>2 DEF TypeOK, Abertura!TypeOK, LoteExiste
    <2>. QED
        BY <1>1, <2>3 DEF Cresceu
<1>. QED
    BY <1>2, <1>3

LEMMA OutrosCrescem ==
    ASSUME TypeOK, LoteExiste, Outros
    PROVE  Cresceu
<1>1. ASSUME NEW a \in Aberturas, Abertura!Abrir(a)
      PROVE  Cresceu
    <2>1. ASSUME NEW o \in Ocorrencias, Abertura!Clicar(a, o) PROVE Cresceu
        BY <2>1, ClicarCresce
    <2>. QED
        BY <1>1, <2>1, ReservarCresce, LerCresce, BuscarCresce, CriarCresce,
           GravarCresce, MarcarCresce DEF Abertura!Abrir
<1>2. ASSUME NEW o \in Ocorrencias, Abertura!Editar(o) \/ Abertura!Vencer(o)
      PROVE  Cresceu
    BY <1>2 DEF Abertura!Editar, Abertura!Vencer, TypeOK, Abertura!TypeOK, Cresceu,
                LoteExiste
<1>3. CASE Abertura!TecnicoCria
    <2>1. [ref |-> SemOS, cega |-> FALSE] \in Abertura!Task
        BY DEF Abertura!Task
    <2>2. abre' \in [Aberturas -> Abertura!Abertura]
        BY <1>3 DEF Abertura!TecnicoCria, TypeOK, Abertura!TypeOK
    <2>. QED
        BY <1>3, <2>1, <2>2, AcrescentaTask DEF Abertura!TecnicoCria
<1>4. inseridas \subseteq Ocorrencias
    BY DEF TypeOK
<1>5. ASSUME NEW a \in Aberturas, NEW o \in Ocorrencias, Abertura!Clicar(a, o)
      PROVE  Cresceu
    BY <1>5, ClicarCresce
<1>6. ASSUME NEW a \in Aberturas, Abertura!Queda(a)
      PROVE  Cresceu
    BY <1>6, LerCresce
<1>7. ASSUME NEW i \in Entradas, Abertura!Conferir(i) \/ Abertura!Inserir(i)
      PROVE  Cresceu
    BY <1>7, EntradaCresce
<1>. QED
    BY <1>1, <1>2, <1>3, <1>4, <1>5, <1>6, <1>7 DEF Outros

\* What others do about an OS never makes a task of a confirmation.
LEMMA OutrosInv ==
    ASSUME IInv, Outros
    PROVE  IInv'
<1>1. TypeOK /\ Cresceu /\ UNCHANGED <<inseridas, oc, envia>>
    BY OutrosCrescem DEF IInv, Outros, PorFora
<1>2. Abertura!TypeOK' /\ LoteExiste'
    BY <1>1 DEF Cresceu
<1>3. CASE tasks' = tasks
    <2>1. origem' = origem
        BY <1>3 DEF Outros, PorFora
    <2>2. TypeOK'
        BY <1>1, <1>2, <1>3, <2>1 DEF TypeOK
    <2>3. Exclusiva' /\ RepeteSemDuplicar' /\ DisponivelConfirmada' /\ IncertaNaoRepete'
        BY <1>1, <1>3, <2>1 DEF IInv, Exclusiva, RepeteSemDuplicar, Repetivel, Recusadas,
            Enviada, DisponivelConfirmada, IncertaNaoRepete, Repetida
    <2>4. \A e \in Envios : Sabe(e)'
        BY <1>1, <1>3, <2>1
           DEF IInv, Sabe, SabeDe, Repetivel, Recusadas, RecusadasMenos, Enviada
    <2>. QED
        BY <1>2, <2>2, <2>3, <2>4 DEF IInv
<1>4. ASSUME NEW t \in Abertura!Task, tasks' = Append(tasks, t), tasks' # tasks
      PROVE  IInv'
    <2>1. origem' = Append(origem, SemEnvio)
        BY <1>4 DEF Outros, PorFora
    <2>2. SemEnvio \in Origem /\ ~SemEnvio.envio
        BY DEF SemEnvio, Origem
    <2>. PICK n : n = Len(tasks) + 1
        OBVIOUS
    <2>3. /\ tasks' \in Seq(Abertura!Task) /\ origem' \in Seq(Origem)
          /\ Len(origem') = Len(tasks') /\ n \in Nat
          /\ DOMAIN tasks' = DOMAIN tasks \cup {n}
          /\ origem'[n] = SemEnvio
          /\ \A k \in DOMAIN tasks : /\ k \in Nat /\ k < n
                                     /\ tasks'[k] = tasks[k] /\ origem'[k] = origem[k]
        BY <1>1, <1>4, <2>1, <2>2, Cresce
    <2>4. TypeOK'
        BY <1>1, <1>2, <2>3 DEF TypeOK
    <2>5. Exclusiva'
        BY <1>1 DEF IInv, Exclusiva
    <2>6. \A p : Recusadas(p) => Recusadas(p)'
        BY <2>2, <2>3 DEF Recusadas, Enviada
    <2>7. RepeteSemDuplicar'
        BY <1>1, <2>6 DEF IInv, RepeteSemDuplicar, Repetivel
    <2>8. ASSUME NEW e \in Envios
          PROVE  Sabe(e)'
        <3>. PICK x : x = envia[e]
            OBVIOUS
        <3>1. SabeDe(x) /\ envia'[e] = x
            BY <1>1 DEF IInv, Sabe
        <3>2. Recusadas(x.oc) => Recusadas(x.oc)'
            BY <2>6
        <3>3. RecusadasMenos(x.oc, x.task) => RecusadasMenos(x.oc, x.task)'
            BY <2>2, <2>3 DEF RecusadasMenos, Enviada
        <3>4. SabeDe(x)'
            BY <1>1, <2>3, <3>1, <3>2, <3>3 DEF SabeDe, Repetivel
        <3>. QED
            BY <3>1, <3>4 DEF Sabe, SabeDe, Repetivel, Recusadas, RecusadasMenos, Enviada
    <2>9. DisponivelConfirmada'
        BY <1>1, <2>3 DEF IInv, DisponivelConfirmada
    <2>10. IncertaNaoRepete'
        BY <2>2, <2>3 DEF IInv, IncertaNaoRepete, Repetida
    <2>. QED
        BY <1>2, <2>4, <2>5, <2>7, <2>8, <2>9, <2>10 DEF IInv
<1>. QED
    BY <1>1, <1>3, <1>4 DEF Cresceu

-----------------------------------------------------------------------------
(* The theorems.                                                           *)

LEMMA Inicio == Init => IInv
<1>. SUFFICES ASSUME Init PROVE IInv
    OBVIOUS
<1>1. /\ Abertura!Init /\ tasks = << >> /\ origem = << >> /\ DOMAIN tasks = {}
    BY DEF Init, Abertura!Init
<1>2. /\ \A e \in Envios : envia[e] = Ociosa
      /\ \A i \in Entradas : ent[i] = Abertura!Ociosa
      /\ Ociosa.pc = "ociosa" /\ Abertura!Ociosa.pc = "ociosa"
    BY DEF Init, Abertura!Init, Ociosa, Abertura!Ociosa
<1>3. Abertura!TypeOK
    BY <1>1 DEF Abertura!Init, Abertura!TypeOK, Abertura!Vinculo, Abertura!Abertura,
                Abertura!Entrada
<1>4. \A o \in Ocorrencias : oc[o].estado = "prevista" /\ oc[o] \in Ocorrencia
    BY DEF Init, Ocorrencia
<1>5. TypeOK
    BY <1>1, <1>3, <1>4 DEF Init, TypeOK, Envio, Ocorrencia
<1>6. LoteExiste /\ Exclusiva /\ \A e \in Envios : Sabe(e)
    BY <1>2 DEF LoteExiste, Exclusiva, Sabe, SabeDe, Tem
<1>7. RepeteSemDuplicar /\ DisponivelConfirmada /\ IncertaNaoRepete
    BY <1>1, <1>4 DEF RepeteSemDuplicar, Recusadas, DisponivelConfirmada, IncertaNaoRepete, Repetida
<1>. QED
    BY <1>5, <1>6, <1>7 DEF IInv

LEMMA Passo ==
    ASSUME IInv, [Next]_vars
    PROVE  IInv'
<1>1. ASSUME NEW e \in Envios, NEW o \in Ocorrencias, NEW v \in Visitas, Confirmar(e, o, v)
      PROVE  IInv'
    BY <1>1, ConfirmarInv
<1>2. CASE UNCHANGED vars
    BY <1>2 DEF vars, IInv, TypeOK, Abertura!TypeOK, LoteExiste, Exclusiva,
        RepeteSemDuplicar, Sabe, SabeDe, Repetivel, Recusadas, RecusadasMenos, Enviada,
        DisponivelConfirmada, IncertaNaoRepete, Repetida
<1>. QED
    BY <1>1, <1>2, TomarInv, PararInv, PrepararInv, PreparoFalhaInv, PostarInv,
       PostagemFalhaInv, VerificarInv, VerificacaoFalhaInv, GravarOSInv,
       GravarOcorrenciaInv, ResponderInv, MarcarOcorrenciaInv, MarcarOSInv, OutrosInv
       DEF Next

\* One confirmation at a time holds an occurrence, and what it knows of the
\* tasks stays so until it lets the occurrence go.
THEOREM InvarianteDoEnvio == Spec => []IInv
BY Inicio, Passo, PTL DEF Spec

\* Every variable keeps its type, whichever call of a confirmation fails and
\* whoever else works on its OS.
THEOREM TipoDoEnvio == Spec => []TypeOK
<1>1. IInv => TypeOK
    BY DEF IInv
<1>. QED
    BY <1>1, InvarianteDoEnvio, PTL

\* What is offered as available was confirmed by the Auvo, for the very visit
\* it shows (pcm-preventivas-confirmar:267-307).
THEOREM OferecidaFoiConfirmada == Spec => []DisponivelConfirmada
<1>1. IInv => DisponivelConfirmada
    BY DEF IInv
<1>. QED
    BY <1>1, InvarianteDoEnvio, PTL

\* Whatever is lost, late or fails, the creation of a task is not repeated: a
\* second one takes a refused call about the first (confirmacao.ts:4-6).
THEOREM IncertaUmaTask == Spec => []IncertaNaoRepete
<1>1. IInv => IncertaNaoRepete
    BY DEF IInv
<1>. QED
    BY <1>1, InvarianteDoEnvio, PTL
=============================================================================
