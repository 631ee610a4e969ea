------------------------- MODULE StatusTarefaProofs -------------------------
(***************************************************************************)
(* Proofs about the result of a preventive maintenance, for any number of  *)
(* OSs, deliveries, imports and answers, and any faults.                   *)
(***************************************************************************)
EXTENDS StatusTarefa, TLAPS

\* Every reading of the task of o that somebody still holds: the Auvo's own,
\* those of the deliveries, and those in the pages of the imports.
Fotos(o) ==
    {tarefa[o]}
      \cup {ent[e].lido : e \in {d \in Entregas : /\ ent[d].pc = "resultado"
                                                  /\ ent[d].aviso.os = o}}
      \cup {imp[i][o] : i \in {j \in Importacoes : o \in DOMAIN imp[j]}}

\* A reading is never newer than the task, and readings of one date agree on
\* the answer, whoever took them.
FotosFieis ==
    \A o \in OSs : \A s, t \in Fotos(o) :
        /\ s.data <= tarefa[o].data
        /\ s.data = t.data => s.resp = t.resp

\* ResultadoDoTecnico, whatever the OS was created for.
ResultadoFiel ==
    \A o \in OSs :
        /\ ocor[o].em <= tarefa[o].data
        /\ ocor[o].em = tarefa[o].data =>
             \E c \in BOOLEAN : ocor[o].estado = Consolidar(c, tarefa[o].resp)

\* Where "não ok" is recorded, every reading of that date says so.
NaoOkFiel ==
    \A o \in OSs : ocor[o].estado = "nao_ok" =>
        \A t \in Fotos(o) : t.data = ocor[o].em => t.resp = "nao_ok"

Fidelidade == FotosFieis /\ ResultadoFiel /\ NaoOkFiel

IInv == TypeOK /\ Fidelidade

-----------------------------------------------------------------------------
(* The types of what the functions hold.                                   *)

LEMMA Respondido ==
    ASSUME NEW r \in Respostas, NEW c \in BOOLEAN
    PROVE  /\ Consolidar(c, r) \in Estado
           /\ Consolidar(c, r) = "nao_ok" <=> r = "nao_ok"
  BY DEF Respostas, Consolidar, Estado

LEMMA EntregaDe ==
    ASSUME TypeOK, NEW e \in Entregas
    PROVE  /\ ent[e].pc = "ociosa" <=> ent[e] = Ociosa
           /\ ent[e].pc # "ociosa" => ent[e].aviso \in Aviso
           /\ ent[e].pc = "resultado" => ent[e].lido \in Tarefa
  BY DEF TypeOK, Entrega, Ociosa

LEMMA PaginaDe ==
    ASSUME TypeOK, NEW i \in Importacoes
    PROVE  /\ DOMAIN imp[i] \subseteq OSs
           /\ \A o \in DOMAIN imp[i] : imp[i][o] \in Tarefa
<1>1. imp[i] \in Lidas
  BY DEF TypeOK
<1>2. PICK S \in SUBSET OSs : imp[i] \in [S -> Tarefa]
  BY <1>1 DEF Lidas
<1>3. QED
  BY <1>2

LEMMA FotoTipo ==
    ASSUME TypeOK, NEW o \in OSs, NEW t \in Fotos(o)
    PROVE  t \in Tarefa
<1>1. tarefa[o] \in Tarefa
  BY DEF TypeOK
<1>2. QED
  BY <1>1, EntregaDe, PaginaDe DEF Fotos

LEMMA DataNat ==
    ASSUME NEW t \in Tarefa
    PROVE  t.data \in Nat /\ t.resp \in Respostas
  BY DataAssumption DEF Tarefa, Datas

\* A delivery goes to another state.
LEMMA IrEfeito ==
    ASSUME TypeOK, NEW e \in Entregas, NEW x, Ir(e, x)
    PROVE  /\ ent'[e] = x
           /\ \A d \in Entregas \ {e} : ent'[d] = ent[d]
           /\ x \in Entrega => ent' \in [Entregas -> Entrega]
  BY DEF TypeOK, Ir

LEMMA ConcluirEfeito ==
    ASSUME TypeOK, NEW e \in Entregas, Concluir(e)
    PROVE  Ir(e, Ociosa) /\ avisos' \subseteq Aviso
  BY DEF TypeOK, Concluir

LEMMA OciosaTipo == Ociosa \in Entrega /\ Ociosa.pc = "ociosa"
  BY DEF Entrega, Ociosa

-----------------------------------------------------------------------------
(* Fidelity is disturbed in three ways only.                               *)

\* Nobody learns anything that is not known, and nothing is recorded.
LEMMA Esquecer ==
    ASSUME Fidelidade, UNCHANGED <<tarefa, ocor>>,
           \A o \in OSs : Fotos(o)' \subseteq Fotos(o)
    PROVE  Fidelidade'
<1>1. FotosFieis'
  BY DEF Fidelidade, FotosFieis
<1>2. ResultadoFiel'
  BY DEF Fidelidade, ResultadoFiel
<1>3. NaoOkFiel'
  BY DEF Fidelidade, NaoOkFiel
<1>4. QED
  BY <1>1, <1>2, <1>3 DEF Fidelidade

\* The technician works: the answer changes only together with the date.
LEMMA Trabalhar ==
    ASSUME IInv, NEW o \in OSs, NEW t \in Tarefa,
           tarefa' = [tarefa EXCEPT ![o] = t], UNCHANGED <<ocor, ent, imp>>,
           \/ t.data > tarefa[o].data
           \/ t.data = tarefa[o].data /\ t.resp = tarefa[o].resp
    PROVE  Fidelidade'
<1>1. tarefa'[o] = t /\ \A p \in OSs \ {o} : tarefa'[p] = tarefa[p]
  BY DEF IInv, TypeOK
<1>2. /\ Fotos(o)' \subseteq Fotos(o) \cup {t}
      /\ \A p \in OSs \ {o} : Fotos(p)' = Fotos(p)
  BY <1>1 DEF Fotos
<1>3. \A p \in OSs : tarefa[p] \in Fotos(p) /\ tarefa[p] \in Tarefa
  BY DEF Fotos, IInv, TypeOK
<1>4. \A p \in OSs : \A s \in Fotos(p) : s.data \in Nat
  BY FotoTipo, DataNat DEF IInv
<1>5. t.data \in Nat /\ tarefa[o].data \in Nat
  BY <1>3, DataNat
<1>6. \A s \in Fotos(o) : /\ s.data <= t.data
                          /\ s.data = t.data => s.resp = t.resp
  <2> SUFFICES ASSUME NEW s \in Fotos(o)
               PROVE  s.data <= t.data /\ (s.data = t.data => s.resp = t.resp)
    OBVIOUS
  <2>1. s.data <= tarefa[o].data /\ (s.data = tarefa[o].data => s.resp = tarefa[o].resp)
    BY <1>3 DEF IInv, Fidelidade, FotosFieis
  <2>2. QED
    BY <2>1, <1>4, <1>5
<1>7. FotosFieis'
  <2> SUFFICES ASSUME NEW p \in OSs, NEW r \in Fotos(p)', NEW s \in Fotos(p)'
               PROVE  /\ r.data <= tarefa'[p].data
                      /\ r.data = s.data => r.resp = s.resp
    BY DEF FotosFieis
  <2>1. CASE p = o
    <3>1. r \in Fotos(o) \cup {t} /\ s \in Fotos(o) \cup {t}
      BY <2>1, <1>2
    <3>2. r \in Fotos(o) /\ s \in Fotos(o) /\ r.data = s.data => r.resp = s.resp
      BY DEF IInv, Fidelidade, FotosFieis
    <3>3. t.data <= t.data
      BY <1>5
    <3>4. QED
      BY <2>1, <3>1, <3>2, <3>3, <1>1, <1>6
  <2>2. CASE p # o
    BY <2>2, <1>1, <1>2 DEF IInv, Fidelidade, FotosFieis
  <2>3. QED
    BY <2>1, <2>2
<1>8. \A p \in OSs : ocor[p].em \in Nat
  BY DataAssumption DEF IInv, TypeOK, Datas
<1>9. ResultadoFiel'
  <2> SUFFICES ASSUME NEW p \in OSs
               PROVE  /\ ocor[p].em <= tarefa'[p].data
                      /\ ocor[p].em = tarefa'[p].data =>
                           \E c \in BOOLEAN : ocor[p].estado = Consolidar(c, tarefa'[p].resp)
    BY DEF ResultadoFiel
  <2>1. /\ ocor[p].em <= tarefa[p].data
        /\ ocor[p].em = tarefa[p].data =>
             \E c \in BOOLEAN : ocor[p].estado = Consolidar(c, tarefa[p].resp)
    BY DEF IInv, Fidelidade, ResultadoFiel
  <2>2. CASE p # o
    BY <2>1, <2>2, <1>1
  <2>3. CASE p = o /\ t.data > tarefa[o].data
    BY <2>1, <2>3, <1>1, <1>5, <1>8
  <2>4. CASE p = o /\ t.data = tarefa[o].data /\ t.resp = tarefa[o].resp
    BY <2>1, <2>4, <1>1
  <2>5. QED
    BY <2>2, <2>3, <2>4
<1>10. NaoOkFiel'
  <2> SUFFICES ASSUME NEW p \in OSs, ocor[p].estado = "nao_ok",
                      NEW s \in Fotos(p)', s.data = ocor[p].em
               PROVE  s.resp = "nao_ok"
    BY DEF NaoOkFiel
  <2>1. CASE s \in Fotos(p)
    BY <2>1 DEF IInv, Fidelidade, NaoOkFiel
  <2>2. CASE s \notin Fotos(p)
    <3>1. p = o /\ s = t
      BY <2>2, <1>2
    <3>2. ocor[o].em <= tarefa[o].data
      BY DEF IInv, Fidelidade, ResultadoFiel
    <3>3. t.data = tarefa[o].data /\ t.resp = tarefa[o].resp
      BY <3>1, <3>2, <1>5, <1>8
    <3>4. QED
      BY <3>1, <3>3, <1>3 DEF IInv, Fidelidade, NaoOkFiel
  <2>3. QED
    BY <2>1, <2>2
<1>11. QED
  BY <1>7, <1>9, <1>10 DEF Fidelidade

\* A reading is recorded.
LEMMA Gravar ==
    ASSUME IInv, NEW o \in OSs, NEW t \in Fotos(o), NEW c \in BOOLEAN,
           AtualizarResultado(o, Consolidar(c, t.resp), t.data),
           UNCHANGED tarefa, \A p \in OSs : Fotos(p)' \subseteq Fotos(p)
    PROVE  /\ ocor' \in [OSs -> [estado : Estado, em : Datas]]
           /\ Fidelidade'
           /\ \A p \in OSs : ocor[p].estado = "nao_ok" /\ ocor'[p].estado # "nao_ok"
                => ocor'[p].em > ocor[p].em
<1> DEFINE novo == [estado |-> Consolidar(c, t.resp), em |-> t.data]
<1>1. t \in Tarefa /\ t.data \in Nat /\ t.data \in Datas /\ t.resp \in Respostas
  BY FotoTipo, DataNat DEF IInv, Tarefa
<1>2. /\ novo.estado = Consolidar(c, t.resp) /\ novo.em = t.data
      /\ novo \in [estado : Estado, em : Datas]
  BY <1>1, Respondido
<1>3. ocor' = ocor \/ (t.data >= ocor[o].em /\ ocor' = [ocor EXCEPT ![o] = novo])
  BY DEF AtualizarResultado
<1> HIDE DEF novo
<1>4. ocor' = ocor \/ (/\ t.data >= ocor[o].em /\ ocor'[o] = novo
                       /\ \A p \in OSs \ {o} : ocor'[p] = ocor[p])
  BY <1>3 DEF IInv, TypeOK
<1>5. ocor' \in [OSs -> [estado : Estado, em : Datas]]
  BY <1>2, <1>3 DEF IInv, TypeOK
<1>6. tarefa[o] \in Fotos(o)
  BY DEF Fotos
<1>7. FotosFieis'
  BY DEF IInv, Fidelidade, FotosFieis
<1>8. ResultadoFiel'
  <2>1. novo.em <= tarefa[o].data /\ (novo.em = tarefa[o].data =>
            \E b \in BOOLEAN : novo.estado = Consolidar(b, tarefa[o].resp))
    BY <1>2, <1>6 DEF IInv, Fidelidade, FotosFieis
  <2>2. QED
    BY <2>1, <1>4 DEF IInv, Fidelidade, ResultadoFiel
<1>9. NaoOkFiel'
  <2> SUFFICES ASSUME NEW p \in OSs, ocor'[p].estado = "nao_ok",
                      NEW s \in Fotos(p), s.data = ocor'[p].em
               PROVE  s.resp = "nao_ok"
    BY DEF NaoOkFiel
  <2>1. CASE ocor'[p] = ocor[p]
    BY <2>1 DEF IInv, Fidelidade, NaoOkFiel
  <2>2. CASE p = o /\ ocor'[o] = novo
    <3>1. t.resp = "nao_ok" /\ s.data = t.data
      BY <2>2, <1>1, <1>2, Respondido
    <3>2. QED
      BY <3>1, <2>2 DEF IInv, Fidelidade, FotosFieis
  <2>3. QED
    BY <2>1, <2>2, <1>4
<1>10. ASSUME NEW p \in OSs, ocor[p].estado = "nao_ok", ocor'[p].estado # "nao_ok"
       PROVE  ocor'[p].em > ocor[p].em
  <2>1. p = o /\ ocor'[o] = novo /\ t.data >= ocor[o].em
    BY <1>10, <1>4
  <2>2. t.resp # "nao_ok"
    BY <2>1, <1>10, <1>1, <1>2, Respondido
  <2>3. t.data # ocor[o].em
    BY <2>1, <2>2, <1>10 DEF IInv, Fidelidade, NaoOkFiel
  <2>4. ocor[o].em \in Nat
    BY DataAssumption DEF IInv, TypeOK, Datas
  <2>5. QED
    BY <2>1, <2>3, <2>4, <1>1, <1>2
<1>11. QED
  BY <1>5, <1>7, <1>8, <1>9, <1>10 DEF Fidelidade

-----------------------------------------------------------------------------
(* Who holds a reading after a step.                                       *)

LEMMA FotosDaEntrega ==
    ASSUME TypeOK, NEW e \in Entregas, NEW x, Ir(e, x), UNCHANGED <<tarefa, imp>>,
           x.pc = "resultado" => x.lido \in Fotos(x.aviso.os)
    PROVE  \A o \in OSs : Fotos(o)' \subseteq Fotos(o)
<1>1. ent'[e] = x /\ \A d \in Entregas \ {e} : ent'[d] = ent[d]
  BY IrEfeito
<1>2. SUFFICES ASSUME NEW o \in OSs, NEW d \in Entregas,
                      ent'[d].pc = "resultado", ent'[d].aviso.os = o
               PROVE  ent'[d].lido \in Fotos(o)
  BY DEF Fotos
<1>3. CASE d = e
  BY <1>1, <1>2, <1>3
<1>4. CASE d # e
  BY <1>1, <1>2, <1>4 DEF Fotos
<1>5. QED
  BY <1>3, <1>4

LEMMA FotosDaImportacao ==
    ASSUME TypeOK, NEW i \in Importacoes, NEW f, imp' = [imp EXCEPT ![i] = f],
           UNCHANGED <<tarefa, ent>>, \A o \in DOMAIN f : f[o] \in Fotos(o)
    PROVE  \A o \in OSs : Fotos(o)' \subseteq Fotos(o)
<1>1. imp'[i] = f /\ \A j \in Importacoes \ {i} : imp'[j] = imp[j]
  BY DEF TypeOK
<1>2. SUFFICES ASSUME NEW o \in OSs, NEW j \in Importacoes, o \in DOMAIN imp'[j]
               PROVE  imp'[j][o] \in Fotos(o)
  BY DEF Fotos
<1>3. CASE j = i
  BY <1>1, <1>2, <1>3
<1>4. CASE j # i
  BY <1>1, <1>2, <1>4 DEF Fotos
<1>5. QED
  BY <1>3, <1>4

LEMMA PaginaTipo ==
    ASSUME TypeOK, NEW i \in Importacoes, NEW S \in SUBSET OSs, NEW f \in [S -> Tarefa],
           imp' = [imp EXCEPT ![i] = f]
    PROVE  imp' \in [Importacoes -> Lidas]
<1>1. f \in Lidas
  BY DEF Lidas
<1>2. QED
  BY <1>1 DEF TypeOK

-----------------------------------------------------------------------------
(* One lemma per actor: IInv is kept, and "não ok" goes only with a later  *)
(* date.                                                                   *)

NaoOkFica ==
    \A o \in OSs : ocor[o].estado = "nao_ok" /\ ocor'[o].estado # "nao_ok" =>
        ocor'[o].em > ocor[o].em

LEMMA TecnicoInv ==
    ASSUME IInv, NEW o \in OSs, Tecnico(o)
    PROVE  IInv' /\ NaoOkFica
<1> USE DEF IInv
<1>1. tarefa[o] \in Tarefa /\ tarefa[o].data \in Nat /\ MaxData \in Nat
  BY DataNat, DataAssumption DEF TypeOK
<1>2. ASSUME NEW t \in Tarefa, NEW alvo \in {"em_execucao", "finalizado", "cancelado"},
             MudarTarefa(o, t, alvo),
             \/ t.data > tarefa[o].data
             \/ t.data = tarefa[o].data /\ t.resp = tarefa[o].resp
      PROVE  IInv' /\ NaoOkFica
  <2>1. [os |-> o, alvo |-> alvo] \in Aviso
    BY DEF Aviso
  <2>2. TypeOK'
    BY <1>2, <2>1 DEF TypeOK, MudarTarefa
  <2>3. Fidelidade'
    BY <1>2, Trabalhar DEF MudarTarefa
  <2>4. NaoOkFica
    BY <1>2 DEF MudarTarefa, NaoOkFica
  <2>5. QED
    BY <2>2, <2>3, <2>4
<1>3. CASE CheckIn(o)
  <2> DEFINE t == [tarefa[o] EXCEPT !.sit = "andamento"]
  <2>1. t \in Tarefa /\ t.data = tarefa[o].data /\ t.resp = tarefa[o].resp
    BY <1>1 DEF Tarefa
  <2>2. MudarTarefa(o, t, "em_execucao")
    BY <1>3 DEF CheckIn
  <2> HIDE DEF t
  <2>3. QED
    BY <1>2, <2>1, <2>2
<1>4. ASSUME NEW r \in Respostas, Responder(o, r)
      PROVE  IInv' /\ NaoOkFica
  <2> DEFINE t == [tarefa[o] EXCEPT !.resp = r, !.data = @ + 1]
  <2>1. tarefa[o].data < MaxData /\ MudarTarefa(o, t, "em_execucao")
    BY <1>4 DEF Responder
  <2>2. tarefa[o].data + 1 \in Datas /\ tarefa[o].data + 1 > tarefa[o].data
    BY <1>1, <2>1 DEF Datas
  <2>3. t \in Tarefa /\ t.data = tarefa[o].data + 1
    BY <1>1, <2>2 DEF Tarefa
  <2> HIDE DEF t
  <2>4. QED
    BY <1>2, <2>1, <2>2, <2>3
<1>5. CASE Finalizar(o)
  <2>1. PICK d \in {tarefa[o].data, tarefa[o].data + 1} \cap Datas :
               MudarTarefa(o, [tarefa[o] EXCEPT !.sit = "finalizada", !.data = d], "finalizado")
    BY <1>5 DEF Finalizar
  <2> DEFINE t == [tarefa[o] EXCEPT !.sit = "finalizada", !.data = d]
  <2>2. t \in Tarefa /\ t.data = d /\ t.resp = tarefa[o].resp
    BY <1>1 DEF Tarefa
  <2>3. MudarTarefa(o, t, "finalizado")
    BY <2>1
  <2> HIDE DEF t
  <2>4. QED
    BY <1>1, <1>2, <2>2, <2>3
<1>6. CASE ExcluirTarefa(o)
  <2>1. [os |-> o, alvo |-> "cancelado"] \in Aviso
    BY DEF Aviso
  <2>2. TypeOK'
    BY <1>6, <2>1 DEF TypeOK, ExcluirTarefa
  <2>3. Fidelidade'
    BY <1>6, Esquecer DEF ExcluirTarefa, Fotos
  <2>4. QED
    BY <1>6, <2>2, <2>3 DEF ExcluirTarefa, NaoOkFica
<1>7. QED
  BY <1>3, <1>4, <1>5, <1>6 DEF Tecnico

\* A delivery moves on without recording a result.
LEMMA SeguirInv ==
    ASSUME IInv, NEW e \in Entregas, NEW x \in Entrega, Ir(e, x),
           UNCHANGED <<tarefa, excluidas, ocor, imp, sinc>>, avisos' \subseteq Aviso,
           os' \in [OSs -> [status : Status, de : {"preventiva", "visita"}]],
           visita' \in [OSs -> {"agendado", "atrasado", "realizado"}],
           x.pc = "resultado" => x.lido \in Fotos(x.aviso.os)
    PROVE  IInv' /\ NaoOkFica
<1> USE DEF IInv
<1>1. TypeOK'
  BY IrEfeito DEF TypeOK
<1>2. Fidelidade'
  BY FotosDaEntrega, Esquecer
<1>3. QED
  BY <1>1, <1>2 DEF NaoOkFica

LEMMA ReceberInv ==
    ASSUME IInv, NEW e \in Entregas, NEW m \in avisos, Receber(e, m)
    PROVE  IInv' /\ NaoOkFica
<1> USE DEF IInv
<1> DEFINE x == [pc |-> "status", aviso |-> m]
<1>1. x \in Entrega /\ x.pc = "status"
  BY DEF Entrega, TypeOK
<1>2. Ir(e, x) /\ UNCHANGED <<tarefa, excluidas, avisos, os, ocor, visita, imp, sinc>>
  BY DEF Receber
<1> HIDE DEF x
<1>3. QED
  BY <1>1, <1>2, SeguirInv DEF TypeOK

LEMMA AtualizarStatusInv ==
    ASSUME IInv, NEW e \in Entregas, AtualizarStatus(e)
    PROVE  IInv' /\ NaoOkFica
<1> USE DEF IInv
<1> DEFINE m == ent[e].aviso
           b == [pc |-> "buscar", aviso |-> m]
           v == [pc |-> "visita", aviso |-> m]
<1>1. m \in Aviso /\ m.os \in OSs /\ m.alvo \in Status
  BY EntregaDe DEF AtualizarStatus, Aviso, Status
<1>2. os' \in [OSs -> [status : Status, de : {"preventiva", "visita"}]]
  BY <1>1 DEF AtualizarStatus, TypeOK
<1>3. b \in Entrega /\ b.pc = "buscar" /\ v \in Entrega /\ v.pc = "visita"
  BY <1>1 DEF Entrega
<1>4. UNCHANGED <<tarefa, excluidas, ocor, visita, imp, sinc>>
  BY DEF AtualizarStatus
<1>5. \/ Ir(e, b) /\ UNCHANGED avisos
      \/ Ir(e, v) /\ UNCHANGED avisos
      \/ Concluir(e)
  BY DEF AtualizarStatus
<1> HIDE DEF m, b, v
<1>6. CASE Ir(e, b) /\ UNCHANGED avisos
  BY <1>2, <1>3, <1>4, <1>6, SeguirInv DEF TypeOK
<1>7. CASE Ir(e, v) /\ UNCHANGED avisos
  BY <1>2, <1>3, <1>4, <1>7, SeguirInv DEF TypeOK
<1>8. CASE Concluir(e)
  BY <1>2, <1>4, <1>8, ConcluirEfeito, OciosaTipo, SeguirInv DEF TypeOK
<1>9. QED
  BY <1>5, <1>6, <1>7, <1>8

LEMMA BuscarTarefaInv ==
    ASSUME IInv, NEW e \in Entregas, BuscarTarefa(e)
    PROVE  IInv' /\ NaoOkFica
<1> USE DEF IInv
<1> DEFINE m == ent[e].aviso
           x == [pc |-> "resultado", aviso |-> m, lido |-> tarefa[m.os]]
<1>1. m \in Aviso /\ m.os \in OSs /\ tarefa[m.os] \in Tarefa
  BY EntregaDe DEF BuscarTarefa, Aviso, TypeOK
<1>2. x \in Entrega /\ x.lido \in Fotos(x.aviso.os)
  BY <1>1 DEF Entrega, Fotos
<1>3. UNCHANGED <<tarefa, excluidas, os, ocor, visita, imp, sinc>>
  BY DEF BuscarTarefa
<1>4. Concluir(e) \/ (Ir(e, x) /\ UNCHANGED avisos)
  BY DEF BuscarTarefa
<1> HIDE DEF m, x
<1>5. CASE Ir(e, x) /\ UNCHANGED avisos
  BY <1>2, <1>3, <1>5, SeguirInv DEF TypeOK
<1>6. CASE Concluir(e)
  BY <1>3, <1>6, ConcluirEfeito, OciosaTipo, SeguirInv DEF TypeOK
<1>7. QED
  BY <1>4, <1>5, <1>6

LEMMA GravarResultadoInv ==
    ASSUME IInv, NEW e \in Entregas, GravarResultado(e)
    PROVE  IInv' /\ NaoOkFica
<1> USE DEF IInv
<1> DEFINE o == ent[e].aviso.os
           t == ent[e].lido
<1>1. ent[e].pc = "resultado" /\ UNCHANGED <<tarefa, excluidas, os, visita, imp, sinc>>
  BY DEF GravarResultado
<1>2. o \in OSs /\ t \in Fotos(o)
  BY <1>1, EntregaDe DEF Aviso, Fotos
<1>3. AtualizarResultado(o, Consolidar(TRUE, t.resp), t.data)
  BY DEF GravarResultado
<1>4. Ir(e, Ociosa) /\ avisos' \subseteq Aviso
  BY ConcluirEfeito DEF GravarResultado
<1>5. \A p \in OSs : Fotos(p)' \subseteq Fotos(p)
  BY <1>1, <1>4, OciosaTipo, FotosDaEntrega
<1> HIDE DEF o, t
<1>6. /\ ocor' \in [OSs -> [estado : Estado, em : Datas]]
      /\ Fidelidade' /\ NaoOkFica
  BY <1>1, <1>2, <1>3, <1>5, Gravar DEF NaoOkFica
<1>7. TypeOK'
  BY <1>1, <1>4, <1>6, IrEfeito, OciosaTipo DEF TypeOK
<1>8. QED
  BY <1>6, <1>7

LEMMA RegistrarVisitaInv ==
    ASSUME IInv, NEW e \in Entregas, RegistrarVisita(e)
    PROVE  IInv' /\ NaoOkFica
<1> USE DEF IInv
<1>1. UNCHANGED <<tarefa, excluidas, os, ocor, imp, sinc>>
  BY DEF RegistrarVisita
<1>2. visita' \in [OSs -> {"agendado", "atrasado", "realizado"}]
  BY DEF RegistrarVisita, TypeOK
<1>3. Ir(e, Ociosa) /\ avisos' \subseteq Aviso
  BY ConcluirEfeito DEF RegistrarVisita, TypeOK
<1>4. QED
  BY <1>1, <1>2, <1>3, OciosaTipo, SeguirInv DEF TypeOK

LEMMA EntregaFalhaInv ==
    ASSUME IInv, NEW e \in Entregas, EntregaFalha(e)
    PROVE  IInv' /\ NaoOkFica
  BY OciosaTipo, SeguirInv DEF EntregaFalha, IInv, TypeOK

\* An import reads a page, records one of it, or gives up.
LEMMA PaginaInv ==
    ASSUME IInv, NEW i \in Importacoes, NEW S \in SUBSET OSs, NEW f \in [S -> Tarefa],
           imp' = [imp EXCEPT ![i] = f], \A o \in DOMAIN f : f[o] \in Fotos(o),
           UNCHANGED <<tarefa, excluidas, avisos, os, ocor, visita, ent, sinc>>
    PROVE  IInv' /\ NaoOkFica
<1> USE DEF IInv
<1>1. TypeOK'
  BY PaginaTipo DEF TypeOK
<1>2. Fidelidade'
  BY FotosDaImportacao, Esquecer
<1>3. QED
  BY <1>1, <1>2 DEF NaoOkFica

LEMMA LerTarefasInv ==
    ASSUME IInv, NEW i \in Importacoes, LerTarefas(i)
    PROVE  IInv' /\ NaoOkFica
<1> DEFINE f == [o \in ComResposta |-> tarefa[o]]
<1>1. ComResposta \in SUBSET OSs
  BY DEF ComResposta, Preventivas
<1>2. f \in [ComResposta -> Tarefa] /\ \A o \in DOMAIN f : f[o] \in Fotos(o)
  BY <1>1 DEF IInv, TypeOK, Fotos
<1>3. imp' = [imp EXCEPT ![i] = f]
  BY DEF LerTarefas
<1>4. UNCHANGED <<tarefa, excluidas, avisos, os, ocor, visita, ent, sinc>>
  BY DEF LerTarefas
<1> HIDE DEF f
<1>5. QED
  BY <1>1, <1>2, <1>3, <1>4, PaginaInv

LEMMA ImportacaoFalhaInv ==
    ASSUME IInv, NEW i \in Importacoes, ImportacaoFalha(i)
    PROVE  IInv' /\ NaoOkFica
<1>1. <<>> \in [{} -> Tarefa] /\ DOMAIN <<>> = {}
  OBVIOUS
<1>2. /\ imp' = [imp EXCEPT ![i] = <<>>]
      /\ UNCHANGED <<tarefa, excluidas, avisos, os, ocor, visita, ent, sinc>>
  BY DEF ImportacaoFalha
<1>3. QED
  BY <1>1, <1>2, PaginaInv

LEMMA GravarLidoInv ==
    ASSUME IInv, NEW i \in Importacoes, NEW o \in OSs, GravarLido(i, o)
    PROVE  IInv' /\ NaoOkFica
<1> USE DEF IInv
<1> DEFINE t == imp[i][o]
           S == DOMAIN imp[i] \ {o}
           f == [p \in S |-> imp[i][p]]
<1>1. o \in DOMAIN imp[i] /\ UNCHANGED <<tarefa, excluidas, avisos, os, visita, ent, sinc>>
  BY DEF GravarLido
<1>2. S \in SUBSET OSs /\ f \in [S -> Tarefa]
  BY PaginaDe
<1>3. t \in Fotos(o) /\ \A p \in DOMAIN f : f[p] \in Fotos(p)
  BY <1>1 DEF Fotos
<1>4. imp' = [imp EXCEPT ![i] = f]
  BY DEF GravarLido, TypeOK
<1>5. \E c \in BOOLEAN : AtualizarResultado(o, Consolidar(c, t.resp), t.data)
  BY DEF GravarLido
<1> HIDE DEF t, S, f
<1>6. \A p \in OSs : Fotos(p)' \subseteq Fotos(p)
  BY <1>1, <1>3, <1>4, FotosDaImportacao
<1>7. PICK c \in BOOLEAN : AtualizarResultado(o, Consolidar(c, t.resp), t.data)
  BY <1>5
<1>8. /\ ocor' \in [OSs -> [estado : Estado, em : Datas]]
      /\ Fidelidade' /\ NaoOkFica
  BY <1>1, <1>3, <1>6, <1>7, Gravar DEF NaoOkFica
<1>9. TypeOK'
  BY <1>1, <1>2, <1>4, <1>8, PaginaTipo DEF TypeOK
<1>10. QED
  BY <1>8, <1>9

\* Lost events, the reconciliation, users and the clock record no result.
LEMMA OutrosInv ==
    ASSUME IInv, UNCHANGED <<tarefa, ocor, ent, imp>>, sinc' \in Sinc,
           excluidas' \subseteq OSs, avisos' \subseteq Aviso,
           os' \in [OSs -> [status : Status, de : {"preventiva", "visita"}]],
           visita' \in [OSs -> {"agendado", "atrasado", "realizado"}]
    PROVE  IInv' /\ NaoOkFica
<1>1. TypeOK'
  BY DEF IInv, TypeOK
<1>2. Fidelidade'
  BY Esquecer DEF IInv, Fotos
<1>3. QED
  BY <1>1, <1>2 DEF IInv, NaoOkFica

-----------------------------------------------------------------------------
(* The theorems.                                                           *)

LEMMA InicioInv ==
    ASSUME Init
    PROVE  IInv
<1>1. 0 \in Datas
  BY DataAssumption DEF Datas
<1>2. <<>> \in [{} -> Tarefa]
  OBVIOUS
<1>3. <<>> \in Lidas
  BY <1>2 DEF Lidas
<1>4. TypeOK
  BY <1>1, <1>3, OciosaTipo
     DEF Init, TypeOK, Tarefa, Respostas, Status, Estado, Aviso, Sinc
<1>5. /\ \A e \in Entregas : ent[e].pc # "resultado"
      /\ \A i \in Importacoes : DOMAIN imp[i] = {}
  BY DEF Init, Ociosa
<1>6. \A o \in OSs : Fotos(o) = {tarefa[o]}
  BY <1>5 DEF Fotos
<1>7. \A o \in OSs : /\ tarefa[o].data = 0 /\ tarefa[o].resp = "nenhuma"
                     /\ ocor[o].em = 0 /\ ocor[o].estado = "pendente"
  BY DEF Init
<1>8. FotosFieis /\ NaoOkFiel
  BY <1>7, <1>6 DEF FotosFieis, NaoOkFiel
<1>9. Consolidar(FALSE, "nenhuma") = "pendente"
  BY DEF Consolidar
<1>10. ResultadoFiel
  <2> SUFFICES ASSUME NEW o \in OSs
               PROVE  /\ ocor[o].em <= tarefa[o].data
                      /\ \E c \in BOOLEAN : ocor[o].estado = Consolidar(c, tarefa[o].resp)
    BY DEF ResultadoFiel
  <2>1. ocor[o].estado = Consolidar(FALSE, tarefa[o].resp)
    BY <1>7, <1>9
  <2>2. 0 <= 0 /\ FALSE \in BOOLEAN
    OBVIOUS
  <2>3. ocor[o].em <= tarefa[o].data
    BY <1>7, <2>2
  <2>4. \E c \in BOOLEAN : ocor[o].estado = Consolidar(c, tarefa[o].resp)
    BY <2>1, <2>2, Zenon
  <2>5. QED
    BY <2>3, <2>4
<1>11. QED
  BY <1>4, <1>8, <1>10 DEF IInv, Fidelidade

LEMMA PassoInv ==
    ASSUME IInv, [Next]_vars
    PROVE  IInv' /\ NaoOkFica
<1> USE DEF IInv
<1>1. CASE UNCHANGED vars
  BY <1>1, OutrosInv DEF vars, TypeOK
<1>2. ASSUME NEW o \in OSs, Tecnico(o)
      PROVE  IInv' /\ NaoOkFica
  BY <1>2, TecnicoInv
<1>3. ASSUME NEW o \in OSs, MarcarAtrasada(o)
      PROVE  IInv' /\ NaoOkFica
  BY <1>3, OutrosInv DEF MarcarAtrasada, TypeOK
<1>4. ASSUME NEW o \in OSs, NEW s \in Status, AlterarStatus(o, s)
      PROVE  IInv' /\ NaoOkFica
  <2>1. os' \in [OSs -> [status : Status, de : {"preventiva", "visita"}]]
    BY <1>4 DEF AlterarStatus, TypeOK
  <2>2. QED
    BY <1>4, <2>1, OutrosInv DEF AlterarStatus, TypeOK
<1>5. ASSUME NEW m \in avisos, PerderAviso(m)
      PROVE  IInv' /\ NaoOkFica
  BY <1>5, OutrosInv DEF PerderAviso, TypeOK
<1>6. ASSUME NEW m \in avisos, NEW e \in Entregas, Receber(e, m)
      PROVE  IInv' /\ NaoOkFica
  BY <1>6, ReceberInv
<1>7. ASSUME NEW e \in Entregas, Processar(e)
      PROVE  IInv' /\ NaoOkFica
  BY <1>7, AtualizarStatusInv, BuscarTarefaInv, GravarResultadoInv,
     RegistrarVisitaInv, EntregaFalhaInv DEF Processar
<1>8. ASSUME NEW i \in Importacoes,
             LerTarefas(i) \/ ImportacaoFalha(i) \/ \E o \in OSs : GravarLido(i, o)
      PROVE  IInv' /\ NaoOkFica
  BY <1>8, LerTarefasInv, ImportacaoFalhaInv, GravarLidoInv
<1>9. CASE SincronizarExcluidas
  <2>1. CASE ListarExcluidas
    <3>1. sinc' \in Sinc
      BY <2>1 DEF ListarExcluidas, TypeOK, Sinc
    <3>2. QED
      BY <2>1, <3>1, OutrosInv DEF ListarExcluidas, TypeOK
  <2>2. CASE CancelarListadas
    <3>1. os' \in [OSs -> [status : Status, de : {"preventiva", "visita"}]]
      BY <2>2 DEF CancelarListadas, CancelarOS, TypeOK, Status
    <3>2. sinc' \in Sinc
      BY <2>2 DEF CancelarListadas, Sinc
    <3>3. QED
      BY <2>2, <3>1, <3>2, OutrosInv DEF CancelarListadas, TypeOK
  <2>3. CASE SincronizacaoFalha
    <3>1. sinc' \in Sinc
      BY <2>3 DEF SincronizacaoFalha, Sinc
    <3>2. QED
      BY <2>3, <3>1, OutrosInv DEF SincronizacaoFalha, TypeOK
  <2>4. QED
    BY <1>9, <2>1, <2>2, <2>3 DEF SincronizarExcluidas
<1>10. QED
  BY <1>1, <1>2, <1>3, <1>4, <1>5, <1>6, <1>7, <1>8, <1>9 DEF Next

THEOREM Invariante == Spec => []IInv
<1>1. Init => IInv
  BY InicioInv
<1>2. IInv /\ [Next]_vars => IInv'
  BY PassoInv
<1>3. QED
  BY <1>1, <1>2, PTL DEF Spec

\* Every variable keeps its type: no function stores a status, a result or a
\* date outside what the columns admit.
THEOREM TipoDoStatus == Spec => []TypeOK
<1>1. IInv => TypeOK
  BY DEF IInv
<1>2. QED
  BY <1>1, Invariante, PTL

\* However many deliveries and imports hold older readings of a task, a result
\* with the date of the technician's last answer is what that answer says.
THEOREM ResultadoCerto == Spec => []ResultadoDoTecnico
<1>1. IInv => ResultadoDoTecnico
  BY DEF IInv, Fidelidade, ResultadoFiel, ResultadoDoTecnico, Preventivas
<1>2. QED
  BY <1>1, Invariante, PTL

\* A recorded "não ok" goes only with a later date: no stale reading, delivered
\* twice or applied out of order, hides it.
THEOREM NaoOkSoComData == Spec => NaoOkPermanece
<1>1. IInv /\ [Next]_vars => NaoOkFica
  BY PassoInv
<1>2. NaoOkFica => [\A o \in Preventivas :
                      ocor[o].estado = "nao_ok" /\ ocor'[o].estado # "nao_ok" =>
                          ocor'[o].em > ocor[o].em]_vars
  BY DEF NaoOkFica, Preventivas
<1>3. QED
  BY <1>1, <1>2, Invariante, PTL DEF Spec, NaoOkPermanece
=============================================================================
