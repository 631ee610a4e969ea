-------------------------- MODULE AuvoOutboxProofs --------------------------
(***************************************************************************)
(* Proofs about the outbox, for any number of rows, drains and writes, any *)
(* batch size and any faults: reservations are exclusive, ids name records *)
(* of their own row, "sent" is never a lie, only users add to the outbox,  *)
(* and its status column is the queue of FilaEntrega.  A row that no two   *)
(* drains process at once is in the Auvo as it is here once all of it was  *)
(* sent, and no record of a row is created a second time without a drain   *)
(* that raced or an entry that has not ended well.                         *)
(***************************************************************************)
EXTENDS AuvoOutbox, SequenceTheorems, TLAPS

\* What a drain holds is reserved, and held by it alone.  atual is set exactly
\* between taking a row of the batch and storing its result.
Posse ==
    \A d \in Drenos :
        /\ pc[d] = "ocioso" => lote[d] = {}
        /\ pc[d] \in {"chamar", "aplicar", "gravar"} <=> atual[d] # 0
        /\ \A i \in lote[d] : i \in DOMAIN outbox /\ outbox[i].status = "processing"
        /\ atual[d] # 0 => /\ atual[d] \in DOMAIN outbox
                           /\ outbox[atual[d]].status = "processing"
                           /\ atual[d] \notin lote[d]
        /\ \A e \in Drenos \ {d} :
             /\ lote[d] \cap lote[e] = {}
             /\ atual[d] \notin lote[e]
             /\ atual[d] # 0 => atual[d] # atual[e]

IInv == TypeOK /\ Posse

-----------------------------------------------------------------------------
(* Each kind of step, seen through the types.                              *)

LEMMA TipoDaEntrada ==
    ASSUME NEW r \in Linhas, TypeOK, NEW depois \in Origem
    PROVE  OpDaEscrita(origem[r], depois) \in Op
  BY DEF OpDaEscrita, Op, TypeOK, Origem

LEMMA FuncaoEhSeq ==
    ASSUME NEW S, NEW n \in Nat, NEW f \in [1..n -> S]
    PROVE  f \in Seq(S) /\ Len(f) = n
<1>1. f \in Seq(S)
  BY SeqDef
<1>2. QED
  BY <1>1, LenProperties

LEMMA ComStatus ==
    ASSUME NEW e \in Entrada, NEW s \in Situacao
    PROVE  /\ [e EXCEPT !.status = s] \in Entrada
           /\ [e EXCEPT !.status = s].status = s
           /\ [e EXCEPT !.status = s].linha = e.linha
           /\ [e EXCEPT !.status = s].op = e.op
  BY DEF Entrada

LEMMA TypeInit == Init => IInv
<1> SUFFICES ASSUME Init PROVE IInv
  OBVIOUS
<1>1. TypeOK
  BY DEF Init, TypeOK, SemLinha, Origem
<1>2. Posse
  BY DEF Init, Posse
<1>3. QED
  BY <1>1, <1>2 DEF IInv

\* A user write touches one origin row and appends one entry.
LEMMA EscreverInv ==
    ASSUME IInv, NEW r \in Linhas, NEW depois \in Origem, Escrever(r, depois)
    PROVE  IInv'
<1> USE DEF IInv
<1> DEFINE nova == [linha |-> r, op |-> OpDaEscrita(origem[r], depois), status |-> "pending"]
<1>1. nova \in Entrada
  BY TipoDaEntrada DEF Entrada, Situacao
<1>2. outbox' = Append(outbox, nova)
  BY DEF Escrever, Enfileirar
<1>3. outbox \in Seq(Entrada)
  BY DEF TypeOK
<1>4. /\ outbox' \in Seq(Entrada)
      /\ DOMAIN outbox \subseteq DOMAIN outbox'
      /\ \A i \in DOMAIN outbox : outbox'[i] = outbox[i]
  BY <1>1, <1>2, <1>3
<1>5. TypeOK'
  BY <1>4 DEF Escrever, drenoVars, TypeOK
<1>6. Posse'
  BY <1>4 DEF Escrever, drenoVars, TypeOK, Posse
<1>7. QED
  BY <1>5, <1>6

LEMMA UsuarioInv == ASSUME IInv, Usuario PROVE IInv'
<1> PICK r \in Linhas : Inserir(r) \/ Editar(r) \/ Excluir(r) \/ Apagar(r)
  BY DEF Usuario
<1>0. origem[r] \in Origem /\ Len(outbox) \in Nat
  BY DEF IInv, TypeOK
<1>1. CASE Inserir(r)
  BY <1>0, <1>1, EscreverInv DEF Inserir, Origem
<1>2. CASE Editar(r)
  BY <1>0, <1>2, EscreverInv DEF Editar, Origem
<1>3. CASE Excluir(r)
  BY <1>0, <1>3, EscreverInv DEF Excluir, Origem
<1>4. CASE Apagar(r)
  BY <1>0, <1>4, EscreverInv DEF Apagar, Origem
<1>5. QED
  BY <1>1, <1>2, <1>3, <1>4

-----------------------------------------------------------------------------

\* The claim marks its batch and leaves every entry otherwise alone.
LEMMA ReivindicarEfeito ==
    ASSUME IInv, NEW d \in Drenos, Reivindicar(d)
    PROVE  /\ DOMAIN outbox' = DOMAIN outbox
           /\ LotePendente \subseteq DOMAIN outbox
           /\ \A i \in LotePendente : outbox[i].status = "pending"
           /\ \A i \in DOMAIN outbox :
                 /\ outbox'[i] \in Entrada
                 /\ outbox'[i].status = IF i \in LotePendente
                                          THEN "processing" ELSE outbox[i].status
                 /\ outbox'[i].linha = outbox[i].linha
                 /\ outbox'[i].op = outbox[i].op
<1> USE DEF IInv
<1>1. /\ outbox \in Seq(Entrada)
      /\ LotePendente \subseteq DOMAIN outbox
      /\ \A i \in LotePendente : outbox[i].status = "pending"
  BY DEF TypeOK, LotePendente, Pendentes
<1>2. /\ DOMAIN outbox' = DOMAIN outbox
      /\ \A i \in DOMAIN outbox :
            outbox'[i] = IF i \in LotePendente
                           THEN [outbox[i] EXCEPT !.status = "processing"] ELSE outbox[i]
  BY DEF Reivindicar
<1>3. \A i \in DOMAIN outbox :
         /\ outbox'[i] \in Entrada
         /\ outbox'[i].status = IF i \in LotePendente THEN "processing" ELSE outbox[i].status
         /\ outbox'[i].linha = outbox[i].linha
         /\ outbox'[i].op = outbox[i].op
  <2> SUFFICES ASSUME NEW i \in DOMAIN outbox
               PROVE  /\ outbox'[i] \in Entrada
                      /\ outbox'[i].status = IF i \in LotePendente
                                               THEN "processing" ELSE outbox[i].status
                      /\ outbox'[i].linha = outbox[i].linha
                      /\ outbox'[i].op = outbox[i].op
    OBVIOUS
  <2>1. outbox[i] \in Entrada /\ "processing" \in Situacao
    BY <1>1 DEF Situacao
  <2> DEFINE e == outbox[i]
  <2>2. CASE i \in LotePendente
    <3>1. outbox'[i] = [e EXCEPT !.status = "processing"]
      BY <1>2, <2>2
    <3> HIDE DEF e
    <3>2. /\ [e EXCEPT !.status = "processing"] \in Entrada
          /\ [e EXCEPT !.status = "processing"].status = "processing"
          /\ [e EXCEPT !.status = "processing"].linha = e.linha
          /\ [e EXCEPT !.status = "processing"].op = e.op
      BY <2>1, ComStatus DEF e
    <3>3. QED
      BY <2>2, <3>1, <3>2 DEF e
  <2>3. CASE i \notin LotePendente
    BY <1>2, <2>1, <2>3
  <2>4. QED
    BY <2>2, <2>3
<1>4. QED
  BY <1>1, <1>2, <1>3

LEMMA ReivindicarInv == ASSUME IInv, NEW d \in Drenos, Reivindicar(d) PROVE IInv'
<1> USE DEF IInv
<1>1. /\ outbox \in Seq(Entrada)
      /\ LotePendente \subseteq DOMAIN outbox
      /\ \A i \in LotePendente : outbox[i].status = "pending"
  BY ReivindicarEfeito DEF TypeOK
<1>2. DOMAIN outbox' = DOMAIN outbox
  BY ReivindicarEfeito
<1>3. \A i \in DOMAIN outbox :
         /\ outbox'[i] \in Entrada
         /\ outbox'[i].status = IF i \in LotePendente THEN "processing" ELSE outbox[i].status
  BY ReivindicarEfeito
<1>4. outbox' \in Seq(Entrada)
  <2>1. outbox' \in [1..Len(outbox) -> Entrada]
    BY <1>1, <1>3, LenProperties DEF Reivindicar
  <2>2. QED
    BY <1>1, <2>1, FuncaoEhSeq, LenProperties
<1>5. \A i \in DOMAIN outbox :
         outbox'[i].status = IF i \in LotePendente THEN "processing" ELSE outbox[i].status
  BY <1>3
<1>6. TypeOK'
  <2>1. lote' \in [Drenos -> SUBSET Nat]
    BY <1>1 DEF Reivindicar, TypeOK
  <2>2. QED
    BY <1>4, <2>1 DEF Reivindicar, TypeOK
<1>7. Posse'
  <2>1. /\ lote' = [lote EXCEPT ![d] = LotePendente]
        /\ lote[d] = {} /\ atual[d] = 0 /\ atual' = atual
        /\ \A e \in Drenos \ {d} : pc'[e] = pc[e]
        /\ pc'[d] = IF LotePendente = {} THEN "ocioso" ELSE "laco"
    BY DEF Reivindicar, TypeOK, Posse
  <2>2. \A e \in Drenos : \A i \in lote[e] : i \notin LotePendente
    BY <1>1 DEF Posse
  <2>3. \A e \in Drenos : atual[e] # 0 => atual[e] \notin LotePendente
    BY <1>1 DEF Posse
  <2>4. 0 \notin LotePendente
    BY <1>1
  <2>5. /\ \A e \in Drenos \ {d} : lote'[e] = lote[e]
        /\ lote'[d] = LotePendente
        /\ pc'[d] \in {"ocioso", "laco"}
    BY <2>1 DEF TypeOK
  <2>6. \A e \in Drenos : \A i \in lote'[e] :
           i \in DOMAIN outbox' /\ outbox'[i].status = "processing"
    BY <1>1, <1>2, <1>5, <2>5 DEF Posse
  <2>7. \A e \in Drenos : atual[e] # 0 =>
           atual[e] \in DOMAIN outbox' /\ outbox'[atual[e]].status = "processing"
    BY <1>2, <1>5 DEF Posse
  <2>8. QED
    BY <2>1, <2>2, <2>3, <2>4, <2>5, <2>6, <2>7 DEF Posse
<1>8. QED
  BY <1>6, <1>7

LEMMA ProcessarLinhaInv == ASSUME IInv, NEW d \in Drenos, ProcessarLinha(d) PROVE IInv'
<1> USE DEF IInv
<1> PICK i \in lote[d] :
       /\ lote'   = [lote EXCEPT ![d] = @ \ {i}]
       /\ atual'  = [atual EXCEPT ![d] = i]
       /\ lida'   = [lida EXCEPT ![d] = origem[outbox[i].linha]]
       /\ idAuvo' = [idAuvo EXCEPT ![d] = origem[outbox[i].linha].auvoId]
       /\ \E destino \in {"gravar", "aplicar", "chamar"}, b \in BOOLEAN : Passar(d, destino, b)
  BY DEF ProcessarLinha
<1> PICK destino \in {"gravar", "aplicar", "chamar"}, b \in BOOLEAN : Passar(d, destino, b)
  OBVIOUS
<1>1. /\ i \in DOMAIN outbox /\ i \in Nat /\ i # 0
      /\ outbox[i] \in Entrada /\ outbox[i].status = "processing"
  BY DEF TypeOK, Posse
<1>2. origem[outbox[i].linha] \in Origem /\ origem[outbox[i].linha].auvoId \in Nat
  BY <1>1 DEF TypeOK, Entrada, Origem
<1>3. UNCHANGED <<origem, outbox, auvo>> /\ pc[d] = "laco"
  BY DEF ProcessarLinha
<1>4. TypeOK'
  BY <1>1, <1>2, <1>3 DEF TypeOK, Passar
<1>5. Posse'
  <2>1. /\ pc' = [pc EXCEPT ![d] = destino]
        /\ atual[d] = 0
    BY <1>3 DEF Passar, Posse, TypeOK
  <2>2. QED
    BY <1>1, <1>3, <2>1 DEF Posse, TypeOK
<1>6. QED
  BY <1>4, <1>5

-----------------------------------------------------------------------------

\* While a drain works on a row, the row is an entry of the outbox.
LEMMA AtualEhEntrada ==
    ASSUME IInv, NEW d \in Drenos, pc[d] \in {"chamar", "aplicar", "gravar"}
    PROVE  /\ atual[d] \in DOMAIN outbox
           /\ outbox[atual[d]] \in Entrada
           /\ outbox[atual[d]].linha \in Linhas
<1>1. atual[d] # 0
  BY DEF IInv, Posse
<1>2. atual[d] \in DOMAIN outbox
  BY <1>1 DEF IInv, Posse
<1>3. outbox \in Seq(Entrada)
  BY DEF IInv, TypeOK
<1>4. outbox[atual[d]] \in Entrada
  BY <1>2, <1>3
<1>5. QED
  BY <1>2, <1>4 DEF Entrada

LEMMA ComConteudoTipo ==
    ASSUME IInv, NEW d \in Drenos, NEW reg \in Registro
    PROVE  /\ ComConteudo(reg, d) \in Registro
           /\ ComConteudo(reg, d).ref = reg.ref
           /\ ComConteudo(reg, d).maior >= reg.maior
           /\ ComConteudo(reg, d).maior >= lida[d].ver
<1> DEFINE v == lida[d].ver
           a == IF Entidade(d).deleteStrategy = "soft-patch"
                  THEN lida[d].estado = "viva" ELSE reg.ativo
           m == Maior(reg.maior, v)
<1>1. v \in Nat /\ a \in BOOLEAN
  BY DEF IInv, TypeOK, Origem, Registro
<1>2. m \in Nat /\ m >= reg.maior /\ m >= v
  BY <1>1 DEF Registro, Maior
<1>3. ComConteudo(reg, d) = [reg EXCEPT !.ver = v, !.maior = m, !.ativo = a]
  BY DEF ComConteudo
<1> HIDE DEF v, a, m
<1>4. /\ [reg EXCEPT !.ver = v, !.maior = m, !.ativo = a] \in Registro
      /\ [reg EXCEPT !.ver = v, !.maior = m, !.ativo = a].ref = reg.ref
      /\ [reg EXCEPT !.ver = v, !.maior = m, !.ativo = a].maior = m
  BY <1>1, <1>2 DEF Registro
<1>5. QED
  BY <1>2, <1>3, <1>4 DEF v, m

\* Whatever the request, the Auvo's records keep their row and lose nothing of
\* what they received, and the id the drain holds after a create or update
\* names a record of its row that received what the drain read.
LEMMA RequisicaoEfeito ==
    ASSUME IInv, NEW d \in Drenos, pc[d] = "chamar", Requisicao(d)
    PROVE  /\ auvo' \in Seq(Registro)
           /\ DOMAIN auvo \subseteq DOMAIN auvo'
           /\ \A k \in DOMAIN auvo : auvo'[k].ref = auvo[k].ref /\ auvo'[k].maior >= auvo[k].maior
           /\ idAuvo' \in [Drenos -> Nat]
           /\ \A e \in Drenos \ {d} : idAuvo'[e] = idAuvo[e]
<1> DEFINE i == atual[d]
<1>0. /\ outbox[i].linha \in Linhas
      /\ auvo \in Seq(Registro) /\ Len(auvo) \in Nat /\ DOMAIN auvo = 1..Len(auvo)
      /\ idAuvo \in [Drenos -> Nat]
      /\ \A k \in DOMAIN auvo : auvo[k] \in Registro
  BY AtualEhEntrada DEF IInv, TypeOK
<1>1. CASE Desativar(d)
  <2> DEFINE k == idAuvo[d]
             novo == IF Entidade(d).deleteStrategy = "hard-delete"
                       THEN [auvo[k] EXCEPT !.existe = FALSE]
                       ELSE [auvo[k] EXCEPT !.ativo = FALSE]
  <2>1. auvo' = [auvo EXCEPT ![k] = novo] /\ UNCHANGED idAuvo
    BY <1>1 DEF Desativar
  <2>2. ASSUME k \in DOMAIN auvo
        PROVE  novo \in Registro /\ novo.ref = auvo[k].ref /\ novo.maior = auvo[k].maior
    BY <1>0, <2>2 DEF Registro
  <2> HIDE DEF novo
  <2>3. auvo' \in [1..Len(auvo) -> Registro]
    BY <1>0, <2>1, <2>2
  <2>4. auvo' \in Seq(Registro)
    BY <1>0, <2>3, FuncaoEhSeq
  <2>5. \A j \in DOMAIN auvo : auvo'[j].ref = auvo[j].ref /\ auvo'[j].maior >= auvo[j].maior
    BY <1>0, <2>1, <2>2 DEF Registro
  <2>6. QED
    BY <1>0, <2>1, <2>3, <2>4, <2>5
<1>2. ASSUME NEW k \in Nat, auvo' = [auvo EXCEPT ![k] = ComConteudo(@, d)]
      PROVE  /\ auvo' \in Seq(Registro)
             /\ DOMAIN auvo' = DOMAIN auvo
             /\ \A j \in DOMAIN auvo : auvo'[j].ref = auvo[j].ref
                                       /\ auvo'[j].maior >= auvo[j].maior
  <2> DEFINE novo == ComConteudo(auvo[k], d)
  <2>1. auvo' = [auvo EXCEPT ![k] = novo]
    BY <1>2
  <2>2. ASSUME k \in DOMAIN auvo
        PROVE  novo \in Registro /\ novo.ref = auvo[k].ref /\ novo.maior >= auvo[k].maior
    BY <1>0, <2>2, ComConteudoTipo
  <2> HIDE DEF novo
  <2>3. auvo' \in [1..Len(auvo) -> Registro]
    BY <1>0, <2>1, <2>2
  <2>4. auvo' \in Seq(Registro)
    BY <1>0, <2>3, FuncaoEhSeq
  <2>5. \A j \in DOMAIN auvo : auvo'[j].ref = auvo[j].ref /\ auvo'[j].maior >= auvo[j].maior
    BY <1>0, <2>1, <2>2 DEF Registro
  <2>6. QED
    BY <1>0, <2>3, <2>4, <2>5
<1>3. CASE Patch(d)
  BY <1>0, <1>2, <1>3 DEF Patch
<1>4. CASE Post(d)
  <2>1. CASE \E k \in MesmoExternalId(d) :
               /\ auvo'   = [auvo EXCEPT ![k] = ComConteudo(@, d)]
               /\ idAuvo' = [idAuvo EXCEPT ![d] = k]
    <3>1. PICK k \in MesmoExternalId(d) :
             /\ auvo'   = [auvo EXCEPT ![k] = ComConteudo(@, d)]
             /\ idAuvo' = [idAuvo EXCEPT ![d] = k]
      BY <2>1
    <3>2. k \in DOMAIN auvo /\ k \in Nat
      BY <1>0 DEF MesmoExternalId
    <3>3. /\ auvo' \in Seq(Registro)
          /\ DOMAIN auvo' = DOMAIN auvo
          /\ \A j \in DOMAIN auvo : auvo'[j].ref = auvo[j].ref
                                    /\ auvo'[j].maior >= auvo[j].maior
      BY <1>2, <3>1, <3>2
    <3>4. QED
      BY <1>0, <3>1, <3>2, <3>3
  <2>2. CASE /\ auvo'   = Append(auvo, ComConteudo(Novo(d), d))
             /\ idAuvo' = [idAuvo EXCEPT ![d] = Len(auvo) + 1]
    <3>1. Novo(d) \in Registro
      BY <1>0 DEF Novo, Registro
    <3>2. ComConteudo(Novo(d), d) \in Registro
      BY <3>1, ComConteudoTipo
    <3>3. auvo' \in Seq(Registro) /\ \A k \in DOMAIN auvo : auvo'[k] = auvo[k]
      BY <1>0, <2>2, <3>2
    <3>4. DOMAIN auvo \subseteq DOMAIN auvo'
      BY <1>0, <2>2, <3>2
    <3>5. QED
      BY <1>0, <2>2, <3>3, <3>4 DEF Registro
  <2>3. QED
    BY <1>4, <2>1, <2>2 DEF Post
<1>5. QED
  BY <1>1, <1>3, <1>4 DEF Requisicao

LEMMA ChamarAuvoInv == ASSUME IInv, NEW d \in Drenos, ChamarAuvo(d) PROVE IInv'
<1> USE DEF IInv
<1>1. /\ pc[d] = "chamar" /\ Requisicao(d)
      /\ UNCHANGED <<origem, outbox, lote, atual, lida>>
      /\ \E destino \in {"aplicar", "gravar"} : Passar(d, destino, FALSE)
  BY DEF ChamarAuvo
<1>2. auvo' \in Seq(Registro) /\ idAuvo' \in [Drenos -> Nat]
  BY <1>1, RequisicaoEfeito
<1>3. TypeOK'
  BY <1>1, <1>2 DEF TypeOK, Passar
<1>4. Posse'
  BY <1>1 DEF TypeOK, Posse, Passar
<1>5. QED
  BY <1>3, <1>4

LEMMA AuvoRecusaInv == ASSUME IInv, NEW d \in Drenos, AuvoRecusa(d) PROVE IInv'
<1>1. TypeOK'
  BY DEF IInv, AuvoRecusa, TypeOK, Passar
<1>2. Posse'
  BY DEF IInv, AuvoRecusa, TypeOK, Posse, Passar
<1>3. QED
  BY <1>1, <1>2 DEF IInv

LEMMA AplicarSyncInv == ASSUME IInv, NEW d \in Drenos, AplicarSync(d) PROVE IInv'
<1> USE DEF IInv
<1>1. /\ pc[d] = "aplicar"
      /\ UNCHANGED <<outbox, auvo, lote, atual, lida, idAuvo>>
      /\ \E b \in BOOLEAN : Passar(d, "gravar", b)
  BY DEF AplicarSync, Enfileirar
<1>2. outbox[atual[d]].linha \in Linhas
  BY <1>1, AtualEhEntrada
<1>3. origem' \in [Linhas -> Origem]
  <2> DEFINE r == outbox[atual[d]].linha
             o == origem[r]
             v == idAuvo[d]
  <2>1. o \in Origem /\ v \in Nat
    BY <1>2 DEF TypeOK
  <2>2. [o EXCEPT !.auvoId = v] \in Origem
    BY <2>1 DEF Origem
  <2>3. \/ origem' = [origem EXCEPT ![r] = o]
        \/ origem' = [origem EXCEPT ![r] = [o EXCEPT !.auvoId = v]]
        \/ origem' = origem
    BY DEF AplicarSync
  <2> HIDE DEF o, v
  <2>4. QED
    BY <1>2, <2>1, <2>2, <2>3 DEF TypeOK
<1>4. TypeOK'
  BY <1>1, <1>3 DEF TypeOK, Passar
<1>5. Posse'
  BY <1>1 DEF TypeOK, Posse, Passar
<1>6. QED
  BY <1>4, <1>5

LEMMA LargarTipo ==
    ASSUME IInv, NEW d \in Drenos, Largar(d)
    PROVE  /\ atual' \in [Drenos -> Nat] /\ lida' \in [Drenos -> Origem]
           /\ idAuvo' \in [Drenos -> Nat] /\ ok' \in [Drenos -> BOOLEAN]
           /\ atual' = [atual EXCEPT ![d] = 0]
  BY DEF IInv, Largar, TypeOK, SemLinha, Origem

\* Storing the result changes the status of the drain's own entry, or nothing.
LEMMA GravarEfeito ==
    ASSUME IInv, NEW d \in Drenos, GravarResultado(d)
    PROVE  /\ outbox' \in Seq(Entrada)
           /\ DOMAIN outbox' = DOMAIN outbox
           /\ atual[d] \in DOMAIN outbox /\ atual[d] # 0
           /\ \A j \in DOMAIN outbox \ {atual[d]} : outbox'[j] = outbox[j]
           /\ outbox'[atual[d]].linha = outbox[atual[d]].linha
           /\ outbox'[atual[d]].op = outbox[atual[d]].op
           /\ outbox'[atual[d]].status \in {outbox[atual[d]].status,
                                            IF ok[d] THEN "sent" ELSE "error"}
<1> USE DEF IInv
<1> DEFINE i == atual[d]
           s == IF ok[d] THEN "sent" ELSE "error"
           nova == [outbox[i] EXCEPT !.status = s]
<1>1. /\ pc[d] = "gravar"
      /\ outbox' = [outbox EXCEPT ![i] = nova] \/ outbox' = outbox
  BY DEF GravarResultado
<1>2. i \in DOMAIN outbox /\ outbox[i] \in Entrada /\ i # 0
  BY <1>1, AtualEhEntrada DEF Posse
<1>3. s \in Situacao
  BY DEF Situacao
<1>4. /\ nova \in Entrada /\ nova.status = s
      /\ nova.linha = outbox[i].linha /\ nova.op = outbox[i].op
  BY <1>2, <1>3, ComStatus
<1>5. outbox \in Seq(Entrada)
  BY DEF TypeOK
<1> HIDE DEF nova, s
<1>6. /\ outbox' \in Seq(Entrada)
      /\ DOMAIN outbox' = DOMAIN outbox
      /\ \A j \in DOMAIN outbox \ {i} : outbox'[j] = outbox[j]
      /\ outbox'[i] = nova \/ outbox'[i] = outbox[i]
  BY <1>1, <1>2, <1>4, <1>5
<1>7. QED
  BY <1>2, <1>4, <1>6 DEF s

LEMMA GravarResultadoInv == ASSUME IInv, NEW d \in Drenos, GravarResultado(d) PROVE IInv'
<1> USE DEF IInv
<1> DEFINE i == atual[d]
<1>1. /\ pc[d] = "gravar" /\ Largar(d)
      /\ UNCHANGED <<origem, auvo, lote>>
      /\ pc' = [pc EXCEPT ![d] = IF lote[d] = {} THEN "ocioso" ELSE "laco"]
  BY DEF GravarResultado
<1>2. i \in DOMAIN outbox /\ i # 0
  BY GravarEfeito
<1>5. /\ outbox' \in Seq(Entrada)
      /\ DOMAIN outbox' = DOMAIN outbox
      /\ \A j \in DOMAIN outbox \ {i} : outbox'[j] = outbox[j]
  BY GravarEfeito
<1>6. TypeOK'
  BY <1>1, <1>5, LargarTipo DEF TypeOK
<1>7. Posse'
  <2>1. /\ atual' = [atual EXCEPT ![d] = 0] /\ lote' = lote
        /\ \A e \in Drenos \ {d} : pc'[e] = pc[e] /\ atual'[e] = atual[e]
        /\ atual'[d] = 0 /\ pc'[d] \in {"ocioso", "laco"}
        /\ pc'[d] = "ocioso" => lote[d] = {}
    BY <1>1, LargarTipo DEF TypeOK
  <2>2. \A e \in Drenos : i \notin lote[e]
    BY <1>2 DEF Posse
  <2>3. \A e \in Drenos \ {d} : atual[e] # i
    BY <1>2 DEF Posse
  <2>4. \A e \in Drenos : 0 \notin lote[e]
    <3>1. 0 \notin DOMAIN outbox
      BY DEF TypeOK
    <3>2. QED
      BY <3>1 DEF Posse
  <2>5. \A e \in Drenos : \A j \in lote'[e] :
           j \in DOMAIN outbox' /\ outbox'[j].status = "processing"
    BY <1>5, <2>1, <2>2 DEF Posse
  <2>6. \A e \in Drenos \ {d} : atual[e] # 0 =>
           atual[e] \in DOMAIN outbox' /\ outbox'[atual[e]].status = "processing"
    BY <1>5, <2>3 DEF Posse
  <2>7. QED
    BY <2>1, <2>4, <2>5, <2>6 DEF Posse
<1>8. QED
  BY <1>6, <1>7

LEMMA QuedaInv == ASSUME IInv, NEW d \in Drenos, Queda(d) PROVE IInv'
<1> USE DEF IInv
<1>1. /\ Largar(d) /\ UNCHANGED <<origem, outbox, auvo>>
      /\ pc' = [pc EXCEPT ![d] = "ocioso"] /\ lote' = [lote EXCEPT ![d] = {}]
  BY DEF Queda
<1>2. TypeOK'
  BY <1>1, LargarTipo DEF TypeOK
<1>3. /\ pc'[d] = "ocioso" /\ atual'[d] = 0 /\ lote'[d] = {}
      /\ \A e \in Drenos \ {d} : pc'[e] = pc[e] /\ atual'[e] = atual[e] /\ lote'[e] = lote[e]
  BY <1>1 DEF Largar, TypeOK
<1>4. \A e \in Drenos : 0 \notin lote[e]
  <2>1. 0 \notin DOMAIN outbox
    BY DEF TypeOK
  <2>2. QED
    BY <2>1 DEF Posse
<1>5. outbox' = outbox
  BY <1>1
<1>6. Posse'
  BY <1>3, <1>4, <1>5 DEF Posse
<1>7. QED
  BY <1>2, <1>6

LEMMA PassoInv == IInv /\ [Next]_vars => IInv'
<1> SUFFICES ASSUME IInv, [Next]_vars PROVE IInv'
  OBVIOUS
<1>1. CASE Usuario
  BY <1>1, UsuarioInv
<1>2. ASSUME NEW d \in Drenos, Dreno(d) \/ Queda(d) PROVE IInv'
  BY <1>2, ReivindicarInv, ProcessarLinhaInv, ChamarAuvoInv, AuvoRecusaInv,
     AplicarSyncInv, GravarResultadoInv, QuedaInv DEF Dreno
<1>3. CASE UNCHANGED vars
  BY <1>3 DEF vars, drenoVars, IInv, TypeOK, Posse
<1>4. QED
  BY <1>1, <1>2, <1>3 DEF Next

\* Every variable keeps its type, and drains hold disjoint, reserved rows.
THEOREM InvarianteIndutivo == Spec => []IInv
<1>1. Init => IInv
  BY TypeInit
<1>2. IInv /\ [Next]_vars => IInv'
  BY PassoInv
<1>3. QED
  BY <1>1, <1>2, PTL DEF Spec

\* Types of the whole state (pcm.auvo_sync_outbox, the origin rows, the drains).
THEOREM TipoCorreto == Spec => []TypeOK
<1>1. IInv => TypeOK
  BY DEF IInv
<1>2. QED
  BY <1>1, InvarianteIndutivo, PTL

\* No outbox row is ever in the hands of two drains, and none in the hands of
\* one is on offer (fn_claim_auvo_outbox_batch).
THEOREM ReservaSegura == Spec => []ReservaExclusiva
<1>1. IInv => ReservaExclusiva
  BY DEF IInv, Posse, TypeOK, ReservaExclusiva, EmPosse
<1>2. QED
  BY <1>1, InvarianteIndutivo, PTL
-----------------------------------------------------------------------------
(* What the outbox delivers.                                               *)

\* k is a record of row r that received the write that made entry i.
Recebeu(k, r, i) == k \in DOMAIN auvo /\ auvo[k].ref = r /\ auvo[k].maior >= i

\* id is null or names a record of r.
IdDe(id, r) == id # 0 => id \in DOMAIN auvo /\ auvo[id].ref = r

\* The origin row holds the content of each create and update of it, or newer,
\* and never one that no entry announced.
OrigemEmDia ==
    /\ \A r \in Linhas : origem[r].ver <= Len(outbox)
    /\ \A i \in DOMAIN outbox : outbox[i].op # "delete" => origem[outbox[i].linha].ver >= i

\* What a drain holds of the entry it works on, at each point of
\* processOutboxRow.
LocalDoDreno(d) ==
    LET i == atual[d]
        r == outbox[i].linha
    IN  /\ pc[d] = "chamar" =>
             /\ lida[d].auvoId = idAuvo[d]
             /\ IdDe(idAuvo[d], r)
             /\ outbox[i].op # "delete" => lida[d].ver >= i
        /\ pc[d] = "aplicar" /\ outbox[i].op # "delete" => Recebeu(idAuvo[d], r, i)
        /\ pc[d] = "gravar" /\ ok[d] /\ outbox[i].op # "delete" /\ ~SemEdicao(r, outbox[i].op) =>
             \E k \in DOMAIN auvo : Recebeu(k, r, i)

Conteudo ==
    /\ OrigemEmDia
    /\ VinculoCorreto
    /\ EnvioEntregue
    /\ \A d \in Drenos : LocalDoDreno(d)

IInvConteudo == IInv /\ Conteudo

-----------------------------------------------------------------------------
(* A step that only adds to what is known keeps the facts about it.        *)

\* Entries keep their row and op, Auvo records their row and what they received.
Preserva ==
    /\ DOMAIN outbox \subseteq DOMAIN outbox'
    /\ \A i \in DOMAIN outbox : outbox'[i].linha = outbox[i].linha /\ outbox'[i].op = outbox[i].op
    /\ DOMAIN auvo \subseteq DOMAIN auvo'
    /\ \A k \in DOMAIN auvo : auvo'[k].ref = auvo[k].ref /\ auvo'[k].maior >= auvo[k].maior

LEMMA TiposAuvo ==
    ASSUME TypeOK
    PROVE  /\ \A k \in DOMAIN auvo : auvo[k].maior \in Nat /\ auvo[k].ref \in Linhas
           /\ \A i \in DOMAIN outbox : i \in Nat /\ i # 0 /\ outbox[i] \in Entrada
                                       /\ outbox[i].linha \in Linhas
           /\ Len(outbox) \in Nat /\ DOMAIN outbox = 1..Len(outbox)
           /\ Len(auvo) \in Nat /\ DOMAIN auvo = 1..Len(auvo)
           /\ \A r \in Linhas : origem[r] \in Origem /\ origem[r].ver \in Nat /\ origem[r].auvoId \in Nat
<1>1. auvo \in Seq(Registro) /\ outbox \in Seq(Entrada) /\ origem \in [Linhas -> Origem]
  BY DEF TypeOK
<1>2. \A k \in DOMAIN auvo : auvo[k] \in Registro
  BY <1>1
<1>3. \A i \in DOMAIN outbox : outbox[i] \in Entrada
  BY <1>1
<1>4. \A k \in DOMAIN auvo : auvo[k].maior \in Nat /\ auvo[k].ref \in Linhas
  BY <1>2 DEF Registro
<1>5. \A i \in DOMAIN outbox : outbox[i].linha \in Linhas
  BY <1>3 DEF Entrada
<1>6. \A r \in Linhas : origem[r] \in Origem /\ origem[r].ver \in Nat /\ origem[r].auvoId \in Nat
  BY <1>1 DEF Origem
<1>7. /\ Len(outbox) \in Nat /\ DOMAIN outbox = 1..Len(outbox)
      /\ Len(auvo) \in Nat /\ DOMAIN auvo = 1..Len(auvo)
  BY <1>1
<1>8. \A i \in DOMAIN outbox : i \in Nat /\ i # 0
  BY <1>7
<1>9. QED
  BY <1>3, <1>4, <1>5, <1>6, <1>7, <1>8

LEMMA RecebeuPreservado ==
    ASSUME TypeOK, TypeOK', Preserva, NEW k, NEW r, NEW i \in Nat, Recebeu(k, r, i)
    PROVE  k \in DOMAIN auvo' /\ auvo'[k].ref = r /\ auvo'[k].maior >= i
<1>1. k \in DOMAIN auvo' /\ auvo'[k].ref = r /\ auvo'[k].maior >= auvo[k].maior
  BY DEF Preserva, Recebeu
<1>2. auvo'[k].maior \in Nat
  <2>1. auvo' \in Seq(Registro)
    BY DEF TypeOK
  <2>2. auvo'[k] \in Registro
    BY <1>1, <2>1
  <2>3. QED
    BY <2>2 DEF Registro
<1>3. auvo[k].maior \in Nat
  BY TiposAuvo DEF Recebeu
<1>4. QED
  BY <1>1, <1>2, <1>3 DEF Recebeu

LEMMA IdPreservado ==
    ASSUME Preserva, NEW id, NEW r, IdDe(id, r)
    PROVE  id # 0 => id \in DOMAIN auvo' /\ auvo'[id].ref = r
  BY DEF Preserva, IdDe

\* Origin ids survive any step that preserves and that changes no id.
LEMMA VinculoPreservado ==
    ASSUME Preserva, VinculoCorreto, \A r \in Linhas : origem'[r].auvoId = origem[r].auvoId
    PROVE  VinculoCorreto'
  BY DEF Preserva, VinculoCorreto

\* No step but the storing of a result creates an obligation on "sent".
LEMMA EnvioPreservado ==
    ASSUME TypeOK, TypeOK', Preserva, EnvioEntregue,
           \A i \in DOMAIN outbox' : outbox'[i].status = "sent" =>
               i \in DOMAIN outbox /\ outbox[i].status = "sent"
    PROVE  EnvioEntregue'
<1> SUFFICES ASSUME NEW i \in DOMAIN outbox', outbox'[i].status = "sent",
                    outbox'[i].op # "delete", ~SemEdicao(outbox'[i].linha, outbox'[i].op)
             PROVE  \E k \in DOMAIN auvo' : auvo'[k].ref = outbox'[i].linha /\ auvo'[k].maior >= i
  BY DEF EnvioEntregue, SemEdicao
<1>1. i \in DOMAIN outbox /\ outbox[i].status = "sent" /\ i \in Nat
  BY TiposAuvo
<1>2. outbox[i].linha = outbox'[i].linha /\ outbox[i].op = outbox'[i].op
  BY <1>1 DEF Preserva
<1>3. PICK k \in DOMAIN auvo : Recebeu(k, outbox[i].linha, i)
  BY <1>1, <1>2 DEF EnvioEntregue, Recebeu
<1>4. k \in DOMAIN auvo' /\ auvo'[k].ref = outbox[i].linha /\ auvo'[k].maior >= i
  BY <1>1, <1>3, RecebeuPreservado
<1>5. QED
  BY <1>2, <1>4

\* A drain that did not move knows as much as before.
LEMMA LocalPreservado ==
    ASSUME IInv, TypeOK', Preserva, NEW d \in Drenos, LocalDoDreno(d),
           pc'[d] = pc[d], atual'[d] = atual[d], lida'[d] = lida[d],
           idAuvo'[d] = idAuvo[d], ok'[d] = ok[d]
    PROVE  LocalDoDreno(d)'
<1> DEFINE i == atual[d]
           r == outbox[i].linha
<1>1. CASE pc[d] \notin {"chamar", "aplicar", "gravar"}
  BY <1>1 DEF LocalDoDreno
<1>2. CASE pc[d] \in {"chamar", "aplicar", "gravar"}
  <2>1. i \in DOMAIN outbox /\ i \in Nat
    BY <1>2, AtualEhEntrada, TiposAuvo DEF IInv
  <2>2. outbox'[i].linha = r /\ outbox'[i].op = outbox[i].op
    BY <2>1 DEF Preserva
  <2>3. ASSUME NEW k, Recebeu(k, r, i)
        PROVE  k \in DOMAIN auvo' /\ auvo'[k].ref = r /\ auvo'[k].maior >= i
    BY <2>1, <2>3, RecebeuPreservado DEF IInv
  <2>4. IdDe(idAuvo[d], r) =>
          (idAuvo[d] # 0 => idAuvo[d] \in DOMAIN auvo' /\ auvo'[idAuvo[d]].ref = r)
    BY IdPreservado
  <2>5. QED
    BY <2>2, <2>3, <2>4 DEF LocalDoDreno, Recebeu, IdDe, SemEdicao
<1>3. QED
  BY <1>1, <1>2

-----------------------------------------------------------------------------
(* Each step keeps Conteudo.                                               *)

LEMMA ConteudoInit == Init => Conteudo
  BY DEF Init, Conteudo, OrigemEmDia, VinculoCorreto, EnvioEntregue, LocalDoDreno, SemLinha

\* The content of a user write is the new entry, or the write is a delete.
LEMMA EscreverConteudo ==
    ASSUME IInvConteudo, NEW r \in Linhas, NEW depois \in Origem, Escrever(r, depois),
           depois.auvoId \in {0, origem[r].auvoId},
           \/ depois.ver = Len(outbox) + 1
           \/ depois.ver = origem[r].ver /\ OpDaEscrita(origem[r], depois) = "delete"
    PROVE  Conteudo'
<1> DEFINE nova == [linha |-> r, op |-> OpDaEscrita(origem[r], depois), status |-> "pending"]
<1>0. IInv /\ TypeOK /\ Conteudo
  BY DEF IInvConteudo, IInv
<1>1. TypeOK'
  BY <1>0, EscreverInv DEF IInv
<1>2. /\ outbox' = Append(outbox, nova)
      /\ origem' = [origem EXCEPT ![r] = depois]
      /\ UNCHANGED <<auvo, pc, lote, atual, lida, idAuvo, ok>>
  BY DEF Escrever, Enfileirar, drenoVars
<1>3. /\ Len(outbox') = Len(outbox) + 1
      /\ DOMAIN outbox' = 1..(Len(outbox) + 1)
      /\ \A i \in DOMAIN outbox : outbox'[i] = outbox[i]
      /\ outbox'[Len(outbox) + 1] = nova
  <2>1. outbox \in Seq(Entrada)
    BY <1>0 DEF TypeOK
  <2>2. nova \in Entrada
    BY <1>0, TipoDaEntrada DEF Entrada, Situacao
  <2> HIDE DEF nova
  <2>3. QED
    BY <1>2, <2>1, <2>2
<1>4. Preserva
  BY <1>0, <1>2, <1>3, TiposAuvo DEF Preserva
<1>5. OrigemEmDia'
  <2>1. ASSUME NEW q \in Linhas
        PROVE  origem'[q].ver >= origem[q].ver /\ origem'[q].ver <= Len(outbox')
    BY <1>0, <1>2, <1>3, TiposAuvo DEF Conteudo, OrigemEmDia, TypeOK
  <2>2. ASSUME NEW i \in DOMAIN outbox', outbox'[i].op # "delete"
        PROVE  origem'[outbox'[i].linha].ver >= i
    <3>1. CASE i \in DOMAIN outbox
      <4>1. outbox[i].linha \in Linhas /\ origem[outbox[i].linha].ver >= i
        BY <1>0, <1>3, <2>2, <3>1, TiposAuvo DEF Conteudo, OrigemEmDia
      <4>2. origem'[outbox[i].linha].ver \in Nat
        BY <1>1, <4>1 DEF TypeOK, Origem
      <4>3. QED
        BY <1>0, <1>3, <2>1, <3>1, <4>1, <4>2, TiposAuvo
    <3>2. CASE i = Len(outbox) + 1
      BY <1>0, <1>2, <1>3, <2>2, <3>2, TiposAuvo DEF TypeOK
    <3>3. QED
      BY <1>0, <1>3, <3>1, <3>2, TiposAuvo
  <2>3. QED
    BY <2>1, <2>2 DEF OrigemEmDia
<1>6. VinculoCorreto'
  BY <1>0, <1>2 DEF Conteudo, VinculoCorreto, TypeOK
<1>7. EnvioEntregue'
  <2>1. \A i \in DOMAIN outbox' : outbox'[i].status = "sent" =>
           i \in DOMAIN outbox /\ outbox[i].status = "sent"
    BY <1>0, <1>3, TiposAuvo
  <2>2. QED
    BY <1>0, <1>1, <1>4, <2>1, EnvioPreservado DEF Conteudo
<1>8. \A d \in Drenos : LocalDoDreno(d)'
  BY <1>0, <1>1, <1>2, <1>4, LocalPreservado DEF Conteudo
<1>9. QED
  BY <1>5, <1>6, <1>7, <1>8 DEF Conteudo

LEMMA UsuarioConteudo == ASSUME IInvConteudo, Usuario PROVE Conteudo'
<1> PICK r \in Linhas : Inserir(r) \/ Editar(r) \/ Excluir(r) \/ Apagar(r)
  BY DEF Usuario
<1>0. origem[r] \in Origem /\ Len(outbox) \in Nat
  BY DEF IInvConteudo, IInv, TypeOK
<1>1. CASE Inserir(r)
  BY <1>0, <1>1, EscreverConteudo DEF Inserir, Origem
<1>2. CASE Editar(r)
  BY <1>0, <1>2, EscreverConteudo DEF Editar, Origem
<1>3. CASE Excluir(r)
  BY <1>0, <1>3, EscreverConteudo DEF Excluir, Origem, OpDaEscrita
<1>4. CASE Apagar(r)
  BY <1>0, <1>4, EscreverConteudo DEF Apagar, Origem, OpDaEscrita
<1>5. QED
  BY <1>1, <1>2, <1>3, <1>4

\* Steps of the drain that leave the origin rows alone.
LEMMA OrigemEmDiaPreservada ==
    ASSUME TypeOK, OrigemEmDia, Preserva, DOMAIN outbox' = DOMAIN outbox,
           Len(outbox') = Len(outbox), \A r \in Linhas : origem'[r].ver = origem[r].ver
    PROVE  OrigemEmDia'
<1>1. \A i \in DOMAIN outbox : outbox[i].linha \in Linhas
  BY TiposAuvo
<1>2. QED
  BY <1>1 DEF OrigemEmDia, Preserva

LEMMA MesmoTamanho ==
    ASSUME TypeOK, TypeOK', DOMAIN outbox' = DOMAIN outbox
    PROVE  Len(outbox') = Len(outbox)
<1>1. outbox \in Seq(Entrada) /\ outbox' \in Seq(Entrada)
  BY DEF TypeOK
<1>2. QED
  BY <1>1

LEMMA ReivindicarConteudo ==
    ASSUME IInvConteudo, NEW d \in Drenos, Reivindicar(d)
    PROVE  Conteudo'
<1>0. IInv /\ TypeOK /\ Conteudo
  BY DEF IInvConteudo, IInv
<1>1. TypeOK'
  BY <1>0, ReivindicarInv DEF IInv
<1>2. UNCHANGED <<origem, auvo, atual, lida, idAuvo, ok>>
  BY DEF Reivindicar
<1>3. Preserva /\ DOMAIN outbox' = DOMAIN outbox
  BY <1>0, <1>2, ReivindicarEfeito, TiposAuvo DEF Preserva
<1>4. OrigemEmDia'
  BY <1>0, <1>1, <1>2, <1>3, MesmoTamanho, OrigemEmDiaPreservada DEF Conteudo
<1>5. VinculoCorreto'
  BY <1>0, <1>2, <1>3, VinculoPreservado DEF Conteudo
<1>6. EnvioEntregue'
  BY <1>0, <1>1, <1>3, ReivindicarEfeito, EnvioPreservado DEF Conteudo
<1>7. ASSUME NEW e \in Drenos PROVE LocalDoDreno(e)'
  <2>1. CASE pc'[e] = pc[e]
    BY <1>0, <1>1, <1>2, <1>3, <2>1, LocalPreservado DEF Conteudo
  <2>2. CASE pc'[e] # pc[e]
    BY <1>0, <2>2 DEF Reivindicar, LocalDoDreno, TypeOK
  <2>3. QED
    BY <2>1, <2>2
<1>8. QED
  BY <1>4, <1>5, <1>6, <1>7 DEF Conteudo

\* fetchOrigem runs after the write that made the entry, so it sees it.
LEMMA ProcessarLinhaConteudo ==
    ASSUME IInvConteudo, NEW d \in Drenos, ProcessarLinha(d)
    PROVE  Conteudo'
<1>0. IInv /\ TypeOK /\ Conteudo
  BY DEF IInvConteudo, IInv
<1>1. TypeOK'
  BY <1>0, ProcessarLinhaInv DEF IInv
<1>2. UNCHANGED <<origem, outbox, auvo>>
  BY DEF ProcessarLinha
<1>3. Preserva
  BY <1>0, <1>2, TiposAuvo DEF Preserva
<1>4. OrigemEmDia' /\ VinculoCorreto' /\ EnvioEntregue'
  BY <1>0, <1>2 DEF Conteudo, OrigemEmDia, VinculoCorreto, EnvioEntregue, SemEdicao
<1>5. LocalDoDreno(d)'
  <2> PICK i \in lote[d] :
         /\ atual'  = [atual EXCEPT ![d] = i]
         /\ lida'   = [lida EXCEPT ![d] = origem[outbox[i].linha]]
         /\ idAuvo' = [idAuvo EXCEPT ![d] = origem[outbox[i].linha].auvoId]
         /\ \/ Passar(d, "gravar", FALSE)
            \/ SoLocal(outbox[i].linha, outbox[i].op) /\ Passar(d, "aplicar", FALSE)
            \/ SemEdicao(outbox[i].linha, outbox[i].op) /\ Passar(d, "gravar", TRUE)
            \/ Passar(d, "chamar", FALSE)
    BY DEF ProcessarLinha
  <2>1. i \in DOMAIN outbox /\ outbox[i].linha \in Linhas
    BY <1>0, TiposAuvo DEF IInv, Posse
  <2>2. /\ atual'[d] = i /\ lida'[d] = origem[outbox[i].linha]
        /\ idAuvo'[d] = origem[outbox[i].linha].auvoId
    BY <1>0 DEF TypeOK
  <2>3. outbox[i].op # "delete" => origem[outbox[i].linha].ver >= i
    BY <1>0, <2>1 DEF Conteudo, OrigemEmDia
  <2>4. IdDe(origem[outbox[i].linha].auvoId, outbox[i].linha)
    BY <1>0, <2>1 DEF Conteudo, VinculoCorreto, IdDe
  <2>5. CASE Passar(d, "gravar", FALSE)
    BY <1>0, <2>5 DEF Passar, LocalDoDreno, TypeOK
  <2>6. CASE SoLocal(outbox[i].linha, outbox[i].op) /\ Passar(d, "aplicar", FALSE)
    BY <1>0, <1>2, <2>2, <2>6 DEF Passar, LocalDoDreno, TypeOK, SoLocal
  <2>7. CASE SemEdicao(outbox[i].linha, outbox[i].op) /\ Passar(d, "gravar", TRUE)
    BY <1>0, <1>2, <2>2, <2>7 DEF Passar, LocalDoDreno, TypeOK, SemEdicao
  <2>8. CASE Passar(d, "chamar", FALSE)
    BY <1>0, <1>2, <2>2, <2>3, <2>4, <2>8 DEF Passar, LocalDoDreno, TypeOK, IdDe
  <2>9. QED
    BY <2>5, <2>6, <2>7, <2>8
<1>6. ASSUME NEW e \in Drenos \ {d} PROVE LocalDoDreno(e)'
  <2>1. /\ pc'[e] = pc[e] /\ atual'[e] = atual[e] /\ lida'[e] = lida[e]
        /\ idAuvo'[e] = idAuvo[e] /\ ok'[e] = ok[e]
    BY <1>0 DEF ProcessarLinha, Passar, TypeOK
  <2>2. QED
    BY <1>0, <1>1, <1>3, <2>1, LocalPreservado DEF Conteudo
<1>7. QED
  BY <1>4, <1>5, <1>6 DEF Conteudo

\* A create or an update that the Auvo carried out left the drain with the id
\* of a record of its row that received what the drain had read.
LEMMA RequisicaoEntrega ==
    ASSUME IInvConteudo, NEW d \in Drenos, pc[d] = "chamar", Requisicao(d),
           outbox[atual[d]].op # "delete"
    PROVE  /\ idAuvo'[d] \in DOMAIN auvo'
           /\ auvo'[idAuvo'[d]].ref = outbox[atual[d]].linha
           /\ auvo'[idAuvo'[d]].maior >= atual[d]
<1> DEFINE i == atual[d]
           r == outbox[i].linha
<1>0. /\ IInv /\ TypeOK /\ Conteudo
      /\ auvo \in Seq(Registro) /\ Len(auvo) \in Nat /\ DOMAIN auvo = 1..Len(auvo)
      /\ idAuvo \in [Drenos -> Nat]
      /\ \A k \in DOMAIN auvo : auvo[k] \in Registro
      /\ r \in Linhas /\ i \in Nat
  BY AtualEhEntrada DEF IInvConteudo, IInv, TypeOK
<1>1. /\ lida[d].auvoId = idAuvo[d] /\ IdDe(idAuvo[d], r)
      /\ lida[d].ver >= i /\ lida[d].ver \in Nat
  BY <1>0 DEF Conteudo, LocalDoDreno, TypeOK, Origem
<1>2. ASSUME NEW reg \in Registro, reg.ref = r
      PROVE  /\ ComConteudo(reg, d) \in Registro
             /\ ComConteudo(reg, d).ref = r
             /\ ComConteudo(reg, d).maior >= i
  <2>1. ComConteudo(reg, d) \in Registro /\ ComConteudo(reg, d).maior >= lida[d].ver
        /\ ComConteudo(reg, d).ref = r
    BY <1>0, <1>2, ComConteudoTipo
  <2>2. ComConteudo(reg, d).maior \in Nat
    BY <2>1 DEF Registro
  <2>3. QED
    BY <1>0, <1>1, <2>1, <2>2
<1>3. CASE lida[d].auvoId # 0 /\ Patch(d)
  <2>1. idAuvo[d] \in DOMAIN auvo /\ auvo[idAuvo[d]].ref = r
    BY <1>1, <1>3 DEF IdDe
  <2>2. auvo' = [auvo EXCEPT ![idAuvo[d]] = ComConteudo(auvo[idAuvo[d]], d)] /\ idAuvo' = idAuvo
    BY <1>3 DEF Patch
  <2>3. QED
    BY <1>0, <1>2, <2>1, <2>2
<1>4. CASE Post(d)
  <2>1. CASE \E k \in MesmoExternalId(d) :
               /\ auvo'   = [auvo EXCEPT ![k] = ComConteudo(@, d)]
               /\ idAuvo' = [idAuvo EXCEPT ![d] = k]
    <3>1. PICK k \in DOMAIN auvo :
             /\ auvo[k].ref = r
             /\ auvo'   = [auvo EXCEPT ![k] = ComConteudo(auvo[k], d)]
             /\ idAuvo' = [idAuvo EXCEPT ![d] = k]
      BY <2>1 DEF MesmoExternalId
    <3>2. QED
      BY <1>0, <1>2, <3>1
  <2>2. CASE /\ auvo'   = Append(auvo, ComConteudo(Novo(d), d))
             /\ idAuvo' = [idAuvo EXCEPT ![d] = Len(auvo) + 1]
    <3>1. Novo(d) \in Registro /\ Novo(d).ref = r
      BY <1>0 DEF Novo, Registro
    <3>2. QED
      BY <1>0, <1>2, <2>2, <3>1
  <2>3. QED
    BY <1>4, <2>1, <2>2 DEF Post
<1>5. QED
  BY <1>3, <1>4 DEF Requisicao

LEMMA ChamarAuvoConteudo ==
    ASSUME IInvConteudo, NEW d \in Drenos, ChamarAuvo(d)
    PROVE  Conteudo'
<1>0. IInv /\ TypeOK /\ Conteudo
  BY DEF IInvConteudo, IInv
<1>1. TypeOK'
  BY <1>0, ChamarAuvoInv DEF IInv
<1>2. /\ UNCHANGED <<origem, outbox, lote, atual, lida>>
      /\ pc[d] = "chamar" /\ Requisicao(d)
  BY DEF ChamarAuvo
<1>3. Preserva
  BY <1>0, <1>2, RequisicaoEfeito, TiposAuvo DEF Preserva
<1>4. OrigemEmDia'
  BY <1>0, <1>2 DEF Conteudo, OrigemEmDia
<1>5. VinculoCorreto'
  BY <1>0, <1>2, <1>3, VinculoPreservado DEF Conteudo
<1>6. EnvioEntregue'
  BY <1>0, <1>1, <1>2, <1>3, EnvioPreservado DEF Conteudo
<1>7. LocalDoDreno(d)'
  <2>1. CASE Passar(d, "gravar", FALSE)
    BY <1>0, <2>1 DEF Passar, LocalDoDreno, TypeOK
  <2>2. CASE Passar(d, "aplicar", FALSE)
    BY <1>0, <1>2, <2>2, RequisicaoEntrega DEF Passar, LocalDoDreno, TypeOK, Recebeu
  <2>3. QED
    BY <2>1, <2>2 DEF ChamarAuvo
<1>8. ASSUME NEW e \in Drenos \ {d} PROVE LocalDoDreno(e)'
  <2>1. idAuvo'[e] = idAuvo[e]
    BY <1>0, <1>2, RequisicaoEfeito
  <2>2. pc'[e] = pc[e] /\ atual'[e] = atual[e] /\ lida'[e] = lida[e] /\ ok'[e] = ok[e]
    BY <1>0, <1>2 DEF ChamarAuvo, Passar, TypeOK
  <2>3. QED
    BY <1>0, <1>1, <1>3, <2>1, <2>2, LocalPreservado DEF Conteudo
<1>9. QED
  BY <1>4, <1>5, <1>6, <1>7, <1>8 DEF Conteudo

LEMMA AuvoRecusaConteudo ==
    ASSUME IInvConteudo, NEW d \in Drenos, AuvoRecusa(d)
    PROVE  Conteudo'
<1>0. IInv /\ TypeOK /\ Conteudo
  BY DEF IInvConteudo, IInv
<1>1. /\ UNCHANGED <<origem, outbox, auvo, lote, atual, lida, idAuvo>>
      /\ Passar(d, "gravar", FALSE)
  BY DEF AuvoRecusa
<1>2. OrigemEmDia' /\ VinculoCorreto' /\ EnvioEntregue'
  BY <1>0, <1>1 DEF Conteudo, OrigemEmDia, VinculoCorreto, EnvioEntregue, SemEdicao
<1>3. ASSUME NEW e \in Drenos PROVE LocalDoDreno(e)'
  BY <1>0, <1>1 DEF Conteudo, LocalDoDreno, Passar, TypeOK, Recebeu, IdDe, SemEdicao
<1>4. QED
  BY <1>2, <1>3 DEF Conteudo

\* The id that fn_apply_auvo_sync stores is the one the drain obtained.
LEMMA AplicarSyncConteudo ==
    ASSUME IInvConteudo, NEW d \in Drenos, AplicarSync(d)
    PROVE  Conteudo'
<1> DEFINE i == atual[d]
           r == outbox[i].linha
<1>0. IInv /\ TypeOK /\ Conteudo
  BY DEF IInvConteudo, IInv
<1>1. TypeOK'
  BY <1>0, AplicarSyncInv DEF IInv
<1>2. /\ pc[d] = "aplicar"
      /\ UNCHANGED <<outbox, auvo, lote, atual, lida, idAuvo>>
      /\ \E b \in BOOLEAN : Passar(d, "gravar", b)
  BY DEF AplicarSync, Enfileirar
<1>3. Preserva
  BY <1>0, <1>2, TiposAuvo DEF Preserva
<1>4. r \in Linhas /\ origem[r] \in Origem
  BY <1>0, <1>2, AtualEhEntrada DEF TypeOK
<1>5. \/ origem' = origem
      \/ /\ outbox[i].op # "delete"
         /\ origem' = [origem EXCEPT ![r] = [origem[r] EXCEPT !.auvoId = idAuvo[d]]]
  <2>1. origem = [origem EXCEPT ![r] = origem[r]]
    BY <1>0, <1>4 DEF TypeOK
  <2>2. QED
    BY <2>1 DEF AplicarSync
<1>6. \A q \in Linhas :
         /\ origem'[q].ver = origem[q].ver
         /\ \/ origem'[q].auvoId = origem[q].auvoId
            \/ q = r /\ outbox[i].op # "delete" /\ origem'[q].auvoId = idAuvo[d]
  <2>1. /\ [origem[r] EXCEPT !.auvoId = idAuvo[d]].ver = origem[r].ver
        /\ [origem[r] EXCEPT !.auvoId = idAuvo[d]].auvoId = idAuvo[d]
    BY <1>4 DEF Origem
  <2>2. QED
    BY <1>0, <1>4, <1>5, <2>1 DEF TypeOK
<1>7. OrigemEmDia'
  BY <1>0, <1>2, <1>3, <1>6, OrigemEmDiaPreservada DEF Conteudo
<1>8. VinculoCorreto'
  <2>1. outbox[i].op # "delete" => Recebeu(idAuvo[d], r, i)
    BY <1>0, <1>2 DEF Conteudo, LocalDoDreno
  <2>2. QED
    BY <1>0, <1>2, <1>6, <2>1 DEF Conteudo, VinculoCorreto, Recebeu
<1>9. EnvioEntregue'
  BY <1>0, <1>2 DEF Conteudo, EnvioEntregue, SemEdicao
<1>10. ASSUME NEW e \in Drenos PROVE LocalDoDreno(e)'
  BY <1>0, <1>2 DEF Conteudo, LocalDoDreno, Passar, TypeOK, Recebeu, IdDe, SemEdicao
<1>11. QED
  BY <1>7, <1>8, <1>9, <1>10 DEF Conteudo

\* What a drain knows is void once it has dropped the entry.
LEMMA LargarConteudo ==
    ASSUME IInvConteudo, TypeOK', Preserva, NEW d \in Drenos, Largar(d),
           pc' = [pc EXCEPT ![d] = pc'[d]], pc'[d] \in {"ocioso", "laco"}
    PROVE  \A e \in Drenos : LocalDoDreno(e)'
<1>0. IInv /\ TypeOK /\ Conteudo
  BY DEF IInvConteudo, IInv
<1>1. LocalDoDreno(d)'
  BY DEF LocalDoDreno
<1>2. ASSUME NEW e \in Drenos \ {d} PROVE LocalDoDreno(e)'
  <2>1. /\ pc'[e] = pc[e] /\ atual'[e] = atual[e] /\ lida'[e] = lida[e]
        /\ idAuvo'[e] = idAuvo[e] /\ ok'[e] = ok[e]
    BY <1>0 DEF Largar, TypeOK
  <2>2. QED
    BY <1>0, <2>1, LocalPreservado DEF Conteudo
<1>3. QED
  BY <1>1, <1>2

\* "sent" is stored only with ok, and ok only after the row was delivered.
LEMMA GravarConteudo ==
    ASSUME IInvConteudo, NEW d \in Drenos, GravarResultado(d)
    PROVE  Conteudo'
<1> DEFINE i == atual[d]
           r == outbox[i].linha
<1>0. IInv /\ TypeOK /\ Conteudo
  BY DEF IInvConteudo, IInv
<1>1. TypeOK'
  BY <1>0, GravarResultadoInv DEF IInv
<1>2. /\ UNCHANGED <<origem, auvo, lote>>
      /\ pc[d] = "gravar" /\ Largar(d)
      /\ pc' = [pc EXCEPT ![d] = IF lote[d] = {} THEN "ocioso" ELSE "laco"]
  BY DEF GravarResultado
<1>3. Preserva /\ DOMAIN outbox' = DOMAIN outbox
  BY <1>0, <1>2, GravarEfeito, TiposAuvo DEF Preserva
<1>4. OrigemEmDia'
  BY <1>0, <1>1, <1>2, <1>3, MesmoTamanho, OrigemEmDiaPreservada DEF Conteudo
<1>5. VinculoCorreto'
  BY <1>0, <1>2, <1>3, VinculoPreservado DEF Conteudo
<1>6. EnvioEntregue'
  <2> SUFFICES ASSUME NEW j \in DOMAIN outbox', outbox'[j].status = "sent",
                      outbox'[j].op # "delete", ~SemEdicao(outbox'[j].linha, outbox'[j].op)
               PROVE  \E k \in DOMAIN auvo' : auvo'[k].ref = outbox'[j].linha /\ auvo'[k].maior >= j
    BY DEF EnvioEntregue, SemEdicao
  <2>1. /\ j \in DOMAIN outbox
        /\ outbox'[j].linha = outbox[j].linha /\ outbox'[j].op = outbox[j].op
    BY <1>3 DEF Preserva
  <2>2. CASE outbox[j].status = "sent"
    BY <1>0, <1>2, <2>1, <2>2 DEF Conteudo, EnvioEntregue
  <2>3. CASE outbox[j].status # "sent"
    <3>1. j = i /\ ok[d]
      BY <1>0, <2>1, <2>3, GravarEfeito
    <3>2. \E k \in DOMAIN auvo : Recebeu(k, r, i)
      BY <1>0, <1>2, <2>1, <3>1 DEF Conteudo, LocalDoDreno
    <3>3. QED
      BY <1>2, <2>1, <3>1, <3>2 DEF Recebeu
  <2>4. QED
    BY <2>2, <2>3
<1>7. \A e \in Drenos : LocalDoDreno(e)'
  <2>1. pc'[d] \in {"ocioso", "laco"} /\ pc' = [pc EXCEPT ![d] = pc'[d]]
    BY <1>0, <1>2 DEF TypeOK
  <2>2. QED
    BY <1>1, <1>2, <1>3, <2>1, LargarConteudo
<1>8. QED
  BY <1>4, <1>5, <1>6, <1>7 DEF Conteudo

LEMMA QuedaConteudo ==
    ASSUME IInvConteudo, NEW d \in Drenos, Queda(d)
    PROVE  Conteudo'
<1>0. IInv /\ TypeOK /\ Conteudo
  BY DEF IInvConteudo, IInv
<1>1. TypeOK'
  BY <1>0, QuedaInv DEF IInv
<1>2. /\ UNCHANGED <<origem, outbox, auvo>> /\ Largar(d)
      /\ pc' = [pc EXCEPT ![d] = "ocioso"]
  BY DEF Queda
<1>3. Preserva
  BY <1>0, <1>2, TiposAuvo DEF Preserva
<1>4. OrigemEmDia' /\ VinculoCorreto' /\ EnvioEntregue'
  BY <1>0, <1>2 DEF Conteudo, OrigemEmDia, VinculoCorreto, EnvioEntregue, SemEdicao
<1>5. \A e \in Drenos : LocalDoDreno(e)'
  <2>1. pc'[d] \in {"ocioso", "laco"} /\ pc' = [pc EXCEPT ![d] = pc'[d]]
    BY <1>0, <1>2 DEF TypeOK
  <2>2. QED
    BY <1>1, <1>2, <1>3, <2>1, LargarConteudo
<1>6. QED
  BY <1>4, <1>5 DEF Conteudo

LEMMA PassoConteudo == IInvConteudo /\ [Next]_vars => IInvConteudo'
<1> SUFFICES ASSUME IInvConteudo, [Next]_vars PROVE IInvConteudo'
  OBVIOUS
<1>0. IInv'
  BY PassoInv DEF IInvConteudo
<1>1. CASE Usuario
  BY <1>0, <1>1, UsuarioConteudo DEF IInvConteudo
<1>2. ASSUME NEW d \in Drenos, Dreno(d) \/ Queda(d) PROVE Conteudo'
  BY <1>2, ReivindicarConteudo, ProcessarLinhaConteudo, ChamarAuvoConteudo,
     AuvoRecusaConteudo, AplicarSyncConteudo, GravarConteudo, QuedaConteudo DEF Dreno
<1>3. CASE UNCHANGED vars
  <2>1. UNCHANGED <<origem, outbox, auvo, pc, lote, atual, lida, idAuvo, ok>>
    BY <1>3 DEF vars, drenoVars
  <2>2. OrigemEmDia' /\ VinculoCorreto' /\ EnvioEntregue'
    BY <2>1 DEF IInvConteudo, Conteudo, OrigemEmDia, VinculoCorreto, EnvioEntregue, SemEdicao
  <2>3. ASSUME NEW d \in Drenos PROVE LocalDoDreno(d)'
    BY <2>1, Zenon DEF IInvConteudo, Conteudo, LocalDoDreno, Recebeu, IdDe, SemEdicao
  <2>4. QED
    BY <1>0, <2>2, <2>3 DEF IInvConteudo, Conteudo
<1>4. QED
  BY <1>0, <1>1, <1>2, <1>3 DEF Next, IInvConteudo

LEMMA ConteudoSempre == Spec => []IInvConteudo
<1>1. Init => IInvConteudo
  BY TypeInit, ConteudoInit DEF IInvConteudo
<1>2. IInvConteudo /\ [Next]_vars => IInvConteudo'
  BY PassoConteudo
<1>3. QED
  BY <1>1, <1>2, PTL DEF Spec

\* A create, or an update the resource takes, that the outbox shows as sent has
\* reached an Auvo record of its row, however many drains race and whatever
\* fails (processOutboxRow and the result update of the drain loop).
THEOREM EnviadoFoiEntregue == Spec => []EnvioEntregue
<1>1. IInvConteudo => EnvioEntregue
  BY DEF IInvConteudo, Conteudo
<1>2. QED
  BY <1>1, ConteudoSempre, PTL

\* auvo_id never names the record of another row (fn_apply_auvo_sync).
THEOREM VinculoSempreCorreto == Spec => []VinculoCorreto
<1>1. IInvConteudo => VinculoCorreto
  BY DEF IInvConteudo, Conteudo
<1>2. QED
  BY <1>1, ConteudoSempre, PTL

-----------------------------------------------------------------------------

\* A drain neither adds to the outbox nor takes from it.
LEMMA DrenoNaoEnfileira ==
    ASSUME IInv, NEW d \in Drenos, Dreno(d) \/ Queda(d)
    PROVE  Len(outbox') = Len(outbox)
<1>0. TypeOK
  BY DEF IInv
<1>1. CASE Reivindicar(d)
  BY <1>0, <1>1, ReivindicarInv, ReivindicarEfeito, MesmoTamanho DEF IInv
<1>2. CASE GravarResultado(d)
  BY <1>0, <1>2, GravarResultadoInv, GravarEfeito, MesmoTamanho DEF IInv
<1>3. QED
  BY <1>1, <1>2 DEF Dreno, ProcessarLinha, ChamarAuvo, AuvoRecusa, AplicarSync, Enfileirar, Queda

\* Only the write of a user makes work for the drain: storing the answer of
\* the Auvo never does (fn_auvo_enqueue and the GUC of fn_apply_auvo_sync).
THEOREM NuncaEco == Spec => SemEco
<1> DEFINE Mudou == \E r \in Linhas : \/ origem[r].ver # origem'[r].ver
                                      \/ origem[r].estado # origem'[r].estado
<1>1. ASSUME IInvConteudo, [Next]_vars, Len(outbox') # Len(outbox)
      PROVE  Mudou
  <2>0. IInv /\ TypeOK /\ OrigemEmDia
    BY <1>1 DEF IInvConteudo, IInv, Conteudo
  <2>1. ~UNCHANGED vars
    BY <1>1 DEF vars
  <2>2. Usuario
    BY <1>1, <2>0, <2>1, DrenoNaoEnfileira DEF Next
  <2>3. PICK r \in Linhas : Inserir(r) \/ Editar(r) \/ Excluir(r) \/ Apagar(r)
    BY <2>2 DEF Usuario
  <2>4. origem[r] \in Origem /\ origem[r].ver <= Len(outbox) /\ Len(outbox) \in Nat
        /\ origem \in [Linhas -> Origem]
    BY <2>0 DEF OrigemEmDia, TypeOK
  <2>5. CASE Inserir(r)
    BY <2>4, <2>5 DEF Inserir, Escrever
  <2>6. CASE Editar(r)
    <3>1. origem'[r].ver = Len(outbox) + 1
      BY <2>4, <2>6 DEF Editar, Escrever, Origem
    <3>2. QED
      BY <2>4, <3>1 DEF Origem
  <2>7. CASE Excluir(r)
    BY <2>4, <2>7 DEF Excluir, Escrever, Origem
  <2>8. CASE Apagar(r)
    BY <2>4, <2>8 DEF Apagar, Escrever, Origem
  <2>9. QED
    BY <2>3, <2>5, <2>6, <2>7, <2>8
<1>2. IInvConteudo /\ [Next]_vars => [Len(outbox') # Len(outbox) => Mudou]_vars
  BY <1>1
<1>3. QED
  BY <1>2, ConteudoSempre, PTL DEF Spec, SemEco
-----------------------------------------------------------------------------
(* The outbox implements FilaEntrega: seen through its status column it is *)
(* a queue that hands each entry out at most once, oldest first.           *)

\* The refinement mapping, for any outbox q.
ColDe(q) == [i \in DOMAIN q |-> q[i].status]

Col == ColDe(outbox)

LEMMA ColTipo ==
    ASSUME NEW q \in Seq(Entrada)
    PROVE  /\ ColDe(q) \in Seq(Situacao) /\ Len(ColDe(q)) = Len(q) /\ Len(q) \in Nat
           /\ DOMAIN ColDe(q) = DOMAIN q /\ DOMAIN q = 1..Len(q)
           /\ \A i \in DOMAIN q : ColDe(q)[i] = q[i].status /\ q[i] \in Entrada
<1>1. /\ Len(q) \in Nat /\ DOMAIN q = 1..Len(q)
      /\ \A i \in DOMAIN q : q[i] \in Entrada
  OBVIOUS
<1>2. ColDe(q) \in [1..Len(q) -> Situacao]
  BY <1>1 DEF ColDe, Entrada
<1>3. ColDe(q) \in Seq(Situacao) /\ Len(ColDe(q)) = Len(q)
  BY <1>1, <1>2, FuncaoEhSeq
<1>4. QED
  BY <1>1, <1>2, <1>3 DEF ColDe

\* A user write appends a pending entry.
LEMMA EscreverFila ==
    ASSUME IInv, IInv', NEW r \in Linhas, NEW depois \in Origem, Escrever(r, depois)
    PROVE  Fila!Enfileirar
<1> DEFINE nova == [linha |-> r, op |-> OpDaEscrita(origem[r], depois), status |-> "pending"]
<1>1. outbox \in Seq(Entrada) /\ outbox' \in Seq(Entrada) /\ TypeOK
  BY DEF IInv, TypeOK
<1>2. nova \in Entrada /\ nova.status = "pending"
  BY <1>1, TipoDaEntrada DEF Entrada, Situacao
<1>3. outbox' = Append(outbox, nova)
  BY DEF Escrever, Enfileirar
<1> HIDE DEF nova
<1>4. /\ Len(outbox') = Len(outbox) + 1
      /\ \A i \in DOMAIN outbox : outbox'[i] = outbox[i]
      /\ outbox'[Len(outbox) + 1] = nova
  BY <1>1, <1>2, <1>3
<1> DEFINE c == ColDe(outbox)
           cl == ColDe(outbox')
<1>5. /\ c \in Seq(Situacao) /\ Len(c) = Len(outbox) /\ Len(outbox) \in Nat
      /\ \A i \in 1..Len(outbox) : c[i] = outbox[i].status
  BY <1>1, ColTipo
<1>6. /\ cl \in Seq(Situacao) /\ Len(cl) = Len(outbox')
      /\ \A i \in 1..Len(outbox') : cl[i] = outbox'[i].status
  BY <1>1, ColTipo
<1>7. cl = Append(c, "pending")
  <2> HIDE DEF c, cl
  <2> DEFINE a == Append(c, "pending")
  <2>1. /\ a \in Seq(Situacao) /\ Len(a) = Len(outbox) + 1
        /\ \A i \in 1..Len(outbox) : a[i] = c[i]
        /\ a[Len(outbox) + 1] = "pending"
    BY <1>5 DEF Situacao
  <2>2. \A i \in 1..(Len(outbox) + 1) : cl[i] = a[i]
    <3>1. ASSUME NEW i \in 1..Len(outbox) PROVE cl[i] = a[i]
      <4>1. i \in DOMAIN outbox /\ i \in 1..Len(outbox')
        BY <1>1, <1>4, <1>5
      <4>. QED
        BY <1>4, <1>5, <1>6, <2>1, <4>1
    <3>2. cl[Len(outbox) + 1] = "pending"
      <4>1. Len(outbox) + 1 \in 1..Len(outbox')
        BY <1>4, <1>5
      <4>. QED
        BY <1>2, <1>4, <1>6, <4>1
    <3>. QED
      BY <1>5, <2>1, <3>1, <3>2
  <2> HIDE DEF a
  <2>3. QED
    BY <1>4, <1>6, <2>1, <2>2, SeqEqual DEF a
<1>8. QED
  BY <1>7 DEF Fila!Enfileirar, ColDe

LEMMA UsuarioFila == ASSUME IInv, IInv', Usuario PROVE Fila!Enfileirar
<1> PICK r \in Linhas : Inserir(r) \/ Editar(r) \/ Excluir(r) \/ Apagar(r)
  BY DEF Usuario
<1>0. origem[r] \in Origem /\ Len(outbox) \in Nat
  BY DEF IInv, TypeOK
<1>1. CASE Inserir(r)
  BY <1>0, <1>1, EscreverFila DEF Inserir, Origem
<1>2. CASE Editar(r)
  BY <1>0, <1>2, EscreverFila DEF Editar, Origem
<1>3. CASE Excluir(r)
  BY <1>0, <1>3, EscreverFila DEF Excluir, Origem
<1>4. CASE Apagar(r)
  BY <1>0, <1>4, EscreverFila DEF Apagar, Origem
<1>5. QED
  BY <1>1, <1>2, <1>3, <1>4

\* The claim is the reservation of the oldest pending entries, or does nothing.
LEMMA ReivindicarFila ==
    ASSUME IInv, IInv', NEW d \in Drenos, Reivindicar(d)
    PROVE  Fila!Reivindicar \/ Col' = Col
<1>1. Fila!Lote = LotePendente
  <2>1. \A i \in DOMAIN outbox :
           Fila!PendentesAntes(i) = {j \in Pendentes : j < i}
    BY DEF Fila!PendentesAntes, Pendentes
  <2>2. QED
    BY <2>1 DEF Fila!Lote, LotePendente, Pendentes, Fila!Cardinality, Cardinality
<1>2. DOMAIN Col' = DOMAIN outbox /\ DOMAIN Col = DOMAIN outbox
  BY ReivindicarEfeito DEF Col, ColDe
<1>3. \A i \in DOMAIN outbox :
         Col'[i] = IF i \in LotePendente THEN "processing" ELSE Col[i]
  BY ReivindicarEfeito DEF Col, ColDe
<1>4. Col' = [i \in DOMAIN Col |-> IF i \in LotePendente THEN "processing" ELSE Col[i]]
  BY <1>2, <1>3 DEF Col, ColDe
<1>5. CASE LotePendente = {}
  BY <1>2, <1>4, <1>5 DEF Col, ColDe
<1>6. CASE LotePendente # {}
  BY <1>1, <1>4, <1>6 DEF Fila!Reivindicar, Col, ColDe
<1>7. QED
  BY <1>5, <1>6

\* Storing a result closes one reserved entry, or leaves it reserved.
LEMMA GravarFila ==
    ASSUME IInv, IInv', NEW d \in Drenos, GravarResultado(d)
    PROVE  Fila!Concluir \/ Col' = Col
<1> DEFINE i == atual[d]
           s == IF ok[d] THEN "sent" ELSE "error"
<1>1. /\ i \in DOMAIN outbox /\ DOMAIN outbox' = DOMAIN outbox
      /\ \A j \in DOMAIN outbox \ {i} : outbox'[j] = outbox[j]
      /\ outbox'[i].status \in {outbox[i].status, s}
      /\ outbox[i].status = "processing"
  BY GravarEfeito DEF IInv, Posse
<1>2. s \in Final
  BY DEF Final
<1> HIDE DEF s, i
<1>3. CASE outbox'[i].status = outbox[i].status
  BY <1>1, <1>3 DEF Col, ColDe
<1>4. CASE outbox'[i].status = s
  <2>1. Col' = [Col EXCEPT ![i] = s]
    BY <1>1, <1>4 DEF Col, ColDe
  <2>2. i \in DOMAIN Col /\ Col[i] = "processing" /\ s \in Fila!Final
    BY <1>1, <1>2 DEF Col, ColDe, Fila!Final, Final
  <2>3. QED
    BY <2>1, <2>2 DEF Fila!Concluir, Col, ColDe
<1>5. QED
  BY <1>1, <1>3, <1>4

\* The detailed outbox implements the abstract queue.
THEOREM ImplementaFila == Spec => FilaSpec
<1>1. Init => Fila!Init
  <2>1. ASSUME Init PROVE Col = <<>>
    BY <2>1 DEF Init, Col, ColDe
  <2>2. QED
    BY <2>1 DEF Fila!Init, Col, ColDe
<1>2. ASSUME IInv, IInv', [Next]_vars PROVE [Fila!Next]_Col
  <2>1. CASE Usuario
    BY <1>2, <2>1, UsuarioFila DEF Fila!Next
  <2>2. ASSUME NEW d \in Drenos, Dreno(d) \/ Queda(d) PROVE [Fila!Next]_Col
    <3>1. CASE Reivindicar(d)
      BY <1>2, <3>1, ReivindicarFila DEF Fila!Next
    <3>2. CASE GravarResultado(d)
      BY <1>2, <3>2, GravarFila DEF Fila!Next
    <3>3. CASE outbox' = outbox
      BY <3>3 DEF Col, ColDe
    <3>4. QED
      BY <2>2, <3>1, <3>2, <3>3 DEF Dreno, ProcessarLinha, ChamarAuvo, AuvoRecusa,
         AplicarSync, Enfileirar, Queda
  <2>3. CASE UNCHANGED vars
    BY <2>3 DEF vars, Col, ColDe
  <2>4. QED
    BY <1>2, <2>1, <2>2, <2>3 DEF Next
<1>3. QED
  BY <1>1, <1>2, InvarianteIndutivo, PTL DEF Spec, FilaSpec, Fila!Spec, Col, ColDe
-----------------------------------------------------------------------------
(* A row that no two drains process at once: what the Auvo holds in the    *)
(* end.                                                                    *)

\* Rows whose entity the Auvo updates and deactivates.
Espelhada(r) == Descritor[r].deleteStrategy = "soft-patch" /\ Descritor[r].supportsUpdate

DeleteEm(r, S) ==
    \E i \in DOMAIN outbox :
        outbox[i].linha = r /\ outbox[i].op = "delete" /\ outbox[i].status \in S

\* What the trigger leaves of the life of a row: the entry of its content, and
\* one of its exclusion.
Historia(r) ==
    /\ origem[r].estado \in {"viva", "excluida"} =>
         /\ origem[r].ver \in DOMAIN outbox
         /\ outbox[origem[r].ver].linha = r /\ outbox[origem[r].ver].op # "delete"
    /\ origem[r].estado = "ausente" => origem[r].auvoId = 0
    /\ DeleteEm(r, Situacao) => origem[r].estado \in {"excluida", "apagada"}
    /\ origem[r].estado = "excluida" => DeleteEm(r, Situacao)

\* What the Auvo holds of r follows what was sent of it.
Espelho(r) ==
    /\ /\ origem[r].estado \in {"viva", "excluida"}
       /\ outbox[origem[r].ver].status = "sent"
       => origem[r].auvoId # 0 /\ auvo[origem[r].auvoId].ver = origem[r].ver
    /\ origem[r].estado = "excluida" /\ DeleteEm(r, {"sent"}) /\ origem[r].auvoId # 0 =>
         ~auvo[origem[r].auvoId].ativo
    /\ origem[r].estado = "viva" /\ origem[r].auvoId # 0 => auvo[origem[r].auvoId].ativo

\* What a drain read of a row it is alone on covers all that was sent of it,
\* and the entry it works on.
Leu(d) ==
    LET r == outbox[atual[d]].linha
    IN  /\ lida[d].estado \in {"viva", "excluida"} /\ origem[r].estado # "ausente"
        /\ lida[d].estado = "excluida" => origem[r].estado # "viva"
        /\ /\ origem[r].estado \in {"viva", "excluida"}
           /\ outbox[origem[r].ver].status = "sent" \/ origem[r].ver = atual[d]
           => lida[d].ver = origem[r].ver
        /\ DeleteEm(r, {"sent"}) => lida[d].estado = "excluida"

\* And what it asked of the Auvo is done before it is stored.
Pediu(d) ==
    LET i == atual[d]
        r == outbox[i].linha
    IN  /\ pc[d] \in {"chamar", "aplicar"} => lida[d].auvoId = origem[r].auvoId
        /\ pc[d] = "aplicar" /\ Espelhada(r) =>
             IF outbox[i].op = "delete"
               THEN lida[d].auvoId # 0 => ~auvo[lida[d].auvoId].ativo
               ELSE /\ auvo[idAuvo[d]].ver = lida[d].ver
                    /\ auvo[idAuvo[d]].ativo = (lida[d].estado = "viva")
        /\ pc[d] = "gravar" /\ Espelhada(r) /\ origem[r].estado # "apagada" =>
             IF outbox[i].op = "delete"
               THEN origem[r].auvoId # 0 => ~auvo[origem[r].auvoId].ativo
               ELSE origem[r].auvoId # 0 /\ auvo[origem[r].auvoId].ver = lida[d].ver

\* A drain that has not failed on the entry it works on.
Adiante(d) == pc[d] \in {"chamar", "aplicar"} \/ (pc[d] = "gravar" /\ ok[d])

\* A delete is asked only of a row that has an id.
DeleteConhecido ==
    \A d \in Drenos : pc[d] = "chamar" /\ outbox[atual[d]].op = "delete" => lida[d].auvoId # 0

Convergindo(r) ==
    /\ Historia(r)
    /\ Espelhada(r) => Espelho(r)
    /\ \A d \in Drenos : Adiante(d) /\ outbox[atual[d]].linha = r => Leu(d) /\ Pediu(d)

IInvLinha(r) == IInvConteudo /\ DeleteConhecido /\ Convergindo(r)

\* The entry asks the Auvo for a record the row has none of.
Cria(d) == outbox[atual[d]].op # "delete" /\ lida[d].auvoId = 0

-----------------------------------------------------------------------------

LEMMA ComConteudoValor ==
    ASSUME IInv, NEW d \in Drenos, NEW reg \in Registro
    PROVE  /\ ComConteudo(reg, d).ver = lida[d].ver
           /\ Entidade(d).deleteStrategy = "soft-patch" =>
                ComConteudo(reg, d).ativo = (lida[d].estado = "viva")
<1>. DEFINE a == IF Entidade(d).deleteStrategy = "soft-patch"
                   THEN lida[d].estado = "viva" ELSE reg.ativo
            m == Maior(reg.maior, lida[d].ver)
            v == lida[d].ver
<1>1. ComConteudo(reg, d) = [reg EXCEPT !.ver = v, !.maior = m, !.ativo = a]
  BY DEF ComConteudo
<1>2. Entidade(d).deleteStrategy = "soft-patch" => a = (lida[d].estado = "viva")
  OBVIOUS
<1>. HIDE DEF a, m, v
<1>3. /\ [reg EXCEPT !.ver = v, !.maior = m, !.ativo = a].ver = v
      /\ [reg EXCEPT !.ver = v, !.maior = m, !.ativo = a].ativo = a
  BY DEF Registro
<1>. QED
  BY <1>1, <1>2, <1>3 DEF v

\* One record is written, of the row of the entry: the one auvo_id names, and
\* else the one the POST meets or creates.
Escreveu(d, k) ==
    LET i == atual[d]
        r == outbox[i].linha
    IN  /\ DOMAIN auvo' = DOMAIN auvo \cup {k} /\ k # 0
        /\ \A j \in DOMAIN auvo \ {k} : auvo'[j] = auvo[j]
        /\ auvo'[k].ref = r /\ (k \in DOMAIN auvo => auvo[k].ref = r)
        /\ lida[d].auvoId # 0 => k = lida[d].auvoId
        /\ k \notin DOMAIN auvo => Cria(d)
        /\ outbox[i].op # "delete" => /\ k = idAuvo'[d] /\ auvo'[k].ver = lida[d].ver
        /\ outbox[i].op # "delete" /\ Descritor[r].deleteStrategy = "soft-patch" =>
             auvo'[k].ativo = (lida[d].estado = "viva")
        /\ outbox[i].op = "delete" /\ Descritor[r].deleteStrategy = "soft-patch" =>
             auvo'[k].ver = auvo[k].ver /\ ~auvo'[k].ativo

LEMMA RequisicaoEscreve ==
    ASSUME IInvConteudo, NEW d \in Drenos, pc[d] = "chamar", Requisicao(d),
           outbox[atual[d]].op = "delete" => lida[d].auvoId # 0
    PROVE  \E k : Escreveu(d, k)
<1> DEFINE i == atual[d]
           r == outbox[i].linha
<1>0. /\ IInv /\ TypeOK /\ Conteudo
      /\ auvo \in Seq(Registro) /\ Len(auvo) \in Nat /\ DOMAIN auvo = 1..Len(auvo)
      /\ idAuvo \in [Drenos -> Nat]
      /\ \A k \in DOMAIN auvo : auvo[k] \in Registro
      /\ r \in Linhas /\ i \in Nat
  BY AtualEhEntrada DEF IInvConteudo, IInv, TypeOK
<1>1. /\ lida[d].auvoId = idAuvo[d] /\ IdDe(idAuvo[d], r)
      /\ Entidade(d).deleteStrategy = Descritor[r].deleteStrategy
  BY <1>0 DEF Conteudo, LocalDoDreno, Entidade
<1>2. ASSUME NEW reg \in Registro, reg.ref = r
      PROVE  /\ ComConteudo(reg, d) \in Registro
             /\ ComConteudo(reg, d).ref = r
             /\ ComConteudo(reg, d).ver = lida[d].ver
             /\ Descritor[r].deleteStrategy = "soft-patch" =>
                  ComConteudo(reg, d).ativo = (lida[d].estado = "viva")
  BY <1>0, <1>1, <1>2, ComConteudoTipo, ComConteudoValor
<1>3. CASE outbox[i].op # "delete" /\ lida[d].auvoId # 0 /\ Patch(d)
  <2>1. idAuvo[d] \in DOMAIN auvo /\ auvo[idAuvo[d]].ref = r /\ idAuvo[d] # 0
    BY <1>1, <1>3 DEF IdDe
  <2>2. auvo' = [auvo EXCEPT ![idAuvo[d]] = ComConteudo(auvo[idAuvo[d]], d)] /\ idAuvo' = idAuvo
    BY <1>3 DEF Patch
  <2>3. Escreveu(d, idAuvo[d])
    BY <1>0, <1>1, <1>2, <1>3, <2>1, <2>2 DEF Escreveu
  <2>. QED
    BY <2>3
<1>4. CASE outbox[i].op # "delete" /\ lida[d].auvoId = 0 /\ Post(d)
  <2>1. CASE \E k \in MesmoExternalId(d) :
               /\ auvo'   = [auvo EXCEPT ![k] = ComConteudo(@, d)]
               /\ idAuvo' = [idAuvo EXCEPT ![d] = k]
    <3>1. PICK k \in DOMAIN auvo :
             /\ auvo[k].ref = r
             /\ auvo'   = [auvo EXCEPT ![k] = ComConteudo(auvo[k], d)]
             /\ idAuvo' = [idAuvo EXCEPT ![d] = k]
      BY <2>1 DEF MesmoExternalId
    <3>2. Escreveu(d, k)
      BY <1>0, <1>2, <1>4, <3>1 DEF Escreveu
    <3>. QED
      BY <3>2
  <2>2. CASE /\ auvo'   = Append(auvo, ComConteudo(Novo(d), d))
             /\ idAuvo' = [idAuvo EXCEPT ![d] = Len(auvo) + 1]
    <3>. PICK k, c : k = Len(auvo) + 1 /\ c = ComConteudo(Novo(d), d)
      OBVIOUS
    <3>1. Novo(d) \in Registro /\ Novo(d).ref = r
      BY <1>0 DEF Novo, Registro
    <3>2. /\ c \in Registro /\ c.ref = r /\ c.ver = lida[d].ver
          /\ Descritor[r].deleteStrategy = "soft-patch" => c.ativo = (lida[d].estado = "viva")
      BY <1>2, <3>1
    <3>3. auvo' = Append(auvo, c)
      BY <2>2
    <3>4. /\ DOMAIN auvo' = 1 .. (Len(auvo) + 1) /\ auvo'[k] = c
          /\ \A j \in DOMAIN auvo : auvo'[j] = auvo[j]
      BY <1>0, <3>2, <3>3
    <3>5. /\ DOMAIN auvo' = DOMAIN auvo \cup {k} /\ k # 0 /\ k \notin DOMAIN auvo
          /\ idAuvo'[d] = k
      BY <1>0, <2>2, <3>4
    <3>6. Escreveu(d, k)
      BY <1>4, <3>2, <3>4, <3>5 DEF Escreveu, Cria
    <3>. QED
      BY <3>6
  <2>3. QED
    BY <1>4, <2>1, <2>2 DEF Post
<1>5. CASE outbox[i].op = "delete" /\ Desativar(d)
  <2>. DEFINE k == idAuvo[d]
              novo == IF Entidade(d).deleteStrategy = "hard-delete"
                        THEN [auvo[k] EXCEPT !.existe = FALSE]
                        ELSE [auvo[k] EXCEPT !.ativo = FALSE]
  <2>1. k \in DOMAIN auvo /\ auvo[k].ref = r /\ k # 0
    BY <1>1, <1>5 DEF IdDe
  <2>2. auvo' = [auvo EXCEPT ![k] = novo]
    BY <1>5 DEF Desativar
  <2>3. /\ novo.ref = r /\ novo \in Registro
        /\ Descritor[r].deleteStrategy = "soft-patch" => novo.ver = auvo[k].ver /\ ~novo.ativo
    BY <1>0, <1>1, <2>1 DEF Registro
  <2>. HIDE DEF novo
  <2>4. Escreveu(d, k)
    BY <1>0, <1>1, <1>5, <2>1, <2>2, <2>3 DEF Escreveu
  <2>. QED
    BY <2>4
<1>. QED
  BY <1>3, <1>4, <1>5 DEF Requisicao

-----------------------------------------------------------------------------
(* Each step keeps Convergindo of a row that no two drains dispute.         *)

LEMMA SituacaoDasEntradas ==
    ASSUME NEW fila \in Seq(Entrada)
    PROVE  \A i \in DOMAIN fila : fila[i].status \in Situacao
<1>1. \A i \in DOMAIN fila : fila[i] \in Entrada
  OBVIOUS
<1>. QED
  BY <1>1 DEF Entrada

\* No step but a user write changes the life of a row.
LEMMA HistoriaPreservada ==
    ASSUME TypeOK, TypeOK', Preserva, DOMAIN outbox' = DOMAIN outbox,
           NEW r \in Linhas, Historia(r),
           origem'[r].estado = origem[r].estado, origem'[r].ver = origem[r].ver,
           origem[r].estado = "ausente" => origem'[r].auvoId = 0
    PROVE  Historia(r)'
<1>1. /\ \A i \in DOMAIN outbox : outbox[i].status \in Situacao
      /\ \A i \in DOMAIN outbox' : outbox'[i].status \in Situacao
  BY SituacaoDasEntradas DEF TypeOK
<1>2. DeleteEm(r, Situacao)' <=> DeleteEm(r, Situacao)
  BY <1>1 DEF DeleteEm, Preserva
<1>3. origem[r].estado \in {"viva", "excluida"} =>
        /\ origem[r].ver \in DOMAIN outbox'
        /\ outbox'[origem[r].ver].linha = r /\ outbox'[origem[r].ver].op # "delete"
  BY DEF Preserva, Historia
<1>. QED
  BY <1>2, <1>3 DEF Historia

\* A drain that is processing the row is the only one.
LEMMA SoEle ==
    ASSUME IInv, NEW q \in Linhas, Sozinha(q),
           NEW d \in Drenos, pc[d] \in {"chamar", "aplicar", "gravar"}, outbox[atual[d]].linha = q,
           NEW e \in Drenos, pc[e] \in {"chamar", "aplicar", "gravar"}, outbox[atual[e]].linha = q
    PROVE  e = d
  BY DEF IInv, Posse, Sozinha, Mexe

\* The other drains' locals stay as they are.
Alheios(d) ==
    \A e \in Drenos \ {d} :
        /\ pc'[e] = pc[e] /\ lote'[e] = lote[e] /\ atual'[e] = atual[e]
        /\ lida'[e] = lida[e] /\ idAuvo'[e] = idAuvo[e] /\ ok'[e] = ok[e]

LEMMA PassoAlheio ==
    ASSUME IInv, NEW d \in Drenos, Dreno(d) \/ Queda(d)
    PROVE  Alheios(d)
<1>0. TypeOK
  BY DEF IInv
<1>1. CASE Reivindicar(d)
  BY <1>0, <1>1 DEF Reivindicar, Alheios, TypeOK
<1>2. CASE ProcessarLinha(d)
  BY <1>0, <1>2 DEF ProcessarLinha, Passar, Alheios, TypeOK
<1>3. CASE ChamarAuvo(d)
  <2>1. \A e \in Drenos \ {d} : idAuvo'[e] = idAuvo[e]
    BY <1>3, RequisicaoEfeito DEF ChamarAuvo
  <2>. QED
    BY <1>0, <1>3, <2>1 DEF ChamarAuvo, Passar, Alheios, TypeOK
<1>4. CASE AuvoRecusa(d)
  BY <1>0, <1>4 DEF AuvoRecusa, Passar, Alheios, TypeOK
<1>5. CASE AplicarSync(d)
  BY <1>0, <1>5 DEF AplicarSync, Passar, Alheios, TypeOK
<1>6. CASE GravarResultado(d)
  BY <1>0, <1>6 DEF GravarResultado, Largar, Alheios, TypeOK
<1>7. CASE Queda(d)
  BY <1>0, <1>7 DEF Queda, Largar, Alheios, TypeOK
<1>. QED
  BY <1>1, <1>2, <1>3, <1>4, <1>5, <1>6, <1>7 DEF Dreno

\* What a step must leave alone to say nothing about the row.
LinhaIntacta(q) ==
    /\ origem'[q] = origem[q]
    /\ DOMAIN outbox' = DOMAIN outbox
    /\ \A i \in DOMAIN outbox : outbox'[i].linha = outbox[i].linha /\ outbox'[i].op = outbox[i].op
    /\ \A i \in DOMAIN outbox :
         outbox[i].linha = q => (outbox'[i].status = "sent" <=> outbox[i].status = "sent")
    /\ \A k \in DOMAIN auvo : auvo[k].ref = q => auvo'[k] = auvo[k]

LEMMA IntactaConvergindo ==
    ASSUME IInvConteudo, TypeOK', NEW q \in Linhas, Convergindo(q), NEW d \in Drenos, Alheios(d),
           LinhaIntacta(q), ~Adiante(d)' \/ outbox'[atual'[d]].linha # q
    PROVE  Convergindo(q)'
<1>0. /\ IInv /\ TypeOK /\ Conteudo
      /\ \A i \in DOMAIN outbox : outbox[i].status \in Situacao
      /\ \A i \in DOMAIN outbox' : outbox'[i].status \in Situacao
      /\ origem[q] \in Origem
  BY SituacaoDasEntradas, TiposAuvo DEF IInvConteudo, IInv, TypeOK
<1>1. /\ DeleteEm(q, Situacao)' <=> DeleteEm(q, Situacao)
      /\ DeleteEm(q, {"sent"})' <=> DeleteEm(q, {"sent"})
  BY <1>0 DEF DeleteEm, LinhaIntacta
<1>2. Historia(q) /\ (Espelhada(q) => Espelho(q))
  BY DEF Convergindo
<1>3. Historia(q)'
  BY <1>1, <1>2 DEF Historia, LinhaIntacta
<1>4. Espelhada(q) => Espelho(q)'
  <2>1. origem[q].auvoId # 0 => auvo'[origem[q].auvoId] = auvo[origem[q].auvoId]
    BY <1>0 DEF Conteudo, VinculoCorreto, LinhaIntacta
  <2>2. origem[q].estado \in {"viva", "excluida"} =>
          (outbox'[origem[q].ver].status = "sent" <=> outbox[origem[q].ver].status = "sent")
    BY <1>2 DEF Historia, LinhaIntacta
  <2>3. origem'[q] = origem[q]
    BY DEF LinhaIntacta
  <2>. QED
    BY <1>1, <1>2, <2>1, <2>2, <2>3 DEF Espelho
<1>5. ASSUME NEW e \in Drenos, Adiante(e)', outbox'[atual'[e]].linha = q
      PROVE  Leu(e)' /\ Pediu(e)'
  <2>. PICK i, id : i = atual[e] /\ id = idAuvo[e]
    OBVIOUS
  <2>1. /\ e # d /\ pc'[e] = pc[e] /\ atual'[e] = i /\ lida'[e] = lida[e]
        /\ idAuvo'[e] = id /\ ok'[e] = ok[e]
    BY <1>5 DEF Alheios
  <2>2. Adiante(e)
    BY <1>5, <2>1 DEF Adiante
  <2>3. i \in DOMAIN outbox
    BY <1>0, <2>2, AtualEhEntrada DEF Adiante
  <2>4. outbox[i].linha = q /\ outbox'[i].linha = q /\ outbox'[i].op = outbox[i].op
    BY <1>5, <2>1, <2>3 DEF LinhaIntacta
  <2>5. Leu(e) /\ Pediu(e) /\ LocalDoDreno(e)
    BY <1>0, <2>2, <2>4 DEF Convergindo, Conteudo
  <2>6. origem'[q] = origem[q]
    BY DEF LinhaIntacta
  <2>7. Leu(e)'
    <3>1. origem[q].estado \in {"viva", "excluida"} =>
            (outbox'[origem[q].ver].status = "sent" <=> outbox[origem[q].ver].status = "sent")
      BY <1>2 DEF Historia, LinhaIntacta
    <3>. QED
      BY <1>1, <2>1, <2>4, <2>5, <2>6, <3>1 DEF Leu
  <2>8. /\ pc[e] \in {"chamar", "aplicar"} /\ lida[e].auvoId # 0 =>
             auvo'[lida[e].auvoId] = auvo[lida[e].auvoId]
        /\ origem[q].auvoId # 0 => auvo'[origem[q].auvoId] = auvo[origem[q].auvoId]
    BY <1>0, <2>4, <2>5 DEF Pediu, Conteudo, VinculoCorreto, LinhaIntacta
  <2>9. pc[e] = "aplicar" /\ outbox[i].op # "delete" => auvo'[id] = auvo[id]
    BY <2>4, <2>5 DEF LocalDoDreno, Recebeu, LinhaIntacta
  <2>. QED
    <3>1. Pediu(e)'
      <4>1. CASE pc[e] = "chamar"
        BY <2>1, <2>4, <2>5, <2>6, <4>1 DEF Pediu
      <4>2. CASE pc[e] = "aplicar"
        BY <2>1, <2>4, <2>5, <2>6, <2>8, <2>9, <4>2 DEF Pediu, Espelhada
      <4>3. CASE pc[e] = "gravar"
        BY <2>1, <2>4, <2>5, <2>6, <2>8, <4>3 DEF Pediu, Espelhada
      <4>. QED
        BY <2>2, <4>1, <4>2, <4>3 DEF Adiante
    <3>. QED
      BY <2>7, <3>1
<1>. QED
  BY <1>3, <1>4, <1>5 DEF Convergindo, Espelhada

\* A step that touches only the drain's own locals, and leaves the row.
LEMMA FalharConvergindo ==
    ASSUME IInvConteudo, TypeOK', NEW q \in Linhas, Convergindo(q), NEW d \in Drenos, Alheios(d),
           UNCHANGED <<origem, outbox, auvo>>, ~Adiante(d)' \/ outbox[atual'[d]].linha # q
    PROVE  Convergindo(q)'
<1>1. LinhaIntacta(q)
  BY DEF LinhaIntacta
<1>. QED
  BY <1>1, IntactaConvergindo

-----------------------------------------------------------------------------

LEMMA DeleteConhecidoSempre ==
    ASSUME IInv, DeleteConhecido, [Next]_vars
    PROVE  DeleteConhecido'
<1>0. TypeOK
  BY DEF IInv
<1>1. ASSUME NEW e \in Drenos, pc'[e] = pc[e], atual'[e] = atual[e], lida'[e] = lida[e],
             \A i \in DOMAIN outbox : outbox'[i].op = outbox[i].op
      PROVE  pc'[e] = "chamar" /\ outbox'[atual'[e]].op = "delete" => lida'[e].auvoId # 0
  BY <1>1, AtualEhEntrada DEF DeleteConhecido
<1>2. CASE Usuario
  <2>1. PICK r \in Linhas, depois \in Origem : Escrever(r, depois)
    <3>. PICK r \in Linhas : Inserir(r) \/ Editar(r) \/ Excluir(r) \/ Apagar(r)
      BY <1>2 DEF Usuario
    <3>0. origem[r] \in Origem /\ Len(outbox) \in Nat
      BY <1>0, TiposAuvo
    <3>1. \E depois \in Origem : Escrever(r, depois)
      BY <3>0 DEF Inserir, Editar, Excluir, Apagar, Origem
    <3>. QED
      BY <3>1
  <2>2. UNCHANGED <<pc, atual, lida>> /\ \A i \in DOMAIN outbox : outbox'[i].op = outbox[i].op
    <3>. PICK nova : nova = [linha  |-> r, op |-> OpDaEscrita(origem[r], depois), status |-> "pending"]
      OBVIOUS
    <3>1. outbox' = Append(outbox, nova) /\ UNCHANGED <<pc, atual, lida>>
      BY <2>1 DEF Escrever, Enfileirar, drenoVars
    <3>2. outbox \in Seq(Entrada) /\ nova \in Entrada
      BY <1>0, TipoDaEntrada DEF TypeOK, Entrada, Situacao
    <3>. QED
      BY <3>1, <3>2
  <2>. QED
    BY <1>1, <2>2 DEF DeleteConhecido
<1>3. ASSUME NEW d \in Drenos, Dreno(d) \/ Queda(d) PROVE DeleteConhecido'
  <2>1. \A i \in DOMAIN outbox : outbox'[i].op = outbox[i].op
    BY <1>3, ReivindicarEfeito, GravarEfeito DEF Dreno, ProcessarLinha, ChamarAuvo, AuvoRecusa,
       AplicarSync, Enfileirar, Queda
  <2>2. pc'[d] = "chamar" /\ outbox'[atual'[d]].op = "delete" => lida'[d].auvoId # 0
    <3>1. CASE ProcessarLinha(d)
      BY <1>0, <3>1 DEF ProcessarLinha, Passar, SoLocal, TypeOK
    <3>2. CASE ~ProcessarLinha(d)
      <4>1. pc'[d] # "chamar"
        BY <1>0, <1>3, <3>2 DEF Dreno, Reivindicar, ChamarAuvo, AuvoRecusa, AplicarSync,
           GravarResultado, Queda, Passar, TypeOK
      <4>. QED
        BY <4>1
    <3>. QED
      BY <3>1, <3>2
  <2>3. Alheios(d)
    BY <1>3, PassoAlheio
  <2>. QED
    BY <1>1, <2>1, <2>2, <2>3 DEF DeleteConhecido, Alheios
<1>4. CASE UNCHANGED vars
  BY <1>4 DEF vars, drenoVars, DeleteConhecido
<1>. QED
  BY <1>2, <1>3, <1>4 DEF Next

\* A user write: the new entry is on offer, so nothing sent is touched by it.
LEMMA EscreverConvergindo ==
    ASSUME NEW q \in Linhas, IInvLinha(q),
           NEW r \in Linhas, NEW depois \in Origem, Escrever(r, depois),
           q = r => depois.auvoId = origem[r].auvoId,
           \/ /\ origem[r].estado = "ausente" /\ depois.estado = "viva"
              /\ depois.ver = Len(outbox) + 1
           \/ /\ origem[r].estado \in {"viva", "excluida"} /\ depois.estado = origem[r].estado
              /\ depois.ver = Len(outbox) + 1
           \/ /\ origem[r].estado = "viva" /\ depois.estado = "excluida"
              /\ depois.ver = origem[r].ver
           \/ /\ origem[r].estado \in {"viva", "excluida"} /\ depois.estado = "apagada"
    PROVE  Convergindo(q)'
<1>. DEFINE op == OpDaEscrita(origem[r], depois)
            nova == [linha |-> r, op |-> op, status |-> "pending"]
<1>0. /\ IInv /\ TypeOK /\ Conteudo /\ Convergindo(q)
      /\ outbox \in Seq(Entrada) /\ Len(outbox) \in Nat /\ DOMAIN outbox = 1..Len(outbox)
  BY DEF IInvLinha, IInvConteudo, IInv, TypeOK
<1>1. /\ outbox' = Append(outbox, nova)
      /\ origem' = [origem EXCEPT ![r] = depois]
      /\ UNCHANGED <<auvo, pc, lote, atual, lida, idAuvo, ok>>
  BY DEF Escrever, Enfileirar, drenoVars
<1>2. /\ DOMAIN outbox' = DOMAIN outbox \cup {Len(outbox) + 1}
      /\ Len(outbox) + 1 \notin DOMAIN outbox
      /\ \A i \in DOMAIN outbox : outbox'[i] = outbox[i]
      /\ outbox'[Len(outbox) + 1] = nova
  <2>1. nova \in Entrada
    BY <1>0, TipoDaEntrada DEF Entrada, Situacao
  <2>. HIDE DEF nova
  <2>. QED
    BY <1>0, <1>1, <2>1
<1>3. /\ origem'[r] = depois
      /\ \A s \in Linhas \ {r} : origem'[s] = origem[s]
  BY <1>0, <1>1 DEF TypeOK
<1>4. /\ (op = "delete") <=> (\/ depois.estado = "apagada"
                             \/ (depois.estado = "excluida" /\ origem[r].estado = "viva"))
      /\ nova.linha = r /\ nova.op = op /\ nova.status = "pending"
  BY DEF OpDaEscrita
<1>5. ASSUME NEW S, "pending" \notin S
      PROVE  DeleteEm(q, S)' <=> DeleteEm(q, S)
  BY <1>2, <1>4, <1>5 DEF DeleteEm
<1>6. ASSUME NEW s \in Linhas
      PROVE  DeleteEm(s, Situacao)' <=> DeleteEm(s, Situacao) \/ (s = r /\ op = "delete")
  BY <1>2, <1>4 DEF DeleteEm, Situacao
<1>. HIDE DEF nova, op
<1>7. Historia(q)'
  <2>1. Historia(q)
    BY <1>0 DEF Convergindo
  <2>2. CASE q # r
    BY <1>2, <1>3, <1>6, <2>1, <2>2 DEF Historia
  <2>3. CASE q = r
    <3>0. Historia(r)
      BY <2>1, <2>3
    <3>1. DeleteEm(r, Situacao)' => depois.estado \in {"excluida", "apagada"}
      BY <1>4, <1>6, <3>0 DEF Historia
    <3>2. depois.estado = "excluida" => DeleteEm(r, Situacao)'
      BY <1>4, <1>6, <3>0 DEF Historia
    <3>3. depois.estado \in {"viva", "excluida"} =>
            /\ depois.ver \in DOMAIN outbox'
            /\ outbox'[depois.ver].linha = r /\ outbox'[depois.ver].op # "delete"
      BY <1>2, <1>4, <3>0 DEF Historia
    <3>. QED
      BY <1>3, <2>3, <3>1, <3>2, <3>3 DEF Historia
  <2>. QED
    BY <2>2, <2>3
<1>8. ASSUME Espelhada(q) PROVE Espelho(q)'
  <2>1. Historia(q) /\ Espelho(q)
    BY <1>0, <1>8 DEF Convergindo
  <2>2. DeleteEm(q, {"sent"})' <=> DeleteEm(q, {"sent"})
    BY <1>5
  <2>3. DeleteEm(q, {"sent"}) => DeleteEm(q, Situacao)
    BY DEF DeleteEm, Situacao
  <2>4. CASE q # r
    BY <1>1, <1>2, <1>3, <2>1, <2>2, <2>4 DEF Historia, Espelho
  <2>5. CASE q = r
    <3>1. /\ depois.estado \in {"viva", "excluida"} /\ outbox'[depois.ver].status = "sent"
          => /\ origem[r].estado \in {"viva", "excluida"} /\ depois.ver = origem[r].ver
             /\ outbox[origem[r].ver].status = "sent"
      BY <1>2, <1>4, <2>1, <2>5 DEF Historia
    <3>2. depois.estado = "excluida" /\ DeleteEm(r, {"sent"}) => origem[r].estado = "excluida"
      BY <2>1, <2>3, <2>5 DEF Historia
    <3>3. depois.estado = "viva" /\ depois.auvoId # 0 => origem[r].estado = "viva"
      BY <2>1, <2>5 DEF Historia
    <3>. QED
      BY <1>1, <1>3, <2>1, <2>2, <2>5, <3>1, <3>2, <3>3 DEF Espelho
  <2>. QED
    BY <2>4, <2>5
<1>9. ASSUME NEW d \in Drenos, Adiante(d)', outbox'[atual'[d]].linha = q
      PROVE  Leu(d)' /\ Pediu(d)'
  <2>. PICK i : i = atual[d]
    OBVIOUS
  <2>0. Adiante(d) /\ atual'[d] = i
    BY <1>1, <1>9 DEF Adiante
  <2>1. i \in DOMAIN outbox /\ i # Len(outbox) + 1
    BY <1>0, <1>2, <2>0, AtualEhEntrada DEF Adiante
  <2>2. /\ outbox'[i] = outbox[i] /\ outbox[i].linha = q
        /\ lida'[d] = lida[d] /\ pc'[d] = pc[d] /\ idAuvo'[d] = idAuvo[d] /\ auvo' = auvo
    BY <1>1, <1>2, <1>9, <2>0, <2>1
  <2>3. Leu(d) /\ Pediu(d)
    BY <1>0, <2>0, <2>2 DEF Convergindo
  <2>4. DeleteEm(q, {"sent"})' <=> DeleteEm(q, {"sent"})
    BY <1>5
  <2>5. /\ origem'[q].auvoId = origem[q].auvoId
        /\ origem[q].estado = "apagada" => origem'[q].estado = "apagada"
    BY <1>3
  <2>6. Historia(q)
    BY <1>0 DEF Convergindo
  <2>7. /\ origem'[q].estado # "ausente"
        /\ lida[d].estado = "excluida" => origem'[q].estado # "viva"
        /\ /\ origem'[q].estado \in {"viva", "excluida"}
           /\ outbox'[origem'[q].ver].status = "sent" \/ origem'[q].ver = i
           => lida[d].ver = origem'[q].ver
    <3>1. CASE q # r
      BY <1>2, <1>3, <2>2, <2>3, <2>6, <3>1 DEF Leu, Historia
    <3>2. CASE q = r
      BY <1>2, <1>3, <1>4, <2>1, <2>2, <2>3, <2>6, <3>2 DEF Leu, Historia
    <3>. QED
      BY <3>1, <3>2
  <2>8. Leu(d)'
    BY <2>0, <2>2, <2>3, <2>4, <2>7 DEF Leu
  <2>9. Pediu(d)'
    BY <2>0, <2>2, <2>3, <2>5 DEF Pediu, Espelhada
  <2>. QED
    BY <2>8, <2>9
<1>. QED
  BY <1>7, <1>8, <1>9 DEF Convergindo, Espelhada

LEMMA UsuarioConvergindo ==
    ASSUME NEW q \in Linhas, IInvLinha(q), Usuario
    PROVE  Convergindo(q)'
<1>. PICK r \in Linhas : Inserir(r) \/ Editar(r) \/ Excluir(r) \/ Apagar(r)
  BY DEF Usuario
<1>0. origem[r] \in Origem /\ Len(outbox) \in Nat /\ Historia(q)
  BY DEF IInvLinha, IInvConteudo, IInv, TypeOK, Convergindo
<1>1. CASE Inserir(r)
  BY <1>0, <1>1, EscreverConvergindo DEF Inserir, Origem, Historia
<1>2. CASE Editar(r)
  BY <1>0, <1>2, EscreverConvergindo DEF Editar, Origem
<1>3. CASE Excluir(r)
  BY <1>0, <1>3, EscreverConvergindo DEF Excluir, Origem
<1>4. CASE Apagar(r)
  BY <1>0, <1>4, EscreverConvergindo DEF Apagar, Origem
<1>. QED
  BY <1>1, <1>2, <1>3, <1>4

-----------------------------------------------------------------------------

\* Reserving entries of the row does not touch what a drain read of it.
LEMMA ReivindicarConvergindo ==
    ASSUME NEW q \in Linhas, IInvLinha(q), Sozinha(q), NEW d \in Drenos, Reivindicar(d)
    PROVE  Convergindo(q)'
<1>0. IInvConteudo /\ IInv /\ TypeOK /\ Convergindo(q)
  BY DEF IInvLinha, IInvConteudo, IInv
<1>1. TypeOK'
  BY <1>0, ReivindicarInv DEF IInv
<1>2. /\ UNCHANGED <<origem, auvo>> /\ ~Adiante(d)' /\ Alheios(d)
  BY <1>0, PassoAlheio DEF Reivindicar, Adiante, TypeOK, Dreno
<1>3. LinhaIntacta(q)
  BY <1>0, <1>2, ReivindicarEfeito DEF LinhaIntacta
<1>. QED
  BY <1>0, <1>1, <1>2, <1>3, IntactaConvergindo

\* The drain starts on an entry with the row as it is.
LEMMA ProcessarLinhaConvergindo ==
    ASSUME NEW q \in Linhas, IInvLinha(q), Sozinha(q), NEW d \in Drenos, ProcessarLinha(d)
    PROVE  Convergindo(q)'
<1>0. IInvConteudo /\ IInv /\ TypeOK /\ Convergindo(q) /\ TypeOK' /\ Alheios(d)
  BY ProcessarLinhaInv, PassoAlheio DEF IInvLinha, IInvConteudo, IInv, Dreno
<1>1. PICK i \in lote[d] :
        LET r  == outbox[i].linha
            op == outbox[i].op
        IN  /\ atual'  = [atual EXCEPT ![d] = i]
            /\ lida'   = [lida EXCEPT ![d] = origem[r]]
            /\ \/ Passar(d, "gravar", FALSE)
               \/ Enviavel(r) /\ SoLocal(r, op) /\ Passar(d, "aplicar", FALSE)
               \/ Enviavel(r) /\ SemEdicao(r, op) /\ Passar(d, "gravar", TRUE)
               \/ Enviavel(r) /\ ~SoLocal(r, op) /\ Passar(d, "chamar", FALSE)
  BY DEF ProcessarLinha
<1>2. UNCHANGED <<origem, outbox, auvo>> /\ pc[d] = "laco"
  BY DEF ProcessarLinha
<1>3. i \in DOMAIN outbox
  BY <1>0 DEF IInv, Posse
<1>. PICK r, op : r = outbox[i].linha /\ op = outbox[i].op
  OBVIOUS
<1>4. /\ r \in Linhas /\ atual'[d] = i /\ lida'[d] = origem[r]
      /\ outbox[atual'[d]].linha = r
  BY <1>0, <1>1, <1>3, TiposAuvo DEF TypeOK
<1>5. CASE Passar(d, "gravar", FALSE)
  <2>1. ~Adiante(d)'
    BY <1>0, <1>5 DEF Passar, TypeOK, Adiante
  <2>. QED
    BY <1>0, <1>2, <2>1, FalharConvergindo
<1>6. CASE /\ Enviavel(r)
           /\ \/ SoLocal(r, op) /\ Passar(d, "aplicar", FALSE)
              \/ SemEdicao(r, op) /\ Passar(d, "gravar", TRUE)
              \/ ~SoLocal(r, op) /\ Passar(d, "chamar", FALSE)
  <2>0. CASE r # q
    BY <1>0, <1>2, <1>4, <2>0, FalharConvergindo
  <2>1. CASE r = q
    <3>1. Historia(r)
      BY <1>0, <2>1 DEF Convergindo
    <3>2. DeleteEm(r, {"sent"})' => DeleteEm(r, Situacao)
      BY <1>2 DEF DeleteEm, Situacao
    <3>3. Leu(d)'
      BY <1>2, <1>4, <1>6, <3>1, <3>2 DEF Leu, Enviavel, Historia
    <3>4. Pediu(d)'
      BY <1>0, <1>2, <1>4, <1>6 DEF Pediu, Passar, TypeOK, SoLocal, SemEdicao, Espelhada
    <3>5. ASSUME NEW e \in Drenos \ {d}, Adiante(e)', outbox'[atual'[e]].linha = q
          PROVE  Leu(e)' /\ Pediu(e)'
      <4>1. /\ pc'[e] = pc[e] /\ atual'[e] = atual[e] /\ lida'[e] = lida[e]
            /\ idAuvo'[e] = idAuvo[e] /\ ok'[e] = ok[e]
        BY <1>0 DEF Alheios
      <4>2. Adiante(e) /\ outbox[atual[e]].linha = q
        BY <1>2, <3>5, <4>1 DEF Adiante
      <4>3. Leu(e) /\ Pediu(e)
        BY <1>0, <4>2 DEF Convergindo
      <4>4. Leu(e)'
        BY <1>2, <4>1, <4>3 DEF Leu, DeleteEm
      <4>5. Pediu(e)'
        BY <1>2, <4>1, <4>3 DEF Pediu, Espelhada
      <4>. QED
        BY <4>4, <4>5
    <3>6. Historia(q)' /\ (Espelhada(q) => Espelho(q)')
      BY <1>0, <1>2 DEF Convergindo, Historia, Espelho, DeleteEm
    <3>. QED
      BY <3>3, <3>4, <3>5, <3>6 DEF Convergindo, Espelhada
  <2>. QED
    BY <2>0, <2>1
<1>. QED
  BY <1>1, <1>5, <1>6

\* What the Auvo took is the row as the drain read it, and only in the record
\* of that row.
LEMMA ChamarAuvoConvergindo ==
    ASSUME NEW q \in Linhas, IInvLinha(q), Sozinha(q), NEW d \in Drenos, ChamarAuvo(d)
    PROVE  Convergindo(q)'
<1>. PICK i, r : i = atual[d] /\ r = outbox[i].linha
  OBVIOUS
<1>0. /\ IInv /\ TypeOK /\ Conteudo /\ Convergindo(q) /\ IInvConteudo /\ DeleteConhecido
      /\ TypeOK' /\ Alheios(d)
  BY ChamarAuvoInv, PassoAlheio DEF IInvLinha, IInvConteudo, IInv, Dreno
<1>1. /\ UNCHANGED <<origem, outbox, lote, atual, lida>>
      /\ pc[d] = "chamar" /\ Requisicao(d)
  BY DEF ChamarAuvo
<1>2. /\ i \in DOMAIN outbox /\ outbox[i] \in Entrada /\ r \in Linhas
      /\ r = q => Leu(d) /\ Pediu(d)
  BY <1>0, <1>1, AtualEhEntrada DEF Convergindo, Adiante
<1>3. PICK k : Escreveu(d, k)
  BY <1>0, <1>1, <1>2, RequisicaoEscreve DEF DeleteConhecido
<1>4. ASSUME r # q PROVE Convergindo(q)'
  <2>1. LinhaIntacta(q)
    BY <1>1, <1>3, <1>4 DEF LinhaIntacta, Escreveu
  <2>. QED
    BY <1>0, <1>1, <1>4, <2>1, IntactaConvergindo
<1>. SUFFICES ASSUME r = q PROVE Convergindo(q)'
  BY <1>4
<1>5. Historia(q)' /\ lida[d].auvoId = origem[r].auvoId /\ Leu(d) /\ Pediu(d)
  BY <1>0, <1>1, <1>2 DEF Convergindo, Historia, DeleteEm, Pediu
<1>6. ASSUME Espelhada(q) PROVE Espelho(q)'
  <2>1. Espelho(q) /\ Historia(q)
    BY <1>0, <1>6 DEF Convergindo
  <2>2. origem[q].auvoId # 0 => origem[q].auvoId \in DOMAIN auvo /\ auvo[origem[q].auvoId].ref = q
    BY <1>0 DEF Conteudo, VinculoCorreto
  <2>3. DeleteEm(q, {"sent"})' = DeleteEm(q, {"sent"})
    BY <1>1 DEF DeleteEm
  <2>4. CASE origem[q].auvoId # k
    <3>1. origem[q].auvoId # 0 => auvo'[origem[q].auvoId] = auvo[origem[q].auvoId]
      BY <1>3, <2>2, <2>4 DEF Escreveu
    <3>. QED
      BY <1>1, <2>1, <2>3, <3>1 DEF Espelho
  <2>5. CASE origem[q].auvoId = k
    <3>1. k # 0 /\ q = r /\ lida[d].auvoId = k
      BY <1>3, <1>5, <2>2, <2>5 DEF Escreveu
    <3>2. DeleteEm(r, {"sent"}) => lida[d].estado = "excluida"
      BY <1>5 DEF Leu
    <3>3. /\ origem[r].estado \in {"viva", "excluida"} /\ outbox[origem[r].ver].status = "sent"
          => lida[d].ver = origem[r].ver
      BY <1>5 DEF Leu
    <3>4. origem[r].estado = "viva" => lida[d].estado = "viva" /\ outbox[i].op # "delete"
      <4>1. outbox[i].op = "delete" => DeleteEm(r, Situacao)
        BY <1>2 DEF DeleteEm, Entrada
      <4>. QED
        BY <1>5, <2>1, <3>1, <4>1 DEF Leu, Historia
    <3>5. CASE outbox[i].op = "delete"
      <4>1. auvo'[k].ver = auvo[k].ver /\ ~auvo'[k].ativo
        BY <1>3, <1>6, <3>1, <3>5 DEF Escreveu, Espelhada
      <4>. QED
        BY <1>1, <2>1, <2>3, <2>5, <3>1, <3>4, <3>5, <4>1 DEF Espelho
    <3>6. CASE outbox[i].op # "delete"
      <4>1. auvo'[k].ver = lida[d].ver /\ auvo'[k].ativo = (lida[d].estado = "viva")
        BY <1>3, <1>6, <3>1, <3>6 DEF Escreveu, Espelhada
      <4>. QED
        BY <1>1, <2>1, <2>3, <2>5, <3>1, <3>2, <3>3, <3>4, <4>1 DEF Espelho
    <3>. QED
      BY <3>5, <3>6
  <2>. QED
    BY <2>4, <2>5
<1>7. ASSUME NEW e \in Drenos, Adiante(e)', outbox'[atual'[e]].linha = q
      PROVE  Leu(e)' /\ Pediu(e)'
  <2>0. e = d
    <3>. SUFFICES ASSUME e # d PROVE FALSE
      OBVIOUS
    <3>1. pc'[e] = pc[e] /\ atual'[e] = atual[e]
      BY <1>0 DEF Alheios
    <3>2. pc[e] \in {"chamar", "aplicar", "gravar"} /\ outbox[atual[e]].linha = q
      BY <1>1, <1>7, <3>1 DEF Adiante
    <3>. QED
      BY <1>0, <1>1, <3>2, SoEle
  <2>1. pc'[d] = "aplicar"
    BY <1>0, <1>7, <2>0 DEF ChamarAuvo, Passar, Adiante, TypeOK
  <2>2. Leu(d)'
    BY <1>1, <1>5 DEF Leu, DeleteEm
  <2>3. CASE outbox[i].op = "delete"
    <3>1. lida[d].auvoId # 0 /\ k = lida[d].auvoId
      BY <1>0, <1>1, <1>3, <2>3 DEF DeleteConhecido, Escreveu
    <3>2. Espelhada(r) => ~auvo'[k].ativo
      BY <1>3, <2>3 DEF Escreveu, Espelhada
    <3>. QED
      BY <1>1, <1>5, <2>0, <2>1, <2>2, <2>3, <3>1, <3>2 DEF Pediu, Espelhada
  <2>4. CASE outbox[i].op # "delete"
    <3>1. /\ auvo'[idAuvo'[d]].ver = lida[d].ver
          /\ Espelhada(r) => auvo'[idAuvo'[d]].ativo = (lida[d].estado = "viva")
      BY <1>3, <2>4 DEF Escreveu, Espelhada
    <3>. QED
      BY <1>1, <1>5, <2>0, <2>1, <2>2, <2>4, <3>1 DEF Pediu, Espelhada
  <2>. QED
    BY <2>3, <2>4
<1>. QED
  BY <1>5, <1>6, <1>7 DEF Convergindo, Espelhada

LEMMA AuvoRecusaConvergindo ==
    ASSUME NEW q \in Linhas, IInvLinha(q), Sozinha(q), NEW d \in Drenos, AuvoRecusa(d)
    PROVE  Convergindo(q)'
<1>0. IInvConteudo /\ IInv /\ TypeOK /\ Convergindo(q) /\ TypeOK' /\ Alheios(d)
  BY AuvoRecusaInv, PassoAlheio DEF IInvLinha, IInvConteudo, IInv, Dreno
<1>1. ~Adiante(d)' /\ UNCHANGED <<origem, outbox, auvo>>
  BY <1>0 DEF AuvoRecusa, Passar, TypeOK, Adiante
<1>. QED
  BY <1>0, <1>1, FalharConvergindo

\* The id that is stored is that of the record that received the row.
LEMMA AplicarSyncConvergindo ==
    ASSUME NEW q \in Linhas, IInvLinha(q), Sozinha(q), NEW d \in Drenos, AplicarSync(d)
    PROVE  Convergindo(q)'
<1>. PICK i, r : i = atual[d] /\ r = outbox[i].linha
  OBVIOUS
<1>0. /\ IInv /\ TypeOK /\ Conteudo /\ Convergindo(q) /\ IInvConteudo
      /\ TypeOK' /\ Alheios(d)
  BY AplicarSyncInv, PassoAlheio DEF IInvLinha, IInvConteudo, IInv, Dreno
<1>2. /\ pc[d] = "aplicar"
      /\ UNCHANGED <<outbox, auvo, lote, atual, lida, idAuvo>>
  BY DEF AplicarSync, Enfileirar
<1>3. /\ LocalDoDreno(d) /\ i \in DOMAIN outbox /\ outbox[i] \in Entrada /\ r \in Linhas
      /\ origem[r] \in Origem
      /\ r = q => Leu(d) /\ Pediu(d) /\ Historia(q)
  BY <1>0, <1>2, AtualEhEntrada DEF Convergindo, Adiante, Conteudo, TypeOK
<1>4. CASE Passar(d, "gravar", FALSE) /\ origem' = origem
  <2>1. ~Adiante(d)'
    BY <1>0, <1>4 DEF Passar, TypeOK, Adiante
  <2>. QED
    BY <1>0, <1>2, <1>4, <2>1, FalharConvergindo
<1>5. CASE /\ Passar(d, "gravar", TRUE)
           /\ \E depois : origem' = [origem EXCEPT ![r] = depois]
           /\ r # q
  <2>1. origem'[q] = origem[q]
    BY <1>0, <1>5 DEF TypeOK
  <2>2. LinhaIntacta(q)
    BY <1>2, <2>1 DEF LinhaIntacta
  <2>3. outbox'[atual'[d]].linha # q
    BY <1>2, <1>5
  <2>. QED
    BY <1>0, <2>2, <2>3, IntactaConvergindo
<1>9. ASSUME r = q, NEW e \in Drenos, Adiante(e)', outbox'[atual'[e]].linha = q PROVE e = d
  <2>. SUFFICES ASSUME e # d PROVE FALSE
    OBVIOUS
  <2>1. pc'[e] = pc[e] /\ atual'[e] = atual[e]
    BY <1>0 DEF Alheios
  <2>2. pc[e] \in {"chamar", "aplicar", "gravar"} /\ outbox[atual[e]].linha = q
    BY <1>2, <1>9, <2>1 DEF Adiante
  <2>. QED
    BY <1>0, <1>2, <1>9, <2>2, SoEle
<1>7. CASE /\ Passar(d, "gravar", TRUE) /\ origem' = origem /\ r = q
           /\ outbox[i].op = "delete" \/ origem[r].estado = "apagada"
  <2>1. Historia(q)' /\ (Espelhada(q) => Espelho(q)')
    BY <1>0, <1>2, <1>7 DEF Convergindo, Historia, Espelho, DeleteEm
  <2>2. Leu(d)'
    BY <1>2, <1>3, <1>7 DEF Leu, DeleteEm
  <2>3. pc'[d] = "gravar"
    BY <1>0, <1>7 DEF Passar, TypeOK
  <2>4. Pediu(d)'
    BY <1>2, <1>3, <1>7, <2>3 DEF Pediu, Espelhada
  <2>. QED
    BY <1>7, <1>9, <2>1, <2>2, <2>4 DEF Convergindo, Espelhada
<1>6. CASE /\ Passar(d, "gravar", TRUE) /\ r = q
           /\ outbox[i].op # "delete" /\ origem[r].estado # "apagada"
           /\ origem' = [origem EXCEPT ![r] = [origem[r] EXCEPT !.auvoId = idAuvo[d]]]
  <2>. PICK id \in Nat : id = idAuvo[d]
    BY <1>0 DEF TypeOK
  <2>1. /\ \A s \in Linhas \ {r} : origem'[s] = origem[s]
        /\ origem'[r].estado = origem[r].estado /\ origem'[r].ver = origem[r].ver
        /\ origem'[r].auvoId = id
    <3>1. /\ [origem[r] EXCEPT !.auvoId = id].estado = origem[r].estado
          /\ [origem[r] EXCEPT !.auvoId = id].ver = origem[r].ver
          /\ [origem[r] EXCEPT !.auvoId = id].auvoId = id
      BY <1>3 DEF Origem
    <3>. QED
      BY <1>0, <1>3, <1>6, <3>1 DEF TypeOK
  <2>2. id # 0
    BY <1>0, <1>2, <1>3, <1>6, TiposAuvo DEF LocalDoDreno, Recebeu
  <2>3. DeleteEm(r, {"sent"})' = DeleteEm(r, {"sent"})
    BY <1>2 DEF DeleteEm
  <2>4. Historia(r)'
    <3>1. origem[r].estado # "ausente"
      BY <1>3, <1>6 DEF Leu
    <3>2. Preserva /\ DOMAIN outbox' = DOMAIN outbox
      BY <1>0, <1>2, TiposAuvo DEF Preserva
    <3>. QED
      BY <1>0, <1>3, <1>6, <2>1, <3>1, <3>2, HistoriaPreservada
  <2>5. ASSUME Espelhada(r) PROVE Espelho(r)'
    <3>1. auvo[id].ver = lida[d].ver /\ auvo[id].ativo = (lida[d].estado = "viva")
      BY <1>2, <1>3, <1>6, <2>5 DEF Pediu
    <3>2. DeleteEm(r, {"sent"}) => lida[d].estado = "excluida"
      BY <1>3, <1>6 DEF Leu
    <3>3. /\ origem[r].estado = "viva" => lida[d].estado = "viva"
          /\ /\ origem[r].estado \in {"viva", "excluida"}
             /\ outbox[origem[r].ver].status = "sent"
             => lida[d].ver = origem[r].ver
      BY <1>3, <1>6 DEF Leu
    <3>4. (origem[r].estado = "viva" => auvo[id].ativo)
          /\ (DeleteEm(r, {"sent"}) => ~auvo[id].ativo)
      BY <3>1, <3>2, <3>3
    <3>5. origem[r].estado \in {"viva", "excluida"} /\ outbox'[origem[r].ver].status = "sent"
          => auvo'[id].ver = origem[r].ver
      BY <1>2, <3>1, <3>3
    <3>6. /\ origem[r].estado = "excluida" /\ DeleteEm(r, {"sent"})' => ~auvo'[id].ativo
          /\ origem[r].estado = "viva" => auvo'[id].ativo
      <4>1. auvo' = auvo /\ (DeleteEm(r, {"sent"})' <=> DeleteEm(r, {"sent"}))
        BY <1>2, <1>3, <2>3
      <4>. QED
        BY <3>4, <4>1
    <3>7. (/\ origem[r].estado \in {"viva", "excluida"}
           /\ outbox[origem[r].ver].status = "sent"
           => origem[r].auvoId # 0 /\ auvo[origem[r].auvoId].ver = origem[r].ver)'
      BY <2>1, <2>2, <3>5
    <3>8. (origem[r].estado = "excluida" /\ DeleteEm(r, {"sent"}) /\ origem[r].auvoId # 0
           => ~auvo[origem[r].auvoId].ativo)'
      BY <2>1, <3>6
    <3>9. (origem[r].estado = "viva" /\ origem[r].auvoId # 0 => auvo[origem[r].auvoId].ativo)'
      BY <2>1, <3>6
    <3>. QED
      BY <2>1, <3>7, <3>8, <3>9 DEF Espelho
  <2>6. Leu(d)'
    BY <1>2, <1>3, <1>6, <2>1 DEF Leu, DeleteEm
  <2>7. Pediu(d)'
    <3>1. pc'[d] = "gravar"
      BY <1>0, <1>6 DEF Passar, TypeOK
    <3>2. Espelhada(r) => auvo[id].ver = lida[d].ver
      BY <1>2, <1>3, <1>6 DEF Pediu
    <3>. QED
      BY <1>2, <1>6, <2>1, <2>2, <3>1, <3>2 DEF Pediu, Espelhada
  <2>. QED
    BY <1>6, <1>9, <2>4, <2>5, <2>6, <2>7 DEF Convergindo, Espelhada
<1>. QED
  <2>1. origem = [origem EXCEPT ![r] = origem[r]]
    BY <1>0, <1>3 DEF TypeOK
  <2>2. CASE r = q
    BY <1>4, <1>6, <1>7, <2>1, <2>2 DEF AplicarSync
  <2>3. CASE r # q
    <3>1. \/ Passar(d, "gravar", FALSE) /\ origem' = origem
          \/ /\ Passar(d, "gravar", TRUE)
             /\ \E depois : origem' = [origem EXCEPT ![r] = depois]
      BY DEF AplicarSync
    <3>. QED
      BY <1>4, <1>5, <2>3, <3>1
  <2>. QED
    BY <2>2, <2>3

\* "sent" is stored of what the Auvo has, for the row as it was read.
LEMMA GravarConvergindo ==
    ASSUME NEW q \in Linhas, IInvLinha(q), Sozinha(q), NEW d \in Drenos, GravarResultado(d)
    PROVE  Convergindo(q)'
<1>. PICK i : i = atual[d]
  OBVIOUS
<1>0. /\ IInv /\ TypeOK /\ Conteudo /\ Convergindo(q) /\ IInvConteudo
      /\ TypeOK' /\ Alheios(d)
  BY GravarResultadoInv, PassoAlheio DEF IInvLinha, IInvConteudo, IInv, Dreno
<1>1. pc[d] = "gravar" /\ UNCHANGED <<origem, auvo>> /\ i \in DOMAIN outbox
  BY <1>0, AtualEhEntrada DEF GravarResultado
<1>2. pc[d] = "gravar" /\ UNCHANGED <<origem, auvo>> /\ i \in DOMAIN outbox /\ ~Adiante(d)'
  <2>1. pc'[d] \in {"ocioso", "laco"}
    BY <1>0 DEF GravarResultado, TypeOK
  <2>. QED
    BY <1>1, <2>1 DEF Adiante
<1>3. Preserva /\ DOMAIN outbox' = DOMAIN outbox
  BY <1>0, <1>2, GravarEfeito, TiposAuvo DEF Preserva
<1>4. ASSUME outbox[i].linha # q PROVE Convergindo(q)'
  <2>1. LinhaIntacta(q)
    BY <1>0, <1>2, <1>3, <1>4, GravarEfeito DEF LinhaIntacta, Preserva
  <2>. QED
    BY <1>0, <1>2, <2>1, IntactaConvergindo
<1>. SUFFICES ASSUME outbox[i].linha = q PROVE Convergindo(q)'
  BY <1>4
<1>. PICK r \in Linhas : r = q
  OBVIOUS
<1>5. Historia(r)'
  BY <1>0, <1>2, <1>3, HistoriaPreservada DEF Convergindo, Historia
<1>6. ASSUME Espelhada(r) PROVE Espelho(r)'
  <2>1. Espelho(r) /\ Historia(r)
    BY <1>0, <1>6 DEF Convergindo
  <2>2. ASSUME NEW j \in DOMAIN outbox, outbox'[j].status = "sent", outbox[j].status # "sent",
               outbox[j].linha = r
        PROVE  j = i /\ ok[d] /\ Leu(d) /\ Pediu(d)
    <3>1. j = i /\ ok[d]
      BY <1>0, <2>2, GravarEfeito
    <3>. QED
      BY <1>0, <1>2, <3>1 DEF Convergindo, Adiante
  <2>3. ASSUME origem[r].estado \in {"viva", "excluida"}, outbox'[origem[r].ver].status = "sent"
        PROVE  origem[r].auvoId # 0 /\ auvo[origem[r].auvoId].ver = origem[r].ver
    <3>1. /\ origem[r].ver \in DOMAIN outbox
          /\ outbox[origem[r].ver].linha = r /\ outbox[origem[r].ver].op # "delete"
      BY <2>1, <2>3 DEF Historia
    <3>2. CASE outbox[origem[r].ver].status = "sent"
      BY <2>1, <2>3, <3>2 DEF Espelho
    <3>3. CASE outbox[origem[r].ver].status # "sent"
      BY <1>2, <1>6, <2>2, <2>3, <3>1, <3>3 DEF Leu, Pediu
    <3>. QED
      BY <3>2, <3>3
  <2>4. ASSUME origem[r].estado = "excluida", DeleteEm(r, {"sent"})', origem[r].auvoId # 0
        PROVE  ~auvo[origem[r].auvoId].ativo
    <3>1. PICK j \in DOMAIN outbox :
             outbox[j].linha = r /\ outbox[j].op = "delete" /\ outbox'[j].status = "sent"
      BY <1>3, <2>4 DEF DeleteEm, Preserva
    <3>2. CASE outbox[j].status = "sent"
      BY <2>1, <2>4, <3>1, <3>2 DEF Espelho, DeleteEm
    <3>3. CASE outbox[j].status # "sent"
      BY <1>2, <1>6, <2>2, <2>4, <3>1, <3>3 DEF Pediu
    <3>. QED
      BY <3>2, <3>3
  <2>. QED
    BY <1>2, <2>1, <2>3, <2>4 DEF Espelho
<1>7. ASSUME NEW e \in Drenos, Adiante(e)', outbox'[atual'[e]].linha = q PROVE FALSE
  <2>1. e # d /\ pc'[e] = pc[e] /\ atual'[e] = atual[e]
    BY <1>0, <1>2, <1>7 DEF Alheios
  <2>2. pc[e] \in {"chamar", "aplicar", "gravar"} /\ ok'[e] = ok[e]
    BY <1>0, <1>7, <2>1 DEF Adiante, Alheios
  <2>3. outbox[atual[e]].linha = q
    BY <1>0, <1>3, <1>7, <2>1, <2>2, AtualEhEntrada DEF Preserva
  <2>. QED
    BY <1>0, <1>2, <2>1, <2>2, <2>3, SoEle
<1>. QED
  BY <1>5, <1>6, <1>7 DEF Convergindo, Espelhada

LEMMA QuedaConvergindo ==
    ASSUME NEW q \in Linhas, IInvLinha(q), Sozinha(q), NEW d \in Drenos, Queda(d)
    PROVE  Convergindo(q)'
<1>0. IInvConteudo /\ IInv /\ TypeOK /\ Convergindo(q) /\ TypeOK' /\ Alheios(d)
  BY QuedaInv, PassoAlheio DEF IInvLinha, IInvConteudo, IInv
<1>1. ~Adiante(d)' /\ UNCHANGED <<origem, outbox, auvo>>
  BY <1>0 DEF Queda, TypeOK, Adiante
<1>. QED
  BY <1>0, <1>1, FalharConvergindo

-----------------------------------------------------------------------------

LEMMA PassoLinha ==
    ASSUME NEW q \in Linhas, IInvLinha(q), Sozinha(q), [Next]_vars
    PROVE  IInvLinha(q)'
<1>0. IInvConteudo' /\ DeleteConhecido'
  BY PassoConteudo, DeleteConhecidoSempre DEF IInvLinha, IInvConteudo
<1>1. CASE Usuario
  BY <1>0, <1>1, UsuarioConvergindo DEF IInvLinha
<1>2. ASSUME NEW d \in Drenos, Dreno(d) \/ Queda(d) PROVE Convergindo(q)'
  BY <1>2, ReivindicarConvergindo, ProcessarLinhaConvergindo, ChamarAuvoConvergindo,
     AuvoRecusaConvergindo, AplicarSyncConvergindo, GravarConvergindo, QuedaConvergindo DEF Dreno
<1>3. CASE UNCHANGED vars
  <2>1. UNCHANGED <<origem, outbox, auvo, pc, lote, atual, lida, idAuvo, ok>>
    BY <1>3 DEF vars, drenoVars
  <2>2. Historia(q)' /\ (Espelhada(q) => Espelho(q)')
    BY <2>1 DEF IInvLinha, Convergindo, Historia, Espelho, DeleteEm
  <2>3. ASSUME NEW d \in Drenos, Adiante(d)', outbox'[atual'[d]].linha = q
        PROVE  Leu(d)' /\ Pediu(d)'
    <3>1. Leu(d) /\ Pediu(d)
      BY <2>1, <2>3 DEF IInvLinha, Convergindo, Adiante
    <3>2. Leu(d)'
      BY <2>1, <3>1 DEF Leu, DeleteEm
    <3>3. Pediu(d)'
      BY <2>1, <3>1 DEF Pediu, Espelhada
    <3>. QED
      BY <3>2, <3>3
  <2>. QED
    BY <1>0, <2>2, <2>3 DEF IInvLinha, Convergindo, Espelhada
<1>. QED
  BY <1>0, <1>1, <1>2, <1>3 DEF Next, IInvLinha

LEMMA LinhaConverge == ASSUME NEW r \in Linhas, IInvLinha(r) PROVE ConvergeLinha(r)
<1>. SUFFICES ASSUME origem[r].estado \in {"viva", "excluida"}, Espelhada(r),
                     \A i \in Da(r) : outbox[i].status = "sent"
              PROVE  /\ origem[r].auvoId \in DOMAIN auvo
                     /\ auvo[origem[r].auvoId].ver = origem[r].ver
                     /\ auvo[origem[r].auvoId].ativo = (origem[r].estado = "viva")
  BY DEF ConvergeLinha, Espelhada
<1>1. Historia(r) /\ Espelho(r) /\ VinculoCorreto /\ TypeOK
  BY DEF IInvLinha, IInvConteudo, IInv, Conteudo, Convergindo
<1>2. outbox[origem[r].ver].status = "sent"
  BY <1>1 DEF Historia, Da
<1>3. /\ origem[r].auvoId # 0 /\ origem[r].auvoId \in DOMAIN auvo
      /\ auvo[origem[r].auvoId].ver = origem[r].ver
  BY <1>1, <1>2 DEF Espelho, VinculoCorreto
<1>4. auvo[origem[r].auvoId].ativo \in BOOLEAN
  <2>1. auvo \in Seq(Registro)
    BY <1>1 DEF TypeOK
  <2>2. auvo[origem[r].auvoId] \in Registro
    BY <1>3, <2>1
  <2>. QED
    BY <2>2 DEF Registro
<1>5. origem[r].estado = "viva" => auvo[origem[r].auvoId].ativo
  BY <1>1, <1>3 DEF Espelho
<1>6. origem[r].estado = "excluida" => ~auvo[origem[r].auvoId].ativo
  <2>1. origem[r].estado = "excluida" => DeleteEm(r, {"sent"})
    BY <1>1 DEF Historia, DeleteEm, Da
  <2>. QED
    BY <1>1, <1>3, <2>1 DEF Espelho
<1>. QED
  BY <1>3, <1>4, <1>5, <1>6

\* However many drains run: a row that no two of them ever process at the same
\* time is, once all its writes were sent, in the Auvo as it is here, active
\* exactly if it is not excluded (processOutboxRow, index.ts:118-240).
THEOREM LinhaSozinhaConverge == Spec => ConvergeSozinha
<1>1. ASSUME NEW r \in Linhas
      PROVE  Spec => ([]Sozinha(r) => []ConvergeLinha(r))
  <2>1. Init => IInvLinha(r)
    <3>. SUFFICES ASSUME Init PROVE IInvLinha(r)
      OBVIOUS
    <3>1. DOMAIN outbox = {} /\ origem[r].estado = "ausente" /\ origem[r].auvoId = 0
      BY DEF Init, SemLinha
    <3>2. Historia(r) /\ Espelho(r)
      BY <3>1 DEF Historia, Espelho, DeleteEm
    <3>3. DeleteConhecido /\ \A d \in Drenos : ~Adiante(d)
      BY DEF Init, Adiante, DeleteConhecido
    <3>. QED
      BY <3>2, <3>3, TypeInit, ConteudoInit DEF Convergindo, IInvLinha, IInvConteudo
  <2>2. IInvLinha(r) /\ Sozinha(r) /\ [Next]_vars => IInvLinha(r)'
    BY PassoLinha
  <2>3. IInvLinha(r) => ConvergeLinha(r)
    BY LinhaConverge
  <2>. QED
    BY <2>1, <2>2, <2>3, PTL DEF Spec
<1>. QED
  BY <1>1 DEF ConvergeSozinha

-----------------------------------------------------------------------------
(* No silent duplicates, whatever the number of drains.                    *)

\* The entry failed, was abandoned, or its record is not stored yet.
Pendurada(i) ==
    \/ outbox[i].status = "error"
    \/ /\ outbox[i].status = "processing"
       /\ \A d \in Drenos : i \in EmPosse(d) =>
            /\ i = atual[d]
            /\ \/ pc[d] = "gravar" /\ ~ok[d]
               \/ pc[d] = "aplicar" /\ outbox[i].op # "delete"

Explicada(r) ==
    \/ origem[r].auvoId # 0
    \/ origem[r].estado = "apagada"
    \/ \E i \in Da(r) : Pendurada(i)

\* Only rows that exist have entries, and every record has a row that names
\* one, is gone, or has an entry that did not end well.
Rastro ==
    /\ \A i \in DOMAIN outbox : origem[outbox[i].linha].estado # "ausente"
    /\ \A r \in Linhas : origem[r].estado = "ausente" => origem[r].auvoId = 0
    /\ \A k \in DOMAIN auvo : Explicada(auvo[k].ref)

IInvRastro == IInvConteudo /\ DeleteConhecido /\ Rastro

LEMMA PenduradaFica ==
    ASSUME IInv, NEW d \in Drenos, Alheios(d),
           NEW i \in DOMAIN outbox, Pendurada(i), i \notin EmPosse(d)',
           outbox'[i].status = outbox[i].status, outbox'[i].op = outbox[i].op
    PROVE  Pendurada(i)'
<1>1. ASSUME NEW e \in Drenos, i \in EmPosse(e)'
      PROVE  /\ i \in EmPosse(e) /\ atual'[e] = atual[e]
             /\ pc'[e] = pc[e] /\ ok'[e] = ok[e]
  BY <1>1 DEF Alheios, EmPosse
<1>. QED
  BY <1>1 DEF Pendurada

\* What is left of Rastro once the entries and the rows are known to stay.
LEMMA ExplicadaFica ==
    ASSUME IInvRastro, NEW r \in Linhas, Explicada(r),
           DOMAIN outbox \subseteq DOMAIN outbox',
           \A i \in DOMAIN outbox : outbox'[i].linha = outbox[i].linha,
           origem[r].auvoId # 0 => origem'[r].auvoId # 0,
           origem[r].estado = "apagada" => origem'[r].estado = "apagada",
           \A i \in Da(r) : Pendurada(i) => Pendurada(i)' \/ origem'[r].auvoId # 0
                                            \/ origem'[r].estado = "apagada"
    PROVE  Explicada(r)'
<1>1. \A i \in Da(r) : i \in Da(r)'
  BY DEF Da
<1>. QED
  BY <1>1 DEF Explicada

LEMMA EscreverRastro ==
    ASSUME IInvRastro, NEW r \in Linhas, NEW depois \in Origem, Escrever(r, depois),
           depois.auvoId = origem[r].auvoId, depois.estado # "ausente",
           origem[r].estado # "apagada"
    PROVE  Rastro'
<1>. PICK nova : nova = [linha  |-> r, op |-> OpDaEscrita(origem[r], depois), status |-> "pending"]
  OBVIOUS
<1>0. /\ IInv /\ TypeOK /\ Rastro
      /\ outbox \in Seq(Entrada) /\ Len(outbox) \in Nat /\ DOMAIN outbox = 1..Len(outbox)
  BY DEF IInvRastro, IInvConteudo, IInv, TypeOK
<1>9. nova \in Entrada /\ nova.linha = r
  BY <1>0, TipoDaEntrada DEF Entrada, Situacao
<1>1. /\ outbox' = Append(outbox, nova)
      /\ origem' = [origem EXCEPT ![r] = depois]
      /\ UNCHANGED <<auvo, pc, lote, atual, lida, idAuvo, ok>>
  BY DEF Escrever, Enfileirar, drenoVars
<1>2. /\ DOMAIN outbox' = DOMAIN outbox \cup {Len(outbox) + 1}
      /\ \A i \in DOMAIN outbox : outbox'[i] = outbox[i]
      /\ outbox'[Len(outbox) + 1].linha = r
  BY <1>0, <1>1, <1>9
<1>3. origem'[r] = depois /\ \A s \in Linhas \ {r} : origem'[s] = origem[s]
  BY <1>0, <1>1 DEF TypeOK
<1>4. \A i \in DOMAIN outbox' : origem'[outbox'[i].linha].estado # "ausente"
  BY <1>0, <1>2, <1>3, TiposAuvo DEF Rastro
<1>5. \A s \in Linhas : origem'[s].estado = "ausente" => origem'[s].auvoId = 0
  BY <1>0, <1>3 DEF Rastro
<1>6. ASSUME NEW k \in DOMAIN auvo PROVE Explicada(auvo[k].ref)'
  <2>. PICK s \in Linhas : s = auvo[k].ref
    BY <1>0, TiposAuvo
  <2>1. \A i \in Da(s) : Pendurada(i) => Pendurada(i)'
    BY <1>1, <1>2 DEF Pendurada, EmPosse, Da
  <2>2. Explicada(s)
    BY <1>0 DEF Rastro
  <2>. QED
    <3>1. Explicada(s)'
      BY <1>2, <1>3, <2>1, <2>2, ExplicadaFica
    <3>. QED
      BY <1>1, <3>1
<1>. QED
  BY <1>1, <1>4, <1>5, <1>6 DEF Rastro

LEMMA UsuarioRastro == ASSUME IInvRastro, Usuario PROVE Rastro'
<1>. PICK r \in Linhas : Inserir(r) \/ Editar(r) \/ Excluir(r) \/ Apagar(r)
  BY DEF Usuario
<1>0. /\ origem[r] \in Origem /\ Len(outbox) \in Nat
      /\ origem[r].estado = "ausente" => origem[r].auvoId = 0
  BY DEF IInvRastro, IInvConteudo, IInv, TypeOK, Rastro
<1>1. CASE Inserir(r)
  BY <1>0, <1>1, EscreverRastro DEF Inserir, Origem
<1>2. CASE Editar(r)
  BY <1>0, <1>2, EscreverRastro DEF Editar, Origem
<1>3. CASE Excluir(r)
  BY <1>0, <1>3, EscreverRastro DEF Excluir, Origem
<1>4. CASE Apagar(r)
  BY <1>0, <1>4, EscreverRastro DEF Apagar, Origem
<1>. QED
  BY <1>1, <1>2, <1>3, <1>4

\* A step of a drain other than the call and the storing of an id: entries it
\* held that were accounted for stay so.
LEMMA PassoRastro ==
    ASSUME IInvRastro, NEW d \in Drenos, Alheios(d), UNCHANGED <<origem, auvo>>,
           DOMAIN outbox' = DOMAIN outbox,
           \A i \in DOMAIN outbox : /\ outbox'[i].linha = outbox[i].linha
                                    /\ outbox'[i].op = outbox[i].op,
           \A i \in DOMAIN outbox : Pendurada(i) => Pendurada(i)'
    PROVE  Rastro'
<1>1. ASSUME NEW k \in DOMAIN auvo PROVE Explicada(auvo[k].ref)'
  <2>. PICK s \in Linhas : s = auvo[k].ref
    BY TiposAuvo DEF IInvRastro, IInvConteudo, IInv
  <2>1. Explicada(s)
    BY DEF IInvRastro, Rastro
  <2>2. Explicada(s)'
    BY <2>1, ExplicadaFica DEF Da
  <2>. QED
    BY <2>2
<1>. QED
  BY <1>1 DEF IInvRastro, Rastro

LEMMA DrenoRastro ==
    ASSUME IInvRastro, NEW d \in Drenos, Dreno(d) \/ Queda(d)
    PROVE  Rastro'
<1>. PICK j : j = atual[d]
  OBVIOUS
<1>0. IInv /\ TypeOK /\ Posse /\ Rastro /\ Conteudo /\ Alheios(d)
  BY PassoAlheio DEF IInvRastro, IInvConteudo, IInv
<1>1. CASE Reivindicar(d)
  <2>1. \A i \in DOMAIN outbox : Pendurada(i) =>
           i \notin LotePendente /\ outbox'[i].status = outbox[i].status
    BY <1>0, <1>1, ReivindicarEfeito DEF Pendurada
  <2>2. EmPosse(d)' \subseteq LotePendente
    BY <1>0, <1>1 DEF Reivindicar, EmPosse, Posse, TypeOK
  <2>3. \A i \in DOMAIN outbox : Pendurada(i) => Pendurada(i)'
    BY <1>0, <1>1, <2>1, <2>2, PenduradaFica, ReivindicarEfeito
  <2>. QED
    BY <1>0, <1>1, <2>3, PassoRastro, ReivindicarEfeito DEF Reivindicar
<1>2. CASE ProcessarLinha(d)
  <2>1. EmPosse(d)' \subseteq lote[d] /\ UNCHANGED <<origem, outbox, auvo>> /\ atual[d] \notin lote[d]
    BY <1>0, <1>2 DEF ProcessarLinha, EmPosse, Posse, TypeOK
  <2>2. \A i \in DOMAIN outbox : Pendurada(i) => i \notin lote[d]
    BY <1>0, <2>1 DEF Pendurada, EmPosse, Posse
  <2>3. \A i \in DOMAIN outbox : Pendurada(i) => Pendurada(i)'
    BY <1>0, <2>1, <2>2, PenduradaFica
  <2>. QED
    BY <1>0, <2>1, <2>3, PassoRastro
<1>3. ASSUME pc[d] = "chamar", NEW i \in DOMAIN outbox, Pendurada(i),
             lote'[d] = lote[d], atual'[d] = atual[d], outbox' = outbox
      PROVE  Pendurada(i)'
  <2>1. i \notin EmPosse(d)
    BY <1>0, <1>3 DEF Pendurada, EmPosse, Posse
  <2>2. i \notin EmPosse(d)'
    BY <1>3, <2>1 DEF EmPosse
  <2>. QED
    BY <1>0, <1>3, <2>2, PenduradaFica
<1>4. CASE ChamarAuvo(d)
  <2>1. /\ pc[d] = "chamar" /\ Requisicao(d)
        /\ UNCHANGED <<origem, outbox, lote, atual, lida>>
        /\ pc'[d] \in {"aplicar", "gravar"} /\ ~ok'[d]
    BY <1>0, <1>4 DEF ChamarAuvo, Passar, TypeOK
  <2>2. PICK k : Escreveu(d, k)
    BY <2>1, RequisicaoEscreve DEF DeleteConhecido, IInvRastro
  <2>3. \A i \in DOMAIN outbox : Pendurada(i) => Pendurada(i)'
    BY <1>3, <2>1
  <2>4. ASSUME NEW s \in Linhas, Explicada(s) PROVE Explicada(s)'
    BY <2>1, <2>3, <2>4, ExplicadaFica DEF Da
  <2>5. ASSUME k \notin DOMAIN auvo PROVE Explicada(auvo[k].ref)'
    <3>. PICK r \in Linhas : r = outbox[j].linha
      BY <1>0, <2>1, AtualEhEntrada
    <3>1. auvo'[k].ref = r /\ outbox[j].op # "delete"
      BY <2>2, <2>5 DEF Escreveu, Cria
    <3>2. j \in DOMAIN outbox /\ j # 0 /\ outbox[j].status = "processing"
      BY <1>0, <2>1 DEF Posse
    <3>3. Pendurada(j)'
      <4>1. ASSUME NEW e \in Drenos, j \in EmPosse(e)' PROVE e = d
        BY <1>0, <2>1, <3>2, <4>1 DEF EmPosse, Alheios, Posse
      <4>. QED
        BY <2>1, <3>1, <3>2, <4>1 DEF Pendurada
    <3>4. j \in Da(r)'
      BY <2>1, <3>2 DEF Da
    <3>5. Explicada(r)'
      BY <3>3, <3>4 DEF Explicada
    <3>. QED
      BY <3>1, <3>5
  <2>6. ASSUME NEW m \in DOMAIN auvo' PROVE Explicada(auvo[m].ref)'
    <3>1. CASE m \in DOMAIN auvo
      <4>. PICK s \in Linhas : s = auvo[m].ref
        BY <1>0, <3>1, TiposAuvo
      <4>1. auvo'[m].ref = s
        BY <2>2, <3>1 DEF Escreveu
      <4>2. Explicada(s)
        BY <1>0, <3>1 DEF Rastro
      <4>3. Explicada(s)'
        BY <2>4, <4>2
      <4>. QED
        BY <4>1, <4>3
    <3>2. CASE m \notin DOMAIN auvo
      BY <2>2, <2>5, <2>6, <3>2 DEF Escreveu
    <3>. QED
      BY <3>1, <3>2
  <2>. QED
    BY <1>0, <2>1, <2>6 DEF Rastro
<1>5. CASE AuvoRecusa(d)
  <2>1. pc[d] = "chamar" /\ UNCHANGED <<origem, outbox, auvo, lote, atual>>
    BY <1>5 DEF AuvoRecusa
  <2>. QED
    BY <1>0, <1>3, <2>1, PassoRastro
<1>6. CASE AplicarSync(d)
  <2>. PICK r : r = outbox[j].linha
    OBVIOUS
  <2>1. /\ pc[d] = "aplicar" /\ UNCHANGED <<outbox, auvo, lote, atual>>
        /\ pc'[d] = "gravar"
        /\ j \in DOMAIN outbox /\ outbox[j] \in Entrada /\ r \in Linhas /\ origem[r] \in Origem
    BY <1>0, <1>6, AtualEhEntrada DEF AplicarSync, Enfileirar, Passar, TypeOK
  <2>2. outbox[j].op # "delete" => idAuvo[d] # 0
    BY <1>0, <2>1, TiposAuvo DEF Conteudo, LocalDoDreno, Recebeu
  <2>3. \/ origem' = origem /\ ~ok'[d]
        \/ /\ origem' = origem /\ (outbox[j].op = "delete" \/ origem[r].estado = "apagada")
        \/ /\ outbox[j].op # "delete"
           /\ origem' = [origem EXCEPT ![r] = [origem[r] EXCEPT !.auvoId = idAuvo[d]]]
    <3>1. origem = [origem EXCEPT ![r] = origem[r]]
      BY <1>0, <2>1 DEF TypeOK
    <3>. QED
      BY <1>0, <1>6, <3>1 DEF AplicarSync, Passar, TypeOK
  <2>4. /\ \A s \in Linhas : /\ origem[s].auvoId # 0 => origem'[s].auvoId # 0
                             /\ origem'[s].estado = origem[s].estado
                             /\ s # r => origem'[s] = origem[s]
        /\ \/ origem' = origem /\ ~ok'[d]
           \/ outbox[j].op = "delete"
           \/ origem[r].estado = "apagada"
           \/ origem'[r].auvoId # 0
    <3>1. CASE /\ origem' = origem
               /\ ~ok'[d] \/ outbox[j].op = "delete" \/ origem[r].estado = "apagada"
      BY <3>1
    <3>2. CASE /\ outbox[j].op # "delete"
               /\ origem' = [origem EXCEPT ![r] = [origem[r] EXCEPT !.auvoId = idAuvo[d]]]
      <4>. PICK id \in Nat, o \in Origem : id = idAuvo[d] /\ o = [origem[r] EXCEPT !.auvoId = idAuvo[d]]
        BY <1>0, <2>1 DEF TypeOK, Origem
      <4>1. o.estado = origem[r].estado /\ o.auvoId = id /\ id # 0
        BY <2>1, <2>2, <3>2 DEF Origem
      <4>2. origem'[r] = o /\ \A s \in Linhas \ {r} : origem'[s] = origem[s]
        BY <1>0, <2>1, <3>2 DEF TypeOK
      <4>. QED
        BY <3>2, <4>1, <4>2
    <3>. QED
      BY <2>3, <3>1, <3>2
  <2>5. ASSUME NEW i \in DOMAIN outbox, Pendurada(i), i # j PROVE Pendurada(i)'
    <3>1. i \notin EmPosse(d)
      BY <1>0, <2>1, <2>5 DEF Pendurada, EmPosse, Posse
    <3>2. i \notin EmPosse(d)'
      BY <2>1, <3>1 DEF EmPosse
    <3>. QED
      BY <1>0, <2>1, <2>5, <3>2, PenduradaFica
  <2>6. Pendurada(j) => Pendurada(j)' \/ origem'[r].auvoId # 0 \/ origem'[r].estado = "apagada"
    <3>1. j \in EmPosse(d) /\ (Pendurada(j) => outbox[j].status \in {"error", "processing"})
      BY <1>0, <2>1 DEF EmPosse, Posse, Pendurada
    <3>2. outbox[j].status = "processing"
      BY <1>0, <2>1 DEF Posse
    <3>3. CASE ~ok'[d] /\ origem' = origem
      <4>1. ASSUME NEW e \in Drenos, j \in EmPosse(e)' PROVE e = d
        BY <1>0, <2>1, <4>1 DEF EmPosse, Alheios, Posse
      <4>2. Pendurada(j)'
        BY <2>1, <3>2, <3>3, <4>1 DEF Pendurada
      <4>. QED
        BY <4>2
    <3>4. CASE origem[r].estado = "apagada"
      BY <2>1, <2>4, <3>4
    <3>5. CASE outbox[j].op = "delete"
      BY <1>0, <2>1, <3>1, <3>2, <3>5 DEF Pendurada
    <3>. QED
      BY <2>4, <3>3, <3>4, <3>5
  <2>7. ASSUME NEW s \in Linhas, Explicada(s) PROVE Explicada(s)'
    <3>1. \A i \in Da(s) : Pendurada(i) => Pendurada(i)' \/ origem'[s].auvoId # 0
                                           \/ origem'[s].estado = "apagada"
      BY <2>5, <2>6 DEF Da
    <3>. QED
      BY <2>1, <2>4, <2>7, <3>1, ExplicadaFica
  <2>8. ASSUME NEW k \in DOMAIN auvo PROVE Explicada(auvo[k].ref)'
    <3>. PICK s \in Linhas : s = auvo[k].ref
      BY <1>0, TiposAuvo
    <3>1. Explicada(s)'
      BY <1>0, <2>7 DEF Rastro
    <3>. QED
      BY <2>1, <3>1
  <2>9. \A s \in Linhas : origem'[s].estado = "ausente" => origem'[s].auvoId = 0
    <3>1. origem[r].estado # "ausente"
      BY <1>0, <2>1 DEF Rastro
    <3>. QED
      BY <1>0, <2>1, <2>4, <3>1 DEF Rastro
  <2>10. \A i \in DOMAIN outbox' : origem'[outbox'[i].linha].estado # "ausente"
    BY <1>0, <2>1, <2>4, TiposAuvo DEF Rastro
  <2>. QED
    BY <2>1, <2>8, <2>9, <2>10 DEF Rastro
<1>7. CASE GravarResultado(d)
  <2>1. /\ pc[d] = "gravar" /\ UNCHANGED <<origem, auvo, lote>>
        /\ EmPosse(d)' = lote[d] /\ j \in DOMAIN outbox /\ j # 0 /\ j \notin lote[d]
        /\ outbox[j].status = "processing"
    BY <1>0, <1>7, LargarTipo DEF GravarResultado, EmPosse, Posse
  <2>2. ASSUME NEW i \in DOMAIN outbox, Pendurada(i) PROVE Pendurada(i)'
    <3>1. CASE i # j
      <4>1. i \notin EmPosse(d)'
        BY <1>0, <2>1, <2>2, <3>1 DEF Pendurada, EmPosse, Posse
      <4>2. outbox'[i] = outbox[i]
        BY <1>0, <1>7, <3>1, GravarEfeito
      <4>. QED
        BY <1>0, <2>2, <4>1, <4>2, PenduradaFica
    <3>2. CASE i = j
      <4>1. ~ok[d]
        BY <2>1, <2>2, <3>2 DEF Pendurada, EmPosse
      <4>2. outbox'[j].status \in {"processing", "error"} /\ outbox'[j].op = outbox[j].op
        BY <1>0, <1>7, <2>1, <4>1, GravarEfeito
      <4>3. ASSUME NEW e \in Drenos PROVE j \notin EmPosse(e)'
        BY <1>0, <2>1, <4>3 DEF EmPosse, Alheios, Posse
      <4>. QED
        BY <3>2, <4>2, <4>3 DEF Pendurada
    <3>. QED
      BY <3>1, <3>2
  <2>. QED
    BY <1>0, <1>7, <2>1, <2>2, PassoRastro, GravarEfeito
<1>8. CASE Queda(d)
  <2>1. UNCHANGED <<origem, outbox, auvo>> /\ EmPosse(d)' = {}
    BY <1>0, <1>8, LargarTipo DEF Queda, EmPosse, TypeOK
  <2>2. \A i \in DOMAIN outbox : Pendurada(i) => Pendurada(i)'
    BY <1>0, <2>1, PenduradaFica
  <2>. QED
    BY <1>0, <2>1, <2>2, PassoRastro
<1>. QED
  BY <1>1, <1>2, <1>4, <1>5, <1>6, <1>7, <1>8 DEF Dreno

\* However many drains run and whatever fails: a row gets another record only
\* from a drain that read it before its id was stored, after a try that has
\* not ended well, or once it is gone (AC-4, index.ts:150-160).
THEOREM NuncaDuplicaEmSilencio == Spec => SemDuplicataSilenciosa
<1>1. Init => IInvRastro
  BY TypeInit, ConteudoInit DEF IInvRastro, IInvConteudo, Rastro, DeleteConhecido, Init, SemLinha
<1>2. IInvRastro /\ [Next]_vars => IInvRastro'
  <2>. SUFFICES ASSUME IInvRastro, [Next]_vars PROVE IInvRastro'
    OBVIOUS
  <2>1. IInvConteudo' /\ DeleteConhecido'
    BY PassoConteudo, DeleteConhecidoSempre DEF IInvRastro, IInvConteudo
  <2>2. CASE UNCHANGED vars
    <3>1. UNCHANGED <<origem, outbox, auvo, pc, lote, atual, lida, idAuvo, ok>>
      BY <2>2 DEF vars, drenoVars
    <3>. QED
      BY <2>1, <3>1 DEF IInvRastro, Rastro, Explicada, Pendurada, EmPosse, Da
  <2>. QED
    BY <2>1, <2>2, UsuarioRastro, DrenoRastro DEF Next, IInvRastro
<1>3. ASSUME IInvRastro, [Next]_vars, NEW k \in DOMAIN auvo' \ DOMAIN auvo,
             NEW m \in DOMAIN auvo, auvo[m].ref = auvo'[k].ref
      PROVE  \E d \in Drenos :
                /\ pc[d] = "chamar" /\ lida[d].auvoId = 0
                /\ outbox[atual[d]].linha = auvo'[k].ref
                /\ \/ origem[auvo'[k].ref].auvoId # 0
                   \/ origem[auvo'[k].ref].estado = "apagada"
                   \/ \E i \in Da(auvo'[k].ref) : Inacabada(i, d)
  <2>. PICK r \in Linhas : r = auvo[m].ref
    BY <1>3, TiposAuvo DEF IInvRastro, IInvConteudo, IInv
  <2>1. PICK d \in Drenos : ChamarAuvo(d)
    BY <1>3 DEF Next, Usuario, Inserir, Editar, Excluir, Apagar, Escrever, Dreno, Reivindicar,
       ProcessarLinha, AuvoRecusa, AplicarSync, GravarResultado, Queda, vars
  <2>2. PICK n : Escreveu(d, n)
    BY <1>3, <2>1, RequisicaoEscreve DEF ChamarAuvo, IInvRastro, DeleteConhecido
  <2>3. n = k /\ outbox[atual[d]].linha = r /\ lida[d].auvoId = 0 /\ pc[d] = "chamar"
    BY <1>3, <2>1, <2>2 DEF Escreveu, Cria, ChamarAuvo
  <2>4. Explicada(r)
    BY <1>3 DEF IInvRastro, Rastro
  <2>5. ASSUME NEW i \in Da(r), Pendurada(i) PROVE Inacabada(i, d)
    BY <2>3, <2>5 DEF Pendurada, Inacabada
  <2>. QED
    BY <1>3, <2>3, <2>4, <2>5 DEF Explicada
<1>4. IInvRastro /\ [Next]_vars =>
        [\A k \in DOMAIN auvo' \ DOMAIN auvo :
           (\E j \in DOMAIN auvo : auvo[j].ref = auvo'[k].ref) =>
             \E d \in Drenos :
                /\ pc[d] = "chamar" /\ lida[d].auvoId = 0
                /\ outbox[atual[d]].linha = auvo'[k].ref
                /\ \/ origem[auvo'[k].ref].auvoId # 0
                   \/ origem[auvo'[k].ref].estado = "apagada"
                   \/ \E i \in Da(auvo'[k].ref) : Inacabada(i, d)]_vars
  BY <1>3
<1>. QED
  BY <1>1, <1>2, <1>4, PTL DEF Spec, SemDuplicataSilenciosa
=============================================================================
