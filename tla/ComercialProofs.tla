-------------------------- MODULE ComercialProofs --------------------------
(***************************************************************************)
(* Proofs about Comercial, for any proposals, editors, runs, prices and    *)
(* bounds: the history of a proposal is complete, the client's decision    *)
(* stands, a contract has one billing plan and a month one receivable, and *)
(* every row keeps its type within the bounds.                             *)
(***************************************************************************)
EXTENDS Comercial, FiniteSetTheorems, TLAPS

Linha == [status : Status, tipo : {"volante", "simples"},
          preco : Nat, piso : Nat, versao : Nat, itens : SUBSET Nat]
Versao == [versao : Nat, preco : Nat, por : Sessoes \cup {Nenhum}]
Salvamento == [proposta : Propostas, preco : Nat, fase : {"lida", "apagada"},
               apaga : SUBSET Nat]
Contrato == [tipo : {"volante", "avulso"}, valor : Nat,
             status : {"rascunho", "ativo", "encerrado"},
             plano : Nat \cup {Nenhum}]
Plano == [id : Nat, contrato : Propostas, status : StatusPlano]

(* The types, without the bounds that the numbers of TypeOK have, and the  *)
(* proposal a save is about: rows are never deleted.                       *)
TiposP ==
    /\ proposta \in [Propostas -> Linha \cup {Nenhum}]
    /\ versoes \in [Propostas -> SUBSET Versao]
    /\ \A p \in Propostas : IsFiniteSet(versoes[p])
    /\ forcos \in [Propostas -> SUBSET Nat]
    /\ decisao \in [Propostas -> Decisoes \cup {Nenhum}]
    /\ sessao \in [Sessoes -> {Nenhum} \cup Salvamento]
    /\ \A s \in Sessoes : sessao[s] # Nenhum => sessao[s].proposta \in EmUso

TiposC ==
    /\ contrato \in [Propostas -> Contrato \cup {Nenhum}]
    /\ planos \subseteq Plano
    /\ IsFiniteSet(planos)

Tipos == TiposP /\ TiposC

-----------------------------------------------------------------------------
(* Facts about rows and finite sets.                                       *)

LEMMA Numeros == Piso \in Nat /\ Precos \subseteq Nat
BY LimitesAssumption DEF Precos

LEMMA LinhaNaoNula == Nenhum \notin Linha /\ Nenhum \notin Contrato
BY NenhumAssumption DEF Linha, Contrato

LEMMA NumeroNaoNulo == \A n \in Nat : n # Nenhum
BY NenhumAssumption

LEMMA Atribuida ==
    ASSUME TiposP, NEW p \in EmUso
    PROVE  p \in Propostas /\ proposta[p] \in Linha
BY DEF TiposP, EmUso

LEMMA FinitoMais ==
    ASSUME NEW S, IsFiniteSet(S), NEW x
    PROVE  /\ IsFiniteSet(S \cup {x})
           /\ x \notin S => Cardinality(S \cup {x}) = Cardinality(S) + 1
BY FS_AddElement

LEMMA FinitoUm ==
    ASSUME NEW x
    PROVE  IsFiniteSet({x}) /\ Cardinality({x}) = 1
BY FS_Singleton

-----------------------------------------------------------------------------
(* What each editing step writes, said once for the types and the history. *)

\* One row of comercial.propostas is written, the rest of Editar's state
\* follows: used by every action that updates or inserts a proposal.
LEMMA GravaLinha ==
    ASSUME TiposP, NEW p \in Propostas, NEW linha \in Linha,
           proposta' = [proposta EXCEPT ![p] = linha]
    PROVE  /\ proposta' \in [Propostas -> Linha \cup {Nenhum}]
           /\ EmUso' = EmUso \cup {p}
           /\ proposta'[p] = linha
           /\ \A q \in Propostas \ {p} : proposta'[q] = proposta[q]
BY LinhaNaoNula DEF TiposP, EmUso

LEMMA Copia ==
    ASSUME TiposP, NEW p \in Propostas, NEW q \in Propostas,
           DuplicarProposta(p, q)
    PROVE  \E linha \in Linha, l \in Versao :
              /\ l.versao = 1 /\ linha.versao = 1 /\ linha.preco = l.preco
              /\ linha.status = "rascunho"
              /\ proposta' = [proposta EXCEPT ![q] = linha]
              /\ versoes' = [versoes EXCEPT ![q] = {l}]
<1>. DEFINE itens == IF proposta[p].itens = {} THEN {} ELSE {1}
            linha == [proposta[p] EXCEPT !.status = "rascunho", !.versao = 1,
                                         !.itens = itens]
            l == [versao |-> 1, preco |-> proposta[p].preco, por |-> Nenhum]
<1>1. proposta[p] \in Linha
    BY Atribuida DEF DuplicarProposta
<1>2. itens \in SUBSET Nat
    OBVIOUS
<1>3. linha \in Linha /\ linha.versao = 1 /\ linha.status = "rascunho"
      /\ linha.preco = proposta[p].preco
    <2>. HIDE DEF itens
    <2>. QED
        BY <1>1, <1>2 DEF Linha, Status
<1>4. l \in Versao /\ l.versao = 1 /\ l.preco = proposta[p].preco
    BY <1>1 DEF Linha, Versao
<1>5. /\ proposta' = [proposta EXCEPT ![q] = linha]
      /\ versoes' = [versoes EXCEPT ![q] = {l}]
    BY <1>1 DEF DuplicarProposta, Linha
<1>. QED
    BY <1>3, <1>4, <1>5

LEMMA Salva ==
    ASSUME TiposP, NEW s \in Sessoes, SalvarComposicao(s)
    PROVE  \E p \in EmUso, l \in Versao, linha \in Linha :
              /\ l.versao = proposta[p].versao + 1
              /\ linha.versao = l.versao /\ linha.preco = l.preco
              /\ linha.status = proposta[p].status
              /\ proposta' = [proposta EXCEPT ![p] = linha]
              /\ versoes' = [versoes EXCEPT ![p] = @ \cup {l}]
<1>. DEFINE p == sessao[s].proposta
            v == proposta[p].versao + 1
            l == [versao |-> v, preco |-> sessao[s].preco, por |-> s]
            linha == [proposta[p] EXCEPT
                          !.preco = sessao[s].preco, !.piso = Piso,
                          !.versao = v,
                          !.itens = (@ \ sessao[s].apaga) \cup {v}]
<1>1. sessao[s] \in Salvamento /\ p \in EmUso
    BY DEF SalvarComposicao, TiposP
<1>2. proposta[p] \in Linha
    BY <1>1, Atribuida
<1>3. v \in Nat /\ l \in Versao
    BY <1>1, <1>2 DEF Linha, Salvamento, Versao
<1>4. linha \in Linha
    BY <1>1, <1>2, <1>3, Numeros DEF Linha, Salvamento
<1>5. linha.versao = l.versao /\ linha.preco = l.preco
      /\ linha.status = proposta[p].status /\ l.versao = v
    BY <1>2 DEF Linha
<1>6. /\ proposta' = [proposta EXCEPT ![p] = linha]
      /\ versoes' = [versoes EXCEPT ![p] = @ \cup {l}]
    BY DEF SalvarComposicao, Atualizar
<1>. QED
    BY <1>1, <1>3, <1>4, <1>5, <1>6

LEMMA Forca ==
    ASSUME TiposP, NEW p \in Propostas, NEW preco \in Precos,
           ForcarPreco(p, preco)
    PROVE  \E linha \in Linha :
              /\ linha.versao = proposta[p].versao /\ linha.preco = preco
              /\ linha.status = proposta[p].status
              /\ proposta' = [proposta EXCEPT ![p] = linha]
<1>1. proposta[p] \in Linha
    BY Atribuida DEF ForcarPreco
<1>2. [proposta[p] EXCEPT !.preco = preco] \in Linha
    BY <1>1, Numeros DEF Linha
<1>3. proposta' = [proposta EXCEPT ![p] = [proposta[p] EXCEPT !.preco = preco]]
    BY DEF ForcarPreco
<1>4. [proposta[p] EXCEPT !.preco = preco].versao = proposta[p].versao
      /\ [proposta[p] EXCEPT !.preco = preco].preco = preco
      /\ [proposta[p] EXCEPT !.preco = preco].status = proposta[p].status
    BY <1>1 DEF Linha
<1>. QED
    BY <1>2, <1>3, <1>4

\* A button or the client's decision changes the status of a row, along the
\* trigger's transitions.
LEMMA Muda ==
    ASSUME TiposP, NEW p \in EmUso, NEW st \in Status,
           Atualizar(p, [proposta[p] EXCEPT !.status = st])
    PROVE  \E linha \in Linha :
              /\ linha.versao = proposta[p].versao
              /\ linha.preco = proposta[p].preco
              /\ linha.status = st
              /\ PassaTransicao(proposta[p].status, st)
              /\ proposta' = [proposta EXCEPT ![p] = linha]
<1>. DEFINE linha == [proposta[p] EXCEPT !.status = st]
<1>1. p \in Propostas /\ proposta[p] \in Linha
    BY Atribuida
<1>2. linha \in Linha /\ linha.versao = proposta[p].versao
      /\ linha.preco = proposta[p].preco /\ linha.status = st
    BY <1>1 DEF Linha
<1>. QED
    BY <1>2 DEF Atualizar

LEMMA Cria ==
    ASSUME TiposP, NEW p \in Propostas, NEW t \in {"volante", "simples"},
           CriarProposta(p, t)
    PROVE  \E linha \in Linha, l \in Versao :
              /\ l.versao = 1 /\ linha.versao = 1 /\ linha.preco = l.preco
              /\ linha.status = "rascunho"
              /\ proposta' = [proposta EXCEPT ![p] = linha]
              /\ versoes' = [versoes EXCEPT ![p] = {l}]
<1>. DEFINE linha == [status |-> "rascunho", tipo |-> t, preco |-> 0,
                      piso |-> 0, versao |-> 1, itens |-> {}]
            l == [versao |-> 1, preco |-> 0, por |-> Nenhum]
<1>1. linha \in Linha /\ l \in Versao
    BY DEF Linha, Versao, Status
<1>. QED
    BY <1>1 DEF CriarProposta

-----------------------------------------------------------------------------
(* Every step leaves the rows of the proposals alone or writes one of them *)
(* in one of four ways.                                                    *)

\* A row that did not exist: created or copied.
Insere ==
    \E p \in Propostas, linha \in Linha, l \in Versao :
        /\ proposta[p] = Nenhum
        /\ l.versao = 1 /\ linha.versao = 1 /\ linha.preco = l.preco
        /\ linha.status = "rascunho"
        /\ proposta' = [proposta EXCEPT ![p] = linha]
        /\ versoes' = [versoes EXCEPT ![p] = {l}]
        /\ UNCHANGED <<forcos, decisao, sessao>>

\* A save: one more version, in force.
Versiona ==
    /\ \E p \in EmUso, l \in Versao, linha \in Linha :
        /\ l.versao = proposta[p].versao + 1
        /\ linha.versao = l.versao /\ linha.preco = l.preco
        /\ linha.status = proposta[p].status
        /\ proposta' = [proposta EXCEPT ![p] = linha]
        /\ versoes' = [versoes EXCEPT ![p] = @ \cup {l}]
    /\ \E s \in Sessoes : sessao' = [sessao EXCEPT ![s] = Nenhum]
    /\ UNCHANGED <<forcos, decisao>>

\* An override: the price changes and is recorded.
Recota ==
    \E p \in EmUso, preco \in Nat, linha \in Linha :
        /\ linha.versao = proposta[p].versao /\ linha.preco = preco
        /\ linha.status = proposta[p].status
        /\ proposta' = [proposta EXCEPT ![p] = linha]
        /\ forcos' = [forcos EXCEPT ![p] = @ \cup {preco}]
        /\ UNCHANGED <<versoes, decisao, sessao>>

\* A status the trigger lets through, by the office or by the client.
Transita ==
    /\ \E p \in EmUso, st \in Status, linha \in Linha :
        /\ linha.versao = proposta[p].versao
        /\ linha.preco = proposta[p].preco
        /\ linha.status = st
        /\ PassaTransicao(proposta[p].status, st)
        /\ proposta' = [proposta EXCEPT ![p] = linha]
        /\ \/ UNCHANGED decisao
           \/ st \in Decisoes /\ decisao' = [decisao EXCEPT ![p] = st]
    /\ UNCHANGED <<versoes, forcos, sessao>>

\* A save that only reads so far.
Le ==
    /\ \E s \in Sessoes, x \in Salvamento :
        /\ x.proposta \in EmUso
        /\ sessao' = [sessao EXCEPT ![s] = x]
    /\ UNCHANGED <<proposta, versoes, forcos, decisao>>

EscritaP == Insere \/ Versiona \/ Recota \/ Transita \/ Le \/ UNCHANGED vProposta

LEMMA EscritaDoPasso ==
    ASSUME TiposP, [Next]_vars
    PROVE  EscritaP
<1>1. ASSUME NEW p \in Propostas, NEW t \in {"volante", "simples"}, CriarProposta(p, t)
      PROVE  Insere
    <2>1. proposta[p] = Nenhum /\ UNCHANGED <<forcos, decisao, sessao>>
        BY <1>1 DEF CriarProposta
    <2>. QED
        BY <1>1, <2>1, Cria DEF Insere
<1>2. ASSUME NEW p \in Propostas, NEW q \in Propostas, DuplicarProposta(p, q)
      PROVE  Insere
    <2>1. proposta[q] = Nenhum /\ UNCHANGED <<forcos, decisao, sessao>>
        BY <1>2 DEF DuplicarProposta
    <2>. QED
        BY <1>2, <2>1, Copia DEF Insere
<1>3. ASSUME NEW s \in Sessoes, NEW p \in Propostas, NEW preco \in Precos,
             LerParaSalvar(s, p, preco)
      PROVE  Le
    <2>. DEFINE x == [proposta |-> p, preco |-> preco, fase |-> "lida", apaga |-> {}]
    <2>1. x \in Salvamento /\ x.proposta = p
        BY Numeros DEF Salvamento
    <2>2. p \in EmUso /\ sessao' = [sessao EXCEPT ![s] = x]
        BY <1>3 DEF LerParaSalvar
    <2>3. UNCHANGED <<proposta, versoes, forcos, decisao>>
        BY <1>3 DEF LerParaSalvar
    <2>. QED
        BY <2>1, <2>2, <2>3 DEF Le
<1>4. ASSUME NEW s \in Sessoes, ApagarItens(s)
      PROVE  Le
    <2>. DEFINE itens == proposta[sessao[s].proposta].itens
                x == [sessao[s] EXCEPT !.fase = "apagada", !.apaga = itens]
    <2>1. sessao[s] \in Salvamento /\ sessao[s].proposta \in EmUso
        BY <1>4 DEF ApagarItens, TiposP
    <2>2. itens \in SUBSET Nat
        BY <2>1, Atribuida DEF Linha
    <2>3. x \in Salvamento /\ x.proposta = sessao[s].proposta
        <3>. HIDE DEF itens
        <3>. QED
            BY <2>1, <2>2 DEF Salvamento
    <2>4. sessao' = [sessao EXCEPT ![s] = x]
        BY <1>4 DEF ApagarItens
    <2>5. UNCHANGED <<proposta, versoes, forcos, decisao>>
        BY <1>4 DEF ApagarItens
    <2>. QED
        BY <2>1, <2>3, <2>4, <2>5 DEF Le
<1>5. ASSUME NEW s \in Sessoes, SalvarComposicao(s)
      PROVE  Versiona
    <2>1. UNCHANGED <<forcos, decisao>> /\ sessao' = [sessao EXCEPT ![s] = Nenhum]
        BY <1>5 DEF SalvarComposicao
    <2>. QED
        BY <1>5, <2>1, Salva DEF Versiona
<1>6. ASSUME NEW p \in Propostas, NEW preco \in Precos, ForcarPreco(p, preco)
      PROVE  Recota
    <2>1. /\ p \in EmUso /\ forcos' = [forcos EXCEPT ![p] = @ \cup {preco}]
          /\ UNCHANGED <<versoes, decisao, sessao>>
        BY <1>6 DEF ForcarPreco
    <2>. QED
        <3>1. PICK linha \in Linha :
                  /\ linha.versao = proposta[p].versao /\ linha.preco = preco
                  /\ linha.status = proposta[p].status
                  /\ proposta' = [proposta EXCEPT ![p] = linha]
            BY <1>6, Forca
        <3>2. preco \in Nat
            BY Numeros
        <3>. QED
            BY <2>1, <3>1, <3>2 DEF Recota
<1>7. ASSUME NEW p \in Propostas, NEW st \in Status, MudarStatus(p, st)
      PROVE  Transita
    <2>1. /\ p \in EmUso /\ UNCHANGED <<versoes, forcos, decisao, sessao>>
          /\ Atualizar(p, [proposta[p] EXCEPT !.status = st])
        BY <1>7 DEF MudarStatus
    <2>. QED
        BY <2>1, Muda DEF Transita
<1>8. ASSUME NEW p \in Propostas, NEW d \in Decisoes, DecidirProposta(p, d)
      PROVE  Transita
    <2>1. /\ p \in EmUso /\ d \in Status /\ UNCHANGED <<versoes, forcos, sessao>>
          /\ decisao' = [decisao EXCEPT ![p] = d]
          /\ Atualizar(p, [proposta[p] EXCEPT !.status = d])
        BY <1>8 DEF DecidirProposta, Decisoes, Status
    <2>. QED
        BY <2>1, Muda DEF Transita
<1>9. ASSUME NEW e \in EtapasAtivas \cup {"aberta"}, MoverOportunidade(e)
      PROVE  UNCHANGED vProposta
    BY <1>9 DEF MoverOportunidade
<1>10. ASSUME NEW p \in Propostas,
              CriarContrato(p) \/ AtivarContrato(p) \/ EncerrarContrato(p)
       PROVE  UNCHANGED vProposta
    BY <1>10 DEF CriarContrato, AtivarContrato, EncerrarContrato
<1>11. ASSUME NEW k \in planos, NEW st \in StatusPlano, EditarPlano(k, st)
       PROVE  UNCHANGED vProposta
    BY <1>11 DEF EditarPlano
<1>16. ASSUME NEW p \in Propostas, NEW t \in {"volante", "avulso"}, NEW v \in Precos,
              EditarContrato(p, t, v)
       PROVE  UNCHANGED vProposta
    BY <1>16 DEF EditarContrato
<1>12. CASE Gerar
    BY <1>12 DEF Gerar, LerPlanosAtivos, GravarRecebiveis, EscritaP
<1>13. CASE UNCHANGED vars
    BY <1>13 DEF vars, EscritaP
<1>14. CASE Editar
    BY <1>14, <1>1, <1>2, <1>3, <1>4, <1>5, <1>6, <1>7 DEF Editar, EscritaP
<1>15. CASE Fechar
    BY <1>15, <1>8, <1>9, <1>10, <1>11, <1>16 DEF Fechar, EscritaP
<1>. QED
    BY <1>12, <1>13, <1>14, <1>15 DEF Next, EscritaP

LEMMA PassoTiposP ==
    ASSUME TiposP, EscritaP
    PROVE  TiposP'
<1>1. CASE Insere
    <2>1. PICK p \in Propostas, linha \in Linha, l \in Versao :
            /\ proposta' = [proposta EXCEPT ![p] = linha]
            /\ versoes' = [versoes EXCEPT ![p] = {l}]
            /\ UNCHANGED <<forcos, decisao, sessao>>
        BY <1>1 DEF Insere
    <2>2. proposta' \in [Propostas -> Linha \cup {Nenhum}] /\ EmUso' = EmUso \cup {p}
        BY <2>1, GravaLinha
    <2>3. IsFiniteSet({l})
        BY FinitoUm
    <2>. QED
        BY <2>1, <2>2, <2>3 DEF TiposP
<1>2. CASE Versiona
    <2>1. PICK p \in EmUso, l \in Versao, linha \in Linha :
            /\ proposta' = [proposta EXCEPT ![p] = linha]
            /\ versoes' = [versoes EXCEPT ![p] = @ \cup {l}]
        BY <1>2 DEF Versiona
    <2>2. PICK s \in Sessoes : sessao' = [sessao EXCEPT ![s] = Nenhum]
        BY <1>2 DEF Versiona
    <2>3. p \in Propostas
        BY DEF EmUso
    <2>4. proposta' \in [Propostas -> Linha \cup {Nenhum}] /\ EmUso' = EmUso \cup {p}
        BY <2>1, <2>3, GravaLinha
    <2>5. IsFiniteSet(versoes[p] \cup {l})
        BY <2>3, FinitoMais DEF TiposP
    <2>6. UNCHANGED <<forcos, decisao>>
        BY <1>2 DEF Versiona
    <2>. QED
        BY <2>1, <2>2, <2>3, <2>4, <2>5, <2>6 DEF TiposP
<1>3. CASE Recota
    <2>1. PICK p \in EmUso, preco \in Nat, linha \in Linha :
            /\ proposta' = [proposta EXCEPT ![p] = linha]
            /\ forcos' = [forcos EXCEPT ![p] = @ \cup {preco}]
            /\ UNCHANGED <<versoes, decisao, sessao>>
        BY <1>3 DEF Recota
    <2>2. p \in Propostas
        BY DEF EmUso
    <2>3. proposta' \in [Propostas -> Linha \cup {Nenhum}] /\ EmUso' = EmUso \cup {p}
        BY <2>1, <2>2, GravaLinha
    <2>. QED
        BY <2>1, <2>2, <2>3 DEF TiposP
<1>4. CASE Transita
    <2>1. PICK p \in EmUso, st \in Status, linha \in Linha :
            /\ proposta' = [proposta EXCEPT ![p] = linha]
            /\ \/ UNCHANGED decisao
               \/ st \in Decisoes /\ decisao' = [decisao EXCEPT ![p] = st]
        BY <1>4 DEF Transita
    <2>2. p \in Propostas
        BY DEF EmUso
    <2>3. proposta' \in [Propostas -> Linha \cup {Nenhum}] /\ EmUso' = EmUso \cup {p}
        BY <2>1, <2>2, GravaLinha
    <2>4. UNCHANGED <<versoes, forcos, sessao>>
        BY <1>4 DEF Transita
    <2>. QED
        BY <2>1, <2>2, <2>3, <2>4 DEF TiposP
<1>5. CASE Le
    BY <1>5 DEF Le, TiposP, EmUso
<1>6. CASE UNCHANGED vProposta
    BY <1>6 DEF vProposta, TiposP, EmUso
<1>. QED
    BY <1>1, <1>2, <1>3, <1>4, <1>5, <1>6 DEF EscritaP

-----------------------------------------------------------------------------
(* The history of a proposal.                                              *)

HistoricoDe(p) ==
    /\ {v.versao : v \in versoes[p]} = 1 .. proposta[p].versao
    /\ Cardinality(versoes[p]) = proposta[p].versao
    /\ \/ \E v \in versoes[p] : /\ v.versao = proposta[p].versao
                               /\ v.preco = proposta[p].preco
       \/ proposta[p].preco \in forcos[p]

LEMMA PassoHistorico ==
    ASSUME TiposP, HistoricoCompleto, EscritaP
    PROVE  HistoricoCompleto'
<1>0. \A q \in EmUso : HistoricoDe(q)
    BY DEF HistoricoCompleto, HistoricoDe
<1>. SUFFICES ASSUME NEW q \in EmUso'
              PROVE  HistoricoDe(q)'
    BY DEF HistoricoCompleto, HistoricoDe
<1>1. CASE Insere
    <2>1. PICK p \in Propostas, linha \in Linha, l \in Versao :
            /\ l.versao = 1 /\ linha.versao = 1 /\ linha.preco = l.preco
            /\ proposta' = [proposta EXCEPT ![p] = linha]
            /\ versoes' = [versoes EXCEPT ![p] = {l}]
            /\ UNCHANGED <<forcos, decisao, sessao>>
        BY <1>1 DEF Insere
    <2>2. /\ EmUso' = EmUso \cup {p} /\ proposta'[p] = linha
          /\ \A r \in Propostas \ {p} : proposta'[r] = proposta[r]
        BY <2>1, GravaLinha
    <2>3. CASE q = p
        <3>1. versoes'[p] = {l}
            BY <2>1 DEF TiposP
        <3>2. Cardinality({l}) = 1
            BY FinitoUm
        <3>3. {v.versao : v \in {l}} = 1 .. 1
            BY <2>1
        <3>. QED
            BY <2>1, <2>2, <2>3, <3>1, <3>2, <3>3 DEF HistoricoDe
    <2>4. CASE q # p
        BY <1>0, <2>1, <2>2, <2>4 DEF HistoricoDe, TiposP, EmUso
    <2>. QED
        BY <2>3, <2>4
<1>2. CASE Versiona
    <2>1. PICK p \in EmUso, l \in Versao, linha \in Linha :
            /\ l.versao = proposta[p].versao + 1
            /\ linha.versao = l.versao /\ linha.preco = l.preco
            /\ proposta' = [proposta EXCEPT ![p] = linha]
            /\ versoes' = [versoes EXCEPT ![p] = @ \cup {l}]
        BY <1>2 DEF Versiona
    <2>2. /\ EmUso' = EmUso \cup {p} /\ proposta'[p] = linha /\ p \in Propostas
          /\ \A r \in Propostas \ {p} : proposta'[r] = proposta[r]
        BY <2>1, GravaLinha DEF EmUso
    <2>3. UNCHANGED forcos
        BY <1>2 DEF Versiona
    <2>4. CASE q = p
        <3>1. versoes'[p] = versoes[p] \cup {l}
            BY <2>1, <2>2 DEF TiposP
        <3>2. proposta[p].versao \in Nat /\ IsFiniteSet(versoes[p])
            BY <2>2, Atribuida DEF Linha, TiposP
        <3>3. /\ {v.versao : v \in versoes[p]} = 1 .. proposta[p].versao
              /\ Cardinality(versoes[p]) = proposta[p].versao
            BY <1>0 DEF HistoricoDe
        <3>4. l \notin versoes[p]
            BY <2>1, <3>2, <3>3
        <3>5. Cardinality(versoes[p] \cup {l}) = proposta[p].versao + 1
            BY <3>2, <3>3, <3>4, FinitoMais
        <3>6. {v.versao : v \in versoes[p] \cup {l}} = 1 .. proposta[p].versao + 1
            <4>1. {v.versao : v \in versoes[p] \cup {l}}
                    = {v.versao : v \in versoes[p]} \cup {l.versao}
                OBVIOUS
            <4>. QED
                BY <2>1, <3>2, <3>3, <4>1
        <3>. QED
            BY <2>1, <2>2, <2>4, <3>1, <3>5, <3>6 DEF HistoricoDe
    <2>5. CASE q # p
        BY <1>0, <2>1, <2>2, <2>3, <2>5 DEF HistoricoDe, TiposP, EmUso
    <2>. QED
        BY <2>4, <2>5
<1>3. CASE Recota
    <2>1. PICK p \in EmUso, preco \in Nat, linha \in Linha :
            /\ linha.versao = proposta[p].versao /\ linha.preco = preco
            /\ proposta' = [proposta EXCEPT ![p] = linha]
            /\ forcos' = [forcos EXCEPT ![p] = @ \cup {preco}]
            /\ UNCHANGED <<versoes, decisao, sessao>>
        BY <1>3 DEF Recota
    <2>2. /\ EmUso' = EmUso \cup {p} /\ proposta'[p] = linha /\ p \in Propostas
          /\ \A r \in Propostas \ {p} : proposta'[r] = proposta[r]
        BY <2>1, GravaLinha DEF EmUso
    <2>3. preco \in forcos'[p] /\ \A r \in Propostas \ {p} : forcos'[r] = forcos[r]
        BY <2>1, <2>2 DEF TiposP
    <2>. QED
        BY <1>0, <2>1, <2>2, <2>3 DEF HistoricoDe, EmUso
<1>4. CASE Transita
    <2>1. PICK p \in EmUso, st \in Status, linha \in Linha :
            /\ linha.versao = proposta[p].versao
            /\ linha.preco = proposta[p].preco
            /\ proposta' = [proposta EXCEPT ![p] = linha]
        BY <1>4 DEF Transita
    <2>2. /\ EmUso' = EmUso \cup {p} /\ proposta'[p] = linha /\ p \in Propostas
          /\ \A r \in Propostas \ {p} : proposta'[r] = proposta[r]
        BY <2>1, GravaLinha DEF EmUso
    <2>3. UNCHANGED <<versoes, forcos>>
        BY <1>4 DEF Transita
    <2>. QED
        BY <1>0, <2>1, <2>2, <2>3 DEF HistoricoDe, EmUso
<1>5. CASE Le \/ UNCHANGED vProposta
    BY <1>0, <1>5 DEF Le, vProposta, HistoricoDe, EmUso
<1>. QED
    BY <1>1, <1>2, <1>3, <1>4, <1>5 DEF EscritaP

-----------------------------------------------------------------------------
(* Contracts: a step leaves them alone or is one of these.                 *)

Contrata ==
    /\ \E p \in EmUso, c \in Contrato :
        /\ proposta[p].status = "aceita" /\ contrato[p] = Nenhum
        /\ c.status = "rascunho" /\ c.plano = Nenhum
        /\ contrato' = [contrato EXCEPT ![p] = c]
    /\ UNCHANGED <<vProposta, planos>>

\* An edit writes the type and the value.
Edita ==
    /\ \E p \in Propostas, c \in Contrato :
        /\ contrato[p] # Nenhum
        /\ c.status = contrato[p].status /\ c.plano = contrato[p].plano
        /\ contrato' = [contrato EXCEPT ![p] = c]
    /\ UNCHANGED <<vProposta, planos>>

\* An avulso contract starts with no plan, another one with its own.
Ativa ==
    /\ \E p \in Propostas, c \in Contrato :
        /\ contrato[p] # Nenhum /\ contrato[p].status = "rascunho"
        /\ c.status = "ativo"
        /\ contrato' = [contrato EXCEPT ![p] = c]
        /\ \/ c.plano = Nenhum /\ UNCHANGED planos
           \/ /\ c.plano # Nenhum
              /\ \E k \in Plano : /\ k.contrato = p /\ k.id = c.plano
                                 /\ planos' = planos \cup {k}
    /\ UNCHANGED vProposta

\* Plans change their status only.
Ajusta ==
    /\ \E id \in Nat \cup {Nenhum}, st \in StatusPlano : planos' = ComStatus(id, st)
    /\ \/ UNCHANGED contrato
       \/ \E p \in Propostas, c \in Contrato :
            /\ contrato[p] # Nenhum /\ contrato[p].status = "ativo"
            /\ c.status = "encerrado"
            /\ c.plano = contrato[p].plano
            /\ contrato' = [contrato EXCEPT ![p] = c]
    /\ UNCHANGED vProposta

EscritaC == Contrata \/ Edita \/ Ativa \/ Ajusta \/ UNCHANGED vContrato

LEMMA EscritaDeContrato ==
    ASSUME Tipos, [Next]_vars
    PROVE  EscritaC
<1>. USE DEF Tipos
<1>1. ASSUME NEW p \in Propostas, CriarContrato(p)
      PROVE  Contrata
    <2>. DEFINE avulso == proposta[p].tipo # "volante"
                c == [tipo |-> IF avulso THEN "avulso" ELSE "volante",
                      valor |-> IF avulso THEN 0 ELSE proposta[p].preco,
                      status |-> "rascunho", plano |-> Nenhum]
    <2>1. p \in EmUso /\ proposta[p] \in Linha
        BY <1>1, Atribuida DEF CriarContrato
    <2>2. c \in Contrato /\ c.status = "rascunho" /\ c.plano = Nenhum
        BY <2>1 DEF Contrato, Linha
    <2>3. /\ proposta[p].status = "aceita" /\ contrato[p] = Nenhum
          /\ contrato' = [contrato EXCEPT ![p] = c]
          /\ UNCHANGED <<vProposta, planos>>
        BY <1>1 DEF CriarContrato
    <2>. QED
        BY <2>1, <2>2, <2>3 DEF Contrata
<1>2. ASSUME NEW p \in Propostas, AtivarContrato(p)
      PROVE  Ativa
    <2>. DEFINE id == Cardinality(planos) + 1
                recorrente == contrato[p].tipo # "avulso"
                c == [contrato[p] EXCEPT !.status = "ativo",
                                         !.plano = IF recorrente THEN id ELSE Nenhum]
                k == [id |-> id, contrato |-> p, status |-> "ativo"]
    <2>1. contrato[p] # Nenhum /\ contrato[p].status = "rascunho"
        BY <1>2 DEF AtivarContrato
    <2>2. contrato[p] \in Contrato
        BY <2>1 DEF TiposC
    <2>3. id \in Nat
        BY FS_CardinalityType DEF TiposC
    <2>4. /\ c \in Contrato /\ c.status = "ativo"
          /\ c.plano = IF recorrente THEN id ELSE Nenhum
        <3>. DEFINE x == IF recorrente THEN id ELSE Nenhum
        <3>1. x \in Nat \cup {Nenhum}
            BY <2>3
        <3>. HIDE DEF x, id, recorrente
        <3>2. [contrato[p] EXCEPT !.status = "ativo", !.plano = x] \in Contrato
            BY <2>2, <3>1 DEF Contrato
        <3>3. /\ [contrato[p] EXCEPT !.status = "ativo", !.plano = x].status = "ativo"
              /\ [contrato[p] EXCEPT !.status = "ativo", !.plano = x].plano = x
            BY <2>2 DEF Contrato
        <3>. QED
            BY <3>1, <3>2, <3>3 DEF x
    <2>5. contrato' = [contrato EXCEPT ![p] = c]
        BY <1>2, <2>2 DEF AtivarContrato, TiposC, Contrato
    <2>6. k \in Plano /\ k.contrato = p /\ k.id = id
        BY <2>3 DEF Plano, StatusPlano
    <2>7. /\ planos' = IF recorrente THEN planos \cup {k} ELSE planos
          /\ UNCHANGED vProposta
        BY <1>2 DEF AtivarContrato
    <2>. HIDE DEF c, k, id
    <2>0. id # Nenhum
        BY <2>3, NumeroNaoNulo
    <2>8. CASE recorrente
        BY <2>0, <2>1, <2>4, <2>5, <2>6, <2>7, <2>8 DEF Ativa
    <2>9. CASE ~recorrente
        BY <2>1, <2>4, <2>5, <2>7, <2>9 DEF Ativa
    <2>. QED
        BY <2>8, <2>9
<1>3. ASSUME NEW p \in Propostas, EncerrarContrato(p)
      PROVE  Ajusta
    <2>. DEFINE c == [contrato[p] EXCEPT !.status = "encerrado"]
    <2>1. contrato[p] # Nenhum /\ contrato[p].status = "ativo"
        BY <1>3 DEF EncerrarContrato
    <2>2. contrato[p] \in Contrato
        BY <2>1 DEF TiposC
    <2>3. /\ c \in Contrato /\ c.status = "encerrado"
          /\ c.plano = contrato[p].plano /\ contrato[p].plano \in Nat \cup {Nenhum}
        BY <2>2 DEF Contrato
    <2>4. contrato' = [contrato EXCEPT ![p] = c]
        BY <1>3 DEF EncerrarContrato
    <2>5. /\ planos' = ComStatus(contrato[p].plano, "encerrado")
          /\ UNCHANGED vProposta /\ "encerrado" \in StatusPlano
        BY <1>3 DEF EncerrarContrato, StatusPlano
    <2>. HIDE DEF c
    <2>. QED
        BY <2>1, <2>3, <2>4, <2>5 DEF Ajusta
<1>4. ASSUME NEW k \in planos, NEW st \in StatusPlano, EditarPlano(k, st)
      PROVE  Ajusta
    <2>1. k.id \in Nat
        BY DEF TiposC, Plano
    <2>2. planos' = ComStatus(k.id, st) /\ UNCHANGED <<contrato, vProposta>>
        BY <1>4 DEF EditarPlano
    <2>. QED
        BY <2>1, <2>2 DEF Ajusta
<1>5. ASSUME NEW p \in Propostas, NEW d \in Decisoes, DecidirProposta(p, d)
      PROVE  UNCHANGED vContrato
    BY <1>5 DEF DecidirProposta
<1>6. ASSUME NEW e \in EtapasAtivas \cup {"aberta"}, MoverOportunidade(e)
      PROVE  UNCHANGED vContrato
    BY <1>6 DEF MoverOportunidade
<1>11. ASSUME NEW p \in Propostas, NEW t \in {"volante", "avulso"}, NEW v \in Precos,
              EditarContrato(p, t, v)
       PROVE  Edita
    <2>1. contrato[p] # Nenhum
        BY <1>11 DEF EditarContrato
    <2>2. contrato[p] \in Contrato /\ v \in Nat
        BY <2>1, Numeros DEF TiposC
    <2>. DEFINE c == [contrato[p] EXCEPT !.tipo = t, !.valor = v]
    <2>3. c \in Contrato /\ c.status = contrato[p].status /\ c.plano = contrato[p].plano
        BY <2>2 DEF Contrato
    <2>4. contrato' = [contrato EXCEPT ![p] = c] /\ UNCHANGED <<vProposta, planos>>
        BY <1>11, <2>2 DEF EditarContrato, TiposC, Contrato
    <2>. HIDE DEF c
    <2>. QED
        BY <2>1, <2>3, <2>4 DEF Edita
<1>7. CASE Editar
    BY <1>7 DEF Editar, CriarProposta, DuplicarProposta, LerParaSalvar,
                ApagarItens, SalvarComposicao, ForcarPreco, MudarStatus, EscritaC
<1>8. CASE Fechar
    BY <1>8, <1>11, <1>1, <1>2, <1>3, <1>4, <1>5, <1>6 DEF Fechar, EscritaC
<1>9. CASE Gerar
    BY <1>9 DEF Gerar, LerPlanosAtivos, GravarRecebiveis, EscritaC
<1>10. CASE UNCHANGED vars
    BY <1>10 DEF vars, EscritaC
<1>. QED
    BY <1>7, <1>8, <1>9, <1>10 DEF Next

LEMMA ComStatusFinito ==
    ASSUME IsFiniteSet(planos), NEW id, NEW st
    PROVE  IsFiniteSet(ComStatus(id, st))
<1>. DEFINE f == [k \in planos |-> IF k.id = id THEN [k EXCEPT !.status = st] ELSE k]
<1>1. f \in Surjection(planos, ComStatus(id, st))
    BY DEF Surjection, ComStatus
<1>. QED
    BY <1>1, FS_Surjection

PlanosDe(p) == {k.id : k \in {j \in planos : j.contrato = p}}

LEMMA ComStatusTipo ==
    ASSUME planos \subseteq Plano, NEW id, NEW st \in StatusPlano
    PROVE  /\ ComStatus(id, st) \subseteq Plano
           /\ planos' = ComStatus(id, st) => \A p : PlanosDe(p)' = PlanosDe(p)
<1>. DEFINE g(k) == IF k.id = id THEN [k EXCEPT !.status = st] ELSE k
<1>1. ASSUME NEW k \in planos
      PROVE  g(k) \in Plano /\ g(k).id = k.id /\ g(k).contrato = k.contrato
    BY DEF Plano
<1>2. ComStatus(id, st) = {g(k) : k \in planos}
    BY DEF ComStatus
<1>. HIDE DEF g
<1>. QED
    BY <1>1, <1>2 DEF PlanosDe

LEMMA PassoTiposC ==
    ASSUME TiposC, EscritaC
    PROVE  TiposC'
<1>1. CASE Contrata \/ Edita
    BY <1>1 DEF Contrata, Edita, TiposC
<1>2. CASE Ativa
    BY <1>2, FinitoMais DEF Ativa, TiposC
<1>3. CASE Ajusta
    <2>1. PICK id \in Nat \cup {Nenhum}, st \in StatusPlano : planos' = ComStatus(id, st)
        BY <1>3 DEF Ajusta
    <2>2. planos' \subseteq Plano /\ IsFiniteSet(planos')
        BY <2>1, ComStatusFinito, ComStatusTipo DEF TiposC
    <2>3. contrato' \in [Propostas -> Contrato \cup {Nenhum}]
        BY <1>3 DEF Ajusta, TiposC
    <2>. QED
        BY <2>2, <2>3 DEF TiposC
<1>4. CASE UNCHANGED vContrato
    BY <1>4 DEF vContrato, TiposC
<1>. QED
    BY <1>1, <1>2, <1>3, <1>4 DEF EscritaC

-----------------------------------------------------------------------------
(* The decision, the plan of a contract and the receivable of a month.     *)

\* The trigger's table has no way out of an answer.
LEMMA RespostaFinal ==
    ASSUME NEW d \in Decisoes, NEW st \in Status, PassaTransicao(d, st)
    PROVE  st = d
BY DEF PassaTransicao, Transicoes, Decisoes

DecisaoDe(p) ==
    /\ decisao[p] # Nenhum => p \in EmUso /\ proposta[p].status = decisao[p]
    /\ contrato[p] # Nenhum => p \in EmUso /\ proposta[p].status = "aceita"

LEMMA PassoDecisao ==
    ASSUME Tipos, DecisaoPrevalece, EscritaP, EscritaC
    PROVE  DecisaoPrevalece'
<1>. USE DEF Tipos
<1>0. \A q \in Propostas : DecisaoDe(q)
    BY DEF DecisaoPrevalece, DecisaoDe
<1>. SUFFICES ASSUME NEW q \in Propostas
              PROVE  DecisaoDe(q)'
    BY DEF DecisaoPrevalece, DecisaoDe
<1>1. CASE Contrata \/ Edita
    BY <1>0, <1>1 DEF Contrata, Edita, DecisaoDe, vProposta, EmUso, TiposC
<1>2. CASE Ativa
    BY <1>0, <1>2 DEF Ativa, DecisaoDe, vProposta, EmUso, TiposC
<1>3. CASE Ajusta
    BY <1>0, <1>3 DEF Ajusta, DecisaoDe, vProposta, EmUso, TiposC
<1>4. CASE UNCHANGED vContrato
    <2>0. UNCHANGED contrato
        BY <1>4 DEF vContrato
    <2>1. CASE Insere
        <3>1. PICK p \in Propostas, linha \in Linha :
                /\ proposta[p] = Nenhum
                /\ proposta' = [proposta EXCEPT ![p] = linha]
                /\ UNCHANGED decisao
            BY <2>1 DEF Insere
        <3>2. /\ EmUso' = EmUso \cup {p}
              /\ \A r \in Propostas \ {p} : proposta'[r] = proposta[r]
            BY <3>1, GravaLinha
        <3>. QED
            BY <1>0, <2>0, <3>1, <3>2 DEF DecisaoDe, EmUso
    <2>2. CASE Versiona \/ Recota
        <3>1. PICK p \in EmUso, linha \in Linha :
                /\ linha.status = proposta[p].status
                /\ proposta' = [proposta EXCEPT ![p] = linha]
            BY <2>2 DEF Versiona, Recota
        <3>2. UNCHANGED decisao
            BY <2>2 DEF Versiona, Recota
        <3>3. /\ EmUso' = EmUso \cup {p} /\ proposta'[p] = linha
              /\ \A r \in Propostas \ {p} : proposta'[r] = proposta[r]
            BY <3>1, GravaLinha DEF EmUso
        <3>. QED
            BY <1>0, <2>0, <3>1, <3>2, <3>3 DEF DecisaoDe
    <2>3. CASE Transita
        <3>1. PICK p \in EmUso, st \in Status, linha \in Linha :
                /\ linha.status = st
                /\ PassaTransicao(proposta[p].status, st)
                /\ proposta' = [proposta EXCEPT ![p] = linha]
                /\ \/ UNCHANGED decisao
                   \/ st \in Decisoes /\ decisao' = [decisao EXCEPT ![p] = st]
            BY <2>3 DEF Transita
        <3>2. /\ EmUso' = EmUso \cup {p} /\ proposta'[p] = linha /\ p \in Propostas
              /\ \A r \in Propostas \ {p} : proposta'[r] = proposta[r]
            BY <3>1, GravaLinha DEF EmUso
        <3>3. CASE q # p
            <4>1. decisao'[q] = decisao[q]
                BY <3>1, <3>2, <3>3 DEF TiposP
            <4>. QED
                BY <1>0, <2>0, <3>2, <3>3, <4>1 DEF DecisaoDe
        <3>4. CASE q = p
            <4>1. decisao[p] \in Decisoes \cup {Nenhum}
                BY <3>2 DEF TiposP
            <4>2. decisao[p] # Nenhum => st = decisao[p]
                BY <1>0, <3>1, <3>2, <4>1, RespostaFinal DEF DecisaoDe
            <4>3. contrato[p] # Nenhum => st = "aceita"
                BY <1>0, <3>1, <3>2, RespostaFinal DEF DecisaoDe, Decisoes
            <4>4. decisao'[p] = decisao[p] \/ decisao'[p] = st
                BY <3>1, <3>2 DEF TiposP
            <4>. QED
                BY <2>0, <3>1, <3>2, <3>4, <4>2, <4>3, <4>4 DEF DecisaoDe
        <3>. QED
            BY <3>3, <3>4
    <2>4. CASE Le \/ UNCHANGED vProposta
        BY <1>0, <2>0, <2>4 DEF Le, vProposta, DecisaoDe, EmUso
    <2>. QED
        BY <2>1, <2>2, <2>3, <2>4 DEF EscritaP
<1>. QED
    BY <1>1, <1>2, <1>3, <1>4 DEF EscritaC

PlanoDe(p) ==
    /\ PlanosDe(p) = Nomeado(p)
    /\ contrato[p] # Nenhum /\ contrato[p].status = "rascunho" => Nomeado(p) = {}

LEMMA PassoPlano ==
    ASSUME TiposC, UmPlanoPorContrato, EscritaC
    PROVE  UmPlanoPorContrato'
<1>0. \A q \in Propostas : PlanoDe(q)
    BY DEF UmPlanoPorContrato, PlanoDe, PlanosDe
<1>. SUFFICES ASSUME NEW q \in Propostas
              PROVE  PlanoDe(q)'
    BY DEF UmPlanoPorContrato, PlanoDe, PlanosDe
<1>1. CASE Contrata \/ Edita
    <2>1. PICK p \in Propostas, c \in Contrato :
            /\ contrato' = [contrato EXCEPT ![p] = c] /\ UNCHANGED planos
            /\ \/ contrato[p] = Nenhum /\ c.plano = Nenhum
               \/ /\ contrato[p] # Nenhum
                  /\ c.status = contrato[p].status /\ c.plano = contrato[p].plano
        BY <1>1 DEF Contrata, Edita, EmUso
    <2>2. contrato'[p] = c /\ \A r \in Propostas \ {p} : contrato'[r] = contrato[r]
        BY <2>1 DEF TiposC
    <2>3. c # Nenhum /\ PlanosDe(q)' = PlanosDe(q)
        BY <2>1, LinhaNaoNula DEF PlanosDe
    <2>. QED
        BY <1>0, <2>1, <2>2, <2>3 DEF PlanoDe, Nomeado
<1>2. CASE Ativa
    <2>1. PICK p \in Propostas, c \in Contrato :
            /\ contrato[p] # Nenhum /\ contrato[p].status = "rascunho"
            /\ c.status = "ativo"
            /\ contrato' = [contrato EXCEPT ![p] = c]
            /\ \/ c.plano = Nenhum /\ UNCHANGED planos
               \/ /\ c.plano # Nenhum
                  /\ \E k \in Plano : /\ k.contrato = p /\ k.id = c.plano
                                     /\ planos' = planos \cup {k}
        BY <1>2 DEF Ativa
    <2>2. contrato'[p] = c /\ \A r \in Propostas \ {p} : contrato'[r] = contrato[r]
        BY <2>1 DEF TiposC
    <2>3. PlanosDe(p) = {} /\ c # Nenhum
        BY <1>0, <2>1, LinhaNaoNula DEF PlanoDe
    <2>4. CASE c.plano = Nenhum /\ UNCHANGED planos
        <3>1. \A r \in Propostas : PlanosDe(r)' = PlanosDe(r)
            BY <2>4 DEF PlanosDe
        <3>. QED
            BY <1>0, <2>1, <2>2, <2>3, <2>4, <3>1 DEF PlanoDe, Nomeado
    <2>5. CASE /\ c.plano # Nenhum
               /\ \E k \in Plano : /\ k.contrato = p /\ k.id = c.plano
                                  /\ planos' = planos \cup {k}
        <3>1. PICK k \in Plano : /\ k.contrato = p /\ k.id = c.plano
                                 /\ planos' = planos \cup {k}
            BY <2>5
        <3>2. /\ PlanosDe(p)' = PlanosDe(p) \cup {c.plano}
              /\ \A r \in Propostas \ {p} : PlanosDe(r)' = PlanosDe(r)
            BY <3>1 DEF PlanosDe
        <3>. QED
            BY <1>0, <2>1, <2>2, <2>3, <2>5, <3>2 DEF PlanoDe, Nomeado
    <2>. QED
        BY <2>1, <2>4, <2>5
<1>3. CASE Ajusta
    <2>1. PlanosDe(q)' = PlanosDe(q)
        BY <1>3, ComStatusTipo DEF Ajusta, TiposC
    <2>. QED
        BY <1>0, <1>3, <2>1, LinhaNaoNula DEF Ajusta, PlanoDe, Nomeado, TiposC
<1>4. CASE UNCHANGED vContrato
    BY <1>0, <1>4 DEF vContrato, PlanoDe, PlanosDe, Nomeado
<1>. QED
    BY <1>1, <1>2, <1>3, <1>4 DEF EscritaC

LEMMA PassoRecebivel ==
    ASSUME RecebivelUnico, [Next]_vars
    PROVE  RecebivelUnico'
<1>1. ASSUME NEW r \in Execucoes, GravarRecebiveis(r)
      PROVE  RecebivelUnico'
    BY <1>1 DEF GravarRecebiveis, RecebivelUnico, SemRecebivel
<1>2. ASSUME NEW r \in Execucoes, NEW m \in Meses, LerPlanosAtivos(r, m)
      PROVE  RecebivelUnico'
    BY <1>2 DEF LerPlanosAtivos, RecebivelUnico
<1>3. CASE Editar
    BY <1>3 DEF Editar, CriarProposta, DuplicarProposta, LerParaSalvar,
                ApagarItens, SalvarComposicao, ForcarPreco, MudarStatus,
                vGeracao, RecebivelUnico
<1>4. CASE Fechar
    BY <1>4 DEF Fechar, DecidirProposta, MoverOportunidade, CriarContrato,
                EditarContrato, AtivarContrato, EncerrarContrato, EditarPlano,
                vGeracao, RecebivelUnico
<1>5. CASE UNCHANGED vars
    BY <1>5 DEF vars, vGeracao, RecebivelUnico
<1>. QED
    BY <1>1, <1>2, <1>3, <1>4, <1>5 DEF Next, Gerar

-----------------------------------------------------------------------------
(* Theorems.                                                               *)

IInv == /\ Tipos
        /\ HistoricoCompleto
        /\ DecisaoPrevalece
        /\ UmPlanoPorContrato
        /\ RecebivelUnico

LEMMA InitIInv == Init => IInv
<1>. SUFFICES ASSUME Init PROVE IInv
    OBVIOUS
<1>1. IsFiniteSet({})
    BY FS_EmptySet
<1>2. TiposP
    BY <1>1 DEF Init, TiposP
<1>3. TiposC
    BY <1>1 DEF Init, TiposC
<1>4. HistoricoCompleto /\ DecisaoPrevalece /\ UmPlanoPorContrato /\ RecebivelUnico
    BY DEF Init, HistoricoCompleto, DecisaoPrevalece, UmPlanoPorContrato,
           Nomeado, RecebivelUnico, EmUso
<1>. QED
    BY <1>2, <1>3, <1>4 DEF IInv, Tipos

\* What every state satisfies: the four properties below together with the
\* shape of the rows, which is what each step keeps.
THEOREM Inducao == Spec => []IInv
<1>1. IInv /\ [Next]_vars => IInv'
    <2>. SUFFICES ASSUME IInv, [Next]_vars PROVE IInv'
        OBVIOUS
    <2>1. EscritaP /\ EscritaC
        BY EscritaDoPasso, EscritaDeContrato DEF IInv, Tipos
    <2>2. TiposP' /\ TiposC'
        BY <2>1, PassoTiposP, PassoTiposC DEF IInv, Tipos
    <2>3. HistoricoCompleto'
        BY <2>1, PassoHistorico DEF IInv, Tipos
    <2>4. DecisaoPrevalece'
        BY <2>1, PassoDecisao DEF IInv
    <2>5. UmPlanoPorContrato'
        BY <2>1, PassoPlano DEF IInv, Tipos
    <2>6. RecebivelUnico'
        BY PassoRecebivel DEF IInv
    <2>. QED
        BY <2>2, <2>3, <2>4, <2>5, <2>6 DEF IInv, Tipos
<1>. QED
    BY <1>1, InitIInv, PTL DEF Spec

\* However many editors save one proposal at once, its history has every
\* version once and the price in force is accounted for
\* (fn_salvar_composicao_proposta reads the status without a lock).
THEOREM HistoriaDaProposta == Spec => []HistoricoCompleto
BY Inducao, PTL DEF IInv

\* The client's answer and the contract built on it are never undone by a
\* save, an override or a status button (the two triggers of 0183).
THEOREM DecisaoFinal == Spec => []DecisaoPrevalece
BY Inducao, PTL DEF IInv

\* A contract activated as recurring has one billing plan, the one it names,
\* from then on, whoever activates, edits or closes it or edits its plan
\* (fn_ativar_contrato, editarContrato, fn_encerrar_contrato).
THEOREM UmPlano == Spec => []UmPlanoPorContrato
BY Inducao, PTL DEF IInv

\* Any number of runs of the generator leave one receivable of a plan in a
\* month (the unique index behind fn_gerar_recorrencias).
THEOREM UmRecebivel == Spec => []RecebivelUnico
BY Inducao, PTL DEF IInv
-----------------------------------------------------------------------------
(* The bounds, and the types with the numbers they allow.                  *)

LEMMA Limites ==
    /\ PrecoMaximo \in Nat /\ Piso \in Nat /\ Piso \in Precos /\ Precos \subseteq Nat
    /\ MaxSalvos \in Nat /\ Versoes \subseteq Nat /\ 1 \in Versoes
    /\ EtapasAtivas \subseteq {"ganha", "perdida"}
    /\ \A n \in Nat : n \in Versoes <=> n >= 1 /\ n <= MaxSalvos + 1
BY LimitesAssumption DEF Precos, Versoes

\* What the bounds of TypeOK rest on: no more saves than MaxSalvos, and no
\* contract with two plans.
Contaveis ==
    /\ IsFiniteSet(Salvos) /\ Cardinality(Salvos) <= MaxSalvos
    /\ \A j, k \in planos : j.contrato = k.contrato => j = k

ITipos == IInv /\ TypeOK /\ Contaveis

LEMMA MenosSalvos ==
    ASSUME NEW S, IsFiniteSet(S), Cardinality(S) <= MaxSalvos, NEW T, T \subseteq S
    PROVE  IsFiniteSet(T) /\ Cardinality(T) <= MaxSalvos
<1>1. IsFiniteSet(T) /\ Cardinality(T) <= Cardinality(S)
    BY FS_Subset
<1>2. Cardinality(T) \in Nat /\ Cardinality(S) \in Nat
    BY <1>1, FS_CardinalityType
<1>. QED
    BY <1>1, <1>2, Limites

LEMMA TrocaSalvo ==
    ASSUME NEW S, IsFiniteSet(S), Cardinality(S) <= MaxSalvos, NEW s \in S, NEW x
    PROVE  /\ IsFiniteSet((S \ {s}) \cup {x})
           /\ Cardinality((S \ {s}) \cup {x}) <= MaxSalvos
<1>. PICK T : T = S \ {s}
    OBVIOUS
<1>1. IsFiniteSet(T) /\ Cardinality(T) = Cardinality(S) - 1
    BY FS_RemoveElement
<1>2. Cardinality(T) \in Nat /\ Cardinality(S) \in Nat
    BY <1>1, FS_CardinalityType
<1>3. /\ IsFiniteSet(T \cup {x})
      /\ Cardinality(T \cup {x}) = IF x \in T THEN Cardinality(T) ELSE Cardinality(T) + 1
    BY <1>1, FS_AddElement
<1>. QED
    BY <1>1, <1>2, <1>3, Limites

LEMMA MaisSalvo ==
    ASSUME NEW S, IsFiniteSet(S), Cardinality(S) < MaxSalvos, NEW x
    PROVE  IsFiniteSet(S \cup {x}) /\ Cardinality(S \cup {x}) <= MaxSalvos
<1>1. /\ IsFiniteSet(S \cup {x})
      /\ Cardinality(S \cup {x}) = IF x \in S THEN Cardinality(S) ELSE Cardinality(S) + 1
    BY FS_AddElement
<1>2. Cardinality(S) \in Nat
    BY FS_CardinalityType
<1>. QED
    BY <1>1, <1>2, Limites

\* A save under way leaves room for its version: the versions before it and
\* itself are different things counted.
LEMMA CabeMaisUma ==
    ASSUME ITipos, NEW s \in Sessoes, sessao[s] # Nenhum, NEW p \in EmUso
    PROVE  proposta[p].versao + 1 \in Versoes
<1>0. p \in Propostas /\ proposta[p] \in LinhaProposta
    BY DEF ITipos, TypeOK, EmUso
<1>. PICK v : v = proposta[p].versao
    OBVIOUS
<1>1. v \in Versoes /\ v \in Nat /\ v >= 1
    BY <1>0, Limites DEF LinhaProposta
<1>. DEFINE f == [n \in 1 .. v |-> IF n = 1 THEN s ELSE <<p, n>>]
<1>2. ASSUME NEW n \in 1 .. v, n # 1
      PROVE  <<p, n>> \in Salvos /\ <<p, n>> # s
    <2>1. n \in Versoes /\ n > 1 /\ n \in Nat
        BY <1>1, <1>2, Limites
    <2>2. \E l \in versoes[p] : l.versao = n
        <3>1. {l.versao : l \in versoes[p]} = 1 .. v
            BY DEF ITipos, IInv, HistoricoCompleto
        <3>. QED
            BY <3>1
    <2>3. <<p, n>> \in Propostas \X Versoes /\ <<p, n>> \in Propostas \X Nat
        BY <1>0, <2>1
    <2>. QED
        BY <2>1, <2>2, <2>3, ContaveisAssumption DEF Salvos
<1>3. s \in Salvos
    BY DEF Salvos
<1>4. f \in Injection(1 .. v, Salvos)
    <2>1. f \in [1 .. v -> Salvos]
        BY <1>2, <1>3
    <2>2. ASSUME NEW m \in 1 .. v, NEW n \in 1 .. v, f[m] = f[n] PROVE m = n
        <3>1. CASE m = 1 \/ n = 1
            BY <1>2, <2>2, <3>1
        <3>2. CASE m # 1 /\ n # 1
            BY <2>2, <3>2
        <3>. QED
            BY <3>1, <3>2
    <2>. HIDE DEF f
    <2>. QED
        BY <2>1, <2>2 DEF Injection, IsInjective
<1>5. Cardinality(1 .. v) = v
    <2>1. 1 \in Int /\ v \in Int
        BY <1>1
    <2>2. Cardinality(1 .. v) = IF 1 > v THEN 0 ELSE v - 1 + 1
        BY <2>1, FS_Interval, Zenon
    <2>. QED
        BY <1>1, <2>2
<1>6. Cardinality(1 .. v) <= Cardinality(Salvos) /\ Cardinality(Salvos) \in Nat
    <2>. HIDE DEF f
    <2>. QED
        BY <1>4, FS_Injection, FS_CardinalityType DEF ITipos, Contaveis
<1>7. v <= MaxSalvos
    BY <1>1, <1>5, <1>6, Limites DEF ITipos, Contaveis
<1>. QED
    BY <1>1, <1>7, Limites

\* A contract without a plan leaves room for it.
LEMMA CabeMaisUmPlano ==
    ASSUME ITipos, NEW p \in Propostas, \A k \in planos : k.contrato # p
    PROVE  Cardinality(planos) + 1 \in PlanoIds
<1>. PICK P, R : P = planos /\ R = Propostas \ {p}
    OBVIOUS
<1>. DEFINE f == [k \in P |-> k.contrato]
<1>1. f \in Injection(P, R)
    <2>1. \A k \in P : k.contrato \in R
        BY DEF ITipos, TypeOK, LinhaPlano
    <2>2. \A j, k \in P : j.contrato = k.contrato => j = k
        BY DEF ITipos, Contaveis
    <2>. QED
        BY <2>1, <2>2 DEF Injection, IsInjective
<1>2. /\ IsFiniteSet(R) /\ Cardinality(R) = Cardinality(Propostas) - 1
      /\ Cardinality(Propostas) \in Nat
    BY ContaveisAssumption, FS_RemoveElement, FS_CardinalityType
<1>3. Cardinality(P) <= Cardinality(R) /\ IsFiniteSet(P)
    <2>. HIDE DEF f
    <2>. QED
        BY <1>1, <1>2, FS_Injection
<1>4. Cardinality(P) \in Nat
    BY <1>3, FS_CardinalityType
<1>. PICK a, b : a = Cardinality(P) /\ b = Cardinality(Propostas)
    OBVIOUS
<1>5. a \in Nat /\ b \in Nat /\ a <= b - 1
    BY <1>2, <1>3, <1>4
<1>. QED
    BY <1>5 DEF PlanoIds

-----------------------------------------------------------------------------
(* Each action keeps the types.                                            *)

LEMMA LinhaEmUso ==
    ASSUME TypeOK, NEW p \in EmUso
    PROVE  p \in Propostas /\ proposta[p] \in LinhaProposta
BY DEF TypeOK, EmUso

LEMMA CriaTipo ==
    ASSUME TypeOK, NEW p \in Propostas, NEW t \in {"volante", "simples"}, CriarProposta(p, t)
    PROVE  TypeOK'
<1>. DEFINE linha == [status |-> "rascunho", tipo |-> t, preco |-> 0, piso |-> 0,
                      versao |-> 1, itens |-> {}]
            l == [versao |-> 1, preco |-> 0, por |-> Nenhum]
<1>1. 0 \in Precos
    BY Limites DEF Precos
<1>2. linha \in LinhaProposta /\ l \in LinhaVersao
    BY <1>1, Limites DEF LinhaProposta, LinhaVersao, Status
<1>3. proposta' = [proposta EXCEPT ![p] = linha] /\ versoes' = [versoes EXCEPT ![p] = {l}]
    BY DEF CriarProposta
<1>. HIDE DEF linha, l
<1>4. /\ proposta' \in [Propostas -> LinhaProposta \cup {Nenhum}]
      /\ versoes' \in [Propostas -> SUBSET LinhaVersao]
    BY <1>2, <1>3 DEF TypeOK
<1>. QED
    BY <1>4 DEF TypeOK, CriarProposta, vContrato, vGeracao

LEMMA DuplicaTipo ==
    ASSUME TypeOK, NEW p \in Propostas, NEW q \in Propostas, DuplicarProposta(p, q)
    PROVE  TypeOK'
<1>1. p \in EmUso /\ proposta[p] \in LinhaProposta
    BY LinhaEmUso DEF DuplicarProposta
<1>. DEFINE itens == IF proposta[p].itens = {} THEN {} ELSE {1}
            linha == [proposta[p] EXCEPT !.status = "rascunho", !.versao = 1,
                                         !.itens = itens]
            l == [versao |-> 1, preco |-> proposta[p].preco, por |-> Nenhum]
<1>2. itens \in SUBSET Versoes /\ proposta[p].preco \in Precos
    BY <1>1, Limites DEF LinhaProposta
<1>3. l \in LinhaVersao
    BY <1>2, Limites DEF LinhaVersao
<1>4. linha \in LinhaProposta
    <2>. HIDE DEF itens
    <2>. QED
        BY <1>1, <1>2, Limites DEF LinhaProposta, Status
<1>5. proposta' = [proposta EXCEPT ![q] = linha]
    BY <1>1 DEF DuplicarProposta
<1>6. versoes' = [versoes EXCEPT ![q] = {l}]
    BY DEF DuplicarProposta
<1>. HIDE DEF linha, l
<1>7. /\ proposta' \in [Propostas -> LinhaProposta \cup {Nenhum}]
      /\ versoes' \in [Propostas -> SUBSET LinhaVersao]
    BY <1>3, <1>4, <1>5, <1>6 DEF TypeOK
<1>. QED
    BY <1>7 DEF TypeOK, DuplicarProposta, vContrato, vGeracao

SalvamentoOK == [proposta : Propostas, preco : Precos,
                 fase : {"lida", "apagada"}, apaga : SUBSET Versoes]

LEMMA SessaoTipo ==
    ASSUME TypeOK, NEW s \in Sessoes, sessao[s] # Nenhum
    PROVE  sessao[s] \in SalvamentoOK
BY DEF TypeOK, SalvamentoOK

LEMMA LeTipo ==
    ASSUME TypeOK, NEW s \in Sessoes, NEW p \in Propostas, NEW preco \in Precos,
           LerParaSalvar(s, p, preco)
    PROVE  TypeOK'
<1>. DEFINE x == [proposta |-> p, preco |-> preco, fase |-> "lida", apaga |-> {}]
<1>1. x \in SalvamentoOK
    BY DEF SalvamentoOK
<1>2. sessao' = [sessao EXCEPT ![s] = x]
    BY DEF LerParaSalvar
<1>. HIDE DEF x
<1>3. sessao' \in [Sessoes -> {Nenhum} \cup SalvamentoOK]
    BY <1>1, <1>2 DEF TypeOK, SalvamentoOK
<1>. QED
    BY <1>3 DEF TypeOK, SalvamentoOK, LerParaSalvar, vContrato, vGeracao

LEMMA ApagaTipo ==
    ASSUME TypeOK, TiposP, NEW s \in Sessoes, ApagarItens(s)
    PROVE  TypeOK'
<1>1. /\ sessao[s] \in SalvamentoOK
      /\ proposta[sessao[s].proposta] \in LinhaProposta
    BY SessaoTipo, LinhaEmUso DEF ApagarItens, TiposP
<1>. DEFINE itens == proposta[sessao[s].proposta].itens
            x == [sessao[s] EXCEPT !.fase = "apagada", !.apaga = itens]
<1>2. itens \in SUBSET Versoes
    BY <1>1 DEF LinhaProposta
<1>3. x \in SalvamentoOK
    <2>. HIDE DEF itens
    <2>. QED
        BY <1>1, <1>2 DEF SalvamentoOK
<1>4. sessao' = [sessao EXCEPT ![s] = x]
    BY DEF ApagarItens
<1>. HIDE DEF x
<1>5. sessao' \in [Sessoes -> {Nenhum} \cup SalvamentoOK]
    BY <1>3, <1>4 DEF TypeOK, SalvamentoOK
<1>. QED
    BY <1>5 DEF TypeOK, SalvamentoOK, ApagarItens, vContrato, vGeracao

LEMMA SalvaTipo ==
    ASSUME ITipos, NEW s \in Sessoes, SalvarComposicao(s)
    PROVE  TypeOK'
<1>0. TypeOK /\ TiposP
    BY DEF ITipos, IInv, Tipos
<1>. PICK p : p = sessao[s].proposta
    OBVIOUS
<1>1. /\ sessao[s] # Nenhum /\ sessao[s] \in SalvamentoOK
      /\ p \in EmUso /\ p \in Propostas /\ proposta[p] \in LinhaProposta
    BY <1>0, SessaoTipo, LinhaEmUso DEF SalvarComposicao, TiposP
<1>. DEFINE v == proposta[p].versao + 1
            c == sessao[s].preco
            itens == (proposta[p].itens \ sessao[s].apaga) \cup {v}
            linha == [proposta[p] EXCEPT !.preco = c, !.piso = Piso, !.versao = v, !.itens = itens]
            l == [versao |-> v, preco |-> c, por |-> s]
<1>2. v \in Versoes
    BY <1>1, CabeMaisUma
<1>3. c \in Precos /\ proposta[p].itens \in SUBSET Versoes
    BY <1>1 DEF LinhaProposta, SalvamentoOK
<1>4. proposta' = [proposta EXCEPT ![p] = linha]
    BY DEF SalvarComposicao, Atualizar
<1>5. versoes' = [versoes EXCEPT ![p] = @ \cup {l}]
    BY DEF SalvarComposicao
<1>. HIDE DEF v, c
<1>6. itens \in SUBSET Versoes /\ l \in LinhaVersao
    BY <1>2, <1>3 DEF LinhaVersao
<1>. HIDE DEF itens, l
<1>7. linha \in LinhaProposta
    BY <1>1, <1>2, <1>3, <1>6 DEF LinhaProposta
<1>. HIDE DEF linha
<1>8. /\ proposta' \in [Propostas -> LinhaProposta \cup {Nenhum}]
      /\ versoes' \in [Propostas -> SUBSET LinhaVersao]
    BY <1>0, <1>1, <1>4, <1>5, <1>6, <1>7 DEF TypeOK
<1>9. sessao' \in [Sessoes -> {Nenhum} \cup SalvamentoOK]
    BY <1>0 DEF TypeOK, SalvamentoOK, SalvarComposicao
<1>. QED
    BY <1>0, <1>8, <1>9 DEF TypeOK, SalvamentoOK, SalvarComposicao, vContrato, vGeracao

LEMMA ForcaTipo ==
    ASSUME TypeOK, NEW p \in Propostas, NEW preco \in Precos, ForcarPreco(p, preco)
    PROVE  TypeOK'
<1>1. proposta[p] \in LinhaProposta
    BY LinhaEmUso DEF ForcarPreco
<1>2. [proposta[p] EXCEPT !.preco = preco] \in LinhaProposta
    BY <1>1 DEF LinhaProposta
<1>3. proposta' \in [Propostas -> LinhaProposta \cup {Nenhum}]
    BY <1>2 DEF TypeOK, ForcarPreco
<1>. QED
    BY <1>3 DEF TypeOK, ForcarPreco, vContrato, vGeracao

LEMMA AtualizaTipo ==
    ASSUME TypeOK, NEW p \in EmUso, NEW st \in Status,
           Atualizar(p, [proposta[p] EXCEPT !.status = st])
    PROVE  proposta' \in [Propostas -> LinhaProposta \cup {Nenhum}]
<1>1. p \in Propostas /\ proposta[p] \in LinhaProposta
    BY LinhaEmUso
<1>2. [proposta[p] EXCEPT !.status = st] \in LinhaProposta
    BY <1>1 DEF LinhaProposta
<1>. QED
    BY <1>1, <1>2 DEF TypeOK, Atualizar

LEMMA MudaTipo ==
    ASSUME TypeOK, NEW p \in Propostas, NEW st \in Status, MudarStatus(p, st)
    PROVE  TypeOK'
<1>1. proposta' \in [Propostas -> LinhaProposta \cup {Nenhum}]
    BY AtualizaTipo DEF MudarStatus
<1>. QED
    BY <1>1 DEF TypeOK, MudarStatus, vContrato, vGeracao

LEMMA DecideTipo ==
    ASSUME TypeOK, NEW p \in Propostas, NEW d \in Decisoes, DecidirProposta(p, d)
    PROVE  TypeOK'
<1>1. proposta' \in [Propostas -> LinhaProposta \cup {Nenhum}]
    BY AtualizaTipo DEF DecidirProposta, Decisoes, Status
<1>2. etapa' \in EtapasAtivas \cup {"aberta"} /\ decisao' \in [Propostas -> Decisoes \cup {Nenhum}]
    BY DEF TypeOK, DecidirProposta, Mover
<1>. QED
    BY <1>1, <1>2 DEF TypeOK, DecidirProposta, vContrato, vGeracao

LEMMA ContrataTipo ==
    ASSUME TypeOK, NEW p \in Propostas, CriarContrato(p)
    PROVE  TypeOK'
<1>. DEFINE avulso == proposta[p].tipo # "volante"
            c == [tipo |-> IF avulso THEN "avulso" ELSE "volante",
                  valor |-> IF avulso THEN 0 ELSE proposta[p].preco,
                  status |-> "rascunho", plano |-> Nenhum]
<1>1. proposta[p] \in LinhaProposta
    BY LinhaEmUso DEF CriarContrato
<1>2. 0 \in Precos /\ proposta[p].preco \in Precos
    BY <1>1, Limites DEF Precos, LinhaProposta
<1>3. c \in LinhaContrato
    BY <1>2 DEF LinhaContrato
<1>4. contrato' = [contrato EXCEPT ![p] = c]
    BY DEF CriarContrato
<1>. HIDE DEF c
<1>5. contrato' \in [Propostas -> LinhaContrato \cup {Nenhum}]
    BY <1>3, <1>4 DEF TypeOK
<1>. QED
    BY <1>5 DEF TypeOK, CriarContrato, vProposta, vGeracao

LEMMA EditaContratoTipo ==
    ASSUME TypeOK, NEW p \in Propostas, NEW t \in {"volante", "avulso"}, NEW v \in Precos,
           EditarContrato(p, t, v)
    PROVE  TypeOK'
<1>1. contrato[p] \in LinhaContrato
    BY DEF TypeOK, EditarContrato
<1>2. [contrato[p] EXCEPT !.tipo = t, !.valor = v] \in LinhaContrato
    BY <1>1 DEF LinhaContrato
<1>3. contrato' = [contrato EXCEPT ![p] = [contrato[p] EXCEPT !.tipo = t, !.valor = v]]
    BY <1>1 DEF TypeOK, EditarContrato, LinhaContrato
<1>4. contrato' \in [Propostas -> LinhaContrato \cup {Nenhum}]
    BY <1>2, <1>3 DEF TypeOK
<1>. QED
    BY <1>4 DEF TypeOK, EditarContrato, vProposta, vGeracao

LEMMA AtivaTipo ==
    ASSUME ITipos, NEW p \in Propostas, AtivarContrato(p)
    PROVE  /\ TypeOK'
           /\ \A j, k \in planos' : j.contrato = k.contrato => j = k
<1>0. TypeOK /\ contrato[p] # Nenhum /\ contrato[p].status = "rascunho"
    BY DEF ITipos, AtivarContrato
<1>1. contrato[p] \in LinhaContrato
    BY <1>0 DEF TypeOK
<1>2. \A k \in planos : k.contrato # p
    <2>1. {k.id : k \in {j \in planos : j.contrato = p}} = {}
        BY <1>0, Zenon DEF ITipos, IInv, UmPlanoPorContrato
    <2>. QED
        BY <2>1
<1>. DEFINE recorrente == contrato[p].tipo # "avulso"
            id == Cardinality(planos) + 1
            x == IF recorrente THEN id ELSE Nenhum
            c == [contrato[p] EXCEPT !.status = "ativo", !.plano = x]
            k == [id |-> id, contrato |-> p, status |-> "ativo"]
<1>3. id \in PlanoIds
    BY <1>2, CabeMaisUmPlano
<1>4. k \in LinhaPlano /\ k.contrato = p
    <2>. HIDE DEF id
    <2>. QED
        BY <1>3 DEF LinhaPlano, StatusPlano
<1>5. x \in PlanoIds \cup {Nenhum}
    BY <1>3
<1>6. c \in LinhaContrato
    <2>. HIDE DEF x
    <2>. QED
        BY <1>1, <1>5 DEF LinhaContrato
<1>7. contrato' = [contrato EXCEPT ![p] = c]
    BY <1>0, <1>1 DEF AtivarContrato, TypeOK, LinhaContrato
<1>8. planos' = planos \cup {k} \/ planos' = planos
    BY DEF AtivarContrato
<1>. HIDE DEF k, c, x
<1>9. contrato' \in [Propostas -> LinhaContrato \cup {Nenhum}] /\ planos' \subseteq LinhaPlano
    BY <1>0, <1>4, <1>6, <1>7, <1>8 DEF TypeOK
<1>10. etapa' \in EtapasAtivas \cup {"aberta"}
    BY <1>0 DEF TypeOK, AtivarContrato, Mover
<1>11. \A j, m \in planos' : j.contrato = m.contrato => j = m
    BY <1>2, <1>4, <1>8 DEF ITipos, Contaveis
<1>. QED
    BY <1>0, <1>9, <1>10, <1>11 DEF TypeOK, AtivarContrato, vProposta, vGeracao

LEMMA ComStatusPlanos ==
    ASSUME ITipos, NEW id, NEW st \in StatusPlano, planos' = ComStatus(id, st)
    PROVE  /\ planos' \subseteq LinhaPlano
           /\ \A j, k \in planos' : j.contrato = k.contrato => j = k
<1>. DEFINE g(k) == IF k.id = id THEN [k EXCEPT !.status = st] ELSE k
<1>1. ASSUME NEW k \in planos PROVE g(k) \in LinhaPlano /\ g(k).contrato = k.contrato
    BY DEF ITipos, TypeOK, LinhaPlano
<1>2. planos' = {g(k) : k \in planos}
    BY DEF ComStatus
<1>. HIDE DEF g
<1>. QED
    BY <1>1, <1>2 DEF ITipos, Contaveis

LEMMA EncerraTipo ==
    ASSUME ITipos, NEW p \in Propostas, EncerrarContrato(p)
    PROVE  /\ TypeOK'
           /\ \A j, k \in planos' : j.contrato = k.contrato => j = k
<1>0. TypeOK /\ contrato[p] \in LinhaContrato
    BY DEF ITipos, TypeOK, EncerrarContrato
<1>1. [contrato[p] EXCEPT !.status = "encerrado"] \in LinhaContrato
    BY <1>0 DEF LinhaContrato
<1>2. contrato' \in [Propostas -> LinhaContrato \cup {Nenhum}]
    BY <1>0, <1>1 DEF TypeOK, EncerrarContrato
<1>3. /\ planos' \subseteq LinhaPlano
      /\ \A j, k \in planos' : j.contrato = k.contrato => j = k
    BY ComStatusPlanos DEF EncerrarContrato, StatusPlano
<1>. QED
    BY <1>0, <1>2, <1>3 DEF TypeOK, EncerrarContrato, vProposta, vGeracao

LEMMA EditaTipo ==
    ASSUME ITipos, NEW k \in planos, NEW st \in StatusPlano, EditarPlano(k, st)
    PROVE  /\ TypeOK'
           /\ \A j, m \in planos' : j.contrato = m.contrato => j = m
<1>1. /\ planos' \subseteq LinhaPlano
      /\ \A j, m \in planos' : j.contrato = m.contrato => j = m
    BY ComStatusPlanos DEF EditarPlano
<1>. QED
    BY <1>1 DEF ITipos, TypeOK, EditarPlano, vProposta, vGeracao

LEMMA LeAtivosTipo ==
    ASSUME TypeOK, NEW r \in Execucoes, NEW m \in Meses, LerPlanosAtivos(r, m)
    PROVE  TypeOK'
<1>1. Ativos \in SUBSET PlanoIds
    BY DEF Ativos, TypeOK, LinhaPlano
<1>2. execucao' = [execucao EXCEPT ![r] = [mes |-> m, planos |-> Ativos]]
    BY DEF LerPlanosAtivos
<1>3. execucao' \in [Execucoes -> {Nenhum} \cup [mes : Meses, planos : SUBSET PlanoIds]]
    BY <1>1, <1>2 DEF TypeOK
<1>. QED
    BY <1>3 DEF TypeOK, LerPlanosAtivos, vProposta, vContrato

LEMMA GravaTipo ==
    ASSUME TypeOK, NEW r \in Execucoes, GravarRecebiveis(r)
    PROVE  TypeOK'
<1>1. execucao[r] \in [mes : Meses, planos : SUBSET PlanoIds]
    BY DEF TypeOK, GravarRecebiveis
<1>2. recebiveis' \subseteq Recebivel
    <2>1. \A l \in recebiveis' : l \in recebiveis \/ \E id \in execucao[r].planos :
                                   l = [plano |-> id, mes |-> execucao[r].mes, por |-> r]
        BY DEF GravarRecebiveis
    <2>. QED
        BY <1>1, <2>1 DEF TypeOK, Recebivel
<1>3. execucao' \in [Execucoes -> {Nenhum} \cup [mes : Meses, planos : SUBSET PlanoIds]]
    BY DEF TypeOK, GravarRecebiveis
<1>. QED
    BY <1>2, <1>3 DEF TypeOK, GravarRecebiveis, vProposta, vContrato

-----------------------------------------------------------------------------
(* Each action keeps the count of the saves.                               *)

SalvosContados == IsFiniteSet(Salvos) /\ Cardinality(Salvos) <= MaxSalvos

LEMMA NovaConta ==
    ASSUME TypeOK, SalvosContados, NEW p \in Propostas, NEW l, l.versao = 1,
           versoes' = [versoes EXCEPT ![p] = {l}], UNCHANGED sessao
    PROVE  SalvosContados'
<1>1. Salvos' \subseteq Salvos
    <2>1. ASSUME NEW x \in Propostas \X Versoes, x[2] > 1, \E m \in versoes'[x[1]] : m.versao = x[2]
          PROVE  \E m \in versoes[x[1]] : m.versao = x[2]
        <3>1. x[1] \in Propostas /\ x[2] # 1
            BY <2>1, Limites
        <3>2. x[1] # p
            BY <2>1, <3>1 DEF TypeOK
        <3>. QED
            BY <2>1, <3>1, <3>2 DEF TypeOK
    <2>. QED
        BY <2>1 DEF Salvos
<1>. PICK T : T = Salvos'
    OBVIOUS
<1>2. IsFiniteSet(T) /\ Cardinality(T) <= MaxSalvos
    BY <1>1, MenosSalvos DEF SalvosContados
<1>. QED
    BY <1>2 DEF SalvosContados

LEMMA LeConta ==
    ASSUME TypeOK, SalvosContados, NEW s \in Sessoes, NEW p \in Propostas, NEW preco \in Precos,
           LerParaSalvar(s, p, preco)
    PROVE  SalvosContados'
<1>1. Salvos' \subseteq Salvos \cup {s}
    BY DEF Salvos, LerParaSalvar, TypeOK
<1>2. /\ IsFiniteSet(Salvos \cup {s})
      /\ Cardinality(Salvos \cup {s}) <= MaxSalvos
    BY MaisSalvo DEF SalvosContados, LerParaSalvar
<1>. PICK T, S : T = Salvos' /\ S = Salvos \cup {s}
    OBVIOUS
<1>3. IsFiniteSet(T) /\ Cardinality(T) <= MaxSalvos
    BY <1>1, <1>2, MenosSalvos
<1>. QED
    BY <1>3 DEF SalvosContados

LEMMA ApagaConta ==
    ASSUME TypeOK, SalvosContados, NEW s \in Sessoes, ApagarItens(s)
    PROVE  SalvosContados'
<1>1. Salvos' \subseteq Salvos
    BY DEF Salvos, ApagarItens, TypeOK
<1>. PICK T : T = Salvos'
    OBVIOUS
<1>2. IsFiniteSet(T) /\ Cardinality(T) <= MaxSalvos
    BY <1>1, MenosSalvos DEF SalvosContados
<1>. QED
    BY <1>2 DEF SalvosContados

\* A save that ends is counted as the version it wrote.
LEMMA SalvaConta ==
    ASSUME TypeOK, SalvosContados, NEW s \in Sessoes, SalvarComposicao(s)
    PROVE  SalvosContados'
<1>. PICK p, v : p = sessao[s].proposta /\ v = proposta[p].versao + 1
    OBVIOUS
<1>. PICK l : l = [versao |-> v, preco |-> sessao[s].preco, por |-> s]
    OBVIOUS
<1>1. /\ versoes' = [versoes EXCEPT ![p] = @ \cup {l}] /\ l.versao = v
      /\ sessao' = [sessao EXCEPT ![s] = Nenhum] /\ sessao[s] # Nenhum
    BY DEF SalvarComposicao
<1>2. Salvos' \subseteq (Salvos \ {s}) \cup {<<p, v>>}
    <2>1. ASSUME NEW x \in Propostas \X Versoes, x[2] > 1, \E m \in versoes'[x[1]] : m.versao = x[2]
          PROVE  x # s /\ (x = <<p, v>> \/ \E m \in versoes[x[1]] : m.versao = x[2])
        <3>0. PICK a \in Propostas, n \in Versoes : x = <<a, n>>
            OBVIOUS
        <3>1. x \in Propostas \X Nat /\ x = <<x[1], x[2]>> /\ x[1] \in Propostas
            BY <3>0, Limites
        <3>2. x # s
            BY <3>1, ContaveisAssumption
        <3>3. CASE x[1] = p
            BY <1>1, <2>1, <3>1, <3>2, <3>3 DEF TypeOK
        <3>4. CASE x[1] # p
            BY <1>1, <2>1, <3>1, <3>2, <3>4 DEF TypeOK
        <3>. QED
            BY <3>3, <3>4
    <2>2. \A t \in Sessoes : sessao'[t] # Nenhum => t # s /\ sessao[t] # Nenhum
        BY <1>1 DEF TypeOK
    <2>. QED
        BY <2>1, <2>2 DEF Salvos
<1>3. s \in Salvos
    BY <1>1 DEF Salvos
<1>4. /\ IsFiniteSet((Salvos \ {s}) \cup {<<p, v>>})
      /\ Cardinality((Salvos \ {s}) \cup {<<p, v>>}) <= MaxSalvos
    BY <1>3, TrocaSalvo DEF SalvosContados
<1>. PICK T, S : T = Salvos' /\ S = (Salvos \ {s}) \cup {<<p, v>>}
    OBVIOUS
<1>5. IsFiniteSet(T) /\ Cardinality(T) <= MaxSalvos
    BY <1>2, <1>4, MenosSalvos
<1>. QED
    BY <1>5 DEF SalvosContados

LEMMA MesmosSalvos ==
    ASSUME SalvosContados, UNCHANGED <<versoes, sessao>>
    PROVE  SalvosContados'
<1>1. Salvos' = Salvos
    BY DEF Salvos
<1>. QED
    BY <1>1 DEF SalvosContados

LEMMA PassoTipos ==
    ASSUME ITipos, [Next]_vars
    PROVE  TypeOK' /\ Contaveis'
<1>. DEFINE Unico == \A j, k \in planos : j.contrato = k.contrato => j = k
<1>0. TypeOK /\ TiposP /\ SalvosContados /\ Unico
    BY DEF ITipos, IInv, Tipos, Contaveis, SalvosContados
<1>1. CASE Editar
    <2>1. UNCHANGED planos
        BY <1>1 DEF Editar, CriarProposta, DuplicarProposta, LerParaSalvar, ApagarItens,
                    SalvarComposicao, ForcarPreco, MudarStatus, vContrato
    <2>2. Unico'
        BY <1>0, <2>1
    <2>3. TypeOK'
        BY <1>0, <1>1, CriaTipo, DuplicaTipo, LeTipo, ApagaTipo, SalvaTipo, ForcaTipo, MudaTipo
           DEF Editar
    <2>4. ASSUME NEW p \in Propostas, NEW t \in {"volante", "simples"}, CriarProposta(p, t)
          PROVE  SalvosContados'
        <3>. PICK l : l = [versao |-> 1, preco |-> 0, por |-> Nenhum]
            OBVIOUS
        <3>1. l.versao = 1 /\ versoes' = [versoes EXCEPT ![p] = {l}] /\ UNCHANGED sessao
            BY <2>4 DEF CriarProposta
        <3>. QED
            BY <1>0, <3>1, NovaConta
    <2>5. ASSUME NEW p \in Propostas, NEW q \in Propostas, DuplicarProposta(p, q)
          PROVE  SalvosContados'
        <3>. PICK l : l = [versao |-> 1, preco |-> proposta[p].preco, por |-> Nenhum]
            OBVIOUS
        <3>1. l.versao = 1 /\ versoes' = [versoes EXCEPT ![q] = {l}] /\ UNCHANGED sessao
            BY <2>5 DEF DuplicarProposta
        <3>. QED
            BY <1>0, <3>1, NovaConta
    <2>6. ASSUME NEW p \in Propostas,
                 \/ \E preco \in Precos : ForcarPreco(p, preco)
                 \/ \E st \in Status : MudarStatus(p, st)
          PROVE  SalvosContados'
        BY <1>0, <2>6, MesmosSalvos DEF ForcarPreco, MudarStatus
    <2>7. SalvosContados'
        BY <1>0, <1>1, <2>4, <2>5, <2>6, LeConta, ApagaConta, SalvaConta DEF Editar
    <2>. QED
        BY <2>2, <2>3, <2>7 DEF Contaveis, SalvosContados
<1>2. CASE Fechar
    <2>1. SalvosContados'
        <3>1. UNCHANGED <<versoes, sessao>>
            BY <1>2 DEF Fechar, DecidirProposta, MoverOportunidade, CriarContrato, EditarContrato,
                        AtivarContrato, EncerrarContrato, EditarPlano, vProposta
        <3>. QED
            BY <1>0, <3>1, MesmosSalvos
    <2>2. ASSUME NEW p \in Propostas, NEW d \in Decisoes, DecidirProposta(p, d)
          PROVE  TypeOK' /\ UNCHANGED planos
        BY <1>0, <2>2, DecideTipo DEF DecidirProposta, vContrato
    <2>3. ASSUME NEW e \in EtapasAtivas \cup {"aberta"}, MoverOportunidade(e)
          PROVE  TypeOK' /\ UNCHANGED planos
        BY <1>0, <2>3 DEF TypeOK, MoverOportunidade, vProposta, vContrato, vGeracao
    <2>4. ASSUME NEW p \in Propostas, CriarContrato(p)
          PROVE  TypeOK' /\ UNCHANGED planos
        BY <1>0, <2>4, ContrataTipo DEF CriarContrato
    <2>7. ASSUME NEW p \in Propostas, NEW t \in {"volante", "avulso"}, NEW v \in Precos,
                 EditarContrato(p, t, v)
          PROVE  TypeOK' /\ UNCHANGED planos
        BY <1>0, <2>7, EditaContratoTipo DEF EditarContrato
    <2>5. TypeOK' /\ (UNCHANGED planos \/ Unico')
        BY <1>2, <2>7, <2>2, <2>3, <2>4, AtivaTipo, EncerraTipo, EditaTipo DEF Fechar
    <2>6. Unico'
        BY <1>0, <2>5
    <2>. QED
        BY <2>1, <2>5, <2>6 DEF Contaveis, SalvosContados
<1>3. CASE Gerar
    <2>1. UNCHANGED <<versoes, sessao, planos>>
        BY <1>3 DEF Gerar, LerPlanosAtivos, GravarRecebiveis, vProposta, vContrato
    <2>2. SalvosContados' /\ Unico'
        BY <1>0, <2>1, MesmosSalvos
    <2>3. TypeOK'
        BY <1>0, <1>3, LeAtivosTipo, GravaTipo DEF Gerar
    <2>. QED
        BY <2>2, <2>3 DEF Contaveis, SalvosContados
<1>4. CASE UNCHANGED vars
    <2>1. UNCHANGED <<proposta, versoes, forcos, decisao, sessao, etapa, contrato, planos,
                      execucao, recebiveis>>
        BY <1>4 DEF vars, vProposta, vContrato, vGeracao
    <2>2. SalvosContados' /\ Unico'
        BY <1>0, <2>1, MesmosSalvos
    <2>3. TypeOK'
        BY <1>0, <2>1 DEF TypeOK
    <2>. QED
        BY <2>2, <2>3 DEF Contaveis, SalvosContados
<1>. QED
    BY <1>1, <1>2, <1>3, <1>4 DEF Next

\* Every table and every call under way has its shape, with the numbers within
\* the bounds: no version beyond the saves, no plan beyond the proposals.
THEOREM TipoDoComercial == Spec => []TypeOK
<1>1. Init => TypeOK /\ Contaveis
    <2>. SUFFICES ASSUME Init PROVE TypeOK /\ Contaveis
        OBVIOUS
    <2>1. TypeOK
        BY DEF Init, TypeOK
    <2>2. Salvos = {}
        BY DEF Init, Salvos
    <2>3. IsFiniteSet(Salvos) /\ Cardinality(Salvos) = 0
        BY <2>2, FS_EmptySet, Zenon
    <2>. QED
        BY <2>1, <2>3, Limites DEF Init, Contaveis
<1>2. ITipos /\ [Next]_vars => TypeOK' /\ Contaveis'
    BY PassoTipos
<1>3. IInv /\ TypeOK /\ Contaveis /\ [Next]_vars => TypeOK' /\ Contaveis'
    BY <1>2 DEF ITipos
<1>. QED
    BY <1>1, <1>3, Inducao, PTL DEF Spec
=============================================================================
