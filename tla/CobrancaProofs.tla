--------------------------- MODULE CobrancaProofs ---------------------------
(***************************************************************************)
(* Proofs about charges, for any number of receivables, kinds, emissions,  *)
(* webhooks, reconciliations and payments, and any faults.                 *)
(***************************************************************************)
EXTENDS Cobranca, SequenceTheorems, TLAPS

\* What is noted of a payment, it was once.
NotaCerta(k, s) == k \in DOMAIN mp /\ s \in StatusCobr /\ mp[k].status \in Confirma(s)

\* NuncaAdiante, for the functions under way as well.
NotasCertas ==
    /\ \A k \in DOMAIN cobr : NotaCerta(k, cobr[k])
    /\ \A ev \in eventos : NotaCerta(ev[1], ev[2])
    /\ \A e \in Emissores : emis[e].pc = "inserir" => NotaCerta(emis[e].pg, emis[e].status)
    /\ \A m \in Manipuladores :
         mani[m].pc \in {"registrar", "atualizar", "baixar"} =>
             NotaCerta(mani[m].pg, mani[m].visto)

\* Handlers work on charges that were inserted.
SoDasInseridas ==
    /\ \A m \in Manipuladores : mani[m].pc # "ocioso" => mani[m].pg \in DOMAIN cobr
    /\ \A c \in Reconciliadores : lista[c] \subseteq DOMAIN cobr

IInv == TypeOK /\ NotasCertas /\ SoDasInseridas /\ PagamentoUnico /\ AplicacaoUnica

-----------------------------------------------------------------------------
(* Statuses.                                                               *)

LEMMA MapaConfirma ==
    ASSUME NEW s \in StatusMP
    PROVE  MapaStatus(s) \in StatusCobr /\ s \in Confirma(MapaStatus(s))
  BY DEF StatusMP, StatusCobr, MapaStatus, Confirma

LEMMA SucessorConfirma ==
    ASSUME NEW s \in StatusMP, NEW t \in Sucessores(s), NEW c \in StatusCobr, s \in Confirma(c)
    PROVE  t \in StatusMP /\ t \in Confirma(c)
  BY DEF StatusMP, StatusCobr, Sucessores, Confirma

LEMMA PendenteConfirma == \A s \in StatusMP : s \in Confirma(MapaStatus("pending"))
  BY DEF StatusMP, MapaStatus, Confirma

\* Payments are only added, and one that was there only moves on.
Cresce ==
    /\ mp' \in Seq(Pagamento)
    /\ DOMAIN mp \subseteq DOMAIN mp'
    /\ \A k \in DOMAIN mp : mp'[k].status \in {mp[k].status} \cup Sucessores(mp[k].status)

LEMMA PagamentoDe ==
    ASSUME TypeOK, NEW k \in DOMAIN mp
    PROVE  mp[k] \in Pagamento /\ mp[k].status \in StatusMP /\ mp[k].rec \in Recebiveis
<1>1. mp \in Seq(Pagamento)
  BY DEF TypeOK
<1>2. mp[k] \in Pagamento
  BY <1>1
<1>3. QED
  BY <1>2 DEF Pagamento

LEMMA NotaFica ==
    ASSUME TypeOK, Cresce, NEW k, NEW s, NotaCerta(k, s)
    PROVE  k \in DOMAIN mp' /\ s \in StatusCobr /\ mp'[k].status \in Confirma(s)
<1>1. k \in DOMAIN mp /\ s \in StatusCobr /\ mp[k].status \in Confirma(s)
  BY DEF NotaCerta
<1>2. mp[k].status \in StatusMP
  BY <1>1, PagamentoDe
<1>3. k \in DOMAIN mp' /\ mp'[k].status \in {mp[k].status} \cup Sucessores(mp[k].status)
  BY <1>1 DEF Cresce
<1>4. \A t \in Sucessores(mp[k].status) : t \in Confirma(s)
  BY <1>1, <1>2, SucessorConfirma
<1>5. QED
  BY <1>1, <1>3, <1>4

\* The record a function is in.
LEMMA EmissaoDe ==
    ASSUME TypeOK, NEW e \in Emissores
    PROVE  /\ emis[e].pc \in {"verificar", "criar"} =>
                emis[e] \in [pc : {"verificar", "criar"}, rec : Recebiveis, tipo : Tipos]
           /\ emis[e].pc = "inserir" =>
                emis[e] \in [pc : {"inserir"}, rec : Recebiveis, pg : Nat, status : StatusCobr]
  BY DEF TypeOK, Emissao, EmisOciosa

LEMMA ManipulacaoDe ==
    ASSUME TypeOK, NEW m \in Manipuladores
    PROVE  /\ mani[m].pc = "consultar" => mani[m] \in [pc : {"consultar"}, pg : Nat]
           /\ mani[m].pc \in {"registrar", "atualizar", "baixar"} =>
                mani[m] \in [pc : {"registrar", "atualizar", "baixar"}, pg : Nat,
                             visto : StatusCobr]
           /\ mani[m] = ManiOcioso => mani[m].pc = "ocioso"
  BY DEF TypeOK, Manipulacao, ManiOcioso

-----------------------------------------------------------------------------
(* Steps that touch neither charges nor handlers.                          *)

LEMMA MundoInv ==
    ASSUME IInv, Cresce, avisos' \subseteq DOMAIN mp', PagamentoUnico',
           emis' \in [Emissores -> Emissao],
           \A e \in Emissores : emis'[e].pc = "inserir" =>
               NotaCerta(emis[e].pg, emis[e].status)',
           lanc' \in [Recebiveis -> Lancamento], fechado' \in BOOLEAN,
           UNCHANGED <<cobr, eventos, mani, lista>>
    PROVE  IInv'
<1> USE DEF IInv
<1>1. TypeOK'
  BY DEF TypeOK, Cresce
<1>2. NotasCertas'
  <2>1. \A k \in DOMAIN cobr : NotaCerta(k, cobr[k])'
    BY NotaFica DEF NotasCertas, NotaCerta
  <2>2. \A ev \in eventos : NotaCerta(ev[1], ev[2])'
    BY NotaFica DEF NotasCertas, NotaCerta
  <2>3. ASSUME NEW m \in Manipuladores, mani[m].pc \in {"registrar", "atualizar", "baixar"}
        PROVE  NotaCerta(mani[m].pg, mani[m].visto)'
    BY <2>3, NotaFica DEF NotasCertas, NotaCerta
  <2>4. QED
    BY <2>1, <2>2, <2>3 DEF NotasCertas
<1>3. SoDasInseridas'
  BY DEF SoDasInseridas
<1>4. AplicacaoUnica'
  BY DEF AplicacaoUnica, Aplicando
<1>5. QED
  BY <1>1, <1>2, <1>3, <1>4

\* Nor payments, nor emissions.
LEMMA ParadoInv ==
    ASSUME IInv, UNCHANGED <<mp, emis, cobr, eventos, mani, lista>>,
           avisos' \subseteq DOMAIN mp,
           lanc' \in [Recebiveis -> Lancamento], fechado' \in BOOLEAN
    PROVE  IInv'
<1>1. Cresce
  BY DEF Cresce, IInv, TypeOK
<1>2. PagamentoUnico'
  BY DEF IInv, PagamentoUnico
<1>3. \A e \in Emissores : emis'[e].pc = "inserir" => NotaCerta(emis[e].pg, emis[e].status)'
  BY DEF IInv, NotasCertas, NotaCerta
<1>4. QED
  BY <1>1, <1>2, <1>3, MundoInv DEF IInv, TypeOK

LEMMA AlterarInv ==
    ASSUME IInv, NEW r \in Recebiveis, NEW novo \in Lancamento, Alterar(r, novo)
    PROVE  IInv'
<1> USE DEF IInv
<1>1. lanc' \in [Recebiveis -> Lancamento]
  BY DEF Alterar, TypeOK
<1>2. QED
  BY <1>1, ParadoInv DEF Alterar, TypeOK

LEMMA UsuarioInv ==
    ASSUME IInv, NEW r \in Recebiveis, Usuario(r)
    PROVE  IInv'
<1>1. lanc[r] \in Lancamento
  BY DEF IInv, TypeOK
<1>2. /\ \A s \in {"previsto", "realizado"} : \A b \in BOOLEAN :
           /\ [lanc[r] EXCEPT !.status = s] \in Lancamento
           /\ [lanc[r] EXCEPT !.vinculado = b] \in Lancamento
           /\ [lanc[r] EXCEPT !.status = s, !.vinculado = b] \in Lancamento
           /\ [lanc[r] EXCEPT !.status = s, !.vencimento = b] \in Lancamento
  BY <1>1 DEF Lancamento
<1>3. CASE BaixarLancamento(r)
  BY <1>2, <1>3, AlterarInv DEF BaixarLancamento
<1>4. CASE EstornarBaixa(r)
  BY <1>2, <1>4, AlterarInv DEF EstornarBaixa
<1>5. ASSUME NEW s \in {"previsto", "realizado"}, EditarLancamento(r, s)
      PROVE  IInv'
  <2>1. (s = "previsto") \in BOOLEAN
    OBVIOUS
  <2>2. [lanc[r] EXCEPT !.status = s, !.vencimento = (s = "previsto")] \in Lancamento
    BY <1>2, <2>1
  <2>3. QED
    BY <1>5, <2>2, AlterarInv DEF EditarLancamento
<1>6. CASE VincularExtrato(r)
  BY <1>2, <1>6, AlterarInv DEF VincularExtrato
<1>7. CASE DesvincularExtrato(r)
  BY <1>2, <1>7, AlterarInv DEF DesvincularExtrato
<1>8. QED
  BY <1>3, <1>4, <1>5, <1>6, <1>7 DEF Usuario

LEMMA MesInv ==
    ASSUME IInv, FecharMes \/ ReabrirMes
    PROVE  IInv'
<1> USE DEF IInv
<1>1. fechado' \in BOOLEAN
  BY DEF FecharMes, ReabrirMes
<1>2. UNCHANGED <<lanc, mp, cobr, eventos, avisos, emis, mani, lista>>
  BY DEF FecharMes, ReabrirMes
<1>3. QED
  BY <1>1, <1>2, ParadoInv DEF TypeOK

LEMMA PagamentoMudaInv ==
    ASSUME IInv, NEW k \in DOMAIN mp, PagamentoMuda(k)
    PROVE  IInv'
<1> USE DEF IInv
<1>1. PICK s \in Sucessores(mp[k].status) : mp' = [mp EXCEPT ![k].status = s]
  BY DEF PagamentoMuda
<1>2. s \in StatusMP
  BY DEF Sucessores, StatusMP
<1> DEFINE p == [mp[k] EXCEPT !.status = s]
<1>3. p \in Pagamento /\ p.status = s /\ p.rec = mp[k].rec /\ p.tipo = mp[k].tipo
  BY <1>2, PagamentoDe DEF Pagamento
<1>4. mp' = [mp EXCEPT ![k] = p]
  BY <1>1 DEF TypeOK
<1> HIDE DEF p
<1>5. /\ mp' \in Seq(Pagamento) /\ DOMAIN mp' = DOMAIN mp
      /\ mp'[k] = p /\ \A j \in DOMAIN mp \ {k} : mp'[j] = mp[j]
  BY <1>3, <1>4 DEF TypeOK
<1>6. Cresce
  BY <1>3, <1>5 DEF Cresce
<1>7. PagamentoUnico'
  BY <1>3, <1>5 DEF PagamentoUnico
<1>8. avisos' \subseteq DOMAIN mp'
  BY <1>5 DEF PagamentoMuda, TypeOK
<1>9. UNCHANGED <<lanc, fechado, cobr, eventos, emis, mani, lista>>
  BY DEF PagamentoMuda
<1>10. ASSUME NEW e \in Emissores, emis'[e].pc = "inserir"
       PROVE  NotaCerta(emis[e].pg, emis[e].status)'
  BY <1>6, <1>9, <1>10, NotaFica DEF NotasCertas, NotaCerta
<1>11. QED
  BY <1>6, <1>7, <1>8, <1>9, <1>10, MundoInv DEF TypeOK

LEMMA AvisoPerdidoInv ==
    ASSUME IInv, NEW k \in DOMAIN mp, AvisoPerdido(k)
    PROVE  IInv'
  BY ParadoInv DEF AvisoPerdido, IInv, TypeOK

-----------------------------------------------------------------------------
(* Emissions.                                                              *)

\* An emission goes to x, and Mercado Pago at most gets one payment more.
LEMMA EmissaoInv ==
    ASSUME IInv, NEW e \in Emissores, NEW x \in Emissao, emis' = [emis EXCEPT ![e] = x],
           Cresce, avisos' \subseteq DOMAIN mp', PagamentoUnico',
           x.pc = "inserir" => x.pg \in DOMAIN mp' /\ x.status \in StatusCobr
                               /\ mp'[x.pg].status \in Confirma(x.status),
           UNCHANGED <<lanc, fechado, cobr, eventos, mani, lista>>
    PROVE  IInv'
<1> USE DEF IInv
<1>1. /\ emis' \in [Emissores -> Emissao] /\ emis'[e] = x
      /\ \A d \in Emissores \ {e} : emis'[d] = emis[d]
  BY DEF TypeOK
<1>2. ASSUME NEW d \in Emissores, emis'[d].pc = "inserir"
      PROVE  NotaCerta(emis[d].pg, emis[d].status)'
  <2>1. CASE d = e
    BY <1>1, <1>2, <2>1 DEF NotaCerta
  <2>2. CASE d # e
    <3>1. NotaCerta(emis[d].pg, emis[d].status)
      BY <1>1, <1>2, <2>2 DEF NotasCertas
    <3>2. QED
      BY <3>1, <1>1, <2>2, NotaFica DEF NotaCerta
  <2>3. QED
    BY <2>1, <2>2
<1>3. QED
  BY <1>1, <1>2, MundoInv DEF TypeOK

\* ... and it gets none.
LEMMA EmissaoCalmaInv ==
    ASSUME IInv, NEW e \in Emissores, NEW x \in Emissao, emis' = [emis EXCEPT ![e] = x],
           x.pc = "inserir" => NotaCerta(x.pg, x.status),
           UNCHANGED <<lanc, fechado, mp, cobr, eventos, avisos, mani, lista>>
    PROVE  IInv'
<1>1. Cresce
  BY DEF Cresce, IInv, TypeOK
<1>2. PagamentoUnico'
  BY DEF IInv, PagamentoUnico
<1>3. QED
  BY <1>1, <1>2, EmissaoInv DEF IInv, TypeOK, NotaCerta

LEMMA OciosaTipo == EmisOciosa \in Emissao /\ EmisOciosa.pc = "ocioso"
  BY DEF Emissao, EmisOciosa

LEMMA LerLancamentoInv ==
    ASSUME IInv, NEW e \in Emissores, NEW r \in Recebiveis, NEW t \in Tipos,
           LerLancamento(e, r, t)
    PROVE  IInv'
<1> DEFINE x == [pc |-> "verificar", rec |-> r, tipo |-> t]
<1>1. x \in Emissao /\ x.pc = "verificar"
  BY DEF Emissao
<1>2. /\ emis' = [emis EXCEPT ![e] = x]
      /\ UNCHANGED <<lanc, fechado, mp, cobr, eventos, avisos, mani, lista>>
  BY DEF LerLancamento
<1> HIDE DEF x
<1>3. QED
  BY <1>1, <1>2, EmissaoCalmaInv

LEMMA SairEmissaoInv ==
    ASSUME IInv, NEW e \in Emissores, SairEmissao(e),
           UNCHANGED <<lanc, fechado, mp, cobr, eventos, avisos, mani, lista>>
    PROVE  IInv'
  BY OciosaTipo, EmissaoCalmaInv DEF SairEmissao

LEMMA VerificarAtivaInv ==
    ASSUME IInv, NEW e \in Emissores, VerificarAtiva(e)
    PROVE  IInv'
<1> DEFINE x == [emis[e] EXCEPT !.pc = "criar"]
<1>1. emis[e].pc = "verificar"
      /\ UNCHANGED <<lanc, fechado, mp, cobr, eventos, avisos, mani, lista>>
  BY DEF VerificarAtiva
<1>2. emis[e] \in [pc : {"verificar", "criar"}, rec : Recebiveis, tipo : Tipos]
  BY <1>1, EmissaoDe DEF IInv
<1>3. x \in [pc : {"verificar", "criar"}, rec : Recebiveis, tipo : Tipos] /\ x.pc = "criar"
  BY <1>2
<1>4. SairEmissao(e) \/ emis' = [emis EXCEPT ![e] = x]
  BY DEF VerificarAtiva, IInv, TypeOK
<1> HIDE DEF x
<1>5. x \in Emissao
  BY <1>3 DEF Emissao
<1>6. QED
  BY <1>1, <1>3, <1>4, <1>5, SairEmissaoInv, EmissaoCalmaInv

LEMMA CriarPagamentoInv ==
    ASSUME IInv, NEW e \in Emissores, CriarPagamento(e)
    PROVE  IInv'
<1> USE DEF IInv
<1> DEFINE r == emis[e].rec
           t == emis[e].tipo
           n == Len(mp) + 1
           x(k, s) == [pc |-> "inserir", rec |-> r, pg |-> k, status |-> MapaStatus(s)]
<1>1. /\ emis[e].pc = "criar" /\ r \in Recebiveis /\ t \in Tipos
      /\ UNCHANGED <<lanc, fechado, cobr, eventos, mani, lista>>
  BY EmissaoDe DEF CriarPagamento
<1>2. ASSUME NEW k \in Nat, NEW s \in StatusMP
      PROVE  /\ x(k, s) \in Emissao /\ x(k, s).pc = "inserir"
             /\ x(k, s).pg = k /\ x(k, s).status = MapaStatus(s)
  BY <1>1, MapaConfirma DEF Emissao
<1>3. ASSUME NEW k \in MesmaChave(r, t), NEW s \in {"pending"} \cup StatusMP,
             s \in {"pending", mp[k].status},
             emis' = [emis EXCEPT ![e] = x(k, s)], UNCHANGED <<mp, avisos>>
      PROVE  IInv'
  <2>1. k \in DOMAIN mp /\ k \in Nat /\ s \in StatusMP /\ mp[k].status \in StatusMP
    BY PagamentoDe DEF MesmaChave, StatusMP, TypeOK
  <2>2. NotaCerta(k, MapaStatus(s))
    BY <1>3, <2>1, MapaConfirma, PendenteConfirma DEF NotaCerta
  <2>3. QED
    BY <1>1, <1>2, <1>3, <2>1, <2>2, EmissaoCalmaInv
<1>4. ASSUME NEW y \in Emissao, emis' = [emis EXCEPT ![e] = y],
             y.pc = "inserir" => y = x(n, "pending"),
             MesmaChave(r, t) = {},
             mp' = Append(mp, [rec |-> r, tipo |-> t, status |-> "pending"]),
             avisos' = avisos \cup {n}
      PROVE  IInv'
  <2> DEFINE p == [rec |-> r, tipo |-> t, status |-> "pending"]
  <2>1. p \in Pagamento /\ p.rec = r /\ p.tipo = t /\ p.status = "pending"
    BY <1>1 DEF Pagamento, StatusMP
  <2>2. mp' = Append(mp, p)
    BY <1>4
  <2> HIDE DEF p
  <2>3. /\ mp' \in Seq(Pagamento) /\ DOMAIN mp' = DOMAIN mp \cup {n}
        /\ mp'[n] = p /\ n \notin DOMAIN mp /\ n \in Nat
        /\ \A k \in DOMAIN mp : mp'[k] = mp[k]
    BY <2>1, <2>2 DEF TypeOK
  <2>4. Cresce
    BY <2>3 DEF Cresce
  <2>5. PagamentoUnico'
    <3>1. \A k \in DOMAIN mp : ~(mp[k].rec = r /\ mp[k].tipo = t)
      BY <1>4 DEF MesmaChave
    <3>2. QED
      BY <2>1, <2>3, <3>1 DEF PagamentoUnico
  <2>6. avisos' \subseteq DOMAIN mp'
    BY <1>4, <2>3 DEF TypeOK
  <2>7. y.pc = "inserir" => y.pg \in DOMAIN mp' /\ y.status \in StatusCobr
                            /\ mp'[y.pg].status \in Confirma(y.status)
    <3>1. "pending" \in StatusMP
      BY DEF StatusMP
    <3>2. QED
      BY <1>2, <1>4, <2>1, <2>3, <3>1, MapaConfirma
  <2>8. QED
    BY <1>1, <1>4, <2>4, <2>5, <2>6, <2>7, EmissaoInv
<1>5. CASE SairEmissao(e) /\ UNCHANGED <<mp, avisos>>
  BY <1>1, <1>5, SairEmissaoInv
<1>6. x(n, "pending") \in Emissao
  <2>1. n \in Nat /\ "pending" \in StatusMP
    BY DEF TypeOK, StatusMP
  <2>2. QED
    BY <2>1, <1>2
<1>7. \/ \E k \in MesmaChave(r, t), s \in {"pending"} \cup StatusMP :
            /\ s \in {"pending", mp[k].status}
            /\ emis' = [emis EXCEPT ![e] = x(k, s)] \/ SairEmissao(e)
            /\ UNCHANGED <<mp, avisos>>
      \/ /\ MesmaChave(r, t) = {}
         /\ mp' = Append(mp, [rec |-> r, tipo |-> t, status |-> "pending"])
         /\ avisos' = avisos \cup {n}
         /\ emis' = [emis EXCEPT ![e] = x(n, "pending")] \/ SairEmissao(e)
      \/ SairEmissao(e) /\ UNCHANGED <<mp, avisos>>
  BY DEF CriarPagamento
<1> HIDE DEF r, t, n, x
<1>8. CASE /\ MesmaChave(r, t) = {}
           /\ mp' = Append(mp, [rec |-> r, tipo |-> t, status |-> "pending"])
           /\ avisos' = avisos \cup {n}
           /\ emis' = [emis EXCEPT ![e] = x(n, "pending")] \/ SairEmissao(e)
  BY <1>4, <1>6, <1>8, OciosaTipo DEF SairEmissao
<1>9. QED
  BY <1>3, <1>5, <1>7, <1>8

\* A row of a payment that has none yet; otherwise the statement is refused.
LEMMA InserirCobrancaInv ==
    ASSUME IInv, NEW e \in Emissores, InserirCobranca(e)
    PROVE  IInv'
<1> USE DEF IInv
<1> DEFINE k == emis[e].pg
           s == emis[e].status
<1>1. /\ SairEmissao(e) /\ NotaCerta(k, s)
      /\ UNCHANGED <<lanc, fechado, mp, eventos, avisos, mani, lista>>
  BY DEF InserirCobranca, NotasCertas
<1>2. CASE UNCHANGED cobr
  BY <1>1, <1>2, SairEmissaoInv
<1>3. CASE /\ k \notin DOMAIN cobr
           /\ cobr' = [j \in DOMAIN cobr \cup {k} |-> IF j \in DOMAIN cobr THEN cobr[j] ELSE s]
  <2> HIDE DEF k, s
  <2>1. /\ DOMAIN cobr' = DOMAIN cobr \cup {k}
        /\ \A j \in DOMAIN cobr : cobr'[j] = cobr[j]
        /\ cobr'[k] = s
    BY <1>3
  <2>2. /\ emis' \in [Emissores -> Emissao]
        /\ \A d \in Emissores : emis'[d].pc = "inserir" => emis'[d] = emis[d]
    BY <1>1, OciosaTipo DEF SairEmissao, TypeOK
  <2>3. TypeOK'
    <3>1. DOMAIN cobr' \subseteq DOMAIN mp /\ \A j \in DOMAIN cobr' : cobr'[j] \in StatusCobr
      BY <1>1, <2>1 DEF NotaCerta, TypeOK
    <3>2. QED
      BY <1>1, <2>2, <3>1 DEF TypeOK
  <2>4. NotasCertas'
    <3>1. \A j, c : NotaCerta(j, c)' <=> NotaCerta(j, c)
      BY <1>1 DEF NotaCerta
    <3>2. \A j \in DOMAIN cobr' : NotaCerta(j, cobr'[j])
      BY <1>1, <2>1 DEF NotasCertas
    <3>3. QED
      BY <1>1, <2>2, <3>1, <3>2 DEF NotasCertas
  <2>5. SoDasInseridas'
    BY <1>1, <2>1 DEF SoDasInseridas
  <2>6. PagamentoUnico' /\ AplicacaoUnica'
    BY <1>1 DEF PagamentoUnico, AplicacaoUnica, Aplicando
  <2>7. QED
    BY <2>3, <2>4, <2>5, <2>6
<1>4. QED
  BY <1>2, <1>3 DEF InserirCobranca

-----------------------------------------------------------------------------
(* Webhook and reconciliation.                                             *)

\* A handler goes to x; charges keep their place, events stay.
LEMMA ManipulacaoInv ==
    ASSUME IInv, NEW m \in Manipuladores, NEW x \in Manipulacao,
           mani' = [mani EXCEPT ![m] = x], UNCHANGED <<mp, emis, fechado>>,
           lanc' \in [Recebiveis -> Lancamento], avisos' \subseteq DOMAIN mp,
           DOMAIN cobr' = DOMAIN cobr,
           \A k \in DOMAIN cobr : NotaCerta(k, cobr'[k]),
           eventos \subseteq eventos', eventos' \subseteq (DOMAIN mp) \X StatusCobr,
           \A ev \in eventos' : NotaCerta(ev[1], ev[2]),
           \A c \in Reconciliadores : lista'[c] \subseteq lista[c],
           lista' \in [Reconciliadores -> SUBSET Nat],
           x.pc # "ocioso" => x.pg \in DOMAIN cobr,
           x.pc \in {"registrar", "atualizar", "baixar"} => NotaCerta(x.pg, x.visto),
           x.pc \in {"atualizar", "baixar"} =>
               /\ <<x.pg, x.visto>> \in eventos'
               /\ \A n \in Manipuladores \ {m} : Aplicando(n) =>
                      <<mani[n].pg, mani[n].visto>> # <<x.pg, x.visto>>
    PROVE  IInv'
<1> USE DEF IInv
<1>1. /\ mani' \in [Manipuladores -> Manipulacao] /\ mani'[m] = x
      /\ \A n \in Manipuladores \ {m} : mani'[n] = mani[n]
  BY DEF TypeOK
<1>2. TypeOK'
  <2>1. \A k \in DOMAIN cobr' : cobr'[k] \in StatusCobr
    BY DEF NotaCerta
  <2>2. QED
    BY <1>1, <2>1 DEF TypeOK
<1>3. NotasCertas'
  <2>1. \A j, c : NotaCerta(j, c)' <=> NotaCerta(j, c)
    BY DEF NotaCerta
  <2>2. \A n \in Manipuladores : mani'[n].pc \in {"registrar", "atualizar", "baixar"} =>
            NotaCerta(mani'[n].pg, mani'[n].visto)
    BY <1>1 DEF NotasCertas
  <2>3. QED
    BY <2>1, <2>2 DEF NotasCertas
<1>4. SoDasInseridas'
  BY <1>1 DEF SoDasInseridas
<1>5. PagamentoUnico'
  BY DEF PagamentoUnico
<1>6. AplicacaoUnica'
  <2> SUFFICES ASSUME NEW a \in Manipuladores, mani'[a].pc \in {"atualizar", "baixar"}
               PROVE  /\ <<mani'[a].pg, mani'[a].visto>> \in eventos'
                      /\ \A b \in Manipuladores \ {a} :
                            mani'[b].pc \in {"atualizar", "baixar"} =>
                              <<mani'[b].pg, mani'[b].visto>> # <<mani'[a].pg, mani'[a].visto>>
    BY DEF AplicacaoUnica, Aplicando
  <2>1. CASE a = m
    BY <1>1, <2>1 DEF Aplicando
  <2>2. CASE a # m
    <3>1. /\ mani'[a] = mani[a] /\ Aplicando(a)
          /\ <<mani[a].pg, mani[a].visto>> \in eventos
      BY <1>1, <2>2 DEF AplicacaoUnica, Aplicando
    <3>2. ASSUME NEW b \in Manipuladores \ {a}, mani'[b].pc \in {"atualizar", "baixar"}
          PROVE  <<mani'[b].pg, mani'[b].visto>> # <<mani[a].pg, mani[a].visto>>
      <4>1. CASE b = m
        BY <1>1, <2>2, <3>1, <3>2, <4>1
      <4>2. CASE b # m
        BY <1>1, <3>1, <3>2, <4>2 DEF AplicacaoUnica, Aplicando
      <4>3. QED
        BY <4>1, <4>2
    <3>3. QED
      BY <3>1, <3>2
  <2>3. QED
    BY <2>1, <2>2
<1>7. QED
  BY <1>2, <1>3, <1>4, <1>5, <1>6

\* ... and writes neither a charge nor an event.
LEMMA ManipulacaoCalmaInv ==
    ASSUME IInv, NEW m \in Manipuladores, NEW x \in Manipulacao,
           mani' = [mani EXCEPT ![m] = x],
           UNCHANGED <<fechado, mp, cobr, eventos, emis>>,
           lanc' \in [Recebiveis -> Lancamento], avisos' \subseteq DOMAIN mp,
           \A c \in Reconciliadores : lista'[c] \subseteq lista[c],
           lista' \in [Reconciliadores -> SUBSET Nat],
           x.pc \in {"consultar", "registrar"} => x.pg \in DOMAIN cobr,
           x.pc = "registrar" => NotaCerta(x.pg, x.visto),
           x.pc \in {"ocioso", "consultar", "registrar"}
    PROVE  IInv'
<1>1. /\ \A k \in DOMAIN cobr : NotaCerta(k, cobr'[k])
      /\ \A ev \in eventos' : NotaCerta(ev[1], ev[2])
      /\ eventos' \subseteq (DOMAIN mp) \X StatusCobr
  BY DEF IInv, NotasCertas, TypeOK
<1>2. QED
  BY <1>1, ManipulacaoInv

LEMMA ManiOciosoTipo == ManiOcioso \in Manipulacao /\ ManiOcioso.pc = "ocioso"
  BY DEF Manipulacao, ManiOcioso

LEMMA SairManipulacaoInv ==
    ASSUME IInv, NEW m \in Manipuladores, SairManipulacao(m),
           UNCHANGED <<fechado, mp, cobr, eventos, emis>>,
           lanc' \in [Recebiveis -> Lancamento], avisos' \subseteq DOMAIN mp,
           \A c \in Reconciliadores : lista'[c] \subseteq lista[c],
           lista' \in [Reconciliadores -> SUBSET Nat]
    PROVE  IInv'
  BY ManiOciosoTipo, ManipulacaoCalmaInv DEF SairManipulacao

LEMMA ConsultarTipo ==
    ASSUME NEW k \in Nat
    PROVE  /\ [pc |-> "consultar", pg |-> k] \in Manipulacao
           /\ [pc |-> "consultar", pg |-> k].pc = "consultar"
           /\ [pc |-> "consultar", pg |-> k].pg = k
  BY DEF Manipulacao

LEMMA CobrancaNat ==
    ASSUME TypeOK
    PROVE  /\ DOMAIN mp \subseteq Nat
           /\ DOMAIN cobr \subseteq Nat
  BY DEF TypeOK

LEMMA ReceberAvisoInv ==
    ASSUME IInv, NEW w \in Webhooks, ReceberAviso(w)
    PROVE  IInv'
<1> USE DEF IInv
<1>1. PICK k \in avisos :
         /\ avisos' \in {avisos, avisos \ {k}}
         /\ \/ k \in DOMAIN cobr /\ mani' = [mani EXCEPT ![w] = [pc |-> "consultar", pg |-> k]]
            \/ UNCHANGED mani
  BY DEF ReceberAviso
<1>2. /\ w \in Manipuladores /\ avisos' \subseteq DOMAIN mp
      /\ UNCHANGED <<lanc, fechado, mp, cobr, eventos, emis, lista>>
  BY <1>1 DEF Manipuladores, ReceberAviso, TypeOK
<1>3. CASE UNCHANGED mani
  BY <1>2, <1>3, ParadoInv DEF TypeOK
<1>4. CASE k \in DOMAIN cobr /\ mani' = [mani EXCEPT ![w] = [pc |-> "consultar", pg |-> k]]
  <2> DEFINE x == [pc |-> "consultar", pg |-> k]
  <2>1. x \in Manipulacao /\ x.pc = "consultar" /\ x.pg = k
    BY <1>4, CobrancaNat, ConsultarTipo
  <2>2. mani' = [mani EXCEPT ![w] = x]
    BY <1>4
  <2> HIDE DEF x
  <2>3. QED
    BY <1>2, <1>4, <2>1, <2>2, ManipulacaoCalmaInv DEF TypeOK
<1>5. QED
  BY <1>1, <1>3, <1>4

LEMMA ListarInv ==
    ASSUME IInv, NEW c \in Reconciliadores, Listar(c)
    PROVE  IInv'
<1> USE DEF IInv
<1> DEFINE L == {k \in DOMAIN cobr : cobr[k] = "pendente"}
<1>1. lista' = [lista EXCEPT ![c] = L] /\ L \subseteq DOMAIN cobr
  BY DEF Listar
<1>2. UNCHANGED <<lanc, fechado, mp, cobr, eventos, avisos, emis, mani>>
  BY DEF Listar
<1> HIDE DEF L
<1>3. lista' \in [Reconciliadores -> SUBSET Nat]
  BY <1>1, CobrancaNat DEF TypeOK
<1>4. TypeOK'
  BY <1>2, <1>3 DEF TypeOK
<1>5. NotasCertas' /\ PagamentoUnico' /\ AplicacaoUnica'
  BY <1>2 DEF NotasCertas, NotaCerta, PagamentoUnico, AplicacaoUnica, Aplicando
<1>6. SoDasInseridas'
  BY <1>1, <1>2 DEF SoDasInseridas, TypeOK
<1>7. QED
  BY <1>4, <1>5, <1>6

LEMMA EscolherInv ==
    ASSUME IInv, NEW c \in Reconciliadores, Escolher(c)
    PROVE  IInv'
<1> USE DEF IInv
<1>1. PICK k \in lista[c] : /\ lista' = [lista EXCEPT ![c] = @ \ {k}]
                            /\ mani' = [mani EXCEPT ![c] = [pc |-> "consultar", pg |-> k]]
  BY DEF Escolher
<1> DEFINE x == [pc |-> "consultar", pg |-> k]
<1>2. c \in Manipuladores /\ UNCHANGED <<lanc, fechado, mp, cobr, eventos, avisos, emis>>
  BY DEF Manipuladores, Escolher
<1>3. k \in DOMAIN cobr /\ k \in Nat
  BY CobrancaNat DEF SoDasInseridas
<1>4. x \in Manipulacao /\ x.pc = "consultar" /\ x.pg = k /\ mani' = [mani EXCEPT ![c] = x]
  BY <1>1, <1>3, ConsultarTipo
<1>5. /\ lista' \in [Reconciliadores -> SUBSET Nat]
      /\ \A d \in Reconciliadores : lista'[d] \subseteq lista[d]
  BY <1>1 DEF TypeOK
<1> HIDE DEF x
<1>6. QED
  BY <1>2, <1>3, <1>4, <1>5, ManipulacaoCalmaInv DEF TypeOK

LEMMA ConsultarInv ==
    ASSUME IInv, NEW m \in Manipuladores, Consultar(m)
    PROVE  IInv'
<1> USE DEF IInv
<1> DEFINE k == mani[m].pg
           s == MapaStatus(mp[k].status)
           x == [pc |-> "registrar", pg |-> k, visto |-> s]
<1>1. /\ mani[m].pc = "consultar"
      /\ UNCHANGED <<lanc, fechado, mp, cobr, eventos, avisos, emis, lista>>
  BY DEF Consultar
<1>2. k \in DOMAIN cobr /\ k \in DOMAIN mp /\ k \in Nat
  BY <1>1, CobrancaNat DEF SoDasInseridas, TypeOK
<1>3. NotaCerta(k, s) /\ s \in StatusCobr
  BY <1>2, PagamentoDe, MapaConfirma DEF NotaCerta
<1>4. /\ x \in Manipulacao /\ x.pc = "registrar" /\ x.pg = k /\ x.visto = s
  BY <1>2, <1>3 DEF Manipulacao
<1>5. SairManipulacao(m) \/ mani' = [mani EXCEPT ![m] = x]
  BY DEF Consultar
<1> HIDE DEF k, s, x
<1>6. CASE SairManipulacao(m)
  BY <1>1, <1>6, SairManipulacaoInv DEF TypeOK
<1>7. CASE mani' = [mani EXCEPT ![m] = x]
  BY <1>1, <1>2, <1>3, <1>4, <1>7, ManipulacaoCalmaInv DEF TypeOK
<1>8. QED
  BY <1>5, <1>6, <1>7

LEMMA ConsultaFalhaInv ==
    ASSUME IInv, NEW m \in Manipuladores, ConsultaFalha(m)
    PROVE  IInv'
  BY SairManipulacaoInv DEF ConsultaFalha, IInv, TypeOK

\* The event is new, so nobody is applying it.
LEMMA RegistrarEventoInv ==
    ASSUME IInv, NEW m \in Manipuladores, RegistrarEvento(m)
    PROVE  IInv'
<1> USE DEF IInv
<1> DEFINE ev == <<mani[m].pg, mani[m].visto>>
           x == [mani[m] EXCEPT !.pc = "atualizar"]
<1>1. /\ mani[m].pc = "registrar"
      /\ UNCHANGED <<lanc, fechado, mp, cobr, avisos, emis, lista>>
  BY DEF RegistrarEvento
<1>2. mani[m] \in [pc : {"registrar", "atualizar", "baixar"}, pg : Nat, visto : StatusCobr]
  BY <1>1, ManipulacaoDe
<1>3. /\ x \in Manipulacao /\ x.pc = "atualizar"
      /\ x.pg = mani[m].pg /\ x.visto = mani[m].visto
  BY <1>2 DEF Manipulacao
<1>4. NotaCerta(x.pg, x.visto) /\ x.pg \in DOMAIN cobr
  BY <1>1, <1>3 DEF NotasCertas, SoDasInseridas
<1>5. CASE SairManipulacao(m) /\ UNCHANGED eventos
  BY <1>1, <1>5, SairManipulacaoInv DEF TypeOK
<1>6. CASE ev \notin eventos /\ eventos' = eventos \cup {ev} /\ mani' = [mani EXCEPT ![m] = x]
  <2>1. ev = <<x.pg, x.visto>> /\ ev[1] = x.pg /\ ev[2] = x.visto
    BY <1>3
  <2> HIDE DEF ev, x
  <2>2. /\ eventos' \subseteq (DOMAIN mp) \X StatusCobr
        /\ \A e \in eventos' : NotaCerta(e[1], e[2])
    BY <1>4, <1>6, <2>1 DEF NotaCerta, NotasCertas, TypeOK
  <2>3. \A n \in Manipuladores \ {m} : Aplicando(n) =>
            <<mani[n].pg, mani[n].visto>> # <<x.pg, x.visto>>
    BY <1>6, <2>1 DEF AplicacaoUnica
  <2>4. \A k \in DOMAIN cobr : NotaCerta(k, cobr'[k])
    BY <1>1 DEF NotasCertas
  <2>5. QED
    BY <1>1, <1>3, <1>4, <1>6, <2>1, <2>2, <2>3, <2>4, ManipulacaoInv DEF TypeOK
<1>7. QED
  BY <1>5, <1>6 DEF RegistrarEvento, TypeOK

LEMMA AtualizarCobrancaInv ==
    ASSUME IInv, NEW m \in Manipuladores, AtualizarCobranca(m)
    PROVE  IInv'
<1> USE DEF IInv
<1> DEFINE k == mani[m].pg
           x == [mani[m] EXCEPT !.pc = "baixar"]
<1>1. /\ mani[m].pc = "atualizar"
      /\ UNCHANGED <<lanc, fechado, mp, eventos, avisos, emis, lista>>
  BY DEF AtualizarCobranca
<1>2. mani[m] \in [pc : {"registrar", "atualizar", "baixar"}, pg : Nat, visto : StatusCobr]
  BY <1>1, ManipulacaoDe
<1>3. /\ x \in Manipulacao /\ x.pc = "baixar" /\ x.pg = k /\ x.visto = mani[m].visto
  BY <1>2 DEF Manipulacao
<1>4. mani' = [mani EXCEPT ![m] = x]
  BY DEF AtualizarCobranca, TypeOK
<1>5. k \in DOMAIN cobr /\ NotaCerta(k, mani[m].visto)
  BY <1>1 DEF NotasCertas, SoDasInseridas
<1>6. /\ <<k, mani[m].visto>> \in eventos
      /\ \A n \in Manipuladores \ {m} : Aplicando(n) =>
            <<mani[n].pg, mani[n].visto>> # <<k, mani[m].visto>>
  BY <1>1 DEF AplicacaoUnica, Aplicando
<1>7. cobr' = [cobr EXCEPT ![k] = mani[m].visto] \/ UNCHANGED cobr
  BY DEF AtualizarCobranca
<1> HIDE DEF k, x
<1>8. DOMAIN cobr' = DOMAIN cobr /\ \A j \in DOMAIN cobr : NotaCerta(j, cobr'[j])
  BY <1>5, <1>7 DEF NotasCertas
<1>9. \A ev \in eventos : NotaCerta(ev[1], ev[2])
  BY DEF NotasCertas
<1>10. QED
  BY <1>1, <1>3, <1>4, <1>5, <1>6, <1>8, <1>9, ManipulacaoInv DEF TypeOK

LEMMA BaixarInv ==
    ASSUME IInv, NEW m \in Manipuladores, Baixar(m)
    PROVE  IInv'
<1> USE DEF IInv
<1> DEFINE r == mp[mani[m].pg].rec
           novo == EfeitoNoLancamento(m, lanc[r])
<1>1. /\ mani[m].pc = "baixar" /\ SairManipulacao(m)
      /\ UNCHANGED <<fechado, mp, cobr, eventos, avisos, emis, lista>>
      /\ lanc' = [lanc EXCEPT ![r] = novo] \/ UNCHANGED lanc
  BY DEF Baixar
<1>2. r \in Recebiveis /\ lanc[r] \in Lancamento
  BY <1>1, PagamentoDe DEF NotasCertas, NotaCerta, TypeOK
<1>3. novo \in Lancamento
  BY <1>2 DEF EfeitoNoLancamento, Lancamento
<1> HIDE DEF r, novo
<1>4. lanc' \in [Recebiveis -> Lancamento]
  BY <1>1, <1>2, <1>3 DEF TypeOK
<1>5. QED
  BY <1>1, <1>4, SairManipulacaoInv DEF TypeOK

LEMMA QuedaInv ==
    ASSUME IInv
    PROVE  /\ \A e \in Emissores : QuedaEmissao(e) => IInv'
           /\ \A m \in Manipuladores : QuedaManipulacao(m) => IInv'
<1>1. ASSUME NEW e \in Emissores, QuedaEmissao(e)
      PROVE  IInv'
  BY <1>1, SairEmissaoInv DEF QuedaEmissao
<1>2. ASSUME NEW m \in Manipuladores, QuedaManipulacao(m)
      PROVE  IInv'
  <2>1. /\ lista' \in [Reconciliadores -> SUBSET Nat]
        /\ \A c \in Reconciliadores : lista'[c] \subseteq lista[c]
    BY <1>2 DEF QuedaManipulacao, IInv, TypeOK
  <2>2. QED
    BY <1>2, <2>1, SairManipulacaoInv DEF QuedaManipulacao, IInv, TypeOK
<1>3. QED
  BY <1>1, <1>2

-----------------------------------------------------------------------------
(* The theorems.                                                           *)

LEMMA InicioInv ==
    ASSUME Init
    PROVE  IInv
<1>1. mp = <<>> /\ mp \in Seq(Pagamento) /\ DOMAIN mp = {} /\ DOMAIN cobr = {}
  BY DEF Init
<1>2. TypeOK
  BY <1>1, OciosaTipo, ManiOciosoTipo DEF Init, TypeOK, Lancamento
<1>3. NotasCertas /\ SoDasInseridas /\ AplicacaoUnica
  BY <1>1, OciosaTipo, ManiOciosoTipo
     DEF Init, NotasCertas, SoDasInseridas, AplicacaoUnica, Aplicando
<1>4. PagamentoUnico
  BY <1>1 DEF PagamentoUnico
<1>5. QED
  BY <1>2, <1>3, <1>4 DEF IInv

LEMMA PassoInv ==
    ASSUME IInv, [Next]_vars
    PROVE  IInv'
<1>1. CASE UNCHANGED vars
  BY <1>1, ParadoInv DEF vars, IInv, TypeOK
<1>2. ASSUME NEW e \in Emissores, Emitir(e)
      PROVE  IInv'
  BY <1>2, LerLancamentoInv, VerificarAtivaInv, CriarPagamentoInv, InserirCobrancaInv
     DEF Emitir
<1>3. ASSUME NEW m \in Manipuladores, Tratar(m)
      PROVE  IInv'
  BY <1>3, ConsultarInv, RegistrarEventoInv, AtualizarCobrancaInv, BaixarInv DEF Tratar
<1>4. QED
  BY <1>1, <1>2, <1>3, UsuarioInv, MesInv, PagamentoMudaInv, AvisoPerdidoInv,
     ReceberAvisoInv, ListarInv, EscolherInv, ConsultaFalhaInv, QuedaInv DEF Next

THEOREM Invariante == Spec => []IInv
<1>1. Init => IInv
  BY InicioInv
<1>2. IInv /\ [Next]_vars => IInv'
  BY PassoInv
<1>3. QED
  BY <1>1, <1>2, PTL DEF Spec

\* Every variable keeps its type: no function stores a status the columns do
\* not admit, or names a payment that does not exist.
THEOREM TipoDaCobranca == Spec => []TypeOK
<1>1. IInv => TypeOK
  BY DEF IInv
<1>2. QED
  BY <1>1, Invariante, PTL

\* However many emissions retry, crash or lose their answer, Mercado Pago holds
\* one payment for each receivable and kind.
THEOREM NuncaPagaDuasVezes == Spec => []PagamentoUnico
<1>1. IInv => PagamentoUnico
  BY DEF IInv
<1>2. QED
  BY <1>1, Invariante, PTL

\* However many webhooks and polls meet, a change of status is applied by one.
THEOREM AplicaUmaVez == Spec => []AplicacaoUnica
<1>1. IInv => AplicacaoUnica
  BY DEF IInv
<1>2. QED
  BY <1>1, Invariante, PTL

\* A charge, an event or a handler never claims of a payment what it never was.
THEOREM NaoSeAdianta == Spec => []NuncaAdiante
<1>1. IInv => NuncaAdiante
  BY DEF IInv, NotasCertas, NotaCerta, NuncaAdiante
<1>2. QED
  BY <1>1, Invariante, PTL

\* What a handler's statement does to a receivable, a payment of it justifies.
LEMMA BaixarJustificado ==
    ASSUME IInv, NEW m \in Manipuladores, Baixar(m), NEW r \in Recebiveis
    PROVE  /\ Mudou(r, "previsto", "realizado") =>
                \E k \in DOMAIN mp : mp[k].rec = r /\ mp[k].status \in Confirma("pago")
           /\ Mudou(r, "realizado", "previsto") =>
                \E k \in DOMAIN mp : mp[k].rec = r /\ mp[k].status = "refunded"
<1> USE DEF IInv
<1> DEFINE k == mani[m].pg
           l == lanc[mp[k].rec]
<1>1. /\ NotaCerta(k, mani[m].visto)
      /\ \/ lanc' = [lanc EXCEPT ![mp[k].rec] = EfeitoNoLancamento(m, l)]
         \/ UNCHANGED lanc
  BY DEF Baixar, NotasCertas
<1>2. k \in DOMAIN mp /\ mp[k].status \in Confirma(mani[m].visto)
  BY <1>1 DEF NotaCerta
<1>3. CASE lanc'[r].status = lanc[r].status
  BY <1>3 DEF Mudou
<1>4. CASE lanc'[r].status # lanc[r].status
  <2>1. r = mp[k].rec /\ lanc'[r] = EfeitoNoLancamento(m, l) /\ l = lanc[r]
    BY <1>1, <1>4 DEF TypeOK
  <2>2. l \in Lancamento
    BY <2>1 DEF TypeOK
  <2>3. \/ mani[m].visto = "pago" /\ lanc'[r].status = "realizado"
        \/ mani[m].visto = "estornado" /\ lanc'[r].status = "previsto"
    BY <1>4, <2>1, <2>2 DEF EfeitoNoLancamento, Lancamento
  <2>4. Confirma("estornado") = {"refunded"}
    BY DEF Confirma
  <2>5. QED
    BY <1>2, <2>1, <2>3, <2>4 DEF Mudou
<1>5. QED
  BY <1>3, <1>4

\* A user's statement moves no receivable but its own.
LEMMA UsuarioSoNoSeu ==
    ASSUME IInv, NEW p \in Recebiveis, Usuario(p), NEW r \in Recebiveis, r # p
    PROVE  lanc'[r] = lanc[r]
<1>1. \A novo : Alterar(p, novo) => lanc'[r] = lanc[r]
  BY DEF Alterar, IInv, TypeOK
<1>2. QED
  BY <1>1 DEF Usuario, BaixarLancamento, EstornarBaixa, EditarLancamento,
              VincularExtrato, DesvincularExtrato

Justificado ==
    \A r \in Recebiveis :
        /\ Mudou(r, "previsto", "realizado") =>
             Usuario(r) \/ \E k \in DOMAIN mp : mp[k].rec = r /\ mp[k].status \in Confirma("pago")
        /\ Mudou(r, "realizado", "previsto") =>
             Usuario(r) \/ \E k \in DOMAIN mp : mp[k].rec = r /\ mp[k].status = "refunded"

LEMMA PassoJustificado ==
    ASSUME IInv, [Next]_vars
    PROVE  Justificado
<1>1. CASE UNCHANGED lanc
  BY <1>1 DEF Justificado, Mudou
<1>2. ASSUME NEW p \in Recebiveis, Usuario(p)
      PROVE  Justificado
  <2>1. \A r \in Recebiveis \ {p} : lanc'[r] = lanc[r]
    BY <1>2, UsuarioSoNoSeu
  <2>2. QED
    BY <1>2, <2>1 DEF Justificado, Mudou
<1>3. ASSUME NEW m \in Manipuladores, Baixar(m)
      PROVE  Justificado
  BY <1>3, BaixarJustificado DEF Justificado
<1>4. QED
  BY <1>1, <1>2, <1>3
     DEF Next, vars, FecharMes, ReabrirMes, Emitir, LerLancamento, VerificarAtiva,
         CriarPagamento, InserirCobranca, QuedaEmissao, PagamentoMuda, AvisoPerdido,
         ReceberAviso, Listar, Escolher, Tratar, Consultar, RegistrarEvento,
         AtualizarCobranca, ConsultaFalha, QuedaManipulacao

\* Only users, or money that moved at Mercado Pago, move a receivable.
THEOREM SoMovePorMotivo == Spec => MovimentoJustificado
<1>1. IInv /\ [Next]_vars => Justificado
  BY PassoJustificado
<1>2. Justificado => [\A r \in Recebiveis :
         /\ Mudou(r, "previsto", "realizado") =>
              Usuario(r) \/ \E k \in DOMAIN mp : mp[k].rec = r /\ mp[k].status \in Confirma("pago")
         /\ Mudou(r, "realizado", "previsto") =>
              Usuario(r) \/ \E k \in DOMAIN mp : mp[k].rec = r /\ mp[k].status = "refunded"]_vars
  BY DEF Justificado
<1>3. QED
  BY <1>1, <1>2, Invariante, PTL DEF Spec, MovimentoJustificado
=============================================================================
