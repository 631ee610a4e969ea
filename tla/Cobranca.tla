------------------------------ MODULE Cobranca ------------------------------
(***************************************************************************)
(* Charging a receivable through Mercado Pago: the Edge Function           *)
(* financeiro-cobranca-emitir creates the payment and its row in           *)
(* financeiro.cobrancas; financeiro-cobranca-webhook and the hourly        *)
(* financeiro-cobranca-reconciliar read the payment back, record the event *)
(* once and write the outcome to the charge and to the receivable, while   *)
(* users edit the receivable and close its month.                          *)
(*                                                                         *)
(* Every await on the database or on Mercado Pago is a step of its own.    *)
(* supabase-js returns a database error instead of throwing it, and most   *)
(* statements here ignore what it returns: a failed statement is then a    *)
(* statement that changes nothing, and the handler goes on.                *)
(*                                                                         *)
(* Abstractions.  The receivables are entries of a client with e-mail, in  *)
(* one month, and the integration is on: the other checks of the emission  *)
(* only answer 422.  The signature of the webhook is valid.  Amounts, QR   *)
(* codes and links are left out.                                           *)
(***************************************************************************)
EXTENDS Naturals, Sequences, FiniteSets

CONSTANTS
    Recebiveis,        \* rows of financeiro.lancamentos
    Tipos,             \* kinds of charge
    Emissores,         \* concurrent invocations of financeiro-cobranca-emitir
    Webhooks,          \* concurrent invocations of financeiro-cobranca-webhook
    Reconciliadores,   \* invocations of financeiro-cobranca-reconciliar
    MaxPagamentos,     \* bound: payments Mercado Pago creates
    Falhas             \* kinds of fault the environment may inject

TiposFalha == {"banco",     \* a database statement fails
               "mp",        \* Mercado Pago refuses or is down
               "resposta",  \* it created the payment, its answer was lost
               "aviso",     \* a notification is lost
               "mes",       \* the month is closed
               "queda"}     \* the isolate running a function dies

ASSUME FalhasAssumption  == Falhas \subseteq TiposFalha
ASSUME LimiteAssumption  == MaxPagamentos \in Nat
ASSUME FuncoesAssumption == Webhooks \cap Reconciliadores = {}

Manipuladores == Webhooks \cup Reconciliadores

VARIABLES
    lanc,      \* financeiro.lancamentos
    fechado,   \* the month of the receivables is closed
    mp,        \* the payments of Mercado Pago, an id being an index
    cobr,      \* financeiro.cobrancas, by external_id
    eventos,   \* financeiro.cobrancas_eventos, its unique evento_externo_id
    avisos,    \* payments with a notification on its way
    emis,      \* each emission under way
    mani,      \* each webhook or reconciliation under way
    lista      \* charges a reconciliation listed and has not reached yet

vars == <<lanc, fechado, mp, cobr, eventos, avisos, emis, mani, lista>>

StatusMP   == {"pending", "approved", "refunded", "cancelled", "expired"}
StatusCobr == {"pendente", "pago", "estornado", "cancelado", "expirado"}

\* vinculado: extrato_transacao_id is set; vencimento: data_vencimento is set.
Lancamento == [status : {"previsto", "realizado"}, vinculado : BOOLEAN, vencimento : BOOLEAN]
Pagamento  == [rec : Recebiveis, tipo : Tipos, status : StatusMP]

EmisOciosa == [pc |-> "ocioso"]
ManiOcioso == [pc |-> "ocioso"]

Emissao ==
    {EmisOciosa}
      \cup [pc : {"verificar", "criar"}, rec : Recebiveis, tipo : Tipos]
      \cup [pc : {"inserir"}, rec : Recebiveis, pg : Nat, status : StatusCobr]
Manipulacao ==
    {ManiOcioso}
      \cup [pc : {"consultar"}, pg : Nat]
      \cup [pc : {"registrar", "atualizar", "baixar"}, pg : Nat, visto : StatusCobr]

Init ==
    /\ lanc = [r \in Recebiveis |-> [status |-> "previsto", vinculado |-> FALSE,
                                     vencimento |-> TRUE]]
    /\ fechado = FALSE
    /\ mp = <<>> /\ cobr = <<>> /\ eventos = {} /\ avisos = {}
    /\ emis = [e \in Emissores |-> EmisOciosa]
    /\ mani = [m \in Manipuladores |-> ManiOcioso]
    /\ lista = [c \in Reconciliadores |-> {}]

\* Mutants: the status stored as it comes; a cancelled payment read as a refund.
MapaCru(s) == s
MapaCanceladoEstorno(s) ==
    CASE s = "approved"  -> "pago"
      [] s \in {"refunded", "cancelled"} -> "estornado"
      [] s = "expired"   -> "expirado"
      [] OTHER           -> "pendente"

\* mapStatusMercadoPago, the same in the three functions; "charged_back" and
\* "rejected" share the branch of "refunded" and "cancelled".
MapaStatus(s) ==
    CASE s = "approved"  -> "pago"
      [] s = "refunded"  -> "estornado"
      [] s = "cancelled" -> "cancelado"
      [] s = "expired"   -> "expirado"
      [] OTHER           -> "pendente"

-----------------------------------------------------------------------------
(* The receivable: users, the month and the update every writer goes by.   *)

\* The row after an UPDATE to novo, for every writer: the trigger of the
\* closed month and the check on data_vencimento refuse the statement.
Aceita(novo) == ~fechado /\ (novo.status = "previsto" => novo.vencimento)

Alterar(r, novo) ==
    /\ Aceita(novo)
    /\ lanc' = [lanc EXCEPT ![r] = novo]
    /\ UNCHANGED <<fechado, mp, cobr, eventos, avisos, emis, mani, lista>>

BaixarLancamento(r) ==
    /\ lanc[r].status = "previsto"
    /\ Alterar(r, [lanc[r] EXCEPT !.status = "realizado"])

EstornarBaixa(r) ==
    /\ lanc[r].status = "realizado" /\ ~lanc[r].vinculado
    /\ Alterar(r, [lanc[r] EXCEPT !.status = "previsto"])

\* The form is offered for rows the page showed as previsto, and writes the
\* status it holds by id alone, whatever the row has become; a realizado
\* leaves the form without a due date.
EditarLancamento(r, s) ==
    Alterar(r, [lanc[r] EXCEPT !.status = s, !.vencimento = (s = "previsto")])

\* The statements of the bank reconciliation on the receivable.
VincularExtrato(r) ==
    /\ lanc[r].status = "previsto"
    /\ Alterar(r, [lanc[r] EXCEPT !.status = "realizado", !.vinculado = TRUE])

DesvincularExtrato(r) ==
    /\ lanc[r].vinculado
    /\ Alterar(r, [lanc[r] EXCEPT !.vinculado = FALSE])

Usuario(r) ==
    \/ BaixarLancamento(r) \/ EstornarBaixa(r)
    \/ \E s \in {"previsto", "realizado"} : EditarLancamento(r, s)
    \/ VincularExtrato(r) \/ DesvincularExtrato(r)

FecharMes ==
    /\ "mes" \in Falhas
    /\ fechado' = TRUE
    /\ UNCHANGED <<lanc, mp, cobr, eventos, avisos, emis, mani, lista>>

ReabrirMes ==
    /\ fechado
    /\ fechado' = FALSE
    /\ UNCHANGED <<lanc, mp, cobr, eventos, avisos, emis, mani, lista>>

-----------------------------------------------------------------------------
(* financeiro-cobranca-emitir.                                             *)

SairEmissao(e) == emis' = [emis EXCEPT ![e] = EmisOciosa]

LerLancamento(e, r, t) ==
    /\ emis[e] = EmisOciosa
    /\ lanc[r].status = "previsto"
    /\ emis' = [emis EXCEPT ![e] = [pc |-> "verificar", rec |-> r, tipo |-> t]]
    /\ UNCHANGED <<lanc, fechado, mp, cobr, eventos, avisos, mani, lista>>

Ativas(r) == {k \in DOMAIN cobr : mp[k].rec = r /\ cobr[k] \in {"pendente", "pago"}}

\* maybeSingle answers no row, and an error nobody looks at, when the query
\* fails or when there are two.
VerificarAtiva(e) ==
    /\ emis[e].pc = "verificar"
    /\ \/ Cardinality(Ativas(emis[e].rec)) # 1 /\ emis' = [emis EXCEPT ![e].pc = "criar"]
       \/ Cardinality(Ativas(emis[e].rec)) = 1 /\ SairEmissao(e)
       \/ "banco" \in Falhas /\ emis' = [emis EXCEPT ![e].pc = "criar"]
    /\ UNCHANGED <<lanc, fechado, mp, cobr, eventos, avisos, mani, lista>>

\* Mutant: a key drawn for each attempt.
ChaveAleatoria(r, t) == {}

\* Payments already created under X-Idempotency-Key lancamentoId:tipo.
MesmaChave(r, t) == {k \in DOMAIN mp : mp[k].rec = r /\ mp[k].tipo = t}

\* The answer to a repeated key may be the payment as it was created or as it
\* is.  The answer may be lost, and the function ends with 502 or dies.
CriarPagamento(e) ==
    /\ emis[e].pc = "criar"
    /\ LET r == emis[e].rec
           t == emis[e].tipo
           Responder(k, s) ==
               \/ emis' = [emis EXCEPT ![e] =
                             [pc |-> "inserir", rec |-> r, pg |-> k, status |-> MapaStatus(s)]]
               \/ "resposta" \in Falhas /\ SairEmissao(e)
       IN  \/ \E k \in MesmaChave(r, t), s \in {"pending"} \cup StatusMP :
                /\ s \in {"pending", mp[k].status}
                /\ Responder(k, s)
                /\ UNCHANGED <<mp, avisos>>
           \/ /\ MesmaChave(r, t) = {} /\ Len(mp) < MaxPagamentos
              /\ mp' = Append(mp, [rec |-> r, tipo |-> t, status |-> "pending"])
              /\ avisos' = avisos \cup {Len(mp) + 1}
              /\ Responder(Len(mp) + 1, "pending")
           \/ "mp" \in Falhas /\ SairEmissao(e) /\ UNCHANGED <<mp, avisos>>
    /\ UNCHANGED <<lanc, fechado, cobr, eventos, mani, lista>>

\* external_id is unique: a second row for the payment is refused.
InserirCobranca(e) ==
    /\ emis[e].pc = "inserir"
    /\ \/ /\ emis[e].pg \notin DOMAIN cobr
          /\ cobr' = [k \in DOMAIN cobr \cup {emis[e].pg} |->
                        IF k \in DOMAIN cobr THEN cobr[k] ELSE emis[e].status]
       \/ emis[e].pg \in DOMAIN cobr /\ UNCHANGED cobr
       \/ "banco" \in Falhas /\ UNCHANGED cobr
    /\ SairEmissao(e)
    /\ UNCHANGED <<lanc, fechado, mp, eventos, avisos, mani, lista>>

Emitir(e) == \/ \E r \in Recebiveis, t \in Tipos : LerLancamento(e, r, t)
             \/ VerificarAtiva(e) \/ CriarPagamento(e) \/ InserirCobranca(e)

-----------------------------------------------------------------------------
(* Mercado Pago.                                                           *)

Sucessores(s) == CASE s = "pending"  -> {"approved", "cancelled", "expired"}
                   [] s = "approved" -> {"refunded"}
                   [] OTHER          -> {}

PagamentoMuda(k) ==
    /\ \E s \in Sucessores(mp[k].status) : mp' = [mp EXCEPT ![k].status = s]
    /\ avisos' = avisos \cup {k}
    /\ UNCHANGED <<lanc, fechado, cobr, eventos, emis, mani, lista>>

AvisoPerdido(k) ==
    /\ "aviso" \in Falhas
    /\ avisos' = avisos \ {k}
    /\ UNCHANGED <<lanc, fechado, mp, cobr, eventos, emis, mani, lista>>

-----------------------------------------------------------------------------
(* financeiro-cobranca-webhook and financeiro-cobranca-reconciliar.        *)

SairManipulacao(m) == mani' = [mani EXCEPT ![m] = ManiOcioso]

\* A notification names the payment only, may come twice, and is answered 200
\* and forgotten when its charge is not (yet) known.
ReceberAviso(w) ==
    /\ mani[w] = ManiOcioso
    /\ \E k \in avisos :
         /\ avisos' \in {avisos, avisos \ {k}}
         /\ \/ k \in DOMAIN cobr /\ mani' = [mani EXCEPT ![w] = [pc |-> "consultar", pg |-> k]]
            \/ (k \notin DOMAIN cobr \/ "banco" \in Falhas) /\ UNCHANGED mani
    /\ UNCHANGED <<lanc, fechado, mp, cobr, eventos, emis, lista>>

\* The hourly run lists the charges still pendente and takes them one by one.
Listar(c) ==
    /\ mani[c] = ManiOcioso /\ lista[c] = {}
    /\ lista' = [lista EXCEPT ![c] = {k \in DOMAIN cobr : cobr[k] = "pendente"}]
    /\ UNCHANGED <<lanc, fechado, mp, cobr, eventos, avisos, emis, mani>>

Escolher(c) ==
    /\ mani[c] = ManiOcioso
    /\ \E k \in lista[c] :
         /\ lista' = [lista EXCEPT ![c] = @ \ {k}]
         /\ mani' = [mani EXCEPT ![c] = [pc |-> "consultar", pg |-> k]]
    /\ UNCHANGED <<lanc, fechado, mp, cobr, eventos, avisos, emis>>

\* The reconciliation skips a payment that is still pending.
Consultar(m) ==
    /\ mani[m].pc = "consultar"
    /\ LET s == MapaStatus(mp[mani[m].pg].status)
       IN  IF m \in Reconciliadores /\ s = "pendente"
             THEN SairManipulacao(m)
             ELSE mani' = [mani EXCEPT ![m] = [pc |-> "registrar", pg |-> mani[m].pg, visto |-> s]]
    /\ UNCHANGED <<lanc, fechado, mp, cobr, eventos, avisos, emis, lista>>

ConsultaFalha(m) ==
    /\ "mp" \in Falhas
    /\ mani[m].pc = "consultar"
    /\ SairManipulacao(m)
    /\ UNCHANGED <<lanc, fechado, mp, cobr, eventos, avisos, emis, lista>>

\* Mutants: the conflict on the event ignored; the key without the status.
RegistrarSempre(m) ==
    /\ mani[m].pc = "registrar"
    /\ eventos' = eventos \cup {<<mani[m].pg, mani[m].visto>>}
    /\ mani' = [mani EXCEPT ![m].pc = "atualizar"]
    /\ UNCHANGED <<lanc, fechado, mp, cobr, avisos, emis, lista>>
RegistrarPorPagamento(m) ==
    /\ mani[m].pc = "registrar"
    /\ IF \E ev \in eventos : ev[1] = mani[m].pg
         THEN SairManipulacao(m) /\ UNCHANGED eventos
         ELSE /\ eventos' = eventos \cup {<<mani[m].pg, mani[m].visto>>}
              /\ mani' = [mani EXCEPT ![m].pc = "atualizar"]
    /\ UNCHANGED <<lanc, fechado, mp, cobr, avisos, emis, lista>>

\* insert ... evento_externo_id = paymentId:status, unique.
RegistrarEvento(m) ==
    /\ mani[m].pc = "registrar"
    /\ LET ev == <<mani[m].pg, mani[m].visto>>
       IN  \/ /\ ev \notin eventos
              /\ eventos' = eventos \cup {ev}
              /\ mani' = [mani EXCEPT ![m].pc = "atualizar"]
           \/ (ev \in eventos \/ "banco" \in Falhas) /\ SairManipulacao(m) /\ UNCHANGED eventos
    /\ UNCHANGED <<lanc, fechado, mp, cobr, avisos, emis, lista>>

AtualizarCobranca(m) ==
    /\ mani[m].pc = "atualizar"
    /\ \/ cobr' = [cobr EXCEPT ![mani[m].pg] = mani[m].visto]
       \/ "banco" \in Falhas /\ UNCHANGED cobr
    /\ mani' = [mani EXCEPT ![m].pc = "baixar"]
    /\ UNCHANGED <<lanc, fechado, mp, eventos, avisos, emis, lista>>

\* Mutant: every status other than pago undoes the payment.
EfeitoTudoEstorna(m, l) ==
    IF mani[m].visto = "pago"
      THEN IF l.status = "previsto" THEN [l EXCEPT !.status = "realizado"] ELSE l
      ELSE IF ~l.vinculado THEN [l EXCEPT !.status = "previsto"] ELSE l

\* What the UPDATE of the handler makes of the receivable l.  Only the webhook
\* treats a refund, and not one already matched with the bank statement.
EfeitoNoLancamento(m, l) ==
    IF mani[m].visto = "pago" /\ l.status = "previsto"
      THEN [l EXCEPT !.status = "realizado"]
    ELSE IF m \in Webhooks /\ mani[m].visto = "estornado" /\ ~l.vinculado
      THEN [l EXCEPT !.status = "previsto"]
    ELSE l

\* A refused statement is not noticed.
Baixar(m) ==
    /\ mani[m].pc = "baixar"
    /\ LET r    == mp[mani[m].pg].rec
           novo == EfeitoNoLancamento(m, lanc[r])
       IN  \/ Aceita(novo) /\ lanc' = [lanc EXCEPT ![r] = novo]
           \/ (~Aceita(novo) \/ "banco" \in Falhas) /\ UNCHANGED lanc
    /\ SairManipulacao(m)
    /\ UNCHANGED <<fechado, mp, cobr, eventos, avisos, emis, lista>>

Tratar(m) == Consultar(m) \/ RegistrarEvento(m) \/ AtualizarCobranca(m) \/ Baixar(m)

\* An isolate dies; the rest of its run is lost.
QuedaEmissao(e) ==
    /\ "queda" \in Falhas
    /\ SairEmissao(e)
    /\ UNCHANGED <<lanc, fechado, mp, cobr, eventos, avisos, mani, lista>>

QuedaManipulacao(m) ==
    /\ "queda" \in Falhas
    /\ SairManipulacao(m)
    /\ lista' = [c \in Reconciliadores |-> IF c = m THEN {} ELSE lista[c]]
    /\ UNCHANGED <<lanc, fechado, mp, cobr, eventos, avisos, emis>>

-----------------------------------------------------------------------------

Next ==
    \/ \E r \in Recebiveis : Usuario(r)
    \/ FecharMes \/ ReabrirMes
    \/ \E e \in Emissores : Emitir(e) \/ QuedaEmissao(e)
    \/ \E k \in DOMAIN mp : PagamentoMuda(k) \/ AvisoPerdido(k)
    \/ \E w \in Webhooks : ReceberAviso(w)
    \/ \E c \in Reconciliadores : Listar(c) \/ Escolher(c)
    \/ \E m \in Manipuladores : Tratar(m) \/ ConsultaFalha(m) \/ QuedaManipulacao(m)

Spec == Init /\ [][Next]_vars

\* The reconciliation runs every hour, does not die every time at one point,
\* and Mercado Pago answers it in the end; a handler that started runs on unless
\* it dies.  Nothing is owed by users, payers or notifications.
FairSpec ==
    /\ Spec
    /\ \A c \in Reconciliadores :
         /\ WF_vars(Listar(c)) /\ SF_vars(Escolher(c))
         /\ SF_vars(Consultar(c)) /\ SF_vars(RegistrarEvento(c))
    /\ \A m \in Manipuladores :
         WF_vars(RegistrarEvento(m)) /\ WF_vars(AtualizarCobranca(m)) /\ WF_vars(Baixar(m))

-----------------------------------------------------------------------------
(* Properties.                                                             *)

\* Every variable keeps its type (0106:48-73, 0122:15-54).
TypeOK ==
    /\ lanc \in [Recebiveis -> Lancamento]
    /\ fechado \in BOOLEAN
    /\ mp \in Seq(Pagamento)
    /\ DOMAIN cobr \subseteq DOMAIN mp
    /\ \A k \in DOMAIN cobr : cobr[k] \in StatusCobr
    /\ eventos \subseteq (DOMAIN mp) \X StatusCobr
    /\ avisos \subseteq DOMAIN mp
    /\ emis \in [Emissores -> Emissao]
    /\ mani \in [Manipuladores -> Manipulacao]
    /\ lista \in [Reconciliadores -> SUBSET Nat]

\* Retries, lost answers, crashes and concurrent emissions never make Mercado
\* Pago create a second payment of the same kind for a receivable
\* (X-Idempotency-Key, client.ts:30-37).
PagamentoUnico ==
    \A j, k \in DOMAIN mp :
        mp[j].rec = mp[k].rec /\ mp[j].tipo = mp[k].tipo => j = k

Aplicando(m) == mani[m].pc \in {"atualizar", "baixar"}

\* A change of status is applied by one handler only: webhooks that come twice
\* and the reconciliation that meets them never apply the same one side by side
\* (AC-3 of E04-S09, unique evento_externo_id).
AplicacaoUnica ==
    \A m \in Manipuladores : Aplicando(m) =>
        /\ <<mani[m].pg, mani[m].visto>> \in eventos
        /\ \A n \in Manipuladores \ {m} : Aplicando(n) =>
              <<mani[n].pg, mani[n].visto>> # <<mani[m].pg, mani[m].visto>>

\* The Mercado Pago statuses from which a payment may have shown s.
Confirma(s) == CASE s = "pendente"  -> StatusMP
                 [] s = "pago"      -> {"approved", "refunded"}
                 [] s = "estornado" -> {"refunded"}
                 [] s = "cancelado" -> {"cancelled"}
                 [] s = "expirado"  -> {"expired"}

\* A charge never runs ahead of Mercado Pago: what its row, an event or a
\* handler says of a payment, the payment was once, however late the answer was.
NuncaAdiante ==
    /\ \A k \in DOMAIN cobr : mp[k].status \in Confirma(cobr[k])
    /\ \A ev \in eventos : mp[ev[1]].status \in Confirma(ev[2])

Mudou(r, de, para) == lanc[r].status = de /\ lanc'[r].status = para

\* Only users, or money that moved at Mercado Pago, move a receivable: it is
\* not paid without an approval, nor reopened without a refund of its own.
MovimentoJustificado ==
    [][\A r \in Recebiveis :
         /\ Mudou(r, "previsto", "realizado") =>
              Usuario(r) \/ \E k \in DOMAIN mp : mp[k].rec = r /\ mp[k].status \in Confirma("pago")
         /\ Mudou(r, "realizado", "previsto") =>
              Usuario(r) \/ \E k \in DOMAIN mp : mp[k].rec = r /\ mp[k].status = "refunded"]_vars

Aprovado(k) == k \in DOMAIN mp /\ mp[k].status = "approved"

\* An approved payment whose charge is still pendente reaches the receivable
\* even if every notification of it is lost (AC-4 of E04-S09).
PagoDaBaixa ==
    \A k \in 1..MaxPagamentos :
        (/\ Aprovado(k) /\ k \in DOMAIN cobr /\ cobr[k] = "pendente"
         /\ <<k, "pago">> \notin eventos)
          ~> (~Aprovado(k) \/ lanc[mp[k].rec].status = "realizado")

Parada(k) == Aprovado(k) /\ k \in DOMAIN cobr /\ cobr[k] = "pendente"

\* reconciliar/index.ts:1-3 says the poll revisits every charge still pendente
\* and synchronises its real status.  Refuted without any fault: once the event
\* of the approval exists, the poll leaves the charge as it is, and a webhook
\* that read the payment before it was approved may write pendente after that.
PendenteSincroniza ==
    \A k \in 1..MaxPagamentos : Parada(k) ~> ~Parada(k)

=============================================================================
