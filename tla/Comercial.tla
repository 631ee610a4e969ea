----------------------------- MODULE Comercial -----------------------------
(***************************************************************************)
(* The commercial cycle of one opportunity: proposals edited by several    *)
(* sessions, decided by the client in the portal, turned into contracts,   *)
(* billed by a plan of the financial module and by its monthly generator.  *)
(*                                                                         *)
(* Sources: the database functions and triggers of                         *)
(* src/supabase/migrations/0183, 0184, 0189, 0193 and 0113, and the pages  *)
(* and adapters of src/apps/web/src/features/comercial and .../financeiro  *)
(* that call them.  A function that locks the row it decides on is one     *)
(* step.  fn_salvar_composicao_proposta reads the status without a lock,   *)
(* and fn_gerar_recorrencias selects before it inserts: these two are the  *)
(* steps that other transactions may fall between.                         *)
(*                                                                         *)
(* A price is a number of 0 .. PrecoMaximo and Piso the floor the engine   *)
(* computes; the items of a save are named by the version that save wrote. *)
(***************************************************************************)
EXTENDS Naturals, FiniteSets

CONSTANTS
    Propostas,      \* comercial.propostas of the opportunity
    Sessoes,        \* editor sessions saving a composition
    Execucoes,      \* runs of the generator: the cron's and the button's
    Meses,          \* competências asked of the generator
    PrecoMaximo,    \* highest price considered
    Piso,           \* floor of a saved composition
    Valores,        \* values the contract form is given
    MaxSalvos,      \* bound: saves of a composition, over all proposals
    MaxForcos,      \* bound: overrides of the floor, over all proposals
    MaxContratos,   \* bound: contracts
    EtapasAtivas,   \* terminal stages the funnel has active
    Nenhum          \* no row, no decision, idle

ASSUME LimitesAssumption ==
    /\ PrecoMaximo \in Nat
    /\ Piso \in 1 .. PrecoMaximo
    /\ Valores \subseteq 0 .. PrecoMaximo
    /\ MaxSalvos \in Nat
    /\ MaxForcos \in Nat
    /\ MaxContratos \in Nat
    /\ EtapasAtivas \subseteq {"ganha", "perdida"}
    /\ Nenhum \notin {"aceita", "recusada"}

\* An opportunity has finitely many proposals, and a session is not the number
\* of a version: the bounds count both kinds of things together.
ASSUME ContaveisAssumption ==
    /\ IsFiniteSet(Propostas)
    /\ \A s \in Sessoes : s \notin Propostas \X Nat

VARIABLES
    proposta,       \* comercial.propostas, with its live items
    versoes,        \* comercial.proposta_versoes
    forcos,         \* comercial.proposta_forcos_piso
    decisao,        \* comercial.proposta_decisoes, unique by proposal
    sessao,         \* fn_salvar_composicao_proposta under way in a session
    etapa,          \* stage of the opportunity
    contrato,       \* comercial.contratos, unique by proposal
    planos,         \* financeiro.contratos born of a comercial.contratos
    execucao,       \* fn_gerar_recorrencias under way
    recebiveis      \* financeiro.lancamentos of origin 'recorrencia'

vProposta == <<proposta, versoes, forcos, decisao, sessao>>
vContrato == <<contrato, planos>>
vGeracao == <<execucao, recebiveis>>
vars == <<vProposta, etapa, vContrato, vGeracao>>

Precos == 0 .. PrecoMaximo
Versoes == 1 .. MaxSalvos + 1
Status == {"rascunho", "em_revisao", "aprovada", "enviada",
           "aceita", "recusada", "cancelada"}
NaoEditaveis == {"enviada", "aceita", "recusada", "cancelada"}
Decisoes == {"aceita", "recusada"}
StatusPlano == {"ativo", "suspenso", "encerrado"}
PlanoIds == 1 .. Cardinality(Propostas)

(* Rows.  "simples" stands for the types that become an avulso contract,   *)
(* "volante" for those that become a recurring one; a version keeps the    *)
(* session that saved it, none for the first.                              *)
LinhaProposta == [status : Status, tipo : {"volante", "simples"},
                  preco : Precos, piso : {0, Piso},
                  versao : Versoes, itens : SUBSET Versoes]
LinhaVersao == [versao : Versoes, preco : Precos,
                por : Sessoes \cup {Nenhum}]
LinhaContrato == [tipo : {"volante", "avulso"}, valor : Precos,
                  status : {"rascunho", "ativo", "encerrado"},
                  plano : PlanoIds \cup {Nenhum}]
LinhaPlano == [id : PlanoIds, contrato : Propostas, status : StatusPlano]
Recebivel == [plano : PlanoIds, mes : Meses, por : Execucoes]

\* Null is no number, and no row whatever the numbers in it.
ASSUME NenhumAssumption ==
    /\ Nenhum \notin Nat
    /\ Nenhum \notin [status : Status, tipo : {"volante", "simples"},
                      preco : Nat, piso : Nat, versao : Nat, itens : SUBSET Nat]
    /\ Nenhum \notin [tipo : {"volante", "avulso"}, valor : Nat,
                      status : {"rascunho", "ativo", "encerrado"},
                      plano : Nat \cup {Nenhum}]

EmUso == {p \in Propostas : proposta[p] # Nenhum}
EmEdicao(p) == {s \in Sessoes : sessao[s] # Nenhum /\ sessao[s].proposta = p}

\* What the two bounds count: saves done and under way, overrides recorded.
Salvos ==
    {x \in Propostas \X Versoes :
            x[2] > 1 /\ \E l \in versoes[x[1]] : l.versao = x[2]}
        \cup {s \in Sessoes : sessao[s] # Nenhum}
Forcos == {x \in Propostas \X Precos : x[2] \in forcos[x[1]]}

Init ==
    /\ proposta = [p \in Propostas |-> Nenhum]
    /\ versoes = [p \in Propostas |-> {}]
    /\ forcos = [p \in Propostas |-> {}]
    /\ decisao = [p \in Propostas |-> Nenhum]
    /\ sessao = [s \in Sessoes |-> Nenhum]
    /\ etapa = "aberta"
    /\ contrato = [p \in Propostas |-> Nenhum]
    /\ planos = {}
    /\ execucao = [r \in Execucoes |-> Nenhum]
    /\ recebiveis = {}

-----------------------------------------------------------------------------
(* The two triggers on comercial.propostas.                                *)

\* fn_proposta_valida_piso, on every insert and update: the flag is raised
\* only inside fn_forcar_preco_abaixo_piso.
PassaPiso(linha) == linha.preco >= linha.piso

\* Mutant: an accepted proposal can still be withdrawn.
TransicoesComVolta ==
    [rascunho |-> {"em_revisao", "cancelada"},
     em_revisao |-> {"rascunho", "aprovada", "cancelada"},
     aprovada |-> {"enviada", "cancelada"},
     enviada |-> {"aceita", "recusada", "cancelada"},
     aceita |-> {"cancelada"}, recusada |-> {}, cancelada |-> {}]

\* fn_proposta_transicao_status.
Transicoes ==
    [rascunho |-> {"em_revisao", "cancelada"},
     em_revisao |-> {"rascunho", "aprovada", "cancelada"},
     aprovada |-> {"enviada", "cancelada"},
     enviada |-> {"aceita", "recusada", "cancelada"},
     aceita |-> {}, recusada |-> {}, cancelada |-> {}]

PassaTransicao(de, para) == de = para \/ para \in Transicoes[de]

\* An update without the flag: either trigger aborts the transaction.
Atualizar(p, linha) ==
    /\ PassaPiso(linha)
    /\ PassaTransicao(proposta[p].status, linha.status)
    /\ proposta' = [proposta EXCEPT ![p] = linha]

-----------------------------------------------------------------------------
(* Editing a proposal.                                                     *)

CriarProposta(p, tipo) ==
    /\ proposta[p] = Nenhum
    /\ proposta' = [proposta EXCEPT ![p] =
            [status |-> "rascunho", tipo |-> tipo, preco |-> 0, piso |-> 0,
             versao |-> 1, itens |-> {}]]
    /\ versoes' = [versoes EXCEPT ![p] = {[versao |-> 1, preco |-> 0, por |-> Nenhum]}]
    /\ UNCHANGED <<forcos, decisao, sessao, etapa, vContrato, vGeracao>>

\* The page offers it once the proposal is no longer editable; the copy is
\* inserted under the floor trigger, its items copied, its version again 1.
DuplicarProposta(p, nova) ==
    /\ p \in EmUso /\ proposta[p].status \in NaoEditaveis
    /\ proposta[nova] = Nenhum
    /\ PassaPiso(proposta[p])
    /\ proposta' = [proposta EXCEPT ![nova] =
            [proposta[p] EXCEPT !.status = "rascunho", !.versao = 1,
                                !.itens = IF @ = {} THEN {} ELSE {1}]]
    /\ versoes' = [versoes EXCEPT ![nova] =
                        {[versao |-> 1, preco |-> proposta[p].preco,
                          por |-> Nenhum]}]
    /\ UNCHANGED <<forcos, decisao, sessao, etapa, vContrato, vGeracao>>

\* fn_salvar_composicao_proposta, first statement: the status is read, not
\* locked.  A price under the floor would abort the whole call, so only the
\* others are followed.
LerParaSalvar(s, p, preco) ==
    /\ sessao[s] = Nenhum
    /\ p \in EmUso /\ proposta[p].status \notin NaoEditaveis
    /\ Cardinality(Salvos) < MaxSalvos
    /\ preco >= Piso
    /\ sessao' = [sessao EXCEPT ![s] = [proposta |-> p, preco |-> preco,
                                        fase |-> "lida", apaga |-> {}]]
    /\ UNCHANGED <<proposta, versoes, forcos, decisao, etapa, vContrato,
                   vGeracao>>

\* Its delete sees the items committed so far; the rows it inserts next hold
\* a key-share lock on the proposal.
ApagarItens(s) ==
    /\ sessao[s] # Nenhum /\ sessao[s].fase = "lida"
    /\ sessao' = [sessao EXCEPT ![s] =
            [@ EXCEPT !.fase = "apagada",
                      !.apaga = proposta[sessao[s].proposta].itens]]
    /\ UNCHANGED <<proposta, versoes, forcos, decisao, etapa, vContrato,
                   vGeracao>>

\* Mutant: the new version is numbered from the items the session saw.
SalvarVersaoLida(s) ==
    /\ sessao[s] # Nenhum /\ sessao[s].fase = "apagada"
    /\ LET p == sessao[s].proposta
           v == IF sessao[s].apaga = {} THEN 2
                ELSE 1 + CHOOSE n \in sessao[s].apaga :
                            \A m \in sessao[s].apaga : m <= n
       IN  /\ Atualizar(p, [proposta[p] EXCEPT
                    !.preco = sessao[s].preco, !.piso = Piso, !.versao = v,
                    !.itens = (@ \ sessao[s].apaga) \cup {v}])
           /\ versoes' = [versoes EXCEPT ![p] =
                    @ \cup {[versao |-> v, preco |-> sessao[s].preco,
                          por |-> s]}]
    /\ sessao' = [sessao EXCEPT ![s] = Nenhum]
    /\ UNCHANGED <<forcos, decisao, etapa, vContrato, vGeracao>>

\* Its update takes the version the row has by now, then the commit.
SalvarComposicao(s) ==
    /\ sessao[s] # Nenhum /\ sessao[s].fase = "apagada"
    /\ LET p == sessao[s].proposta
           v == proposta[p].versao + 1
       IN  /\ Atualizar(p, [proposta[p] EXCEPT
                    !.preco = sessao[s].preco, !.piso = Piso, !.versao = v,
                    !.itens = (@ \ sessao[s].apaga) \cup {v}])
           /\ versoes' = [versoes EXCEPT ![p] =
                    @ \cup {[versao |-> v, preco |-> sessao[s].preco,
                          por |-> s]}]
    /\ sessao' = [sessao EXCEPT ![s] = Nenhum]
    /\ UNCHANGED <<forcos, decisao, etapa, vContrato, vGeracao>>

\* fn_forcar_preco_abaixo_piso: a superadmin's, in whatever status.
ForcarPreco(p, preco) ==
    /\ p \in EmUso
    /\ Cardinality(Forcos) < MaxForcos
    /\ proposta' = [proposta EXCEPT ![p].preco = preco]
    /\ forcos' = [forcos EXCEPT ![p] = @ \cup {preco}]
    /\ UNCHANGED <<versoes, decisao, sessao, etapa, vContrato, vGeracao>>

\* The status buttons of the editor, "Enviar" among them.
MudarStatus(p, status) ==
    /\ p \in EmUso /\ status # proposta[p].status
    /\ status = "em_revisao" => proposta[p].itens # {}
    /\ Atualizar(p, [proposta[p] EXCEPT !.status = status])
    /\ UNCHANGED <<versoes, forcos, decisao, sessao, etapa, vContrato,
                   vGeracao>>

-----------------------------------------------------------------------------
(* The client's decision and the funnel.                                   *)

\* Mutant: the card moves to a stage the funnel switched off.
MoverSempre(destino) == etapa' = destino

\* The card moves only to a stage the funnel has active.
Mover(destino) == etapa' = IF destino \in EtapasAtivas THEN destino ELSE etapa

\* fn_decidir_proposta: the row is locked for update, which waits for a save
\* that has inserted its items; one decision row, then the status and card.
DecidirProposta(p, d) ==
    /\ p \in EmUso /\ proposta[p].status = "enviada"
    /\ \A s \in EmEdicao(p) : sessao[s].fase # "apagada"
    /\ decisao[p] = Nenhum
    /\ decisao' = [decisao EXCEPT ![p] = d]
    /\ Atualizar(p, [proposta[p] EXCEPT !.status = d])
    /\ Mover(IF d = "aceita" THEN "ganha" ELSE "perdida")
    /\ UNCHANGED <<versoes, forcos, sessao, vContrato, vGeracao>>

\* The kanban of the funnel.
MoverOportunidade(destino) ==
    /\ destino \in EtapasAtivas \cup {"aberta"}
    /\ destino # etapa
    /\ etapa' = destino
    /\ UNCHANGED <<vProposta, vContrato, vGeracao>>

-----------------------------------------------------------------------------
(* Contracts and their billing plans.                                      *)

CriarContrato(p) ==
    /\ p \in EmUso /\ proposta[p].status = "aceita"
    /\ contrato[p] = Nenhum
    /\ Cardinality({q \in Propostas : contrato[q] # Nenhum}) < MaxContratos
    /\ LET avulso == proposta[p].tipo # "volante"
       IN contrato' = [contrato EXCEPT ![p] =
            [tipo |-> IF avulso THEN "avulso" ELSE "volante",
             valor |-> IF avulso THEN 0 ELSE proposta[p].preco,
             status |-> "rascunho", plano |-> Nenhum]]
    /\ UNCHANGED <<vProposta, etapa, planos, vGeracao>>

\* editarContrato of the contract adapter: an update by id alone, whatever the
\* status; a missing field is left alone, and no value is zero.
EditarContrato(p, tipo, valor) ==
    /\ contrato[p] # Nenhum
    /\ valor \in Valores \cup {contrato[p].valor}
    /\ <<tipo, valor>> # <<contrato[p].tipo, contrato[p].valor>>
    /\ contrato' = [contrato EXCEPT ![p].tipo = tipo, ![p].valor = valor]
    /\ UNCHANGED <<vProposta, etapa, planos, vGeracao>>

\* Mutant: the activation does not ask for a draft.
AtivarDeNovo(p) ==
    /\ contrato[p] # Nenhum /\ contrato[p].status # "encerrado"
    /\ contrato[p].tipo # "avulso" /\ contrato[p].valor > 0
    /\ LET id == Cardinality(planos) + 1
       IN  /\ planos' = planos \cup {[id |-> id, contrato |-> p,
                                       status |-> "ativo"]}
           /\ contrato' = [contrato EXCEPT ![p].status = "ativo",
                                           ![p].plano = id]
    /\ Mover("ganha")
    /\ UNCHANGED <<vProposta, vGeracao>>

\* fn_ativar_contrato: plan, status and card in one transaction that holds
\* the contract's row.
AtivarContrato(p) ==
    /\ contrato[p] # Nenhum /\ contrato[p].status = "rascunho"
    /\ contrato[p].tipo # "avulso" => contrato[p].valor > 0
    /\ LET id == Cardinality(planos) + 1
           recorrente == contrato[p].tipo # "avulso"
       IN  /\ planos' = IF recorrente
                        THEN planos \cup {[id |-> id, contrato |-> p,
                                           status |-> "ativo"]}
                        ELSE planos
           /\ contrato' = [contrato EXCEPT
                    ![p].status = "ativo",
                    ![p].plano = IF recorrente THEN id ELSE Nenhum]
    /\ Mover("ganha")
    /\ UNCHANGED <<vProposta, vGeracao>>

ComStatus(id, status) ==
    {IF k.id = id THEN [k EXCEPT !.status = status] ELSE k : k \in planos}

EncerrarContrato(p) ==
    /\ contrato[p] # Nenhum /\ contrato[p].status = "ativo"
    /\ contrato' = [contrato EXCEPT ![p].status = "encerrado"]
    /\ planos' = ComStatus(contrato[p].plano, "encerrado")
    /\ UNCHANGED <<vProposta, etapa, vGeracao>>

\* The contract form of the financial module writes the status it shows.
EditarPlano(k, status) ==
    /\ k \in planos /\ status # k.status
    /\ planos' = ComStatus(k.id, status)
    /\ UNCHANGED <<vProposta, etapa, contrato, vGeracao>>

-----------------------------------------------------------------------------
(* fn_gerar_recorrencias: the select of the insert, then the insert, which *)
(* does nothing on the unique (plan, competência).  A run that finds no    *)
(* active plan inserts nothing and is not followed.                        *)

Ativos == {k.id : k \in {j \in planos : j.status = "ativo"}}

LerPlanosAtivos(r, mes) ==
    /\ execucao[r] = Nenhum
    /\ Ativos # {}
    /\ execucao' = [execucao EXCEPT ![r] = [mes |-> mes, planos |-> Ativos]]
    /\ UNCHANGED <<vProposta, etapa, vContrato, recebiveis>>

\* Mutant: no unique index behind the insert.
SemConferir(id, mes) == TRUE

SemRecebivel(id, mes) ==
    ~ \E l \in recebiveis : l.plano = id /\ l.mes = mes

GravarRecebiveis(r) ==
    /\ execucao[r] # Nenhum
    /\ LET mes == execucao[r].mes
           novos == {id \in execucao[r].planos : SemRecebivel(id, mes)}
       IN recebiveis' = recebiveis \cup
                {[plano |-> id, mes |-> mes, por |-> r] : id \in novos}
    /\ execucao' = [execucao EXCEPT ![r] = Nenhum]
    /\ UNCHANGED <<vProposta, etapa, vContrato>>

-----------------------------------------------------------------------------
Editar ==
    \/ \E p \in Propostas, t \in {"volante", "simples"} : CriarProposta(p, t)
    \/ \E p, q \in Propostas : DuplicarProposta(p, q)
    \/ \E s \in Sessoes, p \in Propostas, preco \in Precos :
            LerParaSalvar(s, p, preco)
    \/ \E s \in Sessoes : ApagarItens(s)
    \/ \E s \in Sessoes : SalvarComposicao(s)
    \/ \E p \in Propostas, preco \in Precos : ForcarPreco(p, preco)
    \/ \E p \in Propostas, st \in Status : MudarStatus(p, st)

Fechar ==
    \/ \E p \in Propostas, d \in Decisoes : DecidirProposta(p, d)
    \/ \E e \in EtapasAtivas \cup {"aberta"} : MoverOportunidade(e)
    \/ \E p \in Propostas : CriarContrato(p)
    \/ \E p \in Propostas, t \in {"volante", "avulso"}, v \in Precos :
            EditarContrato(p, t, v)
    \/ \E p \in Propostas : AtivarContrato(p)
    \/ \E p \in Propostas : EncerrarContrato(p)
    \/ \E k \in planos, st \in StatusPlano : EditarPlano(k, st)

Gerar ==
    \/ \E r \in Execucoes, m \in Meses : LerPlanosAtivos(r, m)
    \/ \E r \in Execucoes : GravarRecebiveis(r)

Next == Editar \/ Fechar \/ Gerar

Spec == Init /\ [][Next]_vars

\* A transaction under way ends, and the client eventually answers a proposal
\* published in the portal: the second is an assumption about a person.
SpecDecide ==
    /\ Spec
    /\ \A s \in Sessoes : WF_vars(ApagarItens(s) \/ SalvarComposicao(s))
    /\ \A p \in Propostas :
            WF_vars(\E d \in Decisoes : DecidirProposta(p, d))

-----------------------------------------------------------------------------
(* Properties.                                                             *)

\* Every table and every call under way has the shape the code gives it.
TypeOK ==
    /\ proposta \in [Propostas -> LinhaProposta \cup {Nenhum}]
    /\ versoes \in [Propostas -> SUBSET LinhaVersao]
    /\ forcos \in [Propostas -> SUBSET Precos]
    /\ decisao \in [Propostas -> Decisoes \cup {Nenhum}]
    /\ sessao \in [Sessoes -> {Nenhum} \cup
            [proposta : Propostas, preco : Precos,
             fase : {"lida", "apagada"}, apaga : SUBSET Versoes]]
    /\ etapa \in EtapasAtivas \cup {"aberta"}
    /\ contrato \in [Propostas -> LinhaContrato \cup {Nenhum}]
    /\ planos \subseteq LinhaPlano
    /\ execucao \in [Execucoes -> {Nenhum} \cup
            [mes : Meses, planos : SUBSET PlanoIds]]
    /\ recebiveis \subseteq Recebivel

\* The history of a proposal has every version once, up to the current one,
\* and the price in force is the one of the current version or one that a
\* superadmin's override recorded: however two saves interleave, neither is
\* lost nor shares its number with the other.
HistoricoCompleto ==
    \A p \in EmUso :
        /\ {v.versao : v \in versoes[p]} = 1 .. proposta[p].versao
        /\ Cardinality(versoes[p]) = proposta[p].versao
        /\ \/ \E v \in versoes[p] : /\ v.versao = proposta[p].versao
                                   /\ v.preco = proposta[p].preco
           \/ proposta[p].preco \in forcos[p]

\* The client's answer is final: once recorded it is the status of the
\* proposal, whatever status buttons and saves were under way, and only an
\* accepted proposal has a contract.
DecisaoPrevalece ==
    \A p \in Propostas :
        /\ decisao[p] # Nenhum =>
                p \in EmUso /\ proposta[p].status = decisao[p]
        /\ contrato[p] # Nenhum =>
                p \in EmUso /\ proposta[p].status = "aceita"

Nomeado(p) ==
    IF contrato[p] = Nenhum THEN {} ELSE {contrato[p].plano} \ {Nenhum}

\* The plans born of a contract are the one it names and no other, and a draft
\* names none: whoever activates it, edits its type and value in whatever
\* status, closes it or edits the plan in the financial module, no contract is
\* billed twice or by a plan it does not know, and closing one reaches its
\* plan.  A type edited after the activation neither makes nor ends a plan.
UmPlanoPorContrato ==
    \A p \in Propostas :
        /\ {k.id : k \in {j \in planos : j.contrato = p}} = Nomeado(p)
        /\ contrato[p] # Nenhum /\ contrato[p].status = "rascunho" =>
                Nomeado(p) = {}

\* The monthly cron and the button, run together or again, never leave two
\* receivables of one plan in one month.
RecebivelUnico ==
    \A l, m \in recebiveis : l.plano = m.plano /\ l.mes = m.mes => l = m

Publicada(p) == p \in EmUso /\ proposta[p].status = "enviada"

\* A client who answers a published proposal gets the answer recorded, unless
\* the office withdrew it: no published proposal waits for ever.
PublicadaSeResolve ==
    \A p \in Propostas :
        Publicada(p) ~> ~Publicada(p)
=============================================================================
