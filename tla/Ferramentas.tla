----------------------------- MODULE Ferramentas -----------------------------
(***************************************************************************)
(* Units of tools: who holds each one, kits that are handed out and        *)
(* returned as a whole, and reservations.  Postgres runs each statement in *)
(* a transaction; the two kit functions are transactions of several steps  *)
(* that hold row locks, and a reservation is created, effected or          *)
(* cancelled by a browser session in several requests.                     *)
(*                                                                         *)
(* Abstractions.  A movement of one unit is one statement whose trigger    *)
(* reads the row under its lock: one step, that waits while a kit holds    *)
(* the row.  The checks the browser makes before it are left out, for the  *)
(* trigger makes them again.  Units exist from the start.  damaged and     *)
(* lost are one condition.                                                 *)
(***************************************************************************)
EXTENDS Naturals, Sequences, FiniteSets

CONSTANTS
    Unidades, Tipos,      \* pcm.ferramenta_unidades, pcm.ferramentas
    TipoDe,               \* ferramenta_id of each unit
    Funcionarios,
    Composicoes,          \* the kit_itens a kit may be given: [Tipos -> Nat]
    Eventos,              \* bound: values of kit_atribuicao_id
    Reservas, Periodos,   \* bound: reservations; pairs <<data_inicio, data_fim>>
    Sessoes,              \* users at work, each in one operation at a time
    MaxMov,               \* bound: movements of a unit
    Nenhum                \* null

ASSUME FerramentasAssumption ==
    /\ TipoDe \in [Unidades -> Tipos]
    /\ Composicoes \subseteq [Tipos -> Nat]
    /\ Periodos \subseteq Nat \X Nat
    /\ MaxMov \in Nat
    /\ Nenhum \notin Unidades \cup Funcionarios \cup Eventos

VARIABLES
    unidade,    \* status and holder of each unit
    mov,        \* ferramenta_movimentacoes of each unit, in the order committed
    kit,        \* kit_itens of the kit
    reserva,    \* pcm.ferramenta_reservas
    sessao      \* what each user's request is doing

vars == <<unidade, mov, kit, reserva, sessao>>

Movimento == [tipo : {"atribuicao", "devolucao", "baixa"},
              com : Funcionarios \cup {Nenhum}, evento : Eventos \cup {Nenhum}, ok : BOOLEAN]
Unidade   == [status : {"disponivel", "atribuida", "baixada"}, com : Funcionarios \cup {Nenhum}]
Reserva   == [status : {"nenhuma", "pendente", "efetivada", "cancelada"},
              tipo : Tipos, com : Funcionarios, unidade : Unidades \cup {Nenhum},
              periodo : Periodos]
Novas     == {n \in Reserva : n.status = "pendente"
                               /\ (n.unidade # Nenhum => TipoDe[n.unidade] = n.tipo)}
Ociosa    == [pc |-> "ociosa"]
Sessao    == {Ociosa, [pc |-> "gravarItens"]}
               \cup [pc : {"atribuirKit"}, evento : Eventos, com : Funcionarios,
                     falta : [Tipos -> Nat], pedido : [Tipos -> Nat], pegas : SUBSET Unidades]
               \cup [pc : {"devolverKit"}, evento : Eventos, ok : BOOLEAN,
                     falta : SUBSET Unidades, pegas : SUBSET Unidades]
               \cup [pc : {"inserir"}, reserva : Reservas, linha : Reserva]
               \cup [pc : {"atribuir", "marcar"}, reserva : Reservas, unidade : Unidades]
               \cup [pc : {"cancelar"}, reserva : Reservas]

SemReserva == [status |-> "nenhuma"]

Init ==
    /\ unidade = [u \in Unidades |-> [status |-> "disponivel", com |-> Nenhum]]
    /\ mov = [u \in Unidades |-> << >>]
    /\ kit \in Composicoes
    /\ reserva = [r \in Reservas |-> SemReserva]
    /\ sessao = [s \in Sessoes |-> Ociosa]

Ir(s, estado) == sessao' = [sessao EXCEPT ![s] = estado]
Sair(s)       == Ir(s, Ociosa)

EmKit(s) == sessao[s].pc \in {"atribuirKit", "devolverKit"}

\* Mutant: the query and the trigger read without FOR UPDATE.
TravadasNenhuma == {}

\* Rows a transaction holds: FOR UPDATE, in the kit's query and in the trigger.
Travadas == UNION {sessao[s].pegas : s \in {t \in Sessoes : EmKit(t)}}

-----------------------------------------------------------------------------
(* fn_aplicar_movimentacao_ferramenta, the trigger of every movement.      *)

Aceita(u, m) ==
    CASE m.tipo = "atribuicao" -> unidade[u].status = "disponivel"
      [] m.tipo = "devolucao"  -> unidade[u].status = "atribuida"
      [] m.tipo = "baixa"      -> unidade[u].status # "baixada"

\* The row of a unit after a movement of it.
Resultado(m) ==
    CASE m.tipo = "atribuicao" -> [status |-> "atribuida", com |-> m.com]
      [] m.tipo = "devolucao"  -> [status |-> IF m.ok THEN "disponivel" ELSE "baixada",
                                   com |-> Nenhum]
      [] m.tipo = "baixa"      -> [status |-> "baixada", com |-> Nenhum]

\* The movements of a transaction that commits, one of each unit of U.
Aplicar(U, m) ==
    /\ unidade' = [u \in Unidades |-> IF u \in U THEN Resultado(m) ELSE unidade[u]]
    /\ mov' = [u \in Unidades |-> IF u \in U THEN Append(mov[u], m) ELSE mov[u]]

Cabe(U) == \A u \in U : Len(mov[u]) < MaxMov

Atribuicao(f, e) == [tipo |-> "atribuicao", com |-> f, evento |-> e, ok |-> TRUE]
Devolucao(e, ok) == [tipo |-> "devolucao", com |-> Nenhum, evento |-> e, ok |-> ok]
Baixa            == [tipo |-> "baixa", com |-> Nenhum, evento |-> Nenhum, ok |-> FALSE]

\* atribuir, devolver and baixar of the adapter.
Movimentar(u, m) ==
    /\ u \notin Travadas /\ Aceita(u, m) /\ Cabe({u})
    /\ Aplicar({u}, m)
    /\ UNCHANGED <<kit, reserva, sessao>>

MovimentarUm(u) ==
    \/ \E f \in Funcionarios : Movimentar(u, Atribuicao(f, Nenhum))
    \/ \E ok \in BOOLEAN : Movimentar(u, Devolucao(Nenhum, ok))
    \/ Movimentar(u, Baixa)

-----------------------------------------------------------------------------
(* Kits.                                                                   *)

TeveEvento(u, e) == \E i \in DOMAIN mov[u] : mov[u][i].tipo = "atribuicao" /\ mov[u][i].evento = e
Usado(e) == \/ \E u \in Unidades : TeveEvento(u, e)
            \/ \E s \in Sessoes : sessao[s].pc = "atribuirKit" /\ sessao[s].evento = e

\* fn_atribuir_kit: the cursor over kit_itens keeps the composition it opened on.
AtribuirKit(s, e, f) ==
    /\ sessao[s] = Ociosa /\ ~Usado(e)
    /\ Ir(s, [pc |-> "atribuirKit", evento |-> e, com |-> f,
              falta |-> kit, pedido |-> kit, pegas |-> {}])
    /\ UNCHANGED <<unidade, mov, kit, reserva>>

\* FOR UPDATE SKIP LOCKED: units free and held by nobody.
Livres(t) == {u \in Unidades \ Travadas : TipoDe[u] = t /\ unidade[u].status = "disponivel"}

\* Mutant: what could be found of an item is handed out.
PegarItemParcial(s) ==
    /\ sessao[s].pc = "atribuirKit"
    /\ \E t \in Tipos : \E U \in SUBSET Livres(t) :
         /\ sessao[s].falta[t] > 0 /\ Cardinality(U) <= sessao[s].falta[t]
         /\ Ir(s, [sessao[s] EXCEPT !.falta[t] = 0, !.pegas = @ \cup U])
    /\ UNCHANGED <<unidade, mov, kit, reserva>>

\* One item of the kit; with fewer units than it asks, the function raises.
PegarItem(s) ==
    /\ sessao[s].pc = "atribuirKit"
    /\ \E t \in Tipos : \E U \in SUBSET Livres(t) :
         /\ sessao[s].falta[t] > 0 /\ Cardinality(U) = sessao[s].falta[t]
         /\ Ir(s, [sessao[s] EXCEPT !.falta[t] = 0, !.pegas = @ \cup U])
    /\ UNCHANGED <<unidade, mov, kit, reserva>>

KitAtribuido(s) ==
    /\ sessao[s].pc = "atribuirKit" /\ \A t \in Tipos : sessao[s].falta[t] = 0
    /\ Cabe(sessao[s].pegas)
    /\ Aplicar(sessao[s].pegas, Atribuicao(sessao[s].com, sessao[s].evento))
    /\ Sair(s)
    /\ UNCHANGED <<kit, reserva>>

\* fn_devolver_kit: its cursor opens on the units of the event that are out,
\* whoever they were handed to since.
DevolverKit(s, e, ok) ==
    /\ sessao[s] = Ociosa
    /\ \E U \in {{u \in Unidades : TeveEvento(u, e) /\ unidade[u].status = "atribuida"}} :
         /\ U # {}
         /\ Ir(s, [pc |-> "devolverKit", evento |-> e, ok |-> ok, falta |-> U, pegas |-> {}])
    /\ UNCHANGED <<unidade, mov, kit, reserva>>

\* The insert waits for the row, and raises if the unit came back meanwhile.
DevolverUnidade(s, u) ==
    /\ sessao[s].pc = "devolverKit" /\ u \in sessao[s].falta
    /\ u \notin Travadas /\ Aceita(u, Devolucao(sessao[s].evento, sessao[s].ok))
    /\ Ir(s, [sessao[s] EXCEPT !.falta = @ \ {u}, !.pegas = @ \cup {u}])
    /\ UNCHANGED <<unidade, mov, kit, reserva>>

KitDevolvido(s) ==
    /\ sessao[s].pc = "devolverKit" /\ sessao[s].falta = {}
    /\ Cabe(sessao[s].pegas)
    /\ Aplicar(sessao[s].pegas, Devolucao(sessao[s].evento, sessao[s].ok))
    /\ Sair(s)
    /\ UNCHANGED <<kit, reserva>>

\* A unit missing or returned, a deadlock, a timeout: nothing is kept.
Desfazer(s) ==
    /\ EmKit(s)
    /\ Sair(s)
    /\ UNCHANGED <<unidade, mov, kit, reserva>>

\* editar: the items are deleted by one request and inserted by the next.
ApagarItens(s) ==
    /\ sessao[s] = Ociosa
    /\ kit' = [t \in Tipos |-> 0]
    /\ Ir(s, [pc |-> "gravarItens"])
    /\ UNCHANGED <<unidade, mov, reserva>>

\* unique (kit_id, ferramenta_id) refuses an item that is there already.
GravarItens(s) ==
    /\ sessao[s].pc = "gravarItens"
    /\ \E c \in Composicoes :
         /\ \A t \in Tipos : c[t] > 0 => kit[t] = 0
         /\ kit' = [t \in Tipos |-> IF c[t] > 0 THEN c[t] ELSE kit[t]]
    /\ Sair(s)
    /\ UNCHANGED <<unidade, mov, reserva>>

-----------------------------------------------------------------------------
(* Reservations.                                                           *)

Sobrepoe(p, q) == p[1] <= q[2] /\ p[2] >= q[1]
Pendentes == {r \in Reservas : reserva[r].status = "pendente"}
Ativas(t) == {u \in Unidades : TipoDe[u] = t /\ unidade[u].status # "baixada"}

\* The trigger's check for a unit, the domain's for "any unit of the tool".
PodeReservar(n) ==
    \E C \in {{r \in Pendentes : reserva[r].tipo = n.tipo
                                /\ Sobrepoe(reserva[r].periodo, n.periodo)}} :
        IF n.unidade # Nenhum THEN \A r \in C : reserva[r].unidade # n.unidade
                              ELSE Cardinality(C) < Cardinality(Ativas(n.tipo))

\* Checked against what is committed; the row is visible to others only later.
Reservar(s, r, n) ==
    /\ sessao[s] = Ociosa
    /\ reserva[r] = SemReserva
    /\ \A t \in Sessoes : sessao[t].pc = "inserir" => sessao[t].reserva # r
    /\ PodeReservar(n)
    /\ Ir(s, [pc |-> "inserir", reserva |-> r, linha |-> n])
    /\ UNCHANGED <<unidade, mov, kit, reserva>>

InserirReserva(s) ==
    /\ sessao[s].pc = "inserir"
    /\ reserva' = [reserva EXCEPT ![sessao[s].reserva] = sessao[s].linha]
    /\ Sair(s)
    /\ UNCHANGED <<unidade, mov, kit>>

\* The modal lists the units of the reserved tool: the page loaded them before,
\* so they may be taken by now, and the validation does not repeat the filter.
UnidadesOferecidas(r) == {u \in Unidades : TipoDe[u] = reserva[r].tipo}

\* efetivarReservaFerramenta: validated on lists it has just read.
Efetivar(s, r, u) ==
    /\ sessao[s] = Ociosa
    /\ reserva[r].status = "pendente"
    /\ u \in UnidadesOferecidas(r) /\ unidade[u].status = "disponivel"
    /\ Ir(s, [pc |-> "atribuir", reserva |-> r, unidade |-> u])
    /\ UNCHANGED <<unidade, mov, kit, reserva>>

\* Mutant: a unit somebody took meanwhile is no obstacle.
AtribuirReservadaOuNao(s) ==
    /\ sessao[s].pc = "atribuir"
    /\ IF Aceita(sessao[s].unidade, Atribuicao(reserva[sessao[s].reserva].com, Nenhum))
         THEN /\ sessao[s].unidade \notin Travadas /\ Cabe({sessao[s].unidade})
              /\ Aplicar({sessao[s].unidade}, Atribuicao(reserva[sessao[s].reserva].com, Nenhum))
         ELSE UNCHANGED <<unidade, mov>>
    /\ Ir(s, [sessao[s] EXCEPT !.pc = "marcar"])
    /\ UNCHANGED <<kit, reserva>>

AtribuirReservada(s) ==
    /\ sessao[s].pc = "atribuir"
    /\ \E m \in {Atribuicao(reserva[sessao[s].reserva].com, Nenhum)} :
         /\ sessao[s].unidade \notin Travadas
         /\ Aceita(sessao[s].unidade, m) /\ Cabe({sessao[s].unidade})
         /\ Aplicar({sessao[s].unidade}, m)
    /\ Ir(s, [sessao[s] EXCEPT !.pc = "marcar"])
    /\ UNCHANGED <<kit, reserva>>

\* Mutant: a status the table does not know.
MarcarEfetiva(s) ==
    /\ sessao[s].pc = "marcar"
    /\ reserva' = [reserva EXCEPT ![sessao[s].reserva].status = "efetiva",
                                  ![sessao[s].reserva].unidade = sessao[s].unidade]
    /\ Sair(s)
    /\ UNCHANGED <<unidade, mov, kit>>

\* marcarEfetivada filters by id alone.
MarcarEfetivada(s) ==
    /\ sessao[s].pc = "marcar"
    /\ reserva' = [reserva EXCEPT ![sessao[s].reserva].status = "efetivada",
                                  ![sessao[s].reserva].unidade = sessao[s].unidade]
    /\ Sair(s)
    /\ UNCHANGED <<unidade, mov, kit>>

Cancelar(s, r) ==
    /\ sessao[s] = Ociosa
    /\ reserva[r].status = "pendente"
    /\ Ir(s, [pc |-> "cancelar", reserva |-> r])
    /\ UNCHANGED <<unidade, mov, kit, reserva>>

\* cancelar filters by id alone.
MarcarCancelada(s) ==
    /\ sessao[s].pc = "cancelar"
    /\ reserva' = [reserva EXCEPT ![sessao[s].reserva].status = "cancelada"]
    /\ Sair(s)
    /\ UNCHANGED <<unidade, mov, kit>>

\* The request is refused or lost, or the browser is closed.
Abandonar(s) ==
    /\ sessao[s].pc \in {"gravarItens", "inserir", "atribuir", "marcar", "cancelar"}
    /\ Sair(s)
    /\ UNCHANGED <<unidade, mov, kit, reserva>>

-----------------------------------------------------------------------------

Next ==
    \/ \E u \in Unidades : MovimentarUm(u)
    \/ \E s \in Sessoes :
         \/ \E e \in Eventos, f \in Funcionarios : AtribuirKit(s, e, f)
         \/ \E e \in Eventos, ok \in BOOLEAN : DevolverKit(s, e, ok)
         \/ \E u \in Unidades : DevolverUnidade(s, u)
         \/ PegarItem(s) \/ KitAtribuido(s) \/ KitDevolvido(s) \/ Desfazer(s)
         \/ ApagarItens(s) \/ GravarItens(s)
         \/ \E r \in Reservas, n \in Novas : Reservar(s, r, n)
         \/ \E r \in Reservas, u \in Unidades : Efetivar(s, r, u)
         \/ \E r \in Reservas : Cancelar(s, r)
         \/ InserirReserva(s) \/ AtribuirReservada(s) \/ MarcarEfetivada(s)
         \/ MarcarCancelada(s) \/ Abandonar(s)

Spec == Init /\ [][Next]_vars
-----------------------------------------------------------------------------
(* Properties.                                                             *)

\* Every variable keeps its type (0086:18-58, 0087:14-29, 0089:26-40).
TypeOK ==
    /\ unidade \in [Unidades -> Unidade]
    /\ mov \in [Unidades -> Seq(Movimento)]
    /\ kit \in [Tipos -> Nat]
    /\ reserva \in [Reservas -> Reserva \cup {SemReserva}]
    /\ sessao \in [Sessoes -> Sessao]

\* The status after the first i movements of a history.
StatusApos(h, i) == IF i = 0 THEN "disponivel" ELSE Resultado(h[i]).status

\* The ledger is one chain of custody, whatever kits, returns and write-offs
\* ran at once: a unit is handed out only when it is in, comes back only when
\* it is out, nothing follows a write-off, and the row of the unit is what its
\* last movement left (0086:132-135).
CadeiaDePosse ==
    \A u \in Unidades :
        /\ \A i \in DOMAIN mov[u] :
             LET antes == StatusApos(mov[u], i - 1)
             IN CASE mov[u][i].tipo = "atribuicao" -> antes = "disponivel"
                  [] mov[u][i].tipo = "devolucao"  -> antes = "atribuida"
                  [] mov[u][i].tipo = "baixa"      -> antes # "baixada"
        /\ unidade[u] = IF mov[u] = << >> THEN [status |-> "disponivel", com |-> Nenhum]
                        ELSE Resultado(mov[u][Len(mov[u])])

\* Kit functions that hand out under event e, and the units that left under it.
Abertos(e)   == {s \in Sessoes : sessao[s].pc = "atribuirKit" /\ sessao[s].evento = e}
SairamCom(e) == {u \in Unidades : TeveEvento(u, e)}

Pedidos == [e \in Eventos |-> {sessao[s].pedido : s \in Abertos(e)}]
Saidas  == [e \in Eventos |-> SairamCom(e)]

Posse == INSTANCE Custodia WITH pedidos <- Pedidos, entregues <- Saidas

\* The transactions of several steps, the requests and the movements of single
\* units implement Custodia, in which each is one step: a kit is handed out
\* whole or not at all, to one person and in one event, with units nobody else
\* has, though other users take, return, write off and recompose meanwhile
\* (0089:104-108, "nunca atribui pela metade").
CustodiaSpec == Posse!Spec

\* Reservations effected in favour of f with unit u, and the times u was
\* handed to f by itself.
EfetivadasCom(u, f) ==
    {r \in Reservas : reserva[r] # SemReserva /\ reserva[r].status = "efetivada"
                        /\ reserva[r].unidade = u /\ reserva[r].com = f}
EntregasA(u, f) == {i \in DOMAIN mov[u] : mov[u][i] = Atribuicao(f, Nenhum)}

\* A reservation is effected only by a hand-over of its own: two sessions that
\* effect reservations with one unit never share a hand-over, and none is
\* marked for a unit somebody else got (ferramenta-reservas.ts:40-56).
EfetivadaTemEntrega ==
    \A u \in Unidades, f \in Funcionarios :
        Cardinality(EfetivadasCom(u, f)) <= Cardinality(EntregasA(u, f))
=============================================================================
