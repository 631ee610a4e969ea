------------------------------ MODULE Custodia ------------------------------
(***************************************************************************)
(* What the custody of tools promises those who ask for them: a unit is    *)
(* handed out only when it is in and comes back only when it is out; a kit *)
(* is handed out in one step, with exactly what it consisted of when it    *)
(* was asked for, or not at all; and it comes back in one step.            *)
(***************************************************************************)
EXTENDS Naturals, FiniteSets

CONSTANTS Unidades, Tipos, TipoDe, Funcionarios, Eventos, Nenhum

VARIABLES
    unidade,    \* status and holder of each unit
    kit,        \* how many units of each tool the kit consists of
    pedidos,    \* what is asked for under each event: one kit or nothing
    entregues   \* the units handed out under each event

vars == <<unidade, kit, pedidos, entregues>>

Livre   == [status |-> "disponivel", com |-> Nenhum]
Com(f)  == [status |-> "atribuida", com |-> f]
Baixada == [status |-> "baixada", com |-> Nenhum]
Volta(ok) == IF ok THEN Livre ELSE Baixada

Init ==
    /\ unidade = [u \in Unidades |-> Livre]
    /\ kit \in [Tipos -> Nat]
    /\ pedidos = [e \in Eventos |-> {}]
    /\ entregues = [e \in Eventos |-> {}]

\* The units of U become x, all at once.
Passar(U, x) == unidade' = [u \in Unidades |-> IF u \in U THEN x ELSE unidade[u]]

Entregar(u, f) ==
    /\ unidade[u] = Livre
    /\ Passar({u}, Com(f))
    /\ UNCHANGED <<kit, pedidos, entregues>>

Receber(u, ok) ==
    /\ unidade[u].status = "atribuida"
    /\ Passar({u}, Volta(ok))
    /\ UNCHANGED <<kit, pedidos, entregues>>

Baixar(u) ==
    /\ unidade[u] # Baixada
    /\ Passar({u}, Baixada)
    /\ UNCHANGED <<kit, pedidos, entregues>>

Recompor ==
    /\ kit' \in [Tipos -> Nat]
    /\ UNCHANGED <<unidade, pedidos, entregues>>

PedirKit(e) ==
    /\ pedidos[e] = {} /\ entregues[e] = {}
    /\ pedidos' = [pedidos EXCEPT ![e] = {kit}]
    /\ UNCHANGED <<unidade, kit, entregues>>

NegarKit(e) ==
    /\ pedidos' = [pedidos EXCEPT ![e] = {}]
    /\ UNCHANGED <<unidade, kit, entregues>>

EntregarKit(e, f, U) ==
    /\ \A u \in U : unidade[u] = Livre
    /\ \E p \in pedidos[e] : \A t \in Tipos :
         Cardinality({u \in U : TipoDe[u] = t}) = p[t]
    /\ Passar(U, Com(f))
    /\ pedidos' = [pedidos EXCEPT ![e] = {}]
    /\ entregues' = [entregues EXCEPT ![e] = U]
    /\ UNCHANGED kit

ReceberKit(e, U, ok) ==
    /\ U \subseteq entregues[e]
    /\ \A u \in U : unidade[u].status = "atribuida"
    /\ Passar(U, Volta(ok))
    /\ UNCHANGED <<kit, pedidos, entregues>>

Next ==
    \/ \E u \in Unidades, f \in Funcionarios : Entregar(u, f)
    \/ \E u \in Unidades, ok \in BOOLEAN : Receber(u, ok)
    \/ \E u \in Unidades : Baixar(u)
    \/ Recompor
    \/ \E e \in Eventos : PedirKit(e) \/ NegarKit(e)
    \/ \E e \in Eventos, f \in Funcionarios, U \in SUBSET Unidades : EntregarKit(e, f, U)
    \/ \E e \in Eventos, U \in SUBSET Unidades, ok \in BOOLEAN : ReceberKit(e, U, ok)

Spec == Init /\ [][Next]_vars
=============================================================================
