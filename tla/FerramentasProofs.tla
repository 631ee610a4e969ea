-------------------------- MODULE FerramentasProofs --------------------------
(***************************************************************************)
(* Proofs about Ferramentas, for any number of units, tools, kits, events, *)
(* reservations and users at work: the ledger is a chain of custody, a kit *)
(* is handed out whole, and an effected reservation has its own hand-over. *)
(***************************************************************************)
EXTENDS Ferramentas, SequenceTheorems, FiniteSetTheorems, TLAPS

\* Units of a tool that a kit function in state x has locked.
PegasDe(x, t) == {u \in x.pegas : TipoDe[u] = t}

\* It has the units of each item it has been through.
Montado(x) ==
    \A t \in Tipos :
        /\ x.falta[t] = 0 => Cardinality(PegasDe(x, t)) = x.pedido[t]
        /\ x.falta[t] # 0 => x.falta[t] = x.pedido[t] /\ PegasDe(x, t) = {}

\* What a kit function has locked stays as it found it, and is its own.
Travou ==
    /\ \A s \in Sessoes : EmKit(s) => \A u \in sessao[s].pegas :
         /\ sessao[s].pc = "atribuirKit" => unidade[u].status = "disponivel"
         /\ sessao[s].pc = "devolverKit" => unidade[u].status = "atribuida"
    /\ \A s, z \in Sessoes :
         EmKit(s) /\ EmKit(z) /\ s # z => sessao[s].pegas \cap sessao[z].pegas = {}

\* The event of a hand-over of a kit is nobody else's.
Montando(s) ==
    sessao[s].pc = "atribuirKit" =>
        /\ Montado(sessao[s])
        /\ \A u \in Unidades : ~TeveEvento(u, sessao[s].evento)
        /\ \A z \in Sessoes \ {s} :
             sessao[z].pc = "atribuirKit" => sessao[z].evento # sessao[s].evento

\* A reservation being inserted is new, and one being decided exists.
Reservando(s) ==
    /\ sessao[s].pc = "inserir" =>
         /\ reserva[sessao[s].reserva] = SemReserva
         /\ sessao[s].linha.status = "pendente"
         /\ \A z \in Sessoes \ {s} :
              sessao[z].pc = "inserir" => sessao[z].reserva # sessao[s].reserva
    /\ sessao[s].pc \in {"atribuir", "marcar", "cancelar"} =>
         reserva[sessao[s].reserva] # SemReserva

\* Sessions that handed u to f for a reservation and have not marked it yet:
\* each of them, and each effected reservation, has a hand-over of its own.
Marcando(u, f) ==
    {s \in Sessoes : /\ sessao[s].pc = "marcar" /\ sessao[s].unidade = u
                     /\ reserva[sessao[s].reserva].com = f}

Conta(u, f) ==
    /\ IsFiniteSet(EfetivadasCom(u, f)) /\ IsFiniteSet(Marcando(u, f))
    /\ Cardinality(EfetivadasCom(u, f)) + Cardinality(Marcando(u, f))
         <= Cardinality(EntregasA(u, f))

IInv == /\ TypeOK /\ CadeiaDePosse /\ Travou
        /\ \A s \in Sessoes : Montando(s) /\ Reservando(s)
        /\ \A u \in Unidades, f \in Funcionarios : Conta(u, f)

-----------------------------------------------------------------------------
(* The records of a session.                                               *)

SAtribuir  == [pc : {"atribuirKit"}, evento : Eventos, com : Funcionarios,
               falta : [Tipos -> Nat], pedido : [Tipos -> Nat], pegas : SUBSET Unidades]
SDevolver  == [pc : {"devolverKit"}, evento : Eventos, ok : BOOLEAN,
               falta : SUBSET Unidades, pegas : SUBSET Unidades]
SInserir   == [pc : {"inserir"}, reserva : Reservas, linha : Reserva]
SEfetivar  == [pc : {"atribuir", "marcar"}, reserva : Reservas, unidade : Unidades]
SCancelar  == [pc : {"cancelar"}, reserva : Reservas]

LEMMA SessaoTipos ==
    /\ Ociosa \in Sessao /\ [pc |-> "gravarItens"] \in Sessao
    /\ SAtribuir \subseteq Sessao /\ SDevolver \subseteq Sessao
    /\ SInserir \subseteq Sessao /\ SEfetivar \subseteq Sessao /\ SCancelar \subseteq Sessao
BY DEF Sessao, SAtribuir, SDevolver, SInserir, SEfetivar, SCancelar

LEMMA Registro ==
    ASSUME TypeOK, NEW s \in Sessoes
    PROVE  /\ sessao[s].pc = "atribuirKit" => sessao[s] \in SAtribuir
           /\ sessao[s].pc = "devolverKit" => sessao[s] \in SDevolver
           /\ sessao[s].pc = "inserir" => sessao[s] \in SInserir
           /\ sessao[s].pc \in {"atribuir", "marcar"} => sessao[s] \in SEfetivar
           /\ sessao[s].pc = "cancelar" => sessao[s] \in SCancelar
           /\ sessao[s] = Ociosa => sessao[s].pc = "ociosa"
<1>1. sessao[s] \in Sessao
    BY DEF TypeOK
<1>. QED
    BY <1>1 DEF Sessao, Ociosa, SAtribuir, SDevolver, SInserir, SEfetivar, SCancelar

LEMMA IrEfeito ==
    ASSUME TypeOK, NEW s \in Sessoes, NEW x \in Sessao, Ir(s, x)
    PROVE  /\ sessao' \in [Sessoes -> Sessao] /\ sessao'[s] = x
           /\ \A z \in Sessoes \ {s} : sessao'[z] = sessao[z]
BY DEF TypeOK, Ir

-----------------------------------------------------------------------------
(* The ledger.                                                             *)

LEMMA MovimentoTipo ==
    ASSUME NEW f \in Funcionarios, NEW e \in Eventos \cup {Nenhum}, NEW ok \in BOOLEAN
    PROVE  /\ Atribuicao(f, e) \in Movimento /\ Devolucao(e, ok) \in Movimento
           /\ Baixa \in Movimento
BY DEF Atribuicao, Devolucao, Baixa, Movimento

LEMMA Aplicou ==
    ASSUME TypeOK, NEW U \in SUBSET Unidades, NEW m \in Movimento, Aplicar(U, m)
    PROVE  /\ unidade' \in [Unidades -> Unidade] /\ mov' \in [Unidades -> Seq(Movimento)]
           /\ \A u \in U : /\ unidade'[u] = Resultado(m)
                           /\ mov'[u] = Append(mov[u], m)
           /\ \A u \in Unidades \ U : unidade'[u] = unidade[u] /\ mov'[u] = mov[u]
<1>1. Resultado(m) \in Unidade
    BY DEF Movimento, Resultado, Unidade
<1>2. \A u \in Unidades : Append(mov[u], m) \in Seq(Movimento)
    BY DEF TypeOK
<1>. QED
    BY <1>1, <1>2 DEF TypeOK, Aplicar

\* What a movement more does to the ledger of a unit.
LEMMA MaisUm ==
    ASSUME NEW h \in Seq(Movimento), NEW m \in Movimento, NEW g, g = Append(h, m)
    PROVE  /\ Len(h) \in Nat /\ DOMAIN h = 1 .. Len(h)
           /\ Len(g) = Len(h) + 1 /\ DOMAIN g = 1 .. (Len(h) + 1)
           /\ g # << >>
           /\ g[Len(h) + 1] = m /\ \A i \in 1 .. Len(h) : g[i] = h[i]
OBVIOUS

AceitaEm(st, m) ==
    CASE m.tipo = "atribuicao" -> st = "disponivel"
      [] m.tipo = "devolucao"  -> st = "atribuida"
      [] m.tipo = "baixa"      -> st # "baixada"

\* The row of a unit agrees with its ledger.
Coerente(h, r) ==
    /\ \A i \in DOMAIN h : AceitaEm(StatusApos(h, i - 1), h[i])
    /\ r = IF h = << >> THEN [status |-> "disponivel", com |-> Nenhum]
           ELSE Resultado(h[Len(h)])

LEMMA CadeiaCoerente == CadeiaDePosse <=> \A u \in Unidades : Coerente(mov[u], unidade[u])
BY DEF CadeiaDePosse, Coerente, AceitaEm

LEMMA CoerenteMaisUm ==
    ASSUME NEW h \in Seq(Movimento), NEW m \in Movimento, NEW r, Coerente(h, r),
           AceitaEm(r.status, m)
    PROVE  Coerente(Append(h, m), Resultado(m))
<1>. PICK g, n : g = Append(h, m) /\ n = Len(h)
    OBVIOUS
<1>1. /\ n \in Nat /\ DOMAIN h = 1 .. n /\ Len(g) = n + 1 /\ DOMAIN g = 1 .. (n + 1)
      /\ g # << >> /\ g[n + 1] = m /\ \A i \in 1 .. n : g[i] = h[i]
    BY MaisUm
<1>2. h = << >> <=> n = 0
    OBVIOUS
<1>3. \A i \in 0 .. n : StatusApos(g, i) = StatusApos(h, i)
    BY <1>1 DEF StatusApos
<1>4. StatusApos(g, n) = r.status
    <2>1. r = IF n = 0 THEN [status |-> "disponivel", com |-> Nenhum] ELSE Resultado(h[n])
        BY <1>2 DEF Coerente
    <2>2. StatusApos(h, n) = r.status
        BY <1>1, <2>1 DEF StatusApos
    <2>. QED
        BY <1>1, <1>3, <2>2
<1>5. ASSUME NEW i \in DOMAIN g
      PROVE  AceitaEm(StatusApos(g, i - 1), g[i])
    <2>1. CASE i = n + 1
        <3>1. i - 1 = n /\ g[i] = m
            BY <1>1, <2>1
        <3>. QED
            BY <1>4, <3>1
    <2>2. CASE i \in 1 .. n
        <3>1. i - 1 \in 0 .. n /\ g[i] = h[i]
            BY <1>1, <2>2
        <3>2. StatusApos(g, i - 1) = StatusApos(h, i - 1)
            BY <1>3, <3>1
        <3>3. AceitaEm(StatusApos(h, i - 1), h[i])
            BY <1>1, <2>2 DEF Coerente
        <3>. QED
            BY <3>1, <3>2, <3>3
    <2>. QED
        BY <1>1, <2>1, <2>2
<1>6. Resultado(m) = IF g = << >> THEN [status |-> "disponivel", com |-> Nenhum]
                     ELSE Resultado(g[Len(g)])
    BY <1>1
<1>. QED
    BY <1>5, <1>6 DEF Coerente

LEMMA CadeiaAplica ==
    ASSUME TypeOK, CadeiaDePosse, NEW U \in SUBSET Unidades, NEW m \in Movimento,
           Aplicar(U, m), \A u \in U : Aceita(u, m)
    PROVE  CadeiaDePosse'
<1>1. \A u \in Unidades : Coerente(mov[u], unidade[u])
    BY CadeiaCoerente
<1>2. ASSUME NEW u \in Unidades
      PROVE  Coerente(mov'[u], unidade'[u])
    <2>1. CASE u \in U
        <3>1. mov[u] \in Seq(Movimento) /\ Coerente(mov[u], unidade[u])
            BY <1>1 DEF TypeOK
        <3>2. AceitaEm(unidade[u].status, m)
            BY <2>1 DEF Aceita, AceitaEm
        <3>3. mov'[u] = Append(mov[u], m) /\ unidade'[u] = Resultado(m)
            BY <2>1, Aplicou
        <3>4. Coerente(Append(mov[u], m), Resultado(m))
            BY <3>1, <3>2, CoerenteMaisUm
        <3>. QED
            BY <3>3, <3>4
    <2>2. CASE u \notin U
        BY <1>1, <2>2, Aplicou
    <2>. QED
        BY <2>1, <2>2
<1>. QED
    BY <1>2, CadeiaCoerente DEF CadeiaDePosse, Coerente, AceitaEm

-----------------------------------------------------------------------------
(* Hand-overs and reservations, counted.                                   *)

LEMMA EntregasFinitas ==
    ASSUME NEW h \in Seq(Movimento), NEW m
    PROVE  IsFiniteSet({i \in DOMAIN h : h[i] = m})
<1>1. Len(h) \in Nat /\ DOMAIN h = 1 .. Len(h)
    OBVIOUS
<1>2. IsFiniteSet(1 .. Len(h))
    BY <1>1, FS_Interval
<1>. QED
    BY <1>1, <1>2, FS_Subset

LEMMA UmAMais ==
    ASSUME NEW S, NEW x, IsFiniteSet(S)
    PROVE  IsFiniteSet(S \cup {x}) /\ Cardinality(S \cup {x}) <= Cardinality(S) + 1
<1>1. /\ IsFiniteSet(S \cup {x})
      /\ Cardinality(S \cup {x}) = IF x \in S THEN Cardinality(S) ELSE Cardinality(S) + 1
    BY FS_AddElement, Zenon
<1>2. Cardinality(S) \in Nat
    BY FS_CardinalityType
<1>. PICK c, d : c = Cardinality(S) /\ d = Cardinality(S \cup {x})
    OBVIOUS
<1>3. d = c \/ d = c + 1
    BY <1>1
<1>. QED
    BY <1>1, <1>2, <1>3

\* Fewer reservations and sessions, no fewer hand-overs.
LEMMA ContaFolga ==
    ASSUME NEW u \in Unidades, NEW f \in Funcionarios, Conta(u, f), mov'[u] \in Seq(Movimento),
           EfetivadasCom(u, f)' \subseteq EfetivadasCom(u, f),
           Marcando(u, f)' \subseteq Marcando(u, f),
           EntregasA(u, f) \subseteq EntregasA(u, f)'
    PROVE  Conta(u, f)'
<1>. PICK A, B, C, X, Y, Z :
        /\ A = EfetivadasCom(u, f) /\ B = Marcando(u, f) /\ C = EntregasA(u, f)
        /\ X = EfetivadasCom(u, f)' /\ Y = Marcando(u, f)' /\ Z = EntregasA(u, f)'
    OBVIOUS
<1>1. /\ IsFiniteSet(A) /\ IsFiniteSet(B) /\ Cardinality(A) + Cardinality(B) <= Cardinality(C)
    BY DEF Conta
<1>2. IsFiniteSet(Z)
    BY EntregasFinitas DEF EntregasA
<1>3. IsFiniteSet(X) /\ Cardinality(X) <= Cardinality(A)
    BY <1>1, FS_Subset
<1>4. IsFiniteSet(Y) /\ Cardinality(Y) <= Cardinality(B)
    BY <1>1, FS_Subset
<1>5. IsFiniteSet(C) /\ Cardinality(C) <= Cardinality(Z)
    BY <1>2, FS_Subset
<1>6. /\ Cardinality(A) \in Nat /\ Cardinality(B) \in Nat /\ Cardinality(C) \in Nat
      /\ Cardinality(X) \in Nat /\ Cardinality(Y) \in Nat /\ Cardinality(Z) \in Nat
    BY <1>1, <1>2, <1>3, <1>4, <1>5, FS_CardinalityType
<1>7. Cardinality(X) + Cardinality(Y) <= Cardinality(Z)
    BY <1>1, <1>3, <1>4, <1>5, <1>6
<1>. QED
    BY <1>3, <1>4, <1>7 DEF Conta

-----------------------------------------------------------------------------
(* Steps of a session that change neither the ledger nor a reservation.    *)

LEMMA SessaoMuda ==
    ASSUME IInv, NEW s \in Sessoes, NEW x \in Sessao, Ir(s, x),
           UNCHANGED <<unidade, mov, reserva>>, kit' \in [Tipos -> Nat],
           x.pc # "marcar",
           x.pc = "atribuirKit" => \A u \in x.pegas : unidade[u].status = "disponivel",
           x.pc = "devolverKit" => \A u \in x.pegas : unidade[u].status = "atribuida",
           x.pc \in {"atribuirKit", "devolverKit"} =>
                \A z \in Sessoes \ {s} : EmKit(z) => x.pegas \cap sessao[z].pegas = {},
           x.pc = "atribuirKit" =>
                /\ Montado(x)
                /\ \A u \in Unidades : ~TeveEvento(u, x.evento)
                /\ \A z \in Sessoes \ {s} :
                     sessao[z].pc = "atribuirKit" => sessao[z].evento # x.evento,
           x.pc = "inserir" =>
                /\ reserva[x.reserva] = SemReserva /\ x.linha.status = "pendente"
                /\ \A z \in Sessoes \ {s} :
                     sessao[z].pc = "inserir" => sessao[z].reserva # x.reserva,
           x.pc \in {"atribuir", "cancelar"} => reserva[x.reserva] # SemReserva
    PROVE  IInv'
<1>1. /\ TypeOK /\ sessao' \in [Sessoes -> Sessao] /\ sessao'[s] = x
      /\ \A z \in Sessoes \ {s} : sessao'[z] = sessao[z]
    BY IrEfeito DEF IInv
<1>2. TypeOK' /\ CadeiaDePosse'
    BY <1>1 DEF IInv, TypeOK, CadeiaDePosse
<1>3. Travou'
    BY <1>1 DEF IInv, Travou, EmKit
<1>4. ASSUME NEW z \in Sessoes
      PROVE  Montando(z)'
    <2>1. CASE z = s
        BY <1>1, <2>1 DEF Montando, Montado, PegasDe, TeveEvento
    <2>2. CASE z # s
        <3>1. Montando(z) /\ sessao'[z] = sessao[z]
            BY <1>1, <2>2 DEF IInv
        <3>2. \A y \in Sessoes \ {z} : sessao[z].pc = "atribuirKit" /\ sessao'[y].pc = "atribuirKit"
                    => sessao'[y].evento # sessao[z].evento
            BY <1>1, <2>2, <3>1 DEF Montando
        <3>. PICK y : y = sessao[z]
            OBVIOUS
        <3>3. y.pc = "atribuirKit" =>
                Montado(y) /\ \A u \in Unidades : ~TeveEvento(u, y.evento)'
            BY <3>1 DEF Montando, TeveEvento
        <3>. QED
            BY <3>1, <3>2, <3>3 DEF Montando, TeveEvento
    <2>. QED
        BY <2>1, <2>2
<1>5. ASSUME NEW z \in Sessoes
      PROVE  Reservando(z)'
    <2>1. CASE z = s
        BY <1>1, <2>1 DEF Reservando
    <2>2. CASE z # s
        BY <1>1, <2>2 DEF IInv, Reservando
    <2>. QED
        BY <2>1, <2>2
<1>6. ASSUME NEW u \in Unidades, NEW f \in Funcionarios
      PROVE  Conta(u, f)'
    <2>1. Conta(u, f) /\ mov'[u] \in Seq(Movimento)
        BY <1>1 DEF IInv, TypeOK
    <2>2. Marcando(u, f)' \subseteq Marcando(u, f)
        BY <1>1 DEF Marcando
    <2>3. /\ EfetivadasCom(u, f)' = EfetivadasCom(u, f)
          /\ EntregasA(u, f)' = EntregasA(u, f)
        BY DEF EfetivadasCom, EntregasA
    <2>. QED
        BY <2>1, <2>2, <2>3, ContaFolga
<1>. QED
    BY <1>2, <1>3, <1>4, <1>5, <1>6 DEF IInv

\* Steps into a state that holds no unit and inserts nothing.
LEMMA SemPegas ==
    ASSUME IInv, NEW s \in Sessoes, NEW x \in Sessao, Ir(s, x),
           UNCHANGED <<unidade, mov, reserva>>, kit' \in [Tipos -> Nat],
           x.pc \in {"ociosa", "gravarItens", "atribuir", "cancelar"},
           x.pc \in {"atribuir", "cancelar"} => reserva[x.reserva] # SemReserva
    PROVE  IInv'
BY SessaoMuda

LEMMA LargarInv ==
    ASSUME IInv, NEW s \in Sessoes, Sair(s), UNCHANGED <<unidade, mov, reserva>>,
           kit' \in [Tipos -> Nat]
    PROVE  IInv'
BY SemPegas, SessaoTipos DEF Sair, Ociosa

LEMMA SairInv ==
    ASSUME IInv, NEW s \in Sessoes, Desfazer(s) \/ Abandonar(s) \/ GravarItens(s)
    PROVE  IInv'
<1>1. Sair(s) /\ UNCHANGED <<unidade, mov, reserva>>
    BY DEF Desfazer, Abandonar, GravarItens
<1>2. kit' \in [Tipos -> Nat]
    <2>1. kit \in [Tipos -> Nat] /\ Composicoes \subseteq [Tipos -> Nat]
        BY FerramentasAssumption DEF IInv, TypeOK
    <2>2. CASE GravarItens(s)
        <3>1. PICK c \in Composicoes : kit' = [t \in Tipos |-> IF c[t] > 0 THEN c[t] ELSE kit[t]]
            BY <2>2 DEF GravarItens
        <3>. QED
            BY <2>1, <3>1
    <2>3. CASE UNCHANGED kit
        BY <2>1, <2>3
    <2>. QED
        BY <2>2, <2>3 DEF Desfazer, Abandonar
<1>. QED
    BY <1>1, <1>2, LargarInv

LEMMA ApagarItensInv ==
    ASSUME IInv, NEW s \in Sessoes, ApagarItens(s)
    PROVE  IInv'
<1>. DEFINE x == [pc |-> "gravarItens"]
<1>1. x \in Sessao /\ x.pc = "gravarItens"
    BY SessaoTipos
<1>2. Ir(s, x) /\ UNCHANGED <<unidade, mov, reserva>> /\ kit' \in [Tipos -> Nat]
    BY DEF ApagarItens
<1>. HIDE DEF x
<1>. QED
    BY <1>1, <1>2, SemPegas

LEMMA EfetivarInv ==
    ASSUME IInv, NEW s \in Sessoes, NEW r \in Reservas, NEW u \in Unidades, Efetivar(s, r, u)
    PROVE  IInv'
<1>. DEFINE x == [pc |-> "atribuir", reserva |-> r, unidade |-> u]
<1>1. x \in Sessao /\ x.pc = "atribuir" /\ x.reserva = r
    BY SessaoTipos DEF SEfetivar
<1>2. Ir(s, x) /\ UNCHANGED <<unidade, mov, kit, reserva>> /\ reserva[r].status = "pendente"
    BY DEF Efetivar
<1>3. reserva[r] # SemReserva /\ kit' \in [Tipos -> Nat]
    BY <1>2 DEF SemReserva, IInv, TypeOK
<1>. HIDE DEF x
<1>. QED
    BY <1>1, <1>2, <1>3, SemPegas

LEMMA CancelarInv ==
    ASSUME IInv, NEW s \in Sessoes, NEW r \in Reservas, Cancelar(s, r)
    PROVE  IInv'
<1>. DEFINE x == [pc |-> "cancelar", reserva |-> r]
<1>1. x \in Sessao /\ x.pc = "cancelar" /\ x.reserva = r
    BY SessaoTipos DEF SCancelar
<1>2. Ir(s, x) /\ UNCHANGED <<unidade, mov, kit, reserva>> /\ reserva[r].status = "pendente"
    BY DEF Cancelar
<1>3. reserva[r] # SemReserva /\ kit' \in [Tipos -> Nat]
    BY <1>2 DEF SemReserva, IInv, TypeOK
<1>. HIDE DEF x
<1>. QED
    BY <1>1, <1>2, <1>3, SemPegas

LEMMA ReservarInv ==
    ASSUME IInv, NEW s \in Sessoes, NEW r \in Reservas, NEW n \in Novas, Reservar(s, r, n)
    PROVE  IInv'
<1>. DEFINE x == [pc |-> "inserir", reserva |-> r, linha |-> n]
<1>1. n \in Reserva /\ n.status = "pendente"
    BY DEF Novas
<1>2. x \in Sessao /\ x.pc = "inserir" /\ x.reserva = r /\ x.linha = n
    BY <1>1, SessaoTipos DEF SInserir
<1>3. /\ Ir(s, x) /\ UNCHANGED <<unidade, mov, kit, reserva>> /\ reserva[r] = SemReserva
      /\ \A z \in Sessoes : sessao[z].pc = "inserir" => sessao[z].reserva # r
      /\ kit' \in [Tipos -> Nat]
    BY DEF Reservar, IInv, TypeOK
<1>. HIDE DEF x
<1>. QED
    BY <1>1, <1>2, <1>3, SessaoMuda

-----------------------------------------------------------------------------
(* Kits.                                                                   *)

LEMMA AtribuirKitInv ==
    ASSUME IInv, NEW s \in Sessoes, NEW e \in Eventos, NEW f \in Funcionarios,
           AtribuirKit(s, e, f)
    PROVE  IInv'
<1>. DEFINE x == [pc |-> "atribuirKit", evento |-> e, com |-> f,
                  falta |-> kit, pedido |-> kit, pegas |-> {}]
<1>1. /\ Ir(s, x) /\ UNCHANGED <<unidade, mov, kit, reserva>> /\ ~Usado(e)
      /\ kit \in [Tipos -> Nat]
    BY DEF AtribuirKit, IInv, TypeOK
<1>2. x \in Sessao
    BY <1>1, SessaoTipos DEF SAtribuir
<1>3. /\ x.pc = "atribuirKit" /\ x.pegas = {} /\ x.evento = e
      /\ x.falta = kit /\ x.pedido = kit
    OBVIOUS
<1>. HIDE DEF x
<1>4. Montado(x)
    <2>1. \A t \in Tipos : PegasDe(x, t) = {}
        BY <1>3 DEF PegasDe
    <2>. QED
        BY <1>3, <2>1, FS_EmptySet DEF Montado
<1>5. /\ \A u \in Unidades : ~TeveEvento(u, e)
      /\ \A z \in Sessoes \ {s} : sessao[z].pc = "atribuirKit" => sessao[z].evento # e
    BY <1>1 DEF Usado
<1>. QED
    BY <1>1, <1>2, <1>3, <1>4, <1>5, SessaoMuda

\* An item taken: its units are free, of its tool and as many as it asks.
LEMMA PegarItemInv ==
    ASSUME IInv, NEW s \in Sessoes, PegarItem(s)
    PROVE  IInv'
<1>0. PICK t \in Tipos : \E U \in SUBSET Livres(t) :
        /\ sessao[s].falta[t] > 0 /\ Cardinality(U) = sessao[s].falta[t]
        /\ Ir(s, [sessao[s] EXCEPT !.falta[t] = 0, !.pegas = @ \cup U])
    BY DEF PegarItem
<1>1. PICK U \in SUBSET Livres(t) :
        /\ sessao[s].falta[t] > 0 /\ Cardinality(U) = sessao[s].falta[t]
        /\ Ir(s, [sessao[s] EXCEPT !.falta[t] = 0, !.pegas = @ \cup U])
    BY <1>0
<1>. PICK r : r = sessao[s]
    OBVIOUS
<1>. DEFINE fa == [r.falta EXCEPT ![t] = 0]
            x == [r EXCEPT !.falta = fa, !.pegas = r.pegas \cup U]
<1>2. /\ TypeOK /\ r \in SAtribuir /\ r.pc = "atribuirKit" /\ Montando(s)
      /\ UNCHANGED <<unidade, mov, kit, reserva>> /\ kit \in [Tipos -> Nat]
    BY Registro DEF IInv, PegarItem, TypeOK
<1>3. /\ U \subseteq Unidades /\ \A u \in U : /\ TipoDe[u] = t /\ u \notin Travadas
                                             /\ unidade[u].status = "disponivel"
    BY DEF Livres
<1>4. Ir(s, x)
    BY <1>1
<1>5. fa \in [Tipos -> Nat] /\ fa[t] = 0 /\ \A p \in Tipos \ {t} : fa[p] = r.falta[p]
    BY <1>2 DEF SAtribuir
<1>. HIDE DEF fa
<1>6. r.pegas \cup U \in SUBSET Unidades
    BY <1>2, <1>3 DEF SAtribuir
<1>7. /\ x \in SAtribuir /\ x.pc = "atribuirKit" /\ x.pegas = r.pegas \cup U
      /\ x.falta = fa /\ x.pedido = r.pedido /\ x.evento = r.evento
    BY <1>2, <1>5, <1>6 DEF SAtribuir
<1>. HIDE DEF x
<1>8. Montado(x)
    <2>1. Montado(r)
        BY <1>2 DEF Montando
    <2>2. ASSUME NEW p \in Tipos
          PROVE  /\ x.falta[p] = 0 => Cardinality(PegasDe(x, p)) = x.pedido[p]
                 /\ x.falta[p] # 0 => x.falta[p] = x.pedido[p] /\ PegasDe(x, p) = {}
        <3>1. CASE p = t
            <4>1. r.falta[t] # 0
                BY <1>1, <1>2 DEF SAtribuir
            <4>2. PegasDe(r, t) = {} /\ r.falta[t] = r.pedido[t]
                BY <2>1, <4>1 DEF Montado
            <4>3. PegasDe(x, t) = U
                BY <1>3, <1>7, <4>2 DEF PegasDe
            <4>. QED
                BY <1>1, <1>5, <1>7, <3>1, <4>2, <4>3
        <3>2. CASE p # t
            <4>1. PegasDe(x, p) = PegasDe(r, p)
                BY <1>3, <1>7, <3>2 DEF PegasDe
            <4>. QED
                BY <1>5, <1>7, <2>1, <3>2, <4>1 DEF Montado
        <3>. QED
            BY <3>1, <3>2
    <2>. QED
        BY <2>2 DEF Montado
<1>9. \A z \in Sessoes \ {s} : EmKit(z) => x.pegas \cap sessao[z].pegas = {}
    <2>1. \A z \in Sessoes : EmKit(z) => U \cap sessao[z].pegas = {}
        BY <1>3 DEF Travadas
    <2>2. \A z \in Sessoes \ {s} : EmKit(z) => r.pegas \cap sessao[z].pegas = {}
        BY <1>2 DEF IInv, Travou, EmKit
    <2>. QED
        BY <1>7, <2>1, <2>2
<1>10. \A u \in x.pegas : unidade[u].status = "disponivel"
    BY <1>2, <1>3, <1>7 DEF IInv, Travou, EmKit
<1>11. /\ \A u \in Unidades : ~TeveEvento(u, x.evento)
       /\ \A z \in Sessoes \ {s} :
            sessao[z].pc = "atribuirKit" => sessao[z].evento # x.evento
    BY <1>2, <1>7 DEF Montando
<1>. QED
    BY <1>2, <1>4, <1>7, <1>8, <1>9, <1>10, <1>11, SessaoTipos, SessaoMuda

LEMMA DevolverKitInv ==
    ASSUME IInv, NEW s \in Sessoes, NEW e \in Eventos, NEW ok \in BOOLEAN,
           DevolverKit(s, e, ok)
    PROVE  IInv'
<1>. PICK U : /\ U \subseteq Unidades
              /\ Ir(s, [pc |-> "devolverKit", evento |-> e, ok |-> ok, falta |-> U,
                        pegas |-> {}])
    BY DEF DevolverKit
<1>. DEFINE x == [pc |-> "devolverKit", evento |-> e, ok |-> ok, falta |-> U, pegas |-> {}]
<1>1. x \in Sessao /\ x.pc = "devolverKit" /\ x.pegas = {}
    BY SessaoTipos DEF SDevolver
<1>2. Ir(s, x) /\ UNCHANGED <<unidade, mov, kit, reserva>> /\ kit' \in [Tipos -> Nat]
    BY DEF DevolverKit, IInv, TypeOK
<1>. HIDE DEF x
<1>. QED
    BY <1>1, <1>2, SessaoMuda

LEMMA DevolverUnidadeInv ==
    ASSUME IInv, NEW s \in Sessoes, NEW u \in Unidades, DevolverUnidade(s, u)
    PROVE  IInv'
<1>. PICK r : r = sessao[s]
    OBVIOUS
<1>. DEFINE x == [r EXCEPT !.falta = r.falta \ {u}, !.pegas = r.pegas \cup {u}]
<1>1. /\ TypeOK /\ r \in SDevolver /\ r.pc = "devolverKit"
      /\ UNCHANGED <<unidade, mov, kit, reserva>> /\ kit \in [Tipos -> Nat]
      /\ u \notin Travadas
    BY Registro DEF IInv, DevolverUnidade, TypeOK
<1>2. unidade[u].status = "atribuida"
    BY DEF DevolverUnidade, Aceita, Devolucao
<1>3. Ir(s, x)
    BY DEF DevolverUnidade
<1>4. x \in SDevolver /\ x.pc = "devolverKit" /\ x.pegas = r.pegas \cup {u}
    BY <1>1 DEF SDevolver
<1>. HIDE DEF x
<1>5. \A z \in Sessoes \ {s} : EmKit(z) => x.pegas \cap sessao[z].pegas = {}
    <2>1. \A z \in Sessoes : EmKit(z) => u \notin sessao[z].pegas
        BY <1>1 DEF Travadas
    <2>2. \A z \in Sessoes \ {s} : EmKit(z) => r.pegas \cap sessao[z].pegas = {}
        BY <1>1 DEF IInv, Travou, EmKit
    <2>. QED
        BY <1>4, <2>1, <2>2
<1>6. \A v \in x.pegas : unidade[v].status = "atribuida"
    BY <1>1, <1>2, <1>4 DEF IInv, Travou, EmKit
<1>. QED
    BY <1>1, <1>3, <1>4, <1>5, <1>6, SessaoTipos, SessaoMuda

-----------------------------------------------------------------------------
(* Steps that move units.                                                  *)

LEMMA EventoNovo ==
    ASSUME TypeOK, NEW U \in SUBSET Unidades, NEW m \in Movimento, Aplicar(U, m), NEW e,
           NEW u \in Unidades, ~TeveEvento(u, e), m.tipo = "atribuicao" => m.evento # e
    PROVE  ~TeveEvento(u, e)'
<1>1. mov[u] \in Seq(Movimento)
    BY DEF TypeOK
<1>2. CASE u \in U
    <2>. PICK g : g = mov'[u]
        OBVIOUS
    <2>1. g = Append(mov[u], m)
        BY <1>2, Aplicou
    <2>2. /\ DOMAIN g = 1 .. (Len(mov[u]) + 1) /\ DOMAIN mov[u] = 1 .. Len(mov[u])
          /\ Len(mov[u]) \in Nat
          /\ g[Len(mov[u]) + 1] = m /\ \A i \in 1 .. Len(mov[u]) : g[i] = mov[u][i]
        BY <1>1, <2>1, MaisUm
    <2>3. \A i \in DOMAIN g : ~(g[i].tipo = "atribuicao" /\ g[i].evento = e)
        BY <2>2 DEF TeveEvento
    <2>. QED
        BY <2>3 DEF TeveEvento
<1>3. CASE u \notin U
    <2>1. mov'[u] = mov[u]
        BY <1>3, Aplicou
    <2>. QED
        BY <2>1 DEF TeveEvento
<1>. QED
    BY <1>2, <1>3

LEMMA EntregasCrescem ==
    ASSUME TypeOK, NEW U \in SUBSET Unidades, NEW m \in Movimento, Aplicar(U, m),
           NEW u \in Unidades, NEW f \in Funcionarios
    PROVE  /\ EntregasA(u, f) \subseteq EntregasA(u, f)' /\ mov'[u] \in Seq(Movimento)
           /\ u \in U /\ m = Atribuicao(f, Nenhum) =>
                EntregasA(u, f)' = EntregasA(u, f) \cup {Len(mov[u]) + 1}
           /\ Len(mov[u]) + 1 \notin EntregasA(u, f)
<1>1. mov[u] \in Seq(Movimento) /\ mov'[u] \in Seq(Movimento)
    BY Aplicou DEF TypeOK
<1>. PICK g, h : g = mov'[u] /\ h = mov[u]
    OBVIOUS
<1>2. DOMAIN h = 1 .. Len(h) /\ Len(h) \in Nat
    BY <1>1
<1>3. Len(h) + 1 \notin EntregasA(u, f)
    BY <1>2 DEF EntregasA
<1>4. CASE u \in U
    <2>1. g = Append(h, m)
        BY <1>4, Aplicou
    <2>2. /\ DOMAIN g = 1 .. (Len(h) + 1) /\ g[Len(h) + 1] = m
          /\ \A i \in 1 .. Len(h) : g[i] = h[i]
        BY <1>1, <2>1, MaisUm
    <2>3. DOMAIN g = DOMAIN h \cup {Len(h) + 1} /\ \A i \in DOMAIN h : g[i] = h[i]
        BY <1>2, <2>2
    <2>. QED
        BY <1>1, <1>3, <2>2, <2>3 DEF EntregasA
<1>5. CASE u \notin U
    <2>1. g = h
        BY <1>5, Aplicou
    <2>. QED
        BY <1>1, <1>3, <1>5, <2>1 DEF EntregasA
<1>. QED
    BY <1>4, <1>5

\* The units of U move and no kit under way holds one of them, save those of
\* the sessions that end with the step.
Move(U, m) ==
    /\ Aplicar(U, m) /\ \A u \in U : Aceita(u, m)
    /\ UNCHANGED <<kit, reserva>>
    /\ \A z \in Sessoes :
         \/ /\ sessao'[z] = sessao[z]
            /\ EmKit(z) => sessao[z].pegas \cap U = {}
            /\ sessao[z].pc = "atribuirKit" /\ m.tipo = "atribuicao" =>
                 sessao[z].evento # m.evento
         \/ sessao'[z].pc = "ociosa"
         \/ /\ sessao'[z].pc = "marcar" /\ sessao[z].pc = "atribuir"
            /\ sessao'[z].reserva = sessao[z].reserva

LEMMA MoveInv ==
    ASSUME IInv, NEW U \in SUBSET Unidades, NEW m \in Movimento, Move(U, m),
           sessao' \in [Sessoes -> Sessao]
    PROVE  /\ TypeOK' /\ CadeiaDePosse' /\ Travou'
           /\ \A s \in Sessoes : Montando(s)' /\ Reservando(s)'
<1>1. TypeOK /\ Aplicar(U, m) /\ UNCHANGED <<kit, reserva>>
    BY DEF IInv, Move
<1>2. TypeOK'
    BY <1>1, Aplicou DEF TypeOK
<1>3. CadeiaDePosse'
    BY CadeiaAplica DEF IInv, Move
<1>4. ASSUME NEW z \in Sessoes, sessao'[z].pc \notin {"ociosa", "marcar"}
      PROVE  /\ sessao'[z] = sessao[z] /\ (EmKit(z) => sessao[z].pegas \cap U = {})
             /\ sessao[z].pc = "atribuirKit" /\ m.tipo = "atribuicao" =>
                  sessao[z].evento # m.evento
    BY <1>4 DEF Move
<1>5. Travou'
    <2>1. ASSUME NEW s \in Sessoes, EmKit(s)'
          PROVE  /\ EmKit(s) /\ sessao'[s] = sessao[s]
                 /\ \A u \in sessao[s].pegas : unidade'[u] = unidade[u]
        <3>1. sessao'[s] = sessao[s] /\ EmKit(s)
            BY <1>4, <2>1 DEF EmKit
        <3>2. sessao[s].pegas \cap U = {}
            BY <1>4, <2>1, <3>1 DEF EmKit
        <3>3. sessao[s].pegas \subseteq Unidades
            BY <1>1, <3>1, Registro DEF EmKit, SAtribuir, SDevolver
        <3>. QED
            BY <1>1, <3>1, <3>2, <3>3, Aplicou
    <2>. QED
        BY <2>1 DEF IInv, Travou, EmKit
<1>6. ASSUME NEW s \in Sessoes
      PROVE  Montando(s)'
    <2>. SUFFICES ASSUME sessao'[s].pc = "atribuirKit" PROVE Montando(s)'
        BY DEF Montando
    <2>. PICK y : y = sessao[s]
        OBVIOUS
    <2>1. sessao'[s] = y /\ Montando(s) /\ y.pc = "atribuirKit"
          /\ (m.tipo = "atribuicao" => m.evento # y.evento)
        BY <1>4 DEF IInv
    <2>2. Montado(y) /\ \A u \in Unidades : ~TeveEvento(u, y.evento)
        BY <2>1 DEF Montando
    <2>3. \A u \in Unidades : ~TeveEvento(u, y.evento)'
        BY <1>1, <2>1, <2>2, EventoNovo
    <2>4. \A z \in Sessoes \ {s} :
            sessao'[z].pc = "atribuirKit" => sessao'[z].evento # y.evento
        BY <1>4, <2>1 DEF Montando
    <2>. QED
        BY <2>1, <2>2, <2>3, <2>4 DEF Montando, TeveEvento
<1>7. ASSUME NEW s \in Sessoes
      PROVE  Reservando(s)'
    <2>1. \A z \in Sessoes : sessao'[z].pc = "inserir" => sessao'[z] = sessao[z]
        BY <1>4
    <2>2. sessao'[s].pc \in {"atribuir", "marcar", "cancelar"} =>
            /\ sessao[s].pc \in {"atribuir", "marcar", "cancelar"}
            /\ sessao'[s].reserva = sessao[s].reserva
        BY DEF Move
    <2>3. Reservando(s)
        BY DEF IInv
    <2>. QED
        BY <1>1, <2>1, <2>2, <2>3 DEF Reservando
<1>. QED
    BY <1>2, <1>3, <1>5, <1>6, <1>7

\* No session comes to have a reservation to mark.
LEMMA MoveSemMarcar ==
    ASSUME IInv, NEW U \in SUBSET Unidades, NEW m \in Movimento, Move(U, m),
           sessao' \in [Sessoes -> Sessao],
           \A z \in Sessoes : sessao'[z] = sessao[z] \/ sessao'[z].pc = "ociosa"
    PROVE  IInv'
<1>1. ASSUME NEW u \in Unidades, NEW f \in Funcionarios
      PROVE  Conta(u, f)'
    <2>1. TypeOK /\ Aplicar(U, m) /\ reserva' = reserva /\ Conta(u, f)
        BY DEF IInv, Move
    <2>2. Marcando(u, f)' \subseteq Marcando(u, f)
        BY <2>1 DEF Marcando
    <2>3. EfetivadasCom(u, f)' = EfetivadasCom(u, f)
        BY <2>1 DEF EfetivadasCom
    <2>. QED
        BY <2>1, <2>2, <2>3, EntregasCrescem, ContaFolga
<1>. QED
    BY <1>1, MoveInv DEF IInv

LEMMA MovimentarInv ==
    ASSUME IInv, NEW u \in Unidades, NEW m \in Movimento, m.evento = Nenhum,
           Movimentar(u, m)
    PROVE  IInv'
<1>1. TypeOK /\ sessao' = sessao /\ u \notin Travadas
    BY DEF IInv, Movimentar
<1>2. \A z \in Sessoes : EmKit(z) => sessao[z].pegas \cap {u} = {}
    BY <1>1 DEF Travadas
<1>3. \A z \in Sessoes : sessao[z].pc = "atribuirKit" => sessao[z].evento # m.evento
    BY <1>1, Registro, FerramentasAssumption DEF SAtribuir
<1>4. Move({u}, m)
    BY <1>1, <1>2, <1>3 DEF Move, Movimentar
<1>. QED
    BY <1>1, <1>4, MoveSemMarcar DEF TypeOK

LEMMA MovimentarUmInv ==
    ASSUME IInv, NEW u \in Unidades, MovimentarUm(u)
    PROVE  IInv'
<1>1. /\ \A f \in Funcionarios : Atribuicao(f, Nenhum) \in Movimento
                                   /\ Atribuicao(f, Nenhum).evento = Nenhum
      /\ \A ok \in BOOLEAN : Devolucao(Nenhum, ok) \in Movimento
                               /\ Devolucao(Nenhum, ok).evento = Nenhum
      /\ Baixa \in Movimento /\ Baixa.evento = Nenhum
    BY DEF Atribuicao, Devolucao, Baixa, Movimento
<1>. QED
    BY <1>1, MovimentarInv DEF MovimentarUm

\* The units of a kit are its own until it commits.
LEMMA KitConclui ==
    ASSUME IInv, NEW s \in Sessoes, NEW m \in Movimento, EmKit(s),
           Aplicar(sessao[s].pegas, m), Sair(s), UNCHANGED <<kit, reserva>>,
           \A u \in sessao[s].pegas : Aceita(u, m),
           m.tipo = "atribuicao" => sessao[s].pc = "atribuirKit" /\ m.evento = sessao[s].evento
    PROVE  IInv'
<1>. PICK U : U = sessao[s].pegas
    OBVIOUS
<1>1. TypeOK /\ U \in SUBSET Unidades
    BY Registro DEF IInv, EmKit, SAtribuir, SDevolver
<1>2. /\ sessao' \in [Sessoes -> Sessao] /\ sessao'[s].pc = "ociosa"
      /\ \A z \in Sessoes \ {s} : sessao'[z] = sessao[z]
    BY <1>1, IrEfeito, SessaoTipos DEF Sair, Ociosa
<1>3. \A z \in Sessoes \ {s} : EmKit(z) => sessao[z].pegas \cap U = {}
    BY DEF IInv, Travou
<1>4. \A z \in Sessoes \ {s} : sessao[z].pc = "atribuirKit" /\ m.tipo = "atribuicao" =>
            sessao[z].evento # m.evento
    BY DEF IInv, Montando
<1>5. Move(U, m)
    BY <1>2, <1>3, <1>4 DEF Move
<1>. QED
    BY <1>1, <1>2, <1>5, MoveSemMarcar

LEMMA KitAtribuidoInv ==
    ASSUME IInv, NEW s \in Sessoes, KitAtribuido(s)
    PROVE  IInv'
<1>. DEFINE m == Atribuicao(sessao[s].com, sessao[s].evento)
<1>1. /\ TypeOK /\ sessao[s].pc = "atribuirKit" /\ sessao[s] \in SAtribuir /\ EmKit(s)
      /\ Aplicar(sessao[s].pegas, m) /\ Sair(s) /\ UNCHANGED <<kit, reserva>>
    BY Registro DEF IInv, KitAtribuido, EmKit
<1>2. m \in Movimento /\ m.tipo = "atribuicao" /\ m.evento = sessao[s].evento
    BY <1>1 DEF SAtribuir, Atribuicao, Movimento
<1>. HIDE DEF m
<1>3. \A u \in sessao[s].pegas : Aceita(u, m)
    BY <1>1, <1>2 DEF IInv, Travou, Aceita
<1>. QED
    BY <1>1, <1>2, <1>3, KitConclui

LEMMA KitDevolvidoInv ==
    ASSUME IInv, NEW s \in Sessoes, KitDevolvido(s)
    PROVE  IInv'
<1>. DEFINE m == Devolucao(sessao[s].evento, sessao[s].ok)
<1>1. /\ TypeOK /\ sessao[s].pc = "devolverKit" /\ sessao[s] \in SDevolver /\ EmKit(s)
      /\ Aplicar(sessao[s].pegas, m) /\ Sair(s) /\ UNCHANGED <<kit, reserva>>
    BY Registro DEF IInv, KitDevolvido, EmKit
<1>2. m \in Movimento /\ m.tipo = "devolucao"
    BY <1>1 DEF SDevolver, Devolucao, Movimento
<1>. HIDE DEF m
<1>3. \A u \in sessao[s].pegas : Aceita(u, m)
    BY <1>1, <1>2 DEF IInv, Travou, Aceita
<1>. QED
    BY <1>1, <1>2, <1>3, KitConclui

-----------------------------------------------------------------------------
(* A reservation effected: the unit is handed over, then the row is marked. *)

\* The hand-over counts for the session that has still to mark its reservation.
LEMMA ContaEntrega ==
    ASSUME NEW u \in Unidades, NEW f \in Funcionarios, Conta(u, f), mov'[u] \in Seq(Movimento),
           NEW s, NEW i, i \notin EntregasA(u, f),
           EfetivadasCom(u, f)' = EfetivadasCom(u, f),
           Marcando(u, f)' \subseteq Marcando(u, f) \cup {s},
           EntregasA(u, f)' = EntregasA(u, f) \cup {i}
    PROVE  Conta(u, f)'
<1>. PICK A, B, C, Y, Z :
        /\ A = EfetivadasCom(u, f) /\ B = Marcando(u, f) /\ C = EntregasA(u, f)
        /\ Y = Marcando(u, f)' /\ Z = EntregasA(u, f)'
    OBVIOUS
<1>1. /\ IsFiniteSet(A) /\ IsFiniteSet(B) /\ Cardinality(A) + Cardinality(B) <= Cardinality(C)
    BY DEF Conta
<1>2. IsFiniteSet(Z) /\ C \subseteq Z /\ Z = C \cup {i} /\ i \notin C
    BY EntregasFinitas DEF EntregasA
<1>3. IsFiniteSet(C)
    BY <1>2, FS_Subset
<1>4. Cardinality(Z) = Cardinality(C) + 1
    BY <1>2, <1>3, FS_AddElement
<1>5. IsFiniteSet(B \cup {s}) /\ Cardinality(B \cup {s}) <= Cardinality(B) + 1
    BY <1>1, UmAMais
<1>6. IsFiniteSet(Y) /\ Cardinality(Y) <= Cardinality(B \cup {s})
    BY <1>5, FS_Subset
<1>7. /\ Cardinality(A) \in Nat /\ Cardinality(B) \in Nat /\ Cardinality(C) \in Nat
      /\ Cardinality(Y) \in Nat /\ Cardinality(B \cup {s}) \in Nat
    BY <1>1, <1>3, <1>5, <1>6, FS_CardinalityType
<1>8. Cardinality(A) + Cardinality(Y) <= Cardinality(Z)
    BY <1>1, <1>4, <1>5, <1>6, <1>7
<1>. QED
    BY <1>1, <1>6, <1>8 DEF Conta

LEMMA AtribuirReservadaInv ==
    ASSUME IInv, NEW s \in Sessoes, AtribuirReservada(s)
    PROVE  IInv'
<1>. PICK y, r, v, g : /\ y = sessao[s] /\ r = y.reserva /\ v = y.unidade
                       /\ g = reserva[r].com
    OBVIOUS
<1>. DEFINE x == [y EXCEPT !.pc = "marcar"]
            m == Atribuicao(g, Nenhum)
<1>1. /\ TypeOK /\ y.pc = "atribuir" /\ y \in SEfetivar /\ r \in Reservas /\ v \in Unidades
    BY Registro DEF IInv, AtribuirReservada, SEfetivar
<1>2. reserva[r] # SemReserva /\ reserva[r] \in Reserva /\ g \in Funcionarios
    BY <1>1 DEF IInv, Reservando, TypeOK, Reserva
<1>3. /\ v \notin Travadas /\ Aceita(v, m) /\ Aplicar({v}, m) /\ Ir(s, x)
      /\ UNCHANGED <<kit, reserva>>
    BY DEF AtribuirReservada
<1>4. m \in Movimento /\ m.evento = Nenhum
    BY <1>2 DEF Atribuicao, Movimento
<1>5. \A f \in Funcionarios : m = Atribuicao(f, Nenhum) <=> f = g
    BY DEF Atribuicao
<1>6. x \in SEfetivar /\ x.pc = "marcar" /\ x.reserva = r /\ x.unidade = v
    BY <1>1 DEF SEfetivar
<1>. HIDE DEF m, x
<1>7. /\ sessao' \in [Sessoes -> Sessao] /\ sessao'[s] = x
      /\ \A z \in Sessoes \ {s} : sessao'[z] = sessao[z]
    BY <1>1, <1>3, <1>6, IrEfeito, SessaoTipos
<1>8. Move({v}, m)
    <2>1. \A z \in Sessoes : EmKit(z) => sessao[z].pegas \cap {v} = {}
        BY <1>3 DEF Travadas
    <2>2. \A z \in Sessoes : sessao[z].pc = "atribuirKit" => sessao[z].evento # m.evento
        BY <1>1, <1>4, Registro, FerramentasAssumption DEF SAtribuir
    <2>. QED
        BY <1>1, <1>3, <1>6, <1>7, <2>1, <2>2 DEF Move
<1>9. ASSUME NEW u \in Unidades, NEW f \in Funcionarios
      PROVE  Conta(u, f)'
    <2>1. Conta(u, f) /\ mov'[u] \in Seq(Movimento)
        BY <1>1, <1>3, <1>4, Aplicou DEF IInv
    <2>2. EfetivadasCom(u, f)' = EfetivadasCom(u, f)
        BY <1>3 DEF EfetivadasCom
    <2>3. EntregasA(u, f) \subseteq EntregasA(u, f)'
        BY <1>1, <1>3, <1>4, EntregasCrescem
    <2>4. CASE u = v /\ f = g
        <3>1. Marcando(u, f)' \subseteq Marcando(u, f) \cup {s}
            BY <1>3, <1>7 DEF Marcando
        <3>2. /\ Len(mov[u]) + 1 \notin EntregasA(u, f)
              /\ EntregasA(u, f)' = EntregasA(u, f) \cup {Len(mov[u]) + 1}
            <4>1. {v} \in SUBSET Unidades /\ u \in {v} /\ m = Atribuicao(f, Nenhum)
                BY <1>1, <1>5, <2>4
            <4>. QED
                BY <1>1, <1>3, <1>4, <4>1, EntregasCrescem
        <3>. QED
            BY <2>1, <2>2, <3>1, <3>2, ContaEntrega
    <2>5. CASE u # v \/ f # g
        <3>1. Marcando(u, f)' \subseteq Marcando(u, f)
            BY <1>3, <1>6, <1>7, <2>5 DEF Marcando
        <3>. QED
            BY <2>1, <2>2, <2>3, <3>1, ContaFolga
    <2>. QED
        BY <2>4, <2>5
<1>. QED
    BY <1>1, <1>4, <1>7, <1>8, <1>9, MoveInv DEF IInv

\* A session ends with a row written in the table of reservations.
Grava(q, l) == reserva' = [reserva EXCEPT ![q] = l] /\ UNCHANGED <<unidade, mov, kit>>

LEMMA ReservaMuda ==
    ASSUME IInv, NEW s \in Sessoes, sessao[s].pc \in {"inserir", "marcar", "cancelar"}, Sair(s),
           NEW q, q = sessao[s].reserva, NEW l \in Reserva, l.status # "nenhuma",
           Grava(q, l)
    PROVE  /\ TypeOK' /\ CadeiaDePosse' /\ Travou'
           /\ \A z \in Sessoes : Montando(z)' /\ Reservando(z)'
           /\ q \in Reservas /\ reserva'[q] = l
           /\ \A p \in Reservas \ {q} : reserva'[p] = reserva[p]
           /\ sessao'[s].pc = "ociosa" /\ \A z \in Sessoes \ {s} : sessao'[z] = sessao[z]
<1>0. reserva' = [reserva EXCEPT ![q] = l] /\ UNCHANGED <<unidade, mov, kit>>
    BY DEF Grava
<1>1. TypeOK /\ q \in Reservas
    BY Registro DEF IInv, SInserir, SEfetivar, SCancelar
<1>2. /\ reserva' \in [Reservas -> Reserva \cup {SemReserva}] /\ reserva'[q] = l
      /\ \A p \in Reservas \ {q} : reserva'[p] = reserva[p]
    BY <1>0, <1>1 DEF TypeOK
<1>3. /\ sessao' \in [Sessoes -> Sessao] /\ sessao'[s].pc = "ociosa"
      /\ \A z \in Sessoes \ {s} : sessao'[z] = sessao[z]
    BY <1>1, IrEfeito, SessaoTipos DEF Sair, Ociosa
<1>4. TypeOK' /\ CadeiaDePosse'
    <2>1. TypeOK'
        BY <1>0, <1>1, <1>2, <1>3 DEF TypeOK
    <2>2. CadeiaDePosse'
        BY <1>0 DEF IInv, CadeiaDePosse
    <2>. QED
        BY <2>1, <2>2
<1>5. Travou'
    BY <1>0, <1>3 DEF IInv, Travou, EmKit
<1>6. ASSUME NEW z \in Sessoes
      PROVE  Montando(z)'
    <2>. SUFFICES ASSUME sessao'[z].pc = "atribuirKit" PROVE Montando(z)'
        BY DEF Montando
    <2>. PICK y : y = sessao[z]
        OBVIOUS
    <2>1. sessao'[z] = y /\ Montando(z) /\ y.pc = "atribuirKit"
        BY <1>3 DEF IInv
    <2>2. Montado(y) /\ \A u \in Unidades : ~TeveEvento(u, y.evento)'
        BY <1>0, <2>1 DEF Montando, TeveEvento
    <2>3. \A t \in Sessoes \ {z} : sessao'[t].pc = "atribuirKit" => sessao'[t].evento # y.evento
        BY <1>3, <2>1 DEF Montando
    <2>. QED
        BY <1>0, <2>1, <2>2, <2>3 DEF Montando, TeveEvento
<1>7. ASSUME NEW z \in Sessoes
      PROVE  Reservando(z)'
    <2>1. CASE z = s
        BY <1>3, <2>1 DEF Reservando
    <2>2. CASE z # s
        <3>1. sessao'[z] = sessao[z] /\ Reservando(z) /\ Reservando(s)
            BY <1>3, <2>2 DEF IInv
        <3>2. l # SemReserva
            BY DEF SemReserva
        <3>3. sessao[z].pc \in {"atribuir", "marcar", "cancelar"} =>
                sessao[z].reserva \in Reservas /\ reserva'[sessao[z].reserva] # SemReserva
            BY <1>1, <1>2, <3>1, <3>2, Registro DEF Reservando, SEfetivar, SCancelar
        <3>4. sessao[z].pc = "inserir" =>
                sessao[z].reserva \in Reservas /\ sessao[z].reserva # q
            BY <1>1, <2>2, <3>1, Registro DEF Reservando, SInserir
        <3>5. sessao[z].pc = "inserir" =>
                /\ \A t \in Sessoes \ {z} :
                     sessao'[t].pc = "inserir" => sessao'[t].reserva # sessao[z].reserva
            BY <1>3, <3>1 DEF Reservando
        <3>. QED
            BY <1>2, <3>1, <3>3, <3>4, <3>5 DEF Reservando
    <2>. QED
        BY <2>1, <2>2
<1>. QED
    BY <1>1, <1>2, <1>3, <1>4, <1>5, <1>6, <1>7

\* The row inserted or cancelled is not an effected one.
LEMMA NaoEfetiva ==
    ASSUME IInv, NEW s \in Sessoes, sessao[s].pc \in {"inserir", "cancelar"}, Sair(s),
           NEW l \in Reserva, l.status \in {"pendente", "cancelada"},
           sessao[s].pc = "cancelar" => l.com = reserva[sessao[s].reserva].com,
           reserva' = [reserva EXCEPT ![sessao[s].reserva] = l], UNCHANGED <<unidade, mov, kit>>
    PROVE  IInv'
<1>. PICK q : q = sessao[s].reserva
    OBVIOUS
<1>1. /\ TypeOK' /\ CadeiaDePosse' /\ Travou'
      /\ \A z \in Sessoes : Montando(z)' /\ Reservando(z)'
      /\ q \in Reservas /\ reserva'[q] = l
      /\ \A p \in Reservas \ {q} : reserva'[p] = reserva[p]
      /\ sessao'[s].pc = "ociosa" /\ \A z \in Sessoes \ {s} : sessao'[z] = sessao[z]
    <2>1. /\ sessao[s].pc \in {"inserir", "marcar", "cancelar"} /\ l.status # "nenhuma"
          /\ Grava(q, l)
        BY DEF Grava
    <2>. QED
        BY <2>1, ReservaMuda
<1>2. ASSUME NEW u \in Unidades, NEW f \in Funcionarios
      PROVE  Conta(u, f)'
    <2>1. TypeOK /\ Conta(u, f) /\ mov'[u] \in Seq(Movimento) /\ Reservando(s)
        BY DEF IInv, TypeOK
    <2>2. EfetivadasCom(u, f)' \subseteq EfetivadasCom(u, f)
        BY <1>1 DEF EfetivadasCom
    <2>3. Marcando(u, f)' \subseteq Marcando(u, f)
        <3>1. ASSUME NEW z \in Sessoes, z # s, sessao[z].pc = "marcar"
              PROVE  reserva'[sessao[z].reserva].com = reserva[sessao[z].reserva].com
            <4>1. /\ sessao[z].reserva \in Reservas
                  /\ reserva[sessao[z].reserva] # SemReserva
                BY <2>1, <3>1, Registro DEF IInv, Reservando, SEfetivar
            <4>2. sessao[s].pc = "inserir" => sessao[z].reserva # q
                BY <2>1, <4>1 DEF Reservando
            <4>. QED
                BY <1>1, <4>1, <4>2
        <3>. QED
            BY <1>1, <3>1 DEF Marcando
    <2>4. EntregasA(u, f)' = EntregasA(u, f)
        BY DEF EntregasA
    <2>. QED
        BY <2>1, <2>2, <2>3, <2>4, ContaFolga
<1>. QED
    BY <1>1, <1>2 DEF IInv

LEMMA InserirReservaInv ==
    ASSUME IInv, NEW s \in Sessoes, InserirReserva(s)
    PROVE  IInv'
<1>1. TypeOK /\ sessao[s] \in SInserir /\ Reservando(s) /\ sessao[s].pc = "inserir"
    BY Registro DEF IInv, InserirReserva
<1>2. sessao[s].linha \in Reserva /\ sessao[s].linha.status = "pendente"
    BY <1>1 DEF SInserir, Reservando
<1>3. /\ Sair(s) /\ UNCHANGED <<unidade, mov, kit>>
      /\ reserva' = [reserva EXCEPT ![sessao[s].reserva] = sessao[s].linha]
    BY DEF InserirReserva
<1>. QED
    BY <1>1, <1>2, <1>3, NaoEfetiva

LEMMA MarcarCanceladaInv ==
    ASSUME IInv, NEW s \in Sessoes, MarcarCancelada(s)
    PROVE  IInv'
<1>. PICK q : q = sessao[s].reserva
    OBVIOUS
<1>. DEFINE l == [reserva[q] EXCEPT !.status = "cancelada"]
<1>1. TypeOK /\ q \in Reservas /\ reserva[q] \in Reserva /\ sessao[s].pc = "cancelar"
    BY Registro DEF IInv, TypeOK, MarcarCancelada, Reservando, SCancelar
<1>2. l \in Reserva /\ l.status = "cancelada" /\ l.com = reserva[q].com
    BY <1>1 DEF Reserva
<1>3. /\ Sair(s) /\ UNCHANGED <<unidade, mov, kit>>
      /\ reserva' = [reserva EXCEPT ![q] = l]
    BY DEF MarcarCancelada
<1>. HIDE DEF l
<1>. QED
    BY <1>1, <1>2, <1>3, NaoEfetiva

\* Marking turns the hand-over of a session into the reservation's own.
LEMMA ContaMarca ==
    ASSUME NEW u \in Unidades, NEW f \in Funcionarios, Conta(u, f), mov[u] \in Seq(Movimento),
           NEW s \in Marcando(u, f), NEW q,
           EfetivadasCom(u, f)' \subseteq EfetivadasCom(u, f) \cup {q},
           Marcando(u, f)' \subseteq Marcando(u, f) \ {s},
           EntregasA(u, f)' = EntregasA(u, f)
    PROVE  Conta(u, f)'
<1>. PICK A, B, C, X, Y :
        /\ A = EfetivadasCom(u, f) /\ B = Marcando(u, f) /\ C = EntregasA(u, f)
        /\ X = EfetivadasCom(u, f)' /\ Y = Marcando(u, f)'
    OBVIOUS
<1>1. /\ IsFiniteSet(A) /\ IsFiniteSet(B) /\ Cardinality(A) + Cardinality(B) <= Cardinality(C)
    BY DEF Conta
<1>2. s \in B /\ X \subseteq A \cup {q} /\ Y \subseteq B \ {s}
    OBVIOUS
<1>3. Cardinality(A) \in Nat /\ Cardinality(B) \in Nat
    BY <1>1, FS_CardinalityType
<1>4. IsFiniteSet(A \cup {q}) /\ Cardinality(A \cup {q}) <= Cardinality(A) + 1
    BY <1>1, UmAMais
<1>5. IsFiniteSet(B \ {s}) /\ Cardinality(B \ {s}) = Cardinality(B) - 1
    BY <1>1, <1>2, FS_RemoveElement
<1>6. /\ IsFiniteSet(X) /\ Cardinality(X) <= Cardinality(A \cup {q})
      /\ IsFiniteSet(Y) /\ Cardinality(Y) <= Cardinality(B \ {s})
    BY <1>2, <1>4, <1>5, FS_Subset
<1>7. /\ Cardinality(X) \in Nat /\ Cardinality(Y) \in Nat
      /\ Cardinality(A \cup {q}) \in Nat /\ Cardinality(B \ {s}) \in Nat
    BY <1>4, <1>5, <1>6, FS_CardinalityType
<1>8. Cardinality(X) + Cardinality(Y) <= Cardinality(A) + Cardinality(B)
    BY <1>3, <1>4, <1>5, <1>6, <1>7
<1>9. Cardinality(X) + Cardinality(Y) <= Cardinality(C)
    <2>1. Cardinality(C) \in Nat
        BY EntregasFinitas, FS_CardinalityType DEF EntregasA
    <2>. QED
        BY <1>1, <1>3, <1>7, <1>8, <2>1
<1>. QED
    BY <1>6, <1>9 DEF Conta

LEMMA MarcarEfetivadaInv ==
    ASSUME IInv, NEW s \in Sessoes, MarcarEfetivada(s)
    PROVE  IInv'
<1>. PICK q, v, g : /\ q = sessao[s].reserva /\ v = sessao[s].unidade /\ g = reserva[q].com
    OBVIOUS
<1>. DEFINE l == [reserva[q] EXCEPT !.status = "efetivada", !.unidade = v]
<1>1. /\ TypeOK /\ q \in Reservas /\ v \in Unidades /\ reserva[q] \in Reserva
      /\ sessao[s].pc = "marcar"
    BY Registro DEF IInv, TypeOK, MarcarEfetivada, Reservando, SEfetivar
<1>2. l \in Reserva /\ l.status = "efetivada" /\ l.unidade = v /\ l.com = g
    BY <1>1 DEF Reserva
<1>3. /\ Sair(s) /\ UNCHANGED <<unidade, mov, kit>> /\ reserva' = [reserva EXCEPT ![q] = l]
      /\ l.status # "nenhuma" /\ sessao[s].pc \in {"inserir", "marcar", "cancelar"}
    BY <1>1, <1>2 DEF MarcarEfetivada, TypeOK
<1>. HIDE DEF l
<1>. PICK k : k = l
    OBVIOUS
<1>4. /\ TypeOK' /\ CadeiaDePosse' /\ Travou'
      /\ \A z \in Sessoes : Montando(z)' /\ Reservando(z)'
      /\ q \in Reservas /\ reserva'[q] = k
      /\ \A p \in Reservas \ {q} : reserva'[p] = reserva[p]
      /\ sessao'[s].pc = "ociosa" /\ \A z \in Sessoes \ {s} : sessao'[z] = sessao[z]
    <2>1. Grava(q, k)
        BY <1>3 DEF Grava
    <2>. QED
        BY <1>2, <1>3, <2>1, ReservaMuda
<1>5. ASSUME NEW u \in Unidades, NEW f \in Funcionarios
      PROVE  Conta(u, f)'
    <2>0. mov[u] \in Seq(Movimento)
        BY <1>1 DEF TypeOK
    <2>1. Conta(u, f) /\ mov'[u] \in Seq(Movimento) /\ EntregasA(u, f)' = EntregasA(u, f)
        BY <1>1, <1>3 DEF IInv, TypeOK, EntregasA
    <2>2. Marcando(u, f)' \subseteq Marcando(u, f) \ {s}
        <3>1. ASSUME NEW z \in Sessoes, sessao[z].pc = "marcar"
              PROVE  reserva'[sessao[z].reserva].com = reserva[sessao[z].reserva].com
            <4>1. sessao[z].reserva \in Reservas
                BY <1>1, <3>1, Registro DEF SEfetivar
            <4>. QED
                BY <1>2, <1>4, <4>1
        <3>. QED
            BY <1>4, <3>1 DEF Marcando
    <2>3. CASE u = v /\ f = g
        <3>1. s \in Marcando(u, f)
            BY <1>1, <2>3 DEF Marcando
        <3>2. EfetivadasCom(u, f)' \subseteq EfetivadasCom(u, f) \cup {q}
            BY <1>4 DEF EfetivadasCom
        <3>. QED
            BY <2>0, <2>1, <2>2, <3>1, <3>2, ContaMarca
    <2>4. CASE u # v \/ f # g
        <3>1. EfetivadasCom(u, f)' \subseteq EfetivadasCom(u, f)
            BY <1>2, <1>4, <2>4 DEF EfetivadasCom
        <3>. QED
            BY <2>1, <2>2, <3>1, ContaFolga
    <2>. QED
        BY <2>3, <2>4
<1>. QED
    BY <1>4, <1>5 DEF IInv

-----------------------------------------------------------------------------
(* The invariant.                                                          *)

LEMMA Inicio == Init => IInv
<1>. SUFFICES ASSUME Init PROVE IInv
    OBVIOUS
<1>1. TypeOK
    <2>1. << >> \in Seq(Movimento) /\ [status |-> "disponivel", com |-> Nenhum] \in Unidade
        BY DEF Unidade
    <2>2. kit \in [Tipos -> Nat]
        BY FerramentasAssumption DEF Init
    <2>. QED
        BY <2>1, <2>2, SessaoTipos DEF Init, TypeOK
<1>2. CadeiaDePosse
    BY DEF Init, CadeiaDePosse
<1>3. \A s \in Sessoes : sessao[s].pc = "ociosa"
    BY DEF Init, Ociosa
<1>4. Travou /\ \A s \in Sessoes : Montando(s) /\ Reservando(s)
    BY <1>3 DEF Travou, EmKit, Montando, Reservando
<1>5. ASSUME NEW u \in Unidades, NEW f \in Funcionarios
      PROVE  Conta(u, f)
    <2>1. EfetivadasCom(u, f) = {}
        BY DEF Init, EfetivadasCom
    <2>2. Marcando(u, f) = {}
        BY <1>3 DEF Marcando
    <2>3. EntregasA(u, f) = {}
        BY DEF Init, EntregasA
    <2>. QED
        BY <2>1, <2>2, <2>3, FS_EmptySet DEF Conta
<1>. QED
    BY <1>1, <1>2, <1>4, <1>5 DEF IInv

LEMMA Passo == IInv /\ [Next]_vars => IInv'
<1>. SUFFICES ASSUME IInv, [Next]_vars PROVE IInv'
    OBVIOUS
<1>1. CASE \E u \in Unidades : MovimentarUm(u)
    BY <1>1, MovimentarUmInv
<1>2. ASSUME NEW s \in Sessoes,
             \/ \E e \in Eventos, f \in Funcionarios : AtribuirKit(s, e, f)
             \/ \E e \in Eventos, ok \in BOOLEAN : DevolverKit(s, e, ok)
             \/ \E u \in Unidades : DevolverUnidade(s, u)
             \/ PegarItem(s) \/ KitAtribuido(s) \/ KitDevolvido(s) \/ Desfazer(s)
             \/ ApagarItens(s) \/ GravarItens(s)
      PROVE  IInv'
    BY <1>2, AtribuirKitInv, DevolverKitInv, DevolverUnidadeInv, PegarItemInv,
       KitAtribuidoInv, KitDevolvidoInv, SairInv, ApagarItensInv
<1>3. ASSUME NEW s \in Sessoes,
             \/ \E r \in Reservas, n \in Novas : Reservar(s, r, n)
             \/ \E r \in Reservas, u \in Unidades : Efetivar(s, r, u)
             \/ \E r \in Reservas : Cancelar(s, r)
             \/ InserirReserva(s) \/ AtribuirReservada(s) \/ MarcarEfetivada(s)
             \/ MarcarCancelada(s) \/ Abandonar(s)
      PROVE  IInv'
    BY <1>3, ReservarInv, EfetivarInv, CancelarInv, InserirReservaInv, AtribuirReservadaInv,
       MarcarEfetivadaInv, MarcarCanceladaInv, SairInv
<1>4. CASE UNCHANGED vars
    <2>1. TypeOK' /\ CadeiaDePosse' /\ Travou'
        BY <1>4 DEF vars, IInv, TypeOK, CadeiaDePosse, Travou, EmKit
    <2>2. \A s \in Sessoes : Montando(s)' /\ Reservando(s)'
        BY <1>4 DEF vars, IInv, Montando, Montado, PegasDe, TeveEvento, Reservando
    <2>3. \A u \in Unidades, f \in Funcionarios : Conta(u, f)'
        <3>1. ASSUME NEW u \in Unidades, NEW f \in Funcionarios
              PROVE  Conta(u, f)'
            <4>1. /\ EfetivadasCom(u, f)' = EfetivadasCom(u, f)
                  /\ Marcando(u, f)' = Marcando(u, f)
                  /\ EntregasA(u, f)' = EntregasA(u, f)
                BY <1>4 DEF vars, EfetivadasCom, Marcando, EntregasA
            <4>. QED
                BY <4>1 DEF IInv, Conta
        <3>. QED
            BY <3>1
    <2>. QED
        BY <2>1, <2>2, <2>3 DEF IInv
<1>. QED
    BY <1>1, <1>2, <1>3, <1>4 DEF Next

\* The inductive invariant: types, the chain of custody, what each kit
\* function holds, and a hand-over for every reservation effected or about to
\* be marked.
THEOREM InvarianteDasFerramentas == Spec => []IInv
BY Inicio, Passo, PTL DEF Spec

\* Every variable keeps its type.
THEOREM TipoDasFerramentas == Spec => []TypeOK
<1>1. IInv => TypeOK
    BY DEF IInv
<1>. QED
    BY <1>1, InvarianteDasFerramentas, PTL

\* The ledger of a unit is a chain of custody that its row agrees with,
\* whatever kits, returns, write-offs and reservations run at once.
THEOREM LedgerCoerente == Spec => []CadeiaDePosse
<1>1. IInv => CadeiaDePosse
    BY DEF IInv
<1>. QED
    BY <1>1, InvarianteDasFerramentas, PTL

\* Sessions that effect reservations with one unit never share a hand-over.
THEOREM EfetivadaEntregue == Spec => []EfetivadaTemEntrega
<1>1. IInv => EfetivadaTemEntrega
    <2>. SUFFICES ASSUME IInv, NEW u \in Unidades, NEW f \in Funcionarios
                  PROVE  Cardinality(EfetivadasCom(u, f)) <= Cardinality(EntregasA(u, f))
        BY DEF EfetivadaTemEntrega
    <2>. PICK A, B, C :
            A = EfetivadasCom(u, f) /\ B = Marcando(u, f) /\ C = EntregasA(u, f)
        OBVIOUS
    <2>1. /\ IsFiniteSet(A) /\ IsFiniteSet(B)
          /\ Cardinality(A) + Cardinality(B) <= Cardinality(C)
        BY DEF IInv, Conta
    <2>2. mov[u] \in Seq(Movimento)
        BY DEF IInv, TypeOK
    <2>3. IsFiniteSet(C)
        BY <2>2, EntregasFinitas DEF EntregasA
    <2>4. Cardinality(A) \in Nat /\ Cardinality(B) \in Nat /\ Cardinality(C) \in Nat
        BY <2>1, <2>3, FS_CardinalityType
    <2>. QED
        BY <2>1, <2>4
<1>. QED
    BY <1>1, InvarianteDasFerramentas, PTL

-----------------------------------------------------------------------------
(* The refinement of Custodia.                                             *)

\* A kit comes back with units that left under its event.
Devolvendo ==
    \A s \in Sessoes : sessao[s].pc = "devolverKit" =>
        sessao[s].falta \cup sessao[s].pegas \subseteq SairamCom(sessao[s].evento)

LEMMA SairamAplica ==
    ASSUME TypeOK, NEW U \in SUBSET Unidades, NEW m \in Movimento, Aplicar(U, m), NEW e
    PROVE  /\ m.tipo = "atribuicao" /\ m.evento = e => SairamCom(e)' = SairamCom(e) \cup U
           /\ ~(m.tipo = "atribuicao" /\ m.evento = e) => SairamCom(e)' = SairamCom(e)
<1>1. ASSUME NEW u \in U
      PROVE  TeveEvento(u, e)' <=>
                TeveEvento(u, e) \/ (m.tipo = "atribuicao" /\ m.evento = e)
    <2>. PICK g, h, n : g = mov'[u] /\ h = mov[u] /\ n = Len(h)
        OBVIOUS
    <2>1. h \in Seq(Movimento) /\ g = Append(h, m)
        BY <1>1, Aplicou DEF TypeOK
    <2>2. /\ n \in Nat /\ DOMAIN h = 1 .. n /\ DOMAIN g = 1 .. (n + 1)
          /\ g[n + 1] = m /\ \A i \in 1 .. n : g[i] = h[i]
        BY <2>1, MaisUm
    <2>. DEFINE P(i, k) == k[i].tipo = "atribuicao" /\ k[i].evento = e
    <2>3. TeveEvento(u, e) <=> \E i \in DOMAIN h : P(i, h)
        BY DEF TeveEvento
    <2>4. TeveEvento(u, e)' <=> \E i \in DOMAIN g : P(i, g)
        BY DEF TeveEvento
    <2>5. /\ \A i \in 1 .. n : P(i, g) <=> P(i, h)
          /\ P(n + 1, g) <=> (m.tipo = "atribuicao" /\ m.evento = e)
        BY <2>2
    <2>. HIDE DEF P
    <2>6. (\E i \in 1 .. (n + 1) : P(i, g)) <=> (\E i \in 1 .. n : P(i, g)) \/ P(n + 1, g)
        BY <2>2
    <2>. QED
        BY <2>2, <2>3, <2>4, <2>5, <2>6
<1>2. ASSUME NEW u \in Unidades \ U
      PROVE  TeveEvento(u, e)' <=> TeveEvento(u, e)
    BY <1>2, Aplicou DEF TeveEvento
<1>. QED
    BY <1>1, <1>2 DEF SairamCom

LEMMA SaidasFicam ==
    ASSUME TypeOK, NEW U \in SUBSET Unidades, NEW m \in Movimento, Aplicar(U, m),
           m.tipo # "atribuicao" \/ m.evento = Nenhum
    PROVE  Saidas' = Saidas
<1>1. ASSUME NEW e \in Eventos
      PROVE  SairamCom(e)' = SairamCom(e)
    <2>1. ~(m.tipo = "atribuicao" /\ m.evento = e)
        BY FerramentasAssumption
    <2>. QED
        BY <2>1, SairamAplica
<1>. QED
    BY <1>1 DEF Saidas

LEMMA SaidasParadas == UNCHANGED mov => Saidas' = Saidas
BY DEF Saidas, SairamCom, TeveEvento

\* What a session asks for stays as it is, whatever it does next.
LEMMA PedidosFicam ==
    ASSUME TypeOK, NEW s \in Sessoes, NEW x \in Sessao, Ir(s, x),
           x.pc = "atribuirKit" <=> sessao[s].pc = "atribuirKit",
           x.pc = "atribuirKit" =>
                x.evento = sessao[s].evento /\ x.pedido = sessao[s].pedido
    PROVE  Pedidos' = Pedidos
<1>1. sessao'[s] = x /\ \A z \in Sessoes \ {s} : sessao'[z] = sessao[z]
    BY IrEfeito
<1>2. ASSUME NEW e \in Eventos
      PROVE  /\ Abertos(e)' = Abertos(e)
             /\ \A z \in Abertos(e) : sessao'[z].pedido = sessao[z].pedido
    <2>1. ASSUME NEW z \in Sessoes
          PROVE  /\ sessao'[z].pc = "atribuirKit" <=> sessao[z].pc = "atribuirKit"
                 /\ sessao[z].pc = "atribuirKit" =>
                      /\ sessao'[z].evento = sessao[z].evento
                      /\ sessao'[z].pedido = sessao[z].pedido
        <3>1. CASE z = s
            BY <1>1, <3>1
        <3>2. CASE z # s
            BY <1>1, <3>2
        <3>. QED
            BY <3>1, <3>2
    <2>. QED
        BY <2>1 DEF Abertos
<1>3. ASSUME NEW e \in Eventos
      PROVE  {sessao'[z].pedido : z \in Abertos(e)'} = {sessao[z].pedido : z \in Abertos(e)}
    BY <1>2
<1>. QED
    BY <1>3 DEF Pedidos

\* A function that hands out a kit ends: its event has no order any more.
LEMMA PedidoFechado ==
    ASSUME IInv, NEW s \in Sessoes, sessao[s].pc = "atribuirKit", Sair(s),
           NEW d \in Eventos, d = sessao[s].evento
    PROVE  Pedidos' = [Pedidos EXCEPT ![d] = {}]
<1>1. /\ sessao'[s].pc = "ociosa" /\ \A z \in Sessoes \ {s} : sessao'[z] = sessao[z]
      /\ \A z \in Sessoes \ {s} :
            sessao[z].pc = "atribuirKit" => sessao[z].evento # d
    <2>1. TypeOK /\ Ociosa \in Sessao /\ Ir(s, Ociosa) /\ Montando(s)
        BY SessaoTipos DEF IInv, Sair
    <2>2. sessao'[s] = Ociosa /\ \A z \in Sessoes \ {s} : sessao'[z] = sessao[z]
        BY <2>1, IrEfeito
    <2>. QED
        BY <2>1, <2>2 DEF Ociosa, Montando
<1>2. Abertos(d)' = {}
    BY <1>1 DEF Abertos
<1>3. ASSUME NEW e \in Eventos, e # d
      PROVE  {sessao'[z].pedido : z \in Abertos(e)'} = {sessao[z].pedido : z \in Abertos(e)}
    <2>1. /\ Abertos(e)' = Abertos(e)
          /\ \A z \in Abertos(e) : sessao'[z] = sessao[z]
        BY <1>1, <1>3 DEF Abertos
    <2>. QED
        BY <2>1
<1>4. {sessao'[z].pedido : z \in Abertos(d)'} = {}
    BY <1>2
<1>. QED
    BY <1>3, <1>4 DEF Pedidos

\* Rows, as Custodia writes them.
LEMMA Linhas ==
    ASSUME IInv, NEW u \in Unidades
    PROVE  /\ unidade[u].status = "disponivel" => unidade[u] = Posse!Livre
           /\ unidade[u].status # "baixada" => unidade[u] # Posse!Baixada
           /\ \A f \in Funcionarios : \A e : Resultado(Atribuicao(f, e)) = Posse!Com(f)
           /\ \A ok \in BOOLEAN : \A e : Resultado(Devolucao(e, ok)) = Posse!Volta(ok)
           /\ Resultado(Baixa) = Posse!Baixada
<1>1. ASSUME NEW m \in Movimento, Resultado(m).status = "disponivel"
      PROVE  Resultado(m) = Posse!Livre
    BY <1>1 DEF Movimento, Resultado, Posse!Livre
<1>2. unidade[u].status = "disponivel" => unidade[u] = Posse!Livre
    <2>1. CASE mov[u] = << >>
        BY <2>1 DEF IInv, CadeiaDePosse, Posse!Livre
    <2>2. CASE mov[u] # << >>
        <3>1. mov[u] \in Seq(Movimento)
            BY DEF IInv, TypeOK
        <3>2. mov[u][Len(mov[u])] \in Movimento
            BY <2>2, <3>1
        <3>. QED
            BY <1>1, <2>2, <3>2 DEF IInv, CadeiaDePosse
    <2>. QED
        BY <2>1, <2>2
<1>. QED
    BY <1>2 DEF Resultado, Atribuicao, Devolucao, Baixa, Posse!Com, Posse!Volta,
                Posse!Livre, Posse!Baixada

LEMMA PassarUm ==
    ASSUME NEW U, NEW m, NEW x, Aplicar(U, m), Resultado(m) = x
    PROVE  Posse!Passar(U, x)
BY DEF Aplicar, Posse!Passar

LEMMA ParadoStut ==
    ASSUME UNCHANGED <<unidade, kit>>, Pedidos' = Pedidos, Saidas' = Saidas
    PROVE  UNCHANGED Posse!vars
BY DEF Posse!vars

\* A session that hands out no kit moves and writes nothing of the custody.
LEMMA PassoParado ==
    ASSUME TypeOK, NEW s \in Sessoes, NEW x \in Sessao, Ir(s, x),
           x.pc = "atribuirKit" <=> sessao[s].pc = "atribuirKit",
           x.pc = "atribuirKit" =>
                x.evento = sessao[s].evento /\ x.pedido = sessao[s].pedido,
           UNCHANGED <<unidade, mov, kit>>
    PROVE  UNCHANGED Posse!vars
BY PedidosFicam, SaidasParadas, ParadoStut

LEMMA MovimentarUmPosse ==
    ASSUME IInv, NEW u \in Unidades, MovimentarUm(u)
    PROVE  Posse!Next
<1>1. Pedidos' = Pedidos /\ UNCHANGED kit
    BY DEF MovimentarUm, Movimentar, Pedidos, Abertos
<1>2. ASSUME NEW f \in Funcionarios, Movimentar(u, Atribuicao(f, Nenhum))
      PROVE  Posse!Entregar(u, f)
    <2>1. Atribuicao(f, Nenhum) \in Movimento /\ Atribuicao(f, Nenhum).evento = Nenhum
        BY MovimentoTipo DEF Atribuicao
    <2>2. unidade[u].status = "disponivel" /\ Aplicar({u}, Atribuicao(f, Nenhum))
        BY <1>2 DEF Movimentar, Aceita, Atribuicao
    <2>3. Saidas' = Saidas
        BY <2>1, <2>2, SaidasFicam DEF IInv
    <2>4. Posse!Passar({u}, Posse!Com(f))
        BY <2>2, Linhas, PassarUm
    <2>. QED
        BY <1>1, <2>2, <2>3, <2>4, Linhas DEF Posse!Entregar
<1>3. ASSUME NEW ok \in BOOLEAN, Movimentar(u, Devolucao(Nenhum, ok))
      PROVE  Posse!Receber(u, ok)
    <2>1. Devolucao(Nenhum, ok) \in Movimento /\ Devolucao(Nenhum, ok).tipo = "devolucao"
        BY DEF Devolucao, Movimento
    <2>2. unidade[u].status = "atribuida" /\ Aplicar({u}, Devolucao(Nenhum, ok))
        BY <1>3 DEF Movimentar, Aceita, Devolucao
    <2>3. Saidas' = Saidas
        BY <2>1, <2>2, SaidasFicam DEF IInv
    <2>4. Posse!Passar({u}, Posse!Volta(ok))
        BY <2>2, Linhas, PassarUm
    <2>. QED
        BY <1>1, <2>2, <2>3, <2>4 DEF Posse!Receber
<1>4. ASSUME Movimentar(u, Baixa)
      PROVE  Posse!Baixar(u)
    <2>1. Baixa \in Movimento /\ Baixa.tipo = "baixa"
        BY DEF Baixa, Movimento
    <2>2. unidade[u].status # "baixada" /\ Aplicar({u}, Baixa)
        BY <1>4 DEF Movimentar, Aceita, Baixa
    <2>3. Saidas' = Saidas
        BY <2>1, <2>2, SaidasFicam DEF IInv
    <2>4. Posse!Passar({u}, Posse!Baixada)
        BY <2>2, Linhas, PassarUm
    <2>. QED
        BY <1>1, <2>2, <2>3, <2>4, Linhas DEF Posse!Baixar
<1>. QED
    BY <1>2, <1>3, <1>4 DEF MovimentarUm, Posse!Next

LEMMA AtribuirReservadaPosse ==
    ASSUME IInv, NEW s \in Sessoes, AtribuirReservada(s)
    PROVE  Posse!Next
<1>. PICK u, f, x : /\ u = sessao[s].unidade /\ f = reserva[sessao[s].reserva].com
                    /\ x = [sessao[s] EXCEPT !.pc = "marcar"]
    OBVIOUS
<1>1. /\ TypeOK /\ sessao[s] \in SEfetivar /\ reserva[sessao[s].reserva] # SemReserva
      /\ sessao[s].pc = "atribuir"
    BY Registro DEF IInv, AtribuirReservada, Reservando
<1>2. u \in Unidades /\ f \in Funcionarios
    BY <1>1 DEF SEfetivar, TypeOK, Reserva
<1>3. x \in Sessao /\ x.pc = "marcar"
    BY <1>1, SessaoTipos DEF SEfetivar
<1>4. Pedidos' = Pedidos
    <2>1. Ir(s, x)
        BY DEF AtribuirReservada
    <2>. QED
        BY <1>1, <1>3, <2>1, PedidosFicam
<1>5. /\ unidade[u].status = "disponivel" /\ Aplicar({u}, Atribuicao(f, Nenhum))
      /\ UNCHANGED kit
    <2>1. PICK m \in {Atribuicao(f, Nenhum)} : Aceita(u, m) /\ Aplicar({u}, m)
        BY DEF AtribuirReservada
    <2>2. m = Atribuicao(f, Nenhum) /\ m.tipo = "atribuicao"
        BY DEF Atribuicao
    <2>. QED
        BY <2>1, <2>2 DEF Aceita, AtribuirReservada
<1>6. Saidas' = Saidas
    BY <1>1, <1>2, <1>5, MovimentoTipo, SaidasFicam DEF Atribuicao
<1>7. Posse!Passar({u}, Posse!Com(f))
    BY <1>2, <1>5, Linhas, PassarUm
<1>8. Posse!Entregar(u, f)
    BY <1>2, <1>4, <1>5, <1>6, <1>7, Linhas DEF Posse!Entregar
<1>. QED
    BY <1>2, <1>8 DEF Posse!Next

LEMMA AtribuirKitPosse ==
    ASSUME IInv, NEW s \in Sessoes, NEW e \in Eventos, NEW f \in Funcionarios,
           AtribuirKit(s, e, f)
    PROVE  Posse!PedirKit(e)
<1>. DEFINE x == [pc |-> "atribuirKit", evento |-> e, com |-> f,
                  falta |-> kit, pedido |-> kit, pegas |-> {}]
<1>1. /\ TypeOK /\ Ir(s, x) /\ sessao[s] = Ociosa /\ ~Usado(e)
      /\ UNCHANGED <<unidade, mov, kit>>
    BY DEF IInv, AtribuirKit
<1>2. x \in Sessao /\ x.pc = "atribuirKit" /\ x.evento = e /\ x.pedido = kit
    BY <1>1, SessaoTipos DEF SAtribuir, TypeOK
<1>. HIDE DEF x
<1>3. sessao'[s] = x /\ \A z \in Sessoes \ {s} : sessao'[z] = sessao[z]
    BY <1>1, <1>2, IrEfeito
<1>4. Abertos(e) = {} /\ SairamCom(e) = {} /\ s \notin Abertos(e)
    BY <1>1 DEF Usado, Abertos, SairamCom
<1>5. Pedidos[e] = {} /\ Saidas[e] = {} /\ Saidas' = Saidas
    BY <1>1, <1>4, SaidasParadas DEF Pedidos, Saidas
<1>6. Abertos(e)' = {s}
    BY <1>2, <1>3, <1>4 DEF Abertos
<1>7. {sessao'[z].pedido : z \in Abertos(e)'} = {kit}
    BY <1>2, <1>3, <1>6
<1>8. ASSUME NEW d \in Eventos, d # e
      PROVE  {sessao'[z].pedido : z \in Abertos(d)'} = {sessao[z].pedido : z \in Abertos(d)}
    <2>1. sessao[s].pc # "atribuirKit"
        BY <1>1 DEF Ociosa
    <2>2. Abertos(d)' = Abertos(d) /\ \A z \in Abertos(d) : sessao'[z] = sessao[z]
        BY <1>2, <1>3, <1>8, <2>1 DEF Abertos
    <2>. QED
        BY <2>2
<1>9. Pedidos' = [Pedidos EXCEPT ![e] = {kit}]
    BY <1>7, <1>8 DEF Pedidos
<1>. QED
    BY <1>1, <1>5, <1>9 DEF Posse!PedirKit

\* The commit of a hand-over: exactly what its cursor asked for leaves, at once.
LEMMA KitAtribuidoPosse ==
    ASSUME IInv, NEW s \in Sessoes, KitAtribuido(s)
    PROVE  Posse!Next
<1>. PICK e, f, U, m : /\ e = sessao[s].evento /\ f = sessao[s].com
                       /\ U = sessao[s].pegas /\ m = Atribuicao(f, e)
    OBVIOUS
<1>1. /\ TypeOK /\ sessao[s].pc = "atribuirKit" /\ sessao[s] \in SAtribuir
      /\ Aplicar(U, m) /\ Sair(s) /\ UNCHANGED kit
      /\ \A t \in Tipos : sessao[s].falta[t] = 0
      /\ Montando(s)
    BY Registro DEF IInv, KitAtribuido
<1>2. /\ e \in Eventos /\ f \in Funcionarios /\ U \in SUBSET Unidades
      /\ m \in Movimento /\ m.tipo = "atribuicao" /\ m.evento = e
    BY <1>1 DEF SAtribuir, Atribuicao, Movimento
<1>3. \A u \in U : unidade[u] = Posse!Livre
    BY <1>1, <1>2, Linhas DEF IInv, Travou, EmKit
<1>4. \E p \in Pedidos[e] : \A t \in Tipos :
         Posse!Cardinality({u \in U : TipoDe[u] = t}) = p[t]
    <2>1. s \in Abertos(e)
        BY <1>1 DEF Abertos
    <2>2. sessao[s].pedido \in Pedidos[e]
        BY <1>2, <2>1 DEF Pedidos
    <2>3. \A t \in Tipos : Cardinality({u \in U : TipoDe[u] = t}) = sessao[s].pedido[t]
        BY <1>1 DEF Montando, Montado, PegasDe
    <2>. QED
        BY <2>2, <2>3 DEF Posse!Cardinality, Cardinality
<1>5. Pedidos' = [Pedidos EXCEPT ![e] = {}]
    BY <1>1, <1>2, PedidoFechado
<1>6. Saidas' = [Saidas EXCEPT ![e] = U]
    <2>1. SairamCom(e) = {}
        BY <1>1 DEF Montando, SairamCom
    <2>2. SairamCom(e)' = U
        BY <1>1, <1>2, <2>1, SairamAplica
    <2>3. ASSUME NEW d \in Eventos \ {e}
          PROVE  SairamCom(d)' = SairamCom(d)
        <3>1. ~(m.tipo = "atribuicao" /\ m.evento = d)
            BY <1>2
        <3>. QED
            BY <1>1, <1>2, <3>1, SairamAplica
    <2>. QED
        BY <2>2, <2>3 DEF Saidas
<1>7. Posse!Passar(U, Posse!Com(f))
    <2>1. Resultado(m) = Posse!Com(f)
        BY <1>2 DEF Resultado, Atribuicao, Posse!Com
    <2>. QED
        BY <1>1, <2>1, PassarUm
<1>8. Posse!EntregarKit(e, f, U)
    BY <1>1, <1>3, <1>4, <1>5, <1>6, <1>7 DEF Posse!EntregarKit
<1>. QED
    BY <1>2, <1>8 DEF Posse!Next

\* And of a return.
LEMMA KitDevolvidoPosse ==
    ASSUME IInv, Devolvendo, NEW s \in Sessoes, KitDevolvido(s)
    PROVE  Posse!Next
<1>. PICK e, ok, U, m : /\ e = sessao[s].evento /\ ok = sessao[s].ok
                        /\ U = sessao[s].pegas /\ m = Devolucao(e, ok)
    OBVIOUS
<1>1. /\ TypeOK /\ sessao[s].pc = "devolverKit" /\ sessao[s] \in SDevolver
      /\ Aplicar(U, m) /\ Sair(s) /\ UNCHANGED kit
    BY Registro DEF IInv, KitDevolvido
<1>2. /\ e \in Eventos /\ ok \in BOOLEAN /\ U \in SUBSET Unidades
      /\ m \in Movimento /\ m.tipo = "devolucao"
    BY <1>1 DEF SDevolver, Devolucao, Movimento
<1>3. \A u \in U : unidade[u].status = "atribuida"
    BY <1>1 DEF IInv, Travou, EmKit
<1>4. U \subseteq Saidas[e]
    BY <1>1, <1>2 DEF Devolvendo, Saidas
<1>5. Pedidos' = Pedidos
    <2>1. Ir(s, Ociosa) /\ Ociosa \in Sessao /\ Ociosa.pc = "ociosa"
        BY <1>1, SessaoTipos DEF Sair, Ociosa
    <2>. QED
        BY <1>1, <2>1, PedidosFicam
<1>6. Saidas' = Saidas
    BY <1>1, <1>2, SaidasFicam
<1>7. Posse!Passar(U, Posse!Volta(ok))
    <2>1. Resultado(m) = Posse!Volta(ok)
        BY DEF Resultado, Devolucao, Posse!Volta, Posse!Livre, Posse!Baixada
    <2>. QED
        BY <1>1, <2>1, PassarUm
<1>8. Posse!ReceberKit(e, U, ok)
    BY <1>1, <1>3, <1>4, <1>5, <1>6, <1>7 DEF Posse!ReceberKit
<1>. QED
    BY <1>2, <1>8 DEF Posse!Next

\* An exception keeps nothing: the order of the kit is dropped.
LEMMA DesfazerPosse ==
    ASSUME IInv, NEW s \in Sessoes, Desfazer(s)
    PROVE  Posse!Next \/ UNCHANGED Posse!vars
<1>1. /\ TypeOK /\ Sair(s) /\ UNCHANGED <<unidade, mov, kit>> /\ Saidas' = Saidas
      /\ Ociosa \in Sessao /\ Ociosa.pc = "ociosa"
    BY SaidasParadas, SessaoTipos DEF IInv, Desfazer, Ociosa
<1>2. CASE sessao[s].pc = "atribuirKit"
    <2>. PICK e : e = sessao[s].evento
        OBVIOUS
    <2>1. e \in Eventos
        BY <1>1, <1>2, Registro DEF SAtribuir
    <2>2. Pedidos' = [Pedidos EXCEPT ![e] = {}]
        BY <1>1, <1>2, <2>1, PedidoFechado
    <2>3. Posse!NegarKit(e)
        BY <1>1, <2>2 DEF Posse!NegarKit
    <2>. QED
        BY <2>1, <2>3 DEF Posse!Next
<1>3. CASE sessao[s].pc # "atribuirKit"
    BY <1>1, <1>3, PassoParado DEF Sair
<1>. QED
    BY <1>2, <1>3

\* Editing the composition is all Custodia sees of an edit of the kit.
LEMMA RecomporPosse ==
    ASSUME IInv, kit' \in [Tipos -> Nat], NEW s \in Sessoes, ApagarItens(s) \/ GravarItens(s)
    PROVE  Posse!Next
<1>1. PICK x \in {Ociosa, [pc |-> "gravarItens"]} : Ir(s, x)
    BY DEF ApagarItens, GravarItens, Sair
<1>2. x \in Sessao /\ x.pc # "atribuirKit" /\ sessao[s].pc # "atribuirKit"
    BY SessaoTipos DEF ApagarItens, GravarItens, Ociosa
<1>3. UNCHANGED <<unidade, mov>>
    BY DEF ApagarItens, GravarItens
<1>4. Pedidos' = Pedidos /\ Saidas' = Saidas
    BY <1>1, <1>2, <1>3, PedidosFicam, SaidasParadas DEF IInv
<1>. QED
    BY <1>3, <1>4 DEF Posse!Next, Posse!Recompor

\* Locking units, and the requests of a reservation, are not seen.
LEMMA KitParado ==
    ASSUME IInv, NEW s \in Sessoes,
           \/ \E e \in Eventos, ok \in BOOLEAN : DevolverKit(s, e, ok)
           \/ \E u \in Unidades : DevolverUnidade(s, u)
           \/ PegarItem(s)
    PROVE  UNCHANGED Posse!vars
<1>1. TypeOK
    BY DEF IInv
<1>2. ASSUME NEW e \in Eventos, NEW ok \in BOOLEAN, DevolverKit(s, e, ok)
      PROVE  UNCHANGED Posse!vars
    <2>1. PICK U \in SUBSET Unidades :
            Ir(s, [pc |-> "devolverKit", evento |-> e, ok |-> ok, falta |-> U, pegas |-> {}])
        BY <1>2 DEF DevolverKit
    <2>. DEFINE x == [pc |-> "devolverKit", evento |-> e, ok |-> ok, falta |-> U, pegas |-> {}]
    <2>2. /\ x \in Sessao /\ x.pc = "devolverKit" /\ Ir(s, x)
          /\ sessao[s].pc # "atribuirKit"
        BY <1>2, <2>1, SessaoTipos DEF SDevolver, DevolverKit, Ociosa
    <2>. HIDE DEF x
    <2>3. UNCHANGED <<unidade, mov, kit>>
        BY <1>2 DEF DevolverKit
    <2>. QED
        BY <1>1, <2>2, <2>3, PassoParado
<1>3. ASSUME NEW u \in Unidades, DevolverUnidade(s, u)
      PROVE  UNCHANGED Posse!vars
    <2>. DEFINE x == [sessao[s] EXCEPT !.falta = @ \ {u}, !.pegas = @ \cup {u}]
    <2>1. /\ sessao[s].pc = "devolverKit" /\ Ir(s, x)
          /\ UNCHANGED <<unidade, mov, kit>>
        BY <1>3 DEF DevolverUnidade
    <2>2. sessao[s] \in SDevolver
        BY <1>1, <2>1, Registro
    <2>3. x \in SDevolver /\ x.pc = "devolverKit"
        BY <2>2 DEF SDevolver
    <2>. HIDE DEF x
    <2>. QED
        BY <1>1, <2>1, <2>3, SessaoTipos, PassoParado
<1>4. ASSUME PegarItem(s)
      PROVE  UNCHANGED Posse!vars
    <2>0. sessao[s].pc = "atribuirKit" /\ UNCHANGED <<unidade, mov, kit>>
        BY <1>4 DEF PegarItem
    <2>1. PICK t \in Tipos : \E U \in SUBSET Livres(t) :
            /\ sessao[s].falta[t] > 0 /\ Cardinality(U) = sessao[s].falta[t]
            /\ Ir(s, [sessao[s] EXCEPT !.falta[t] = 0, !.pegas = @ \cup U])
        BY <1>4 DEF PegarItem
    <2>2. PICK U \in SUBSET Livres(t) :
            /\ sessao[s].falta[t] > 0 /\ Cardinality(U) = sessao[s].falta[t]
            /\ Ir(s, [sessao[s] EXCEPT !.falta[t] = 0, !.pegas = @ \cup U])
        BY <2>1
    <2>. DEFINE x == [sessao[s] EXCEPT !.falta[t] = 0, !.pegas = @ \cup U]
    <2>3. sessao[s] \in SAtribuir /\ U \subseteq Unidades
        BY <1>1, <2>0, Registro DEF Livres
    <2>4. /\ x \in SAtribuir /\ x.pc = "atribuirKit"
          /\ x.evento = sessao[s].evento /\ x.pedido = sessao[s].pedido
        BY <2>3 DEF SAtribuir
    <2>5. Ir(s, x)
        BY <2>2
    <2>. HIDE DEF x
    <2>6. x \in Sessao
        BY <2>4, SessaoTipos
    <2>. QED
        BY <1>1, <2>0, <2>4, <2>5, <2>6, PassoParado
<1>. QED
    BY <1>2, <1>3, <1>4

LEMMA ReservaParada ==
    ASSUME IInv, NEW s \in Sessoes,
           \/ \E r \in Reservas, n \in Novas : Reservar(s, r, n)
           \/ \E r \in Reservas, u \in Unidades : Efetivar(s, r, u)
           \/ \E r \in Reservas : Cancelar(s, r)
           \/ InserirReserva(s) \/ MarcarEfetivada(s) \/ MarcarCancelada(s)
           \/ Abandonar(s)
    PROVE  UNCHANGED Posse!vars
<1>1. TypeOK
    BY DEF IInv
<1>2. UNCHANGED <<unidade, mov, kit>>
    BY DEF Reservar, Efetivar, Cancelar, InserirReserva, MarcarEfetivada,
           MarcarCancelada, Abandonar
<1>3. sessao[s].pc # "atribuirKit"
    <2>1. \/ sessao[s] = Ociosa
          \/ sessao[s].pc \in {"gravarItens", "inserir", "atribuir", "marcar", "cancelar"}
        BY DEF Reservar, Efetivar, Cancelar, InserirReserva, MarcarEfetivada,
               MarcarCancelada, Abandonar
    <2>. QED
        BY <2>1 DEF Ociosa
<1>4. PICK x \in Sessao : Ir(s, x) /\ x.pc # "atribuirKit"
    <2>1. CASE \E r \in Reservas, n \in Novas : Reservar(s, r, n)
        <3>1. PICK r \in Reservas, n \in Novas : Reservar(s, r, n)
            BY <2>1
        <3>2. [pc |-> "inserir", reserva |-> r, linha |-> n] \in Sessao
            BY SessaoTipos DEF SInserir, Novas
        <3>. QED
            BY <3>1, <3>2 DEF Reservar
    <2>2. CASE \E r \in Reservas, u \in Unidades : Efetivar(s, r, u)
        <3>1. PICK r \in Reservas, u \in Unidades : Efetivar(s, r, u)
            BY <2>2
        <3>2. [pc |-> "atribuir", reserva |-> r, unidade |-> u] \in Sessao
            BY SessaoTipos DEF SEfetivar
        <3>. QED
            BY <3>1, <3>2 DEF Efetivar
    <2>3. CASE \E r \in Reservas : Cancelar(s, r)
        <3>1. PICK r \in Reservas : Cancelar(s, r)
            BY <2>3
        <3>2. [pc |-> "cancelar", reserva |-> r] \in Sessao
            BY SessaoTipos DEF SCancelar
        <3>. QED
            BY <3>1, <3>2 DEF Cancelar
    <2>4. CASE \/ InserirReserva(s) \/ MarcarEfetivada(s) \/ MarcarCancelada(s)
               \/ Abandonar(s)
        BY <2>4, SessaoTipos DEF InserirReserva, MarcarEfetivada, MarcarCancelada,
                                 Abandonar, Sair, Ociosa
    <2>. QED
        BY <2>1, <2>2, <2>3, <2>4
<1>. QED
    BY <1>1, <1>2, <1>3, <1>4, PassoParado

-----------------------------------------------------------------------------
(* What a return has in hand left under its event.                         *)

LEMMA MovCresce ==
    ASSUME TypeOK, NEW U, NEW m, Aplicar(U, m), NEW e, NEW u \in Unidades, TeveEvento(u, e)
    PROVE  TeveEvento(u, e)'
<1>. PICK h, g, n : h = mov[u] /\ g = mov'[u] /\ n = Len(h)
    OBVIOUS
<1>1. h \in Seq(Movimento) /\ g \in {h, Append(h, m)}
    BY DEF TypeOK, Aplicar
<1>2. n \in Nat /\ DOMAIN h = 1 .. n
    BY <1>1
<1>3. DOMAIN Append(h, m) = 1 .. (n + 1) /\ \A i \in 1 .. n : Append(h, m)[i] = h[i]
    BY <1>1
<1>4. \A i \in DOMAIN h : i \in DOMAIN g /\ g[i] = h[i]
    BY <1>1, <1>2, <1>3
<1>. QED
    BY <1>4 DEF TeveEvento

LEMMA SairamCresce ==
    ASSUME IInv, Next, NEW e
    PROVE  SairamCom(e) \subseteq SairamCom(e)'
<1>1. TypeOK
    BY DEF IInv
<1>2. ASSUME NEW U, NEW m, Aplicar(U, m)
      PROVE  SairamCom(e) \subseteq SairamCom(e)'
    BY <1>1, <1>2, MovCresce DEF SairamCom
<1>3. ASSUME UNCHANGED mov
      PROVE  SairamCom(e) \subseteq SairamCom(e)'
    BY <1>3 DEF SairamCom, TeveEvento
<1>4. ASSUME NEW u \in Unidades, MovimentarUm(u)
      PROVE  SairamCom(e) \subseteq SairamCom(e)'
    BY <1>2, <1>4 DEF MovimentarUm, Movimentar
<1>5. ASSUME NEW s \in Sessoes, KitAtribuido(s) \/ KitDevolvido(s) \/ AtribuirReservada(s)
      PROVE  SairamCom(e) \subseteq SairamCom(e)'
    BY <1>2, <1>5 DEF KitAtribuido, KitDevolvido, AtribuirReservada
<1>6. ASSUME NEW s \in Sessoes,
             \/ \E d \in Eventos, f \in Funcionarios : AtribuirKit(s, d, f)
             \/ \E d \in Eventos, ok \in BOOLEAN : DevolverKit(s, d, ok)
             \/ \E u \in Unidades : DevolverUnidade(s, u)
             \/ PegarItem(s) \/ Desfazer(s) \/ ApagarItens(s) \/ GravarItens(s)
      PROVE  UNCHANGED mov
    BY <1>6 DEF AtribuirKit, DevolverKit, DevolverUnidade, PegarItem, Desfazer,
                ApagarItens, GravarItens
<1>7. ASSUME NEW s \in Sessoes,
             \/ \E r \in Reservas, n \in Novas : Reservar(s, r, n)
             \/ \E r \in Reservas, u \in Unidades : Efetivar(s, r, u)
             \/ \E r \in Reservas : Cancelar(s, r)
             \/ InserirReserva(s) \/ MarcarEfetivada(s) \/ MarcarCancelada(s) \/ Abandonar(s)
      PROVE  UNCHANGED mov
    BY <1>7 DEF Reservar, Efetivar, Cancelar, InserirReserva, MarcarEfetivada,
                MarcarCancelada, Abandonar
<1>. QED
    BY <1>3, <1>4, <1>5, <1>6, <1>7, Zenon DEF Next

\* A session that goes on, or starts, a return, has units of its event.
Certa(x) == x.pc = "devolverKit" => x.falta \cup x.pegas \subseteq SairamCom(x.evento)

LEMMA DevolvendoFica ==
    ASSUME TypeOK, Devolvendo, NEW s \in Sessoes, NEW x, Ir(s, x), Certa(x),
           \A e : SairamCom(e) \subseteq SairamCom(e)'
    PROVE  Devolvendo'
<1>1. sessao'[s] = x /\ \A z \in Sessoes \ {s} : sessao'[z] = sessao[z]
    BY DEF TypeOK, Ir
<1>2. ASSUME NEW z \in Sessoes
      PROVE  \E y : sessao'[z] = y /\ Certa(y)
    BY <1>1 DEF Devolvendo, Certa
<1>3. ASSUME NEW z \in Sessoes, NEW y, y = sessao'[z], NEW e, e = y.evento,
             y.pc = "devolverKit", NEW u \in y.falta \cup y.pegas
      PROVE  u \in SairamCom(e)'
    BY <1>2, <1>3 DEF Certa
<1>. QED
    BY <1>3 DEF Devolvendo, SairamCom, TeveEvento

IInvPosse == IInv /\ Devolvendo

LEMMA DevolvendoPasso ==
    ASSUME IInvPosse, Next
    PROVE  Devolvendo'
<1>1. TypeOK /\ Devolvendo /\ \A e : SairamCom(e) \subseteq SairamCom(e)'
    BY SairamCresce DEF IInvPosse, IInv
<1>2. ASSUME NEW s \in Sessoes, NEW x, Ir(s, x), x.pc # "devolverKit"
      PROVE  Devolvendo'
    BY <1>1, <1>2, DevolvendoFica DEF Certa
<1>3. ASSUME NEW u \in Unidades, MovimentarUm(u)
      PROVE  Devolvendo'
    <2>1. UNCHANGED sessao
        BY <1>3 DEF MovimentarUm, Movimentar
    <2>2. ASSUME NEW z \in Sessoes, NEW y, y = sessao[z], NEW e, e = y.evento,
                 y.pc = "devolverKit", NEW v \in y.falta \cup y.pegas
          PROVE  v \in SairamCom(e)'
        BY <1>1, <2>2 DEF Devolvendo
    <2>. QED
        BY <2>1, <2>2 DEF Devolvendo, SairamCom, TeveEvento
<1>4. ASSUME NEW s \in Sessoes, Sair(s)
      PROVE  Devolvendo'
    BY <1>2, <1>4 DEF Sair, Ociosa
<1>5. ASSUME NEW s \in Sessoes, NEW e \in Eventos, NEW f \in Funcionarios, AtribuirKit(s, e, f)
      PROVE  Devolvendo'
    BY <1>2, <1>5 DEF AtribuirKit
<1>6. ASSUME NEW s \in Sessoes, NEW e \in Eventos, NEW ok \in BOOLEAN, DevolverKit(s, e, ok)
      PROVE  Devolvendo'
    <2>1. PICK U : /\ U = {u \in Unidades : TeveEvento(u, e) /\ unidade[u].status = "atribuida"}
                   /\ Ir(s, [pc |-> "devolverKit", evento |-> e, ok |-> ok,
                             falta |-> U, pegas |-> {}])
        BY <1>6 DEF DevolverKit
    <2>. DEFINE x == [pc |-> "devolverKit", evento |-> e, ok |-> ok, falta |-> U, pegas |-> {}]
    <2>2. Certa(x)
        BY <2>1 DEF Certa, SairamCom
    <2>3. Ir(s, x)
        BY <2>1
    <2>. HIDE DEF x
    <2>. QED
        BY <1>1, <2>2, <2>3, DevolvendoFica
<1>7. ASSUME NEW s \in Sessoes, NEW u \in Unidades, DevolverUnidade(s, u)
      PROVE  Devolvendo'
    <2>. DEFINE x == [sessao[s] EXCEPT !.falta = @ \ {u}, !.pegas = @ \cup {u}]
    <2>1. /\ sessao[s].pc = "devolverKit" /\ u \in sessao[s].falta /\ Ir(s, x)
        BY <1>7 DEF DevolverUnidade
    <2>2. sessao[s] \in SDevolver
        BY <1>1, <2>1, Registro
    <2>3. x.falta \cup x.pegas = sessao[s].falta \cup sessao[s].pegas
          /\ x.evento = sessao[s].evento
        BY <2>1, <2>2 DEF SDevolver
    <2>4. Certa(x)
        BY <1>1, <2>1, <2>3 DEF Certa, Devolvendo
    <2>. HIDE DEF x
    <2>. QED
        BY <1>1, <2>1, <2>4, DevolvendoFica
<1>8. ASSUME NEW s \in Sessoes, PegarItem(s)
      PROVE  Devolvendo'
    <2>1. PICK t \in Tipos : \E U \in SUBSET Livres(t) :
            /\ sessao[s].falta[t] > 0 /\ Cardinality(U) = sessao[s].falta[t]
            /\ Ir(s, [sessao[s] EXCEPT !.falta[t] = 0, !.pegas = @ \cup U])
        BY <1>8 DEF PegarItem
    <2>2. PICK U \in SUBSET Livres(t) :
            /\ sessao[s].falta[t] > 0 /\ Cardinality(U) = sessao[s].falta[t]
            /\ Ir(s, [sessao[s] EXCEPT !.falta[t] = 0, !.pegas = @ \cup U])
        BY <2>1
    <2>. DEFINE x == [sessao[s] EXCEPT !.falta[t] = 0, !.pegas = @ \cup U]
    <2>3. sessao[s] \in SAtribuir
        BY <1>1, <1>8, Registro DEF PegarItem
    <2>4. Ir(s, x) /\ x.pc # "devolverKit"
        BY <2>2, <2>3 DEF SAtribuir
    <2>. HIDE DEF x
    <2>. QED
        BY <1>2, <2>4
<1>9. ASSUME NEW s \in Sessoes,
             \/ \E r \in Reservas, n \in Novas : Reservar(s, r, n)
             \/ \E r \in Reservas, u \in Unidades : Efetivar(s, r, u)
             \/ \E r \in Reservas : Cancelar(s, r)
             \/ ApagarItens(s)
      PROVE  Devolvendo'
    BY <1>2, <1>9 DEF Reservar, Efetivar, Cancelar, ApagarItens
<1>10. ASSUME NEW s \in Sessoes, AtribuirReservada(s)
       PROVE  Devolvendo'
    <2>1. sessao[s] \in SEfetivar /\ Ir(s, [sessao[s] EXCEPT !.pc = "marcar"])
        BY <1>1, <1>10, Registro DEF AtribuirReservada
    <2>2. [sessao[s] EXCEPT !.pc = "marcar"].pc # "devolverKit"
        BY <2>1 DEF SEfetivar
    <2>. QED
        BY <1>2, <2>1, <2>2
<1>11. ASSUME NEW s \in Sessoes,
              \/ KitAtribuido(s) \/ KitDevolvido(s) \/ Desfazer(s) \/ GravarItens(s)
              \/ InserirReserva(s) \/ MarcarEfetivada(s) \/ MarcarCancelada(s) \/ Abandonar(s)
       PROVE  Devolvendo'
    BY <1>4, <1>11 DEF KitAtribuido, KitDevolvido, Desfazer, GravarItens, InserirReserva,
                       MarcarEfetivada, MarcarCancelada, Abandonar
<1>. QED
    BY <1>3, <1>5, <1>6, <1>7, <1>8, <1>9, <1>10, <1>11, Zenon DEF Next

LEMMA PosseSempre == Spec => []IInvPosse
<1>1. Init => Devolvendo
    BY DEF Init, Devolvendo, Ociosa
<1>2. IInvPosse /\ [Next]_vars => IInvPosse'
    <2>1. CASE UNCHANGED vars
        BY <2>1, Passo DEF IInvPosse, vars, Devolvendo, SairamCom, TeveEvento
    <2>2. CASE Next
        BY <2>2, Passo, DevolvendoPasso DEF IInvPosse
    <2>. QED
        BY <2>1, <2>2
<1>. QED
    BY <1>1, <1>2, Inicio, PTL DEF Spec, IInvPosse

LEMMA PosseInicio == Init => Posse!Init
<1>. SUFFICES ASSUME Init PROVE Posse!Init
    OBVIOUS
<1>1. unidade = [u \in Unidades |-> Posse!Livre] /\ kit \in [Tipos -> Nat]
    BY FerramentasAssumption DEF Init, Posse!Livre
<1>2. Pedidos = [e \in Eventos |-> {}]
    BY DEF Init, Pedidos, Abertos, Ociosa
<1>3. Saidas = [e \in Eventos |-> {}]
    BY DEF Init, Saidas, SairamCom, TeveEvento
<1>. QED
    BY <1>1, <1>2, <1>3 DEF Posse!Init

LEMMA PossePasso ==
    ASSUME IInvPosse, IInvPosse', [Next]_vars
    PROVE  Posse!Next \/ UNCHANGED Posse!vars
<1>0. IInv /\ Devolvendo /\ kit' \in [Tipos -> Nat]
    BY DEF IInvPosse, IInv, TypeOK
<1>1. ASSUME NEW u \in Unidades, MovimentarUm(u)
      PROVE  Posse!Next
    BY <1>0, <1>1, MovimentarUmPosse
<1>2. ASSUME NEW s \in Sessoes, NEW e \in Eventos, NEW f \in Funcionarios, AtribuirKit(s, e, f)
      PROVE  Posse!Next
    BY <1>0, <1>2, AtribuirKitPosse DEF Posse!Next
<1>3. ASSUME NEW s \in Sessoes,
             KitAtribuido(s) \/ KitDevolvido(s) \/ AtribuirReservada(s)
      PROVE  Posse!Next
    BY <1>0, <1>3, KitAtribuidoPosse, KitDevolvidoPosse, AtribuirReservadaPosse
<1>4. ASSUME NEW s \in Sessoes, ApagarItens(s) \/ GravarItens(s)
      PROVE  Posse!Next
    BY <1>0, <1>4, RecomporPosse
<1>5. ASSUME NEW s \in Sessoes,
             \/ \E e \in Eventos, ok \in BOOLEAN : DevolverKit(s, e, ok)
             \/ \E u \in Unidades : DevolverUnidade(s, u)
             \/ PegarItem(s)
      PROVE  UNCHANGED Posse!vars
    BY <1>0, <1>5, KitParado
<1>6. ASSUME NEW s \in Sessoes, Desfazer(s)
      PROVE  Posse!Next \/ UNCHANGED Posse!vars
    BY <1>0, <1>6, DesfazerPosse
<1>7. ASSUME NEW s \in Sessoes,
             \/ \E r \in Reservas, n \in Novas : Reservar(s, r, n)
             \/ \E r \in Reservas, u \in Unidades : Efetivar(s, r, u)
             \/ \E r \in Reservas : Cancelar(s, r)
             \/ InserirReserva(s) \/ MarcarEfetivada(s) \/ MarcarCancelada(s)
             \/ Abandonar(s)
      PROVE  UNCHANGED Posse!vars
    BY <1>0, <1>7, ReservaParada
<1>8. CASE UNCHANGED vars
    <2>1. Pedidos' = Pedidos /\ Saidas' = Saidas
        BY <1>8, SaidasParadas DEF vars, Pedidos, Abertos
    <2>. QED
        BY <1>8, <2>1 DEF vars, Posse!vars
<1>. QED
    BY <1>1, <1>2, <1>3, <1>4, <1>5, <1>6, <1>7, <1>8, Zenon DEF Next

\* Kits handed out and returned by transactions of several steps, requests that
\* are cut and movements of single units implement the custody that Custodia
\* promises, in which each is one step (0089:104-108, 0086:85-135).
THEOREM ImplementaCustodia == Spec => CustodiaSpec
<1>1. IInvPosse /\ IInvPosse' /\ [Next]_vars => [Posse!Next]_(Posse!vars)
    BY PossePasso
<1>. QED
    BY <1>1, PosseSempre, PosseInicio, PTL DEF Spec, CustodiaSpec, Posse!Spec
=============================================================================
