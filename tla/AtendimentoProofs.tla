------------------------- MODULE AtendimentoProofs -------------------------
(***************************************************************************)
(* Proofs about Atendimento, for any number of runs of the agent, messages *)
(* and failures: the tables keep their shape and the debounce swallows no  *)
(* message.                                                                *)
(***************************************************************************)
EXTENDS Atendimento, SequenceTheorems, FiniteSetTheorems, TLAPS

\* Places of a run that has read its messages.
Depois == {"leu", "avaliar", "propor", "criar", "recusar", "finalizar", "limpar"}

\* A message makes at most one row of the queue.
Contagem == Len(fila) + Cardinality(aEnfileirar) <= Len(mensagens)

\* What a run knows at each place: whoever claimed a row took it out of
\* pending, and rows never go back to it.
Lugar(e) ==
    /\ Na(e, "leu") => execucao[e].ultima \in 1 .. Len(mensagens)
    /\ execucao[e].fase \in {"vista", "reservada", "leu"} => execucao[e].feitos = 0
    /\ Na(e, "criar") => execucao[e].proposta # 0 /\ execucao[e].feitos < Itens
    /\ execucao[e].fase \in Depois \cup {"reservada"} =>
            fila[execucao[e].item] # "pending"

\* One run at a time has a proposal to store, and there is room for it.
Propondo ==
    \A e \in Execucoes : Na(e, "propor") =>
        /\ propostas < MaxPropostas
        /\ \A f \in Execucoes \ {e} : ~Na(f, "propor")

\* Row k still stands for messages nobody read: nobody who has it has read, and
\* it waits, is about to be read or ended in error.
Espera(k) ==
    /\ \A e \in Execucoes :
            execucao[e].fase \in Depois => execucao[e].item # k
    /\ \/ fila[k] \in {"pending", "error"}
       \/ \E e \in Execucoes : Na(e, "reservada") /\ execucao[e].item = k

Guardada ==
    quedas = 0 =>
        \A m \in 1 .. Len(mensagens) :
            \/ m \in aEnfileirar
            \/ m \in lidas
            \/ Ultrapassada(m)
            \/ \E k \in DOMAIN fila : Espera(k)

IInv == /\ TypeOK
        /\ Contagem
        /\ \A e \in Execucoes : Lugar(e)
        /\ Propondo
        /\ Guardada

-----------------------------------------------------------------------------
(* Rows of the queue and runs.                                             *)

LEMMA Limites ==
    /\ Itens \in Nat \ {0} /\ Janela \in Nat \ {0} /\ MaxMensagens \in Nat
    /\ MaxPropostas \in Nat /\ MaxQuedas \in Nat
BY LimitesAssumption

LEMMA Medidas ==
    ASSUME TypeOK
    PROVE  /\ Len(mensagens) \in Nat /\ Len(mensagens) <= MaxMensagens
           /\ Len(fila) \in Nat /\ Len(fila) <= MaxMensagens
           /\ DOMAIN fila = 1 .. Len(fila)
           /\ IsFiniteSet(aEnfileirar) /\ Cardinality(aEnfileirar) \in Nat
<1>1. Len(mensagens) \in Nat /\ Len(fila) \in Nat /\ DOMAIN fila = 1 .. Len(fila)
    BY DEF TypeOK
<1>2. IsFiniteSet(1 .. Len(mensagens))
    BY <1>1, FS_Interval
<1>3. IsFiniteSet(aEnfileirar)
    BY <1>2, FS_Subset DEF TypeOK
<1>. QED
    BY <1>1, <1>3, FS_CardinalityType DEF TypeOK

\* A run under way holds a row.
LEMMA EmCurso ==
    ASSUME TypeOK, NEW e \in Execucoes, execucao[e].fase # "ociosa"
    PROVE  /\ execucao[e] \in Andamento /\ execucao[e].item \in 1 .. Len(fila)
           /\ execucao[e].item \in 1 .. MaxMensagens
BY Medidas DEF TypeOK, Na, Ociosa, Andamento

\* A status written in a row.
LEMMA Marcada ==
    ASSUME TypeOK, NEW k \in 1 .. Len(fila), NEW st \in StatusFila,
           fila' = [fila EXCEPT ![k] = st]
    PROVE  /\ fila' \in Seq(StatusFila) /\ Len(fila') = Len(fila)
           /\ DOMAIN fila' = DOMAIN fila
           /\ fila'[k] = st
           /\ \A j \in (1 .. Len(fila)) \ {k} : fila'[j] = fila[j]
<1>1. fila \in Seq(StatusFila)
    BY DEF TypeOK
<1>. QED
    BY <1>1, ExceptSeq

\* One run changes.
LEMMA Seguiu ==
    ASSUME TypeOK, NEW e \in Execucoes, NEW x \in Andamento \cup {Ociosa}, Segue(e, x)
    PROVE  /\ execucao' \in [Execucoes -> Andamento \cup {Ociosa}]
           /\ execucao'[e] = x
           /\ \A f \in Execucoes \ {e} : execucao'[f] = execucao[f]
BY DEF TypeOK, Segue

\* Any step of a run that has read, or that stops: what it may do to its row.
Avanca(e, x) ==
    /\ execucao[e].fase \in Depois
    /\ Segue(e, x)
    /\ x # Ociosa => x.fase \in Depois \ {"leu"} /\ x.item = execucao[e].item
    /\ \/ UNCHANGED fila
       \/ \E st \in Finais : fila' = [fila EXCEPT ![execucao[e].item] = st]
    /\ UNCHANGED <<vEntrada, lidas, quedas>>

LEMMA AvancaInv ==
    ASSUME IInv, NEW e \in Execucoes, NEW x \in Andamento \cup {Ociosa}, Avanca(e, x),
           x.fase = "criar" => x.proposta # 0 /\ x.feitos < Itens
    PROVE  /\ fila' \in Seq(StatusFila) /\ Len(fila') = Len(fila)
           /\ execucao' \in [Execucoes -> Andamento \cup {Ociosa}]
           /\ \A f \in Execucoes :
                    execucao'[f].fase # "ociosa" => execucao'[f].item \in DOMAIN fila'
           /\ Contagem' /\ (\A f \in Execucoes : Lugar(f)') /\ Guardada'
<1>. DEFINE k == execucao[e].item
<1>1. TypeOK /\ execucao[e] \in Andamento /\ k \in 1 .. Len(fila) /\ Len(fila) \in Nat
      /\ DOMAIN fila = 1 .. Len(fila)
    BY EmCurso, Medidas DEF IInv, Avanca, Depois
<1>2. /\ fila' \in Seq(StatusFila) /\ Len(fila') = Len(fila)
      /\ DOMAIN fila' = DOMAIN fila
      /\ \A j \in (1 .. Len(fila)) \ {k} : fila'[j] = fila[j]
      /\ fila'[k] # "pending"
    <2>1. CASE UNCHANGED fila
        BY <1>1, <2>1 DEF TypeOK, IInv, Lugar, Avanca
    <2>2. ASSUME NEW st \in Finais, fila' = [fila EXCEPT ![k] = st]
          PROVE  /\ fila' \in Seq(StatusFila) /\ Len(fila') = Len(fila)
                 /\ DOMAIN fila' = DOMAIN fila
                 /\ \A j \in (1 .. Len(fila)) \ {k} : fila'[j] = fila[j]
                 /\ fila'[k] # "pending"
        BY <1>1, <2>2, Marcada DEF Finais, StatusFila
    <2>. QED
        BY <2>1, <2>2 DEF Avanca
<1>3. /\ execucao' \in [Execucoes -> Andamento \cup {Ociosa}]
      /\ execucao'[e] = x
      /\ \A f \in Execucoes \ {e} : execucao'[f] = execucao[f]
    BY <1>1, Seguiu DEF Avanca
<1>4. UNCHANGED <<mensagens, aEnfileirar, lidas, quedas>>
    BY DEF Avanca, vEntrada
<1>5. Contagem'
    BY <1>2, <1>4 DEF IInv, Contagem
<1>6. \A f \in Execucoes :
            execucao'[f].fase # "ociosa" => execucao'[f].item \in DOMAIN fila'
    BY <1>1, <1>2, <1>3 DEF Avanca, Ociosa, TypeOK, Na
<1>7. ASSUME NEW f \in Execucoes
      PROVE  Lugar(f)'
    <2>1. CASE f = e
        BY <1>1, <1>2, <1>3, <2>1 DEF Lugar, Avanca, Na, Ociosa, Depois
    <2>2. CASE f # e
        <3>1. Lugar(f) /\ execucao'[f] = execucao[f]
            BY <1>3, <2>2 DEF IInv
        <3>2. execucao[f].fase # "ociosa" => execucao[f].item \in 1 .. Len(fila)
            BY <1>1, EmCurso
        <3>. QED
            BY <1>2, <1>4, <3>1, <3>2 DEF Lugar, Na, Depois
    <2>. QED
        BY <2>1, <2>2
<1>8. ASSUME NEW j \in 1 .. Len(fila), Espera(j)
      PROVE  Espera(j)'
    <2>1. j # k
        BY <1>8 DEF Espera, Avanca
    <2>2. fila'[j] = fila[j]
        BY <1>2, <2>1
    <2>3. \A f \in Execucoes : execucao'[f].fase \in Depois => execucao'[f].item # j
        BY <1>3, <1>8, <2>1 DEF Espera, Avanca, Ociosa, Depois
    <2>4. \A f \in Execucoes : Na(f, "reservada") => Na(f, "reservada")'
                                                   /\ execucao'[f].item = execucao[f].item
        BY <1>3 DEF Na, Avanca, Depois
    <2>. QED
        BY <1>8, <2>2, <2>3, <2>4 DEF Espera
<1>9. Guardada'
    BY <1>1, <1>2, <1>4, <1>8 DEF IInv, Guardada, Ultrapassada
<1>. QED
    BY <1>2, <1>3, <1>5, <1>6, <1>7, <1>9

-----------------------------------------------------------------------------
(* The webhook and the office.                                             *)

LEMMA ReceberInv ==
    ASSUME IInv, NEW t \in Tipos, Receber(t)
    PROVE  IInv'
<1>. DEFINE n == Len(mensagens) + 1
<1>1. TypeOK /\ n \in Nat /\ n <= MaxMensagens /\ MaxMensagens \in Nat
    BY Medidas, Limites DEF IInv, Receber
<1>2. /\ mensagens' = Append(mensagens, t) /\ aEnfileirar' = aEnfileirar \cup {n}
      /\ UNCHANGED <<fila, vConversa, os, execucao, lidas, quedas>>
    BY DEF Receber
<1>3. mensagens' \in Seq(Tipos) /\ Len(mensagens') = n
    BY <1>1, <1>2 DEF TypeOK
<1>4. TypeOK'
    <2>1. aEnfileirar' \subseteq 1 .. Len(mensagens') /\ lidas' \subseteq 1 .. Len(mensagens')
        <3>1. /\ aEnfileirar \subseteq 1 .. Len(mensagens) /\ lidas \subseteq 1 .. Len(mensagens)
              /\ Len(mensagens) \in Nat
            BY <1>1, Medidas DEF TypeOK
        <3>2. /\ aEnfileirar' = aEnfileirar \cup {Len(mensagens) + 1} /\ lidas' = lidas
              /\ Len(mensagens') = Len(mensagens) + 1
            BY <1>2, <1>3
        <3>3. ASSUME NEW j \in aEnfileirar'
              PROVE  j \in 1 .. Len(mensagens')
            <4>1. j \in 1 .. Len(mensagens) \/ j = Len(mensagens) + 1
                BY <3>1, <3>2
            <4>. QED
                BY <3>1, <3>2, <4>1
        <3>4. ASSUME NEW j \in lidas'
              PROVE  j \in 1 .. Len(mensagens')
            <4>1. j \in 1 .. Len(mensagens)
                BY <3>1, <3>2
            <4>. QED
                BY <3>1, <3>2, <4>1
        <3>5. aEnfileirar' \subseteq 1 .. Len(mensagens')
            BY <3>3, Zenon
        <3>6. lidas' \subseteq 1 .. Len(mensagens')
            BY <3>4, Zenon
        <3>. QED
            BY <3>5, <3>6
    <2>2. Len(mensagens') <= MaxMensagens
        BY <1>1, <1>3
    <2>. QED
        BY <1>1, <1>2, <1>3, <2>1, <2>2 DEF TypeOK, vConversa, Na
<1>5. Contagem'
    <2>1. IsFiniteSet(aEnfileirar) /\ Cardinality(aEnfileirar) \in Nat /\ Len(fila) \in Nat
        BY <1>1, Medidas
    <2>2. Cardinality(aEnfileirar \cup {n}) \in
                {Cardinality(aEnfileirar), Cardinality(aEnfileirar) + 1}
        BY <2>1, FS_AddElement
    <2>. QED
        BY <1>1, <1>2, <1>3, <2>1, <2>2 DEF IInv, Contagem
<1>6. \A e \in Execucoes : Lugar(e)'
    BY <1>1, <1>2, <1>3 DEF IInv, Lugar, Na
<1>7. Propondo'
    BY <1>2 DEF IInv, Propondo, Na, vConversa
<1>8. \A k \in DOMAIN fila : Espera(k) => Espera(k)'
    BY <1>2 DEF Espera, Na
<1>9. Guardada'
    BY <1>1, <1>2, <1>3, <1>8 DEF IInv, Guardada, Ultrapassada
<1>. QED
    BY <1>4, <1>5, <1>6, <1>7, <1>9 DEF IInv

LEMMA EnfileirarInv ==
    ASSUME IInv, NEW m \in aEnfileirar, Enfileirar(m)
    PROVE  IInv'
<1>. DEFINE n == Len(fila) + 1
<1>1. TypeOK /\ n \in Nat /\ MaxMensagens \in Nat /\ DOMAIN fila = 1 .. Len(fila)
    BY Medidas, Limites DEF IInv
<1>2. /\ aEnfileirar' = aEnfileirar \ {m}
      /\ UNCHANGED <<mensagens, vConversa, os, execucao, lidas, quedas>>
    BY DEF Enfileirar
<1>3. /\ IsFiniteSet(aEnfileirar') /\ Cardinality(aEnfileirar') = Cardinality(aEnfileirar) - 1
      /\ Cardinality(aEnfileirar) \in Nat /\ Cardinality(aEnfileirar') \in Nat
    BY <1>1, <1>2, Medidas, FS_RemoveElement, FS_CardinalityType
<1>4. /\ fila' \in Seq(StatusFila) /\ Len(fila') \in {Len(fila), n}
      /\ \A j \in 1 .. Len(fila) : fila'[j] = fila[j]
      /\ \E k \in 1 .. Len(fila') : fila'[k] = "pending" /\ (k = n \/ k \in 1 .. Len(fila))
      /\ DOMAIN fila' = 1 .. Len(fila')
    <2>1. CASE HaPendente
        BY <1>1, <2>1 DEF Enfileirar, HaPendente, TypeOK
    <2>2. CASE ~HaPendente
        <3>1. fila' = Append(fila, "pending")
            BY <2>2 DEF Enfileirar
        <3>2. fila \in Seq(StatusFila) /\ "pending" \in StatusFila
            BY <1>1 DEF TypeOK, StatusFila
        <3>3. /\ fila' \in Seq(StatusFila) /\ Len(fila') = n
              /\ \A j \in 1 .. Len(fila) : fila'[j] = fila[j]
              /\ fila'[n] = "pending"
            BY <3>1, <3>2
        <3>. QED
            BY <1>1, <3>3
    <2>. QED
        BY <2>1, <2>2
<1>4a. /\ Len(fila) \in Nat /\ Len(mensagens) \in Nat /\ Len(mensagens) <= MaxMensagens
       /\ Len(fila) + Cardinality(aEnfileirar) <= Len(mensagens)
    BY <1>1, Medidas DEF IInv, Contagem
<1>4b. Len(fila') \in {Len(fila), Len(fila) + 1} /\ Len(mensagens') = Len(mensagens)
    BY <1>2, <1>4
<1>5. Contagem'
    BY <1>3, <1>4a, <1>4b DEF Contagem
<1>6. Len(fila') <= MaxMensagens
    BY <1>1, <1>3, <1>4a, <1>4b
<1>7. TypeOK'
    <2>1. aEnfileirar' \subseteq 1 .. Len(mensagens')
        BY <1>2, <1>4b DEF IInv, TypeOK
    <2>2. \A e \in Execucoes : ~Na(e, "ociosa")' => execucao'[e].item \in DOMAIN fila'
        <3>1. ASSUME NEW j \in 1 .. Len(fila)
              PROVE  j \in DOMAIN fila'
            <4>1. j \in 1 .. Len(fila')
                BY <1>4a, <1>4b
            <4>. QED
                BY <1>4, <4>1
        <3>. QED
            BY <1>1, <1>2, <3>1, EmCurso DEF Na
    <2>. QED
        BY <1>1, <1>2, <1>4, <1>6, <2>1, <2>2 DEF TypeOK, vConversa
<1>8. \A e \in Execucoes : Lugar(e)'
    <2>. SUFFICES ASSUME NEW e \in Execucoes PROVE Lugar(e)'
        OBVIOUS
    <2>1. execucao[e].fase # "ociosa" => execucao[e].item \in 1 .. Len(fila)
        BY <1>1, EmCurso
    <2>. QED
        BY <1>2, <1>4, <2>1 DEF IInv, Lugar, Na, Depois
<1>9. Propondo'
    BY <1>2 DEF IInv, Propondo, Na, vConversa
<1>10. \A k \in DOMAIN fila : Espera(k) => Espera(k)'
    BY <1>1, <1>2, <1>4 DEF Espera, Na
<1>11. \E k \in DOMAIN fila' : Espera(k)'
    <2>1. PICK k \in 1 .. Len(fila') : fila'[k] = "pending" /\ (k = n \/ k \in 1 .. Len(fila))
        BY <1>4
    <2>2. ASSUME NEW e \in Execucoes, execucao[e].fase \in Depois
          PROVE  execucao[e].item # k
        <3>1. execucao[e].item \in 1 .. Len(fila)
            BY <1>1, <2>2, EmCurso DEF Depois
        <3>2. fila[execucao[e].item] # "pending"
            BY <2>2 DEF IInv, Lugar
        <3>. QED
            BY <1>1, <1>4, <2>1, <3>1, <3>2
    <2>. QED
        BY <1>2, <1>4, <2>1, <2>2 DEF Espera
<1>12. Guardada'
    BY <1>1, <1>2, <1>4, <1>10, <1>11 DEF IInv, Guardada, Ultrapassada
<1>. QED
    BY <1>5, <1>7, <1>8, <1>9, <1>12 DEF IInv

LEMMA PerderInv ==
    ASSUME IInv, NEW m \in aEnfileirar, PerderWebhook(m)
    PROVE  IInv'
<1>1. TypeOK /\ quedas \in Nat /\ MaxQuedas \in Nat
    BY Limites DEF IInv, TypeOK
<1>2. /\ aEnfileirar' = aEnfileirar \ {m} /\ quedas' = quedas + 1 /\ quedas < MaxQuedas
      /\ UNCHANGED <<mensagens, fila, vConversa, os, execucao, lidas>>
    BY DEF PerderWebhook
<1>3. TypeOK'
    BY <1>1, <1>2 DEF TypeOK, vConversa, Na
<1>4. Contagem'
    <2>1. /\ Cardinality(aEnfileirar') = Cardinality(aEnfileirar) - 1
          /\ Cardinality(aEnfileirar) \in Nat
        BY <1>1, <1>2, Medidas, FS_RemoveElement
    <2>. QED
        BY <1>1, <1>2, <2>1, Medidas DEF IInv, Contagem
<1>5. (\A e \in Execucoes : Lugar(e)') /\ Propondo'
    BY <1>2 DEF IInv, Lugar, Propondo, Na, vConversa
<1>6. Guardada'
    BY <1>1, <1>2 DEF Guardada, Ultrapassada
<1>. QED
    BY <1>3, <1>4, <1>5, <1>6 DEF IInv

LEMMA EscritorioInv ==
    ASSUME IInv, Assumir \/ Devolver \/ UNCHANGED vars
    PROVE  IInv'
<1>1. /\ modo' \in {"auto", "pausado"}
      /\ UNCHANGED <<mensagens, aEnfileirar, fila, pendentes, propostas, os, execucao,
                     lidas, quedas>>
    BY DEF Assumir, Devolver, vars, vEntrada, vConversa, IInv, TypeOK
<1>. QED
    BY <1>1 DEF IInv, TypeOK, Contagem, Lugar, Propondo, Guardada, Ultrapassada, Espera, Na

-----------------------------------------------------------------------------
(* A run of the agent, until it has read.                                  *)

LEMMA NovaTipo ==
    ASSUME NEW fase \in {"vista", "reservada"}, NEW i \in 1 .. MaxMensagens,
           NEW forcada \in BOOLEAN
    PROVE  /\ Nova(fase, i, forcada) \in Andamento
           /\ Nova(fase, i, forcada).fase = fase /\ Nova(fase, i, forcada).item = i
           /\ Nova(fase, i, forcada).feitos = 0
BY Limites DEF Nova, Andamento, Fases

LEMMA ReservarInv ==
    ASSUME IInv, NEW e \in Execucoes, NEW i \in DOMAIN fila, Reservar(e, i)
    PROVE  IInv'
<1>. DEFINE x == Nova("reservada", i, FALSE)
<1>1. TypeOK /\ DOMAIN fila = 1 .. Len(fila) /\ i \in 1 .. MaxMensagens
      /\ Len(fila) \in Nat
    BY Medidas, Limites DEF IInv
<1>2. x \in Andamento /\ x.fase = "reservada" /\ x.item = i /\ x.feitos = 0
    BY <1>1, NovaTipo
<1>3. /\ fila[i] = "pending" /\ execucao[e].fase = "ociosa"
      /\ UNCHANGED <<vEntrada, vConversa, os, lidas, quedas>>
    BY DEF Reservar, Na
<1>4. /\ fila' \in Seq(StatusFila) /\ Len(fila') = Len(fila) /\ DOMAIN fila' = DOMAIN fila
      /\ fila'[i] = "processing"
      /\ \A j \in (1 .. Len(fila)) \ {i} : fila'[j] = fila[j]
    BY <1>1, Marcada DEF Reservar, StatusFila
<1>5. /\ execucao' \in [Execucoes -> Andamento \cup {Ociosa}] /\ execucao'[e] = x
      /\ \A f \in Execucoes \ {e} : execucao'[f] = execucao[f]
    BY <1>1, <1>2, Seguiu DEF Reservar
<1>. HIDE DEF x
<1>6. TypeOK'
    BY <1>1, <1>2, <1>3, <1>4, <1>5 DEF TypeOK, vEntrada, vConversa, Na
<1>7. Contagem'
    BY <1>3, <1>4 DEF IInv, Contagem, vEntrada
<1>8. ASSUME NEW f \in Execucoes
      PROVE  Lugar(f)'
    <2>1. execucao[f].fase # "ociosa" => execucao[f].item \in 1 .. Len(fila)
        BY <1>1, EmCurso
    <2>. QED
        <3>1. Lugar(f) /\ Lugar(e)
            BY DEF IInv
        <3>2. CASE f = e
            BY <1>2, <1>3, <1>4, <1>5, <3>2 DEF Lugar, Na, Depois
        <3>3. CASE f # e
            BY <1>3, <1>4, <1>5, <2>1, <3>1, <3>3 DEF Lugar, Na, Depois, vEntrada
        <3>. QED
            BY <3>2, <3>3
<1>9. Propondo'
    BY <1>2, <1>3, <1>5 DEF IInv, Propondo, Na, vConversa
<1>10. \A k \in DOMAIN fila : Espera(k) => Espera(k)'
    <2>. SUFFICES ASSUME NEW k \in 1 .. Len(fila), Espera(k) PROVE Espera(k)'
        BY <1>1
    <2>1. \A f \in Execucoes : execucao'[f].fase \in Depois => execucao'[f].item # k
        BY <1>2, <1>5 DEF Espera, Depois
    <2>2. CASE k = i
        BY <1>2, <1>5, <2>1, <2>2 DEF Espera, Na
    <2>3. CASE k # i
        BY <1>3, <1>4, <1>5, <2>1, <2>3 DEF Espera, Na
    <2>. QED
        BY <2>2, <2>3
<1>11. Guardada'
    BY <1>3, <1>4, <1>10 DEF IInv, Guardada, Ultrapassada, vEntrada
<1>. QED
    BY <1>6, <1>7, <1>8, <1>9, <1>11 DEF IInv

LEMMA AcionarInv ==
    ASSUME IInv, NEW e \in Execucoes, AcionarIa(e)
    PROVE  IInv'
<1>. DEFINE i == Len(fila)
            x == Nova("vista", i, TRUE)
<1>1. TypeOK /\ DOMAIN fila = 1 .. Len(fila) /\ i \in 1 .. MaxMensagens /\ i \in DOMAIN fila
    <2>1. TypeOK /\ Len(fila) \in Nat /\ Len(fila) <= MaxMensagens /\ fila \in Seq(StatusFila)
        BY Medidas DEF IInv, TypeOK
    <2>2. Len(fila) # 0
        BY <2>1, EmptySeq DEF AcionarIa
    <2>. QED
        BY <2>1, <2>2, Medidas, Limites
<1>2. x \in Andamento /\ x.fase = "vista" /\ x.item = i /\ x.feitos = 0
    BY <1>1, NovaTipo
<1>3. /\ execucao[e].fase = "ociosa"
      /\ UNCHANGED <<vEntrada, fila, vConversa, os, lidas, quedas>>
    BY DEF AcionarIa, Na
<1>4. /\ execucao' \in [Execucoes -> Andamento \cup {Ociosa}] /\ execucao'[e] = x
      /\ \A f \in Execucoes \ {e} : execucao'[f] = execucao[f]
    BY <1>1, <1>2, Seguiu DEF AcionarIa
<1>. HIDE DEF x
<1>5. TypeOK'
    BY <1>1, <1>2, <1>3, <1>4 DEF TypeOK, vEntrada, vConversa, Na
<1>6. Contagem'
    BY <1>3 DEF IInv, Contagem, vEntrada
<1>7. \A f \in Execucoes : Lugar(f)'
    BY <1>2, <1>3, <1>4 DEF IInv, Lugar, Na, Depois, vEntrada
<1>8. Propondo'
    BY <1>2, <1>3, <1>4 DEF IInv, Propondo, Na, vConversa
<1>9. \A k \in DOMAIN fila : Espera(k) => Espera(k)'
    BY <1>2, <1>3, <1>4 DEF Espera, Na, Depois
<1>10. Guardada'
    BY <1>3, <1>9 DEF IInv, Guardada, Ultrapassada, vEntrada
<1>. QED
    BY <1>5, <1>6, <1>7, <1>8, <1>10 DEF IInv

LEMMA ReservarForcadaInv ==
    ASSUME IInv, NEW e \in Execucoes, ReservarForcada(e)
    PROVE  IInv'
<1>. DEFINE i == execucao[e].item
            x == [execucao[e] EXCEPT !.fase = "reservada"]
<1>1. TypeOK /\ DOMAIN fila = 1 .. Len(fila) /\ i \in 1 .. Len(fila)
      /\ execucao[e] \in Andamento /\ execucao[e].fase = "vista"
    BY Medidas, EmCurso DEF IInv, ReservarForcada, Na
<1>2. x \in Andamento /\ x.fase = "reservada" /\ x.item = i
      /\ x.feitos = execucao[e].feitos
    BY <1>1 DEF Andamento, Fases
<1>3. UNCHANGED <<vEntrada, vConversa, os, lidas, quedas>>
    BY DEF ReservarForcada
<1>4. /\ fila' \in Seq(StatusFila) /\ Len(fila') = Len(fila) /\ DOMAIN fila' = DOMAIN fila
      /\ fila'[i] = "processing"
      /\ \A j \in (1 .. Len(fila)) \ {i} : fila'[j] = fila[j]
    BY <1>1, Marcada DEF ReservarForcada, StatusFila
<1>5. /\ execucao' \in [Execucoes -> Andamento \cup {Ociosa}] /\ execucao'[e] = x
      /\ \A f \in Execucoes \ {e} : execucao'[f] = execucao[f]
    BY <1>1, <1>2, Seguiu DEF ReservarForcada, Para
<1>. HIDE DEF x
<1>6. TypeOK'
    BY <1>1, <1>2, <1>3, <1>4, <1>5 DEF TypeOK, vEntrada, vConversa, Na
<1>7. Contagem'
    BY <1>3, <1>4 DEF IInv, Contagem, vEntrada
<1>8. ASSUME NEW f \in Execucoes
      PROVE  Lugar(f)'
    <2>1. execucao[f].fase # "ociosa" => execucao[f].item \in 1 .. Len(fila)
        BY <1>1, EmCurso
    <2>. QED
        <3>1. Lugar(f) /\ Lugar(e)
            BY DEF IInv
        <3>2. CASE f = e
            BY <1>1, <1>2, <1>3, <1>4, <1>5, <3>1, <3>2 DEF Lugar, Na, Depois
        <3>3. CASE f # e
            <4>1. execucao'[f] = execucao[f] /\ Len(mensagens') = Len(mensagens)
                BY <1>3, <1>5, <3>3 DEF vEntrada
            <4>2. execucao[f].fase # "ociosa" => fila'[execucao[f].item] # "pending" \/ fila'[execucao[f].item] = fila[execucao[f].item]
                BY <1>1, <1>4, <2>1
            <4>. QED
                BY <3>1, <4>1, <4>2 DEF Lugar, Na, Depois
        <3>. QED
            BY <3>2, <3>3
<1>9. Propondo'
    BY <1>2, <1>3, <1>5 DEF IInv, Propondo, Na, vConversa
<1>10. \A k \in DOMAIN fila : Espera(k) => Espera(k)'
    <2>. SUFFICES ASSUME NEW k \in 1 .. Len(fila), Espera(k) PROVE Espera(k)'
        BY <1>1
    <2>1. \A f \in Execucoes : execucao'[f].fase \in Depois => execucao'[f].item # k
        BY <1>2, <1>5 DEF Espera, Depois
    <2>2. CASE k = i
        BY <1>2, <1>5, <2>1, <2>2 DEF Espera, Na
    <2>3. CASE k # i
        BY <1>1, <1>3, <1>4, <1>5, <2>1, <2>3 DEF Espera, Na
    <2>. QED
        BY <2>2, <2>3
<1>11. Guardada'
    BY <1>3, <1>4, <1>10 DEF IInv, Guardada, Ultrapassada, vEntrada
<1>. QED
    BY <1>6, <1>7, <1>8, <1>9, <1>11 DEF IInv

LEMMA LerMensagensInv ==
    ASSUME IInv, NEW e \in Execucoes, LerMensagens(e)
    PROVE  IInv'
<1>. DEFINE n == Len(mensagens)
            x == [execucao[e] EXCEPT !.fase = "leu", !.ultima = n]
<1>1. TypeOK /\ execucao[e] \in Andamento /\ execucao[e].fase = "reservada"
      /\ execucao[e].item \in 1 .. Len(fila)
      /\ n \in Nat /\ n <= MaxMensagens /\ MaxMensagens \in Nat
    BY Medidas, EmCurso, Limites DEF IInv, LerMensagens, Na
<1>2. n \in 1 .. Len(mensagens)
    BY <1>1, Medidas DEF IInv, Contagem
<1>3. /\ x \in Andamento /\ x.fase = "leu" /\ x.ultima = n
      /\ x.item = execucao[e].item /\ x.feitos = execucao[e].feitos
    <2>1. n \in 0 .. MaxMensagens
        BY <1>1
    <2>. HIDE DEF n
    <2>. QED
        BY <1>1, <2>1 DEF Andamento, Fases
<1>4. lidas' = lidas \cup Recentes /\ UNCHANGED <<vEntrada, fila, vConversa, os, quedas>>
    BY DEF LerMensagens
<1>5. /\ execucao' \in [Execucoes -> Andamento \cup {Ociosa}] /\ execucao'[e] = x
      /\ \A f \in Execucoes \ {e} : execucao'[f] = execucao[f]
    BY <1>1, <1>3, Seguiu DEF LerMensagens
<1>. HIDE DEF x
<1>6. TypeOK'
    <2>1. lidas' \subseteq 1 .. Len(mensagens')
        BY <1>1, <1>4 DEF TypeOK, Recentes, vEntrada
    <2>. QED
        BY <1>1, <1>3, <1>4, <1>5, <2>1 DEF TypeOK, vEntrada, vConversa, Na
<1>7. Contagem'
    BY <1>4 DEF IInv, Contagem, vEntrada
<1>8. \A f \in Execucoes : Lugar(f)'
    BY <1>1, <1>2, <1>3, <1>4, <1>5 DEF IInv, Lugar, Na, Depois, vEntrada
<1>9. Propondo'
    BY <1>3, <1>4, <1>5 DEF IInv, Propondo, Na, vConversa
<1>10. Guardada'
    <2>. SUFFICES ASSUME NEW m \in 1 .. Len(mensagens)
                  PROVE  m \in lidas' \/ Ultrapassada(m)'
        BY <1>4 DEF Guardada, Ultrapassada, vEntrada
    <2>1. CASE m + Janela > n
        BY <1>4, <2>1 DEF Recentes
    <2>2. CASE ~(m + Janela > n)
        <3>1. n + Janela > n /\ n >= m + Janela
            BY <1>1, <2>2, Limites
        <3>2. n \in lidas'
            BY <1>2, <1>4, <3>1 DEF Recentes
        <3>. QED
            BY <3>1, <3>2 DEF Ultrapassada
    <2>. QED
        BY <2>1, <2>2
<1>. QED
    BY <1>6, <1>7, <1>8, <1>9, <1>10 DEF IInv

-----------------------------------------------------------------------------
(* A run of the agent, from its reading to its end.                        *)

LEMMA Encerra ==
    ASSUME IInv, NEW e \in Execucoes, NEW x \in Andamento \cup {Ociosa}, Avanca(e, x),
           x.fase = "criar" => x.proposta # 0 /\ x.feitos < Itens,
           modo' \in {"auto", "pausado"}, propostas' \in 0 .. MaxPropostas,
           pendentes' \in 0 .. propostas',
           os' \in [1 .. MaxPropostas -> [1 .. Itens -> 0 .. 2]],
           Propondo'
    PROVE  IInv'
<1>1. /\ fila' \in Seq(StatusFila) /\ Len(fila') = Len(fila)
      /\ execucao' \in [Execucoes -> Andamento \cup {Ociosa}]
      /\ \A f \in Execucoes :
               execucao'[f].fase # "ociosa" => execucao'[f].item \in DOMAIN fila'
      /\ Contagem' /\ (\A f \in Execucoes : Lugar(f)') /\ Guardada'
    BY AvancaInv
<1>2. UNCHANGED <<mensagens, aEnfileirar, lidas, quedas>>
    BY DEF Avanca, vEntrada
<1>3. TypeOK'
    BY <1>1, <1>2 DEF IInv, TypeOK, Na
<1>. QED
    BY <1>1, <1>3 DEF IInv

\* Steps that touch neither the proposals nor the calls.
LEMMA EncerraSimples ==
    ASSUME IInv, NEW e \in Execucoes, NEW x \in Andamento \cup {Ociosa}, Avanca(e, x),
           x.fase = "criar" => x.proposta # 0 /\ x.feitos < Itens,
           x.fase # "propor",
           modo' \in {"auto", "pausado"}, pendentes' \in {0, pendentes},
           UNCHANGED <<propostas, os>>
    PROVE  IInv'
<1>1. TypeOK /\ \A f \in Execucoes \ {e} : execucao'[f] = execucao[f]
    BY Seguiu DEF IInv, Avanca
<1>2. execucao'[e] = x
    BY <1>1, Seguiu DEF Avanca
<1>3. Propondo'
    BY <1>1, <1>2 DEF IInv, Propondo, Na
<1>4. propostas' \in 0 .. MaxPropostas /\ pendentes' \in 0 .. propostas'
    BY <1>1, Limites DEF TypeOK
<1>5. os' \in [1 .. MaxPropostas -> [1 .. Itens -> 0 .. 2]]
    BY <1>1 DEF TypeOK
<1>. QED
    BY <1>3, <1>4, <1>5, Encerra

\* What a run decides, and a call it opens.
LEMMA Anota ==
    ASSUME NEW r \in Andamento, NEW fase \in Fases, NEW p \in 0 .. MaxPropostas,
           NEW i \in 0 .. Itens
    PROVE  /\ [r EXCEPT !.fase = fase, !.ultima = 0, !.proposta = p] \in Andamento
           /\ [r EXCEPT !.feitos = i, !.fase = fase] \in Andamento
<1>1. 0 \in 0 .. MaxMensagens
    BY Limites
<1>. QED
    BY <1>1 DEF Andamento

\* The place a run that has read goes to.
LEMMA Muda ==
    ASSUME TypeOK, NEW e \in Execucoes, execucao[e].fase \in Depois,
           NEW fase \in Depois \ {"leu"}, NEW fim \in {"done", "skipped"}
    PROVE  /\ execucao[e] \in Andamento
           /\ [execucao[e] EXCEPT !.fase = fase] \in Andamento
           /\ [execucao[e] EXCEPT !.fase = fase].fase = fase
           /\ [execucao[e] EXCEPT !.fase = fase].item = execucao[e].item
           /\ [execucao[e] EXCEPT !.fase = fase, !.fim = fim] \in Andamento
           /\ [execucao[e] EXCEPT !.fase = fase, !.fim = fim].fase = fase
           /\ [execucao[e] EXCEPT !.fase = fase, !.fim = fim].item = execucao[e].item
<1>1. execucao[e] \in Andamento
    BY EmCurso DEF Depois
<1>. QED
    BY <1>1 DEF Andamento, Fases, Depois

LEMMA LerPendentesInv ==
    ASSUME IInv, NEW e \in Execucoes, LerPendentes(e)
    PROVE  IInv'
<1>1. /\ execucao[e].fase = "leu" /\ execucao[e].ultima \in 1 .. Len(mensagens)
      /\ execucao[e].feitos = 0 /\ execucao[e] \in Andamento /\ TypeOK
    BY EmCurso DEF LerPendentes, Na, IInv, Lugar
<1>2. mensagens[execucao[e].ultima] \in Tipos
    BY <1>1 DEF TypeOK
<1>3. PICK fase \in {"avaliar", "criar", "recusar", "finalizar"},
           p \in 0 .. MaxPropostas :
        /\ fase = "criar" => p # 0
        /\ Decide(e, fase, p)
    <2>1. pendentes \in 0 .. MaxPropostas /\ 0 \in 0 .. MaxPropostas
        BY <1>1, Limites DEF TypeOK
    <2>2. CASE pendentes = 0
        BY <2>1, <2>2 DEF LerPendentes
    <2>3. CASE pendentes # 0 /\ mensagens[execucao[e].ultima] = "sim"
        BY <2>1, <2>3 DEF LerPendentes
    <2>4. CASE pendentes # 0 /\ mensagens[execucao[e].ultima] = "nao"
        BY <2>1, <2>4 DEF LerPendentes
    <2>5. CASE pendentes # 0 /\ mensagens[execucao[e].ultima] = "pedido"
        BY <2>1, <2>5 DEF LerPendentes
    <2>. QED
        BY <1>2, <2>2, <2>3, <2>4, <2>5 DEF Tipos
<1>. DEFINE x == [execucao[e] EXCEPT !.fase = fase, !.ultima = 0, !.proposta = p]
<1>4. /\ x \in Andamento /\ x.fase = fase /\ x.item = execucao[e].item
      /\ x.proposta = p /\ x.feitos = 0
    <2>1. fase \in Fases /\ 0 \in 0 .. Itens
        BY Limites DEF Fases
    <2>2. x \in Andamento
        BY <1>1, <2>1, Anota
    <2>. QED
        BY <1>1, <2>2 DEF Andamento
<1>5. Segue(e, x) /\ UNCHANGED <<vEntrada, fila, vConversa, os, lidas, quedas>>
    BY <1>3 DEF Decide, LerPendentes
<1>. HIDE DEF x
<1>6. Avanca(e, x)
    BY <1>1, <1>4, <1>5 DEF Avanca, Depois
<1>7. x.fase = "criar" => x.proposta # 0 /\ x.feitos < Itens
    BY <1>3, <1>4, Limites
<1>8. /\ modo' \in {"auto", "pausado"} /\ pendentes' \in {0, pendentes}
      /\ UNCHANGED <<propostas, os>>
    BY <1>1, <1>5 DEF TypeOK, vConversa
<1>. QED
    BY <1>4, <1>6, <1>7, <1>8, EncerraSimples

LEMMA AvaliarInv ==
    ASSUME IInv, NEW e \in Execucoes, Pular(e) \/ Transferir(e) \/ Perguntar(e)
    PROVE  IInv'
<1>. DEFINE y == [execucao[e] EXCEPT !.fase = "finalizar", !.fim = "skipped"]
            z == [execucao[e] EXCEPT !.fase = "finalizar"]
<1>1. TypeOK /\ execucao[e].fase \in Depois
    BY DEF Pular, Transferir, Perguntar, Na, Depois, IInv
<1>2. PICK x \in {y, z} : Segue(e, x)
    BY DEF Pular, Transferir, Perguntar, Termina, Para
<1>3. x \in Andamento /\ x.fase = "finalizar" /\ x.item = execucao[e].item
    <2>1. "finalizar" \in Depois \ {"leu"}
        BY DEF Depois
    <2>2. CASE x = y
        BY <1>1, <2>1, <2>2, Muda
    <2>3. CASE x = z
        BY <1>1, <2>1, <2>3, Muda
    <2>. QED
        BY <2>2, <2>3
<1>4. /\ modo' \in {"auto", "pausado"} /\ pendentes' \in {0, pendentes}
      /\ UNCHANGED <<propostas, os, vEntrada, fila, lidas, quedas>>
    BY <1>1 DEF Pular, Transferir, Perguntar, vConversa, TypeOK
<1>5. Avanca(e, x)
    BY <1>1, <1>2, <1>3, <1>4 DEF Avanca, Depois
<1>. QED
    BY <1>3, <1>4, <1>5, EncerraSimples

LEMMA ExtrairInv ==
    ASSUME IInv, NEW e \in Execucoes, Extrair(e)
    PROVE  IInv'
<1>. DEFINE x == [execucao[e] EXCEPT !.fase = "propor"]
<1>1. TypeOK /\ execucao[e].fase \in Depois
    BY DEF Extrair, Na, Depois, IInv
<1>2. x \in Andamento /\ x.fase = "propor" /\ x.item = execucao[e].item
    BY <1>1, Muda DEF Depois
<1>3. /\ Segue(e, x) /\ propostas < MaxPropostas /\ \A f \in Execucoes : ~Na(f, "propor")
      /\ UNCHANGED <<vEntrada, fila, vConversa, os, lidas, quedas>>
    BY DEF Extrair, Para
<1>. HIDE DEF x
<1>4. Avanca(e, x)
    BY <1>1, <1>2, <1>3 DEF Avanca, Depois
<1>5. execucao'[e] = x /\ \A f \in Execucoes \ {e} : execucao'[f] = execucao[f]
    BY <1>1, <1>2, <1>3, Seguiu
<1>6. Propondo'
    BY <1>3, <1>5 DEF Propondo, Na, vConversa
<1>7. /\ modo' \in {"auto", "pausado"} /\ propostas' \in 0 .. MaxPropostas
      /\ pendentes' \in 0 .. propostas'
      /\ os' \in [1 .. MaxPropostas -> [1 .. Itens -> 0 .. 2]]
    BY <1>1, <1>3 DEF TypeOK, vConversa
<1>. QED
    BY <1>2, <1>4, <1>6, <1>7, Encerra

LEMMA SalvarPendentesInv ==
    ASSUME IInv, NEW e \in Execucoes, SalvarPendentes(e)
    PROVE  IInv'
<1>. DEFINE x == [execucao[e] EXCEPT !.fase = "finalizar"]
<1>1. TypeOK /\ execucao[e].fase = "propor" /\ execucao[e].fase \in Depois
    BY DEF SalvarPendentes, Na, Depois, IInv
<1>2. x \in Andamento /\ x.fase = "finalizar" /\ x.item = execucao[e].item
    BY <1>1, Muda DEF Depois
<1>3. /\ Segue(e, x) /\ propostas' = propostas + 1 /\ pendentes' = propostas + 1
      /\ UNCHANGED <<vEntrada, fila, modo, os, lidas, quedas>>
    BY DEF SalvarPendentes, Para
<1>. HIDE DEF x
<1>4. Avanca(e, x)
    BY <1>1, <1>2, <1>3 DEF Avanca, Depois
<1>5. execucao'[e] = x /\ \A f \in Execucoes \ {e} : execucao'[f] = execucao[f]
    BY <1>1, <1>2, <1>3, Seguiu
<1>6. propostas < MaxPropostas /\ \A f \in Execucoes \ {e} : execucao[f].fase # "propor"
    BY <1>1 DEF IInv, Propondo, Na
<1>7. Propondo'
    BY <1>2, <1>5, <1>6 DEF Propondo, Na
<1>8. /\ modo' \in {"auto", "pausado"} /\ propostas' \in 0 .. MaxPropostas
      /\ pendentes' \in 0 .. propostas'
      /\ os' \in [1 .. MaxPropostas -> [1 .. Itens -> 0 .. 2]]
    BY <1>1, <1>3, <1>6, Limites DEF TypeOK
<1>. QED
    BY <1>2, <1>4, <1>7, <1>8, Encerra

LEMMA CriarOsInv ==
    ASSUME IInv, NEW e \in Execucoes, CriarOs(e)
    PROVE  IInv'
<1>. DEFINE i == execucao[e].feitos + 1
            p == execucao[e].proposta
            fase == IF i = Itens THEN "finalizar" ELSE "criar"
            x == [execucao[e] EXCEPT !.feitos = i, !.fase = fase]
<1>1. TypeOK /\ execucao[e].fase = "criar" /\ execucao[e].feitos < Itens
      /\ execucao[e] \in Andamento /\ p # 0
    BY EmCurso DEF CriarOs, Na, IInv, Lugar
<1>2. i \in 1 .. Itens /\ p \in 1 .. MaxPropostas /\ fase \in {"finalizar", "criar"}
      /\ (fase = "criar" => i < Itens)
    BY <1>1, Limites DEF Andamento
<1>3. /\ Segue(e, x)
      /\ os' = [os EXCEPT ![p][i] = IF @ = 0 THEN 1 ELSE 2]
      /\ UNCHANGED <<vEntrada, fila, vConversa, lidas, quedas>>
    BY <1>1 DEF CriarOs
<1>. HIDE DEF fase
<1>4. /\ x \in Andamento /\ x.fase = fase /\ x.item = execucao[e].item
      /\ x.proposta = p /\ x.feitos = i
    <2>. HIDE DEF i
    <2>1. fase \in Fases /\ i \in 0 .. Itens /\ execucao[e] \in Andamento
        BY <1>1, <1>2, Limites DEF Fases
    <2>2. x \in Andamento
        BY <2>1 DEF Andamento
    <2>. QED
        BY <1>1, <2>2 DEF Andamento
<1>. HIDE DEF x, i, p
<1>5. Avanca(e, x)
    BY <1>1, <1>2, <1>3, <1>4 DEF Avanca, Depois
<1>6. os' \in [1 .. MaxPropostas -> [1 .. Itens -> 0 .. 2]]
    BY <1>1, <1>2, <1>3 DEF TypeOK
<1>7. execucao'[e] = x /\ \A f \in Execucoes \ {e} : execucao'[f] = execucao[f]
    BY <1>1, <1>3, <1>4, Seguiu
<1>8. Propondo'
    BY <1>2, <1>3, <1>4, <1>7 DEF IInv, Propondo, Na, vConversa
<1>9. modo' \in {"auto", "pausado"} /\ propostas' \in 0 .. MaxPropostas
      /\ pendentes' \in 0 .. propostas'
    BY <1>1, <1>3 DEF TypeOK, vConversa
<1>10. x.fase = "criar" => x.proposta # 0 /\ x.feitos < Itens
    BY <1>1, <1>2, <1>4
<1>. QED
    BY <1>4, <1>5, <1>6, <1>8, <1>9, <1>10, Encerra

LEMMA LimparInv ==
    ASSUME IInv, NEW e \in Execucoes, LimparRecusados(e) \/ LimparConfirmados(e)
    PROVE  IInv'
<1>. DEFINE z == [execucao[e] EXCEPT !.fase = "finalizar"]
<1>1. TypeOK /\ execucao[e].fase \in Depois
    BY DEF LimparRecusados, LimparConfirmados, Na, Depois, IInv
<1>2. PICK x \in {z, Ociosa} : Segue(e, x)
    BY DEF LimparRecusados, LimparConfirmados, Para
<1>3. /\ x \in Andamento \cup {Ociosa} /\ x.fase \in {"finalizar", "ociosa"}
      /\ x # Ociosa => x.fase = "finalizar" /\ x.item = execucao[e].item
    <2>1. "finalizar" \in Depois \ {"leu"}
        BY DEF Depois
    <2>2. z \in Andamento /\ z.fase = "finalizar" /\ z.item = execucao[e].item
        BY <1>1, <2>1, Muda
    <2>. HIDE DEF z
    <2>3. Ociosa.fase = "ociosa"
        BY DEF Ociosa
    <2>. QED
        BY <2>2, <2>3
<1>4. /\ modo' \in {"auto", "pausado"} /\ pendentes' \in {0, pendentes}
      /\ UNCHANGED <<propostas, os, vEntrada, fila, lidas, quedas>>
    BY <1>1 DEF LimparRecusados, LimparConfirmados, TypeOK
<1>5. Avanca(e, x)
    BY <1>1, <1>2, <1>3, <1>4 DEF Avanca, Depois
<1>. QED
    BY <1>3, <1>4, <1>5, EncerraSimples

LEMMA FinalizarInv ==
    ASSUME IInv, NEW e \in Execucoes, Finalizar(e)
    PROVE  IInv'
<1>. DEFINE z == [execucao[e] EXCEPT !.fase = "limpar"]
<1>1. TypeOK /\ execucao[e].fase \in Depois
    BY DEF Finalizar, Na, Depois, IInv
<1>2. PICK x \in {z, Ociosa} : Segue(e, x)
    BY DEF Finalizar, Para
<1>3. /\ x \in Andamento \cup {Ociosa} /\ x.fase \in {"limpar", "ociosa"}
      /\ x # Ociosa => x.fase = "limpar" /\ x.item = execucao[e].item
    <2>1. "limpar" \in Depois \ {"leu"}
        BY DEF Depois
    <2>2. z \in Andamento /\ z.fase = "limpar" /\ z.item = execucao[e].item
        BY <1>1, <2>1, Muda
    <2>. HIDE DEF z
    <2>3. Ociosa.fase = "ociosa"
        BY DEF Ociosa
    <2>. QED
        BY <2>2, <2>3
<1>4. /\ modo' \in {"auto", "pausado"} /\ pendentes' \in {0, pendentes}
      /\ UNCHANGED <<propostas, os, vEntrada, lidas, quedas>>
    BY <1>1 DEF Finalizar, TypeOK, vConversa
<1>5. fila' = [fila EXCEPT ![execucao[e].item] = execucao[e].fim] /\ execucao[e].fim \in Finais
    <2>1. execucao[e] \in Andamento
        BY <1>1, EmCurso DEF Depois
    <2>. QED
        BY <2>1 DEF Finalizar, Andamento, Finais
<1>6. Avanca(e, x)
    BY <1>1, <1>2, <1>3, <1>4, <1>5 DEF Avanca, Depois
<1>. QED
    BY <1>3, <1>4, <1>6, EncerraSimples

\* A run that had not read leaves its row in error, and the row still stands
\* for the messages that waited in it.
LEMMA FalharInv ==
    ASSUME IInv, NEW e \in Execucoes, Falhar(e)
    PROVE  IInv'
<1>1. /\ TypeOK /\ execucao[e].fase \notin {"ociosa", "vista"} /\ Segue(e, Ociosa)
      /\ fila' = [fila EXCEPT ![execucao[e].item] = "error"]
      /\ UNCHANGED <<vEntrada, vConversa, os, lidas, quedas>>
    BY DEF Falhar, GravarErro, IInv
<1>2. execucao[e] \in Andamento /\ execucao[e].item \in 1 .. Len(fila)
    BY <1>1, EmCurso
<1>3. CASE execucao[e].fase \in Depois
    <2>1. Avanca(e, Ociosa)
        BY <1>1, <1>3 DEF Avanca, Finais
    <2>2. /\ modo' \in {"auto", "pausado"} /\ pendentes' \in {0, pendentes}
          /\ UNCHANGED <<propostas, os>> /\ Ociosa.fase = "ociosa"
        BY <1>1 DEF TypeOK, vConversa, Ociosa
    <2>. QED
        BY <2>1, <2>2, EncerraSimples
<1>4. CASE execucao[e].fase = "reservada"
    <2>. DEFINE i == execucao[e].item
    <2>1. /\ fila' \in Seq(StatusFila) /\ Len(fila') = Len(fila) /\ DOMAIN fila' = DOMAIN fila
          /\ fila'[i] = "error" /\ DOMAIN fila = 1 .. Len(fila)
          /\ \A j \in (1 .. Len(fila)) \ {i} : fila'[j] = fila[j]
        BY <1>1, <1>2, Marcada, Medidas DEF StatusFila
    <2>2. /\ execucao' \in [Execucoes -> Andamento \cup {Ociosa}]
          /\ execucao'[e] = Ociosa /\ Ociosa.fase = "ociosa"
          /\ \A f \in Execucoes \ {e} : execucao'[f] = execucao[f]
        BY <1>1, Seguiu DEF Ociosa
    <2>3. TypeOK'
        BY <1>1, <2>1, <2>2 DEF TypeOK, vEntrada, vConversa, Na
    <2>4. Contagem'
        BY <1>1, <2>1 DEF IInv, Contagem, vEntrada
    <2>5. ASSUME NEW f \in Execucoes
          PROVE  Lugar(f)'
        <3>1. execucao[f].fase # "ociosa" => execucao[f].item \in 1 .. Len(fila)
            BY <1>1, EmCurso
        <3>. QED
            BY <1>1, <2>1, <2>2, <3>1 DEF IInv, Lugar, Na, Depois, vEntrada
    <2>6. Propondo'
        BY <1>1, <2>2 DEF IInv, Propondo, Na, vConversa
    <2>7. \A k \in DOMAIN fila : Espera(k) => Espera(k)'
        <3>. SUFFICES ASSUME NEW k \in 1 .. Len(fila), Espera(k) PROVE Espera(k)'
            BY <2>1
        <3>1. \A f \in Execucoes : execucao'[f].fase \in Depois => execucao'[f].item # k
            BY <2>2 DEF Espera, Depois
        <3>2. CASE k = i
            BY <2>1, <3>1, <3>2 DEF Espera
        <3>3. CASE k # i
            BY <2>1, <2>2, <3>1, <3>3 DEF Espera, Na
        <3>. QED
            BY <3>2, <3>3
    <2>8. Guardada'
        BY <1>1, <2>1, <2>7 DEF IInv, Guardada, Ultrapassada, vEntrada
    <2>. QED
        BY <2>3, <2>4, <2>5, <2>6, <2>8 DEF IInv
<1>. QED
    BY <1>1, <1>2, <1>3, <1>4 DEF Andamento, Fases, Depois

LEMMA CairInv ==
    ASSUME IInv, NEW e \in Execucoes, Cair(e)
    PROVE  IInv'
<1>1. TypeOK /\ quedas \in Nat /\ MaxQuedas \in Nat
    BY Limites DEF IInv, TypeOK
<1>2. /\ quedas' = quedas + 1 /\ quedas < MaxQuedas /\ Segue(e, Ociosa)
      /\ UNCHANGED <<mensagens, aEnfileirar, fila, vConversa, os, lidas>>
    BY DEF Cair, vEntrada
<1>3. /\ execucao' \in [Execucoes -> Andamento \cup {Ociosa}]
      /\ execucao'[e] = Ociosa /\ Ociosa.fase = "ociosa"
      /\ \A f \in Execucoes \ {e} : execucao'[f] = execucao[f]
    BY <1>1, <1>2, Seguiu DEF Ociosa
<1>4. TypeOK'
    <2>1. quedas' \in 0..MaxQuedas
        BY <1>1, <1>2
    <2>2. execucao' \in [Execucoes -> Andamento \cup {Ociosa}]
        BY <1>3
    <2>3. /\ mensagens' = mensagens /\ aEnfileirar' = aEnfileirar /\ fila' = fila
          /\ modo' = modo /\ pendentes' = pendentes /\ propostas' = propostas
          /\ os' = os /\ lidas' = lidas
        BY <1>2 DEF vConversa
    <2>4. \A f \in Execucoes : (~Na(f, "ociosa") => execucao[f].item \in DOMAIN fila)'
        BY <1>1, <1>3, <2>3 DEF TypeOK, Na
    <2>. QED
        BY <1>1, <2>1, <2>2, <2>3, <2>4 DEF TypeOK
<1>5. Contagem' /\ (\A f \in Execucoes : Lugar(f)') /\ Propondo'
    BY <1>2, <1>3 DEF IInv, Contagem, Lugar, Propondo, Na, Depois, vConversa
<1>6. Guardada'
    BY <1>1, <1>2 DEF Guardada, Ultrapassada
<1>. QED
    BY <1>4, <1>5, <1>6 DEF IInv

-----------------------------------------------------------------------------
(* Theorems.                                                               *)

LEMMA Inicio == Init => IInv
<1>. SUFFICES ASSUME Init PROVE IInv
    OBVIOUS
<1>1. mensagens = << >> /\ fila = << >> /\ Len(mensagens) = 0 /\ Len(fila) = 0
    BY DEF Init
<1>2. Cardinality(aEnfileirar) = 0
    BY FS_EmptySet DEF Init
<1>3. \A e \in Execucoes : execucao[e] = Ociosa /\ Ociosa.fase = "ociosa"
    BY DEF Init, Ociosa
<1>4. TypeOK
    BY <1>1, <1>3, Limites DEF Init, TypeOK, Na
<1>5. Contagem /\ Guardada
    BY <1>1, <1>2 DEF Contagem, Guardada, Ultrapassada
<1>6. (\A e \in Execucoes : Lugar(e)) /\ Propondo
    BY <1>3 DEF Lugar, Propondo, Na, Depois
<1>. QED
    BY <1>4, <1>5, <1>6 DEF IInv

\* What every state satisfies: the types, where each run stands, and the row
\* behind which each unread message waits.
THEOREM InvarianteDoAtendimento == Spec => []IInv
<1>1. IInv /\ [Next]_vars => IInv'
    <2>. SUFFICES ASSUME IInv, [Next]_vars PROVE IInv'
        OBVIOUS
    <2>1. ASSUME NEW e \in Execucoes, Passo(e)
          PROVE  IInv'
        BY <2>1, ReservarForcadaInv, LerMensagensInv, LerPendentesInv, AvaliarInv,
           ExtrairInv, SalvarPendentesInv, CriarOsInv, LimparInv, FinalizarInv, FalharInv
           DEF Passo
    <2>. QED
        BY <2>1, ReceberInv, EnfileirarInv, PerderInv, EscritorioInv, ReservarInv,
           AcionarInv, CairInv DEF Next
<1>. QED
    BY <1>1, Inicio, PTL DEF Spec

\* The conversation, its queue and every run keep their shape, whatever the
\* model of language answers and whichever call fails.
THEOREM TipoDoAtendimento == Spec => []TypeOK
<1>1. IInv => TypeOK
    BY DEF IInv
<1>. QED
    BY <1>1, InvarianteDoAtendimento, PTL

\* However many runs and forced answers work on the queue, a message the
\* webhook enqueued waits in a row until some run has read it or has read the
\* Janela messages after it (fn_debounce_wa_queue of migration 0149 and the
\* limit of buscarMensagens).
THEOREM NadaSeEsquece == Spec => []NenhumaEsquecida
<1>1. IInv => NenhumaEsquecida
    BY DEF IInv, TypeOK, Guardada, NenhumaEsquecida, Espera, HaPendente
<1>. QED
    BY <1>1, InvarianteDoAtendimento, PTL
=============================================================================
