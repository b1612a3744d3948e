----------------------------- MODULE OrdemProofs -----------------------------
(***************************************************************************)
(* Proofs about the order in which the drainer sends what was buffered.    *)
(* The events accepted into the buffer are at every moment a part that was *)
(* sent, followed by what the pending file holds, followed by what the     *)
(* drainer has still to send or to write back.                             *)
(***************************************************************************)
EXTENDS ContingenciaProofs

Sossego == quedas = 0 /\ falhas = 0

(* What the drainer has in hand. *)
Resto == IF dreno = "le" THEN working ELSE IF dreno \in {"publica", "devolve"} THEN lote ELSE <<>>

(* g is what was buffered, k events of it were sent, p and q are left. *)
Posicao(k, g, p, q) ==
  /\ \A i \in 1..k : g[i] \in reenviados
  /\ \A i \in (k + 1)..Len(g) : g[i] \notin reenviados
  /\ k + Len(p) + Len(q) = Len(g)
  /\ \A i \in 1..Len(p) : p[i] = Inteira(g[k + i])
  /\ \A i \in 1..Len(q) : q[i] = Inteira(g[k + Len(p) + i])

(* Each event is buffered once, by the task that holds the lock. *)
Unicos ==
  /\ \A i, j \in 1..Len(gravados) : gravados[i] = gravados[j] => i = j
  /\ \A i \in 1..Len(gravados) : estado[gravados[i]] = "aceito"
  /\ \A e \in reenviados : \E i \in 1..Len(gravados) : e = gravados[i]
  /\ \A e \in Eventos : estado[e] = "gravando" => tranca = e

(* Whose turn it is: while the drainer reads and sends, the pending file is not there. *)
Turnos ==
  /\ dreno # "quarentena"
  /\ dreno # "ocioso" => tranca = "drenador" /\ working # Nada
  /\ dreno = "ocioso" => working = Nada
  /\ dreno \in {"le", "publica"} => pendentes = Nada

EmOrdem ==
  /\ Unicos /\ Turnos
  /\ \E k \in 0..Len(gravados) : Posicao(k, gravados, Aberto(pendentes), Resto)

LEMMA EventoDaLinha ==
  ASSUME NEW e \in Eventos
  PROVE  /\ EventoDe(Inteira(e)) = e /\ Inteira(e).ok /\ Inteira(e).fim /\ Inteira(e).utf
BY DEF EventoDe, Inteira

(* Appending a whole line, and taking the first line of what is left. *)
LEMMA AcrescentaNoFim ==
  ASSUME NEW p \in Seq(Linha), p = Aberto(pendentes), NEW l \in Linha,
         \A i \in 1..Len(p) : p[i].fim
  PROVE  /\ Acrescenta(pendentes, l) = Append(p, l)
         /\ Len(Append(p, l)) = Len(p) + 1 /\ Append(p, l)[Len(p) + 1] = l
         /\ \A i \in 1..Len(p) : Append(p, l)[i] = p[i]
<1>1. Len(p) = 0 \/ p[Len(p)].fim
  OBVIOUS
<1> QED
  BY <1>1 DEF Acrescenta

LEMMA TiraOPrimeiro ==
  ASSUME NEW q \in Seq(Linha), q # <<>>
  PROVE  /\ Head(q) = q[1] /\ Tail(q) \in Seq(Linha)
         /\ Len(q) \in Nat /\ Len(q) >= 1 /\ Len(Tail(q)) = Len(q) - 1
         /\ \A i \in 1..Len(Tail(q)) : Tail(q)[i] = q[i + 1]
OBVIOUS

(* What is known of the sequences. *)
LEMMA TiposDaFila ==
  ASSUME IInv, Turnos
  PROVE  /\ Aberto(pendentes) \in Seq(Linha) /\ Resto \in Seq(Linha) /\ gravados \in Seq(Eventos)
         /\ lote \in Seq(Linha) /\ working \in Arquivo /\ pendentes \in Arquivo
<1>1. /\ pendentes \in Arquivo /\ working \in Arquivo /\ lote \in Seq(Linha) /\ gravados \in Seq(Eventos)
  BY DEF IInv, Tipado, TipoArquivos, TipoEventos
<1>2. dreno = "le" => working \in Seq(Linha)
  BY <1>1 DEF Turnos, Arquivo
<1> QED
  BY <1>1, <1>2, AbertoEhSequencia DEF Resto

(* An event joins the end of the queue. *)
LEMMA GravaEmOrdem ==
  ASSUME IInv, EmOrdem, NEW e \in Eventos, GravaConclui(e), falhas' = falhas
  PROVE  EmOrdem'
<1>a. PICK g : g = gravados
  OBVIOUS
<1>b. PICK p : p = Aberto(pendentes)
  OBVIOUS
<1>c. PICK h : h = Append(g, e)
  OBVIOUS
<1>d. PICK r : r = Append(p, Inteira(e))
  OBVIOUS
<1>1. /\ estado[e] = "gravando" /\ tranca = e /\ dreno = "ocioso" /\ working = Nada
  BY NadaAssumption DEF GravaConclui, EmOrdem, Unicos, Turnos
<1>2. g \in Seq(Eventos) /\ p \in Seq(Linha)
  BY <1>a, <1>b, TiposDaFila DEF EmOrdem
<1>3. estado \in [Eventos -> Estados] /\ falhas \in Nat
  BY DEF IInv, Tipado, TipoEventos, TipoLimites
<1>4. /\ pendentes' = Acrescenta(pendentes, Inteira(e)) /\ estado' = [estado EXCEPT ![e] = "aceito"]
      /\ gravados' = h /\ tranca' = Nada
      /\ UNCHANGED <<working, dreno, lote, reenviados>>
  BY <1>3, <1>a, <1>c DEF GravaConclui, FalhaIO
<1>5. PICK k \in 0..Len(g) : Posicao(k, g, p, <<>>)
  BY <1>1, <1>a, <1>b DEF EmOrdem, Resto
<1>6. /\ \A i \in 1..k : g[i] \in reenviados
      /\ \A i \in (k + 1)..Len(g) : g[i] \notin reenviados
      /\ k + Len(p) = Len(g)
      /\ \A i \in 1..Len(p) : p[i] = Inteira(g[k + i])
  BY <1>2, <1>5 DEF Posicao
<1>7. /\ Len(g) \in Nat /\ Len(p) \in Nat /\ k \in Nat /\ \A i \in 1..Len(g) : g[i] \in Eventos
      /\ h \in Seq(Eventos) /\ Len(h) = Len(g) + 1 /\ h[Len(g) + 1] = e
      /\ \A i \in 1..Len(g) : h[i] = g[i]
  BY <1>2, <1>c
<1>8. \A i \in 1..Len(p) : p[i].fim
  <2> SUFFICES ASSUME NEW i \in 1..Len(p) PROVE p[i].fim
    OBVIOUS
  <2>1. g[k + i] \in Eventos
    BY <1>6, <1>7
  <2> QED
    BY <1>6, <2>1, EventoDaLinha
<1>9. /\ pendentes' = r /\ r \in Seq(Linha) /\ Len(r) = Len(p) + 1 /\ r[Len(p) + 1] = Inteira(e)
      /\ \A i \in 1..Len(p) : r[i] = p[i]
  <2>1. Inteira(e) \in Linha
    BY InteiraBemFormada DEF BemFormada
  <2> QED
    BY <1>2, <1>4, <1>8, <1>b, <1>d, <2>1, AcrescentaNoFim
<1>10. /\ \A i \in 1..Len(g) : estado[g[i]] = "aceito" /\ g[i] # e
       /\ \A i, j \in 1..Len(g) : g[i] = g[j] => i = j
       /\ \A x \in reenviados : \E i \in 1..Len(g) : x = g[i]
       /\ \A x \in Eventos : estado[x] = "gravando" => x = e
  BY <1>1, <1>a DEF EmOrdem, Unicos
<1>11. Unicos'
  BY <1>3, <1>4, <1>7, <1>10 DEF Unicos
<1>12. Turnos'
  BY <1>1, <1>4 DEF Turnos
<1>13. Aberto(pendentes)' = r /\ Resto' = <<>>
  <2>1. Aberto(r) = r
    BY <1>9, SequenciaAberta
  <2> QED
    BY <1>1, <1>4, <1>9, <2>1 DEF Aberto, Resto
<1>14. Posicao(k, h, r, <<>>)'
  <2>1. \A i \in 1..k : h[i] \in reenviados'
    BY <1>4, <1>6, <1>7
  <2>2. \A i \in (k + 1)..Len(h) : h[i] \notin reenviados'
    BY <1>4, <1>6, <1>7, <1>10
  <2>3. \A i \in 1..Len(r) : r[i] = Inteira(h[k + i])
    <3>1. \A i \in 1..Len(p) : k + i \in 1..Len(g) /\ r[i] = Inteira(h[k + i])
      BY <1>6, <1>7, <1>9
    <3>2. k + (Len(p) + 1) = Len(g) + 1
      BY <1>6, <1>7
    <3>3. r[Len(p) + 1] = Inteira(h[k + (Len(p) + 1)])
      BY <1>7, <1>9, <3>2
    <3>4. \A i \in 1..(Len(p) + 1) : i \in 1..Len(p) \/ i = Len(p) + 1
      BY <1>7
    <3> QED
      BY <1>9, <3>1, <3>3, <3>4
  <2>4. k + Len(r) + Len(<<>>) = Len(h)
    <3>1. k + Len(r) = Len(h) /\ k + Len(r) \in Nat
      BY <1>6, <1>7, <1>9
    <3>2. Len(<<>>) = 0
      OBVIOUS
    <3> QED
      BY <3>1, <3>2
  <2> QED
    BY <2>1, <2>2, <2>3, <2>4 DEF Posicao
<1>15. k \in 0..Len(gravados')
  BY <1>4, <1>7
<1>16. Posicao(k, gravados, Aberto(pendentes), Resto)'
  BY <1>4, <1>13, <1>14
<1> QED
  BY <1>11, <1>12, <1>15, <1>16 DEF EmOrdem

(* The steps that move no line, or move the whole file. *)
LEMMA ParadoEmOrdem ==
  ASSUME IInv, EmOrdem, UNCHANGED <<gravados, reenviados>>, Turnos',
         \/ Aberto(pendentes)' = Aberto(pendentes) /\ Resto' = Resto
         \/ Aberto(pendentes)' = <<>> /\ Resto = <<>> /\ Resto' = Aberto(pendentes),
         \A i \in 1..Len(gravados) : estado'[gravados[i]] = "aceito",
         \A e \in Eventos : estado'[e] = "gravando" => tranca' = e
  PROVE  EmOrdem'
<1>1. PICK k \in 0..Len(gravados) : Posicao(k, gravados, Aberto(pendentes), Resto)
  BY DEF EmOrdem
<1>2. PICK g, p : g = gravados /\ p = Aberto(pendentes)
  OBVIOUS
<1>4. CASE Aberto(pendentes)' = Aberto(pendentes) /\ Resto' = Resto
  BY <1>1, <1>4 DEF EmOrdem, Unicos, Posicao
<1>5. CASE Aberto(pendentes)' = <<>> /\ Resto = <<>> /\ Resto' = Aberto(pendentes)
  <2>1. k \in Nat /\ Len(p) \in Nat /\ Len(<<>>) = 0
    BY <1>1, <1>2, TiposDaFila DEF EmOrdem
  <2>2. /\ \A i \in 1..k : g[i] \in reenviados
        /\ \A i \in (k + 1)..Len(g) : g[i] \notin reenviados
        /\ k + Len(p) = Len(g)
        /\ \A i \in 1..Len(p) : p[i] = Inteira(g[k + i])
    BY <1>1, <1>2, <1>5, <2>1 DEF Posicao
  <2>3. Posicao(k, g, <<>>, p)
    <3>1. \A i \in 1..Len(p) : p[i] = Inteira(g[k + Len(<<>>) + i])
      <4>1. k + Len(<<>>) = k
        BY <2>1
      <4> QED
        BY <2>2, <4>1
    <3>2. k + Len(<<>>) + Len(p) = Len(g)
      <4>1. k + Len(<<>>) = k
        BY <2>1
      <4> QED
        BY <2>2, <4>1
    <3>3. \A i \in 1..Len(<<>>) : <<>>[i] = Inteira(g[k + i])
      BY <2>1
    <3> QED
      BY <2>2, <3>1, <3>2, <3>3, Zenon DEF Posicao
  <2>4. Posicao(k, gravados, Aberto(pendentes), Resto)'
    BY <1>2, <1>5, <2>3 DEF Posicao
  <2> QED
    BY <1>1, <2>4 DEF EmOrdem, Unicos
<1> QED
  BY <1>4, <1>5

(* Every line in the queue is the whole line of an event that was buffered. *)
LEMMA LinhasInteiras ==
  ASSUME IInv, NEW g, g \in Seq(Eventos), NEW k \in 0..Len(g), NEW p \in Seq(Linha), NEW q \in Seq(Linha),
         Posicao(k, g, p, q)
  PROVE  /\ \A i \in 1..Len(p) : p[i].fim
         /\ \A i \in 1..Len(q) : q[i].ok /\ q[i].fim /\ q[i].utf
<1>1. /\ k \in Nat /\ Len(g) \in Nat /\ Len(p) \in Nat /\ Len(q) \in Nat
      /\ \A i \in 1..Len(g) : g[i] \in Eventos
  OBVIOUS
<1>2. /\ k + Len(p) + Len(q) = Len(g)
      /\ \A i \in 1..Len(p) : p[i] = Inteira(g[k + i])
      /\ \A i \in 1..Len(q) : q[i] = Inteira(g[k + Len(p) + i])
  BY DEF Posicao
<1>3. ASSUME NEW i \in 1..Len(p) PROVE p[i].fim
  <2>1. g[k + i] \in Eventos
    BY <1>1, <1>2
  <2> QED
    BY <1>2, <2>1, EventoDaLinha
<1>4. ASSUME NEW i \in 1..Len(q) PROVE q[i].ok /\ q[i].fim /\ q[i].utf
  <2>1. g[k + Len(p) + i] \in Eventos
    BY <1>1, <1>2
  <2> QED
    BY <1>2, <2>1, EventoDaLinha
<1> QED
  BY <1>3, <1>4

(* The first event left is sent, or written back at the end of the pending file. *)
LEMMA SaiOPrimeiro ==
  ASSUME NEW g \in Seq(Eventos), NEW k \in 0..Len(g), NEW q \in Seq(Linha), q # <<>>,
         \A i, j \in 1..Len(g) : g[i] = g[j] => i = j,
         Posicao(k, g, <<>>, q), reenviados' = reenviados \cup {EventoDe(Head(q))}
  PROVE  /\ k + 1 \in 0..Len(g) /\ EventoDe(Head(q)) = g[k + 1]
         /\ Posicao(k + 1, g, <<>>, Tail(q))'
<1>1. Len(<<>>) = 0 /\ k \in Nat /\ Len(g) \in Nat /\ \A i \in 1..Len(g) : g[i] \in Eventos
  OBVIOUS
<1>2. /\ Head(q) = q[1] /\ Len(q) \in Nat /\ Len(q) >= 1 /\ Len(Tail(q)) = Len(q) - 1
      /\ \A i \in 1..Len(Tail(q)) : Tail(q)[i] = q[i + 1]
  BY TiraOPrimeiro
<1>3. /\ \A i \in 1..k : g[i] \in reenviados
      /\ \A i \in (k + 1)..Len(g) : g[i] \notin reenviados
      /\ k + Len(q) = Len(g)
      /\ \A i \in 1..Len(q) : q[i] = Inteira(g[k + i])
  <2>1. k + Len(<<>>) + Len(q) = k + Len(q) /\ \A i \in 1..Len(q) : k + Len(<<>>) + i = k + i
    BY <1>1, <1>2
  <2> QED
    BY <2>1 DEF Posicao
<1>4. k + 1 \in 1..Len(g) /\ 1 \in 1..Len(q)
  BY <1>1, <1>2, <1>3
<1>5. EventoDe(Head(q)) = g[k + 1]
  <2>1. Head(q) = Inteira(g[k + 1]) /\ g[k + 1] \in Eventos
    BY <1>1, <1>2, <1>3, <1>4
  <2> QED
    BY <2>1, EventoDaLinha
<1>6. \A i \in 1..(k + 1) : g[i] \in reenviados'
  <2>1. \A i \in 1..(k + 1) : i \in 1..k \/ i = k + 1
    BY <1>1
  <2> QED
    BY <1>3, <1>5, <2>1
<1>7. \A i \in (k + 1 + 1)..Len(g) : g[i] \notin reenviados'
  <2> SUFFICES ASSUME NEW i \in (k + 1 + 1)..Len(g) PROVE g[i] \notin reenviados'
    OBVIOUS
  <2>1. i \in (k + 1)..Len(g) /\ i \in 1..Len(g) /\ i # k + 1
    BY <1>1
  <2>2. g[i] # g[k + 1]
    BY <1>4, <2>1
  <2> QED
    BY <1>3, <1>5, <2>1, <2>2
<1>8. k + 1 + Len(<<>>) + Len(Tail(q)) = Len(g)
  BY <1>1, <1>2, <1>3
<1>9. \A i \in 1..Len(Tail(q)) : Tail(q)[i] = Inteira(g[k + 1 + Len(<<>>) + i])
  <2> SUFFICES ASSUME NEW i \in 1..Len(Tail(q)) PROVE Tail(q)[i] = Inteira(g[k + 1 + Len(<<>>) + i])
    OBVIOUS
  <2>1. i + 1 \in 1..Len(q) /\ k + 1 + Len(<<>>) + i = k + (i + 1)
    BY <1>1, <1>2
  <2> QED
    BY <1>2, <1>3, <2>1
<1> QED
  BY <1>1, <1>4, <1>5, <1>6, <1>7, <1>8, <1>9 DEF Posicao

LEMMA VoltaOPrimeiro ==
  ASSUME NEW g \in Seq(Eventos), NEW k \in 0..Len(g), NEW p \in Seq(Linha), NEW q \in Seq(Linha), q # <<>>,
         Posicao(k, g, p, q)
  PROVE  Posicao(k, g, Append(p, Head(q)), Tail(q))
<1> PICK r : r = Append(p, Head(q))
  OBVIOUS
<1>1. k \in Nat /\ Len(g) \in Nat /\ Len(p) \in Nat
  OBVIOUS
<1>2. /\ Head(q) = q[1] /\ Len(q) \in Nat /\ Len(q) >= 1 /\ Len(Tail(q)) = Len(q) - 1
      /\ \A i \in 1..Len(Tail(q)) : Tail(q)[i] = q[i + 1]
  BY TiraOPrimeiro
<1>3. /\ Len(r) = Len(p) + 1 /\ r[Len(p) + 1] = Head(q)
      /\ \A i \in 1..Len(p) : r[i] = p[i]
  <2>1. Head(q) \in Linha
    OBVIOUS
  <2> QED
    BY <2>1
<1>4. /\ \A i \in 1..k : g[i] \in reenviados
      /\ \A i \in (k + 1)..Len(g) : g[i] \notin reenviados
      /\ k + Len(p) + Len(q) = Len(g)
      /\ \A i \in 1..Len(p) : p[i] = Inteira(g[k + i])
      /\ \A i \in 1..Len(q) : q[i] = Inteira(g[k + Len(p) + i])
  BY DEF Posicao
<1>5. k + Len(r) + Len(Tail(q)) = Len(g)
  BY <1>1, <1>2, <1>3, <1>4
<1>6. \A i \in 1..Len(r) : r[i] = Inteira(g[k + i])
  <2>1. \A i \in 1..Len(r) : i \in 1..Len(p) \/ i = Len(p) + 1
    BY <1>1, <1>3
  <2>2. r[Len(p) + 1] = Inteira(g[k + Len(p) + 1])
    BY <1>2, <1>3, <1>4
  <2>3. k + Len(p) + 1 = k + (Len(p) + 1)
    BY <1>1
  <2>4. r[Len(p) + 1] = Inteira(g[k + (Len(p) + 1)])
    BY <2>2, <2>3
  <2> QED
    BY <1>3, <1>4, <2>1, <2>4
<1>7. \A i \in 1..Len(Tail(q)) : Tail(q)[i] = Inteira(g[k + Len(r) + i])
  <2> SUFFICES ASSUME NEW i \in 1..Len(Tail(q)) PROVE Tail(q)[i] = Inteira(g[k + Len(r) + i])
    OBVIOUS
  <2>1. i + 1 \in 1..Len(q) /\ k + Len(r) + i = k + Len(p) + (i + 1)
    BY <1>1, <1>2, <1>3
  <2> QED
    BY <1>2, <1>4, <2>1
<1> QED
  BY <1>4, <1>5, <1>6, <1>7 DEF Posicao

(* Of what is not in the drainer's hands only an append disturbs the queue. *)
LEMMA PublicadorEmOrdem ==
  ASSUME IInv, EmOrdem, NEW e \in Eventos, Publicar(e), falhas' = falhas
  PROVE  EmOrdem'
<1>1. estado \in [Eventos -> Estados] /\ gravados \in Seq(Eventos) /\ Unicos /\ Turnos
  BY DEF IInv, Tipado, TipoEventos, EmOrdem
<1>2. /\ \A i \in 1..Len(gravados) : gravados[i] \in Eventos /\ estado[gravados[i]] = "aceito"
      /\ \A x \in Eventos : estado[x] = "gravando" => tranca = x
  BY <1>1 DEF Unicos
<1>3. CASE PublicaDireto(e)
  <2>1. UNCHANGED <<pendentes, working, lote, dreno, tranca, gravados, reenviados>>
    BY <1>3 DEF PublicaDireto, arquivos
  <2>2. \A x \in Eventos : /\ estado[x] = "aceito" => estado'[x] = "aceito"
                           /\ estado'[x] = "gravando" => estado[x] = "gravando"
    BY <1>1, <1>3 DEF PublicaDireto, BrokerRecusa
  <2>3. Turnos' /\ Aberto(pendentes)' = Aberto(pendentes) /\ Resto' = Resto
    BY <1>1, <2>1 DEF Turnos, Resto
  <2> QED
    BY <1>2, <2>1, <2>2, <2>3, ParadoEmOrdem
<1>4. CASE GravaComeca(e)
  <2>1. /\ UNCHANGED <<pendentes, working, lote, dreno, gravados, reenviados>>
        /\ tranca = Nada /\ tranca' = e /\ estado[e] = "buffer"
        /\ estado' = [estado EXCEPT ![e] = "gravando"]
    BY <1>4 DEF GravaComeca, arquivos
  <2>2. dreno = "ocioso" /\ \A x \in Eventos : estado[x] # "gravando"
    BY <1>1, <1>2, <2>1, NadaAssumption DEF Turnos
  <2>3. /\ \A i \in 1..Len(gravados) : estado'[gravados[i]] = "aceito"
        /\ \A x \in Eventos : estado'[x] = "gravando" => tranca' = x
    BY <1>1, <1>2, <2>1, <2>2
  <2>4. Turnos' /\ Aberto(pendentes)' = Aberto(pendentes) /\ Resto' = Resto
    BY <1>1, <2>1, <2>2 DEF Turnos, Resto
  <2> QED
    BY <2>1, <2>3, <2>4, ParadoEmOrdem
<1>5. CASE GravaConclui(e)
  BY <1>5, GravaEmOrdem
<1> QED
  BY <1>3, <1>4, <1>5 DEF Publicar

(* The first line left is sent, or goes back to the end of the pending file, which was taken
   away before: the order stays. *)
LEMMA EnviaEmOrdem ==
  ASSUME IInv, EmOrdem, DrenaPublica
  PROVE  EmOrdem'
<1>1. /\ dreno = "publica" /\ lote # <<>> /\ Unicos /\ Turnos /\ pendentes = Nada
      /\ UNCHANGED <<estado, pendentes, working, tranca, gravados>>
  BY DEF DrenaPublica, arquivos, EmOrdem, Turnos
<1>2. lote \in Seq(Linha) /\ gravados \in Seq(Eventos)
  BY <1>1, TiposDaFila
<1>3. Aberto(pendentes) = <<>> /\ Aberto(pendentes)' = <<>> /\ Resto = lote
  BY <1>1 DEF Aberto, Resto
<1>4. PICK k \in 0..Len(gravados) : Posicao(k, gravados, <<>>, lote)
  BY <1>3 DEF EmOrdem
<1>5. Head(lote).ok
  <2>1. <<>> \in Seq(Linha)
    OBVIOUS
  <2>2. \A i \in 1..Len(lote) : lote[i].ok
    BY <1>2, <1>4, <2>1, LinhasInteiras
  <2> QED
    BY <1>1, <1>2, <2>2, TiraOPrimeiro
<1>6. CASE dreno' = "devolve" /\ UNCHANGED <<lote, reenviados>>
  <2>1. Turnos' /\ Resto' = Resto
    BY <1>1, <1>6 DEF Turnos, Resto
  <2>2. /\ \A i \in 1..Len(gravados) : estado'[gravados[i]] = "aceito"
        /\ \A x \in Eventos : estado'[x] = "gravando" => tranca' = x
    BY <1>1 DEF Unicos
  <2> QED
    BY <1>1, <1>3, <1>6, <2>1, <2>2, ParadoEmOrdem
<1>7. CASE /\ reenviados' = reenviados \cup {EventoDe(Head(lote))}
           /\ lote' = Tail(lote) /\ UNCHANGED dreno
  <2>1. \A i, j \in 1..Len(gravados) : gravados[i] = gravados[j] => i = j
    BY <1>1 DEF Unicos
  <2> PICK g, q : g = gravados /\ q = lote
    OBVIOUS
  <2>2. /\ k + 1 \in 0..Len(g) /\ EventoDe(Head(q)) = g[k + 1]
        /\ Posicao(k + 1, g, <<>>, Tail(q))'
    BY <1>1, <1>2, <1>4, <1>7, <2>1, SaiOPrimeiro
  <2>3. Resto' = Tail(q)
    BY <1>1, <1>7 DEF Resto
  <2>4. Posicao(k + 1, gravados, Aberto(pendentes), Resto)'
    BY <1>1, <1>3, <2>2, <2>3 DEF Posicao
  <2>5. k + 1 \in 1..Len(gravados)
    BY <1>2, <2>2
  <2>6. Unicos'
    BY <1>1, <1>7, <2>2, <2>5 DEF Unicos
  <2>7. Turnos'
    BY <1>1, <1>7 DEF Turnos
  <2> QED
    BY <1>1, <2>2, <2>4, <2>6, <2>7 DEF EmOrdem
<1> QED
  BY <1>5, <1>6, <1>7 DEF DrenaPublica

LEMMA DevolveEmOrdem ==
  ASSUME IInv, EmOrdem, DrenaDevolve
  PROVE  EmOrdem'
<1>1. /\ dreno = "devolve" /\ lote # <<>> /\ Unicos /\ Turnos /\ lote' = Tail(lote)
      /\ UNCHANGED <<estado, working, tranca, dreno, gravados, reenviados>>
  BY DEF DrenaDevolve, EmOrdem
<1>2. lote \in Seq(Linha) /\ gravados \in Seq(Eventos) /\ Aberto(pendentes) \in Seq(Linha)
  BY <1>1, TiposDaFila
<1>3. PICK p : p = Aberto(pendentes)
  OBVIOUS
<1>4. PICK k \in 0..Len(gravados) : Posicao(k, gravados, p, lote)
  BY <1>1, <1>3 DEF EmOrdem, Resto
<1>5. /\ \A i \in 1..Len(p) : p[i].fim
      /\ \A i \in 1..Len(lote) : lote[i].ok
  BY <1>2, <1>3, <1>4, LinhasInteiras
<1>6. Head(lote) = Inteira(gravados[k + Len(p) + 1]) /\ gravados[k + Len(p) + 1] \in Eventos
  <2>1. /\ Head(lote) = lote[1] /\ 1 \in 1..Len(lote) /\ Len(lote) \in Nat /\ Len(p) \in Nat
    BY <1>1, <1>2, <1>3, TiraOPrimeiro
  <2>2. lote[1] = Inteira(gravados[k + Len(p) + 1]) /\ k + Len(p) + Len(lote) = Len(gravados)
    BY <1>4, <2>1 DEF Posicao
  <2>3. k + Len(p) + 1 \in 1..Len(gravados)
    BY <2>1, <2>2
  <2> QED
    BY <1>2, <2>1, <2>2, <2>3
<1>7. Head(lote).ok /\ Inteira(EventoDe(Head(lote))) = Head(lote)
  BY <1>6, EventoDaLinha
<1>8. pendentes' = Append(p, Head(lote)) /\ Append(p, Head(lote)) \in Seq(Linha)
  <2>1. Head(lote) \in Linha
    BY <1>1, <1>2
  <2>2. pendentes' = Acrescenta(pendentes, Head(lote))
    BY <1>7 DEF DrenaDevolve
  <2> QED
    BY <1>2, <1>3, <1>5, <2>1, <2>2, AcrescentaNoFim
<1>9. Aberto(pendentes)' = Append(p, Head(lote)) /\ Resto' = Tail(lote)
  <2>1. Aberto(Append(p, Head(lote))) = Append(p, Head(lote))
    BY <1>8, SequenciaAberta
  <2> QED
    BY <1>1, <1>8, <2>1 DEF Aberto, Resto
<1>10. Posicao(k, gravados, Append(p, Head(lote)), Tail(lote))
  BY <1>1, <1>2, <1>3, <1>4, VoltaOPrimeiro
<1>11. Posicao(k, gravados, Aberto(pendentes), Resto)'
  BY <1>1, <1>9, <1>10 DEF Posicao
<1>12. Unicos' /\ Turnos'
  BY <1>1 DEF Unicos, Turnos
<1> QED
  BY <1>1, <1>11, <1>12 DEF EmOrdem

(* The drainer's other steps take the whole file, or leave it when nothing is left. *)
LEMMA DrenoEmOrdem ==
  ASSUME IInv, EmOrdem, Drenar, falhas' = falhas
  PROVE  EmOrdem'
<1>1. /\ Unicos /\ Turnos /\ falhas \in Nat
      /\ working \in Arquivo /\ pendentes \in Arquivo /\ gravados \in Seq(Eventos)
  BY TiposDaFila DEF EmOrdem, IInv, Tipado, TipoLimites
<1>2. /\ \A i \in 1..Len(gravados) : estado[gravados[i]] = "aceito"
      /\ \A x \in Eventos : estado[x] = "gravando" => tranca = x
  BY <1>1 DEF Unicos
<1>3. CASE DrenaInicia
  <2>1. /\ dreno = "ocioso" /\ working = Nada /\ tranca = Nada
        /\ working' = pendentes /\ pendentes # Nada /\ pendentes' = Nada
        /\ tranca' = "drenador" /\ dreno' = "le"
        /\ UNCHANGED <<estado, gravados, reenviados>>
    BY <1>1, <1>3 DEF DrenaInicia, Turnos
  <2>2. \A x \in Eventos : estado[x] # "gravando"
    BY <1>2, <2>1, NadaAssumption
  <2>3. Turnos' /\ Aberto(pendentes)' = <<>> /\ Resto = <<>> /\ Resto' = Aberto(pendentes)
    BY <2>1 DEF Turnos, Aberto, Resto
  <2> QED
    BY <1>2, <2>1, <2>2, <2>3, ParadoEmOrdem
<1>4. CASE DrenaLe \/ DrenaIlegivel
  <2>1. dreno = "le" /\ pendentes = Nada
    BY <1>1, <1>4 DEF DrenaLe, DrenaIlegivel, Turnos
  <2>2. working \in Seq(Linha) /\ Resto = working /\ <<>> \in Seq(Linha) /\ Aberto(pendentes) = <<>>
    BY <1>1, <2>1 DEF Turnos, Arquivo, Resto, Aberto
  <2>3. PICK k \in 0..Len(gravados) : Posicao(k, gravados, <<>>, working)
    BY <2>2 DEF EmOrdem
  <2>4. \A i \in DOMAIN working : working[i].ok /\ working[i].utf
    <3>1. \A i \in 1..Len(working) : working[i].ok /\ working[i].utf
      BY <1>1, <2>2, <2>3, LinhasInteiras
    <3>2. DOMAIN working = 1..Len(working)
      BY <2>2
    <3> QED
      BY <3>1, <3>2
  <2>5. /\ dreno' = "publica" /\ lote' = working
        /\ UNCHANGED <<estado, pendentes, working, tranca, gravados, reenviados>>
    BY <1>4, <2>4 DEF DrenaLe, DrenaIlegivel, arquivos
  <2>6. Turnos' /\ Resto' = Resto /\ Aberto(pendentes)' = Aberto(pendentes)
    BY <1>1, <2>1, <2>2, <2>5 DEF Turnos, Resto
  <2> QED
    BY <1>2, <2>5, <2>6, ParadoEmOrdem
<1>5. CASE DrenaQuarentena
  BY <1>1, <1>5 DEF DrenaQuarentena, Turnos
<1>6. CASE DrenaAcaba
  <2>1. /\ dreno \in {"publica", "devolve"} /\ lote = <<>> /\ dreno' = "remove"
        /\ UNCHANGED <<estado, pendentes, working, tranca, gravados, reenviados>>
    BY <1>6 DEF DrenaAcaba, arquivos
  <2>2. Turnos' /\ Resto' = Resto /\ Aberto(pendentes)' = Aberto(pendentes)
    BY <1>1, <2>1 DEF Turnos, Resto
  <2> QED
    BY <1>2, <2>1, <2>2, ParadoEmOrdem
<1>7. CASE DrenaRemove
  <2>1. /\ dreno = "remove" /\ working' = Nada /\ dreno' = "ocioso" /\ tranca = "drenador"
        /\ UNCHANGED <<estado, pendentes, gravados, reenviados>>
    BY <1>1, <1>7 DEF DrenaRemove, FalhaIO, DrenoPara, Turnos
  <2>2. Turnos' /\ Resto' = Resto /\ Aberto(pendentes)' = Aberto(pendentes)
    BY <1>1, <2>1 DEF Turnos, Resto
  <2>3. \A x \in Eventos : estado[x] # "gravando"
    BY <1>2, <2>1, NadaAssumption
  <2> QED
    BY <1>2, <2>1, <2>2, <2>3, ParadoEmOrdem
<1>8. CASE DrenaFalha
  BY <1>1, <1>8 DEF DrenaFalha, FalhaIO
<1> QED
  BY <1>3, <1>4, <1>5, <1>6, <1>7, <1>8, EnviaEmOrdem, DevolveEmOrdem DEF Drenar

OrdemInv == IInv /\ (Sossego => EmOrdem)

LEMMA OrdemInicial == Init => EmOrdem
<1> SUFFICES ASSUME Init PROVE EmOrdem
  OBVIOUS
<1>1. Len(<<>>) = 0
  OBVIOUS
<1>2. gravados = <<>> /\ Aberto(pendentes) = <<>> /\ Resto = <<>>
  BY DEF Init, Aberto, Resto
<1>3. Posicao(0, <<>>, <<>>, <<>>)
  BY <1>1 DEF Posicao
<1>4. Unicos /\ Turnos
  BY <1>1 DEF Init, Unicos, Turnos
<1>5. 0 \in 0..Len(gravados)
  BY <1>1, <1>2
<1> QED
  BY <1>2, <1>3, <1>4, <1>5 DEF EmOrdem

LEMMA OrdemPreservadaNoPasso == OrdemInv /\ [Next]_vars => OrdemInv'
<1> SUFFICES ASSUME OrdemInv, [Next]_vars, Sossego' PROVE EmOrdem'
  BY IInvPreservado DEF OrdemInv
<1>1. IInv /\ quedas \in Nat /\ falhas \in Nat
  BY DEF OrdemInv, IInv, Tipado, TipoLimites
<1>2. CASE UNCHANGED vars
  <2>1. UNCHANGED <<estado, pendentes, working, tranca, dreno, lote, gravados, reenviados, falhas, quedas>>
    BY <1>2 DEF vars
  <2>2. IInv /\ EmOrdem
    BY <2>1 DEF OrdemInv, Sossego
  <2>3. Turnos' /\ Aberto(pendentes)' = Aberto(pendentes) /\ Resto' = Resto
    BY <2>1, <2>2 DEF EmOrdem, Turnos, Resto
  <2>4. /\ \A i \in 1..Len(gravados) : estado'[gravados[i]] = "aceito"
        /\ \A e \in Eventos : estado'[e] = "gravando" => tranca' = e
    BY <2>1, <2>2 DEF EmOrdem, Unicos
  <2> QED
    BY <2>1, <2>2, <2>3, <2>4, ParadoEmOrdem
<1>3. CASE \E e \in Eventos : Publicar(e)
  <2>1. PICK e \in Eventos : Publicar(e)
    BY <1>3
  <2>2. Sossego /\ falhas' = falhas
    BY <1>1, <2>1 DEF Publicar, PublicaDireto, GravaComeca, GravaConclui, FalhaIO, Sossego, limites
  <2> QED
    BY <1>1, <2>1, <2>2, PublicadorEmOrdem DEF OrdemInv
<1>4. CASE Drenar
  <2>1. Sossego /\ falhas' = falhas
    BY <1>1, <1>4 DEF Drenar, DrenaInicia, DrenaLe, DrenaIlegivel, DrenaQuarentena, DrenaPublica,
         DrenaDevolve, DrenaAcaba, DrenaRemove, DrenaFalha, FalhaIO, Sossego, limites
  <2> QED
    BY <1>1, <1>4, <2>1, DrenoEmOrdem DEF OrdemInv
<1>5. CASE Queda
  BY <1>1, <1>5 DEF Queda, Sossego
<1> QED
  BY <1>2, <1>3, <1>4, <1>5 DEF Next

LEMMA EmOrdemBasta == OrdemInv => OrdemPreservada
<1> SUFFICES ASSUME IInv, EmOrdem, NEW i \in DOMAIN gravados, NEW j \in DOMAIN gravados,
                    i < j, gravados[j] \in reenviados
             PROVE  gravados[i] \in reenviados
  BY DEF OrdemInv, OrdemPreservada, Sossego
<1>1. gravados \in Seq(Eventos)
  BY TiposDaFila DEF EmOrdem
<1>2. PICK k \in 0..Len(gravados) : Posicao(k, gravados, Aberto(pendentes), Resto)
  BY DEF EmOrdem
<1>3. /\ \A n \in 1..k : gravados[n] \in reenviados
      /\ \A n \in (k + 1)..Len(gravados) : gravados[n] \notin reenviados
  BY <1>2 DEF Posicao
<1>4. i \in 1..Len(gravados) /\ j \in 1..Len(gravados) /\ Len(gravados) \in Nat /\ k \in Nat
  BY <1>1
<1>5. j \in 1..k
  BY <1>3, <1>4
<1>6. i \in 1..k
  BY <1>4, <1>5
<1> QED
  BY <1>3, <1>6

(* As long as no disk operation failed and no process crashed, the drainer sends the events in the
   order in which they were buffered, for every number of events and of refusals: a refused event
   and those after it go back to the pending file in their order, and before any new one. *)
THEOREM OrdemPreservadaSempre == Spec => []OrdemPreservada
<1>1. Init => OrdemInv
  BY OrdemInicial, IInvInicial DEF OrdemInv
<1> QED
  BY <1>1, OrdemPreservadaNoPasso, EmOrdemBasta, PTL DEF Spec
=============================================================================
