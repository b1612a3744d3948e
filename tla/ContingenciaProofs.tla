-------------------------- MODULE ContingenciaProofs --------------------------
(***************************************************************************)
(* Proofs about the contingency buffer, for every set of events and every  *)
(* bound on refusals, failures, crashes and cut lines.                     *)
(***************************************************************************)
EXTENDS Contingencia, SequenceTheorems, FiniteSetTheorems, TLAPS

(* A line that parses is the line of one event. *)
BemFormada(l) == l \in Linha /\ (l.ok => \E e \in Eventos : l.evs = {e})
Linhas(s) == {s[i] : i \in DOMAIN s}

LEMMA InteiraBemFormada ==
  ASSUME NEW e \in Eventos
  PROVE  BemFormada(Inteira(e)) /\ Inteira(e).ok /\ Inteira(e).fim /\ Inteira(e).evs = {e}
BY DEF Inteira, BemFormada, Linha

LEMMA RasgadaBemFormada ==
  ASSUME NEW e \in Eventos, NEW ok \in BOOLEAN, NEW utf \in BOOLEAN
  PROVE  BemFormada(Rasgada(e, ok, utf)) /\ Rasgada(e, ok, utf).evs = {e}
BY DEF Rasgada, BemFormada, Linha

LEMMA ColadaBemFormada ==
  ASSUME NEW l \in Linha, NEW m \in Linha
  PROVE  BemFormada(Colada(l, m)) /\ Colada(l, m).evs = l.evs \cup m.evs
BY DEF Colada, BemFormada, Linha

LEMMA AbertoEhSequencia ==
  ASSUME NEW arq \in Arquivo
  PROVE  /\ Aberto(arq) \in Seq(Linha)
         /\ LinhasDe(arq) = Linhas(Aberto(arq))
BY ArquivoAssumption DEF Arquivo, Aberto, LinhasDe, Linhas

LEMMA SequenciaAberta ==
  ASSUME NEW s \in Seq(Linha)
  PROVE  s \in Arquivo /\ Aberto(s) = s /\ LinhasDe(s) = Linhas(s)
BY ArquivoAssumption DEF Arquivo, Aberto, LinhasDe, Linhas

(* What an append leaves in the file: a new last line, or the last line continued. *)
LEMMA OQueAcrescenta ==
  ASSUME NEW arq \in Arquivo, NEW l \in Linha
  PROVE  /\ Acrescenta(arq, l) \in Seq(Linha)
         /\ \/ Linhas(Acrescenta(arq, l)) = LinhasDe(arq) \cup {l}
            \/ \E u \in LinhasDe(arq) :
                 /\ ~u.fim
                 /\ Linhas(Acrescenta(arq, l)) \subseteq LinhasDe(arq) \cup {Colada(u, l)}
                 /\ LinhasDe(arq) \subseteq Linhas(Acrescenta(arq, l)) \cup {u}
                 /\ Colada(u, l) \in Linhas(Acrescenta(arq, l))
<1> DEFINE s == Aberto(arq)
           n == Len(s)
<1>1. s \in Seq(Linha) /\ LinhasDe(arq) = Linhas(s) /\ n \in Nat
  BY AbertoEhSequencia
<1>2. CASE n = 0 \/ s[n].fim
  <2>1. Acrescenta(arq, l) = Append(s, l)
    BY <1>2 DEF Acrescenta
  <2> HIDE DEF s
  <2>2. /\ Append(s, l) \in Seq(Linha)
        /\ DOMAIN Append(s, l) = DOMAIN s \cup {n + 1} /\ n + 1 \notin DOMAIN s
        /\ \A i \in DOMAIN s : Append(s, l)[i] = s[i]
        /\ Append(s, l)[n + 1] = l
    BY <1>1
  <2>3. Linhas(Append(s, l)) = Linhas(s) \cup {l}
    BY <2>2 DEF Linhas
  <2> QED
    BY <1>1, <2>1, <2>2, <2>3
<1>3. CASE ~(n = 0 \/ s[n].fim)
  <2>1. Acrescenta(arq, l) = [s EXCEPT ![n] = Colada(s[n], l)]
    BY <1>3 DEF Acrescenta
  <2>2. n \in DOMAIN s /\ s[n] \in Linha /\ ~s[n].fim /\ DOMAIN s = 1..n
    BY <1>1, <1>3
  <2>3. Colada(s[n], l) \in Linha
    BY <2>2, ColadaBemFormada DEF BemFormada
  <2> HIDE DEF s, n
  <2>4. [s EXCEPT ![n] = Colada(s[n], l)] \in Seq(Linha)
    BY <1>1, <2>2, <2>3
  <2>5. /\ Linhas([s EXCEPT ![n] = Colada(s[n], l)]) \subseteq Linhas(s) \cup {Colada(s[n], l)}
        /\ Linhas(s) \subseteq Linhas([s EXCEPT ![n] = Colada(s[n], l)]) \cup {s[n]}
        /\ Colada(s[n], l) \in Linhas([s EXCEPT ![n] = Colada(s[n], l)])
        /\ s[n] \in Linhas(s)
    BY <1>1, <2>2 DEF Linhas
  <2> DEFINE r == Acrescenta(arq, l)
             u == s[n]
  <2>6. /\ r \in Seq(Linha) /\ u \in LinhasDe(arq) /\ ~u.fim
        /\ Linhas(r) \subseteq LinhasDe(arq) \cup {Colada(u, l)}
        /\ LinhasDe(arq) \subseteq Linhas(r) \cup {u}
        /\ Colada(u, l) \in Linhas(r)
    BY <1>1, <2>1, <2>2, <2>4, <2>5
  <2> HIDE DEF r, u
  <2> QED
    BY <2>6, Zenon DEF r
<1> QED
  BY <1>2, <1>3

(* No byte in the file is lost by an append, and those of the new line are there. *)
LEMMA EventosAcrescentados ==
  ASSUME NEW arq \in Arquivo, NEW l \in Linha
  PROVE  EventosEm(Linhas(Acrescenta(arq, l))) = EventosEm(LinhasDe(arq)) \cup l.evs
<1>1. CASE Linhas(Acrescenta(arq, l)) = LinhasDe(arq) \cup {l}
  BY <1>1 DEF EventosEm
<1>2. ASSUME NEW u \in LinhasDe(arq),
             Linhas(Acrescenta(arq, l)) \subseteq LinhasDe(arq) \cup {Colada(u, l)},
             LinhasDe(arq) \subseteq Linhas(Acrescenta(arq, l)) \cup {u},
             Colada(u, l) \in Linhas(Acrescenta(arq, l))
      PROVE  EventosEm(Linhas(Acrescenta(arq, l))) = EventosEm(LinhasDe(arq)) \cup l.evs
  <2>1. Colada(u, l).evs = u.evs \cup l.evs
    BY DEF Colada
  <2> QED
    BY <1>2, <2>1 DEF EventosEm
<1> QED
  BY <1>1, <1>2, OQueAcrescenta

(* The lines stay well formed; and if no line was ever cut, each stays whole. *)
LEMMA LinhasAcrescentadas ==
  ASSUME NEW arq \in Arquivo, NEW l, BemFormada(l), \A m \in LinhasDe(arq) : BemFormada(m)
  PROVE  /\ \A m \in Linhas(Acrescenta(arq, l)) : BemFormada(m)
         /\ (l.ok /\ l.fim /\ \A m \in LinhasDe(arq) : m.ok /\ m.fim)
              => \A m \in Linhas(Acrescenta(arq, l)) : m.ok /\ m.fim
<1>1. l \in Linha /\ \A m \in LinhasDe(arq) : m \in Linha
  BY DEF BemFormada
<1>2. \A u \in LinhasDe(arq) : BemFormada(Colada(u, l))
  BY <1>1, ColadaBemFormada
<1> QED
  BY <1>1, <1>2, OQueAcrescenta

-----------------------------------------------------------------------------
(* TypeOK, split by what the actions touch together, with what it says of the lines. *)
TipoArquivos ==
  /\ pendentes \in Arquivo /\ working \in Arquivo /\ lote \in Seq(Linha) /\ corrompidos \subseteq Linha
  /\ \A l \in LinhasDe(pendentes) \cup LinhasDe(working) \cup Linhas(lote) : BemFormada(l)
TipoEventos ==
  /\ estado \in [Eventos -> Estados] /\ entregues \subseteq Eventos
  /\ tranca \in Eventos \cup {"drenador", Nada} /\ dreno \in FasesDreno
  /\ gravados \in Seq(Eventos) /\ reenviados \subseteq Eventos
TipoLimites ==
  /\ recusas \in 0..MaxRecusas /\ falhas \in 0..MaxFalhas
  /\ quedas \in 0..MaxQuedas /\ rasgos \in 0..MaxRasgos
Tipado == TipoArquivos /\ TipoEventos /\ TipoLimites

(* What the drainer has read from .working and not yet sent, quarantined or written back is in
   lote: when it removes the file nothing else is in it. *)
DrenoSeguro ==
  /\ dreno # "ocioso" => working # Nada
  /\ dreno = "quarentena" => lote = working
  /\ dreno \in {"publica", "devolve"} =>
       /\ \A l \in Linhas(lote) : ~l.ok => l \in corrompidos
       /\ EventosEm(LinhasDe(working)) \subseteq
            entregues \cup EventosEm(corrompidos) \cup EventosEm(LinhasDe(pendentes)) \cup EventosEm(Linhas(lote))
  /\ dreno = "remove" =>
       EventosEm(LinhasDe(working)) \subseteq
         entregues \cup EventosEm(corrompidos) \cup EventosEm(LinhasDe(pendentes))

(* While no append was cut, every line of the three is whole and none was quarantined. *)
SoInteiras ==
  rasgos = 0 =>
    /\ \A l \in LinhasDe(pendentes) \cup LinhasDe(working) \cup Linhas(lote) : l.ok /\ l.fim
    /\ corrompidos = {}

IInv == Tipado /\ DrenoSeguro /\ SoInteiras /\ NadaSePerde

(* Everything that is somewhere. *)
Retidos ==
  entregues \cup EventosEm(LinhasDe(pendentes)) \cup EventosEm(LinhasDe(working)) \cup EventosEm(corrompidos)

LEMMA NadaSePerdeRetido == NadaSePerde <=> aceitos \subseteq Retidos
<1> DEFINE P == LinhasDe(pendentes)
           W == LinhasDe(working)
<1> HIDE DEF P, W
<1>1. EventosEm((P \cup W) \cup corrompidos) = (EventosEm(P) \cup EventosEm(W)) \cup EventosEm(corrompidos)
  BY DEF EventosEm
<1> QED
  BY <1>1, Zenon DEF NadaSePerde, Retidos, P, W

(* A write to the pending file, whole or not. *)
PendentesCrescem ==
  /\ pendentes' \in Arquivo
  /\ \A l \in LinhasDe(pendentes') : BemFormada(l)
  /\ EventosEm(LinhasDe(pendentes)) \subseteq EventosEm(LinhasDe(pendentes'))
  /\ rasgos' = 0 /\ (\A l \in LinhasDe(pendentes) : l.ok /\ l.fim)
       => \A l \in LinhasDe(pendentes') : l.ok /\ l.fim

LEMMA EscritaDeLinha ==
  ASSUME TipoArquivos, NEW l, BemFormada(l), rasgos' = 0 => l.ok /\ l.fim,
         pendentes' = Acrescenta(pendentes, l)
  PROVE  PendentesCrescem /\ l.evs \subseteq EventosEm(LinhasDe(pendentes'))
<1>1. pendentes \in Arquivo /\ l \in Linha /\ \A m \in LinhasDe(pendentes) : BemFormada(m)
  BY DEF TipoArquivos, BemFormada
<1>2. pendentes' \in Seq(Linha)
  BY <1>1, OQueAcrescenta
<1>3. pendentes' \in Arquivo /\ LinhasDe(pendentes') = Linhas(pendentes')
  BY <1>2, SequenciaAberta
<1>4. EventosEm(LinhasDe(pendentes')) = EventosEm(LinhasDe(pendentes)) \cup l.evs
  BY <1>1, <1>3, EventosAcrescentados
<1> QED
  BY <1>1, <1>3, <1>4, LinhasAcrescentadas DEF PendentesCrescem

LEMMA PendentesParados ==
  ASSUME TipoArquivos, pendentes' \in {pendentes, Aberto(pendentes)}
  PROVE  PendentesCrescem
<1>1. pendentes \in Arquivo /\ Aberto(pendentes) \in Seq(Linha)
  BY AbertoEhSequencia DEF TipoArquivos
<1>2. pendentes' \in Arquivo /\ LinhasDe(pendentes') = LinhasDe(pendentes)
  BY <1>1, AbertoEhSequencia, SequenciaAberta
<1> QED
  BY <1>2 DEF PendentesCrescem, TipoArquivos

LEMMA EscritaCortadaCresce ==
  ASSUME TipoArquivos, TipoLimites, NEW e \in Eventos, EscritaCortada(e)
  PROVE  PendentesCrescem /\ rasgos' \in 0..MaxRasgos /\ (rasgos' = 0 => rasgos = 0)
<1>1. rasgos' \in 0..MaxRasgos /\ (rasgos' = 0 => rasgos = 0)
  BY LimitesAssumption DEF EscritaCortada, TipoLimites
<1>2. CASE pendentes' \in {pendentes, Aberto(pendentes)}
  BY <1>1, <1>2, PendentesParados
<1>3. CASE pendentes' = Acrescenta(pendentes, Inteira(e))
  BY <1>1, <1>3, InteiraBemFormada, EscritaDeLinha
<1>4. ASSUME NEW ok \in BOOLEAN, NEW utf \in BOOLEAN,
             pendentes' = Acrescenta(pendentes, Rasgada(e, ok, utf)), rasgos' = rasgos + 1
      PROVE  PendentesCrescem
  <2>1. rasgos' # 0
    BY <1>4, LimitesAssumption DEF TipoLimites
  <2> QED
    BY <1>4, <2>1, RasgadaBemFormada, EscritaDeLinha
<1> QED
  BY <1>1, <1>2, <1>3, <1>4 DEF EscritaCortada

(* The head of the batch and what is left after it. *)
LEMMA CabecaDoLote ==
  ASSUME TipoArquivos, lote # <<>>
  PROVE  /\ BemFormada(Head(lote)) /\ Head(lote) \in Linhas(lote)
         /\ Tail(lote) \in Seq(Linha) /\ Linhas(lote) = {Head(lote)} \cup Linhas(Tail(lote))
         /\ Head(lote).ok => EventoDe(Head(lote)) \in Eventos /\ Head(lote).evs = {EventoDe(Head(lote))}
<1>1. lote \in Seq(Linha) /\ \A l \in Linhas(lote) : BemFormada(l)
  BY DEF TipoArquivos
<1>2. /\ Tail(lote) \in Seq(Linha) /\ Len(Tail(lote)) = Len(lote) - 1 /\ Len(lote) \in Nat
      /\ DOMAIN lote = 1..Len(lote) /\ DOMAIN Tail(lote) = 1..(Len(lote) - 1) /\ 1 \in DOMAIN lote
      /\ \A i \in 1..(Len(lote) - 1) : Tail(lote)[i] = lote[i + 1]
      /\ Head(lote) = lote[1]
  BY <1>1
<1>3. Head(lote) \in Linhas(lote) /\ BemFormada(Head(lote))
  BY <1>1, <1>2 DEF Linhas
<1>4. Linhas(lote) = {Head(lote)} \cup Linhas(Tail(lote))
  <2>1. ASSUME NEW l \in Linhas(lote) PROVE l = Head(lote) \/ l \in Linhas(Tail(lote))
    <3>1. PICK i \in DOMAIN lote : l = lote[i]
      BY DEF Linhas
    <3>2. CASE i = 1
      BY <1>2, <3>1, <3>2
    <3>3. CASE i # 1
      <4>1. i - 1 \in DOMAIN Tail(lote) /\ Tail(lote)[i - 1] = lote[i]
        BY <1>2, <3>3
      <4> QED
        BY <3>1, <4>1 DEF Linhas
    <3> QED
      BY <3>2, <3>3
  <2>2. ASSUME NEW l \in Linhas(Tail(lote)) PROVE l \in Linhas(lote)
    <3>1. PICK i \in DOMAIN Tail(lote) : l = Tail(lote)[i]
      BY DEF Linhas
    <3>2. i + 1 \in DOMAIN lote /\ l = lote[i + 1]
      BY <1>2, <3>1
    <3> QED
      BY <3>2 DEF Linhas
  <2> QED
    BY <1>3, <2>1, <2>2
<1>5. Head(lote).ok => EventoDe(Head(lote)) \in Eventos /\ Head(lote).evs = {EventoDe(Head(lote))}
  BY <1>3 DEF BemFormada, EventoDe
<1> QED
  BY <1>2, <1>3, <1>4, <1>5

-----------------------------------------------------------------------------
(* Steps that only add to the files, or give up the batch. *)
LEMMA ArquivosCrescem ==
  ASSUME Tipado, DrenoSeguro, SoInteiras, PendentesCrescem, working' = working,
         lote' \in Seq(Linha), Linhas(lote') \subseteq Linhas(lote),
         entregues \subseteq entregues', corrompidos \subseteq corrompidos', corrompidos' \subseteq Linha,
         rasgos' = 0 => rasgos = 0 /\ corrompidos' = {}
  PROVE  /\ TipoArquivos' /\ SoInteiras' /\ Retidos \subseteq Retidos'
         /\ EventosEm(corrompidos) \subseteq EventosEm(corrompidos')
         /\ lote' = lote /\ dreno' = dreno => DrenoSeguro'
         /\ dreno' = "ocioso" => DrenoSeguro'
<1>1. TipoArquivos'
  BY DEF Tipado, TipoArquivos, PendentesCrescem
<1>2. SoInteiras'
  BY DEF SoInteiras, PendentesCrescem
<1>3. EventosEm(corrompidos) \subseteq EventosEm(corrompidos')
  BY DEF EventosEm
<1>4. Retidos \subseteq Retidos'
  BY <1>3 DEF Retidos, PendentesCrescem
<1>5. ASSUME lote' = lote, dreno' = dreno PROVE DrenoSeguro'
  BY <1>3, <1>5 DEF DrenoSeguro, PendentesCrescem
<1>6. ASSUME dreno' = "ocioso" PROVE DrenoSeguro'
  BY <1>6 DEF DrenoSeguro
<1> QED
  BY <1>1, <1>2, <1>3, <1>4, <1>5, <1>6

LEMMA LoteVazio == <<>> \in Seq(Linha) /\ Linhas(<<>>) = {}
BY DEF Linhas

LEMMA EventosELimites ==
  ASSUME Tipado, Next
  PROVE  TipoEventos' /\ TipoLimites'
<1> USE DEF Tipado, TipoEventos, Estados, FasesDreno
<1>1. ASSUME NEW e \in Eventos, Publicar(e) PROVE TipoEventos' /\ TipoLimites'
  <2>1. CASE PublicaDireto(e)
    BY <2>1, LimitesAssumption DEF PublicaDireto, BrokerRecusa, TipoLimites
  <2>2. CASE GravaComeca(e)
    BY <2>2 DEF GravaComeca, limites, TipoLimites
  <2>3. CASE GravaConclui(e)
    <3>1. TipoEventos'
      BY <2>3 DEF GravaConclui
    <3>2. rasgos' \in 0..MaxRasgos
      BY <2>3, EscritaCortadaCresce DEF GravaConclui, TipoLimites
    <3>3. TipoLimites'
      BY <2>3, <3>2, LimitesAssumption DEF GravaConclui, FalhaIO, TipoLimites
    <3> QED
      BY <3>1, <3>3
  <2> QED
    BY <1>1, <2>1, <2>2, <2>3 DEF Publicar
<1>2. CASE DrenaInicia \/ DrenaLe \/ DrenaQuarentena \/ DrenaDevolve \/ DrenaAcaba
  BY <1>2 DEF DrenaInicia, DrenaLe, DrenaQuarentena, DrenaDevolve, DrenaAcaba, limites, TipoLimites
<1>3. CASE DrenaPublica
  <2>1. lote # <<>> /\ (Head(lote).ok => EventoDe(Head(lote)) \in Eventos)
    BY <1>3, CabecaDoLote DEF DrenaPublica
  <2>2. TipoEventos'
    BY <1>3, <2>1 DEF DrenaPublica, BrokerRecusa
  <2>3. TipoLimites'
    BY <1>3, LimitesAssumption DEF DrenaPublica, BrokerRecusa, TipoLimites
  <2> QED
    BY <2>2, <2>3
<1>4. CASE DrenaIlegivel \/ DrenaRemove
  BY <1>4, LimitesAssumption DEF DrenaIlegivel, DrenaRemove, DrenoPara, FalhaIO, TipoLimites, limites
<1>5. CASE DrenaFalha
  <2>1. rasgos' \in 0..MaxRasgos
    BY <1>5, CabecaDoLote, EscritaCortadaCresce DEF DrenaFalha, TipoLimites
  <2> QED
    BY <1>5, <2>1, LimitesAssumption DEF DrenaFalha, DrenoPara, FalhaIO, TipoLimites
<1>6. CASE Queda
  <2>1. rasgos' \in 0..MaxRasgos
    BY <1>6, CabecaDoLote, EscritaCortadaCresce DEF Queda, TipoLimites
  <2>2. TipoEventos'
    BY <1>6 DEF Queda, DrenoPara
  <2>3. TipoLimites'
    BY <1>6, <2>1, LimitesAssumption DEF Queda, TipoLimites
  <2> QED
    BY <2>2, <2>3
<1> QED
  BY <1>1, <1>2, <1>3, <1>4, <1>5, <1>6 DEF Next, Drenar

(* What a step owes the rest: the files typed, the drain safe, and nothing lost. *)
PassoSeguro == TipoArquivos' /\ DrenoSeguro' /\ SoInteiras' /\ Retidos \subseteq Retidos'

LEMMA PublicadorSeguro ==
  ASSUME Tipado, DrenoSeguro, SoInteiras, NEW e \in Eventos, Publicar(e)
  PROVE  /\ PassoSeguro
         /\ estado'[e] = "aceito" /\ estado[e] # "aceito" => e \in Retidos'
         /\ \A f \in Eventos : f # e => estado'[f] = estado[f]
<1>1. TipoArquivos /\ TipoLimites
  BY DEF Tipado
<1>2. \A f \in Eventos : f # e => estado'[f] = estado[f]
  BY DEF Publicar, PublicaDireto, GravaComeca, GravaConclui, Tipado, TipoEventos
<1>3. UNCHANGED <<working, corrompidos, lote, dreno>> /\ entregues \subseteq entregues'
  BY DEF Publicar, PublicaDireto, BrokerRecusa, GravaComeca, GravaConclui, arquivos
<1>4. ASSUME PendentesCrescem, rasgos' = 0 => rasgos = 0 PROVE PassoSeguro
  BY <1>1, <1>3, <1>4, ArquivosCrescem DEF PassoSeguro, TipoArquivos, SoInteiras
<1>5. CASE PublicaDireto(e)
  <2>1. pendentes' = pendentes /\ rasgos' = rasgos
    BY <1>5 DEF PublicaDireto, arquivos
  <2>2. PendentesCrescem
    BY <1>1, <2>1, PendentesParados
  <2>3. estado'[e] = "aceito" => e \in entregues'
    BY <1>5 DEF PublicaDireto, Tipado, TipoEventos
  <2> QED
    BY <1>2, <1>4, <2>1, <2>2, <2>3 DEF Retidos
<1>6. CASE GravaComeca(e)
  <2>1. pendentes' = pendentes /\ rasgos' = rasgos /\ estado'[e] = "gravando"
    BY <1>6 DEF GravaComeca, arquivos, limites, Tipado, TipoEventos
  <2>2. PendentesCrescem
    BY <1>1, <2>1, PendentesParados
  <2> QED
    BY <1>2, <1>4, <2>1, <2>2
<1>7. CASE GravaConclui(e)
  <2>1. CASE pendentes' = Acrescenta(pendentes, Inteira(e)) /\ UNCHANGED <<falhas, rasgos>>
    <3>1. PendentesCrescem /\ e \in EventosEm(LinhasDe(pendentes'))
      BY <1>1, <2>1, InteiraBemFormada, EscritaDeLinha
    <3> QED
      BY <1>2, <1>4, <2>1, <3>1 DEF Retidos
  <2>2. CASE EscritaCortada(e) /\ estado' = [estado EXCEPT ![e] = "recusado"]
    <3>1. PendentesCrescem /\ (rasgos' = 0 => rasgos = 0)
      BY <1>1, <2>2, EscritaCortadaCresce
    <3>2. estado'[e] # "aceito"
      BY <2>2 DEF Tipado, TipoEventos
    <3> QED
      BY <1>2, <1>4, <3>1, <3>2
  <2> QED
    BY <1>7, <2>1, <2>2 DEF GravaConclui
<1> QED
  BY <1>5, <1>6, <1>7 DEF Publicar

(* A crash, and a drain that stops at an error, leave the files as they are or add to them. *)
LEMMA ParadaSegura ==
  ASSUME Tipado, DrenoSeguro, SoInteiras, DrenaIlegivel \/ DrenaFalha \/ Queda
  PROVE  PassoSeguro
<1>1. TipoArquivos /\ TipoLimites
  BY DEF Tipado
<1>2. UNCHANGED <<working, corrompidos, entregues>> /\ lote' = <<>> /\ dreno' = "ocioso"
  BY DEF DrenaIlegivel, DrenaFalha, Queda, DrenoPara, arquivos
<1>3. PendentesCrescem /\ (rasgos' = 0 => rasgos = 0)
  <2>1. CASE UNCHANGED <<pendentes, rasgos>>
    BY <1>1, <2>1, PendentesParados
  <2>2. ASSUME NEW e \in Eventos, EscritaCortada(e) PROVE PendentesCrescem /\ (rasgos' = 0 => rasgos = 0)
    BY <1>1, <2>2, EscritaCortadaCresce
  <2> QED
    BY <1>1, <2>1, <2>2, CabecaDoLote DEF DrenaIlegivel, DrenaFalha, Queda, arquivos, limites
<1> QED
  BY <1>1, <1>2, <1>3, LoteVazio, ArquivosCrescem DEF PassoSeguro, TipoArquivos, SoInteiras

LEMMA DrenoSemPerda ==
  ASSUME Tipado, DrenoSeguro, SoInteiras,
         DrenaInicia \/ DrenaLe \/ DrenaQuarentena \/ DrenaPublica \/ DrenaDevolve \/ DrenaAcaba \/ DrenaRemove
  PROVE  PassoSeguro
<1>1. TipoArquivos /\ TipoLimites
  BY DEF Tipado
<1>2. CASE DrenaInicia
  <2>1. /\ UNCHANGED <<entregues, corrompidos, lote, rasgos>> /\ dreno' = "le" /\ pendentes # Nada
        /\ \/ working = Nada /\ working' = pendentes /\ pendentes' = Nada
           \/ working # Nada /\ UNCHANGED <<working, pendentes>>
    BY <1>2 DEF DrenaInicia, limites
  <2>2. Nada \in Arquivo /\ LinhasDe(Nada) = {}
    BY DEF Arquivo, LinhasDe, Aberto
  <2>3. EventosEm({}) = {}
    BY DEF EventosEm
  <2>4. TipoArquivos' /\ SoInteiras'
    BY <1>1, <2>1, <2>2 DEF TipoArquivos, SoInteiras
  <2>5. Retidos \subseteq Retidos'
    BY <2>1, <2>2, <2>3 DEF Retidos
  <2>6. DrenoSeguro'
    BY <2>1 DEF DrenoSeguro
  <2> QED
    BY <2>4, <2>5, <2>6 DEF PassoSeguro
<1>3. CASE DrenaLe
  <2>1. /\ UNCHANGED <<entregues, corrompidos, pendentes, working, rasgos>>
        /\ lote' = working /\ dreno = "le"
        /\ dreno' = IF \A i \in DOMAIN working : working[i].ok THEN "publica" ELSE "quarentena"
    BY <1>3 DEF DrenaLe, arquivos, limites
  <2>2. working \in Seq(Linha)
    BY <1>1, <2>1 DEF DrenoSeguro, TipoArquivos, Arquivo
  <2>3. LinhasDe(working) = Linhas(working)
    BY <2>2, SequenciaAberta
  <2>4. TipoArquivos' /\ SoInteiras' /\ Retidos \subseteq Retidos'
    BY <1>1, <2>1, <2>2, <2>3 DEF TipoArquivos, SoInteiras, Retidos
  <2>5. dreno' = "publica" => \A l \in Linhas(working) : l.ok
    BY <2>1 DEF Linhas
  <2>6. DrenoSeguro'
    BY <2>1, <2>3, <2>5 DEF DrenoSeguro
  <2> QED
    BY <2>4, <2>6 DEF PassoSeguro
<1>4. CASE DrenaQuarentena
  <2>1. /\ UNCHANGED <<entregues, pendentes, working, lote, rasgos>> /\ dreno' = "publica" /\ lote = working
        /\ corrompidos' = corrompidos \cup {lote[i] : i \in {j \in DOMAIN lote : ~lote[j].ok}}
    BY <1>4 DEF DrenaQuarentena, DrenoSeguro, limites
  <2>2. /\ corrompidos \subseteq corrompidos' /\ corrompidos' \subseteq Linha
        /\ \A l \in Linhas(lote) : ~l.ok => l \in corrompidos'
    BY <1>1, <2>1 DEF TipoArquivos, Linhas
  <2>3. PendentesCrescem
    BY <1>1, <2>1, PendentesParados
  <2>4. TipoArquivos' /\ SoInteiras' /\ Retidos \subseteq Retidos'
    <3>1. rasgos' = 0 => corrompidos' = {}
      BY <2>1 DEF SoInteiras, Linhas
    <3> QED
      BY <1>1, <2>1, <2>2, <2>3, <3>1, ArquivosCrescem DEF TipoArquivos
  <2>5. working # Nada /\ LinhasDe(working) = Linhas(lote)
    BY <1>1, <1>4, <2>1, SequenciaAberta DEF TipoArquivos, DrenoSeguro, DrenaQuarentena
  <2>6. DrenoSeguro'
    BY <2>1, <2>2, <2>5 DEF DrenoSeguro
  <2> QED
    BY <2>4, <2>6 DEF PassoSeguro
<1>5. CASE DrenaPublica
  <2> DEFINE h == Head(lote)
  <2>1. dreno = "publica" /\ lote # <<>> /\ UNCHANGED <<pendentes, working, corrompidos, rasgos>>
    BY <1>5 DEF DrenaPublica, arquivos
  <2>2. /\ BemFormada(h) /\ h \in Linhas(lote) /\ Tail(lote) \in Seq(Linha)
        /\ Linhas(lote) = {h} \cup Linhas(Tail(lote))
        /\ h.ok => h.evs = {EventoDe(h)}
    BY <1>1, <2>1, CabecaDoLote
  <2>3. /\ entregues \subseteq entregues'
        /\ \/ ~h.ok /\ lote' = Tail(lote) /\ dreno' = dreno
           \/ h.ok /\ EventoDe(h) \in entregues' /\ lote' = Tail(lote) /\ dreno' = dreno
           \/ lote' = lote /\ dreno' = "devolve"
    BY <1>5 DEF DrenaPublica, BrokerRecusa
  <2> HIDE DEF h
  <2>4. PendentesCrescem
    BY <1>1, <2>1, PendentesParados
  <2>5. TipoArquivos' /\ SoInteiras' /\ Retidos \subseteq Retidos'
    BY <1>1, <2>1, <2>2, <2>3, <2>4, ArquivosCrescem DEF TipoArquivos, SoInteiras
  <2>6. \A l \in Linhas(lote) : ~l.ok => l \in corrompidos
    BY <2>1 DEF DrenoSeguro
  <2>7. EventosEm(Linhas(lote)) \subseteq entregues' \cup EventosEm(corrompidos) \cup EventosEm(Linhas(lote'))
    BY <2>2, <2>3, <2>6 DEF EventosEm
  <2>8. DrenoSeguro'
    BY <2>1, <2>2, <2>3, <2>6, <2>7 DEF DrenoSeguro
  <2> QED
    BY <2>5, <2>8 DEF PassoSeguro
<1>6. CASE DrenaDevolve
  <2> DEFINE h == Head(lote)
  <2>1. /\ dreno = "devolve" /\ dreno' = "devolve" /\ lote # <<>> /\ lote' = Tail(lote)
        /\ UNCHANGED <<entregues, working, corrompidos, rasgos>>
        /\ \/ h.ok /\ pendentes' = Acrescenta(pendentes, Inteira(EventoDe(h)))
           \/ ~h.ok /\ pendentes' = pendentes
    BY <1>6 DEF DrenaDevolve, limites
  <2>2. /\ BemFormada(h) /\ h \in Linhas(lote) /\ Tail(lote) \in Seq(Linha)
        /\ Linhas(lote) = {h} \cup Linhas(Tail(lote))
        /\ h.ok => EventoDe(h) \in Eventos /\ h.evs = {EventoDe(h)}
    BY <1>1, <2>1, CabecaDoLote
  <2> HIDE DEF h
  <2>3. PendentesCrescem /\ (h.ok => h.evs \subseteq EventosEm(LinhasDe(pendentes')))
    <3>1. CASE h.ok
      BY <1>1, <2>1, <2>2, <3>1, InteiraBemFormada, EscritaDeLinha
    <3>2. CASE ~h.ok
      BY <1>1, <2>1, <3>2, PendentesParados
    <3> QED
      BY <3>1, <3>2
  <2>4. TipoArquivos' /\ SoInteiras' /\ Retidos \subseteq Retidos'
    BY <1>1, <2>1, <2>2, <2>3, ArquivosCrescem DEF TipoArquivos, SoInteiras
  <2>5. \A l \in Linhas(lote) : ~l.ok => l \in corrompidos
    BY <2>1 DEF DrenoSeguro
  <2>6. EventosEm(Linhas(lote)) \subseteq
          EventosEm(corrompidos) \cup EventosEm(LinhasDe(pendentes')) \cup EventosEm(Linhas(lote'))
    <3>1. EventosEm(Linhas(lote)) = h.evs \cup EventosEm(Linhas(lote'))
      BY <2>1, <2>2 DEF EventosEm
    <3>2. ~h.ok => h.evs \subseteq EventosEm(corrompidos)
      BY <2>2, <2>5 DEF EventosEm
    <3> QED
      BY <2>3, <3>1, <3>2
  <2>7. DrenoSeguro'
    BY <2>1, <2>2, <2>3, <2>5, <2>6 DEF DrenoSeguro, PendentesCrescem
  <2> QED
    BY <2>4, <2>7 DEF PassoSeguro
<1>7. CASE DrenaAcaba
  <2>1. /\ UNCHANGED <<entregues, pendentes, working, corrompidos, lote, rasgos>>
        /\ lote = <<>> /\ dreno \in {"publica", "devolve"} /\ dreno' = "remove"
    BY <1>7 DEF DrenaAcaba, arquivos, limites
  <2>2. EventosEm(Linhas(lote)) = {}
    BY <2>1, LoteVazio DEF EventosEm
  <2>3. TipoArquivos' /\ SoInteiras' /\ Retidos \subseteq Retidos'
    BY <1>1, <2>1 DEF TipoArquivos, SoInteiras, Retidos
  <2>4. DrenoSeguro'
    BY <2>1, <2>2 DEF DrenoSeguro
  <2> QED
    BY <2>3, <2>4 DEF PassoSeguro
<1>8. CASE DrenaRemove
  <2>1. /\ UNCHANGED <<entregues, pendentes, corrompidos, rasgos>> /\ dreno = "remove"
        /\ lote' = <<>> /\ dreno' = "ocioso" /\ working' \in {working, Nada}
    BY <1>8 DEF DrenaRemove, DrenoPara
  <2>2. Nada \in Arquivo /\ LinhasDe(Nada) = {}
    BY DEF Arquivo, LinhasDe, Aberto
  <2>3. TipoArquivos' /\ SoInteiras'
    BY <1>1, <2>1, <2>2, LoteVazio DEF TipoArquivos, SoInteiras
  <2>4. Retidos \subseteq Retidos'
    BY <2>1 DEF DrenoSeguro, Retidos
  <2>5. DrenoSeguro'
    BY <2>1 DEF DrenoSeguro
  <2> QED
    BY <2>3, <2>4, <2>5 DEF PassoSeguro
<1> QED
  BY <1>2, <1>3, <1>4, <1>5, <1>6, <1>7, <1>8

LEMMA IInvInicial == Init => IInv
<1> SUFFICES ASSUME Init PROVE IInv
  OBVIOUS
<1>1. LinhasDe(Nada) = {} /\ Nada \in Arquivo
  BY DEF LinhasDe, Aberto, Arquivo
<1>2. TipoArquivos /\ SoInteiras
  BY <1>1, LoteVazio DEF Init, TipoArquivos, SoInteiras
<1>3. TipoEventos
  BY DEF Init, TipoEventos, Estados, FasesDreno
<1>4. TipoLimites
  BY LimitesAssumption DEF Init, TipoLimites
<1>5. DrenoSeguro
  BY DEF Init, DrenoSeguro
<1>6. NadaSePerde
  BY DEF Init, NadaSePerde, aceitos
<1> QED
  BY <1>2, <1>3, <1>4, <1>5, <1>6 DEF IInv, Tipado

LEMMA IInvPreservado == IInv /\ [Next]_vars => IInv'
<1> SUFFICES ASSUME IInv, [Next]_vars PROVE IInv'
  OBVIOUS
<1>1. Tipado /\ DrenoSeguro /\ SoInteiras /\ aceitos \subseteq Retidos
  BY NadaSePerdeRetido DEF IInv
<1>2. CASE UNCHANGED vars
  BY <1>2 DEF vars, IInv, Tipado, TipoArquivos, TipoEventos, TipoLimites, DrenoSeguro, SoInteiras,
         NadaSePerde, aceitos
<1>3. CASE Next
  <2>1. TipoEventos' /\ TipoLimites'
    BY <1>1, <1>3, EventosELimites
  <2>2. ASSUME PassoSeguro, aceitos' \subseteq aceitos \cup Retidos' PROVE IInv'
    <3>1. (aceitos \subseteq Retidos)'
      BY <1>1, <2>2 DEF PassoSeguro
    <3>2. NadaSePerde'
      BY <3>1, NadaSePerdeRetido, PTL
    <3> QED
      BY <2>1, <2>2, <3>2 DEF PassoSeguro, IInv, Tipado
  <2>3. ASSUME NEW e \in Eventos, Publicar(e) PROVE IInv'
    <3>1. PassoSeguro /\ aceitos' \subseteq aceitos \cup Retidos'
      BY <1>1, <2>3, PublicadorSeguro DEF aceitos
    <3> QED
      BY <2>2, <3>1
  <2>4. CASE Drenar \/ Queda
    <3>1. PassoSeguro
      BY <1>1, <2>4, DrenoSemPerda, ParadaSegura DEF Drenar
    <3>2. aceitos' \subseteq aceitos
      BY <2>4 DEF Drenar, DrenaInicia, DrenaLe, DrenaIlegivel, DrenaQuarentena, DrenaPublica,
         DrenaDevolve, DrenaAcaba,
         DrenaRemove, DrenaFalha, Queda, aceitos
    <3> QED
      BY <2>2, <3>1, <3>2
  <2> QED
    BY <1>3, <2>3, <2>4 DEF Next
<1> QED
  BY <1>2, <1>3

(* The invariant holds through every interleaving, refusal, failure, cut line and crash. *)
THEOREM InvarianteDoBuffer == Spec => []IInv
BY IInvInicial, IInvPreservado, PTL DEF Spec

(* Every variable of the buffer keeps a value of its kind, and every line that parses is the line
   of one event: two lines run together are never taken for one. *)
THEOREM TeoTypeOK == Spec => []TypeOK
<1>1. Tipado => TypeOK
  BY DEF Tipado, TipoArquivos, TipoEventos, TipoLimites, BemFormada, TypeOK
<1> QED
  BY InvarianteDoBuffer, <1>1, PTL DEF IInv

(* No byte of an event that publicar() accepted is thrown away before the broker has the event
   (gravar_no_buffer, drenar_internamente). *)
THEOREM TeoNadaSePerde == Spec => []NadaSePerde
BY InvarianteDoBuffer, PTL DEF IInv

-----------------------------------------------------------------------------
(***************************************************************************)
(* What a cut line costs. Firmes are the events no later append can spoil, *)
(* Resta what the drainer has still to send, or to send again. An accepted *)
(* event that is in neither and not delivered was on a cut line or was     *)
(* appended to one; a cut whose line nobody has continued yet is kept in   *)
(* reserve, because the event it will cost is not accepted yet.            *)
(***************************************************************************)
Firmes(arq) == UNION {l.evs : l \in {m \in LinhasDe(arq) : m.ok /\ m.fim}}
SemFim(arq) == Len(Aberto(arq)) # 0 /\ ~Aberto(arq)[Len(Aberto(arq))].fim
Resta ==
  IF dreno \in {"publica", "devolve"} THEN LegiveisEm(Linhas(lote))
  ELSE IF dreno = "remove" THEN {} ELSE LegiveisEm(LinhasDe(working))

Perdidos == aceitos \ (entregues \cup Firmes(pendentes) \cup Resta)

Contas ==
  /\ IsFiniteSet(Perdidos)
  /\ Cardinality(Perdidos) <= rasgos
  /\ SemFim(pendentes) => Cardinality(Perdidos) + 1 <= rasgos
  /\ dreno \in {"publica", "devolve"} => Linhas(lote) \subseteq LinhasDe(working)

LEMMA NenhumAMais ==
  ASSUME NEW P, IsFiniteSet(P), NEW Q, Q \subseteq P
  PROVE  /\ IsFiniteSet(Q) /\ Cardinality(Q) \in Nat /\ Cardinality(P) \in Nat
         /\ Cardinality(Q) <= Cardinality(P)
BY FS_Subset, FS_CardinalityType

LEMMA UmAMais ==
  ASSUME NEW P, IsFiniteSet(P), NEW e, NEW Q, Q \subseteq P \cup {e}
  PROVE  /\ IsFiniteSet(Q) /\ Cardinality(Q) \in Nat /\ Cardinality(P) \in Nat
         /\ Cardinality(Q) <= Cardinality(P) + 1
<1>1. /\ IsFiniteSet(P \cup {e}) /\ Cardinality(P) \in Nat
      /\ Cardinality(P \cup {e}) \in {Cardinality(P), Cardinality(P) + 1}
  BY FS_AddElement, FS_CardinalityType
<1>2. IsFiniteSet(Q) /\ Cardinality(Q) \in Nat /\ Cardinality(Q) <= Cardinality(P \cup {e})
  BY <1>1, NenhumAMais
<1> QED
  BY <1>1, <1>2

(* An append to a file whose last line has its newline spoils nothing; one to a cut line gives
   that line its newline, or stays without. *)
LEMMA FirmesAcrescentadas ==
  ASSUME NEW arq \in Arquivo, NEW l \in Linha
  PROVE  /\ Firmes(arq) \subseteq Firmes(Acrescenta(arq, l))
         /\ SemFim(Acrescenta(arq, l)) <=> ~l.fim
         /\ ~SemFim(arq) /\ l.ok /\ l.fim => l.evs \subseteq Firmes(Acrescenta(arq, l))
<1> DEFINE r == Acrescenta(arq, l)
<1>1. /\ r \in Seq(Linha)
      /\ \/ Linhas(r) = LinhasDe(arq) \cup {l}
         \/ \E u \in LinhasDe(arq) : ~u.fim /\ LinhasDe(arq) \subseteq Linhas(r) \cup {u}
  BY OQueAcrescenta
<1>2. Aberto(r) = r /\ LinhasDe(r) = Linhas(r)
  BY <1>1, SequenciaAberta
<1>3. Firmes(arq) \subseteq Firmes(r)
  <2> HIDE DEF r
  <2> QED
    BY <1>1, <1>2 DEF Firmes
<1>4. PICK s \in Seq(Linha) : s = Aberto(arq)
  BY AbertoEhSequencia
<1>5. CASE ~SemFim(arq)
  <2>1. r = Append(s, l)
    BY <1>4, <1>5 DEF Acrescenta, SemFim
  <2>2. Len(Append(s, l)) = Len(s) + 1 /\ Append(s, l)[Len(s) + 1] = l /\ Len(s) \in Nat
    BY <1>4
  <2>3. Len(s) + 1 \in DOMAIN Append(s, l)
    BY <1>4
  <2>4. SemFim(r) <=> ~l.fim
    BY <1>2, <2>1, <2>2 DEF SemFim
  <2>5. l \in LinhasDe(r)
    BY <1>2, <2>1, <2>2, <2>3 DEF Linhas
  <2> QED
    BY <1>3, <2>4, <2>5 DEF Firmes
<1>6. CASE SemFim(arq)
  <2>1. r = [s EXCEPT ![Len(s)] = Colada(s[Len(s)], l)] /\ Len(s) # 0
    BY <1>4, <1>6 DEF Acrescenta, SemFim
  <2>2. Len(s) \in DOMAIN s /\ Len(r) = Len(s) /\ r[Len(s)] = Colada(s[Len(s)], l)
    BY <1>4, <2>1
  <2>3. SemFim(r) <=> ~l.fim
    BY <1>2, <2>1, <2>2 DEF SemFim, Colada
  <2> QED
    BY <1>3, <1>6, <2>3
<1> QED
  BY <1>5, <1>6

LEMMA FirmesDoAberto ==
  ASSUME NEW arq \in Arquivo
  PROVE  Firmes(Aberto(arq)) = Firmes(arq) /\ (SemFim(Aberto(arq)) <=> SemFim(arq))
<1>1. Aberto(arq) \in Seq(Linha) /\ LinhasDe(arq) = Linhas(Aberto(arq))
  BY AbertoEhSequencia
<1>2. Aberto(Aberto(arq)) = Aberto(arq) /\ LinhasDe(Aberto(arq)) = Linhas(Aberto(arq))
  BY <1>1, SequenciaAberta
<1> QED
  BY <1>1, <1>2 DEF Firmes, SemFim

(* An append that did not complete spoils nothing, and leaves a line without newline only if it
   was cut. *)
LEMMA EscritaCortadaNaoEstraga ==
  ASSUME TipoArquivos, TipoLimites, NEW e \in Eventos, EscritaCortada(e)
  PROVE  /\ Firmes(pendentes) \subseteq Firmes(pendentes')
         /\ \/ rasgos' = rasgos + 1
            \/ rasgos' = rasgos /\ (SemFim(pendentes') => SemFim(pendentes))
<1>1. pendentes \in Arquivo
  BY DEF TipoArquivos
<1>2. CASE pendentes' \in {pendentes, Aberto(pendentes)} /\ rasgos' = rasgos
  BY <1>1, <1>2, FirmesDoAberto
<1>3. CASE pendentes' = Acrescenta(pendentes, Inteira(e)) /\ rasgos' = rasgos
  <2>1. Inteira(e) \in Linha /\ Inteira(e).fim
    BY InteiraBemFormada DEF BemFormada
  <2> QED
    BY <1>1, <1>3, <2>1, FirmesAcrescentadas
<1>4. ASSUME NEW ok \in BOOLEAN, NEW utf \in BOOLEAN,
             pendentes' = Acrescenta(pendentes, Rasgada(e, ok, utf)), rasgos' = rasgos + 1
      PROVE  Firmes(pendentes) \subseteq Firmes(pendentes')
  <2>1. Rasgada(e, ok, utf) \in Linha
    BY RasgadaBemFormada DEF BemFormada
  <2> QED
    BY <1>1, <1>4, <2>1, FirmesAcrescentadas
<1> QED
  BY <1>2, <1>3, <1>4 DEF EscritaCortada

(* How the account of one step is settled: nobody more is missing; one is, and the reserve of the
   cut line pays; or a line is cut, which pays for the reserve. *)
LEMMA ContasDoPasso ==
  ASSUME Tipado, Contas, rasgos' \in Nat,
         dreno' \in {"publica", "devolve"} => Linhas(lote') \subseteq LinhasDe(working'),
         \/ /\ Perdidos' \subseteq Perdidos
            /\ \/ rasgos' = rasgos + 1
               \/ rasgos' = rasgos /\ (SemFim(pendentes') => SemFim(pendentes))
         \/ /\ \E e \in Eventos : Perdidos' \subseteq Perdidos \cup {e}
            /\ SemFim(pendentes) /\ ~SemFim(pendentes') /\ rasgos' = rasgos
  PROVE  Contas'
<1>1. rasgos \in Nat /\ IsFiniteSet(Perdidos) /\ Cardinality(Perdidos) <= rasgos
      /\ (SemFim(pendentes) => Cardinality(Perdidos) + 1 <= rasgos)
  BY LimitesAssumption DEF Tipado, TipoLimites, Contas
<1>2. CASE Perdidos' \subseteq Perdidos
  <2>1. /\ IsFiniteSet(Perdidos') /\ Cardinality(Perdidos') \in Nat /\ Cardinality(Perdidos) \in Nat
        /\ Cardinality(Perdidos') <= Cardinality(Perdidos)
    BY <1>1, <1>2, NenhumAMais
  <2> QED
    BY <1>1, <2>1 DEF Contas
<1>3. ASSUME NEW e \in Eventos, Perdidos' \subseteq Perdidos \cup {e},
             SemFim(pendentes), ~SemFim(pendentes'), rasgos' = rasgos
      PROVE  Contas'
  <2>1. /\ IsFiniteSet(Perdidos') /\ Cardinality(Perdidos') \in Nat /\ Cardinality(Perdidos) \in Nat
        /\ Cardinality(Perdidos') <= Cardinality(Perdidos) + 1
    BY <1>1, <1>3, UmAMais
  <2> QED
    BY <1>1, <1>3, <2>1 DEF Contas
<1> QED
  BY <1>2, <1>3

(* The drainer gives up, or starts again, with everything that is in .working to be sent. *)
LEMMA RestaTudo ==
  ASSUME Contas, working' = working, dreno' \in {"ocioso", "le", "quarentena"}
  PROVE  Resta \subseteq Resta'
<1>1. Resta' = LegiveisEm(LinhasDe(working))
  BY DEF Resta
<1>2. \/ Resta \in {LegiveisEm(LinhasDe(working)), {}}
      \/ Resta = LegiveisEm(Linhas(lote)) /\ Linhas(lote) \subseteq LinhasDe(working)
  BY DEF Resta, Contas
<1> QED
  BY <1>1, <1>2 DEF LegiveisEm

LEMMA ContasDoPublicador ==
  ASSUME Tipado, Tipado', Contas, NEW e \in Eventos, Publicar(e)
  PROVE  Contas'
<1>1. /\ UNCHANGED <<working, dreno, lote>> /\ Resta' = Resta /\ rasgos' \in Nat
      /\ dreno' \in {"publica", "devolve"} => Linhas(lote') \subseteq LinhasDe(working')
  <2>1. UNCHANGED <<working, dreno, lote>>
    BY DEF Publicar, PublicaDireto, GravaComeca, GravaConclui, arquivos
  <2> QED
    BY <2>1, LimitesAssumption DEF Resta, Contas, Tipado, TipoLimites
<1>2. CASE PublicaDireto(e)
  <2>1. UNCHANGED <<pendentes, rasgos>> /\ entregues \subseteq entregues'
        /\ aceitos' \subseteq aceitos \cup {e} /\ (e \in aceitos' => e \in aceitos \cup entregues')
    BY <1>2 DEF PublicaDireto, BrokerRecusa, arquivos, aceitos, Tipado, TipoEventos
  <2>2. Perdidos' \subseteq Perdidos
    BY <1>1, <2>1 DEF Perdidos
  <2> QED
    BY <1>1, <2>1, <2>2, ContasDoPasso
<1>3. CASE GravaComeca(e)
  <2>1. UNCHANGED <<pendentes, rasgos, entregues>> /\ aceitos' \subseteq aceitos
    BY <1>3 DEF GravaComeca, arquivos, limites, aceitos, Tipado, TipoEventos
  <2>2. Perdidos' \subseteq Perdidos
    BY <1>1, <2>1 DEF Perdidos
  <2> QED
    BY <1>1, <2>1, <2>2, ContasDoPasso
<1>4. CASE GravaConclui(e) /\ estado'[e] = "aceito"
  <2>1. /\ pendentes' = Acrescenta(pendentes, Inteira(e)) /\ UNCHANGED <<entregues, rasgos>>
        /\ aceitos' \subseteq aceitos \cup {e}
    BY <1>4 DEF GravaConclui, aceitos, Tipado, TipoEventos
  <2>2. pendentes \in Arquivo /\ Inteira(e) \in Linha
        /\ Inteira(e).ok /\ Inteira(e).fim /\ Inteira(e).evs = {e}
    BY InteiraBemFormada DEF BemFormada, Tipado, TipoArquivos
  <2>3. /\ Firmes(pendentes) \subseteq Firmes(pendentes') /\ ~SemFim(pendentes')
        /\ ~SemFim(pendentes) => e \in Firmes(pendentes')
    BY <2>1, <2>2, FirmesAcrescentadas
  <2>4. /\ Perdidos' \subseteq Perdidos \cup {e}
        /\ ~SemFim(pendentes) => Perdidos' \subseteq Perdidos
    BY <1>1, <2>1, <2>3 DEF Perdidos
  <2> QED
    BY <1>1, <2>1, <2>3, <2>4, ContasDoPasso
<1>5. CASE GravaConclui(e) /\ estado'[e] # "aceito"
  <2>1. EscritaCortada(e) /\ UNCHANGED entregues /\ aceitos' \subseteq aceitos
    BY <1>5 DEF GravaConclui, aceitos, Tipado, TipoEventos
  <2>2. /\ Firmes(pendentes) \subseteq Firmes(pendentes')
        /\ \/ rasgos' = rasgos + 1
           \/ rasgos' = rasgos /\ (SemFim(pendentes') => SemFim(pendentes))
    BY <2>1, EscritaCortadaNaoEstraga DEF Tipado
  <2>3. Perdidos' \subseteq Perdidos
    BY <1>1, <2>1, <2>2 DEF Perdidos
  <2> QED
    BY <1>1, <2>2, <2>3, ContasDoPasso
<1> QED
  BY <1>2, <1>3, <1>4, <1>5 DEF Publicar

(* A crash, or a drain that gives up: an append may have been cut, and the whole of .working will
   be sent again. *)
LEMMA ContasDaParada ==
  ASSUME Tipado, Tipado', Contas, DrenaFalha \/ Queda \/ DrenaIlegivel
  PROVE  Contas'
<1>1. /\ UNCHANGED <<entregues, working>> /\ dreno' = "ocioso" /\ aceitos' \subseteq aceitos
      /\ \/ UNCHANGED <<pendentes, rasgos>>
         \/ \E e \in Eventos : EscritaCortada(e)
  BY CabecaDoLote DEF DrenaFalha, Queda, DrenaIlegivel, DrenoPara, arquivos, limites, aceitos, Tipado
<1>2. Resta \subseteq Resta' /\ rasgos' \in Nat
  BY <1>1, RestaTudo, LimitesAssumption DEF Tipado, TipoLimites
<1>3. /\ Firmes(pendentes) \subseteq Firmes(pendentes')
      /\ \/ rasgos' = rasgos + 1
         \/ rasgos' = rasgos /\ (SemFim(pendentes') => SemFim(pendentes))
  BY <1>1, EscritaCortadaNaoEstraga DEF Tipado
<1>4. Perdidos' \subseteq Perdidos
  BY <1>1, <1>2, <1>3 DEF Perdidos
<1> QED
  BY <1>1, <1>2, <1>3, <1>4, ContasDoPasso

LEMMA ContasDoDreno ==
  ASSUME Tipado, Tipado', DrenoSeguro, Contas,
         \/ DrenaInicia \/ DrenaLe \/ DrenaQuarentena \/ DrenaPublica
         \/ DrenaDevolve \/ DrenaAcaba \/ DrenaRemove
  PROVE  Contas'
<1>1. rasgos' = rasgos /\ aceitos' \subseteq aceitos /\ rasgos' \in Nat /\ entregues \subseteq entregues'
  <2>1. rasgos' = rasgos /\ estado' = estado
    BY DEF DrenaInicia, DrenaLe, DrenaQuarentena, DrenaPublica, DrenaDevolve, DrenaAcaba, DrenaRemove, limites
  <2>2. entregues \subseteq entregues'
    BY DEF DrenaInicia, DrenaLe, DrenaQuarentena, DrenaPublica, BrokerRecusa,
       DrenaDevolve, DrenaAcaba, DrenaRemove
  <2> QED
    BY <2>1, <2>2, LimitesAssumption DEF aceitos, Tipado, TipoLimites
<1>2. CASE DrenaInicia
  <2>1. /\ dreno = "ocioso" /\ dreno' = "le"
        /\ \/ working = Nada /\ working' = pendentes /\ pendentes' = Nada
           \/ UNCHANGED <<working, pendentes>>
    BY <1>2 DEF DrenaInicia
  <2>2. LinhasDe(Nada) = {} /\ Len(Aberto(Nada)) = 0
    BY DEF LinhasDe, Aberto
  <2>3. Resta = LegiveisEm(LinhasDe(working)) /\ Resta' = LegiveisEm(LinhasDe(working'))
    BY <2>1 DEF Resta
  <2>4. Firmes(pendentes) \cup Resta \subseteq Firmes(pendentes') \cup Resta'
    BY <2>1, <2>2, <2>3 DEF Firmes, LegiveisEm
  <2>5. SemFim(pendentes') => SemFim(pendentes)
    BY <2>1, <2>2 DEF SemFim
  <2>6. Perdidos' \subseteq Perdidos
    BY <1>1, <2>4 DEF Perdidos
  <2> QED
    BY <1>1, <2>1, <2>5, <2>6, ContasDoPasso
<1>3. CASE DrenaLe \/ DrenaQuarentena
  <2>1. /\ UNCHANGED <<pendentes, working>> /\ dreno \in {"le", "quarentena"}
        /\ dreno' \in {"quarentena", "publica"} /\ lote' = working /\ working # Nada
    BY <1>3 DEF DrenaLe, DrenaQuarentena, DrenoSeguro, arquivos
  <2>2. Linhas(lote') = LinhasDe(working)
    BY <2>1 DEF Linhas, LinhasDe, Aberto
  <2>3. Resta' = Resta
    BY <2>1, <2>2 DEF Resta
  <2>4. Perdidos' \subseteq Perdidos
    BY <1>1, <2>1, <2>3 DEF Perdidos
  <2> QED
    BY <1>1, <2>1, <2>2, <2>4, ContasDoPasso
<1>4. CASE DrenaPublica
  <2>1. /\ UNCHANGED <<pendentes, working>> /\ lote # <<>> /\ dreno = "publica"
        /\ \/ lote' = Tail(lote) /\ dreno' = dreno
              /\ (Head(lote).ok => EventoDe(Head(lote)) \in entregues')
           \/ lote' = lote /\ dreno' = "devolve"
    BY <1>4 DEF DrenaPublica, arquivos
  <2>2. /\ Linhas(lote) = {Head(lote)} \cup Linhas(Tail(lote))
        /\ Head(lote).ok => Head(lote).evs = {EventoDe(Head(lote))}
    BY <2>1, CabecaDoLote DEF Tipado
  <2>3. Resta = LegiveisEm(Linhas(lote)) /\ Resta' = LegiveisEm(Linhas(lote'))
    BY <2>1 DEF Resta
  <2>4. Resta \subseteq Resta' \cup entregues'
    BY <2>1, <2>2, <2>3 DEF LegiveisEm
  <2>5. Linhas(lote') \subseteq LinhasDe(working')
    BY <2>1, <2>2 DEF Contas
  <2>6. Perdidos' \subseteq Perdidos
    BY <1>1, <2>1, <2>4 DEF Perdidos
  <2> QED
    BY <1>1, <2>1, <2>5, <2>6, ContasDoPasso
<1>5. CASE DrenaDevolve
  <2>1. /\ UNCHANGED <<working, dreno, entregues>> /\ lote # <<>> /\ dreno = "devolve" /\ lote' = Tail(lote)
        /\ pendentes' = IF Head(lote).ok THEN Acrescenta(pendentes, Inteira(EventoDe(Head(lote)))) ELSE pendentes
    BY <1>5 DEF DrenaDevolve
  <2>2. /\ Linhas(lote) = {Head(lote)} \cup Linhas(Tail(lote))
        /\ Head(lote).ok => EventoDe(Head(lote)) \in Eventos /\ Head(lote).evs = {EventoDe(Head(lote))}
    BY <2>1, CabecaDoLote DEF Tipado
  <2>3. Resta = LegiveisEm(Linhas(lote)) /\ Resta' = LegiveisEm(Linhas(Tail(lote)))
    BY <2>1 DEF Resta
  <2>4. Linhas(lote') \subseteq LinhasDe(working')
    BY <2>1, <2>2 DEF Contas
  <2>5. CASE ~Head(lote).ok
    <3>1. Resta \subseteq Resta' /\ pendentes' = pendentes
      BY <2>1, <2>2, <2>3, <2>5 DEF LegiveisEm
    <3>2. Perdidos' \subseteq Perdidos
      BY <1>1, <2>1, <3>1 DEF Perdidos
    <3> QED
      BY <1>1, <2>4, <3>1, <3>2, ContasDoPasso
  <2>6. CASE Head(lote).ok
    <3>1. PICK e \in Eventos : Head(lote).evs = {e} /\ pendentes' = Acrescenta(pendentes, Inteira(e))
      BY <2>1, <2>2, <2>6
    <3>2. Resta \subseteq Resta' \cup {e}
      BY <2>2, <2>3, <3>1 DEF LegiveisEm
    <3>3. pendentes \in Arquivo /\ Inteira(e) \in Linha
          /\ Inteira(e).ok /\ Inteira(e).fim /\ Inteira(e).evs = {e}
      BY InteiraBemFormada DEF BemFormada, Tipado, TipoArquivos
    <3>4. /\ Firmes(pendentes) \subseteq Firmes(pendentes') /\ ~SemFim(pendentes')
          /\ ~SemFim(pendentes) => e \in Firmes(pendentes')
      BY <3>1, <3>3, FirmesAcrescentadas
    <3>5. /\ Perdidos' \subseteq Perdidos \cup {e}
          /\ ~SemFim(pendentes) => Perdidos' \subseteq Perdidos
      BY <1>1, <3>2, <3>4 DEF Perdidos
    <3> QED
      BY <1>1, <2>4, <3>4, <3>5, ContasDoPasso
  <2> QED
    BY <2>5, <2>6
<1>6. CASE DrenaAcaba
  <2>1. UNCHANGED pendentes /\ dreno \in {"publica", "devolve"} /\ lote = <<>> /\ dreno' = "remove"
    BY <1>6 DEF DrenaAcaba, arquivos
  <2>2. Resta = {}
    BY <2>1, LoteVazio DEF Resta, LegiveisEm
  <2>3. Perdidos' \subseteq Perdidos
    BY <1>1, <2>1, <2>2 DEF Perdidos
  <2> QED
    BY <1>1, <2>1, <2>3, ContasDoPasso
<1>7. CASE DrenaRemove
  <2>1. UNCHANGED pendentes /\ dreno = "remove" /\ dreno' = "ocioso"
    BY <1>7 DEF DrenaRemove, DrenoPara
  <2>2. Resta = {}
    BY <2>1 DEF Resta
  <2>3. Perdidos' \subseteq Perdidos
    BY <1>1, <2>1, <2>2 DEF Perdidos
  <2> QED
    BY <1>1, <2>1, <2>3, ContasDoPasso
<1> QED
  BY <1>2, <1>3, <1>4, <1>5, <1>6, <1>7

LEMMA ContasIniciais == Init => Contas
<1> SUFFICES ASSUME Init PROVE Contas
  OBVIOUS
<1>1. Perdidos = {}
  BY DEF Init, Perdidos, aceitos
<1>2. IsFiniteSet({}) /\ Cardinality({}) = 0
  BY FS_EmptySet
<1>3. Len(Aberto(Nada)) = 0
  BY DEF Aberto
<1> QED
  BY <1>1, <1>2, <1>3 DEF Init, Contas, SemFim

LEMMA ContasPreservadas == IInv /\ IInv' /\ Contas /\ [Next]_vars => Contas'
<1> SUFFICES ASSUME IInv, IInv', Contas, [Next]_vars PROVE Contas'
  OBVIOUS
<1>1. Tipado /\ Tipado' /\ DrenoSeguro
  BY DEF IInv
<1>2. CASE UNCHANGED vars
  <2>1. UNCHANGED <<pendentes, working, lote, dreno, rasgos>> /\ Perdidos' = Perdidos
    BY <1>2 DEF vars, Perdidos, aceitos, Resta
  <2> QED
    BY <2>1 DEF Contas
<1>3. CASE \E e \in Eventos : Publicar(e)
  BY <1>1, <1>3, ContasDoPublicador
<1>4. CASE DrenaFalha \/ DrenaIlegivel \/ Queda
  BY <1>1, <1>4, ContasDaParada
<1>5. CASE \/ DrenaInicia \/ DrenaLe \/ DrenaQuarentena \/ DrenaPublica
           \/ DrenaDevolve \/ DrenaAcaba \/ DrenaRemove
  BY <1>1, <1>5, ContasDoDreno
<1> QED
  BY <1>2, <1>3, <1>4, <1>5 DEF Next, Drenar

(* However appends fail, the process crashes and drains are repeated, an append cut within a line
   makes at most one accepted event unreadable (gravar_no_buffer appends without looking at how
   the file ends); without a cut none is. *)
THEOREM TeoRasgoCustaUm == Spec => []RasgoCustaUm
<1>1. IInv /\ Contas => RasgoCustaUm
  <2> SUFFICES ASSUME IInv, Contas PROVE RasgoCustaUm
    OBVIOUS
  <2> DEFINE Q == aceitos \ (entregues \cup LegiveisEm(LinhasDe(pendentes) \cup LinhasDe(working)))
  <2>1. Firmes(pendentes) \subseteq LegiveisEm(LinhasDe(pendentes) \cup LinhasDe(working))
    BY DEF Firmes, LegiveisEm
  <2>2. Resta \subseteq LegiveisEm(LinhasDe(pendentes) \cup LinhasDe(working))
    BY DEF Resta, Contas, LegiveisEm
  <2>3. Q \subseteq Perdidos
    BY <2>1, <2>2 DEF Perdidos
  <2>4. IsFiniteSet(Perdidos) /\ Cardinality(Perdidos) <= rasgos /\ rasgos \in Nat
    BY LimitesAssumption DEF Contas, IInv, Tipado, TipoLimites
  <2> HIDE DEF Q
  <2>5. Cardinality(Q) <= rasgos
    BY <2>3, <2>4, NenhumAMais
  <2> QED
    BY <2>5 DEF RasgoCustaUm, Q
<1>2. Spec => []Contas
  BY InvarianteDoBuffer, ContasIniciais, ContasPreservadas, PTL DEF Spec
<1> QED
  BY InvarianteDoBuffer, <1>1, <1>2, PTL

-----------------------------------------------------------------------------
(* The buffer implements Entrega as long as no append is cut within a line: then every line
   parses, and what can be read back is all that is in the two files. *)
Guardados == EventosEm(LinhasDe(pendentes)) \cup EventosEm(LinhasDe(working))

LEMMA GuardadosLegiveis ==
  ASSUME SoInteiras, rasgos = 0
  PROVE  LegiveisEm(LinhasDe(pendentes) \cup LinhasDe(working)) = Guardados
BY DEF SoInteiras, LegiveisEm, EventosEm, Guardados

(* An append that fails without a cut stores the event or does nothing. *)
LEMMA EscritaSemRasgo ==
  ASSUME TipoArquivos, TipoLimites, NEW e \in Eventos, working' = working,
         \/ pendentes' = Acrescenta(pendentes, Inteira(e))
         \/ EscritaCortada(e) /\ rasgos' = rasgos
         \/ pendentes' = pendentes
  PROVE  /\ Guardados' \in {Guardados, Guardados \cup {e}}
         /\ pendentes' = Acrescenta(pendentes, Inteira(e)) => Guardados' = Guardados \cup {e}
<1>1. CASE pendentes' = Acrescenta(pendentes, Inteira(e))
  <2>1. Inteira(e) \in Linha /\ Inteira(e).evs = {e} /\ pendentes \in Arquivo
    BY InteiraBemFormada DEF BemFormada, TipoArquivos
  <2>2. LinhasDe(pendentes') = Linhas(pendentes')
    BY <1>1, <2>1, OQueAcrescenta, SequenciaAberta
  <2>3. EventosEm(LinhasDe(pendentes')) = EventosEm(LinhasDe(pendentes)) \cup {e}
    BY <1>1, <2>1, <2>2, EventosAcrescentados
  <2> QED
    BY <2>3 DEF Guardados
<1>2. CASE pendentes' \in {pendentes, Aberto(pendentes)} /\ pendentes' # Acrescenta(pendentes, Inteira(e))
  <2>1. LinhasDe(pendentes') = LinhasDe(pendentes)
    BY <1>2, AbertoEhSequencia, SequenciaAberta DEF TipoArquivos
  <2> QED
    BY <1>2, <2>1 DEF Guardados
<1>3. EscritaCortada(e) /\ rasgos' = rasgos
        => pendentes' \in {pendentes, Aberto(pendentes), Acrescenta(pendentes, Inteira(e))}
  BY LimitesAssumption DEF EscritaCortada, TipoLimites
<1> QED
  BY <1>1, <1>2, <1>3

(* Each step is one of the contract's, or a stutter. *)
LEMMA PassoImplementa ==
  ASSUME IInv, IInv', rasgos = 0, rasgos' = 0, [Next]_vars
  PROVE  [E!NextEntrega]_(E!varsEntrega)
<1>1. /\ LegiveisEm(LinhasDe(pendentes) \cup LinhasDe(working)) = Guardados
      /\ LegiveisEm(LinhasDe(pendentes') \cup LinhasDe(working')) = Guardados'
  <2>1. LegiveisEm(LinhasDe(pendentes') \cup LinhasDe(working')) = Guardados'
    BY DEF IInv, SoInteiras, LegiveisEm, EventosEm, Guardados
  <2> QED
    BY <2>1, GuardadosLegiveis DEF IInv
<1> DEFINE Abstrato ==
             \/ \E e \in Eventos :
                  \/ aceitos' = aceitos \cup {e} /\ entregues' = entregues \cup {e} /\ Guardados' = Guardados
                  \/ aceitos' = aceitos \cup {e} /\ entregues' = entregues /\ Guardados' = Guardados \cup {e}
                  \/ aceitos' = aceitos /\ entregues' = entregues \cup {e} /\ Guardados' = Guardados
                  \/ aceitos' = aceitos /\ entregues' = entregues /\ Guardados' = Guardados \cup {e}
             \/ /\ aceitos' = aceitos /\ entregues' = entregues
                /\ Guardados' \subseteq Guardados /\ Guardados \ Guardados' \subseteq entregues
<1>2. TipoArquivos /\ TipoLimites /\ TipoEventos /\ DrenoSeguro /\ SoInteiras
  BY DEF IInv, Tipado
<1>3. ASSUME UNCHANGED <<pendentes, working>> PROVE Guardados' = Guardados
  BY <1>3 DEF Guardados
<1>4. ASSUME NEW e \in Eventos, Publicar(e) PROVE Abstrato
  <2>1. CASE PublicaDireto(e)
    <3>1. Guardados' = Guardados
      BY <1>3, <2>1 DEF PublicaDireto, arquivos
    <3>2. CASE entregues' = entregues \cup {e} /\ estado' = [estado EXCEPT ![e] = "aceito"]
      <4>1. aceitos' = aceitos \cup {e}
        BY <1>2, <3>2 DEF aceitos, TipoEventos
      <4> QED
        BY <3>1, <3>2, <4>1
    <3>3. CASE BrokerRecusa(e) /\ estado' = [estado EXCEPT ![e] = "buffer"]
      <4>1. aceitos' = aceitos
        BY <1>2, <2>1, <3>3 DEF aceitos, TipoEventos, PublicaDireto
      <4> QED
        BY <3>1, <3>3, <4>1 DEF BrokerRecusa
    <3> QED
      BY <2>1, <3>2, <3>3 DEF PublicaDireto
  <2>2. CASE GravaComeca(e)
    <3>1. aceitos' = aceitos
      BY <1>2, <2>2 DEF aceitos, TipoEventos, GravaComeca
    <3> QED
      BY <1>3, <2>2, <3>1 DEF GravaComeca, arquivos
  <2>3. CASE GravaConclui(e)
    <3>1. CASE pendentes' = Acrescenta(pendentes, Inteira(e)) /\ estado' = [estado EXCEPT ![e] = "aceito"]
      <4>1. aceitos' = aceitos \cup {e}
        BY <1>2, <3>1 DEF aceitos, TipoEventos
      <4>2. Guardados' = Guardados \cup {e}
        BY <1>2, <2>3, <3>1, EscritaSemRasgo DEF GravaConclui
      <4> QED
        BY <2>3, <4>1, <4>2 DEF GravaConclui
    <3>2. CASE EscritaCortada(e) /\ estado' = [estado EXCEPT ![e] = "recusado"]
      <4>1. aceitos' = aceitos
        BY <1>2, <2>3, <3>2 DEF aceitos, TipoEventos, GravaConclui
      <4>2. Guardados' \in {Guardados, Guardados \cup {e}}
        BY <1>2, <2>3, <3>2, EscritaSemRasgo DEF GravaConclui
      <4> QED
        BY <2>3, <4>1, <4>2 DEF GravaConclui
    <3> QED
      BY <2>3, <3>1, <3>2 DEF GravaConclui
  <2> QED
    BY <1>4, <2>1, <2>2, <2>3 DEF Publicar
<1>5. Drenar \/ Queda => aceitos' = aceitos
  BY <1>2 DEF Drenar, DrenaInicia, DrenaLe, DrenaIlegivel, DrenaQuarentena, DrenaPublica,
         DrenaDevolve, DrenaAcaba,
         DrenaRemove, DrenaFalha, Queda, aceitos, TipoEventos
<1>6. ASSUME aceitos' = aceitos, entregues' = entregues, Guardados' = Guardados PROVE Abstrato
  BY <1>6
<1>7. ASSUME NEW e \in Eventos, aceitos' = aceitos, Guardados' = Guardados,
             entregues' \in {entregues, entregues \cup {e}}
      PROVE  Abstrato
  BY <1>6, <1>7
<1>8. ASSUME NEW e \in Eventos, aceitos' = aceitos, entregues' = entregues,
             Guardados' \in {Guardados, Guardados \cup {e}}
      PROVE  Abstrato
  BY <1>6, <1>8
<1>9. ASSUME aceitos' = aceitos, entregues' = entregues,
             Guardados' \subseteq Guardados, Guardados \ Guardados' \subseteq entregues
      PROVE  Abstrato
  BY <1>9
<1> HIDE DEF Abstrato
<1>10. ASSUME Drenar \/ Queda, aceitos' = aceitos PROVE Abstrato
  <2>1. CASE DrenaInicia
    <3>1. /\ entregues' = entregues
          /\ \/ working = Nada /\ working' = pendentes /\ pendentes' = Nada
             \/ UNCHANGED <<working, pendentes>>
      BY <2>1 DEF DrenaInicia
    <3>2. Guardados' = Guardados
      BY <3>1 DEF Guardados
    <3> QED
      BY <1>6, <1>10, <3>1, <3>2
  <2>2. CASE DrenaLe \/ DrenaIlegivel \/ DrenaQuarentena \/ DrenaAcaba
    BY <1>3, <1>6, <1>10, <2>2 DEF DrenaLe, DrenaIlegivel, DrenaQuarentena, DrenaAcaba, arquivos
  <2>3. CASE DrenaPublica
    <3>1. lote # <<>> /\ (Head(lote).ok => EventoDe(Head(lote)) \in Eventos)
      BY <1>2, <2>3, CabecaDoLote DEF DrenaPublica
    <3>2. Guardados' = Guardados
      BY <1>3, <2>3 DEF DrenaPublica, arquivos
    <3>3. CASE entregues' = entregues
      BY <1>6, <1>10, <3>2, <3>3
    <3>4. CASE Head(lote).ok /\ entregues' = entregues \cup {EventoDe(Head(lote))}
      BY <1>7, <1>10, <3>1, <3>2, <3>4
    <3> QED
      BY <2>3, <3>3, <3>4 DEF DrenaPublica, BrokerRecusa
  <2>4. CASE DrenaDevolve
    <3>1. lote # <<>> /\ (Head(lote).ok => EventoDe(Head(lote)) \in Eventos)
      BY <1>2, <2>4, CabecaDoLote DEF DrenaDevolve
    <3>2. entregues' = entregues /\ working' = working
      BY <2>4 DEF DrenaDevolve
    <3>3. CASE Head(lote).ok
      <4>1. pendentes' = Acrescenta(pendentes, Inteira(EventoDe(Head(lote))))
        BY <2>4, <3>3 DEF DrenaDevolve
      <4>2. Guardados' = Guardados \cup {EventoDe(Head(lote))}
        BY <1>2, <3>1, <3>2, <3>3, <4>1, EscritaSemRasgo
      <4> QED
        BY <1>8, <1>10, <3>1, <3>2, <3>3, <4>2
    <3>4. CASE ~Head(lote).ok
      BY <1>3, <1>6, <1>10, <2>4, <3>2, <3>4 DEF DrenaDevolve
    <3> QED
      BY <3>3, <3>4
  <2>5. CASE DrenaRemove
    <3>1. entregues' = entregues /\ pendentes' = pendentes /\ working' \in {working, Nada} /\ dreno = "remove"
      BY <2>5 DEF DrenaRemove
    <3>2. LinhasDe(Nada) = {} /\ EventosEm({}) = {} /\ corrompidos = {}
      BY <1>2 DEF LinhasDe, Aberto, EventosEm, SoInteiras
    <3>3. EventosEm(LinhasDe(working)) \subseteq entregues \cup EventosEm(LinhasDe(pendentes))
      BY <1>2, <3>1, <3>2 DEF DrenoSeguro
    <3>4. Guardados' \subseteq Guardados /\ Guardados \ Guardados' \subseteq entregues
      BY <3>1, <3>2, <3>3 DEF Guardados
    <3> QED
      BY <1>9, <1>10, <3>1, <3>4
  <2>6. CASE DrenaFalha \/ Queda
    <3>1. UNCHANGED <<entregues, working>>
      BY <2>6 DEF DrenaFalha, Queda
    <3>2. CASE pendentes' = pendentes
      BY <1>3, <1>6, <1>10, <3>1, <3>2
    <3>3. ASSUME NEW e \in Eventos, EscritaCortada(e) PROVE Abstrato
      <4>1. Guardados' \in {Guardados, Guardados \cup {e}}
        BY <1>2, <3>1, <3>3, EscritaSemRasgo
      <4> QED
        BY <1>8, <1>10, <3>1, <4>1
    <3> QED
      BY <1>2, <2>6, <3>2, <3>3, CabecaDoLote DEF DrenaFalha, Queda
  <2> QED
    BY <1>10, <2>1, <2>2, <2>3, <2>4, <2>5, <2>6 DEF Drenar
<1>11. ASSUME UNCHANGED vars PROVE Abstrato
  <2>1. aceitos' = aceitos
    BY <1>11 DEF vars, aceitos
  <2>2. UNCHANGED <<entregues, pendentes, working>>
    BY <1>11 DEF vars
  <2>3. Guardados' = Guardados
    BY <1>3, <2>2
  <2> QED
    BY <1>6, <2>1, <2>2, <2>3
<1>12. Abstrato
  <2>1. CASE Drenar \/ Queda
    BY <1>5, <1>10, <2>1
  <2>2. CASE \E e \in Eventos : Publicar(e)
    BY <1>4, <2>2
  <2>3. CASE Next
    BY <2>1, <2>2, <2>3 DEF Next
  <2> QED
    BY <1>11, <2>3
<1> QED
  BY <1>1, <1>12 DEF Abstrato, E!NextEntrega, E!varsEntrega, E!AceitaDireto, E!AceitaGuardando, E!Entrega,
         E!Guarda, E!Esquece

(* The publisher with its buffer keeps the promise the watcher relies on, through failures and
   crashes, as long as no append is cut within a line (PublisherComContingencia). *)
THEOREM TeoImplementaEntrega ==
  ASSUME MaxRasgos = 0
  PROVE  Spec => ImplementaEntrega
<1>1. Init => E!InitEntrega
  <2> SUFFICES ASSUME Init PROVE E!InitEntrega
    OBVIOUS
  <2>1. LegiveisEm(LinhasDe(pendentes) \cup LinhasDe(working)) = {}
    BY DEF Init, LinhasDe, Aberto, LegiveisEm
  <2>2. aceitos = {} /\ entregues = {}
    BY DEF Init, aceitos
  <2> QED
    BY <2>1, <2>2 DEF E!InitEntrega
<1>2. IInv => rasgos = 0
  BY DEF IInv, Tipado, TipoLimites
<1>3. IInv /\ IInv' /\ [Next]_vars => [E!NextEntrega]_(E!varsEntrega)
  <2>1. IInv' => rasgos' = 0
    BY DEF IInv, Tipado, TipoLimites
  <2> QED
    BY <1>2, <2>1, PassoImplementa
<1> QED
  BY <1>1, <1>3, InvarianteDoBuffer, PTL DEF Spec, ImplementaEntrega, E!EntregaSegura
=============================================================================
