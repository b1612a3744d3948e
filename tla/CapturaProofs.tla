---------------------------- MODULE CapturaProofs ----------------------------
(***************************************************************************)
(* Proofs about the contents the watcher handles: that a staging name      *)
(* never gets a second one, that nothing is replaced or dropped on the way *)
(* between the folders, and when the hash that is announced is that of the *)
(* file it names.                                                          *)
(***************************************************************************)
EXTENDS WatcherProofs

Base == Tipado /\ ParadoSemTarefas /\ ClaimsPorTarefa /\ OrfaosEmOrdem

LEMMA BaseInicial == Init => Base
<1>1. Init => ClaimsPorTarefa
  BY DEF Init, ClaimsPorTarefa, Livre, ComClaim
<1>2. Init => OrfaosEmOrdem
  BY DEF Init, OrfaosEmOrdem, ErrosCoerentes, ErroCoerente, NomesFrescos, SemOrfaoAoLiberar, Tratados,
         PassadasCompletas, PassadaDe, Livre
<1>3. Init => ParadoSemTarefas
  BY DEF Init, ParadoSemTarefas, Livre
<1> QED
  BY <1>1, <1>2, <1>3, TipadoInicial DEF Base

LEMMA BasePreservada == Base /\ [Next]_vars => Base'
BY TipadoPreservado, ParadoPreservado, ClaimsPreservados, OrfaosPreservados DEF Base

(* Names.  The uuid of a staging name has been used once it has a file, is announced, or is being
   recovered; no later rename takes it. *)
Usado(n) == n[2] <= movidos[Dono(n)]

NaPassada == {"recupera", "recEstabiliza", "recPublica", "recRecibo"}

NomesUsados ==
  /\ \A n \in Nomes : processando[n] # Nada => Usado(n)
  /\ \A e \in fila : Usado(e.nome)
  /\ \A w \in Workers : fase[w] \in {"recEstabiliza", "recPublica"} => Usado(recup[w].nome)
  /\ \A w \in Workers : fase[w] \in NaPassada => \A n \in recup[w].resta : Dono(n) = w /\ Usado(n)

LEMMA NomeDeTarefaUsado ==
  ASSUME Base, NEW t \in Tarefas, tarefa[t].nome \in Nomes
  PROVE  Usado(tarefa[t].nome)
BY NadaAssumption DEF Base, OrfaosEmOrdem, NomesFrescos, Usado

(* Only a rename into staging puts something there. *)
LEMMA SoMoveEncena ==
  ASSUME Tipado, [Next]_vars, ~(\E t \in Tarefas : Move(t))
  PROVE  /\ movidos' = movidos
         /\ \A n \in Nomes : processando'[n] \in {processando[n], Nada}
<1>1. CASE \/ \E p \in Caminhos, d \in Docs : Escreve(p, d)
           \/ Tick
           \/ \E w \in Workers : PassoInicio(w) \/ Queda(w) \/ Reinicia(w)
           \/ UNCHANGED vars
  BY <1>1 DEF Escreve, Tick, PassoInicio, Inicia, RecuperaEscolhe, RecuperaEstabiliza, RecuperaPublica,
     RecuperaRecibo, RecuperaLimpa, LimpaRecibo, RecuperaConclui, Queda, Reinicia, ListenerReinicia, ScannerReinicia, vars
<1>2. CASE \/ \E t \in Tarefas : ListenerRecebe(t)
           \/ \E w \in Workers : PassoScanner(w)
  BY <1>2, SoDispara
<1>3. CASE \E e \in fila : ConsumidorRetira(e) \/ ConsumidorConfirma(e)
  BY <1>3 DEF ConsumidorRetira, ConsumidorConfirma, Tipado, TipoPastas
<1>4. ASSUME NEW t \in Tarefas, PassoTarefa(t), ~Move(t)
      PROVE  /\ movidos' = movidos
             /\ \A n \in Nomes : processando'[n] \in {processando[n], Nada}
  BY <1>4 DEF PassoTarefa, ApagaZona, IgnoraDuplicado, Reivindica, Estabiliza, FalhaAoMover, Publica,
     RegistraRecibo, Libera, TrataSemMover, Carimba, RejeitaEntrada, RejeitaNaoPublicado, Tipado, TipoPastas
<1> QED
  BY <1>1, <1>2, <1>3, <1>4 DEF Next, NextSemConsumidor

(* What the rename does to the names, new and old. *)
LEMMA NomesNoMove ==
  ASSUME Tipado, NEW t \in Tarefas, Move(t), NEW m, m = NomeNovo(Dono(t))
  PROVE  /\ m \in Nomes /\ Usado(m)' /\ ~Usado(m)
         /\ \A n \in Nomes : Usado(n) => Usado(n)'
         /\ \A n \in Nomes : processando'[n] = IF n = m THEN entrada[tarefa[t].caminho] ELSE processando[n]
<1> DEFINE w == Dono(t)
<1>1. w \in Workers /\ movidos[w] < MaxMovidos /\ \A n \in Nomes : Dono(n) \in Workers
  BY Donos DEF Move
<1>2. m \in Nomes
  BY <1>1, NomeNovoTipado DEF Tipado
<1>3. \A v \in Workers : movidos[v] \in Nat /\ movidos'[v] = IF v = w THEN movidos[w] + 1 ELSE movidos[v]
  BY <1>1, LimitesAssumption DEF Move, Tipado, TipoLimites
<1>4. \A n \in Nomes : n[2] \in Nat
  BY LimitesAssumption DEF Nomes
<1>5. m[2] = movidos[w] + 1 /\ Dono(m) = w
  BY DEF NomeNovo, Dono
<1>6. processando' = [processando EXCEPT ![m] = entrada[tarefa[t].caminho]]
  BY DEF Move
<1> HIDE DEF w
<1>7. \A n \in Nomes : Usado(n) => Usado(n)'
  BY <1>1, <1>3, <1>4 DEF Usado, Dono
<1>8. Usado(m)' /\ ~Usado(m)
  BY <1>1, <1>3, <1>5 DEF Usado, Dono
<1>9. \A n \in Nomes : processando'[n] = IF n = m THEN entrada[tarefa[t].caminho] ELSE processando[n]
  BY <1>6 DEF Tipado, TipoPastas
<1> QED
  BY <1>2, <1>7, <1>8, <1>9

(* Once used, a name stays used, and its file only leaves. *)
LEMMA ConteudoSoSai ==
  ASSUME Tipado, [Next]_vars, NEW n \in Nomes, Usado(n)
  PROVE  Usado(n)' /\ processando'[n] \in {processando[n], Nada}
<1>1. CASE \E t \in Tarefas : Move(t)
  <2>1. PICK t \in Tarefas : Move(t)
    BY <1>1
  <2> DEFINE m == NomeNovo(Dono(t))
  <2>2. PICK k : k = m
    OBVIOUS
  <2> HIDE DEF m
  <2>3. n # k /\ Usado(n)' /\ processando'[n] = processando[n]
    BY <2>1, <2>2, NomesNoMove DEF m
  <2> QED
    BY <2>3
<1>2. CASE ~(\E t \in Tarefas : Move(t))
  BY <1>2, SoMoveEncena DEF Usado, Dono
<1> QED
  BY <1>1, <1>2

(* The only events that join those on their way are of the two publications. *)
LEMMA FilaNoPasso ==
  ASSUME [Next]_vars, NEW e \in fila', e \notin fila
  PROVE  \/ \E t \in Tarefas : Publica(t) /\ e = Evento(tarefa[t].nome, tarefa[t].hash)
         \/ \E w \in Workers : RecuperaPublica(w) /\ e = Evento(recup[w].nome, recup[w].hash)
<1>1. CASE \/ \E p \in Caminhos, d \in Docs : Escreve(p, d)
           \/ Tick
           \/ \E w \in Workers : Queda(w) \/ Reinicia(w) \/ PassoScanner(w)
           \/ \E t \in Tarefas : ListenerRecebe(t)
           \/ \E f \in fila : ConsumidorRetira(f) \/ ConsumidorConfirma(f)
           \/ UNCHANGED vars
  BY <1>1 DEF Escreve, Tick, Queda, Reinicia, ListenerReinicia, ScannerReinicia, PassoScanner, ScannerLista,
     ScannerFiltra, ScannerDispara, ListenerRecebe, ConsumidorRetira, ConsumidorConfirma, publicacao, vars
<1>2. ASSUME NEW t \in Tarefas, PassoTarefa(t)
      PROVE  Publica(t) /\ e = Evento(tarefa[t].nome, tarefa[t].hash)
  BY <1>2 DEF PassoTarefa, ApagaZona, IgnoraDuplicado, Reivindica, Estabiliza, Move, FalhaAoMover, Publica,
     RegistraRecibo, Libera, TrataSemMover, Carimba, RejeitaEntrada, RejeitaNaoPublicado, publicacao, Aceita, Recusa
<1>3. ASSUME NEW w \in Workers, PassoInicio(w)
      PROVE  RecuperaPublica(w) /\ e = Evento(recup[w].nome, recup[w].hash)
  BY <1>3 DEF PassoInicio, Inicia, RecuperaEscolhe, RecuperaEstabiliza, RecuperaPublica, RecuperaRecibo, RecuperaLimpa, LimpaRecibo,
     RecuperaConclui, publicacao, Aceita, Recusa
<1> QED
  BY <1>1, <1>2, <1>3 DEF Next, NextSemConsumidor

(* A recovery publishes the entry it has chosen, and forgets it when it is interrupted. *)
LEMMA RecupNoPasso ==
  ASSUME Tipado, [Next]_vars, NEW w \in Workers, fase'[w] \in {"recEstabiliza", "recPublica"}
  PROVE  \/ fase'[w] = fase[w] /\ recup'[w] = recup[w]
         \/ fase'[w] = "recEstabiliza" /\ fase[w] = "recupera" /\ recup'[w].nome \in recup[w].resta
         \/ /\ fase'[w] = "recPublica" /\ fase[w] = "recEstabiliza"
            /\ recup'[w].nome = recup[w].nome /\ recup'[w].hash = processando[recup[w].nome]
            /\ processando' = processando
<1> USE DEF Tipado, TipoInicio
<1>1. ASSUME NEW v \in Workers, PassoInicio(v) \/ Queda(v), v # w
      PROVE  fase'[w] = fase[w] /\ recup'[w] = recup[w]
  BY <1>1 DEF PassoInicio, Inicia, RecuperaEscolhe, RecuperaEstabiliza, RecuperaPublica, RecuperaRecibo, RecuperaLimpa, LimpaRecibo,
     RecuperaConclui, Queda, Aborta
<1>2. CASE PassoInicio(w) \/ Queda(w)
  <2>1. CASE RecuperaEscolhe(w)
    BY <2>1 DEF RecuperaEscolhe, Aborta
  <2>2. CASE RecuperaEstabiliza(w)
    BY <2>2 DEF RecuperaEstabiliza, Aborta
  <2>3. CASE ~RecuperaEscolhe(w) /\ ~RecuperaEstabiliza(w)
    BY <1>2, <2>3 DEF PassoInicio, Inicia, RecuperaPublica, RecuperaRecibo, RecuperaLimpa, LimpaRecibo,
       RecuperaConclui, Queda, Aborta
  <2> QED
    BY <2>1, <2>2, <2>3
<1>3. ASSUME UNCHANGED <<fase, recup>> PROVE fase'[w] = fase[w] /\ recup'[w] = recup[w]
  BY <1>3
<1>4. CASE \/ \E p \in Caminhos, d \in Docs : Escreve(p, d)
           \/ Tick
           \/ \E v \in Workers : Reinicia(v)
           \/ \E f \in fila : ConsumidorRetira(f) \/ ConsumidorConfirma(f)
           \/ UNCHANGED vars
  <2>1. UNCHANGED <<fase, recup>>
    BY <1>4 DEF Escreve, Tick, Reinicia, ListenerReinicia, ScannerReinicia, ConsumidorRetira,
       ConsumidorConfirma, vars
  <2> QED
    BY <1>3, <2>1
<1>5. CASE \/ \E t \in Tarefas : ListenerRecebe(t) \/ PassoTarefa(t)
           \/ \E v \in Workers : PassoScanner(v)
  BY <1>3, <1>5, SoDispara, LimitesNoPasso
<1> QED
  BY <1>1, <1>2, <1>4, <1>5 DEF Next, NextSemConsumidor

(* Its entries are those of the folder when it was opened, and only grow fewer. *)
LEMMA RestaNoPasso ==
  ASSUME Tipado, [Next]_vars, NEW w \in Workers, fase'[w] \in NaPassada
  PROVE  \/ fase[w] \in NaPassada /\ recup'[w].resta \subseteq recup[w].resta
         \/ recup'[w].resta = Encenados(w)
<1> USE DEF Tipado, TipoInicio, NaPassada
<1>1. ASSUME NEW v \in Workers, PassoInicio(v) \/ Queda(v), v # w
      PROVE  fase'[w] = fase[w] /\ recup'[w] = recup[w]
  BY <1>1, SoUmInicia DEF Queda, Aborta
<1>2. CASE PassoInicio(w) \/ Queda(w)
  <2>1. CASE Inicia(w)
    BY <2>1 DEF Inicia, Passada
  <2>2. CASE RecuperaEscolhe(w)
    BY <2>2 DEF RecuperaEscolhe, Aborta
  <2>3. CASE ~Inicia(w) /\ ~RecuperaEscolhe(w)
    BY <1>2, <2>3 DEF PassoInicio, RecuperaEstabiliza, RecuperaPublica, RecuperaRecibo, RecuperaLimpa,
       LimpaRecibo, RecuperaConclui, Queda, Aborta
  <2> QED
    BY <2>1, <2>2, <2>3
<1>3. CASE UNCHANGED <<fase, recup>>
  BY <1>3
<1>4. CASE \/ \E p \in Caminhos, d \in Docs : Escreve(p, d)
           \/ Tick
           \/ \E v \in Workers : Reinicia(v)
           \/ \E f \in fila : ConsumidorRetira(f) \/ ConsumidorConfirma(f)
           \/ UNCHANGED vars
  <2>1. UNCHANGED <<fase, recup>>
    BY <1>4 DEF Escreve, Tick, Reinicia, ListenerReinicia, ScannerReinicia, ConsumidorRetira,
       ConsumidorConfirma, vars
  <2> QED
    BY <1>3, <2>1
<1>5. CASE \/ \E t \in Tarefas : ListenerRecebe(t) \/ PassoTarefa(t)
           \/ \E v \in Workers : PassoScanner(v)
  BY <1>3, <1>5, SoDispara, LimitesNoPasso
<1> QED
  BY <1>1, <1>2, <1>4, <1>5 DEF Next, NextSemConsumidor

LEMMA NomesUsadosPreservados == Base /\ NomesUsados /\ [Next]_vars => NomesUsados'
<1> SUFFICES ASSUME Base, NomesUsados, [Next]_vars PROVE NomesUsados'
  OBVIOUS
<1> USE DEF Base
<1>1. \A n \in Nomes : processando'[n] # Nada => Usado(n)'
  <2> SUFFICES ASSUME NEW n \in Nomes, processando'[n] # Nada PROVE Usado(n)'
    OBVIOUS
  <2>1. CASE processando[n] # Nada
    BY <2>1, ConteudoSoSai DEF NomesUsados
  <2>2. CASE processando[n] = Nada
    <3>1. PICK t \in Tarefas : Move(t)
      BY <2>2, SoMoveEncena
    <3>2. PICK k : k = NomeNovo(Dono(t))
      OBVIOUS
    <3> QED
      BY <2>2, <3>1, <3>2, NomesNoMove
  <2> QED
    BY <2>1, <2>2
<1>2. \A e \in fila' : Usado(e.nome)'
  <2> SUFFICES ASSUME NEW e \in fila' PROVE Usado(e.nome)'
    OBVIOUS
  <2>1. e.nome \in Nomes
    BY TipadoPreservado DEF Tipado, TipoPublicacao
  <2>2. CASE e \in fila
    BY <2>1, <2>2, ConteudoSoSai DEF NomesUsados
  <2>3. CASE e \notin fila
    <3>1. Usado(e.nome)
      BY <2>1, <2>3, FilaNoPasso, NomeDeTarefaUsado DEF NomesUsados, Evento, RecuperaPublica
    <3> QED
      BY <2>1, <3>1, ConteudoSoSai
  <2> QED
    BY <2>2, <2>3
<1>3. \A w \in Workers : fase'[w] \in {"recEstabiliza", "recPublica"} => Usado(recup[w].nome)'
  <2> SUFFICES ASSUME NEW w \in Workers, fase'[w] \in {"recEstabiliza", "recPublica"}
               PROVE  Usado(recup[w].nome)'
    OBVIOUS
  <2>1. PICK n : n = recup'[w].nome
    OBVIOUS
  <2>2. n \in Nomes /\ Usado(n)
    <3>1. fase[w] \in NaPassada => \A k \in recup[w].resta : k \in Nomes /\ Usado(k)
      BY DEF NomesUsados, Tipado, TipoInicio
    <3>2. fase[w] \in {"recEstabiliza", "recPublica"} => recup[w].nome \in Nomes /\ Usado(recup[w].nome)
      BY DEF NomesUsados, Tipado, RecupsCoerentes, RecupCoerente
    <3>3. \/ n = recup[w].nome /\ fase[w] \in {"recEstabiliza", "recPublica"}
          \/ n \in recup[w].resta /\ fase[w] \in NaPassada
      BY <2>1, RecupNoPasso DEF NaPassada
    <3> QED
      BY <3>1, <3>2, <3>3
  <2>3. Usado(n)'
    BY <2>2, ConteudoSoSai
  <2> QED
    BY <2>1, <2>3 DEF Usado
<1>4. \A w \in Workers : fase'[w] \in NaPassada => \A n \in recup'[w].resta : Dono(n) = w /\ Usado(n)'
  <2> SUFFICES ASSUME NEW w \in Workers, fase'[w] \in NaPassada, NEW n \in recup'[w].resta
               PROVE  Dono(n) = w /\ Usado(n)'
    OBVIOUS
  <2>1. \A k \in Encenados(w) : k \in Nomes /\ Dono(k) = w /\ Usado(k)
    BY DEF NomesUsados, Encenados
  <2>2. n \in Nomes /\ Dono(n) = w /\ Usado(n)
    BY <2>1, RestaNoPasso DEF NomesUsados, Tipado, TipoInicio
  <2> QED
    BY <2>2, ConteudoSoSai
<1> QED
  BY <1>1, <1>2, <1>3, <1>4, Zenon DEF NomesUsados

LEMMA NomesUsadosIniciais == Init => NomesUsados
BY DEF Init, NomesUsados, NaPassada

LEMMA NomesSempreUsados == Spec => [](Base /\ NomesUsados)
<1>1. Spec => []Base
  BY BaseInicial, BasePreservada, PTL DEF Spec
<1> QED
  BY <1>1, NomesUsadosIniciais, NomesUsadosPreservados, PTL DEF Spec

-----------------------------------------------------------------------------
(* Nothing vanishes.  A rename replaces a file only where one of the same name is: in staging no
   name is used twice; in erro/ and ignorados/ the name is the millisecond and the bare file name. *)
Repoe(novo) == {r \in fora : ~MesmoNome(r, novo)} \cup {novo}

(* What the two rejections do to the folders. *)
LEMMA RejeicaoNoPasso ==
  ASSUME Base, NEW t \in Tarefas, RejeitaEntrada(t) \/ RejeitaNaoPublicado(t)
  PROVE  \/ UNCHANGED <<entrada, processando, fora>>
         \/ \E p \in Caminhos, novo \in Registro :
              /\ novo.origem = p /\ novo.doc = entrada[p] /\ fora' = Repoe(novo)
              /\ entrada' = [entrada EXCEPT ![p] = Nada] /\ processando' = processando
         \/ \E n \in Nomes, novo \in Registro :
              /\ novo.origem = n /\ novo.doc = processando[n] /\ fora' = Repoe(novo)
              /\ processando' = [processando EXCEPT ![n] = Nada] /\ entrada' = entrada
<1> USE DEF Base, Tipado, TipoPastas
<1>1. tarefa[t].ts \in 0..MaxTicks
  BY DEF TipoTarefas, Tarefa
<1>2. CASE RejeitaEntrada(t)
  <2>1. PICK p \in Caminhos : p = tarefa[t].caminho
    BY <1>2 DEF RejeitaEntrada, TarefasCoerentes, RegistroCoerente
  <2>2. PICK pasta \in {"erro", "ignorados"} : pasta = PastaDe(tarefa[t].erro)
    BY DEF PastaDe
  <2>3. CASE /\ entrada[p] # Nada /\ Deposita(pasta, tarefa[t].ts, p, entrada[p])
             /\ entrada' = [entrada EXCEPT ![p] = Nada]
    <3> DEFINE novo == [pasta |-> pasta, ts |-> tarefa[t].ts, origem |-> p, doc |-> entrada[p]]
    <3>1. novo \in Registro
      BY <1>1, <2>3 DEF Registro
    <3>2. fora' = Repoe(novo)
      BY <2>3 DEF Deposita, Repoe
    <3>3. processando' = processando
      BY <1>2 DEF RejeitaEntrada
    <3> QED
      BY <2>3, <3>1, <3>2, <3>3
  <2>4. CASE UNCHANGED <<entrada, fora>>
    BY <1>2, <2>4 DEF RejeitaEntrada
  <2> QED
    BY <1>2, <2>1, <2>2, <2>3, <2>4 DEF RejeitaEntrada
<1>3. CASE RejeitaNaoPublicado(t)
  <2>1. PICK n \in Nomes : n = tarefa[t].nome
    BY <1>3 DEF RejeitaNaoPublicado, TarefasCoerentes, RegistroCoerente
  <2>2. CASE processando[n] # Nada /\ Deposita("erro", tarefa[t].ts, n, processando[n])
             /\ processando' = [processando EXCEPT ![n] = Nada]
    <3> DEFINE novo == [pasta |-> "erro", ts |-> tarefa[t].ts, origem |-> n, doc |-> processando[n]]
    <3>1. novo \in Registro
      BY <1>1, <2>2 DEF Registro
    <3>2. fora' = Repoe(novo)
      BY <2>2 DEF Deposita, Repoe
    <3>3. entrada' = entrada
      BY <1>3 DEF RejeitaNaoPublicado
    <3> QED
      BY <2>2, <3>1, <3>2, <3>3
  <2>3. CASE UNCHANGED <<processando, fora>>
    BY <1>3, <2>3 DEF RejeitaNaoPublicado
  <2> QED
    BY <1>3, <2>1, <2>2, <2>3 DEF RejeitaNaoPublicado
<1> QED
  BY <1>2, <1>3

(* The steps that move documents. *)
LEMMA PassosDoWatcher ==
  ASSUME Tipado, NextSemConsumidor \/ UNCHANGED vars
  PROVE  \/ UNCHANGED <<entrada, escritos, processando, fora>>
         \/ \E p \in Caminhos, d \in Docs : Escreve(p, d)
         \/ Tick
         \/ \E t \in Tarefas : ApagaZona(t) \/ Move(t) \/ RejeitaEntrada(t) \/ RejeitaNaoPublicado(t)
<1>1. ASSUME NEW t \in Tarefas, PassoTarefa(t)
      PROVE  \/ UNCHANGED <<entrada, escritos, processando, fora>>
             \/ ApagaZona(t) \/ Move(t) \/ RejeitaEntrada(t) \/ RejeitaNaoPublicado(t)
  BY <1>1 DEF PassoTarefa, IgnoraDuplicado, Reivindica, Estabiliza, FalhaAoMover, Publica, RegistraRecibo,
     Libera, TrataSemMover, Carimba
<1>2. CASE \/ \E t \in Tarefas : ListenerRecebe(t)
           \/ \E w \in Workers : PassoScanner(w) \/ Reinicia(w)
  BY <1>2 DEF ListenerRecebe, PassoScanner, ScannerLista, ScannerFiltra, ScannerDispara, Reinicia,
     ListenerReinicia, ScannerReinicia
<1>3. CASE \E w \in Workers : PassoInicio(w) \/ Queda(w)
  BY <1>3 DEF PassoInicio, Inicia, RecuperaEscolhe, RecuperaEstabiliza, RecuperaPublica, RecuperaRecibo, RecuperaLimpa, LimpaRecibo,
     RecuperaConclui, Queda
<1>4. CASE UNCHANGED vars
  BY <1>4 DEF vars
<1> QED
  BY <1>1, <1>2, <1>3, <1>4 DEF NextSemConsumidor

(* The watcher forgets no event and takes back nothing that was consumed. *)
LEMMA WatcherSoAcrescenta ==
  ASSUME NextSemConsumidor
  PROVE  fila \subseteq fila' /\ consumidos' = consumidos
<1>1. CASE \/ \E p \in Caminhos, d \in Docs : Escreve(p, d)
           \/ Tick
           \/ \E w \in Workers : Queda(w) \/ Reinicia(w) \/ PassoScanner(w)
           \/ \E t \in Tarefas : ListenerRecebe(t)
  BY <1>1 DEF Escreve, Tick, Queda, Reinicia, ListenerReinicia, ScannerReinicia, PassoScanner, ScannerLista,
     ScannerFiltra, ScannerDispara, ListenerRecebe, publicacao
<1>2. CASE \E t \in Tarefas : PassoTarefa(t)
  BY <1>2 DEF PassoTarefa, ApagaZona, IgnoraDuplicado, Reivindica, Estabiliza, Move, FalhaAoMover, Publica,
     RegistraRecibo, Libera, TrataSemMover, Carimba, RejeitaEntrada, RejeitaNaoPublicado, publicacao, Aceita, Recusa
<1>3. CASE \E w \in Workers : PassoInicio(w)
  BY <1>3 DEF PassoInicio, Inicia, RecuperaEscolhe, RecuperaEstabiliza, RecuperaPublica, RecuperaRecibo, RecuperaLimpa, LimpaRecibo,
     RecuperaConclui, publicacao, Aceita, Recusa
<1> QED
  BY <1>1, <1>2, <1>3 DEF NextSemConsumidor

LEMMA PassosSobrePastas ==
  ASSUME Tipado, [Next]_vars
  PROVE  \/ UNCHANGED <<entrada, escritos, processando, fora>>
         \/ \E p \in Caminhos, d \in Docs : Escreve(p, d)
         \/ Tick
         \/ \E t \in Tarefas : ApagaZona(t) \/ Move(t) \/ RejeitaEntrada(t) \/ RejeitaNaoPublicado(t)
         \/ \E e \in fila : ConsumidorRetira(e)
<1>1. CASE \E e \in fila : ConsumidorConfirma(e)
  BY <1>1 DEF ConsumidorConfirma
<1> QED
  BY <1>1, PassosDoWatcher DEF Next

(* Where a document goes. *)
NaPasta(d) ==
  \/ \E p \in Caminhos : entrada[p] = d
  \/ \E n \in Nomes : processando[n] = d
  \/ \E r \in fora : r.doc = d

(* How a document leaves all of them: its producer, or ApagaZona, ... *)
PeloProdutor(d) == \E p \in Caminhos : entrada[p] = d /\ (p \in Zona \/ escritos' # escritos)

(* ... or another file that was rejected under the same name. *)
PorRejeicao(d) == \E r \in fora \ fora', s \in fora' : r.doc = d /\ MesmoNome(r, s)

LEMMA PastaNoWatcher ==
  ASSUME Base, NomesUsados, NextSemConsumidor \/ UNCHANGED vars, NEW d \in Docs, NaPasta(d), ~NaPasta(d)'
  PROVE  PeloProdutor(d) \/ PorRejeicao(d)
<1> USE DEF Base, Tipado, TipoPastas
<1>1. CASE UNCHANGED <<entrada, escritos, processando, fora>>
  BY <1>1 DEF NaPasta
<1>2. ASSUME NEW p \in Caminhos, NEW c \in Docs, Escreve(p, c) PROVE PeloProdutor(d)
  <2>1. escritos' # escritos
    <3>1. escritos[c] \in Nat /\ escritos'[c] = escritos[c] + 1
      BY <1>2 DEF Escreve
    <3> QED
      BY <3>1
  <2>2. entrada[p] = d
    BY <1>2 DEF Escreve, NaPasta
  <2> QED
    BY <2>1, <2>2 DEF PeloProdutor
<1>3. CASE Tick
  BY <1>3 DEF Tick, NaPasta
<1>4. ASSUME NEW t \in Tarefas, ApagaZona(t) PROVE PeloProdutor(d)
  <2>1. tarefa[t].caminho \in Zona /\ tarefa[t].caminho \in Caminhos
    BY <1>4, CaminhosAssumption DEF ApagaZona
  <2> QED
    BY <1>4, <2>1 DEF ApagaZona, NaPasta, PeloProdutor
<1>5. ASSUME NEW t \in Tarefas, Move(t) PROVE FALSE
  <2>1. PICK m : m = NomeNovo(Dono(t))
    OBVIOUS
  <2>2. /\ m \in Nomes /\ ~Usado(m)
        /\ \A n \in Nomes : processando'[n] = IF n = m THEN entrada[tarefa[t].caminho] ELSE processando[n]
    BY <1>5, <2>1, NomesNoMove
  <2>3. processando[m] = Nada
    BY <2>2 DEF NomesUsados
  <2>4. /\ tarefa[t].caminho \in Caminhos /\ entrada' = [entrada EXCEPT ![tarefa[t].caminho] = Nada]
        /\ fora' = fora
    BY <1>5 DEF Move, TarefasCoerentes, RegistroCoerente
  <2>5. d # Nada
    BY NadaAssumption
  <2> QED
    BY <2>2, <2>3, <2>4, <2>5 DEF NaPasta
<1>6. ASSUME NEW t \in Tarefas, RejeitaEntrada(t) \/ RejeitaNaoPublicado(t) PROVE PorRejeicao(d)
  <2>1. ASSUME NEW novo, fora' = Repoe(novo), \E r \in fora : r.doc = d PROVE PorRejeicao(d)
    BY <2>1 DEF Repoe, PorRejeicao, NaPasta
  <2>2. CASE UNCHANGED <<entrada, processando, fora>>
    BY <2>2 DEF NaPasta
  <2>3. ASSUME NEW p \in Caminhos, NEW novo, novo.doc = entrada[p], fora' = Repoe(novo),
               entrada' = [entrada EXCEPT ![p] = Nada], processando' = processando
        PROVE \E r \in fora : r.doc = d
    BY <2>3 DEF NaPasta, Repoe
  <2>4. ASSUME NEW n \in Nomes, NEW novo, novo.doc = processando[n], fora' = Repoe(novo),
               processando' = [processando EXCEPT ![n] = Nada], entrada' = entrada
        PROVE \E r \in fora : r.doc = d
    BY <2>4 DEF NaPasta, Repoe
  <2> QED
    BY <1>6, <2>1, <2>2, <2>3, <2>4, RejeicaoNoPasso
<1> QED
  BY <1>1, <1>2, <1>3, <1>4, <1>5, <1>6, PassosDoWatcher

LEMMA GuardadoNoPasso ==
  ASSUME Base, NomesUsados, [Next]_vars, NEW d \in Docs, Guardado(d), ~Guardado(d)'
  PROVE  PeloProdutor(d) \/ PorRejeicao(d)
<1>1. (Guardado(d) <=> NaPasta(d) \/ d \in consumidos) /\ (Guardado(d)' <=> NaPasta(d)' \/ d \in consumidos')
  BY DEF Guardado, NaPasta
<1>2. CASE NextSemConsumidor \/ UNCHANGED vars
  <2>1. consumidos' = consumidos
    BY <1>2, WatcherSoAcrescenta DEF vars
  <2> QED
    BY <1>1, <1>2, <2>1, PastaNoWatcher
<1>3. ASSUME NEW e \in fila, ConsumidorRetira(e) PROVE FALSE
  <2>1. e.nome \in Nomes
    BY DEF Base, Tipado, TipoPublicacao
  <2> QED
    BY <1>3, <2>1 DEF ConsumidorRetira, Guardado, Base, Tipado, TipoPastas
<1>4. ASSUME NEW e \in fila, ConsumidorConfirma(e) PROVE FALSE
  BY <1>4 DEF ConsumidorConfirma, Guardado
<1> QED
  BY <1>2, <1>3, <1>4 DEF Next

(* For any number of workers, failures and crashes a document leaves a folder only into another
   one or into the consumer's hands, unless its producer writes over it, or its name marks it as
   Zone.Identifier metadata, or it lies rejected and a file with the same bare name is rejected
   under the same millisecond (the renames of file_ops.rs and watcher.rs). *)
THEOREM NadaSeSobrescreveSempre == Spec => NadaSeSobrescreve
<1>1. Base /\ NomesUsados /\ [Next]_vars =>
        [\A d \in Docs : Guardado(d) /\ ~Guardado(d)' =>
           \/ \E p \in Caminhos : entrada[p] = d /\ (p \in Zona \/ escritos' # escritos)
           \/ \E r \in fora \ fora', s \in fora' : r.doc = d /\ MesmoNome(r, s)]_vars
  BY GuardadoNoPasso DEF PeloProdutor, PorRejeicao
<1> QED
  BY <1>1, NomesSempreUsados, PTL DEF Spec, NadaSeSobrescreve

(* No two paths have the same bare name, and none looks like a staging name. *)
NomesDistintos ==
  /\ \A p, q \in Caminhos : BaseDe[p] = BaseDe[q] => p = q
  /\ \A p \in Caminhos : BaseDe[p] \notin Nomes /\ p \notin Nomes

(* A staged file that was rejected is the only one its staging name was ever used for. *)
ForaPorNome == \A r \in fora : r.origem \in Nomes => processando[r.origem] = Nada /\ Usado(r.origem)

LEMMA ForaPorNomePreservado ==
  ASSUME NomesDistintos, Base, NomesUsados, ForaPorNome, [Next]_vars
  PROVE  ForaPorNome'
<1> USE DEF Base, Tipado, TipoPastas
<1>1. \A n \in Nomes : Usado(n) => Usado(n)'
  BY ConteudoSoSai
<1>2. ASSUME UNCHANGED <<processando, fora>> PROVE ForaPorNome'
  BY <1>1, <1>2 DEF ForaPorNome
<1>3. ASSUME NEW t \in Tarefas, Move(t) PROVE ForaPorNome'
  <2>1. PICK m : m = NomeNovo(Dono(t))
    OBVIOUS
  <2>2. /\ m \in Nomes /\ ~Usado(m)
        /\ \A n \in Nomes : processando'[n] = IF n = m THEN entrada[tarefa[t].caminho] ELSE processando[n]
    BY <1>3, <2>1, NomesNoMove
  <2>3. fora' = fora
    BY <1>3 DEF Move
  <2> QED
    BY <1>1, <2>2, <2>3 DEF ForaPorNome
<1>4. ASSUME NEW t \in Tarefas, RejeitaEntrada(t) \/ RejeitaNaoPublicado(t) PROVE ForaPorNome'
  <2>1. ASSUME NEW p \in Caminhos, NEW novo \in Registro, novo.origem = p, fora' = Repoe(novo),
               processando' = processando
        PROVE  ForaPorNome'
    BY <1>1, <2>1 DEF ForaPorNome, Repoe, NomesDistintos
  <2>2. ASSUME NEW n \in Nomes, NEW novo \in Registro, novo.origem = n, novo.doc = processando[n],
               fora' = Repoe(novo), processando' = [processando EXCEPT ![n] = Nada]
        PROVE  ForaPorNome'
    <3>1. processando[n] # Nada
      BY <2>2, NadaAssumption DEF Registro
    <3>2. Usado(n)
      BY <3>1 DEF NomesUsados
    <3>3. \A k \in Nomes : processando'[k] = IF k = n THEN Nada ELSE processando[k]
      BY <2>2
    <3> QED
      BY <1>1, <2>2, <3>2, <3>3 DEF ForaPorNome, Repoe
  <2> QED
    BY <1>2, <1>4, <2>1, <2>2, RejeicaoNoPasso
<1>5. CASE \/ Tick
           \/ \E p \in Caminhos, d \in Docs : Escreve(p, d)
           \/ \E t \in Tarefas : ApagaZona(t)
  BY <1>2, <1>5 DEF Tick, Escreve, ApagaZona
<1>6. ASSUME NEW e \in fila, ConsumidorRetira(e) PROVE ForaPorNome'
  BY <1>1, <1>6 DEF ConsumidorRetira, ForaPorNome
<1> QED
  BY <1>2, <1>3, <1>4, <1>5, <1>6, PassosSobrePastas

LEMMA ForaPorNomeSempre == NomesDistintos => (Spec => [](Base /\ NomesUsados /\ ForaPorNome))
<1> SUFFICES ASSUME NomesDistintos PROVE Spec => [](Base /\ NomesUsados /\ ForaPorNome)
  OBVIOUS
<1>1. Init => ForaPorNome
  BY DEF Init, ForaPorNome
<1>2. Base /\ NomesUsados /\ ForaPorNome /\ [Next]_vars => ForaPorNome'
  BY ForaPorNomePreservado
<1> QED
  BY <1>1, <1>2, NomesSempreUsados, PTL DEF Spec

(* Then only a file that is rejected from the landing zone takes the name of another, one that was
   rejected from the same path. *)
LEMMA RejeicaoRepetida ==
  ASSUME NomesDistintos, Base, ForaPorNome, [Next]_vars, NEW d \in Docs, PorRejeicao(d)
  PROVE  \E t \in Tarefas, r \in fora, s \in fora' :
           /\ RejeitaEntrada(t) /\ r.doc = d
           /\ r.origem \in Caminhos /\ s.doc = entrada[r.origem]
<1> USE DEF Base, Tipado, TipoPastas
<1>1. fora' # fora
  BY DEF PorRejeicao
<1>2. PICK t \in Tarefas : RejeitaEntrada(t) \/ RejeitaNaoPublicado(t)
  BY <1>1, PassosSobrePastas DEF Tick, Escreve, ApagaZona, Move, ConsumidorRetira
<1>3. ASSUME NEW novo \in Registro, fora' = Repoe(novo)
      PROVE  \E r \in fora : r.doc = d /\ MesmoNome(r, novo) /\ r.origem \in Caminhos \cup Nomes /\ novo \in fora'
  BY <1>3 DEF PorRejeicao, Repoe, Registro
<1>4. ASSUME NEW p \in Caminhos, NEW novo \in Registro, novo.origem = p, novo.doc = entrada[p],
             fora' = Repoe(novo), entrada' = [entrada EXCEPT ![p] = Nada]
      PROVE  RejeitaEntrada(t) /\ \E r \in fora, s \in fora' : r.doc = d /\ r.origem \in Caminhos /\ s.doc = entrada[r.origem]
  <2>1. PICK r \in fora : r.doc = d /\ MesmoNome(r, novo) /\ r.origem \in Caminhos \cup Nomes /\ novo \in fora'
    BY <1>3, <1>4
  <2>2. r.origem = p
    BY <1>4, <2>1 DEF MesmoNome, NomeBase, NomesDistintos
  <2>3. entrada' # entrada
    BY <1>4, NadaAssumption DEF Registro
  <2> QED
    BY <1>2, <1>4, <2>1, <2>2, <2>3 DEF RejeitaNaoPublicado
<1>5. ASSUME NEW n \in Nomes, NEW novo \in Registro, novo.origem = n, novo.doc = processando[n], fora' = Repoe(novo)
      PROVE  FALSE
  <2>1. PICK r \in fora : MesmoNome(r, novo) /\ r.origem \in Caminhos \cup Nomes
    BY <1>3, <1>5
  <2>2. r.origem = n
    BY <1>5, <2>1 DEF MesmoNome, NomeBase, NomesDistintos
  <2>3. processando[n] # Nada
    BY <1>5, NadaAssumption DEF Registro
  <2> QED
    BY <2>2, <2>3 DEF ForaPorNome
<1> QED
  BY <1>1, <1>2, <1>4, <1>5, RejeicaoNoPasso

-----------------------------------------------------------------------------
(* The announced hash.  Between the reading of a file and its rename the path must not get another
   content: then the hash that is announced is that of the file, whoever else moves it away. *)
Intactos ==
  \A t \in Tarefas : tarefa[t].fase = "move" => entrada[tarefa[t].caminho] \in {tarefa[t].hash, Nada}

CapturaDasPublicacoes ==
  \A t \in Tarefas : tarefa[t].fase = "publica" => processando[tarefa[t].nome] \in {tarefa[t].hash, Nada}

CapturaDaRecuperacao ==
  \A w \in Workers : fase[w] = "recPublica" => processando[recup[w].nome] \in {recup[w].hash, Nada}

Capturas == CapturaDasPublicacoes /\ CapturaDaRecuperacao /\ CapturaFiel

(* A task that takes no step goes on as it was, or is new, or died. *)
LEMMA TarefaParada ==
  ASSUME Tipado, [Next]_vars, NEW t \in Tarefas, ~PassoTarefa(t)
  PROVE  \/ tarefa'[t] = tarefa[t]
         \/ tarefa'[t].fase \in {"livre", "espera"} /\ tarefa'[t].erro = "nenhum" /\ tarefa'[t].tent = 0
<1> USE DEF Tipado, TipoTarefas
<1>1. ASSUME NEW u \in Tarefas, PassoTarefa(u) PROVE tarefa'[t] = tarefa[t]
  BY <1>1, OutrasTarefas
<1>2. CASE \/ \E u \in Tarefas : ListenerRecebe(u)
           \/ \E w \in Workers : PassoScanner(w)
  BY <1>2, SoDispara DEF Dispara, Livre
<1>3. CASE \E w \in Workers : Queda(w)
  BY <1>3 DEF Queda, Livre
<1>4. CASE \/ \E p \in Caminhos, d \in Docs : Escreve(p, d)
           \/ Tick
           \/ \E w \in Workers : PassoInicio(w) \/ Reinicia(w)
           \/ \E e \in fila : ConsumidorRetira(e) \/ ConsumidorConfirma(e)
           \/ UNCHANGED vars
  BY <1>4 DEF Escreve, Tick, PassoInicio, Inicia, RecuperaEscolhe, RecuperaEstabiliza, RecuperaPublica,
     RecuperaRecibo, RecuperaLimpa, LimpaRecibo, RecuperaConclui, Reinicia, ListenerReinicia, ScannerReinicia, ConsumidorRetira,
     ConsumidorConfirma, vars
<1> QED
  BY <1>1, <1>2, <1>3, <1>4 DEF Next, NextSemConsumidor

(* A task comes to its publication by its rename alone. *)
LEMMA SoMovePublica ==
  ASSUME Tipado, [Next]_vars, NEW t \in Tarefas, tarefa'[t].fase = "publica"
  PROVE  tarefa'[t] = tarefa[t] \/ Move(t)
<1>1. CASE PassoTarefa(t)
  BY <1>1 DEF PassoTarefa, ApagaZona, IgnoraDuplicado, Reivindica, Estabiliza, FalhaAoMover, Publica,
     RegistraRecibo, Libera, TrataSemMover, Carimba, RejeitaEntrada, RejeitaNaoPublicado, Termina, Desiste, Livre,
     Tipado, TipoTarefas, Tarefa
<1>2. CASE ~PassoTarefa(t)
  BY <1>2, TarefaParada
<1> QED
  BY <1>1, <1>2

LEMMA CapturasPreservadas ==
  Intactos /\ Base /\ NomesUsados /\ Capturas /\ [Next]_vars => Capturas'
<1> SUFFICES ASSUME Intactos, Base, NomesUsados, Capturas, [Next]_vars PROVE Capturas'
  OBVIOUS
<1> USE DEF Base, Capturas
<1>1. ASSUME NEW t \in Tarefas, tarefa'[t].fase = "publica"
      PROVE  processando'[tarefa'[t].nome] \in {tarefa'[t].hash, Nada}
  <2>1. CASE Move(t)
    <3>1. PICK m : m = NomeNovo(Dono(t))
      OBVIOUS
    <3>2. m \in Nomes /\ processando'[m] = entrada[tarefa[t].caminho]
      BY <2>1, <3>1, NomesNoMove
    <3>3. tarefa[t].fase = "move" /\ tarefa'[t].nome = m /\ tarefa'[t].hash = tarefa[t].hash
      BY <2>1, <3>1 DEF Move, Tipado, TipoTarefas, Tarefa
    <3> QED
      BY <3>2, <3>3 DEF Intactos
  <2>2. CASE tarefa'[t] = tarefa[t]
    <3>1. tarefa[t].nome \in Nomes
      BY <1>1, <2>2 DEF Tipado, TarefasCoerentes, RegistroCoerente
    <3>2. processando'[tarefa[t].nome] \in {processando[tarefa[t].nome], Nada}
      BY <3>1, ConteudoSoSai, NomeDeTarefaUsado
    <3> QED
      BY <1>1, <2>2, <3>2 DEF CapturaDasPublicacoes
  <2> QED
    BY <1>1, <2>1, <2>2, SoMovePublica
<1>2. CapturaDaRecuperacao'
  <2> SUFFICES ASSUME NEW w \in Workers, fase'[w] = "recPublica"
               PROVE  processando'[recup'[w].nome] \in {recup'[w].hash, Nada}
    BY DEF CapturaDaRecuperacao
  <2>1. /\ recup'[w].nome = recup[w].nome /\ fase[w] \in {"recEstabiliza", "recPublica"}
        /\ processando[recup[w].nome] \in {recup'[w].hash, Nada}
    BY RecupNoPasso DEF CapturaDaRecuperacao
  <2>2. recup[w].nome \in Nomes /\ Usado(recup[w].nome)
    BY <2>1 DEF NomesUsados, Tipado, RecupsCoerentes, RecupCoerente
  <2> QED
    BY <2>1, <2>2, ConteudoSoSai
<1>3. CapturaFiel'
  <2> SUFFICES ASSUME NEW e \in fila' PROVE processando'[e.nome] \in {e.hash, Nada}
    BY DEF CapturaFiel
  <2>1. e.nome \in Nomes
    BY TipadoPreservado DEF Tipado, TipoPublicacao
  <2>2. CASE e \in fila
    BY <2>1, <2>2, ConteudoSoSai DEF NomesUsados, CapturaFiel
  <2>3. ASSUME NEW t \in Tarefas, Publica(t), e = Evento(tarefa[t].nome, tarefa[t].hash)
        PROVE  processando'[e.nome] \in {e.hash, Nada}
    BY <2>1, <2>3, ConteudoSoSai, NomeDeTarefaUsado DEF Publica, Evento, CapturaDasPublicacoes
  <2>4. ASSUME NEW w \in Workers, RecuperaPublica(w), e = Evento(recup[w].nome, recup[w].hash)
        PROVE  processando'[e.nome] \in {e.hash, Nada}
    BY <2>1, <2>4, ConteudoSoSai DEF RecuperaPublica, Evento, NomesUsados, CapturaDaRecuperacao
  <2> QED
    BY <2>2, <2>3, <2>4, FilaNoPasso
<1> QED
  BY <1>1, <1>2, <1>3 DEF CapturaDasPublicacoes

LEMMA CapturasIniciais == Init => Capturas
BY DEF Init, Capturas, CapturaDasPublicacoes, CapturaDaRecuperacao, CapturaFiel, Livre

LEMMA CapturasDeIntactos == Spec /\ []Intactos => [](Base /\ NomesUsados /\ Capturas)
<1>1. Intactos /\ Base /\ NomesUsados /\ Capturas /\ [Next]_vars => Capturas'
  BY CapturasPreservadas
<1> QED
  BY <1>1, CapturasIniciais, NomesSempreUsados, PTL DEF Spec

(* In every behaviour in which a path does not get another content between its last reading and the
   rename, the hash each event announces is that of the file it names, for any number of workers and
   through failures, crashes and recoveries (processar_arquivo, mover_atomico_com_retry). *)
THEOREM CapturaFielIntactos == Spec /\ []Intactos => []CapturaFiel
<1>1. Capturas => CapturaFiel
  BY DEF Capturas
<1> QED
  BY <1>1, CapturasDeIntactos, PTL

-----------------------------------------------------------------------------
(* One publisher.  A staging name is in the hands of one task, or of the recovery of its worker,
   which runs while the worker has no task; so a name whose publication is still open, or was
   refused, has not been accepted. *)
NomesDeUm ==
  /\ \A t, u \in Tarefas : tarefa[t].nome # Nada /\ tarefa[t].nome = tarefa[u].nome => t = u
  /\ \A w \in Workers : fase[w] \in {"recEstabiliza", "recPublica", "recRecibo"} => Dono(recup[w].nome) = w

NaoAceita(r) == r.fase = "publica" \/ (r.fase \in {"libera", "trata", "rejeita"} /\ r.erro = "publicacao")

AceitosCertos ==
  /\ \A n \in aceitos : Usado(n)
  /\ \A t \in Tarefas : NaoAceita(tarefa[t]) => tarefa[t].nome \notin aceitos

UmSoPublica == NomesDeUm /\ AceitosCertos

(* A task gets a name by its rename alone. *)
LEMMA NomeDaTarefa ==
  ASSUME Base, [Next]_vars, NEW t \in Tarefas, ~Move(t)
  PROVE  tarefa'[t].nome \in {tarefa[t].nome, Nada}
<1>1. CASE PassoTarefa(t)
  BY <1>1 DEF PassoTarefa, ApagaZona, IgnoraDuplicado, Reivindica, Estabiliza, FalhaAoMover, Publica,
     RegistraRecibo, Libera, TrataSemMover, Carimba, RejeitaEntrada, RejeitaNaoPublicado, Termina, Desiste, Livre,
     Base, Tipado, TipoTarefas, Tarefa
<1>2. CASE ~PassoTarefa(t)
  <2>1. ErroCoerente(tarefa'[t])
    BY BasePreservada DEF Base, OrfaosEmOrdem, ErrosCoerentes
  <2> QED
    BY <1>2, <2>1, TarefaParada DEF Base, ErroCoerente
<1> QED
  BY <1>1, <1>2

LEMMA AceitosNoPasso ==
  ASSUME [Next]_vars, NEW n \in aceitos', n \notin aceitos
  PROVE  \/ \E t \in Tarefas : Publica(t) /\ n = tarefa[t].nome /\ tarefa' = [tarefa EXCEPT ![t].fase = "recibo"]
         \/ \E w \in Workers : RecuperaPublica(w) /\ n = recup[w].nome
<1>1. CASE \/ \E p \in Caminhos, d \in Docs : Escreve(p, d)
           \/ Tick
           \/ \E w \in Workers : Queda(w) \/ Reinicia(w) \/ PassoScanner(w)
           \/ \E t \in Tarefas : ListenerRecebe(t)
           \/ \E f \in fila : ConsumidorRetira(f) \/ ConsumidorConfirma(f)
           \/ UNCHANGED vars
  BY <1>1 DEF Escreve, Tick, Queda, Reinicia, ListenerReinicia, ScannerReinicia, PassoScanner, ScannerLista,
     ScannerFiltra, ScannerDispara, ListenerRecebe, ConsumidorRetira, ConsumidorConfirma, publicacao, vars
<1>2. ASSUME NEW t \in Tarefas, PassoTarefa(t)
      PROVE  Publica(t) /\ n = tarefa[t].nome /\ tarefa' = [tarefa EXCEPT ![t].fase = "recibo"]
  BY <1>2 DEF PassoTarefa, ApagaZona, IgnoraDuplicado, Reivindica, Estabiliza, Move, FalhaAoMover, Publica,
     RegistraRecibo, Libera, TrataSemMover, Carimba, RejeitaEntrada, RejeitaNaoPublicado, publicacao, Aceita, Recusa
<1>3. ASSUME NEW w \in Workers, PassoInicio(w) PROVE RecuperaPublica(w) /\ n = recup[w].nome
  BY <1>3 DEF PassoInicio, Inicia, RecuperaEscolhe, RecuperaEstabiliza, RecuperaPublica, RecuperaRecibo, RecuperaLimpa, LimpaRecibo,
     RecuperaConclui, publicacao, Aceita, Recusa
<1> QED
  BY <1>1, <1>2, <1>3 DEF Next, NextSemConsumidor

LEMMA NomesDeUmPreservados == Base /\ NomesUsados /\ NomesDeUm /\ [Next]_vars => NomesDeUm'
<1> SUFFICES ASSUME Base, NomesUsados, NomesDeUm, [Next]_vars PROVE NomesDeUm'
  OBVIOUS
<1> USE DEF Base
<1>1. ASSUME NEW t \in Tarefas, NEW u \in Tarefas, tarefa'[t].nome # Nada, tarefa'[t].nome = tarefa'[u].nome
      PROVE  t = u
  <2>1. ASSUME NEW a \in Tarefas, NEW b \in Tarefas, Move(a), tarefa'[a].nome = tarefa'[b].nome PROVE a = b
    <3>1. PICK m : m = NomeNovo(Dono(a))
      OBVIOUS
    <3>2. m \in Nomes /\ ~Usado(m)
      BY <2>1, <3>1, NomesNoMove
    <3>3. tarefa'[a].nome = m /\ (b # a => tarefa'[b] = tarefa[b])
      BY <2>1, <3>1 DEF Move, Tipado, TipoTarefas, Tarefa
    <3> QED
      BY <2>1, <3>2, <3>3, NomeDeTarefaUsado
  <2>2. CASE Move(t) \/ Move(u)
    BY <1>1, <2>1, <2>2
  <2>3. CASE ~Move(t) /\ ~Move(u)
    BY <1>1, <2>3, NomeDaTarefa DEF NomesDeUm
  <2> QED
    BY <2>2, <2>3
<1>2. ASSUME NEW w \in Workers, fase'[w] \in {"recEstabiliza", "recPublica"} PROVE Dono(recup'[w].nome) = w
  <2>1. CASE fase'[w] = fase[w] /\ recup'[w] = recup[w]
    BY <1>2, <2>1 DEF NomesDeUm
  <2>2. CASE fase[w] = "recupera" /\ recup'[w].nome \in recup[w].resta
    BY <2>2 DEF NomesUsados, NaPassada
  <2>3. CASE fase[w] = "recEstabiliza" /\ recup'[w].nome = recup[w].nome
    BY <2>3 DEF NomesDeUm
  <2> QED
    BY <1>2, <2>1, <2>2, <2>3, RecupNoPasso
<1>3. ASSUME NEW w \in Workers, fase'[w] = "recRecibo" PROVE Dono(recup'[w].nome) = w
  <2>1. fase[w] \in {"recPublica", "recRecibo"} /\ recup'[w] = recup[w]
    <3> USE DEF Tipado, TipoInicio
    <3>1. ASSUME NEW v \in Workers, PassoInicio(v) \/ Queda(v)
          PROVE  fase[w] \in {"recPublica", "recRecibo"} /\ recup'[w] = recup[w]
      BY <1>3, <3>1 DEF PassoInicio, Inicia, RecuperaEscolhe, RecuperaEstabiliza, RecuperaPublica, RecuperaRecibo, RecuperaLimpa, LimpaRecibo,
         RecuperaConclui, Queda, Aborta
    <3>2. CASE \/ \E p \in Caminhos, d \in Docs : Escreve(p, d)
               \/ Tick
               \/ \E v \in Workers : Reinicia(v)
               \/ \E f \in fila : ConsumidorRetira(f) \/ ConsumidorConfirma(f)
               \/ UNCHANGED vars
      BY <1>3, <3>2 DEF Escreve, Tick, Reinicia, ListenerReinicia, ScannerReinicia, ConsumidorRetira,
         ConsumidorConfirma, vars
    <3>3. CASE \/ \E t \in Tarefas : ListenerRecebe(t) \/ PassoTarefa(t)
               \/ \E v \in Workers : PassoScanner(v)
      BY <1>3, <3>3, SoDispara, LimitesNoPasso
    <3> QED
      BY <3>1, <3>2, <3>3 DEF Next, NextSemConsumidor
  <2> QED
    BY <2>1 DEF NomesDeUm
<1> QED
  BY <1>1, <1>2, <1>3 DEF NomesDeUm

(* Who else could accept the name of a task. *)
LEMMA SoATarefaPublica ==
  ASSUME Base, UmSoPublica, NEW t \in Tarefas, tarefa[t].nome \in Nomes
  PROVE  /\ \A u \in Tarefas : tarefa[u].nome = tarefa[t].nome => u = t
         /\ \A w \in Workers : fase[w] \in {"recEstabiliza", "recPublica", "recRecibo"} =>
              recup[w].nome # tarefa[t].nome
<1>1. tarefa[t].nome # Nada /\ Dono(tarefa[t].nome) = Dono(t)
  BY NadaAssumption DEF Base, OrfaosEmOrdem, NomesFrescos
<1>2. ASSUME NEW w \in Workers, fase[w] \in {"recEstabiliza", "recPublica", "recRecibo"},
             recup[w].nome = tarefa[t].nome
      PROVE  FALSE
  <2>1. Dono(t) = w
    BY <1>1, <1>2 DEF UmSoPublica, NomesDeUm
  <2>2. tarefa[t] = Livre
    BY <1>2, <2>1 DEF Base, ParadoSemTarefas
  <2> QED
    BY <1>1, <2>2 DEF Livre
<1> QED
  BY <1>1, <1>2 DEF UmSoPublica, NomesDeUm

LEMMA AceitosPreservados == Base /\ NomesUsados /\ UmSoPublica /\ [Next]_vars => AceitosCertos'
<1> SUFFICES ASSUME Base, NomesUsados, UmSoPublica, [Next]_vars PROVE AceitosCertos'
  OBVIOUS
<1> USE DEF Base
<1>1. ASSUME NEW n \in aceitos' PROVE n \in Nomes /\ Usado(n)
  <2>1. n \in Nomes
    BY TipadoPreservado DEF Tipado, TipoPublicacao
  <2>2. ASSUME NEW t \in Tarefas, n = tarefa[t].nome PROVE Usado(n)
    BY <2>1, <2>2, NomeDeTarefaUsado
  <2>3. ASSUME NEW w \in Workers, RecuperaPublica(w), n = recup[w].nome PROVE Usado(n)
    BY <2>3 DEF RecuperaPublica, NomesUsados
  <2> QED
    BY <2>1, <2>2, <2>3, AceitosNoPasso DEF UmSoPublica, AceitosCertos
<1>2. ASSUME NEW t \in Tarefas, NaoAceita(tarefa'[t]) PROVE tarefa'[t].nome \notin aceitos'
  <2>1. CASE Move(t)
    <3>1. PICK m : m = NomeNovo(Dono(t))
      OBVIOUS
    <3>2. tarefa'[t].nome = m /\ ~Usado(m)
      BY <2>1, <3>1, NomesNoMove DEF Move, Tipado, TipoTarefas, Tarefa
    <3> QED
      BY <1>1, <3>2
  <2>2. CASE ~Move(t)
    <3>1. tarefa[t] \in Tarefa
      BY DEF Tipado, TipoTarefas
    <3>2. CASE tarefa'[t].nome = Nada
      BY <1>1, <3>2, NadaAssumption
    <3>3. CASE tarefa'[t].nome # Nada
      <4>1. tarefa'[t].nome = tarefa[t].nome /\ tarefa[t].nome \in Nomes
        BY <2>2, <3>1, <3>3, NomeDaTarefa DEF Tarefa
      <4>2. NaoAceita(tarefa[t])
        <5>1. CASE PassoTarefa(t)
          <6>1. CASE Estabiliza(t) \/ FalhaAoMover(t)
            BY <4>1, <6>1, NadaAssumption DEF Estabiliza, FalhaAoMover, OrfaosEmOrdem, ErrosCoerentes, ErroCoerente
          <6>2. CASE ~(Estabiliza(t) \/ FalhaAoMover(t))
            BY <1>2, <2>2, <3>1, <5>1, <6>2 DEF NaoAceita, PassoTarefa, ApagaZona, IgnoraDuplicado, Reivindica,
               Publica, RegistraRecibo, Libera, TrataSemMover, Carimba, RejeitaEntrada, RejeitaNaoPublicado, Termina,
               Desiste, Livre, Tipado, TipoTarefas, Tarefa
          <6> QED
            BY <6>1, <6>2
        <5>2. CASE ~PassoTarefa(t)
          BY <1>2, <5>2, TarefaParada DEF NaoAceita
        <5> QED
          BY <5>1, <5>2
      <4>3. tarefa[t].nome \notin aceitos
        BY <4>2 DEF UmSoPublica, AceitosCertos
      <4>4. ASSUME NEW u \in Tarefas, tarefa[t].nome = tarefa[u].nome,
                   tarefa' = [tarefa EXCEPT ![u].fase = "recibo"]
            PROVE  FALSE
        <5>1. u = t
          BY <4>1, <4>4, SoATarefaPublica
        <5> QED
          BY <1>2, <4>4, <5>1 DEF NaoAceita, Tipado, TipoTarefas, Tarefa
      <4>5. ASSUME NEW w \in Workers, RecuperaPublica(w), tarefa[t].nome = recup[w].nome PROVE FALSE
        BY <4>1, <4>5, SoATarefaPublica DEF RecuperaPublica
      <4> QED
        BY <4>1, <4>3, <4>4, <4>5, AceitosNoPasso
    <3> QED
      BY <3>2, <3>3
  <2> QED
    BY <2>1, <2>2
<1>3. \A n \in aceitos' : Usado(n)'
  BY <1>1, ConteudoSoSai
<1> QED
  BY <1>2, <1>3 DEF AceitosCertos

(* Whatever fails or crashes, while a worker is down or recovers no task of it is left to act; a
   staging name is never published from two places at a time; and the file of an event that was
   accepted is not among those a task will still publish or reject as unpublished
   (recuperar_arquivos_processando runs before the tasks, tratar_erro_processamento). *)
THEOREM UmSoPublicaSempre == Spec => []UmSoPublica
<1>1. Init => UmSoPublica
  BY DEF Init, UmSoPublica, NomesDeUm, AceitosCertos, NaoAceita, Livre
<1>2. Base /\ NomesUsados /\ UmSoPublica /\ [Next]_vars => UmSoPublica'
  BY NomesDeUmPreservados, AceitosPreservados DEF UmSoPublica
<1> QED
  BY <1>1, <1>2, NomesSempreUsados, PTL DEF Spec

-----------------------------------------------------------------------------
(* One worker.  Another task of the worker is kept off the path by the claim, as long as both spell
   the path alike: the base folder is configured as an absolute path.  Another worker, a producer
   that overwrites, or a task that rejects what the path held before, is not.  So fewer calls fail
   than a rename is tried, and no file is rejected for its content. *)
SoUmMexe ==
  /\ (\A v, w \in Workers : v = w) /\ BaseAbsoluta
  /\ ~Sobrescreve /\ MaxFalhas < MaxTentativas /\ Vazios = {} /\ Grandes = {}

CapturaDaTarefa(t) ==
  /\ tarefa[t].fase \in ComClaim => tarefa[t].caminho \notin Zona
  /\ tarefa[t].fase = "move" =>
       tarefa[t].caminho \notin ExtInvalida /\ entrada[tarefa[t].caminho] = tarefa[t].hash
  /\ tarefa[t].tent <= falhas
  /\ tarefa[t].erro \notin {"excedido", "zero", "retries"}
  /\ tarefa[t].fase = "rejeita" => tarefa[t].erro \in {"extensao", "publicacao"}
  /\ tarefa[t].erro = "extensao" => tarefa[t].caminho \in ExtInvalida

CapturasCertas == \A t \in Tarefas : CapturaDaTarefa(t)

LEMMA RejeicaoSoPorExtensao ==
  ASSUME SoUmMexe, NEW p, NEW c \in Docs \cup {Nada}
  PROVE  Rejeicao(p, c) \in {"nenhum", "desapareceu", "extensao"}
         /\ (Rejeicao(p, c) = "extensao" => p \in ExtInvalida)
         /\ (Rejeicao(p, c) = "nenhum" => p \notin ExtInvalida)
<1>1. c \notin Vazios /\ c \notin Grandes
  BY DEF SoUmMexe
<1> QED
  BY <1>1 DEF Rejeicao

LEMMA FalhasSobem ==
  ASSUME Tipado, [Next]_vars
  PROVE  falhas \in Nat /\ falhas <= falhas'
<1>1. ASSUME UNCHANGED falhas \/ Falha PROVE falhas \in Nat /\ falhas <= falhas'
  BY <1>1 DEF Tipado, TipoLimites, Falha
<1>2. CASE \/ \E p \in Caminhos, d \in Docs : Escreve(p, d)
           \/ Tick
           \/ \E t \in Tarefas : ListenerRecebe(t)
           \/ \E w \in Workers : PassoScanner(w) \/ Queda(w) \/ Reinicia(w)
           \/ \E e \in fila : ConsumidorRetira(e) \/ ConsumidorConfirma(e)
           \/ UNCHANGED vars
  BY <1>1, <1>2 DEF Escreve, Tick, ListenerRecebe, PassoScanner, ScannerLista, ScannerFiltra, ScannerDispara,
     Queda, Reinicia, ListenerReinicia, ScannerReinicia, ConsumidorRetira, ConsumidorConfirma, vars
<1>3. CASE \E t \in Tarefas : PassoTarefa(t)
  BY <1>1, <1>3 DEF PassoTarefa, ApagaZona, IgnoraDuplicado, Reivindica, Estabiliza, Move, FalhaAoMover,
     Publica, RegistraRecibo, Libera, TrataSemMover, Carimba, RejeitaEntrada, RejeitaNaoPublicado, Recusa
<1>4. CASE \E w \in Workers : PassoInicio(w)
  BY <1>1, <1>4 DEF PassoInicio, Inicia, RecuperaEscolhe, RecuperaEstabiliza, RecuperaPublica, RecuperaRecibo, RecuperaLimpa, LimpaRecibo,
     RecuperaConclui, Recusa
<1> QED
  BY <1>2, <1>3, <1>4 DEF Next, NextSemConsumidor

(* What the step of a task leaves of its own facts. *)
LEMMA CapturaDoPasso ==
  ASSUME SoUmMexe, Base, CapturasCertas, NEW t \in Tarefas, PassoTarefa(t)
  PROVE  CapturaDaTarefa(t)'
<1> USE DEF Base, Tipado, TipoTarefas, Tarefa
<1>1. CapturaDaTarefa(t) /\ RegistroCoerente(tarefa[t]) /\ tarefa[t] \in Tarefa
  BY DEF CapturasCertas, TarefasCoerentes
<1>2. falhas \in Nat /\ falhas <= falhas' /\ falhas' \in Nat /\ tarefa[t].tent \in Nat
  <2>1. [Next]_vars
    BY DEF Next, NextSemConsumidor
  <2> QED
    BY <1>1, <2>1, FalhasSobem, TipadoPreservado, LimitesAssumption DEF TipoLimites
<1>3. ASSUME Termina(t) PROVE CapturaDaTarefa(t)'
  BY <1>2, <1>3 DEF Termina, Livre, CapturaDaTarefa, ComClaim
<1>4. CASE ApagaZona(t) \/ IgnoraDuplicado(t) \/ TrataSemMover(t) \/ RejeitaEntrada(t) \/ RejeitaNaoPublicado(t)
  BY <1>3, <1>4 DEF ApagaZona, IgnoraDuplicado, TrataSemMover, RejeitaEntrada, RejeitaNaoPublicado
<1>5. CASE Reivindica(t)
  BY <1>1, <1>2, <1>5 DEF Reivindica, PodeComecar, CapturaDaTarefa
<1>6. CASE Estabiliza(t)
  <2> DEFINE p == tarefa[t].caminho
             r == Rejeicao(p, entrada[p])
  <2>1. p \notin Zona /\ p \in Caminhos /\ entrada[p] \in Docs \cup {Nada} /\ entrada' = entrada
    BY <1>1, <1>6 DEF Estabiliza, CapturaDaTarefa, ComClaim, RegistroCoerente, TipoPastas
  <2>2. r \in {"nenhum", "desapareceu", "extensao"} /\ (r = "extensao" => p \in ExtInvalida)
        /\ (r = "nenhum" => p \notin ExtInvalida)
    BY <2>1, RejeicaoSoPorExtensao
  <2> HIDE DEF r
  <2>3. CASE r = "nenhum" /\ tarefa' = [tarefa EXCEPT ![t].fase = "move", ![t].hash = entrada[p]]
    BY <1>1, <1>2, <2>1, <2>2, <2>3 DEF CapturaDaTarefa
  <2>4. CASE r # "nenhum" /\ Desiste(t, r)
    BY <1>1, <1>2, <2>1, <2>2, <2>4 DEF CapturaDaTarefa, Desiste
  <2>5. CASE Desiste(t, "io")
    BY <1>1, <1>2, <1>6, <2>1, <2>5 DEF CapturaDaTarefa, Desiste
  <2> QED
    BY <1>6, <2>3, <2>4, <2>5 DEF Estabiliza, r
<1>7. CASE Move(t)
  BY <1>1, <1>2, <1>7 DEF CapturaDaTarefa, Move, ComClaim
<1>8. CASE FalhaAoMover(t)
  <2>1. entrada[tarefa[t].caminho] # Nada
    BY <1>1, <1>8, NadaAssumption DEF FalhaAoMover, CapturaDaTarefa, RegistroCoerente
  <2>2. falhas < MaxFalhas /\ falhas' = falhas + 1 /\ tarefa[t].fase = "move"
    BY <1>8, <2>1 DEF FalhaAoMover, Falha
  <2>3. tarefa[t].tent <= falhas /\ MaxFalhas < MaxTentativas
    BY <1>1 DEF CapturaDaTarefa, SoUmMexe
  <2>4. tarefa[t].tent + 1 < MaxTentativas
    BY <1>2, <2>2, <2>3, LimitesAssumption
  <2>5. tarefa' = [tarefa EXCEPT ![t].tent = @ + 1] /\ UNCHANGED <<entrada, processando>>
    BY <1>8, <2>4 DEF FalhaAoMover
  <2> QED
    BY <1>1, <1>2, <2>2, <2>3, <2>5 DEF CapturaDaTarefa, ComClaim
<1>9. CASE Publica(t) \/ RegistraRecibo(t)
  <2>1. /\ tarefa'[t].caminho = tarefa[t].caminho /\ tarefa'[t].tent = tarefa[t].tent
        /\ tarefa'[t].fase \in {"recibo", "libera"}
        /\ tarefa'[t].erro \in {tarefa[t].erro, "nenhum", "publicacao", "recibo"}
    BY <1>1, <1>9 DEF Publica, RegistraRecibo, Desiste
  <2>2. tarefa[t].fase \in {"publica", "recibo"}
    BY <1>9 DEF Publica, RegistraRecibo
  <2> QED
    BY <1>1, <1>2, <2>1, <2>2 DEF CapturaDaTarefa, ComClaim
<1>10. CASE Libera(t)
  BY <1>1, <1>2, <1>3, <1>10 DEF Libera, CapturaDaTarefa, ComClaim
<1>11. CASE Carimba(t)
  BY <1>1, <1>2, <1>11 DEF Carimba, CapturaDaTarefa, ComClaim
<1> QED
  BY <1>4, <1>5, <1>6, <1>7, <1>8, <1>9, <1>10, <1>11 DEF PassoTarefa

(* No step takes the file from under a task that has read it. *)
LEMMA EntradaNoPasso ==
  ASSUME SoUmMexe, Base, CapturasCertas, [Next]_vars, NEW t \in Tarefas, tarefa[t].fase = "move", ~PassoTarefa(t)
  PROVE  entrada'[tarefa[t].caminho] = entrada[tarefa[t].caminho]
<1> USE DEF Base, Tipado, TipoPastas
<1> DEFINE p == tarefa[t].caminho
<1>1. p \in Caminhos /\ p \notin Zona /\ p \notin ExtInvalida /\ entrada[p] # Nada
  BY NadaAssumption DEF CapturasCertas, CapturaDaTarefa, ComClaim, TarefasCoerentes, RegistroCoerente
<1>2. CASE UNCHANGED entrada
  BY <1>2
<1>3. ASSUME NEW q \in Caminhos, NEW d \in Docs, Escreve(q, d) PROVE entrada'[p] = entrada[p]
  BY <1>1, <1>3 DEF Escreve, SoUmMexe
<1>4. ASSUME NEW u \in Tarefas, ApagaZona(u) PROVE entrada'[p] = entrada[p]
  BY <1>1, <1>4 DEF ApagaZona
<1>5. ASSUME NEW u \in Tarefas, Move(u) PROVE entrada'[p] = entrada[p]
  <2>1. u # t /\ Dono(u) = Dono(t)
    BY <1>5, Donos DEF PassoTarefa, SoUmMexe
  <2>2. tarefa[u].fase \in ComClaim /\ tarefa[t].fase \in ComClaim
    BY <1>5 DEF Move, ComClaim
  <2>3. tarefa[u].grafia = tarefa[t].grafia
    BY DEF SoUmMexe, TipoTarefas, Tarefa, Grafias, GrafiaDoScanner
  <2>4. tarefa[u].caminho # p
    BY <2>1, <2>2, <2>3 DEF ClaimsPorTarefa, Chave
  <2> QED
    BY <1>1, <1>5, <2>4 DEF Move
<1>6. ASSUME NEW u \in Tarefas, RejeitaEntrada(u) PROVE entrada'[p] = entrada[p]
  <2>1. tarefa[u].caminho \in ExtInvalida
    BY <1>6 DEF RejeitaEntrada, CapturasCertas, CapturaDaTarefa
  <2> QED
    BY <1>1, <1>6, <2>1 DEF RejeitaEntrada
<1>7. CASE \/ Tick
           \/ \E u \in Tarefas : RejeitaNaoPublicado(u)
           \/ \E e \in fila : ConsumidorRetira(e)
  BY <1>7 DEF Tick, RejeitaNaoPublicado, ConsumidorRetira
<1> QED
  BY <1>2, <1>3, <1>4, <1>5, <1>6, <1>7, PassosSobrePastas

LEMMA CertasPreservadas == SoUmMexe /\ Base /\ CapturasCertas /\ [Next]_vars => CapturasCertas'
<1> SUFFICES ASSUME SoUmMexe, Base, CapturasCertas, [Next]_vars, NEW t \in Tarefas PROVE CapturaDaTarefa(t)'
  BY DEF CapturasCertas
<1> USE DEF Base
<1>1. CASE PassoTarefa(t)
  BY <1>1, CapturaDoPasso
<1>2. CASE ~PassoTarefa(t) /\ tarefa'[t] = tarefa[t]
  <2>1. tarefa[t].fase = "move" => entrada'[tarefa[t].caminho] = entrada[tarefa[t].caminho]
    BY <1>2, EntradaNoPasso
  <2>2. tarefa[t].tent <= falhas'
    <3>1. tarefa[t].tent \in Nat /\ falhas' \in Nat
      BY TipadoPreservado, LimitesAssumption DEF Tipado, TipoTarefas, Tarefa, TipoLimites
    <3> QED
      BY <3>1, FalhasSobem DEF CapturasCertas, CapturaDaTarefa
  <2> QED
    BY <1>2, <2>1, <2>2 DEF CapturasCertas, CapturaDaTarefa
<1>3. CASE tarefa'[t].fase \in {"livre", "espera"} /\ tarefa'[t].erro = "nenhum" /\ tarefa'[t].tent = 0
  BY <1>3, FalhasSobem, TipadoPreservado DEF CapturaDaTarefa, ComClaim, Tipado, TipoLimites
<1> QED
  BY <1>1, <1>2, <1>3, TarefaParada

LEMMA CertasSempre == SoUmMexe => (Spec => []CapturasCertas)
<1> SUFFICES ASSUME SoUmMexe PROVE Spec => []CapturasCertas
  OBVIOUS
<1>1. Init => CapturasCertas
  BY DEF Init, CapturasCertas, CapturaDaTarefa, Livre, ComClaim
<1>2. Base /\ CapturasCertas /\ [Next]_vars => CapturasCertas'
  BY CertasPreservadas
<1> QED
  BY <1>1, <1>2, NomesSempreUsados, PTL DEF Spec

LEMMA IntactosSeSoUmMexe == SoUmMexe => (Spec => []Intactos)
<1>1. CapturasCertas => Intactos
  BY DEF CapturasCertas, CapturaDaTarefa, Intactos
<1> QED
  BY <1>1, CertasSempre, PTL

(* With one worker, an absolute base folder, producers that write only to free paths, no file
   rejected for its content and fewer failing calls than attempts at a rename, an announced hash is the hash of the file the event names, through any number of
   tasks, restarts and crashes: the claim covers the time from the last look at the file to its
   rename (processar_arquivo). *)
THEOREM CapturaFielSempre == SoUmMexe => (Spec => []CapturaFiel)
BY IntactosSeSoUmMexe, CapturaFielIntactos, PTL

-----------------------------------------------------------------------------
(* Any number of workers.  A path is never used for two contents: c says which one it stands for.
   It may be written again and again, the old file still there or gone. *)
UmConteudo(c) == \A p \in Caminhos : entrada[p] \in {c[p], Nada}

LidoDe(c) ==
  \A t \in Tarefas :
    /\ tarefa[t].fase = "move" => tarefa[t].hash = c[tarefa[t].caminho]
    /\ tarefa[t].erro = "zero" => c[tarefa[t].caminho] \in Vazios
    /\ tarefa[t].erro = "extensao" => tarefa[t].caminho \in ExtInvalida

LEMMA RejeicaoPeloConteudo ==
  ASSUME NEW p, NEW x \in Docs \cup {Nada}
  PROVE  /\ Rejeicao(p, x) = "nenhum" => x # Nada
         /\ Rejeicao(p, x) = "zero" => x \in Vazios
         /\ Rejeicao(p, x) = "extensao" => p \in ExtInvalida
<1>1. CASE x = Nada
  BY <1>1 DEF Rejeicao
<1>2. CASE x # Nada
  BY <1>2 DEF Rejeicao
<1> QED
  BY <1>1, <1>2

LEMMA LidoDePreservado ==
  ASSUME NEW c \in [Caminhos -> Docs], Base, UmConteudo(c), LidoDe(c), [Next]_vars
  PROVE  LidoDe(c)'
<1> USE DEF Base, Tipado, TipoTarefas, Tarefa
<1> SUFFICES ASSUME NEW t \in Tarefas
             PROVE  /\ tarefa'[t].fase = "move" => tarefa'[t].hash = c[tarefa'[t].caminho]
                    /\ tarefa'[t].erro = "zero" => c[tarefa'[t].caminho] \in Vazios
                    /\ tarefa'[t].erro = "extensao" => tarefa'[t].caminho \in ExtInvalida
  BY DEF LidoDe
<1>1. CASE Estabiliza(t)
  <2> DEFINE p == tarefa[t].caminho
             r == Rejeicao(p, entrada[p])
  <2>1. p \in Caminhos /\ entrada[p] \in {c[p], Nada} /\ c[p] # Nada
    BY <1>1, NadaAssumption DEF Estabiliza, TarefasCoerentes, RegistroCoerente, UmConteudo
  <2>2. /\ r = "nenhum" => entrada[p] = c[p]
        /\ r = "zero" => c[p] \in Vazios
        /\ r = "extensao" => p \in ExtInvalida
    <3>1. entrada[p] \in Docs \cup {Nada} /\ Nada \notin Vazios
      BY <2>1, NadaAssumption, ConteudosAssumption
    <3> QED
      BY <2>1, <3>1, RejeicaoPeloConteudo
  <2>3. \/ tarefa' = [tarefa EXCEPT ![t].fase = "move", ![t].hash = entrada[p]] /\ r = "nenhum"
        \/ tarefa' = [tarefa EXCEPT ![t].fase = "libera", ![t].erro = r]
        \/ tarefa' = [tarefa EXCEPT ![t].fase = "libera", ![t].erro = "io"]
    BY <1>1 DEF Estabiliza, Desiste
  <2> HIDE DEF r
  <2> QED
    BY <2>1, <2>2, <2>3 DEF LidoDe
<1>2. CASE PassoTarefa(t) /\ ~Estabiliza(t)
  BY <1>2 DEF PassoTarefa, ApagaZona, IgnoraDuplicado, Reivindica, Move, FalhaAoMover, Publica,
     RegistraRecibo, Libera, TrataSemMover, Carimba, RejeitaEntrada, RejeitaNaoPublicado, Termina, Desiste, Livre, LidoDe
<1>3. CASE ~PassoTarefa(t)
  BY <1>3, TarefaParada DEF LidoDe
<1> QED
  BY <1>1, <1>2, <1>3
LEMMA LidoSempre ==
  ASSUME NEW c \in [Caminhos -> Docs]
  PROVE  Spec /\ []UmConteudo(c) => [](Base /\ NomesUsados /\ UmConteudo(c) /\ LidoDe(c))
<1>1. Init => LidoDe(c)
  BY DEF Init, LidoDe, Livre
<1>2. Base /\ UmConteudo(c) /\ LidoDe(c) /\ [Next]_vars => LidoDe(c)'
  BY LidoDePreservado
<1> QED
  BY <1>1, <1>2, NomesSempreUsados, PTL DEF Spec

LEMMA IntactosSeUmConteudo ==
  ASSUME NEW c \in [Caminhos -> Docs]
  PROVE  Spec /\ []UmConteudo(c) => []Intactos
<1>1. Base /\ UmConteudo(c) /\ LidoDe(c) => Intactos
  <2> SUFFICES ASSUME Base, UmConteudo(c), LidoDe(c), NEW t \in Tarefas, tarefa[t].fase = "move"
               PROVE  entrada[tarefa[t].caminho] \in {tarefa[t].hash, Nada}
    BY DEF Intactos
  <2>1. tarefa[t].caminho \in Caminhos
    BY DEF Base, Tipado, TarefasCoerentes, RegistroCoerente
  <2> QED
    BY <2>1 DEF UmConteudo, LidoDe
<1> QED
  BY <1>1, LidoSempre, PTL

(* As long as no path is used for two contents, the hash an event announces is that of the file it
   names, for any number of workers over one landing zone, with producers that write a path again
   while it is read, and through failures, crashes and recoveries: what puts a wrong hash into the
   queue is a reused name, not the second worker (processar_arquivo, mover_atomico_com_retry). *)
THEOREM CapturaFielNomesUnicos ==
  ASSUME NEW c \in [Caminhos -> Docs]
  PROVE  Spec /\ []UmConteudo(c) => []CapturaFiel
BY IntactosSeUmConteudo, CapturaFielIntactos, PTL

(* Under the same condition, and with distinct bare names, the exception of NadaSeSobrescreve never
   arises: two files that are rejected under one name and one stamp have the same content. *)
ForaPorConteudo(c) == \A r \in fora : r.origem \in Caminhos => r.doc = c[r.origem]

LEMMA ForaPorConteudoPreservado ==
  ASSUME NEW c \in [Caminhos -> Docs], NomesDistintos, Base, UmConteudo(c), ForaPorConteudo(c), [Next]_vars
  PROVE  ForaPorConteudo(c)'
<1> USE DEF Base
<1>1. ASSUME fora' = fora PROVE ForaPorConteudo(c)'
  BY <1>1 DEF ForaPorConteudo
<1>2. ASSUME NEW t \in Tarefas, RejeitaEntrada(t) \/ RejeitaNaoPublicado(t) PROVE ForaPorConteudo(c)'
  <2>1. ASSUME NEW p \in Caminhos, NEW novo \in Registro, novo.origem = p, novo.doc = entrada[p],
               fora' = Repoe(novo)
        PROVE  ForaPorConteudo(c)'
    <3>1. novo.doc = c[p]
      BY <2>1, NadaAssumption DEF UmConteudo, Registro
    <3> QED
      BY <2>1, <3>1 DEF ForaPorConteudo, Repoe
  <2>2. ASSUME NEW n \in Nomes, NEW novo \in Registro, novo.origem = n, fora' = Repoe(novo)
        PROVE  ForaPorConteudo(c)'
    BY <2>2 DEF ForaPorConteudo, Repoe, NomesDistintos
  <2> QED
    BY <1>1, <1>2, <2>1, <2>2, RejeicaoNoPasso
<1>3. CASE \/ \E p \in Caminhos, d \in Docs : Escreve(p, d)
           \/ Tick
           \/ \E t \in Tarefas : ApagaZona(t) \/ Move(t)
           \/ \E e \in fila : ConsumidorRetira(e)
  <2>1. fora' = fora
    BY <1>3 DEF Escreve, Tick, ApagaZona, Move, ConsumidorRetira
  <2> QED
    BY <1>1, <2>1
<1> QED
  BY <1>1, <1>2, <1>3, PassosSobrePastas

LEMMA SemRejeicaoRepetida ==
  ASSUME NEW c \in [Caminhos -> Docs], NomesDistintos, Base, UmConteudo(c), ForaPorNome, ForaPorConteudo(c),
         [Next]_vars, NEW d \in Docs, PorRejeicao(d)
  PROVE  NaPasta(d)'
<1>1. PICK t \in Tarefas, r \in fora, s \in fora' :
        RejeitaEntrada(t) /\ r.doc = d /\ r.origem \in Caminhos /\ s.doc = entrada[r.origem]
  BY RejeicaoRepetida
<1>2. s.doc \in Docs
  BY TipadoPreservado DEF Base, Tipado, TipoPastas, Registro
<1>3. s.doc = c[r.origem]
  BY <1>1, <1>2, NadaAssumption DEF UmConteudo
<1> QED
  BY <1>1, <1>3 DEF ForaPorConteudo, NaPasta

LEMMA ForaSempre ==
  ASSUME NEW c \in [Caminhos -> Docs], NomesDistintos
  PROVE  Spec /\ []UmConteudo(c) => [](Base /\ NomesUsados /\ UmConteudo(c) /\ ForaPorNome /\ ForaPorConteudo(c))
<1>1. Init => ForaPorConteudo(c)
  BY DEF Init, ForaPorConteudo
<1>2. Base /\ UmConteudo(c) /\ ForaPorConteudo(c) /\ [Next]_vars => ForaPorConteudo(c)'
  BY ForaPorConteudoPreservado
<1> QED
  BY <1>1, <1>2, ForaPorNomeSempre, PTL DEF Spec

(* As long as no path is used for two contents and no two paths have the same bare name, a document
   never vanishes but at its producer's hand, or as Zone.Identifier metadata: not even between the
   stamp of a rejected file and its rename (mover_para_erro_best_effort and its twin). *)
THEOREM NadaSeSobrescreveNomesUnicos ==
  ASSUME NEW c \in [Caminhos -> Docs], NomesDistintos
  PROVE  Spec /\ []UmConteudo(c) =>
           [][\A d \in Docs : Guardado(d) /\ ~Guardado(d)' =>
                \E p \in Caminhos : entrada[p] = d /\ (p \in Zona \/ escritos' # escritos)]_vars
<1>1. Base /\ NomesUsados /\ UmConteudo(c) /\ ForaPorNome /\ ForaPorConteudo(c) /\ [Next]_vars =>
        [\A d \in Docs : Guardado(d) /\ ~Guardado(d)' =>
           \E p \in Caminhos : entrada[p] = d /\ (p \in Zona \/ escritos' # escritos)]_vars
  <2> SUFFICES ASSUME Base, NomesUsados, UmConteudo(c), ForaPorNome, ForaPorConteudo(c), [Next]_vars,
                      NEW d \in Docs, Guardado(d), ~Guardado(d)'
               PROVE  PeloProdutor(d)
    BY DEF PeloProdutor
  <2>1. ~NaPasta(d)'
    BY DEF Guardado, NaPasta
  <2> QED
    BY <2>1, GuardadoNoPasso, SemRejeicaoRepetida
<1> QED
  BY <1>1, ForaSempre, PTL DEF Spec

(* Under the first of the two conditions ignorados/ gets empty files and files of a forbidden extension only: the
   task that rejects what it read a while ago by the name alone rejects the same content
   (tratar_erro_processamento). *)
THEOREM IgnoradosNomesUnicos ==
  ASSUME NEW c \in [Caminhos -> Docs]
  PROVE  Spec /\ []UmConteudo(c) => []IgnoradosSoInvalidos
<1>1. Init => IgnoradosSoInvalidos
  BY DEF Init, IgnoradosSoInvalidos
<1>2. Base /\ UmConteudo(c) /\ LidoDe(c) /\ IgnoradosSoInvalidos /\ [Next]_vars => IgnoradosSoInvalidos'
  <2> SUFFICES ASSUME Base, UmConteudo(c), LidoDe(c), IgnoradosSoInvalidos, [Next]_vars
               PROVE  IgnoradosSoInvalidos'
    OBVIOUS
  <2> USE DEF Base
  <2>1. ASSUME NEW t \in Tarefas, RejeitaEntrada(t) PROVE IgnoradosSoInvalidos'
    <3> DEFINE p == tarefa[t].caminho
    <3>1. p \in Caminhos /\ entrada[p] \in {c[p], Nada}
      BY <2>1 DEF RejeitaEntrada, Tipado, TarefasCoerentes, RegistroCoerente, UmConteudo
    <3>2. PastaDe(tarefa[t].erro) = "ignorados" => c[p] \in Vazios \/ p \in ExtInvalida
      BY DEF PastaDe, LidoDe
    <3>3. CASE UNCHANGED fora
      BY <3>3 DEF IgnoradosSoInvalidos
    <3>4. CASE entrada[p] # Nada /\ Deposita(PastaDe(tarefa[t].erro), tarefa[t].ts, p, entrada[p])
      BY <3>1, <3>2, <3>4 DEF Deposita, IgnoradosSoInvalidos
    <3> QED
      BY <2>1, <3>3, <3>4 DEF RejeitaEntrada
  <2>2. ASSUME NEW t \in Tarefas, RejeitaNaoPublicado(t) PROVE IgnoradosSoInvalidos'
    <3>1. fora' = fora \/ Deposita("erro", tarefa[t].ts, tarefa[t].nome, processando[tarefa[t].nome])
      BY <2>2 DEF RejeitaNaoPublicado
    <3> QED
      BY <3>1 DEF Deposita, IgnoradosSoInvalidos
  <2>3. CASE fora' = fora
    BY <2>3 DEF IgnoradosSoInvalidos
  <2>4. CASE \/ \E p \in Caminhos, d \in Docs : Escreve(p, d)
             \/ Tick
             \/ \E t \in Tarefas : ApagaZona(t) \/ Move(t)
             \/ \E e \in fila : ConsumidorRetira(e)
    <3>1. fora' = fora
      BY <2>4 DEF Escreve, Tick, ApagaZona, Move, ConsumidorRetira
    <3> QED
      BY <2>3, <3>1
  <2> QED
    BY <2>1, <2>2, <2>3, <2>4, PassosSobrePastas
<1> QED
  BY <1>1, <1>2, LidoSempre, PTL DEF Spec
=============================================================================
