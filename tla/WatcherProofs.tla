---------------------------- MODULE WatcherProofs ----------------------------
(***************************************************************************)
(* Proofs about the watcher, for every number of workers, tasks, paths,    *)
(* documents, failures and crashes.                                        *)
(***************************************************************************)
EXTENDS Watcher, TLAPS

(* What TypeOK does not say of a task: how far it is tells which of its fields are filled in. *)
RegistroCoerente(r) ==
  /\ r.fase # "livre" => r.caminho \in Caminhos
  /\ r.fase = "move" => r.hash \in Docs
  /\ r.fase \in {"publica", "recibo"} => r.hash \in Docs /\ r.nome \in Nomes
  /\ r.erro \in {"publicacao", "recibo"} => r.nome \in Nomes
TarefasCoerentes == \A t \in Tarefas : RegistroCoerente(tarefa[t])

(* The same of the orphan that the startup of a worker is publishing. *)
RecupCoerente(w) ==
  /\ fase[w] \in {"recEstabiliza", "recPublica", "recRecibo"} => recup[w].nome \in Nomes
  /\ fase[w] \in {"recPublica", "recRecibo"} => recup[w].hash \in Docs

RecupsCoerentes == \A w \in Workers : RecupCoerente(w)

(* TypeOK, split by what the actions touch together. *)
TipoPastas ==
  /\ entrada \in [Caminhos -> Docs \cup {Nada}]
  /\ escritos \in [Docs -> Nat] /\ \A d \in Docs : escritos[d] <= Vezes[d]
  /\ processando \in [Nomes -> Docs \cup {Nada}] /\ recibos \subseteq Nomes
  /\ fora \subseteq Registro /\ relogio \in 0..MaxTicks
TipoPublicacao ==
  /\ aceitos \subseteq Nomes /\ fila \subseteq [nome : Nomes, hash : Docs]
  /\ consumidos \subseteq Docs /\ avisos \subseteq Nomes
TipoInicio ==
  /\ fase \in [Workers -> FasesWorker]
  /\ recup \in [Workers -> [nome : Nomes \cup {Nada}, hash : Docs \cup {Nada}, resta : SUBSET Nomes]]
TipoMemoria ==
  /\ canal \in [Workers -> SUBSET Caminhos] /\ lista \in [Workers -> SUBSET Caminhos]
  /\ claims \in [Workers -> SUBSET Chaves]
TipoFiltrada == filtrada \in [Workers -> BOOLEAN]
TipoTarefas == tarefa \in [Tarefas -> Tarefa]
TipoLimites ==
  /\ movidos \in [Workers -> 0..MaxMovidos]
  /\ falhas \in 0..MaxFalhas /\ quedas \in 0..MaxQuedas

LEMMA TypeOKEmPartes ==
  TypeOK <=> /\ TipoPastas /\ TipoPublicacao /\ TipoInicio /\ TipoMemoria
             /\ TipoFiltrada /\ TipoTarefas /\ TipoLimites
BY Zenon DEF TypeOK, TipoPastas, TipoPublicacao, TipoInicio, TipoMemoria, TipoFiltrada,
       TipoTarefas, TipoLimites

(* A task and a staging name belong to a worker. *)
LEMMA Donos ==
  /\ \A t \in Tarefas : Dono(t) \in Workers
  /\ \A n \in Nomes : Dono(n) \in Workers
BY DEF Tarefas, Nomes, Dono

(* A path whose content nothing rejects holds a document. *)
LEMMA NaoRejeitado ==
  ASSUME NEW p \in Caminhos, NEW c \in Docs \cup {Nada}, Rejeicao(p, c) = "nenhum"
  PROVE  c \in Docs
BY DEF Rejeicao

LEMMA RejeicaoEhErro ==
  ASSUME NEW p, NEW c
  PROVE  Rejeicao(p, c) \in {"nenhum", "desapareceu", "excedido", "zero", "extensao"}
BY DEF Rejeicao

(* Replacing one task by another that is well formed keeps all of them well formed. *)
LEMMA TrocaTarefa ==
  ASSUME TipoTarefas, TarefasCoerentes, NEW t \in Tarefas, NEW r \in Tarefa, RegistroCoerente(r),
         tarefa' = [tarefa EXCEPT ![t] = r]
  PROVE  TipoTarefas' /\ TarefasCoerentes'
<1>1. TipoTarefas'
  BY DEF TipoTarefas
<1>2. \A u \in Tarefas : tarefa'[u] = IF u = t THEN r ELSE tarefa[u]
  BY DEF TipoTarefas
<1> QED
  BY <1>1, <1>2, Zenon DEF TarefasCoerentes

LEMMA NomeNovoTipado ==
  ASSUME TipoLimites, NEW w \in Workers, movidos[w] < MaxMovidos
  PROVE  NomeNovo(w) \in Nomes
BY LimitesAssumption DEF TipoLimites, NomeNovo, Nomes

(* A step of a task leaves every task well formed. *)
LEMMA TarefasNoPasso ==
  ASSUME TipoTarefas, TarefasCoerentes, TipoPastas, TipoLimites, NEW t \in Tarefas, PassoTarefa(t)
  PROVE  TipoTarefas' /\ TarefasCoerentes'
<1> DEFINE r == tarefa[t]
<1>1. r \in Tarefa /\ RegistroCoerente(r)
  BY DEF TipoTarefas, TarefasCoerentes
<1>2. Livre \in Tarefa /\ RegistroCoerente(Livre)
  BY LimitesAssumption DEF Livre, Tarefa, RegistroCoerente, Fases, Erros, Grafias
<1>3. ASSUME Termina(t) PROVE TipoTarefas' /\ TarefasCoerentes'
  BY <1>2, <1>3, TrocaTarefa DEF Termina
<1>4. ASSUME NEW e \in Erros, e \in {"publicacao", "recibo"} => r.nome \in Nomes, r.fase # "livre", Desiste(t, e)
      PROVE  TipoTarefas' /\ TarefasCoerentes'
  <2> DEFINE s == [r EXCEPT !.fase = "libera", !.erro = e]
  <2>1. s \in Tarefa /\ RegistroCoerente(s)
    BY <1>1, <1>4 DEF Tarefa, RegistroCoerente, Fases
  <2>2. tarefa' = [tarefa EXCEPT ![t] = s]
    BY <1>4 DEF Desiste, TipoTarefas
  <2> HIDE DEF s
  <2> QED
    BY <2>1, <2>2, TrocaTarefa
<1>5. CASE ApagaZona(t) \/ IgnoraDuplicado(t) \/ TrataSemMover(t) \/ RejeitaEntrada(t) \/ RejeitaNaoPublicado(t)
  BY <1>3, <1>5 DEF ApagaZona, IgnoraDuplicado, TrataSemMover, Carimba, RejeitaEntrada, RejeitaNaoPublicado
<1>6. CASE Reivindica(t)
  <2> DEFINE s == [r EXCEPT !.fase = "estabiliza"]
  <2>1. s \in Tarefa /\ RegistroCoerente(s)
    BY <1>1, <1>6 DEF Tarefa, RegistroCoerente, Fases, Reivindica, PodeComecar
  <2>2. tarefa' = [tarefa EXCEPT ![t] = s]
    BY <1>6 DEF Reivindica, TipoTarefas
  <2> HIDE DEF s
  <2> QED
    BY <2>1, <2>2, TrocaTarefa
<1>7. CASE Estabiliza(t)
  <2> DEFINE p == r.caminho
  <2>1. p \in Caminhos /\ entrada[p] \in Docs \cup {Nada}
    BY <1>1, <1>7 DEF Estabiliza, RegistroCoerente, TipoPastas
  <2>2. CASE Desiste(t, Rejeicao(p, entrada[p])) \/ Desiste(t, "io")
    BY <1>4, <1>7, <2>2, RejeicaoEhErro DEF Erros, Estabiliza
  <2>3. CASE Rejeicao(p, entrada[p]) = "nenhum"
             /\ tarefa' = [tarefa EXCEPT ![t].fase = "move", ![t].hash = entrada[p]]
    <3> DEFINE s == [r EXCEPT !.fase = "move", !.hash = entrada[p]]
    <3>1. entrada[p] \in Docs
      BY <2>1, <2>3, NaoRejeitado
    <3>2. s \in Tarefa /\ RegistroCoerente(s)
      BY <1>1, <2>1, <3>1 DEF Tarefa, RegistroCoerente, Fases
    <3>3. tarefa' = [tarefa EXCEPT ![t] = s]
      BY <2>3 DEF TipoTarefas
    <3> HIDE DEF s
    <3> QED
      BY <3>2, <3>3, TrocaTarefa
  <2> QED
    BY <1>7, <2>2, <2>3 DEF Estabiliza
<1>8. CASE Move(t)
  <2> DEFINE n == NomeNovo(Dono(t))
             s == [r EXCEPT !.fase = "publica", !.nome = n]
  <2>1. n \in Nomes
    BY <1>8, Donos, NomeNovoTipado DEF Move
  <2>2. s \in Tarefa /\ RegistroCoerente(s)
    BY <1>1, <1>8, <2>1 DEF Tarefa, RegistroCoerente, Fases, Move
  <2>3. tarefa' = [tarefa EXCEPT ![t] = s]
    BY <1>8 DEF Move, TipoTarefas
  <2> HIDE DEF s
  <2> QED
    BY <2>2, <2>3, TrocaTarefa
<1>9. CASE FalhaAoMover(t)
  <2>1. CASE Desiste(t, "retries")
    BY <1>4, <1>9, <2>1 DEF Erros, FalhaAoMover
  <2>2. CASE r.tent + 1 < MaxTentativas /\ tarefa' = [tarefa EXCEPT ![t].tent = @ + 1]
    <3> DEFINE s == [r EXCEPT !.tent = @ + 1]
    <3>1. s \in Tarefa /\ RegistroCoerente(s)
      BY <1>1, <2>2, LimitesAssumption DEF Tarefa, RegistroCoerente
    <3>2. tarefa' = [tarefa EXCEPT ![t] = s]
      BY <2>2 DEF TipoTarefas
    <3> HIDE DEF s
    <3> QED
      BY <3>1, <3>2, TrocaTarefa
  <2> QED
    BY <1>9, <2>1, <2>2 DEF FalhaAoMover
<1>10. CASE Publica(t)
  <2>1. r.nome \in Nomes
    BY <1>1, <1>10 DEF Publica, RegistroCoerente
  <2>2. CASE Desiste(t, "publicacao")
    BY <1>4, <1>10, <2>1, <2>2 DEF Erros, Publica
  <2>3. CASE tarefa' = [tarefa EXCEPT ![t].fase = "recibo"]
    <3> DEFINE s == [r EXCEPT !.fase = "recibo"]
    <3>1. s \in Tarefa /\ RegistroCoerente(s)
      BY <1>1, <1>10 DEF Tarefa, RegistroCoerente, Fases, Publica
    <3>2. tarefa' = [tarefa EXCEPT ![t] = s]
      BY <2>3 DEF TipoTarefas
    <3> HIDE DEF s
    <3> QED
      BY <3>1, <3>2, TrocaTarefa
  <2> QED
    BY <1>10, <2>2, <2>3 DEF Publica
<1>11. CASE RegistraRecibo(t)
  <2>1. r.nome \in Nomes /\ r.fase # "livre"
    BY <1>1, <1>11 DEF RegistraRecibo, RegistroCoerente
  <2> QED
    BY <1>4, <1>11, <2>1 DEF Erros, RegistraRecibo
<1>12. CASE Libera(t)
  <2>1. CASE Termina(t)
    BY <1>3, <2>1
  <2>2. CASE tarefa' = [tarefa EXCEPT ![t].fase = "trata"]
    <3> DEFINE s == [r EXCEPT !.fase = "trata"]
    <3>1. s \in Tarefa /\ RegistroCoerente(s)
      BY <1>1, <1>12 DEF Tarefa, RegistroCoerente, Fases, Libera
    <3>2. tarefa' = [tarefa EXCEPT ![t] = s]
      BY <2>2 DEF TipoTarefas
    <3> HIDE DEF s
    <3> QED
      BY <3>1, <3>2, TrocaTarefa
  <2> QED
    BY <1>12, <2>1, <2>2 DEF Libera
<1>13. CASE Carimba(t)
  <2> DEFINE s == [r EXCEPT !.fase = "rejeita", !.ts = relogio]
  <2>1. s \in Tarefa /\ RegistroCoerente(s)
    BY <1>1, <1>13 DEF Tarefa, RegistroCoerente, Fases, Carimba, TipoPastas
  <2>2. tarefa' = [tarefa EXCEPT ![t] = s]
    BY <1>13 DEF Carimba, TipoTarefas
  <2> HIDE DEF s
  <2> QED
    BY <2>1, <2>2, TrocaTarefa
<1> QED
  BY <1>5, <1>6, <1>7, <1>8, <1>9, <1>10, <1>11, <1>12, <1>13 DEF PassoTarefa

(* A rejected file is recorded as one. *)
LEMMA DepositoTipado ==
  ASSUME TipoPastas, NEW pasta \in {"erro", "ignorados"}, NEW ts \in 0..MaxTicks,
         NEW origem \in Caminhos \cup Nomes, NEW d \in Docs, Deposita(pasta, ts, origem, d)
  PROVE  fora' \subseteq Registro
BY DEF TipoPastas, Deposita, Registro

(* A step of a task leaves the folders well typed. *)
LEMMA PastasNoPasso ==
  ASSUME TipoPastas, TipoTarefas, TarefasCoerentes, TipoLimites, NEW t \in Tarefas, PassoTarefa(t)
  PROVE  TipoPastas'
<1> DEFINE p == tarefa[t].caminho
           n == tarefa[t].nome
<1>1. /\ tarefa[t].fase # "livre" => p \in Caminhos
      /\ tarefa[t].fase \in {"publica", "recibo"} \/ tarefa[t].erro \in {"publicacao", "recibo"} => n \in Nomes
      /\ tarefa[t].ts \in 0..MaxTicks
  BY DEF TarefasCoerentes, RegistroCoerente, TipoTarefas, Tarefa
<1> HIDE DEF p, n
<1>2. CASE IgnoraDuplicado(t) \/ Reivindica(t) \/ Estabiliza(t) \/ FalhaAoMover(t) \/ Publica(t)
           \/ Libera(t) \/ TrataSemMover(t) \/ Carimba(t)
  BY <1>2 DEF IgnoraDuplicado, Reivindica, Estabiliza, FalhaAoMover, Publica, Libera, TrataSemMover,
         Carimba, TipoPastas
<1>3. CASE ApagaZona(t)
  BY <1>3 DEF ApagaZona, TipoPastas
<1>4. CASE Move(t)
  <2>1. p \in Caminhos /\ entrada[p] \in Docs
    BY <1>1, <1>4 DEF Move, TipoPastas, p
  <2>2. processando' = [processando EXCEPT ![NomeNovo(Dono(t))] = entrada[p]]
    BY <1>4 DEF Move, p
  <2>3. entrada' = [entrada EXCEPT ![p] = Nada] /\ UNCHANGED <<escritos, recibos, fora, relogio>>
    BY <1>4 DEF Move, p
  <2> QED
    BY <2>1, <2>2, <2>3 DEF TipoPastas
<1>5. CASE RegistraRecibo(t)
  BY <1>1, <1>5 DEF RegistraRecibo, TipoPastas, n
<1>6. CASE RejeitaEntrada(t)
  <2>1. p \in Caminhos /\ entrada[p] \in Docs \cup {Nada} /\ PastaDe(tarefa[t].erro) \in {"erro", "ignorados"}
    BY <1>1, <1>6 DEF RejeitaEntrada, TipoPastas, PastaDe, p
  <2>2. CASE entrada[p] # Nada /\ Deposita(PastaDe(tarefa[t].erro), tarefa[t].ts, p, entrada[p])
             /\ entrada' = [entrada EXCEPT ![p] = Nada]
    <3>1. fora' \subseteq Registro
      BY <1>1, <2>1, <2>2, DepositoTipado
    <3>2. UNCHANGED <<escritos, processando, recibos, relogio>>
      BY <1>6 DEF RejeitaEntrada
    <3> QED
      BY <2>2, <3>1, <3>2 DEF TipoPastas
  <2>3. CASE UNCHANGED <<entrada, fora>>
    BY <1>6, <2>3 DEF RejeitaEntrada, TipoPastas
  <2> QED
    BY <1>6, <2>2, <2>3 DEF RejeitaEntrada, p
<1>7. CASE RejeitaNaoPublicado(t)
  <2>1. n \in Nomes /\ processando[n] \in Docs \cup {Nada}
    BY <1>1, <1>7 DEF RejeitaNaoPublicado, TipoPastas, n
  <2>2. CASE processando[n] # Nada /\ Deposita("erro", tarefa[t].ts, n, processando[n])
             /\ processando' = [processando EXCEPT ![n] = Nada]
    <3>1. fora' \subseteq Registro
      BY <1>1, <2>1, <2>2, DepositoTipado
    <3>2. UNCHANGED <<escritos, entrada, recibos, relogio>>
      BY <1>7 DEF RejeitaNaoPublicado
    <3> QED
      BY <2>2, <3>1, <3>2 DEF TipoPastas
  <2>3. CASE UNCHANGED <<processando, fora>>
    BY <1>7, <2>3 DEF RejeitaNaoPublicado, TipoPastas
  <2> QED
    BY <1>7, <2>2, <2>3 DEF RejeitaNaoPublicado, n
<1> QED
  BY <1>2, <1>3, <1>4, <1>5, <1>6, <1>7 DEF PassoTarefa

(* A step of a task leaves what was published, the warnings and the claims well typed. *)
LEMMA PublicacaoNoPasso ==
  ASSUME TipoPublicacao, TipoMemoria, TipoTarefas, TarefasCoerentes, NEW t \in Tarefas, PassoTarefa(t)
  PROVE  TipoPublicacao' /\ TipoMemoria'
<1>1. tarefa[t].erro \in {"publicacao", "recibo"} => tarefa[t].nome \in Nomes
  BY DEF TarefasCoerentes, RegistroCoerente
<1>2. Dono(t) \in Workers
  BY Donos
<1>3. CASE Publica(t)
  <2>1. tarefa[t].nome \in Nomes /\ tarefa[t].hash \in Docs
    BY <1>3 DEF Publica, TarefasCoerentes, RegistroCoerente
  <2> QED
    BY <1>3, <2>1 DEF Publica, Aceita, Recusa, Evento, TipoPublicacao, TipoMemoria, memoria
<1>4. CASE TrataSemMover(t) \/ RejeitaNaoPublicado(t)
  BY <1>1, <1>4 DEF TrataSemMover, RejeitaNaoPublicado, TipoPublicacao, TipoMemoria, publicacao, memoria
<1>5. CASE Reivindica(t) \/ Libera(t)
  <2>1. tarefa[t].caminho \in Caminhos
    BY <1>5 DEF Reivindica, Libera, PodeComecar, TarefasCoerentes, RegistroCoerente
  <2>2. Chave(tarefa[t]) \in Chaves
    BY <2>1 DEF Chave, Chaves, TipoTarefas, Tarefa
  <2> QED
    BY <1>2, <1>5, <2>2 DEF Reivindica, Libera, TipoPublicacao, TipoMemoria, publicacao
<1>6. CASE ApagaZona(t) \/ IgnoraDuplicado(t) \/ Estabiliza(t) \/ Move(t) \/ FalhaAoMover(t)
           \/ RegistraRecibo(t) \/ Carimba(t) \/ RejeitaEntrada(t)
  BY <1>6 DEF ApagaZona, IgnoraDuplicado, Estabiliza, Move, FalhaAoMover, RegistraRecibo,
         Carimba, RejeitaEntrada, TipoPublicacao, TipoMemoria, publicacao, memoria
<1> QED
  BY <1>3, <1>4, <1>5, <1>6 DEF PassoTarefa

(* A step of a task leaves the startup alone and the counters within their bounds. *)
LEMMA LimitesNoPasso ==
  ASSUME TipoLimites, NEW t \in Tarefas, PassoTarefa(t)
  PROVE  TipoLimites' /\ UNCHANGED <<fase, recup, filtrada>>
<1>1. Dono(t) \in Workers
  BY Donos
<1>2. CASE Move(t)
  BY <1>1, <1>2, LimitesAssumption DEF Move, TipoLimites, memoria
<1>3. CASE ~Move(t)
  <2>1. UNCHANGED <<fase, recup, filtrada, movidos, quedas>>
    BY <1>3 DEF PassoTarefa, ApagaZona, IgnoraDuplicado, Reivindica, Estabiliza, FalhaAoMover, Publica,
           RegistraRecibo, Libera, TrataSemMover, Carimba, RejeitaEntrada, RejeitaNaoPublicado, memoria
  <2>2. UNCHANGED falhas \/ Falha
    BY <1>3 DEF PassoTarefa, ApagaZona, IgnoraDuplicado, Reivindica, Estabiliza, FalhaAoMover, Publica,
           RegistraRecibo, Libera, TrataSemMover, Carimba, RejeitaEntrada, RejeitaNaoPublicado, Recusa
  <2> QED
    BY <2>1, <2>2, LimitesAssumption DEF TipoLimites, Falha
<1> QED
  BY <1>2, <1>3

Tipado ==
  /\ TipoPastas /\ TipoPublicacao /\ TipoInicio /\ TipoMemoria /\ TipoFiltrada /\ TipoTarefas
  /\ TipoLimites /\ TarefasCoerentes /\ RecupsCoerentes

LEMMA TipadoInicial == Init => Tipado
<1> SUFFICES ASSUME Init PROVE Tipado
  OBVIOUS
<1>1. TipoPastas /\ TipoPublicacao
  BY ConteudosAssumption, LimitesAssumption DEF Init, TipoPastas, TipoPublicacao
<1>2. TipoInicio /\ TipoMemoria
  BY DEF Init, TipoInicio, TipoMemoria, FasesWorker, Passada, Evento
<1>3. TipoFiltrada
  BY DEF Init, TipoFiltrada
<1>4. TipoTarefas
  BY LimitesAssumption DEF Init, TipoTarefas, Tarefa, Livre, Fases, Erros, Grafias
<1>5. TipoLimites
  BY LimitesAssumption DEF Init, TipoLimites
<1>6. TarefasCoerentes /\ RecupsCoerentes
  BY DEF Init, TarefasCoerentes, RegistroCoerente, RecupsCoerentes, RecupCoerente, Livre
<1> QED
  BY <1>1, <1>2, <1>3, <1>4, <1>5, <1>6 DEF Tipado

LEMMA TipadoPassoTarefa ==
  ASSUME Tipado, NEW t \in Tarefas, PassoTarefa(t)
  PROVE  Tipado'
<1>1. TipoTarefas' /\ TarefasCoerentes'
  BY TarefasNoPasso DEF Tipado
<1>2. TipoPastas'
  BY PastasNoPasso DEF Tipado
<1>3. TipoPublicacao' /\ TipoMemoria'
  BY PublicacaoNoPasso DEF Tipado
<1>4. TipoLimites' /\ UNCHANGED <<fase, recup, filtrada>>
  BY LimitesNoPasso DEF Tipado
<1>5. TipoInicio' /\ RecupsCoerentes' /\ TipoFiltrada'
  BY <1>4 DEF Tipado, TipoInicio, RecupsCoerentes, RecupCoerente, TipoFiltrada
<1> QED
  BY <1>1, <1>2, <1>3, <1>4, <1>5 DEF Tipado

(* A spawned task waits, with its path. *)
LEMMA DisparoTipado ==
  ASSUME TipoTarefas, TarefasCoerentes, NEW t \in Tarefas, NEW p \in Caminhos, NEW g \in Grafias,
         Dispara(t, p, g)
  PROVE  TipoTarefas' /\ TarefasCoerentes'
<1> DEFINE s == [Livre EXCEPT !.fase = "espera", !.caminho = p, !.grafia = g]
<1>1. Livre \in Tarefa /\ Livre.erro = "nenhum"
  BY LimitesAssumption DEF Livre, Tarefa, Fases, Erros, Grafias
<1>2. s \in Tarefa /\ RegistroCoerente(s)
  BY <1>1 DEF Tarefa, RegistroCoerente, Fases
<1>3. tarefa' = [tarefa EXCEPT ![t] = s]
  BY DEF Dispara
<1> HIDE DEF s
<1> QED
  BY <1>2, <1>3, TrocaTarefa

(* What the rest of the proofs need of both. *)
LEMMA SoDispara ==
  ASSUME Tipado, (\E t \in Tarefas : ListenerRecebe(t)) \/ \E w \in Workers : PassoScanner(w)
  PROVE  /\ UNCHANGED <<claims, processando, recibos, aceitos, avisos, fase, recup, movidos>>
         /\ tarefa' = tarefa \/ \E t \in Tarefas, p \in Caminhos, g \in Grafias : Dispara(t, p, g)
<1>1. UNCHANGED <<claims, processando, recibos, aceitos, avisos, fase, recup, movidos>>
  BY DEF ListenerRecebe, PassoScanner, ScannerLista, ScannerFiltra, ScannerDispara, publicacao
<1>2. tarefa' = tarefa \/ \E t \in Tarefas, p \in Caminhos, g \in Grafias : Dispara(t, p, g)
  BY Donos DEF ListenerRecebe, PassoScanner, ScannerLista, ScannerFiltra, ScannerDispara,
     Tipado, TipoMemoria, Grafias
<1> QED
  BY <1>1, <1>2

LEMMA TipadoListener ==
  ASSUME Tipado, NEW t \in Tarefas, ListenerRecebe(t)
  PROVE  Tipado'
<1>1. PICK p \in canal[Dono(t)] : Dispara(t, p, "absoluta") /\ canal' = [canal EXCEPT ![Dono(t)] = @ \ {p}]
  BY DEF ListenerRecebe
<1>2. p \in Caminhos
  BY <1>1, Donos DEF Tipado, TipoMemoria
<1>3. TipoTarefas' /\ TarefasCoerentes'
  BY <1>1, <1>2, DisparoTipado DEF Tipado, Grafias
<1>4. TipoMemoria'
  BY <1>1, Donos DEF ListenerRecebe, Tipado, TipoMemoria
<1>5. TipoPastas' /\ TipoPublicacao' /\ TipoInicio' /\ TipoFiltrada' /\ TipoLimites' /\ RecupsCoerentes'
  BY DEF ListenerRecebe, Tipado, TipoPastas, TipoPublicacao, TipoInicio, TipoFiltrada, TipoLimites,
         RecupsCoerentes, RecupCoerente, publicacao
<1> QED
  BY <1>3, <1>4, <1>5 DEF Tipado

LEMMA TipadoScanner ==
  ASSUME Tipado, NEW w \in Workers, PassoScanner(w)
  PROVE  Tipado'
<1>1. CASE ScannerLista(w) \/ ScannerFiltra(w)
  <2>1. TipoMemoria'
    BY <1>1 DEF ScannerLista, ScannerFiltra, Tipado, TipoMemoria
  <2>2. TipoFiltrada'
    BY <1>1 DEF ScannerLista, ScannerFiltra, Tipado, TipoFiltrada
  <2>3. TipoPastas' /\ TipoPublicacao' /\ TipoInicio' /\ TipoLimites' /\ RecupsCoerentes'
        /\ TipoTarefas' /\ TarefasCoerentes'
    BY <1>1 DEF ScannerLista, ScannerFiltra, Tipado, TipoPastas, TipoPublicacao, TipoInicio,
           TipoLimites, RecupsCoerentes, RecupCoerente, publicacao, TipoTarefas, TarefasCoerentes
  <2> QED
    BY <2>1, <2>2, <2>3 DEF Tipado
<1>2. ASSUME NEW t \in Tarefas, Dono(t) = w, ScannerDispara(t)
      PROVE  Tipado'
  <2>1. PICK p \in lista[w] : Dispara(t, p, GrafiaDoScanner) /\ lista' = [lista EXCEPT ![w] = @ \ {p}]
    BY <1>2 DEF ScannerDispara
  <2>2. p \in Caminhos
    BY <2>1 DEF Tipado, TipoMemoria
  <2>3. TipoTarefas' /\ TarefasCoerentes'
    BY <2>1, <2>2, DisparoTipado DEF Tipado, Grafias
  <2>4. TipoMemoria'
    BY <1>2, <2>1 DEF ScannerDispara, Tipado, TipoMemoria
  <2>5. TipoPastas' /\ TipoPublicacao' /\ TipoInicio' /\ TipoFiltrada' /\ TipoLimites' /\ RecupsCoerentes'
    BY <1>2 DEF ScannerDispara, Tipado, TipoPastas, TipoPublicacao, TipoInicio, TipoFiltrada,
           TipoLimites, RecupsCoerentes, RecupCoerente, publicacao
  <2> QED
    BY <2>3, <2>4, <2>5 DEF Tipado
<1> QED
  BY <1>1, <1>2 DEF PassoScanner

(* Producers, the clock and the consumer touch only folders and queue; a restart of the listener
   or scanner only what they remember. *)
LEMMA TipadoAmbiente ==
  ASSUME Tipado,
         \/ \E p \in Caminhos, d \in Docs : Escreve(p, d)
         \/ Tick
         \/ \E e \in fila : ConsumidorRetira(e) \/ ConsumidorConfirma(e)
         \/ \E w \in Workers : Reinicia(w)
  PROVE  Tipado'
<1>1. ASSUME NEW p \in Caminhos, NEW d \in Docs, Escreve(p, d) PROVE Tipado'
  <2>1. TipoPastas'
    <3>1. \A e \in Docs : escritos[e] \in Nat /\ Vezes[e] \in Nat /\ escritos[e] <= Vezes[e]
      BY ConteudosAssumption DEF Tipado, TipoPastas
    <3>2. escritos \in [Docs -> Nat] /\ escritos' = [escritos EXCEPT ![d] = @ + 1] /\ escritos[d] < Vezes[d]
      BY <1>1 DEF Escreve, Tipado, TipoPastas
    <3>3. \A e \in Docs : escritos'[e] = IF e = d THEN escritos[d] + 1 ELSE escritos[e]
      BY <3>2
    <3>4. escritos' \in [Docs -> Nat] /\ \A e \in Docs : escritos'[e] <= Vezes[e]
      BY <3>1, <3>2, <3>3
    <3> QED
      BY <1>1, <3>4 DEF Escreve, Tipado, TipoPastas
  <2>2. TipoMemoria'
    BY <1>1 DEF Escreve, Tipado, TipoMemoria
  <2>3. TipoPublicacao' /\ TipoInicio' /\ TipoFiltrada' /\ TipoLimites' /\ RecupsCoerentes'
        /\ TipoTarefas' /\ TarefasCoerentes'
    BY <1>1 DEF Escreve, Tipado, TipoPublicacao, TipoInicio, TipoFiltrada, TipoLimites,
           RecupsCoerentes, RecupCoerente, publicacao, TipoTarefas, TarefasCoerentes
  <2> QED
    BY <2>1, <2>2, <2>3 DEF Tipado
<1>2. CASE Tick
  <2>1. TipoPublicacao' /\ TipoInicio' /\ TipoFiltrada' /\ TipoLimites' /\ RecupsCoerentes'
        /\ TipoTarefas' /\ TarefasCoerentes' /\ TipoMemoria'
    BY <1>2 DEF Tick, Tipado, TipoPublicacao, TipoInicio, TipoFiltrada, TipoLimites,
           RecupsCoerentes, RecupCoerente, publicacao, memoria, TipoTarefas, TarefasCoerentes, TipoMemoria
  <2>2. TipoPastas'
    BY <1>2, LimitesAssumption DEF Tick, Tipado, TipoPastas
  <2> QED
    BY <2>1, <2>2 DEF Tipado
<1>3. ASSUME NEW e \in fila, ConsumidorRetira(e) \/ ConsumidorConfirma(e) PROVE Tipado'
  <2>1. e.nome \in Nomes
    BY DEF Tipado, TipoPublicacao
  <2>2. TipoPastas'
    BY <1>3, <2>1 DEF ConsumidorRetira, ConsumidorConfirma, Tipado, TipoPastas
  <2>3. TipoPublicacao'
    BY <1>3, <2>1 DEF ConsumidorRetira, ConsumidorConfirma, Tipado, TipoPublicacao, TipoPastas, publicacao
  <2>4. TipoInicio' /\ TipoFiltrada' /\ TipoLimites' /\ RecupsCoerentes'
        /\ TipoTarefas' /\ TarefasCoerentes' /\ TipoMemoria'
    BY <1>3 DEF ConsumidorRetira, ConsumidorConfirma, Tipado, TipoInicio, TipoFiltrada, TipoLimites,
           RecupsCoerentes, RecupCoerente, memoria, TipoTarefas, TarefasCoerentes, TipoMemoria
  <2> QED
    BY <2>2, <2>3, <2>4 DEF Tipado
<1>4. ASSUME NEW w \in Workers, Reinicia(w) PROVE Tipado'
  <2> USE <1>4 DEF Reinicia, ListenerReinicia, ScannerReinicia
  <2>1. TipoMemoria' /\ TipoFiltrada'
    BY DEF Tipado, TipoMemoria, TipoFiltrada
  <2>2. TipoLimites'
    BY LimitesAssumption DEF Falha, Tipado, TipoLimites
  <2>3. TipoPastas' /\ TipoPublicacao' /\ TipoInicio' /\ RecupsCoerentes' /\ TipoTarefas' /\ TarefasCoerentes'
    BY DEF Tipado, TipoPastas, TipoPublicacao, TipoInicio, RecupsCoerentes, RecupCoerente, publicacao,
           TipoTarefas, TarefasCoerentes
  <2> QED
    BY <2>1, <2>2, <2>3 DEF Tipado
<1> QED
  BY <1>1, <1>2, <1>3, <1>4

(* Startup recovery: the orphan being published is known by name from the choice on, by hash
   from its reading on. *)
LEMMA TipadoInicio ==
  ASSUME Tipado, NEW w \in Workers, PassoInicio(w) \/ Queda(w)
  PROVE  TipoInicio' /\ RecupsCoerentes'
<1> USE DEF Tipado, TipoInicio, RecupsCoerentes, RecupCoerente, FasesWorker
<1>1. ASSUME Aborta(w) PROVE TipoInicio' /\ RecupsCoerentes'
  BY <1>1 DEF Aborta, Passada, Evento
<1>2. CASE Inicia(w)
  BY <1>2 DEF Inicia, Passada, Encenados
<1>3. CASE RecuperaEscolhe(w)
  BY <1>1, <1>3 DEF RecuperaEscolhe
<1>4. CASE RecuperaEstabiliza(w)
  <2>1. CASE Legivel(processando[recup[w].nome])
             /\ recup' = [recup EXCEPT ![w].hash = processando[recup[w].nome]]
             /\ fase' = [fase EXCEPT ![w] = "recPublica"]
    <3>1. processando[recup[w].nome] \in Docs /\ fase[w] = "recEstabiliza"
      BY <1>4, <2>1 DEF Legivel, RecuperaEstabiliza
    <3> QED
      BY <2>1, <3>1
  <2> QED
    BY <1>1, <1>4, <2>1 DEF RecuperaEstabiliza
<1>5. CASE RecuperaPublica(w)
  BY <1>1, <1>5 DEF RecuperaPublica
<1>6. CASE RecuperaRecibo(w)
  BY <1>1, <1>6 DEF RecuperaRecibo, Passada, Evento
<1>7. CASE RecuperaLimpa(w)
  BY <1>7 DEF RecuperaLimpa, TipoPastas
<1>9. CASE LimpaRecibo(w)
  BY <1>1, <1>9 DEF LimpaRecibo
<1>10. CASE RecuperaConclui(w)
  BY <1>10 DEF RecuperaConclui
<1>8. CASE Queda(w)
  BY <1>1, <1>8 DEF Queda
<1> QED
  BY <1>2, <1>3, <1>4, <1>5, <1>6, <1>7, <1>8, <1>9, <1>10 DEF PassoInicio

LEMMA TipadoPassoInicio ==
  ASSUME Tipado, NEW w \in Workers, PassoInicio(w)
  PROVE  Tipado'
<1>1. TipoInicio' /\ RecupsCoerentes'
  BY TipadoInicio
<1>2. UNCHANGED <<entrada, escritos, processando, fora, relogio, consumidos, avisos, memoria, tarefa,
                 movidos, quedas>>
  BY DEF PassoInicio, Inicia, RecuperaEscolhe, RecuperaEstabiliza, RecuperaPublica, RecuperaRecibo, RecuperaLimpa, LimpaRecibo,
         RecuperaConclui
<1>3. recibos' \subseteq Nomes
  BY DEF PassoInicio, Inicia, RecuperaEscolhe, RecuperaEstabiliza, RecuperaPublica, RecuperaRecibo, RecuperaLimpa, LimpaRecibo,
         RecuperaConclui, Tipado, TipoPastas, RecupsCoerentes, RecupCoerente
<1>4. TipoPastas'
  BY <1>2, <1>3 DEF Tipado, TipoPastas
<1>5. aceitos' \subseteq Nomes /\ fila' \subseteq [nome : Nomes, hash : Docs]
  <2>1. CASE RecuperaPublica(w)
    <3>1. recup[w].nome \in Nomes /\ recup[w].hash \in Docs
      BY <2>1 DEF RecuperaPublica, Tipado, RecupsCoerentes, RecupCoerente
    <3> QED
      BY <2>1, <3>1 DEF RecuperaPublica, Aceita, Recusa, Evento, Tipado, TipoPublicacao
  <2>2. CASE ~RecuperaPublica(w)
    BY <2>2 DEF PassoInicio, Inicia, RecuperaEscolhe, RecuperaEstabiliza, RecuperaRecibo, RecuperaLimpa, LimpaRecibo,
           RecuperaConclui, publicacao, Tipado, TipoPublicacao
  <2> QED
    BY <2>1, <2>2
<1>6. TipoPublicacao'
  BY <1>2, <1>5 DEF Tipado, TipoPublicacao
<1>7. UNCHANGED falhas \/ Falha
  BY DEF PassoInicio, Inicia, RecuperaEscolhe, RecuperaEstabiliza, RecuperaPublica, Recusa,
         RecuperaRecibo, RecuperaLimpa, LimpaRecibo, RecuperaConclui
<1>8. TipoLimites'
  BY <1>2, <1>7, LimitesAssumption DEF Tipado, TipoLimites, Falha
<1>9. TipoMemoria' /\ TipoFiltrada' /\ TipoTarefas' /\ TarefasCoerentes'
  BY <1>2 DEF Tipado, TipoMemoria, TipoFiltrada, TipoTarefas, TarefasCoerentes, memoria
<1> QED
  BY <1>1, <1>4, <1>6, <1>8, <1>9 DEF Tipado

(* A crash clears the memory of one worker: its tasks, claims, events and list. *)
LEMMA TipadoQueda ==
  ASSUME Tipado, NEW w \in Workers, Queda(w)
  PROVE  Tipado'
<1>1. TipoInicio' /\ RecupsCoerentes'
  BY TipadoInicio
<1>2. TipoTarefas' /\ TarefasCoerentes'
  <2>1. Livre \in Tarefa /\ RegistroCoerente(Livre)
    BY LimitesAssumption DEF Livre, Tarefa, RegistroCoerente, Fases, Erros, Grafias
  <2>2. tarefa' = [t \in Tarefas |-> IF Dono(t) = w THEN Livre ELSE tarefa[t]]
    BY DEF Queda
  <2> QED
    BY <2>1, <2>2 DEF Tipado, TipoTarefas, TarefasCoerentes
<1>3. TipoMemoria'
  BY DEF Queda, Tipado, TipoMemoria
<1>4. TipoFiltrada'
  BY DEF Queda, Tipado, TipoFiltrada
<1>5. TipoLimites'
  BY LimitesAssumption DEF Queda, Tipado, TipoLimites
<1>6. TipoPastas' /\ TipoPublicacao'
  BY DEF Queda, Tipado, TipoPastas, TipoPublicacao, publicacao
<1> QED
  BY <1>1, <1>2, <1>3, <1>4, <1>5, <1>6 DEF Tipado

LEMMA TipadoPreservado == Tipado /\ [Next]_vars => Tipado'
<1> SUFFICES ASSUME Tipado, [Next]_vars PROVE Tipado'
  OBVIOUS
<1>1. CASE UNCHANGED vars
  BY <1>1 DEF vars, Tipado, TipoPastas, TipoPublicacao, TipoInicio, TipoMemoria, TipoFiltrada,
         TipoTarefas, TipoLimites, TarefasCoerentes, RecupsCoerentes, RecupCoerente
<1> QED
  BY <1>1, TipadoAmbiente, TipadoListener, TipadoPassoTarefa, TipadoScanner, TipadoPassoInicio,
     TipadoQueda DEF Next, NextSemConsumidor

(* The state is well typed and coherent whatever is configured, fails or crashes. *)
THEOREM InvarianteDeTipo == Spec => []Tipado
BY TipadoInicial, TipadoPreservado, PTL DEF Spec

(* Every variable of the watcher keeps a value of its kind; in particular no retry goes past
   max_tentativas (mover_atomico_com_retry). *)
THEOREM TeoTypeOK == Spec => []TypeOK
<1>1. Tipado => TypeOK
  BY TypeOKEmPartes DEF Tipado
<1> QED
  BY InvarianteDeTipo, <1>1, PTL

-----------------------------------------------------------------------------
(* Receipts: who is about to write one holds the name of an accepted event. *)
AceitoAntesDoRecibo ==
  /\ ReciboSoDepoisDeAceito
  /\ \A t \in Tarefas : tarefa[t].fase = "recibo" => tarefa[t].nome \in aceitos
  /\ \A w \in Workers : fase[w] = "recRecibo" => recup[w].nome \in aceitos

LEMMA ReciboNoPasso ==
  ASSUME Tipado, AceitoAntesDoRecibo, NEW t \in Tarefas, PassoTarefa(t)
  PROVE  AceitoAntesDoRecibo'
<1> USE DEF Tipado, TipoTarefas, AceitoAntesDoRecibo, ReciboSoDepoisDeAceito
<1>1. UNCHANGED <<fase, recup>>
  BY LimitesNoPasso
<1>2. CASE Publica(t)
  <2>1. recibos' = recibos /\ aceitos \subseteq aceitos'
    BY <1>2 DEF Publica, Aceita, Recusa
  <2>2. tarefa'[t].fase = "recibo" => tarefa'[t].nome \in aceitos'
    BY <1>2 DEF Publica, Aceita, Desiste, Tarefa
  <2>3. \A u \in Tarefas : u # t => tarefa'[u] = tarefa[u]
    BY <1>2 DEF Publica, Desiste
  <2> QED
    BY <1>1, <2>1, <2>2, <2>3
<1>3. CASE ~Publica(t)
  <2>1. aceitos' = aceitos
    BY <1>3 DEF PassoTarefa, ApagaZona, IgnoraDuplicado, Reivindica, Estabiliza, Move, FalhaAoMover,
           RegistraRecibo, Libera, TrataSemMover, Carimba, RejeitaEntrada, RejeitaNaoPublicado, publicacao
  <2>2. recibos' \subseteq aceitos
    BY <1>3 DEF PassoTarefa, ApagaZona, IgnoraDuplicado, Reivindica, Estabiliza, Move, FalhaAoMover,
           RegistraRecibo, Libera, TrataSemMover, Carimba, RejeitaEntrada, RejeitaNaoPublicado
  <2>3. \A u \in Tarefas : tarefa'[u].fase = "recibo" => tarefa'[u] = tarefa[u]
    BY <1>3 DEF PassoTarefa, ApagaZona, IgnoraDuplicado, Reivindica, Estabiliza, Move, FalhaAoMover,
           RegistraRecibo, Libera, TrataSemMover, Carimba, RejeitaEntrada, RejeitaNaoPublicado, Termina,
           Desiste, Livre, Tarefa
  <2> QED
    BY <1>1, <2>1, <2>2, <2>3
<1> QED
  BY <1>2, <1>3

LEMMA ReciboNoInicio ==
  ASSUME Tipado, AceitoAntesDoRecibo, NEW w \in Workers, PassoInicio(w) \/ Queda(w)
  PROVE  AceitoAntesDoRecibo'
<1> USE DEF Tipado, TipoTarefas, TipoInicio, AceitoAntesDoRecibo, ReciboSoDepoisDeAceito
<1>1. \A u \in Tarefas : tarefa'[u].fase = "recibo" => tarefa'[u] = tarefa[u]
  BY DEF PassoInicio, Inicia, RecuperaEscolhe, RecuperaEstabiliza, RecuperaPublica, RecuperaRecibo, RecuperaLimpa, LimpaRecibo,
         RecuperaConclui, Queda, memoria, Livre
<1>2. CASE RecuperaPublica(w)
  BY <1>1, <1>2 DEF RecuperaPublica, Aceita, Recusa, Aborta, Passada
<1>3. CASE ~RecuperaPublica(w)
  <2>1. aceitos' = aceitos /\ recibos' \subseteq aceitos
    BY <1>3 DEF PassoInicio, Inicia, RecuperaEscolhe, RecuperaEstabiliza, RecuperaRecibo, RecuperaLimpa, LimpaRecibo,
           RecuperaConclui, Queda, publicacao
  <2>2. \A v \in Workers : fase'[v] = "recRecibo" => fase[v] = "recRecibo" /\ recup'[v] = recup[v]
    BY <1>3 DEF PassoInicio, Inicia, RecuperaEscolhe, RecuperaEstabiliza, RecuperaRecibo, RecuperaLimpa, LimpaRecibo,
           RecuperaConclui, Queda, Aborta
  <2> QED
    BY <1>1, <2>1, <2>2
<1> QED
  BY <1>2, <1>3

LEMMA ReciboPreservado == Tipado /\ AceitoAntesDoRecibo /\ [Next]_vars => AceitoAntesDoRecibo'
<1> SUFFICES ASSUME Tipado, AceitoAntesDoRecibo, [Next]_vars PROVE AceitoAntesDoRecibo'
  OBVIOUS
<1> USE DEF AceitoAntesDoRecibo, ReciboSoDepoisDeAceito
<1>1. CASE \/ \E p \in Caminhos, d \in Docs : Escreve(p, d)
           \/ Tick
           \/ \E e \in fila : ConsumidorRetira(e) \/ ConsumidorConfirma(e)
           \/ \E w \in Workers : Reinicia(w)
  BY <1>1 DEF Escreve, Tick, ConsumidorRetira, ConsumidorConfirma, publicacao, Reinicia,
         ListenerReinicia, ScannerReinicia
<1>2. CASE \/ \E t \in Tarefas : ListenerRecebe(t)
           \/ \E w \in Workers : PassoScanner(w)
  <2>1. \A u \in Tarefas : tarefa'[u].fase = "recibo" => tarefa'[u] = tarefa[u]
    BY <1>2, SoDispara DEF Dispara, Livre, Tipado, TipoTarefas
  <2> QED
    BY <1>2, <2>1, SoDispara
<1>3. CASE UNCHANGED vars
  BY <1>3 DEF vars
<1> QED
  BY <1>1, <1>2, <1>3, ReciboNoPasso, ReciboNoInicio DEF Next, NextSemConsumidor

(* A receipt makes every later startup skip the file, and it exists only for an event the
   publisher accepted, whatever fails and whenever the process dies (registrar_recibo_publicacao). *)
THEOREM TeoReciboSoDepoisDeAceito == Spec => []ReciboSoDepoisDeAceito
<1>1. Init => AceitoAntesDoRecibo
  BY DEF Init, AceitoAntesDoRecibo, ReciboSoDepoisDeAceito, Livre
<1>2. AceitoAntesDoRecibo => ReciboSoDepoisDeAceito
  BY DEF AceitoAntesDoRecibo
<1> QED
  BY <1>1, <1>2, InvarianteDeTipo, ReciboPreservado, PTL DEF Spec

-----------------------------------------------------------------------------
(* Claims: the set comprehension of ClaimsExatos, read as three facts. *)
ClaimsPorTarefa ==
  /\ \A w \in Workers : \A p \in claims[w] :
       \E t \in Tarefas : Dono(t) = w /\ tarefa[t].fase \in ComClaim /\ Chave(tarefa[t]) = p
  /\ \A t \in Tarefas : tarefa[t].fase \in ComClaim => Chave(tarefa[t]) \in claims[Dono(t)]
  /\ \A t, u \in Tarefas :
       /\ Dono(t) = Dono(u) /\ Chave(tarefa[t]) = Chave(tarefa[u])
       /\ tarefa[t].fase \in ComClaim /\ tarefa[u].fase \in ComClaim
       => t = u

LEMMA ClaimsEquivalentes == ClaimsPorTarefa => ClaimsExatos
<1> SUFFICES ASSUME ClaimsPorTarefa PROVE ClaimsExatos
  OBVIOUS
<1>1. ASSUME NEW w \in Workers
      PROVE  claims[w] = {Chave(tarefa[t]) : t \in {u \in Tarefas : Dono(u) = w /\ tarefa[u].fase \in ComClaim}}
  <2> DEFINE S == {Chave(tarefa[t]) : t \in {u \in Tarefas : Dono(u) = w /\ tarefa[u].fase \in ComClaim}}
  <2>1. ASSUME NEW p \in claims[w] PROVE p \in S
    BY <2>1 DEF ClaimsPorTarefa
  <2>2. ASSUME NEW p \in S PROVE p \in claims[w]
    BY <2>2 DEF ClaimsPorTarefa
  <2> QED
    BY <2>1, <2>2
<1>2. \A t, u \in Tarefas :
        /\ Dono(t) = Dono(u) /\ Chave(tarefa[t]) = Chave(tarefa[u])
        /\ tarefa[t].fase \in ComClaim /\ tarefa[u].fase \in ComClaim
        => t = u
  BY DEF ClaimsPorTarefa
<1> QED
  BY <1>1, <1>2 DEF ClaimsExatos

(* A step that keeps the claims and leaves each claiming task on its path keeps them exact. *)
LEMMA ClaimsParados ==
  ASSUME ClaimsPorTarefa, claims' = claims,
         \A u \in Tarefas :
           /\ tarefa'[u].fase \in ComClaim <=> tarefa[u].fase \in ComClaim
           /\ tarefa[u].fase \in ComClaim => Chave(tarefa'[u]) = Chave(tarefa[u])
  PROVE  ClaimsPorTarefa'
<1>1. \A w \in Workers : \A p \in claims'[w] :
        \E t \in Tarefas : Dono(t) = w /\ tarefa'[t].fase \in ComClaim /\ Chave(tarefa'[t]) = p
  BY DEF ClaimsPorTarefa
<1>2. \A t \in Tarefas : tarefa'[t].fase \in ComClaim => Chave(tarefa'[t]) \in claims'[Dono(t)]
  BY DEF ClaimsPorTarefa
<1>3. \A t, u \in Tarefas :
        /\ Dono(t) = Dono(u) /\ Chave(tarefa'[t]) = Chave(tarefa'[u])
        /\ tarefa'[t].fase \in ComClaim /\ tarefa'[u].fase \in ComClaim
        => t = u
  BY DEF ClaimsPorTarefa
<1> QED
  BY <1>1, <1>2, <1>3, Zenon DEF ClaimsPorTarefa

(* A task changes only its own record. *)
LEMMA OutrasTarefas ==
  ASSUME TipoTarefas, NEW t \in Tarefas, PassoTarefa(t)
  PROVE  \A u \in Tarefas : u # t => tarefa'[u] = tarefa[u]
BY DEF TipoTarefas, PassoTarefa, ApagaZona, IgnoraDuplicado, Reivindica, Estabiliza, Move, FalhaAoMover,
       Publica, RegistraRecibo, Libera, TrataSemMover, Carimba, RejeitaEntrada, RejeitaNaoPublicado, Termina, Desiste

LEMMA ClaimsNoPasso ==
  ASSUME Tipado, ClaimsPorTarefa, NEW t \in Tarefas, PassoTarefa(t)
  PROVE  ClaimsPorTarefa'
<1> DEFINE w == Dono(t)
           p == Chave(tarefa[t])
<1>1. w \in Workers /\ \A u \in Tarefas : Dono(u) \in Workers
  BY Donos
<1>2. \A u \in Tarefas : u # t => tarefa'[u] = tarefa[u]
  BY OutrasTarefas DEF Tipado
<1>3. CASE Reivindica(t)
  <2>1. /\ p \notin claims[w] /\ claims' = [claims EXCEPT ![w] = @ \cup {p}]
        /\ tarefa'[t].fase = "estabiliza" /\ Chave(tarefa'[t]) = p /\ tarefa[t].fase = "espera"
    BY <1>3 DEF Reivindica, PodeComecar, Chave, Tipado, TipoTarefas, Tarefa
  <2>2. \A v \in Workers : claims'[v] = IF v = w THEN claims[w] \cup {p} ELSE claims[v]
    BY <1>1, <2>1 DEF Tipado, TipoMemoria
  <2> HIDE DEF w, p
  <2>3. \A v \in Workers : \A q \in claims'[v] :
          \E u \in Tarefas : Dono(u) = v /\ tarefa'[u].fase \in ComClaim /\ Chave(tarefa'[u]) = q
    <3> SUFFICES ASSUME NEW v \in Workers, NEW q \in claims'[v]
                 PROVE \E u \in Tarefas : Dono(u) = v /\ tarefa'[u].fase \in ComClaim /\ Chave(tarefa'[u]) = q
      OBVIOUS
    <3>1. CASE v = w /\ q = p
      BY <2>1, <3>1 DEF ComClaim, w
    <3>2. CASE q \in claims[v]
      <4>1. PICK u \in Tarefas : Dono(u) = v /\ tarefa[u].fase \in ComClaim /\ Chave(tarefa[u]) = q
        BY <3>2 DEF ClaimsPorTarefa
      <4>2. u # t
        BY <2>1, <4>1 DEF ComClaim
      <4> QED
        BY <1>2, <4>1, <4>2
    <3> QED
      BY <2>2, <3>1, <3>2
  <2>4. \A u \in Tarefas : tarefa'[u].fase \in ComClaim => Chave(tarefa'[u]) \in claims'[Dono(u)]
    BY <1>1, <1>2, <2>1, <2>2 DEF ClaimsPorTarefa, w
  <2>5. \A u \in Tarefas : u # t /\ Dono(u) = w /\ tarefa'[u].fase \in ComClaim => Chave(tarefa'[u]) # p
    BY <1>2, <2>1 DEF ClaimsPorTarefa
  <2>6. \A u, v \in Tarefas :
          /\ Dono(u) = Dono(v) /\ Chave(tarefa'[u]) = Chave(tarefa'[v])
          /\ tarefa'[u].fase \in ComClaim /\ tarefa'[v].fase \in ComClaim
          => u = v
    BY <1>2, <2>1, <2>5 DEF ClaimsPorTarefa, w
  <2> QED
    BY <2>3, <2>4, <2>6, Zenon DEF ClaimsPorTarefa
<1>4. CASE Libera(t)
  <2>1. /\ tarefa[t].fase \in ComClaim /\ tarefa'[t].fase \notin ComClaim
        /\ claims' = [claims EXCEPT ![w] = @ \ {p}]
    BY <1>4 DEF Libera, Termina, Livre, ComClaim, Tipado, TipoTarefas, Tarefa
  <2>2. \A v \in Workers : claims'[v] = IF v = w THEN claims[w] \ {p} ELSE claims[v]
    BY <1>1, <2>1 DEF Tipado, TipoMemoria
  <2> HIDE DEF w, p
  <2>3. \A v \in Workers : \A q \in claims'[v] :
          \E u \in Tarefas : Dono(u) = v /\ tarefa'[u].fase \in ComClaim /\ Chave(tarefa'[u]) = q
    <3> SUFFICES ASSUME NEW v \in Workers, NEW q \in claims'[v]
                 PROVE \E u \in Tarefas : Dono(u) = v /\ tarefa'[u].fase \in ComClaim /\ Chave(tarefa'[u]) = q
      OBVIOUS
    <3>1. PICK u \in Tarefas : Dono(u) = v /\ tarefa[u].fase \in ComClaim /\ Chave(tarefa[u]) = q
      BY <2>2 DEF ClaimsPorTarefa
    <3>2. u # t
      BY <2>2, <3>1 DEF w, p
    <3> QED
      BY <1>2, <3>1, <3>2
  <2>4. \A u \in Tarefas : tarefa'[u].fase \in ComClaim => Chave(tarefa'[u]) \in claims'[Dono(u)]
    <3> SUFFICES ASSUME NEW u \in Tarefas, tarefa'[u].fase \in ComClaim
                 PROVE Chave(tarefa'[u]) \in claims'[Dono(u)]
      OBVIOUS
    <3>1. u # t /\ tarefa'[u] = tarefa[u]
      BY <1>2, <2>1
    <3>2. Chave(tarefa[u]) \in claims[Dono(u)]
      BY <3>1 DEF ClaimsPorTarefa
    <3>3. Dono(u) = w => Chave(tarefa[u]) # p
      BY <2>1, <3>1 DEF ClaimsPorTarefa, w, p
    <3> QED
      BY <1>1, <2>2, <3>1, <3>2, <3>3
  <2>5. \A u, v \in Tarefas :
          /\ Dono(u) = Dono(v) /\ Chave(tarefa'[u]) = Chave(tarefa'[v])
          /\ tarefa'[u].fase \in ComClaim /\ tarefa'[v].fase \in ComClaim
          => u = v
    BY <1>2, <2>1 DEF ClaimsPorTarefa
  <2> QED
    BY <2>3, <2>4, <2>5, Zenon DEF ClaimsPorTarefa
<1>5. CASE ~Reivindica(t) /\ ~Libera(t)
  <2>1. claims' = claims
    BY <1>5 DEF PassoTarefa, ApagaZona, IgnoraDuplicado, Estabiliza, Move, FalhaAoMover, Publica,
           RegistraRecibo, TrataSemMover, Carimba, RejeitaEntrada, RejeitaNaoPublicado, memoria
  <2>2. /\ tarefa'[t].fase \in ComClaim <=> tarefa[t].fase \in ComClaim
        /\ tarefa[t].fase \in ComClaim => Chave(tarefa'[t]) = Chave(tarefa[t])
    BY <1>5 DEF PassoTarefa, ApagaZona, IgnoraDuplicado, Estabiliza, Move, FalhaAoMover, Publica,
           RegistraRecibo, TrataSemMover, Carimba, RejeitaEntrada, RejeitaNaoPublicado, PodeComecar, Termina,
           Desiste, Livre, ComClaim, Chave, Tipado, TipoTarefas, Tarefa
  <2>3. \A u \in Tarefas :
          /\ tarefa'[u].fase \in ComClaim <=> tarefa[u].fase \in ComClaim
          /\ tarefa[u].fase \in ComClaim => Chave(tarefa'[u]) = Chave(tarefa[u])
    BY <1>2, <2>2
  <2> QED
    BY <2>1, <2>3, ClaimsParados
<1> QED
  BY <1>3, <1>4, <1>5

(* A crash takes all claims and all tasks of its worker, and none of another. *)
LEMMA ClaimsNaQueda ==
  ASSUME Tipado, ClaimsPorTarefa, NEW w \in Workers, Queda(w)
  PROVE  ClaimsPorTarefa'
<1>1. \A v \in Workers : claims'[v] = IF v = w THEN {} ELSE claims[v]
  BY DEF Queda, Tipado, TipoMemoria
<1>2. \A u \in Tarefas : tarefa'[u] = IF Dono(u) = w THEN Livre ELSE tarefa[u]
  BY DEF Queda
<1>3. Livre.fase \notin ComClaim
  BY DEF Livre, ComClaim
<1>4. \A v \in Workers : \A q \in claims'[v] :
        \E u \in Tarefas : Dono(u) = v /\ tarefa'[u].fase \in ComClaim /\ Chave(tarefa'[u]) = q
  BY <1>1, <1>2 DEF ClaimsPorTarefa
<1>5. \A u \in Tarefas : tarefa'[u].fase \in ComClaim => Chave(tarefa'[u]) \in claims'[Dono(u)]
  BY <1>1, <1>2, <1>3, Donos DEF ClaimsPorTarefa
<1>6. \A u, v \in Tarefas :
        /\ Dono(u) = Dono(v) /\ Chave(tarefa'[u]) = Chave(tarefa'[v])
        /\ tarefa'[u].fase \in ComClaim /\ tarefa'[v].fase \in ComClaim
        => u = v
  BY <1>2, <1>3 DEF ClaimsPorTarefa
<1> QED
  BY <1>4, <1>5, <1>6, Zenon DEF ClaimsPorTarefa

LEMMA ClaimsPreservados == Tipado /\ ClaimsPorTarefa /\ [Next]_vars => ClaimsPorTarefa'
<1> SUFFICES ASSUME Tipado, ClaimsPorTarefa, [Next]_vars PROVE ClaimsPorTarefa'
  OBVIOUS
<1>1. ASSUME tarefa' = tarefa, claims' = claims PROVE ClaimsPorTarefa'
  BY <1>1, ClaimsParados
<1>2. CASE \/ \E p \in Caminhos, d \in Docs : Escreve(p, d)
           \/ Tick
           \/ \E e \in fila : ConsumidorRetira(e) \/ ConsumidorConfirma(e)
           \/ \E w \in Workers : PassoInicio(w) \/ Reinicia(w)
           \/ UNCHANGED vars
  <2>1. tarefa' = tarefa /\ claims' = claims
    BY <1>2 DEF Escreve, Tick, ConsumidorRetira, ConsumidorConfirma, Reinicia, ListenerReinicia,
           ScannerReinicia, PassoInicio, Inicia,
           RecuperaEscolhe, RecuperaEstabiliza, RecuperaPublica, RecuperaRecibo, RecuperaLimpa, LimpaRecibo, RecuperaConclui,
           memoria, vars
  <2> QED
    BY <1>1, <2>1
<1>3. ASSUME NEW t \in Tarefas, NEW p, NEW g, Dispara(t, p, g), claims' = claims PROVE ClaimsPorTarefa'
  <2>1. \A u \in Tarefas :
          /\ tarefa'[u].fase \in ComClaim <=> tarefa[u].fase \in ComClaim
          /\ tarefa[u].fase \in ComClaim => Chave(tarefa'[u]) = Chave(tarefa[u])
    BY <1>3 DEF Dispara, Livre, ComClaim, Tipado, TipoTarefas
  <2> QED
    BY <1>3, <2>1, ClaimsParados
<1>4. CASE \/ \E t \in Tarefas : ListenerRecebe(t)
           \/ \E w \in Workers : PassoScanner(w)
  BY <1>1, <1>3, <1>4, SoDispara
<1> QED
  BY <1>2, <1>4, ClaimsNoPasso, ClaimsNaQueda DEF Next, NextSemConsumidor

LEMMA InvarianteDosClaims == Spec => []ClaimsPorTarefa
<1>1. Init => ClaimsPorTarefa
  BY DEF Init, ClaimsPorTarefa, Livre, ComClaim
<1> QED
  BY <1>1, InvarianteDeTipo, ClaimsPreservados, PTL DEF Spec

(* The claim set is exact: a worker's claims are the paths its tasks are working on, and two
   tasks never work on one path that they spell alike, however events, scans, failures and crashes interleave
   (tratar_evento). *)
THEOREM TeoClaimsExatos == Spec => []ClaimsExatos
BY InvarianteDosClaims, ClaimsEquivalentes, PTL

-----------------------------------------------------------------------------
(* A worker that does not run yet, or no more, has no task and nothing to spawn one for. *)
ParadoSemTarefas ==
  \A w \in Workers : fase[w] # "ativo" =>
    lista[w] = {} /\ \A t \in Tarefas : Dono(t) = w => tarefa[t] = Livre

LEMMA AtivoSeTrabalha ==
  ASSUME ParadoSemTarefas, NEW t \in Tarefas, PassoTarefa(t)
  PROVE  fase[Dono(t)] = "ativo"
<1>1. tarefa[t].fase # "livre"
  BY DEF PassoTarefa, ApagaZona, IgnoraDuplicado, Reivindica, PodeComecar, Estabiliza, Move, FalhaAoMover,
         Publica, RegistraRecibo, Libera, TrataSemMover, Carimba, RejeitaEntrada, RejeitaNaoPublicado
<1> QED
  BY <1>1, Donos DEF ParadoSemTarefas, Livre

(* The startup touches its worker only, and none that runs. *)
LEMMA SoUmInicia ==
  ASSUME Tipado, NEW w \in Workers, PassoInicio(w)
  PROVE  /\ fase[w] # "ativo" /\ UNCHANGED <<tarefa, lista>>
         /\ \A v \in Workers : v # w => fase'[v] = fase[v] /\ recup'[v] = recup[v]
BY DEF PassoInicio, Inicia, RecuperaEscolhe, RecuperaEstabiliza, RecuperaPublica, RecuperaRecibo,
       RecuperaLimpa, LimpaRecibo, RecuperaConclui, Aborta, memoria, Tipado, TipoInicio

LEMMA ParadoPreservado == Tipado /\ ParadoSemTarefas /\ [Next]_vars => ParadoSemTarefas'
<1> SUFFICES ASSUME Tipado, ParadoSemTarefas, [Next]_vars PROVE ParadoSemTarefas'
  OBVIOUS
<1>1. ASSUME NEW t \in Tarefas, PassoTarefa(t) PROVE ParadoSemTarefas'
  <2>1. fase[Dono(t)] = "ativo" /\ fase' = fase
    BY <1>1, AtivoSeTrabalha, LimitesNoPasso DEF Tipado
  <2>2. lista' = lista
    BY <1>1 DEF PassoTarefa, ApagaZona, IgnoraDuplicado, Reivindica, Estabiliza, Move, FalhaAoMover, Publica,
           RegistraRecibo, Libera, TrataSemMover, Carimba, RejeitaEntrada, RejeitaNaoPublicado, memoria
  <2>3. \A u \in Tarefas : u # t => tarefa'[u] = tarefa[u]
    BY <1>1, OutrasTarefas DEF Tipado
  <2> QED
    BY <2>1, <2>2, <2>3 DEF ParadoSemTarefas
<1>2. CASE \/ \E p \in Caminhos, d \in Docs : Escreve(p, d)
           \/ Tick
           \/ \E e \in fila : ConsumidorRetira(e) \/ ConsumidorConfirma(e)
           \/ \E w \in Workers : Reinicia(w)
           \/ UNCHANGED vars
  BY <1>2 DEF Escreve, Tick, ConsumidorRetira, ConsumidorConfirma, Reinicia, ListenerReinicia,
     ScannerReinicia, vars, memoria, ParadoSemTarefas, Tipado, TipoMemoria
<1>3. ASSUME NEW t \in Tarefas, ListenerRecebe(t) PROVE ParadoSemTarefas'
  BY <1>3 DEF ListenerRecebe, Dispara, ParadoSemTarefas
<1>4. ASSUME NEW w \in Workers, PassoScanner(w) PROVE ParadoSemTarefas'
  <2>1. CASE ScannerLista(w) \/ ScannerFiltra(w)
    BY <2>1 DEF ScannerLista, ScannerFiltra, ParadoSemTarefas, Tipado, TipoMemoria
  <2>2. ASSUME NEW t \in Tarefas, Dono(t) = w, ScannerDispara(t) PROVE ParadoSemTarefas'
    <3>1. fase[w] = "ativo" /\ fase' = fase
      BY <2>2 DEF ScannerDispara, ParadoSemTarefas
    <3>2. \A v \in Workers : v # w => lista'[v] = lista[v]
      BY <2>2 DEF ScannerDispara, Tipado, TipoMemoria
    <3>3. \A u \in Tarefas : Dono(u) # w => tarefa'[u] = tarefa[u]
      BY <2>2 DEF ScannerDispara, Dispara
    <3> QED
      BY <3>1, <3>2, <3>3 DEF ParadoSemTarefas
  <2> QED
    BY <1>4, <2>1, <2>2 DEF PassoScanner
<1>5. ASSUME NEW w \in Workers, PassoInicio(w) PROVE ParadoSemTarefas'
  BY <1>5, SoUmInicia DEF ParadoSemTarefas
<1>6. ASSUME NEW w \in Workers, Queda(w) PROVE ParadoSemTarefas'
  BY <1>6 DEF Queda, Aborta, Livre, ParadoSemTarefas, Tipado, TipoMemoria, TipoInicio
<1> QED
  BY <1>1, <1>2, <1>3, <1>4, <1>5, <1>6 DEF Next, NextSemConsumidor

LEMMA InvarianteDosParados == Spec => []ParadoSemTarefas
<1>1. Init => ParadoSemTarefas
  BY DEF Init, ParadoSemTarefas, Livre
<1> QED
  BY <1>1, InvarianteDeTipo, ParadoPreservado, PTL DEF Spec

-----------------------------------------------------------------------------
(* Orphans.  Four facts about the tasks make OrfaoTemTratador inductive: a task has a name only
   after its rename, and keeps an error that goes with it; the name is its worker's and none that
   a later rename can use again; and a task that releases its claim without an error left a
   receipt, or its file is gone, or the consumer took it for a duplicate.  A fifth says of the one
   pass of the startup that it misses no orphan. *)
ErroCoerente(r) ==
  /\ r.fase \in {"livre", "espera", "estabiliza", "move"} => r.nome = Nada
  /\ r.fase \in {"libera", "trata", "rejeita"} /\ r.nome # Nada =>
       r.erro \in {"nenhum", "publicacao", "recibo"}
  /\ r.fase = "trata" => r.erro # "nenhum"
  /\ r.fase = "rejeita" => r.erro \notin {"nenhum", "recibo"}
  /\ r.fase = "libera" /\ r.erro = "nenhum" => r.nome # Nada
ErrosCoerentes == \A t \in Tarefas : ErroCoerente(tarefa[t])

NomesFrescos ==
  \A t \in Tarefas : tarefa[t].nome # Nada =>
    Dono(tarefa[t].nome) = Dono(t) /\ tarefa[t].nome[2] <= movidos[Dono(t)]

SemOrfaoAoLiberar ==
  \A t \in Tarefas : tarefa[t].fase = "libera" /\ tarefa[t].erro = "nenhum" =>
    processando[tarefa[t].nome] = Nada \/ tarefa[t].nome \in recibos \cup avisos

ComNome == {"publica", "recibo", "libera", "trata", "rejeita"}

ComTratador(n) ==
  \/ n \in avisos
  \/ \E t \in Tarefas : tarefa[t].nome = n /\ tarefa[t].fase \in ComNome
Tratados == \A w \in Workers : fase[w] = "ativo" => \A n \in Orfaos(w) : ComTratador(n)

(* What the pass has neither announced nor seen is still among its entries, or in its hands. *)
PassadaDe(w) ==
  /\ fase[w] = "recupera" => Orfaos(w) \subseteq avisos \cup recup[w].resta
  /\ fase[w] \in {"recEstabiliza", "recPublica", "recRecibo"} =>
       Orfaos(w) \subseteq avisos \cup recup[w].resta \cup {recup[w].nome}
  /\ fase[w] = "recLimpa" => Orfaos(w) \subseteq avisos
PassadasCompletas == \A w \in Workers : PassadaDe(w)

OrfaosEmOrdem == ErrosCoerentes /\ NomesFrescos /\ SemOrfaoAoLiberar /\ Tratados /\ PassadasCompletas

LEMMA ErrosNoPasso ==
  ASSUME Tipado, ErrosCoerentes, NEW t \in Tarefas, PassoTarefa(t)
  PROVE  ErrosCoerentes'
<1>1. \A u \in Tarefas : u # t => tarefa'[u] = tarefa[u]
  BY OutrasTarefas DEF Tipado
<1>2. tarefa[t] \in Tarefa /\ ErroCoerente(tarefa[t]) /\ RegistroCoerente(tarefa[t])
  BY DEF Tipado, TipoTarefas, ErrosCoerentes, TarefasCoerentes
<1>3. ErroCoerente(tarefa'[t])
  <2> USE <1>2 DEF ErroCoerente, Tarefa, Tipado, TipoTarefas
  <2>1. ASSUME Termina(t) PROVE ErroCoerente(tarefa'[t])
    BY <2>1 DEF Termina, Livre
  <2>2. CASE ApagaZona(t) \/ IgnoraDuplicado(t) \/ TrataSemMover(t) \/ RejeitaEntrada(t) \/ RejeitaNaoPublicado(t)
    BY <2>1, <2>2 DEF ApagaZona, IgnoraDuplicado, TrataSemMover, Carimba, RejeitaEntrada, RejeitaNaoPublicado
  <2>3. CASE Reivindica(t) \/ Move(t) \/ FalhaAoMover(t)
    BY <2>3 DEF Reivindica, PodeComecar, Move, FalhaAoMover, Desiste
  <2>4. CASE Estabiliza(t)
    BY <2>4 DEF Estabiliza, Desiste
  <2>5. CASE Publica(t)
    BY <2>5 DEF Publica, Desiste
  <2>6. CASE RegistraRecibo(t)
    BY <2>6, NadaAssumption DEF RegistraRecibo, Desiste, RegistroCoerente
  <2>7. CASE Libera(t)
    BY <2>1, <2>7 DEF Libera
  <2>8. CASE Carimba(t)
    BY <2>8 DEF Carimba
  <2> QED
    BY <2>2, <2>3, <2>4, <2>5, <2>6, <2>7, <2>8 DEF PassoTarefa
<1> QED
  BY <1>1, <1>3, Zenon DEF ErrosCoerentes

LEMMA NomesNoPasso ==
  ASSUME Tipado, NomesFrescos, NEW t \in Tarefas, PassoTarefa(t)
  PROVE  NomesFrescos'
<1>1. \A u \in Tarefas : u # t => tarefa'[u] = tarefa[u]
  BY OutrasTarefas DEF Tipado
<1>2. \A u \in Tarefas : Dono(u) \in Workers
  BY Donos
<1>3. CASE Move(t)
  <2> DEFINE w == Dono(t)
  <2>1. /\ tarefa'[t].nome = <<w, movidos[w] + 1>>
        /\ movidos' = [movidos EXCEPT ![w] = @ + 1]
    BY <1>3 DEF Move, NomeNovo, Tipado, TipoTarefas, Tarefa
  <2>2. \A v \in Workers : movidos[v] \in Nat /\ movidos'[v] = IF v = w THEN movidos[w] + 1 ELSE movidos[v]
    BY <1>2, <2>1, LimitesAssumption DEF Tipado, TipoLimites
  <2>3. Dono(tarefa'[t].nome) = w /\ tarefa'[t].nome[2] <= movidos'[w]
    BY <1>2, <2>1, <2>2 DEF Dono
  <2>4. ASSUME NEW u \in Tarefas, u # t, tarefa'[u].nome # Nada
        PROVE Dono(tarefa'[u].nome) = Dono(u) /\ tarefa'[u].nome[2] <= movidos'[Dono(u)]
    <3>1. Dono(tarefa[u].nome) = Dono(u) /\ tarefa[u].nome[2] <= movidos[Dono(u)] /\ tarefa'[u] = tarefa[u]
      BY <1>1, <2>4 DEF NomesFrescos
    <3>2. tarefa[u].nome[2] \in Nat
      BY <2>4, <3>1, LimitesAssumption DEF Tipado, TipoTarefas, Tarefa, Nomes
    <3> HIDE DEF w
    <3> QED
      BY <1>2, <2>2, <3>1, <3>2
  <2> QED
    BY <2>3, <2>4 DEF NomesFrescos
<1>4. CASE ~Move(t)
  <2>1. movidos' = movidos /\ (tarefa'[t].nome = tarefa[t].nome \/ tarefa'[t].nome = Nada)
    BY <1>4 DEF PassoTarefa, ApagaZona, IgnoraDuplicado, Reivindica, Estabiliza, FalhaAoMover, Publica,
           RegistraRecibo, Libera, TrataSemMover, Carimba, RejeitaEntrada, RejeitaNaoPublicado, Termina, Desiste,
           Livre, Tipado, TipoTarefas, Tarefa
  <2> QED
    BY <1>1, <2>1 DEF NomesFrescos
<1> QED
  BY <1>3, <1>4

(* Only a rename creates an orphan. *)
LEMMA OrfaosNoPasso ==
  ASSUME Tipado, NEW t \in Tarefas, PassoTarefa(t), ~Move(t)
  PROVE  /\ recibos \subseteq recibos'
         /\ \A n \in Nomes : processando'[n] # Nada => processando[n] # Nada
<1>1. recibos \subseteq recibos'
  BY DEF PassoTarefa, ApagaZona, IgnoraDuplicado, Reivindica, Estabiliza, FalhaAoMover, Publica,
         RegistraRecibo, Libera, TrataSemMover, Carimba, RejeitaEntrada, RejeitaNaoPublicado
<1>2. processando' = processando \/ \E n \in Nomes : processando' = [processando EXCEPT ![n] = Nada]
  <2>1. CASE RejeitaNaoPublicado(t)
    BY <2>1 DEF RejeitaNaoPublicado, Tipado, TarefasCoerentes, RegistroCoerente
  <2>2. CASE ~RejeitaNaoPublicado(t)
    BY <2>2 DEF PassoTarefa, ApagaZona, IgnoraDuplicado, Reivindica, Estabiliza, FalhaAoMover, Publica,
           RegistraRecibo, Libera, TrataSemMover, Carimba, RejeitaEntrada
  <2> QED
    BY <2>1, <2>2
<1> QED
  BY <1>1, <1>2 DEF Tipado, TipoPastas

LEMMA LiberadosNoPasso ==
  ASSUME Tipado, ErrosCoerentes, NomesFrescos, SemOrfaoAoLiberar, NEW t \in Tarefas, PassoTarefa(t)
  PROVE  SemOrfaoAoLiberar'
<1>1. \A u \in Tarefas : u # t => tarefa'[u] = tarefa[u]
  BY OutrasTarefas DEF Tipado
<1>2. \A u \in Tarefas : tarefa[u].fase = "libera" /\ tarefa[u].erro = "nenhum" => tarefa[u].nome \in Nomes
  BY DEF ErrosCoerentes, ErroCoerente, Tipado, TipoTarefas, Tarefa
<1>5. avisos \subseteq avisos'
  BY DEF PassoTarefa, ApagaZona, IgnoraDuplicado, Reivindica, Estabiliza, Move, FalhaAoMover, Publica,
     RegistraRecibo, Libera, TrataSemMover, Carimba, RejeitaEntrada, RejeitaNaoPublicado
<1>3. CASE Move(t)
  <2>1. \A u \in Tarefas : tarefa[u].nome \in Nomes => tarefa[u].nome # NomeNovo(Dono(t))
    <3> SUFFICES ASSUME NEW u \in Tarefas, tarefa[u].nome \in Nomes, tarefa[u].nome = NomeNovo(Dono(t))
                 PROVE FALSE
      OBVIOUS
    <3>1. tarefa[u].nome # Nada
      BY NadaAssumption
    <3>2. Dono(u) = Dono(t) /\ movidos[Dono(t)] + 1 <= movidos[Dono(u)]
      BY <3>1 DEF NomesFrescos, NomeNovo, Dono
    <3>3. movidos[Dono(t)] \in Nat
      BY Donos, LimitesAssumption DEF Tipado, TipoLimites
    <3> QED
      BY <3>2, <3>3
  <2>2. /\ recibos' = recibos /\ tarefa'[t].fase = "publica"
        /\ processando' = [processando EXCEPT ![NomeNovo(Dono(t))] = entrada[tarefa[t].caminho]]
    BY <1>3 DEF Move, Tipado, TipoTarefas, Tarefa
  <2>3. \A u \in Tarefas : tarefa[u].nome \in Nomes => processando'[tarefa[u].nome] = processando[tarefa[u].nome]
    BY <2>1, <2>2 DEF Tipado, TipoPastas
  <2> QED
    BY <1>1, <1>2, <1>5, <2>2, <2>3 DEF SemOrfaoAoLiberar
<1>4. CASE ~Move(t)
  <2>1. recibos \subseteq recibos' /\ \A n \in Nomes : processando'[n] # Nada => processando[n] # Nada
    BY <1>4, OrfaosNoPasso
  <2>2. ASSUME NEW u \in Tarefas, u # t, tarefa'[u].fase = "libera", tarefa'[u].erro = "nenhum"
        PROVE processando'[tarefa'[u].nome] = Nada \/ tarefa'[u].nome \in recibos' \cup avisos'
    BY <1>1, <1>2, <1>5, <2>1, <2>2 DEF SemOrfaoAoLiberar
  <2>3. tarefa'[t].fase = "libera" /\ tarefa'[t].erro = "nenhum" => tarefa'[t].nome \in recibos'
    <3>1. CASE RegistraRecibo(t)
      BY <3>1 DEF RegistraRecibo, Desiste, Tipado, TipoTarefas, Tarefa
    <3>2. CASE ~RegistraRecibo(t)
      BY <1>4, <3>2 DEF PassoTarefa, ApagaZona, IgnoraDuplicado, Reivindica, Estabiliza, FalhaAoMover,
             Publica, Libera, TrataSemMover, Carimba, RejeitaEntrada, RejeitaNaoPublicado, Termina, Desiste,
             Livre, Tipado, TipoTarefas, Tarefa
    <3> QED
      BY <3>1, <3>2
  <2> QED
    BY <2>2, <2>3 DEF SemOrfaoAoLiberar
<1> QED
  BY <1>3, <1>4

(* What the task that answers for an orphan does with it. *)
LEMMA TratadorNoPasso ==
  ASSUME Tipado, ErrosCoerentes, SemOrfaoAoLiberar, NEW t \in Tarefas, PassoTarefa(t), NEW n \in Nomes,
         tarefa[t].nome = n, tarefa[t].fase \in ComNome,
         processando[n] # Nada, n \notin recibos
  PROVE  \/ n \in avisos' \/ processando'[n] = Nada
         \/ tarefa'[t].nome = n /\ tarefa'[t].fase \in ComNome
<1>1. tarefa[t] \in Tarefa /\ ErroCoerente(tarefa[t]) /\ n # Nada
  BY NadaAssumption DEF Tipado, TipoTarefas, ErrosCoerentes
<1> USE DEF Tipado, TipoTarefas, Tarefa, ComNome
<1>2. CASE Publica(t) \/ RegistraRecibo(t)
  BY <1>2 DEF Publica, RegistraRecibo, Desiste
<1>3. CASE Libera(t)
  BY <1>1, <1>3 DEF Libera, SemOrfaoAoLiberar
<1>4. CASE TrataSemMover(t)
  BY <1>1, <1>4 DEF TrataSemMover, ErroCoerente
<1>5. CASE RejeitaNaoPublicado(t)
  BY <1>5 DEF RejeitaNaoPublicado, TipoPastas
<1>6. CASE RejeitaEntrada(t)
  BY <1>1, <1>6 DEF RejeitaEntrada, ErroCoerente
<1>7. CASE Carimba(t)
  BY <1>7 DEF Carimba
<1> QED
  BY <1>2, <1>3, <1>4, <1>5, <1>6, <1>7 DEF PassoTarefa, ApagaZona, IgnoraDuplicado, Reivindica, PodeComecar,
     Estabiliza, Move, FalhaAoMover

LEMMA TratadosNoPasso ==
  ASSUME Tipado, OrfaosEmOrdem, NEW t \in Tarefas, PassoTarefa(t)
  PROVE  Tratados'
<1> SUFFICES ASSUME NEW w \in Workers, fase'[w] = "ativo", NEW n \in Nomes, Dono(n) = w,
                    processando'[n] # Nada, n \notin recibos'
             PROVE ComTratador(n)'
  BY DEF Tratados, Orfaos, Encenados
<1>1. \A u \in Tarefas : u # t => tarefa'[u] = tarefa[u]
  BY OutrasTarefas DEF Tipado
<1>2. fase[w] = "ativo" /\ avisos \subseteq avisos'
  BY LimitesNoPasso DEF Tipado, PassoTarefa, ApagaZona, IgnoraDuplicado, Reivindica, Estabiliza, Move,
     FalhaAoMover, Publica, RegistraRecibo, Libera, TrataSemMover, Carimba, RejeitaEntrada, RejeitaNaoPublicado
<1>3. CASE Move(t) /\ n = NomeNovo(Dono(t))
  BY <1>3 DEF Move, ComTratador, ComNome, Tipado, TipoTarefas, Tarefa
<1>4. CASE ~(Move(t) /\ n = NomeNovo(Dono(t)))
  <2>1. processando[n] # Nada /\ n \notin recibos
    <3>1. CASE Move(t)
      BY <1>4, <3>1 DEF Move, Tipado, TipoPastas
    <3>2. CASE ~Move(t)
      BY <3>2, OrfaosNoPasso
    <3> QED
      BY <3>1, <3>2
  <2>2. ComTratador(n)
    BY <1>2, <2>1 DEF OrfaosEmOrdem, Tratados, Orfaos, Encenados
  <2>3. CASE n \in avisos
    BY <1>2, <2>3 DEF ComTratador
  <2>4. ASSUME NEW u \in Tarefas, tarefa[u].nome = n, tarefa[u].fase \in ComNome
        PROVE ComTratador(n)'
    <3>1. CASE u = t
      BY <2>1, <2>4, <3>1, TratadorNoPasso DEF OrfaosEmOrdem, ComTratador
    <3>2. CASE u # t
      BY <1>1, <2>4, <3>2 DEF ComTratador
    <3> QED
      BY <3>1, <3>2
  <2> QED
    BY <2>2, <2>3, <2>4 DEF ComTratador
<1> QED
  BY <1>3, <1>4

(* A pass is not disturbed by what neither stages a file of its worker nor takes a receipt away
   unnoticed. *)
LEMMA PassadaParada ==
  ASSUME NEW w \in Workers, PassadaDe(w), fase'[w] = fase[w], recup'[w] = recup[w], avisos \subseteq avisos',
         \A n \in Nomes : Dono(n) = w /\ processando'[n] # Nada =>
             processando[n] # Nada /\ (n \in recibos => n \in recibos' \cup avisos')
  PROVE  PassadaDe(w)'
<1>1. \A n \in Orfaos(w)' : n \in Orfaos(w) \cup avisos'
  BY DEF Orfaos, Encenados
<1> QED
  BY <1>1 DEF PassadaDe

LEMMA PassadasNoPasso ==
  ASSUME Tipado, ParadoSemTarefas, PassadasCompletas, NEW t \in Tarefas, PassoTarefa(t)
  PROVE  PassadasCompletas'
<1> SUFFICES ASSUME NEW w \in Workers PROVE PassadaDe(w)'
  BY DEF PassadasCompletas
<1>1. fase' = fase /\ recup' = recup /\ fase[Dono(t)] = "ativo"
  BY LimitesNoPasso, AtivoSeTrabalha DEF Tipado
<1>2. avisos \subseteq avisos'
  BY DEF PassoTarefa, ApagaZona, IgnoraDuplicado, Reivindica, Estabiliza, Move, FalhaAoMover, Publica,
     RegistraRecibo, Libera, TrataSemMover, Carimba, RejeitaEntrada, RejeitaNaoPublicado
<1>3. CASE w = Dono(t)
  BY <1>1, <1>3 DEF PassadaDe
<1>4. CASE w # Dono(t)
  <2>1. \A n \in Nomes : Dono(n) = w /\ processando'[n] # Nada =>
          processando[n] # Nada /\ (n \in recibos => n \in recibos')
    <3>1. CASE Move(t)
      BY <1>4, <3>1 DEF Move, NomeNovo, Dono, Tipado, TipoPastas
    <3>2. CASE ~Move(t)
      BY <3>2, OrfaosNoPasso
    <3> QED
      BY <3>1, <3>2
  <2> QED
    BY <1>1, <1>2, <2>1, PassadaParada DEF PassadasCompletas
<1> QED
  BY <1>3, <1>4

(* The startup: the pass begins with every staged file, and drops an entry only with a receipt
   for it, or when it is gone. *)
LEMMA PassadaNoInicio ==
  ASSUME Tipado, PassadasCompletas, NEW w \in Workers, PassoInicio(w)
  PROVE  PassadaDe(w)' /\ (fase'[w] = "ativo" => Orfaos(w) \subseteq avisos)
<1> USE DEF Tipado, TipoInicio
<1>1. PassadaDe(w) /\ avisos' = avisos /\ processando' = processando
  BY DEF PassadasCompletas, PassoInicio, Inicia, RecuperaEscolhe, RecuperaEstabiliza, RecuperaPublica,
     RecuperaRecibo, RecuperaLimpa, LimpaRecibo, RecuperaConclui
<1>2. ASSUME Aborta(w) PROVE PassadaDe(w)' /\ fase'[w] # "ativo"
  BY <1>2 DEF Aborta, PassadaDe
<1>3. CASE Inicia(w)
  BY <1>1, <1>3 DEF Inicia, Passada, PassadaDe, Orfaos, Encenados
<1>4. CASE RecuperaEscolhe(w)
  <2>1. PICK n \in recup[w].resta :
          \/ /\ recup' = [recup EXCEPT ![w].nome = n, ![w].resta = recup[w].resta \ {n}]
             /\ fase' = [fase EXCEPT ![w] = "recEstabiliza"]
          \/ /\ n \in recibos \/ processando[n] = Nada
             /\ recup' = [recup EXCEPT ![w].resta = recup[w].resta \ {n}] /\ fase' = fase
          \/ Aborta(w)
    BY <1>4 DEF RecuperaEscolhe
  <2>2. Orfaos(w) \subseteq avisos \cup recup[w].resta /\ fase[w] = "recupera" /\ Orfaos(w)' = Orfaos(w)
    BY <1>1, <1>4 DEF RecuperaEscolhe, PassadaDe, Orfaos, Encenados
  <2>3. n \in recibos \/ processando[n] = Nada => n \notin Orfaos(w)
    BY DEF Orfaos, Encenados
  <2> HIDE DEF Orfaos
  <2> QED
    BY <1>1, <1>2, <2>1, <2>2, <2>3 DEF PassadaDe
<1>5. CASE RecuperaEstabiliza(w) \/ RecuperaPublica(w)
  <2>1. Orfaos(w)' = Orfaos(w)
    BY <1>1, <1>5 DEF RecuperaEstabiliza, RecuperaPublica, Orfaos, Encenados
  <2> QED
    BY <1>1, <1>2, <1>5, <2>1 DEF RecuperaEstabiliza, RecuperaPublica, PassadaDe
<1>6. CASE RecuperaRecibo(w)
  BY <1>1, <1>2, <1>6 DEF RecuperaRecibo, PassadaDe, Orfaos, Encenados
<1>7. CASE RecuperaLimpa(w)
  BY <1>1, <1>7 DEF RecuperaLimpa, PassadaDe, Orfaos, Encenados
<1>8. CASE LimpaRecibo(w)
  <2>1. \A n \in Nomes : processando[n] # Nada /\ n \in recibos => n \in recibos'
    BY <1>8 DEF LimpaRecibo
  <2>2. Orfaos(w)' \subseteq avisos' /\ (fase'[w] = "recLimpa" \/ Aborta(w))
    BY <1>1, <1>8, <2>1 DEF LimpaRecibo, PassadaDe, Orfaos, Encenados
  <2> QED
    BY <1>2, <2>2 DEF PassadaDe
<1>9. CASE RecuperaConclui(w)
  BY <1>1, <1>9 DEF RecuperaConclui, PassadaDe
<1> QED
  BY <1>3, <1>4, <1>5, <1>6, <1>7, <1>8, <1>9 DEF PassoInicio

(* No other step takes the name of a task away, uses it up, or leaves a staged file alone. *)
LEMMA OrfaosForaDasTarefas ==
  ASSUME Tipado, OrfaosEmOrdem, movidos' = movidos, avisos \subseteq avisos',
         \A u \in Tarefas : tarefa'[u] = tarefa[u] \/ (tarefa'[u].nome = Nada /\ ErroCoerente(tarefa'[u])),
         \A u \in Tarefas : tarefa'[u] = tarefa[u] \/ tarefa[u].nome = Nada \/ fase'[Dono(u)] # "ativo",
         \A n \in Nomes : processando'[n] # Nada =>
             processando[n] # Nada /\ (n \in recibos => n \in recibos' \cup avisos'),
         \A w \in Workers : fase'[w] = "ativo" => fase[w] = "ativo" \/ Orfaos(w) \subseteq avisos,
         PassadasCompletas'
  PROVE  OrfaosEmOrdem'
<1> USE DEF OrfaosEmOrdem
<1>1. ErrosCoerentes'
  BY Zenon DEF ErrosCoerentes
<1>2. NomesFrescos'
  BY DEF NomesFrescos
<1>3. SemOrfaoAoLiberar'
  <2> SUFFICES ASSUME NEW t \in Tarefas, tarefa'[t].fase = "libera", tarefa'[t].erro = "nenhum"
               PROVE processando'[tarefa'[t].nome] = Nada \/ tarefa'[t].nome \in recibos' \cup avisos'
    BY DEF SemOrfaoAoLiberar
  <2>1. tarefa'[t] = tarefa[t] /\ tarefa[t].nome \in Nomes
    BY DEF ErroCoerente, ErrosCoerentes, Tipado, TipoTarefas, Tarefa
  <2> QED
    BY <2>1 DEF SemOrfaoAoLiberar
<1>4. Tratados'
  <2> SUFFICES ASSUME NEW w \in Workers, fase'[w] = "ativo", NEW n \in Nomes, Dono(n) = w,
                      processando'[n] # Nada, n \notin recibos', n \notin avisos'
               PROVE ComTratador(n)'
    BY DEF Tratados, Orfaos, Encenados, ComTratador
  <2>1. n \in Orfaos(w)
    BY DEF Orfaos, Encenados
  <2>2. ComTratador(n)
    BY <2>1 DEF Tratados, ComTratador
  <2>3. ASSUME NEW u \in Tarefas, tarefa[u].nome = n, tarefa[u].fase \in ComNome
        PROVE ComTratador(n)'
    <3>1. n # Nada
      BY NadaAssumption
    <3>2. Dono(u) = w
      BY <2>3, <3>1 DEF NomesFrescos
    <3>3. tarefa'[u] = tarefa[u]
      BY <2>3, <3>1, <3>2
    <3> QED
      BY <2>3, <3>3 DEF ComTratador
  <2> QED
    BY <2>2, <2>3 DEF ComTratador
<1> QED
  BY <1>1, <1>2, <1>3, <1>4

LEMMA OrfaosPreservados == Tipado /\ ParadoSemTarefas /\ OrfaosEmOrdem /\ [Next]_vars => OrfaosEmOrdem'
<1> SUFFICES ASSUME Tipado, ParadoSemTarefas, OrfaosEmOrdem, [Next]_vars PROVE OrfaosEmOrdem'
  OBVIOUS
<1>7. \A v \in Workers : PassadaDe(v)
  BY DEF OrfaosEmOrdem, PassadasCompletas
<1>1. ASSUME NEW t \in Tarefas, PassoTarefa(t) PROVE OrfaosEmOrdem'
  BY <1>1, ErrosNoPasso, NomesNoPasso, LiberadosNoPasso, TratadosNoPasso, PassadasNoPasso DEF OrfaosEmOrdem
<1>2. CASE \/ \E p \in Caminhos, d \in Docs : Escreve(p, d)
           \/ Tick
           \/ \E w \in Workers : Reinicia(w)
           \/ UNCHANGED vars
  <2>1. UNCHANGED <<movidos, avisos, tarefa, processando, recibos, fase, recup>>
    BY <1>2 DEF Escreve, Tick, Reinicia, ListenerReinicia, ScannerReinicia, vars, memoria
  <2>2. PassadasCompletas'
    BY <1>7, <2>1, PassadaParada DEF PassadasCompletas
  <2> QED
    BY <2>1, <2>2, OrfaosForaDasTarefas
<1>3. CASE \E e \in fila : ConsumidorRetira(e) \/ ConsumidorConfirma(e)
  <2>1. UNCHANGED <<movidos, tarefa, fase, recup>> /\ avisos \subseteq avisos'
    BY <1>3 DEF ConsumidorRetira, ConsumidorConfirma, memoria
  <2>2. \A n \in Nomes : processando'[n] # Nada =>
          processando[n] # Nada /\ (n \in recibos => n \in recibos' \cup avisos')
    BY <1>3 DEF ConsumidorRetira, ConsumidorConfirma, Tipado, TipoPastas, TipoPublicacao
  <2>3. PassadasCompletas'
    BY <1>7, <2>1, <2>2, PassadaParada DEF PassadasCompletas
  <2> QED
    BY <2>1, <2>2, <2>3, OrfaosForaDasTarefas
<1>4. ASSUME NEW w \in Workers, PassoInicio(w) PROVE OrfaosEmOrdem'
  <2>1. UNCHANGED <<movidos, avisos, tarefa, processando>>
    BY <1>4 DEF PassoInicio, Inicia, RecuperaEscolhe, RecuperaEstabiliza, RecuperaPublica,
           RecuperaRecibo, RecuperaLimpa, LimpaRecibo, RecuperaConclui, memoria
  <2>2. \A n \in Nomes : processando[n] # Nada /\ n \in recibos => n \in recibos'
    BY <1>4 DEF PassoInicio, Inicia, RecuperaEscolhe, RecuperaEstabiliza, RecuperaPublica,
           RecuperaRecibo, RecuperaLimpa, LimpaRecibo, RecuperaConclui
  <2>3. PassadaDe(w)' /\ (fase'[w] = "ativo" => Orfaos(w) \subseteq avisos)
    BY <1>4, PassadaNoInicio DEF OrfaosEmOrdem
  <2>4. \A v \in Workers : v # w => fase'[v] = fase[v] /\ recup'[v] = recup[v]
    BY <1>4, SoUmInicia
  <2>5. PassadasCompletas'
    BY <1>7, <2>1, <2>2, <2>3, <2>4, PassadaParada DEF PassadasCompletas
  <2> QED
    BY <2>1, <2>2, <2>3, <2>4, <2>5, OrfaosForaDasTarefas
<1>5. ASSUME NEW w \in Workers, Queda(w) PROVE OrfaosEmOrdem'
  <2>1. UNCHANGED <<movidos, avisos, processando, recibos>>
    BY <1>5 DEF Queda
  <2>2. \A v \in Workers : fase'[v] = IF v = w THEN "parado" ELSE fase[v]
    BY <1>5 DEF Queda, Aborta, Tipado, TipoInicio
  <2>3. \A u \in Tarefas : tarefa'[u] = IF Dono(u) = w THEN Livre ELSE tarefa[u]
    BY <1>5 DEF Queda
  <2>4. Livre.nome = Nada /\ ErroCoerente(Livre)
    BY DEF Livre, ErroCoerente
  <2>5. \A v \in Workers : v # w => recup'[v] = recup[v]
    BY <1>5 DEF Queda, Aborta, Tipado, TipoInicio
  <2>6. \A v \in Workers : v # w => PassadaDe(v)'
    BY <1>7, <2>1, <2>2, <2>5, PassadaParada
  <2>7. PassadasCompletas'
    BY <2>2, <2>6 DEF PassadasCompletas, PassadaDe
  <2> QED
    BY <2>1, <2>2, <2>3, <2>4, <2>7, OrfaosForaDasTarefas, Donos
<1>6. CASE \/ \E t \in Tarefas : ListenerRecebe(t)
           \/ \E w \in Workers : PassoScanner(w)
  <2>1. UNCHANGED <<movidos, avisos, processando, recibos, fase, recup>>
    BY <1>6, SoDispara
  <2>2. ASSUME NEW t \in Tarefas, NEW p, NEW g, Dispara(t, p, g)
        PROVE  /\ tarefa[t].nome = Nada /\ tarefa'[t].nome = Nada /\ ErroCoerente(tarefa'[t])
               /\ \A u \in Tarefas : u # t => tarefa'[u] = tarefa[u]
    <3>1. tarefa[t] = Livre /\ tarefa'[t] = [Livre EXCEPT !.fase = "espera", !.caminho = p, !.grafia = g]
      BY <2>2 DEF Dispara, Tipado, TipoTarefas
    <3>2. Livre.nome = Nada /\ tarefa'[t].fase = "espera" /\ tarefa'[t].nome = Nada
      BY <3>1 DEF Livre
    <3> QED
      BY <2>2, <3>1, <3>2 DEF Dispara, ErroCoerente, Tipado, TipoTarefas
  <2>3. \A u \in Tarefas :
          tarefa'[u] = tarefa[u] \/ (tarefa'[u].nome = Nada /\ ErroCoerente(tarefa'[u]) /\ tarefa[u].nome = Nada)
    BY <1>6, <2>2, SoDispara
  <2>4. PassadasCompletas'
    BY <1>7, <2>1, PassadaParada DEF PassadasCompletas
  <2> QED
    BY <2>1, <2>3, <2>4, OrfaosForaDasTarefas
<1> QED
  BY <1>1, <1>2, <1>3, <1>4, <1>5, <1>6 DEF Next, NextSemConsumidor

(* While a worker runs, every staged file without a receipt is in the hands of a task that holds
   its claim or is rejecting it, unless a failure to do so was logged: an empty claim set, which
   drenar_processamento_em_andamento waits for, leaves only rejections under way, and recovery
   leaves nothing to the supervised tasks. *)
THEOREM TeoOrfaoTemTratador == Spec => []OrfaoTemTratador
<1>1. Init => OrfaosEmOrdem
  BY DEF Init, OrfaosEmOrdem, ErrosCoerentes, ErroCoerente, NomesFrescos, SemOrfaoAoLiberar, Tratados,
         PassadasCompletas, PassadaDe, Livre
<1>2. Spec => []OrfaosEmOrdem
  BY <1>1, InvarianteDeTipo, InvarianteDosParados, OrfaosPreservados, PTL DEF Spec
<1>3. OrfaosEmOrdem /\ ClaimsPorTarefa => OrfaoTemTratador
  <2> SUFFICES ASSUME OrfaosEmOrdem, ClaimsPorTarefa, NEW w \in Workers, fase[w] = "ativo",
                      NEW n \in Orfaos(w), n \notin avisos
               PROVE \E t \in Tarefas :
                       /\ tarefa[t].nome = n
                       /\ \/ tarefa[t].fase \in {"publica", "recibo", "libera"} /\ Chave(tarefa[t]) \in claims[w]
                          \/ tarefa[t].fase \in {"trata", "rejeita"}
    BY DEF OrfaoTemTratador
  <2>1. PICK t \in Tarefas : tarefa[t].nome = n /\ tarefa[t].fase \in ComNome
    BY DEF OrfaosEmOrdem, Tratados, ComTratador
  <2>2. n # Nada /\ Dono(n) = w
    BY NadaAssumption DEF Orfaos, Encenados
  <2>3. Dono(t) = w
    BY <2>1, <2>2 DEF OrfaosEmOrdem, NomesFrescos
  <2> QED
    BY <2>1, <2>3 DEF ClaimsPorTarefa, ComClaim, ComNome
<1> QED
  BY <1>2, <1>3, InvarianteDosClaims, PTL
=============================================================================
