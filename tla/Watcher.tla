------------------------------- MODULE Watcher -------------------------------
(***************************************************************************)
(* The watcher process of IngestorX (watcher.rs, file_ops.rs, main.rs):    *)
(* files that producers drop into the landing zone are claimed by a task,  *)
(* read until stable, renamed into the worker's staging folder under a     *)
(* unique name, published, and given a durable receipt.  Several workers   *)
(* share one landing zone; each has its own staging and receipts folders.  *)
(*                                                                         *)
(* A document (a member of Docs) is one content of a file, an intermediate *)
(* version of a slow copy included; it stands for its own SHA-256.  The    *)
(* staging name hash__uuid__name is the pair <<worker, k>>: the uuid makes *)
(* every name fresh, so k counts the worker's moves.                       *)
(***************************************************************************)
EXTENDS Naturals, FiniteSets

CONSTANTS
  Workers,          \* worker_id of every process that shares the landing zone
  Slots,            \* bound: tokio tasks of one worker alive at a time
  Caminhos,         \* the paths producers write to, under pasta_entrada
  Docs,             \* contents
  Vezes,            \* bound: how often producers write each content
  Vazios, Grandes,  \* the contents of zero bytes, and those over the limit
  ExtInvalida,      \* paths whose extension is not allowed
  Zona,             \* paths whose name contains "Zone.Identifier"
  BaseDe,           \* the file name of a path, its folder dropped
  BaseAbsoluta,     \* whether XML_WATCHER_BASE_DIR is an absolute path
  Sobrescreve,      \* whether producers may write over a file still there
  Nada,             \* "none": no file, no content, no name
  MaxConcorrentes,  \* permits of limite_processamento
  MaxTentativas,    \* max_tentativas_retry
  MaxFalhas,        \* bound: I/O and publication failures in a behaviour
  MaxQuedas,        \* bound: crashes in a behaviour
  MaxTicks,         \* bound: milliseconds told apart
  MaxMovidos        \* bound: staging names of one worker (the sum of Vezes never binds)

ASSUME ConteudosAssumption ==
  Vazios \subseteq Docs /\ Grandes \subseteq Docs /\ Vezes \in [Docs -> Nat]
ASSUME CaminhosAssumption == ExtInvalida \subseteq Caminhos /\ Zona \subseteq Caminhos
ASSUME LimitesAssumption ==
  /\ MaxConcorrentes \in Nat \ {0} /\ MaxTentativas \in Nat \ {0}
  /\ MaxFalhas \in Nat /\ MaxQuedas \in Nat /\ MaxMovidos \in Nat /\ MaxTicks \in Nat
ASSUME OpcoesAssumption == Sobrescreve \in BOOLEAN /\ BaseAbsoluta \in BOOLEAN

Tarefas == Workers \X Slots
Nomes == Workers \X (1..MaxMovidos)

ASSUME NadaAssumption == Nada \notin Docs \cup Caminhos \cup Nomes

(* A rejected file keeps its own file name; a staging name is unique. *)
NomeBase(origem) == IF origem \in Caminhos THEN BaseDe[origem] ELSE origem

Dono(x) == x[1]          \* the worker of a task or of a staging name

VARIABLES
  entrada,      \* content of each path of the landing zone
  escritos,     \* how often producers have written each document
  processando,  \* content of each staging name
  recibos,      \* staging names that have a receipt file
  fora,         \* files in erro/ and ignorados/
  relogio,      \* the millisecond that a stamp is taken of
  aceitos,      \* names whose event publicar() accepted
  fila,         \* events on their way to the consumer (queue or contingency buffer)
  consumidos,   \* documents the consumer has taken over
  avisos,       \* names left in staging without a receipt, which only the log tells
  fase,         \* what the main task of each worker is doing
  recup,        \* the orphan its startup is publishing, and the folder entries it has yet to see
  canal,        \* paths in the inotify channel
  lista,        \* paths the scanner has listed and not yet dispatched
  filtrada,     \* whether the scanner has dropped the claimed paths from its list
  claims,       \* claims of each worker
  tarefa,       \* the tasks spawned by listener and scanner
  movidos,      \* staging names each worker has used
  falhas, quedas

publicacao == <<aceitos, fila>>
memoria == <<canal, lista, filtrada, claims>>
vars == <<entrada, escritos, processando, recibos, fora, relogio, aceitos, fila,
          consumidos, avisos, fase, recup, canal, lista, filtrada, claims, tarefa,
          movidos, falhas, quedas>>

Fases == {"livre", "espera", "estabiliza", "move", "publica", "recibo", "libera", "trata",
          "rejeita"}
Erros == {"nenhum", "desapareceu", "excedido", "zero", "extensao", "io", "retries",
          "publicacao", "recibo"}
FasesWorker == {"parado", "recupera", "recEstabiliza", "recPublica", "recRecibo", "recLimpa", "ativo"}

(* inotify gives absolute paths; walkdir spells them the way the base folder is configured. *)
GrafiaDoScanner == IF BaseAbsoluta THEN "absoluta" ELSE "relativa"

Livre == [fase |-> "livre", caminho |-> Nada, grafia |-> "absoluta", hash |-> Nada, nome |-> Nada,
          tent |-> 0, erro |-> "nenhum", ts |-> 0]

(* The PathBuf a claim is kept under. *)
Chave(r) == <<r.caminho, r.grafia>>

Evento(n, h) == [nome |-> n, hash |-> h]

(* A pass over a folder with the entries of resta still to come, and no orphan in hand. *)
Passada(resta) == [nome |-> Nada, hash |-> Nada, resta |-> resta]

Init ==
  /\ entrada = [p \in Caminhos |-> Nada]
  /\ escritos = [d \in Docs |-> 0]
  /\ processando = [n \in Nomes |-> Nada]
  /\ recibos = {} /\ fora = {} /\ relogio = 0
  /\ aceitos = {} /\ fila = {} /\ consumidos = {} /\ avisos = {}
  /\ fase = [w \in Workers |-> "parado"]
  /\ recup = [w \in Workers |-> Passada({})]
  /\ canal = [w \in Workers |-> {}]
  /\ lista = [w \in Workers |-> {}]
  /\ filtrada = [w \in Workers |-> TRUE]
  /\ claims = [w \in Workers |-> {}]
  /\ tarefa = [t \in Tarefas |-> Livre]
  /\ movidos = [w \in Workers |-> 0]
  /\ falhas = 0 /\ quedas = 0

(* One more failure of a system call or of the broker. *)
Falha == falhas < MaxFalhas /\ falhas' = falhas + 1

Legivel(d) == d \in Docs \ (Vazios \cup Grandes)

(***************************************************************************)
(* Producers and the clock.                                                *)
(***************************************************************************)
Escreve(p, d) ==
  /\ escritos[d] < Vezes[d]
  /\ entrada[p] = Nada \/ Sobrescreve
  /\ entrada' = [entrada EXCEPT ![p] = d]
  /\ escritos' = [escritos EXCEPT ![d] = @ + 1]
  /\ \E avisados \in SUBSET {w \in Workers : fase[w] = "ativo"} :
       canal' = [w \in Workers |-> IF w \in avisados THEN canal[w] \cup {p} ELSE canal[w]]
  /\ UNCHANGED <<processando, recibos, fora, relogio, publicacao, consumidos, avisos, fase,
                 recup, lista, filtrada, claims, tarefa, movidos, falhas, quedas>>

(* The millisecond passes.  One in which no name was stamped need not be told from the next. *)
Tick ==
  /\ relogio < MaxTicks
  /\ \/ \E t \in Tarefas : tarefa[t].fase = "rejeita" /\ tarefa[t].ts = relogio
     \/ \E r \in fora : r.ts = relogio
  /\ relogio' = relogio + 1
  /\ UNCHANGED <<entrada, escritos, processando, recibos, fora, publicacao, consumidos, avisos,
                 fase, recup, memoria, tarefa, movidos, falhas, quedas>>

-----------------------------------------------------------------------------
(***************************************************************************)
(* Listener and scanner: both only spawn tasks; the bounded semaphore is   *)
(* acquired inside the task.                                               *)
(***************************************************************************)
Dispara(t, p, grafia) ==
  /\ tarefa[t] = Livre
  /\ tarefa' = [tarefa EXCEPT ![t] = [Livre EXCEPT !.fase = "espera", !.caminho = p, !.grafia = grafia]]

ListenerRecebe(t) ==
  /\ fase[Dono(t)] = "ativo"
  /\ \E p \in canal[Dono(t)] :
       /\ Dispara(t, p, "absoluta")
       /\ canal' = [canal EXCEPT ![Dono(t)] = @ \ {p}]
  /\ UNCHANGED <<entrada, escritos, processando, recibos, fora, relogio, publicacao, consumidos,
                 avisos, fase, recup, lista, filtrada, claims, movidos, falhas, quedas>>

(* walkdir: a cycle over an empty folder is left out. *)
ScannerLista(w) ==
  /\ fase[w] = "ativo" /\ filtrada[w] /\ lista[w] = {}
  /\ \E p \in Caminhos : entrada[p] # Nada
  /\ lista' = [lista EXCEPT ![w] = {p \in Caminhos : entrada[p] # Nada}]
  /\ filtrada' = [filtrada EXCEPT ![w] = FALSE]
  /\ UNCHANGED <<entrada, escritos, processando, recibos, fora, relogio, publicacao, consumidos,
                 avisos, fase, recup, canal, claims, tarefa, movidos, falhas, quedas>>

(* The one copy of the claims that the cycle compares its list with. *)
ScannerFiltra(w) ==
  /\ ~filtrada[w]
  /\ lista' = [lista EXCEPT ![w] = {p \in @ : <<p, GrafiaDoScanner>> \notin claims[w]}]
  /\ filtrada' = [filtrada EXCEPT ![w] = TRUE]
  /\ UNCHANGED <<entrada, escritos, processando, recibos, fora, relogio, publicacao, consumidos,
                 avisos, fase, recup, canal, claims, tarefa, movidos, falhas, quedas>>

ScannerDispara(t) ==
  /\ filtrada[Dono(t)]
  /\ \E p \in lista[Dono(t)] :
       /\ Dispara(t, p, GrafiaDoScanner)
       /\ lista' = [lista EXCEPT ![Dono(t)] = @ \ {p}]
  /\ UNCHANGED <<entrada, escritos, processando, recibos, fora, relogio, publicacao, consumidos,
                 avisos, fase, recup, canal, filtrada, claims, movidos, falhas, quedas>>

(* A panic or an error ends the listener or the scanner; the supervisor starts it again with a
   new channel, or a new cycle, while the tasks it spawned go on. *)
ListenerReinicia(w) ==
  /\ fase[w] = "ativo" /\ Falha
  /\ canal' = [canal EXCEPT ![w] = {}]
  /\ UNCHANGED <<entrada, escritos, processando, recibos, fora, relogio, publicacao, consumidos,
                 avisos, fase, recup, lista, filtrada, claims, tarefa, movidos, quedas>>

ScannerReinicia(w) ==
  /\ fase[w] = "ativo" /\ Falha
  /\ lista' = [lista EXCEPT ![w] = {}] /\ filtrada' = [filtrada EXCEPT ![w] = TRUE]
  /\ UNCHANGED <<entrada, escritos, processando, recibos, fora, relogio, publicacao, consumidos,
                 avisos, fase, recup, canal, claims, tarefa, movidos, quedas>>

Reinicia(w) == ListenerReinicia(w) \/ ScannerReinicia(w)

-----------------------------------------------------------------------------
(***************************************************************************)
(* tratar_evento, run by a task that obtained a permit.                    *)
(***************************************************************************)
ComPermissao(w) == {t \in Tarefas : Dono(t) = w /\ tarefa[t].fase \notin {"livre", "espera"}}

PodeComecar(t) ==
  /\ tarefa[t].fase = "espera"
  /\ Cardinality(ComPermissao(Dono(t))) < MaxConcorrentes

Termina(t) == tarefa' = [tarefa EXCEPT ![t] = Livre]

ApagaZona(t) ==
  /\ PodeComecar(t) /\ tarefa[t].caminho \in Zona
  /\ \/ entrada' = [entrada EXCEPT ![tarefa[t].caminho] = Nada] /\ UNCHANGED falhas
     \/ UNCHANGED entrada /\ Falha
  /\ Termina(t)
  /\ UNCHANGED <<escritos, processando, recibos, fora, relogio, publicacao, consumidos, avisos,
                 fase, recup, memoria, movidos, quedas>>

IgnoraDuplicado(t) ==
  /\ PodeComecar(t) /\ tarefa[t].caminho \notin Zona
  /\ Chave(tarefa[t]) \in claims[Dono(t)]
  /\ Termina(t)
  /\ UNCHANGED <<entrada, escritos, processando, recibos, fora, relogio, publicacao, consumidos,
                 avisos, fase, recup, memoria, movidos, falhas, quedas>>

(* Mutant of Reivindica: the claim is inserted without looking whether it is there. *)
ReivindicaSemOlhar(t) ==
  /\ PodeComecar(t) /\ tarefa[t].caminho \notin Zona
  /\ claims' = [claims EXCEPT ![Dono(t)] = @ \cup {Chave(tarefa[t])}]
  /\ tarefa' = [tarefa EXCEPT ![t].fase = "estabiliza"]
  /\ UNCHANGED <<entrada, escritos, processando, recibos, fora, relogio, publicacao, consumidos,
                 avisos, fase, recup, canal, lista, filtrada, movidos, falhas, quedas>>

Reivindica(t) ==
  /\ PodeComecar(t) /\ tarefa[t].caminho \notin Zona
  /\ Chave(tarefa[t]) \notin claims[Dono(t)]
  /\ claims' = [claims EXCEPT ![Dono(t)] = @ \cup {Chave(tarefa[t])}]
  /\ tarefa' = [tarefa EXCEPT ![t].fase = "estabiliza"]
  /\ UNCHANGED <<entrada, escritos, processando, recibos, fora, relogio, publicacao, consumidos,
                 avisos, fase, recup, canal, lista, filtrada, movidos, falhas, quedas>>

(* processar_arquivo gives up with an error, handled after the claim is released. *)
Desiste(t, e) == tarefa' = [tarefa EXCEPT ![t].fase = "libera", ![t].erro = e]

(* What aguardar_estabilidade and the extension check reject at path p holding c. *)
Rejeicao(p, c) ==
  CASE c = Nada         -> "desapareceu"
    [] c \in Grandes    -> "excedido"
    [] c \in Vazios     -> "zero"
    [] p \in ExtInvalida -> "extensao"
    [] OTHER            -> "nenhum"

(* The reading that counts is the last one: its metadata is compared after the hash. *)
Estabiliza(t) ==
  /\ tarefa[t].fase = "estabiliza"
  /\ LET p == tarefa[t].caminho  r == Rejeicao(p, entrada[p]) IN
       \/ /\ r = "nenhum"
          /\ tarefa' = [tarefa EXCEPT ![t].fase = "move", ![t].hash = entrada[p]]
          /\ UNCHANGED falhas
       \/ r # "nenhum" /\ Desiste(t, r) /\ UNCHANGED falhas
       \/ Falha /\ Desiste(t, "io")
  /\ UNCHANGED <<entrada, escritos, processando, recibos, fora, relogio, publicacao, consumidos,
                 avisos, fase, recup, memoria, movidos, quedas>>

(* Mutant of NomeNovo: the file name without the uuid. *)
NomeSemUuid(w) == <<w, 1>>

NomeNovo(w) == <<w, movidos[w] + 1>>

(* Mutant of Move: what was read is copied into staging, then the path is deleted. *)
MoveCopiando(t) ==
  /\ tarefa[t].fase = "move" /\ entrada[tarefa[t].caminho] # Nada
  /\ movidos[Dono(t)] < MaxMovidos
  /\ LET p == tarefa[t].caminho  n == NomeNovo(Dono(t)) IN
       /\ processando' = [processando EXCEPT ![n] = tarefa[t].hash]
       /\ entrada' = [entrada EXCEPT ![p] = Nada]
       /\ tarefa' = [tarefa EXCEPT ![t].fase = "publica", ![t].nome = n]
  /\ movidos' = [movidos EXCEPT ![Dono(t)] = @ + 1]
  /\ UNCHANGED <<escritos, recibos, fora, relogio, publicacao, consumidos, avisos, fase, recup,
                 memoria, falhas, quedas>>

(* One rename of mover_atomico_com_retry: it moves what the path holds now. *)
Move(t) ==
  /\ tarefa[t].fase = "move" /\ entrada[tarefa[t].caminho] # Nada
  /\ movidos[Dono(t)] < MaxMovidos
  /\ LET p == tarefa[t].caminho  n == NomeNovo(Dono(t)) IN
       /\ processando' = [processando EXCEPT ![n] = entrada[p]]
       /\ entrada' = [entrada EXCEPT ![p] = Nada]
       /\ tarefa' = [tarefa EXCEPT ![t].fase = "publica", ![t].nome = n]
  /\ movidos' = [movidos EXCEPT ![Dono(t)] = @ + 1]
  /\ UNCHANGED <<escritos, recibos, fora, relogio, publicacao, consumidos, avisos, fase, recup,
                 memoria, falhas, quedas>>

(* Mutant of FalhaAoMover: one attempt more than max_tentativas. *)
FalhaAoMoverUmaAMais(t) ==
  /\ tarefa[t].fase = "move"
  /\ \/ entrada[tarefa[t].caminho] = Nada /\ UNCHANGED falhas
     \/ Falha
  /\ IF tarefa[t].tent < MaxTentativas
       THEN tarefa' = [tarefa EXCEPT ![t].tent = @ + 1]
       ELSE Desiste(t, "retries")
  /\ UNCHANGED <<entrada, escritos, processando, recibos, fora, relogio, publicacao, consumidos,
                 avisos, fase, recup, memoria, movidos, quedas>>

(* The rename fails: the file is gone, or the system call failed; retried with backoff. *)
FalhaAoMover(t) ==
  /\ tarefa[t].fase = "move"
  /\ \/ entrada[tarefa[t].caminho] = Nada /\ UNCHANGED falhas
     \/ Falha
  /\ IF tarefa[t].tent + 1 < MaxTentativas
       THEN tarefa' = [tarefa EXCEPT ![t].tent = @ + 1]
       ELSE Desiste(t, "retries")
  /\ UNCHANGED <<entrada, escritos, processando, recibos, fora, relogio, publicacao, consumidos,
                 avisos, fase, recup, memoria, movidos, quedas>>

-----------------------------------------------------------------------------
(***************************************************************************)
(* Publication and receipt.  publicar() accepts an event once the broker   *)
(* confirmed it or the contingency buffer holds it; when both fail, the    *)
(* broker may still have the message whose confirmation timed out.         *)
(***************************************************************************)
Aceita(n, h) == aceitos' = aceitos \cup {n} /\ fila' = fila \cup {Evento(n, h)}

Recusa(n, h) ==
  /\ Falha
  /\ fila' = fila \/ fila' = fila \cup {Evento(n, h)}
  /\ UNCHANGED aceitos

(* Mutant of Publica: the error of publicar() is logged and the receipt written all the same. *)
PublicaIgnorandoErro(t) ==
  /\ tarefa[t].fase = "publica"
  /\ LET n == tarefa[t].nome  h == tarefa[t].hash IN
       \/ Aceita(n, h) /\ UNCHANGED falhas
       \/ Recusa(n, h)
  /\ tarefa' = [tarefa EXCEPT ![t].fase = "recibo"]
  /\ UNCHANGED <<entrada, escritos, processando, recibos, fora, relogio, consumidos, avisos,
                 fase, recup, memoria, movidos, quedas>>

Publica(t) ==
  /\ tarefa[t].fase = "publica"
  /\ LET n == tarefa[t].nome  h == tarefa[t].hash IN
       \/ /\ Aceita(n, h) /\ UNCHANGED falhas
          /\ tarefa' = [tarefa EXCEPT ![t].fase = "recibo"]
       \/ Recusa(n, h) /\ Desiste(t, "publicacao")
  /\ UNCHANGED <<entrada, escritos, processando, recibos, fora, relogio, consumidos, avisos,
                 fase, recup, memoria, movidos, quedas>>

(* Mutant of RegistraRecibo: a receipt that fails is handled like a refused publication. *)
RegistraReciboComoRecusa(t) ==
  /\ tarefa[t].fase = "recibo"
  /\ \/ /\ recibos' = recibos \cup {tarefa[t].nome} /\ UNCHANGED falhas
        /\ Desiste(t, "nenhum")
     \/ /\ recibos' \in {recibos, recibos \cup {tarefa[t].nome}} /\ Falha
        /\ Desiste(t, "publicacao")
  /\ UNCHANGED <<entrada, escritos, processando, fora, relogio, publicacao, consumidos, avisos,
                 fase, recup, memoria, movidos, quedas>>

(* The receipt may be in place although its folder could not be synced. *)
RegistraRecibo(t) ==
  /\ tarefa[t].fase = "recibo"
  /\ \/ /\ recibos' = recibos \cup {tarefa[t].nome} /\ UNCHANGED falhas
        /\ Desiste(t, "nenhum")
     \/ /\ recibos' \in {recibos, recibos \cup {tarefa[t].nome}} /\ Falha
        /\ Desiste(t, "recibo")
  /\ UNCHANGED <<entrada, escritos, processando, fora, relogio, publicacao, consumidos, avisos,
                 fase, recup, memoria, movidos, quedas>>


(* The claim goes first, the error is handled after. *)
Libera(t) ==
  /\ tarefa[t].fase = "libera"
  /\ claims' = [claims EXCEPT ![Dono(t)] = @ \ {Chave(tarefa[t])}]
  /\ IF tarefa[t].erro = "nenhum"
       THEN Termina(t)
       ELSE tarefa' = [tarefa EXCEPT ![t].fase = "trata"]
  /\ UNCHANGED <<entrada, escritos, processando, recibos, fora, relogio, publicacao, consumidos,
                 avisos, fase, recup, canal, lista, filtrada, movidos, falhas, quedas>>

-----------------------------------------------------------------------------
(***************************************************************************)
(* tratar_erro_processamento.                                              *)
(***************************************************************************)
TrataSemMover(t) ==
  /\ tarefa[t].fase = "trata" /\ tarefa[t].erro \in {"desapareceu", "io", "recibo"}
  /\ avisos' = IF tarefa[t].erro = "recibo" THEN avisos \cup {tarefa[t].nome} ELSE avisos
  /\ Termina(t)
  /\ UNCHANGED <<entrada, escritos, processando, recibos, fora, relogio, publicacao, consumidos,
                 fase, recup, memoria, movidos, falhas, quedas>>

(* The name {millisecond}_{file name} is made up first, and the rename awaited after. *)
Carimba(t) ==
  /\ tarefa[t].fase = "trata"
  /\ tarefa[t].erro \in {"excedido", "retries", "zero", "extensao", "publicacao"}
  /\ tarefa' = [tarefa EXCEPT ![t].fase = "rejeita", ![t].ts = relogio]
  /\ UNCHANGED <<entrada, escritos, processando, recibos, fora, relogio, publicacao, consumidos,
                 avisos, fase, recup, memoria, movidos, falhas, quedas>>

(* Two files have one name in erro/ or ignorados/. *)
MesmoNome(r, s) == r.pasta = s.pasta /\ r.ts = s.ts /\ NomeBase(r.origem) = NomeBase(s.origem)

(* Mutant of Deposita: the file keeps its name, without a stamp. *)
DepositaSemCarimbo(pasta, ts, origem, d) ==
  LET novo == [pasta |-> pasta, ts |-> ts, origem |-> origem, doc |-> d] IN
  fora' = {r \in fora : ~(r.pasta = pasta /\ NomeBase(r.origem) = NomeBase(origem))} \cup {novo}

(* The rename into the folder replaces the file that has the name. *)
Deposita(pasta, ts, origem, d) ==
  LET novo == [pasta |-> pasta, ts |-> ts, origem |-> origem, doc |-> d] IN
  fora' = {r \in fora : ~MesmoNome(r, novo)} \cup {novo}

PastaDe(erro) == IF erro \in {"zero", "extensao"} THEN "ignorados" ELSE "erro"

RejeitaEntrada(t) ==
  /\ tarefa[t].fase = "rejeita" /\ tarefa[t].erro # "publicacao"
  /\ LET p == tarefa[t].caminho IN
       \/ /\ entrada[p] # Nada /\ UNCHANGED falhas
          /\ Deposita(PastaDe(tarefa[t].erro), tarefa[t].ts, p, entrada[p])
          /\ entrada' = [entrada EXCEPT ![p] = Nada]
       \/ entrada[p] = Nada /\ UNCHANGED <<entrada, fora, falhas>>
       \/ entrada[p] # Nada /\ Falha /\ UNCHANGED <<entrada, fora>>
  /\ Termina(t)
  /\ UNCHANGED <<escritos, processando, recibos, relogio, publicacao, consumidos, avisos, fase,
                 recup, memoria, movidos, quedas>>

(* Publication and contingency both failed. *)
RejeitaNaoPublicado(t) ==
  /\ tarefa[t].fase = "rejeita" /\ tarefa[t].erro = "publicacao"
  /\ LET n == tarefa[t].nome IN
       \/ /\ processando[n] # Nada /\ UNCHANGED <<avisos, falhas>>
          /\ Deposita("erro", tarefa[t].ts, n, processando[n])
          /\ processando' = [processando EXCEPT ![n] = Nada]
       \/ /\ processando[n] = Nada \/ Falha
          /\ avisos' = avisos \cup {n}
          /\ processando[n] = Nada => UNCHANGED falhas
          /\ UNCHANGED <<processando, fora>>
  /\ Termina(t)
  /\ UNCHANGED <<entrada, escritos, recibos, relogio, publicacao, consumidos, fase, recup, memoria,
                 movidos, quedas>>

-----------------------------------------------------------------------------
(***************************************************************************)
(* The consumer, as far as the watcher can tell: it takes the announced    *)
(* file out of the staging folder, or finds that it has the content        *)
(* already; then it removes the receipt and forgets the event, or dies in  *)
(* between.  The receipt of a duplicate goes before its file.              *)
(***************************************************************************)
ConsumidorRetira(e) ==
  /\ e \in fila /\ processando[e.nome] # Nada
  /\ consumidos' = consumidos \cup {processando[e.nome]}
  /\ processando' = [processando EXCEPT ![e.nome] = Nada]
  /\ UNCHANGED <<entrada, escritos, recibos, fora, relogio, publicacao, avisos, fase, recup,
                 memoria, tarefa, movidos, falhas, quedas>>

ConsumidorConfirma(e) ==
  /\ e \in fila
  /\ \/ processando[e.nome] = Nada /\ UNCHANGED avisos
     \/ e.hash \in consumidos /\ avisos' = avisos \cup {e.nome}
  /\ fila' \in {fila, fila \ {e}}
  /\ recibos' \in {recibos, recibos \ {e.nome}}
  /\ UNCHANGED <<entrada, escritos, processando, fora, relogio, aceitos, consumidos, fase,
                 recup, memoria, tarefa, movidos, falhas, quedas>>

-----------------------------------------------------------------------------
(***************************************************************************)
(* Startup: one pass over the staging folder publishes every file without  *)
(* a receipt again, one over the receipts removes those whose file is      *)
(* gone; then listener and scanner start.  Any error ends the process,     *)
(* which the container restarts.  An entry that is removed after the       *)
(* folder was opened may still be listed, or not.                          *)
(***************************************************************************)
Encenados(w) == {n \in Nomes : Dono(n) = w /\ processando[n] # Nada}

Orfaos(w) == Encenados(w) \ recibos

Aborta(w) ==
  /\ fase' = [fase EXCEPT ![w] = "parado"]
  /\ recup' = [recup EXCEPT ![w] = Passada({})]

Inicia(w) ==
  /\ fase[w] = "parado"
  /\ fase' = [fase EXCEPT ![w] = "recupera"]
  /\ recup' = [recup EXCEPT ![w] = Passada(Encenados(w))]
  /\ UNCHANGED <<entrada, escritos, processando, recibos, fora, relogio, publicacao, consumidos,
                 avisos, memoria, tarefa, movidos, falhas, quedas>>

RecuperaEscolhe(w) ==
  /\ fase[w] = "recupera"
  /\ \E n \in recup[w].resta :
       LET falta == recup[w].resta \ {n} IN
       \/ /\ n \notin recibos /\ UNCHANGED falhas
          /\ recup' = [recup EXCEPT ![w].nome = n, ![w].resta = falta]
          /\ fase' = [fase EXCEPT ![w] = "recEstabiliza"]
       \/ /\ n \in recibos \/ processando[n] = Nada
          /\ recup' = [recup EXCEPT ![w].resta = falta] /\ UNCHANGED <<fase, falhas>>
       \/ Aborta(w) /\ Falha
  /\ UNCHANGED <<entrada, escritos, processando, recibos, fora, relogio, publicacao, consumidos,
                 avisos, memoria, tarefa, movidos, quedas>>

(* Mutant of RecuperaEstabiliza: the failure is logged and the pass goes on. *)
RecuperaEstabilizaSeguindo(w) ==
  /\ fase[w] = "recEstabiliza"
  /\ LET c == processando[recup[w].nome] IN
       \/ /\ Legivel(c) /\ UNCHANGED falhas
          /\ recup' = [recup EXCEPT ![w].hash = c]
          /\ fase' = [fase EXCEPT ![w] = "recPublica"]
       \/ /\ (~Legivel(c) /\ UNCHANGED falhas) \/ Falha
          /\ recup' = [recup EXCEPT ![w].nome = Nada]
          /\ fase' = [fase EXCEPT ![w] = "recupera"]
  /\ UNCHANGED <<entrada, escritos, processando, recibos, fora, relogio, publicacao, consumidos,
                 avisos, memoria, tarefa, movidos, quedas>>

(* An orphan that vanished, or is empty or oversized, aborts the startup. *)
RecuperaEstabiliza(w) ==
  /\ fase[w] = "recEstabiliza"
  /\ LET c == processando[recup[w].nome] IN
       \/ /\ Legivel(c) /\ UNCHANGED falhas
          /\ recup' = [recup EXCEPT ![w].hash = c]
          /\ fase' = [fase EXCEPT ![w] = "recPublica"]
       \/ ~Legivel(c) /\ Aborta(w) /\ UNCHANGED falhas
       \/ Aborta(w) /\ Falha
  /\ UNCHANGED <<entrada, escritos, processando, recibos, fora, relogio, publicacao, consumidos,
                 avisos, memoria, tarefa, movidos, quedas>>

RecuperaPublica(w) ==
  /\ fase[w] = "recPublica"
  /\ LET n == recup[w].nome  h == recup[w].hash IN
       \/ /\ Aceita(n, h) /\ UNCHANGED <<falhas, recup>>
          /\ fase' = [fase EXCEPT ![w] = "recRecibo"]
       \/ Recusa(n, h) /\ Aborta(w)
  /\ UNCHANGED <<entrada, escritos, processando, recibos, fora, relogio, consumidos, avisos,
                 memoria, tarefa, movidos, quedas>>

RecuperaRecibo(w) ==
  /\ fase[w] = "recRecibo"
  /\ \/ /\ recibos' = recibos \cup {recup[w].nome} /\ UNCHANGED falhas
        /\ fase' = [fase EXCEPT ![w] = "recupera"]
        /\ recup' = [recup EXCEPT ![w].nome = Nada, ![w].hash = Nada]
     \/ recibos' \in {recibos, recibos \cup {recup[w].nome}} /\ Aborta(w) /\ Falha
  /\ UNCHANGED <<entrada, escritos, processando, fora, relogio, publicacao, consumidos, avisos,
                 memoria, tarefa, movidos, quedas>>

(* limpar_recibos_obsoletos.  A receipt that the consumer removes first cannot be removed. *)
RecuperaLimpa(w) ==
  /\ fase[w] = "recupera" /\ recup[w].resta = {}
  /\ fase' = [fase EXCEPT ![w] = "recLimpa"]
  /\ recup' = [recup EXCEPT ![w].resta = {n \in recibos : Dono(n) = w}]
  /\ UNCHANGED <<entrada, escritos, processando, recibos, fora, relogio, publicacao, consumidos,
                 avisos, memoria, tarefa, movidos, falhas, quedas>>

LimpaRecibo(w) ==
  /\ fase[w] = "recLimpa"
  /\ \E n \in recup[w].resta :
       \/ /\ processando[n] # Nada \/ n \notin recibos
          /\ recup' = [recup EXCEPT ![w].resta = @ \ {n}] /\ UNCHANGED <<recibos, fase, falhas>>
       \/ /\ processando[n] = Nada /\ n \in recibos
          /\ recibos' = recibos \ {n}
          /\ recup' = [recup EXCEPT ![w].resta = @ \ {n}] /\ UNCHANGED <<fase, falhas>>
       \/ processando[n] = Nada /\ n \notin recibos /\ Aborta(w) /\ UNCHANGED <<recibos, falhas>>
       \/ Aborta(w) /\ Falha /\ UNCHANGED recibos
  /\ UNCHANGED <<entrada, escritos, processando, fora, relogio, publicacao, consumidos, avisos,
                 memoria, tarefa, movidos, quedas>>

RecuperaConclui(w) ==
  /\ fase[w] = "recLimpa" /\ recup[w].resta = {}
  /\ fase' = [fase EXCEPT ![w] = "ativo"]
  /\ UNCHANGED <<entrada, escritos, processando, recibos, fora, relogio, publicacao, consumidos,
                 avisos, recup, memoria, tarefa, movidos, falhas, quedas>>

(* A crash; or the exit after SIGTERM, once the claims are empty or 30 s have passed. *)
Queda(w) ==
  /\ fase[w] # "parado" /\ quedas < MaxQuedas
  /\ quedas' = quedas + 1
  /\ Aborta(w)
  /\ canal' = [canal EXCEPT ![w] = {}]
  /\ lista' = [lista EXCEPT ![w] = {}] /\ filtrada' = [filtrada EXCEPT ![w] = TRUE]
  /\ claims' = [claims EXCEPT ![w] = {}]
  /\ tarefa' = [t \in Tarefas |-> IF Dono(t) = w THEN Livre ELSE tarefa[t]]
  /\ UNCHANGED <<entrada, escritos, processando, recibos, fora, relogio, publicacao, consumidos,
                 avisos, movidos, falhas>>

-----------------------------------------------------------------------------
PassoTarefa(t) ==
  \/ ApagaZona(t) \/ IgnoraDuplicado(t) \/ Reivindica(t)
  \/ Estabiliza(t) \/ Move(t) \/ FalhaAoMover(t)
  \/ Publica(t) \/ RegistraRecibo(t) \/ Libera(t)
  \/ TrataSemMover(t) \/ Carimba(t) \/ RejeitaEntrada(t) \/ RejeitaNaoPublicado(t)

PassoInicio(w) ==
  \/ Inicia(w) \/ RecuperaEscolhe(w) \/ RecuperaEstabiliza(w)
  \/ RecuperaPublica(w) \/ RecuperaRecibo(w) \/ RecuperaLimpa(w) \/ LimpaRecibo(w)
  \/ RecuperaConclui(w)

PassoScanner(w) ==
  \/ ScannerLista(w) \/ ScannerFiltra(w)
  \/ \E t \in Tarefas : Dono(t) = w /\ ScannerDispara(t)

(* Everything but the consumer. *)
NextSemConsumidor ==
  \/ \E p \in Caminhos, d \in Docs : Escreve(p, d)
  \/ Tick
  \/ \E t \in Tarefas : ListenerRecebe(t) \/ PassoTarefa(t)
  \/ \E w \in Workers : PassoScanner(w) \/ PassoInicio(w) \/ Queda(w) \/ Reinicia(w)

Next == NextSemConsumidor \/ \E e \in fila : ConsumidorRetira(e) \/ ConsumidorConfirma(e)

Spec == Init /\ [][Next]_vars

-----------------------------------------------------------------------------
(***************************************************************************)
(* Properties.                                                             *)
(***************************************************************************)
Registro == [pasta : {"erro", "ignorados"}, ts : 0..MaxTicks, origem : Caminhos \cup Nomes, doc : Docs]
Grafias == {"absoluta", GrafiaDoScanner}
Chaves == Caminhos \X Grafias
Tarefa == [fase : Fases, caminho : Caminhos \cup {Nada}, grafia : Grafias, hash : Docs \cup {Nada},
           nome : Nomes \cup {Nada}, tent : 0..(MaxTentativas - 1), erro : Erros, ts : 0..MaxTicks]

(* Every variable of the watcher holds a value of its kind. *)
TypeOK ==
  /\ entrada \in [Caminhos -> Docs \cup {Nada}]
  /\ escritos \in [Docs -> Nat] /\ \A d \in Docs : escritos[d] <= Vezes[d]
  /\ processando \in [Nomes -> Docs \cup {Nada}] /\ recibos \subseteq Nomes
  /\ fora \subseteq Registro /\ relogio \in 0..MaxTicks
  /\ aceitos \subseteq Nomes /\ fila \subseteq [nome : Nomes, hash : Docs]
  /\ consumidos \subseteq Docs /\ avisos \subseteq Nomes
  /\ fase \in [Workers -> FasesWorker]
  /\ recup \in [Workers -> [nome : Nomes \cup {Nada}, hash : Docs \cup {Nada}, resta : SUBSET Nomes]]
  /\ canal \in [Workers -> SUBSET Caminhos] /\ lista \in [Workers -> SUBSET Caminhos]
  /\ filtrada \in [Workers -> BOOLEAN] /\ claims \in [Workers -> SUBSET Chaves]
  /\ tarefa \in [Tarefas -> Tarefa]
  /\ movidos \in [Workers -> 0..MaxMovidos]
  /\ falhas \in 0..MaxFalhas /\ quedas \in 0..MaxQuedas

ComClaim == {"estabiliza", "move", "publica", "recibo", "libera"}

(* The claim set is exact: a worker's claims are the paths its tasks are between tratar_evento's
   insert and remove on, as they spell them, and no two tasks are there on one path that they
   spell alike (watcher.rs, claims). *)
ClaimsExatos ==
  /\ \A w \in Workers :
       claims[w] = {Chave(tarefa[t]) : t \in {u \in Tarefas : Dono(u) = w /\ tarefa[u].fase \in ComClaim}}
  /\ \A t, u \in Tarefas :
       /\ Dono(t) = Dono(u) /\ Chave(tarefa[t]) = Chave(tarefa[u])
       /\ tarefa[t].fase \in ComClaim /\ tarefa[u].fase \in ComClaim
       => t = u

(* A receipt makes the next startup skip the file, so it exists only for an event the publisher
   accepted (registrar_recibo_publicacao, recuperar_arquivos_processando). *)
ReciboSoDepoisDeAceito == recibos \subseteq aceitos

(* While a worker runs, a staged file without a receipt is in the hands of a task that holds its
   claim, or is being rejected by one, or the failure was logged: an empty claim set, which ends
   the graceful shutdown, leaves nothing between the move and the receipt unnoticed. *)
OrfaoTemTratador ==
  \A w \in Workers : fase[w] = "ativo" =>
    \A n \in Orfaos(w) :
      \/ n \in avisos
      \/ \E t \in Tarefas :
           /\ tarefa[t].nome = n
           /\ \/ tarefa[t].fase \in {"publica", "recibo", "libera"} /\ Chave(tarefa[t]) \in claims[w]
              \/ tarefa[t].fase \in {"trata", "rejeita"}

Guardado(d) ==
  \/ \E p \in Caminhos : entrada[p] = d
  \/ \E n \in Nomes : processando[n] = d
  \/ \E r \in fora : r.doc = d
  \/ d \in consumidos

(* No rename replaces a file but one: a document leaves a folder only into another one or into the
   consumer's hands, unless its producer writes over it or its name marks it as Zone.Identifier
   metadata; or it had been rejected, and a file with the same bare name, rejected under the stamp
   of the same millisecond, took its name in erro/ or ignorados/ (file_ops.rs, watcher.rs). *)
NadaSeSobrescreve ==
  [][\A d \in Docs : Guardado(d) /\ ~Guardado(d)' =>
       \/ \E p \in Caminhos : entrada[p] = d /\ (p \in Zona \/ escritos' # escritos)
       \/ \E r \in fora \ fora', s \in fora' : r.doc = d /\ MesmoNome(r, s)]_vars

(* With one worker, an absolute base folder and producers that never write over a file, an announced
   hash is the hash of the file the event names: nothing replaces a file between its reading and its rename. *)
CapturaFiel == \A e \in fila : processando[e.nome] \in {e.hash, Nada}

(* Only empty files and files of a forbidden extension end in ignorados/ (README, folder table). *)
IgnoradosSoInvalidos ==
  \A r \in fora : r.pasta = "ignorados" => r.doc \in Vazios \/ r.origem \in ExtInvalida
=============================================================================
