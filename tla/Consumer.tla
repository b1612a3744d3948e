------------------------------ MODULE Consumer ------------------------------
(***************************************************************************)
(* The consumer of IngestorX (consumer.rs, state.rs, storage.rs): each     *)
(* delivery of an announced file is a task that looks the hash up, checks  *)
(* the staged file, moves it, uploads it, records the hash and only then   *)
(* acknowledges and removes the local copies.  Several processes share the *)
(* queue, the folders, the object storage and the table of hashes.         *)
(*                                                                         *)
(* A message is a member of Mensagens: the at-least-once watcher may send  *)
(* several for one staged file.  A document stands for its own SHA-256.    *)
(***************************************************************************)
EXTENDS Naturals

CONSTANTS
  Processos,     \* consumer processes on the queue
  Slots,         \* permits of one process: max_consumidores_concorrentes
  Mensagens,
  Invalidas,     \* messages that are not an EventoArquivo
  Nomes, Docs,   \* staging names; contents
  NomeDe,        \* file name of a message's path_absoluto
  HashDe,        \* hash_sha256 of a message
  ConteudoDe,    \* what the watcher left under each staging name
  ReciboAoAlcance,  \* <<process, name>> whose receipt is in the folder of the process's worker_id
  Nada,          \* no content, no message
  MaxFalhas,     \* bound: calls that fail
  MaxQuedas      \* bound: channels lost, by a crash or by the network, and PostgreSQL sessions lost

ASSUME EventosAssumption ==
  /\ Invalidas \subseteq Mensagens
  /\ NomeDe \in [Mensagens -> Nomes] /\ HashDe \in [Mensagens -> Docs]
  /\ ConteudoDe \in [Nomes -> Docs]
ASSUME NadaAssumption ==
  Nada \notin Docs \cup Mensagens /\ Processos \cap {"fila", "confirmada"} = {}
ASSUME LimitesAssumption == MaxFalhas \in Nat /\ MaxQuedas \in Nat

Tarefas == Processos \X Slots
ProcessoDe(t) == t[1]

VARIABLES
  msg,          \* a message is queued, held unconfirmed by a process, or confirmed
  dlq,          \* messages in the dead letter queue
  estado,       \* what the main loop of a process is heading for
  tarefa,       \* the tasks of the processes
  processando,  \* content of each staging name
  processado,   \* content under the same name in processado/
  semBanco,     \* processes whose PostgreSQL session is lost
  erro,         \* <<name, content>> of the files moved to erro/ as hash-invalido-*
  recibos,      \* names with a publication receipt
  objetos,      \* <<hash in the key, content>> of each stored object
  registro,     \* hashes the table has as processado
  falhas, quedas

pastas == <<processando, processado, erro, recibos>>
vars == <<msg, dlq, estado, tarefa, semBanco, processando, processado, erro, recibos, objetos,
          registro, falhas, quedas>>

Estados == {"vivo", "comErro", "saindo", "semCanal"}
Fases == {"livre", "consulta", "verifica", "destino", "confere", "renomeia", "envia", "registra",
          "ack", "recibo", "origem", "copia", "nack", "separa", "dlq", "ackDlq"}

Livre == [fase |-> "livre", msg |-> Nada, duplicata |-> FALSE]

Init ==
  /\ msg = [m \in Mensagens |-> "fila"]
  /\ dlq = {} /\ estado = [p \in Processos |-> "vivo"] /\ semBanco = {}
  /\ tarefa = [t \in Tarefas |-> Livre]
  /\ processando = ConteudoDe
  /\ processado = [n \in Nomes |-> Nada]
  /\ erro = {} /\ recibos = Nomes
  /\ objetos = {} /\ registro = {}
  /\ falhas = 0 /\ quedas = 0

Falha == falhas < MaxFalhas /\ falhas' = falhas + 1

Nome(t) == NomeDe[tarefa[t].msg]
Hash(t) == HashDe[tarefa[t].msg]
Em(t, f) == tarefa[t].fase = f
Vai(t, f) == tarefa' = [tarefa EXCEPT ![t].fase = f]
Termina(t) == tarefa' = [tarefa EXCEPT ![t] = Livre]

-----------------------------------------------------------------------------
(***************************************************************************)
(* The main loop.  It takes a delivery, starts its task, and only then     *)
(* looks whether an earlier task ended in an error, which ends the process.*)
(***************************************************************************)
(* Mutant of Recebe: the errors of finished tasks are not looked at. *)
RecebeSemOlhar(t, m) ==
  LET p == ProcessoDe(t) IN
  /\ msg[m] = "fila" /\ tarefa[t] = Livre /\ estado[p] \in {"vivo", "comErro"}
  /\ msg' = [msg EXCEPT ![m] = p]
  /\ tarefa' = [tarefa EXCEPT ![t] =
       [fase |-> IF m \in Invalidas THEN "dlq" ELSE "consulta", msg |-> m, duplicata |-> FALSE]]
  /\ UNCHANGED <<dlq, estado, pastas, objetos, registro, falhas, semBanco, quedas>>

Recebe(t, m) ==
  LET p == ProcessoDe(t) IN
  /\ msg[m] = "fila" /\ tarefa[t] = Livre /\ estado[p] \in {"vivo", "comErro"}
  /\ msg' = [msg EXCEPT ![m] = p]
  /\ tarefa' = [tarefa EXCEPT ![t] =
       [fase |-> IF m \in Invalidas THEN "dlq" ELSE "consulta", msg |-> m, duplicata |-> FALSE]]
  /\ estado' = [estado EXCEPT ![p] = IF @ = "comErro" THEN "saindo" ELSE @]
  /\ UNCHANGED <<dlq, pastas, objetos, registro, falhas, semBanco, quedas>>

(* What p holds goes back to the queue. *)
Devolvidas(p) == [m \in Mensagens |-> IF msg[m] = p THEN "fila" ELSE msg[m]]

(* The broker loses the channel; the tasks go on until the process has noticed. *)
CanalCai(p) ==
  /\ estado[p] # "semCanal" /\ quedas < MaxQuedas
  /\ quedas' = quedas + 1
  /\ msg' = Devolvidas(p)
  /\ estado' = [estado EXCEPT ![p] = "semCanal"]
  /\ UNCHANGED <<dlq, tarefa, semBanco, pastas, objetos, registro, falhas>>

(* The task that drives the PostgreSQL session ends; nothing opens another one. *)
SessaoCai(p) ==
  /\ p \notin semBanco /\ quedas < MaxQuedas
  /\ quedas' = quedas + 1
  /\ semBanco' = semBanco \cup {p}
  /\ UNCHANGED <<msg, dlq, estado, tarefa, pastas, objetos, registro, falhas>>

(* executar returns the error, every task is aborted, systemd starts the process again; one that
   has lost its session goes on, and is restarted by the operator (docs/RUNBOOK.md). *)
Encerra(p) ==
  /\ estado[p] \in {"saindo", "semCanal"} \/ p \in semBanco
  /\ semBanco' = semBanco \ {p}
  /\ msg' = Devolvidas(p)
  /\ estado' = [estado EXCEPT ![p] = "vivo"]
  /\ tarefa' = [t \in Tarefas |-> IF ProcessoDe(t) = p THEN Livre ELSE tarefa[t]]
  /\ UNCHANGED <<dlq, pastas, objetos, registro, falhas, quedas>>

-----------------------------------------------------------------------------
(***************************************************************************)
(* processar_entrega and processar_evento.                                 *)
(***************************************************************************)
TemBanco(t) == ProcessoDe(t) \notin semBanco

Consulta(t) ==
  /\ Em(t, "consulta")
  /\ \/ /\ TemBanco(t) /\ Hash(t) \in registro /\ UNCHANGED falhas
        /\ tarefa' = [tarefa EXCEPT ![t].fase = "ack", ![t].duplicata = TRUE]
     \/ TemBanco(t) /\ Hash(t) \notin registro /\ Vai(t, "verifica") /\ UNCHANGED falhas
     \/ TemBanco(t) /\ Falha /\ Vai(t, "nack")
     \/ ~TemBanco(t) /\ Vai(t, "nack") /\ UNCHANGED falhas
  /\ UNCHANGED <<msg, dlq, estado, pastas, objetos, registro, semBanco, quedas>>

Verifica(t) ==
  /\ Em(t, "verifica")
  /\ \/ processando[Nome(t)] # Nada /\ Vai(t, "confere") /\ UNCHANGED falhas
     \/ processando[Nome(t)] = Nada /\ Vai(t, "destino") /\ UNCHANGED falhas
     \/ Falha /\ Vai(t, "nack")
  /\ UNCHANGED <<msg, dlq, estado, pastas, objetos, registro, semBanco, quedas>>

(* Mutant of VerificaDestino: a file that an earlier delivery moved is not looked for. *)
VerificaDestinoSemOlhar(t) ==
  /\ Em(t, "destino")
  /\ Vai(t, "nack") /\ UNCHANGED falhas
  /\ UNCHANGED <<msg, dlq, estado, pastas, objetos, registro, semBanco, quedas>>

VerificaDestino(t) ==
  /\ Em(t, "destino")
  /\ \/ processado[Nome(t)] = Hash(t) /\ Vai(t, "envia") /\ UNCHANGED falhas
     \/ processado[Nome(t)] # Hash(t) /\ Vai(t, "nack") /\ UNCHANGED falhas
     \/ Falha /\ Vai(t, "nack")
  /\ UNCHANGED <<msg, dlq, estado, pastas, objetos, registro, semBanco, quedas>>

(* Mutant of Confere: the receipt goes as soon as the hash is found right. *)
ConfereSoltandoRecibo(t) ==
  /\ Em(t, "confere")
  /\ LET c == processando[Nome(t)] IN
       \/ c = Hash(t) /\ Vai(t, "renomeia") /\ recibos' = recibos \ {Nome(t)}
       \/ c \notin {Hash(t), Nada} /\ Vai(t, "separa") /\ UNCHANGED recibos
       \/ c = Nada /\ Vai(t, "nack") /\ UNCHANGED recibos
  /\ UNCHANGED <<msg, dlq, estado, processando, processado, erro, objetos, registro, falhas,
                 semBanco, quedas>>

(* The hash of the staged file, which another task may have moved by now. *)
Confere(t) ==
  /\ Em(t, "confere")
  /\ LET c == processando[Nome(t)] IN
       \/ c = Hash(t) /\ Vai(t, "renomeia") /\ UNCHANGED falhas
       \/ c \notin {Hash(t), Nada} /\ Vai(t, "separa") /\ UNCHANGED falhas
       \/ c = Nada /\ Vai(t, "nack") /\ UNCHANGED falhas
       \/ Falha /\ Vai(t, "nack")
  /\ UNCHANGED <<msg, dlq, estado, pastas, objetos, registro, semBanco, quedas>>

Renomeia(t) ==
  /\ Em(t, "renomeia")
  /\ LET n == Nome(t) IN
       \/ /\ processando[n] # Nada /\ Vai(t, "envia") /\ UNCHANGED falhas
          /\ processado' = [processado EXCEPT ![n] = processando[n]]
          /\ processando' = [processando EXCEPT ![n] = Nada]
       \/ /\ processando[n] = Nada /\ Vai(t, "nack")
          /\ UNCHANGED <<processado, processando, falhas>>
       \/ Falha /\ Vai(t, "nack") /\ UNCHANGED <<processado, processando>>
  /\ UNCHANGED <<msg, dlq, estado, erro, recibos, objetos, registro, semBanco, quedas>>

(* Mutant of Envia: the status of the upload is not looked at. *)
EnviaSemStatus(t) ==
  /\ Em(t, "envia")
  /\ \/ /\ processado[Nome(t)] # Nada /\ UNCHANGED falhas
        /\ objetos' = objetos \cup {<<Hash(t), processado[Nome(t)]>>}
     \/ Falha /\ UNCHANGED objetos
  /\ Vai(t, "registra")
  /\ UNCHANGED <<msg, dlq, estado, pastas, registro, semBanco, quedas>>

(* One PUT of processado/name; a request that fails may have been carried out. *)
Envia(t) ==
  /\ Em(t, "envia")
  /\ LET c == processado[Nome(t)]  guardado == objetos \cup {<<Hash(t), c>>} IN
       \/ c # Nada /\ objetos' = guardado /\ Vai(t, "registra") /\ UNCHANGED falhas
       \/ c = Nada /\ Vai(t, "nack") /\ UNCHANGED <<objetos, falhas>>
       \/ c # Nada /\ Falha /\ Vai(t, "nack") /\ objetos' \in {objetos, guardado}
  /\ UNCHANGED <<msg, dlq, estado, pastas, registro, semBanco, quedas>>

(* Mutant of Registra: the error is logged and the message confirmed. *)
RegistraSemErro(t) ==
  /\ Em(t, "registra")
  /\ \/ registro' = registro \cup {Hash(t)} /\ UNCHANGED falhas
     \/ Falha /\ UNCHANGED registro
  /\ Vai(t, "ack")
  /\ UNCHANGED <<msg, dlq, estado, pastas, objetos, semBanco, quedas>>

(* Mutant of Registra: the parameters of the statement are swapped. *)
RegistraNome(t) ==
  /\ Em(t, "registra")
  /\ registro' = registro \cup {Nome(t)} /\ Vai(t, "ack")
  /\ UNCHANGED <<msg, dlq, estado, pastas, objetos, falhas, semBanco, quedas>>

(* One statement, committed or not when the call fails. *)
Registra(t) ==
  /\ Em(t, "registra")
  /\ LET gravado == registro \cup {Hash(t)} IN
       \/ TemBanco(t) /\ registro' = gravado /\ Vai(t, "ack") /\ UNCHANGED falhas
       \/ TemBanco(t) /\ registro' \in {registro, gravado} /\ Vai(t, "nack") /\ Falha
       \/ ~TemBanco(t) /\ Vai(t, "nack") /\ UNCHANGED <<registro, falhas>>
  /\ UNCHANGED <<msg, dlq, estado, pastas, objetos, semBanco, quedas>>

TemCanal(t) == estado[ProcessoDe(t)] # "semCanal"

Confirma(t) ==
  /\ Em(t, "ack") /\ TemCanal(t)
  /\ msg' = [msg EXCEPT ![tarefa[t].msg] = "confirmada"]
  /\ Vai(t, "recibo")
  /\ UNCHANGED <<dlq, estado, pastas, objetos, registro, falhas, semBanco, quedas>>

(* remover_recibo, then the local copies; errors are only logged.  The receipt of another worker
   is not found. *)
ApagaRecibo(t) ==
  /\ Em(t, "recibo")
  /\ LET alcance == <<ProcessoDe(t), Nome(t)>> \in ReciboAoAlcance IN
       \/ alcance /\ recibos' = recibos \ {Nome(t)} /\ UNCHANGED falhas
       \/ ~alcance /\ UNCHANGED <<recibos, falhas>>
       \/ alcance /\ Falha /\ UNCHANGED recibos
  /\ Vai(t, IF tarefa[t].duplicata THEN "origem" ELSE "copia")
  /\ UNCHANGED <<msg, dlq, estado, processando, processado, erro, objetos, registro, semBanco, quedas>>

ApagaOrigem(t) ==
  /\ Em(t, "origem")
  /\ \/ processando' = [processando EXCEPT ![Nome(t)] = Nada] /\ UNCHANGED falhas
     \/ Falha /\ UNCHANGED processando
  /\ Vai(t, "copia")
  /\ UNCHANGED <<msg, dlq, estado, processado, erro, recibos, objetos, registro, semBanco, quedas>>

ApagaCopia(t) ==
  /\ Em(t, "copia")
  /\ \/ processado' = [processado EXCEPT ![Nome(t)] = Nada] /\ UNCHANGED falhas
     \/ Falha /\ UNCHANGED processado
  /\ Termina(t)
  /\ UNCHANGED <<msg, dlq, estado, processando, erro, recibos, objetos, registro, semBanco, quedas>>

(* nack with requeue. *)
Devolve(t) ==
  /\ Em(t, "nack") /\ TemCanal(t)
  /\ msg' = [msg EXCEPT ![tarefa[t].msg] = "fila"]
  /\ Termina(t)
  /\ UNCHANGED <<dlq, estado, pastas, objetos, registro, falhas, semBanco, quedas>>

(* mover_corrompido_para_erro: best effort, before the message is in the DLQ. *)
Separa(t) ==
  /\ Em(t, "separa")
  /\ LET n == Nome(t) IN
       \/ /\ processando[n] # Nada /\ UNCHANGED falhas
          /\ processando' = [processando EXCEPT ![n] = Nada]
          /\ erro' = erro \cup {<<n, processando[n]>>}
       \/ processando[n] = Nada /\ UNCHANGED <<processando, erro, falhas>>
       \/ processando[n] # Nada /\ Falha /\ UNCHANGED <<processando, erro>>
  /\ Vai(t, "dlq")
  /\ UNCHANGED <<msg, dlq, estado, processado, recibos, objetos, registro, semBanco, quedas>>

(* The task ends with an error that the main loop has not seen yet; nobody gives the message back. *)
FalhaTarefa(t) ==
  /\ Termina(t)
  /\ estado' = [estado EXCEPT ![ProcessoDe(t)] = IF @ = "vivo" THEN "comErro" ELSE @]

(* Mutant of PublicaDlq: the confirmation of the broker is not awaited. *)
PublicaDlqSemEsperar(t) ==
  /\ Em(t, "dlq") /\ TemCanal(t)
  /\ \/ dlq' = dlq \cup {tarefa[t].msg} /\ UNCHANGED falhas
     \/ Falha /\ UNCHANGED dlq
  /\ Vai(t, "ackDlq")
  /\ UNCHANGED <<msg, estado, pastas, objetos, registro, semBanco, quedas>>

PublicaDlq(t) ==
  /\ Em(t, "dlq") /\ TemCanal(t)
  /\ \/ /\ dlq' = dlq \cup {tarefa[t].msg} /\ UNCHANGED <<estado, falhas>>
        /\ Vai(t, "ackDlq")
     \/ dlq' \in {dlq, dlq \cup {tarefa[t].msg}} /\ Falha /\ FalhaTarefa(t)
  /\ UNCHANGED <<msg, pastas, objetos, registro, semBanco, quedas>>

ConfirmaDlq(t) ==
  /\ Em(t, "ackDlq") /\ TemCanal(t)
  /\ msg' = [msg EXCEPT ![tarefa[t].msg] = "confirmada"]
  /\ Termina(t)
  /\ UNCHANGED <<dlq, estado, pastas, objetos, registro, falhas, semBanco, quedas>>

(* Every call on a lost channel is an error. *)
SemCanal(t) ==
  /\ tarefa[t].fase \in {"ack", "nack", "dlq", "ackDlq"} /\ ~TemCanal(t)
  /\ FalhaTarefa(t)
  /\ UNCHANGED <<msg, dlq, pastas, objetos, registro, falhas, semBanco, quedas>>

-----------------------------------------------------------------------------
PassoTarefa(t) ==
  \/ Consulta(t) \/ Verifica(t) \/ VerificaDestino(t) \/ Confere(t) \/ Renomeia(t)
  \/ Envia(t) \/ Registra(t) \/ Confirma(t)
  \/ ApagaRecibo(t) \/ ApagaOrigem(t) \/ ApagaCopia(t) \/ Devolve(t)
  \/ Separa(t) \/ PublicaDlq(t) \/ ConfirmaDlq(t) \/ SemCanal(t)

Next ==
  \/ \E t \in Tarefas : PassoTarefa(t) \/ \E m \in Mensagens : Recebe(t, m)
  \/ \E p \in Processos : CanalCai(p) \/ SessaoCai(p) \/ Encerra(p)

Spec == Init /\ [][Next]_vars

(* Tasks run, systemd restarts a process that ended and the operator one without a session, and
   the broker delivers each queued message again and again while some process takes deliveries. *)
Justica ==
  /\ \A t \in Tarefas : WF_vars(PassoTarefa(t))
  /\ \A p \in Processos : WF_vars(Encerra(p))
  /\ \A m \in Mensagens : SF_vars(\E t \in Tarefas : Recebe(t, m))

SpecVivo == Spec /\ Justica

-----------------------------------------------------------------------------
(***************************************************************************)
(* Properties.                                                             *)
(***************************************************************************)
Validas == Mensagens \ Invalidas

(* Every variable holds a value of its kind. *)
TypeOK ==
  /\ msg \in [Mensagens -> Processos \cup {"fila", "confirmada"}] /\ dlq \subseteq Mensagens
  /\ estado \in [Processos -> Estados] /\ semBanco \subseteq Processos
  /\ tarefa \in [Tarefas -> [fase : Fases, msg : Mensagens \cup {Nada}, duplicata : BOOLEAN]]
  /\ processando \in [Nomes -> Docs \cup {Nada}] /\ processado \in [Nomes -> Docs \cup {Nada}]
  /\ erro \subseteq Nomes \X Docs /\ recibos \subseteq Nomes
  /\ objetos \subseteq Docs \X Docs /\ registro \subseteq Docs
  /\ falhas \in 0..MaxFalhas /\ quedas \in 0..MaxQuedas

(* The key of an object is the hash of its content, and a hash is recorded as processado only
   once its object is stored: what the table says can be fetched (CAPACITY.md, Semantica). *)
BancoNaoMente ==
  /\ \A o \in objetos : o[1] = o[2]
  /\ \A h \in registro : <<h, h>> \in objetos

(* A message leaves the queue for good only when its hash is recorded or the message itself is in
   the DLQ, whichever deliveries of it are running, lost or repeated (the order of ack in
   processar_entrega). *)
ConfirmadaSoDepois ==
  \A m \in Mensagens : msg[m] = "confirmada" =>
    m \in dlq \/ (m \in Validas /\ HashDe[m] \in registro)

(* All that was announced of the name is what the name held. *)
Fieis == {n \in Nomes : \A m \in Validas : NomeDe[m] = n => HashDe[m] = ConteudoDe[n]}

(* The local copies and the receipt of a faithfully announced file disappear only when its
   content is stored and recorded, however the deliveries of its messages overlap. *)
CopiaSoSaiGuardada ==
  \A n \in Fieis :
    \/ processando[n] = ConteudoDe[n] /\ n \in recibos
    \/ processado[n] = ConteudoDe[n] /\ n \in recibos
    \/ ConteudoDe[n] \in registro /\ <<ConteudoDe[n], ConteudoDe[n]>> \in objetos

(* Every message about a faithfully announced file is confirmed in the end: no failure, lost
   channel or duplicate delivery leaves it going round the queue for ever. *)
MensagemSeResolve ==
  \A m \in Validas : NomeDe[m] \in Fieis => <>(msg[m] = "confirmada")

(* A process that keeps taking deliveries keeps no message for ever: the error of a task, which
   only the next delivery brings to light, ends the process and gives the message back. *)
NadaFicaRetido ==
  \A p \in Processos, m \in Mensagens :
    ([]<>(\E t \in Tarefas : ProcessoDe(t) = p /\ Em(t, "consulta"))) => []<>(msg[m] # p)

(* A file set aside for its hash has its message in the DLQ sooner or later (CAPACITY.md:
   rejected messages stay in the DLQ). *)
RejeitadaChegaDlq ==
  \A x \in Nomes \X Docs : x \in erro ~> \E m \in dlq : NomeDe[m] = x[1]
=============================================================================
