------------------------------ MODULE Pipeline ------------------------------
(***************************************************************************)
(* Watchers and consumers together.  Watcher is extended with its actions  *)
(* but for those that stand for the consumer; Consumer is instantiated     *)
(* over the same staging folder and the same receipts; an event the        *)
(* watcher published reaches the queue at least once, by way of the broker *)
(* or of the contingency buffer.                                           *)
(***************************************************************************)
EXTENDS Watcher

CONSTANTS
  Processos,   \* consumer processes
  Permissoes,  \* permits of each of them
  IdDe,        \* the worker_id a consumer process runs under
  MaxCopias,   \* bound: messages the queue gets of one event
  MaxFalhasConsumidor, MaxQuedasConsumidor   \* bounds of Consumer

ASSUME ProcessosAssumption == Processos \cap {"ausente", "fila", "confirmada"} = {}

Mensagens == [nome : Nomes, hash : Docs, copia : 1..MaxCopias]

VARIABLES
  msg, dlq, estado, entrega, semBanco, processado, separados, objetos, registro,
  falhasConsumidor, quedasConsumidor

C == INSTANCE Consumer WITH
  Slots <- Permissoes, Invalidas <- {},
  NomeDe <- [m \in Mensagens |-> m.nome],
  HashDe <- [m \in Mensagens |-> m.hash],
  ConteudoDe <- [n \in Nomes |-> CHOOSE d \in Docs : TRUE],   \* not used: C!Init is not
  ReciboAoAlcance <- {x \in Processos \X Nomes : IdDe[x[1]] = Dono(x[2])},
  tarefa <- entrega, erro <- separados,
  MaxFalhas <- MaxFalhasConsumidor, MaxQuedas <- MaxQuedasConsumidor,
  falhas <- falhasConsumidor, quedas <- quedasConsumidor

soConsumidor == <<msg, dlq, estado, entrega, semBanco, processado, separados, objetos, registro,
                  falhasConsumidor, quedasConsumidor>>
varsPipeline == <<vars, soConsumidor>>

(* The staging folder and the receipts are the watcher's, and empty; no event is in the queue. *)
InitPipeline ==
  /\ Init
  /\ msg = [m \in Mensagens |-> "ausente"]
  /\ dlq = {} /\ estado = [p \in Processos |-> "vivo"] /\ semBanco = {}
  /\ entrega = [x \in C!Tarefas |-> C!Livre]
  /\ processado = [n \in Nomes |-> Nada] /\ separados = {}
  /\ objetos = {} /\ registro = {}
  /\ falhasConsumidor = 0 /\ quedasConsumidor = 0

(* A message of a published event reaches the queue; a publication that timed out, a buffered
   line sent twice or a recovery bring further copies, at any later time. *)
Chega(e) ==
  /\ e \in fila
  /\ \E k \in 1..MaxCopias :
       LET m(i) == [nome |-> e.nome, hash |-> e.hash, copia |-> i] IN
       /\ msg[m(k)] = "ausente" /\ (k > 1 => msg[m(k - 1)] # "ausente")
       /\ msg' = [msg EXCEPT ![m(k)] = "fila"]
  /\ UNCHANGED <<vars, dlq, estado, entrega, semBanco, processado, separados, objetos, registro,
                 falhasConsumidor, quedasConsumidor>>

NaFila(e) == \E m \in Mensagens : m.nome = e.nome /\ m.hash = e.hash /\ msg[m] # "ausente"

PassoWatcher == NextSemConsumidor /\ UNCHANGED soConsumidor

(* A step of a consumer, with what it does to the watcher's view of it: what has left staging is
   consumed, and a staged file that loses its receipt is left to the log. *)
PassoConsumidor ==
  /\ C!Next
  /\ consumidos' = consumidos \cup {processando[n] : n \in {k \in Nomes : processando'[k] # processando[k]}}
  /\ avisos' = avisos \cup {n \in recibos \ recibos' : processando[n] # Nada}
  /\ UNCHANGED <<entrada, escritos, fora, relogio, publicacao, fase, recup, memoria, tarefa,
                 movidos, falhas, quedas>>

NextPipeline == PassoWatcher \/ PassoConsumidor \/ \E e \in fila : Chega(e)

SpecPipeline == InitPipeline /\ [][NextPipeline]_varsPipeline

(* Less than the fairness of the two parts: tasks run, the scanner, the startup, systemd and the
   operator act, some message of each announced file is delivered again and again; and the
   promise of Entrega: what was accepted reaches the queue. *)
JusticaPipeline ==
  /\ \A t \in Tarefas : WF_vars(PassoTarefa(t))
  /\ \A w \in Workers : WF_vars(PassoScanner(w)) /\ WF_vars(PassoInicio(w))
  /\ \A t \in C!Tarefas : WF_soConsumidor(C!PassoTarefa(t))
  /\ \A p \in Processos : WF_soConsumidor(C!Encerra(p))
  /\ \A n \in Nomes :
       /\ SF_soConsumidor(\E t \in C!Tarefas, m \in Mensagens : m.nome = n /\ C!Recebe(t, m))
       /\ WF_soConsumidor(n \in aceitos /\ \E h \in Docs : ~NaFila(Evento(n, h)) /\ Chega(Evento(n, h)))

SpecPipelineVivo == SpecPipeline /\ JusticaPipeline

-----------------------------------------------------------------------------
(***************************************************************************)
(* Properties.                                                             *)
(***************************************************************************)

(* The real consumer does to staging and receipts only what Watcher assumes of it, so what is
   proved of Watcher holds of the composition. *)
ImplementaWatcher == Spec

(* No document is lost on the way (README: an arrived file is never lost, and two workers never
   process the same one): until its content is stored and recorded under its own hash, a file
   with it lies in some folder. *)
PerdaZero ==
  \A d \in Docs : escritos[d] > 0 =>
    \/ d \in registro /\ <<d, d>> \in objetos
    \/ \E p \in Caminhos : entrada[p] = d
    \/ \E n \in Nomes : d \in {processando[n], processado[n]} \/ <<n, d>> \in separados
    \/ \E r \in fora : r.doc = d

(* No file that was announced is ever taken for a corrupt one, at whatever moment of its overlapping
   deliveries it is hashed again: none is set aside and no message goes to the DLQ. *)
NenhumCorrompido == separados = {} /\ dlq = {}

(* No accepted message is left without its file, to be given back to the queue for ever: until its
   hash is recorded its content lies in staging or in processado/, under the name the message gives
   (processar_evento), through the recovery that announces it again and the task that rejects it. *)
MensagemTemArquivo ==
  \A e \in fila : e.nome \in aceitos =>
    e.hash \in registro \cup {processando[e.nome], processado[e.nome]}

=============================================================================
