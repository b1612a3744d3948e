---------------------------- MODULE Contingencia ----------------------------
(***************************************************************************)
(* PublisherComContingencia (queue.rs) in one process: an event that the   *)
(* broker does not confirm is appended to eventos_pendentes.jsonl and      *)
(* synced; a drainer renames that file to .working, sends its events in    *)
(* order and writes back what the broker did not take.  lock_buffer is     *)
(* held by one append or by one whole drain.                               *)
(*                                                                         *)
(* A file is Nada or a sequence of lines.  A line names the events whose   *)
(* bytes it holds; it parses (ok) when it is one whole event, it lacks its *)
(* newline (fim = FALSE) when the write was cut short, so that the next    *)
(* append continues it, and it is not text (utf = FALSE) when the cut fell *)
(* within a character of more than one byte.                               *)
(***************************************************************************)
EXTENDS Naturals, Sequences, FiniteSets

CONSTANTS
  Eventos,
  Nada,          \* no file; nobody
  MaxRecusas,    \* bound: publications the broker does not confirm
  MaxFalhas,     \* bound: failed file operations
  MaxQuedas,     \* bound: crashes
  MaxRasgos      \* bound: appends that a failure or a crash cuts within a line

ASSUME NadaAssumption == Nada \notin Eventos /\ "drenador" \notin Eventos /\ Nada # "drenador"
ASSUME LimitesAssumption ==
  MaxRecusas \in Nat /\ MaxFalhas \in Nat /\ MaxQuedas \in Nat /\ MaxRasgos \in Nat

VARIABLES
  estado,        \* how far publicar() is with each event
  entregues,     \* events the broker has or had
  pendentes,     \* eventos_pendentes.jsonl
  working,       \* eventos_pendentes.jsonl.working
  corrompidos,   \* the lines in eventos_corrompidos.jsonl
  tranca,        \* holder of lock_buffer: an event being appended, "drenador", Nada
  dreno,         \* what the drainer is doing
  lote,          \* the lines of working it has still to send or to write back
  gravados,      \* events accepted into the buffer, in that order
  reenviados,    \* events the drainer has sent
  recusas, falhas, quedas, rasgos

arquivos == <<pendentes, working, corrompidos>>
limites == <<recusas, falhas, quedas, rasgos>>
vars == <<estado, entregues, pendentes, working, corrompidos, tranca, dreno, lote,
          gravados, reenviados, recusas, falhas, quedas, rasgos>>

Estados == {"novo", "buffer", "gravando", "aceito", "recusado"}
FasesDreno == {"ocioso", "le", "quarentena", "publica", "devolve", "remove"}
Linha == [evs : SUBSET Eventos, ok : BOOLEAN, fim : BOOLEAN, utf : BOOLEAN]

ASSUME ArquivoAssumption == Nada \notin Seq(Linha)

Inteira(e) == [evs |-> {e}, ok |-> TRUE, fim |-> TRUE, utf |-> TRUE]
(* What is left of a line: all but the newline, or some of its bytes, with a character cut or not. *)
Rasgada(e, ok, utf) == [evs |-> {e}, ok |-> ok, fim |-> FALSE, utf |-> ok \/ utf]

Aberto(arq) == IF arq = Nada THEN <<>> ELSE arq       \* open with create
(* Mutant of Colada: two lines run together are taken for one that parses. *)
ColadaValida(l, m) == [evs |-> l.evs \cup m.evs, ok |-> l.ok, fim |-> m.fim, utf |-> l.utf /\ m.utf]

Colada(l, m) == [evs |-> l.evs \cup m.evs, ok |-> FALSE, fim |-> m.fim, utf |-> l.utf /\ m.utf]
Acrescenta(arq, l) ==
  LET n == Len(Aberto(arq)) IN
  IF n = 0 \/ Aberto(arq)[n].fim
    THEN Append(Aberto(arq), l)
    ELSE [Aberto(arq) EXCEPT ![n] = Colada(@, l)]

Init ==
  /\ estado = [e \in Eventos |-> "novo"]
  /\ entregues = {} /\ pendentes = Nada /\ working = Nada /\ corrompidos = {}
  /\ tranca = Nada /\ dreno = "ocioso" /\ lote = <<>>
  /\ gravados = <<>> /\ reenviados = {}
  /\ recusas = 0 /\ falhas = 0 /\ quedas = 0 /\ rasgos = 0

FalhaIO == falhas < MaxFalhas /\ falhas' = falhas + 1

(* The broker refuses, times out or drops the connection; the message may have reached it. *)
BrokerRecusa(e) ==
  /\ recusas < MaxRecusas /\ recusas' = recusas + 1
  /\ entregues' = entregues \/ entregues' = entregues \cup {e}

(* An append of e's line to the pending file that did not complete. *)
EscritaCortada(e) ==
  \/ pendentes' \in {pendentes, Aberto(pendentes), Acrescenta(pendentes, Inteira(e))}
     /\ UNCHANGED rasgos
  \/ /\ rasgos < MaxRasgos /\ rasgos' = rasgos + 1
     /\ \E ok, utf \in BOOLEAN : pendentes' = Acrescenta(pendentes, Rasgada(e, ok, utf))

-----------------------------------------------------------------------------
(***************************************************************************)
(* publicar().                                                             *)
(***************************************************************************)
PublicaDireto(e) ==
  /\ estado[e] = "novo"
  /\ \/ /\ entregues' = entregues \cup {e} /\ UNCHANGED recusas
        /\ estado' = [estado EXCEPT ![e] = "aceito"]
     \/ /\ BrokerRecusa(e)
        /\ estado' = [estado EXCEPT ![e] = "buffer"]
  /\ UNCHANGED <<arquivos, tranca, dreno, lote, gravados, reenviados, falhas, quedas, rasgos>>

(* Mutant of GravaComeca: the append does not wait for the drain to finish. *)
GravaSemEsperar(e) ==
  /\ estado[e] = "buffer" /\ tranca \notin Eventos
  /\ tranca' = e
  /\ estado' = [estado EXCEPT ![e] = "gravando"]
  /\ UNCHANGED <<entregues, arquivos, dreno, lote, gravados, reenviados, limites>>

GravaComeca(e) ==
  /\ estado[e] = "buffer" /\ tranca = Nada
  /\ tranca' = e
  /\ estado' = [estado EXCEPT ![e] = "gravando"]
  /\ UNCHANGED <<entregues, arquivos, dreno, lote, gravados, reenviados, limites>>

(* Mutant of GravaConclui: the event is accepted although the append failed. *)
GravaConcluiAceitando(e) ==
  /\ estado[e] = "gravando"
  /\ \/ pendentes' = Acrescenta(pendentes, Inteira(e)) /\ UNCHANGED <<falhas, rasgos>>
     \/ FalhaIO /\ EscritaCortada(e)
  /\ estado' = [estado EXCEPT ![e] = "aceito"]
  /\ gravados' = Append(gravados, e)
  /\ tranca' = Nada
  /\ UNCHANGED <<entregues, working, corrompidos, dreno, lote, reenviados, recusas, quedas>>

(* write_all and sync_all, then the lock is released. *)
GravaConclui(e) ==
  /\ estado[e] = "gravando"
  /\ \/ /\ pendentes' = Acrescenta(pendentes, Inteira(e)) /\ UNCHANGED <<falhas, rasgos>>
        /\ estado' = [estado EXCEPT ![e] = "aceito"]
        /\ gravados' = Append(gravados, e)
     \/ /\ FalhaIO /\ EscritaCortada(e)
        /\ estado' = [estado EXCEPT ![e] = "recusado"]
        /\ UNCHANGED gravados
  /\ tranca' = Nada
  /\ UNCHANGED <<entregues, working, corrompidos, dreno, lote, reenviados, recusas, quedas>>

-----------------------------------------------------------------------------
(***************************************************************************)
(* drenar_internamente.  Every early return with ? releases the lock and   *)
(* leaves the files as they are.                                           *)
(***************************************************************************)
(* Mutant of DrenoPara: an early return keeps the lock. *)
DrenoParaSemSoltar == dreno' = "ocioso" /\ UNCHANGED tranca /\ lote' = <<>>

DrenoPara == dreno' = "ocioso" /\ tranca' = Nada /\ lote' = <<>>

(* Nothing happens unless the pending file exists, whatever .working holds. *)
DrenaInicia ==
  /\ dreno = "ocioso" /\ tranca = Nada /\ pendentes # Nada
  /\ IF working = Nada
       THEN working' = pendentes /\ pendentes' = Nada
       ELSE UNCHANGED <<working, pendentes>>
  /\ tranca' = "drenador" /\ dreno' = "le"
  /\ UNCHANGED <<estado, entregues, corrompidos, lote, gravados, reenviados, limites>>

(* Every line must be text before any of them is looked at. *)
DrenaLe ==
  /\ dreno = "le" /\ \A i \in DOMAIN working : working[i].utf
  /\ lote' = working
  /\ dreno' = IF \A i \in DOMAIN working : working[i].ok THEN "publica" ELSE "quarentena"
  /\ UNCHANGED <<estado, entregues, arquivos, tranca, gravados, reenviados, limites>>

(* next_line fails on a line that is not text, this time and every other. *)
DrenaIlegivel ==
  /\ dreno = "le" /\ \E i \in DOMAIN working : ~working[i].utf
  /\ DrenoPara
  /\ UNCHANGED <<estado, entregues, arquivos, gravados, reenviados, limites>>

DrenaQuarentena ==
  /\ dreno = "quarentena"
  /\ corrompidos' = corrompidos \cup {lote[i] : i \in {j \in DOMAIN lote : ~lote[j].ok}}
  /\ dreno' = "publica"
  /\ UNCHANGED <<estado, entregues, pendentes, working, tranca, lote, gravados, reenviados, limites>>

(* The event of a line that parses. *)
EventoDe(l) == CHOOSE e \in Eventos : l.evs = {e}

(* Mutant of DrenaPublica: what the broker refused is not written back. *)
DrenaPublicaSemDevolver ==
  /\ dreno = "publica" /\ lote # <<>>
  /\ LET e == EventoDe(Head(lote)) IN
       \/ /\ ~Head(lote).ok
          /\ lote' = Tail(lote) /\ UNCHANGED <<entregues, reenviados, dreno, recusas>>
       \/ /\ Head(lote).ok
          /\ entregues' = entregues \cup {e} /\ reenviados' = reenviados \cup {e}
          /\ lote' = Tail(lote) /\ UNCHANGED <<dreno, recusas>>
       \/ /\ Head(lote).ok
          /\ BrokerRecusa(e)
          /\ dreno' = "remove" /\ UNCHANGED <<lote, reenviados>>
  /\ UNCHANGED <<estado, arquivos, tranca, gravados, falhas, quedas, rasgos>>

DrenaPublica ==
  /\ dreno = "publica" /\ lote # <<>>
  /\ LET e == EventoDe(Head(lote)) IN
       \/ /\ ~Head(lote).ok
          /\ lote' = Tail(lote) /\ UNCHANGED <<entregues, reenviados, dreno, recusas>>
       \/ /\ Head(lote).ok
          /\ entregues' = entregues \cup {e} /\ reenviados' = reenviados \cup {e}
          /\ lote' = Tail(lote) /\ UNCHANGED <<dreno, recusas>>
       \/ /\ Head(lote).ok
          /\ BrokerRecusa(e)
          /\ dreno' = "devolve" /\ UNCHANGED <<lote, reenviados>>
  /\ UNCHANGED <<estado, arquivos, tranca, gravados, falhas, quedas, rasgos>>

DrenaDevolve ==
  /\ dreno = "devolve" /\ lote # <<>>
  /\ pendentes' = IF Head(lote).ok THEN Acrescenta(pendentes, Inteira(EventoDe(Head(lote)))) ELSE pendentes
  /\ lote' = Tail(lote)
  /\ UNCHANGED <<estado, entregues, working, corrompidos, tranca, dreno, gravados, reenviados, limites>>

DrenaAcaba ==
  /\ dreno \in {"publica", "devolve"} /\ lote = <<>>
  /\ dreno' = "remove"
  /\ UNCHANGED <<estado, entregues, arquivos, tranca, lote, gravados, reenviados, limites>>

(* The error of remove_file is ignored. *)
DrenaRemove ==
  /\ dreno = "remove"
  /\ \/ working' = Nada /\ UNCHANGED falhas
     \/ UNCHANGED working /\ FalhaIO
  /\ DrenoPara
  /\ UNCHANGED <<estado, entregues, pendentes, corrompidos, gravados, reenviados, recusas, quedas, rasgos>>

(* open, read, the quarantine or the write-back fails. *)
DrenaFalha ==
  /\ FalhaIO
  /\ \/ dreno \in {"le", "quarentena"} /\ UNCHANGED <<pendentes, rasgos>>
     \/ /\ dreno = "devolve" /\ lote # <<>> /\ Head(lote).ok
        /\ EscritaCortada(EventoDe(Head(lote)))
  /\ DrenoPara
  /\ UNCHANGED <<estado, entregues, working, corrompidos, gravados, reenviados, recusas, quedas>>

-----------------------------------------------------------------------------
(***************************************************************************)
(* A crash: what was not accepted is published again by the startup        *)
(* recovery of the watcher, and an append in progress may be cut.          *)
(***************************************************************************)
Queda ==
  /\ quedas < MaxQuedas /\ quedas' = quedas + 1
  /\ \/ UNCHANGED <<pendentes, rasgos>>
     \/ tranca \in Eventos /\ EscritaCortada(tranca)
     \/ /\ dreno = "devolve" /\ lote # <<>> /\ Head(lote).ok
        /\ EscritaCortada(EventoDe(Head(lote)))
  /\ estado' = [e \in Eventos |-> IF estado[e] \in {"buffer", "gravando"} THEN "novo" ELSE estado[e]]
  /\ DrenoPara
  /\ UNCHANGED <<entregues, working, corrompidos, gravados, reenviados, recusas, falhas>>

-----------------------------------------------------------------------------
Publicar(e) == PublicaDireto(e) \/ GravaComeca(e) \/ GravaConclui(e)

Drenar ==
  \/ DrenaInicia \/ DrenaLe \/ DrenaIlegivel \/ DrenaQuarentena \/ DrenaPublica
  \/ DrenaDevolve \/ DrenaAcaba \/ DrenaRemove \/ DrenaFalha

Next == (\E e \in Eventos : Publicar(e)) \/ Drenar \/ Queda

Spec == Init /\ [][Next]_vars

(* Tasks run, the mutex of tokio is first come first served, and the supervised drainer
   wakes up every 30 s.  Neither the broker nor the disk is assumed to fail or to work
   beyond the bounds. *)
Justica ==
  /\ \A e \in Eventos : WF_vars(PublicaDireto(e)) /\ SF_vars(GravaComeca(e)) /\ WF_vars(GravaConclui(e))
  /\ SF_vars(DrenaInicia) /\ WF_vars(Drenar /\ dreno # "ocioso")

SpecVivo == Spec /\ Justica

-----------------------------------------------------------------------------
(***************************************************************************)
(* Properties.                                                             *)
(***************************************************************************)
Arquivo == Seq(Linha) \cup {Nada}

LinhasDe(arq) == {Aberto(arq)[i] : i \in DOMAIN Aberto(arq)}
EventosEm(linhas) == UNION {l.evs : l \in linhas}
LegiveisEm(linhas) == UNION {l.evs : l \in {m \in linhas : m.ok}}

(* Every variable holds a value of its kind, and a line that parses is one event's line. *)
TypeOK ==
  /\ estado \in [Eventos -> Estados] /\ entregues \subseteq Eventos
  /\ pendentes \in Arquivo /\ working \in Arquivo /\ corrompidos \subseteq Linha
  /\ tranca \in Eventos \cup {"drenador", Nada} /\ dreno \in FasesDreno
  /\ lote \in Seq(Linha) /\ gravados \in Seq(Eventos) /\ reenviados \subseteq Eventos
  /\ recusas \in 0..MaxRecusas /\ falhas \in 0..MaxFalhas
  /\ quedas \in 0..MaxQuedas /\ rasgos \in 0..MaxRasgos
  /\ \A l \in LinhasDe(pendentes) \cup LinhasDe(working) : l.ok => \E e \in Eventos : l.evs = {e}

aceitos == {e \in Eventos : estado[e] = "aceito"}

(* No byte of an accepted event is thrown away before the broker has the event, through any
   crash, failed write, cut line or aborted drain; at worst it sits in the quarantine file. *)
NadaSePerde ==
  aceitos \subseteq entregues \cup
    EventosEm(LinhasDe(pendentes) \cup LinhasDe(working) \cup corrompidos)

(* An append that is cut within a line costs at most one accepted event, although the next append
   continues that line and the drainer itself may be cut while it writes back: but for one event
   a cut, what publicar() accepted is delivered or can still be read back from the buffer. *)
RasgoCustaUm ==
  Cardinality(aceitos \ (entregues \cup LegiveisEm(LinhasDe(pendentes) \cup LinhasDe(working)))) <= rasgos

(* Without crashes and disk failures, the drainer sends events in the order in which they were
   buffered, however many times the broker refuses one (README: drained in order). *)
OrdemPreservada ==
  quedas = 0 /\ falhas = 0 =>
    \A i, j \in DOMAIN gravados :
      i < j /\ gravados[j] \in reenviados => gravados[i] \in reenviados

(* The buffer implements what the watcher relies on: what is kept is what can be read back. *)
E == INSTANCE Entrega
       WITH guardados <- LegiveisEm(LinhasDe(pendentes) \cup LinhasDe(working))

ImplementaEntrega == E!EntregaSegura

(* Every event that publicar() accepted reaches the broker. *)
TodoAceitoChega == E!TodoAceitoEntregue
=============================================================================
