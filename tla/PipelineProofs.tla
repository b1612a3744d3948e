---------------------------- MODULE PipelineProofs ----------------------------
(***************************************************************************)
(* Proofs about watchers and consumers together: the consumer does to the  *)
(* staging folder only what Watcher assumes of it, and no document is lost *)
(* between the landing zone and the table of hashes.                       *)
(***************************************************************************)
EXTENDS Pipeline, CapturaProofs

(* The variables of the consumer; a task that runs has a message. *)
Entrega == [fase : C!Fases, msg : Mensagens \cup {Nada}, duplicata : BOOLEAN]

TipoConsumidor ==
  /\ msg \in [Mensagens -> Processos \cup {"ausente", "fila", "confirmada"}]
  /\ entrega \in [C!Tarefas -> Entrega]
  /\ \A t \in C!Tarefas : entrega[t].fase # "livre" => entrega[t].msg \in Mensagens
  /\ processado \in [Nomes -> Docs \cup {Nada}]

N(t) == entrega[t].msg.nome
H(t) == entrega[t].msg.hash

LEMMA MensagemDaEntrega ==
  ASSUME TipoConsumidor, NEW t \in C!Tarefas, entrega[t].fase # "livre"
  PROVE  /\ entrega[t].msg \in Mensagens /\ N(t) \in Nomes /\ H(t) \in Docs
         /\ C!Nome(t) = N(t) /\ C!Hash(t) = H(t)
<1>1. entrega[t].msg \in Mensagens
  BY DEF TipoConsumidor
<1>2. N(t) \in Nomes /\ H(t) \in Docs
  BY <1>1 DEF Mensagens, N, H
<1>3. C!Nome(t) = N(t) /\ C!Hash(t) = H(t)
  BY <1>1 DEF C!Nome, C!Hash, N, H
<1> QED
  BY <1>1, <1>2, <1>3

(* A task changes only its own record, and keeps its message while it runs. *)
LEMMA EntregaNoPasso ==
  ASSUME TipoConsumidor, NEW t \in C!Tarefas, C!PassoTarefa(t)
  PROVE  /\ entrega[t].fase # "livre"
         /\ \A u \in C!Tarefas : u # t => entrega'[u] = entrega[u]
         /\ \/ entrega'[t] = C!Livre
            \/ entrega'[t] \in Entrega /\ entrega'[t].msg = entrega[t].msg
         /\ entrega' \in [C!Tarefas -> Entrega]
<1>0. entrega[t] \in Entrega
  BY DEF TipoConsumidor
<1>1. C!Livre \in Entrega
  BY DEF C!Livre, Entrega, C!Fases
<1>2. ASSUME C!Termina(t)
      PROVE  /\ \A u \in C!Tarefas : u # t => entrega'[u] = entrega[u]
             /\ entrega'[t] = C!Livre /\ entrega' \in [C!Tarefas -> Entrega]
  BY <1>1, <1>2 DEF C!Termina, TipoConsumidor
<1>3. ASSUME NEW f \in C!Fases, C!Vai(t, f)
      PROVE  /\ \A u \in C!Tarefas : u # t => entrega'[u] = entrega[u]
             /\ entrega'[t] \in Entrega /\ entrega'[t].msg = entrega[t].msg
             /\ entrega' \in [C!Tarefas -> Entrega]
  BY <1>3 DEF C!Vai, TipoConsumidor, Entrega
<1>4. entrega[t].fase # "livre"
  BY DEF C!PassoTarefa, C!Consulta, C!Verifica, C!VerificaDestino, C!Confere, C!Renomeia, C!Envia,
     C!Registra, C!Confirma, C!ApagaRecibo, C!ApagaOrigem, C!ApagaCopia, C!Devolve, C!Separa,
     C!PublicaDlq, C!ConfirmaDlq, C!SemCanal, C!Em
<1>5. CASE C!Consulta(t)
  <2>1. CASE entrega' = [entrega EXCEPT ![t].fase = "ack", ![t].duplicata = TRUE]
    BY <1>0, <1>4, <2>1 DEF TipoConsumidor, Entrega, C!Fases
  <2>2. CASE C!Vai(t, "verifica") \/ C!Vai(t, "nack")
    BY <1>3, <1>4, <2>2 DEF C!Fases
  <2> QED
    BY <1>5, <2>1, <2>2 DEF C!Consulta
<1>6. CASE C!ApagaCopia(t) \/ C!Devolve(t) \/ C!ConfirmaDlq(t) \/ C!SemCanal(t)
  BY <1>2, <1>4, <1>6 DEF C!ApagaCopia, C!Devolve, C!ConfirmaDlq, C!SemCanal, C!FalhaTarefa
<1>7. CASE C!Verifica(t) \/ C!VerificaDestino(t) \/ C!Confere(t)
  BY <1>3, <1>4, <1>7 DEF C!Verifica, C!VerificaDestino, C!Confere, C!Fases
<1>8. CASE C!Renomeia(t) \/ C!Envia(t) \/ C!Registra(t) \/ C!Confirma(t)
  BY <1>3, <1>4, <1>8 DEF C!Renomeia, C!Envia, C!Registra, C!Confirma, C!Fases
<1>9. CASE C!ApagaRecibo(t) \/ C!ApagaOrigem(t) \/ C!Separa(t)
  BY <1>3, <1>4, <1>9 DEF C!ApagaRecibo, C!ApagaOrigem, C!Separa, C!Fases
<1>10. CASE C!PublicaDlq(t)
  BY <1>2, <1>3, <1>4, <1>10 DEF C!PublicaDlq, C!FalhaTarefa, C!Fases
<1> QED
  BY <1>5, <1>6, <1>7, <1>8, <1>9, <1>10 DEF C!PassoTarefa

-----------------------------------------------------------------------------
(* What a delivery knows.  Every message is about an event the watcher published; a content that was
   compared with the announced hash is still the only one its name can hold; what has left staging,
   and what is recorded, counts as consumed. *)
Anunciada(m) == Evento(m.nome, m.hash) \in fila

EntregaCerta(t) ==
  /\ entrega[t].fase # "livre" => Anunciada(entrega[t].msg)
  /\ entrega[t].fase = "renomeia" => processando[N(t)] \in {H(t), Nada}
  /\ entrega[t].fase \in {"envia", "registra", "ack", "recibo", "origem", "copia"} => H(t) \in consumidos

EntregasCertas == \A t \in C!Tarefas : EntregaCerta(t)
MensagensCertas == \A m \in Mensagens : msg[m] # "ausente" => Anunciada(m)
ConsumidosCertos ==
  /\ registro \subseteq consumidos
  /\ \A n \in Nomes : processado[n] # Nada => processado[n] \in consumidos

InvConsumidor == TipoConsumidor /\ EntregasCertas /\ MensagensCertas /\ ConsumidosCertos

(* The two things a consumer does to the watcher's folders. *)
Retira(n) ==
  /\ processando[n] # Nada /\ processando' = [processando EXCEPT ![n] = Nada]
  /\ recibos' = recibos /\ avisos' = avisos
  /\ consumidos' = consumidos \cup {processando[n]}

SoltaRecibo(n) ==
  /\ recibos' = recibos \ {n} /\ processando' = processando /\ consumidos' = consumidos
  /\ avisos' = IF n \in recibos /\ processando[n] # Nada THEN avisos \cup {n} ELSE avisos

LEMMA VisaoDoWatcher ==
  ASSUME Tipado, PassoConsumidor, NEW n \in Nomes
  PROVE  /\ UNCHANGED <<processando, recibos>> => UNCHANGED <<consumidos, avisos>>
         /\ processando[n] # Nada /\ processando' = [processando EXCEPT ![n] = Nada] /\ recibos' = recibos
              => Retira(n)
         /\ processando[n] = Nada /\ processando' = [processando EXCEPT ![n] = Nada] /\ recibos' = recibos
              => UNCHANGED <<processando, recibos, consumidos, avisos>>
         /\ recibos' = recibos \ {n} /\ processando' = processando => SoltaRecibo(n)
<1> DEFINE sairam == {k \in Nomes : processando'[k] # processando[k]}
           soltos == {k \in recibos \ recibos' : processando[k] # Nada}
<1>1. consumidos' = consumidos \cup {processando[k] : k \in sairam} /\ avisos' = avisos \cup soltos
  BY DEF PassoConsumidor
<1>2. processando \in [Nomes -> Docs \cup {Nada}]
  BY DEF Tipado, TipoPastas
<1>3. processando' = processando => consumidos' = consumidos
  BY <1>1
<1>4. recibos' = recibos => avisos' = avisos
  BY <1>1
<1>5. ASSUME processando[n] # Nada, processando' = [processando EXCEPT ![n] = Nada], recibos' = recibos
      PROVE  Retira(n)
  <2>1. sairam = {n}
    BY <1>2, <1>5
  <2> QED
    BY <1>1, <1>4, <1>5, <2>1 DEF Retira
<1>6. ASSUME recibos' = recibos \ {n}, processando' = processando
      PROVE  SoltaRecibo(n)
  <2>1. soltos = IF n \in recibos /\ processando[n] # Nada THEN {n} ELSE {}
    BY <1>6
  <2> QED
    BY <1>1, <1>3, <1>6, <2>1 DEF SoltaRecibo
<1>7. processando[n] = Nada /\ processando' = [processando EXCEPT ![n] = Nada] => processando' = processando
  BY <1>2
<1> QED
  BY <1>3, <1>4, <1>5, <1>6, <1>7

LEMMA EfeitoNoWatcher ==
  ASSUME Tipado, TipoConsumidor, PassoConsumidor
  PROVE  \/ UNCHANGED <<processando, recibos, consumidos, avisos>>
         \/ \E t \in C!Tarefas : entrega[t].fase \in {"renomeia", "separa", "origem"} /\ Retira(N(t))
         \/ \E t \in C!Tarefas : entrega[t].fase = "recibo" /\ SoltaRecibo(N(t))
<1>1. C!Next
  BY DEF PassoConsumidor
<1>2. CASE UNCHANGED <<processando, recibos>>
  <2>1. CASE Nomes = {}
    <3>1. recibos = {} /\ consumidos' = consumidos
      BY <2>1 DEF PassoConsumidor, Tipado, TipoPastas
    <3> QED
      BY <1>2, <2>1, <3>1 DEF PassoConsumidor
  <2>2. CASE Nomes # {}
    BY <1>2, <2>2, VisaoDoWatcher
  <2> QED
    BY <2>1, <2>2
<1>3. ASSUME NEW t \in C!Tarefas, C!Renomeia(t) \/ C!Separa(t) \/ C!ApagaOrigem(t)
      PROVE  \/ UNCHANGED <<processando, recibos, consumidos, avisos>>
             \/ entrega[t].fase \in {"renomeia", "separa", "origem"} /\ Retira(N(t))
  <2>1. entrega[t].fase \in {"renomeia", "separa", "origem"} /\ N(t) \in Nomes /\ C!Nome(t) = N(t)
    BY <1>3, MensagemDaEntrega DEF C!Renomeia, C!Separa, C!ApagaOrigem, C!Em
  <2>2. recibos' = recibos
    BY <1>3 DEF C!Renomeia, C!Separa, C!ApagaOrigem
  <2>3. processando' = processando \/ processando' = [processando EXCEPT ![N(t)] = Nada]
    BY <1>3, <2>1 DEF C!Renomeia, C!Separa, C!ApagaOrigem
  <2> QED
    BY <1>2, <2>1, <2>2, <2>3, VisaoDoWatcher
<1>4. ASSUME NEW t \in C!Tarefas, C!ApagaRecibo(t)
      PROVE  \/ UNCHANGED <<processando, recibos, consumidos, avisos>>
             \/ entrega[t].fase = "recibo" /\ SoltaRecibo(N(t))
  <2>1. entrega[t].fase = "recibo" /\ N(t) \in Nomes /\ C!Nome(t) = N(t)
    BY <1>4, MensagemDaEntrega DEF C!ApagaRecibo, C!Em
  <2>2. processando' = processando /\ (recibos' = recibos \/ recibos' = recibos \ {N(t)})
    BY <1>4, <2>1 DEF C!ApagaRecibo
  <2> QED
    BY <1>2, <2>1, <2>2, VisaoDoWatcher
<1>5. CASE \/ \E p \in Processos : C!CanalCai(p) \/ C!SessaoCai(p) \/ C!Encerra(p)
           \/ \E t \in C!Tarefas, m \in Mensagens : C!Recebe(t, m)
  BY <1>2, <1>5 DEF C!CanalCai, C!SessaoCai, C!Encerra, C!Recebe, C!pastas
<1>6. ASSUME NEW t \in C!Tarefas,
             \/ C!Consulta(t) \/ C!Verifica(t) \/ C!VerificaDestino(t) \/ C!Confere(t) \/ C!Envia(t)
             \/ C!Registra(t) \/ C!Confirma(t) \/ C!ApagaCopia(t) \/ C!Devolve(t) \/ C!PublicaDlq(t)
             \/ C!ConfirmaDlq(t) \/ C!SemCanal(t)
      PROVE  UNCHANGED <<processando, recibos>>
  BY <1>6 DEF C!Consulta, C!Verifica, C!VerificaDestino, C!Confere, C!Envia, C!Registra, C!Confirma,
     C!ApagaCopia, C!Devolve, C!PublicaDlq, C!ConfirmaDlq, C!SemCanal, C!pastas
<1> QED
  BY <1>1, <1>2, <1>3, <1>4, <1>5, <1>6 DEF C!Next, C!PassoTarefa

(* Each step of a consumer is one that Watcher lets the consumer take. *)
LEMMA PassoConsumidorImplementa ==
  ASSUME Tipado, InvConsumidor, PassoConsumidor
  PROVE  [Next]_vars
<1> USE DEF InvConsumidor
<1>1. UNCHANGED <<entrada, escritos, fora, relogio, publicacao, fase, recup, memoria, tarefa, movidos,
                  falhas, quedas>>
  BY DEF PassoConsumidor
<1>2. CASE UNCHANGED <<processando, recibos, consumidos, avisos>>
  BY <1>1, <1>2 DEF vars, publicacao, memoria
<1>3. ASSUME NEW t \in C!Tarefas, entrega[t].fase # "livre"
      PROVE  \E e \in fila : e = Evento(N(t), H(t))
  BY <1>3 DEF EntregasCertas, EntregaCerta, Anunciada, N, H
<1>4. ASSUME NEW t \in C!Tarefas, entrega[t].fase \in {"renomeia", "separa", "origem"}, Retira(N(t))
      PROVE  Next
  <2>1. PICK e \in fila : e = Evento(N(t), H(t))
    BY <1>3, <1>4
  <2>2. e.nome = N(t)
    BY <2>1 DEF Evento
  <2>3. ConsumidorRetira(e)
    BY <1>1, <1>4, <2>2 DEF ConsumidorRetira, Retira
  <2> QED
    BY <2>3 DEF Next
<1>5. ASSUME NEW t \in C!Tarefas, entrega[t].fase = "recibo", SoltaRecibo(N(t))
      PROVE  [Next]_vars
  <2>1. PICK e \in fila : e = Evento(N(t), H(t))
    BY <1>3, <1>5
  <2>2. e.nome = N(t) /\ e.hash = H(t)
    BY <2>1 DEF Evento
  <2>3. e.hash \in consumidos
    BY <1>5, <2>2 DEF EntregasCertas, EntregaCerta
  <2>4. CASE N(t) \in recibos
    <3>1. ConsumidorConfirma(e)
      BY <1>1, <1>5, <2>2, <2>3, <2>4 DEF ConsumidorConfirma, SoltaRecibo, publicacao
    <3> QED
      BY <3>1 DEF Next
  <2>5. CASE N(t) \notin recibos
    BY <1>2, <1>5, <2>5 DEF SoltaRecibo
  <2> QED
    BY <2>4, <2>5
<1> QED
  BY <1>2, <1>4, <1>5, EfeitoNoWatcher

-----------------------------------------------------------------------------
(* A delivery that takes no step keeps its knowledge. *)
LEMMA EntregaParada ==
  ASSUME Tipado, NomesUsados, TipoConsumidor, [Next]_vars, fila \subseteq fila', consumidos \subseteq consumidos',
         NEW t \in C!Tarefas, EntregaCerta(t), entrega'[t] = entrega[t]
  PROVE  EntregaCerta(t)'
<1>1. entrega[t].fase # "livre" => Anunciada(entrega[t].msg)'
  BY DEF EntregaCerta, Anunciada, Evento
<1>2. entrega[t].fase = "renomeia" => processando'[N(t)] \in {H(t), Nada}
  <2> SUFFICES ASSUME entrega[t].fase = "renomeia" PROVE processando'[N(t)] \in {H(t), Nada}
    OBVIOUS
  <2>1. N(t) \in Nomes
    BY MensagemDaEntrega
  <2>2. Usado(N(t))
    BY DEF EntregaCerta, Anunciada, NomesUsados, Evento, N
  <2> QED
    BY <2>1, <2>2, ConteudoSoSai DEF EntregaCerta
<1>3. N(t)' = N(t) /\ H(t)' = H(t)
  BY DEF N, H
<1> QED
  BY <1>1, <1>2, <1>3 DEF EntregaCerta

LEMMA InvConsumidorNoWatcher ==
  ASSUME Tipado, NomesUsados, InvConsumidor, NextSemConsumidor \/ UNCHANGED vars, UNCHANGED soConsumidor
  PROVE  InvConsumidor'
<1> USE DEF InvConsumidor, soConsumidor
<1>1. fila \subseteq fila' /\ consumidos' = consumidos
  BY WatcherSoAcrescenta DEF vars
<1>2. [Next]_vars
  BY DEF Next
<1>3. TipoConsumidor'
  BY DEF TipoConsumidor
<1>4. EntregasCertas'
  BY <1>1, <1>2, EntregaParada DEF EntregasCertas
<1>5. MensagensCertas' /\ ConsumidosCertos'
  BY <1>1 DEF MensagensCertas, ConsumidosCertos, Anunciada, Evento
<1> QED
  BY <1>3, <1>4, <1>5

LEMMA InvConsumidorNaChegada ==
  ASSUME Tipado, InvConsumidor, NEW e \in fila, Chega(e)
  PROVE  InvConsumidor'
<1> USE DEF InvConsumidor
<1>1. PICK k \in 1..MaxCopias :
        msg' = [msg EXCEPT ![[nome |-> e.nome, hash |-> e.hash, copia |-> k]] = "fila"]
  BY DEF Chega
<1>2. UNCHANGED <<fila, consumidos, processando, entrega, processado, registro>>
  BY DEF Chega, vars
<1>3. e \in [nome : Nomes, hash : Docs] /\ e = Evento(e.nome, e.hash)
  BY DEF Tipado, TipoPublicacao, Evento
<1>4. MensagensCertas'
  BY <1>1, <1>2, <1>3 DEF MensagensCertas, TipoConsumidor, Anunciada
<1>5. TipoConsumidor' /\ EntregasCertas' /\ ConsumidosCertos'
  BY <1>1, <1>2 DEF TipoConsumidor, EntregasCertas, EntregaCerta, Anunciada, Evento, N, H, ConsumidosCertos
<1> QED
  BY <1>4, <1>5

(* What the step of a delivery leaves of its own facts. *)
LEMMA EntregaDoPasso ==
  ASSUME Tipado, InvConsumidor, PassoConsumidor, NEW t \in C!Tarefas, C!PassoTarefa(t)
  PROVE  EntregaCerta(t)'
<1> USE DEF InvConsumidor
<1>1. /\ entrega[t].fase # "livre" /\ entrega[t].msg \in Mensagens
      /\ N(t) \in Nomes /\ H(t) \in Docs /\ C!Nome(t) = N(t) /\ C!Hash(t) = H(t)
  BY EntregaNoPasso, MensagemDaEntrega
<1>2. /\ EntregaCerta(t) /\ fila' = fila /\ consumidos \subseteq consumidos'
      /\ \A n \in Nomes : processando'[n] # processando[n] => processando[n] \in consumidos'
  BY DEF EntregasCertas, PassoConsumidor, publicacao
<1>3. CASE entrega'[t] = C!Livre
  BY <1>3 DEF EntregaCerta, C!Livre
<1>4. ASSUME entrega'[t].msg = entrega[t].msg,
             entrega'[t].fase = "renomeia" => processando'[N(t)] \in {H(t), Nada},
             entrega'[t].fase \in {"envia", "registra", "ack", "recibo", "origem", "copia"} => H(t) \in consumidos'
      PROVE  EntregaCerta(t)'
  BY <1>1, <1>2, <1>4 DEF EntregaCerta, Anunciada, N, H
<1>5. entrega'[t] = C!Livre \/ entrega'[t].msg = entrega[t].msg
  BY EntregaNoPasso
<1>6. entrega[t] \in Entrega
  BY DEF TipoConsumidor
<1> USE DEF C!Em, C!Vai, Entrega, TipoConsumidor
<1>7. CASE C!Consulta(t)
  <2>1. /\ entrega'[t].fase \in {"ack", "verifica", "nack"}
        /\ entrega'[t].fase = "ack" => H(t) \in registro
    BY <1>1, <1>6, <1>7 DEF C!Consulta
  <2> QED
    BY <1>2, <1>3, <1>4, <1>5, <2>1 DEF ConsumidosCertos
<1>8. CASE C!Verifica(t) \/ C!Separa(t)
  <2>1. entrega'[t].fase \in {"confere", "destino", "nack", "dlq"}
    BY <1>1, <1>6, <1>8 DEF C!Verifica, C!Separa
  <2> QED
    BY <1>3, <1>4, <1>5, <2>1
<1>9. CASE C!VerificaDestino(t)
  <2>1. /\ entrega'[t].fase \in {"envia", "nack"}
        /\ entrega'[t].fase = "envia" => processado[N(t)] = H(t)
    BY <1>1, <1>6, <1>9 DEF C!VerificaDestino
  <2> QED
    BY <1>1, <1>2, <1>3, <1>4, <1>5, <2>1, NadaAssumption DEF ConsumidosCertos
<1>10. CASE C!Confere(t)
  <2>1. /\ entrega'[t].fase \in {"renomeia", "separa", "nack"} /\ processando' = processando
        /\ entrega'[t].fase = "renomeia" => processando[N(t)] = H(t)
    BY <1>1, <1>6, <1>10 DEF C!Confere, C!pastas
  <2> QED
    BY <1>3, <1>4, <1>5, <2>1
<1>11. CASE C!Renomeia(t)
  <2>1. /\ entrega'[t].fase \in {"envia", "nack"} /\ entrega[t].fase = "renomeia"
        /\ entrega'[t].fase = "envia" => processando[N(t)] # Nada /\ processando'[N(t)] = Nada
    BY <1>1, <1>6, <1>11 DEF C!Renomeia, Tipado, TipoPastas
  <2> QED
    BY <1>1, <1>2, <1>3, <1>4, <1>5, <2>1 DEF EntregaCerta
<1>12. CASE C!Envia(t) \/ C!Registra(t) \/ C!Confirma(t) \/ C!ApagaRecibo(t) \/ C!ApagaOrigem(t) \/ C!ApagaCopia(t)
  <2>1. entrega[t].fase \in {"envia", "registra", "ack", "recibo", "origem", "copia"}
    BY <1>12 DEF C!Envia, C!Registra, C!Confirma, C!ApagaRecibo, C!ApagaOrigem, C!ApagaCopia
  <2>2. entrega'[t].fase # "renomeia"
    BY <1>1, <1>6, <1>12 DEF C!Envia, C!Registra, C!Confirma, C!ApagaRecibo, C!ApagaOrigem, C!ApagaCopia,
       C!Termina, C!Livre
  <2> QED
    BY <1>2, <1>3, <1>4, <1>5, <2>1, <2>2 DEF EntregaCerta
<1>13. CASE C!Devolve(t) \/ C!PublicaDlq(t) \/ C!ConfirmaDlq(t) \/ C!SemCanal(t)
  <2>1. entrega'[t] = C!Livre \/ entrega'[t].fase = "ackDlq"
    BY <1>1, <1>6, <1>13 DEF C!Devolve, C!PublicaDlq, C!ConfirmaDlq, C!SemCanal, C!FalhaTarefa, C!Termina
  <2> QED
    BY <1>3, <1>4, <1>5, <2>1
<1> QED
  BY <1>7, <1>8, <1>9, <1>10, <1>11, <1>12, <1>13 DEF C!PassoTarefa

(* The deliveries that a step of another one, or of the process, leaves. *)
LEMMA ProcessoNoPasso ==
  ASSUME TipoConsumidor, NEW p \in Processos, C!CanalCai(p) \/ C!SessaoCai(p) \/ C!Encerra(p)
  PROVE  /\ msg' = msg \/ msg' = C!Devolvidas(p)
         /\ \A t \in C!Tarefas : entrega'[t] = entrega[t] \/ entrega'[t] = C!Livre
         /\ entrega' \in [C!Tarefas -> Entrega]
         /\ UNCHANGED <<processando, processado, separados, recibos, objetos, registro>>
<1>1. C!Livre \in Entrega
  BY DEF C!Livre, Entrega, C!Fases
<1>2. CASE C!CanalCai(p) \/ C!SessaoCai(p)
  BY <1>2 DEF C!CanalCai, C!SessaoCai, C!pastas, TipoConsumidor
<1>3. CASE C!Encerra(p)
  BY <1>1, <1>3 DEF C!Encerra, C!pastas, TipoConsumidor
<1> QED
  BY <1>2, <1>3

LEMMA RecebeNoPasso ==
  ASSUME TipoConsumidor, NEW t \in C!Tarefas, NEW m \in Mensagens, C!Recebe(t, m)
  PROVE  /\ msg[m] = "fila" /\ msg' = [msg EXCEPT ![m] = C!ProcessoDe(t)]
         /\ entrega'[t] = [fase |-> "consulta", msg |-> m, duplicata |-> FALSE]
         /\ \A u \in C!Tarefas : u # t => entrega'[u] = entrega[u]
         /\ entrega' \in [C!Tarefas -> Entrega]
         /\ UNCHANGED <<processando, processado, separados, recibos, objetos, registro>>
<1>1. [fase |-> "consulta", msg |-> m, duplicata |-> FALSE] \in Entrega
  BY DEF Entrega, C!Fases
<1>2. entrega' = [entrega EXCEPT ![t] = [fase |-> "consulta", msg |-> m, duplicata |-> FALSE]]
  BY DEF C!Recebe
<1> QED
  BY <1>1, <1>2 DEF C!Recebe, C!pastas, TipoConsumidor

(* What a step of a delivery does to its message, to the copies in processado/ and to the table. *)
LEMMA TarefaNoPasso ==
  ASSUME Tipado, TipoConsumidor, NEW t \in C!Tarefas, C!PassoTarefa(t)
  PROVE  /\ msg' = msg \/ \E s \in {"confirmada", "fila"} : msg' = [msg EXCEPT ![entrega[t].msg] = s]
         /\ \/ processado' = processado
            \/ /\ processado' = [processado EXCEPT ![N(t)] = processando[N(t)]]
               /\ processando'[N(t)] # processando[N(t)]
            \/ processado' = [processado EXCEPT ![N(t)] = Nada]
         /\ registro' = registro \/ (entrega[t].fase = "registra" /\ registro' = registro \cup {H(t)})
<1>1. C!Nome(t) = N(t) /\ C!Hash(t) = H(t) /\ N(t) \in Nomes
  BY EntregaNoPasso, MensagemDaEntrega
<1>2. CASE C!Renomeia(t)
  <2>1. CASE processando[N(t)] # Nada /\ processando' = [processando EXCEPT ![N(t)] = Nada]
    BY <1>1, <1>2, <2>1 DEF C!Renomeia, Tipado, TipoPastas
  <2>2. CASE UNCHANGED <<processando, processado>>
    BY <1>2, <2>2 DEF C!Renomeia
  <2> QED
    BY <1>1, <1>2, <2>1, <2>2 DEF C!Renomeia
<1>3. CASE C!Registra(t)
  BY <1>1, <1>3 DEF C!Registra, C!pastas, C!Em
<1>4. CASE C!ApagaCopia(t) \/ C!Confirma(t) \/ C!Devolve(t) \/ C!ConfirmaDlq(t)
  BY <1>1, <1>4 DEF C!ApagaCopia, C!Confirma, C!Devolve, C!ConfirmaDlq, C!pastas
<1>5. CASE C!Consulta(t) \/ C!Verifica(t) \/ C!VerificaDestino(t) \/ C!Confere(t) \/ C!Envia(t)
  BY <1>5 DEF C!Consulta, C!Verifica, C!VerificaDestino, C!Confere, C!Envia, C!pastas
<1>6. CASE C!ApagaRecibo(t) \/ C!ApagaOrigem(t) \/ C!Separa(t) \/ C!PublicaDlq(t) \/ C!SemCanal(t)
  BY <1>6 DEF C!ApagaRecibo, C!ApagaOrigem, C!Separa, C!PublicaDlq, C!SemCanal, C!pastas
<1> QED
  BY <1>2, <1>3, <1>4, <1>5, <1>6 DEF C!PassoTarefa

LEMMA InvConsumidorNoConsumidor ==
  ASSUME Tipado, NomesUsados, InvConsumidor, PassoConsumidor
  PROVE  InvConsumidor'
<1> USE DEF InvConsumidor
<1>1. /\ fila' = fila /\ consumidos \subseteq consumidos'
      /\ \A n \in Nomes : processando'[n] # processando[n] => processando[n] \in consumidos'
  BY DEF PassoConsumidor, publicacao
<1>2. [Next]_vars
  BY PassoConsumidorImplementa
<1>3. ASSUME NEW t \in C!Tarefas, entrega'[t] = entrega[t] PROVE EntregaCerta(t)'
  BY <1>1, <1>2, <1>3, EntregaParada DEF EntregasCertas
<1>4. ASSUME NEW t \in C!Tarefas, entrega'[t] = C!Livre PROVE EntregaCerta(t)'
  BY <1>4 DEF EntregaCerta, C!Livre
<1>5. ASSUME \A m \in Mensagens : msg'[m] # "ausente" => msg[m] # "ausente" PROVE MensagensCertas'
  BY <1>1, <1>5 DEF MensagensCertas, Anunciada
<1>6. ASSUME processado' = processado, registro' = registro PROVE ConsumidosCertos'
  BY <1>1, <1>6 DEF ConsumidosCertos
<1>7. ASSUME NEW p \in Processos, C!CanalCai(p) \/ C!SessaoCai(p) \/ C!Encerra(p) PROVE InvConsumidor'
  <2>1. /\ msg' = msg \/ msg' = C!Devolvidas(p)
        /\ \A t \in C!Tarefas : entrega'[t] = entrega[t] \/ entrega'[t] = C!Livre
        /\ entrega' \in [C!Tarefas -> Entrega]
        /\ processado' = processado /\ registro' = registro
    BY <1>7, ProcessoNoPasso
  <2>2. p # "ausente"
    BY ProcessosAssumption
  <2>3. /\ msg' \in [Mensagens -> Processos \cup {"ausente", "fila", "confirmada"}]
        /\ \A m \in Mensagens : msg'[m] # "ausente" => msg[m] # "ausente"
    BY <2>1, <2>2 DEF TipoConsumidor, C!Devolvidas
  <2>4. TipoConsumidor'
    BY <2>1, <2>3 DEF TipoConsumidor, C!Livre
  <2>5. EntregasCertas'
    BY <1>3, <1>4, <2>1 DEF EntregasCertas
  <2> QED
    BY <1>5, <1>6, <2>1, <2>3, <2>4, <2>5
<1>8. ASSUME NEW t \in C!Tarefas, NEW m \in Mensagens, C!Recebe(t, m) PROVE InvConsumidor'
  <2>1. /\ msg[m] = "fila" /\ msg' = [msg EXCEPT ![m] = C!ProcessoDe(t)]
        /\ entrega'[t] = [fase |-> "consulta", msg |-> m, duplicata |-> FALSE]
        /\ \A u \in C!Tarefas : u # t => entrega'[u] = entrega[u]
        /\ entrega' \in [C!Tarefas -> Entrega]
        /\ processado' = processado /\ registro' = registro
    BY <1>8, RecebeNoPasso
  <2>2. C!ProcessoDe(t) \in Processos
    BY DEF C!Tarefas, C!ProcessoDe
  <2>3. TipoConsumidor'
    BY <2>1, <2>2 DEF TipoConsumidor
  <2>4. EntregaCerta(t)'
    BY <1>1, <2>1 DEF EntregaCerta, MensagensCertas, Anunciada
  <2>5. EntregasCertas'
    BY <1>3, <2>1, <2>4 DEF EntregasCertas
  <2>6. MensagensCertas'
    BY <1>5, <2>1 DEF TipoConsumidor
  <2> QED
    BY <1>6, <2>1, <2>3, <2>5, <2>6
<1>9. ASSUME NEW t \in C!Tarefas, C!PassoTarefa(t) PROVE InvConsumidor'
  <2>1. /\ entrega[t].fase # "livre" /\ entrega[t].msg \in Mensagens
        /\ \A u \in C!Tarefas : u # t => entrega'[u] = entrega[u]
        /\ entrega'[t] = C!Livre \/ entrega'[t].msg = entrega[t].msg
        /\ entrega' \in [C!Tarefas -> Entrega] /\ N(t) \in Nomes
    BY <1>9, EntregaNoPasso, MensagemDaEntrega
  <2>2. msg' = msg \/ \E s \in {"confirmada", "fila"} : msg' = [msg EXCEPT ![entrega[t].msg] = s]
    BY <1>9, TarefaNoPasso
  <2>3. \/ processado' = processado
        \/ processado' = [processado EXCEPT ![N(t)] = processando[N(t)]] /\ processando'[N(t)] # processando[N(t)]
        \/ processado' = [processado EXCEPT ![N(t)] = Nada]
    BY <1>9, TarefaNoPasso
  <2>4. registro' = registro \/ (entrega[t].fase = "registra" /\ registro' = registro \cup {H(t)})
    BY <1>9, TarefaNoPasso
  <2>5. msg[entrega[t].msg] # "ausente" => MensagensCertas'
    BY <1>5, <2>1, <2>2 DEF TipoConsumidor
  <2>6. MensagensCertas'
    BY <1>1, <2>1, <2>2 DEF TipoConsumidor, MensagensCertas, EntregasCertas, EntregaCerta, Anunciada
  <2>7. processando \in [Nomes -> Docs \cup {Nada}]
    BY DEF Tipado, TipoPastas
  <2>8. /\ msg' \in [Mensagens -> Processos \cup {"ausente", "fila", "confirmada"}]
        /\ processado' \in [Nomes -> Docs \cup {Nada}]
    BY <2>1, <2>2, <2>3, <2>7 DEF TipoConsumidor
  <2>9. \A u \in C!Tarefas : entrega'[u].fase # "livre" => entrega'[u].msg \in Mensagens
    BY <2>1 DEF TipoConsumidor, C!Livre
  <2>10. TipoConsumidor'
    BY <2>1, <2>8, <2>9 DEF TipoConsumidor
  <2>11. EntregasCertas'
    BY <1>3, <1>9, <2>1, EntregaDoPasso DEF EntregasCertas
  <2>12. registro' \subseteq consumidos'
    BY <1>1, <2>4 DEF ConsumidosCertos, EntregasCertas, EntregaCerta
  <2>13. \A n \in Nomes : processado'[n] # Nada => processado'[n] \in consumidos'
    BY <1>1, <2>1, <2>3 DEF ConsumidosCertos, TipoConsumidor
  <2> QED
    BY <2>6, <2>10, <2>11, <2>12, <2>13 DEF ConsumidosCertos
<1> QED
  BY <1>7, <1>8, <1>9 DEF PassoConsumidor, C!Next

-----------------------------------------------------------------------------
(* The composition. *)
LEMMA InvConsumidorInicial == InitPipeline => InvConsumidor
<1> SUFFICES ASSUME InitPipeline PROVE InvConsumidor
  OBVIOUS
<1>1. C!Livre \in Entrega /\ C!Livre.fase = "livre"
  BY DEF C!Livre, Entrega, C!Fases
<1>2. TipoConsumidor
  BY <1>1 DEF InitPipeline, TipoConsumidor
<1>3. EntregasCertas
  BY <1>1 DEF InitPipeline, EntregasCertas, EntregaCerta
<1> QED
  BY <1>2, <1>3 DEF InitPipeline, InvConsumidor, MensagensCertas, ConsumidosCertos

LEMMA PassoImplementa ==
  ASSUME Base, NomesUsados, InvConsumidor, [NextPipeline]_varsPipeline
  PROVE  [Next]_vars /\ Base' /\ NomesUsados' /\ InvConsumidor'
<1>1. CASE PassoWatcher
  <2>1. Next
    BY <1>1 DEF PassoWatcher, Next
  <2>2. InvConsumidor'
    BY <1>1, InvConsumidorNoWatcher DEF PassoWatcher, Base
  <2> QED
    BY <2>1, <2>2, BasePreservada, NomesUsadosPreservados
<1>2. CASE PassoConsumidor
  BY <1>2, PassoConsumidorImplementa, InvConsumidorNoConsumidor, BasePreservada, NomesUsadosPreservados DEF Base
<1>3. CASE \E e \in fila : Chega(e)
  <2>1. UNCHANGED vars
    BY <1>3 DEF Chega
  <2>2. InvConsumidor'
    BY <1>3, InvConsumidorNaChegada DEF Base
  <2> QED
    BY <2>1, <2>2, BasePreservada, NomesUsadosPreservados
<1>4. CASE UNCHANGED varsPipeline
  <2>1. UNCHANGED vars /\ UNCHANGED soConsumidor
    BY <1>4 DEF varsPipeline
  <2>2. InvConsumidor'
    BY <2>1, InvConsumidorNoWatcher DEF Base
  <2> QED
    BY <2>1, <2>2, BasePreservada, NomesUsadosPreservados
<1> QED
  BY <1>1, <1>2, <1>3, <1>4 DEF NextPipeline

LEMMA InvariantePipeline == SpecPipeline => [](Base /\ NomesUsados /\ InvConsumidor)
<1>1. InitPipeline => Base /\ NomesUsados /\ InvConsumidor
  BY BaseInicial, NomesUsadosIniciais, InvConsumidorInicial DEF InitPipeline
<1> QED
  BY <1>1, PassoImplementa, PTL DEF SpecPipeline

(* The consumers, with any number of processes, permits, messages, failures, lost channels and lost
   sessions, do to staging and receipts only what Watcher lets its consumer do (consumer.rs). *)
THEOREM ImplementaWatcherSempre == SpecPipeline => ImplementaWatcher
<1>1. InitPipeline => Init
  BY DEF InitPipeline
<1>2. Base /\ NomesUsados /\ InvConsumidor /\ [NextPipeline]_varsPipeline => [Next]_vars
  BY PassoImplementa
<1> QED
  BY <1>1, <1>2, InvariantePipeline, PTL DEF SpecPipeline, ImplementaWatcher, Spec

(* So what was proved of the watcher against its own consumer holds against the real one. *)
THEOREM SegurancaDoConjunto ==
  SpecPipeline => [](ClaimsExatos /\ ReciboSoDepoisDeAceito /\ OrfaoTemTratador)
BY ImplementaWatcherSempre, TeoClaimsExatos, TeoReciboSoDepoisDeAceito, TeoOrfaoTemTratador, PTL
   DEF ImplementaWatcher

-----------------------------------------------------------------------------
(* What the table and the queue say, whatever was announced: under one name there is one file, in
   staging or in processado/, and once it has left staging the name is never filled again; so what a
   delivery compared with its hash is what it uploads. *)
CopiaUnica == \A n \in Nomes : processado[n] # Nada => processando[n] = Nada /\ Usado(n)

Certeza(t) ==
  /\ entrega[t].fase = "envia" => processando[N(t)] = Nada /\ processado[N(t)] \in {H(t), Nada}
  /\ entrega[t].fase = "registra" => <<H(t), H(t)>> \in objetos
  /\ entrega[t].fase \in {"ack", "recibo", "origem", "copia"} => H(t) \in registro
  /\ entrega[t].fase = "ackDlq" => entrega[t].msg \in dlq

Certezas == \A t \in C!Tarefas : Certeza(t)

InvGuarda == CopiaUnica /\ Certezas /\ C!BancoNaoMente /\ C!ConfirmadaSoDepois

(* Where the step of a delivery puts what it takes. *)
LEMMA EfeitoDaEntrega ==
  ASSUME Tipado, TipoConsumidor, NEW t \in C!Tarefas, C!PassoTarefa(t)
  PROVE  /\ separados \subseteq separados' /\ objetos \subseteq objetos' /\ registro \subseteq registro'
         /\ \A n \in Nomes : processando[n] # Nada /\ processando'[n] # processando[n] =>
              /\ n = N(t)
              /\ \/ processado'[n] = processando[n]
                 \/ <<n, processando[n]>> \in separados'
                 \/ entrega[t].fase = "origem"
         /\ \A n \in Nomes : processado[n] # Nada /\ processado'[n] # processado[n] =>
              n = N(t) /\ (entrega[t].fase = "copia" \/ processando[n] # Nada)
<1>1. C!Nome(t) = N(t) /\ C!Hash(t) = H(t) /\ N(t) \in Nomes
  BY EntregaNoPasso, MensagemDaEntrega
<1>2. processando \in [Nomes -> Docs \cup {Nada}] /\ processado \in [Nomes -> Docs \cup {Nada}]
  BY DEF Tipado, TipoPastas, TipoConsumidor
<1>3. CASE C!Renomeia(t)
  <2>1. UNCHANGED <<separados, objetos, registro>>
    BY <1>3 DEF C!Renomeia
  <2>2. CASE UNCHANGED <<processando, processado>>
    BY <2>1, <2>2
  <2>3. CASE /\ processando[N(t)] # Nada
             /\ processado' = [processado EXCEPT ![N(t)] = processando[N(t)]]
             /\ processando' = [processando EXCEPT ![N(t)] = Nada]
    BY <1>1, <1>2, <2>1, <2>3
  <2> QED
    BY <1>1, <1>3, <2>2, <2>3 DEF C!Renomeia
<1>4. CASE C!Separa(t)
  <2>1. UNCHANGED <<processado, objetos, registro>>
    BY <1>4 DEF C!Separa
  <2>2. CASE UNCHANGED <<processando, separados>>
    BY <2>1, <2>2
  <2>3. CASE /\ processando' = [processando EXCEPT ![N(t)] = Nada]
             /\ separados' = separados \cup {<<N(t), processando[N(t)]>>}
    BY <1>1, <1>2, <2>1, <2>3
  <2> QED
    BY <1>1, <1>4, <2>2, <2>3 DEF C!Separa
<1>5. CASE C!ApagaOrigem(t) \/ C!ApagaCopia(t)
  BY <1>1, <1>2, <1>5 DEF C!ApagaOrigem, C!ApagaCopia, C!Em
<1>6. CASE C!Envia(t) \/ C!Registra(t)
  BY <1>6 DEF C!Envia, C!Registra, C!pastas
<1>7. CASE C!Consulta(t) \/ C!Verifica(t) \/ C!VerificaDestino(t) \/ C!Confere(t) \/ C!Confirma(t)
  BY <1>7 DEF C!Consulta, C!Verifica, C!VerificaDestino, C!Confere, C!Confirma, C!pastas
<1>8. CASE C!ApagaRecibo(t) \/ C!Devolve(t) \/ C!PublicaDlq(t) \/ C!ConfirmaDlq(t) \/ C!SemCanal(t)
  BY <1>8 DEF C!ApagaRecibo, C!Devolve, C!PublicaDlq, C!ConfirmaDlq, C!SemCanal, C!pastas
<1> QED
  BY <1>3, <1>4, <1>5, <1>6, <1>7, <1>8 DEF C!PassoTarefa

(* What it does to the message, the objects and the DLQ. *)
LEMMA EnvioDaEntrega ==
  ASSUME TipoConsumidor, NEW t \in C!Tarefas, C!PassoTarefa(t)
  PROVE  /\ dlq \subseteq dlq'
         /\ \/ objetos' = objetos
            \/ /\ entrega[t].fase = "envia" /\ processado[N(t)] # Nada
               /\ objetos' = objetos \cup {<<H(t), processado[N(t)]>>}
         /\ \A m \in Mensagens : msg'[m] = "confirmada" /\ msg[m] # "confirmada" =>
              m = entrega[t].msg /\ entrega[t].fase \in {"ack", "ackDlq"}
<1>1. C!Nome(t) = N(t) /\ C!Hash(t) = H(t) /\ entrega[t].msg \in Mensagens
  BY EntregaNoPasso, MensagemDaEntrega
<1>2. CASE C!Envia(t)
  <2>1. dlq' = dlq /\ msg' = msg
    BY <1>2 DEF C!Envia
  <2> QED
    BY <1>1, <1>2, <2>1 DEF C!Envia, C!Em
<1>3. CASE C!Confirma(t) \/ C!ConfirmaDlq(t) \/ C!Devolve(t)
  BY <1>1, <1>3 DEF C!Confirma, C!ConfirmaDlq, C!Devolve, C!Em, TipoConsumidor
<1>4. CASE C!PublicaDlq(t) \/ C!SemCanal(t) \/ C!Separa(t) \/ C!ApagaCopia(t)
  BY <1>4 DEF C!PublicaDlq, C!SemCanal, C!Separa, C!ApagaCopia
<1>5. CASE C!Consulta(t) \/ C!Verifica(t) \/ C!VerificaDestino(t) \/ C!Confere(t)
  BY <1>5 DEF C!Consulta, C!Verifica, C!VerificaDestino, C!Confere
<1>6. CASE C!Renomeia(t) \/ C!Registra(t) \/ C!ApagaRecibo(t) \/ C!ApagaOrigem(t)
  BY <1>6 DEF C!Renomeia, C!Registra, C!ApagaRecibo, C!ApagaOrigem
<1> QED
  BY <1>2, <1>3, <1>4, <1>5, <1>6 DEF C!PassoTarefa

(* A hash is recorded only after what it names was stored. *)
LEMMA CertezaDoPasso ==
  ASSUME Tipado, InvConsumidor, CopiaUnica, NEW t \in C!Tarefas, Certeza(t), C!PassoTarefa(t)
  PROVE  Certeza(t)'
<1>1. /\ entrega[t].fase # "livre" /\ entrega[t].msg \in Mensagens
      /\ N(t) \in Nomes /\ H(t) \in Docs /\ C!Nome(t) = N(t) /\ C!Hash(t) = H(t)
  BY EntregaNoPasso, MensagemDaEntrega DEF InvConsumidor
<1>2. entrega[t] \in Entrega
  BY DEF InvConsumidor, TipoConsumidor
<1>3. CASE entrega'[t] = C!Livre
  BY <1>3 DEF Certeza, C!Livre
<1>4. ASSUME entrega'[t].msg = entrega[t].msg,
             entrega'[t].fase = "envia" => processando'[N(t)] = Nada /\ processado'[N(t)] \in {H(t), Nada},
             entrega'[t].fase = "registra" => <<H(t), H(t)>> \in objetos',
             entrega'[t].fase \in {"ack", "recibo", "origem", "copia"} => H(t) \in registro',
             entrega'[t].fase = "ackDlq" => entrega[t].msg \in dlq'
      PROVE  Certeza(t)'
  BY <1>4 DEF Certeza, N, H
<1>5. entrega'[t] = C!Livre \/ entrega'[t].msg = entrega[t].msg
  BY EntregaNoPasso DEF InvConsumidor
<1>6. processando \in [Nomes -> Docs \cup {Nada}] /\ processado \in [Nomes -> Docs \cup {Nada}] /\ H(t) # Nada
  BY <1>1, NadaAssumption DEF Tipado, TipoPastas, InvConsumidor, TipoConsumidor
<1>7. registro \subseteq registro' /\ dlq \subseteq dlq'
  BY EfeitoDaEntrega, EnvioDaEntrega DEF InvConsumidor
<1> USE DEF C!Em, C!Vai, Entrega, InvConsumidor, TipoConsumidor
<1>8. CASE C!Consulta(t)
  <2>1. /\ entrega'[t].fase \in {"ack", "verifica", "nack"}
        /\ entrega'[t].fase = "ack" => H(t) \in registro
    BY <1>1, <1>2, <1>8 DEF C!Consulta
  <2> QED
    BY <1>3, <1>4, <1>5, <1>7, <2>1
<1>9. CASE C!Envia(t)
  <2>1. /\ entrega'[t].fase \in {"registra", "nack"} /\ entrega[t].fase = "envia"
        /\ entrega'[t].fase = "registra" => processado[N(t)] # Nada /\ <<H(t), processado[N(t)]>> \in objetos'
    BY <1>1, <1>2, <1>9 DEF C!Envia
  <2> QED
    BY <1>3, <1>4, <1>5, <2>1 DEF Certeza
<1>10. CASE C!Registra(t)
  <2>1. /\ entrega'[t].fase \in {"ack", "nack"}
        /\ entrega'[t].fase = "ack" => H(t) \in registro'
    BY <1>1, <1>2, <1>10 DEF C!Registra
  <2> QED
    BY <1>3, <1>4, <1>5, <2>1
<1>11. CASE C!Confirma(t) \/ C!ApagaRecibo(t) \/ C!ApagaOrigem(t) \/ C!ApagaCopia(t)
  <2>1. entrega[t].fase \in {"ack", "recibo", "origem", "copia"}
    BY <1>11 DEF C!Confirma, C!ApagaRecibo, C!ApagaOrigem, C!ApagaCopia
  <2>2. entrega'[t].fase \in {"livre", "recibo", "origem", "copia"}
    BY <1>1, <1>2, <1>11 DEF C!Confirma, C!ApagaRecibo, C!ApagaOrigem, C!ApagaCopia, C!Termina, C!Livre
  <2> QED
    BY <1>3, <1>4, <1>5, <1>7, <2>1, <2>2 DEF Certeza
<1>12. CASE C!Verifica(t) \/ C!Confere(t) \/ C!Separa(t)
  <2>1. entrega'[t].fase \in {"confere", "destino", "renomeia", "separa", "nack", "dlq"}
    BY <1>1, <1>2, <1>12 DEF C!Verifica, C!Confere, C!Separa
  <2> QED
    BY <1>3, <1>4, <1>5, <2>1
<1>13. CASE C!VerificaDestino(t)
  <2>1. /\ entrega'[t].fase \in {"envia", "nack"} /\ UNCHANGED <<processando, processado>>
        /\ entrega'[t].fase = "envia" => processado[N(t)] = H(t)
    BY <1>1, <1>2, <1>13 DEF C!VerificaDestino, C!pastas
  <2> QED
    BY <1>1, <1>3, <1>4, <1>5, <1>6, <2>1 DEF CopiaUnica
<1>14. CASE C!Renomeia(t)
  <2>1. /\ entrega'[t].fase \in {"envia", "nack"} /\ entrega[t].fase = "renomeia"
        /\ entrega'[t].fase = "envia" =>
             /\ processando[N(t)] # Nada /\ processando' = [processando EXCEPT ![N(t)] = Nada]
             /\ processado' = [processado EXCEPT ![N(t)] = processando[N(t)]]
    BY <1>1, <1>2, <1>14 DEF C!Renomeia
  <2>2. entrega'[t].fase = "envia" => processando'[N(t)] = Nada /\ processado'[N(t)] = processando[N(t)]
    BY <1>1, <1>6, <2>1
  <2>3. entrega[t].fase = "renomeia" => processando[N(t)] \in {H(t), Nada}
    BY DEF EntregasCertas, EntregaCerta
  <2> QED
    BY <1>3, <1>4, <1>5, <2>1, <2>2, <2>3
<1>15. CASE C!Devolve(t) \/ C!PublicaDlq(t) \/ C!ConfirmaDlq(t) \/ C!SemCanal(t)
  <2>1. entrega'[t] = C!Livre \/ (entrega'[t].fase = "ackDlq" /\ entrega[t].msg \in dlq')
    BY <1>1, <1>2, <1>15 DEF C!Devolve, C!PublicaDlq, C!ConfirmaDlq, C!SemCanal, C!FalhaTarefa, C!Termina
  <2> QED
    BY <1>3, <1>4, <1>5, <2>1
<1> QED
  BY <1>8, <1>9, <1>10, <1>11, <1>12, <1>13, <1>14, <1>15 DEF C!PassoTarefa

(* The deliveries beside the one that takes the step. *)
LEMMA CertezaParada ==
  ASSUME TipoConsumidor, NEW t \in C!Tarefas, Certeza(t), entrega'[t] = entrega[t] \/ entrega'[t] = C!Livre,
         entrega[t].fase = "envia" =>
           /\ processando'[N(t)] = Nada
           /\ processado'[N(t)] \in {processado[N(t)], Nada},
         objetos \subseteq objetos', registro \subseteq registro', dlq \subseteq dlq'
  PROVE  Certeza(t)'
<1>1. CASE entrega'[t] = C!Livre
  BY <1>1 DEF Certeza, C!Livre
<1>2. CASE entrega'[t] = entrega[t]
  <2>1. N(t)' = N(t) /\ H(t)' = H(t)
    BY <1>2 DEF N, H
  <2> QED
    BY <1>2, <2>1 DEF Certeza
<1> QED
  BY <1>1, <1>2

(* A step that leaves the copies, the objects and the table alone. *)
LEMMA GuardaParada ==
  ASSUME Tipado, [Next]_vars, TipoConsumidor, EntregasCertas, NomesUsados, InvGuarda,
         UNCHANGED <<processado, objetos, registro, dlq>>,
         \A t \in C!Tarefas : entrega'[t] = entrega[t] \/ entrega'[t] = C!Livre
                              \/ entrega'[t].fase = "consulta",
         \A m \in Mensagens : msg'[m] = "confirmada" => msg[m] = "confirmada"
  PROVE  InvGuarda'
<1> USE DEF InvGuarda
<1>1. \A n \in Nomes : Usado(n) => Usado(n)' /\ processando'[n] \in {processando[n], Nada}
  BY ConteudoSoSai
<1>2. CopiaUnica'
  BY <1>1 DEF CopiaUnica
<1>3. ASSUME NEW t \in C!Tarefas PROVE Certeza(t)'
  <2>1. CASE entrega'[t].fase = "consulta"
    BY <2>1 DEF Certeza
  <2>2. CASE entrega'[t] = entrega[t] \/ entrega'[t] = C!Livre
    <3>1. entrega[t].fase = "envia" => N(t) \in Nomes /\ Usado(N(t)) /\ processando[N(t)] = Nada
      BY MensagemDaEntrega DEF Certezas, Certeza, EntregasCertas, EntregaCerta, Anunciada, NomesUsados, Evento, N
    <3>2. entrega[t].fase = "envia" => processando'[N(t)] = Nada /\ processado'[N(t)] \in {processado[N(t)], Nada}
      BY <1>1, <3>1
    <3> QED
      BY <2>2, <3>2, CertezaParada DEF Certezas
  <2> QED
    BY <2>1, <2>2
<1>4. C!BancoNaoMente'
  BY DEF C!BancoNaoMente
<1>5. C!ConfirmadaSoDepois'
  BY DEF C!ConfirmadaSoDepois
<1> QED
  BY <1>2, <1>3, <1>4, <1>5 DEF Certezas

LEMMA GuardaNoConsumidor ==
  ASSUME Base, NomesUsados, InvConsumidor, InvGuarda, PassoConsumidor
  PROVE  InvGuarda'
<1> USE DEF Base, InvConsumidor
<1>1. [Next]_vars
  BY PassoConsumidorImplementa
<1>2. ASSUME NEW p \in Processos, C!CanalCai(p) \/ C!SessaoCai(p) \/ C!Encerra(p) PROVE InvGuarda'
  <2>1. /\ msg' = msg \/ msg' = C!Devolvidas(p)
        /\ \A t \in C!Tarefas : entrega'[t] = entrega[t] \/ entrega'[t] = C!Livre
        /\ UNCHANGED <<processado, objetos, registro>>
    BY <1>2, ProcessoNoPasso
  <2>2. \A m \in Mensagens : msg'[m] = "confirmada" => msg[m] = "confirmada"
    BY <2>1 DEF C!Devolvidas
  <2>3. dlq' = dlq
    BY <1>2 DEF C!CanalCai, C!SessaoCai, C!Encerra
  <2> QED
    BY <1>1, <2>1, <2>2, <2>3, GuardaParada
<1>3. ASSUME NEW t \in C!Tarefas, NEW m \in Mensagens, C!Recebe(t, m) PROVE InvGuarda'
  <2>1. /\ msg' = [msg EXCEPT ![m] = C!ProcessoDe(t)]
        /\ entrega'[t] = [fase |-> "consulta", msg |-> m, duplicata |-> FALSE]
        /\ \A u \in C!Tarefas : u # t => entrega'[u] = entrega[u]
        /\ UNCHANGED <<processado, objetos, registro>>
    BY <1>3, RecebeNoPasso
  <2>2. entrega'[t].fase = "consulta"
    BY <2>1
  <2>3. C!ProcessoDe(t) # "confirmada"
    BY ProcessosAssumption DEF C!Tarefas, C!ProcessoDe
  <2>4. \A k \in Mensagens : msg'[k] = "confirmada" => msg[k] = "confirmada"
    BY <2>1, <2>3 DEF TipoConsumidor
  <2>5. dlq' = dlq
    BY <1>3 DEF C!Recebe
  <2> QED
    BY <1>1, <2>1, <2>2, <2>4, <2>5, GuardaParada
<1>4. ASSUME NEW t \in C!Tarefas, C!PassoTarefa(t) PROVE InvGuarda'
  <2> USE DEF InvGuarda
  <2>1. /\ entrega[t].fase # "livre" /\ N(t) \in Nomes /\ H(t) \in Docs /\ entrega[t].msg \in Mensagens
        /\ \A u \in C!Tarefas : u # t => entrega'[u] = entrega[u]
    BY <1>4, EntregaNoPasso, MensagemDaEntrega
  <2>2. \/ processado' = processado
        \/ processado' = [processado EXCEPT ![N(t)] = processando[N(t)]] /\ processando'[N(t)] # processando[N(t)]
        \/ processado' = [processado EXCEPT ![N(t)] = Nada]
    BY <1>4, TarefaNoPasso
  <2>3. \A n \in Nomes : \/ processado'[n] \in {processado[n], Nada}
                         \/ processado'[n] = processando[n] /\ processando'[n] # processando[n]
    BY <2>1, <2>2 DEF TipoConsumidor
  <2>4. \A n \in Nomes : Usado(n) => Usado(n)' /\ processando'[n] \in {processando[n], Nada}
    BY <1>1, ConteudoSoSai
  <2>5. CopiaUnica'
    BY <2>3, <2>4 DEF CopiaUnica, NomesUsados
  <2>6. objetos \subseteq objetos' /\ registro \subseteq registro' /\ dlq \subseteq dlq'
    BY <1>4, EfeitoDaEntrega, EnvioDaEntrega
  <2>7. ASSUME NEW u \in C!Tarefas, u # t PROVE Certeza(u)'
    <3>1. entrega[u].fase = "envia" => N(u) \in Nomes /\ Usado(N(u)) /\ processando[N(u)] = Nada
      BY MensagemDaEntrega DEF Certezas, Certeza, EntregasCertas, EntregaCerta, Anunciada, NomesUsados, Evento, N
    <3>2. entrega[u].fase = "envia" => processando'[N(u)] = Nada /\ processado'[N(u)] \in {processado[N(u)], Nada}
      BY <2>3, <2>4, <3>1
    <3> QED
      BY <2>1, <2>6, <2>7, <3>2, CertezaParada DEF Certezas
  <2>8. Certeza(t)'
    BY <1>4, CertezaDoPasso DEF Certezas
  <2>9. C!BancoNaoMente'
    <3>1. \A o \in objetos' : o[1] = o[2]
      <4>1. objetos' = objetos
            \/ /\ entrega[t].fase = "envia" /\ processado[N(t)] # Nada
               /\ objetos' = objetos \cup {<<H(t), processado[N(t)]>>}
        BY <1>4, EnvioDaEntrega
      <4>2. entrega[t].fase = "envia" => processado[N(t)] \in {H(t), Nada}
        BY DEF Certezas, Certeza
      <4> QED
        BY <4>1, <4>2 DEF C!BancoNaoMente
    <3>2. registro' = registro \/ (entrega[t].fase = "registra" /\ registro' = registro \cup {H(t)})
      BY <1>4, TarefaNoPasso
    <3>3. entrega[t].fase = "registra" => <<H(t), H(t)>> \in objetos
      BY DEF Certezas, Certeza
    <3> QED
      BY <2>6, <3>1, <3>2, <3>3 DEF C!BancoNaoMente
  <2>10. C!ConfirmadaSoDepois'
    <3> SUFFICES ASSUME NEW m \in Mensagens, msg'[m] = "confirmada" PROVE m \in dlq' \/ m.hash \in registro'
      BY DEF C!ConfirmadaSoDepois, C!Validas
    <3>1. CASE msg[m] = "confirmada"
      BY <2>6, <3>1 DEF C!ConfirmadaSoDepois, C!Validas
    <3>2. CASE msg[m] # "confirmada"
      <4>1. m = entrega[t].msg /\ entrega[t].fase \in {"ack", "ackDlq"}
        BY <1>4, <3>2, EnvioDaEntrega
      <4> QED
        BY <2>6, <4>1 DEF Certezas, Certeza, H
    <3> QED
      BY <3>1, <3>2
  <2> QED
    BY <2>5, <2>7, <2>8, <2>9, <2>10 DEF Certezas
<1> QED
  BY <1>2, <1>3, <1>4 DEF PassoConsumidor, C!Next

LEMMA GuardaPreservada ==
  ASSUME Base, NomesUsados, InvConsumidor, InvGuarda, [NextPipeline]_varsPipeline
  PROVE  InvGuarda'
<1> USE DEF Base, InvConsumidor
<1>1. [Next]_vars
  BY PassoImplementa
<1>2. CASE PassoWatcher \/ UNCHANGED varsPipeline
  <2>1. UNCHANGED soConsumidor
    BY <1>2 DEF PassoWatcher, varsPipeline
  <2> QED
    BY <1>1, <2>1, GuardaParada DEF soConsumidor
<1>3. CASE PassoConsumidor
  BY <1>3, GuardaNoConsumidor
<1>4. ASSUME NEW e \in fila, Chega(e) PROVE InvGuarda'
  <2>1. UNCHANGED <<entrega, processado, objetos, registro, dlq>>
    BY <1>4 DEF Chega
  <2>2. \A m \in Mensagens : msg'[m] = "confirmada" => msg[m] = "confirmada"
    BY <1>4 DEF Chega, TipoConsumidor
  <2> QED
    BY <1>1, <2>1, <2>2, GuardaParada
<1> QED
  BY <1>2, <1>3, <1>4 DEF NextPipeline

LEMMA GuardaSempre == SpecPipeline => [](Base /\ NomesUsados /\ InvConsumidor /\ InvGuarda)
<1>1. InitPipeline => InvGuarda
  BY DEF InitPipeline, Init, InvGuarda, CopiaUnica, Certezas, Certeza, C!Livre, C!BancoNaoMente,
         C!ConfirmadaSoDepois
<1>2. Base /\ NomesUsados /\ InvConsumidor /\ InvGuarda /\ [NextPipeline]_varsPipeline => InvGuarda'
  BY GuardaPreservada
<1> QED
  BY <1>1, <1>2, InvariantePipeline, PTL DEF SpecPipeline

(* Behind the real watcher, and whatever it announces, the table still tells the truth: each recorded
   hash has its object, each object the content of its key, and a confirmed message is recorded or in
   the DLQ; for any number of workers and consumers, wrong hashes, repeated messages, failures and
   crashes on both sides (processar_evento, processar_entrega). *)
THEOREM BancoDoConjunto == SpecPipeline => [](C!BancoNaoMente /\ C!ConfirmadaSoDepois)
<1>1. InvGuarda => C!BancoNaoMente /\ C!ConfirmadaSoDepois
  BY DEF InvGuarda
<1> QED
  BY <1>1, GuardaSempre, PTL

-----------------------------------------------------------------------------
(* Where a document may be, the table of hashes being a place by the theorem above. *)
Lugar(d) ==
  \/ NaPasta(d)
  \/ \E n \in Nomes : processado[n] = d \/ <<n, d>> \in separados
  \/ d \in registro

(* The name that holds the document was announced with the hash of another one, recorded by now. *)
AnunciadoPorOutro(d) ==
  \E e \in fila : e.hash # d /\ e.hash \in registro /\ d \in {processando[e.nome], processado[e.nome]}

(* A consumer takes the last file of a document away only after the hash it was announced with is
   recorded. *)
LEMMA LugarNoConsumidor ==
  ASSUME Base, InvConsumidor, InvGuarda, PassoConsumidor, NEW d \in Docs, Lugar(d), ~Lugar(d)'
  PROVE  AnunciadoPorOutro(d)
<1> USE DEF Base, InvConsumidor, InvGuarda
<1>1. UNCHANGED <<entrada, fora>>
  BY DEF PassoConsumidor
<1>2. d # Nada
  BY NadaAssumption
<1>3. ASSUME UNCHANGED <<processando, processado, separados, registro>> PROVE FALSE
  BY <1>1, <1>3 DEF Lugar, NaPasta
<1>4. ASSUME NEW p \in Processos, C!CanalCai(p) \/ C!SessaoCai(p) \/ C!Encerra(p) PROVE FALSE
  BY <1>3, <1>4, ProcessoNoPasso
<1>5. ASSUME NEW t \in C!Tarefas, NEW m \in Mensagens, C!Recebe(t, m) PROVE FALSE
  BY <1>3, <1>5, RecebeNoPasso
<1>6. ASSUME NEW t \in C!Tarefas, C!PassoTarefa(t) PROVE AnunciadoPorOutro(d)
  <2>1. /\ separados \subseteq separados' /\ registro \subseteq registro'
        /\ \A n \in Nomes : processando[n] # Nada /\ processando'[n] # processando[n] =>
             /\ n = N(t)
             /\ \/ processado'[n] = processando[n]
                \/ <<n, processando[n]>> \in separados'
                \/ entrega[t].fase = "origem"
        /\ \A n \in Nomes : processado[n] # Nada /\ processado'[n] # processado[n] =>
             n = N(t) /\ (entrega[t].fase = "copia" \/ processando[n] # Nada)
    BY <1>6, EfeitoDaEntrega
  <2>2. d \notin registro /\ ~(\E n \in Nomes : <<n, d>> \in separados)
        /\ ~(\E p \in Caminhos : entrada[p] = d) /\ ~(\E r \in fora : r.doc = d)
    BY <1>1, <2>1 DEF Lugar, NaPasta
  <2>3. PICK n \in Nomes : processando[n] = d \/ processado[n] = d
    BY <2>2 DEF Lugar, NaPasta
  <2>4. processando'[n] # d /\ processado'[n] # d /\ <<n, d>> \notin separados'
    BY DEF Lugar, NaPasta
  <2>5. n = N(t) /\ entrega[t].fase \in {"origem", "copia"}
    BY <1>2, <2>1, <2>3, <2>4 DEF CopiaUnica
  <2>6. Evento(N(t), H(t)) \in fila /\ H(t) \in registro
    BY <2>5 DEF EntregasCertas, EntregaCerta, Anunciada, Certezas, Certeza, N, H
  <2>7. PICK e \in fila : e = Evento(N(t), H(t))
    BY <2>6
  <2>8. e.nome = n /\ e.hash = H(t)
    BY <2>5, <2>7 DEF Evento
  <2> QED
    BY <2>2, <2>3, <2>6, <2>8 DEF AnunciadoPorOutro
<1> QED
  BY <1>4, <1>5, <1>6 DEF PassoConsumidor, C!Next

LEMMA LugarNoPasso ==
  ASSUME Base, NomesUsados, InvConsumidor, InvGuarda, [NextPipeline]_varsPipeline, NEW d \in Docs,
         Lugar(d), ~Lugar(d)'
  PROVE  AnunciadoPorOutro(d) \/ PeloProdutor(d) \/ PorRejeicao(d)
<1>1. CASE NextSemConsumidor \/ UNCHANGED vars
  <2>1. UNCHANGED <<processado, separados, registro>> \/ PassoConsumidor
    BY DEF NextPipeline, PassoWatcher, Chega, varsPipeline, soConsumidor
  <2>2. CASE UNCHANGED <<processado, separados, registro>>
    <3>1. NaPasta(d) /\ ~NaPasta(d)'
      BY <2>2 DEF Lugar
    <3> QED
      BY <1>1, <3>1, PastaNoWatcher
  <2> QED
    BY <2>1, <2>2, LugarNoConsumidor
<1>2. CASE PassoConsumidor
  BY <1>2, LugarNoConsumidor
<1> QED
  BY <1>1, <1>2 DEF NextPipeline, PassoWatcher, Chega, varsPipeline

(* How a document can be lost at all, with any number of workers over one landing zone, producers
   that write over their files, consumers, failures and crashes: its producer replaces it, or its
   name marks it as Zone.Identifier metadata; it was rejected, and a file of the same bare name was
   rejected into the same folder under the stamp of the same millisecond; or its staging name was
   announced with the hash of another document and a consumer, that hash recorded, deletes the
   copies of the message it was told of (processar_entrega, watcher.rs).  Nothing else, and no other
   step, takes the last trace of one. *)
THEOREM ComoSePerde ==
  SpecPipeline =>
    [][\A d \in Docs : Lugar(d) /\ ~Lugar(d)' =>
         \/ AnunciadoPorOutro(d)
         \/ \E p \in Caminhos : entrada[p] = d /\ (p \in Zona \/ escritos' # escritos)
         \/ \E r \in fora \ fora', s \in fora' : r.doc = d /\ MesmoNome(r, s)]_varsPipeline
<1>1. Base /\ NomesUsados /\ InvConsumidor /\ InvGuarda /\ [NextPipeline]_varsPipeline =>
        [\A d \in Docs : Lugar(d) /\ ~Lugar(d)' =>
           \/ AnunciadoPorOutro(d)
           \/ \E p \in Caminhos : entrada[p] = d /\ (p \in Zona \/ escritos' # escritos)
           \/ \E r \in fora \ fora', s \in fora' : r.doc = d /\ MesmoNome(r, s)]_varsPipeline
  BY LugarNoPasso DEF PeloProdutor, PorRejeicao
<1> QED
  BY <1>1, GuardaSempre, PTL DEF SpecPipeline

-----------------------------------------------------------------------------
(* No document is lost.  An event is promised from the rename of its file on; where announced hashes
   are right, nothing else than what it says is ever found under its name, in staging or in
   processado/. *)
Eventos == [nome : Nomes, hash : Docs]

Prometido(e) ==
  \/ e \in fila
  \/ \E t \in Tarefas : tarefa[t].fase = "publica" /\ e = Evento(tarefa[t].nome, tarefa[t].hash)
  \/ \E w \in Workers : fase[w] = "recPublica" /\ e = Evento(recup[w].nome, recup[w].hash)

CopiasFieis == \A e \in Eventos : Prometido(e) => processado[e.nome] \in {e.hash, Nada}

TodosTemLugar == \A d \in Docs : escritos[d] > 0 => Lugar(d)

LEMMA StagingFiel ==
  ASSUME Capturas, NEW e \in Eventos, Prometido(e)
  PROVE  processando[e.nome] \in {e.hash, Nada}
BY DEF Capturas, CapturaDasPublicacoes, CapturaDaRecuperacao, CapturaFiel, Prometido, Evento

LEMMA PromessaNova ==
  ASSUME Base, [Next]_vars, NEW e \in Eventos, Prometido(e)'
  PROVE  Prometido(e) \/ processando[e.nome] # Nada \/ ~Usado(e.nome)
<1> USE DEF Base
<1>1. CASE e \in fila'
  <2>1. ASSUME NEW t \in Tarefas, Publica(t), e = Evento(tarefa[t].nome, tarefa[t].hash) PROVE Prometido(e)
    BY <2>1 DEF Publica, Prometido
  <2>2. ASSUME NEW w \in Workers, RecuperaPublica(w), e = Evento(recup[w].nome, recup[w].hash) PROVE Prometido(e)
    BY <2>2 DEF RecuperaPublica, Prometido
  <2> QED
    BY <1>1, <2>1, <2>2, FilaNoPasso DEF Prometido
<1>2. ASSUME NEW t \in Tarefas, tarefa'[t].fase = "publica", e = Evento(tarefa'[t].nome, tarefa'[t].hash)
      PROVE  Prometido(e) \/ ~Usado(e.nome)
  <2>1. CASE Move(t)
    <3>1. PICK m : m = NomeNovo(Dono(t))
      OBVIOUS
    <3>2. tarefa'[t].nome = m
      BY <2>1, <3>1 DEF Move, Tipado, TipoTarefas, Tarefa
    <3>3. ~Usado(m)
      BY <2>1, <3>1, NomesNoMove
    <3> QED
      BY <1>2, <3>2, <3>3 DEF Evento
  <2>2. CASE tarefa'[t] = tarefa[t]
    BY <1>2, <2>2 DEF Prometido
  <2> QED
    BY <1>2, <2>1, <2>2, SoMovePublica
<1>3. ASSUME NEW w \in Workers, fase'[w] = "recPublica", e = Evento(recup'[w].nome, recup'[w].hash)
      PROVE  Prometido(e) \/ processando[e.nome] # Nada
  <2>1. CASE fase'[w] = fase[w] /\ recup'[w] = recup[w]
    BY <1>3, <2>1 DEF Prometido
  <2>2. CASE recup'[w].nome = recup[w].nome /\ recup'[w].hash = processando[recup[w].nome]
    BY <1>3, <2>2, NadaAssumption DEF Evento, Eventos
  <2> QED
    BY <1>3, <2>1, <2>2, RecupNoPasso
<1> QED
  BY <1>1, <1>2, <1>3 DEF Prometido

LEMMA CopiasFieisPreservadas ==
  ASSUME Base, NomesUsados, Capturas, InvConsumidor, CopiaUnica, CopiasFieis, [NextPipeline]_varsPipeline
  PROVE  CopiasFieis'
<1> USE DEF Base, InvConsumidor
<1>1. [Next]_vars
  BY PassoImplementa
<1>2. CASE processado' = processado
  <2> SUFFICES ASSUME NEW e \in Eventos, Prometido(e)' PROVE processado[e.nome] \in {e.hash, Nada}
    BY <1>2 DEF CopiasFieis
  <2>1. e.nome \in Nomes
    BY DEF Eventos
  <2>2. Prometido(e) \/ processando[e.nome] # Nada \/ ~Usado(e.nome)
    BY <1>1, PromessaNova
  <2> QED
    BY <2>1, <2>2 DEF CopiaUnica, CopiasFieis
<1>3. ASSUME PassoConsumidor, NEW t \in C!Tarefas, C!PassoTarefa(t) PROVE CopiasFieis'
  <2>1. UNCHANGED <<fila, tarefa, fase, recup>>
    BY <1>3 DEF PassoConsumidor, publicacao
  <2>2. N(t) \in Nomes
    BY <1>3, EntregaNoPasso, MensagemDaEntrega
  <2>3. \/ processado' = processado
        \/ processado' = [processado EXCEPT ![N(t)] = processando[N(t)]] /\ processando'[N(t)] # processando[N(t)]
        \/ processado' = [processado EXCEPT ![N(t)] = Nada]
    BY <1>3, TarefaNoPasso
  <2>4. \A n \in Nomes : processado'[n] \in {processado[n], processando[n], Nada}
    BY <2>2, <2>3 DEF TipoConsumidor
  <2> SUFFICES ASSUME NEW e \in Eventos, Prometido(e) PROVE processado'[e.nome] \in {e.hash, Nada}
    BY <2>1 DEF CopiasFieis, Prometido
  <2>5. processando[e.nome] \in {e.hash, Nada} /\ processado[e.nome] \in {e.hash, Nada} /\ e.nome \in Nomes
    BY StagingFiel DEF CopiasFieis, Eventos
  <2> QED
    BY <2>4, <2>5
<1>4. CASE PassoConsumidor
  <2>1. ASSUME NEW p \in Processos, C!CanalCai(p) \/ C!SessaoCai(p) \/ C!Encerra(p) PROVE processado' = processado
    BY <2>1, ProcessoNoPasso
  <2>2. ASSUME NEW t \in C!Tarefas, NEW m \in Mensagens, C!Recebe(t, m) PROVE processado' = processado
    BY <2>2, RecebeNoPasso
  <2> QED
    BY <1>2, <1>3, <1>4, <2>1, <2>2 DEF PassoConsumidor, C!Next
<1>5. CASE PassoWatcher \/ UNCHANGED varsPipeline \/ \E e \in fila : Chega(e)
  BY <1>2, <1>5 DEF PassoWatcher, Chega, varsPipeline, soConsumidor
<1> QED
  BY <1>4, <1>5 DEF NextPipeline

(* A step in which no path gets another content than the one it has. *)
MantemConteudo == \A p \in Caminhos : entrada[p] # Nada => entrada'[p] \in {entrada[p], Nada}

LEMMA EscritaNoPasso ==
  ASSUME Tipado, [Next]_vars, escritos' # escritos
  PROVE  \E p \in Caminhos, d \in Docs : Escreve(p, d)
BY PassosSobrePastas DEF Tick, ApagaZona, Move, RejeitaEntrada, RejeitaNaoPublicado, ConsumidorRetira

(* A step in which no rejected file takes the name of another with another content. *)
MantemRejeitados == \A d \in Docs : PorRejeicao(d) => NaPasta(d)'

LEMMA LugarFica ==
  ASSUME Zona = {}, Base, NomesUsados, InvConsumidor, InvGuarda, Capturas, CopiasFieis,
         MantemConteudo, MantemRejeitados, [NextPipeline]_varsPipeline, NEW d \in Docs
  PROVE  /\ Lugar(d) => Lugar(d)'
         /\ escritos'[d] > 0 => escritos[d] > 0 \/ Lugar(d)'
<1> USE DEF Base
<1>1. [Next]_vars
  BY PassoImplementa
<1>2. ~AnunciadoPorOutro(d)
  <2> SUFFICES ASSUME NEW e \in fila, e.hash # d PROVE d \notin {processando[e.nome], processado[e.nome]}
    BY DEF AnunciadoPorOutro
  <2>1. e \in Eventos /\ Prometido(e) /\ d # Nada
    BY NadaAssumption DEF Prometido, Eventos, Tipado, TipoPublicacao
  <2> QED
    BY <2>1, StagingFiel DEF CopiasFieis
<1>3. ASSUME NEW p \in Caminhos, NEW c \in Docs, Escreve(p, c)
      PROVE  /\ Lugar(d) => Lugar(d)'
             /\ escritos'[d] > 0 => escritos[d] > 0 \/ Lugar(d)'
  <2>1. /\ entrada' = [entrada EXCEPT ![p] = c] /\ UNCHANGED <<processando, fora>>
        /\ escritos' = [escritos EXCEPT ![c] = @ + 1] /\ escritos' # escritos
    <3>1. escritos[c] \in Nat /\ escritos'[c] = escritos[c] + 1
      BY <1>3 DEF Escreve, Tipado, TipoPastas
    <3> QED
      BY <1>3, <3>1 DEF Escreve
  <2>2. UNCHANGED <<processado, separados, registro>>
    BY <2>1 DEF NextPipeline, PassoWatcher, PassoConsumidor, Chega, vars, varsPipeline, soConsumidor
  <2>3. entrada \in [Caminhos -> Docs \cup {Nada}] /\ escritos \in [Docs -> Nat]
    BY DEF Tipado, TipoPastas
  <2>4. entrada'[p] = c /\ c # Nada /\ d # Nada /\ (entrada[p] # Nada => entrada[p] = c)
    BY <2>1, <2>3, NadaAssumption DEF MantemConteudo
  <2>5. \A q \in Caminhos : entrada[q] = d => entrada'[q] = d
    BY <2>1, <2>3, <2>4
  <2>6. Lugar(d) => Lugar(d)'
    BY <2>1, <2>2, <2>5 DEF Lugar, NaPasta
  <2>7. c # d => escritos'[d] = escritos[d]
    BY <2>1, <2>3
  <2> QED
    BY <2>4, <2>6, <2>7 DEF Lugar, NaPasta
<1>4. CASE escritos' = escritos
  <2>1. ~PeloProdutor(d)
    BY <1>4 DEF PeloProdutor
  <2>2. PorRejeicao(d) => Lugar(d)'
    BY DEF MantemRejeitados, Lugar
  <2> QED
    BY <1>2, <1>4, <2>1, <2>2, LugarNoPasso
<1> QED
  BY <1>1, <1>3, <1>4, EscritaNoPasso

LEMMA PassoDoLugar ==
  ASSUME Zona = {}, Base, NomesUsados, InvConsumidor, InvGuarda, Capturas, CopiasFieis, TodosTemLugar,
         MantemConteudo, MantemRejeitados, [NextPipeline]_varsPipeline
  PROVE  CopiasFieis' /\ TodosTemLugar'
<1>1. CopiasFieis'
  BY CopiasFieisPreservadas DEF InvGuarda
<1>2. ASSUME NEW d \in Docs, escritos'[d] > 0 PROVE Lugar(d)'
  BY <1>2, LugarFica DEF TodosTemLugar
<1> QED
  BY <1>1, <1>2 DEF TodosTemLugar

LEMMA LugarInicial == InitPipeline => CopiasFieis /\ TodosTemLugar
BY DEF InitPipeline, Init, CopiasFieis, Eventos, TodosTemLugar

LEMMA LugarBasta == TodosTemLugar /\ InvGuarda => PerdaZero
<1> SUFFICES ASSUME TodosTemLugar, InvGuarda, NEW d \in Docs, escritos[d] > 0
             PROVE  Lugar(d) /\ \A h \in registro : <<h, h>> \in objetos
  BY DEF PerdaZero, Lugar, NaPasta
<1> QED
  BY DEF TodosTemLugar, InvGuarda, C!BancoNaoMente

SemSobrescrita == SoUmMexe /\ NomesDistintos /\ Zona = {} /\ ExtInvalida = {}

(* Between the landing zone and the table of hashes no document is lost: through crashes of the
   worker, failures of either side, lost channels and sessions, repeated and overlapping deliveries,
   with any number of consumer processes.  The conditions are those under which the one worker
   announces the right hash; and no file is Zone.Identifier metadata or is rejected for its name, so
   that no rename into erro/ replaces another one (watcher.rs, consumer.rs). *)
THEOREM PerdaZeroSempre == SemSobrescrita => (SpecPipeline => []PerdaZero)
<1> SUFFICES ASSUME SemSobrescrita PROVE SpecPipeline => []PerdaZero
  OBVIOUS
<1> DEFINE Inv == /\ Base /\ NomesUsados /\ InvConsumidor /\ InvGuarda /\ Capturas /\ CapturasCertas
                  /\ ForaPorNome /\ CopiasFieis /\ TodosTemLugar
<1>1. SpecPipeline => [](Base /\ NomesUsados /\ InvConsumidor /\ InvGuarda)
  BY GuardaSempre
<1>2. SpecPipeline => [](Capturas /\ CapturasCertas /\ ForaPorNome)
  <2>1. Spec => []Intactos /\ []CapturasCertas /\ []ForaPorNome
    BY IntactosSeSoUmMexe, CertasSempre, ForaPorNomeSempre, PTL DEF SemSobrescrita
  <2> QED
    BY <2>1, ImplementaWatcherSempre, CapturasDeIntactos, PTL DEF ImplementaWatcher
<1>3. Inv /\ [NextPipeline]_varsPipeline => (CopiasFieis /\ TodosTemLugar)'
  <2> SUFFICES ASSUME Inv, [NextPipeline]_varsPipeline PROVE CopiasFieis' /\ TodosTemLugar'
    OBVIOUS
  <2>1. [Next]_vars
    BY PassoImplementa
  <2>2. MantemConteudo
    <3> USE DEF Base, Tipado, TipoPastas
    <3> SUFFICES ASSUME NEW q \in Caminhos, entrada[q] # Nada PROVE entrada'[q] \in {entrada[q], Nada}
      BY DEF MantemConteudo
    <3>1. ASSUME NEW p \in Caminhos, NEW d \in Docs, Escreve(p, d) PROVE entrada'[q] = entrada[q]
      BY <3>1 DEF Escreve, SemSobrescrita, SoUmMexe
    <3>2. ASSUME NEW t \in Tarefas, ApagaZona(t) \/ Move(t) \/ RejeitaEntrada(t) \/ RejeitaNaoPublicado(t)
          PROVE  entrada'[q] \in {entrada[q], Nada}
      BY <3>2 DEF ApagaZona, Move, RejeitaEntrada, RejeitaNaoPublicado
    <3>3. ASSUME NEW e \in fila, ConsumidorRetira(e) PROVE entrada'[q] = entrada[q]
      BY <3>3 DEF ConsumidorRetira
    <3> QED
      BY <2>1, <3>1, <3>2, <3>3, PassosSobrePastas DEF Tick
  <2>3. ASSUME NEW d \in Docs, PorRejeicao(d) PROVE FALSE
    <3>1. PICK t \in Tarefas : RejeitaEntrada(t)
      BY <2>1, <2>3, RejeicaoRepetida DEF SemSobrescrita
    <3>2. tarefa[t].erro = "extensao"
      BY <3>1 DEF RejeitaEntrada, CapturasCertas, CapturaDaTarefa
    <3> QED
      BY <3>2 DEF CapturasCertas, CapturaDaTarefa, SemSobrescrita
  <2> QED
    BY <2>2, <2>3, PassoDoLugar DEF SemSobrescrita, MantemRejeitados
<1>4. TodosTemLugar /\ InvGuarda => PerdaZero
  BY LugarBasta
<1> QED
  BY <1>1, <1>2, <1>3, <1>4, LugarInicial, PTL DEF SpecPipeline

(* The same for any number of workers, with producers that write a path again over the old file, as
   long as no path is ever used for two contents; empty, oversized and forbidden files included. *)
THEOREM PerdaZeroNomesUnicos ==
  ASSUME NEW c \in [Caminhos -> Docs], NomesDistintos, Zona = {}
  PROVE  SpecPipeline /\ []UmConteudo(c) => []PerdaZero
<1> DEFINE Inv == /\ Base /\ NomesUsados /\ InvConsumidor /\ InvGuarda /\ Capturas
                  /\ ForaPorNome /\ ForaPorConteudo(c) /\ CopiasFieis /\ TodosTemLugar
<1>1. SpecPipeline => [](Base /\ NomesUsados /\ InvConsumidor /\ InvGuarda)
  BY GuardaSempre
<1>2. SpecPipeline /\ []UmConteudo(c) => [](Capturas /\ ForaPorNome /\ ForaPorConteudo(c))
  <2>1. Spec /\ []UmConteudo(c) => []Intactos /\ [](ForaPorNome /\ ForaPorConteudo(c))
    BY IntactosSeUmConteudo, ForaSempre, PTL
  <2> QED
    BY <2>1, ImplementaWatcherSempre, CapturasDeIntactos, PTL DEF ImplementaWatcher
<1>3. Inv /\ UmConteudo(c) /\ UmConteudo(c)' /\ [NextPipeline]_varsPipeline => (CopiasFieis /\ TodosTemLugar)'
  <2> SUFFICES ASSUME Inv, UmConteudo(c), UmConteudo(c)', [NextPipeline]_varsPipeline
               PROVE  CopiasFieis' /\ TodosTemLugar'
    OBVIOUS
  <2>1. MantemConteudo
    BY DEF MantemConteudo, UmConteudo
  <2>2. MantemRejeitados
    BY PassoImplementa, SemRejeicaoRepetida DEF MantemRejeitados
  <2> QED
    BY <2>1, <2>2, PassoDoLugar
<1>4. TodosTemLugar /\ InvGuarda => PerdaZero
  BY LugarBasta
<1> QED
  BY <1>1, <1>2, <1>3, <1>4, LugarInicial, PTL DEF SpecPipeline

-----------------------------------------------------------------------------
(* Messages and files.  Where announced hashes are right no delivery ever sets a file aside or has a
   message for the DLQ. *)
SemCorrompidos ==
  /\ NenhumCorrompido
  /\ \A t \in C!Tarefas : entrega[t].fase \notin {"separa", "dlq", "ackDlq"}

LEMMA CorrompidoNaTarefa ==
  ASSUME Tipado, InvConsumidor, CapturaFiel, SemCorrompidos, NEW t \in C!Tarefas, C!PassoTarefa(t)
  PROVE  /\ UNCHANGED <<separados, dlq>>
         /\ entrega'[t].fase \notin {"separa", "dlq", "ackDlq"}
<1>1. /\ entrega[t].fase # "livre" /\ C!Nome(t) = N(t) /\ C!Hash(t) = H(t)
      /\ entrega[t] \in Entrega /\ entrega \in [C!Tarefas -> Entrega]
  BY EntregaNoPasso, MensagemDaEntrega DEF InvConsumidor, TipoConsumidor
<1>2. entrega[t].fase \notin {"separa", "dlq", "ackDlq"}
  BY DEF SemCorrompidos
<1>3. processando[N(t)] \in {H(t), Nada}
  <2>1. PICK e \in fila : e = Evento(N(t), H(t))
    BY <1>1 DEF InvConsumidor, EntregasCertas, EntregaCerta, Anunciada, N, H
  <2> QED
    BY <2>1 DEF CapturaFiel, Evento
<1> USE DEF C!Em, C!Vai, Entrega
<1>4. CASE C!Confere(t)
  BY <1>1, <1>3, <1>4 DEF C!Confere, C!pastas
<1>5. CASE C!Separa(t) \/ C!PublicaDlq(t) \/ C!ConfirmaDlq(t)
  BY <1>2, <1>5 DEF C!Separa, C!PublicaDlq, C!ConfirmaDlq
<1>6. CASE C!Consulta(t) \/ C!Verifica(t) \/ C!VerificaDestino(t) \/ C!Renomeia(t)
  BY <1>1, <1>6 DEF C!Consulta, C!Verifica, C!VerificaDestino, C!Renomeia, C!pastas
<1>7. CASE C!Envia(t) \/ C!Registra(t) \/ C!Confirma(t) \/ C!ApagaRecibo(t) \/ C!ApagaOrigem(t)
  BY <1>1, <1>7 DEF C!Envia, C!Registra, C!Confirma, C!ApagaRecibo, C!ApagaOrigem, C!pastas
<1>8. CASE C!ApagaCopia(t) \/ C!Devolve(t) \/ C!SemCanal(t)
  BY <1>1, <1>8 DEF C!ApagaCopia, C!Devolve, C!SemCanal, C!FalhaTarefa, C!Termina, C!Livre, C!pastas
<1> QED
  BY <1>4, <1>5, <1>6, <1>7, <1>8 DEF C!PassoTarefa

LEMMA CorrompidosNoPasso ==
  ASSUME Tipado, InvConsumidor, CapturaFiel, SemCorrompidos, [NextPipeline]_varsPipeline
  PROVE  SemCorrompidos'
<1> USE DEF SemCorrompidos, NenhumCorrompido
<1>1. CASE UNCHANGED <<separados, dlq, entrega>>
  BY <1>1
<1>2. ASSUME NEW p \in Processos, C!CanalCai(p) \/ C!SessaoCai(p) \/ C!Encerra(p) PROVE SemCorrompidos'
  <2>1. dlq' = dlq
    BY <1>2 DEF C!CanalCai, C!SessaoCai, C!Encerra
  <2> QED
    BY <1>2, <2>1, ProcessoNoPasso DEF InvConsumidor, C!Livre
<1>3. ASSUME NEW t \in C!Tarefas, NEW m \in Mensagens, C!Recebe(t, m) PROVE SemCorrompidos'
  <2>1. dlq' = dlq
    BY <1>3 DEF C!Recebe
  <2>2. TipoConsumidor
    BY DEF InvConsumidor
  <2>3. /\ entrega'[t] = [fase |-> "consulta", msg |-> m, duplicata |-> FALSE]
        /\ separados' = separados /\ \A u \in C!Tarefas : u # t => entrega'[u] = entrega[u]
    BY <1>3, <2>2, RecebeNoPasso
  <2> QED
    BY <2>1, <2>3
<1>4. ASSUME NEW t \in C!Tarefas, C!PassoTarefa(t) PROVE SemCorrompidos'
  <2>1. \A u \in C!Tarefas : u # t => entrega'[u] = entrega[u]
    BY <1>4, EntregaNoPasso DEF InvConsumidor
  <2> QED
    BY <1>4, <2>1, CorrompidoNaTarefa
<1>5. CASE PassoWatcher \/ UNCHANGED varsPipeline \/ \E e \in fila : Chega(e)
  BY <1>1, <1>5 DEF PassoWatcher, Chega, varsPipeline, soConsumidor
<1> QED
  BY <1>2, <1>3, <1>4, <1>5 DEF NextPipeline, PassoConsumidor, C!Next

(* A promise is kept while the content lies where the message looks for it, or the hash is recorded;
   it lapses only when nobody has accepted the event and nobody is about to. *)
EmPublicacao(n) ==
  \/ \E t \in Tarefas : tarefa[t].fase = "publica" /\ tarefa[t].nome = n
  \/ \E w \in Workers : fase[w] = "recPublica" /\ recup[w].nome = n

Guardada(e) ==
  \/ e.hash \in registro
  \/ e.hash \in {processando[e.nome], processado[e.nome]}
  \/ e.nome \notin aceitos /\ ~EmPublicacao(e.nome)

GuardaPromessa == \A e \in Eventos : Prometido(e) => Guardada(e)

(* Whoever begins to publish a name has its file in staging. *)
LEMMA PublicacaoNova ==
  ASSUME Base, [Next]_vars
  PROVE  /\ \A t \in Tarefas : tarefa'[t].fase = "publica" =>
              tarefa'[t] = tarefa[t] \/ processando'[tarefa'[t].nome] # Nada
         /\ \A w \in Workers : fase'[w] = "recPublica" =>
              \/ fase'[w] = fase[w] /\ recup'[w] = recup[w]
              \/ processando'[recup'[w].nome] # Nada
<1> USE DEF Base
<1>1. ASSUME NEW t \in Tarefas, tarefa'[t].fase = "publica", tarefa'[t] # tarefa[t]
      PROVE  processando'[tarefa'[t].nome] # Nada
  <2>1. Move(t)
    BY <1>1, SoMovePublica
  <2>2. PICK m : m = NomeNovo(Dono(t))
    OBVIOUS
  <2>3. processando'[m] = entrada[tarefa[t].caminho] /\ m \in Nomes
    BY <2>1, <2>2, NomesNoMove
  <2>4. tarefa'[t].nome = m /\ entrada[tarefa[t].caminho] # Nada
    BY <2>1, <2>2 DEF Move, Tipado, TipoTarefas, Tarefa
  <2> QED
    BY <2>3, <2>4
<1>2. ASSUME NEW w \in Workers, fase'[w] = "recPublica", ~(fase'[w] = fase[w] /\ recup'[w] = recup[w])
      PROVE  processando'[recup'[w].nome] # Nada
  <2>1. /\ recup'[w].nome = recup[w].nome /\ recup'[w].hash = processando[recup[w].nome]
        /\ processando' = processando
    BY <1>2, RecupNoPasso
  <2>2. recup'[w].hash \in Docs
    BY <1>2, TipadoPreservado DEF Tipado, RecupsCoerentes, RecupCoerente
  <2> QED
    BY <2>1, <2>2, NadaAssumption
<1> QED
  BY <1>1, <1>2

LEMMA PrometidoUsado ==
  ASSUME Base, NomesUsados, NEW e \in Eventos, Prometido(e)
  PROVE  Usado(e.nome)
<1>1. e.nome \in Nomes
  BY DEF Eventos
<1> QED
  BY <1>1, NomeDeTarefaUsado DEF Prometido, NomesUsados, Evento

LEMMA PromessaNoWatcher ==
  ASSUME Base, NomesUsados, UmSoPublica, Capturas, Capturas', GuardaPromessa,
         NextSemConsumidor \/ UNCHANGED vars, UNCHANGED soConsumidor, NEW e \in Eventos, Prometido(e)'
  PROVE  Guardada(e)'
<1> USE DEF Base
<1> DEFINE n == e.nome
           h == e.hash
<1>1. [Next]_vars /\ n \in Nomes /\ UNCHANGED <<processado, registro>>
  BY DEF Next, Eventos, soConsumidor
<1>2. processando'[n] \in {h, Nada}
  BY DEF Capturas, CapturaDasPublicacoes, CapturaDaRecuperacao, CapturaFiel, Prometido, Evento
<1>3. CASE Prometido(e)
  <2>1. Usado(n) /\ processando'[n] \in {processando[n], Nada}
    BY <1>1, <1>3, PrometidoUsado, ConteudoSoSai
  <2>2. ASSUME NEW t \in Tarefas, RejeitaNaoPublicado(t), n = tarefa[t].nome PROVE Guardada(e)'
    <3>1. n \notin aceitos /\ aceitos' = aceitos
      BY <2>2 DEF UmSoPublica, AceitosCertos, NaoAceita, RejeitaNaoPublicado, publicacao
    <3>2. /\ \A u \in Tarefas : tarefa[u].nome = n => u = t
          /\ \A w \in Workers : fase[w] = "recPublica" => recup[w].nome # n
      BY <1>1, <2>2, SoATarefaPublica
    <3>3. UNCHANGED <<fase, recup>> /\ tarefa' = [tarefa EXCEPT ![t] = Livre]
      BY <2>2 DEF RejeitaNaoPublicado, Termina
    <3>4. ~EmPublicacao(n)'
      BY <3>2, <3>3 DEF EmPublicacao, Livre, Tipado, TipoTarefas
    <3> QED
      BY <3>1, <3>4 DEF Guardada
  <2>3. CASE h \in registro \/ h = processado[n]
    BY <1>1, <2>3 DEF Guardada
  <2>4. CASE h = processando[n]
    <3>1. CASE processando'[n] = processando[n]
      BY <2>4, <3>1 DEF Guardada
    <3>2. CASE processando'[n] # processando[n]
      <4>1. ASSUME NEW t \in Tarefas, Move(t) PROVE FALSE
        <5>1. PICK m : m = NomeNovo(Dono(t))
          OBVIOUS
        <5> QED
          BY <1>1, <2>1, <3>2, <4>1, <5>1, NomesNoMove
      <4>2. PICK t \in Tarefas : RejeitaNaoPublicado(t)
        BY <1>1, <3>2, <4>1, PassosDoWatcher DEF Escreve, Tick, ApagaZona, RejeitaEntrada
      <4>3. n = tarefa[t].nome
        BY <1>1, <3>2, <4>2 DEF RejeitaNaoPublicado, Tipado, TipoPastas
      <4> QED
        BY <2>2, <4>2, <4>3
    <3> QED
      BY <3>1, <3>2
  <2>5. CASE n \notin aceitos /\ ~EmPublicacao(n)
    <3>1. n \notin aceitos'
      BY <1>1, <2>5, AceitosNoPasso DEF EmPublicacao, Publica, RecuperaPublica
    <3>2. EmPublicacao(n)' => processando'[n] # Nada
      BY <1>1, <2>5, PublicacaoNova DEF EmPublicacao
    <3> QED
      BY <1>2, <3>1, <3>2 DEF Guardada
  <2> QED
    BY <1>3, <2>3, <2>4, <2>5 DEF GuardaPromessa, Guardada
<1>4. CASE ~Prometido(e)
  <2>1. processando'[n] # Nada
    <3>1. CASE e \in fila'
      BY <1>1, <1>4, <3>1, FilaNoPasso DEF Prometido, Publica, RecuperaPublica
    <3>2. CASE e \notin fila'
      BY <1>1, <1>4, <3>2, PublicacaoNova DEF Prometido, Evento
    <3> QED
      BY <3>1, <3>2
  <2> QED
    BY <1>2, <2>1 DEF Guardada
<1> QED
  BY <1>3, <1>4

LEMMA PromessaNaEntrega ==
  ASSUME Tipado, InvConsumidor, InvGuarda, Capturas, CopiasFieis, SemCorrompidos', PassoConsumidor,
         NEW t \in C!Tarefas, C!PassoTarefa(t), NEW e \in Eventos, Prometido(e), Guardada(e)
  PROVE  Guardada(e)'
<1> DEFINE n == e.nome
           h == e.hash
<1> USE DEF InvConsumidor
<1>1. n \in Nomes /\ h \in Docs /\ h # Nada
  BY NadaAssumption DEF Eventos
<1>2. UNCHANGED <<aceitos, fila, tarefa, fase, recup>>
  BY DEF PassoConsumidor, publicacao
<1>3. registro \subseteq registro'
  BY EfeitoDaEntrega
<1>4. entrega[t].fase # "livre"
  BY EntregaNoPasso
<1>5. PICK f \in Eventos : f \in fila /\ f.nome = N(t) /\ f.hash = H(t)
  BY <1>4 DEF EntregasCertas, EntregaCerta, Anunciada, N, H, Evento, Eventos, Tipado, TipoPublicacao
<1>6. processando[N(t)] \in {H(t), Nada} /\ processado[N(t)] \in {H(t), Nada}
  BY <1>5, StagingFiel DEF CopiasFieis, Prometido
<1>7. CASE h \in registro
  BY <1>3, <1>7 DEF Guardada
<1>8. CASE h = processando[n]
  <2>1. CASE processando'[n] = processando[n]
    BY <1>8, <2>1 DEF Guardada
  <2>2. CASE processando'[n] # processando[n]
    <3>1. /\ n = N(t)
          /\ processado'[n] = processando[n] \/ <<n, processando[n]>> \in separados' \/ entrega[t].fase = "origem"
      BY <1>1, <1>8, <2>2, EfeitoDaEntrega
    <3>2. separados' = {}
      BY DEF SemCorrompidos, NenhumCorrompido
    <3>3. entrega[t].fase = "origem" => h \in registro
      BY <1>1, <1>6, <1>8, <3>1 DEF InvGuarda, Certezas, Certeza
    <3> QED
      BY <1>3, <1>8, <3>1, <3>2, <3>3 DEF Guardada
  <2> QED
    BY <2>1, <2>2
<1>9. CASE h = processado[n]
  <2>1. CASE processado'[n] = processado[n]
    BY <1>9, <2>1 DEF Guardada
  <2>2. CASE processado'[n] # processado[n]
    <3>1. n = N(t) /\ (entrega[t].fase = "copia" \/ processando[n] # Nada)
      BY <1>1, <1>9, <2>2, EfeitoDaEntrega
    <3>2. processando[n] = Nada
      BY <1>1, <1>9 DEF InvGuarda, CopiaUnica
    <3>3. h \in registro
      BY <1>1, <1>6, <1>9, <3>1, <3>2 DEF InvGuarda, Certezas, Certeza
    <3> QED
      BY <1>3, <3>3 DEF Guardada
  <2> QED
    BY <2>1, <2>2
<1>10. CASE n \notin aceitos /\ ~EmPublicacao(n)
  BY <1>2, <1>10 DEF Guardada, EmPublicacao
<1> QED
  BY <1>7, <1>8, <1>9, <1>10 DEF Guardada

LEMMA PromessaPreservada ==
  ASSUME Base, NomesUsados, UmSoPublica, InvConsumidor, InvGuarda, Capturas, Capturas', CopiasFieis,
         SemCorrompidos', GuardaPromessa, [NextPipeline]_varsPipeline
  PROVE  GuardaPromessa'
<1> SUFFICES ASSUME NEW e \in Eventos, Prometido(e)' PROVE Guardada(e)'
  BY DEF GuardaPromessa
<1>1. CASE PassoWatcher
  BY <1>1, PromessaNoWatcher DEF PassoWatcher
<1>2. CASE UNCHANGED <<vars, processado, registro>>
  <2>1. Prometido(e) /\ (Guardada(e)' <=> Guardada(e))
    BY <1>2 DEF Prometido, Guardada, EmPublicacao, vars
  <2> QED
    BY <2>1 DEF GuardaPromessa
<1>3. CASE PassoConsumidor
  <2>1. UNCHANGED <<aceitos, fila, tarefa, fase, recup>>
    BY <1>3 DEF PassoConsumidor, publicacao
  <2>2. Prometido(e) /\ Guardada(e)
    BY <2>1 DEF Prometido, GuardaPromessa
  <2>3. CASE UNCHANGED <<processando, processado, registro>>
    BY <2>1, <2>2, <2>3 DEF Guardada, EmPublicacao
  <2>4. ASSUME NEW p \in Processos, C!CanalCai(p) \/ C!SessaoCai(p) \/ C!Encerra(p)
        PROVE  UNCHANGED <<processando, processado, registro>>
    BY <2>4, ProcessoNoPasso DEF InvConsumidor
  <2>5. ASSUME NEW t \in C!Tarefas, NEW m \in Mensagens, C!Recebe(t, m)
        PROVE  UNCHANGED <<processando, processado, registro>>
    BY <2>5, RecebeNoPasso DEF InvConsumidor
  <2>6. ASSUME NEW t \in C!Tarefas, C!PassoTarefa(t) PROVE Guardada(e)'
    BY <1>3, <2>2, <2>6, PromessaNaEntrega DEF Base
  <2> QED
    BY <1>3, <2>3, <2>4, <2>5, <2>6 DEF PassoConsumidor, C!Next
<1> QED
  BY <1>1, <1>2, <1>3 DEF NextPipeline, Chega, varsPipeline, soConsumidor

(* What the announced hashes have to be right for. *)
LEMMA MensagensSeCapturas ==
  SpecPipeline /\ []Capturas => [](NenhumCorrompido /\ MensagemTemArquivo)
<1> DEFINE Inv == /\ Base /\ NomesUsados /\ UmSoPublica /\ InvConsumidor /\ InvGuarda
                  /\ Capturas /\ CopiasFieis /\ SemCorrompidos
<1>1. InitPipeline => CopiasFieis /\ SemCorrompidos /\ GuardaPromessa
  BY LugarInicial DEF InitPipeline, Init, SemCorrompidos, NenhumCorrompido, GuardaPromessa, Prometido,
                      C!Livre, Livre
<1>2. Base /\ NomesUsados /\ InvConsumidor /\ InvGuarda /\ Capturas /\ CopiasFieis /\ SemCorrompidos
        /\ [NextPipeline]_varsPipeline => CopiasFieis' /\ SemCorrompidos'
  BY CopiasFieisPreservadas, CorrompidosNoPasso DEF InvGuarda, Base, Capturas
<1>3. Inv /\ SemCorrompidos' /\ Capturas' /\ GuardaPromessa /\ [NextPipeline]_varsPipeline => GuardaPromessa'
  BY PromessaPreservada
<1>4. SemCorrompidos => NenhumCorrompido
  BY DEF SemCorrompidos
<1>5. Base /\ GuardaPromessa => MensagemTemArquivo
  BY DEF MensagemTemArquivo, GuardaPromessa, Guardada, Prometido, Eventos, Base, Tipado, TipoPublicacao
<1>6. SpecPipeline => []UmSoPublica
  BY ImplementaWatcherSempre, UmSoPublicaSempre, PTL DEF ImplementaWatcher
<1> QED
  BY <1>1, <1>2, <1>3, <1>4, <1>5, <1>6, InvariantePipeline, GuardaSempre, PTL DEF SpecPipeline

(* With one worker, under the conditions of CapturaFielSempre, and through every crash, failure, lost
   channel or session and overlapping delivery: the announced hash is that of the file; no announced
   file is set aside as corrupt and nothing goes to the DLQ; and an accepted message finds its
   content, in staging or in processado/, until the hash is recorded, although a task whose
   publication was refused takes its file away at once (processar_evento, tratar_erro_processamento). *)
THEOREM MensagensSempre ==
  SoUmMexe => (SpecPipeline => [](CapturaFiel /\ NenhumCorrompido /\ MensagemTemArquivo))
<1> SUFFICES ASSUME SoUmMexe PROVE SpecPipeline => [](CapturaFiel /\ NenhumCorrompido /\ MensagemTemArquivo)
  OBVIOUS
<1>1. SpecPipeline => []Capturas
  BY ImplementaWatcherSempre, IntactosSeSoUmMexe, CapturasDeIntactos, PTL DEF ImplementaWatcher
<1>2. Capturas => CapturaFiel
  BY DEF Capturas
<1> QED
  BY <1>1, <1>2, MensagensSeCapturas, PTL

(* The same for any number of workers over one landing zone and producers that write over their own
   files, as long as no path is ever used for two contents. *)
THEOREM MensagensNomesUnicos ==
  ASSUME NEW c \in [Caminhos -> Docs]
  PROVE  SpecPipeline /\ []UmConteudo(c) => [](CapturaFiel /\ NenhumCorrompido /\ MensagemTemArquivo)
<1>1. SpecPipeline /\ []UmConteudo(c) => []Capturas
  BY ImplementaWatcherSempre, IntactosSeUmConteudo, CapturasDeIntactos, PTL DEF ImplementaWatcher
<1>2. Capturas => CapturaFiel
  BY DEF Capturas
<1> QED
  BY <1>1, <1>2, MensagensSeCapturas, PTL
=============================================================================
