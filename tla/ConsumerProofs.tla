--------------------------- MODULE ConsumerProofs ---------------------------
(***************************************************************************)
(* Proofs about the consumer, for every number of processes, permits,      *)
(* messages, files, failures and lost channels.                            *)
(***************************************************************************)
EXTENDS Consumer, TLAPS

(* TypeOK, split by what the actions touch together. *)
TipoFila ==
  /\ msg \in [Mensagens -> Processos \cup {"fila", "confirmada"}] /\ dlq \subseteq Mensagens
  /\ estado \in [Processos -> Estados]
TipoPastas ==
  /\ processando \in [Nomes -> Docs \cup {Nada}] /\ processado \in [Nomes -> Docs \cup {Nada}]
  /\ erro \subseteq Nomes \X Docs /\ recibos \subseteq Nomes
TipoGuardado ==
  /\ objetos \subseteq Docs \X Docs /\ registro \subseteq Docs /\ semBanco \subseteq Processos
  /\ falhas \in 0..MaxFalhas /\ quedas \in 0..MaxQuedas
TipoTarefas == tarefa \in [Tarefas -> [fase : Fases, msg : Mensagens \cup {Nada}, duplicata : BOOLEAN]]

(* A task that runs has a message, and one that got as far as the folders or the stores has one
   that parses. *)
TarefaCoerente(r) ==
  /\ r.fase # "livre" => r.msg \in Mensagens
  /\ r.fase \notin {"livre", "dlq", "ackDlq"} => r.msg \in Validas
TarefasCoerentes == \A t \in Tarefas : TarefaCoerente(tarefa[t])

(* A staging name never holds anything but what the watcher put there. *)
Intactas ==
  \A n \in Nomes : processando[n] \in {ConteudoDe[n], Nada} /\ processado[n] \in {ConteudoDe[n], Nada}

Tipado == TipoFila /\ TipoPastas /\ TipoGuardado /\ TipoTarefas /\ TarefasCoerentes /\ Intactas

(* What each phase of a task knows to be done already. *)
Sabe(r) ==
  /\ r.fase \in {"renomeia", "envia"} => ConteudoDe[NomeDe[r.msg]] = HashDe[r.msg]
  /\ r.fase = "separa" => ConteudoDe[NomeDe[r.msg]] # HashDe[r.msg]
  /\ r.fase = "registra" => <<HashDe[r.msg], HashDe[r.msg]>> \in objetos
  /\ r.fase \in {"ack", "recibo", "origem", "copia"} => HashDe[r.msg] \in registro
  /\ r.fase = "ackDlq" => r.msg \in dlq
TodasSabem == \A t \in Tarefas : Sabe(tarefa[t])

IInv == Tipado /\ TodasSabem /\ BancoNaoMente /\ ConfirmadaSoDepois /\ CopiaSoSaiGuardada

LEMMA TypeOKEmPartes == Tipado => TypeOK
  BY DEF Tipado, TypeOK, TipoFila, TipoPastas, TipoGuardado, TipoTarefas

(* A step of a task changes the record of that task only. *)
LEMMA MudaFase ==
  ASSUME TipoTarefas, NEW t \in Tarefas, NEW f \in Fases, Vai(t, f)
  PROVE  /\ TipoTarefas'
         /\ tarefa'[t] = [tarefa[t] EXCEPT !.fase = f]
         /\ \A u \in Tarefas \ {t} : tarefa'[u] = tarefa[u]
  BY DEF TipoTarefas, Vai

LEMMA Acaba ==
  ASSUME TipoTarefas, NEW t \in Tarefas, Termina(t)
  PROVE  /\ TipoTarefas' /\ tarefa'[t] = Livre
         /\ \A u \in Tarefas \ {t} : tarefa'[u] = tarefa[u]
  BY DEF TipoTarefas, Termina, Livre, Fases

(* The same of every step of a task. *)
LEMMA TarefasNoPasso ==
  ASSUME TipoTarefas, NEW t \in Tarefas, PassoTarefa(t)
  PROVE  /\ TipoTarefas'
         /\ \A u \in Tarefas \ {t} : tarefa'[u] = tarefa[u]
         /\ tarefa'[t] = Livre \/ (tarefa'[t].msg = tarefa[t].msg /\ tarefa[t].fase # "livre")
<1> USE DEF Em
<1> DEFINE Conclusao ==
      /\ TipoTarefas'
      /\ \A u \in Tarefas \ {t} : tarefa'[u] = tarefa[u]
      /\ tarefa'[t] = Livre \/ (tarefa'[t].msg = tarefa[t].msg /\ tarefa[t].fase # "livre")
<1>0. tarefa[t] \in [fase : Fases, msg : Mensagens \cup {Nada}, duplicata : BOOLEAN]
  BY DEF TipoTarefas
<1>1. ASSUME NEW f \in Fases, Vai(t, f), tarefa[t].fase # "livre" PROVE Conclusao
  BY <1>0, <1>1, MudaFase
<1>2. ASSUME Termina(t) PROVE Conclusao
  BY <1>2, Acaba
<1>3. CASE Consulta(t)
  <2>1. CASE tarefa' = [tarefa EXCEPT ![t].fase = "ack", ![t].duplicata = TRUE]
    BY <1>0, <1>3, <2>1 DEF Consulta, TipoTarefas, Fases
  <2> QED
    BY <1>1, <1>3, <2>1 DEF Consulta, Fases
<1>4. CASE Verifica(t) BY <1>1, <1>4 DEF Verifica, Fases
<1>5. CASE VerificaDestino(t) BY <1>1, <1>5 DEF VerificaDestino, Fases
<1>6. CASE Confere(t) BY <1>1, <1>6 DEF Confere, Fases
<1>7. CASE Renomeia(t) BY <1>1, <1>7 DEF Renomeia, Fases
<1>8. CASE Envia(t) BY <1>1, <1>8 DEF Envia, Fases
<1>9. CASE Registra(t) BY <1>1, <1>9 DEF Registra, Fases
<1>10. CASE Confirma(t) BY <1>1, <1>10 DEF Confirma, Fases
<1>11. CASE ApagaRecibo(t) BY <1>1, <1>11 DEF ApagaRecibo, Fases
<1>12. CASE ApagaOrigem(t) BY <1>1, <1>12 DEF ApagaOrigem, Fases
<1>13. CASE ApagaCopia(t) BY <1>2, <1>13 DEF ApagaCopia
<1>14. CASE Devolve(t) BY <1>2, <1>14 DEF Devolve
<1>15. CASE Separa(t) BY <1>1, <1>15 DEF Separa, Fases
<1>16. CASE PublicaDlq(t) BY <1>1, <1>2, <1>16 DEF PublicaDlq, FalhaTarefa, Fases
<1>17. CASE ConfirmaDlq(t) BY <1>2, <1>17 DEF ConfirmaDlq
<1>18. CASE SemCanal(t) BY <1>2, <1>18 DEF SemCanal, FalhaTarefa
<1> QED
  BY <1>3, <1>4, <1>5, <1>6, <1>7, <1>8, <1>9, <1>10, <1>11, <1>12, <1>13, <1>14, <1>15,
     <1>16, <1>17, <1>18 DEF PassoTarefa

(* A running task and what its message names. *)
LEMMA MensagemDaTarefa ==
  ASSUME Tipado, NEW t \in Tarefas
  PROVE  /\ tarefa[t] \in [fase : Fases, msg : Mensagens \cup {Nada}, duplicata : BOOLEAN]
         /\ ~Em(t, "livre") => tarefa[t].msg \in Mensagens /\ Nome(t) \in Nomes /\ Hash(t) \in Docs
         /\ tarefa[t].fase \notin {"livre", "dlq", "ackDlq"} => tarefa[t].msg \in Validas
         /\ ~Em(t, "livre") => Hash(t) # Nada
         /\ ProcessoDe(t) \in Processos
BY EventosAssumption, NadaAssumption
   DEF Tipado, TipoTarefas, TarefasCoerentes, TarefaCoerente, Em, Nome, Hash, Tarefas, ProcessoDe

-----------------------------------------------------------------------------
(* What is recorded, stored or dead-lettered stays so, and a step of a task leaves it in a
   phase whose knowledge is justified. *)
Cresce == registro \subseteq registro' /\ objetos \subseteq objetos' /\ dlq \subseteq dlq'

LEMMA CresceNoPasso ==
  ASSUME NEW t \in Tarefas, PassoTarefa(t)
  PROVE  Cresce
BY DEF Cresce, PassoTarefa, Consulta, Verifica, VerificaDestino, Confere, Renomeia, Envia,
       Registra, Confirma, ApagaRecibo, ApagaOrigem, ApagaCopia, Devolve, Separa, PublicaDlq,
       ConfirmaDlq, SemCanal

LEMMA SabeNoPasso ==
  ASSUME Tipado, TodasSabem, BancoNaoMente, NEW t \in Tarefas, PassoTarefa(t)
  PROVE  TarefaCoerente(tarefa'[t]) /\ Sabe(tarefa[t])'
<1> USE DEF Em
<1> DEFINE r == tarefa[t]
           Bem == TarefaCoerente(tarefa'[t]) /\ Sabe(tarefa[t])'
<1>1. /\ r \in [fase : Fases, msg : Mensagens \cup {Nada}, duplicata : BOOLEAN]
      /\ TarefaCoerente(r) /\ Sabe(r) /\ TipoTarefas
  BY DEF Tipado, TipoTarefas, TarefasCoerentes, TodasSabem
<1>2. ASSUME Termina(t) PROVE Bem
  <2>1. tarefa'[t] = Livre
    BY <1>1, <1>2, Acaba
  <2> QED
    BY <2>1 DEF TarefaCoerente, Sabe, Livre
<1>3. ASSUME NEW f \in Fases, Vai(t, f)
      PROVE  tarefa'[t].fase = f /\ tarefa'[t].msg = r.msg
  <2>1. tarefa'[t] = [r EXCEPT !.fase = f]
    BY <1>1, <1>3, MudaFase
  <2> QED
    BY <1>1, <2>1
<1>4. ASSUME Vai(t, "nack") \/ Vai(t, "verifica") \/ Vai(t, "destino") \/ Vai(t, "confere"),
             r.fase \notin {"livre", "dlq", "ackDlq"}
      PROVE  Bem
  BY <1>1, <1>3, <1>4 DEF TarefaCoerente, Sabe, Fases
<1>5. CASE Consulta(t)
  <2>1. CASE Hash(t) \in registro /\ tarefa' = [tarefa EXCEPT ![t].fase = "ack", ![t].duplicata = TRUE]
    <3>1. tarefa'[t].fase = "ack" /\ tarefa'[t].msg = r.msg
      BY <1>1, <2>1 DEF TipoTarefas
    <3> QED
      BY <1>1, <1>5, <2>1, <3>1 DEF Consulta, TarefaCoerente, Sabe, Hash
  <2> QED
    BY <1>4, <1>5, <2>1 DEF Consulta
<1>6. CASE Verifica(t) BY <1>4, <1>6 DEF Verifica
<1>7. CASE VerificaDestino(t)
  <2>1. CASE processado[Nome(t)] = Hash(t) /\ Vai(t, "envia")
    <3>1. ConteudoDe[Nome(t)] = Hash(t)
      BY <1>7, <2>1, MensagemDaTarefa DEF VerificaDestino, Tipado, Intactas
    <3>2. tarefa'[t].fase = "envia" /\ tarefa'[t].msg = r.msg
      BY <1>3, <2>1 DEF Fases
    <3> QED
      BY <1>1, <1>7, <3>1, <3>2 DEF VerificaDestino, TarefaCoerente, Sabe, Nome, Hash
  <2> QED
    BY <1>4, <1>7, <2>1 DEF VerificaDestino
<1>8. CASE Confere(t)
  <2> DEFINE c == processando[Nome(t)]
  <2>1. c \in {ConteudoDe[Nome(t)], Nada} /\ Hash(t) # Nada
    BY <1>8, MensagemDaTarefa DEF Confere, Tipado, Intactas
  <2>2. CASE c = Hash(t) /\ Vai(t, "renomeia")
    <3>1. tarefa'[t].fase = "renomeia" /\ tarefa'[t].msg = r.msg
      BY <1>3, <2>2 DEF Fases
    <3> QED
      BY <1>1, <1>8, <2>1, <2>2, <3>1 DEF Confere, TarefaCoerente, Sabe, Nome, Hash
  <2>3. CASE c \notin {Hash(t), Nada} /\ Vai(t, "separa")
    <3>1. tarefa'[t].fase = "separa" /\ tarefa'[t].msg = r.msg
      BY <1>3, <2>3 DEF Fases
    <3> QED
      BY <1>1, <1>8, <2>1, <2>3, <3>1 DEF Confere, TarefaCoerente, Sabe, Nome, Hash
  <2> QED
    BY <1>4, <1>8, <2>2, <2>3 DEF Confere
<1>9. CASE Renomeia(t)
  <2>1. CASE Vai(t, "envia")
    BY <1>1, <1>3, <1>9, <2>1 DEF Renomeia, TarefaCoerente, Sabe, Fases
  <2> QED
    BY <1>4, <1>9, <2>1 DEF Renomeia
<1>10. CASE Envia(t)
  <2>1. CASE Vai(t, "registra") /\ processado[Nome(t)] # Nada
             /\ objetos' = objetos \cup {<<Hash(t), processado[Nome(t)]>>}
    <3>1. processado[Nome(t)] = Hash(t)
      BY <1>1, <1>10, <2>1, MensagemDaTarefa DEF Envia, Sabe, Nome, Hash, Tipado, Intactas
    <3>2. tarefa'[t].fase = "registra" /\ tarefa'[t].msg = r.msg
      BY <1>3, <2>1 DEF Fases
    <3> QED
      BY <1>1, <1>10, <2>1, <3>1, <3>2 DEF Envia, TarefaCoerente, Sabe, Hash
  <2> QED
    BY <1>4, <1>10, <2>1 DEF Envia
<1>11. CASE Registra(t)
  <2>1. CASE Vai(t, "ack") /\ registro' = registro \cup {Hash(t)}
    <3>1. tarefa'[t].fase = "ack" /\ tarefa'[t].msg = r.msg
      BY <1>3, <2>1 DEF Fases
    <3> QED
      BY <1>1, <1>11, <2>1, <3>1 DEF Registra, TarefaCoerente, Sabe, Hash
  <2> QED
    BY <1>4, <1>11, <2>1 DEF Registra
<1>12. CASE Confirma(t)
  BY <1>1, <1>3, <1>12 DEF Confirma, TarefaCoerente, Sabe, Fases
<1>13. CASE ApagaRecibo(t)
  BY <1>1, <1>3, <1>13 DEF ApagaRecibo, TarefaCoerente, Sabe, Fases
<1>14. CASE ApagaOrigem(t)
  BY <1>1, <1>3, <1>14 DEF ApagaOrigem, TarefaCoerente, Sabe, Fases
<1>15. CASE ApagaCopia(t) BY <1>2, <1>15 DEF ApagaCopia
<1>16. CASE Devolve(t) BY <1>2, <1>16 DEF Devolve
<1>17. CASE Separa(t)
  BY <1>1, <1>3, <1>17 DEF Separa, TarefaCoerente, Sabe, Fases
<1>18. CASE PublicaDlq(t)
  <2>1. CASE dlq' = dlq \cup {r.msg} /\ Vai(t, "ackDlq")
    BY <1>1, <1>3, <1>18, <2>1 DEF PublicaDlq, TarefaCoerente, Sabe, Fases
  <2> QED
    BY <1>2, <1>18, <2>1 DEF PublicaDlq, FalhaTarefa
<1>19. CASE ConfirmaDlq(t) BY <1>2, <1>19 DEF ConfirmaDlq
<1>20. CASE SemCanal(t) BY <1>2, <1>20 DEF SemCanal, FalhaTarefa
<1> QED
  BY <1>5, <1>6, <1>7, <1>8, <1>9, <1>10, <1>11, <1>12, <1>13, <1>14, <1>15, <1>16, <1>17,
     <1>18, <1>19, <1>20 DEF PassoTarefa

(* The knowledge of the others survives what one task does. *)
LEMMA TodasNoPasso ==
  ASSUME Tipado, TodasSabem, BancoNaoMente, NEW t \in Tarefas, PassoTarefa(t)
  PROVE  TipoTarefas' /\ TarefasCoerentes' /\ TodasSabem'
<1>1. TipoTarefas' /\ \A u \in Tarefas \ {t} : tarefa'[u] = tarefa[u]
  BY TarefasNoPasso DEF Tipado
<1>2. TarefaCoerente(tarefa'[t]) /\ Sabe(tarefa[t])' /\ Cresce
  BY SabeNoPasso, CresceNoPasso
<1>3. TarefasCoerentes'
  BY <1>1, <1>2 DEF Tipado, TarefasCoerentes, TarefaCoerente
<1>4. ASSUME NEW u \in Tarefas PROVE Sabe(tarefa[u])'
  BY <1>1, <1>2 DEF TodasSabem, Sabe, Cresce
<1> QED
  BY <1>1, <1>3, <1>4 DEF TodasSabem

-----------------------------------------------------------------------------
LEMMA FalhaTipada ==
  ASSUME falhas \in 0..MaxFalhas, Falha \/ UNCHANGED falhas
  PROVE  falhas' \in 0..MaxFalhas
BY LimitesAssumption DEF Falha

LEMMA TiposNoPasso ==
  ASSUME Tipado, NEW t \in Tarefas, PassoTarefa(t)
  PROVE  TipoFila' /\ TipoPastas' /\ TipoGuardado' /\ Intactas'
<1> DEFINE m == tarefa[t].msg
           Tipos == TipoFila' /\ TipoPastas' /\ TipoGuardado' /\ Intactas'
<1> USE DEF Em
<1>1. TipoFila /\ TipoPastas /\ TipoGuardado /\ Intactas
  BY DEF Tipado
<1>2. ~Em(t, "livre") => m \in Mensagens /\ Nome(t) \in Nomes /\ Hash(t) \in Docs
  BY MensagemDaTarefa
<1>3. ProcessoDe(t) \in Processos
  BY MensagemDaTarefa
<1>4. falhas' \in 0..MaxFalhas /\ quedas' \in 0..MaxQuedas /\ semBanco' \subseteq Processos
  <2>1. (Falha \/ UNCHANGED falhas) /\ UNCHANGED <<semBanco, quedas>>
    BY DEF PassoTarefa, Consulta, Verifica, VerificaDestino, Confere, Renomeia, Envia, Registra,
           Confirma, ApagaRecibo, ApagaOrigem, ApagaCopia, Devolve, Separa, PublicaDlq, ConfirmaDlq, SemCanal
  <2> QED
    BY <1>1, <2>1, FalhaTipada DEF TipoGuardado
<1>5. ASSUME UNCHANGED <<msg, dlq, estado>> PROVE TipoFila'
  BY <1>1, <1>5 DEF TipoFila
<1>6. ASSUME UNCHANGED pastas PROVE TipoPastas' /\ Intactas'
  BY <1>1, <1>6 DEF TipoPastas, Intactas, pastas
<1>7. ASSUME UNCHANGED <<objetos, registro>> PROVE TipoGuardado'
  BY <1>1, <1>4, <1>7 DEF TipoGuardado
<1>8. ASSUME FalhaTarefa(t), UNCHANGED msg, dlq' \subseteq Mensagens PROVE TipoFila'
  BY <1>1, <1>3, <1>8 DEF FalhaTarefa, TipoFila, Estados
<1>9. CASE Consulta(t) \/ Verifica(t) \/ VerificaDestino(t) \/ Confere(t)
  BY <1>5, <1>6, <1>7, <1>9 DEF Consulta, Verifica, VerificaDestino, Confere
<1>10. CASE Renomeia(t)
  <2>1. TipoPastas' /\ Intactas'
    BY <1>1, <1>2, <1>10 DEF Renomeia, TipoPastas, Intactas
  <2> QED
    BY <1>5, <1>7, <1>10, <2>1 DEF Renomeia
<1>11. CASE Envia(t)
  <2>1. objetos' \subseteq Docs \X Docs
    BY <1>1, <1>2, <1>11, NadaAssumption DEF Envia, TipoPastas, TipoGuardado
  <2> QED
    BY <1>1, <1>4, <1>5, <1>6, <1>11, <2>1 DEF Envia, TipoGuardado
<1>12. CASE Registra(t)
  <2>1. registro' \subseteq Docs /\ UNCHANGED objetos
    BY <1>1, <1>2, <1>12 DEF Registra, TipoGuardado
  <2> QED
    BY <1>1, <1>4, <1>5, <1>6, <1>12, <2>1 DEF Registra, TipoGuardado
<1>13. CASE Confirma(t) \/ Devolve(t) \/ ConfirmaDlq(t)
  <2>1. TipoFila'
    BY <1>1, <1>2, <1>13 DEF Confirma, Devolve, ConfirmaDlq, TipoFila
  <2> QED
    BY <1>6, <1>7, <1>13, <2>1 DEF Confirma, Devolve, ConfirmaDlq
<1>14. CASE ApagaRecibo(t) \/ ApagaOrigem(t) \/ ApagaCopia(t) \/ Separa(t)
  <2>1. TipoPastas' /\ Intactas'
    BY <1>1, <1>2, <1>14 DEF ApagaRecibo, ApagaOrigem, ApagaCopia, Separa, TipoPastas, Intactas
  <2> QED
    BY <1>5, <1>7, <1>14, <2>1 DEF ApagaRecibo, ApagaOrigem, ApagaCopia, Separa
<1>15. CASE PublicaDlq(t)
  <2>1. dlq' \subseteq Mensagens /\ UNCHANGED msg
    BY <1>1, <1>2, <1>15 DEF PublicaDlq, TipoFila
  <2>2. TipoFila'
    BY <1>1, <1>8, <1>15, <2>1 DEF PublicaDlq, TipoFila
  <2> QED
    BY <1>6, <1>7, <1>15, <2>2 DEF PublicaDlq
<1>16. CASE SemCanal(t)
  BY <1>1, <1>6, <1>7, <1>8, <1>16 DEF SemCanal, TipoFila
<1> QED
  BY <1>9, <1>10, <1>11, <1>12, <1>13, <1>14, <1>15, <1>16 DEF PassoTarefa

-----------------------------------------------------------------------------
(* The three safety properties, one task step at a time. *)
LEMMA BancoNoPasso ==
  ASSUME Tipado, TodasSabem, BancoNaoMente, NEW t \in Tarefas, PassoTarefa(t)
  PROVE  BancoNaoMente'
<1> USE DEF Em
<1>1. Sabe(tarefa[t])
  BY DEF TodasSabem
<1>2. CASE Envia(t)
  <2>1. processado[Nome(t)] \in {Hash(t), Nada}
    BY <1>1, <1>2, MensagemDaTarefa DEF Envia, Sabe, Nome, Hash, Tipado, Intactas
  <2> QED
    BY <1>2, <2>1 DEF Envia, BancoNaoMente
<1>3. CASE Registra(t)
  BY <1>1, <1>3 DEF Registra, Sabe, Hash, BancoNaoMente
<1>4. CASE UNCHANGED <<objetos, registro>>
  BY <1>4 DEF BancoNaoMente
<1> QED
  BY <1>2, <1>3, <1>4
     DEF PassoTarefa, Consulta, Verifica, VerificaDestino, Confere, Renomeia, Confirma, ApagaRecibo,
         ApagaOrigem, ApagaCopia, Devolve, Separa, PublicaDlq, ConfirmaDlq, SemCanal

LEMMA ConfirmadaNoPasso ==
  ASSUME Tipado, TodasSabem, ConfirmadaSoDepois, NEW t \in Tarefas, PassoTarefa(t)
  PROVE  ConfirmadaSoDepois'
<1> USE DEF Em
<1>1. Sabe(tarefa[t]) /\ Cresce
  BY CresceNoPasso DEF TodasSabem
<1>2. CASE UNCHANGED msg
  BY <1>1, <1>2 DEF ConfirmadaSoDepois, Cresce
<1>3. CASE Confirma(t)
  BY <1>1, <1>3, MensagemDaTarefa DEF Confirma, Sabe, Hash, ConfirmadaSoDepois, Cresce, Tipado, TipoFila
<1>4. CASE ConfirmaDlq(t)
  BY <1>1, <1>4 DEF ConfirmaDlq, Sabe, ConfirmadaSoDepois, Cresce, Tipado, TipoFila
<1>5. CASE Devolve(t)
  BY <1>1, <1>5 DEF Devolve, ConfirmadaSoDepois, Cresce, Tipado, TipoFila
<1> QED
  BY <1>2, <1>3, <1>4, <1>5
     DEF PassoTarefa, Consulta, Verifica, VerificaDestino, Confere, Renomeia, Envia, Registra,
         ApagaRecibo, ApagaOrigem, ApagaCopia, Separa, PublicaDlq, SemCanal

LEMMA CopiaNoPasso ==
  ASSUME Tipado, TodasSabem, BancoNaoMente, CopiaSoSaiGuardada, NEW t \in Tarefas, PassoTarefa(t)
  PROVE  CopiaSoSaiGuardada'
<1> USE DEF Em
<1> DEFINE Guardada(n) == ConteudoDe[n] \in registro /\ <<ConteudoDe[n], ConteudoDe[n]>> \in objetos
<1>1. Sabe(tarefa[t]) /\ Cresce
  BY CresceNoPasso DEF TodasSabem
<1>2. \A n \in Fieis : n = Nome(t) /\ tarefa[t].msg \in Validas => HashDe[tarefa[t].msg] = ConteudoDe[n]
  BY DEF Fieis, Nome
<1>3. ASSUME \A n \in Fieis : \/ Guardada(n)
                             \/ /\ processando'[n] = processando[n] /\ processado'[n] = processado[n]
                                /\ n \in recibos => n \in recibos'
             PROVE CopiaSoSaiGuardada'
  BY <1>1, <1>3 DEF CopiaSoSaiGuardada, Cresce
<1>4. ASSUME tarefa[t].fase \in {"recibo", "origem", "copia"} PROVE Nome(t) \in Fieis => Guardada(Nome(t))
  BY <1>1, <1>2, <1>4, MensagemDaTarefa DEF Sabe, BancoNaoMente, Hash
<1>5. CASE Renomeia(t)
  <2>1. /\ UNCHANGED recibos
        /\ \A n \in Nomes \ {Nome(t)} : processando'[n] = processando[n] /\ processado'[n] = processado[n]
    BY <1>5, MensagemDaTarefa DEF Renomeia, Tipado, TipoPastas
  <2>2. \/ processado'[Nome(t)] = ConteudoDe[Nome(t)]
        \/ processando'[Nome(t)] = processando[Nome(t)] /\ processado'[Nome(t)] = processado[Nome(t)]
    BY <1>5, MensagemDaTarefa DEF Renomeia, Tipado, TipoPastas, Intactas
  <2> QED
    BY <1>1, <2>1, <2>2 DEF CopiaSoSaiGuardada, Cresce, Fieis
<1>6. CASE Separa(t)
  <2>1. Nome(t) \notin Fieis
    BY <1>1, <1>2, <1>6, MensagemDaTarefa DEF Separa, Sabe, Nome
  <2>2. UNCHANGED <<processado, recibos>> /\ \A n \in Nomes \ {Nome(t)} : processando'[n] = processando[n]
    BY <1>6, MensagemDaTarefa DEF Separa, Tipado, TipoPastas
  <2> QED
    BY <1>3, <2>1, <2>2 DEF Fieis
<1>7. CASE ApagaRecibo(t) \/ ApagaOrigem(t) \/ ApagaCopia(t)
  <2>1. \A n \in Nomes \ {Nome(t)} : /\ processando'[n] = processando[n] /\ processado'[n] = processado[n]
                                     /\ n \in recibos => n \in recibos'
    BY <1>7, MensagemDaTarefa DEF ApagaRecibo, ApagaOrigem, ApagaCopia, Tipado, TipoPastas
  <2>2. Nome(t) \in Fieis => Guardada(Nome(t))
    BY <1>4, <1>7 DEF ApagaRecibo, ApagaOrigem, ApagaCopia
  <2>3. \A n \in Fieis : \/ Guardada(n)
                         \/ /\ processando'[n] = processando[n] /\ processado'[n] = processado[n]
                            /\ n \in recibos => n \in recibos'
    <3> HIDE DEF Guardada
    <3> QED
      BY <2>1, <2>2 DEF Fieis
  <2> QED
    BY <1>1, <2>3 DEF CopiaSoSaiGuardada, Cresce
<1>8. CASE UNCHANGED pastas
  BY <1>3, <1>8 DEF pastas
<1> QED
  BY <1>5, <1>6, <1>7, <1>8
     DEF PassoTarefa, Consulta, Verifica, VerificaDestino, Confere, Envia, Registra, Confirma, Devolve,
         PublicaDlq, ConfirmaDlq, SemCanal

-----------------------------------------------------------------------------
(* The main loop: it only starts and ends tasks and hands messages back. *)
LEMMA RecebePreserva ==
  ASSUME IInv, NEW t \in Tarefas, NEW m \in Mensagens, Recebe(t, m)
  PROVE  IInv'
<1> DEFINE r == [fase |-> IF m \in Invalidas THEN "dlq" ELSE "consulta", msg |-> m, duplicata |-> FALSE]
<1>1. Tipado /\ TodasSabem /\ ProcessoDe(t) \in Processos
  BY DEF IInv, Tarefas, ProcessoDe
<1>2. r \in [fase : Fases, msg : Mensagens \cup {Nada}, duplicata : BOOLEAN]
  BY DEF Fases
<1>3. tarefa' = [tarefa EXCEPT ![t] = r]
  BY DEF Recebe
<1>4. TarefaCoerente(r) /\ r.fase \in {"dlq", "consulta"}
  BY DEF TarefaCoerente, Validas
<1>5. TipoTarefas' /\ \A u \in Tarefas : tarefa'[u] = IF u = t THEN r ELSE tarefa[u]
  BY <1>1, <1>2, <1>3 DEF Tipado, TipoTarefas
<1> HIDE DEF r
<1>6. TarefasCoerentes'
  BY <1>1, <1>4, <1>5 DEF Tipado, TarefasCoerentes, TarefaCoerente
<1>7. TodasSabem'
  <2>1. ASSUME NEW u \in Tarefas PROVE Sabe(tarefa[u])'
    BY <1>1, <1>4, <1>5, <2>1 DEF TodasSabem, Sabe, Recebe
  <2> QED
    BY <2>1 DEF TodasSabem
<1>8. TipoFila'
  BY <1>1 DEF Recebe, Tipado, TipoFila, Estados
<1>9. TipoPastas' /\ TipoGuardado' /\ Intactas'
  BY <1>1 DEF Recebe, Tipado, TipoPastas, TipoGuardado, Intactas, pastas
<1>10. ConfirmadaSoDepois'
  BY <1>1, NadaAssumption DEF Recebe, IInv, ConfirmadaSoDepois, Tipado, TipoFila
<1>11. BancoNaoMente' /\ CopiaSoSaiGuardada'
  BY DEF Recebe, IInv, BancoNaoMente, CopiaSoSaiGuardada, pastas
<1> QED
  BY <1>5, <1>6, <1>7, <1>8, <1>9, <1>10, <1>11 DEF IInv, Tipado

LEMMA ProcessoPreserva ==
  ASSUME IInv, NEW p \in Processos, CanalCai(p) \/ SessaoCai(p) \/ Encerra(p)
  PROVE  IInv'
<1>1. Tipado /\ TodasSabem
  BY DEF IInv
<1>2. TipoFila'
  BY <1>1 DEF CanalCai, SessaoCai, Encerra, Devolvidas, Tipado, TipoFila, Estados
<1>3. UNCHANGED <<dlq, processando, processado, erro, recibos, objetos, registro, falhas>>
  BY DEF CanalCai, SessaoCai, Encerra, pastas
<1>4. quedas' \in 0..MaxQuedas /\ semBanco' \subseteq Processos
  BY <1>1, LimitesAssumption DEF CanalCai, SessaoCai, Encerra, Tipado, TipoGuardado
<1>5. TipoPastas' /\ TipoGuardado' /\ Intactas' /\ BancoNaoMente' /\ CopiaSoSaiGuardada'
  BY <1>1, <1>3, <1>4 DEF IInv, Tipado, TipoPastas, TipoGuardado, Intactas, BancoNaoMente, CopiaSoSaiGuardada
<1>6. ConfirmadaSoDepois'
  <2>1. \A m \in Mensagens : msg'[m] = "confirmada" => msg[m] = "confirmada"
    BY DEF CanalCai, SessaoCai, Encerra, Devolvidas
  <2> QED
    BY <1>3, <2>1 DEF IInv, ConfirmadaSoDepois
<1>7. TipoTarefas' /\ \A u \in Tarefas : tarefa'[u] \in {Livre, tarefa[u]}
  <2>1. Livre \in [fase : Fases, msg : Mensagens \cup {Nada}, duplicata : BOOLEAN]
    BY DEF Livre, Fases
  <2>2. CASE CanalCai(p) \/ SessaoCai(p)
    BY <1>1, <2>2 DEF CanalCai, SessaoCai, Tipado, TipoTarefas
  <2>3. CASE Encerra(p)
    BY <1>1, <2>1, <2>3 DEF Encerra, Tipado, TipoTarefas
  <2> QED
    BY <2>2, <2>3
<1>8. TarefasCoerentes'
  BY <1>1, <1>7 DEF Tipado, TarefasCoerentes, TarefaCoerente, Livre
<1>9. TodasSabem'
  <2>1. ASSUME NEW u \in Tarefas PROVE Sabe(tarefa[u])'
    BY <1>1, <1>3, <1>7, <2>1 DEF TodasSabem, Sabe, Livre
  <2> QED
    BY <2>1 DEF TodasSabem
<1> QED
  BY <1>2, <1>5, <1>6, <1>7, <1>8, <1>9 DEF IInv, Tipado

LEMMA IInvInicial == Init => IInv
<1> SUFFICES ASSUME Init PROVE IInv
  OBVIOUS
<1>1. TipoFila /\ TipoGuardado
  BY LimitesAssumption DEF Init, TipoFila, TipoGuardado, Estados
<1>2. TipoPastas /\ Intactas
  BY EventosAssumption DEF Init, TipoPastas, Intactas
<1>3. TipoTarefas /\ \A t \in Tarefas : tarefa[t] = Livre
  BY DEF Init, TipoTarefas, Livre, Fases
<1>4. TarefasCoerentes /\ TodasSabem
  BY <1>3 DEF TarefasCoerentes, TarefaCoerente, TodasSabem, Sabe, Livre
<1>5. BancoNaoMente /\ ConfirmadaSoDepois /\ CopiaSoSaiGuardada
  BY DEF Init, BancoNaoMente, ConfirmadaSoDepois, CopiaSoSaiGuardada, Fieis
<1> QED
  BY <1>1, <1>2, <1>3, <1>4, <1>5 DEF IInv, Tipado

LEMMA IInvPreservado == IInv /\ [Next]_vars => IInv'
<1> SUFFICES ASSUME IInv, [Next]_vars PROVE IInv'
  OBVIOUS
<1>1. ASSUME NEW t \in Tarefas, PassoTarefa(t) PROVE IInv'
  <2>1. Tipado /\ TodasSabem /\ BancoNaoMente /\ ConfirmadaSoDepois /\ CopiaSoSaiGuardada
    BY DEF IInv
  <2> QED
    BY <1>1, <2>1, TodasNoPasso, TiposNoPasso, BancoNoPasso, ConfirmadaNoPasso, CopiaNoPasso DEF IInv, Tipado
<1>2. CASE UNCHANGED vars
  <2>1. UNCHANGED <<msg, dlq, estado, tarefa, semBanco, processando, processado, erro, recibos,
                    objetos, registro, falhas, quedas>>
    BY <1>2 DEF vars
  <2>2. Tipado'
    BY <2>1 DEF IInv, Tipado, TipoFila, TipoPastas, TipoGuardado, TipoTarefas, TarefasCoerentes,
                TarefaCoerente, Intactas
  <2>3. TodasSabem'
    BY <2>1 DEF IInv, TodasSabem, Sabe
  <2> QED
    BY <2>1, <2>2, <2>3 DEF IInv, BancoNaoMente, ConfirmadaSoDepois, CopiaSoSaiGuardada
<1> QED
  BY <1>1, <1>2, RecebePreserva, ProcessoPreserva DEF Next

THEOREM InvarianteDoConsumidor == Spec => []IInv
<1> QED
  BY IInvInicial, IInvPreservado, PTL DEF Spec

(* The variables of the consumer stay well typed for every number of processes and messages. *)
THEOREM TeoTypeOK == Spec => []TypeOK
<1>1. IInv => TypeOK
  BY TypeOKEmPartes DEF IInv
<1> QED
  BY <1>1, InvarianteDoConsumidor, PTL

(* Whatever uploads and statements fail, half-succeed or run twice, the table of hashes names
   only stored objects, and each object is stored under its own hash (enviar before
   registrar_processado, the hash compared before both). *)
THEOREM TeoBancoNaoMente == Spec => []BancoNaoMente
<1>1. IInv => BancoNaoMente
  BY DEF IInv
<1> QED
  BY <1>1, InvarianteDoConsumidor, PTL

(* An acknowledged message is recorded or in the DLQ (every ack of processar_entrega). *)
THEOREM TeoConfirmadaSoDepois == Spec => []ConfirmadaSoDepois
<1>1. IInv => ConfirmadaSoDepois
  BY DEF IInv
<1> QED
  BY <1>1, InvarianteDoConsumidor, PTL

(* A file whose messages announce its own hash keeps a local copy and its receipt until it is
   stored and recorded, however many deliveries of it overlap and whatever processes die. *)
THEOREM TeoCopiaSoSaiGuardada == Spec => []CopiaSoSaiGuardada
<1>1. IInv => CopiaSoSaiGuardada
  BY DEF IInv
<1> QED
  BY <1>1, InvarianteDoConsumidor, PTL
=============================================================================
