----------------------------- MODULE MCConsumer -----------------------------
(* Small instances of Consumer for TLC: one good file, one whose content is not what was
   announced, and a message that does not parse.  A good file is delivered again, even while
   an earlier delivery of it still runs, when a channel is lost. *)
EXTENDS Consumer, TLC

NomesDasMensagens == [m \in Mensagens |-> IF m = "divergente" THEN "n2" ELSE "n1"]
HashesAnunciados == [m \in Mensagens |-> IF m = "divergente" THEN "outro" ELSE "d1"]
ConteudosGuardados == [n \in Nomes |-> IF n = "n2" THEN "d2" ELSE "d1"]

(* One process runs under the worker_id of the watcher, the others do not. *)
RecibosDeUmWorker == {CHOOSE p \in Processos : TRUE} \X Nomes
=============================================================================
