----------------------------- MODULE MCPipeline -----------------------------
(* Small instances of Pipeline for TLC. *)
EXTENDS Pipeline, TLC

BasesDistintas == [p \in Caminhos |-> p]
UmaVez == [d \in Docs |-> 1]

(* Each consumer process runs beside a watcher, under the same worker_id. *)
MesmoId == [p \in Processos |-> CHOOSE w \in Workers : TRUE]
=============================================================================
