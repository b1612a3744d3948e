------------------------------ MODULE MCWatcher ------------------------------
(* Small instances of Watcher for TLC. *)
EXTENDS Watcher, TLC

(* Each path has a file name of its own. *)
BasesDistintas == [p \in Caminhos |-> p]

UmaVez == [d \in Docs |-> 1]

(* Slots and documents of the same kind are interchangeable; used for safety only. *)
Simetria == Permutations(Slots) \cup Permutations(Docs \ (Vazios \cup Grandes))
=============================================================================
