---------------------------- MODULE ScannerLock ----------------------------
(***************************************************************************)
(* The lock that elects the one instance that scans the landing zone       *)
(* (watcher.rs): a directory made with create_dir, removed by its holder   *)
(* when the cycle ends, and by anybody once it is older than three scan    *)
(* intervals.  Time is reduced to that one fact, the lease has run out.    *)
(***************************************************************************)
EXTENDS Naturals, FiniteSets

CONSTANTS
  Workers,
  Nada,
  CicloLento,     \* whether a scan cycle may outlast the lease
  MaxFalhas,      \* bound: failures to write the owner file
  MaxQuedas,      \* bound: crashes
  MaxObsoletos    \* bound: leases that run out

ASSUME NadaAssumption == Nada \notin Workers
ASSUME LimitesAssumption ==
  /\ MaxFalhas \in Nat /\ MaxQuedas \in Nat /\ MaxObsoletos \in Nat
  /\ CicloLento \in BOOLEAN

VARIABLES
  lock,        \* who created the directory, or Nada
  obsoleto,    \* the directory is older than the lease
  fase,        \* how far rodar_scanner is in each instance
  falhas, quedas, obsoletos

vars == <<lock, obsoleto, fase, falhas, quedas, obsoletos>>

(* create_dir failed, stale lock seen, stale lock removed, directory made, scanning. *)
Fases == {"tenta", "ocupado", "vence", "recria", "criou", "varre", "espera"}

Init ==
  /\ lock = Nada /\ obsoleto = FALSE
  /\ fase = [w \in Workers |-> "tenta"]
  /\ falhas = 0 /\ quedas = 0 /\ obsoletos = 0

Vai(w, f) == fase' = [fase EXCEPT ![w] = f]

Cria(w) == lock' = w /\ obsoleto' = FALSE /\ Vai(w, "criou")

(* tentar_adquirir_lock_scanner: create_dir decides atomically. *)
Tenta(w) ==
  /\ fase[w] = "tenta"
  /\ \/ lock = Nada /\ Cria(w)
     \/ lock # Nada /\ Vai(w, "ocupado") /\ UNCHANGED <<lock, obsoleto>>
  /\ UNCHANGED <<falhas, quedas, obsoletos>>

(* Mutant of Confere: the age is not looked at. *)
ConfereSemIdade(w) ==
  /\ fase[w] = "ocupado"
  /\ Vai(w, IF lock # Nada THEN "vence" ELSE "espera")
  /\ UNCHANGED <<lock, obsoleto, falhas, quedas, obsoletos>>

(* Mutant of Confere: a lock is never taken over. *)
ConfereSemVencer(w) ==
  /\ fase[w] = "ocupado"
  /\ Vai(w, "espera")
  /\ UNCHANGED <<lock, obsoleto, falhas, quedas, obsoletos>>

(* The age of the directory there now; without one there is nothing to take over. *)
Confere(w) ==
  /\ fase[w] = "ocupado"
  /\ Vai(w, IF lock # Nada /\ obsoleto THEN "vence" ELSE "espera")
  /\ UNCHANGED <<lock, obsoleto, falhas, quedas, obsoletos>>

(* remove_dir_all on whatever is at the path by now. *)
Vence(w) ==
  /\ fase[w] = "vence"
  /\ lock' = Nada /\ obsoleto' = FALSE
  /\ Vai(w, "recria")
  /\ UNCHANGED <<falhas, quedas, obsoletos>>

(* tentar_criar_lock_scanner. *)
Recria(w) ==
  /\ fase[w] = "recria"
  /\ \/ lock = Nada /\ Cria(w)
     \/ lock # Nada /\ Vai(w, "espera") /\ UNCHANGED <<lock, obsoleto>>
  /\ UNCHANGED <<falhas, quedas, obsoletos>>

(* Writing the owner file into whatever directory is there; an error leaves the directory
   and restarts the scanner. *)
EscreveDono(w) ==
  /\ fase[w] = "criou"
  /\ \/ lock # Nada /\ Vai(w, "varre") /\ UNCHANGED falhas
     \/ lock = Nada /\ Vai(w, "tenta") /\ UNCHANGED falhas
     \/ falhas < MaxFalhas /\ falhas' = falhas + 1 /\ Vai(w, "tenta")
  /\ UNCHANGED <<lock, obsoleto, quedas, obsoletos>>

(* The cycle ends, its sleep included: Drop removes the path, whoever made it. *)
Libera(w) ==
  /\ fase[w] = "varre"
  /\ lock' = Nada /\ obsoleto' = FALSE
  /\ Vai(w, "tenta")
  /\ UNCHANGED <<falhas, quedas, obsoletos>>

Acorda(w) ==
  /\ fase[w] = "espera"
  /\ Vai(w, "tenta")
  /\ UNCHANGED <<lock, obsoleto, falhas, quedas, obsoletos>>

(* Three intervals pass; a holder that works ends its cycle before, unless cycles are slow. *)
Segura(w) == fase[w] \in {"criou", "varre"}

Envelhece ==
  /\ lock # Nada /\ ~obsoleto /\ obsoletos < MaxObsoletos
  /\ Segura(lock) => CicloLento
  /\ obsoleto' = TRUE /\ obsoletos' = obsoletos + 1
  /\ UNCHANGED <<lock, fase, falhas, quedas>>

(* The process dies without Drop and starts again. *)
Queda(w) ==
  /\ quedas < MaxQuedas /\ quedas' = quedas + 1
  /\ Vai(w, "tenta")
  /\ UNCHANGED <<lock, obsoleto, falhas, obsoletos>>

Passo(w) ==
  Tenta(w) \/ Confere(w) \/ Vence(w) \/ Recria(w) \/ EscreveDono(w) \/ Libera(w) \/ Acorda(w)

Next == Envelhece \/ \E w \in Workers : Passo(w) \/ Queda(w)

Spec == Init /\ [][Next]_vars

(* The supervised scanner keeps running and time passes. *)
SpecVivo == Spec /\ WF_vars(Envelhece) /\ \A w \in Workers : WF_vars(Passo(w))

-----------------------------------------------------------------------------
(* Every variable holds a value of its kind. *)
TypeOK ==
  /\ lock \in Workers \cup {Nada} /\ obsoleto \in BOOLEAN
  /\ fase \in [Workers -> Fases]
  /\ falhas \in 0..MaxFalhas /\ quedas \in 0..MaxQuedas /\ obsoletos \in 0..MaxObsoletos

(* One instance at a time holds the scanner lock (config.rs, pasta_lock_scanner; the test
   lock_do_scanner_e_exclusivo). *)
Exclusivo == \A v, w \in Workers : fase[v] = "varre" /\ fase[w] = "varre" => v = w

(* Until a lease runs out the lock excludes, whatever crashes and failures: who scans made the
   directory that is there. *)
ExclusivoAteVencer ==
  obsoletos = 0 => \A w \in Workers : Segura(w) => lock = w

(* Whoever crashes or fails while holding the lock, somebody scans again, and again. *)
SempreAlguemVarre == []<>(\E w \in Workers : fase[w] = "varre")
=============================================================================
