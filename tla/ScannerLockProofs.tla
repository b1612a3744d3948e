-------------------------- MODULE ScannerLockProofs --------------------------
(***************************************************************************)
(* Proofs about the scanner lock, for every number of instances and every  *)
(* bound on crashes, failures and leases that run out.                     *)
(***************************************************************************)
EXTENDS ScannerLock, TLAPS

(* Before the first lease runs out nobody is about to remove somebody else's directory, and the
   directory belongs to whoever holds the lock. *)
AntesDeVencer ==
  obsoletos = 0 =>
    /\ ~obsoleto
    /\ \A w \in Workers : fase[w] # "vence"
    /\ \A w \in Workers : Segura(w) => lock = w

IInv == TypeOK /\ AntesDeVencer

LEMMA IInvInicial == Init => IInv
<1> SUFFICES ASSUME Init PROVE IInv
  OBVIOUS
<1>1. TypeOK
  <2>1. lock \in Workers \cup {Nada} /\ fase \in [Workers -> Fases]
    BY DEF Init, Fases
  <2>2. obsoleto \in BOOLEAN
    BY DEF Init
  <2>3. falhas \in 0..MaxFalhas /\ quedas \in 0..MaxQuedas /\ obsoletos \in 0..MaxObsoletos
    BY LimitesAssumption DEF Init
  <2> QED
    BY <2>1, <2>2, <2>3 DEF TypeOK
<1>2. AntesDeVencer
  BY DEF Init, AntesDeVencer, Segura
<1> QED
  BY <1>1, <1>2 DEF IInv

(* Each step of the protocol keeps every variable in its type. *)
LEMMA TipoPreservado == TypeOK /\ [Next]_vars => TypeOK'
<1> SUFFICES ASSUME TypeOK, [Next]_vars PROVE TypeOK'
  OBVIOUS
<1> USE LimitesAssumption DEF TypeOK, Fases
<1>1. CASE Envelhece
  BY <1>1 DEF Envelhece
<1>2. ASSUME NEW w \in Workers, Passo(w) PROVE TypeOK'
  <2>1. CASE Tenta(w)
    BY <2>1 DEF Tenta, Cria, Vai
  <2>2. CASE Confere(w)
    BY <2>2 DEF Confere, Vai
  <2>3. CASE Vence(w)
    BY <2>3 DEF Vence, Vai
  <2>4. CASE Recria(w)
    BY <2>4 DEF Recria, Cria, Vai
  <2>5. CASE EscreveDono(w)
    BY <2>5 DEF EscreveDono, Vai
  <2>6. CASE Libera(w)
    BY <2>6 DEF Libera, Vai
  <2>7. CASE Acorda(w)
    BY <2>7 DEF Acorda, Vai
  <2> QED
    BY <1>2, <2>1, <2>2, <2>3, <2>4, <2>5, <2>6, <2>7 DEF Passo
<1>3. ASSUME NEW w \in Workers, Queda(w) PROVE TypeOK'
  BY <1>3 DEF Queda, Vai
<1>4. CASE UNCHANGED vars
  BY <1>4 DEF vars
<1> QED
  BY <1>1, <1>2, <1>3, <1>4 DEF Next

(* A lease that has run out is counted for good, so the hypothesis obsoletos' = 0 gives back
   what held before the step. *)
LEMMA AntesDeVencerPreservado == IInv /\ [Next]_vars => AntesDeVencer'
<1> SUFFICES ASSUME IInv, [Next]_vars, obsoletos' = 0
             PROVE  /\ ~obsoleto'
                    /\ \A v \in Workers : fase'[v] # "vence"
                    /\ \A v \in Workers : Segura(v)' => lock' = v
  BY DEF AntesDeVencer
<1>1. TypeOK
  BY DEF IInv
<1>2. obsoletos = 0 /\ ~Envelhece
  <2>1. CASE Envelhece
    BY <1>1, <2>1, LimitesAssumption DEF TypeOK, Envelhece
  <2>2. CASE ~Envelhece
    BY <2>2 DEF Next, Passo, Tenta, Confere, Vence, Recria, EscreveDono, Libera, Acorda, Queda, vars
  <2> QED
    BY <2>1, <2>2
<1>3. /\ ~obsoleto
      /\ \A v \in Workers : fase[v] # "vence"
      /\ \A v \in Workers : Segura(v) => lock = v
  BY <1>2 DEF IInv, AntesDeVencer
<1> USE <1>1, <1>3, NadaAssumption DEF TypeOK, Segura
<1>4. ASSUME NEW w \in Workers, Tenta(w) \/ Recria(w)
      PROVE  /\ ~obsoleto'
             /\ \A v \in Workers : fase'[v] # "vence"
             /\ \A v \in Workers : Segura(v)' => lock' = v
  BY <1>4 DEF Tenta, Recria, Cria, Vai
<1>5. ASSUME NEW w \in Workers, Confere(w) \/ Vence(w) \/ EscreveDono(w) \/ Libera(w) \/ Acorda(w)
      PROVE  /\ ~obsoleto'
             /\ \A v \in Workers : fase'[v] # "vence"
             /\ \A v \in Workers : Segura(v)' => lock' = v
  BY <1>5 DEF Confere, Vence, EscreveDono, Libera, Acorda, Vai
<1>6. ASSUME NEW w \in Workers, Queda(w)
      PROVE  /\ ~obsoleto'
             /\ \A v \in Workers : fase'[v] # "vence"
             /\ \A v \in Workers : Segura(v)' => lock' = v
  BY <1>6 DEF Queda, Vai
<1>7. CASE UNCHANGED vars
  BY <1>7 DEF vars
<1> QED
  BY <1>2, <1>4, <1>5, <1>6, <1>7 DEF Next, Passo

(* The lock protocol keeps its invariant through every interleaving, crash and failure. *)
THEOREM InvarianteDoLock == Spec => []IInv
<1>1. IInv /\ [Next]_vars => IInv'
  BY TipoPreservado, AntesDeVencerPreservado DEF IInv
<1> QED
  BY IInvInicial, <1>1, PTL DEF Spec

(* Until a lease runs out, who scans made the directory that is there
   (tentar_adquirir_lock_scanner, LockScanner::drop). *)
THEOREM TeoExclusivoAteVencer == Spec => []ExclusivoAteVencer
<1>1. IInv => ExclusivoAteVencer
  BY DEF IInv, AntesDeVencer, ExclusivoAteVencer
<1> QED
  BY InvarianteDoLock, <1>1, PTL

(* Hence two instances never scan at the same time before a lease runs out: the claim of
   config.rs holds up to the expiry, which run scanner_lock_exclusivo shows to be the limit. *)
THEOREM UmSoVarreAteVencer == Spec => [](obsoletos = 0 => Exclusivo)
<1>1. IInv => (obsoletos = 0 => Exclusivo)
  BY DEF IInv, AntesDeVencer, Exclusivo, Segura
<1> QED
  BY InvarianteDoLock, <1>1, PTL
=============================================================================
