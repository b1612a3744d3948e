------------------------------- MODULE Entrega -------------------------------
(***************************************************************************)
(* What the watcher relies on when publicar() returns Ok (the QueuePublisher *)
(* trait and the comment on PublisherComContingencia, queue.rs): the event  *)
(* is with the broker or kept on disk, what is kept is only forgotten once  *)
(* delivered, and what was accepted is delivered in the end.                *)
(***************************************************************************)
EXTENDS FiniteSets

CONSTANT Eventos

VARIABLES
  aceitos,     \* events for which publicar() returned Ok
  entregues,   \* events the broker holds or held
  guardados    \* events kept in the contingency buffer

varsEntrega == <<aceitos, entregues, guardados>>

InitEntrega == aceitos = {} /\ entregues = {} /\ guardados = {}

AceitaDireto(e) ==
  /\ aceitos' = aceitos \cup {e}
  /\ entregues' = entregues \cup {e}
  /\ UNCHANGED guardados

AceitaGuardando(e) ==
  /\ aceitos' = aceitos \cup {e}
  /\ guardados' = guardados \cup {e}
  /\ UNCHANGED entregues

(* The broker has it, whatever publicar() returns; or the buffer has what was refused. *)
Entrega(e) == entregues' = entregues \cup {e} /\ UNCHANGED <<aceitos, guardados>>
Guarda(e) == guardados' = guardados \cup {e} /\ UNCHANGED <<aceitos, entregues>>

Esquece ==
  /\ guardados' \in SUBSET guardados
  /\ guardados \ guardados' \subseteq entregues
  /\ UNCHANGED <<aceitos, entregues>>

NextEntrega ==
  \/ \E e \in Eventos : AceitaDireto(e) \/ AceitaGuardando(e) \/ Entrega(e) \/ Guarda(e)
  \/ Esquece

EntregaSegura == InitEntrega /\ [][NextEntrega]_varsEntrega

(* The promise that is not about one step: an accepted event is delivered. *)
TodoAceitoEntregue == \A e \in Eventos : (e \in aceitos) ~> (e \in entregues)
=============================================================================
