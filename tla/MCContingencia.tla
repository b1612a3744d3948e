--------------------------- MODULE MCContingencia ---------------------------
(* Small instances of Contingencia for TLC. *)
EXTENDS Contingencia, TLC

(* Events are interchangeable; used for safety only. *)
Simetria == Permutations(Eventos)
=============================================================================
