---------------------------- MODULE MCEstabilidade ----------------------------
(* A small instance of Estabilidade for TLC. *)
EXTENDS Estabilidade
=============================================================================
