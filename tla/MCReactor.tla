----------------------------- MODULE MCReactor -----------------------------
(* Finite instances of Reactor for TLC. *)
EXTENDS Reactor, TLC

ReactorSymmetry == Permutations(Workers)
=============================================================================
