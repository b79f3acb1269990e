-------------------------- MODULE MCApplicationLink --------------------------
(* Instances of ApplicationLink for TLC. *)
EXTENDS ApplicationLinkProperties, TLC

Symmetry == Permutations(Inv)
=============================================================================
