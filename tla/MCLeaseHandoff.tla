--------------------------- MODULE MCLeaseHandoff ---------------------------
(* Instances of LeaseHandoff for TLC. *)
EXTENDS LeaseHandoffProperties, TLC

\* Server processes are interchangeable.  Used with safety properties only.
Symmetry == Permutations(Workers)
=============================================================================
