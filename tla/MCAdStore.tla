----------------------------- MODULE MCAdStore -----------------------------
(* Instances of AdStore for TLC. *)
EXTENDS AdStore
Symmetry == Permutations(Client)
=============================================================================
