---------------------------- MODULE MCAdDisplay ----------------------------
(* Instances of AdDisplay for TLC. *)
EXTENDS AdDisplay
=============================================================================
