--------------------------- MODULE MCStm32Service ---------------------------
(* Instances of Stm32Service for TLC. *)
EXTENDS Stm32Service
=============================================================================
