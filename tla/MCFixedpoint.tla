---------------------------- MODULE MCFixedpoint ----------------------------
(* Instances of Fixedpoint for TLC. *)
EXTENDS Fixedpoint
=============================================================================
