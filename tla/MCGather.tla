------------------------------ MODULE MCGather ------------------------------
(* Instances of Gather for TLC. *)
EXTENDS Gather
=============================================================================
