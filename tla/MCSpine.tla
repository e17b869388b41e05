------------------------------ MODULE MCSpine ------------------------------
(* Instances of Spine. *)
EXTENDS Spine
=============================================================================
