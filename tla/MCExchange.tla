----------------------------- MODULE MCExchange -----------------------------
(* Instances of Exchange for TLC; the constants are set in the .cfg files. *)
EXTENDS Exchange
=============================================================================
