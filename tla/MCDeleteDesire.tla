--------------------------- MODULE MCDeleteDesire ---------------------------
(* DeleteDesire for TLC. *)
EXTENDS DeleteDesire

MCKinds == SpecKinds
=============================================================================
