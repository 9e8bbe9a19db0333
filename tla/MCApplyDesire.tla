--------------------------- MODULE MCApplyDesire ---------------------------
(* ApplyDesire for TLC.  Workers are interchangeable: a run of safety properties with *)
(* several explores one of the states that differ in their names.                      *)
EXTENDS ApplyDesire, TLC

MCKinds == SpecKinds
GoodOnly == {"good"}
WorkerSymmetry == Permutations(Workers)
=============================================================================
