--------------------------- MODULE MCSpecInformer ---------------------------
(* Two documents share a collection; the other one is empty, and has to be listed too. *)
EXTENDS SpecInformer, TLC

CONSTANTS a1, a2, applydesires, readdesires

MCDocs == {a1, a2}
MCColls == {applydesires, readdesires}
MCHear == {readdesires}
MCHome == a1 :> readdesires @@ a2 :> readdesires
=============================================================================
