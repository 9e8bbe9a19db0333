---------------------------- MODULE MCReadDesire ----------------------------
(* ReadDesire for TLC: the workers, and what the backend writes in each run. *)
EXTENDS ReadDesire

MCWorkers == Keys \cup {Manager}
MCKinds == {"a", "b", "malformed"}
TwoTargets == {"a", "b"}
OneTarget == {"a"}
Unlistable == {"unlistable"}
=============================================================================
