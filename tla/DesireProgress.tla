--------------------------- MODULE DesireProgress ---------------------------
(***************************************************************************)
(* What ObservedDesireUpdateTime promises the backend, for any of the three *)
(* controllers and with everything left out but the revisions: the status  *)
(* of a desire names a revision that has been written, only ever a later   *)
(* one, and in the end the last one.                                       *)
(***************************************************************************)
EXTENDS Naturals

CONSTANT Docs

VARIABLES
    rev,       \* the last UpdateTime handed out
    wanted,    \* UpdateTime of each spec document; 0: there is none
    observed   \* ObservedDesireUpdateTime of each status; 0: there is none

vars == <<rev, wanted, observed>>

Init ==
    /\ rev = 0
    /\ wanted = [d \in Docs |-> 0]
    /\ observed = [d \in Docs |-> 0]

Write(d) ==
    /\ rev' = rev + 1
    /\ wanted' = [wanted EXCEPT ![d] = rev + 1]
    /\ UNCHANGED observed

Delete(d) ==
    /\ wanted' = [wanted EXCEPT ![d] = 0]
    /\ UNCHANGED <<rev, observed>>

\* A sync, however late, reports the revision it has processed.
Report(d) ==
    /\ \E r \in observed[d] .. rev : observed' = [observed EXCEPT ![d] = r]
    /\ UNCHANGED <<rev, wanted>>

ReportLast(d) ==
    /\ wanted[d] # 0
    /\ observed' = [observed EXCEPT ![d] = wanted[d]]
    /\ UNCHANGED <<rev, wanted>>

Next == \E d \in Docs : Write(d) \/ Delete(d) \/ Report(d)

Spec == Init /\ [][Next]_vars
Liveness == \A d \in Docs : WF_vars(ReportLast(d))
FairSpec == Spec /\ Liveness
=============================================================================
