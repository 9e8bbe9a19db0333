---------------------------- MODULE SpecDelivery ----------------------------
(***************************************************************************)
(* What the controllers expect of the informers over the specs database,   *)
(* with Lists, streams, channels and queues left out: a store that is the  *)
(* database as it was at some moment, document by document, and that only  *)
(* ever moves on.                                                          *)
(*                                                                         *)
(*   - The controllers start with nothing older than the leader they run   *)
(*     under.                                                              *)
(*   - The store moves to later revisions only, across removals too, and   *)
(*     drops a revision only once the database has.                        *)
(*   - A document is acted on only after the store has shown it.           *)
(*   - In the end a document that stays is acted on.                       *)
(*                                                                         *)
(* A document that does not decode is written like any other and cannot    *)
(* be acted on.  The last promise is owed only while there is none.        *)
(***************************************************************************)
EXTENDS Naturals

CONSTANTS
    Docs,      \* the spec documents of all collections
    NoDoc      \* a document that does not exist

VARIABLES
    rev,       \* the last UpdateTime handed out
    spec,      \* the specs database: UpdateTime, and whether the document decodes
    phase,     \* the leader: standby, syncing, running
    since,     \* the last UpdateTime handed out before a syncing leader began; else 0
    known,     \* the store: UpdateTime of the revision it holds; 0: none
    shown,     \* the latest revision this leader's store has held; 0: none
    acted      \* UpdateTime of the revision a document's controller last acted on; 0: none

vars == <<rev, spec, phase, since, known, shown, acted>>

Absent(d) == spec[d] = NoDoc
Decodes(d) == ~Absent(d) /\ spec[d].good
AllDecode == \A d \in Docs : Absent(d) \/ Decodes(d)
RevOf(d) == IF Absent(d) THEN 0 ELSE spec[d].rev

Init ==
    /\ rev = 0
    /\ spec = [d \in Docs |-> NoDoc]
    /\ phase = "standby"
    /\ since = 0
    /\ known = [d \in Docs |-> 0]
    /\ shown = [d \in Docs |-> 0]
    /\ acted = [d \in Docs |-> 0]

Write(d, good) ==
    /\ rev' = rev + 1
    /\ spec' = [spec EXCEPT ![d] = [rev |-> rev + 1, good |-> good]]
    /\ UNCHANGED <<phase, since, known, shown, acted>>

Delete(d) ==
    /\ ~Absent(d)
    /\ spec' = [spec EXCEPT ![d] = NoDoc]
    /\ UNCHANGED <<rev, phase, since, known, shown, acted>>

Lead ==
    /\ phase = "standby"
    /\ phase' = "syncing"
    /\ since' = rev
    /\ UNCHANGED <<rev, spec, known, shown, acted>>

\* The store learns of a revision later than any it has held, if not the latest.
Learn(d) ==
    /\ known'[d] > shown[d] /\ known'[d] <= rev
    /\ shown'[d] = known'[d]

\* The store drops a revision, which is not the document's any more.
Drop(d) == known'[d] = 0 /\ known[d] # RevOf(d) /\ shown'[d] = shown[d]

Keep(d) == known'[d] = known[d] /\ shown'[d] = shown[d]

\* The store takes in what it has heard, of one document or of many.
Hear ==
    /\ phase # "standby"
    /\ \A d \in Docs : Learn(d) \/ Drop(d) \/ Keep(d)
    /\ UNCHANGED <<rev, spec, phase, since, acted>>

\* The store holds every document as it was when the leader began, or as it is by now.
UpToDate == \A d \in Docs : ~Absent(d) /\ RevOf(d) <= since => known[d] = RevOf(d)

Start ==
    /\ phase = "syncing"
    /\ UpToDate
    /\ phase' = "running"
    /\ since' = 0
    /\ UNCHANGED <<rev, spec, known, shown, acted>>

\* The controller fetches the document and acts on this revision or its absence.
Act(d) ==
    /\ phase = "running"
    /\ shown[d] # 0
    /\ Absent(d) \/ Decodes(d)
    /\ acted' = [acted EXCEPT ![d] = RevOf(d)]
    /\ UNCHANGED <<rev, spec, phase, since, known, shown>>

\* The leader is gone; the next one knows nothing and has acted on nothing.
Stop ==
    /\ phase' = "standby"
    /\ since' = 0
    /\ known' = [d \in Docs |-> 0]
    /\ shown' = [d \in Docs |-> 0]
    /\ acted' = [d \in Docs |-> 0]
    /\ UNCHANGED <<rev, spec>>

Next ==
    \/ \E d \in Docs : (\E good \in BOOLEAN : Write(d, good)) \/ Delete(d) \/ Act(d)
    \/ Lead
    \/ Hear
    \/ Start
    \/ Stop

Spec == Init /\ [][Next]_vars

\* While every document decodes, the controllers come to run and, while they run, to
\* act on the last revision of every document that stays.
Liveness ==
    /\ <>[]AllDecode => []<>(phase = "running")
    /\ \A d \in Docs :
           <>[](AllDecode /\ Decodes(d) /\ phase = "running") => []<>(acted[d] = RevOf(d))
=============================================================================
