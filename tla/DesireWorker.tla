---------------------------- MODULE DesireWorker ----------------------------
(***************************************************************************)
(* What the workers of every desire controller share: processNext around a *)
(* sync, UpdateStatus at its end (pkg/controllers/desirestatuswriter), the *)
(* failures of a call, and the life of the process they run in.            *)
(*                                                                         *)
(* Each call to Firestore or to the apiserver is a step of its own, so     *)
(* workers, the backend and other actors interleave between any two calls. *)
(* A call may fail with its request still under way: the request stays on  *)
(* wire and the server may execute it at any later time, or never.  This   *)
(* one outcome stands for a request that was not executed, one executed    *)
(* although the caller saw an error, and one that lands late.              *)
(***************************************************************************)
EXTENDS DesireFeed

CONSTANTS
    Workers,   \* worker goroutines
    MaxFaults  \* bound: failed calls, crashes and foreign changes together

VARIABLES
    up,        \* a leader is running
    job,       \* what each worker is doing; every job has a pc, a key and a ver
    wire,      \* requests whose caller has given up on them
    faults,    \* failures so far
    swallowed, \* history: documents whose last sync ended in a status conflict
    landed     \* history: documents a late status write changed since the last fetch

workerVars == <<up, job, wire, faults, swallowed, landed>>
workerVarsButJob == <<up, wire, faults, swallowed, landed>>

Idle == [pc |-> "idle"]
DocOf(j) == j.key.name

WorkerInit ==
    /\ up = TRUE
    /\ job = [w \in Workers |-> Idle]
    /\ wire = {}
    /\ faults = 0
    /\ swallowed = {}
    /\ landed = {}

\* The types that do not depend on the controller.
WorkerTypeOK ==
    /\ up \in BOOLEAN
    /\ faults \in Nat
    /\ swallowed \subseteq Docs
    /\ landed \subseteq Docs

Fault == faults < MaxFaults /\ faults' = faults + 1

-----------------------------------------------------------------------------
(***************************************************************************)
(* processNext.                                                            *)
(***************************************************************************)
At(w, pc) == up /\ job[w].pc = pc

\* queue.Get hands w the key k; its job starts as j.
Take(w, k, j) ==
    /\ up
    /\ job[w] = Idle
    /\ Get(k)
    /\ job' = [job EXCEPT ![w] = j]
    /\ UNCHANGED <<up, wire, faults, swallowed, landed>>

Goto(w, pc) == job' = [job EXCEPT ![w].pc = pc] /\ UNCHANGED queueVars

\* The end of processNext: requeue with backoff if the sync failed.
Finish(w, failed) ==
    /\ Done(job[w].key, failed)
    /\ job' = [job EXCEPT ![w] = Idle]

-----------------------------------------------------------------------------
(***************************************************************************)
(* UpdateStatus.  The caller computed body, the whole new status, before;  *)
(* failed says whether the sync fails even if the status is written.       *)
(***************************************************************************)
\* A worker reads the status document: nothing about it is news any more.
Seen(d) == swallowed' = swallowed \ {d} /\ landed' = landed \ {d}

\* Fetch; nothing to write if the status already says all this.
UpdateFetch(w, body, failed) ==
    LET d == DocOf(job[w])
    IN  /\ At(w, "fetchStatus")
        /\ \/ /\ status[d] = NoDoc
              /\ Goto(w, "create")
              /\ Seen(d)
              /\ UNCHANGED faults
           \/ /\ status[d] # NoDoc
              /\ IF status[d].body = body
                 THEN Finish(w, failed)
                 ELSE /\ job' = [job EXCEPT ![w].pc = "replace", ![w].ver = status[d].ver]
                      /\ UNCHANGED queueVars
              /\ Seen(d)
              /\ UNCHANGED faults
           \/ Fault /\ Finish(w, TRUE) /\ UNCHANGED <<swallowed, landed>>
        /\ UNCHANGED <<status, up, wire>>

\* createInitialStatus; AlreadyExists is an error like any other.
UpdateCreate(w, body, failed) ==
    LET d == DocOf(job[w])
    IN  /\ At(w, "create")
        /\ \/ /\ Create(d, body)
              /\ Finish(w, failed)
           \/ /\ ~CanCreate(d)
              /\ Finish(w, TRUE)
              /\ UNCHANGED status
        /\ UNCHANGED <<up, wire, faults, swallowed, landed>>

\* Replace; a precondition failure is swallowed: UpdateStatus returns nil.
UpdateReplace(w, body, failed) ==
    LET d == DocOf(job[w])
    IN  /\ At(w, "replace")
        /\ \/ /\ Replace(d, job[w].ver, body)
              /\ UNCHANGED swallowed
           \/ /\ ~CanReplace(d, job[w].ver)
              /\ swallowed' = swallowed \cup {d}
              /\ UNCHANGED status
        /\ Finish(w, failed)
        /\ UNCHANGED <<up, wire, faults, landed>>

CreateRequest(j, body) == [op |-> "create", doc |-> DocOf(j), body |-> body]
ReplaceRequest(j, body) ==
    [op |-> "replace", doc |-> DocOf(j), ver |-> j.ver, body |-> body]

StatusRequests(B) ==
    [op: {"create"}, doc: Docs, body: B]
    \cup [op: {"replace"}, doc: Docs, ver: Nat, body: B]

\* The status write a job is waiting on.
PendingWrite(j, body) ==
    IF j.pc = "create" THEN {CreateRequest(j, body)}
    ELSE IF j.pc = "replace" THEN {ReplaceRequest(j, body)}
    ELSE {}

\* A status write fails, its request possibly still under way.
UpdateLost(w, body) ==
    /\ At(w, "create") \/ At(w, "replace")
    /\ Fault
    /\ wire' = wire \cup PendingWrite(job[w], body)
    /\ Finish(w, TRUE)
    /\ UNCHANGED <<status, up, swallowed, landed>>

\* A status write its caller gave up on lands.
LateStatus(r) ==
    /\ \/ r.op = "create" /\ Create(r.doc, r.body)
       \/ r.op = "replace" /\ Replace(r.doc, r.ver, r.body)
    /\ landed' = landed \cup {r.doc}
    /\ UNCHANGED swallowed

-----------------------------------------------------------------------------
(***************************************************************************)
(* The leader's context is cancelled or its process dies; another starts   *)
(* with empty memory.  inFlight are the requests its workers waited on.    *)
(***************************************************************************)
Die(inFlight) ==
    /\ up
    /\ Fault
    /\ up' = FALSE
    /\ FeedLost
    /\ job' = [w \in Workers |-> Idle]
    /\ wire' = wire \cup inFlight
    /\ UNCHANGED <<swallowed, landed>>

Lead ==
    /\ ~up
    /\ up' = TRUE
    /\ UNCHANGED <<queueVars, feedVars, job, wire, faults, swallowed, landed>>

-----------------------------------------------------------------------------
\* A sync of the key is due: it waits, is under way, or is backing off.
Scheduled(k) == k \in dirty \cup processing \cup retry

\* The document changed behind the last sync's back, in one of the two ways the
\* code leaves to the resync: a status conflict UpdateStatus swallowed, or a
\* status write that landed after its caller had seen it fail.
Overtaken(d) == d \in swallowed \cup landed

\* ObservedDesireUpdateTime as the backend sees it: only ever a later revision.
Progress == INSTANCE DesireProgress WITH
    wanted <- [d \in Docs |-> IF spec[d] = NoDoc THEN 0 ELSE spec[d].rev],
    observed <- [d \in Docs |-> IF status[d] = NoDoc THEN 0 ELSE status[d].body.observed]
=============================================================================
