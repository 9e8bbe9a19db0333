---------------------------- MODULE DeleteDesire ----------------------------
(***************************************************************************)
(* DeleteDesireController (pkg/controllers/delete_desire): it deletes the  *)
(* target of every DeleteDesire and reports WaitingForDeletion until the   *)
(* target, which finalizers may hold, is really gone.                      *)
(*                                                                         *)
(* An attempt is three calls (Get, Delete, Get) and two for the status;    *)
(* other hands may recreate or delete the target, and finalizers complete, *)
(* between any two of them.  Leaders come and go as in ApplyDesire.        *)
(***************************************************************************)
EXTENDS DesireWorker, Conditions

VARIABLES
    object     \* the target of each desire in the management cluster

vars == <<storeVars, queueVars, feedVars, workerVars, object>>

-----------------------------------------------------------------------------
(***************************************************************************)
(* Values.  uid is the UID of the target (of the last one, once absent)    *)
(* and born stands for its creation time, as the UpdateTime the specs      *)
(* database had reached.                                                   *)
(***************************************************************************)
SpecKinds == {"good", "malformed", "refused"}

ASSUME KindsAssumption == Kinds \subseteq SpecKinds

Objects == [uid: Nat, phase: {"absent", "live", "terminating"}, born: Nat]
Exists(d) == object[d].phase # "absent"

\* uid is the object the WaitingForDeletion message names, 0 without one.
Bodies == [observed: Nat, conditions: Conditions, uid: Nat]
StatusDoc == [ver: Nat, body: Bodies]

ASSUME NoStatusAssumption == NoDoc \notin StatusDoc

\* A worker's job: the fetched spec, what evaluate found, the fetched status.
Jobs == [pc: {"fetchSpec", "get", "delete", "postGet", "fetchStatus", "create", "replace"},
         key: Keys, rev: Nat, kind: SpecKinds, err: Errors, waiting: Nat, ver: Nat]
NewJob(k) == [pc |-> "fetchSpec", key |-> k, rev |-> 0, kind |-> "good",
              err |-> "none", waiting |-> 0, ver |-> 0]

\* Mutant: ObservedDesireUpdateTime is set when the status is created, and never again.
FirstStatus(j) ==
    [observed   |-> IF status[DocOf(j)] # NoDoc THEN status[DocOf(j)].body.observed ELSE j.rev,
     conditions |-> IF j.waiting = 0 THEN SetConditions(j.err) ELSE WaitingForDeletion,
     uid        |-> j.waiting]

\* The mutate function that evaluate returned, with what SyncOnce adds to it.
NewStatus(j) ==
    [observed   |-> j.rev,
     conditions |-> IF j.waiting = 0 THEN SetConditions(j.err) ELSE WaitingForDeletion,
     uid        |-> j.waiting]

DeleteRequest(j) == [op |-> "delete", doc |-> DocOf(j)]
Requests == [op: {"delete"}, doc: Docs] \cup StatusRequests(Bodies)

\* The write a worker is waiting on; a refused deletion changes nothing.
Pending(j) ==
    IF j.pc = "delete" /\ j.kind = "good" THEN {DeleteRequest(j)}
    ELSE PendingWrite(j, NewStatus(j))

-----------------------------------------------------------------------------
Init ==
    /\ StoreInit
    /\ QueueInit
    /\ FeedInit
    /\ WorkerInit
    /\ object \in [Docs -> {[uid |-> 0, phase |-> "absent", born |-> 0],
                            [uid |-> 1, phase |-> "live", born |-> 0]}]

(***************************************************************************)
(* The apiserver executes a deletion, of whatever object bears the name    *)
(* (the controller sends no UID precondition).  An object with finalizers  *)
(* gets a deletionTimestamp, one without is gone.                          *)
(***************************************************************************)
ExecuteDelete(d) ==
    /\ Exists(d)
    /\ \E phase \in {"absent", "terminating"} :
          object' = [object EXCEPT ![d].phase =
                        IF object[d].phase = "live" THEN phase ELSE object[d].phase]

(***************************************************************************)
(* The backend and the other hands in the cluster.                         *)
(***************************************************************************)
BackendWrites(d) ==
    /\ \E kind \in Kinds, scope \in Scopes : WriteSpec(d, kind, scope)
    /\ UNCHANGED <<queueVars, feedVars, workerVars, object>>

BackendDeletes(d) ==
    /\ DeleteSpec(d)
    /\ UNCHANGED <<queueVars, feedVars, workerVars, object>>

\* Someone creates an object of the target's name.
Recreate(d) ==
    /\ ~Exists(d)
    /\ Fault
    /\ object' = [object EXCEPT ![d] =
                     [uid |-> object[d].uid + 1, phase |-> "live", born |-> rev]]
    /\ UNCHANGED <<storeVars, queueVars, feedVars, up, job, wire, swallowed, landed>>

\* Someone else deletes the target.
Removed(d) ==
    /\ Fault
    /\ ExecuteDelete(d)
    /\ UNCHANGED <<storeVars, queueVars, feedVars, up, job, wire, swallowed, landed>>

\* The finalizers of a terminating object are done with it.
FinalizersDone(d) ==
    /\ object[d].phase = "terminating"
    /\ object' = [object EXCEPT ![d].phase = "absent"]
    /\ UNCHANGED <<storeVars, queueVars, feedVars, workerVars>>

(***************************************************************************)
(* The informer, the cooldown gate and the delaying queue.                 *)
(***************************************************************************)
Informer(d) ==
    /\ up
    /\ HandleChange(d) \/ DropDeleted(d)
    /\ UNCHANGED <<storeVars, workerVars, object>>

Resync(d) ==
    /\ up
    /\ HandleResync(d)
    /\ UNCHANGED <<storeVars, workerVars, object>>

Cooldown(k) ==
    /\ up
    /\ CooldownOver(k)
    /\ UNCHANGED <<storeVars, workerVars, object>>

Backoff(k) ==
    /\ up
    /\ RetryDue(k)
    /\ UNCHANGED <<storeVars, feedVars, workerVars, object>>

-----------------------------------------------------------------------------
(***************************************************************************)
(* The workers: SyncOnce and evaluate, one step per call.                  *)
(***************************************************************************)
StartSync(w, k) ==
    /\ Take(w, k, NewJob(k))
    /\ UNCHANGED <<storeVars, feedVars, object>>

\* Mutant: SyncOnce returns statusErr alone.
StatusErrorOnly(w) == FALSE

\* errors.Join(syncErr, statusErr) when the status write went well.
SyncFailed(w) == job[w].err # "none"

\* evaluate is over: the error it ended with, the object it has to wait for.
Report(w, err, uid) ==
    /\ job' = [job EXCEPT ![w].pc = "fetchStatus", ![w].err = err, ![w].waiting = uid]
    /\ UNCHANGED queueVars

\* specFetcher.Fetch by document ID, then evaluate's check of the target.
FetchSpec(w) ==
    /\ At(w, "fetchSpec")
    /\ LET doc == spec[DocOf(job[w])]
       IN  \/ /\ doc = NoDoc
              /\ Finish(w, FALSE)
              /\ UNCHANGED faults
           \/ /\ doc # NoDoc
              /\ job' = [job EXCEPT
                    ![w].pc = IF doc.kind = "malformed" THEN "fetchStatus" ELSE "get",
                    ![w].err = IF doc.kind = "malformed" THEN "precheck" ELSE "none",
                    ![w].rev = doc.rev, ![w].kind = doc.kind]
              /\ UNCHANGED <<queueVars, faults>>
           \/ Fault /\ Finish(w, TRUE)
    /\ UNCHANGED <<storeVars, feedVars, up, wire, swallowed, landed, object>>

\* A Get fails: forbidden or throttled, or no answer.
GetFails(w) == Fault /\ \E err \in {"client", "server"} : Report(w, err, 0)

\* Get: the target is gone, on its way out, or to be deleted.
GetTarget(w) ==
    LET o == object[DocOf(job[w])]
    IN  /\ At(w, "get")
        /\ \/ o.phase = "absent" /\ Report(w, "none", 0) /\ UNCHANGED faults
           \/ o.phase = "terminating" /\ Report(w, "none", o.uid) /\ UNCHANGED faults
           \/ o.phase = "live" /\ Goto(w, "delete") /\ UNCHANGED faults
           \/ GetFails(w)
        /\ UNCHANGED <<storeVars, feedVars, up, wire, swallowed, landed, object>>

\* Delete is answered: accepted, not found, or refused by admission.
DeleteTarget(w) ==
    LET d == DocOf(job[w])
    IN  /\ At(w, "delete")
        /\ \/ /\ job[w].kind = "good" /\ ExecuteDelete(d)
              /\ Goto(w, "postGet")
           \/ /\ ~Exists(d)
              /\ Report(w, "none", 0)
              /\ UNCHANGED object
           \/ /\ Exists(d) /\ job[w].kind # "good"
              /\ Report(w, "client", 0)
              /\ UNCHANGED object
        /\ UNCHANGED <<storeVars, feedVars, workerVarsButJob>>

\* Delete fails without an answer; the request may still be executed.
DeleteLost(w) ==
    /\ At(w, "delete")
    /\ Fault
    /\ wire' = wire \cup Pending(job[w])
    /\ Report(w, "server", 0)
    /\ UNCHANGED <<storeVars, feedVars, up, swallowed, landed, object>>

\* Mutant: an accepted deletion is a completed one.
DeletedIsGone(w) ==
    /\ At(w, "postGet")
    /\ Report(w, "none", 0)
    /\ UNCHANGED <<storeVars, feedVars, workerVarsButJob, object>>

\* The Get after the Delete; any object it finds is reported as waited for, with
\* the current time (left out here) if that object has no deletionTimestamp.
PostGet(w) ==
    LET o == object[DocOf(job[w])]
    IN  /\ At(w, "postGet")
        /\ \/ o.phase = "absent" /\ Report(w, "none", 0) /\ UNCHANGED faults
           \/ o.phase # "absent" /\ Report(w, "none", o.uid) /\ UNCHANGED faults
           \/ GetFails(w)
        /\ UNCHANGED <<storeVars, feedVars, up, wire, swallowed, landed, object>>

\* The calls of UpdateStatus.
FetchStatus(w) ==
    /\ UpdateFetch(w, NewStatus(job[w]), SyncFailed(w))
    /\ UNCHANGED <<rev, spec, feedVars, object>>

CreateStatus(w) ==
    /\ UpdateCreate(w, NewStatus(job[w]), SyncFailed(w))
    /\ UNCHANGED <<rev, spec, feedVars, object>>

ReplaceStatus(w) ==
    /\ UpdateReplace(w, NewStatus(job[w]), SyncFailed(w))
    /\ UNCHANGED <<rev, spec, feedVars, object>>

WriteLost(w) ==
    /\ UpdateLost(w, NewStatus(job[w]))
    /\ UNCHANGED <<rev, spec, feedVars, object>>

(***************************************************************************)
(* A request its caller gave up on reaches the server.                     *)
(***************************************************************************)
LateDelete(r) ==
    /\ r.op = "delete"
    /\ ExecuteDelete(r.doc)
    /\ UNCHANGED <<status, swallowed, landed>>

Land(r) ==
    /\ r \in wire
    /\ LateDelete(r) \/ (LateStatus(r) /\ UNCHANGED object)
    /\ wire' = wire \ {r}
    /\ UNCHANGED <<rev, spec, queueVars, feedVars, up, job, faults>>

Crash ==
    /\ Die(UNION {Pending(job[w]) : w \in Workers})
    /\ UNCHANGED <<storeVars, object>>

Start == Lead /\ UNCHANGED <<storeVars, object>>

-----------------------------------------------------------------------------
Work(w) ==
    \/ FetchSpec(w) \/ FetchStatus(w) \/ CreateStatus(w) \/ ReplaceStatus(w)
    \/ GetTarget(w) \/ DeleteTarget(w) \/ PostGet(w) \/ DeleteLost(w) \/ WriteLost(w)

Next ==
    \/ \E d \in Docs : \/ BackendWrites(d) \/ BackendDeletes(d)
                       \/ Recreate(d) \/ Removed(d) \/ FinalizersDone(d)
                       \/ Informer(d) \/ Resync(d)
    \/ \E k \in Keys : Cooldown(k) \/ Backoff(k)
    \/ \E w \in Workers : Work(w) \/ \E k \in Keys : StartSync(w, k)
    \/ \E r \in wire : Land(r)
    \/ Crash
    \/ Start

(***************************************************************************)
(* Fairness, as in ApplyDesire, and finalizers complete: without that no   *)
(* deletion can be expected to.                                            *)
(***************************************************************************)
Fairness ==
    /\ \A d \in Docs : WF_vars(Informer(d)) /\ WF_vars(Resync(d)) /\ WF_vars(FinalizersDone(d))
    /\ \A k \in Keys : WF_vars(Cooldown(k)) /\ WF_vars(Backoff(k))
    /\ \A w \in Workers : WF_vars(Work(w))
    /\ \A k \in Keys : SF_vars(\E w \in Workers : StartSync(w, k))
    /\ WF_vars(Start)

Spec == Init /\ [][Next]_vars
FairSpec == Spec /\ Fairness

-----------------------------------------------------------------------------
TypeOK ==
    /\ rev \in Nat
    /\ spec \in [Docs -> SpecDoc \cup {NoDoc}]
    /\ status \in [Docs -> StatusDoc \cup {NoDoc}]
    /\ FeedTypeOK
    /\ QueueTypeOK(Keys)
    /\ WorkerTypeOK
    /\ job \in [Workers -> Jobs \cup {Idle}]
    /\ wire \subseteq Requests
    /\ object \in [Docs -> Objects]

(***************************************************************************)
(* Properties.                                                             *)
(***************************************************************************)
\* Successful=True means the item is no longer present, "NOT the same as the
\* delete call succeeded": an object of that name can only be a newer one,
\* created after the revision the status reports was written.
SuccessMeansGone ==
    \A d \in Docs :
        status[d] # NoDoc /\ status[d].body.conditions.successful /\ Exists(d)
            => object[d].born >= status[d].body.observed

\* No lost wake-up: once the informer has delivered a revision, the status says of
\* it that the target is gone or waited for, or a sync of its key is due - unless
\* the document was overtaken.  (From WaitingForDeletion only a resync leads on.)
Settled(d) ==
    /\ status[d] # NoDoc
    /\ status[d].body.observed = spec[d].rev
    /\ status[d].body.conditions.reason \in {"NoErrors", "WaitingForDeletion"}
NothingForgotten ==
    up => \A d \in Docs :
        spec[d] # NoDoc /\ cache[d] = spec[d] /\ ~Overtaken(d)
            => Settled(d) \/ Scheduled(KeyOf(d, spec[d]))

\* Implements DesireProgress: ObservedDesireUpdateTime never goes back, nor ahead of
\* the spec.
Progresses == Progress!Spec

\* And with its liveness: a spec that stays as it is gets its revision reported.
CatchesUp == Progress!Liveness

\* Once the backend, the other hands and the failures pause, every desire ends with
\* the truth: its target gone and reported so, or, if it cannot be deleted, reported
\* as failed; never with WaitingForDeletion.
Resolved(d) ==
    spec[d] # NoDoc =>
        /\ status[d] # NoDoc
        /\ status[d].body.observed = spec[d].rev
        /\ LET reason == status[d].body.conditions.reason
           IN  IF spec[d].kind = "malformed" THEN reason = "PreCheckFailed"
               ELSE IF Exists(d) THEN spec[d].kind = "refused" /\ reason = "KubeAPIError"
               ELSE reason = "NoErrors"
Deletes == <>[](\A d \in Docs : Resolved(d))
=============================================================================
