---------------------------- MODULE ApplyDesire ----------------------------
(***************************************************************************)
(* ApplyDesireController (pkg/controllers/apply_desire): it server-side    *)
(* applies the object of every ApplyDesire and reports the outcome in the  *)
(* status database.                                                        *)
(*                                                                         *)
(* One process at a time leads (the leader-election lease); Crash and      *)
(* Start stand for losing the lease, a pod restart and a hand-over to      *)
(* another replica alike.  Every desire has one target of its own.         *)
(***************************************************************************)
EXTENDS DesireWorker, Conditions

VARIABLES
    object,    \* the live target of each desire in the management cluster
    applied,   \* history: the applies the apiserver executed
    disturbed  \* history: targets changed by others since our last own apply

applyVars == <<object, applied, disturbed>>
vars == <<storeVars, queueVars, feedVars, workerVars, applyVars>>

-----------------------------------------------------------------------------
(***************************************************************************)
(* Values.  A live object is its content and its metadata.generation;      *)
(* content is the revision whose kubeContent it holds, 0 if other hands    *)
(* made it, and generation 0 stands for no object.                         *)
(***************************************************************************)
SpecKinds == {"good", "malformed", "refused"}

ASSUME KindsAssumption == Kinds \subseteq SpecKinds

Objects == [content: Nat, gen: Nat]
Absent == [content |-> 0, gen |-> 0]
Foreign(o) == [content |-> 0, gen |-> o.gen + 1]

Bodies == [observed: Nat, gen: Nat, conditions: Conditions]
StatusDoc == [ver: Nat, body: Bodies]

ASSUME NoStatusAssumption == NoDoc \notin StatusDoc

Applies == [doc: Docs, rev: Nat, gen: Nat]

\* A worker's job: the fetched spec, the outcome of the apply, the fetched status.
Jobs == [pc: {"fetchSpec", "apply", "fetchStatus", "create", "replace"},
         key: Keys, rev: Nat, kind: SpecKinds, err: Errors, gen: Nat, ver: Nat]
NewJob(k) == [pc |-> "fetchSpec", key |-> k, rev |-> 0, kind |-> "good",
              err |-> "none", gen |-> 0, ver |-> 0]

\* Mutant: the status claims the revision the specs database holds by now.
CurrentStatus(j) ==
    [observed |-> IF spec[DocOf(j)] # NoDoc THEN spec[DocOf(j)].rev ELSE j.rev,
     gen |-> j.gen, conditions |-> SetConditions(j.err)]

\* The mutate function of SyncOnce: every status field is set from this sync.
NewStatus(j) ==
    [observed |-> j.rev, gen |-> j.gen, conditions |-> SetConditions(j.err)]

\* Mutant: the object is taken from the informer cache, the UpdateTime from the fetch.
CachedApplyRequest(j) ==
    [op |-> "apply", doc |-> DocOf(j),
     rev |-> IF cache[DocOf(j)] # NoDoc THEN cache[DocOf(j)].rev ELSE j.rev]

ApplyRequest(j) == [op |-> "apply", doc |-> DocOf(j), rev |-> j.rev]

Requests == [op: {"apply"}, doc: Docs, rev: Nat] \cup StatusRequests(Bodies)

\* The write a worker is waiting on; a refused object changes nothing when it lands.
Pending(j) ==
    IF j.pc = "apply" /\ j.kind = "good" THEN {ApplyRequest(j)}
    ELSE PendingWrite(j, NewStatus(j))

-----------------------------------------------------------------------------
Init ==
    /\ StoreInit
    /\ QueueInit
    /\ FeedInit
    /\ WorkerInit
    /\ object \in [Docs -> {Absent, Foreign(Absent)}]
    /\ applied = {}
    /\ disturbed = {}

(***************************************************************************)
(* The backend and the other hands in the cluster.                         *)
(***************************************************************************)
BackendWrites(d) ==
    /\ \E kind \in Kinds, scope \in Scopes : WriteSpec(d, kind, scope)
    /\ UNCHANGED <<queueVars, feedVars, workerVars, applyVars>>

BackendDeletes(d) ==
    /\ DeleteSpec(d)
    /\ UNCHANGED <<queueVars, feedVars, workerVars, applyVars>>

\* Someone edits or deletes the live object.
Drift(d) ==
    /\ object[d] # Absent
    /\ Fault
    /\ \E o \in {Absent, Foreign(object[d])} : object' = [object EXCEPT ![d] = o]
    /\ disturbed' = disturbed \cup {d}
    /\ UNCHANGED <<storeVars, queueVars, feedVars, up, job, wire, swallowed, landed, applied>>

(***************************************************************************)
(* The informer, the cooldown gate and the delaying queue.                 *)
(***************************************************************************)
Informer(d) ==
    /\ up
    /\ HandleChange(d) \/ DropDeleted(d)
    /\ UNCHANGED <<storeVars, workerVars, applyVars>>

Resync(d) ==
    /\ up
    /\ HandleResync(d)
    /\ UNCHANGED <<storeVars, workerVars, applyVars>>

Cooldown(k) ==
    /\ up
    /\ CooldownOver(k)
    /\ UNCHANGED <<storeVars, workerVars, applyVars>>

Backoff(k) ==
    /\ up
    /\ RetryDue(k)
    /\ UNCHANGED <<storeVars, feedVars, workerVars, applyVars>>

-----------------------------------------------------------------------------
(***************************************************************************)
(* The apiserver executes a server-side apply with Force: the object gets  *)
(* the content, and a new generation if that changes it.                   *)
(***************************************************************************)
AppliedObject(o, r) ==
    IF o.content = r THEN o ELSE [content |-> r, gen |-> o.gen + 1]

ExecuteApply(r) ==
    LET o == AppliedObject(object[r.doc], r.rev)
    IN  /\ object' = [object EXCEPT ![r.doc] = o]
        /\ applied' = applied \cup {[doc |-> r.doc, rev |-> r.rev, gen |-> o.gen]}

(***************************************************************************)
(* The workers: SyncOnce, one step per call.                               *)
(***************************************************************************)
StartSync(w, k) ==
    /\ Take(w, k, NewJob(k))
    /\ UNCHANGED <<storeVars, feedVars, applyVars>>

\* Whether a sync whose status write went well still returns the apply's error.
SyncFailed(w) == job[w].err # "none"

\* specFetcher.Fetch by document ID, then applyDesired's checks of the spec.
FetchSpec(w) ==
    /\ At(w, "fetchSpec")
    /\ LET doc == spec[DocOf(job[w])]
       IN  \/ /\ doc = NoDoc
              /\ Finish(w, FALSE)
              /\ UNCHANGED faults
           \/ /\ doc # NoDoc
              /\ job' = [job EXCEPT
                    ![w].pc = IF doc.kind = "malformed" THEN "fetchStatus" ELSE "apply",
                    ![w].err = IF doc.kind = "malformed" THEN "precheck" ELSE "none",
                    ![w].rev = doc.rev, ![w].kind = doc.kind]
              /\ UNCHANGED <<queueVars, faults>>
           \/ Fault /\ Finish(w, TRUE)
    /\ UNCHANGED <<storeVars, feedVars, up, wire, swallowed, landed, applyVars>>

\* The apply was executed and its answer came back.
ApplyDone(w) ==
    /\ At(w, "apply")
    /\ job[w].kind = "good"
    /\ ExecuteApply(ApplyRequest(job[w]))
    /\ job' = [job EXCEPT ![w].pc = "fetchStatus",
                          ![w].gen = object'[DocOf(job[w])].gen]
    /\ disturbed' = disturbed \ {DocOf(job[w])}
    /\ UNCHANGED <<storeVars, queueVars, feedVars, up, wire, faults, swallowed, landed>>

\* The apiserver refuses the object for what it is, or (429, 403, 409) for now.
ApplyRefused(w) ==
    /\ At(w, "apply")
    /\ (job[w].kind = "refused" /\ UNCHANGED faults) \/ Fault
    /\ job' = [job EXCEPT ![w].pc = "fetchStatus", ![w].err = "client"]
    /\ UNCHANGED <<storeVars, queueVars, feedVars, up, wire, swallowed, landed, applyVars>>

\* A 5xx answer or a lost connection: the request may still be executed.
ApplyLost(w) ==
    /\ At(w, "apply")
    /\ Fault
    /\ wire' = wire \cup Pending(job[w])
    /\ job' = [job EXCEPT ![w].pc = "fetchStatus", ![w].err = "server"]
    /\ UNCHANGED <<storeVars, queueVars, feedVars, up, swallowed, landed, applyVars>>

\* The calls of UpdateStatus.
FetchStatus(w) ==
    /\ UpdateFetch(w, NewStatus(job[w]), SyncFailed(w))
    /\ UNCHANGED <<rev, spec, feedVars, applyVars>>

CreateStatus(w) ==
    /\ UpdateCreate(w, NewStatus(job[w]), SyncFailed(w))
    /\ UNCHANGED <<rev, spec, feedVars, applyVars>>

ReplaceStatus(w) ==
    /\ UpdateReplace(w, NewStatus(job[w]), SyncFailed(w))
    /\ UNCHANGED <<rev, spec, feedVars, applyVars>>

WriteLost(w) ==
    /\ UpdateLost(w, NewStatus(job[w]))
    /\ UNCHANGED <<rev, spec, feedVars, applyVars>>

(***************************************************************************)
(* A request its caller gave up on reaches the server.                     *)
(***************************************************************************)
LateApply(r) ==
    /\ r.op = "apply"
    /\ ExecuteApply(r)
    /\ disturbed' = disturbed \cup {r.doc}
    /\ UNCHANGED <<status, swallowed, landed>>

Land(r) ==
    /\ r \in wire
    /\ LateApply(r) \/ (LateStatus(r) /\ UNCHANGED applyVars)
    /\ wire' = wire \ {r}
    /\ UNCHANGED <<rev, spec, queueVars, feedVars, up, job, faults>>

Crash ==
    /\ Die(UNION {Pending(job[w]) : w \in Workers})
    /\ UNCHANGED <<storeVars, applyVars>>

Start == Lead /\ UNCHANGED <<storeVars, applyVars>>

-----------------------------------------------------------------------------
Work(w) ==
    \/ FetchSpec(w) \/ FetchStatus(w) \/ CreateStatus(w) \/ ReplaceStatus(w)
    \/ ApplyDone(w) \/ ApplyRefused(w) \/ ApplyLost(w) \/ WriteLost(w)

Next ==
    \/ \E d \in Docs : \/ BackendWrites(d) \/ BackendDeletes(d) \/ Drift(d)
                       \/ Informer(d) \/ Resync(d)
    \/ \E k \in Keys : Cooldown(k) \/ Backoff(k)
    \/ \E w \in Workers : Work(w) \/ \E k \in Keys : StartSync(w, k)
    \/ \E r \in wire : Land(r)
    \/ Crash
    \/ Start

(***************************************************************************)
(* Fairness.  The watch delivers, the resync ticker and the backoff timer  *)
(* fire, a cooldown period passes, an idle worker takes work, every call   *)
(* returns, a lost leader is replaced.  Nothing is assumed of the backend, *)
(* of other hands, of faults or of requests left on the wire.              *)
(***************************************************************************)
Fairness ==
    /\ \A d \in Docs : WF_vars(Informer(d)) /\ WF_vars(Resync(d))
    /\ \A k \in Keys : WF_vars(Cooldown(k)) /\ WF_vars(Backoff(k))
    /\ \A w \in Workers : WF_vars(Work(w))
    /\ \A k \in Keys : SF_vars(\E w \in Workers : StartSync(w, k))
    /\ WF_vars(Start)

Spec == Init /\ [][Next]_vars
FairSpec == Spec /\ Fairness

-----------------------------------------------------------------------------
TypeOK ==
    /\ rev \in Nat
    /\ spec \in [Docs -> SpecDoc \cup {NoDoc}]
    /\ status \in [Docs -> StatusDoc \cup {NoDoc}]
    /\ FeedTypeOK
    /\ QueueTypeOK(Keys)
    /\ WorkerTypeOK
    /\ job \in [Workers -> Jobs \cup {Idle}]
    /\ wire \subseteq Requests
    /\ object \in [Docs -> Objects]
    /\ applied \subseteq Applies
    /\ disturbed \subseteq Docs

(***************************************************************************)
(* Properties.                                                             *)
(***************************************************************************)
\* The status says that the current revision of the spec is applied.
Reported(d) ==
    /\ spec[d] # NoDoc
    /\ status[d] # NoDoc
    /\ status[d].body.observed = spec[d].rev
    /\ status[d].body.conditions.successful

\* A status never claims more than was done: Successful=True with a revision and
\* a generation only if the apiserver, applying the object of that revision,
\* answered with that generation - whatever failed, restarted or landed late.
StatusWitnessed ==
    \A d \in Docs :
        status[d] # NoDoc /\ status[d].body.conditions.successful
            => [doc |-> d, rev |-> status[d].body.observed, gen |-> status[d].body.gen]
                 \in applied

\* No lost wake-up: once the informer has delivered a revision, either the status
\* reports it applied or a sync of its key is due - unless the document was
\* overtaken, the two gaps processNext and UpdateStatus leave to the resync.
NothingForgotten ==
    up => \A d \in Docs :
        spec[d] # NoDoc /\ cache[d] = spec[d] /\ ~Overtaken(d)
            => Reported(d) \/ Scheduled(KeyOf(d, spec[d]))

\* What the status reports about the current revision is what the cluster holds,
\* unless someone else (or a late apply) changed the object after our last apply;
\* and between two syncs the generation it reports is the live one, too.
ReportedMeansApplied ==
    \A d \in Docs : Reported(d) /\ d \notin disturbed =>
        /\ object[d].content = spec[d].rev
        /\ up /\ cache[d] = spec[d] /\ ~Overtaken(d) /\ ~Scheduled(KeyOf(d, spec[d]))
           => object[d].gen = status[d].body.gen

\* Implements DesireProgress: ObservedDesireUpdateTime never goes back, nor ahead of
\* what was written.
Progresses == Progress!Spec

\* Once the backend, the other hands and the failures pause, every desire is
\* reconciled for good: an applicable object is live and reported as such, an
\* inapplicable one is reported as failed for the current revision.
Reconciled(d) ==
    spec[d] # NoDoc =>
        IF spec[d].kind = "good"
        THEN /\ Reported(d)
             /\ object[d] = [content |-> spec[d].rev, gen |-> status[d].body.gen]
        ELSE /\ status[d] # NoDoc
             /\ status[d].body.observed = spec[d].rev
             /\ ~status[d].body.conditions.successful
Converges == <>[](\A d \in Docs : Reconciled(d))

\* What the comment on StatusWriter (desirestatuswriter.go:60-62) says of the
\* conflict it swallows: "the informer will requeue when the new revision lands".
\* So when the informer has delivered all there is, the key is scheduled again.
ConflictIsRequeued ==
    up /\ cache = spec => \A d \in swallowed :
        spec[d] # NoDoc => Reported(d) \/ Scheduled(KeyOf(d, spec[d]))
=============================================================================
