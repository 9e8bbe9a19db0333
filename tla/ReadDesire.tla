----------------------------- MODULE ReadDesire -----------------------------
(***************************************************************************)
(* ReadDesires: the manager (pkg/controllers/read_desire_manager) runs one *)
(* ReadDesireKubernetesController per desire, and that instance            *)
(* (pkg/controllers/read_desire_kubernetes) mirrors its target, as its own *)
(* informer sees it, into .status.kubeContent.                             *)
(*                                                                         *)
(* The workers of DesireWorker are the manager's one thread and, named by  *)
(* the key of its desire, the worker of each instance.  Each instance owns *)
(* a queue that never holds anything but its key; all those queues share   *)
(* the variables of the manager's, with OwnKey(k) standing for k there.    *)
(* Stopping an instance cancels its context and shuts its queue down: what *)
(* remains of it is the request its worker was waiting on.                 *)
(***************************************************************************)
EXTENDS DesireWorker, Conditions

CONSTANT Manager    \* the manager's worker

VARIABLES
    live,      \* the version of each target in the cluster, 0 if it is absent
    running,   \* the manager's map of instances
    ahead      \* history: documents the manager fetched ahead of its informer

clusterVars == <<live, ahead>>
readVars == <<live, running, ahead>>
vars == <<storeVars, queueVars, feedVars, workerVars, readVars>>

-----------------------------------------------------------------------------
(***************************************************************************)
(* Values.  A spec is what its targetItem says: one of the targets, of     *)
(* which "unlistable" is one the apiserver refuses to list, or an          *)
(* incomplete reference.                                                   *)
(***************************************************************************)
SpecKinds == {"a", "b", "unlistable", "malformed"}
Targets == Kinds \ {"malformed"}

ASSUME KindsAssumption == Kinds \subseteq SpecKinds
ASSUME ManagerAssumption == Manager \notin Keys
ASSUME WorkersAssumption == Workers = Keys \cup {Manager}

OwnKey(k) == [instance |-> TRUE, scope |-> k.scope, name |-> k.name]
OwnKeys == {OwnKey(k) : k \in Keys}

\* What kubeContent may hold: nothing, or a target at some version of it.
NoContent == [target |-> "none", version |-> 0]
Contents == {NoContent} \cup [target: Targets, version: Nat \ {0}]
Live(t) == IF live[t] = 0 THEN NoContent ELSE [target |-> t, version |-> live[t]]

\* The read controllers set no Degraded condition.
Bodies == [observed: Nat, reason: Reasons, content: Contents]
StatusDoc == [ver: Nat, body: Bodies]

ASSUME NoStatusAssumption == NoDoc \notin StatusDoc

Content(d) == IF status[d] = NoDoc THEN NoContent ELSE status[d].body.content

Stopped == [target |-> "none"]
Instance == [target: Targets, rev: Nat, synced: BOOLEAN, store: Contents]
IsRunning(k) == running[k] # Stopped

\* Jobs of both kinds of worker.  rewrite says that content differs from what the
\* first fetch of the status found, so that mutate is to set it.
Jobs == [pc: {"fetchSpec", "stop", "start", "fetchOld", "fetchStatus", "create", "replace"},
         key: Keys \cup OwnKeys, rev: Nat, kind: SpecKinds \cup {"none"}, err: Errors,
         content: Contents, rewrite: BOOLEAN, ver: Nat]
NewJob(pc, key, revision) ==
    [pc |-> pc, key |-> key, rev |-> revision, kind |-> "none", err |-> "none",
     content |-> NoContent, rewrite |-> FALSE, ver |-> 0]

\* What mutate makes of the fetched status.  (The write succeeds only on the very
\* revision that was fetched, so the content it keeps is the present one.)
NewStatus(j) ==
    [observed |-> j.rev,
     reason   |-> SuccessfulReason(j.err),
     content  |-> IF j.rewrite THEN j.content ELSE Content(DocOf(j))]

Requests == StatusRequests(Bodies)
Pending(w) == PendingWrite(job[w], NewStatus(job[w]))

-----------------------------------------------------------------------------
Init ==
    /\ StoreInit
    /\ QueueInit
    /\ FeedInit
    /\ WorkerInit
    /\ \E version \in {0, 1} : live = [t \in Targets |-> version]
    /\ running = [k \in Keys |-> Stopped]
    /\ ahead = {}

(***************************************************************************)
(* The backend, and whoever else changes the targets.                      *)
(***************************************************************************)
BackendWrites(d) ==
    /\ \E kind \in Kinds, scope \in Scopes : WriteSpec(d, kind, scope)
    /\ UNCHANGED <<queueVars, feedVars, workerVars, readVars>>

BackendDeletes(d) ==
    /\ DeleteSpec(d)
    /\ UNCHANGED <<queueVars, feedVars, workerVars, readVars>>

\* A target is created, changed or deleted; every version has its own number.
TargetChanges(t) ==
    /\ Fault
    /\ \E version \in {0, faults + 2} :
          /\ version # live[t]
          /\ live' = [live EXCEPT ![t] = version]
    /\ UNCHANGED <<storeVars, queueVars, feedVars, up, job, wire, swallowed, landed, running, ahead>>

(***************************************************************************)
(* The manager's informer; unlike its siblings it handles deletions.       *)
(***************************************************************************)
\* Mutant: the manager has no handler for deletions, like its siblings.
SilentDelete(d) == DropDeleted(d)

HandleDelete(d) ==
    /\ spec[d] = NoDoc
    /\ cache[d] # NoDoc
    /\ cache' = [cache EXCEPT ![d] = NoDoc]
    /\ Add(KeyOf(d, cache[d]))
    /\ UNCHANGED <<cooling, processing, retry>>

Informer(d) ==
    /\ up
    /\ HandleChange(d) \/ HandleDelete(d)
    /\ ahead' = ahead \ {d}
    /\ UNCHANGED <<storeVars, workerVars, live, running>>

Resync(d) ==
    /\ up
    /\ HandleResync(d)
    /\ UNCHANGED <<storeVars, workerVars, readVars>>

Cooldown(k) ==
    /\ up
    /\ CooldownOver(k)
    /\ UNCHANGED <<storeVars, workerVars, readVars>>

Backoff(k) ==
    /\ up
    /\ RetryDue(k)
    /\ UNCHANGED <<storeVars, feedVars, workerVars, readVars>>

-----------------------------------------------------------------------------
(***************************************************************************)
(* The manager's SyncOnce.                                                 *)
(***************************************************************************)
Managed == job[Manager].key

StartSync(k) ==
    /\ Take(Manager, k, NewJob("fetchSpec", k, 0))
    /\ UNCHANGED <<storeVars, feedVars, readVars>>

\* Mutant: an instance is kept whatever the desire's target has become.
SameDesire(k, doc) == IsRunning(k)

\* exists && cur.target == target
Kept(k, doc) == IsRunning(k) /\ running[k].target = doc.kind

FetchSpec ==
    /\ At(Manager, "fetchSpec")
    /\ LET d == DocOf(job[Manager])
           doc == spec[d]
       IN  \/ /\ doc = NoDoc
              /\ Goto(Manager, "stop")
              /\ ahead' = ahead \ {d}
              /\ UNCHANGED faults
           \/ /\ doc # NoDoc
              /\ ahead' = IF cache[d] = doc THEN ahead \ {d} ELSE ahead \cup {d}
              /\ IF Kept(Managed, doc)
                 THEN Finish(Manager, FALSE)
                 ELSE /\ job' = [job EXCEPT ![Manager] =
                                    [job[Manager] EXCEPT !.pc = "stop", !.rev = doc.rev,
                                                         !.kind = doc.kind]]
                      /\ UNCHANGED queueVars
              /\ UNCHANGED faults
           \/ Fault /\ Finish(Manager, TRUE) /\ UNCHANGED ahead
    /\ UNCHANGED <<storeVars, feedVars, up, wire, swallowed, landed, live, running>>

\* stopByKey: cancel the instance, if there is one, and wait for Run to return.
StopInstance ==
    /\ At(Manager, "stop")
    /\ LET own == {OwnKey(Managed)}
       IN  /\ dirty' = dirty \ own
           /\ processing' = processing \ own
           /\ retry' = retry \ own
    /\ wire' = wire \cup Pending(Managed)
    /\ running' = [running EXCEPT ![Managed] = Stopped]
    /\ job' = [job EXCEPT ![Managed] = Idle, ![Manager] = [job[Manager] EXCEPT !.pc = "start"]]
    /\ UNCHANGED <<storeVars, feedVars, up, faults, swallowed, landed, clusterVars>>

\* Nothing to start for a deleted desire; a new instance; or Build refuses the target.
StartInstance ==
    LET j == job[Manager]
    IN  /\ At(Manager, "start")
        /\ \/ /\ j.kind = "none"
              /\ Finish(Manager, FALSE)
              /\ UNCHANGED running
           \/ /\ j.kind \in Targets
              /\ running' = [running EXCEPT ![j.key] = [target |-> j.kind, rev |-> j.rev,
                                                        synced |-> FALSE, store |-> NoContent]]
              /\ Finish(Manager, FALSE)
           \/ /\ j.kind = "malformed"
              /\ job' = [job EXCEPT ![Manager] =
                            [j EXCEPT !.pc = "fetchStatus", !.err = "precheck"]]
              /\ UNCHANGED <<queueVars, running>>
        /\ UNCHANGED <<storeVars, feedVars, workerVarsButJob, clusterVars>>

-----------------------------------------------------------------------------
(***************************************************************************)
(* An instance: its informer over the one target, its ticker, its worker.  *)
(***************************************************************************)
\* The informer's List succeeds; Run queues the key and starts the worker.
ListTarget(k) ==
    /\ IsRunning(k) /\ ~running[k].synced
    /\ running[k].target # "unlistable"
    /\ running' = [running EXCEPT ![k] = [running[k] EXCEPT !.synced = TRUE,
                                                            !.store = Live(running[k].target)]]
    /\ Add(OwnKey(k))
    /\ UNCHANGED <<storeVars, feedVars, workerVars, processing, retry, clusterVars>>

\* A watch event (several changes may have been coalesced, or been missed by a relist).
WatchTarget(k) ==
    /\ IsRunning(k) /\ running[k].synced
    /\ running[k].store # Live(running[k].target)
    /\ running' = [running EXCEPT ![k] = [running[k] EXCEPT !.store = Live(running[k].target)]]
    /\ Add(OwnKey(k))
    /\ UNCHANGED <<storeVars, feedVars, workerVars, processing, retry, clusterVars>>

\* The ticker of Run and the informer's resync, once a minute each.
Tick(k) ==
    /\ IsRunning(k) /\ running[k].synced
    /\ Add(OwnKey(k))
    /\ UNCHANGED <<storeVars, feedVars, workerVars, processing, retry, readVars>>

StartRead(k) ==
    /\ IsRunning(k)
    /\ Take(k, OwnKey(k), NewJob("fetchOld", OwnKey(k), running[k].rev))
    /\ UNCHANGED <<storeVars, feedVars, readVars>>

\* SyncOnce fetches the status and compares its content with the informer's store.
FetchOld(k) ==
    /\ At(k, "fetchOld")
    /\ \/ /\ job' = [job EXCEPT ![k] =
                       [job[k] EXCEPT !.pc = "fetchStatus",
                                      !.content = running[k].store,
                                      !.rewrite = running[k].store # Content(k.name)]]
          /\ UNCHANGED <<queueVars, faults>>
       \/ Fault /\ Finish(k, TRUE)
    /\ UNCHANGED <<storeVars, feedVars, up, wire, swallowed, landed, readVars>>

\* The calls of UpdateStatus, of either controller; SyncOnce returns its error alone.
FetchStatus(w) ==
    /\ UpdateFetch(w, NewStatus(job[w]), FALSE)
    /\ UNCHANGED <<rev, spec, feedVars, readVars>>

CreateStatus(w) ==
    /\ UpdateCreate(w, NewStatus(job[w]), FALSE)
    /\ UNCHANGED <<rev, spec, feedVars, readVars>>

ReplaceStatus(w) ==
    /\ UpdateReplace(w, NewStatus(job[w]), FALSE)
    /\ UNCHANGED <<rev, spec, feedVars, readVars>>

WriteLost(w) ==
    /\ UpdateLost(w, NewStatus(job[w]))
    /\ UNCHANGED <<rev, spec, feedVars, readVars>>

(***************************************************************************)
(* Requests given up on, and the life of the process.                      *)
(***************************************************************************)
Land(r) ==
    /\ r \in wire
    /\ LateStatus(r)
    /\ wire' = wire \ {r}
    /\ UNCHANGED <<rev, spec, queueVars, feedVars, up, job, faults, readVars>>

Crash ==
    /\ Die(UNION {Pending(w) : w \in Workers})
    /\ running' = [k \in Keys |-> Stopped]
    /\ ahead' = {}
    /\ UNCHANGED <<storeVars, live>>

Start == Lead /\ UNCHANGED <<storeVars, readVars>>

-----------------------------------------------------------------------------
Manage == FetchSpec \/ StopInstance \/ StartInstance
Report(w) == FetchStatus(w) \/ CreateStatus(w) \/ ReplaceStatus(w) \/ WriteLost(w)
Watch(k) == ListTarget(k) \/ WatchTarget(k)

Next ==
    \/ \E d \in Docs : BackendWrites(d) \/ BackendDeletes(d) \/ Informer(d) \/ Resync(d)
    \/ \E t \in Targets : TargetChanges(t)
    \/ \E k \in Keys : \/ Cooldown(k) \/ StartSync(k)
                       \/ Watch(k) \/ Tick(k) \/ StartRead(k) \/ FetchOld(k)
    \/ \E k \in Keys \cup OwnKeys : Backoff(k)
    \/ Manage
    \/ \E w \in Workers : Report(w)
    \/ \E r \in wire : Land(r)
    \/ Crash
    \/ Start

(***************************************************************************)
(* Fairness.  Informers deliver, tickers tick, cooldowns and backoffs end, *)
(* a worker that has a job goes on with it, the manager's queue serves     *)
(* every key in turn, and some replica becomes the leader.                 *)
(***************************************************************************)
Fairness ==
    /\ \A d \in Docs : WF_vars(Informer(d)) /\ WF_vars(Resync(d))
    /\ \A k \in Keys : /\ WF_vars(Cooldown(k)) /\ SF_vars(StartSync(k))
                       /\ WF_vars(Watch(k)) /\ WF_vars(Tick(k))
                       /\ WF_vars(StartRead(k)) /\ WF_vars(FetchOld(k))
    /\ \A k \in Keys \cup OwnKeys : WF_vars(Backoff(k))
    /\ WF_vars(Manage)
    /\ \A w \in Workers : WF_vars(Report(w))
    /\ WF_vars(Start)

Spec == Init /\ [][Next]_vars
FairSpec == Spec /\ Fairness

-----------------------------------------------------------------------------
TypeOK ==
    /\ rev \in Nat
    /\ spec \in [Docs -> SpecDoc \cup {NoDoc}]
    /\ status \in [Docs -> StatusDoc \cup {NoDoc}]
    /\ FeedTypeOK
    /\ QueueTypeOK(Keys \cup OwnKeys)
    /\ WorkerTypeOK
    /\ job \in [Workers -> Jobs \cup {Idle}]
    /\ wire \subseteq Requests
    /\ live \in [Targets -> Nat]
    /\ running \in [Keys -> Instance \cup {Stopped}]
    /\ ahead \subseteq Docs

(***************************************************************************)
(* Properties.                                                             *)
(***************************************************************************)
\* No instance runs for a deleted desire, except for a revision the manager fetched and
\* the informer never delivered (it came and went between two snapshots): no event
\* announces that deletion to the manager, and no resync reminds it.
Discarded(k) == ~IsRunning(k) \/ k.name \in ahead

\* The informer has delivered the document of the key, or its deletion.
Delivered(k) ==
    /\ cache[k.name] = spec[k.name]
    /\ spec[k.name] # NoDoc => spec[k.name].scope = k.scope

\* No lost wake-up of the manager: once the informer has delivered a revision or a
\* deletion, the instance that runs is one for that target, none runs for a document
\* without a target, and a refused target is reported - or a sync of the key is due,
\* or the document was overtaken.
RunsTheSpec(k) ==
    LET doc == spec[k.name]
    IN  IF doc = NoDoc THEN Discarded(k)
        ELSE IF doc.kind # "malformed" THEN IsRunning(k) /\ running[k].target = doc.kind
        ELSE /\ ~IsRunning(k)
             /\ status[k.name] # NoDoc
             /\ status[k.name].body.reason = "PreCheckFailed"
NothingForgotten ==
    up => \A k \in Keys :
        Delivered(k) /\ ~Overtaken(k.name) => RunsTheSpec(k) \/ Scheduled(k)

\* Implements DesireProgress: ObservedDesireUpdateTime never goes back, nor ahead of
\* what was written, across retries, late writes and changes of leader.
Progresses == Progress!Spec

\* Once the backend, the cluster and the failures pause, every status shows the live
\* object of its desire's target (nothing, if there is none), or the refusal of an
\* incomplete target, and nothing runs for a deleted desire (but see Discarded).
Mirrored(k) ==
    LET d == k.name
        doc == spec[d]
    IN  IF doc = NoDoc THEN Discarded(k)
        ELSE /\ status[d] # NoDoc
             /\ IF doc.kind = "malformed"
                THEN status[d].body.reason = "PreCheckFailed"
                ELSE /\ status[d].body.reason = "NoErrors"
                     /\ status[d].body.content = Live(doc.kind)
Mirrors == <>[](\A k \in Keys : Mirrored(k))

\* readme.md:59-61: ObservedDesireUpdateTime, "the UpdateTime of the spec document that
\* was reconciled, tells the backend I have processed the spec as of this revision" -
\* so it must come to name the last revision.
ObservedCatchesUp ==
    <>[](\A d \in Docs : spec[d] # NoDoc =>
            status[d] # NoDoc /\ status[d].body.observed = spec[d].rev)

\* readme.md:45-50: Successful means that the list/watch succeeded and the informer
\* synced, and is false with reason KubeAPIError when the apiserver call fails - so a
\* target the apiserver refuses to list must come to be reported.
RefusalIsReported ==
    <>[](\A d \in Docs : spec[d] # NoDoc /\ spec[d].kind = "unlistable" =>
            status[d] # NoDoc /\ status[d].body.reason = "KubeAPIError")

\* types_read_desire.go:10-11, controller.go:3-5 of the instance: kubeContent mirrors
\* the live object of the target.  So what a status that reports success shows is an
\* object of the target its own revision names.
ContentIsOfTarget ==
    \A d \in Docs, k \in Keys :
        /\ k.name = d /\ IsRunning(k)
        /\ status[d] # NoDoc /\ status[d].body.reason = "NoErrors"
        /\ status[d].body.observed = running[k].rev
        => status[d].body.content.target \in {"none", running[k].target}
=============================================================================
