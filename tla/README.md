# A verification of kube-applier-gcp and its neighbours in TLA+

`kube-applier` (src/experiments/kube-applier-gcp) is the one long-running
program of this repository: an agent that runs in every management cluster,
reads *desires* (ApplyDesire, DeleteDesire, ReadDesire) that a backend writes to
a Firestore database, carries them out against the cluster's apiserver, and
reports the outcome to a second Firestore database. Beside it the repository
holds two experiments with behaviour worth checking: the setup and cleanup of a
Private Service Connect demo on Compute Engine (src/experiments/psc-research/golang)
and an admission webhook that makes hosted control planes acceptable to GKE
Autopilot (src/experiments/ho-platform-none/webhook). This directory models these
three in TLA+, checks the models with TLC and proves the safety properties of all
three with TLAPS. The rest of the repository is documents,
manifests, research scripts and small one-shot tools; the inventory lists them
with the reason they are left out.

## 1. Inventory

### The agent's components

| Component | State it keeps | Operations | Correct when |
|---|---|---|---|
| Firestore databases (`internal/database/crud.go`) | spec documents (written by the backend), status documents (written by the agent), a server-managed UpdateTime each | Get, List, Create (fails if the document exists), Replace (precondition: the UpdateTime read) | no status write overwrites one its writer has not seen |
| Informers (`internal/database/informers`) | a cache of the specs collection | List, Watch over Firestore snapshots, resync every 30 s, relist on error | every revision that stays is eventually delivered; deleted documents leave the cache |
| Workqueue (client-go) and keys (`controllers/keys`) | dirty, processing, delayed keys | Add, Get, Done, AddRateLimited, Forget | no wake-up is lost; a key is held by one worker |
| Cooldown gate (`controllerutils/cooldown.go`) | next execution time per key | CanSync | an unchanged desire passes at most once per period, and passes again eventually |
| Status writer (`desirestatuswriter`) | none | UpdateStatus: fetch, mutate, compare, Replace or Create; a conflict is swallowed | the last word on a desire is that of its last sync |
| Conditions (`conditions`) | none | SetSuccessful, SetDegraded, WaitingForDeletion | reasons follow the error's class |
| ApplyDesire controller (4 workers) | queue, cooldown | handlers, SyncOnce: fetch spec, server-side apply, update status | a status never claims more than was done; every desire is eventually applied and reported |
| DeleteDesire controller (4 workers) | queue, cooldown | SyncOnce: get, delete, get again, update status | success is reported only of an object that was absent; a blocked deletion is re-examined |
| ReadDesire manager (1 worker) | running instances by key | SyncOnce: start, keep, replace or stop an instance | exactly the current target is watched |
| ReadDesire instance (one per desire) | informer over one object, queue, 60 s ticker | SyncOnce: compare the cached object with the status, update status | the status ends up showing the live object of the current target |
| Leader election and wiring (`pkg/app`, `cmd`) | the lease | start informers, wait for caches, run controllers; stop on loss | one leader acts at a time |
| KubeContent codec (`rawext_codec.go`) | none | RawExtension to Firestore map and back | a stored document reads back equal |

How they interact: the backend writes a spec; the informer reports it to the
controller's handlers, which put a key on the workqueue (at once if the
UpdateTime changed, through the cooldown gate otherwise); a worker takes the key,
fetches the spec again by document ID, talks to the apiserver, fetches the status
document, and replaces or creates it. Nothing watches the status database.

### What is hard

* Workers, handlers, backend, apiserver and a previous leader interleave between
  any two calls: a spec changes after it is fetched, an object after it is
  applied, a status between fetch and Replace.
* A call can fail although its request is executed, at once or later.
* A leader can die between any two calls; its requests may land under the next.
* A conflict on the status document is swallowed; only the resync recovers it.
* A resync is gated by a cooldown; a wrong gate turns recovery off.
* Stopping a ReadDesire instance does not wait for its worker.
* The list-then-watch of the informer can miss a deletion; one malformed document
  fails a whole List.

PROJECT.json lists each hazard at the line where it bites.

### The Private Service Connect demo

| Component | State it keeps | Operations | Correct when |
|---|---|---|---|
| Compute Engine (external) | resources that refer to each other, operations under way | insert, delete, addInstances, setNamedPorts, update, get | |
| Setup (`cmd/main.go`, `pkg/vpc`, `pkg/vm`, `pkg/psc`, `pkg/testing`) | none; what exists is looked up | 29 steps: look the resource up, skip it or request it, poll its operation | success means everything is in place and wired up; it can be run again after any failure |
| Cleanup (`cmd/cleanup.go`) | none | gcloud deletions in a fixed order, errors ignored | whatever can be deleted is deleted |

Hard: an operation goes on when the tool that began it is killed; a resource is
found, or not, while it is being created or deleted; errors of the cleanup are
warnings; group members, ports and backends are changed after the resource they
belong to exists; no wait has a deadline.

### The Autopilot webhook

| Component | State it keeps | Operations | Correct when |
|---|---|---|---|
| Webhook (`webhook/main.go`) | none | mutate: a JSON patch by kind, name and shape of the object | its patches apply, are idempotent, and leave no object half patched |
| The apiserver and the objects' owners (external) | the stored objects | create, update, delete; apply a patch, validate | |

Hard: the webhook sees objects it has patched before; `failurePolicy: Ignore`
stores objects unpatched while it is away; one operation that does not apply
makes the apiserver refuse the whole object; the claims of a StatefulSet are
immutable. The apiserver calls it only for namespaces labelled
`hypershift.openshift.io/hosted-control-plane: "true"` (`deploy-webhook.sh:246-248`),
whatever names the webhook itself goes by.

### Elsewhere in the repository

`pipeline-automation/tekton/gcpctl` (single calls on the Tekton API),
`pipeline-automation/cloud-workflows` (workflow definitions), the installer of
`ho-platform-none` (a sequence of gcloud and kubectl commands), `auth/phase2-poc`
and `wif-example` (HTTP front ends), `complytime-evidence` (shell and Rego
checks), `bootstrap` (vendored manifests), `claude-plugin`, `design-decisions`,
`docs` (text). None is modelled.

## 2. The modules

| Module | Models | Built from |
|---|---|---|
| `Conditions` | error classes and the conditions they become | |
| `WorkQueue` | the rate-limiting workqueue (client-go; external) | |
| `DesireStore` | the two databases, optimistic concurrency | |
| `DesireFeed` | informer cache, handlers, keys, cooldown gate | `DesireStore`, `WorkQueue` |
| `DesireWorker` | what all workers share: processNext, UpdateStatus, failing and late calls, the life of the process | `DesireFeed` |
| `ApplyDesire` | the apply controller and the apiserver's server-side apply | `DesireWorker`, `Conditions` |
| `DeleteDesire` | the delete controller and a target with finalizers and other owners | `DesireWorker`, `Conditions` |
| `ReadDesire` | the manager and the instances it starts and stops | `DesireWorker`, `Conditions` |
| `DesireProgress` | what ObservedDesireUpdateTime promises; implemented by the three controllers | |
| `SpecInformer` | List, watch, relist and resync of the informers, and the start of the controllers | |
| `SpecDelivery` | what the controllers expect of the informers; implemented by `SpecInformer` | |
| `PscPlan` | the steps of setup and cleanup: names, order, references | |
| `ComputeEngine` | resources, references, operations (external) | `PscPlan` |
| `PscDemo` | the two tools running those steps, failing and being killed | `ComputeEngine` |
| `JsonPatch` | a JSON patch as the apiserver applies it (external) | |
| `AutopilotWebhook` | the webhook's patches, the apiserver that calls it, owners and outages | `JsonPatch` |
| `DesireLemmas` | facts about the shared steps, for any set of jobs and bodies | `DesireWorker`, `Conditions`, `TLAPS` |
| `DesireSyncProofs` | what a controller guarantees whatever it does to its target: `SyncStep`, the common shape of the steps of ApplyDesire and DeleteDesire, and the two invariants every such step keeps | `DesireLemmas` |
| `ApplyDesireProofs`, `DeleteDesireProofs` | theorems about one controller each | that controller, `DesireSyncProofs` |
| `ReadDesireProofs` | theorems about ReadDesire: where its workers are; what its manager and instances guarantee | `ReadDesire`, `DesireLemmas` |
| `SpecInformerProofs` | theorems about the informers | `SpecInformer` |
| `PscDemoProofs` | theorems about the two tools | `PscDemo` |
| `AutopilotWebhookProofs` | what patches do to a workload, theorems about the webhook | `AutopilotWebhook` |
| `MCApplyDesire`, `MCDeleteDesire`, `MCReadDesire`, `MCSpecInformer`, `MCPscDemo`, `MCAutopilotWebhook` | constants and symmetry for TLC | that module |

### How state and actions correspond to the code

* **Documents.** A spec is its UpdateTime (`rev`, which also identifies its
  content), its kind (what the controller can make of it) and its scope
  (ClusterID, NodePoolName). A status is its UpdateTime (`ver`) and the fields
  the controllers write: the observed revision, the conditions, for ApplyDesire
  the generation of the applied object, for ReadDesire the content. A message is
  left out, so two errors of a class have one message; a run of the code writes
  more often than the model when only a message changed.
* **Feed.** `HandleChange` is handleAdd, or handleUpdate with a new UpdateTime;
  `HandleResync` is handleUpdate with the same one, behind `CanSync`. The informer
  delivers a document's current revision (snapshots coalesce), together with the
  handler: a handler only queues a key. `SpecInformer` is what lies under it. `CooldownOver` is the passing of a period.
* **Queue.** `dirty`, `processing` and the delaying heap `retry`; the FIFO order
  is left open.
* **Workers.** `job[w].pc` names the call a worker is about to make, and each
  call is one step: `fetchSpec`, the apiserver's calls, `fetchStatus`, `create` or
  `replace`. The rest of `job[w]` is SyncOnce's local variables. `Finish` is the
  end of processNext.
* **Failures.** A call can fail before it is executed, or be given up on: its
  request then goes to `wire`, from which `Land` may execute it at any later time
  or never. `Crash` is the loss of the lease or of the process, between any two
  steps, with every pending write left on the wire; `Start` is the next leader,
  with an empty memory.
* **ApplyDesire.** `ExecuteApply` is a server-side apply with Force: the object
  gets the content, and a new generation if that changes it. `Drift` is somebody
  else's edit or deletion.
* **DeleteDesire.** evaluate's Get, Delete and second Get are `GetTarget`,
  `DeleteTarget` and `PostGet`. An object has a UID and a phase; `Recreate`,
  `Removed` and `FinalizersDone` are other owners and the garbage collector.
* **ReadDesire.** `FetchSpec`, `StopInstance`, `StartInstance` are the manager's
  SyncOnce; `running` is its map. `ListTarget`, `WatchTarget`, `Tick` are an
  instance's informer and ticker, `StartRead` and `FetchOld` the start of its
  SyncOnce, whose second fetch and write are UpdateStatus like everyone's. The
  instances' queues share the manager's variables under `OwnKey(k)`. Stopping an
  instance does not wait for its worker (`Run` returns when its context is
  cancelled): a write it was waiting on stays on the wire.

* **Informers.** One reflector per collection: `List` fills the cache and starts
  the listener, whose first snapshot reports everything anew. `Notice` is one
  document's change in a snapshot (changes of different documents commute), put
  on a channel of `Buffer` events; a document that does not decode is skipped
  there and fails a `List`. `Break` is the end of the stream with `sendError` as
  its last event. `Handle` is the reflector taking one event: an error makes it
  list again, after which the resync rests until the list has succeeded.
  `StartControllers` waits for every collection (`AllSynced`). `Sync` stands for a
  controller's whole sync: it fetches the document and acts on what it finds.
* **PSC.** A step of `PscPlan` is one function of the code: create a resource,
  add the VM, set the ports, add the backend, delete. `Check`, `Request`, `Poll`
  and `ReadBack` are its calls. A request is accepted or refused by
  `ComputeEngine`; an accepted one becomes an operation that ends at any later
  time, whoever waits for it. Setup returns the first error; cleanup goes on.
  `verdict` is what the tool told its user last.
* **Webhook.** A workload is what the fixes look at and change: the pod's
  security context, affinity, volumes and claims, and per container its security
  context, CPU request and mounts. Values are named by who put them there (the
  owner, or a fix). `Submit` is one request to the apiserver: call the webhook if
  it is configured and up, apply its patch altogether or refuse, validate, store.
  `Selected` is the set of namespaces with the label of the configuration's
  selector. Nothing in this repository labels a namespace: HyperShift labels those
  of hosted control planes, and anybody may label others. Namespace `hypershift`,
  which the webhook would treat as a control plane (`main.go:649-652`), is not among
  those HyperShift labels; as deployed, the webhook is not called for it.

The history variables (`applied`, `disturbed`, `swallowed`, `landed`, `ahead`,
the `born` of an object; `shown`, `since` of the informers; `clean`, `assumed` of a setup; `refused`, `fixed` of a
workload) guard no action; properties read them.

Definitions marked external in PROJECT.json's map stand for what is not under
`src/`: client-go's queue, reflector and shared informer, the apiserver, the
backend, Firestore's server side, Compute Engine, the owners of workloads.

### The refinements

* `DesireProgress` has a revision per spec document and one per status: a status
  names a revision that was written, only ever a later one (`Spec`), and in the
  end the last one (`FairSpec`). `DesireWorker!Progress` maps the Firestore
  documents to it. `Progresses` is that a controller implements `Spec`; all three
  do. `CatchesUp` is what `FairSpec` adds. It is checked of DeleteDesire; for
  ApplyDesire it is part of what `Converges` says; ReadDesire does not have it:
  disagreement 2 is the run that shows why.
* `SpecDelivery` knows no lists, streams, channels or queues. It has a store beside
  the database, and says what the store may do (`Spec`): move to a revision later than
  any it has held, across removals, or drop one that is not the document's any more;
  that the controllers start when the store is no older than their leader; and that
  they act on a document once the store has shown it. In the end, they act on every
  document that stays, as long as all of them decode (`Liveness`). The store is the
  informers' cache; `shown` and `since` are the history it takes to say "than any it
  has held" and "no older than". `SpecInformer!DeliversInOrder` and
  `SpecInformer!Delivers` are that `SpecInformer` implements the one and the other.
  The first is about what the store goes through between the database and the
  controllers, and depends on all of it: on the order of the channel, on a relist
  that empties it, on removals that overtake nothing, on waiting for every List.

## 3. What is checked

| Run | Instance | Shows |
|---|---|---|
| `apply` | 1 document, 1 worker, 3 kinds of spec, 2 revisions, 2 faults | `StatusWitnessed`: a status claims success only for a revision and generation the apiserver did answer with. `NothingForgotten`: no wake-up is lost, but for the two gaps `Overtaken` names. `ReportedMeansApplied`: what is reported is live unless somebody else interfered. `Progresses`: implements `DesireProgress`. `Converges`: every desire ends up applied and reported, or reported as failed |
| `apply_scopes` | 2 scopes, 2 workers, 2 revisions, no fault | a document moved between scopes is synced under two keys at once: still witnessed, still converging |
| `apply_conflict` | 2 workers, 2 faults | **violated**: a swallowed status conflict is not requeued by the informer |
| `delete` | 1 document, 1 worker, 2 revisions, 1 fault | `SuccessMeansGone`: success is reported only of a target that was absent after the revision was written. `NothingForgotten`, `Progresses`, `CatchesUp`. `Deletes`: targets end up gone and reported gone; waiting for finalizers never stays |
| `read` | 2 targets or none, 2 revisions, 1 fault | `NothingForgotten` of the manager; `Progresses` across instances, their late writes and leaders. `Mirrors`: the status ends up showing the live object of the current target, or the refusal |
| `read_observed` | 1 target, 2 revisions, no fault | **violated**: a ReadDesire rewritten with the same target is never reported as processed |
| `read_refused` | 1 unlistable target | **violated**: a target the apiserver refuses to list never gets a status |
| `read_content` | 2 targets, 1 fault | **violated**: a status may show the old target's object under the new revision |
| `informer` | 2 collections, 2 documents, 3 revisions, channels of 2, 1 fault | `DeliversInOrder`: implements `SpecDelivery` step by step: no cache returns to a revision it has held, whether overtaken or removed since, none drops what is still there, and the controllers start under caches no older than their leader. `Delivers`: its liveness. `CaughtUp`: a revision the watch has reported is acted on or queued. `CacheForward`: the cache never goes back to an older revision. `GhostsAreLaid`: a deletion the watch missed is found by the resync. `NeighboursDoNoHarm`: while a collection is watched, a document that does not decode does not keep the others from being delivered |
| `psc` | 3 runs of either tool, 2 faults, the group cannot be deleted | `RerunSucceeds`: whatever earlier runs left, a setup without failures of its own succeeds once their operations have ended. `SuccessIsComplete`: its success means that everything is there and wired up, but for what it found in the middle of a change. `CleanupLeavesLittle`: the cleanup's order respects every reference. `RunsEnd`: no run hangs |
| `psc_egress` | 2 runs, no fault | **violated**: the provider's egress rule is created as an ingress rule |
| `webhook` | 6 workloads of all sorts, 2 outages, `hypershift` not labelled | `NothingBlocked`: no Deployment or Pod is ever refused because of the webhook. `EtcdAllOrNothing`: etcd is patched altogether or not at all. `EditsChangeNothing`: a second pass changes nothing. `DeploymentsHeal`: after an outage every Deployment of a control plane in a selected namespace is patched in the end |

### The disagreements between code and text

1. `desirestatuswriter.go:62` says that on a conflict "the informer will requeue
   when the new revision lands". The informers watch the specs database; a status
   revision reaches none of them. The cooldown-gated resync repairs it, so
   `Converges` holds.
2. The readme says that ObservedDesireUpdateTime tells the backend that the spec
   "as of this revision" was processed. A ReadDesire rewritten with an unchanged
   target keeps its instance, which keeps the UpdateTime it was built with.
3. The readme says of a ReadDesire that a failing list is reported as
   KubeAPIError. The worker of an instance starts after the informer's first List
   succeeded, so such a desire never gets a status.
4. A ReadDesire instance compares with one fetch of the status and writes on top
   of a second. A late write of its predecessor between the two leaves the old
   target's object under the new revision until the next tick.
5. `vpc.go` puts the provider's `-allow-egress` rule in a list that is created as
   INGRESS; the separate creation as EGRESS then finds the name taken and skips.
6. Not a run of its own: the readme says that a deleted ReadDesire's instance is
   stopped (readme.md:218). The manager fetches specs past its informer; a revision
   that comes and goes between two snapshots may start an instance no event will
   ever stop.
7. Nor these, of the tools: `cleanup.go:90` calls `gcloud compute instance-groups
   delete`, which gcloud has for `managed` and `unmanaged` groups only, so the group
   and what it refers to stay (`NoCommand` in `psc`) although line 64 says that all
   resources have been deleted; and the webhook requests 50m or 100m of CPU where
   the comment on its line 124 speaks of a minimum of 500m.

The safety properties state exactly the exceptions 1 and 6 force on them
(`Overtaken`, `Discarded`), and `Mirrors` asks for the content but not for the
revision because of 2.

### Bounds, and why they are enough

*The agent.* `MaxRev` bounds the backend's writes: two revisions are the fewest by
which a status can be stale. `MaxFaults` bounds failed calls, crashes and foreign
changes together: with two, a request can be given up on and its leader replaced,
or a status conflict can meet a second failure; deletion and reading, whose
targets have a life of their own, afford one. One document suffices for properties about one
document: desires share only the queue, whose keys are independent, and the
workers, which `NothingForgotten` and the liveness properties treat as able to
serve any key. One worker suffices for one document in one scope, as the queue
hands a key to one worker at a time; the second is needed with two scopes. Where a
run of safety properties has two, it uses their symmetry. Contents, names and
messages are not bounded but abstracted: two targets are the fewest that can be
confused.

*The informers.* Two documents in one collection, so that one can spoil the other's
List, and a second collection that stays empty, for which the start of the
controllers has to wait all the same; three revisions let a document break, be
repaired and change once more. One fault breaks a stream or a leader. A channel of two fills up, as the one of 100 does.

*PSC.* Three runs: one that is killed, one whose cleanup or setup meets its
remains, one that has to put things right. The plan is the code's, with all
29 steps of the setup and 22 of the cleanup.

*Webhook.* Two outages: an object can be created in one and edited in another.
There is one workload of every sort the code tells apart, one in a selected namespace
that is no control plane, one in namespace `hypershift`, which nobody labels, and one
Pod without labels; kube-apiserver has two manifests, so that an
owner can change its mind between passes.

The runs of the agent and the PSC tools turn deadlock checking off: with all
revisions written and nothing in the cache, kube-applier waits for its backend;
with all runs used up and nothing under way, nothing happens to a project. Neither
is an error. The webhook's run checks for deadlock.

### Fairness

Weak fairness of the informer, of the resync, of cooldowns and backoffs, of every
worker that has a job and of `Start`: these are tickers, timers, a watch client-go
restarts, calls that come back, and a lease some replica will take. That a call
comes back is an assumption on the network: the code gives its calls the worker's
context, without a deadline of their own. Strong
fairness of handing out a key (`StartSync`): the queue is a FIFO, which the model
leaves out, and a key in it can be outrun only by those ahead of it; weak fairness
would allow a key that is re-added again and again to wait forever. Nothing is
assumed of the backend, of other hands in the cluster, of faults or of requests on
the wire: liveness is therefore of the form `<>[]`, "once they pause".

*Informers*: weak fairness of listing, listening, handling, resyncing, syncing and
of the leader's start, all loops of client-go and the agent. Nothing is assumed of
the backend or of streams that break.

*PSC*: weak fairness of the running tool's next call, of operations (Compute
Engine ends them, one way or the other) and of a booting VM. The tools rely on it:
no wait has a deadline (`vpc.go:419`), so `RunsEnd` supposes it and says nothing of
an operation that never ends. Nothing makes a user start a run or end one.

*Webhook*: weak fairness of its return and of every owner submitting its manifest
again: controllers reconcile for ever, and the webhook is run by a Deployment. Whether
a namespace is labelled does not change.

## 4. What is proved

The theorems hold for every set of documents, collections, kinds, workers and
manifests, and without the bounds (`MaxRev`, `MaxFaults`, `MaxRuns`, `MaxOutages`,
`Buffer` are arbitrary).

| Module | Theorem | States |
|---|---|---|
| `ApplyDesireProofs` | `TypeCorrect` | `[]TypeOK` |
| | `StatusIsWitnessed` | `[]StatusWitnessed` |
| | `NoneIsForgotten` | `[]NothingForgotten` (in scope) |
| | `ReportedIsApplied` | `[]ReportedMeansApplied` (in scope) |
| | `ImplementsProgress` | `Progresses`: the refinement of `DesireProgress!Spec` (in scope) |
| `DeleteDesireProofs` | `TypeCorrect` | `[]TypeOK` |
| | `SuccessIsGone` | `[]SuccessMeansGone` |
| | `NoneIsForgotten` | `[]NothingForgotten` (in scope) |
| | `ImplementsProgress` | `Progresses` (in scope) |
| `ReadDesireProofs` | `TypeCorrect` | `[]TypeOK` |
| | `WorkersInPlace` | each worker works on its own keys, and only while it may |
| | `NoneIsForgotten` | `[]NothingForgotten` (in scope) |
| | `ImplementsProgress` | `Progresses` (in scope) |
| `SpecInformerProofs` | `TypeCorrect` | `[]TypeOK` |
| | `CacheMovesForward` | `CacheForward`, an action property |
| | `ReadMeansQueued` | `[]CaughtUp` |
| | `ImplementsDelivery` | `DeliversInOrder`: the refinement of `SpecDelivery!Spec` |
| `PscDemoProofs` | `TypeCorrect` | `[]TypeOK` |
| | `SuccessIsWired` | `[]SuccessIsComplete` |
| | `RerunsSucceed` | `[]RerunSucceeds` |
| | `CleanupLeavesOnlyStuck` | `[]CleanupLeavesLittle` |
| `AutopilotWebhookProofs` | `StoredFromManifests` | stored objects are manifests or what the webhook makes of one |
| | `TypeCorrect` | `[]TypeOK` |
| | `EditsAreIdle` | `EditsChangeNothing`, an action property |
| | `EtcdIsWhole` | `[]EtcdAllOrNothing` |
| | `NoneIsBlocked` | `[]NothingBlocked` |

### In scope

The theorems marked so have the hypothesis `[]InScope(home)`: every document stays in
one scope (ClusterID and NodePoolName), `home[d]`, whoever rewrites it. The agent
keys its queue by scope and name (`keys.go:21-27`) but fetches by document ID, so a
moved document has two keys, which two workers may hold at once. Without the
hypothesis the formulas are false, and TLC shows it on two scopes: the worker on the
older revision may be the last to report (`Progress!Spec` is violated, for
ApplyDesire and DeleteDesire alike), and a ReadDesire leaves an instance behind under
its old key, which reports its old revision for ever. Document IDs are derived from
the task and the target, so a backend has no reason to move one. The other theorems
do not need the hypothesis; the run `apply_scopes` covers what remains true of
ApplyDesire without it.

### The arguments

**Claims that travel** (`StatusIsWitnessed`, `SuccessIsGone`). A claim goes from the
apiserver's answer into a job, from there into a write, and that write may land much
later, even after a crash. The invariant says at each of these places - statuses,
jobs past the apply, requests on the wire - that the claim is witnessed in `applied`;
since `applied` only grows, no other step can break it. For DeleteDesire a claim,
once true, must survive instead: an object of that name can only be a newer one.
`GoneInv` adds that revisions in jobs, statuses and requests are not from the future
(`Grounded`: otherwise an object recreated now would be older than the claim).

**Revisions in order** (`ImplementsProgress` of ApplyDesire and DeleteDesire).
`DesireSyncProofs!OrderInv`: no two workers are on one document; nothing anywhere
names a revision later than the document's last; a sync under way has a revision no
earlier than the status and any write on the wire; and a Replace on the wire that can
still succeed - its precondition is the status's present version - reports no older
revision than that status. The last is what optimistic concurrency is for: the
version in the precondition is that of the status the body was computed against.

**No lost wake-up** (`NoneIsForgotten` of both). `ForgetInv`: a delivered revision is
settled or its key is scheduled; a sync that began with an earlier revision has its
key dirty again; and there is no memory without a leader. `OrderInv` and `ForgetInv` are
shown once, for `SyncStep`, which says of each step what it may do to documents, queue
and jobs, with the controller's statuses `G` that count as settled as a parameter. Each
controller shows that its steps are such steps (`StepIsSyncStep`).

**What is reported is live** (`ReportedIsApplied`). `AppliedInv`, on top of both:
whatever reports success under the current revision - a status, a job past the
apply, a request on the wire - found the object applied, and only other hands or a
late apply, which disturb it, can have changed it since.

**ReadDesire.** Here a report has many sources: the manager, instances built for any
earlier revision, and the writes of stopped ones. `ReadDesireProofs!InPlace` comes
first, because `StopInstance` and `FetchOld` index workers and instances by keys whose
range the types alone do not give. `MayReport(d, r)` says that a report of `r`
disturbs none who is still to report about `d`; `OrderInv` says it of every status,
instance and request, so that an instance, however old, is never behind what is
reported already. `ForgetInv` follows a change from the informer to the manager:
`ManagerIsCurrent` (a sync under way is about the document as delivered, or repeated),
`InstancesFit`, and `AbsenceIsNoticed` with `AheadOfInformer` for deletions, which
are the ones that can be missed (disagreement 6).

**The informers.** `TypeOK` is not inductive: that a channel never overflows and
that nobody listens after an error needs `ChannelInv`, an error being the last event
of its channel. `OrderInv` says that along cache, channel and database revisions only
go up, from which `CacheForward` follows; `ConveyInv` that what the listener saw last
is cached or on the channel with nothing after it, from which `CaughtUp` follows.

**What the cache may do** (`ImplementsDelivery`). That revisions only go up is not
enough: a cache that has dropped a document has forgotten what it held, and might
take in an old revision again. `FinalInv` numbers the places a document has, its
cache entry first and its changes on the channel after it, and says that whatever is
behind a drop - a removal on the channel, or an entry dropped already - is later than
everything before it, as is the document itself if it is there. A snapshot appends
behind all places and reports a removal only of what is absent; the reflector shifts
every place by one; a relist leaves nothing but the cache. So each change that reaches
the cache is later than any this leader has cached, or the same (`CacheMoves`), and a
removal only meets a revision that is not the document's (`CurrentStays`).
`HeardInv` is that a key is queued only for what the cache has shown, resyncs and
deletions included, and `SyncedInv` that a collection listed since the leader began
stays at least as recent as that: a List begins no earlier than the leader, and no
event, not even one from before the List, takes a current document away.

**The PSC tools.** First the programs as data: what each of the 29 and 22 steps is,
that a step refers only to what an earlier step creates, that everything is created
once, and that the cleanup deletes what refers before what is referred to. Then
`BasicInv`: the state of a resource says which operation is under way on it
(`OperationsFit`, `ChangesEnd`), references are those the plan makes
(`ReferencesFit`), and only one operation is the tool's own. `SetupDone` says that
what the steps passed were there for is there, or was taken for granted while it was
changing; `CleanSetup` that an undisturbed setup finds everything as it looks, so
that none of its requests is refused; `CleanCleanup` that an undisturbed cleanup has
removed everything it passed but what is stuck, so that nothing refers to what it
deletes next. `RerunSucceeds` is part of its own invariant.

**The webhook.** A patch is a list of operations, one after the other on one object,
and how long it is depends on the object. What it does is therefore stated field by
field (`PatchedFields`): a field ends as the last operation on it left it, or as it
was. From this `PatchTwice`: a patch that appends nothing, applied to its own result,
changes nothing; `SafePatch`: an operation that adds, or that replaces what every
container has, applies to any object; and `EtcdPatch`: the one patch with an append
leaves etcd without claims, so that applied again it has nothing to replace and fails
as a whole. The invariant of the system (`StoredFits`, `FixedFits`) says that a
stored object is a manifest of its owner or what the webhook makes of one, and the
latter if its last write passed the webhook; the four properties follow from it, the
shape of manifests and these lemmas.

### Assumptions

The kinds of spec are those the controller's module names (`KindsAssumption`);
`NoDoc` is not a document (`NoDocAssumption`, `NoStatusAssumption`); for ReadDesire,
the manager is not a key and the workers are the manager and one per key
(`ManagerAssumption`, `WorkersAssumption`); for the informers, every document has a
collection and the bounds are numbers (`Homes`, `Bounds`); for the cleanup, gcloud lacks at most the command for the instance group
(`NoCommandAssumption`: were the VPC without one, everything in it would be stuck).
`ManifestsAssumption` says of the workloads owners submit what Kubernetes and the
webhook's own code suppose: volume names are unique and only StatefulSets have
claims; kube-apiserver has the second container its fix names by position
(`main.go:802-827`); etcd has claims, no volume of the name the fix adds, at most the
two and three containers the fix lists (`main.go:240-407`), and is not restricted
already. Containers beyond those would stay as they are, and a manifest with
everything done would not be told apart from one that was patched.
TLC evaluates them all in the runs.

Before they were proved, TLC checked the inductive invariants on instances larger
than the runs': ApplyDesire's with one document, 2 workers, 3 revisions and 2 faults
(4.5 million states); ReadDesire's with 3 revisions and 1 fault (8.1 million) and with
two documents (3.2 million); PscDemo's with 3 runs and 2 faults, with and without
the missing command (over half a million each). The webhook's and the informers' were
checked on their runs.

### What the proofs found

* `ComputeEngine` let `addInstance` and `setPorts` succeed on an instance group deleted
  since they began, which Compute Engine does not: `SuccessIsComplete` was not
  inductive, a setup could inherit members and ports of a group that was gone. The
  operations now end in error.
* `DesireProgress`'s steps were compared with the whole specification, fairness
  included, in one property; they are two now, because a step simulation is what can
  be proved.
* `CacheForward` compares a revision with the one it replaces, and holds of a cache
  that drops a document and then returns to a revision from before. What excludes
  that, `FinalInv`, came out of proving `ImplementsDelivery`.
* The hypothesis `InScope`: the attempt without it fails at exactly the step of two
  workers on one document.

### Only model-checked

Liveness, all of it: `Converges`, `Deletes`, `Mirrors`, `CatchesUp` (of DeleteDesire), `Delivers`,
`GhostsAreLaid`, `NeighboursDoNoHarm`, `RunsEnd`, `DeploymentsHeal`. They depend on
fairness and ENABLED, which the provers do not handle. Every invariant, action
property and step refinement of the passing runs is proved.

## 5. What is not modelled, and the plan

PROJECT.json names every component and its status. Left out of the modelled ones:
time (cooldown periods, backoff, the order of a queue), the lease, two leaders
acting at length, the content of objects and messages, cached objects of an
unexpected type; address ranges, images and the outcome of the PSC demo's probes,
on which no error depends; the webhook's fixes that nothing calls.

Not modelled at all, and not planned: stateless clients and HTTP front ends
(gcpctl, auth, wif-example), declarative workflows, shell and Rego over recorded
evidence, generated code, manifests and text. The installer of platform-none runs
commands for one operator and records the completed ones in a file; the commands'
own idempotence decides what a resumed installation does, and that is outside the
repository. The KubeContent codec is a pure conversion of JSON values.

Next:

1. Models: `Cooldown` with a clock, its strict comparison against the period the
   readme promises; ReadDesire with two scopes; two leaders acting at length.
2. What cannot be proved here stays with TLC: liveness, ENABLED.
