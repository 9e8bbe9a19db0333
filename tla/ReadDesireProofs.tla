-------------------------- MODULE ReadDesireProofs --------------------------
(***************************************************************************)
(* Theorems about ReadDesire, for every set of documents, scopes and       *)
(* targets and every bound: where its workers are, and what its manager    *)
(* and its instances guarantee together.                                   *)
(***************************************************************************)
EXTENDS ReadDesire, DesireLemmas

(***************************************************************************)
(* What the steps are built from.                                          *)
(***************************************************************************)
\* The keys of the manager's queue and of the instances' queues name documents.
LEMMA KeyNames ==
    /\ \A k \in Keys : OwnKey(k) \in OwnKeys /\ k.name \in Docs
    /\ \A k \in OwnKeys : k.name \in Docs
  <1>1. \A k \in Keys : k.name \in Docs
    BY DEF Keys
  <1>2. \A k \in Keys : OwnKey(k).name = k.name
    BY DEF OwnKey
  <1> QED
    BY <1>1, <1>2 DEF OwnKeys

\* What an informer's store shows of a target is a content.
LEMMA LiveType ==
    ASSUME TypeOK, NEW t \in Targets
    PROVE  Live(t) \in Contents
  BY DEF TypeOK, Live, Contents, NoContent

\* A worker away from the idle loop has a job.
LEMMA WorkerHasJob ==
    ASSUME TypeOK, NEW w \in Workers, job[w].pc # "idle"
    PROVE  /\ job[w] \in Jobs
           /\ DocOf(job[w]) \in Docs
           /\ job[w].key \in Keys \cup OwnKeys /\ job[w].rev \in Nat /\ job[w].ver \in Nat
  BY KeyNames DEF TypeOK, Idle, Jobs, DocOf

\* The status a job writes is well formed.
LEMMA NewStatusType ==
    ASSUME TypeOK, NEW j \in Jobs
    PROVE  NewStatus(j) \in Bodies
  <1>1. SuccessfulReason(j.err) \in Reasons
    BY DEF SuccessfulReason, Reasons
  <1>2. DocOf(j) \in Docs
    BY KeyNames DEF Jobs, DocOf
  <1>3. Content(DocOf(j)) \in Contents
    BY <1>2 DEF TypeOK, Content, StatusDoc, Bodies, Contents
  <1> QED
    BY <1>1, <1>3 DEF Jobs, NewStatus, Bodies

\* What a job leaves on the wire is a request.
LEMMA PendingType ==
    ASSUME TypeOK, NEW w \in Workers
    PROVE  Pending(w) \subseteq Requests
  <1>1. CASE job[w].pc = "idle"
    BY <1>1 DEF Pending, PendingWrite
  <1>2. CASE job[w].pc # "idle"
    <2>1. DocOf(job[w]) \in Docs /\ job[w].ver \in Nat /\ NewStatus(job[w]) \in Bodies
      BY <1>2, WorkerHasJob, NewStatusType
    <2> QED
      BY <2>1, PendingWriteType DEF Pending, Requests
  <1> QED
    BY <1>1, <1>2

\* A new job, of the manager or of an instance, is a job.
LEMMA NewJobType ==
    ASSUME NEW pc \in {"fetchSpec", "fetchOld"}, NEW k \in Keys \cup OwnKeys, NEW r \in Nat
    PROVE  NewJob(pc, k, r) \in Jobs
  BY DEF NewJob, Jobs, Errors, Contents

-----------------------------------------------------------------------------
(***************************************************************************)
(* Type correctness.  StopInstance indexes the workers and the instances   *)
(* by the key of the manager's job, and FetchOld reads the store of the    *)
(* instance its worker belongs to: the types alone do not say that there   *)
(* is one.  The invariant adds who works on what.                          *)
(***************************************************************************)
InPlace ==
    /\ job[Manager] # Idle => job[Manager].key \in Keys
    /\ \A k \in Keys : job[k] # Idle => IsRunning(k) /\ job[k].key = OwnKey(k)

IInv == TypeOK /\ InPlace

\* The part of it that jobs and queues make up.
WorkOK ==
    /\ job \in [Workers -> Jobs \cup {Idle}]
    /\ QueueTypeOK(Keys \cup OwnKeys)
    /\ InPlace

LEMMA WorkOKHolds == IInv => WorkOK
  BY DEF IInv, TypeOK, WorkOK

\* A job that ends keeps the workers in place and the queues well typed.
LEMMA FinishKeepsWork ==
    ASSUME IInv, NEW w \in Workers, job[w].pc # "idle", NEW failed, Finish(w, failed),
           running' = running
    PROVE  WorkOK'
  <1>1. job \in [Workers -> Jobs \cup {Idle}] /\ Idle \in Jobs \cup {Idle}
        /\ QueueTypeOK(Keys \cup OwnKeys) /\ job[w].key \in Keys \cup OwnKeys
    BY WorkerHasJob DEF IInv, TypeOK
  <1>2. /\ job' \in [Workers -> Jobs \cup {Idle}]
        /\ job'[w] = Idle
        /\ \A x \in Workers \ {w} : job'[x] = job[x]
        /\ QueueTypeOK(Keys \cup OwnKeys)'
    BY <1>1, FinishType
  <1>3. InPlace'
    BY <1>2, WorkersAssumption DEF IInv, InPlace, IsRunning
  <1> QED
    BY <1>2, <1>3 DEF WorkOK

\* So does a job that goes on with its key, whatever new instance it starts.
LEMMA GoingOnKeepsWork ==
    ASSUME IInv, NEW w \in Workers, job[w].pc # "idle", NEW j \in Jobs, j.key = job[w].key,
           job' = [job EXCEPT ![w] = j], UNCHANGED queueVars, running' = running
    PROVE  WorkOK'
  <1>1. job' \in [Workers -> Jobs \cup {Idle}] /\ QueueTypeOK(Keys \cup OwnKeys)'
    BY DEF IInv, TypeOK, QueueTypeOK, queueVars
  <1>2. job[w] # Idle /\ job'[w] = j /\ \A x \in Workers \ {w} : job'[x] = job[x]
    BY DEF Idle, IInv, TypeOK
  <1>3. InPlace'
    BY <1>2, WorkersAssumption DEF IInv, InPlace, IsRunning
  <1> QED
    BY <1>1, <1>3 DEF WorkOK

\* An idle worker that takes a key of its own queue is in place.
LEMMA TakeKeepsWork ==
    ASSUME IInv, NEW w \in Workers, NEW q \in Keys \cup OwnKeys, NEW j \in Jobs, j.key = q,
           Take(w, q, j), running' = running,
           w = Manager => q \in Keys,
           w # Manager => IsRunning(w) /\ q = OwnKey(w)
    PROVE  WorkOK'
  <1>1. job' = [job EXCEPT ![w] = j] /\ QueueTypeOK(Keys \cup OwnKeys)'
    BY DEF Take, Get, IInv, TypeOK, QueueTypeOK
  <1>2. job' \in [Workers -> Jobs \cup {Idle}] /\ job'[w] = j
        /\ \A x \in Workers \ {w} : job'[x] = job[x]
    BY <1>1 DEF IInv, TypeOK
  <1>3. InPlace'
    BY <1>2, WorkersAssumption, ManagerAssumption DEF IInv, InPlace, IsRunning
  <1> QED
    BY <1>1, <1>2, <1>3 DEF WorkOK

\* Whatever leaves jobs and instances alone keeps the workers in place.
LEMMA OthersKeepPlace ==
    ASSUME IInv, job' = job, running' = running
    PROVE  InPlace'
  BY DEF IInv, InPlace, IsRunning

-----------------------------------------------------------------------------
\* The manager's steps keep the invariant.
LEMMA ManagerKeeps ==
    ASSUME IInv, Manage
    PROVE  IInv'
  <1> USE DEF storeVars, queueVars, feedVars, workerVarsButJob, clusterVars
  <1> DEFINE j == job[Manager]
             d == DocOf(j)
  <1>1. Manager \in Workers /\ j.pc # "idle"
    BY WorkersAssumption DEF Manage, FetchSpec, StopInstance, StartInstance, At
  <1>2. j \in Jobs /\ j.key \in Keys /\ j.key \in Workers /\ d \in Docs
    BY <1>1, WorkerHasJob, WorkersAssumption DEF IInv, InPlace, Idle
  <1>3. CASE FetchSpec
    <2> DEFINE doc == spec[d]
               next == [j EXCEPT !.pc = "stop", !.rev = doc.rev, !.kind = doc.kind]
               away == [j EXCEPT !.pc = "stop"]
    <2>1. ahead' \subseteq Docs /\ faults' \in Nat
      BY <1>2, <1>3, FaultType DEF FetchSpec, IInv, TypeOK, WorkerTypeOK
    <2>2. WorkOK'
      <3>0. running' = running
        BY <1>3 DEF FetchSpec
      <3>1. CASE Goto(Manager, "stop")
        <4>1. away \in Jobs /\ away.key = j.key
          BY <1>2 DEF Jobs
        <4>2. job' = [job EXCEPT ![Manager] = away] /\ UNCHANGED queueVars
          BY <3>1 DEF Goto
        <4> HIDE DEF away
        <4> QED
          BY <1>1, <3>0, <4>1, <4>2, GoingOnKeepsWork
      <3>2. CASE doc # NoDoc /\ job' = [job EXCEPT ![Manager] = next] /\ UNCHANGED queueVars
        <4>1. doc.rev \in Nat /\ doc.kind \in SpecKinds
          BY <1>2, <3>2, KindsAssumption DEF IInv, TypeOK, SpecDoc
        <4>2. next \in Jobs /\ next.key = j.key
          BY <1>2, <4>1 DEF Jobs
        <4> HIDE DEF next
        <4> QED
          BY <1>1, <3>0, <3>2, <4>2, GoingOnKeepsWork
      <3>3. CASE \E failed : Finish(Manager, failed)
        BY <1>1, <3>0, <3>3, FinishKeepsWork
      <3> QED
        BY <1>3, <3>1, <3>2, <3>3 DEF FetchSpec
    <2> QED
      BY <1>3, <2>1, <2>2 DEF FetchSpec, IInv, TypeOK, FeedTypeOK, WorkerTypeOK, WorkOK
  <1>4. CASE StopInstance
    <2> DEFINE next == [j EXCEPT !.pc = "start"]
    <2>1. next \in Jobs /\ next.key = j.key
      BY <1>2 DEF Jobs
    <2>2. job' = [job EXCEPT ![j.key] = Idle, ![Manager] = next]
      BY <1>4 DEF StopInstance, Managed
    <2> HIDE DEF next
    <2>3. job' \in [Workers -> Jobs \cup {Idle}] /\ job'[Manager] = next /\ job'[j.key] = Idle
          /\ \A x \in Workers \ {Manager, j.key} : job'[x] = job[x]
      BY <1>1, <1>2, <2>1, <2>2, ManagerAssumption DEF IInv, TypeOK
    <2>4. running' = [running EXCEPT ![j.key] = Stopped]
      BY <1>4 DEF StopInstance, Managed
    <2>5. InPlace'
      BY <1>2, <2>1, <2>3, <2>4, WorkersAssumption, ManagerAssumption
         DEF IInv, TypeOK, InPlace, IsRunning
    <2>6. QueueTypeOK(Keys \cup OwnKeys)'
      BY <1>4 DEF StopInstance, IInv, TypeOK, QueueTypeOK
    <2>7. wire' \subseteq Requests
      <3>1. Pending(j.key) \subseteq Requests
        BY <1>2, PendingType DEF IInv
      <3> QED
        BY <1>4, <3>1 DEF StopInstance, Managed, IInv, TypeOK
    <2>8. running' \in [Keys -> Instance \cup {Stopped}]
      BY <2>4 DEF IInv, TypeOK
    <2> QED
      BY <1>4, <2>3, <2>5, <2>6, <2>7, <2>8
         DEF StopInstance, IInv, TypeOK, FeedTypeOK, WorkerTypeOK
  <1>5. CASE StartInstance
    <2>1. CASE Finish(Manager, FALSE) /\ UNCHANGED running
      <3>1. WorkOK'
        BY <1>1, <2>1, FinishKeepsWork
      <3> QED
        BY <1>5, <2>1, <3>1 DEF StartInstance, IInv, TypeOK, FeedTypeOK, WorkerTypeOK, WorkOK
    <2>2. CASE j.kind \in Targets /\ Finish(Manager, FALSE)
               /\ running' = [running EXCEPT ![j.key] = [target |-> j.kind, rev |-> j.rev,
                                             synced |-> FALSE, store |-> NoContent]]
      <3> DEFINE i == [target |-> j.kind, rev |-> j.rev, synced |-> FALSE, store |-> NoContent]
      <3>1. i \in Instance
        BY <1>2, <2>2 DEF Instance, Jobs, Contents
      <3>2. i # Stopped
        <4>1. i.target # "none"
          BY <2>2, KindsAssumption DEF Targets, SpecKinds
        <4> QED
          BY <4>1 DEF Stopped
      <3>3. running' = [running EXCEPT ![j.key] = i]
        BY <2>2
      <3> HIDE DEF i
      <3>4. running' \in [Keys -> Instance \cup {Stopped}]
            /\ \A k \in Keys : IsRunning(k) => running'[k] # Stopped
        BY <1>2, <3>1, <3>2, <3>3 DEF IInv, TypeOK, IsRunning
      <3>5. /\ job' \in [Workers -> Jobs \cup {Idle}]
            /\ job'[Manager] = Idle
            /\ \A x \in Workers \ {Manager} : job'[x] = job[x]
            /\ QueueTypeOK(Keys \cup OwnKeys)'
        <4>1. job \in [Workers -> Jobs \cup {Idle}] /\ Idle \in Jobs \cup {Idle}
              /\ QueueTypeOK(Keys \cup OwnKeys) /\ j.key \in Keys \cup OwnKeys
          BY <1>2 DEF IInv, TypeOK
        <4> QED
          BY <1>1, <2>2, <4>1, FinishType
      <3>6. InPlace'
        BY <3>4, <3>5, WorkersAssumption, ManagerAssumption DEF IInv, InPlace, IsRunning
      <3> QED
        BY <1>5, <3>4, <3>5, <3>6 DEF StartInstance, IInv, TypeOK, FeedTypeOK, WorkerTypeOK
    <2>3. CASE job' = [job EXCEPT ![Manager] = [j EXCEPT !.pc = "fetchStatus", !.err = "precheck"]]
               /\ UNCHANGED <<queueVars, running>>
      <3> DEFINE next == [j EXCEPT !.pc = "fetchStatus", !.err = "precheck"]
      <3>1. next \in Jobs /\ next.key = j.key
        BY <1>2 DEF Jobs, Errors
      <3>2. job' = [job EXCEPT ![Manager] = next]
        BY <2>3
      <3> HIDE DEF next
      <3>3. WorkOK'
        BY <1>1, <2>3, <3>1, <3>2, GoingOnKeepsWork
      <3> QED
        BY <1>5, <2>3, <3>3 DEF StartInstance, IInv, TypeOK, FeedTypeOK, WorkerTypeOK, WorkOK
    <2> QED
      BY <1>5, <2>1, <2>2, <2>3 DEF StartInstance
  <1> QED
    BY <1>3, <1>4, <1>5 DEF Manage

\* The steps of UpdateStatus keep the invariant, whoever's they are.
LEMMA ReportKeeps ==
    ASSUME IInv, NEW w \in Workers, Report(w)
    PROVE  IInv'
  <1> USE DEF storeVars, queueVars, feedVars, readVars
  <1> DEFINE j == job[w]
             d == DocOf(j)
  <1>1. j.pc # "idle" /\ running' = running
    BY DEF Report, FetchStatus, CreateStatus, ReplaceStatus, WriteLost, UpdateFetch,
           UpdateCreate, UpdateReplace, UpdateLost, At
  <1>2. j \in Jobs /\ d \in Docs /\ j.ver \in Nat
    BY <1>1, WorkerHasJob DEF IInv
  <1>3. NewStatus(j) \in Bodies
    BY <1>2, NewStatusType DEF IInv
  <1>4. ASSUME NEW failed, Finish(w, failed) PROVE WorkOK'
    BY <1>1, <1>4, FinishKeepsWork
  <1>5. CASE FetchStatus(w)
    <2> DEFINE absent == [j EXCEPT !.pc = "create"]
               found == [j EXCEPT !.pc = "replace", !.ver = status[d].ver]
    <2>1. ASSUME Goto(w, "create") PROVE WorkOK'
      <3>1. absent \in Jobs /\ absent.key = j.key
        BY <1>2 DEF Jobs
      <3>2. job' = [job EXCEPT ![w] = absent] /\ UNCHANGED queueVars
        BY <2>1 DEF Goto
      <3> HIDE DEF absent
      <3> QED
        BY <1>1, <3>1, <3>2, GoingOnKeepsWork
    <2>2. ASSUME status[d] # NoDoc, job' = [job EXCEPT ![w] = found], UNCHANGED queueVars
          PROVE  WorkOK'
      <3>1. status[d].ver \in Nat
        BY <1>2, <2>2 DEF IInv, TypeOK, StatusDoc
      <3>2. found \in Jobs /\ found.key = j.key
        BY <1>2, <3>1 DEF Jobs
      <3> HIDE DEF found
      <3> QED
        BY <1>1, <2>2, <3>2, GoingOnKeepsWork
    <2>3. WorkOK'
      BY <1>4, <1>5, <2>1, <2>2 DEF FetchStatus, UpdateFetch
    <2>4. swallowed' \subseteq Docs /\ landed' \subseteq Docs /\ faults' \in Nat
      BY <1>5, FaultType DEF FetchStatus, UpdateFetch, Seen, IInv, TypeOK, WorkerTypeOK
    <2> QED
      BY <1>5, <2>3, <2>4
         DEF FetchStatus, UpdateFetch, IInv, TypeOK, FeedTypeOK, WorkerTypeOK, WorkOK
  <1>6. CASE CreateStatus(w)
    <2>1. WorkOK'
      BY <1>4, <1>6 DEF CreateStatus, UpdateCreate
    <2>2. status' \in [Docs -> StatusDoc \cup {NoDoc}]
      BY <1>2, <1>3, <1>6, StatusWriteType, 0 \in Nat
         DEF CreateStatus, UpdateCreate, StatusDoc, IInv, TypeOK
    <2> QED
      BY <1>6, <2>1, <2>2
         DEF CreateStatus, UpdateCreate, IInv, TypeOK, FeedTypeOK, WorkerTypeOK, WorkOK
  <1>7. CASE ReplaceStatus(w)
    <2>1. WorkOK'
      BY <1>4, <1>7 DEF ReplaceStatus, UpdateReplace
    <2>2. status' \in [Docs -> StatusDoc \cup {NoDoc}]
      BY <1>2, <1>3, <1>7, StatusWriteType
         DEF ReplaceStatus, UpdateReplace, StatusDoc, IInv, TypeOK
    <2>3. swallowed' \subseteq Docs
      BY <1>2, <1>7 DEF ReplaceStatus, UpdateReplace, IInv, TypeOK, WorkerTypeOK
    <2> QED
      BY <1>7, <2>1, <2>2, <2>3
         DEF ReplaceStatus, UpdateReplace, IInv, TypeOK, FeedTypeOK, WorkerTypeOK, WorkOK
  <1>8. CASE WriteLost(w)
    <2>1. WorkOK'
      BY <1>4, <1>8 DEF WriteLost, UpdateLost
    <2>2. wire' = wire \cup Pending(w)
      BY <1>8 DEF WriteLost, UpdateLost, Pending
    <2>3. Pending(w) \subseteq Requests
      BY PendingType DEF IInv
    <2> QED
      BY <1>8, <2>1, <2>2, <2>3, FaultType
         DEF WriteLost, UpdateLost, IInv, TypeOK, FeedTypeOK, WorkerTypeOK, WorkOK
  <1> QED
    BY <1>5, <1>6, <1>7, <1>8 DEF Report

\* The steps of an instance keep the invariant.
LEMMA InstanceKeeps ==
    ASSUME IInv, NEW k \in Keys, Watch(k) \/ Tick(k) \/ StartRead(k) \/ FetchOld(k)
    PROVE  IInv'
  <1> USE DEF storeVars, queueVars, feedVars, workerVars, readVars, clusterVars
  <1>0. k \in Workers /\ k # Manager /\ OwnKey(k) \in Keys \cup OwnKeys /\ OwnKey(k).name \in Docs
    BY KeyNames, WorkersAssumption, ManagerAssumption
  <1>1. ASSUME Add(OwnKey(k)), UNCHANGED <<processing, retry>>
        PROVE  QueueTypeOK(Keys \cup OwnKeys)'
    BY <1>0, <1>1 DEF Add, QueueTypeOK, IInv, TypeOK
  <1>2. CASE Watch(k)
    <2> DEFINE i == running[k]
               next == [i EXCEPT !.synced = TRUE, !.store = Live(i.target)]
    <2>1. i \in Instance
      BY <1>2 DEF Watch, ListTarget, WatchTarget, IsRunning, IInv, TypeOK
    <2>2. Live(i.target) \in Contents
      BY <2>1, LiveType DEF IInv, Instance
    <2>3. next \in Instance
      BY <2>1, <2>2 DEF Instance
    <2>4. PICK n \in Instance : running' = [running EXCEPT ![k] = n]
      <3>1. CASE ListTarget(k)
        BY <2>3, <3>1 DEF ListTarget
      <3>2. CASE WatchTarget(k)
        <4>1. [i EXCEPT !.store = Live(i.target)] \in Instance
          BY <2>1, <2>2 DEF Instance
        <4> QED
          BY <3>2, <4>1 DEF WatchTarget
      <3> QED
        BY <1>2, <3>1, <3>2 DEF Watch
    <2>5. running' \in [Keys -> Instance \cup {Stopped}] /\ running'[k] \in Instance
          /\ \A x \in Keys \ {k} : running'[x] = running[x]
      BY <2>4 DEF IInv, TypeOK
    <2>6. n # Stopped
      <3>1. n.target # "none"
        BY KindsAssumption DEF Instance, Targets, SpecKinds
      <3> QED
        BY <3>1 DEF Stopped
    <2>7. InPlace'
      BY <1>2, <2>4, <2>5, <2>6 DEF Watch, ListTarget, WatchTarget, IInv, TypeOK, InPlace, IsRunning
    <2> QED
      BY <1>1, <1>2, <2>5, <2>7
         DEF Watch, ListTarget, WatchTarget, IInv, TypeOK, FeedTypeOK, WorkerTypeOK
  <1>3. CASE Tick(k)
    BY <1>1, <1>3, OthersKeepPlace DEF Tick, IInv, TypeOK, FeedTypeOK, WorkerTypeOK
  <1>4. CASE StartRead(k)
    <2> DEFINE next == NewJob("fetchOld", OwnKey(k), running[k].rev)
    <2>1. running[k].rev \in Nat
      BY <1>4 DEF StartRead, IsRunning, IInv, TypeOK, Instance
    <2>2. next \in Jobs /\ next.key = OwnKey(k)
      BY <1>0, <2>1, NewJobType DEF NewJob
    <2>3. Take(k, OwnKey(k), next) /\ running' = running /\ IsRunning(k)
      BY <1>4 DEF StartRead
    <2> HIDE DEF next
    <2>4. WorkOK'
      BY <1>0, <2>2, <2>3, TakeKeepsWork
    <2> QED
      BY <1>4, <2>4 DEF StartRead, Take, IInv, TypeOK, FeedTypeOK, WorkerTypeOK, WorkOK
  <1>5. CASE FetchOld(k)
    <2> DEFINE j == job[k]
               rewrite == running[k].store # Content(k.name)
               next == [j EXCEPT !.pc = "fetchStatus", !.content = running[k].store,
                                 !.rewrite = rewrite]
    <2>1. j.pc # "idle" /\ running' = running
      BY <1>5 DEF FetchOld, At
    <2>2. j \in Jobs /\ running[k] \in Instance
      BY <1>0, <2>1, WorkerHasJob DEF IInv, TypeOK, InPlace, Idle, IsRunning
    <2>3. running[k].store \in Contents /\ rewrite \in BOOLEAN
      BY <2>2 DEF Instance
    <2> HIDE DEF rewrite
    <2>4. next \in Jobs /\ next.key = j.key
      BY <2>2, <2>3 DEF Jobs
    <2>5. \/ job' = [job EXCEPT ![k] = next] /\ UNCHANGED <<queueVars, faults>>
          \/ Fault /\ Finish(k, TRUE)
      BY <1>5 DEF FetchOld, rewrite
    <2> HIDE DEF next
    <2>6. WorkOK'
      BY <1>0, <2>1, <2>4, <2>5, GoingOnKeepsWork, FinishKeepsWork
    <2>7. faults' \in Nat
      BY <2>5, FaultType DEF IInv, TypeOK, WorkerTypeOK
    <2> QED
      BY <1>5, <2>6, <2>7 DEF FetchOld, IInv, TypeOK, FeedTypeOK, WorkerTypeOK, WorkOK
  <1> QED
    BY <1>2, <1>3, <1>4, <1>5

(***************************************************************************)
(* The invariant, and with it the types.                                   *)
(***************************************************************************)
\* Every worker works on its own: the manager on keys of the manager's queue, an
\* instance's worker only while its instance runs, and on its own key.
THEOREM WorkersInPlace == Spec => []IInv
<1> USE DEF storeVars, queueVars, feedVars, workerVars, workerVarsButJob, clusterVars, readVars
<1>1. Init => IInv
  <2> SUFFICES ASSUME Init PROVE IInv
    OBVIOUS
  <2>1. TypeOK
    BY DEF Init, TypeOK, StoreInit, QueueInit, FeedInit, WorkerInit, FeedTypeOK,
           QueueTypeOK, WorkerTypeOK
  <2>2. InPlace
    BY WorkersAssumption DEF Init, WorkerInit, InPlace
  <2> QED
    BY <2>1, <2>2 DEF IInv
<1>2. IInv /\ [Next]_vars => IInv'
  <2> SUFFICES ASSUME IInv, [Next]_vars
               PROVE  IInv'
    OBVIOUS
  <2>1. ASSUME TypeOK', job' = job, running' = running PROVE IInv'
    BY <2>1, OthersKeepPlace DEF IInv
  <2>2. TypeOK /\ FeedTypeOK /\ WorkerTypeOK /\ QueueTypeOK(Keys \cup OwnKeys)
    BY DEF IInv, TypeOK
  <2> USE DEF TypeOK, FeedTypeOK, QueueTypeOK, WorkerTypeOK
  <2>3. ASSUME NEW d \in Docs, BackendWrites(d) PROVE IInv'
    BY <2>1, <2>2, <2>3 DEF BackendWrites, WriteSpec, SpecDoc
  <2>4. ASSUME NEW d \in Docs, BackendDeletes(d) PROVE IInv'
    BY <2>1, <2>2, <2>4 DEF BackendDeletes, DeleteSpec
  <2>5. ASSUME NEW t \in Targets, TargetChanges(t) PROVE IInv'
    <3>1. live' \in [Targets -> Nat]
      BY <2>2, <2>5 DEF TargetChanges
    <3> QED
      BY <2>1, <2>2, <2>5, <3>1, FaultType DEF TargetChanges
  <2>6. ASSUME NEW d \in Docs, Informer(d) PROVE IInv'
    <3>1. \/ HandleChange(d)
          \/ HandleDelete(d)
      BY <2>6 DEF Informer
    <3>2. cache' \in [Docs -> SpecDoc \cup {NoDoc}] /\ cooling' \subseteq Keys
          /\ QueueTypeOK(Keys \cup OwnKeys)'
      BY <2>2, <3>1 DEF HandleChange, HandleDelete, Add, KeyOf, Keys, SpecDoc
    <3> QED
      BY <2>1, <2>2, <2>6, <3>2 DEF Informer
  <2>7. ASSUME NEW d \in Docs, Resync(d) PROVE IInv'
    BY <2>1, <2>2, <2>7 DEF Resync, HandleResync, Add, KeyOf, Keys, SpecDoc
  <2>8. ASSUME NEW k \in Keys, Cooldown(k) PROVE IInv'
    BY <2>1, <2>2, <2>8 DEF Cooldown, CooldownOver
  <2>9. ASSUME NEW k \in Keys \cup OwnKeys, Backoff(k) PROVE IInv'
    BY <2>1, <2>2, <2>9 DEF Backoff, RetryDue, Add
  <2>10. ASSUME NEW k \in Keys, StartSync(k) PROVE IInv'
    <3> DEFINE next == NewJob("fetchSpec", k, 0)
    <3>1. next \in Jobs /\ next.key = k
      BY NewJobType DEF NewJob
    <3>2. Take(Manager, k, next) /\ running' = running /\ Manager \in Workers
      BY <2>10, WorkersAssumption DEF StartSync
    <3> HIDE DEF next, TypeOK, FeedTypeOK, QueueTypeOK, WorkerTypeOK
    <3>3. WorkOK'
      BY <3>1, <3>2, TakeKeepsWork
    <3> QED
      BY <2>2, <2>10, <3>3 DEF StartSync, Take, IInv, WorkOK, TypeOK, FeedTypeOK, WorkerTypeOK
  <2>11. ASSUME NEW k \in Keys, Watch(k) \/ Tick(k) \/ StartRead(k) \/ FetchOld(k) PROVE IInv'
    BY <2>11, InstanceKeeps
  <2>12. CASE Manage
    BY <2>12, ManagerKeeps
  <2>13. ASSUME NEW w \in Workers, Report(w) PROVE IInv'
    BY <2>13, ReportKeeps
  <2>14. ASSUME NEW r \in wire, Land(r) PROVE IInv'
    <3>1. r \in Requests
      BY <2>2
    <3>2. r.doc \in Docs /\ r.body \in Bodies /\ (r.op = "replace" => r.ver \in Nat)
      BY <3>1 DEF Requests, StatusRequests
    <3>3. status' \in [Docs -> StatusDoc \cup {NoDoc}]
      BY <2>2, <2>14, <3>2, StatusWriteType, 0 \in Nat DEF Land, LateStatus, StatusDoc
    <3> QED
      BY <2>1, <2>2, <2>14, <3>2, <3>3 DEF Land, LateStatus
  <2>15. CASE Crash
    <3>1. wire' \subseteq Requests
      BY <2>2, <2>15, PendingType DEF Crash, Die
    <3>2. TypeOK'
      BY <2>2, <2>15, <3>1, FaultType DEF Crash, Die, FeedLost, QueueLost
    <3>3. job' = [w \in Workers |-> Idle]
      BY <2>15 DEF Crash, Die
    <3>4. InPlace'
      BY <3>3, WorkersAssumption DEF InPlace
    <3> QED
      BY <3>2, <3>4 DEF IInv
  <2>16. CASE Start \/ UNCHANGED vars
    BY <2>1, <2>2, <2>16 DEF Start, Lead, vars
  <2> QED
    BY <2>3, <2>4, <2>5, <2>6, <2>7, <2>8, <2>9, <2>10, <2>11, <2>12, <2>13, <2>14, <2>15, <2>16
       DEF Next
<1> QED
  BY <1>1, <1>2, PTL DEF Spec

\* Every variable keeps its type; in particular the manager and the instances only
\* index the maps of workers and of instances by keys they have.
THEOREM TypeCorrect == Spec => []TypeOK
  BY WorkersInPlace, PTL DEF IInv

-----------------------------------------------------------------------------
(***************************************************************************)
(* What the manager and the instances of ReadDesire guarantee together: no *)
(* delivered change of a desire is forgotten, and the revisions a desire's *)
(* status reports only ever go up.                                         *)
(*                                                                         *)
(* Both hold while every document stays in one scope, home[d]: a document  *)
(* that moves leaves an instance behind under its old key, which no event  *)
(* stops any more and which reports its old revision forever.              *)
(***************************************************************************)
ManagerBusy == job[Manager].pc # "idle"

\* The manager has fetched the document its sync is about.
ManagerFetched == job[Manager].pc \notin {"idle", "fetchSpec"}

\* A key of the manager's queue is its document's key in its scope.
AtHome(home, k) == k.scope = home[k.name]

-----------------------------------------------------------------------------
(***************************************************************************)
(* Nothing is forgotten.  What a key is waiting for, a sync has seen or is *)
(* to see: an instance, or a sync that is about to start one, that does    *)
(* not fit the document the informer delivered has the key queued again.   *)
(***************************************************************************)
Homed(home) ==
    /\ \A d \in Docs : cache[d] # NoDoc => cache[d].scope = home[d]
    /\ \A k \in Keys : Scheduled(k) \/ IsRunning(k) => AtHome(home, k)

\* An instance does not outlive the start of its successor, and the manager writes
\* a status only to refuse a target.
ManagerInOrder ==
    ManagerBusy =>
        /\ job[Manager].key \in processing
        /\ job[Manager].pc # "fetchOld"
        /\ job[Manager].pc = "fetchSpec" => job[Manager].kind = "none"
        /\ job[Manager].pc \notin {"fetchSpec", "stop"} => ~IsRunning(job[Manager].key)
        /\ job[Manager].pc \in {"fetchStatus", "create", "replace"} =>
              job[Manager].kind = "malformed" /\ job[Manager].err = "precheck"

NothingInMemory ==
    ~up => /\ \A d \in Docs : cache[d] = NoDoc
           /\ \A k \in Keys : ~IsRunning(k)

Written ==
    \A d \in Docs : /\ spec[d] # NoDoc => spec[d].rev <= rev
                    /\ cache[d] # NoDoc => cache[d].rev <= rev

\* A document fetched ahead of the informer stays ahead of it until it is deleted.
AheadOfInformer == \A d \in ahead : cache[d] = spec[d] => spec[d] = NoDoc

\* The sync under way is about the document as delivered, or is to be repeated.
ManagerIsCurrent ==
    ManagerFetched /\ job[Manager].key \notin dirty =>
        LET d == DocOf(job[Manager])
        IN  /\ spec[d] # NoDoc /\ cache[d] = spec[d] => job[Manager].kind = spec[d].kind
            /\ cache[d] = NoDoc /\ job[Manager].kind # "none" => d \in ahead

AbsenceIsNoticed ==
    \A k \in Keys :
        IsRunning(k) /\ cache[k.name] = NoDoc => k.name \in ahead \/ Scheduled(k)

Refused(d) == status[d] # NoDoc /\ status[d].body.reason = "PreCheckFailed"

\* The instance that runs, or does not, is what the document asks for.
Fits(k) ==
    IF spec[k.name].kind # "malformed"
    THEN IsRunning(k) /\ running[k].target = spec[k.name].kind
    ELSE ~IsRunning(k) /\ (Overtaken(k.name) \/ Refused(k.name))

InstancesFit ==
    up => \A k \in Keys :
        spec[k.name] # NoDoc /\ Delivered(k) => Fits(k) \/ Scheduled(k)

ForgetInv(home) ==
    /\ Homed(home)
    /\ ManagerInOrder
    /\ NothingInMemory
    /\ Written
    /\ AheadOfInformer
    /\ ManagerIsCurrent
    /\ AbsenceIsNoticed
    /\ InstancesFit

\* It says what the runs check.
LEMMA ForgetInvSuffices ==
    ASSUME NEW home, ForgetInv(home)
    PROVE  NothingForgotten
  <1> SUFFICES ASSUME up, NEW k \in Keys, Delivered(k), ~Overtaken(k.name)
               PROVE  RunsTheSpec(k) \/ Scheduled(k)
    BY DEF NothingForgotten
  <1>1. CASE spec[k.name] = NoDoc
    BY <1>1 DEF ForgetInv, AbsenceIsNoticed, Delivered, RunsTheSpec, Discarded
  <1>2. CASE spec[k.name] # NoDoc
    BY <1>2 DEF ForgetInv, InstancesFit, Fits, Refused, RunsTheSpec
  <1> QED
    BY <1>1, <1>2

-----------------------------------------------------------------------------
\* The keys of the instances' queues are not keys of the manager's queue.
LEMMA QueuesApart ==
    ASSUME NEW k \in Keys, NEW q \in Keys
    PROVE  OwnKey(k) # q
  <1>1. "instance" \in DOMAIN OwnKey(k)
    BY DEF OwnKey
  <1>2. DOMAIN q = {"scope", "name"}
    BY DEF Keys
  <1> QED
    BY <1>1, <1>2

\* A document has one key at home.
LEMMA OneKeyAtHome ==
    ASSUME NEW home, NEW k \in Keys, NEW q \in Keys, k.name = q.name,
           AtHome(home, k), AtHome(home, q)
    PROVE  k = q
  BY DEF AtHome, Keys

\* So does the document the manager is busy with.
LEMMA ManagersJob ==
    ASSUME IInv, ManagerBusy
    PROVE  /\ job[Manager] \in Jobs /\ job[Manager].key \in Keys
           /\ DocOf(job[Manager]) \in Docs /\ DocOf(job[Manager]) = job[Manager].key.name
           /\ Manager \in Workers
  BY WorkerHasJob, WorkersAssumption DEF IInv, InPlace, ManagerBusy, Idle, DocOf

(***************************************************************************)
(* Steps that leave the manager, its view of the documents and the fit of  *)
(* its instances alone; at most a key at home is queued, or a status       *)
(* changes under an instance or a late write.                              *)
(***************************************************************************)
Aside ==
    /\ UNCHANGED <<rev, spec, cache, up, ahead>>
    /\ job'[Manager] = job[Manager]
    /\ \A k \in Keys :
          /\ IsRunning(k)' <=> IsRunning(k)
          /\ running'[k].target = running[k].target
          /\ k \in dirty => k \in dirty'
          /\ k \in processing' <=> k \in processing
          /\ k \in retry => k \in dirty' \cup retry'
          /\ k \in dirty' \cup retry' =>
                \/ k \in dirty \cup retry
                \/ cache[k.name] # NoDoc /\ k.scope = cache[k.name].scope
    /\ \A d \in Docs :
          \/ status'[d] = status[d] /\ (Overtaken(d)' <=> Overtaken(d))
          \/ Overtaken(d)'
          \/ \E k \in Keys : k.name = d /\ IsRunning(k)

LEMMA AsideForgetsNothing ==
    ASSUME IInv, NEW home, InScope(home), ForgetInv(home), Aside
    PROVE  ForgetInv(home)'
  <1> USE DEF ForgetInv
  <1>1. \A k \in Keys : Scheduled(k) => Scheduled(k)'
    BY DEF Aside, Scheduled
  <1>2. \A k \in Keys : k.name \in Docs
    BY KeyNames
  <1>3. Homed(home)'
    BY <1>2 DEF Aside, Homed, Scheduled, AtHome
  <1>4. ManagerInOrder' /\ ManagerIsCurrent'
    <2>1. CASE ManagerBusy
      BY <2>1, ManagersJob DEF Aside, ManagerInOrder, ManagerIsCurrent, ManagerBusy, ManagerFetched
    <2>2. CASE ~ManagerBusy
      BY <2>2 DEF Aside, ManagerInOrder, ManagerIsCurrent, ManagerBusy, ManagerFetched
    <2> QED
      BY <2>1, <2>2
  <1>5. NothingInMemory' /\ Written' /\ AheadOfInformer'
    BY DEF Aside, NothingInMemory, Written, AheadOfInformer
  <1>6. AbsenceIsNoticed'
    BY <1>1 DEF Aside, AbsenceIsNoticed
  <1>7. InstancesFit'
    <2> SUFFICES ASSUME up, NEW k \in Keys, spec[k.name] # NoDoc, Delivered(k),
                        ~Scheduled(k)
                 PROVE  Fits(k)'
      BY <1>1 DEF InstancesFit, Aside, Delivered
    <2>1. Fits(k)
      BY DEF InstancesFit
    <2>2. AtHome(home, k)
      BY <1>2 DEF InScope, Delivered, AtHome
    <2>3. ~IsRunning(k) => \A q \in Keys : q.name = k.name => ~IsRunning(q)
      BY <2>2, OneKeyAtHome DEF Homed
    <2> QED
      BY <1>2, <2>1, <2>3 DEF Aside, Fits, Refused
  <1> QED
    BY <1>3, <1>4, <1>5, <1>6, <1>7

-----------------------------------------------------------------------------
(***************************************************************************)
(* The documents and the manager's informer.                               *)
(***************************************************************************)
LEMMA BackendForgetsNothing ==
    ASSUME IInv, NEW home, ForgetInv(home), NEW d \in Docs,
           BackendWrites(d) \/ BackendDeletes(d)
    PROVE  ForgetInv(home)'
  <1> USE DEF ForgetInv
  <1>1. /\ UNCHANGED <<queueVars, feedVars, workerVars, readVars, status>>
        /\ \A e \in Docs \ {d} : spec'[e] = spec[e]
        /\ \/ rev' = rev + 1 /\ spec'[d].rev = rev + 1
           \/ rev' = rev /\ spec'[d] = NoDoc
    BY DEF BackendWrites, BackendDeletes, WriteSpec, DeleteSpec, IInv, TypeOK
  <1>2. /\ rev \in Nat
        /\ \A e \in Docs : /\ cache[e] # NoDoc => cache[e].rev \in Nat
                           /\ spec[e] # NoDoc => spec[e].rev \in Nat
    BY DEF IInv, TypeOK, FeedTypeOK, SpecDoc
  <1>3. \A e \in Docs : spec'[e] # NoDoc /\ cache[e] = spec'[e] => spec'[e] = spec[e]
    BY <1>1, <1>2 DEF Written
  <1> USE DEF queueVars, feedVars, workerVars, readVars
  <1>4. Homed(home)' /\ ManagerInOrder' /\ NothingInMemory' /\ AbsenceIsNoticed'
    BY <1>1 DEF Homed, ManagerInOrder, NothingInMemory, AbsenceIsNoticed, ManagerBusy,
                IsRunning, Scheduled
  <1>5. Written'
    BY <1>1, <1>2 DEF Written
  <1>6. AheadOfInformer'
    BY <1>1, <1>3 DEF AheadOfInformer, IInv, TypeOK
  <1>7. ManagerIsCurrent'
    <2>1. CASE ManagerBusy
      BY <1>1, <1>3, <2>1, ManagersJob DEF ManagerIsCurrent, ManagerFetched
    <2>2. CASE ~ManagerBusy
      BY <1>1, <2>2 DEF ManagerIsCurrent, ManagerFetched, ManagerBusy
    <2> QED
      BY <2>1, <2>2
  <1>8. InstancesFit'
    BY <1>1, <1>3, KeyNames
       DEF InstancesFit, Delivered, Fits, Refused, Overtaken, Scheduled, IsRunning
  <1> QED
    BY <1>4, <1>5, <1>6, <1>7, <1>8

LEMMA InformerForgetsNothing ==
    ASSUME IInv, NEW home, InScope(home), ForgetInv(home), NEW d \in Docs, Informer(d)
    PROVE  ForgetInv(home)'
  <1> USE DEF ForgetInv
  <1>1. PICK q \in Keys : q.name = d /\ AtHome(home, q) /\ dirty' = dirty \cup {q}
    <2>1. CASE HandleChange(d)
      BY <2>1 DEF HandleChange, Add, KeyOf, Keys, AtHome, InScope, IInv, TypeOK, SpecDoc
    <2>2. CASE HandleDelete(d)
      BY <2>2 DEF HandleDelete, Add, KeyOf, Keys, AtHome, Homed, IInv, TypeOK, FeedTypeOK, SpecDoc
    <2> QED
      BY <2>1, <2>2 DEF Informer
  <1>2. /\ up
        /\ UNCHANGED <<rev, spec, status, up, job, swallowed, landed, running>>
        /\ cache'[d] = spec[d] /\ \A e \in Docs \ {d} : cache'[e] = cache[e]
        /\ ahead' = ahead \ {d}
        /\ UNCHANGED <<processing, retry>>
    BY DEF Informer, HandleChange, HandleDelete, storeVars, workerVars, IInv, TypeOK, FeedTypeOK
  <1>3. \A k \in Keys : k.name = d /\ AtHome(home, k) => k = q
    BY <1>1, OneKeyAtHome
  <1>4. \A k \in Keys : Scheduled(k)' <=> Scheduled(k) \/ k = q
    BY <1>1, <1>2 DEF Scheduled
  <1>5. Homed(home)'
    BY <1>1, <1>2, <1>4 DEF Homed, InScope, IsRunning
  <1>6. ManagerInOrder' /\ NothingInMemory' /\ Written'
    BY <1>2 DEF ManagerInOrder, NothingInMemory, Written, ManagerBusy, IsRunning
  <1>7. AheadOfInformer'
    BY <1>2 DEF AheadOfInformer, IInv, TypeOK
  <1>8. ManagerIsCurrent'
    <2>1. CASE ManagerBusy
      <3>1. AtHome(home, job[Manager].key)
        BY <2>1, ManagersJob DEF ManagerInOrder, Homed, Scheduled
      <3> QED
        BY <1>1, <1>2, <1>3, <2>1, <3>1, ManagersJob DEF ManagerIsCurrent, ManagerFetched
    <2>2. CASE ~ManagerBusy
      BY <1>2, <2>2 DEF ManagerIsCurrent, ManagerFetched, ManagerBusy
    <2> QED
      BY <2>1, <2>2
  <1>9. AbsenceIsNoticed'
    BY <1>2, <1>3, <1>4, KeyNames DEF AbsenceIsNoticed, Homed, IsRunning
  <1>10. InstancesFit'
    <2> SUFFICES ASSUME NEW k \in Keys, spec[k.name] # NoDoc, Delivered(k)', ~Scheduled(k)'
                 PROVE  Fits(k)'
      BY <1>2 DEF InstancesFit
    <2>1. k.name # d
      BY <1>2, <1>3, <1>4 DEF Delivered, InScope, AtHome
    <2> QED
      BY <1>2, <1>4, <2>1, KeyNames
         DEF InstancesFit, Delivered, Fits, Refused, Overtaken, IsRunning
  <1> QED
    BY <1>5, <1>6, <1>7, <1>8, <1>9, <1>10

LEMMA LeadersForgetNothing ==
    ASSUME IInv, NEW home, ForgetInv(home), Crash \/ Start
    PROVE  ForgetInv(home)'
  <1> USE DEF ForgetInv
  <1>1. CASE Crash
    <2>1. /\ ~up' /\ UNCHANGED <<rev, spec, status, live>>
          /\ \A d \in Docs : cache'[d] = NoDoc
          /\ dirty' = {} /\ processing' = {} /\ retry' = {} /\ ahead' = {}
          /\ \A k \in Keys : running'[k] = Stopped
          /\ job'[Manager].pc = "idle"
      BY <1>1, WorkersAssumption DEF Crash, Die, FeedLost, QueueLost, Idle, storeVars
    <2> QED
      BY <2>1, KeyNames
         DEF Homed, ManagerInOrder, NothingInMemory, Written, AheadOfInformer, ManagerIsCurrent,
             AbsenceIsNoticed, InstancesFit, ManagerBusy, ManagerFetched, IsRunning, Scheduled
  <1>2. CASE Start
    <2>1. /\ ~up
          /\ UNCHANGED <<storeVars, queueVars, feedVars, job, readVars>>
      BY <1>2 DEF Start, Lead
    <2> QED
      BY <2>1, KeyNames
         DEF storeVars, queueVars, feedVars, readVars,
             Homed, ManagerInOrder, NothingInMemory, Written, AheadOfInformer, ManagerIsCurrent,
             AbsenceIsNoticed, InstancesFit, ManagerBusy, ManagerFetched, IsRunning, Scheduled,
             Delivered
  <1> QED
    BY <1>1, <1>2

-----------------------------------------------------------------------------
(***************************************************************************)
(* The manager's sync.                                                     *)
(***************************************************************************)
LEMMA StartForgetsNothing ==
    ASSUME IInv, NEW home, ForgetInv(home), NEW k \in Keys, StartSync(k)
    PROVE  ForgetInv(home)'
  <1> USE DEF ForgetInv
  <1>1. /\ UNCHANGED <<storeVars, feedVars, readVars, up, swallowed, landed>>
        /\ k \in dirty \ processing
        /\ dirty' = dirty \ {k} /\ processing' = processing \cup {k} /\ retry' = retry
        /\ ~ManagerBusy
        /\ job'[Manager] = NewJob("fetchSpec", k, 0)
    BY WorkersAssumption
       DEF StartSync, Take, Get, Available, ManagerBusy, Idle, IInv, TypeOK
  <1>2. ManagerBusy' /\ ~ManagerFetched' /\ job'[Manager].key = k /\ job'[Manager].kind = "none"
        /\ job'[Manager].pc = "fetchSpec"
    BY <1>1 DEF NewJob, ManagerBusy, ManagerFetched
  <1>3. \A q \in Keys : Scheduled(q)' <=> Scheduled(q)
    BY <1>1 DEF Scheduled
  <1> USE DEF storeVars, feedVars, readVars
  <1>4. Homed(home)' /\ NothingInMemory' /\ Written' /\ AheadOfInformer' /\ AbsenceIsNoticed'
    BY <1>1, <1>3 DEF Homed, NothingInMemory, Written, AheadOfInformer, AbsenceIsNoticed, IsRunning
  <1>5. ManagerInOrder' /\ ManagerIsCurrent'
    BY <1>1, <1>2 DEF ManagerInOrder, ManagerIsCurrent, IsRunning
  <1>6. InstancesFit'
    BY <1>1, <1>3
       DEF InstancesFit, Delivered, Fits, Refused, Overtaken, IsRunning
  <1> QED
    BY <1>4, <1>5, <1>6

\* How a sync of the manager ends: its key is due again, or the instance fits.
LEMMA EndForgetsNothing ==
    ASSUME IInv, NEW home, InScope(home), ForgetInv(home), ManagerBusy,
           NEW m \in Keys, m = job[Manager].key,
           NEW failed \in BOOLEAN, Finish(Manager, failed),
           UNCHANGED <<rev, spec, cache>>, up, up',
           \A k \in Keys : k # m => running'[k] = running[k],
           \A d \in Docs : d # m.name =>
              status'[d] = status[d] /\ (Overtaken(d)' <=> Overtaken(d)) /\ (d \in ahead' <=> d \in ahead),
           AheadOfInformer',
           ~failed /\ m \notin dirty =>
              /\ spec[m.name] # NoDoc /\ Delivered(m) => Fits(m)'
              /\ IsRunning(m)' /\ cache[m.name] = NoDoc => m.name \in ahead'
    PROVE  ForgetInv(home)'
  <1> USE DEF ForgetInv
  <1>1. m.name = DocOf(job[Manager]) /\ AtHome(home, m) /\ Manager \in Workers
    BY ManagersJob DEF ManagerInOrder, Homed, Scheduled
  <1>2. /\ dirty' = dirty /\ processing' = processing \ {m}
        /\ retry' = IF failed THEN retry \cup {m} ELSE retry
        /\ ~ManagerBusy'
    BY <1>1 DEF Finish, Done, ManagerBusy, Idle, IInv, TypeOK
  <1>3. \A k \in Keys : k # m => (Scheduled(k)' <=> Scheduled(k))
    BY <1>2 DEF Scheduled
  <1>4. failed \/ m \in dirty => Scheduled(m)'
    BY <1>2 DEF Scheduled
  <1>5. \A k \in Keys : k.name = m.name /\ k # m => ~Scheduled(k) /\ ~IsRunning(k)
    BY <1>1, OneKeyAtHome DEF Homed
  <1>6. \A k \in Keys : k.name \in Docs
    BY KeyNames
  <1>7. Homed(home)'
    BY <1>1, <1>3 DEF Homed, IsRunning, AtHome
  <1>8. ManagerInOrder' /\ ManagerIsCurrent'
    BY <1>2 DEF ManagerInOrder, ManagerIsCurrent, ManagerBusy, ManagerFetched
  <1>9. NothingInMemory' /\ Written'
    BY DEF NothingInMemory, Written
  <1>10. AbsenceIsNoticed'
    <2> SUFFICES ASSUME NEW k \in Keys, IsRunning(k)', cache[k.name] = NoDoc
                 PROVE  k.name \in ahead' \/ Scheduled(k)'
      BY DEF AbsenceIsNoticed
    <2>1. CASE k = m
      BY <1>4, <2>1
    <2>2. CASE k # m
      <3>1. IsRunning(k)
        BY <2>2 DEF IsRunning
      <3>2. k.name # m.name
        BY <1>5, <2>2, <3>1
      <3> QED
        BY <1>1, <1>3, <1>6, <2>2, <3>1, <3>2 DEF AbsenceIsNoticed
    <2> QED
      BY <2>1, <2>2
  <1>11. InstancesFit'
    <2> SUFFICES ASSUME NEW k \in Keys, spec[k.name] # NoDoc, Delivered(k), ~Scheduled(k)'
                 PROVE  Fits(k)'
      BY DEF InstancesFit, Delivered
    <2>1. CASE k = m
      BY <1>4, <2>1
    <2>2. CASE k # m
      <3>1. k.name # m.name
        BY <1>1, <1>6, <2>2, OneKeyAtHome DEF Delivered, InScope, AtHome
      <3> QED
        BY <1>1, <1>3, <1>6, <2>2, <3>1 DEF InstancesFit, Fits, Refused, IsRunning
    <2> QED
      BY <2>1, <2>2
  <1> QED
    BY <1>7, <1>8, <1>9, <1>10, <1>11

\* How a sync of the manager goes on, its key still held.
LEMMA GoingOnForgetsNothing ==
    ASSUME IInv, NEW home, InScope(home), ForgetInv(home), ManagerBusy,
           NEW m \in Keys, m = job[Manager].key, NEW j,
           job'[Manager] = j, j.key = m,
           UNCHANGED <<rev, spec, cache, up>>,
           \A k \in Keys : /\ k \in dirty' <=> k \in dirty
                           /\ k \in processing' <=> k \in processing
                           /\ k \in retry' <=> k \in retry,
           \A k \in Keys : k # m => running'[k] = running[k],
           IsRunning(m)' => running' = running,
           \A d \in Docs : d # m.name =>
              status'[d] = status[d] /\ (Overtaken(d)' <=> Overtaken(d)) /\ (d \in ahead' <=> d \in ahead),
           AheadOfInformer', ManagerInOrder', ManagerIsCurrent'
    PROVE  ForgetInv(home)'
  <1> USE DEF ForgetInv
  <1>1. m.name = DocOf(job[Manager]) /\ AtHome(home, m) /\ m \in processing
    BY ManagersJob DEF ManagerInOrder, Homed, Scheduled
  <1>2. \A k \in Keys : Scheduled(k)' <=> Scheduled(k)
    BY DEF Scheduled
  <1>3. Scheduled(m)'
    BY <1>1, <1>2 DEF Scheduled
  <1>4. \A k \in Keys : k.name = m.name /\ k # m => ~IsRunning(k)
    BY <1>1, OneKeyAtHome DEF Homed
  <1>5. \A k \in Keys : IsRunning(k)' => IsRunning(k)
    BY DEF IsRunning
  <1>6. \A k \in Keys : k.name \in Docs
    BY KeyNames
  <1>7. Homed(home)'
    BY <1>2, <1>5 DEF Homed, AtHome
  <1>8. NothingInMemory' /\ Written'
    BY <1>5 DEF NothingInMemory, Written
  <1>9. AbsenceIsNoticed'
    <2> SUFFICES ASSUME NEW k \in Keys, IsRunning(k)', cache[k.name] = NoDoc
                 PROVE  k.name \in ahead' \/ Scheduled(k)'
      BY DEF AbsenceIsNoticed
    <2>1. CASE k # m
      BY <1>1, <1>2, <1>4, <1>5, <1>6, <2>1 DEF AbsenceIsNoticed
    <2> QED
      BY <1>3, <2>1
  <1>10. InstancesFit'
    <2> SUFFICES ASSUME up, NEW k \in Keys, spec[k.name] # NoDoc, Delivered(k), ~Scheduled(k)'
                 PROVE  Fits(k)'
      BY DEF InstancesFit, Delivered
    <2>1. k # m
      BY <1>3
    <2>2. k.name # m.name
      BY <1>1, <1>6, <2>1, OneKeyAtHome DEF Delivered, InScope, AtHome
    <2> QED
      BY <1>1, <1>2, <1>6, <2>1, <2>2 DEF InstancesFit, Fits, Refused, IsRunning
  <1> QED
    BY <1>7, <1>8, <1>9, <1>10

LEMMA FetchForgetsNothing ==
    ASSUME IInv, NEW home, InScope(home), ForgetInv(home), FetchSpec
    PROVE  ForgetInv(home)'
  <1>1. ManagerBusy /\ up /\ job[Manager].pc = "fetchSpec"
    BY DEF FetchSpec, At, ManagerBusy
  <1>2. PICK m \in Keys : m = job[Manager].key
    BY <1>1, ManagersJob
  <1>3. /\ m.name \in Docs /\ m.name = DocOf(job[Manager]) /\ Manager \in Workers
        /\ job[Manager] \in Jobs /\ job \in [Workers -> Jobs \cup {Idle}]
        /\ job[Manager].kind = "none"
    BY <1>1, <1>2, ManagersJob DEF ForgetInv, ManagerInOrder, IInv, TypeOK
  <1>4. UNCHANGED <<rev, spec, status, cache, running>> /\ up'
        /\ \A d \in Docs : Overtaken(d)' <=> Overtaken(d)
    BY <1>1 DEF FetchSpec, storeVars, feedVars, Overtaken
  <1>5. /\ ahead' \subseteq ahead \cup {m.name}
        /\ ahead \ {m.name} \subseteq ahead'
        /\ AheadOfInformer'
    BY <1>3, <1>4 DEF FetchSpec, AheadOfInformer, ForgetInv, IInv, TypeOK
  <1>6. CASE Goto(Manager, "stop") /\ spec[m.name] = NoDoc
    <2>1. /\ job'[Manager].key = m /\ job'[Manager].pc = "stop" /\ job'[Manager].kind = "none"
          /\ UNCHANGED queueVars
      BY <1>2, <1>3, <1>6 DEF Goto, Jobs
    <2>2. ManagerInOrder'
      BY <1>1, <1>2, <1>4, <2>1 DEF ManagerInOrder, ManagerBusy, ForgetInv, queueVars
    <2>3. ManagerIsCurrent'
      BY <1>2, <1>3, <1>4, <1>6, <2>1 DEF ManagerIsCurrent, DocOf
    <2> QED
      BY <1>1, <1>2, <1>3, <1>4, <1>5, <2>1, <2>2, <2>3, GoingOnForgetsNothing DEF queueVars
  <1>7. CASE /\ spec[m.name] # NoDoc
             /\ cache[m.name] # spec[m.name] => m.name \in ahead'
             /\ job' = [job EXCEPT ![Manager] =
                           [job[Manager] EXCEPT !.pc = "stop", !.rev = spec[m.name].rev,
                                                !.kind = spec[m.name].kind]]
             /\ UNCHANGED queueVars
    <2>1. /\ job'[Manager].key = m /\ job'[Manager].pc = "stop"
          /\ job'[Manager].kind = spec[m.name].kind
          /\ UNCHANGED queueVars
      BY <1>2, <1>3, <1>7 DEF Jobs
    <2>2. ManagerInOrder'
      BY <1>1, <1>2, <1>4, <1>7, <2>1 DEF ManagerInOrder, ManagerBusy, ForgetInv, queueVars
    <2>3. ManagerIsCurrent'
      BY <1>2, <1>3, <1>4, <1>7, <2>1 DEF ManagerIsCurrent, DocOf
    <2> QED
      BY <1>1, <1>2, <1>3, <1>4, <1>5, <2>1, <2>2, <2>3, GoingOnForgetsNothing DEF queueVars
  <1>8. CASE /\ spec[m.name] # NoDoc
             /\ cache[m.name] # spec[m.name] => m.name \in ahead'
             /\ Kept(m, spec[m.name])
             /\ Finish(Manager, FALSE)
    <2>1. spec[m.name].kind # "malformed"
      <3>1. running[m].target \in Targets
        BY <1>8 DEF Kept, IsRunning, IInv, TypeOK, Instance
      <3> QED
        BY <1>8, <3>1 DEF Kept, Targets
    <2>2. Fits(m)'
      BY <1>4, <1>8, <2>1 DEF Fits, Kept, IsRunning
    <2> QED
      BY <1>1, <1>2, <1>3, <1>4, <1>5, <1>8, <2>2, EndForgetsNothing
  <1>9. CASE Finish(Manager, TRUE)
    BY <1>1, <1>2, <1>3, <1>4, <1>5, <1>9, EndForgetsNothing
  <1> QED
    BY <1>2, <1>3, <1>6, <1>7, <1>8, <1>9 DEF FetchSpec, Managed

LEMMA StopForgetsNothing ==
    ASSUME IInv, NEW home, InScope(home), ForgetInv(home), StopInstance
    PROVE  ForgetInv(home)'
  <1>1. ManagerBusy /\ up /\ job[Manager].pc = "stop"
    BY DEF StopInstance, At, ManagerBusy
  <1>2. PICK m \in Keys : m = job[Manager].key
    BY <1>1, ManagersJob
  <1>3. /\ m.name \in Docs /\ m.name = DocOf(job[Manager]) /\ Manager \in Workers
        /\ job[Manager] \in Jobs /\ job \in [Workers -> Jobs \cup {Idle}] /\ m # Manager
        /\ running \in [Keys -> Instance \cup {Stopped}]
    BY <1>1, <1>2, ManagersJob, ManagerAssumption DEF IInv, TypeOK
  <1>4. /\ UNCHANGED <<rev, spec, status, cache, ahead, swallowed, landed>> /\ up' = up
        /\ running' = [running EXCEPT ![m] = Stopped]
        /\ job' = [job EXCEPT ![m] = Idle, ![Manager] = [job[Manager] EXCEPT !.pc = "start"]]
        /\ dirty' = dirty \ {OwnKey(m)} /\ processing' = processing \ {OwnKey(m)}
        /\ retry' = retry \ {OwnKey(m)}
    BY <1>2 DEF StopInstance, Managed, storeVars, feedVars, clusterVars
  <1>5. \A k \in Keys : /\ k \in dirty' <=> k \in dirty
                        /\ k \in processing' <=> k \in processing
                        /\ k \in retry' <=> k \in retry
    BY <1>4, QueuesApart
  <1>6. /\ job'[Manager].key = m /\ job'[Manager].pc = "start"
        /\ job'[Manager].kind = job[Manager].kind
    BY <1>2, <1>3, <1>4 DEF Jobs
  <1>7. ~IsRunning(m)' /\ \A k \in Keys : k # m => running'[k] = running[k]
    BY <1>3, <1>4 DEF IsRunning
  <1>8. ManagerInOrder'
    BY <1>1, <1>2, <1>5, <1>6, <1>7 DEF ManagerInOrder, ManagerBusy, ForgetInv
  <1>9. ManagerIsCurrent'
    BY <1>1, <1>2, <1>3, <1>4, <1>5, <1>6
       DEF ManagerIsCurrent, ManagerFetched, DocOf, ForgetInv
  <1>10. AheadOfInformer' /\ \A d \in Docs : Overtaken(d)' <=> Overtaken(d)
    BY <1>4 DEF AheadOfInformer, Overtaken, ForgetInv
  <1> QED
    BY <1>1, <1>2, <1>4, <1>5, <1>6, <1>7, <1>8, <1>9, <1>10, GoingOnForgetsNothing

LEMMA SuccessorForgetsNothing ==
    ASSUME IInv, NEW home, InScope(home), ForgetInv(home), StartInstance
    PROVE  ForgetInv(home)'
  <1>1. ManagerBusy /\ ManagerFetched /\ up /\ job[Manager].pc = "start"
    BY DEF StartInstance, At, ManagerBusy, ManagerFetched
  <1>2. PICK m \in Keys : m = job[Manager].key
    BY <1>1, ManagersJob
  <1>3. /\ m.name \in Docs /\ m.name = DocOf(job[Manager]) /\ Manager \in Workers
        /\ job[Manager] \in Jobs /\ job \in [Workers -> Jobs \cup {Idle}]
        /\ running \in [Keys -> Instance \cup {Stopped}]
        /\ ~IsRunning(m)
    BY <1>1, <1>2, ManagersJob DEF IInv, TypeOK, ForgetInv, ManagerInOrder
  <1>4. /\ UNCHANGED <<rev, spec, status, cache, ahead>> /\ up' = up
        /\ \A d \in Docs : Overtaken(d)' <=> Overtaken(d)
    BY DEF StartInstance, storeVars, feedVars, workerVarsButJob, clusterVars, Overtaken
  <1>5. AheadOfInformer' /\ up'
    BY <1>1, <1>4 DEF AheadOfInformer, ForgetInv
  <1>6. m \notin dirty =>
            /\ spec[m.name] # NoDoc /\ Delivered(m) => job[Manager].kind = spec[m.name].kind
            /\ cache[m.name] = NoDoc /\ job[Manager].kind # "none" => m.name \in ahead
    BY <1>1, <1>2, <1>3 DEF ManagerIsCurrent, ForgetInv, Delivered
  <1>7. spec[m.name] # NoDoc => spec[m.name].kind # "none"
    BY <1>3, KindsAssumption DEF IInv, TypeOK, SpecDoc, SpecKinds
  <1>8. CASE job[Manager].kind = "none" /\ Finish(Manager, FALSE) /\ UNCHANGED running
    <2>1. ~IsRunning(m)'
      BY <1>3, <1>8 DEF IsRunning
    <2> QED
      BY <1>1, <1>2, <1>4, <1>5, <1>6, <1>7, <1>8, <2>1, EndForgetsNothing
  <1>9. CASE /\ job[Manager].kind \in Targets /\ Finish(Manager, FALSE)
             /\ running' = [running EXCEPT ![m] = [target |-> job[Manager].kind,
                               rev |-> job[Manager].rev, synced |-> FALSE, store |-> NoContent]]
    <2>1. running'[m].target = job[Manager].kind /\ \A k \in Keys : k # m => running'[k] = running[k]
      BY <1>3, <1>9
    <2>2. job[Manager].kind # "none" /\ job[Manager].kind # "malformed"
      BY <1>9, KindsAssumption DEF Targets, SpecKinds
    <2>3. spec[m.name] # NoDoc /\ Delivered(m) /\ m \notin dirty => Fits(m)'
      BY <1>4, <1>6, <2>1, <2>2 DEF Fits, IsRunning, Stopped
    <2> QED
      BY <1>1, <1>2, <1>4, <1>5, <1>6, <1>9, <2>1, <2>2, <2>3, EndForgetsNothing
  <1>10. CASE /\ job[Manager].kind = "malformed" /\ UNCHANGED <<queueVars, running>>
              /\ job' = [job EXCEPT ![Manager] =
                            [job[Manager] EXCEPT !.pc = "fetchStatus", !.err = "precheck"]]
    <2>1. /\ job'[Manager].key = m /\ job'[Manager].pc = "fetchStatus"
          /\ job'[Manager].kind = "malformed" /\ job'[Manager].err = "precheck"
      BY <1>2, <1>3, <1>10 DEF Jobs
    <2>2. ManagerInOrder'
      BY <1>1, <1>2, <1>3, <1>10, <2>1
         DEF ManagerInOrder, ManagerBusy, ForgetInv, queueVars, IsRunning
    <2>3. ManagerIsCurrent'
      BY <1>1, <1>2, <1>3, <1>4, <1>10, <2>1
         DEF ManagerIsCurrent, ManagerFetched, DocOf, ForgetInv, queueVars
    <2> QED
      BY <1>1, <1>2, <1>4, <1>5, <1>10, <2>1, <2>2, <2>3, GoingOnForgetsNothing DEF queueVars
  <1> QED
    BY <1>2, <1>8, <1>9, <1>10 DEF StartInstance

\* The manager's own write of a status: the refusal of a target.
LEMMA RefusalForgetsNothing ==
    ASSUME IInv, NEW home, InScope(home), ForgetInv(home), Report(Manager)
    PROVE  ForgetInv(home)'
  <1>1. ManagerBusy /\ ManagerFetched /\ up
        /\ job[Manager].pc \in {"fetchStatus", "create", "replace"}
    BY DEF Report, FetchStatus, CreateStatus, ReplaceStatus, WriteLost, UpdateFetch,
           UpdateCreate, UpdateReplace, UpdateLost, At, ManagerBusy, ManagerFetched
  <1>2. PICK m \in Keys : m = job[Manager].key
    BY <1>1, ManagersJob
  <1>3. /\ m.name \in Docs /\ m.name = DocOf(job[Manager]) /\ Manager \in Workers
        /\ job[Manager] \in Jobs /\ job \in [Workers -> Jobs \cup {Idle}]
        /\ status \in [Docs -> StatusDoc \cup {NoDoc}]
        /\ ~IsRunning(m)
        /\ job[Manager].kind = "malformed"
        /\ NewStatus(job[Manager]).reason = "PreCheckFailed"
        /\ NewStatus(job[Manager]) \in Bodies
    BY <1>1, <1>2, ManagersJob, NewStatusType
       DEF IInv, TypeOK, ForgetInv, ManagerInOrder, NewStatus, SuccessfulReason
  <1>4. /\ UNCHANGED <<rev, spec, cache, ahead, running>> /\ up'
    BY <1>1 DEF Report, FetchStatus, CreateStatus, ReplaceStatus, WriteLost, UpdateFetch,
                UpdateCreate, UpdateReplace, UpdateLost, feedVars, readVars
  <1>5. AheadOfInformer' /\ ~IsRunning(m)'
    BY <1>3, <1>4 DEF AheadOfInformer, ForgetInv, IsRunning
  <1>6. \A d \in Docs : d # m.name => status'[d] = status[d] /\ (Overtaken(d)' <=> Overtaken(d))
    BY <1>3
       DEF Report, FetchStatus, CreateStatus, ReplaceStatus, WriteLost, UpdateFetch,
           UpdateCreate, UpdateReplace, UpdateLost, Seen, Create, Replace, WriteStatus, Overtaken
  <1>7. m \notin dirty /\ spec[m.name] # NoDoc /\ Delivered(m) =>
            spec[m.name].kind = "malformed"
    BY <1>1, <1>2, <1>3 DEF ManagerIsCurrent, ForgetInv, Delivered
  <1>8. ASSUME NEW pc \in {"create", "replace"}, job'[Manager].pc = pc,
               job'[Manager].key = m, job'[Manager].kind = "malformed",
               job'[Manager].err = job[Manager].err, UNCHANGED queueVars
        PROVE  ForgetInv(home)'
    <2>1. ManagerInOrder'
      BY <1>1, <1>2, <1>3, <1>4, <1>5, <1>8 DEF ManagerInOrder, ManagerBusy, ForgetInv, queueVars
    <2>2. ManagerIsCurrent'
      BY <1>1, <1>2, <1>3, <1>4, <1>8
         DEF ManagerIsCurrent, ManagerFetched, DocOf, ForgetInv, queueVars
    <2> QED
      BY <1>1, <1>2, <1>4, <1>5, <1>6, <1>8, <2>1, <2>2, GoingOnForgetsNothing DEF queueVars
  <1>9. ASSUME NEW failed \in BOOLEAN, Finish(Manager, failed),
               failed \/ (Overtaken(m.name) \/ Refused(m.name))'
        PROVE  ForgetInv(home)'
    <2>1. ~failed /\ m \notin dirty /\ spec[m.name] # NoDoc /\ Delivered(m) => Fits(m)'
      BY <1>4, <1>5, <1>7, <1>9 DEF Fits
    <2> QED
      BY <1>1, <1>2, <1>4, <1>5, <1>6, <1>9, <2>1, EndForgetsNothing
  <1>10. CASE FetchStatus(Manager)
    <2>1. CASE \E pc \in {"create", "replace"} :
                  /\ job'[Manager].pc = pc /\ job'[Manager].key = m
                  /\ job'[Manager].kind = "malformed"
                  /\ job'[Manager].err = job[Manager].err /\ UNCHANGED queueVars
      BY <1>8, <2>1
    <2>2. CASE /\ status[m.name] # NoDoc /\ status[m.name].body = NewStatus(job[Manager])
               /\ status' = status /\ Finish(Manager, FALSE)
      BY <1>3, <1>9, <2>2 DEF Refused
    <2>3. CASE Finish(Manager, TRUE)
      BY <1>9, <2>3
    <2>4. CASE Goto(Manager, "create")
      BY <1>2, <1>3, <2>1, <2>4 DEF Goto, Jobs
    <2>5. CASE job' = [job EXCEPT ![Manager].pc = "replace", ![Manager].ver = status[m.name].ver]
               /\ UNCHANGED queueVars
      BY <1>2, <1>3, <2>1, <2>5 DEF Jobs
    <2> QED
      BY <1>3, <1>10, <2>2, <2>3, <2>4, <2>5 DEF FetchStatus, UpdateFetch
  <1>11. CASE CreateStatus(Manager)
    <2>1. CASE Create(m.name, NewStatus(job[Manager])) /\ Finish(Manager, FALSE)
      <3>1. Refused(m.name)'
        <4>1. status'[m.name] = [ver |-> 1, body |-> NewStatus(job[Manager])]
          BY <1>3, <2>1 DEF Create, WriteStatus
        <4> QED
          BY <1>3, <4>1, NoStatusAssumption DEF Refused, StatusDoc
      <3> QED
        BY <1>9, <2>1, <3>1
    <2>2. CASE Finish(Manager, TRUE)
      BY <1>9, <2>2
    <2> QED
      BY <1>3, <1>11, <2>1, <2>2 DEF CreateStatus, UpdateCreate
  <1>12. CASE ReplaceStatus(Manager)
    <2>1. Finish(Manager, FALSE)
      BY <1>12 DEF ReplaceStatus, UpdateReplace
    <2>2. CASE Replace(m.name, job[Manager].ver, NewStatus(job[Manager]))
      <3>1. Refused(m.name)'
        <4>1. status'[m.name] = [ver |-> status[m.name].ver + 1, body |-> NewStatus(job[Manager])]
              /\ status[m.name].ver \in Nat
          BY <1>3, <2>2 DEF Replace, CanReplace, WriteStatus, StatusDoc
        <4> QED
          BY <1>3, <4>1, NoStatusAssumption DEF Refused, StatusDoc
      <3> QED
        BY <1>9, <2>1, <3>1
    <2>3. CASE swallowed' = swallowed \cup {m.name}
      BY <1>9, <2>1, <2>3 DEF Overtaken
    <2> QED
      BY <1>3, <1>12, <2>2, <2>3 DEF ReplaceStatus, UpdateReplace
  <1>13. CASE WriteLost(Manager)
    BY <1>9, <1>13 DEF WriteLost, UpdateLost
  <1> QED
    BY <1>10, <1>11, <1>12, <1>13 DEF Report

-----------------------------------------------------------------------------
(***************************************************************************)
(* Everything else goes on aside.                                          *)
(***************************************************************************)
\* What an instance's worker does to its own queue, the manager's does not notice.
QueuesKept ==
    \A k \in Keys :
        /\ k \in dirty => k \in dirty'
        /\ k \in processing' <=> k \in processing
        /\ k \in retry => k \in dirty' \cup retry'
        /\ k \in dirty' \cup retry' => k \in dirty \cup retry

LEMMA InstancesWorkAside ==
    ASSUME IInv, NEW k \in Keys,
           Watch(k) \/ Tick(k) \/ StartRead(k) \/ FetchOld(k) \/ Report(k)
    PROVE  Aside
  <1>1. k \in Workers /\ k # Manager /\ k.name \in Docs
    BY KeyNames, WorkersAssumption, ManagerAssumption
  <1>2. UNCHANGED <<rev, spec, cache, up, ahead>>
    BY DEF Watch, ListTarget, WatchTarget, Tick, StartRead, Take, FetchOld, Report, FetchStatus,
           CreateStatus, ReplaceStatus, WriteLost, UpdateFetch, UpdateCreate, UpdateReplace,
           UpdateLost, storeVars, feedVars, workerVars, readVars, clusterVars
  <1>3. /\ \A q \in Keys : (IsRunning(q)' <=> IsRunning(q)) /\ running'[q].target = running[q].target
    <2>1. CASE Watch(k)
      <3>1. running[k] \in Instance /\ running \in [Keys -> Instance \cup {Stopped}]
        BY <2>1 DEF Watch, ListTarget, WatchTarget, IsRunning, IInv, TypeOK
      <3>2. PICK s \in {running[k].synced, TRUE} :
               running' = [running EXCEPT ![k] = [running[k] EXCEPT
                              !.synced = s, !.store = Live(running[k].target)]]
        BY <2>1, <3>1 DEF Watch, ListTarget, WatchTarget, Instance
      <3>3. running'[k].target = running[k].target /\ \A q \in Keys \ {k} : running'[q] = running[q]
        BY <3>1, <3>2 DEF Instance
      <3>4. running[k].target # "none"
        BY <3>1, KindsAssumption DEF Instance, Targets, SpecKinds
      <3> QED
        BY <3>3, <3>4 DEF IsRunning, Stopped
    <2>2. CASE running' = running
      BY <2>2 DEF IsRunning
    <2> QED
      BY <2>1, <2>2
         DEF Tick, StartRead, FetchOld, Report, FetchStatus, CreateStatus, ReplaceStatus,
             WriteLost, readVars
  <1>4. job[k] # Idle => job[k].key = OwnKey(k)
    BY DEF IInv, InPlace
  <1>5. job \in [Workers -> Jobs \cup {Idle}]
    BY DEF IInv, TypeOK
  <1>6. ASSUME job[k].pc # "idle", NEW failed, Finish(k, failed)
        PROVE  QueuesKept /\ job'[Manager] = job[Manager]
    BY <1>1, <1>4, <1>5, <1>6, QueuesApart DEF Finish, Done, QueuesKept, Idle
  <1>7. ASSUME NEW j, job' = [job EXCEPT ![k] = j], UNCHANGED queueVars
        PROVE  QueuesKept /\ job'[Manager] = job[Manager]
    BY <1>1, <1>5, <1>7, WorkersAssumption DEF queueVars, QueuesKept
  <1>8. QueuesKept /\ job'[Manager] = job[Manager]
    <2>1. CASE Watch(k) \/ Tick(k)
      BY <2>1, QueuesApart DEF Watch, ListTarget, WatchTarget, Tick, Add, QueuesKept, workerVars
    <2>2. CASE StartRead(k)
      BY <1>1, <1>5, <2>2, QueuesApart DEF StartRead, Take, Get, QueuesKept
    <2>3. CASE FetchOld(k)
      BY <1>6, <1>7, <2>3 DEF FetchOld, At
    <2>4. CASE FetchStatus(k)
      <3>1. CASE Goto(k, "create")
        BY <1>7, <3>1 DEF Goto
      <3>2. CASE /\ job' = [job EXCEPT ![k].pc = "replace", ![k].ver = status[DocOf(job[k])].ver]
                 /\ UNCHANGED queueVars
        <4>1. job'[Manager] = job[Manager]
          BY <1>1, <1>5, <3>2, WorkersAssumption
        <4> QED
          BY <3>2, <4>1 DEF queueVars, QueuesKept
      <3> QED
        BY <1>6, <2>4, <3>1, <3>2 DEF FetchStatus, UpdateFetch, At
    <2>5. CASE CreateStatus(k)
      BY <1>6, <2>5 DEF CreateStatus, UpdateCreate, At
    <2>6. CASE ReplaceStatus(k)
      BY <1>6, <2>6 DEF ReplaceStatus, UpdateReplace, At
    <2>7. CASE WriteLost(k)
      BY <1>6, <2>7 DEF WriteLost, UpdateLost, At
    <2> QED
      BY <2>1, <2>2, <2>3, <2>4, <2>5, <2>6, <2>7 DEF Report
  <1>9. \A d \in Docs : \/ status'[d] = status[d] /\ (Overtaken(d)' <=> Overtaken(d))
                        \/ \E q \in Keys : q.name = d /\ IsRunning(q)
    <2>1. CASE UNCHANGED <<status, swallowed, landed>>
      BY <2>1 DEF Overtaken
    <2>2. CASE Report(k)
      <3>1. job[k].pc # "idle"
        BY <2>2 DEF Report, FetchStatus, CreateStatus, ReplaceStatus, WriteLost, UpdateFetch,
                    UpdateCreate, UpdateReplace, UpdateLost, At
      <3>2. IsRunning(k) /\ DocOf(job[k]) = k.name
        BY <1>4, <3>1 DEF IInv, InPlace, Idle, DocOf, OwnKey
      <3>3. \A d \in Docs \ {k.name} : status'[d] = status[d] /\ (Overtaken(d)' <=> Overtaken(d))
        BY <1>1, <2>2, <3>2
           DEF Report, FetchStatus, CreateStatus, ReplaceStatus, WriteLost, UpdateFetch,
               UpdateCreate, UpdateReplace, UpdateLost, Seen, Create, Replace, WriteStatus,
               Overtaken, IInv, TypeOK
      <3> QED
        BY <1>1, <3>2, <3>3
    <2> QED
      BY <2>1, <2>2
         DEF Watch, ListTarget, WatchTarget, Tick, StartRead, Take, FetchOld, storeVars, workerVars
  <1> QED
    BY <1>2, <1>3, <1>8, <1>9 DEF Aside, QueuesKept

LEMMA OthersWorkAside ==
    ASSUME IInv,
           \/ \E t \in Targets : TargetChanges(t)
           \/ \E d \in Docs : Resync(d)
           \/ \E k \in Keys : Cooldown(k)
           \/ \E k \in Keys \cup OwnKeys : Backoff(k)
           \/ \E r \in wire : Land(r)
           \/ UNCHANGED vars
    PROVE  Aside
  <1> USE DEF storeVars, queueVars, feedVars, workerVars, readVars
  <1>1. CASE \E t \in Targets : TargetChanges(t)
    BY <1>1 DEF TargetChanges, Aside, IsRunning, Overtaken
  <1>2. ASSUME NEW d \in Docs, Resync(d) PROVE Aside
    <2>1. cache[d] # NoDoc /\ dirty' = dirty \cup {KeyOf(d, cache[d])}
          /\ UNCHANGED <<processing, retry, cache>>
      BY <1>2 DEF Resync, HandleResync, Add
    <2>2. KeyOf(d, cache[d]).name = d /\ KeyOf(d, cache[d]).scope = cache[d].scope
      BY DEF KeyOf
    <2> QED
      BY <1>2, <2>1, <2>2 DEF Resync, Aside, IsRunning, Overtaken
  <1>3. CASE \E k \in Keys : Cooldown(k)
    BY <1>3 DEF Cooldown, CooldownOver, Aside, IsRunning, Overtaken
  <1>4. CASE \E k \in Keys \cup OwnKeys : Backoff(k)
    BY <1>4 DEF Backoff, RetryDue, Add, Aside, IsRunning, Overtaken
  <1>5. ASSUME NEW r \in wire, Land(r) PROVE Aside
    <2>1. r.doc \in Docs
      BY DEF IInv, TypeOK, Requests, StatusRequests
    <2>2. /\ UNCHANGED <<rev, spec, cache, up, ahead, job, running, dirty, processing, retry>>
          /\ landed' = landed \cup {r.doc} /\ swallowed' = swallowed
      BY <1>5 DEF Land, LateStatus
    <2>3. \A d \in Docs \ {r.doc} : status'[d] = status[d]
      BY <1>5, <2>1 DEF Land, LateStatus, Create, Replace, WriteStatus, IInv, TypeOK
    <2> QED
      BY <2>1, <2>2, <2>3 DEF Aside, IsRunning, Overtaken
  <1>6. CASE UNCHANGED vars
    BY <1>6 DEF vars, Aside, IsRunning, Overtaken
  <1> QED
    BY <1>1, <1>2, <1>3, <1>4, <1>5, <1>6

LEMMA ForgetStep ==
    ASSUME IInv, NEW home, InScope(home), ForgetInv(home), [Next]_vars
    PROVE  ForgetInv(home)'
  <1>1. ASSUME NEW d \in Docs, BackendWrites(d) \/ BackendDeletes(d) PROVE ForgetInv(home)'
    BY <1>1, BackendForgetsNothing
  <1>2. ASSUME NEW d \in Docs, Informer(d) PROVE ForgetInv(home)'
    BY <1>2, InformerForgetsNothing
  <1>3. ASSUME NEW k \in Keys, StartSync(k) PROVE ForgetInv(home)'
    BY <1>3, StartForgetsNothing
  <1>4. CASE Manage
    BY <1>4, FetchForgetsNothing, StopForgetsNothing, SuccessorForgetsNothing DEF Manage
  <1>5. CASE Report(Manager)
    BY <1>5, RefusalForgetsNothing
  <1>6. CASE Crash \/ Start
    BY <1>6, LeadersForgetNothing
  <1>7. ASSUME NEW k \in Keys,
               Watch(k) \/ Tick(k) \/ StartRead(k) \/ FetchOld(k) \/ Report(k)
        PROVE  ForgetInv(home)'
    BY <1>7, InstancesWorkAside, AsideForgetsNothing
  <1>8. CASE \/ \E t \in Targets : TargetChanges(t)
             \/ \E d \in Docs : Resync(d)
             \/ \E k \in Keys : Cooldown(k)
             \/ \E k \in Keys \cup OwnKeys : Backoff(k)
             \/ \E r \in wire : Land(r)
             \/ UNCHANGED vars
    BY <1>8, OthersWorkAside, AsideForgetsNothing
  <1> QED
    BY <1>1, <1>2, <1>3, <1>4, <1>5, <1>6, <1>7, <1>8, WorkersAssumption DEF Next

\* The invariant holds while every document stays in its scope.
LEMMA ForgetInvHolds ==
    ASSUME NEW home
    PROVE  Spec /\ []InScope(home) => []ForgetInv(home)
<1>1. Init => ForgetInv(home)
  <2> SUFFICES ASSUME Init PROVE ForgetInv(home)
    OBVIOUS
  <2>1. /\ up /\ \A d \in Docs : spec[d] = NoDoc /\ cache[d] = NoDoc
        /\ dirty = {} /\ processing = {} /\ retry = {} /\ ahead = {}
        /\ \A k \in Keys : running[k] = Stopped
        /\ job[Manager].pc = "idle"
    BY WorkersAssumption
       DEF Init, StoreInit, QueueInit, FeedInit, WorkerInit, Idle
  <2> QED
    BY <2>1, KeyNames
       DEF ForgetInv, Homed, ManagerInOrder, NothingInMemory, Written, AheadOfInformer,
           ManagerIsCurrent, AbsenceIsNoticed, InstancesFit, ManagerBusy, ManagerFetched,
           IsRunning, Scheduled
<1>2. IInv /\ InScope(home) /\ ForgetInv(home) /\ [Next]_vars => ForgetInv(home)'
  BY ForgetStep
<1> QED
  BY <1>1, <1>2, WorkersInPlace, PTL DEF Spec

\* While every document stays in its scope, the manager loses no wake-up: a change or
\* deletion the informer has delivered has its instance, or a refusal in the status,
\* or the key is due for another sync (or the document was overtaken).
THEOREM NoneIsForgotten ==
    ASSUME NEW home
    PROVE  Spec /\ []InScope(home) => []NothingForgotten
  <1>1. ForgetInv(home) => NothingForgotten
    BY ForgetInvSuffices
  <1> QED
    BY <1>1, ForgetInvHolds, PTL

-----------------------------------------------------------------------------
(***************************************************************************)
(* Revisions in order.  Three kinds of things name a revision of a         *)
(* document: its status and the requests on the wire, its instance, which  *)
(* reports the one it was built with however old that is, and a sync of    *)
(* the manager.  None of the first is later than one of the others, and    *)
(* nothing is later than the document's last revision.                     *)
(***************************************************************************)
Observed(d) == IF status[d] = NoDoc THEN 0 ELSE status[d].body.observed

\* The manager's sync holds the revision of a document it has fetched.
ManagerReports == ManagerFetched /\ job[Manager].kind # "none"

\* A report of revision r about d disturbs no one who is still to report about d.
MayReport(d, r) ==
    /\ r <= Latest(d)
    /\ \A k \in Keys : IsRunning(k) /\ k.name = d => r <= running[k].rev
    /\ ManagerReports /\ DocOf(job[Manager]) = d => r <= job[Manager].rev

ReportersInOrder ==
    /\ \A k \in Keys : IsRunning(k) => MayReport(k.name, running[k].rev)
    /\ ManagerReports => job[Manager].rev <= Latest(DocOf(job[Manager]))

ReportsInOrder ==
    /\ \A d \in Docs : MayReport(d, Observed(d))
    /\ \A r \in wire : MayReport(r.doc, r.body.observed)

\* What a worker goes on with: the revision of its instance, a version it has seen.
JobsInOrder ==
    /\ \A k \in Keys : job[k].pc # "idle" => job[k].rev = running[k].rev
    /\ \A w \in Workers : job[w].pc = "replace" =>
          LET d == DocOf(job[w])
          IN  status[d] # NoDoc /\ job[w].ver <= status[d].ver

\* A Replace succeeds only over a status no later than its own.
FitsStatus(r) ==
    r.op = "replace" =>
        /\ status[r.doc] # NoDoc
        /\ r.ver <= status[r.doc].ver
        /\ r.ver = status[r.doc].ver => Observed(r.doc) <= r.body.observed

OrderInv ==
    /\ ReportersInOrder
    /\ ReportsInOrder
    /\ JobsInOrder
    /\ \A r \in wire : FitsStatus(r)

-----------------------------------------------------------------------------
\* The revisions and versions that are compared are numbers.
RevisionsTyped ==
    /\ rev \in Nat
    /\ \A d \in Docs : spec[d] # NoDoc => spec[d].rev \in Nat \ {0}
    /\ \A d \in Docs : Observed(d) \in Nat /\ (status[d] # NoDoc => status[d].ver \in Nat)
    /\ \A d \in Docs : Latest(d) \in Nat
    /\ \A k \in Keys : IsRunning(k) => running[k].rev \in Nat
    /\ \A r \in wire : /\ r.doc \in Docs /\ r.body.observed \in Nat
                       /\ r.op = "replace" => r.ver \in Nat
                       /\ r.op \in {"create", "replace"}
    /\ \A w \in Workers : job[w].pc # "idle" =>
          job[w].key.name \in Docs /\ job[w].rev \in Nat /\ job[w].ver \in Nat

LEMMA RevisionTypes ==
    ASSUME IInv
    PROVE  RevisionsTyped
  <1>1. rev \in Nat /\ \A d \in Docs : spec[d] # NoDoc => spec[d].rev \in Nat \ {0}
    BY DEF IInv, TypeOK, SpecDoc
  <1>2. \A d \in Docs : Observed(d) \in Nat /\ (status[d] # NoDoc => status[d].ver \in Nat)
    BY DEF IInv, TypeOK, StatusDoc, Bodies, Observed
  <1>3. \A r \in wire : /\ r.doc \in Docs /\ r.body.observed \in Nat
                        /\ r.op = "replace" => r.ver \in Nat
                        /\ r.op \in {"create", "replace"}
    BY DEF IInv, TypeOK, Requests, StatusRequests, Bodies
  <1>4. \A k \in Keys : IsRunning(k) => running[k].rev \in Nat
    BY DEF IInv, TypeOK, Instance, IsRunning
  <1>5. \A w \in Workers : job[w].pc # "idle" =>
            job[w].key.name \in Docs /\ job[w].rev \in Nat /\ job[w].ver \in Nat
    BY WorkerHasJob DEF IInv, DocOf
  <1> QED
    BY <1>1, <1>2, <1>3, <1>4, <1>5 DEF Latest, RevisionsTyped

\* The last revision of a document only ever gets later.
LEMMA LatestGrows ==
    ASSUME IInv, Written, [Next]_vars
    PROVE  /\ \A d \in Docs : Latest(d) <= Latest(d)' /\ Latest(d) <= rev
           /\ ~(\E d \in Docs : BackendWrites(d) \/ BackendDeletes(d)) => UNCHANGED <<rev, spec>>
  <1>1. rev \in Nat /\ \A d \in Docs : spec[d] # NoDoc => spec[d].rev \in Nat /\ spec[d].rev <= rev
    BY RevisionTypes DEF Written, RevisionsTyped
  <1>2. ASSUME NEW d \in Docs, BackendWrites(d) \/ BackendDeletes(d)
        PROVE  \A e \in Docs : Latest(e) <= Latest(e)'
    <2>1. /\ \A e \in Docs \ {d} : spec'[e] = spec[e]
          /\ \/ rev' = rev + 1 /\ spec'[d].rev = rev + 1
             \/ rev' = rev /\ spec'[d] = NoDoc
      BY <1>2 DEF BackendWrites, BackendDeletes, WriteSpec, DeleteSpec, IInv, TypeOK
    <2> QED
      BY <1>1, <2>1 DEF Latest
  <1>3. ~(\E d \in Docs : BackendWrites(d) \/ BackendDeletes(d)) => UNCHANGED <<rev, spec>>
    BY DEF Next, TargetChanges, Informer, Resync, Cooldown, StartSync, Watch, ListTarget,
           WatchTarget, Tick, StartRead, FetchOld, Backoff, Manage, FetchSpec, StopInstance,
           StartInstance, Report, FetchStatus, CreateStatus, ReplaceStatus, WriteLost, Land,
           Crash, Start, storeVars, vars
  <1> QED
    BY <1>1, <1>2, <1>3 DEF Latest

\* The worker of an instance is on the instance's document.
LEMMA InstancesJob ==
    ASSUME IInv, NEW k \in Keys, job[k].pc # "idle"
    PROVE  IsRunning(k) /\ DocOf(job[k]) = k.name
  <1>1. IsRunning(k) /\ job[k].key = OwnKey(k)
    BY DEF IInv, InPlace, Idle
  <1> QED
    BY <1>1 DEF DocOf, OwnKey

\* The worker that is about to write a status may: no one else is to report about its
\* document, but an instance that would report the same and a sync with a later one.
LEMMA WriterMayReport ==
    ASSUME IInv, NEW home, ForgetInv(home), OrderInv, NEW w \in Workers,
           job[w].pc \in {"create", "replace"}
    PROVE  /\ DocOf(job[w]) \in Docs
           /\ MayReport(DocOf(job[w]), job[w].rev)
           /\ Observed(DocOf(job[w])) <= job[w].rev
           /\ job[w].pc = "replace" =>
                 /\ status[DocOf(job[w])] # NoDoc
                 /\ job[w].ver <= status[DocOf(job[w])].ver
  <1>1. job[w] \in Jobs /\ DocOf(job[w]) \in Docs /\ job[w].pc # "idle"
    BY WorkerHasJob DEF IInv
  <1>2. CASE w = Manager
    <2>1. ManagerBusy /\ ManagerReports
      BY <1>2 DEF ManagerBusy, ManagerReports, ManagerFetched, ForgetInv, ManagerInOrder
    <2>2. PICK m \in Keys : m = job[Manager].key /\ m.name = DocOf(job[Manager])
      BY <2>1, ManagersJob
    <2>3. ~IsRunning(m) /\ AtHome(home, m)
      BY <1>2, <2>1, <2>2 DEF ForgetInv, ManagerInOrder, Homed, Scheduled
    <2>4. \A k \in Keys : k.name = m.name => ~IsRunning(k)
      BY <2>3, OneKeyAtHome DEF ForgetInv, Homed
    <2>5. job[Manager].rev \in Nat
      BY <1>2, <2>1, RevisionTypes DEF RevisionsTyped, ManagerBusy
    <2> QED
      BY <1>1, <1>2, <2>1, <2>2, <2>4, <2>5
         DEF OrderInv, ReportersInOrder, ReportsInOrder, JobsInOrder, MayReport
  <1>3. CASE w # Manager
    <2>1. /\ w \in Keys /\ IsRunning(w) /\ DocOf(job[w]) = w.name
          /\ job[w].rev = running[w].rev
      BY <1>1, <1>3, InstancesJob, WorkersAssumption DEF OrderInv, JobsInOrder
    <2> QED
      BY <1>1, <2>1 DEF OrderInv, ReportersInOrder, ReportsInOrder, JobsInOrder, MayReport
  <1> QED
    BY <1>2, <1>3

\* So its request may be left on the wire.
LEMMA PendingMayReport ==
    ASSUME IInv, NEW home, ForgetInv(home), OrderInv, NEW w \in Workers, NEW r \in Pending(w)
    PROVE  MayReport(r.doc, r.body.observed) /\ FitsStatus(r)
  <1>1. /\ job[w].pc \in {"create", "replace"}
        /\ r.doc = DocOf(job[w]) /\ r.body = NewStatus(job[w])
        /\ job[w].pc = "create" => r.op = "create"
        /\ job[w].pc = "replace" => r.ver = job[w].ver
    BY DEF Pending, PendingWrite, CreateRequest, ReplaceRequest
  <1>2. r.body.observed = job[w].rev
    BY <1>1 DEF NewStatus
  <1> QED
    BY <1>1, <1>2, WriterMayReport DEF FitsStatus

-----------------------------------------------------------------------------
(***************************************************************************)
(* Who reports.  Most steps at most end a report; a sync of the manager    *)
(* that fetches its document, and the instance it starts, are new ones.    *)
(***************************************************************************)
\* What is to come after a step that is no one's new report.
NoNewReporter ==
    /\ \A k \in Keys : IsRunning(k)' => IsRunning(k) /\ running'[k].rev = running[k].rev
    /\ ManagerReports' =>
          /\ ManagerReports
          /\ job'[Manager].key = job[Manager].key /\ job'[Manager].rev = job[Manager].rev

\* What may be reported before a step may be after it.
MayStill == \A d \in Docs, r \in Nat : MayReport(d, r) => MayReport(d, r)'

LEMMA NoNewReporterKeeps ==
    ASSUME IInv, IInv', \A d \in Docs : Latest(d) <= Latest(d)', ReportersInOrder, NoNewReporter
    PROVE  MayStill /\ ReportersInOrder'
  <1>0. RevisionsTyped /\ RevisionsTyped'
    BY RevisionTypes, PTL
  <1>1. \A d \in Docs : Latest(d) \in Nat /\ Latest(d)' \in Nat
    BY <1>0 DEF RevisionsTyped
  <1>2. ManagerReports => DocOf(job[Manager]) \in Docs /\ job[Manager].rev \in Nat
    BY <1>0, ManagersJob DEF RevisionsTyped, ManagerReports, ManagerFetched, ManagerBusy
  <1>3. ManagerReports' => DocOf(job'[Manager]) = DocOf(job[Manager])
    BY DEF NoNewReporter, DocOf
  <1>4. MayStill
    <2> SUFFICES ASSUME NEW d \in Docs, NEW r \in Nat, MayReport(d, r)
                 PROVE  MayReport(d, r)'
      BY DEF MayStill
    <2>1. r <= Latest(d)'
      BY <1>1 DEF MayReport
    <2> QED
      BY <1>3, <2>1 DEF MayReport, NoNewReporter
  <1>5. \A k \in Keys : k.name \in Docs /\ (IsRunning(k) => running[k].rev \in Nat)
    BY <1>0, KeyNames DEF RevisionsTyped
  <1>6. \A k \in Keys : IsRunning(k)' => MayReport(k.name, running[k].rev)'
    BY <1>4, <1>5 DEF ReportersInOrder, NoNewReporter, MayStill
  <1>7. ManagerReports' => (job[Manager].rev <= Latest(DocOf(job[Manager])))'
    <2> SUFFICES ASSUME ManagerReports'
                 PROVE  (job[Manager].rev <= Latest(DocOf(job[Manager])))'
      OBVIOUS
    <2>1. PICK d \in Docs : d = DocOf(job[Manager]) /\ d = DocOf(job'[Manager])
      BY <1>2, <1>3 DEF NoNewReporter
    <2>2. job[Manager].rev <= Latest(d) /\ job'[Manager].rev = job[Manager].rev
      BY <2>1 DEF ReportersInOrder, NoNewReporter
    <2>3. job'[Manager].rev <= Latest(d)'
      BY <1>1, <1>2, <2>2 DEF NoNewReporter
    <2> QED
      BY <2>1, <2>3
  <1> QED
    BY <1>4, <1>6, <1>7 DEF ReportersInOrder, NoNewReporter

(***************************************************************************)
(* What is reported.  A status becomes later, a request comes from a       *)
(* worker that waited for it.                                              *)
(***************************************************************************)
\* A status that changes becomes a later one, in a later version.
LaterStatus(d) ==
    \/ status'[d] = status[d]
    \/ /\ status'[d] # NoDoc
       /\ status[d] # NoDoc => status'[d].ver > status[d].ver
       /\ MayReport(d, status'[d].body.observed)
       /\ Observed(d) <= status'[d].body.observed

ReportsMove ==
    /\ \A d \in Docs : LaterStatus(d)
    /\ \A r \in wire' : r \in wire \/ (MayReport(r.doc, r.body.observed) /\ FitsStatus(r))
    /\ \A k \in Keys : job'[k].pc # "idle" => job'[k].rev = running'[k].rev
    /\ \A w \in Workers : job'[w].pc = "replace" =>
          LET d == job'[w].key.name
          IN  status[d] # NoDoc /\ job'[w].ver <= status[d].ver

LEMMA ReportsMoveInOrder ==
    ASSUME IInv, IInv', OrderInv, MayStill, ReportersInOrder', ReportsMove
    PROVE  OrderInv'
  <1>1. RevisionsTyped
    BY RevisionTypes
  <1>2. RevisionsTyped'
    BY RevisionTypes, PTL
  <1>3. \A d \in Docs : MayReport(d, Observed(d))'
    <2> SUFFICES ASSUME NEW d \in Docs PROVE MayReport(d, Observed(d))'
      OBVIOUS
    <2>1. PICK n \in Nat : n = Observed(d)'
      BY <1>2 DEF RevisionsTyped
    <2>2. MayReport(d, n)
      <3>1. CASE status'[d] = status[d]
        BY <2>1, <3>1 DEF Observed, OrderInv, ReportsInOrder
      <3>2. CASE status'[d] # status[d]
        BY <2>1, <3>2 DEF Observed, ReportsMove, LaterStatus
      <3> QED
        BY <3>1, <3>2
    <2>3. MayReport(d, n)'
      BY <2>2 DEF MayStill
    <2> QED
      BY <2>1, <2>3 DEF MayReport
  <1>4. \A r \in wire' : MayReport(r.doc, r.body.observed)'
    <2> SUFFICES ASSUME NEW r \in wire' PROVE MayReport(r.doc, r.body.observed)'
      OBVIOUS
    <2>1. MayReport(r.doc, r.body.observed)
      BY DEF ReportsMove, OrderInv, ReportsInOrder
    <2> QED
      BY <1>2, <2>1 DEF RevisionsTyped, MayStill
  <1>5. \A d \in Docs : \/ status'[d] = status[d]
                        \/ /\ status'[d] # NoDoc
                           /\ status[d] # NoDoc => status'[d].ver > status[d].ver
    BY DEF ReportsMove, LaterStatus
  <1>6. JobsInOrder'
    BY <1>1, <1>2, <1>5 DEF RevisionsTyped, ReportsMove, JobsInOrder, DocOf
  <1>7. \A r \in wire' : FitsStatus(r)'
    <2> SUFFICES ASSUME NEW r \in wire', r.op = "replace" PROVE FitsStatus(r)'
      BY DEF FitsStatus
    <2>1. FitsStatus(r)
      BY DEF ReportsMove, OrderInv
    <2> QED
      BY <1>1, <1>2, <1>5, <2>1 DEF RevisionsTyped, FitsStatus, Observed
  <1> QED
    BY <1>3, <1>4, <1>6, <1>7 DEF OrderInv, ReportsInOrder

-----------------------------------------------------------------------------
\* A job that goes on has its revision and a version of the status.
JobInOrder(w) ==
    /\ w \in Keys /\ job'[w].pc # "idle" => job'[w].rev = running'[w].rev
    /\ job'[w].pc = "replace" =>
          LET d == job'[w].key.name
          IN  status[d] # NoDoc /\ job'[w].ver <= status[d].ver

\* Only the job of w moves, and no worker is at work for an instance that changes.
OneJobMoves(w) ==
    /\ \A x \in Workers \ {w} : job'[x] = job[x]
    /\ \A k \in Keys : job[k].pc # "idle" => running'[k].rev = running[k].rev
    /\ JobInOrder(w)

LEMMA OneJobInOrder ==
    ASSUME OrderInv, NEW w \in Workers, OneJobMoves(w)
    PROVE  \A x \in Workers : JobInOrder(x)
  <1> SUFFICES ASSUME NEW x \in Workers, x # w PROVE JobInOrder(x)
    BY DEF OneJobMoves
  <1> QED
    BY DEF OneJobMoves, JobInOrder, OrderInv, JobsInOrder, DocOf

LEMMA JobsMove ==
    ASSUME \A x \in Workers : JobInOrder(x), \A d \in Docs : LaterStatus(d),
           \A r \in wire' : r \in wire \/ (MayReport(r.doc, r.body.observed) /\ FitsStatus(r))
    PROVE  ReportsMove
  BY WorkersAssumption DEF ReportsMove, JobInOrder

LEMMA StatusesKept ==
    ASSUME status' = status
    PROVE  \A d \in Docs : LaterStatus(d)
  BY DEF LaterStatus

\* The sync of a manager reads the last revision, and what it starts is not earlier.
LEMMA ManagerReportsInOrder ==
    ASSUME IInv, IInv', NEW home, ForgetInv(home), OrderInv, FetchSpec \/ StartInstance
    PROVE  MayStill /\ ReportersInOrder' /\ ReportsMove
  <1>1. ManagerBusy /\ Manager \in Workers
    BY WorkersAssumption DEF FetchSpec, StartInstance, At, ManagerBusy
  <1>2. PICK m \in Keys : /\ m = job[Manager].key
                          /\ m.name = DocOf(job[Manager]) /\ m.name \in Docs
    BY <1>1, ManagersJob
  <1>3. /\ job[Manager] \in Jobs /\ job \in [Workers -> Jobs \cup {Idle}]
        /\ running \in [Keys -> Instance \cup {Stopped}]
    BY <1>1, ManagersJob DEF IInv, TypeOK
  <1>4. UNCHANGED <<rev, spec, status, wire>>
    BY DEF FetchSpec, StartInstance, storeVars, workerVarsButJob
  <1>5. RevisionsTyped
    BY RevisionTypes
  <1>6. \A d \in Docs : Latest(d)' = Latest(d) /\ Latest(d) \in Nat
    BY <1>4, <1>5 DEF Latest, RevisionsTyped
  <1>7. \A k \in Keys : k.name \in Docs
    BY KeyNames
  <1>8. CASE FetchSpec
    <2>1. running' = running
      BY <1>8 DEF FetchSpec
    <2>2. /\ \/ ~ManagerReports'
             \/ job'[Manager].rev = Latest(m.name) /\ DocOf(job'[Manager]) = m.name
          /\ job'[Manager].pc \in {"idle", "stop"}
      <3>1. CASE Goto(Manager, "stop")
        <4>1. job'[Manager].kind = job[Manager].kind /\ job'[Manager].pc = "stop"
          BY <1>1, <1>3, <3>1 DEF Goto, Jobs
        <4>2. job[Manager].kind = "none"
          BY <1>1, <1>8 DEF FetchSpec, At, ForgetInv, ManagerInOrder
        <4> QED
          BY <4>1, <4>2 DEF ManagerReports
      <3>2. CASE \E failed : Finish(Manager, failed)
        BY <1>1, <1>3, <3>2 DEF Finish, Idle, ManagerReports, ManagerFetched
      <3>3. CASE /\ spec[m.name] # NoDoc
                 /\ job' = [job EXCEPT ![Manager] =
                               [job[Manager] EXCEPT !.pc = "stop", !.rev = spec[m.name].rev,
                                                    !.kind = spec[m.name].kind]]
        BY <1>1, <1>2, <1>3, <3>3 DEF Jobs, Latest, DocOf
      <3> QED
        BY <1>2, <1>8, <3>1, <3>2, <3>3 DEF FetchSpec
    <2>3. MayStill
      <3> SUFFICES ASSUME NEW d \in Docs, NEW r \in Nat, MayReport(d, r)
                   PROVE  MayReport(d, r)'
        BY DEF MayStill
      <3> QED
        BY <1>6, <2>1, <2>2 DEF MayReport, IsRunning
    <2>4. ReportersInOrder'
      <3>1. \A k \in Keys : IsRunning(k)' => MayReport(k.name, running[k].rev)'
        <4> SUFFICES ASSUME NEW k \in Keys, IsRunning(k)
                     PROVE  MayReport(k.name, running[k].rev)'
          BY <2>1 DEF IsRunning
        <4>1. MayReport(k.name, running[k].rev) /\ running[k].rev \in Nat
          BY <1>5 DEF OrderInv, ReportersInOrder, RevisionsTyped
        <4> QED
          BY <1>7, <2>1, <2>3, <4>1 DEF MayStill
      <3>2. ManagerReports' => (job[Manager].rev <= Latest(DocOf(job[Manager])))'
        BY <1>2, <1>6, <2>2
      <3> QED
        BY <3>1, <3>2 DEF ReportersInOrder
    <2>5. OneJobMoves(Manager)
      <3>1. \A x \in Workers \ {Manager} : job'[x] = job[x]
        BY <1>3, <1>8 DEF FetchSpec, Goto, Finish
      <3> QED
        BY <2>1, <2>2, <3>1, ManagerAssumption DEF OneJobMoves, JobInOrder
    <2> QED
      BY <1>1, <1>4, <2>3, <2>4, <2>5, OneJobInOrder, StatusesKept, JobsMove
  <1>9. CASE StartInstance
    <2>1. job[Manager].pc = "start" /\ ~IsRunning(m)
      BY <1>1, <1>2, <1>9 DEF StartInstance, At, ForgetInv, ManagerInOrder
    <2>2. /\ \A k \in Keys : k # m => running'[k] = running[k]
          /\ IsRunning(m)' => ManagerReports /\ ~ManagerReports' /\ running'[m].rev = job[Manager].rev
          /\ ManagerReports' => /\ ManagerReports /\ job'[Manager].key = m
                                /\ job'[Manager].rev = job[Manager].rev
          /\ job'[Manager].pc # "replace"
          /\ \A x \in Workers \ {Manager} : job'[x] = job[x]
      <3>1. CASE Finish(Manager, FALSE) /\ UNCHANGED running
        BY <1>1, <1>3, <2>1, <3>1
           DEF Finish, Idle, IsRunning, ManagerReports, ManagerFetched
      <3>2. CASE /\ job[Manager].kind \in Targets /\ Finish(Manager, FALSE)
                 /\ running' = [running EXCEPT ![m] = [target |-> job[Manager].kind,
                                   rev |-> job[Manager].rev, synced |-> FALSE, store |-> NoContent]]
        <4>1. job[Manager].kind # "none"
          BY <3>2, KindsAssumption DEF Targets, SpecKinds
        <4>2. running'[m].rev = job[Manager].rev /\ \A k \in Keys : k # m => running'[k] = running[k]
          BY <1>3, <3>2
        <4>3. job' = [job EXCEPT ![Manager] = Idle]
          BY <3>2 DEF Finish
        <4> QED
          BY <1>1, <1>3, <2>1, <4>1, <4>2, <4>3 DEF Idle, ManagerReports, ManagerFetched
      <3>3. CASE /\ job' = [job EXCEPT ![Manager] =
                               [job[Manager] EXCEPT !.pc = "fetchStatus", !.err = "precheck"]]
                 /\ UNCHANGED running
        BY <1>1, <1>2, <1>3, <2>1, <3>3 DEF Jobs, IsRunning, ManagerReports, ManagerFetched
      <3> QED
        BY <1>2, <1>9, <3>1, <3>2, <3>3 DEF StartInstance
    <2>3. MayStill
      <3> SUFFICES ASSUME NEW d \in Docs, NEW r \in Nat, MayReport(d, r)
                   PROVE  MayReport(d, r)'
        BY DEF MayStill
      <3>1. \A k \in Keys : k # m => (IsRunning(k)' <=> IsRunning(k))
        BY <2>2 DEF IsRunning
      <3>2. ManagerReports' => DocOf(job'[Manager]) = DocOf(job[Manager])
        BY <1>2, <2>2 DEF DocOf
      <3> QED
        BY <1>2, <1>6, <2>2, <3>1, <3>2 DEF MayReport
    <2>4. ReportersInOrder'
      <3>1. ASSUME NEW k \in Keys, IsRunning(k)', k # m
            PROVE  MayReport(k.name, running[k].rev)'
        <4>1. IsRunning(k) /\ running'[k] = running[k]
          BY <2>2, <3>1 DEF IsRunning
        <4>2. MayReport(k.name, running[k].rev) /\ running[k].rev \in Nat
          BY <1>5, <4>1 DEF OrderInv, ReportersInOrder, RevisionsTyped
        <4> QED
          BY <1>7, <2>3, <4>1, <4>2 DEF MayStill
      <3>2. ASSUME IsRunning(m)' PROVE MayReport(m.name, running[m].rev)'
        <4>1. /\ ManagerReports /\ running'[m].rev = job[Manager].rev /\ ~ManagerReports'
              /\ job[Manager].rev <= Latest(m.name) /\ job[Manager].rev \in Nat
          BY <1>1, <1>2, <1>5, <2>2, <3>2
             DEF OrderInv, ReportersInOrder, RevisionsTyped, ManagerBusy
        <4>2. AtHome(home, m)
          BY <1>1, <1>2 DEF ForgetInv, ManagerInOrder, Homed, Scheduled
        <4>3. \A k \in Keys : k.name = m.name /\ k # m => ~IsRunning(k)'
          <5>1. \A k \in Keys : k.name = m.name /\ k # m => ~IsRunning(k)
            BY <4>2, OneKeyAtHome DEF ForgetInv, Homed
          <5> QED
            BY <2>2, <5>1 DEF IsRunning
        <4> QED
          BY <1>2, <1>6, <4>1, <4>3 DEF MayReport
      <3>3. ManagerReports' => (job[Manager].rev <= Latest(DocOf(job[Manager])))'
        <4> SUFFICES ASSUME ManagerReports'
                     PROVE  (job[Manager].rev <= Latest(DocOf(job[Manager])))'
          OBVIOUS
        <4>1. DocOf(job'[Manager]) = m.name
          BY <1>2, <2>2 DEF DocOf
        <4>2. job[Manager].rev <= Latest(m.name) /\ job'[Manager].rev = job[Manager].rev
          BY <1>2, <2>2 DEF OrderInv, ReportersInOrder
        <4> QED
          BY <1>2, <1>6, <4>1, <4>2
      <3> QED
        BY <3>1, <3>2, <3>3 DEF ReportersInOrder
    <2>5. OneJobMoves(Manager)
      <3>1. job[m].pc = "idle"
        BY <2>1, InstancesJob
      <3> QED
        BY <2>2, <3>1, ManagerAssumption DEF OneJobMoves, JobInOrder
    <2> QED
      BY <1>1, <1>4, <2>3, <2>4, <2>5, OneJobInOrder, StatusesKept, JobsMove
  <1> QED
    BY <1>8, <1>9

\* The calls that write a status, of the manager or of an instance.
LEMMA ReportInOrder ==
    ASSUME IInv, NEW home, ForgetInv(home), OrderInv, NEW w \in Workers, Report(w)
    PROVE  NoNewReporter /\ ReportsMove
  <1> DEFINE d == DocOf(job[w])
  <1>1. /\ UNCHANGED <<rev, spec, running>>
        /\ job[w].pc \in {"fetchStatus", "create", "replace"}
    BY DEF Report, FetchStatus, CreateStatus, ReplaceStatus, WriteLost, UpdateFetch,
           UpdateCreate, UpdateReplace, UpdateLost, At, readVars
  <1>2. /\ job[w] \in Jobs /\ d \in Docs /\ job \in [Workers -> Jobs \cup {Idle}]
        /\ status \in [Docs -> StatusDoc \cup {NoDoc}]
        /\ d = job[w].key.name
    BY <1>1, WorkerHasJob DEF IInv, TypeOK, DocOf
  <1>3. NewStatus(job[w]).observed = job[w].rev /\ NewStatus(job[w]) \in Bodies
    BY <1>2, NewStatusType DEF NewStatus, IInv
  <1>4. RevisionsTyped
    BY RevisionTypes
  <1>5. w \in Keys => job[w].rev = running[w].rev
    BY <1>1 DEF OrderInv, JobsInOrder
  <1>6. /\ \A x \in Workers \ {w} : job'[x] = job[x]
        /\ \/ job'[w].pc = "idle"
           \/ job'[w].key = job[w].key /\ job'[w].rev = job[w].rev /\ job'[w].pc = "create"
              /\ job'[w].kind = job[w].kind
           \/ job'[w].key = job[w].key /\ job'[w].rev = job[w].rev /\ job'[w].pc = "replace"
              /\ status[d] # NoDoc /\ job'[w].ver = status[d].ver
              /\ job'[w].kind = job[w].kind
    <2>1. CASE \E failed : Finish(w, failed)
      BY <1>2, <2>1 DEF Finish, Idle
    <2>2. CASE Goto(w, "create")
      BY <1>2, <2>2 DEF Goto, Jobs
    <2>3. CASE /\ status[d] # NoDoc
               /\ job' = [job EXCEPT ![w].pc = "replace", ![w].ver = status[d].ver]
      BY <1>2, <2>3 DEF Jobs
    <2> QED
      BY <2>1, <2>2, <2>3
         DEF Report, FetchStatus, CreateStatus, ReplaceStatus, WriteLost, UpdateFetch,
             UpdateCreate, UpdateReplace, UpdateLost
  <1>7. NoNewReporter
    <2>1. ManagerReports' =>
             /\ ManagerReports
             /\ job'[Manager].key = job[Manager].key /\ job'[Manager].rev = job[Manager].rev
      <3>1. CASE w = Manager
        BY <1>1, <1>6, <3>1 DEF ManagerReports, ManagerFetched
      <3>2. CASE w # Manager
        <4>1. job'[Manager] = job[Manager]
          BY <1>6, <3>2, WorkersAssumption
        <4> QED
          BY <4>1 DEF ManagerReports, ManagerFetched
      <3> QED
        BY <3>1, <3>2
    <2> QED
      BY <1>1, <2>1 DEF NoNewReporter, IsRunning
  <1>8. OneJobMoves(w)
    BY <1>1, <1>2, <1>4, <1>5, <1>6 DEF OneJobMoves, JobInOrder, RevisionsTyped
  <1>9. ASSUME NEW v \in Nat, Create(d, NewStatus(job[w])) \/ Replace(d, v, NewStatus(job[w])),
               job[w].pc \in {"create", "replace"}
        PROVE  \A e \in Docs : LaterStatus(e)
    <2>1. MayReport(d, job[w].rev) /\ Observed(d) <= job[w].rev
      BY <1>9, WriterMayReport
    <2>2. PICK n \in Nat : /\ status[d] # NoDoc => n > status[d].ver
                           /\ status' = [status EXCEPT ![d] = [ver |-> n, body |-> NewStatus(job[w])]]
      <3>1. CASE Create(d, NewStatus(job[w]))
        BY <3>1 DEF Create, CanCreate, WriteStatus
      <3>2. CASE Replace(d, v, NewStatus(job[w]))
        <4>1. status[d] # NoDoc
          BY <3>2 DEF Replace, CanReplace
        <4>2. status[d].ver \in Nat
          BY <1>2, <4>1 DEF StatusDoc
        <4>3. status' = [status EXCEPT ![d] = [ver |-> status[d].ver + 1, body |-> NewStatus(job[w])]]
          BY <3>2 DEF Replace, WriteStatus
        <4>4. status[d].ver + 1 \in Nat /\ status[d].ver + 1 > status[d].ver
          BY <4>2
        <4> QED
          BY <4>3, <4>4
      <3> QED
        BY <1>9, <3>1, <3>2
    <2>3. [ver |-> n, body |-> NewStatus(job[w])] # NoDoc
      BY <1>3, NoStatusAssumption DEF StatusDoc
    <2>4. /\ status'[d] # NoDoc /\ status'[d].ver = n /\ status'[d].body = NewStatus(job[w])
          /\ \A e \in Docs \ {d} : status'[e] = status[e]
      BY <1>2, <2>2, <2>3
    <2> QED
      BY <1>3, <2>1, <2>2, <2>4 DEF LaterStatus
  <1>10. CASE FetchStatus(w)
    <2>1. UNCHANGED <<status, wire>>
      BY <1>10 DEF FetchStatus, UpdateFetch
    <2> QED
      BY <1>7, <1>8, <2>1, OneJobInOrder, StatusesKept, JobsMove
  <1>11. CASE CreateStatus(w)
    <2>1. wire' = wire /\ (status' = status \/ Create(d, NewStatus(job[w])))
          /\ job[w].pc \in {"create", "replace"}
      BY <1>11 DEF CreateStatus, UpdateCreate, At
    <2>2. \A e \in Docs : LaterStatus(e)
      BY <1>9, <2>1, StatusesKept
    <2> QED
      BY <1>7, <1>8, <2>1, <2>2, OneJobInOrder, JobsMove
  <1>12. CASE ReplaceStatus(w)
    <2>1. /\ wire' = wire
          /\ status' = status \/ Replace(d, job[w].ver, NewStatus(job[w]))
          /\ job[w].pc \in {"create", "replace"} /\ job[w].ver \in Nat
      BY <1>2, <1>12 DEF ReplaceStatus, UpdateReplace, At, Jobs
    <2>2. \A e \in Docs : LaterStatus(e)
      BY <1>9, <2>1, StatusesKept
    <2> QED
      BY <1>7, <1>8, <2>1, <2>2, OneJobInOrder, JobsMove
  <1>13. CASE WriteLost(w)
    <2>1. status' = status /\ wire' = wire \cup Pending(w)
      BY <1>13 DEF WriteLost, UpdateLost, Pending
    <2>2. \A r \in wire' : r \in wire \/ (MayReport(r.doc, r.body.observed) /\ FitsStatus(r))
      BY <2>1, PendingMayReport
    <2> QED
      BY <1>7, <1>8, <2>1, <2>2, OneJobInOrder, StatusesKept, JobsMove
  <1> QED
    BY <1>10, <1>11, <1>12, <1>13 DEF Report

\* An instance that stops and a leader that dies leave requests behind, and a request
\* that lands had been waited for.
LEMMA LeftoversInOrder ==
    ASSUME IInv, NEW home, ForgetInv(home), OrderInv,
           StopInstance \/ Crash \/ (\E r \in wire : Land(r))
    PROVE  NoNewReporter /\ ReportsMove
  <1>1. CASE StopInstance
    <2>1. ManagerBusy /\ Manager \in Workers
      BY <1>1, WorkersAssumption DEF StopInstance, At, ManagerBusy
    <2>2. PICK m \in Keys : m = job[Manager].key /\ m \in Workers /\ m # Manager
      BY <2>1, ManagersJob, WorkersAssumption, ManagerAssumption
    <2>3. /\ status' = status /\ wire' = wire \cup Pending(m)
          /\ running' = [running EXCEPT ![m] = Stopped]
          /\ job' = [job EXCEPT ![m] = Idle, ![Manager] = [job[Manager] EXCEPT !.pc = "start"]]
          /\ job[Manager].pc = "stop"
      BY <1>1, <2>2 DEF StopInstance, Managed, storeVars, At
    <2>4. /\ job[Manager] \in Jobs /\ job \in [Workers -> Jobs \cup {Idle}]
          /\ running \in [Keys -> Instance \cup {Stopped}]
      BY <2>1, ManagersJob DEF IInv, TypeOK
    <2>5. /\ job'[m].pc = "idle" /\ job'[Manager].pc = "start"
          /\ job'[Manager].key = job[Manager].key /\ job'[Manager].rev = job[Manager].rev
          /\ job'[Manager].kind = job[Manager].kind
          /\ \A x \in Workers \ {m, Manager} : job'[x] = job[x]
      BY <2>1, <2>2, <2>3, <2>4 DEF Idle, Jobs
    <2>6. ~IsRunning(m)' /\ \A k \in Keys \ {m} : running'[k] = running[k]
      BY <2>3, <2>4 DEF IsRunning
    <2>7. NoNewReporter
      BY <2>3, <2>5, <2>6 DEF NoNewReporter, IsRunning, ManagerReports, ManagerFetched
    <2>8. \A x \in Workers : JobInOrder(x)
      BY <2>5, <2>6, ManagerAssumption DEF JobInOrder, OrderInv, JobsInOrder, DocOf
    <2>9. \A r \in wire' : r \in wire \/ (MayReport(r.doc, r.body.observed) /\ FitsStatus(r))
      BY <2>2, <2>3, PendingMayReport
    <2> QED
      BY <2>3, <2>7, <2>8, <2>9, StatusesKept, JobsMove
  <1>2. CASE Crash
    <2>1. /\ status' = status /\ wire' = wire \cup UNION {Pending(w) : w \in Workers}
          /\ \A k \in Keys : running'[k] = Stopped
          /\ \A w \in Workers : job'[w].pc = "idle"
      BY <1>2 DEF Crash, Die, Idle, storeVars
    <2>2. NoNewReporter
      BY <2>1, WorkersAssumption DEF NoNewReporter, IsRunning, ManagerReports, ManagerFetched
    <2>3. \A x \in Workers : JobInOrder(x)
      BY <2>1 DEF JobInOrder
    <2>4. \A r \in wire' : r \in wire \/ (MayReport(r.doc, r.body.observed) /\ FitsStatus(r))
      BY <2>1, PendingMayReport
    <2> QED
      BY <2>1, <2>2, <2>3, <2>4, StatusesKept, JobsMove
  <1>3. ASSUME NEW r \in wire, Land(r) PROVE NoNewReporter /\ ReportsMove
    <2>1. /\ UNCHANGED <<job, running>> /\ wire' \subseteq wire
      BY <1>3 DEF Land, readVars
    <2>2. RevisionsTyped /\ r \in Requests /\ status \in [Docs -> StatusDoc \cup {NoDoc}]
      BY RevisionTypes DEF IInv, TypeOK
    <2>3. r.doc \in Docs /\ r.body \in Bodies
      BY <2>2 DEF Requests, StatusRequests
    <2>4. NoNewReporter
      BY <2>1 DEF NoNewReporter, IsRunning, ManagerReports, ManagerFetched
    <2>5. \A x \in Workers : JobInOrder(x)
      BY <2>1 DEF JobInOrder, OrderInv, JobsInOrder, DocOf
    <2>6. PICK n \in Nat : /\ status[r.doc] # NoDoc => n > status[r.doc].ver
                           /\ status' = [status EXCEPT ![r.doc] = [ver |-> n, body |-> r.body]]
      <3>1. CASE Create(r.doc, r.body)
        BY <3>1 DEF Create, CanCreate, WriteStatus
      <3>2. CASE Replace(r.doc, r.ver, r.body)
        <4>1. status[r.doc] # NoDoc
          BY <3>2 DEF Replace, CanReplace
        <4>2. status[r.doc].ver \in Nat
          BY <2>2, <2>3, <4>1 DEF StatusDoc
        <4>3. status' = [status EXCEPT ![r.doc] = [ver |-> status[r.doc].ver + 1, body |-> r.body]]
          BY <3>2 DEF Replace, WriteStatus
        <4>4. status[r.doc].ver + 1 \in Nat /\ status[r.doc].ver + 1 > status[r.doc].ver
          BY <4>2
        <4> QED
          BY <4>3, <4>4
      <3> QED
        BY <1>3, <3>1, <3>2 DEF Land, LateStatus
    <2>7. [ver |-> n, body |-> r.body] # NoDoc
      BY <2>3, NoStatusAssumption DEF StatusDoc
    <2>8. /\ status'[r.doc] # NoDoc /\ status'[r.doc].ver = n /\ status'[r.doc].body = r.body
          /\ \A e \in Docs \ {r.doc} : status'[e] = status[e]
      BY <2>2, <2>3, <2>6, <2>7
    <2>9. MayReport(r.doc, r.body.observed)
      BY DEF OrderInv, ReportsInOrder
    <2>10. Observed(r.doc) <= r.body.observed
      <3>1. CASE r.op = "create"
        BY <1>3, <2>2, <3>1
           DEF Land, LateStatus, Create, CanCreate, Observed, RevisionsTyped
      <3>2. CASE r.op = "replace"
        BY <1>3, <3>2 DEF Land, LateStatus, Replace, CanReplace, OrderInv, FitsStatus
      <3> QED
        BY <1>3, <3>1, <3>2 DEF Land, LateStatus
    <2>11. \A e \in Docs : LaterStatus(e)
      BY <2>6, <2>8, <2>9, <2>10 DEF LaterStatus
    <2> QED
      BY <2>1, <2>4, <2>5, <2>11, JobsMove
  <1> QED
    BY <1>1, <1>2, <1>3
\* The other steps change neither who reports what nor what is reported.
LEMMA OthersInOrder ==
    ASSUME IInv, OrderInv,
           \/ \E d \in Docs : BackendWrites(d) \/ BackendDeletes(d) \/ Informer(d) \/ Resync(d)
           \/ \E t \in Targets : TargetChanges(t)
           \/ \E k \in Keys : \/ Cooldown(k) \/ StartSync(k)
                              \/ Watch(k) \/ Tick(k) \/ StartRead(k) \/ FetchOld(k)
           \/ \E k \in Keys \cup OwnKeys : Backoff(k)
           \/ Start
           \/ UNCHANGED vars
    PROVE  NoNewReporter /\ ReportsMove
  <1>1. UNCHANGED <<status, wire>>
    BY DEF BackendWrites, BackendDeletes, Informer, Resync, TargetChanges, Cooldown, StartSync,
           Watch, ListTarget, WatchTarget, Tick, StartRead, FetchOld, Backoff, Start, WriteSpec,
           DeleteSpec, Take, Lead, storeVars, workerVars, vars
  <1>2. /\ job \in [Workers -> Jobs \cup {Idle}] /\ running \in [Keys -> Instance \cup {Stopped}]
        /\ Manager \in Workers /\ Keys \subseteq Workers /\ Manager \notin Keys
    BY WorkersAssumption, ManagerAssumption DEF IInv, TypeOK
  <1>3. ASSUME UNCHANGED <<job, running>>
        PROVE  NoNewReporter /\ \A x \in Workers : JobInOrder(x)
    BY <1>3 DEF NoNewReporter, IsRunning, ManagerReports, ManagerFetched, JobInOrder,
                OrderInv, JobsInOrder, DocOf
  <1>4. ASSUME NEW k \in Keys, StartSync(k) PROVE NoNewReporter /\ \A x \in Workers : JobInOrder(x)
    <2>1. /\ running' = running /\ job'[Manager].pc = "fetchSpec"
          /\ \A x \in Workers \ {Manager} : job'[x] = job[x]
      BY <1>2, <1>4 DEF StartSync, Take, NewJob, readVars
    <2>2. NoNewReporter
      BY <2>1 DEF NoNewReporter, IsRunning, ManagerReports, ManagerFetched
    <2>3. OneJobMoves(Manager)
      BY <1>2, <2>1 DEF OneJobMoves, JobInOrder
    <2> QED
      BY <1>2, <2>2, <2>3, OneJobInOrder
  <1>5. ASSUME NEW k \in Keys, Watch(k) PROVE NoNewReporter /\ \A x \in Workers : JobInOrder(x)
    <2>1. /\ job' = job /\ IsRunning(k) /\ \A e \in Keys \ {k} : running'[e] = running[e]
          /\ running'[k].rev = running[k].rev
      <3>1. IsRunning(k) /\ job' = job
        BY <1>5 DEF Watch, ListTarget, WatchTarget, workerVars
      <3>2. running[k] \in Instance
        BY <1>2, <3>1 DEF IsRunning
      <3> QED
        BY <1>2, <1>5, <3>1, <3>2 DEF Watch, ListTarget, WatchTarget, Instance
    <2> QED
      BY <2>1 DEF NoNewReporter, IsRunning, ManagerReports, ManagerFetched, JobInOrder,
                  OrderInv, JobsInOrder, DocOf
  <1>6. ASSUME NEW k \in Keys, StartRead(k) \/ FetchOld(k)
        PROVE  NoNewReporter /\ \A x \in Workers : JobInOrder(x)
    <2>1. /\ running' = running /\ \A x \in Workers \ {k} : job'[x] = job[x]
          /\ job'[k].pc # "idle" => job'[k].rev = running[k].rev
          /\ job'[k].pc # "replace"
      <3>1. CASE StartRead(k)
        BY <1>2, <3>1 DEF StartRead, Take, NewJob, readVars
      <3>2. CASE FetchOld(k)
        <4>1. job[k] \in Jobs /\ job[k].rev = running[k].rev /\ running' = running
          BY <1>2, <3>2, WorkerHasJob DEF FetchOld, At, OrderInv, JobsInOrder, IInv, readVars
        <4>2. CASE Finish(k, TRUE)
          BY <1>2, <4>1, <4>2 DEF Finish, Idle
        <4>3. CASE job' = [job EXCEPT ![k] =
                             [job[k] EXCEPT !.pc = "fetchStatus",
                                            !.content = running[k].store,
                                            !.rewrite = running[k].store # Content(k.name)]]
          BY <1>2, <4>1, <4>3 DEF Jobs
        <4> QED
          BY <3>2, <4>1, <4>2, <4>3 DEF FetchOld
      <3> QED
        BY <1>6, <3>1, <3>2
    <2>2. job'[Manager] = job[Manager]
      BY <1>2, <2>1
    <2>3. NoNewReporter
      BY <2>1, <2>2 DEF NoNewReporter, IsRunning, ManagerReports, ManagerFetched
    <2>4. OneJobMoves(k)
      BY <1>2, <2>1 DEF OneJobMoves, JobInOrder
    <2> QED
      BY <1>2, <2>3, <2>4, OneJobInOrder
  <1>7. NoNewReporter /\ \A x \in Workers : JobInOrder(x)
    <2>1. \/ UNCHANGED <<job, running>>
          \/ \E k \in Keys : StartSync(k) \/ Watch(k) \/ StartRead(k) \/ FetchOld(k)
      BY DEF BackendWrites, BackendDeletes, Informer, Resync, TargetChanges, Cooldown, Tick,
             Backoff, Start, Lead, readVars, workerVars, vars
    <2> QED
      BY <1>3, <1>4, <1>5, <1>6, <2>1
  <1> QED
    BY <1>1, <1>7, StatusesKept, JobsMove

\* What every step does to the revisions.
LEMMA StepInOrder ==
    ASSUME IInv, IInv', NEW home, ForgetInv(home), OrderInv, [Next]_vars
    PROVE  MayStill /\ ReportersInOrder' /\ ReportsMove
  <1>1. CASE FetchSpec \/ StartInstance
    BY <1>1, ManagerReportsInOrder
  <1>2. NoNewReporter /\ ReportsMove => MayStill /\ ReportersInOrder'
    BY LatestGrows, NoNewReporterKeeps DEF ForgetInv, OrderInv
  <1>3. ASSUME NEW w \in Workers, Report(w) PROVE NoNewReporter /\ ReportsMove
    BY <1>3, ReportInOrder
  <1>4. CASE StopInstance \/ Crash \/ (\E r \in wire : Land(r))
    BY <1>2, <1>4, LeftoversInOrder
  <1>5. CASE \/ \E d \in Docs : BackendWrites(d) \/ BackendDeletes(d) \/ Informer(d) \/ Resync(d)
             \/ \E t \in Targets : TargetChanges(t)
             \/ \E k \in Keys : \/ Cooldown(k) \/ StartSync(k)
                                \/ Watch(k) \/ Tick(k) \/ StartRead(k) \/ FetchOld(k)
             \/ \E k \in Keys \cup OwnKeys : Backoff(k)
             \/ Start
             \/ UNCHANGED vars
    BY <1>2, <1>5, OthersInOrder
  <1> QED
    BY <1>1, <1>2, <1>3, <1>4, <1>5 DEF Next, Manage

-----------------------------------------------------------------------------
(***************************************************************************)
(* The refinement of DesireProgress.                                       *)
(***************************************************************************)
\* A step writes at most one status, and none that writes a status touches a spec.
LEMMA OneStatusChanges ==
    ASSUME IInv, [Next]_vars, NEW d \in Docs, status'[d] # status[d]
    PROVE  /\ UNCHANGED <<rev, spec>>
           /\ status' = [status EXCEPT ![d] = status'[d]]
  <1>1. status \in [Docs -> StatusDoc \cup {NoDoc}]
    BY DEF IInv, TypeOK
  <1>2. \/ \E w \in Workers : CreateStatus(w) \/ ReplaceStatus(w)
        \/ \E r \in wire : Land(r)
    BY DEF Next, BackendWrites, BackendDeletes, Informer, Resync, TargetChanges, Cooldown,
           StartSync, Watch, ListTarget, WatchTarget, Tick, StartRead, FetchOld, Backoff, Manage,
           FetchSpec, StopInstance, StartInstance, Report, FetchStatus, WriteLost, UpdateFetch,
           UpdateLost, Crash, Start, WriteSpec, DeleteSpec, storeVars, vars
  <1>3. UNCHANGED <<rev, spec>>
    BY <1>2 DEF CreateStatus, ReplaceStatus, Land
  <1>4. \E e, b : status' = [status EXCEPT ![e] = b]
    BY <1>2 DEF CreateStatus, ReplaceStatus, UpdateCreate, UpdateReplace, Land, LateStatus,
                Create, Replace, WriteStatus
  <1> QED
    BY <1>1, <1>3, <1>4

LEMMA ProgressStep ==
    ASSUME IInv, IInv', NEW home, ForgetInv(home), OrderInv, ReportsMove, [Next]_vars
    PROVE  [Progress!Next]_(Progress!vars)
  <1> DEFINE wanted == [d \in Docs |-> IF spec[d] = NoDoc THEN 0 ELSE spec[d].rev]
             observed ==
                [d \in Docs |-> IF status[d] = NoDoc THEN 0 ELSE status[d].body.observed]
  <1>1. ASSUME NEW d \in Docs, BackendWrites(d) \/ BackendDeletes(d) PROVE Progress!Next
    <2>1. observed' = observed
      BY <1>1 DEF BackendWrites, BackendDeletes, WriteSpec, DeleteSpec
    <2>2. ASSUME NEW kind \in Kinds, NEW scope \in Scopes, WriteSpec(d, kind, scope)
          PROVE  Progress!Write(d)
      <3>1. /\ rev' = rev + 1 /\ rev + 1 \in Nat \ {0}
            /\ spec' = [spec EXCEPT ![d] = [rev |-> rev + 1, kind |-> kind, scope |-> scope]]
        BY <2>2 DEF WriteSpec, IInv, TypeOK
      <3>2. [rev |-> rev + 1, kind |-> kind, scope |-> scope] # NoDoc
        BY <3>1, NoDocAssumption DEF SpecDoc
      <3>3. wanted' = [wanted EXCEPT ![d] = rev + 1]
        BY <3>1, <3>2 DEF IInv, TypeOK
      <3> QED
        BY <2>1, <3>1, <3>3 DEF Progress!Write
    <2>3. ASSUME DeleteSpec(d) PROVE Progress!Delete(d)
      <3>1. wanted' = [wanted EXCEPT ![d] = 0]
        BY <2>3 DEF DeleteSpec, IInv, TypeOK
      <3> QED
        BY <2>1, <2>3, <3>1 DEF DeleteSpec, Progress!Delete
    <2> QED
      BY <1>1, <2>2, <2>3 DEF BackendWrites, BackendDeletes, Progress!Next
  <1>2. ASSUME NEW d \in Docs, status'[d] # status[d] PROVE Progress!Next
    <2>1. /\ UNCHANGED <<rev, spec>>
          /\ status' = [status EXCEPT ![d] = status'[d]]
      BY <1>2, OneStatusChanges
    <2>2. /\ status'[d] # NoDoc
          /\ MayReport(d, status'[d].body.observed)
          /\ Observed(d) <= status'[d].body.observed
      BY <1>2 DEF ReportsMove, LaterStatus
    <2>3. Observed(d) = observed[d] /\ observed[d] \in Nat
      BY RevisionTypes DEF RevisionsTyped, Observed
    <2>4. status'[d].body.observed \in Nat
      <3>1. RevisionsTyped'
        BY RevisionTypes, PTL
      <3> QED
        BY <2>2, <3>1 DEF RevisionsTyped, Observed
    <2>5. Latest(d) \in Nat /\ rev \in Nat /\ Latest(d) <= rev
      BY RevisionTypes, LatestGrows DEF RevisionsTyped, ForgetInv
    <2>6. status'[d].body.observed \in observed[d] .. rev
      BY <2>2, <2>3, <2>4, <2>5 DEF MayReport
    <2>7. observed' = [observed EXCEPT ![d] = status'[d].body.observed]
      <3>1. status \in [Docs -> StatusDoc \cup {NoDoc}]
        BY DEF IInv, TypeOK
      <3>2. \A e \in Docs : e # d => status'[e] = status[e]
        BY <2>1, <3>1
      <3> QED
        BY <2>2, <3>2
    <2>8. wanted' = wanted
      BY <2>1
    <2> QED
      BY <2>1, <2>6, <2>7, <2>8 DEF Progress!Report, Progress!Next
  <1>3. ASSUME \A d \in Docs : status'[d] = status[d], UNCHANGED <<rev, spec>>
        PROVE  UNCHANGED Progress!vars
    BY <1>3 DEF Progress!vars
  <1> QED
    BY <1>1, <1>2, <1>3, LatestGrows DEF ForgetInv

\* While every document stays in its scope, the revision a status reports never goes
\* back and is never ahead of the document, whoever reports it: instances built for an
\* earlier revision, the manager that replaces them, their late requests, a new leader.
THEOREM ImplementsProgress ==
    ASSUME NEW home
    PROVE  Spec /\ []InScope(home) => Progresses
<1>1. Init => Progress!Init
  BY DEF Init, StoreInit, Progress!Init
<1>2. IInv /\ Init => OrderInv
  <2> SUFFICES ASSUME IInv, Init PROVE OrderInv
    OBVIOUS
  <2>1. /\ \A d \in Docs : status[d] = NoDoc
        /\ wire = {} /\ job = [w \in Workers |-> Idle] /\ Manager \in Workers
        /\ \A k \in Keys : running[k] = Stopped /\ k \in Workers
    BY WorkersAssumption DEF Init, StoreInit, WorkerInit
  <2>2. \A w \in Workers : job[w].pc = "idle"
    BY <2>1 DEF Idle
  <2>3. ~ManagerReports /\ \A k \in Keys : ~IsRunning(k)
    BY <2>1, <2>2 DEF ManagerReports, ManagerFetched, IsRunning
  <2>4. \A d \in Docs : Observed(d) = 0 /\ 0 <= Latest(d)
    <3> SUFFICES ASSUME NEW d \in Docs PROVE Observed(d) = 0 /\ 0 <= Latest(d)
      OBVIOUS
    <3>1. Latest(d) \in Nat
      BY RevisionTypes DEF RevisionsTyped
    <3>2. Observed(d) = 0
      BY <2>1 DEF Observed
    <3>3. 0 <= Latest(d)
      BY <3>1
    <3> QED
      BY <3>2, <3>3
  <2> QED
    BY <2>1, <2>2, <2>3, <2>4
       DEF OrderInv, ReportersInOrder, ReportsInOrder, JobsInOrder, MayReport
<1>3. IInv /\ IInv' /\ ForgetInv(home) /\ OrderInv /\ [Next]_vars
      => OrderInv' /\ [Progress!Next]_(Progress!vars)
  BY StepInOrder, ReportsMoveInOrder, ProgressStep
<1> QED
  BY <1>1, <1>2, <1>3, WorkersInPlace, ForgetInvHolds, PTL DEF Spec, Progresses, Progress!Spec
=============================================================================
