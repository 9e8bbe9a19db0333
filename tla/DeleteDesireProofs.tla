------------------------- MODULE DeleteDesireProofs -------------------------
(***************************************************************************)
(* Theorems about DeleteDesire, for every set of documents, scopes and     *)
(* workers and every bound.                                                *)
(***************************************************************************)
EXTENDS DeleteDesire, DesireSyncProofs

(***************************************************************************)
(* What the steps are built from.                                          *)
(***************************************************************************)
\* The status a job writes is well formed.
LEMMA NewStatusType ==
    ASSUME NEW j \in Jobs
    PROVE  NewStatus(j) \in Bodies
  <1>1. SetConditions(j.err) \in Conditions
    BY ConditionsType DEF Jobs
  <1>2. WaitingForDeletion \in Conditions
    BY DEF WaitingForDeletion, Conditions, Reasons
  <1> QED
    BY <1>1, <1>2 DEF Jobs, NewStatus, Bodies

\* A worker away from the idle loop has a job.
LEMMA WorkerHasJob ==
    ASSUME TypeOK, NEW w \in Workers, job[w].pc # "idle"
    PROVE  /\ job[w] \in Jobs
           /\ DocOf(job[w]) \in Docs
           /\ job[w].key \in Keys /\ job[w].rev \in Nat /\ job[w].ver \in Nat
  BY DEF TypeOK, Idle, Jobs, Keys, DocOf

\* Only workers with a job take the steps of SyncOnce.
LEMMA WorkMeansJob ==
    ASSUME NEW w, Work(w)
    PROVE  job[w].pc # "idle"
  BY DEF Work, FetchSpec, GetTarget, DeleteTarget, PostGet, DeleteLost, FetchStatus,
         CreateStatus, ReplaceStatus, WriteLost, UpdateFetch, UpdateCreate,
         UpdateReplace, UpdateLost, At

\* The status write a worker gives up on is what its job was waiting on.
LEMMA LostWrite ==
    ASSUME NEW w \in Workers, WriteLost(w)
    PROVE  wire' = wire \cup Pending(job[w])
  BY DEF WriteLost, UpdateLost, At, Pending, PendingWrite

\* What a job leaves on the wire is a request.
LEMMA PendingType ==
    ASSUME TypeOK, NEW w \in Workers
    PROVE  Pending(job[w]) \subseteq Requests
  <1>1. CASE job[w].pc = "idle"
    BY <1>1 DEF Pending, PendingWrite
  <1>2. CASE job[w].pc # "idle"
    <2>1. DocOf(job[w]) \in Docs /\ job[w].ver \in Nat /\ NewStatus(job[w]) \in Bodies
      BY <1>2, WorkerHasJob, NewStatusType
    <2>2. PendingWrite(job[w], NewStatus(job[w])) \subseteq StatusRequests(Bodies)
      BY <2>1, PendingWriteType
    <2> QED
      BY <2>1, <2>2 DEF Pending, Requests, DeleteRequest
  <1> QED
    BY <1>1, <1>2

\* The apiserver leaves a well-formed object, which it either removed or kept.
LEMMA ExecuteDeleteType ==
    ASSUME TypeOK, NEW d \in Docs, ExecuteDelete(d)
    PROVE  /\ object' \in [Docs -> Objects]
           /\ Exists(d)
           /\ object'[d].born = object[d].born /\ object'[d].uid = object[d].uid
           /\ \A e \in Docs \ {d} : object'[e] = object[e]
  <1>1. object[d] \in Objects /\ object[d].uid \in Nat
    BY DEF TypeOK, Objects
  <1>2. PICK p \in {"absent", "live", "terminating"} : object' = [object EXCEPT ![d].phase = p]
    BY <1>1 DEF ExecuteDelete, Objects
  <1>3. object' = [object EXCEPT ![d] = [object[d] EXCEPT !.phase = p]]
    BY <1>2
  <1>4. [object[d] EXCEPT !.phase = p] \in Objects
        /\ [object[d] EXCEPT !.phase = p].born = object[d].born
        /\ [object[d] EXCEPT !.phase = p].uid = object[d].uid
    BY <1>1 DEF Objects
  <1> QED
    BY <1>1, <1>3, <1>4 DEF TypeOK, ExecuteDelete

-----------------------------------------------------------------------------
(***************************************************************************)
(* Type correctness.                                                       *)
(***************************************************************************)
\* Every variable keeps its type: the invariant the other proofs start from.
THEOREM TypeCorrect == Spec => []TypeOK
<1> USE DEF storeVars, queueVars, feedVars, workerVars, workerVarsButJob
<1>1. Init => TypeOK
  BY DEF Init, TypeOK, StoreInit, QueueInit, FeedInit, WorkerInit, FeedTypeOK,
         QueueTypeOK, WorkerTypeOK, Objects
<1>2. TypeOK /\ [Next]_vars => TypeOK'
  <2> SUFFICES ASSUME TypeOK, [Next]_vars
               PROVE  TypeOK'
    OBVIOUS
  <2> USE DEF TypeOK, FeedTypeOK, QueueTypeOK, WorkerTypeOK
  <2>1. ASSUME NEW d \in Docs, BackendWrites(d) PROVE TypeOK'
    BY <2>1 DEF BackendWrites, WriteSpec, SpecDoc
  <2>2. ASSUME NEW d \in Docs, BackendDeletes(d) PROVE TypeOK'
    BY <2>2 DEF BackendDeletes, DeleteSpec
  <2>3. ASSUME NEW d \in Docs, Recreate(d) PROVE TypeOK'
    <3>1. [uid |-> object[d].uid + 1, phase |-> "live", born |-> rev] \in Objects
      BY DEF Objects
    <3> QED
      BY <2>3, <3>1, FaultType DEF Recreate
  <2>4. ASSUME NEW d \in Docs, Removed(d) PROVE TypeOK'
    BY <2>4, ExecuteDeleteType, FaultType DEF Removed
  <2>5. ASSUME NEW d \in Docs, FinalizersDone(d) PROVE TypeOK'
    <3>1. object' = [object EXCEPT ![d] = [object[d] EXCEPT !.phase = "absent"]]
      BY <2>5 DEF FinalizersDone
    <3>2. [object[d] EXCEPT !.phase = "absent"] \in Objects
      BY DEF Objects
    <3> QED
      BY <2>5, <3>1, <3>2 DEF FinalizersDone
  <2>6. ASSUME NEW d \in Docs, Informer(d) PROVE TypeOK'
    BY <2>6 DEF Informer, HandleChange, DropDeleted, Add, KeyOf, Keys, SpecDoc
  <2>7. ASSUME NEW d \in Docs, Resync(d) PROVE TypeOK'
    BY <2>7 DEF Resync, HandleResync, Add, KeyOf, Keys, SpecDoc
  <2>8. ASSUME NEW k \in Keys, Cooldown(k) \/ Backoff(k) PROVE TypeOK'
    BY <2>8 DEF Cooldown, CooldownOver, Backoff, RetryDue, Add
  <2>9. ASSUME NEW w \in Workers, NEW k \in Keys, StartSync(w, k) PROVE TypeOK'
    BY <2>9 DEF StartSync, Take, Get, NewJob, Jobs, SpecKinds, Errors
  <2>10. ASSUME NEW w \in Workers, Work(w) PROVE TypeOK'
    <3> DEFINE j == job[w]
               d == DocOf(j)
    <3>1. j \in Jobs /\ d \in Docs /\ j.key \in Keys /\ j.ver \in Nat
      BY <2>10, WorkMeansJob, WorkerHasJob
    <3>2. NewStatus(j) \in Bodies
      BY <3>1, NewStatusType
    <3>3. Pending(j) \subseteq Requests
      BY PendingType
    <3>4. ASSUME NEW failed, Finish(w, failed)
          PROVE  job' \in [Workers -> Jobs \cup {Idle}] /\ QueueTypeOK(Keys)'
      <4>1. job \in [Workers -> Jobs \cup {Idle}] /\ Idle \in Jobs \cup {Idle}
            /\ QueueTypeOK(Keys) /\ job[w].key \in Keys
        BY <3>1
      <4> HIDE DEF TypeOK, QueueTypeOK
      <4> QED
        BY <3>4, <4>1, FinishType
    <3>5. ASSUME NEW err \in Errors, NEW uid \in Nat, Report(w, err, uid)
          PROVE  job' \in [Workers -> Jobs \cup {Idle}] /\ QueueTypeOK(Keys)'
      <4>1. job' = [job EXCEPT ![w] =
                       [j EXCEPT !.pc = "fetchStatus", !.err = err, !.waiting = uid]]
        BY <3>5 DEF Report
      <4>2. [j EXCEPT !.pc = "fetchStatus", !.err = err, !.waiting = uid] \in Jobs
        BY <3>1 DEF Jobs
      <4> QED
        BY <3>5, <4>1, <4>2 DEF Report
    <3>6. ASSUME NEW pc \in {"delete", "postGet", "create"}, Goto(w, pc)
          PROVE  job' \in [Workers -> Jobs \cup {Idle}] /\ QueueTypeOK(Keys)'
      <4>1. job' = [job EXCEPT ![w] = [j EXCEPT !.pc = pc]]
        BY <3>6 DEF Goto
      <4>2. [j EXCEPT !.pc = pc] \in Jobs
        BY <3>1 DEF Jobs
      <4> QED
        BY <3>6, <4>1, <4>2 DEF Goto
    <3>7. "none" \in Errors /\ "client" \in Errors /\ "server" \in Errors /\ 0 \in Nat
          /\ object[d].uid \in Nat
      BY <3>1 DEF Errors, Objects
    <3>8. CASE FetchSpec(w)
      <4>1. job' \in [Workers -> Jobs \cup {Idle}] /\ QueueTypeOK(Keys)' /\ faults' \in Nat
        <5> DEFINE doc == spec[d]
                   next == [j EXCEPT
                       !.pc = IF doc.kind = "malformed" THEN "fetchStatus" ELSE "get",
                       !.err = IF doc.kind = "malformed" THEN "precheck" ELSE "none",
                       !.rev = doc.rev, !.kind = doc.kind]
        <5>1. CASE doc # NoDoc /\ job' = [job EXCEPT ![w] = next]
                   /\ UNCHANGED <<queueVars, faults>>
          <6>1. doc.kind \in SpecKinds /\ doc.rev \in Nat
            BY <3>1, <5>1, KindsAssumption DEF SpecDoc
          <6>2. next \in Jobs
            BY <3>1, <6>1 DEF Jobs, Errors
          <6> HIDE DEF next
          <6> QED
            BY <5>1, <6>2
        <5>2. CASE Finish(w, FALSE) /\ UNCHANGED faults
          BY <3>4, <5>2
        <5>3. CASE Fault /\ Finish(w, TRUE)
          BY <3>4, <5>3, FaultType
        <5> QED
          BY <3>8, <5>1, <5>2, <5>3 DEF FetchSpec
      <4> QED
        BY <3>8, <4>1 DEF FetchSpec
    <3>9. ASSUME GetFails(w)
          PROVE  job' \in [Workers -> Jobs \cup {Idle}] /\ QueueTypeOK(Keys)' /\ faults' \in Nat
      BY <3>5, <3>7, <3>9, FaultType DEF GetFails
    <3>10. CASE GetTarget(w)
      <4>1. job' \in [Workers -> Jobs \cup {Idle}] /\ QueueTypeOK(Keys)' /\ faults' \in Nat
        BY <3>5, <3>6, <3>7, <3>9, <3>10 DEF GetTarget
      <4> QED
        BY <3>10, <4>1 DEF GetTarget
    <3>11. CASE DeleteTarget(w)
      <4>1. job' \in [Workers -> Jobs \cup {Idle}] /\ QueueTypeOK(Keys)'
        BY <3>5, <3>6, <3>7, <3>11 DEF DeleteTarget
      <4>2. object' \in [Docs -> Objects]
        BY <3>1, <3>11, ExecuteDeleteType DEF DeleteTarget
      <4> QED
        BY <3>11, <4>1, <4>2 DEF DeleteTarget
    <3>12. CASE PostGet(w)
      <4>1. job' \in [Workers -> Jobs \cup {Idle}] /\ QueueTypeOK(Keys)' /\ faults' \in Nat
        BY <3>5, <3>7, <3>9, <3>12 DEF PostGet
      <4> QED
        BY <3>12, <4>1 DEF PostGet
    <3>13. CASE DeleteLost(w)
      <4>1. job' \in [Workers -> Jobs \cup {Idle}] /\ QueueTypeOK(Keys)'
        BY <3>5, <3>7, <3>13 DEF DeleteLost
      <4> QED
        BY <3>3, <3>13, <4>1, FaultType DEF DeleteLost
    <3>14. CASE FetchStatus(w)
      <4>1. job' \in [Workers -> Jobs \cup {Idle}] /\ QueueTypeOK(Keys)'
        <5> DEFINE next == [j EXCEPT !.pc = "replace", !.ver = status[d].ver]
        <5>1. CASE Goto(w, "create")
          BY <3>6, <5>1
        <5>2. CASE status[d] # NoDoc /\ job' = [job EXCEPT ![w] = next]
                   /\ UNCHANGED queueVars
          <6>1. next \in Jobs
            BY <3>1, <5>2 DEF Jobs, StatusDoc
          <6> HIDE DEF next
          <6> QED
            BY <5>2, <6>1
        <5>3. CASE \E failed : Finish(w, failed)
          BY <3>4, <5>3
        <5> QED
          BY <3>14, <5>1, <5>2, <5>3 DEF FetchStatus, UpdateFetch
      <4>2. swallowed' \subseteq Docs /\ landed' \subseteq Docs /\ faults' \in Nat
        BY <3>14, FaultType DEF FetchStatus, UpdateFetch, Seen
      <4> QED
        BY <3>14, <4>1, <4>2 DEF FetchStatus, UpdateFetch
    <3>15. CASE CreateStatus(w)
      <4>1. status' \in [Docs -> StatusDoc \cup {NoDoc}]
        BY <3>1, <3>2, <3>15, StatusWriteType, 0 \in Nat
           DEF CreateStatus, UpdateCreate, StatusDoc
      <4>2. job' \in [Workers -> Jobs \cup {Idle}] /\ QueueTypeOK(Keys)'
        BY <3>4, <3>15 DEF CreateStatus, UpdateCreate
      <4> QED
        BY <3>15, <4>1, <4>2 DEF CreateStatus, UpdateCreate
    <3>16. CASE ReplaceStatus(w)
      <4>1. status' \in [Docs -> StatusDoc \cup {NoDoc}]
        BY <3>1, <3>2, <3>16, StatusWriteType DEF ReplaceStatus, UpdateReplace, StatusDoc
      <4>2. job' \in [Workers -> Jobs \cup {Idle}] /\ QueueTypeOK(Keys)'
        BY <3>4, <3>16 DEF ReplaceStatus, UpdateReplace
      <4>3. swallowed' \subseteq Docs
        BY <3>1, <3>16 DEF ReplaceStatus, UpdateReplace
      <4> QED
        BY <3>16, <4>1, <4>2, <4>3 DEF ReplaceStatus, UpdateReplace
    <3>17. CASE WriteLost(w)
      <4>1. job' \in [Workers -> Jobs \cup {Idle}] /\ QueueTypeOK(Keys)'
        BY <3>4, <3>17 DEF WriteLost, UpdateLost
      <4> QED
        BY <3>3, <3>17, <4>1, FaultType, LostWrite DEF WriteLost, UpdateLost
    <3> QED
      BY <2>10, <3>8, <3>10, <3>11, <3>12, <3>13, <3>14, <3>15, <3>16, <3>17 DEF Work
  <2>11. ASSUME NEW r \in wire, Land(r) PROVE TypeOK'
    <3>1. r \in Requests
      OBVIOUS
    <3>2. CASE LateDelete(r)
      <4>1. r.doc \in Docs
        BY <3>1 DEF Requests, StatusRequests
      <4> QED
        BY <2>11, <3>2, <4>1, ExecuteDeleteType DEF Land, LateDelete
    <3>3. CASE LateStatus(r) /\ UNCHANGED object
      <4>1. r.doc \in Docs /\ r.body \in Bodies /\ (r.op = "replace" => r.ver \in Nat)
        BY <3>1, <3>3 DEF LateStatus, Requests, StatusRequests
      <4>2. status' \in [Docs -> StatusDoc \cup {NoDoc}]
        BY <3>3, <4>1, StatusWriteType, 0 \in Nat DEF LateStatus, StatusDoc
      <4> QED
        BY <2>11, <3>3, <4>1, <4>2 DEF Land, LateStatus
    <3> QED
      BY <2>11, <3>2, <3>3 DEF Land
  <2>12. CASE Crash
    BY <2>12, PendingType, FaultType DEF Crash, Die, FeedLost, QueueLost
  <2>13. CASE Start \/ UNCHANGED vars
    BY <2>13 DEF Start, Lead, vars
  <2> QED
    BY <2>1, <2>2, <2>3, <2>4, <2>5, <2>6, <2>7, <2>8, <2>9, <2>10, <2>11, <2>12, <2>13
       DEF Next
<1> QED
  BY <1>1, <1>2, PTL DEF Spec

-----------------------------------------------------------------------------
(***************************************************************************)
(* Success is reported only of a target that was gone after the revision   *)
(* was written.  The claim travels from the Get that found nothing into    *)
(* the job, from there into a write, and that may land much later; in the  *)
(* meantime the target can only have been created anew.                    *)
(***************************************************************************)
GoneSince(d, r) == Exists(d) => object[d].born >= r

Truthful(d, body) ==
    /\ body.observed <= rev
    /\ body.conditions.successful => GoneSince(d, body.observed)

StatusTruthful(d) == status[d] # NoDoc => Truthful(d, status[d].body)

JobTruthful(w) ==
    /\ job[w].pc # "idle" => job[w].rev <= rev
    /\ job[w].pc \in {"fetchStatus", "create", "replace"}
           => Truthful(DocOf(job[w]), NewStatus(job[w]))

RequestTruthful(r) == r.op \in {"create", "replace"} => Truthful(r.doc, r.body)

\* Revisions of the past, and UIDs that are not the one for no object.
Grounded(d) ==
    /\ spec[d] # NoDoc => spec[d].rev <= rev
    /\ Exists(d) => object[d].uid > 0

GoneInv ==
    /\ \A d \in Docs : StatusTruthful(d) /\ Grounded(d)
    /\ \A w \in Workers : JobTruthful(w)
    /\ \A r \in wire : RequestTruthful(r)

\* An object that exists after a step existed before it, or was created by it;
\* so for a spec.
LEMMA StepShape ==
    ASSUME TypeOK, [Next]_vars
    PROVE  /\ rev' \in Nat /\ rev <= rev'
           /\ \A d \in Docs :
                 Exists(d)' =>
                    \/ /\ Exists(d) /\ object'[d].born = object[d].born
                       /\ object'[d].uid = object[d].uid
                    \/ object'[d].born = rev /\ object'[d].uid > 0
           /\ \A d \in Docs :
                 spec'[d] # NoDoc => spec'[d] = spec[d] \/ spec'[d].rev = rev'
<1> USE DEF storeVars, queueVars, feedVars, workerVars, workerVarsButJob
<1> DEFINE Kept == \A d \in Docs :
              Exists(d)' =>
                    \/ /\ Exists(d) /\ object'[d].born = object[d].born
                       /\ object'[d].uid = object[d].uid
                    \/ object'[d].born = rev /\ object'[d].uid > 0
           Written == \A d \in Docs :
              spec'[d] # NoDoc => spec'[d] = spec[d] \/ spec'[d].rev = rev'
<1>0. rev \in Nat /\ \A d \in Docs : object[d].uid \in Nat
  BY DEF TypeOK, Objects
<1>1. UNCHANGED object => Kept
  BY DEF Exists
<1>2. ASSUME NEW d \in Docs, ExecuteDelete(d) PROVE Kept
  BY <1>2, ExecuteDeleteType DEF Exists
<1>3. ASSUME NEW d \in Docs, Recreate(d) PROVE Kept /\ UNCHANGED <<rev, spec>>
  BY <1>0, <1>3 DEF Recreate, Exists, TypeOK
<1>4. ASSUME NEW d \in Docs, FinalizersDone(d) PROVE Kept /\ UNCHANGED <<rev, spec>>
  BY <1>4 DEF FinalizersDone, Exists, TypeOK
<1>5. ASSUME NEW d \in Docs, Removed(d) PROVE Kept /\ UNCHANGED <<rev, spec>>
  BY <1>2, <1>5 DEF Removed
<1>6. ASSUME NEW d \in Docs, BackendWrites(d) PROVE Kept /\ Written /\ rev' = rev + 1
  BY <1>1, <1>6 DEF BackendWrites, WriteSpec, TypeOK
<1>7. ASSUME NEW d \in Docs, BackendDeletes(d) \/ Informer(d) \/ Resync(d)
      PROVE  Kept /\ Written /\ UNCHANGED rev
  BY <1>1, <1>7 DEF BackendDeletes, DeleteSpec, Informer, Resync, TypeOK
<1>8. ASSUME NEW k \in Keys, Cooldown(k) \/ Backoff(k) PROVE Kept /\ UNCHANGED <<rev, spec>>
  BY <1>1, <1>8 DEF Cooldown, Backoff
<1>9. ASSUME NEW w \in Workers, NEW k \in Keys, StartSync(w, k) PROVE Kept /\ UNCHANGED <<rev, spec>>
  BY <1>1, <1>9 DEF StartSync
<1>10. ASSUME NEW w \in Workers, Work(w) PROVE Kept /\ UNCHANGED <<rev, spec>>
  <2>1. DocOf(job[w]) \in Docs
    BY <1>10, WorkMeansJob, WorkerHasJob
  <2>2. CASE DeleteTarget(w)
    BY <1>1, <1>2, <2>1, <2>2 DEF DeleteTarget
  <2> QED
    BY <1>1, <1>10, <2>2
       DEF Work, FetchSpec, GetTarget, PostGet, DeleteLost, FetchStatus, CreateStatus,
           ReplaceStatus, WriteLost
<1>11. ASSUME NEW r \in wire, Land(r) PROVE Kept /\ UNCHANGED <<rev, spec>>
  <2>1. CASE LateDelete(r)
    <3>1. r.doc \in Docs
      BY DEF TypeOK, Requests, StatusRequests
    <3> QED
      BY <1>2, <1>11, <2>1, <3>1 DEF Land, LateDelete
  <2> QED
    BY <1>1, <1>11, <2>1 DEF Land
<1>12. ASSUME Crash \/ Start \/ UNCHANGED vars PROVE Kept /\ UNCHANGED <<rev, spec>>
  BY <1>1, <1>12 DEF Crash, Start, vars
<1>13. Kept /\ Written /\ (UNCHANGED rev \/ rev' = rev + 1)
  BY <1>3, <1>4, <1>5, <1>6, <1>7, <1>8, <1>9, <1>10, <1>11, <1>12 DEF Next
<1> QED
  BY <1>0, <1>13

\* What was true of a body stays true of it.
LEMMA TruthStays ==
    ASSUME TypeOK, [Next]_vars, NEW d \in Docs, NEW b \in Bodies, Truthful(d, b)
    PROVE  /\ b.observed <= rev'
           /\ b.conditions.successful /\ Exists(d)' => object'[d].born >= b.observed
  <1>1. b.observed \in Nat /\ rev \in Nat /\ rev' \in Nat /\ rev <= rev' /\ b.observed <= rev
    BY StepShape DEF TypeOK, Bodies, Truthful
  <1>2. CASE b.conditions.successful /\ Exists(d)'
    <2>1. CASE Exists(d) /\ object'[d].born = object[d].born
      BY <1>1, <1>2, <2>1 DEF Truthful, GoneSince
    <2>2. CASE object'[d].born = rev
      BY <1>1, <2>2
    <2> QED
      BY <1>2, <2>1, <2>2, StepShape
  <1> QED
    BY <1>1, <1>2

\* The claim of a status, a job or a request that a step leaves alone stays true.
LEMMA ClaimsStay ==
    ASSUME TypeOK, GoneInv, [Next]_vars
    PROVE  /\ \A d \in Docs : status'[d] = status[d] => StatusTruthful(d)'
           /\ \A w \in Workers : job'[w] = job[w] => JobTruthful(w)'
           /\ \A r \in wire : RequestTruthful(r)'
<1>1. ASSUME NEW d \in Docs, status'[d] = status[d], status[d] # NoDoc
      PROVE  Truthful(d, status[d].body)'
  <2>1. status[d].body \in Bodies /\ Truthful(d, status[d].body)
    BY <1>1 DEF TypeOK, StatusDoc, GoneInv, StatusTruthful
  <2> QED
    BY <1>1, <2>1, TruthStays DEF Truthful, GoneSince
<1>2. ASSUME NEW w \in Workers, job'[w] = job[w], job[w].pc # "idle"
      PROVE  job'[w].rev <= rev'
  <2>1. job[w].rev \in Nat /\ job[w].rev <= rev /\ rev \in Nat
    BY <1>2, WorkerHasJob DEF GoneInv, JobTruthful, TypeOK
  <2> QED
    BY <1>2, <2>1, StepShape
<1>3. ASSUME NEW w \in Workers, job'[w] = job[w],
             job[w].pc \in {"fetchStatus", "create", "replace"}
      PROVE  Truthful(DocOf(job[w]), NewStatus(job[w]))'
  <2>1. DocOf(job[w]) \in Docs /\ NewStatus(job[w]) \in Bodies
    BY <1>3, WorkerHasJob, NewStatusType
  <2>2. Truthful(DocOf(job[w]), NewStatus(job[w]))
    BY <1>3 DEF GoneInv, JobTruthful
  <2>3. DocOf(job[w])' = DocOf(job[w]) /\ NewStatus(job[w])' = NewStatus(job[w])
    BY <1>3 DEF DocOf, NewStatus
  <2> QED
    BY <2>1, <2>2, <2>3, TruthStays DEF Truthful, GoneSince
<1>4. ASSUME NEW r \in wire, r.op \in {"create", "replace"}
      PROVE  Truthful(r.doc, r.body)'
  <2>1. r.doc \in Docs /\ r.body \in Bodies /\ Truthful(r.doc, r.body)
    BY <1>4 DEF TypeOK, Requests, StatusRequests, GoneInv, RequestTruthful
  <2> QED
    BY <2>1, TruthStays DEF Truthful, GoneSince
<1> QED
  BY <1>1, <1>2, <1>3, <1>4 DEF StatusTruthful, JobTruthful, RequestTruthful

\* No step gives a spec a revision of the future or an object the UID 0.
LEMMA GroundedStep ==
    ASSUME TypeOK, GoneInv, [Next]_vars, NEW d \in Docs
    PROVE  Grounded(d)'
  <1>1. Grounded(d) /\ rev \in Nat /\ (spec[d] # NoDoc => spec[d].rev \in Nat)
    BY DEF GoneInv, TypeOK, SpecDoc
  <1>2. Exists(d)' => object'[d].uid > 0
    BY <1>1, StepShape DEF Grounded
  <1>3. rev' \in Nat /\ rev <= rev'
        /\ (spec'[d] # NoDoc => spec'[d] = spec[d] \/ spec'[d].rev = rev')
    BY StepShape
  <1>4. spec'[d] # NoDoc => spec'[d].rev <= rev'
    BY <1>1, <1>3 DEF Grounded
  <1> QED
    BY <1>2, <1>4 DEF Grounded

\* A body written to the status database brings its truth with it.
LEMMA WriteTruthful ==
    ASSUME TypeOK, GoneInv, [Next]_vars,
           NEW d \in Docs, NEW v, NEW b \in Bodies, Truthful(d, b),
           Create(d, b) \/ Replace(d, v, b)
    PROVE  \A e \in Docs : StatusTruthful(e)'
  <1>1. status'[d].body = b /\ \A e \in Docs \ {d} : status'[e] = status[e]
    BY StatusWriteBody DEF TypeOK
  <1>2. StatusTruthful(d)'
    BY <1>1, TruthStays DEF StatusTruthful, Truthful, GoneSince
  <1> QED
    BY <1>1, <1>2, ClaimsStay

\* A job that reports an error, an object or a missing target reports the truth.
LEMMA ReportTruthful ==
    ASSUME TypeOK, GoneInv, [Next]_vars, NEW w \in Workers, job[w].pc # "idle",
           NEW err, NEW uid, Report(w, err, uid),
           err # "none" \/ uid # 0 \/ object'[DocOf(job[w])].phase = "absent"
    PROVE  /\ JobTruthful(w)'
           /\ \A x \in Workers \ {w} : job'[x] = job[x]
  <1> DEFINE next == [job[w] EXCEPT !.pc = "fetchStatus", !.err = err, !.waiting = uid]
  <1>1. job[w] \in Jobs /\ DocOf(job[w]) \in Docs
        /\ job[w].rev \in Nat /\ job[w].rev <= rev /\ rev \in Nat
    BY WorkerHasJob DEF GoneInv, JobTruthful, TypeOK
  <1>2. job'[w] = next /\ \A x \in Workers \ {w} : job'[x] = job[x]
    BY DEF Report, TypeOK
  <1>3. next.rev = job[w].rev /\ DocOf(next) = DocOf(job[w])
        /\ next.err = err /\ next.waiting = uid
    BY <1>1 DEF Jobs, DocOf
  <1> HIDE DEF next
  <1>4. job'[w].rev <= rev'
    BY <1>1, <1>2, <1>3, StepShape
  <1>5. NewStatus(next).observed = next.rev
        /\ (NewStatus(next).conditions.successful => err = "none" /\ uid = 0)
    BY <1>3, SuccessMeansNoError DEF NewStatus, WaitingForDeletion
  <1>6. DocOf(job[w])' = DocOf(next) /\ NewStatus(job[w])' = NewStatus(next)
    BY <1>2 DEF DocOf, NewStatus
  <1>7. Truthful(DocOf(job[w]), NewStatus(job[w]))'
    BY <1>2, <1>3, <1>4, <1>5, <1>6 DEF Truthful, GoneSince, Exists
  <1> QED
    BY <1>2, <1>4, <1>7 DEF JobTruthful

\* Every step of a worker keeps the claims of its job true.
LEMMA WorkTruthful ==
    ASSUME TypeOK, GoneInv, [Next]_vars, NEW w \in Workers, Work(w)
    PROVE  \A x \in Workers : JobTruthful(x)'
<1> USE DEF storeVars, queueVars, feedVars, workerVars, workerVarsButJob
<1> DEFINE j == job[w]
           d == DocOf(j)
<1>1. /\ j.pc # "idle" /\ j \in Jobs /\ d \in Docs /\ j.key \in Keys
      /\ j.rev \in Nat /\ j.rev <= rev /\ rev \in Nat
  BY WorkMeansJob, WorkerHasJob DEF GoneInv, JobTruthful, TypeOK
<1>2. ASSUME \A x \in Workers \ {w} : job'[x] = job[x], JobTruthful(w)'
      PROVE  \A x \in Workers : JobTruthful(x)'
  BY <1>2, ClaimsStay
<1>3. ASSUME NEW failed, Finish(w, failed) PROVE \A x \in Workers : JobTruthful(x)'
  <2>1. job'[w] = Idle /\ \A x \in Workers \ {w} : job'[x] = job[x]
    BY <1>3 DEF Finish, TypeOK
  <2> QED
    BY <1>2, <2>1 DEF JobTruthful, Idle
<1>4. ASSUME NEW pc \in {"delete", "postGet"}, Goto(w, pc)
      PROVE  \A x \in Workers : JobTruthful(x)'
  <2>1. job' = [job EXCEPT ![w] = [j EXCEPT !.pc = pc]]
    BY <1>4 DEF Goto
  <2>2. job'[w].pc = pc /\ job'[w].rev = j.rev /\ \A x \in Workers \ {w} : job'[x] = job[x]
    BY <1>1, <2>1 DEF TypeOK, Jobs
  <2> QED
    BY <1>1, <1>2, <2>2, StepShape DEF JobTruthful
<1>5. ASSUME NEW err, NEW uid, Report(w, err, uid),
             err # "none" \/ uid # 0 \/ (~Exists(d) /\ UNCHANGED object)
      PROVE  \A x \in Workers : JobTruthful(x)'
  <2>1. err # "none" \/ uid # 0 \/ object'[d].phase = "absent"
    BY <1>5 DEF Exists
  <2> QED
    BY <1>1, <1>2, <1>5, <2>1, ReportTruthful
<1>6. ASSUME GetFails(w) PROVE \A x \in Workers : JobTruthful(x)'
  BY <1>5, <1>6 DEF GetFails
<1>7. object[d].phase \in {"absent", "live", "terminating"}
      /\ (object[d].phase # "absent" => object[d].uid # 0)
  BY <1>1 DEF GoneInv, Grounded, Exists, TypeOK, Objects
<1>8. CASE FetchSpec(w)
  <2> DEFINE doc == spec[d]
             next == [j EXCEPT
                 !.pc = IF doc.kind = "malformed" THEN "fetchStatus" ELSE "get",
                 !.err = IF doc.kind = "malformed" THEN "precheck" ELSE "none",
                 !.rev = doc.rev, !.kind = doc.kind]
  <2>1. CASE doc # NoDoc /\ job' = [job EXCEPT ![w] = next]
    <3>1. doc.rev \in Nat /\ doc.rev <= rev
      BY <1>1, <2>1 DEF GoneInv, Grounded, TypeOK, SpecDoc
    <3>2. job'[w] = next /\ \A x \in Workers \ {w} : job'[x] = job[x]
      BY <2>1 DEF TypeOK
    <3>3. next.rev = doc.rev /\ next.waiting = j.waiting
          /\ (next.pc = "get" \/ (next.pc = "fetchStatus" /\ next.err = "precheck"))
      BY <1>1 DEF Jobs
    <3> HIDE DEF next, doc
    <3>4. job'[w].rev <= rev'
      BY <1>1, <3>1, <3>2, <3>3, StepShape
    <3>5. next.err = "precheck" => ~NewStatus(next).conditions.successful
      BY SuccessMeansNoError DEF NewStatus, WaitingForDeletion
    <3>6. NewStatus(job[w])' = NewStatus(next) /\ NewStatus(next).observed = next.rev
      BY <3>2 DEF NewStatus
    <3>7. JobTruthful(w)'
      BY <3>2, <3>3, <3>4, <3>5, <3>6 DEF JobTruthful, Truthful
    <3> QED
      BY <1>2, <3>2, <3>7
  <2>2. CASE \E failed : Finish(w, failed)
    BY <1>3, <2>2
  <2> QED
    BY <1>8, <2>1, <2>2 DEF FetchSpec
<1>9. CASE GetTarget(w)
  BY <1>4, <1>5, <1>6, <1>7, <1>9 DEF GetTarget, Exists
<1>10. CASE DeleteTarget(w)
  BY <1>4, <1>5, <1>10 DEF DeleteTarget
<1>11. CASE PostGet(w)
  BY <1>5, <1>6, <1>7, <1>11 DEF PostGet, Exists
<1>12. CASE DeleteLost(w)
  BY <1>5, <1>12 DEF DeleteLost
<1>13. CASE FetchStatus(w)
  <2>1. CASE \E failed : Finish(w, failed)
    BY <1>3, <2>1
  <2>2. ASSUME NEW i, job' = [job EXCEPT ![w] = i], i.rev = j.rev,
               DocOf(i) = d, NewStatus(i) = NewStatus(j)
        PROVE  \A x \in Workers : JobTruthful(x)'
    <3>1. job'[w] = i /\ \A x \in Workers \ {w} : job'[x] = job[x]
      BY <2>2 DEF TypeOK
    <3>2. Truthful(d, NewStatus(j)) /\ NewStatus(j) \in Bodies
      BY <1>1, <1>13, NewStatusType DEF FetchStatus, UpdateFetch, At, GoneInv, JobTruthful
    <3>3. DocOf(job[w])' = d /\ NewStatus(job[w])' = NewStatus(j)
      BY <2>2, <3>1 DEF DocOf, NewStatus
    <3>4. Truthful(DocOf(job[w]), NewStatus(job[w]))'
      BY <1>1, <3>2, <3>3, TruthStays DEF Truthful, GoneSince, Exists
    <3>5. job'[w].rev <= rev'
      BY <1>1, <2>2, <3>1, StepShape
    <3> QED
      BY <1>2, <3>1, <3>4, <3>5 DEF JobTruthful
  <2>3. CASE Goto(w, "create")
    <3>1. job' = [job EXCEPT ![w] = [j EXCEPT !.pc = "create"]]
      BY <2>3 DEF Goto
    <3> QED
      BY <1>1, <2>2, <3>1 DEF DocOf, NewStatus, Jobs
  <2>4. CASE job' = [job EXCEPT ![w].pc = "replace", ![w].ver = status[d].ver]
    <3>1. job' = [job EXCEPT ![w] = [j EXCEPT !.pc = "replace", !.ver = status[d].ver]]
      BY <2>4
    <3> QED
      BY <1>1, <2>2, <3>1 DEF DocOf, NewStatus, Jobs
  <2> QED
    BY <1>13, <2>1, <2>3, <2>4 DEF FetchStatus, UpdateFetch
<1>14. CASE CreateStatus(w) \/ ReplaceStatus(w) \/ WriteLost(w)
  BY <1>3, <1>14 DEF CreateStatus, UpdateCreate, ReplaceStatus, UpdateReplace,
                     WriteLost, UpdateLost
<1> QED
  BY <1>8, <1>9, <1>10, <1>11, <1>12, <1>13, <1>14 DEF Work

\* GoneInv is inductive.
LEMMA GoneStep ==
    ASSUME TypeOK, GoneInv, [Next]_vars
    PROVE  GoneInv'
<1> USE DEF storeVars, queueVars, feedVars, workerVars, workerVarsButJob
<1>1. ASSUME UNCHANGED status PROVE \A d \in Docs : StatusTruthful(d)'
  BY <1>1, ClaimsStay
<1>2. ASSUME UNCHANGED job PROVE \A w \in Workers : JobTruthful(w)'
  BY <1>2, ClaimsStay
<1>3. ASSUME wire' \subseteq wire PROVE \A r \in wire' : RequestTruthful(r)'
  BY <1>3, ClaimsStay
\* What a job leaves on the wire makes only the claim of the job.
<1>4. ASSUME NEW w \in Workers, NEW r \in Pending(job[w]) PROVE RequestTruthful(r)'
  <2>1. CASE r.op \in {"create", "replace"}
    <3>1. r.doc = DocOf(job[w]) /\ r.body = NewStatus(job[w])
          /\ job[w].pc \in {"create", "replace"}
      BY <2>1 DEF Pending, PendingWrite, DeleteRequest, CreateRequest, ReplaceRequest
    <3>2. r.doc \in Docs /\ r.body \in Bodies
      BY <3>1, WorkerHasJob, NewStatusType
    <3>3. Truthful(r.doc, r.body)
      BY <3>1 DEF GoneInv, JobTruthful
    <3> QED
      BY <3>2, <3>3, TruthStays DEF RequestTruthful, Truthful, GoneSince
  <2> QED
    BY <2>1 DEF RequestTruthful
<1>5. ASSUME NEW w \in Workers, Work(w)
      PROVE  /\ \A d \in Docs : StatusTruthful(d)'
             /\ \A x \in Workers : JobTruthful(x)'
             /\ \A r \in wire' : RequestTruthful(r)'
  <2> DEFINE j == job[w]
  <2>1. j \in Jobs /\ DocOf(j) \in Docs /\ NewStatus(j) \in Bodies
    BY <1>5, WorkMeansJob, WorkerHasJob, NewStatusType
  <2>2. \A d \in Docs : StatusTruthful(d)'
    <3>1. CASE CreateStatus(w) \/ ReplaceStatus(w)
      <4>1. /\ j.pc \in {"create", "replace"}
            /\ \/ UNCHANGED status
               \/ Create(DocOf(j), NewStatus(j))
               \/ Replace(DocOf(j), j.ver, NewStatus(j))
        BY <3>1 DEF CreateStatus, UpdateCreate, ReplaceStatus, UpdateReplace, At
      <4>2. Truthful(DocOf(j), NewStatus(j))
        BY <4>1 DEF GoneInv, JobTruthful
      <4> QED
        BY <1>1, <2>1, <4>1, <4>2, WriteTruthful
    <3> QED
      BY <1>1, <1>5, <3>1
         DEF Work, FetchSpec, GetTarget, DeleteTarget, PostGet, DeleteLost, FetchStatus,
             UpdateFetch, WriteLost, UpdateLost
  <2>3. wire' \subseteq wire \/ wire' = wire \cup Pending(j)
    BY <1>5, LostWrite
       DEF Work, FetchSpec, GetTarget, DeleteTarget, PostGet, DeleteLost, FetchStatus,
           UpdateFetch, CreateStatus, UpdateCreate, ReplaceStatus, UpdateReplace
  <2>4. \A r \in wire' : RequestTruthful(r)'
    BY <1>3, <1>4, <2>3, ClaimsStay
  <2> QED
    BY <1>5, <2>2, <2>4, WorkTruthful
<1>6. ASSUME NEW w \in Workers, NEW k \in Keys, StartSync(w, k)
      PROVE  /\ UNCHANGED <<status, wire>>
             /\ \A x \in Workers : JobTruthful(x)'
  <2>1. UNCHANGED <<status, wire>> /\ job' = [job EXCEPT ![w] = NewJob(k)]
    BY <1>6 DEF StartSync, Take
  <2>2. job'[w] = NewJob(k) /\ \A x \in Workers \ {w} : job'[x] = job[x]
    BY <2>1 DEF TypeOK
  <2>3. JobTruthful(w)'
    BY <2>2, StepShape DEF JobTruthful, NewJob
  <2> QED
    BY <2>1, <2>2, <2>3, ClaimsStay
<1>7. ASSUME NEW r \in wire, Land(r)
      PROVE  /\ UNCHANGED job
             /\ wire' \subseteq wire
             /\ \A d \in Docs : StatusTruthful(d)'
  <2>1. UNCHANGED job /\ wire' \subseteq wire
    BY <1>7 DEF Land
  <2>2. CASE LateDelete(r)
    BY <1>1, <2>1, <2>2 DEF LateDelete
  <2>3. CASE LateStatus(r)
    <3>1. r.op \in {"create", "replace"} /\ r.doc \in Docs /\ r.body \in Bodies
          /\ (Create(r.doc, r.body) \/ Replace(r.doc, r.ver, r.body))
      BY <2>3 DEF LateStatus, TypeOK, Requests, StatusRequests
    <3>2. Truthful(r.doc, r.body)
      BY <3>1 DEF GoneInv, RequestTruthful
    <3> QED
      BY <2>1, <3>1, <3>2, WriteTruthful
  <2> QED
    BY <1>7, <2>1, <2>2, <2>3 DEF Land
<1>8. ASSUME Crash
      PROVE  /\ UNCHANGED status
             /\ \A w \in Workers : JobTruthful(w)'
             /\ \A r \in wire' : RequestTruthful(r)'
  <2>1. /\ UNCHANGED status
        /\ job' = [w \in Workers |-> Idle]
        /\ wire' = wire \cup UNION {Pending(job[w]) : w \in Workers}
    BY <1>8 DEF Crash, Die
  <2>2. \A r \in wire' : RequestTruthful(r)'
    BY <1>4, <2>1, ClaimsStay
  <2> QED
    BY <2>1, <2>2 DEF JobTruthful, Idle
<1>9. ASSUME NEW d \in Docs,
              \/ BackendWrites(d) \/ BackendDeletes(d) \/ Recreate(d) \/ Removed(d)
              \/ FinalizersDone(d) \/ Informer(d) \/ Resync(d)
       PROVE  UNCHANGED <<status, job, wire>>
  BY <1>9 DEF BackendWrites, WriteSpec, BackendDeletes, DeleteSpec, Recreate, Removed,
               FinalizersDone, Informer, Resync
<1>10. ASSUME NEW k \in Keys, Cooldown(k) \/ Backoff(k)
       PROVE  UNCHANGED <<status, job, wire>>
  BY <1>10 DEF Cooldown, Backoff
<1>11. Start \/ UNCHANGED vars => UNCHANGED <<status, job, wire>>
  BY DEF Start, Lead, vars
<1>12. /\ \A d \in Docs : StatusTruthful(d)'
       /\ \A w \in Workers : JobTruthful(w)'
       /\ \A r \in wire' : RequestTruthful(r)'
  BY <1>1, <1>2, <1>3, <1>5, <1>6, <1>7, <1>8, <1>9, <1>10, <1>11 DEF Next
<1> QED
  BY <1>12, GroundedStep DEF GoneInv

\* In every reachable state a DeleteDesire that reports Successful=True has no
\* target, or one that was created after the reported revision was written,
\* whatever failed, restarted, landed late or was created in between.
THEOREM SuccessIsGone == Spec => []SuccessMeansGone
<1>1. Init => GoneInv
  BY DEF Init, StoreInit, WorkerInit, GoneInv, StatusTruthful, Grounded, JobTruthful,
         Exists, Idle
<1>2. TypeOK /\ GoneInv /\ [Next]_vars => GoneInv'
  BY GoneStep
<1>3. GoneInv => SuccessMeansGone
  BY DEF GoneInv, StatusTruthful, Truthful, GoneSince, SuccessMeansGone
<1> QED
  BY <1>1, <1>2, <1>3, TypeCorrect, PTL DEF Spec

-----------------------------------------------------------------------------
(***************************************************************************)
(* DeleteDesire as a controller of DesireSyncProofs: what a sync without   *)
(* an error leaves says that the target is gone, or waited for.            *)
(***************************************************************************)
Outcomes == {b \in Bodies : b.conditions.reason \in {"NoErrors", "WaitingForDeletion"}}

\* The types DesireSyncProofs asks for.
LEMMA TypeIsSyncType ==
    ASSUME TypeOK
    PROVE  SyncType
  <1>1. ASSUME NEW w \in Workers, Busy(w)
        PROVE  /\ job[w].key \in Keys /\ Target(w) \in Docs
               /\ job[w].rev \in Nat /\ job[w].ver \in Nat
    BY <1>1, WorkerHasJob DEF Busy, Target
  <1>2. \A w \in Workers : Fetched(w) => Busy(w)
    BY DEF Fetched, Busy
  <1>3. ASSUME NEW r \in wire, IsWrite(r)
        PROVE  /\ r.doc \in Docs /\ r.body.observed \in Nat
               /\ r.op = "replace" => r.ver \in Nat
    BY <1>3 DEF TypeOK, Requests, StatusRequests, IsWrite, Bodies
  <1>4. ASSUME NEW d \in Docs, status[d] # NoDoc
        PROVE  status[d].ver \in Nat /\ status[d].body.observed \in Nat
    BY <1>4 DEF TypeOK, StatusDoc, Bodies
  <1> QED
    BY <1>1, <1>2, <1>3, <1>4 DEF TypeOK, SyncType, FeedTypeOK

\* Between the fetches of spec and status a job keeps its key and revision.
LEMMA EvaluationGoesOn ==
    ASSUME TypeOK, NEW w \in Workers,
           GetTarget(w) \/ DeleteTarget(w) \/ PostGet(w) \/ DeleteLost(w)
    PROVE  SyncGoesOn(w)
  <1>1. Fetched(w) /\ job[w].pc \in {"get", "delete", "postGet"}
    BY DEF GetTarget, DeleteTarget, PostGet, DeleteLost, At, Fetched
  <1>2. job[w] \in Jobs
    BY <1>1, WorkerHasJob DEF Fetched
  <1>3. /\ UNCHANGED queueVars
        /\ \/ \E pc \in {"delete", "postGet"} : Goto(w, pc)
           \/ \E err, uid : Report(w, err, uid)
    BY DEF GetTarget, DeleteTarget, PostGet, DeleteLost, GetFails, Goto, Report
  <1>4. /\ job'[w].pc \in {"delete", "postGet", "fetchStatus"}
        /\ job'[w].key = job[w].key /\ job'[w].rev = job[w].rev
        /\ OnlyWorker(w)
    <2>1. CASE \E pc \in {"delete", "postGet"} : Goto(w, pc)
      BY <1>2, <2>1 DEF Goto, OnlyWorker, TypeOK, Jobs
    <2>2. CASE \E err, uid : Report(w, err, uid)
      BY <1>2, <2>2 DEF Report, OnlyWorker, TypeOK, Jobs
    <2> QED
      BY <1>3, <2>1, <2>2
  <1>5. NoNewWrites
    BY DEF GetTarget, DeleteTarget, PostGet, DeleteLost, At, Pending, PendingWrite,
           DeleteRequest, NoNewWrites, IsWrite, workerVarsButJob
  <1>6. UNCHANGED <<rev, spec, cache, up>> /\ StatusKept
    BY DEF GetTarget, DeleteTarget, PostGet, DeleteLost, StatusKept, storeVars, feedVars,
           workerVarsButJob
  <1> QED
    BY <1>1, <1>3, <1>4, <1>5, <1>6 DEF SyncGoesOn, Fetched

\* Every step is one of DesireSyncProofs.
LEMMA StepIsSyncStep ==
    ASSUME TypeOK, [Next]_vars
    PROVE  SyncStep(Outcomes)
<1> USE DEF storeVars
<1> DEFINE G == Outcomes
           AnyJob == Jobs \cup {Idle}
<1>1. /\ job \in [Workers -> AnyJob]
      /\ NoDoc \notin StatusDoc /\ status \in [Docs -> StatusDoc \cup {NoDoc}]
      /\ \A d \in Docs : status[d] # NoDoc => status[d].ver \in Nat
      /\ \A b \in Bodies : \A n \in Nat : [ver |-> n, body |-> b] \in StatusDoc
  BY NoStatusAssumption DEF TypeOK, StatusDoc
<1> HIDE DEF AnyJob
<1>2. ASSUME NEW d \in Docs, BackendWrites(d) \/ BackendDeletes(d) PROVE SyncStep(G)
  BY <1>2 DEF BackendWrites, BackendDeletes, SyncStep, StoreStep, feedVars, workerVars
<1>3. ASSUME NEW d \in Docs, Informer(d) PROVE SyncStep(G)
  BY <1>3 DEF Informer, SyncStep, InformerStep, workerVars, StatusKept
<1>4. CASE \/ \E d \in Docs : Recreate(d) \/ Removed(d) \/ FinalizersDone(d) \/ Resync(d)
           \/ \E k \in Keys : Cooldown(k) \/ Backoff(k)
           \/ UNCHANGED vars
  <2>1. ASSUME NEW d \in Docs, Recreate(d) \/ Removed(d) \/ FinalizersDone(d) PROVE Background
    BY <2>1 DEF Recreate, Removed, FinalizersDone, Background, StatusKept, NoNewWrites,
                queueVars, feedVars, workerVars
  <2>2. ASSUME UNCHANGED vars PROVE Background
    BY <2>2 DEF vars, Background, StatusKept, NoNewWrites, queueVars, feedVars, workerVars
  <2>3. Background
    BY <1>4, <2>1, <2>2, FeedIsBackground DEF Resync, Cooldown, Backoff
  <2> QED
    BY <2>3 DEF SyncStep
<1>5. ASSUME NEW w \in Workers, NEW k \in Keys, StartSync(w, k) PROVE SyncStep(G)
  <2>1. SyncStarts(w, k)
    BY <1>1, <1>5, TakeStarts DEF StartSync, NewJob
  <2> QED
    BY <2>1 DEF SyncStep
<1>6. ASSUME NEW w \in Workers, Work(w) PROVE SyncStep(G)
  <2> DEFINE j == job[w]
             body == NewStatus(j)
             failed == SyncFailed(w)
  <2>1. Busy(w)
    BY <1>6, WorkMeansJob DEF Busy
  <2>2. j \in Jobs /\ HasFields(j) /\ DocOf(j) \in Docs
    BY <2>1, WorkerHasJob DEF Busy, Jobs, HasFields
  <2>3. /\ body \in Bodies /\ body.observed = j.rev
        /\ failed \in BOOLEAN
        /\ failed \/ body \in G
    BY <2>2, NewStatusType DEF NewStatus, SyncFailed, Outcomes, SetConditions,
                               SuccessfulReason, WaitingForDeletion
  <2> HIDE DEF body, failed
  <2>4. CASE FetchSpec(w)
    <3>1. /\ up /\ ~Fetched(w) /\ j.pc = "fetchSpec"
          /\ StatusKept /\ UNCHANGED <<rev, spec, feedVars, up, wire>>
      BY <2>4 DEF FetchSpec, At, Fetched, StatusKept
    <3>2. CASE Finish(w, TRUE) \/ (Finish(w, FALSE) /\ spec[Target(w)] = NoDoc)
      BY <1>1, <2>1, <3>1, <3>2, FinishEnds DEF SyncStops, SyncStep
    <3> DEFINE doc == spec[DocOf(j)]
    <3>3. CASE /\ doc # NoDoc
               /\ job' = [job EXCEPT
                    ![w].pc = IF doc.kind = "malformed" THEN "fetchStatus" ELSE "get",
                    ![w].err = IF doc.kind = "malformed" THEN "precheck" ELSE "none",
                    ![w].rev = doc.rev, ![w].kind = doc.kind]
               /\ UNCHANGED queueVars
      <4>1. Fetched(w)' /\ job'[w].pc # "replace" /\ OnlyWorker(w)
            /\ job'[w].key = j.key /\ job'[w].rev = spec[Target(w)].rev
        BY <1>1, <2>2, <3>3 DEF HasFields, Fetched, OnlyWorker, Target
      <4>2. SyncFetches(w)
        BY <3>1, <3>3, <4>1 DEF SyncFetches, feedVars, Target
      <4> QED
        BY <4>2 DEF SyncStep
    <3> QED
      BY <2>4, <3>2, <3>3 DEF FetchSpec, Target
  <2>5. CASE GetTarget(w) \/ DeleteTarget(w) \/ PostGet(w) \/ DeleteLost(w)
    BY <2>5, EvaluationGoesOn DEF SyncStep
  <2>6. CASE FetchStatus(w)
    <3>1. UpdateFetch(w, body, failed) /\ UNCHANGED <<rev, spec, feedVars>>
      BY <2>6 DEF FetchStatus, body, failed
    <3>2. StatusRead(w, G) \/ SyncStops(w)
      BY <1>1, <2>2, <2>3, <3>1, FetchIsRead
    <3> QED
      BY <3>2 DEF SyncStep
  <2>7. CASE CreateStatus(w) \/ ReplaceStatus(w)
    <3>1. /\ UpdateCreate(w, body, failed) \/ UpdateReplace(w, body, failed)
          /\ UNCHANGED <<rev, spec, feedVars>>
      BY <2>7 DEF CreateStatus, ReplaceStatus, body, failed
    <3>2. StatusWrite(w, G) \/ SyncStops(w)
      BY <1>1, <2>2, <2>3, <3>1, WriteEnds DEF Target
    <3> QED
      BY <3>2 DEF SyncStep
  <2>8. CASE WriteLost(w)
    <3>1. UpdateLost(w, body) /\ UNCHANGED <<rev, spec, feedVars>>
      BY <2>8 DEF WriteLost, body
    <3>2. SyncStops(w)
      BY <1>1, <2>3, <3>1, LostStops
    <3> QED
      BY <3>2 DEF SyncStep
  <2> QED
    BY <1>6, <2>4, <2>5, <2>6, <2>7, <2>8 DEF Work
<1>7. ASSUME NEW r \in wire, Land(r) PROVE SyncStep(G)
  <2>1. wire' \subseteq wire /\ UNCHANGED <<rev, spec, queueVars, feedVars, up, job>>
    BY <1>7 DEF Land
  <2>2. CASE LateDelete(r)
    <3>1. Background
      BY <2>1, <2>2 DEF LateDelete, Background, StatusKept, NoNewWrites, queueVars, feedVars
    <3> QED
      BY <3>1 DEF SyncStep
  <2>3. CASE LateStatus(r)
    <3>1. r.doc \in Docs /\ r.body \in Bodies
      BY <2>3 DEF TypeOK, Requests, StatusRequests, LateStatus
    <3>2. LateWrite(r)
      BY <1>1, <2>1, <2>3, <3>1, LandsLate
    <3> QED
      BY <3>2 DEF SyncStep
  <2> QED
    BY <1>7, <2>2, <2>3 DEF Land
<1>8. CASE Crash \/ Start
  <2>1. ASSUME NEW w \in Workers, NEW r \in Pending(job[w]), IsWrite(r)
        PROVE  OwnWrite(w, r)
    <3>1. r \in PendingWrite(job[w], NewStatus(job[w]))
      BY <2>1 DEF Pending, DeleteRequest, IsWrite
    <3> QED
      BY <3>1, PendingIsOwn DEF NewStatus
  <2>2. LeaderDies \/ LeaderStarts
    BY <1>8, <2>1, LeadersChange DEF Crash, Start
  <2> QED
    BY <2>2 DEF SyncStep
<1> QED
  BY <1>2, <1>3, <1>4, <1>5, <1>6, <1>7, <1>8 DEF Next

-----------------------------------------------------------------------------
(***************************************************************************)
(* What DeleteDesire inherits, while every document stays in its scope.    *)
(***************************************************************************)
\* The order of revisions and the queue's memory, as an invariant.
LEMMA SyncInvariant ==
    ASSUME NEW home
    PROVE  Spec /\ []InScope(home) => [](OrderInv(home) /\ ForgetInv(Outcomes))
  <1>1. Init => OrderInv(home) /\ ForgetInv(Outcomes)
    BY DEF Init, StoreInit, QueueInit, FeedInit, WorkerInit, Idle, OrderInv, Homed,
           OneWorkerPerKey, NothingFromTheFuture, SyncsAreAhead, LateWritesFit, Busy, Fetched,
           ForgetInv, NoneForgotten, SyncsAreFresh, NothingInMemory, Delivered
  <1>2. /\ TypeOK /\ TypeOK' /\ InScope(home) /\ [Next]_vars
        /\ OrderInv(home) /\ ForgetInv(Outcomes)
        => OrderInv(home)' /\ ForgetInv(Outcomes)'
    <2>1. TypeOK' => SyncType'
      BY TypeIsSyncType, PTL
    <2> QED
      BY <2>1, TypeIsSyncType, StepIsSyncStep, OrderStep, ForgetStep
  <1> QED
    BY <1>1, <1>2, TypeCorrect, PTL DEF Spec

\* While documents stay in scope, ObservedDesireUpdateTime never goes back nor ahead of
\* what was written, although a deletion and its status take five calls.
THEOREM ImplementsProgress ==
    ASSUME NEW home
    PROVE  Spec /\ []InScope(home) => Progresses
  <1>1. Init => Progress!Init
    BY DEF Init, StoreInit, Progress!Init
  <1>2. TypeOK /\ TypeOK' /\ OrderInv(home) /\ [Next]_vars => [Progress!Next]_(Progress!vars)
    <2>1. TypeOK' => SyncType'
      BY TypeIsSyncType, PTL
    <2> QED
      BY <2>1, TypeIsSyncType, StepIsSyncStep, ProgressStep
  <1> QED
    BY <1>1, <1>2, SyncInvariant, TypeCorrect, PTL DEF Spec, Progresses, Progress!Spec

\* While documents stay in scope, no wake-up is lost: of a revision the informer has
\* delivered the status says that the target is gone or waited for, or a sync of its
\* key is due, but for the two gaps Overtaken names.
THEOREM NoneIsForgotten ==
    ASSUME NEW home
    PROVE  Spec /\ []InScope(home) => []NothingForgotten
  <1>1. ForgetInv(Outcomes) => NothingForgotten
    BY DEF ForgetInv, NoneForgotten, Delivered, Quiet, SettledIn, Outcomes, NothingForgotten,
           Settled
  <1> QED
    BY <1>1, SyncInvariant, PTL
=============================================================================
