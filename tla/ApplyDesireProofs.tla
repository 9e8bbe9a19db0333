------------------------- MODULE ApplyDesireProofs -------------------------
(***************************************************************************)
(* Theorems about ApplyDesire, for every set of documents, scopes and      *)
(* workers and every bound.                                                *)
(***************************************************************************)
EXTENDS ApplyDesire, DesireSyncProofs

(***************************************************************************)
(* What the steps are built from.                                          *)
(***************************************************************************)
\* The status a job writes is well formed.
LEMMA NewStatusType ==
    ASSUME NEW j \in Jobs
    PROVE  NewStatus(j) \in Bodies
  <1>1. SetConditions(j.err) \in Conditions
    BY ConditionsType DEF Jobs
  <1> QED
    BY <1>1 DEF Jobs, NewStatus, Bodies

\* A worker away from the idle loop has a job.
LEMMA WorkerHasJob ==
    ASSUME TypeOK, NEW w \in Workers, job[w].pc # "idle"
    PROVE  job[w] \in Jobs
  BY DEF TypeOK, Idle

\* What a job leaves on the wire is a request.
LEMMA PendingType ==
    ASSUME TypeOK, NEW w \in Workers
    PROVE  Pending(job[w]) \subseteq Requests
  <1>1. CASE job[w].pc = "idle"
    BY <1>1 DEF Pending, PendingWrite
  <1>2. CASE job[w].pc # "idle"
    <2>1. job[w] \in Jobs
      BY <1>2, WorkerHasJob
    <2>2. NewStatus(job[w]) \in Bodies
      BY <2>1, NewStatusType
    <2>3. DocOf(job[w]) \in Docs /\ job[w].rev \in Nat /\ job[w].ver \in Nat
      BY <2>1 DEF Jobs, Keys, DocOf
    <2>4. PendingWrite(job[w], NewStatus(job[w])) \subseteq StatusRequests(Bodies)
      BY <2>2, <2>3, PendingWriteType
    <2> QED
      BY <2>3, <2>4 DEF Pending, Requests, ApplyRequest
  <1> QED
    BY <1>1, <1>2

\* The status write a worker gives up on is what its job was waiting on.
LEMMA LostWrite ==
    ASSUME NEW w \in Workers, WriteLost(w)
    PROVE  wire' = wire \cup Pending(job[w])
  BY DEF WriteLost, UpdateLost, At, Pending, PendingWrite

\* The apiserver leaves a well-formed object and a well-formed record of it.
LEMMA ExecuteApplyType ==
    ASSUME TypeOK, NEW d \in Docs, NEW n \in Nat,
           ExecuteApply([op |-> "apply", doc |-> d, rev |-> n])
    PROVE  /\ object' \in [Docs -> Objects]
           /\ applied' \subseteq Applies
           /\ [doc |-> d, rev |-> n, gen |-> object'[d].gen] \in applied'
  <1> DEFINE o == AppliedObject(object[d], n)
  <1>1. o \in Objects
    BY DEF TypeOK, AppliedObject, Objects
  <1>2. object' = [object EXCEPT ![d] = o]
        /\ applied' = applied \cup {[doc |-> d, rev |-> n, gen |-> o.gen]}
    BY DEF ExecuteApply
  <1>3. o.gen \in Nat
    BY <1>1 DEF Objects
  <1> HIDE DEF o
  <1> QED
    BY <1>1, <1>2, <1>3 DEF TypeOK, Applies

-----------------------------------------------------------------------------
(***************************************************************************)
(* Type correctness.                                                       *)
(***************************************************************************)
\* Every variable keeps its type: the invariant the other proofs start from.
THEOREM TypeCorrect == Spec => []TypeOK
<1> USE DEF storeVars, queueVars, feedVars, workerVars, applyVars
<1>1. Init => TypeOK
  BY DEF Init, TypeOK, StoreInit, QueueInit, FeedInit, WorkerInit, FeedTypeOK,
         QueueTypeOK, WorkerTypeOK, Objects, Absent, Foreign
<1>2. TypeOK /\ [Next]_vars => TypeOK'
  <2> SUFFICES ASSUME TypeOK, [Next]_vars
               PROVE  TypeOK'
    OBVIOUS
  <2> USE DEF TypeOK, FeedTypeOK, QueueTypeOK, WorkerTypeOK
  <2>1. ASSUME NEW d \in Docs, BackendWrites(d) PROVE TypeOK'
    BY <2>1 DEF BackendWrites, WriteSpec, SpecDoc
  <2>2. ASSUME NEW d \in Docs, BackendDeletes(d) PROVE TypeOK'
    BY <2>2 DEF BackendDeletes, DeleteSpec
  <2>3. ASSUME NEW d \in Docs, Drift(d) PROVE TypeOK'
    BY <2>3 DEF Drift, Fault, Absent, Foreign, Objects
  <2>4. ASSUME NEW d \in Docs, Informer(d) PROVE TypeOK'
    BY <2>4 DEF Informer, HandleChange, DropDeleted, Add, KeyOf, Keys, SpecDoc
  <2>5. ASSUME NEW d \in Docs, Resync(d) PROVE TypeOK'
    BY <2>5 DEF Resync, HandleResync, Add, KeyOf, Keys, SpecDoc
  <2>6. ASSUME NEW k \in Keys, Cooldown(k) PROVE TypeOK'
    BY <2>6 DEF Cooldown, CooldownOver
  <2>7. ASSUME NEW k \in Keys, Backoff(k) PROVE TypeOK'
    BY <2>7 DEF Backoff, RetryDue, Add
  <2>8. ASSUME NEW w \in Workers, NEW k \in Keys, StartSync(w, k) PROVE TypeOK'
    BY <2>8 DEF StartSync, Take, Get, NewJob, Jobs, SpecKinds, Errors
  <2>9. ASSUME NEW w \in Workers, Work(w) PROVE TypeOK'
    <3> DEFINE j == job[w]
    <3>1. j.pc # "idle"
      BY <2>9 DEF Work, FetchSpec, ApplyDone, ApplyRefused, ApplyLost, FetchStatus,
                  UpdateFetch, CreateStatus, UpdateCreate, ReplaceStatus,
                  UpdateReplace, WriteLost, UpdateLost, At
    <3>2. j \in Jobs
      BY <3>1, WorkerHasJob
    <3>3. DocOf(j) \in Docs /\ j.key \in Keys /\ j.ver \in Nat /\ j.rev \in Nat
      BY <3>2 DEF Jobs, Keys, DocOf
    <3>4. NewStatus(j) \in Bodies
      BY <3>2, NewStatusType
    <3>5. Pending(j) \subseteq Requests
      BY PendingType
    <3>6. ASSUME NEW failed, Finish(w, failed)
          PROVE  job' \in [Workers -> Jobs \cup {Idle}] /\ QueueTypeOK(Keys)'
      <4>1. job \in [Workers -> Jobs \cup {Idle}] /\ Idle \in Jobs \cup {Idle}
            /\ QueueTypeOK(Keys) /\ job[w].key \in Keys
        BY <3>3
      <4> HIDE DEF TypeOK, QueueTypeOK
      <4> QED
        BY <3>6, <4>1, FinishType
    <3>7. CASE FetchSpec(w)
      <4>1. job' \in [Workers -> Jobs \cup {Idle}] /\ QueueTypeOK(Keys)' /\ faults' \in Nat
        <5> DEFINE doc == spec[DocOf(j)]
        <5>1. doc # NoDoc => doc \in SpecDoc
          BY <3>3
        <5>2. CASE /\ doc # NoDoc
                   /\ job' = [job EXCEPT
                        ![w].pc = IF doc.kind = "malformed" THEN "fetchStatus" ELSE "apply",
                        ![w].err = IF doc.kind = "malformed" THEN "precheck" ELSE "none",
                        ![w].rev = doc.rev, ![w].kind = doc.kind]
                   /\ UNCHANGED <<queueVars, faults>>
          <6>1. doc.kind \in SpecKinds /\ doc.rev \in Nat
            BY <5>1, <5>2, KindsAssumption DEF SpecDoc
          <6> HIDE DEF doc
          <6>2. job'[w] \in Jobs
            BY <3>2, <5>2, <6>1 DEF Jobs, Errors
          <6> QED
            BY <5>2, <6>2
        <5>3. CASE Finish(w, FALSE) /\ UNCHANGED faults
          BY <3>6, <5>3
        <5>4. CASE Fault /\ Finish(w, TRUE)
          BY <3>6, <5>4, FaultType
        <5> QED
          BY <3>7, <5>2, <5>3, <5>4 DEF FetchSpec
      <4> QED
        BY <3>7, <4>1 DEF FetchSpec
    <3>8. CASE ApplyDone(w)
      <4>1. object' \in [Docs -> Objects] /\ applied' \subseteq Applies
        BY <3>3, <3>8, ExecuteApplyType DEF ApplyDone, ApplyRequest
      <4>2. object'[DocOf(j)].gen \in Nat
        BY <3>3, <4>1 DEF Objects
      <4>3. job' \in [Workers -> Jobs \cup {Idle}]
        BY <3>2, <3>8, <4>2 DEF ApplyDone, Jobs
      <4> QED
        BY <3>8, <4>1, <4>3 DEF ApplyDone
    <3>9. CASE ApplyRefused(w)
      BY <3>2, <3>9, FaultType DEF ApplyRefused, Jobs, Errors
    <3>10. CASE ApplyLost(w)
      BY <3>2, <3>5, <3>10, FaultType DEF ApplyLost, Jobs, Errors
    <3>11. CASE FetchStatus(w)
      <4>1. swallowed' \subseteq Docs /\ landed' \subseteq Docs /\ faults' \in Nat
        BY <3>11, FaultType DEF FetchStatus, UpdateFetch, Seen
      <4>2. job' \in [Workers -> Jobs \cup {Idle}] /\ QueueTypeOK(Keys)'
        <5>1. CASE Goto(w, "create")
          BY <3>2, <5>1 DEF Goto, Jobs
        <5>2. CASE /\ status[DocOf(j)] # NoDoc
                   /\ job' = [job EXCEPT ![w].pc = "replace",
                                         ![w].ver = status[DocOf(j)].ver]
                   /\ UNCHANGED queueVars
          BY <3>2, <3>3, <5>2 DEF Jobs, StatusDoc
        <5>3. CASE \E failed : Finish(w, failed)
          BY <3>6, <5>3
        <5> QED
          BY <3>11, <5>1, <5>2, <5>3 DEF FetchStatus, UpdateFetch
      <4> QED
        BY <3>11, <4>1, <4>2 DEF FetchStatus, UpdateFetch
    <3>12. CASE CreateStatus(w)
      <4>1. status' \in [Docs -> StatusDoc \cup {NoDoc}]
        BY <3>3, <3>4, <3>12, StatusWriteType, 0 \in Nat DEF CreateStatus, UpdateCreate, StatusDoc
      <4>2. job' \in [Workers -> Jobs \cup {Idle}] /\ QueueTypeOK(Keys)'
        BY <3>6, <3>12 DEF CreateStatus, UpdateCreate
      <4> QED
        BY <3>12, <4>1, <4>2 DEF CreateStatus, UpdateCreate
    <3>13. CASE ReplaceStatus(w)
      <4>1. status' \in [Docs -> StatusDoc \cup {NoDoc}]
        BY <3>3, <3>4, <3>13, StatusWriteType, 0 \in Nat DEF ReplaceStatus, UpdateReplace, StatusDoc
      <4>2. job' \in [Workers -> Jobs \cup {Idle}] /\ QueueTypeOK(Keys)'
        BY <3>6, <3>13 DEF ReplaceStatus, UpdateReplace
      <4>3. swallowed' \subseteq Docs
        BY <3>3, <3>13 DEF ReplaceStatus, UpdateReplace
      <4> QED
        BY <3>13, <4>1, <4>2, <4>3 DEF ReplaceStatus, UpdateReplace
    <3>14. CASE WriteLost(w)
      <4>1. job' \in [Workers -> Jobs \cup {Idle}] /\ QueueTypeOK(Keys)'
        BY <3>6, <3>14 DEF WriteLost, UpdateLost
      <4> QED
        BY <3>5, <3>14, <4>1, FaultType, LostWrite DEF WriteLost, UpdateLost
    <3> QED
      BY <2>9, <3>7, <3>8, <3>9, <3>10, <3>11, <3>12, <3>13, <3>14 DEF Work
  <2>10. ASSUME NEW r \in wire, Land(r) PROVE TypeOK'
    <3>1. r \in Requests
      OBVIOUS
    <3>2. CASE LateApply(r)
      <4>1. r.doc \in Docs /\ r.rev \in Nat /\ r = [op |-> "apply", doc |-> r.doc, rev |-> r.rev]
        BY <3>1, <3>2 DEF LateApply, Requests, StatusRequests
      <4>2. object' \in [Docs -> Objects] /\ applied' \subseteq Applies
        BY <3>2, <4>1, ExecuteApplyType DEF LateApply
      <4> QED
        BY <2>10, <3>2, <4>1, <4>2 DEF Land, LateApply
    <3>3. CASE LateStatus(r) /\ UNCHANGED applyVars
      <4>1. r.doc \in Docs /\ r.body \in Bodies /\ (r.op = "replace" => r.ver \in Nat)
        BY <3>1, <3>3 DEF LateStatus, Requests, StatusRequests
      <4>2. status' \in [Docs -> StatusDoc \cup {NoDoc}]
        BY <3>3, <4>1, StatusWriteType, 0 \in Nat DEF LateStatus, StatusDoc
      <4> QED
        BY <2>10, <3>3, <4>1, <4>2 DEF Land, LateStatus
    <3> QED
      BY <2>10, <3>2, <3>3 DEF Land
  <2>11. CASE Crash
    BY <2>11, PendingType, FaultType DEF Crash, Die, FeedLost, QueueLost
  <2>12. CASE Start
    BY <2>12 DEF Start, Lead
  <2>13. CASE UNCHANGED vars
    BY <2>13 DEF vars
  <2> QED
    BY <2>1, <2>2, <2>3, <2>4, <2>5, <2>6, <2>7, <2>8, <2>9, <2>10, <2>11, <2>12, <2>13
       DEF Next
<1> QED
  BY <1>1, <1>2, PTL DEF Spec

-----------------------------------------------------------------------------
(***************************************************************************)
(* A status never claims more than was done.  The claim travels: from the  *)
(* apply into the worker's job, from there into a write, which may be left *)
(* on the wire and land much later.  The inductive invariant follows it.   *)
(***************************************************************************)
Witnessed(d, body) ==
    body.conditions.successful
        => [doc |-> d, rev |-> body.observed, gen |-> body.gen] \in applied

StatusesWitnessed == \A d \in Docs : status[d] # NoDoc => Witnessed(d, status[d].body)

JobsWitnessed ==
    \A w \in Workers :
        job[w].pc \in {"fetchStatus", "create", "replace"}
            => Witnessed(DocOf(job[w]), NewStatus(job[w]))

WireWitnessed ==
    \A r \in wire : r.op \in {"create", "replace"} => Witnessed(r.doc, r.body)

WitnessInv == StatusesWitnessed /\ JobsWitnessed /\ WireWitnessed

\* What a job leaves on the wire makes only the claim of the job.
LEMMA PendingWitnessed ==
    ASSUME JobsWitnessed, NEW w \in Workers, NEW r \in Pending(job[w]),
           r.op \in {"create", "replace"}
    PROVE  Witnessed(r.doc, r.body)
  <1>1. r.doc = DocOf(job[w]) /\ r.body = NewStatus(job[w])
        /\ job[w].pc \in {"create", "replace"}
    BY DEF Pending, PendingWrite, ApplyRequest, CreateRequest, ReplaceRequest
  <1>2. Witnessed(DocOf(job[w]), NewStatus(job[w]))
    BY <1>1 DEF JobsWitnessed
  <1> QED
    BY <1>1, <1>2

\* A witnessed body written to the status database leaves every status witnessed.
LEMMA WriteWitnessed ==
    ASSUME TypeOK, StatusesWitnessed, applied' = applied,
           NEW d \in Docs, NEW v, NEW b, Witnessed(d, b),
           Create(d, b) \/ Replace(d, v, b)
    PROVE  StatusesWitnessed'
  <1>1. PICK n : status' = [status EXCEPT ![d] = [ver |-> n, body |-> b]]
    BY DEF Create, Replace, WriteStatus
  <1> SUFFICES ASSUME NEW e \in Docs, status'[e] # NoDoc
               PROVE  Witnessed(e, status[e].body)'
    BY DEF StatusesWitnessed
  <1>2. CASE e = d
    BY <1>1, <1>2 DEF TypeOK, Witnessed
  <1>3. CASE e # d
    BY <1>1, <1>3 DEF TypeOK, Witnessed, StatusesWitnessed
  <1> QED
    BY <1>2, <1>3

\* Steps that touch neither status, jobs, wire nor the history keep every claim.
LEMMA NothingClaimed ==
    ASSUME WitnessInv, UNCHANGED <<status, job, wire, applied>>
    PROVE  WitnessInv'
  BY DEF WitnessInv, StatusesWitnessed, JobsWitnessed, WireWitnessed, Witnessed,
         NewStatus, DocOf

\* WitnessInv is inductive: no step makes a claim without a witness.
LEMMA WitnessStep ==
    ASSUME TypeOK, WitnessInv, [Next]_vars
    PROVE  WitnessInv'
<1> USE DEF storeVars, queueVars, feedVars, workerVars, applyVars
<1>1. ASSUME NEW w \in Workers, NEW k \in Keys, StartSync(w, k) PROVE WitnessInv'
  <2>1. UNCHANGED <<status, wire, applied>>
    BY <1>1 DEF StartSync, Take
  <2>2. job' = [job EXCEPT ![w] = NewJob(k)]
    BY <1>1 DEF StartSync, Take
  <2>3. JobsWitnessed'
    BY <2>1, <2>2 DEF WitnessInv, JobsWitnessed, NewJob, Witnessed, NewStatus, DocOf, TypeOK
  <2> QED
    BY <2>1, <2>3 DEF WitnessInv, StatusesWitnessed, WireWitnessed, Witnessed
<1>2. ASSUME NEW w \in Workers, Work(w) PROVE WitnessInv'
  <2> DEFINE j == job[w]
             d == DocOf(j)
  <2>1. j \in Jobs /\ d \in Docs /\ j.rev \in Nat
    <3>1. j.pc # "idle"
      BY <1>2 DEF Work, FetchSpec, ApplyDone, ApplyRefused, ApplyLost, FetchStatus,
                  UpdateFetch, CreateStatus, UpdateCreate, ReplaceStatus,
                  UpdateReplace, WriteLost, UpdateLost, At
    <3> QED
      BY <3>1, WorkerHasJob DEF Jobs, Keys, DocOf
  \* Most steps move one job only: to where it claims nothing, or with its claim.
  <2>2. ASSUME applied' = applied,
               \A x \in Workers \ {w} : job'[x] = job[x],
               \/ job'[w].pc \notin {"fetchStatus", "create", "replace"}
               \/ job'[w].err # "none"
               \/ /\ DocOf(job'[w]) = d /\ NewStatus(job'[w]) = NewStatus(j)
                  /\ j.pc \in {"fetchStatus", "create", "replace"}
        PROVE  JobsWitnessed'
    <3> SUFFICES ASSUME NEW x \in Workers,
                        job'[x].pc \in {"fetchStatus", "create", "replace"}
                 PROVE  Witnessed(DocOf(job[x]), NewStatus(job[x]))'
      BY DEF JobsWitnessed
    <3>1. CASE x # w
      BY <2>2, <3>1 DEF WitnessInv, JobsWitnessed, Witnessed, NewStatus, DocOf
    <3>2. CASE x = w /\ job'[w].err # "none"
      BY <3>2, SuccessMeansNoError DEF Witnessed, NewStatus
    <3>3. CASE /\ x = w
               /\ DocOf(job'[w]) = d /\ NewStatus(job'[w]) = NewStatus(j)
               /\ j.pc \in {"fetchStatus", "create", "replace"}
      <4>1. Witnessed(d, NewStatus(j))
        BY <3>3 DEF WitnessInv, JobsWitnessed
      <4> QED
        BY <2>2, <3>3, <4>1 DEF Witnessed, DocOf, NewStatus
    <3> QED
      BY <2>2, <3>1, <3>2, <3>3
  <2>3. ASSUME applied' = applied, NEW failed, Finish(w, failed) PROVE JobsWitnessed'
    <3>1. job'[w] = Idle /\ \A x \in Workers \ {w} : job'[x] = job[x]
      BY <2>3 DEF Finish, TypeOK
    <3> QED
      BY <2>2, <2>3, <3>1 DEF Idle
  <2>4. ASSUME UNCHANGED <<status, applied>> PROVE StatusesWitnessed'
    BY <2>4 DEF WitnessInv, StatusesWitnessed, Witnessed
  <2>5. ASSUME UNCHANGED <<wire, applied>> PROVE WireWitnessed'
    BY <2>5 DEF WitnessInv, WireWitnessed, Witnessed
  <2>6. ASSUME wire' = wire \cup Pending(j), UNCHANGED applied PROVE WireWitnessed'
    BY <2>6, PendingWitnessed DEF WitnessInv, WireWitnessed, Witnessed
  <2>7. CASE FetchSpec(w)
    <3>1. UNCHANGED <<status, wire, applied>>
      BY <2>7 DEF FetchSpec
    <3>2. CASE \E failed : Finish(w, failed)
      BY <2>3, <2>4, <2>5, <3>1, <3>2 DEF WitnessInv
    <3> DEFINE doc == spec[d]
               next == [j EXCEPT
                          !.pc = IF doc.kind = "malformed" THEN "fetchStatus" ELSE "apply",
                          !.err = IF doc.kind = "malformed" THEN "precheck" ELSE "none",
                          !.rev = doc.rev, !.kind = doc.kind]
    <3>3. CASE job' = [job EXCEPT ![w] = next]
      <4>1. next.pc = "apply" \/ next.err = "precheck"
        BY <2>1 DEF Jobs
      <4>2. job'[w] = next /\ \A x \in Workers \ {w} : job'[x] = job[x]
        BY <3>3 DEF TypeOK
      <4> HIDE DEF next
      <4>3. JobsWitnessed'
        BY <2>2, <3>1, <4>1, <4>2
      <4> QED
        BY <2>4, <2>5, <3>1, <4>3 DEF WitnessInv
    <3> QED
      BY <2>7, <3>2, <3>3 DEF FetchSpec
  <2>8. CASE ApplyDone(w)
    <3>1. UNCHANGED <<status, wire>> /\ applied \subseteq applied'
      BY <2>8 DEF ApplyDone, ExecuteApply
    <3>2. [doc |-> d, rev |-> j.rev, gen |-> object'[d].gen] \in applied'
      BY <2>1, <2>8, ExecuteApplyType DEF ApplyDone, ApplyRequest
    <3>3. /\ \A x \in Workers \ {w} : job'[x] = job[x]
          /\ DocOf(job'[w]) = d /\ job'[w].rev = j.rev /\ job'[w].gen = object'[d].gen
      BY <2>1, <2>8 DEF ApplyDone, TypeOK, Jobs, DocOf
    <3>4. ASSUME NEW x \in Workers, job'[x].pc \in {"fetchStatus", "create", "replace"}
          PROVE  Witnessed(DocOf(job[x]), NewStatus(job[x]))'
      <4>1. CASE x = w
        BY <3>2, <3>3, <4>1 DEF Witnessed, NewStatus, DocOf
      <4>2. CASE x # w
        BY <3>1, <3>3, <3>4, <4>2 DEF WitnessInv, JobsWitnessed, Witnessed, NewStatus, DocOf
      <4> QED
        BY <4>1, <4>2
    <3> QED
      BY <3>1, <3>4
         DEF WitnessInv, StatusesWitnessed, JobsWitnessed, WireWitnessed, Witnessed
  <2>9. CASE ApplyRefused(w)
    <3>1. /\ UNCHANGED <<status, wire, applied>>
          /\ \A x \in Workers \ {w} : job'[x] = job[x]
          /\ job'[w].err = "client"
      BY <2>1, <2>9 DEF ApplyRefused, TypeOK, Jobs
    <3> QED
      BY <2>2, <2>4, <2>5, <3>1 DEF WitnessInv
  <2>10. CASE ApplyLost(w)
    <3>1. /\ UNCHANGED <<status, applied>>
          /\ wire' = wire \cup Pending(j)
          /\ \A x \in Workers \ {w} : job'[x] = job[x]
          /\ job'[w].err = "server"
      BY <2>1, <2>10 DEF ApplyLost, TypeOK, Jobs
    <3> QED
      BY <2>2, <2>4, <2>6, <3>1 DEF WitnessInv
  <2>11. CASE FetchStatus(w)
    <3>1. UNCHANGED <<status, wire, applied>> /\ j.pc = "fetchStatus"
      BY <2>11 DEF FetchStatus, UpdateFetch, At
    <3>2. CASE \E failed : Finish(w, failed)
      BY <2>3, <2>4, <2>5, <3>1, <3>2 DEF WitnessInv
    <3>3. ASSUME NEW i, job' = [job EXCEPT ![w] = i],
                 DocOf(i) = d, NewStatus(i) = NewStatus(j)
          PROVE  WitnessInv'
      <4>1. job'[w] = i /\ \A x \in Workers \ {w} : job'[x] = job[x]
        BY <3>3 DEF TypeOK
      <4>2. JobsWitnessed'
        BY <2>2, <3>1, <3>3, <4>1
      <4> QED
        BY <2>4, <2>5, <3>1, <4>2 DEF WitnessInv
    <3>4. CASE Goto(w, "create")
      <4>1. job' = [job EXCEPT ![w] = [j EXCEPT !.pc = "create"]]
        BY <3>4 DEF Goto
      <4> QED
        BY <2>1, <3>3, <4>1 DEF DocOf, NewStatus, Jobs
    <3>5. CASE job' = [job EXCEPT ![w].pc = "replace", ![w].ver = status[d].ver]
      <4>1. job' = [job EXCEPT ![w] = [j EXCEPT !.pc = "replace", !.ver = status[d].ver]]
        BY <3>5
      <4> QED
        BY <2>1, <3>3, <4>1 DEF DocOf, NewStatus, Jobs
    <3> QED
      BY <2>11, <3>2, <3>4, <3>5 DEF FetchStatus, UpdateFetch
  <2>12. CASE CreateStatus(w) \/ ReplaceStatus(w)
    <3>1. /\ UNCHANGED <<wire, applied>>
          /\ j.pc \in {"create", "replace"}
          /\ \E failed : Finish(w, failed)
          /\ \/ UNCHANGED status
             \/ Create(d, NewStatus(j))
             \/ Replace(d, j.ver, NewStatus(j))
      BY <2>12 DEF CreateStatus, UpdateCreate, ReplaceStatus,
                     UpdateReplace, At
    <3>2. Witnessed(d, NewStatus(j))
      BY <3>1 DEF WitnessInv, JobsWitnessed
    <3>3. StatusesWitnessed'
      BY <2>1, <2>4, <3>1, <3>2, WriteWitnessed DEF WitnessInv
    <3> QED
      BY <2>3, <2>5, <3>1, <3>3 DEF WitnessInv
  <2>13. CASE WriteLost(w)
    <3>1. /\ UNCHANGED <<status, applied>>
          /\ wire' = wire \cup Pending(j)
          /\ \E failed : Finish(w, failed)
      BY <2>13, LostWrite DEF WriteLost, UpdateLost
    <3> QED
      BY <2>3, <2>4, <2>6, <3>1 DEF WitnessInv
  <2> QED
    BY <1>2, <2>7, <2>8, <2>9, <2>10, <2>11, <2>12, <2>13 DEF Work
<1>3. ASSUME NEW r \in wire, Land(r) PROVE WitnessInv'
  <2>1. job' = job /\ wire' = wire \ {r} /\ r \in Requests
    BY <1>3 DEF Land, TypeOK
  <2>2. CASE LateApply(r)
    <3>1. status' = status /\ applied \subseteq applied'
      BY <2>2 DEF LateApply, ExecuteApply
    <3> QED
      BY <2>1, <3>1 DEF WitnessInv, StatusesWitnessed, JobsWitnessed, WireWitnessed,
                        Witnessed, NewStatus, DocOf
  <2>3. CASE LateStatus(r) /\ UNCHANGED applyVars
    <3>1. /\ r.op \in {"create", "replace"} /\ r.doc \in Docs
          /\ applied' = applied
          /\ Create(r.doc, r.body) \/ Replace(r.doc, r.ver, r.body)
      BY <2>1, <1>3, <2>3 DEF Land, LateApply, LateStatus, Requests, StatusRequests
    <3>2. Witnessed(r.doc, r.body)
      BY <3>1 DEF WitnessInv, WireWitnessed
    <3>3. StatusesWitnessed'
      BY <3>1, <3>2, WriteWitnessed DEF WitnessInv
    <3> QED
      BY <2>1, <3>1, <3>3 DEF WitnessInv, JobsWitnessed, WireWitnessed, Witnessed,
                              NewStatus, DocOf
  <2> QED
    BY <1>3, <2>2, <2>3 DEF Land
<1>4. CASE Crash
  <2>1. /\ UNCHANGED <<status, applied>>
        /\ \A w \in Workers : job'[w] = Idle
        /\ wire' = wire \cup UNION {Pending(job[w]) : w \in Workers}
    BY <1>4 DEF Crash, Die
  <2>2. WireWitnessed'
    BY <2>1, PendingWitnessed DEF WitnessInv, WireWitnessed, Witnessed
  <2>3. JobsWitnessed'
    BY <2>1 DEF JobsWitnessed, Idle
  <2> QED
    BY <2>1, <2>2, <2>3 DEF WitnessInv, StatusesWitnessed, Witnessed
<1>5. ASSUME UNCHANGED <<status, job, wire, applied>> PROVE WitnessInv'
  BY <1>5, NothingClaimed
<1>6. ASSUME NEW d \in Docs,
             BackendWrites(d) \/ BackendDeletes(d) \/ Drift(d) \/ Informer(d) \/ Resync(d)
      PROVE  WitnessInv'
  BY <1>5, <1>6 DEF BackendWrites, WriteSpec, BackendDeletes, DeleteSpec, Drift,
                    Informer, Resync
<1>7. ASSUME NEW k \in Keys, Cooldown(k) \/ Backoff(k) PROVE WitnessInv'
  BY <1>5, <1>7 DEF Cooldown, Backoff
<1>8. CASE Start \/ UNCHANGED vars
  BY <1>5, <1>8 DEF Start, Lead, vars
<1> QED
  BY <1>1, <1>2, <1>3, <1>4, <1>6, <1>7, <1>8 DEF Next

\* In every reachable state, whatever failed, restarted or landed late, a status
\* with Successful=True names a revision the apiserver did apply and the
\* generation that apply returned (SyncOnce's appliedGen and UpdateTime).
THEOREM StatusIsWitnessed == Spec => []StatusWitnessed
<1>1. Init => WitnessInv
  BY DEF Init, StoreInit, WorkerInit, WitnessInv, StatusesWitnessed, JobsWitnessed, WireWitnessed, Idle
<1>2. TypeOK /\ WitnessInv /\ [Next]_vars => WitnessInv'
  BY WitnessStep
<1>3. WitnessInv => StatusWitnessed
  BY DEF WitnessInv, StatusesWitnessed, Witnessed, StatusWitnessed
<1> QED
  BY <1>1, <1>2, <1>3, TypeCorrect, PTL DEF Spec

-----------------------------------------------------------------------------
(***************************************************************************)
(* ApplyDesire as a controller of DesireSyncProofs: what a sync without an *)
(* error leaves is a successful status.                                    *)
(***************************************************************************)
Successes == {b \in Bodies : b.conditions.successful}

\* The types DesireSyncProofs asks for.
LEMMA TypeIsSyncType ==
    ASSUME TypeOK
    PROVE  SyncType
  <1>1. ASSUME NEW w \in Workers, Busy(w)
        PROVE  /\ job[w] \in Jobs /\ job[w].key \in Keys /\ Target(w) \in Docs
               /\ job[w].rev \in Nat /\ job[w].ver \in Nat
    BY <1>1, WorkerHasJob DEF Busy, Jobs, Target, DocOf, Keys
  <1>2. \A w \in Workers : Fetched(w) => Busy(w)
    BY DEF Fetched, Busy
  <1>3. ASSUME NEW r \in wire, IsWrite(r)
        PROVE  /\ r.doc \in Docs /\ r.body.observed \in Nat
               /\ r.op = "replace" => r.ver \in Nat
    BY <1>3 DEF TypeOK, Requests, StatusRequests, IsWrite, Bodies
  <1>4. ASSUME NEW d \in Docs, status[d] # NoDoc
        PROVE  status[d].ver \in Nat /\ status[d].body.observed \in Nat
    BY <1>4 DEF TypeOK, StatusDoc, Bodies
  <1> QED
    BY <1>1, <1>2, <1>3, <1>4 DEF TypeOK, SyncType, FeedTypeOK

\* Every step is one of DesireSyncProofs.
LEMMA StepIsSyncStep ==
    ASSUME TypeOK, [Next]_vars
    PROVE  SyncStep(Successes)
<1> USE DEF storeVars, applyVars
<1> DEFINE G == Successes
           AnyJob == Jobs \cup {Idle}
<1>1. /\ job \in [Workers -> AnyJob]
      /\ NoDoc \notin StatusDoc /\ status \in [Docs -> StatusDoc \cup {NoDoc}]
      /\ \A d \in Docs : status[d] # NoDoc => status[d].ver \in Nat
      /\ \A b \in Bodies : \A n \in Nat : [ver |-> n, body |-> b] \in StatusDoc
  BY NoStatusAssumption DEF TypeOK, StatusDoc
<1> HIDE DEF AnyJob
<1>2. ASSUME NEW d \in Docs, BackendWrites(d) \/ BackendDeletes(d) PROVE SyncStep(G)
  BY <1>2 DEF BackendWrites, BackendDeletes, SyncStep, StoreStep, feedVars, workerVars
<1>3. ASSUME NEW d \in Docs, Informer(d) PROVE SyncStep(G)
  BY <1>3 DEF Informer, SyncStep, InformerStep, workerVars, StatusKept
<1>4. CASE \/ \E d \in Docs : Drift(d) \/ Resync(d)
           \/ \E k \in Keys : Cooldown(k) \/ Backoff(k)
           \/ UNCHANGED vars
  <2>1. ASSUME NEW d \in Docs, Drift(d) PROVE Background
    BY <2>1 DEF Drift, Background, StatusKept, NoNewWrites, queueVars, feedVars
  <2>2. ASSUME UNCHANGED vars PROVE Background
    BY <2>2 DEF vars, Background, StatusKept, NoNewWrites, queueVars, feedVars, workerVars
  <2>3. Background
    BY <1>4, <2>1, <2>2, FeedIsBackground DEF Resync, Cooldown, Backoff
  <2> QED
    BY <2>3 DEF SyncStep
<1>5. ASSUME NEW w \in Workers, NEW k \in Keys, StartSync(w, k) PROVE SyncStep(G)
  <2>1. SyncStarts(w, k)
    BY <1>1, <1>5, TakeStarts DEF StartSync, NewJob
  <2> QED
    BY <2>1 DEF SyncStep
<1>6. ASSUME NEW w \in Workers, Work(w) PROVE SyncStep(G)
  <2> DEFINE j == job[w]
             body == NewStatus(j)
             failed == SyncFailed(w)
  <2>1. Busy(w)
    BY <1>6 DEF Work, FetchSpec, ApplyDone, ApplyRefused, ApplyLost, FetchStatus,
                UpdateFetch, CreateStatus, UpdateCreate, ReplaceStatus,
                UpdateReplace, WriteLost, UpdateLost, At, Busy
  <2>2. j \in Jobs /\ HasFields(j) /\ DocOf(j) \in Docs
    BY <2>1, WorkerHasJob DEF Busy, Jobs, HasFields, DocOf, Keys
  <2>3. /\ body \in Bodies /\ body.observed = j.rev
        /\ failed \in BOOLEAN
        /\ failed \/ body \in G
    BY <2>2, NewStatusType, SuccessMeansNoError DEF NewStatus, SyncFailed, Successes
  <2> HIDE DEF body, failed
  <2>4. CASE FetchSpec(w)
    <3>1. /\ up /\ ~Fetched(w) /\ j.pc = "fetchSpec"
          /\ StatusKept /\ UNCHANGED <<rev, spec, feedVars, up, wire>>
      BY <2>4 DEF FetchSpec, At, Fetched, StatusKept
    <3>2. CASE Finish(w, TRUE) \/ (Finish(w, FALSE) /\ spec[Target(w)] = NoDoc)
      BY <1>1, <2>1, <3>1, <3>2, FinishEnds DEF SyncStops, SyncStep
    <3> DEFINE doc == spec[DocOf(j)]
    <3>3. CASE /\ doc # NoDoc
               /\ job' = [job EXCEPT
                    ![w].pc = IF doc.kind = "malformed" THEN "fetchStatus" ELSE "apply",
                    ![w].err = IF doc.kind = "malformed" THEN "precheck" ELSE "none",
                    ![w].rev = doc.rev, ![w].kind = doc.kind]
               /\ UNCHANGED queueVars
      <4>1. Fetched(w)' /\ job'[w].pc # "replace" /\ OnlyWorker(w)
            /\ job'[w].key = j.key /\ job'[w].rev = spec[Target(w)].rev
        BY <1>1, <2>2, <3>3 DEF HasFields, Fetched, OnlyWorker, Target
      <4>2. SyncFetches(w)
        BY <3>1, <3>3, <4>1 DEF SyncFetches, feedVars, Target
      <4> QED
        BY <4>2 DEF SyncStep
    <3> QED
      BY <2>4, <3>2, <3>3 DEF FetchSpec, Target
  <2>5. CASE ApplyDone(w) \/ ApplyRefused(w) \/ ApplyLost(w)
    <3>1. /\ Fetched(w) /\ Fetched(w)' /\ job'[w].pc # "replace" /\ OnlyWorker(w)
          /\ job'[w].key = j.key /\ job'[w].rev = j.rev
      BY <1>1, <2>2, <2>5 DEF ApplyDone, ApplyRefused, ApplyLost, At, Fetched, HasFields,
                              OnlyWorker
    <3>2. NoNewWrites
      BY <2>5 DEF ApplyDone, ApplyRefused, ApplyLost, At, Pending, PendingWrite,
                  ApplyRequest, NoNewWrites, IsWrite
    <3>3. SyncGoesOn(w)
      BY <2>5, <3>1, <3>2 DEF ApplyDone, ApplyRefused, ApplyLost, SyncGoesOn, StatusKept, feedVars
    <3> QED
      BY <3>3 DEF SyncStep
  <2>6. CASE FetchStatus(w)
    <3>1. UpdateFetch(w, body, failed) /\ UNCHANGED <<rev, spec, feedVars>>
      BY <2>6 DEF FetchStatus, body, failed
    <3>2. StatusRead(w, G) \/ SyncStops(w)
      BY <1>1, <2>2, <2>3, <3>1, FetchIsRead
    <3> QED
      BY <3>2 DEF SyncStep
  <2>7. CASE CreateStatus(w) \/ ReplaceStatus(w)
    <3>1. /\ UpdateCreate(w, body, failed) \/ UpdateReplace(w, body, failed)
          /\ UNCHANGED <<rev, spec, feedVars>>
      BY <2>7 DEF CreateStatus, ReplaceStatus, body, failed
    <3>2. StatusWrite(w, G) \/ SyncStops(w)
      BY <1>1, <2>2, <2>3, <3>1, WriteEnds DEF Target
    <3> QED
      BY <3>2 DEF SyncStep
  <2>8. CASE WriteLost(w)
    <3>1. UpdateLost(w, body) /\ UNCHANGED <<rev, spec, feedVars>>
      BY <2>8 DEF WriteLost, body
    <3>2. SyncStops(w)
      BY <1>1, <2>3, <3>1, LostStops
    <3> QED
      BY <3>2 DEF SyncStep
  <2> QED
    BY <1>6, <2>4, <2>5, <2>6, <2>7, <2>8 DEF Work
<1>7. ASSUME NEW r \in wire, Land(r) PROVE SyncStep(G)
  <2>1. wire' \subseteq wire /\ UNCHANGED <<rev, spec, queueVars, feedVars, up, job>>
    BY <1>7 DEF Land
  <2>2. CASE LateApply(r)
    <3>1. Background
      BY <2>1, <2>2 DEF LateApply, Background, StatusKept, NoNewWrites, queueVars, feedVars
    <3> QED
      BY <3>1 DEF SyncStep
  <2>3. CASE LateStatus(r)
    <3>1. r.doc \in Docs /\ r.body \in Bodies
      BY <2>3 DEF TypeOK, Requests, StatusRequests, LateStatus
    <3>2. LateWrite(r)
      BY <1>1, <2>1, <2>3, <3>1, LandsLate
    <3> QED
      BY <3>2 DEF SyncStep
  <2> QED
    BY <1>7, <2>2, <2>3 DEF Land
<1>8. CASE Crash \/ Start
  <2>1. ASSUME NEW w \in Workers, NEW r \in Pending(job[w]), IsWrite(r)
        PROVE  OwnWrite(w, r)
    <3>1. r \in PendingWrite(job[w], NewStatus(job[w]))
      BY <2>1 DEF Pending, ApplyRequest, IsWrite
    <3> QED
      BY <3>1, PendingIsOwn DEF NewStatus
  <2>2. LeaderDies \/ LeaderStarts
    BY <1>8, <2>1, LeadersChange DEF Crash, Start
  <2> QED
    BY <2>2 DEF SyncStep
<1> QED
  BY <1>2, <1>3, <1>4, <1>5, <1>6, <1>7, <1>8 DEF Next

-----------------------------------------------------------------------------
(***************************************************************************)
(* What ApplyDesire inherits, while every document stays in its scope.     *)
(***************************************************************************)
\* The order of revisions and the queue's memory, as an invariant.
LEMMA SyncInvariant ==
    ASSUME NEW home
    PROVE  Spec /\ []InScope(home) => [](OrderInv(home) /\ ForgetInv(Successes))
  <1>1. Init => OrderInv(home) /\ ForgetInv(Successes)
    BY DEF Init, StoreInit, QueueInit, FeedInit, WorkerInit, Idle, OrderInv, Homed,
           OneWorkerPerKey, NothingFromTheFuture, SyncsAreAhead, LateWritesFit, Busy, Fetched,
           ForgetInv, NoneForgotten, SyncsAreFresh, NothingInMemory, Delivered
  <1>2. /\ TypeOK /\ TypeOK' /\ InScope(home) /\ [Next]_vars
        /\ OrderInv(home) /\ ForgetInv(Successes)
        => OrderInv(home)' /\ ForgetInv(Successes)'
    <2>1. TypeOK' => SyncType'
      BY TypeIsSyncType, PTL
    <2> QED
      BY <2>1, TypeIsSyncType, StepIsSyncStep, OrderStep, ForgetStep
  <1> QED
    BY <1>1, <1>2, TypeCorrect, PTL DEF Spec

\* While documents stay in scope, ObservedDesireUpdateTime never goes back nor ahead of
\* what was written, whatever fails, restarts or lands late.
THEOREM ImplementsProgress ==
    ASSUME NEW home
    PROVE  Spec /\ []InScope(home) => Progresses
  <1>1. Init => Progress!Init
    BY DEF Init, StoreInit, Progress!Init
  <1>2. TypeOK /\ TypeOK' /\ OrderInv(home) /\ [Next]_vars => [Progress!Next]_(Progress!vars)
    <2>1. TypeOK' => SyncType'
      BY TypeIsSyncType, PTL
    <2> QED
      BY <2>1, TypeIsSyncType, StepIsSyncStep, ProgressStep
  <1> QED
    BY <1>1, <1>2, SyncInvariant, TypeCorrect, PTL DEF Spec, Progresses, Progress!Spec

\* While documents stay in scope, no wake-up is lost: a revision the informer has
\* delivered is reported as applied, or a sync of its key is due, but for the two gaps
\* Overtaken names.
THEOREM NoneIsForgotten ==
    ASSUME NEW home
    PROVE  Spec /\ []InScope(home) => []NothingForgotten
  <1>1. ForgetInv(Successes) => NothingForgotten
    BY DEF ForgetInv, NoneForgotten, Delivered, Quiet, SettledIn, Successes, NothingForgotten,
           Reported
  <1> QED
    BY <1>1, SyncInvariant, PTL

-----------------------------------------------------------------------------
(***************************************************************************)
(* What is reported about the current revision is what the cluster holds.  *)
(* The claim travels as in WitnessInv; what keeps it true on the way is    *)
(* that an object changes by other hands, which disturbs it, or by the one *)
(* worker on its desire, whose revision no report about it exceeds.        *)
(***************************************************************************)
ReportsHold ==
    \A d \in Docs \ disturbed : Reported(d) =>
        /\ object[d].content = spec[d].rev
        /\ Delivered(d) /\ Quiet(d) => object[d].gen = status[d].body.gen

\* The job has an answer from the apiserver: the apply went well.
Answered(j) == j.pc \in {"fetchStatus", "create", "replace"} /\ j.err = "none"

JobsHold ==
    \A w \in Workers : Answered(job[w]) /\ Target(w) \notin disturbed =>
        object[Target(w)].content = job[w].rev /\ object[Target(w)].gen = job[w].gen

WritesHold ==
    \A r \in wire :
        /\ IsWrite(r) /\ r.body.conditions.successful
        /\ r.doc \notin disturbed
        /\ spec[r.doc] # NoDoc /\ r.body.observed = spec[r.doc].rev
        => object[r.doc].content = spec[r.doc].rev

AppliedInv == ReportsHold /\ JobsHold /\ WritesHold

\* An undisturbed object is as it was, or its worker has just applied it.
LEMMA ObjectOrigin ==
    ASSUME TypeOK, [Next]_vars, NEW d \in Docs, d \notin disturbed'
    PROVE  \/ object'[d] = object[d] /\ d \notin disturbed
           \/ \E w \in Workers : ApplyDone(w) /\ Target(w) = d
<1> USE DEF storeVars, queueVars, feedVars, workerVars, applyVars
<1>1. CASE UNCHANGED <<object, disturbed>>
  BY <1>1
<1>2. ASSUME NEW e \in Docs, Drift(e) PROVE object'[d] = object[d] /\ d \notin disturbed
  BY <1>2 DEF Drift, TypeOK
<1>3. ASSUME NEW r \in wire, LateApply(r) PROVE object'[d] = object[d] /\ d \notin disturbed
  BY <1>3 DEF LateApply, ExecuteApply, TypeOK
<1>4. ASSUME NEW w \in Workers, ApplyDone(w), Target(w) # d
      PROVE  object'[d] = object[d] /\ d \notin disturbed
  BY <1>4 DEF ApplyDone, ExecuteApply, ApplyRequest, Target, TypeOK
<1>5. ASSUME NEW w \in Workers, Work(w), ~ApplyDone(w) PROVE UNCHANGED <<object, disturbed>>
  BY <1>5 DEF Work, FetchSpec, ApplyRefused, ApplyLost, FetchStatus, CreateStatus,
              ReplaceStatus, WriteLost
<1>6. ASSUME NEW r \in wire, Land(r), ~LateApply(r) PROVE UNCHANGED <<object, disturbed>>
  BY <1>6 DEF Land
<1> QED
  BY <1>1, <1>2, <1>3, <1>4, <1>5, <1>6 DEF Next, BackendWrites, BackendDeletes, Informer, Resync,
     Cooldown, Backoff, StartSync, Crash, Start, vars

\* The apply of a job leaves its revision and tells the job its generation.
LEMMA ApplyAnswers ==
    ASSUME TypeOK, NEW w \in Workers, ApplyDone(w)
    PROVE  /\ Target(w) \in Docs /\ Fetched(w) /\ Busy(w)' /\ job'[w].key = job[w].key
           /\ Target(w)' = Target(w) /\ job'[w].rev = job[w].rev
           /\ object'[Target(w)].content = job[w].rev
           /\ object'[Target(w)].gen = job'[w].gen
           /\ UNCHANGED <<rev, spec, status, queueVars, wire>>
           /\ \A x \in Workers \ {w} : job'[x] = job[x]
  <1>1. job[w] \in Jobs /\ Target(w) \in Docs /\ object[Target(w)] \in Objects
    BY WorkerHasJob DEF ApplyDone, At, Jobs, Target, DocOf, Keys, TypeOK
  <1>2. /\ object' = [object EXCEPT ![Target(w)] = AppliedObject(object[Target(w)], job[w].rev)]
        /\ job' = [job EXCEPT ![w].pc = "fetchStatus", ![w].gen = object'[Target(w)].gen]
    BY DEF ApplyDone, ExecuteApply, ApplyRequest, Target
  <1>3. object'[Target(w)].content = job[w].rev
    BY <1>1, <1>2 DEF TypeOK, AppliedObject, Objects
  <1>4. /\ job'[w].gen = object'[Target(w)].gen /\ job'[w].rev = job[w].rev
        /\ job'[w].key = job[w].key /\ job'[w].pc = "fetchStatus"
        /\ \A x \in Workers \ {w} : job'[x] = job[x]
    BY <1>1, <1>2 DEF TypeOK, Jobs
  <1> QED
    BY <1>1, <1>3, <1>4 DEF ApplyDone, At, Fetched, Busy, Target, DocOf, storeVars

\* A job has its answer from before, or from the apply just done.
LEMMA AnswerOrigin ==
    ASSUME TypeOK, [Next]_vars, NEW w \in Workers, Answered(job'[w]), ~ApplyDone(w)
    PROVE  /\ Answered(job[w]) /\ Target(w)' = Target(w)
           /\ job'[w].rev = job[w].rev /\ job'[w].gen = job[w].gen
<1> USE DEF Answered, Target, DocOf
<1>1. CASE job'[w] = job[w]
  BY <1>1
<1>2. ASSUME NEW j, job' = [job EXCEPT ![w] = j] PROVE job'[w] = j
  BY <1>2 DEF TypeOK
<1>3. ASSUME NEW x \in Workers \ {w}, Work(x) \/ \E k \in Keys : StartSync(x, k)
      PROVE  job'[w] = job[w]
  BY <1>3 DEF Work, FetchSpec, ApplyDone, ApplyRefused, ApplyLost, FetchStatus,
     UpdateFetch, CreateStatus, UpdateCreate, ReplaceStatus, UpdateReplace, WriteLost,
     UpdateLost, Goto, Finish, StartSync, Take, TypeOK
<1>4. ~ \E failed : Finish(w, failed)
  BY <1>2 DEF Finish, Idle
<1>5. ~ \E k \in Keys : StartSync(w, k)
  BY <1>2 DEF StartSync, Take, NewJob
<1>6. CASE Work(w)
  <2>1. job[w] \in Jobs
    BY <1>6, WorkerHasJob DEF Work, FetchSpec, ApplyDone, ApplyRefused, ApplyLost, FetchStatus,
       UpdateFetch, CreateStatus, UpdateCreate, ReplaceStatus, UpdateReplace, WriteLost,
       UpdateLost, At
  <2>2. ASSUME FetchSpec(w) PROVE FALSE
    <3> DEFINE malformed == spec[DocOf(job[w])].kind = "malformed"
    <3>1. job' = [job EXCEPT ![w].pc = IF malformed THEN "fetchStatus" ELSE "apply",
                             ![w].err = IF malformed THEN "precheck" ELSE "none",
                             ![w].rev = spec[DocOf(job[w])].rev,
                             ![w].kind = spec[DocOf(job[w])].kind]
      BY <1>4, <2>2 DEF FetchSpec
    <3> HIDE DEF malformed
    <3>2. job'[w].pc = "apply" \/ job'[w].err = "precheck"
      BY <2>1, <3>1 DEF TypeOK, Jobs
    <3> QED
      BY <3>2
  <2>3. ~(ApplyRefused(w) \/ ApplyLost(w))
    BY <2>1 DEF ApplyRefused, ApplyLost, TypeOK, Jobs
  <2>4. ~(CreateStatus(w) \/ ReplaceStatus(w) \/ WriteLost(w))
    BY <1>4 DEF CreateStatus, UpdateCreate, ReplaceStatus, UpdateReplace, WriteLost, UpdateLost
  <2>5. FetchStatus(w)
    BY <1>6, <2>2, <2>3, <2>4 DEF Work
  <2>6. Goto(w, "create") \/ job' = [job EXCEPT ![w].pc = "replace", ![w].ver = status[Target(w)].ver]
    BY <1>4, <2>5 DEF FetchStatus, UpdateFetch
  <2> QED
    BY <2>1, <2>5, <2>6 DEF FetchStatus, UpdateFetch, At, Goto, TypeOK, Jobs
<1>7. CASE Crash
  BY <1>7 DEF Crash, Die, Idle
<1> QED
  BY <1>1, <1>3, <1>5, <1>6, <1>7 DEF Next, BackendWrites, BackendDeletes, Drift, Informer, Resync,
     Cooldown, Backoff, Land, Start, Lead, vars, workerVars

\* A status changes to the claim of the job that writes it, or of a write that lands.
LEMMA ReportOrigin ==
    ASSUME TypeOK, [Next]_vars, NEW d \in Docs, status'[d] # status[d]
    PROVE  /\ UNCHANGED <<object, disturbed>>
           /\ \/ \E w \in Workers :
                    /\ Target(w) = d /\ job[w].pc \in {"create", "replace"}
                    /\ status'[d].body = NewStatus(job[w])
              \/ /\ d \in landed'
                 /\ \E r \in wire : IsWrite(r) /\ r.doc = d /\ r.body = status'[d].body
<1> USE DEF storeVars, queueVars, feedVars, workerVars, applyVars
<1>1. ASSUME NEW w \in Workers, CreateStatus(w) \/ ReplaceStatus(w)
      PROVE  /\ UNCHANGED <<object, disturbed>>
             /\ Target(w) = d /\ job[w].pc \in {"create", "replace"}
             /\ status'[d].body = NewStatus(job[w])
  <2>1. /\ job[w].pc \in {"create", "replace"}
        /\ UNCHANGED <<object, disturbed>>
        /\ \/ Create(Target(w), NewStatus(job[w]))
           \/ Replace(Target(w), job[w].ver, NewStatus(job[w]))
    BY <1>1 DEF CreateStatus, UpdateCreate, ReplaceStatus, UpdateReplace, At, Target
  <2>2. Target(w) \in Docs /\ status \in [Docs -> StatusDoc \cup {NoDoc}]
    BY <2>1, WorkerHasJob DEF Jobs, Target, DocOf, Keys, TypeOK
  <2>3. /\ status'[Target(w)].body = NewStatus(job[w])
        /\ \A e \in Docs \ {Target(w)} : status'[e] = status[e]
    BY <2>1, <2>2, StatusWriteBody
  <2> QED
    BY <2>1, <2>3
<1>2. ASSUME NEW r \in wire, Land(r)
      PROVE  /\ UNCHANGED <<object, disturbed>>
             /\ d \in landed' /\ IsWrite(r) /\ r.doc = d /\ r.body = status'[d].body
  BY <1>2 DEF Land, LateApply, LateStatus, IsWrite, Create, Replace, WriteStatus, TypeOK
<1>3. ASSUME NEW w \in Workers, Work(w), ~(CreateStatus(w) \/ ReplaceStatus(w))
      PROVE  UNCHANGED status
  BY <1>3 DEF Work, FetchSpec, ApplyDone, ApplyRefused, ApplyLost, FetchStatus, UpdateFetch,
              WriteLost, UpdateLost
<1> QED
  BY <1>1, <1>2, <1>3 DEF Next, BackendWrites, WriteSpec, BackendDeletes, DeleteSpec, Drift,
     Informer, Resync, Cooldown, Backoff, StartSync, Crash, Start, vars

\* A status write on the wire carries the claim of the job that left it there.
LEMMA WriteOrigin ==
    ASSUME TypeOK, [Next]_vars, NEW r \in wire', IsWrite(r), r \notin wire
    PROVE  /\ UNCHANGED <<rev, spec, object, disturbed>>
           /\ \E w \in Workers :
                 /\ Target(w) = r.doc /\ job[w].pc \in {"create", "replace"}
                 /\ r.body = NewStatus(job[w])
<1> USE DEF storeVars, queueVars, feedVars, workerVars, applyVars
<1>1. ASSUME NEW w \in Workers, r \in Pending(job[w])
      PROVE  /\ Target(w) = r.doc /\ job[w].pc \in {"create", "replace"}
             /\ r.body = NewStatus(job[w])
  BY <1>1 DEF Pending, PendingWrite, ApplyRequest, CreateRequest, ReplaceRequest, IsWrite, Target
<1>2. \/ /\ Crash
         /\ \E w \in Workers : r \in Pending(job[w])
      \/ \E w \in Workers : (WriteLost(w) \/ ApplyLost(w)) /\ r \in Pending(job[w])
  <2>1. ASSUME NEW w \in Workers, Work(w), ~(WriteLost(w) \/ ApplyLost(w)) PROVE wire' = wire
    BY <2>1 DEF Work, FetchSpec, ApplyDone, ApplyRefused, FetchStatus, UpdateFetch,
                CreateStatus, UpdateCreate, ReplaceStatus, UpdateReplace
  <2>2. ASSUME NEW w \in Workers, WriteLost(w) \/ ApplyLost(w) PROVE r \in Pending(job[w])
    BY <2>2, LostWrite DEF ApplyLost
  <2>3. CASE Crash
    BY <2>3 DEF Crash, Die
  <2> QED
    BY <2>1, <2>2, <2>3 DEF Next, BackendWrites, WriteSpec, BackendDeletes, DeleteSpec, Drift,
       Informer, Resync, Cooldown, Backoff, StartSync, Take, Land, Start, Lead, vars
<1> QED
  BY <1>1, <1>2 DEF Crash, WriteLost, ApplyLost

\* A sync that leaves its document quiet had its claim written, or found it written.
LEMMA QuietAnswer ==
    ASSUME TypeOK, [Next]_vars, up', NEW w \in Workers, NEW d \in Docs,
           EndsWell(w, d, Successes), job[w].key \notin retry', d \notin swallowed'
    PROVE  /\ UNCHANGED <<object, disturbed>>
           /\ job[w].pc \in {"fetchStatus", "create", "replace"}
           /\ status'[d].body = NewStatus(job[w])
<1> USE DEF storeVars, queueVars, feedVars, workerVars, applyVars
<1>1. Fetched(w) /\ Busy(w) /\ ~Busy(w)' /\ Target(w) = d
  BY DEF EndsWell, Ends, Fetched, Busy
<1>2. job[w] \in Jobs
  BY <1>1, WorkerHasJob DEF Busy
<1>3. Work(w)
  <2>1. ASSUME NEW x \in Workers \ {w}, Work(x) \/ \E k \in Keys : StartSync(x, k)
        PROVE  job'[w] = job[w]
    BY <2>1 DEF Work, FetchSpec, ApplyDone, ApplyRefused, ApplyLost, FetchStatus,
       UpdateFetch, CreateStatus, UpdateCreate, ReplaceStatus, UpdateReplace, WriteLost,
       UpdateLost, Goto, Finish, StartSync, Take, TypeOK
  <2>2. job'[w] # job[w]
    BY <1>1 DEF Busy
  <2>3. ~ \E k \in Keys : StartSync(w, k)
    <3>1. job[w] # Idle
      BY <1>1 DEF Busy, Idle
    <3> QED
      BY <3>1 DEF StartSync, Take
  <2>4. ~Crash
    BY DEF Crash, Die
  <2> QED
    BY <2>1, <2>2, <2>3, <2>4 DEF Next, BackendWrites, BackendDeletes, Drift, Informer, Resync,
       Cooldown, Backoff, Land, Start, Lead, vars
<1>4. ~Finish(w, TRUE)
  BY DEF Finish, Done
<1>5. ~FetchSpec(w)
  BY <1>1 DEF FetchSpec, At, Fetched
<1>6. ~(ApplyDone(w) \/ ApplyRefused(w) \/ ApplyLost(w))
  BY <1>1, <1>2 DEF ApplyDone, ApplyRefused, ApplyLost, TypeOK, Jobs, Busy
<1>7. ~WriteLost(w)
  BY <1>4 DEF WriteLost, UpdateLost
<1>8. CASE FetchStatus(w)
  <2>1. ~(Goto(w, "create")
          \/ job' = [job EXCEPT ![w].pc = "replace", ![w].ver = status[Target(w)].ver])
    BY <1>1, <1>2 DEF Goto, TypeOK, Jobs, Busy
  <2>2. status'[d].body = NewStatus(job[w])
    BY <1>1, <1>4, <1>8, <2>1 DEF FetchStatus, UpdateFetch, Target
  <2> QED
    BY <1>8, <2>2 DEF FetchStatus, UpdateFetch, At
<1>9. CASE CreateStatus(w) \/ ReplaceStatus(w)
  <2>1. /\ job[w].pc \in {"create", "replace"}
        /\ UNCHANGED <<object, disturbed>>
        /\ Create(d, NewStatus(job[w])) \/ Replace(d, job[w].ver, NewStatus(job[w]))
    BY <1>1, <1>4, <1>9 DEF CreateStatus, UpdateCreate, ReplaceStatus, UpdateReplace, At, Target
  <2>2. status \in [Docs -> StatusDoc \cup {NoDoc}]
    BY DEF TypeOK
  <2> QED
    BY <2>1, <2>2, StatusWriteBody
<1> QED
  BY <1>3, <1>5, <1>6, <1>7, <1>8, <1>9 DEF Work

\* A revision something names is not that of a spec written by this very step.
LEMMA NamedBefore ==
    ASSUME SyncType, NothingFromTheFuture, SyncStep(Successes), NEW d \in Docs, NEW n \in Nat,
           n <= Latest(d), spec'[d] # NoDoc, spec'[d].rev = n
    PROVE  spec'[d] = spec[d] /\ n = Latest(d)
  <1>1. /\ spec'[d] # spec[d] => spec'[d].rev = rev + 1
        /\ Latest(d) \in Nat /\ Latest(d) <= rev /\ rev \in Nat
    BY LatestGrows DEF NothingFromTheFuture, Latest, SyncType
  <1> QED
    BY <1>1 DEF Latest

\* An answered job still has what it applied: nobody else's hands are on the object
\* undisturbed, and no other worker is on the desire.
LEMMA JobsHoldStep ==
    ASSUME TypeOK, NEW home, OrderInv(home), JobsHold, [Next]_vars
    PROVE  JobsHold'
  <1> SUFFICES ASSUME NEW w \in Workers, Answered(job'[w]), Target(w)' \notin disturbed'
               PROVE  /\ object'[Target(w)'].content = job'[w].rev
                      /\ object'[Target(w)'].gen = job'[w].gen
    BY DEF JobsHold
  <1>1. CASE ApplyDone(w)
    BY <1>1, ApplyAnswers
  <1>2. CASE ~ApplyDone(w)
    <2> DEFINE d == Target(w)
    <2>1. /\ Answered(job[w]) /\ Target(w)' = d
          /\ job'[w].rev = job[w].rev /\ job'[w].gen = job[w].gen
      BY <1>2, AnswerOrigin
    <2>2. SyncType /\ Busy(w)
      BY <2>1, TypeIsSyncType DEF Answered, Busy
    <2>3. d \in Docs
      BY <2>2 DEF SyncType
    <2>4. ASSUME NEW x \in Workers, ApplyDone(x), Target(x) = d PROVE FALSE
      <3>1. Busy(x)
        BY <2>4 DEF ApplyDone, At, Busy
      <3> QED
        BY <1>2, <2>2, <2>4, <3>1, OneWorkerPerDocument DEF OrderInv
    <2>5. object'[d] = object[d] /\ d \notin disturbed
      BY <2>1, <2>3, <2>4, ObjectOrigin
    <2> QED
      BY <2>1, <2>5 DEF JobsHold
  <1> QED
    BY <1>1, <1>2

\* A write left on the wire claims what its job applied; a later apply of the same
\* desire is of a revision no earlier.
LEMMA WritesHoldStep ==
    ASSUME TypeOK, TypeOK', NEW home, OrderInv(home), AppliedInv, [Next]_vars
    PROVE  WritesHold'
  <1> SUFFICES ASSUME NEW r \in wire', IsWrite(r), r.body.conditions.successful,
                      r.doc \notin disturbed', spec'[r.doc] # NoDoc,
                      r.body.observed = spec'[r.doc].rev
               PROVE  object'[r.doc].content = spec'[r.doc].rev
    BY DEF WritesHold
  <1> DEFINE d == r.doc
  <1>1. SyncType /\ SyncType' /\ SyncStep(Successes)
    BY TypeIsSyncType, StepIsSyncStep, PTL
  <1>2. d \in Docs /\ r.body.observed \in Nat
    BY <1>1 DEF SyncType
  <1>3. CASE r \in wire
    <2>1. spec'[d] = spec[d] /\ r.body.observed = Latest(d)
      BY <1>1, <1>2, <1>3, NamedBefore DEF OrderInv, NothingFromTheFuture
    <2>2. CASE object'[d] = object[d] /\ d \notin disturbed
      BY <1>3, <2>1, <2>2 DEF AppliedInv, WritesHold
    <2>3. ASSUME NEW w \in Workers, ApplyDone(w), Target(w) = d
          PROVE  object'[d].content = spec'[d].rev
      <3>1. Fetched(w) /\ object'[d].content = job[w].rev
        BY <2>3, ApplyAnswers
      <3>2. r.body.observed <= job[w].rev /\ job[w].rev <= Latest(d) /\ job[w].rev \in Nat
        BY <1>1, <1>3, <2>3, <3>1 DEF OrderInv, SyncsAreAhead, NothingFromTheFuture, SyncType
      <3> QED
        BY <1>2, <2>1, <3>1, <3>2
    <2> QED
      BY <1>2, <2>2, <2>3, ObjectOrigin
  <1>4. CASE r \notin wire
    <2>1. /\ UNCHANGED <<rev, spec, object, disturbed>>
          /\ \E w \in Workers :
                /\ Target(w) = d /\ job[w].pc \in {"create", "replace"}
                /\ r.body = NewStatus(job[w])
      BY <1>4, WriteOrigin
    <2>2. PICK w \in Workers : /\ Target(w) = d /\ job[w].pc \in {"create", "replace"}
                               /\ r.body = NewStatus(job[w])
      BY <2>1
    <2>3. Answered(job[w]) /\ r.body.observed = job[w].rev
      BY <2>2, SuccessMeansNoError DEF Answered, NewStatus
    <2>4. object[d].content = job[w].rev
      BY <2>1, <2>2, <2>3 DEF AppliedInv, JobsHold
    <2> QED
      BY <2>1, <2>3, <2>4
  <1> QED
    BY <1>3, <1>4

\* A report of the current revision stays true, or its object was disturbed.
LEMMA ReportsHoldStep ==
    ASSUME TypeOK, TypeOK', NEW home, InScope(home), OrderInv(home), NothingInMemory,
           AppliedInv, [Next]_vars
    PROVE  ReportsHold'
  <1> SUFFICES ASSUME NEW d \in Docs \ disturbed', Reported(d)'
               PROVE  /\ object'[d].content = spec'[d].rev
                      /\ Delivered(d)' /\ Quiet(d)' => object'[d].gen = status'[d].body.gen
    BY DEF ReportsHold
  <1>1. SyncType /\ SyncType' /\ SyncStep(Successes)
    BY TypeIsSyncType, StepIsSyncStep, PTL
  <1> DEFINE n == status'[d].body.observed
  <1>2. /\ spec'[d] # NoDoc /\ spec'[d].rev = n /\ n \in Nat
        /\ status'[d] # NoDoc /\ status'[d].body.conditions.successful
    BY <1>1 DEF Reported, SyncType
  \* The claim of an answered job, or of a write that lands.
  <1>3. ASSUME NEW w \in Workers, Target(w) = d, UNCHANGED <<object, disturbed>>,
               job[w].pc \in {"fetchStatus", "create", "replace"},
               status'[d].body = NewStatus(job[w])
        PROVE  object'[d].content = n /\ object'[d].gen = status'[d].body.gen /\ n = job[w].rev
    BY <1>2, <1>3, SuccessMeansNoError DEF AppliedInv, JobsHold, Answered, NewStatus
  <1>4. n <= Latest(d)
    <2>1. CASE status'[d] = status[d]
      BY <1>1, <1>2, <2>1 DEF OrderInv, NothingFromTheFuture
    <2>2. ASSUME NEW w \in Workers, Target(w) = d, StatusWrite(w, Successes), n = job[w].rev
          PROVE  n <= Latest(d)
      BY <2>2 DEF OrderInv, NothingFromTheFuture, StatusWrite
    <2>3. ASSUME NEW r \in wire, LateWrite(r), r.doc = d, r.body = status'[d].body
          PROVE  n <= Latest(d)
      BY <2>3 DEF OrderInv, NothingFromTheFuture, LateWrite
    <2> QED
      BY <1>1, <2>1, <2>2, <2>3, StatusOrigin
  <1>5. spec'[d] = spec[d] /\ n = Latest(d)
    BY <1>1, <1>2, <1>4, NamedBefore DEF OrderInv
  <1>6. object'[d].content = n
    <2>1. CASE status'[d] # status[d]
      <3>1. ASSUME NEW r \in wire, IsWrite(r), r.doc = d, r.body = status'[d].body,
                   UNCHANGED <<object, disturbed>>
            PROVE  object'[d].content = n
        BY <1>2, <1>5, <3>1 DEF AppliedInv, WritesHold
      <3> QED
        BY <1>3, <2>1, <3>1, ReportOrigin
    <2>2. CASE status'[d] = status[d] /\ object'[d] = object[d] /\ d \notin disturbed
      <3>1. Reported(d)
        BY <1>2, <1>5, <2>2 DEF Reported
      <3> QED
        BY <1>2, <1>5, <2>2, <3>1 DEF AppliedInv, ReportsHold
    <2>3. ASSUME status'[d] = status[d], NEW w \in Workers, ApplyDone(w), Target(w) = d
          PROVE  object'[d].content = n
      <3>1. Fetched(w) /\ object'[d].content = job[w].rev
        BY <2>3, ApplyAnswers
      <3>2. n <= job[w].rev /\ job[w].rev <= Latest(d) /\ job[w].rev \in Nat
        BY <1>1, <1>2, <2>3, <3>1 DEF OrderInv, SyncsAreAhead, NothingFromTheFuture, SyncType
      <3> QED
        BY <1>2, <1>5, <3>1, <3>2
    <2> QED
      BY <2>1, <2>2, <2>3, ObjectOrigin
  <1>7. ASSUME Delivered(d)', Quiet(d)'
        PROVE  object'[d].gen = status'[d].body.gen
    <2> DEFINE k == KeyOf(d, spec[d])
    <2>1. /\ Delivered(d) /\ spec[d] \in SpecDoc /\ spec[d].scope = home[d]
          /\ \/ Quiet(d) /\ status'[d] = status[d]
             \/ \E w \in Workers : EndsWell(w, d, Successes)
      BY <1>1, <1>7, QuietOrigin DEF Delivered, SyncType, InScope
    <2>2. up' /\ k \notin dirty' \cup processing' \cup retry' /\ d \notin swallowed'
      BY <1>5, <1>7 DEF Quiet, Scheduled, Overtaken, KeyOf
    <2>3. \A w \in Workers : Busy(w) /\ Target(w) = d => job[w].key = k
      BY <1>1, <2>1, OneKeyPerDocument DEF OrderInv
    <2>4. ASSUME NEW w \in Workers, EndsWell(w, d, Successes)
          PROVE  object'[d].gen = status'[d].body.gen
      <3>1. Target(w) = d /\ job[w].key = k
        BY <2>3, <2>4 DEF EndsWell, Fetched, Busy
      <3> QED
        BY <1>3, <2>2, <2>4, <3>1, QuietAnswer
    <2>5. CASE Quiet(d) /\ status'[d] = status[d]
      <3>1. ASSUME NEW w \in Workers, ApplyDone(w), Target(w) = d PROVE FALSE
        <4>1. Busy(w) /\ processing' = processing
          BY <3>1, ApplyAnswers DEF Fetched, Busy, queueVars
        <4> QED
          BY <2>2, <2>3, <3>1, <4>1 DEF OrderInv, OneWorkerPerKey
      <3>2. object'[d] = object[d] /\ d \notin disturbed
        BY <3>1, ObjectOrigin
      <3>3. Reported(d)
        BY <1>2, <1>5, <2>5 DEF Reported
      <3> QED
        BY <2>1, <2>5, <3>2, <3>3 DEF AppliedInv, ReportsHold
    <2> QED
      BY <2>1, <2>4, <2>5
  <1> QED
    BY <1>2, <1>6, <1>7

\* While documents stay in scope, an object reported applied under its current revision
\* is live, unless other hands or a late apply were on it since; and between two syncs
\* so is the generation.
THEOREM ReportedIsApplied ==
    ASSUME NEW home
    PROVE  Spec /\ []InScope(home) => []ReportedMeansApplied
  <1>1. Init => AppliedInv
    BY DEF Init, StoreInit, WorkerInit, Idle, AppliedInv, ReportsHold, JobsHold, WritesHold,
           Reported, Answered
  <1>2. /\ TypeOK /\ TypeOK' /\ InScope(home) /\ OrderInv(home) /\ ForgetInv(Successes)
        /\ AppliedInv /\ [Next]_vars
        => AppliedInv'
    BY JobsHoldStep, WritesHoldStep, ReportsHoldStep DEF AppliedInv, ForgetInv
  <1>3. AppliedInv => ReportedMeansApplied
    BY DEF AppliedInv, ReportsHold, ReportedMeansApplied, Delivered, Quiet, Reported
  <1> QED
    BY <1>1, <1>2, <1>3, SyncInvariant, TypeCorrect, PTL DEF Spec
=============================================================================
