---------------------------- MODULE DesireLemmas ----------------------------
(***************************************************************************)
(* Facts about the steps the desire controllers share, for any set J of    *)
(* jobs and any set B of status bodies a controller works with.            *)
(***************************************************************************)
EXTENDS DesireWorker, Conditions, TLAPS

\* Every document stays in one scope, home[d], whoever writes it.
InScope(home) == \A d \in Docs : spec[d] # NoDoc => spec[d].scope = home[d]

\* No revision of d is later than this one.
Latest(d) == IF spec[d] = NoDoc THEN rev ELSE spec[d].rev

\* The conditions of any error class are conditions.
LEMMA ConditionsType ==
    ASSUME NEW e \in Errors
    PROVE  SetConditions(e) \in Conditions
  BY DEF Errors, SetConditions, Conditions, SuccessfulReason, Reasons, ClassifyAsDegraded

\* A sync reports success exactly when it ended without an error.
LEMMA SuccessMeansNoError ==
    ASSUME NEW e
    PROVE  SetConditions(e).successful <=> e = "none"
  BY DEF SetConditions

\* The count of failures stays a number.
LEMMA FaultType ==
    ASSUME faults \in Nat, Fault
    PROVE  faults' \in Nat
  BY DEF Fault

\* A job that ends leaves its worker idle, the others alone and the queue sane.
LEMMA FinishType ==
    ASSUME NEW J, job \in [Workers -> J], Idle \in J, NEW K, QueueTypeOK(K),
           NEW w \in Workers, job[w].key \in K, NEW failed, Finish(w, failed)
    PROVE  /\ job' \in [Workers -> J]
           /\ job'[w] = Idle
           /\ \A x \in Workers \ {w} : job'[x] = job[x]
           /\ QueueTypeOK(K)'
  BY DEF Finish, Done, QueueTypeOK

\* What a job hands to the status database is a request for its body.
LEMMA PendingWriteType ==
    ASSUME NEW j, NEW B, NEW b \in B, DocOf(j) \in Docs, j.ver \in Nat
    PROVE  PendingWrite(j, b) \subseteq StatusRequests(B)
  BY DEF PendingWrite, StatusRequests, CreateRequest, ReplaceRequest

\* A status write keeps the status database well formed.
LEMMA StatusWriteType ==
    ASSUME NEW B, status \in [Docs -> [ver: Nat, body: B] \cup {NoDoc}],
           NEW d \in Docs, NEW v \in Nat, NEW b \in B, Create(d, b) \/ Replace(d, v, b)
    PROVE  status' \in [Docs -> [ver: Nat, body: B] \cup {NoDoc}]
  BY DEF Create, Replace, CanReplace, WriteStatus

\* A status write changes one document, to the body it carries.
LEMMA StatusWriteBody ==
    ASSUME NEW S, status \in [Docs -> S], NEW d \in Docs, NEW v, NEW b,
           Create(d, b) \/ Replace(d, v, b)
    PROVE  /\ status'[d].body = b
           /\ \A e \in Docs \ {d} : status'[e] = status[e]
  BY DEF Create, Replace, WriteStatus
=============================================================================
