-------------------------- MODULE DesireSyncProofs --------------------------
(***************************************************************************)
(* What a controller built on DesireWorker guarantees whatever it does to  *)
(* its target: the revisions it reports only ever go up, and no delivered  *)
(* revision is forgotten.  The arguments are about spec and status         *)
(* documents, the informer's cache, the queue and the jobs; they are given *)
(* once, for SyncStep, and a controller shows that each of its steps is    *)
(* one.                                                                    *)
(*                                                                         *)
(* They hold while every document stays in one scope, home[d]: two keys of *)
(* one document can be synced at the same time, and the older revision may *)
(* be the last to be reported.                                             *)
(***************************************************************************)
EXTENDS DesireLemmas

-----------------------------------------------------------------------------
(***************************************************************************)
(* The steps.                                                              *)
(***************************************************************************)
Busy(w) == job[w].pc # "idle"
Target(w) == DocOf(job[w])

\* The sync of w has fetched the spec; its job holds the revision.
Fetched(w) == job[w].pc \notin {"idle", "fetchSpec"}

IsWrite(r) == r.op \in {"create", "replace"}

\* r is the status write that w waits for.
OwnWrite(w, r) ==
    /\ Fetched(w)
    /\ r.doc = Target(w) /\ r.body.observed = job[w].rev
    /\ r.op = "replace" => job[w].pc = "replace" /\ r.ver = job[w].ver

OnlyWorker(w) == \A x \in Workers \ {w} : job'[x] = job[x]
StatusKept == UNCHANGED <<status, swallowed, landed>>
NoNewWrites == \A r \in wire' : IsWrite(r) => r \in wire

\* The status of d becomes b, in a later version of the document.
StatusBecomes(d, b) ==
    /\ status'[d] # NoDoc
    /\ status'[d].body = b
    /\ status'[d].ver \in Nat
    /\ status[d] # NoDoc => status'[d].ver > status[d].ver
    /\ \A e \in Docs \ {d} : status'[e] = status[e]

\* Steps that concern neither documents nor jobs; at most a key is queued again.
Background ==
    /\ UNCHANGED <<rev, spec, cache, up, job, processing>> /\ StatusKept /\ NoNewWrites
    /\ dirty \subseteq dirty'
    /\ retry' \subseteq retry /\ retry \subseteq retry' \cup dirty'
    /\ \A k \in dirty' : \/ k \in dirty \cup retry
                         \/ \E d \in Docs : cache[d] # NoDoc /\ k = KeyOf(d, cache[d])

StoreStep(d) ==
    /\ \/ \E kind \in Kinds, scope \in Scopes : WriteSpec(d, kind, scope)
       \/ DeleteSpec(d)
    /\ UNCHANGED <<queueVars, cache, up, job, wire, swallowed, landed>>

InformerStep(d) ==
    /\ up
    /\ HandleChange(d) \/ DropDeleted(d)
    /\ UNCHANGED <<rev, spec, up, job, wire>> /\ StatusKept

SyncStarts(w, k) ==
    /\ up /\ ~Busy(w)
    /\ Get(k)
    /\ job'[w].pc = "fetchSpec" /\ job'[w].key = k
    /\ OnlyWorker(w)
    /\ UNCHANGED <<rev, spec, cache, up, wire>> /\ StatusKept

SyncFetches(w) ==
    /\ job[w].pc = "fetchSpec" /\ spec[Target(w)] # NoDoc
    /\ Fetched(w)' /\ job'[w].pc # "replace"
    /\ job'[w].key = job[w].key /\ job'[w].rev = spec[Target(w)].rev
    /\ OnlyWorker(w)
    /\ UNCHANGED <<rev, spec, queueVars, cache, up, wire>> /\ StatusKept

SyncGoesOn(w) ==
    /\ Fetched(w) /\ Fetched(w)' /\ job'[w].pc # "replace"
    /\ job'[w].key = job[w].key /\ job'[w].rev = job[w].rev
    /\ OnlyWorker(w)
    /\ NoNewWrites
    /\ UNCHANGED <<rev, spec, queueVars, cache, up>> /\ StatusKept

\* The worker is done with its key.
Ends(w, failed) ==
    /\ up
    /\ Done(job[w].key, failed)
    /\ ~Busy(w)'
    /\ OnlyWorker(w)
    /\ UNCHANGED <<rev, spec, cache, up>>

\* The sync fails, its status write possibly still under way, or has nothing to do.
SyncStops(w) ==
    /\ Busy(w)
    /\ \/ Ends(w, TRUE)
       \/ Ends(w, FALSE) /\ job[w].pc = "fetchSpec" /\ spec[Target(w)] = NoDoc
    /\ \A r \in wire' \ wire : IsWrite(r) => OwnWrite(w, r)
    /\ StatusKept

\* G: the bodies a sync without an error may leave.
StatusRead(w, G) ==
    /\ Fetched(w)
    /\ Seen(Target(w))
    /\ \/ /\ Fetched(w)'
          /\ job'[w].key = job[w].key /\ job'[w].rev = job[w].rev
          /\ job'[w].pc = "replace" =>
                status[Target(w)] # NoDoc /\ job'[w].ver = status[Target(w)].ver
          /\ OnlyWorker(w)
          /\ UNCHANGED <<rev, spec, queueVars, cache, up>>
       \/ \E failed \in BOOLEAN :
             /\ Ends(w, failed)
             /\ status[Target(w)] # NoDoc
             /\ status[Target(w)].body.observed = job[w].rev
             /\ failed \/ status[Target(w)].body \in G
    /\ UNCHANGED <<status, wire>>

StatusWrite(w, G) ==
    /\ Fetched(w)
    /\ \E failed \in BOOLEAN :
          /\ Ends(w, failed)
          /\ \/ /\ StatusBecomes(Target(w), status'[Target(w)].body)
                /\ status'[Target(w)].body.observed = job[w].rev
                /\ failed \/ status'[Target(w)].body \in G
                /\ UNCHANGED swallowed
             \/ /\ UNCHANGED status
                /\ swallowed' = swallowed \cup {Target(w)}
    /\ UNCHANGED <<wire, landed>>

LateWrite(r) ==
    /\ IsWrite(r)
    /\ IF r.op = "create" THEN status[r.doc] = NoDoc
       ELSE status[r.doc] # NoDoc /\ status[r.doc].ver = r.ver
    /\ StatusBecomes(r.doc, r.body)
    /\ landed' = landed \cup {r.doc}
    /\ wire' \subseteq wire
    /\ UNCHANGED <<rev, spec, queueVars, cache, up, job, swallowed>>

LeaderDies ==
    /\ ~up'
    /\ \A d \in Docs : cache'[d] = NoDoc
    /\ QueueLost
    /\ \A w \in Workers : ~Busy(w)'
    /\ \A r \in wire' \ wire : IsWrite(r) => \E w \in Workers : OwnWrite(w, r)
    /\ UNCHANGED <<rev, spec>> /\ StatusKept

LeaderStarts ==
    /\ ~up /\ up'
    /\ UNCHANGED <<rev, spec, queueVars, cache, job, wire>> /\ StatusKept

SyncStep(G) ==
    \/ Background
    \/ \E d \in Docs : StoreStep(d) \/ InformerStep(d)
    \/ \E w \in Workers :
          \/ \E k \in Keys : SyncStarts(w, k)
          \/ SyncFetches(w) \/ SyncGoesOn(w) \/ SyncStops(w)
          \/ StatusRead(w, G) \/ StatusWrite(w, G)
    \/ \E r \in wire : LateWrite(r)
    \/ LeaderDies
    \/ LeaderStarts

\* What the arguments need of a controller's types.
SyncType ==
    /\ rev \in Nat
    /\ spec \in [Docs -> SpecDoc \cup {NoDoc}]
    /\ cache \in [Docs -> SpecDoc \cup {NoDoc}]
    /\ QueueTypeOK(Keys)
    /\ \A d \in Docs : status[d] # NoDoc =>
          status[d].ver \in Nat /\ status[d].body.observed \in Nat
    /\ \A w \in Workers :
          /\ Busy(w) => job[w].key \in Keys /\ Target(w) \in Docs
          /\ Fetched(w) => job[w].rev \in Nat /\ job[w].ver \in Nat
    /\ \A r \in wire : IsWrite(r) =>
          /\ r.doc \in Docs /\ r.body.observed \in Nat
          /\ r.op = "replace" => r.ver \in Nat

-----------------------------------------------------------------------------
(***************************************************************************)
(* Revisions in order.  No two workers are on the same document; nothing   *)
(* anywhere names a revision later than the document's last, and a sync    *)
(* under way has one no earlier than any status written or still to come.  *)
(***************************************************************************)
Homed(home) ==
    /\ \A d \in Docs : cache[d] # NoDoc => cache[d].scope = home[d]
    /\ \A k \in dirty \cup processing \cup retry : k.scope = home[k.name]

OneWorkerPerKey ==
    /\ \A w \in Workers : Busy(w) => job[w].key \in processing
    /\ \A w, x \in Workers : Busy(w) /\ Busy(x) /\ job[w].key = job[x].key => w = x

NothingFromTheFuture ==
    /\ \A d \in Docs : spec[d] # NoDoc => spec[d].rev <= rev
    /\ \A d \in Docs : cache[d] # NoDoc => cache[d].rev <= rev
    /\ \A d \in Docs : status[d] # NoDoc => status[d].body.observed <= Latest(d)
    /\ \A r \in wire : IsWrite(r) => r.body.observed <= Latest(r.doc)
    /\ \A w \in Workers : Fetched(w) => job[w].rev <= Latest(Target(w))

SyncsAreAhead ==
    \A w \in Workers : Fetched(w) =>
        /\ status[Target(w)] # NoDoc => status[Target(w)].body.observed <= job[w].rev
        /\ \A r \in wire : IsWrite(r) /\ r.doc = Target(w) => r.body.observed <= job[w].rev
        /\ job[w].pc = "replace" =>
              status[Target(w)] # NoDoc /\ job[w].ver <= status[Target(w)].ver

\* A Replace left on the wire succeeds only over a status no later than its own.
LateWritesFit ==
    \A r \in wire : r.op = "replace" =>
        /\ status[r.doc] # NoDoc
        /\ r.ver <= status[r.doc].ver
        /\ r.ver = status[r.doc].ver => status[r.doc].body.observed <= r.body.observed

OrderInv(home) ==
    /\ Homed(home)
    /\ OneWorkerPerKey
    /\ NothingFromTheFuture
    /\ SyncsAreAhead
    /\ LateWritesFit

\* Only the backend changes the specs database.
LEMMA SpecsKept ==
    ASSUME NEW G, SyncStep(G), ~ \E d \in Docs : StoreStep(d)
    PROVE  UNCHANGED <<rev, spec>>
  BY DEF SyncStep, Background, InformerStep, SyncStarts, SyncFetches, SyncGoesOn,
         SyncStops, StatusRead, StatusWrite, Ends, LateWrite, LeaderDies, LeaderStarts

\* Revisions only go up, and so does the last one of every document; a spec that
\* is written gets one of its own.
LEMMA LatestGrows ==
    ASSUME SyncType, NothingFromTheFuture, NEW G, SyncStep(G)
    PROVE  /\ rev' \in Nat /\ rev <= rev'
           /\ \A d \in Docs : Latest(d) \in Nat /\ Latest(d)' \in Nat /\ Latest(d) <= Latest(d)'
           /\ \A d \in Docs : spec'[d] # NoDoc =>
                 /\ spec'[d].rev \in Nat /\ spec'[d].rev <= rev'
                 /\ spec'[d] # spec[d] => spec'[d].rev = rev + 1 /\ rev' = rev + 1
  <1> USE DEF SyncType, NothingFromTheFuture, Latest, SpecDoc
  <1>1. CASE UNCHANGED <<rev, spec>>
    BY <1>1
  <1>2. ASSUME NEW e \in Docs, NEW kind \in Kinds, NEW scope \in Scopes,
               WriteSpec(e, kind, scope)
        PROVE  /\ rev' = rev + 1
               /\ spec'[e].rev = rev + 1
               /\ \A d \in Docs \ {e} : spec'[d] = spec[d]
    BY <1>2 DEF WriteSpec
  <1>3. ASSUME NEW e \in Docs, DeleteSpec(e)
        PROVE  /\ rev' = rev
               /\ spec'[e] = NoDoc
               /\ \A d \in Docs \ {e} : spec'[d] = spec[d]
    BY <1>3 DEF DeleteSpec
  <1>4. ASSUME NEW e \in Docs,
               \/ rev' = rev + 1 /\ spec'[e].rev = rev + 1
               \/ rev' = rev /\ spec'[e] = NoDoc,
               \A d \in Docs \ {e} : spec'[d] = spec[d],
               NEW d \in Docs
        PROVE  /\ rev' \in Nat /\ rev <= rev'
               /\ Latest(d) \in Nat /\ Latest(d)' \in Nat /\ Latest(d) <= Latest(d)'
               /\ spec'[d] # NoDoc =>
                     /\ spec'[d].rev \in Nat /\ spec'[d].rev <= rev'
                     /\ spec'[d] # spec[d] => spec'[d].rev = rev + 1 /\ rev' = rev + 1
    BY <1>4
  <1> QED
    BY <1>1, <1>2, <1>3, <1>4, SpecsKept DEF StoreStep

\* Whatever is queued or cached stays in its document's scope.
LEMMA HomedStep ==
    ASSUME SyncType, NEW home, InScope(home), Homed(home), OneWorkerPerKey,
           NEW G, SyncStep(G)
    PROVE  Homed(home)'
  <1> USE DEF Homed
  <1>1. CASE Background
    BY <1>1 DEF Background, KeyOf
  <1>2. ASSUME NEW d \in Docs, StoreStep(d) PROVE Homed(home)'
    BY <1>2 DEF StoreStep, queueVars
  <1>3. ASSUME NEW d \in Docs, InformerStep(d) PROVE Homed(home)'
    BY <1>3 DEF InformerStep, HandleChange, DropDeleted, Add, KeyOf, queueVars, InScope, SyncType
  <1>4. ASSUME NEW w \in Workers, NEW k \in Keys, SyncStarts(w, k) PROVE Homed(home)'
    BY <1>4 DEF SyncStarts, Get, Available
  <1>5. ASSUME NEW w \in Workers, Busy(w), NEW failed, Ends(w, failed) PROVE Homed(home)'
    BY <1>5 DEF Ends, Done, OneWorkerPerKey
  <1>6. ASSUME NEW w \in Workers,
               SyncFetches(w) \/ SyncGoesOn(w) \/ SyncStops(w)
                  \/ StatusRead(w, G) \/ StatusWrite(w, G)
        PROVE  Homed(home)'
    BY <1>5, <1>6 DEF SyncFetches, SyncGoesOn, SyncStops, StatusRead, StatusWrite,
                      Fetched, Busy, queueVars
  <1>7. CASE (\E r \in wire : LateWrite(r)) \/ LeaderDies \/ LeaderStarts
    BY <1>7 DEF LateWrite, LeaderDies, QueueLost, LeaderStarts, queueVars
  <1> QED
    BY <1>1, <1>2, <1>3, <1>4, <1>6, <1>7 DEF SyncStep

\* A key is handed to one worker at a time.
LEMMA OneWorkerStep ==
    ASSUME SyncType, OneWorkerPerKey, NEW G, SyncStep(G)
    PROVE  OneWorkerPerKey'
  <1> USE DEF OneWorkerPerKey, Busy
  <1>1. CASE Background
    BY <1>1 DEF Background
  <1>2. ASSUME NEW d \in Docs, StoreStep(d) \/ InformerStep(d) PROVE OneWorkerPerKey'
    BY <1>2 DEF StoreStep, InformerStep, HandleChange, DropDeleted, queueVars
  <1>3. ASSUME NEW w \in Workers, NEW k \in Keys, SyncStarts(w, k) PROVE OneWorkerPerKey'
    BY <1>3 DEF SyncStarts, OnlyWorker, Get, Available
  <1>4. ASSUME NEW w \in Workers, Busy(w), NEW failed, Ends(w, failed)
        PROVE  OneWorkerPerKey'
    BY <1>4 DEF Ends, Done, OnlyWorker
  <1>5. ASSUME NEW w \in Workers, Busy(w), Busy(w)', job'[w].key = job[w].key,
               OnlyWorker(w), UNCHANGED processing
        PROVE  OneWorkerPerKey'
    BY <1>5 DEF OnlyWorker
  <1>6. ASSUME NEW w \in Workers,
               SyncFetches(w) \/ SyncGoesOn(w) \/ SyncStops(w)
                  \/ StatusRead(w, G) \/ StatusWrite(w, G)
        PROVE  OneWorkerPerKey'
    BY <1>4, <1>5, <1>6 DEF SyncFetches, SyncGoesOn, SyncStops, StatusRead, StatusWrite,
                            Fetched, queueVars
  <1>7. CASE (\E r \in wire : LateWrite(r)) \/ LeaderDies \/ LeaderStarts
    BY <1>7 DEF LateWrite, LeaderDies, LeaderStarts, queueVars
  <1> QED
    BY <1>1, <1>2, <1>3, <1>4, <1>6, <1>7 DEF SyncStep

\* While documents stay in scope, no two workers are on the same document.
LEMMA OneWorkerPerDocument ==
    ASSUME SyncType, NEW home, Homed(home), OneWorkerPerKey,
           NEW w \in Workers, NEW x \in Workers, Busy(w), Busy(x), Target(w) = Target(x)
    PROVE  w = x
  <1>1. job[w].key \in Keys /\ job[x].key \in Keys /\ job[w].key.name = job[x].key.name
    BY DEF SyncType, Target, DocOf
  <1>2. job[w].key.scope = job[x].key.scope
    BY <1>1 DEF Homed, OneWorkerPerKey
  <1>3. job[w].key = job[x].key
    BY <1>1, <1>2 DEF Keys
  <1> QED
    BY <1>3 DEF OneWorkerPerKey

-----------------------------------------------------------------------------
(***************************************************************************)
(* Where revisions come from.                                              *)
(***************************************************************************)
\* A status changes when a sync writes it or a request left on the wire lands.
LEMMA StatusOrigin ==
    ASSUME SyncType, NEW G, SyncStep(G), NEW d \in Docs, status'[d] # status[d]
    PROVE  /\ StatusBecomes(d, status'[d].body)
           /\ \/ \E w \in Workers :
                    /\ StatusWrite(w, G) /\ Target(w) = d
                    /\ status'[d].body.observed = job[w].rev
              \/ \E r \in wire :
                    LateWrite(r) /\ r.doc = d /\ r.body = status'[d].body
  <1>1. CASE \E w \in Workers : StatusWrite(w, G)
    <2>1. PICK w \in Workers : StatusWrite(w, G)
      BY <1>1
    <2>2. StatusBecomes(Target(w), status'[Target(w)].body)
          /\ status'[Target(w)].body.observed = job[w].rev
      BY <2>1 DEF StatusWrite
    <2>3. Target(w) = d
      BY <2>2 DEF StatusBecomes
    <2> QED
      BY <2>1, <2>2, <2>3
  <1>2. CASE \E r \in wire : LateWrite(r)
    <2>1. PICK r \in wire : LateWrite(r)
      BY <1>2
    <2>2. StatusBecomes(r.doc, r.body) /\ r.doc \in Docs
      BY <2>1 DEF LateWrite, SyncType
    <2>3. r.doc = d
      BY <2>2 DEF StatusBecomes
    <2> QED
      BY <2>1, <2>2, <2>3 DEF StatusBecomes
  <1> QED
    BY <1>1, <1>2 DEF SyncStep, Background, StoreStep, WriteSpec, DeleteSpec, InformerStep,
       SyncStarts, SyncFetches, SyncGoesOn, SyncStops, StatusRead, LeaderDies,
       LeaderStarts, StatusKept

\* A status write on the wire was left there by its worker.
LEMMA WireOrigin ==
    ASSUME NEW G, SyncStep(G), NEW r \in wire', IsWrite(r)
    PROVE  r \in wire \/ \E w \in Workers : OwnWrite(w, r)
  BY DEF SyncStep, Background, StoreStep, InformerStep, SyncStarts, SyncFetches,
         SyncGoesOn, SyncStops, StatusRead, StatusWrite, LateWrite, LeaderDies,
         LeaderStarts, NoNewWrites

\* A sync has the revision it had, or has just fetched it.
LEMMA JobOrigin ==
    ASSUME NEW G, SyncStep(G), NEW w \in Workers, Fetched(w)'
    PROVE  /\ Busy(w) /\ Target(w)' = Target(w) /\ job'[w].key = job[w].key
           /\ \/ /\ Fetched(w)
                 /\ job'[w].rev = job[w].rev
                 /\ \/ job'[w].pc # "replace"
                    \/ job'[w] = job[w]
                    \/ /\ status[Target(w)] # NoDoc /\ UNCHANGED status
                       /\ job'[w].ver = status[Target(w)].ver
              \/ SyncFetches(w)
  <1> USE DEF Fetched, Busy, Target, DocOf
  <1>1. CASE job'[w] = job[w]
    BY <1>1
  <1>2. ASSUME NEW x \in Workers \ {w},
               \/ \E k \in Keys : SyncStarts(x, k)
               \/ SyncFetches(x) \/ SyncGoesOn(x) \/ SyncStops(x)
               \/ StatusRead(x, G) \/ StatusWrite(x, G)
        PROVE  job'[w] = job[w]
    BY <1>2 DEF SyncStarts, SyncFetches, SyncGoesOn, SyncStops, StatusRead,
                StatusWrite, Ends, OnlyWorker
  <1>3. CASE SyncFetches(w) \/ SyncGoesOn(w) \/ StatusRead(w, G)
    BY <1>3 DEF SyncFetches, SyncGoesOn, StatusRead, Ends
  <1>4. ~((\E k \in Keys : SyncStarts(w, k)) \/ SyncStops(w) \/ StatusWrite(w, G) \/ LeaderDies)
    BY DEF SyncStarts, SyncStops, StatusWrite, Ends, LeaderDies
  <1> QED
    BY <1>1, <1>2, <1>3, <1>4 DEF SyncStep, Background, StoreStep, InformerStep, LateWrite,
                                  LeaderStarts

-----------------------------------------------------------------------------
(***************************************************************************)
(* The order of revisions is inductive.                                    *)
(***************************************************************************)
\* No step makes anything name a revision later than the document's last.
LEMMA NothingFromTheFutureStep ==
    ASSUME SyncType, SyncType', NothingFromTheFuture, NEW G, SyncStep(G)
    PROVE  NothingFromTheFuture'
  <1>1. /\ \A d \in Docs : Latest(d) \in Nat /\ Latest(d)' \in Nat /\ Latest(d) <= Latest(d)'
        /\ rev \in Nat /\ rev' \in Nat /\ rev <= rev'
        /\ \A d \in Docs : spec'[d] # NoDoc => spec'[d].rev <= rev'
    BY LatestGrows DEF SyncType
  <1>2. ASSUME NEW d \in Docs, cache'[d] # NoDoc PROVE cache'[d].rev <= rev'
    <2>1. cache'[d] = cache[d] \/ cache'[d] = spec[d]
      BY <1>2 DEF SyncStep, Background, StoreStep, InformerStep, HandleChange, DropDeleted,
                  SyncStarts, SyncFetches, SyncGoesOn, SyncStops, StatusRead, StatusWrite,
                  Ends, LateWrite, LeaderDies, LeaderStarts, SyncType
    <2> QED
      BY <1>1, <1>2, <2>1 DEF NothingFromTheFuture, SyncType, SpecDoc
  <1>3. ASSUME NEW w \in Workers, Fetched(w), NEW d, d = Target(w)
        PROVE  d \in Docs /\ job[w].rev <= Latest(d)'
    BY <1>1, <1>3 DEF NothingFromTheFuture, SyncType, Fetched, Busy
  <1>4. ASSUME NEW r \in wire, IsWrite(r)
        PROVE  r.body.observed <= Latest(r.doc)'
    BY <1>1, <1>4 DEF NothingFromTheFuture, SyncType
  <1>5. ASSUME NEW d \in Docs, status'[d] # NoDoc
        PROVE  status'[d].body.observed <= Latest(d)'
    <2>1. CASE status'[d] = status[d]
      BY <1>1, <1>5, <2>1 DEF NothingFromTheFuture, SyncType
    <2>2. ASSUME NEW w \in Workers, StatusWrite(w, G), Target(w) = d,
                 status'[d].body.observed = job[w].rev
          PROVE  status'[d].body.observed <= Latest(d)'
      BY <1>3, <2>2 DEF StatusWrite
    <2>3. ASSUME NEW r \in wire, LateWrite(r), r.doc = d, r.body = status'[d].body
          PROVE  status'[d].body.observed <= Latest(d)'
      BY <1>4, <2>3 DEF LateWrite
    <2> QED
      BY <2>1, <2>2, <2>3, StatusOrigin
  <1>6. ASSUME NEW r \in wire', IsWrite(r)
        PROVE  r.body.observed <= Latest(r.doc)'
    BY <1>3, <1>4, <1>6, WireOrigin DEF OwnWrite
  <1>7. ASSUME NEW w \in Workers, Fetched(w)'
        PROVE  job'[w].rev <= Latest(Target(w))'
    <2>1. CASE Fetched(w) /\ job'[w].rev = job[w].rev
      <3>1. Target(w)' = Target(w) /\ \A d : d = Target(w) => job[w].rev <= Latest(d)'
        BY <1>3, <1>7, <2>1, JobOrigin
      <3> QED
        BY <2>1, <3>1
    <2>2. CASE SyncFetches(w)
      BY <1>1, <1>7, <2>2, JobOrigin DEF SyncFetches, Latest, SyncType
    <2> QED
      BY <1>7, <2>1, <2>2, JobOrigin
  <1> QED
    BY <1>1, <1>2, <1>5, <1>6, <1>7 DEF NothingFromTheFuture

\* A version of a status document that was once read is not exceeded by its past.
LEMMA StatusGrows ==
    ASSUME SyncType, NEW G, SyncStep(G), NEW d \in Docs, status[d] # NoDoc
    PROVE  /\ status'[d] # NoDoc
           /\ status[d].ver <= status'[d].ver
           /\ status'[d].ver = status[d].ver => status'[d] = status[d]
  <1>1. CASE status'[d] = status[d]
    BY <1>1 DEF SyncType
  <1>2. CASE status'[d] # status[d]
    BY <1>2, StatusOrigin DEF StatusBecomes, SyncType
  <1> QED
    BY <1>1, <1>2

\* A sync under way stays ahead of everything written about its document: it
\* fetched the last revision, and no other worker is on the document.
LEMMA SyncsAreAheadStep ==
    ASSUME SyncType, SyncType', NEW home, OrderInv(home), NEW G, SyncStep(G)
    PROVE  SyncsAreAhead'
  <1> SUFFICES ASSUME NEW w \in Workers, Fetched(w)'
               PROVE  /\ status'[Target(w)'] # NoDoc =>
                            status'[Target(w)'].body.observed <= job'[w].rev
                      /\ \A r \in wire' : IsWrite(r) /\ r.doc = Target(w)' =>
                            r.body.observed <= job'[w].rev
                      /\ job'[w].pc = "replace" =>
                            /\ status'[Target(w)'] # NoDoc
                            /\ job'[w].ver <= status'[Target(w)'].ver
    BY DEF SyncsAreAhead
  <1> DEFINE d == Target(w)
  <1>1. /\ Busy(w) /\ Target(w)' = d /\ d \in Docs
        /\ \A x \in Workers : Busy(x) /\ Target(x) = d => x = w
    BY JobOrigin, OneWorkerPerDocument DEF OrderInv, SyncType
  <1>2. CASE SyncFetches(w)
    <2>1. /\ job'[w].rev = Latest(d) /\ job'[w].pc # "replace"
          /\ status' = status /\ wire' = wire
      BY <1>2 DEF SyncFetches, Latest, StatusKept
    <2> QED
      BY <1>1, <1>2, <2>1 DEF OrderInv, NothingFromTheFuture, SyncFetches
  <1>3. CASE Fetched(w) /\ job'[w].rev = job[w].rev
    <2>1. ASSUME NEW r \in wire', IsWrite(r), r.doc = d
          PROVE  r.body.observed <= job[w].rev
      <3>1. CASE r \in wire
        BY <1>3, <2>1, <3>1 DEF OrderInv, SyncsAreAhead
      <3>2. CASE \E x \in Workers : OwnWrite(x, r)
        BY <1>1, <1>3, <2>1, <3>2 DEF OwnWrite, Fetched, Busy, SyncType
      <3> QED
        BY <2>1, <3>1, <3>2, WireOrigin
    <2>2. status'[d] # NoDoc => status'[d].body.observed <= job[w].rev
      <3>1. CASE status'[d] = status[d]
        BY <1>3, <3>1 DEF OrderInv, SyncsAreAhead
      <3>2. ASSUME NEW r \in wire, LateWrite(r), r.doc = d, r.body = status'[d].body
            PROVE  status'[d].body.observed <= job[w].rev
        BY <1>3, <3>2 DEF OrderInv, SyncsAreAhead, LateWrite
      <3>3. ASSUME NEW x \in Workers, StatusWrite(x, G), Target(x) = d,
                   status'[d].body.observed = job[x].rev
            PROVE  status'[d].body.observed <= job[w].rev
        BY <1>1, <1>3, <3>3 DEF StatusWrite, Fetched, Busy, SyncType
      <3> QED
        BY <1>1, <3>1, <3>2, <3>3, StatusOrigin
    <2>3. job'[w].pc = "replace" => status'[d] # NoDoc /\ job'[w].ver <= status'[d].ver
      <3>1. CASE job'[w] = job[w]
        BY <1>1, <1>3, <3>1, StatusGrows DEF OrderInv, SyncsAreAhead, SyncType
      <3>2. CASE status[d] # NoDoc /\ UNCHANGED status /\ job'[w].ver = status[d].ver
        BY <1>1, <3>2 DEF SyncType
      <3>3. CASE job'[w].pc # "replace"
        BY <3>3
      <3> QED
        BY <1>2, <3>1, <3>2, <3>3, JobOrigin DEF SyncFetches
    <2> QED
      BY <1>1, <1>3, <2>1, <2>2, <2>3
  <1> QED
    BY <1>2, <1>3, JobOrigin

\* The precondition of a Replace left on the wire still protects later revisions.
LEMMA LateWritesFitStep ==
    ASSUME SyncType, SyncType', NEW home, OrderInv(home), NEW G, SyncStep(G)
    PROVE  LateWritesFit'
  <1> SUFFICES ASSUME NEW r \in wire', r.op = "replace"
               PROVE  /\ status'[r.doc] # NoDoc
                      /\ r.ver <= status'[r.doc].ver
                      /\ r.ver = status'[r.doc].ver =>
                            status'[r.doc].body.observed <= r.body.observed
    BY DEF LateWritesFit
  <1> DEFINE d == r.doc
  <1>1. IsWrite(r) /\ d \in Docs /\ r.ver \in Nat
    BY DEF IsWrite, SyncType
  <1>2. /\ status[d] # NoDoc /\ r.ver <= status[d].ver
        /\ r.ver = status[d].ver => status[d].body.observed <= r.body.observed
    <2>1. CASE r \in wire
      BY <2>1 DEF OrderInv, LateWritesFit
    <2>2. CASE \E x \in Workers : OwnWrite(x, r)
      BY <2>2 DEF OwnWrite, OrderInv, SyncsAreAhead
    <2> QED
      BY <1>1, <2>1, <2>2, WireOrigin
  <1>3. /\ status'[d] # NoDoc /\ status[d].ver <= status'[d].ver
        /\ status'[d].ver = status[d].ver => status'[d] = status[d]
    BY <1>1, <1>2, StatusGrows
  <1>4. status[d].ver \in Nat /\ status'[d].ver \in Nat
    BY <1>1, <1>2, <1>3 DEF SyncType
  <1> QED
    BY <1>1, <1>2, <1>3, <1>4

\* OrderInv is inductive while documents stay in scope.
LEMMA OrderStep ==
    ASSUME SyncType, SyncType', NEW home, InScope(home), OrderInv(home),
           NEW G, SyncStep(G)
    PROVE  OrderInv(home)'
  BY HomedStep, OneWorkerStep, NothingFromTheFutureStep, SyncsAreAheadStep,
     LateWritesFitStep DEF OrderInv

-----------------------------------------------------------------------------
(***************************************************************************)
(* No lost wake-up.  A revision the informer delivered is settled, or its  *)
(* key is somewhere in the queue; and a sync that began with an earlier    *)
(* one leaves its key queued again.                                        *)
(***************************************************************************)
\* The status of d is one a sync of the current revision left without an error.
SettledIn(d, G) ==
    /\ status[d] # NoDoc
    /\ status[d].body.observed = spec[d].rev
    /\ status[d].body \in G

\* The informer has delivered the current revision of d.
Delivered(d) == spec[d] # NoDoc /\ cache[d] = spec[d]

\* No sync of d is due, and its status is what its last sync left.
Quiet(d) == up /\ ~Overtaken(d) /\ ~Scheduled(KeyOf(d, spec[d]))

NoneForgotten(G) == \A d \in Docs : Delivered(d) /\ Quiet(d) => SettledIn(d, G)

SyncsAreFresh ==
    \A w \in Workers : Fetched(w) /\ Delivered(Target(w)) =>
        job[w].rev = spec[Target(w)].rev \/ job[w].key \in dirty

\* Without a leader there is no memory.
NothingInMemory ==
    ~up => /\ \A d \in Docs : cache[d] = NoDoc
           /\ dirty = {} /\ processing = {} /\ retry = {}
           /\ \A w \in Workers : ~Busy(w)

ForgetInv(G) == NoneForgotten(G) /\ SyncsAreFresh /\ NothingInMemory

\* While documents stay in scope, a document has one key.
LEMMA OneKeyPerDocument ==
    ASSUME SyncType, NEW home, Homed(home), OneWorkerPerKey, NEW w \in Workers, Busy(w),
           NEW d \in Docs, NEW doc \in SpecDoc, doc.scope = home[d]
    PROVE  job[w].key = KeyOf(d, doc) <=> Target(w) = d
  <1>1. job[w].key \in Keys /\ job[w].key.scope = home[job[w].key.name]
    BY DEF SyncType, Homed, OneWorkerPerKey
  <1> QED
    BY <1>1 DEF Keys, KeyOf, Target, DocOf

\* A spec changes to a revision the informer has not delivered.
LEMMA DeliveredOrigin ==
    ASSUME SyncType, NothingFromTheFuture, NEW G, SyncStep(G),
           NEW d \in Docs, Delivered(d)'
    PROVE  \/ Delivered(d) /\ spec'[d] = spec[d]
           \/ HandleChange(d) /\ spec' = spec
           \/ LeaderDies
  <1>1. ASSUME NEW e \in Docs, StoreStep(e) PROVE Delivered(d) /\ spec'[d] = spec[d]
    <2>1. cache' = cache
      BY <1>1 DEF StoreStep
    <2>2. spec'[d] # spec[d] => spec'[d].rev = rev + 1
      BY LatestGrows DEF Delivered
    <2>3. cache[d].rev \in Nat /\ cache[d].rev <= rev /\ rev \in Nat
      BY <2>1 DEF Delivered, NothingFromTheFuture, SyncType, SpecDoc
    <2> QED
      BY <2>1, <2>2, <2>3 DEF Delivered
  <1>2. ASSUME NEW e \in Docs, InformerStep(e), ~HandleChange(d)
        PROVE  Delivered(d) /\ spec'[d] = spec[d]
    BY <1>2 DEF InformerStep, HandleChange, DropDeleted, Delivered, SyncType
  <1>3. CASE UNCHANGED <<spec, cache>>
    BY <1>3 DEF Delivered
  <1> QED
    BY <1>1, <1>2, <1>3 DEF SyncStep, Background, InformerStep, SyncStarts, SyncFetches,
       SyncGoesOn, SyncStops, StatusRead, StatusWrite, Ends, LateWrite, LeaderStarts

\* Without a leader nothing fills the memory; a leader that dies takes it along.
LEMMA NothingInMemoryStep ==
    ASSUME SyncType, NothingInMemory, NEW G, SyncStep(G)
    PROVE  NothingInMemory'
  <1> SUFFICES ASSUME ~up' PROVE NothingInMemory'
    BY DEF NothingInMemory
  <1> USE DEF NothingInMemory
  <1>1. CASE Background
    BY <1>1 DEF Background, Busy
  <1>2. ASSUME NEW d \in Docs, StoreStep(d) \/ InformerStep(d) PROVE NothingInMemory'
    BY <1>2 DEF StoreStep, InformerStep, queueVars, Busy
  <1>3. ASSUME NEW w \in Workers,
               \/ \E k \in Keys : SyncStarts(w, k)
               \/ SyncFetches(w) \/ SyncGoesOn(w) \/ SyncStops(w)
               \/ StatusRead(w, G) \/ StatusWrite(w, G)
        PROVE  FALSE
    <2>1. up' = up
      BY <1>3 DEF SyncStarts, SyncFetches, SyncGoesOn, SyncStops, StatusRead, StatusWrite, Ends
    <2>2. up \/ Busy(w)
      BY <1>3 DEF SyncStarts, SyncFetches, SyncGoesOn, SyncStops, StatusRead, StatusWrite,
                  Fetched, Busy
    <2> QED
      BY <2>1, <2>2
  <1>4. ASSUME NEW r \in wire, LateWrite(r) PROVE NothingInMemory'
    BY <1>4 DEF LateWrite, queueVars, Busy
  <1>5. CASE LeaderDies \/ LeaderStarts
    BY <1>5 DEF LeaderDies, LeaderStarts, QueueLost
  <1> QED
    BY <1>1, <1>2, <1>3, <1>4, <1>5 DEF SyncStep

\* A key that is queued leaves dirty only for a worker that starts over.
LEMMA DirtyKept ==
    ASSUME OneWorkerPerKey, NEW G, SyncStep(G), ~LeaderDies,
           NEW w \in Workers, Busy(w), job[w].key \in dirty
    PROVE  job[w].key \in dirty'
  BY DEF SyncStep, Background, StoreStep, InformerStep, HandleChange, DropDeleted, Add,
         SyncStarts, Get, Available, SyncFetches, SyncGoesOn, SyncStops, StatusRead,
         StatusWrite, Ends, Done, LateWrite, LeaderStarts, queueVars, OneWorkerPerKey, Busy

\* A revision delivered while an earlier one is synced queues the key once more.
LEMMA SyncsAreFreshStep ==
    ASSUME SyncType, NEW home, InScope(home), OrderInv(home), SyncsAreFresh,
           NEW G, SyncStep(G)
    PROVE  SyncsAreFresh'
  <1> SUFFICES ASSUME NEW w \in Workers, Fetched(w)', Delivered(Target(w))'
               PROVE  job'[w].rev = spec'[Target(w)'].rev \/ job'[w].key \in dirty'
    BY DEF SyncsAreFresh
  <1> DEFINE d == Target(w)
  <1>1. /\ Busy(w) /\ Target(w)' = d /\ job'[w].key = job[w].key /\ d \in Docs
        /\ (Fetched(w) /\ job'[w].rev = job[w].rev) \/ SyncFetches(w)
    BY JobOrigin DEF SyncType
  <1>2. Delivered(d)'
    BY <1>1 DEF Delivered
  <1>3. CASE SyncFetches(w)
    BY <1>1, <1>3 DEF SyncFetches
  <1>4. CASE Fetched(w) /\ job'[w].rev = job[w].rev
    <2>1. CASE Delivered(d) /\ spec'[d] = spec[d]
      <3>1. job[w].rev = spec[d].rev \/ job[w].key \in dirty
        BY <1>4, <2>1 DEF SyncsAreFresh
      <3>2. ~LeaderDies
        BY DEF LeaderDies, Fetched, Busy
      <3> QED
        BY <1>1, <1>4, <2>1, <3>1, <3>2, DirtyKept DEF OrderInv
    <2>2. CASE HandleChange(d) /\ spec' = spec
      <3>1. spec[d] \in SpecDoc /\ spec[d].scope = home[d]
        BY <1>1, <2>2 DEF HandleChange, SyncType, InScope
      <3>2. job[w].key = KeyOf(d, spec[d])
        BY <1>1, <3>1, OneKeyPerDocument DEF OrderInv
      <3> QED
        BY <1>1, <2>2, <3>2 DEF HandleChange, Add
    <2> QED
      BY <1>1, <1>2, <2>1, <2>2, DeliveredOrigin DEF OrderInv, LeaderDies, Fetched, Busy
  <1> QED
    BY <1>1, <1>3, <1>4

\* A sync of d's current revision ends without an error, d's status being what it leaves.
EndsWell(w, d, G) ==
    /\ Fetched(w) /\ Target(w) = d
    /\ Ends(w, FALSE)
    /\ status'[d] # NoDoc
    /\ status'[d].body.observed = job[w].rev
    /\ status'[d].body \in G

\* Where quiet comes from: what ends a sync settles the document, puts its key on
\* the delaying heap, or was overtaken; and nothing else takes a key out of the queue.
LEMMA QuietOrigin ==
    ASSUME SyncType, NEW home, InScope(home), OrderInv(home), NothingInMemory,
           NEW G, SyncStep(G), NEW d \in Docs, Delivered(d)', Quiet(d)'
    PROVE  /\ Delivered(d) /\ spec'[d] = spec[d]
           /\ \/ Quiet(d) /\ status'[d] = status[d]
              \/ \E w \in Workers : EndsWell(w, d, G)
  <1> USE DEF Quiet
  <1>1. ~(HandleChange(d) /\ spec' = spec)
    BY DEF HandleChange, Add, Scheduled, KeyOf
  <1>2. Delivered(d) /\ spec'[d] = spec[d]
    BY <1>1, DeliveredOrigin DEF OrderInv, LeaderDies
  <1> DEFINE k == KeyOf(d, spec[d])
             Queued == dirty \cup processing \cup retry
             Goal == (Quiet(d) /\ status'[d] = status[d]) \/ \E w \in Workers : EndsWell(w, d, G)
  <1>3. /\ spec[d] \in SpecDoc /\ k' = k
        /\ \A w \in Workers : Busy(w) =>
              /\ Target(w) = d => job[w].key = k
              /\ Target(w) # d => job[w].key # k
    BY <1>2, OneKeyPerDocument DEF Delivered, InScope, SyncType, OrderInv, KeyOf
  <1>4. up /\ cache[d] = spec[d] /\ k \notin Queued' /\ ~Overtaken(d)'
    BY <1>2, <1>3 DEF Delivered, NothingInMemory, Scheduled
  <1>5. \A w \in Workers : Busy(w) => job[w].key \in processing
    BY DEF OrderInv, OneWorkerPerKey
  <1>6. ASSUME status'[d] = status[d], Overtaken(d)' = Overtaken(d), k \in Queued => k \in Queued'
        PROVE  Goal
    BY <1>4, <1>6 DEF Scheduled
  <1> HIDE DEF k, Goal
  <1>7. ASSUME NEW w \in Workers, Busy(w), NEW failed \in BOOLEAN, Ends(w, failed)
        PROVE  /\ Target(w) = d => ~failed
               /\ Target(w) # d => (k \in Queued => k \in Queued')
    BY <1>3, <1>4, <1>7 DEF Ends, Done
  <1>8. ASSUME Background \/ LeaderStarts \/ (\E e \in Docs : StoreStep(e) \/ InformerStep(e))
        PROVE  Goal
    <2>1. UNCHANGED <<status, swallowed, landed>> /\ Queued \subseteq Queued'
      BY <1>8 DEF Background, LeaderStarts, StoreStep, WriteSpec, DeleteSpec, InformerStep,
                  HandleChange, DropDeleted, Add, StatusKept, queueVars
    <2> QED
      BY <1>6, <2>1 DEF Overtaken
  <1>9. ASSUME NEW w \in Workers,
               (\E key \in Keys : SyncStarts(w, key)) \/ SyncFetches(w) \/ SyncGoesOn(w)
        PROVE  Goal
    <2>1. UNCHANGED <<status, swallowed, landed>> /\ Queued \subseteq Queued'
      BY <1>9 DEF SyncStarts, Get, SyncFetches, SyncGoesOn, StatusKept, queueVars
    <2> QED
      BY <1>6, <2>1 DEF Overtaken
  <1>10. ASSUME NEW w \in Workers, SyncStops(w) PROVE Goal
    <2>1. status' = status /\ Overtaken(d)' = Overtaken(d)
      BY <1>10 DEF SyncStops, StatusKept, Overtaken
    <2>2. Target(w) # d
      BY <1>2, <1>7, <1>10 DEF SyncStops, Delivered
    <2>3. k \in Queued => k \in Queued'
      BY <1>7, <1>10, <2>2 DEF SyncStops
    <2> QED
      BY <1>6, <2>1, <2>3
  <1>11. ASSUME NEW w \in Workers, StatusRead(w, G), Target(w) # d PROVE Goal
    <2>1. status' = status /\ Overtaken(d)' = Overtaken(d)
      BY <1>11 DEF StatusRead, Seen, Overtaken
    <2>2. k \in Queued => k \in Queued'
      BY <1>7, <1>11 DEF StatusRead, Fetched, Busy, queueVars
    <2> QED
      BY <1>6, <2>1, <2>2
  <1>12. ASSUME NEW w \in Workers, StatusWrite(w, G), Target(w) # d PROVE Goal
    <2>1. status'[d] = status[d] /\ Overtaken(d)' = Overtaken(d)
      BY <1>12 DEF StatusWrite, StatusBecomes, Overtaken
    <2>2. k \in Queued => k \in Queued'
      BY <1>7, <1>12 DEF StatusWrite, Fetched, Busy
    <2> QED
      BY <1>6, <2>1, <2>2
  \* The sync of d itself: had it failed, or its write been swallowed, d were not quiet.
  <1>13. ASSUME NEW w \in Workers, StatusRead(w, G), Target(w) = d
         PROVE  EndsWell(w, d, G)
    <2>1. Fetched(w) /\ Busy(w) /\ job[w].key = k
      BY <1>3, <1>13 DEF StatusRead, Fetched, Busy
    <2>2. ~ UNCHANGED queueVars
      BY <1>4, <1>5, <2>1 DEF queueVars
    <2> QED
      BY <1>7, <1>13, <2>1, <2>2 DEF StatusRead, EndsWell
  <1>14. ASSUME NEW w \in Workers, StatusWrite(w, G), Target(w) = d
         PROVE  EndsWell(w, d, G)
    <2>1. Fetched(w) /\ Busy(w)
      BY <1>14 DEF StatusWrite, Fetched, Busy
    <2> QED
      BY <1>4, <1>7, <1>14, <2>1 DEF StatusWrite, StatusBecomes, Overtaken, EndsWell
  <1>15. ASSUME NEW r \in wire, LateWrite(r) PROVE Goal
    <2>1. r.doc # d /\ Queued' = Queued
      BY <1>4, <1>15 DEF LateWrite, Overtaken, queueVars
    <2>2. status'[d] = status[d] /\ Overtaken(d)' = Overtaken(d)
      BY <1>15, <2>1 DEF LateWrite, StatusBecomes, Overtaken
    <2> QED
      BY <1>6, <2>1, <2>2
  <1>16. Goal
    BY <1>8, <1>9, <1>10, <1>11, <1>12, <1>13, <1>14, <1>15 DEF SyncStep, LeaderDies, Goal
  <1> QED
    BY <1>2, <1>16 DEF Goal

\* No step forgets a delivered revision: the sync that leaves its document quiet had
\* fetched it, or the key were queued again.
LEMMA NoneForgottenStep ==
    ASSUME SyncType, NEW home, InScope(home), OrderInv(home),
           NEW G, ForgetInv(G), SyncStep(G)
    PROVE  NoneForgotten(G)'
  <1> SUFFICES ASSUME NEW d \in Docs, Delivered(d)', Quiet(d)'
               PROVE  SettledIn(d, G)'
    BY DEF NoneForgotten
  <1>1. /\ Delivered(d) /\ spec'[d] = spec[d]
        /\ \/ Quiet(d) /\ status'[d] = status[d]
           \/ \E w \in Workers : EndsWell(w, d, G)
    BY QuietOrigin DEF ForgetInv
  <1>2. CASE Quiet(d) /\ status'[d] = status[d]
    BY <1>1, <1>2 DEF ForgetInv, NoneForgotten, SettledIn
  <1>3. ASSUME NEW w \in Workers, EndsWell(w, d, G)
        PROVE  job[w].rev = spec[d].rev
    <2>1. Fetched(w) /\ Busy(w) /\ Target(w) = d /\ dirty' = dirty
      BY <1>3 DEF EndsWell, Ends, Done, Fetched, Busy
    <2>2. spec[d] \in SpecDoc /\ spec[d].scope = home[d]
      BY <1>1 DEF Delivered, SyncType, InScope
    <2>3. job[w].key = KeyOf(d, spec[d])
      BY <2>1, <2>2, OneKeyPerDocument DEF OrderInv
    <2>4. KeyOf(d, spec[d]) \notin dirty
      BY <1>1, <2>1 DEF Quiet, Scheduled, KeyOf
    <2> QED
      BY <1>1, <2>1, <2>3, <2>4 DEF ForgetInv, SyncsAreFresh
  <1> QED
    BY <1>1, <1>2, <1>3 DEF EndsWell, SettledIn

\* ForgetInv is inductive while documents stay in scope.
LEMMA ForgetStep ==
    ASSUME SyncType, NEW home, InScope(home), OrderInv(home),
           NEW G, ForgetInv(G), SyncStep(G)
    PROVE  ForgetInv(G)'
  BY NoneForgottenStep, SyncsAreFreshStep, NothingInMemoryStep DEF ForgetInv

-----------------------------------------------------------------------------
(***************************************************************************)
(* Every step is one of DesireProgress, or changes nothing it sees.        *)
(***************************************************************************)
\* A write of the backend is a Write or a Delete; a status that changes reports a
\* revision no earlier than the one before and no later than the last.
LEMMA ProgressStep ==
    ASSUME SyncType, SyncType', NEW home, OrderInv(home), NEW G, SyncStep(G)
    PROVE  [Progress!Next]_(Progress!vars)
  <1> DEFINE wanted == [d \in Docs |-> IF spec[d] = NoDoc THEN 0 ELSE spec[d].rev]
             observed ==
                [d \in Docs |-> IF status[d] = NoDoc THEN 0 ELSE status[d].body.observed]
  <1>1. ASSUME NEW d \in Docs, StoreStep(d) PROVE Progress!Next
    <2>1. observed' = observed
      BY <1>1 DEF StoreStep, WriteSpec, DeleteSpec
    <2>2. ASSUME NEW kind \in Kinds, NEW scope \in Scopes, WriteSpec(d, kind, scope)
          PROVE  Progress!Write(d)
      <3>1. /\ rev' = rev + 1 /\ rev + 1 \in Nat \ {0}
            /\ spec' = [spec EXCEPT ![d] = [rev |-> rev + 1, kind |-> kind, scope |-> scope]]
        BY <2>2 DEF WriteSpec, SyncType
      <3>2. [rev |-> rev + 1, kind |-> kind, scope |-> scope] # NoDoc
        BY <3>1, NoDocAssumption DEF SpecDoc
      <3>3. wanted' = [wanted EXCEPT ![d] = rev + 1]
        BY <3>1, <3>2 DEF SyncType
      <3> QED
        BY <2>1, <3>1, <3>3 DEF Progress!Write
    <2>3. ASSUME DeleteSpec(d) PROVE Progress!Delete(d)
      <3>1. wanted' = [wanted EXCEPT ![d] = 0]
        BY <2>3 DEF DeleteSpec, SyncType
      <3> QED
        BY <2>1, <2>3, <3>1 DEF DeleteSpec, Progress!Delete
    <2> QED
      BY <1>1, <2>2, <2>3 DEF StoreStep, Progress!Next
  <1>2. ASSUME NEW d \in Docs, status'[d] # status[d] PROVE Progress!Next
    <2>1. /\ StatusBecomes(d, status'[d].body)
          /\ status'[d].body.observed \in Nat
      BY <1>2, StatusOrigin DEF StatusBecomes, SyncType
    <2>2. ASSUME NEW w \in Workers, StatusWrite(w, G), Target(w) = d,
                 status'[d].body.observed = job[w].rev
          PROVE  /\ status'[d].body.observed \in observed[d] .. rev
                 /\ UNCHANGED <<rev, spec>>
      <3>1. Fetched(w) /\ UNCHANGED <<rev, spec>>
        BY <2>2 DEF StatusWrite, Ends
      <3>2. observed[d] <= job[w].rev /\ observed[d] \in Nat
        BY <2>1, <2>2, <3>1 DEF OrderInv, SyncsAreAhead, SyncType
      <3>3. job[w].rev <= Latest(d) /\ Latest(d) <= rev /\ Latest(d) \in Nat /\ rev \in Nat
        BY <2>2, <3>1, LatestGrows DEF OrderInv, NothingFromTheFuture, Latest, SyncType
      <3> QED
        BY <2>1, <2>2, <3>1, <3>2, <3>3
    <2>3. ASSUME NEW r \in wire, LateWrite(r), r.doc = d, r.body = status'[d].body
          PROVE  /\ status'[d].body.observed \in observed[d] .. rev
                 /\ UNCHANGED <<rev, spec>>
      <3>1. IsWrite(r) /\ UNCHANGED <<rev, spec>>
        BY <2>3 DEF LateWrite
      <3>2. observed[d] <= r.body.observed /\ observed[d] \in Nat
        BY <2>1, <2>3, <3>1 DEF LateWrite, IsWrite, OrderInv, LateWritesFit, SyncType
      <3>3. r.body.observed <= Latest(d) /\ Latest(d) <= rev /\ Latest(d) \in Nat /\ rev \in Nat
        BY <2>3, <3>1, LatestGrows DEF OrderInv, NothingFromTheFuture, Latest, SyncType
      <3> QED
        BY <2>1, <2>3, <3>1, <3>2, <3>3
    <2>4. /\ status'[d].body.observed \in observed[d] .. rev
          /\ UNCHANGED <<rev, spec>>
      BY <1>2, <2>2, <2>3, StatusOrigin
    <2>5. observed' = [observed EXCEPT ![d] = status'[d].body.observed]
      BY <2>1 DEF StatusBecomes
    <2>6. wanted' = wanted
      BY <2>4
    <2> QED
      BY <2>4, <2>5, <2>6 DEF Progress!Report, Progress!Next
  <1>3. ASSUME \A d \in Docs : status'[d] = status[d], UNCHANGED <<rev, spec>>
        PROVE  UNCHANGED Progress!vars
    BY <1>3 DEF Progress!vars
  <1> QED
    BY <1>1, <1>2, <1>3, SpecsKept

-----------------------------------------------------------------------------
(***************************************************************************)
(* The operations of DesireWorker are such steps, whatever other fields J  *)
(* gives a job and S a status document.                                    *)
(***************************************************************************)
HasFields(j) == {"pc", "key", "rev", "ver"} \subseteq DOMAIN j

\* The gate, the ticker and the delaying queue only queue keys of cached documents.
LEMMA FeedIsBackground ==
    ASSUME \/ \E d \in Docs : HandleResync(d)
           \/ \E k : CooldownOver(k)
           \/ \E k : RetryDue(k) /\ UNCHANGED feedVars,
           UNCHANGED <<storeVars, workerVars>>
    PROVE  Background
  BY DEF HandleResync, CooldownOver, RetryDue, Add, Background, StatusKept, NoNewWrites,
         feedVars, queueVars, storeVars, workerVars

\* queue.Get starts a sync.
LEMMA TakeStarts ==
    ASSUME NEW J, job \in [Workers -> J], NEW w \in Workers, NEW k,
           NEW j, j.pc = "fetchSpec", j.key = k, Take(w, k, j),
           UNCHANGED <<storeVars, feedVars>>
    PROVE  SyncStarts(w, k)
  BY DEF Take, SyncStarts, Busy, Idle, OnlyWorker, StatusKept, storeVars, feedVars

\* The end of processNext.
LEMMA FinishEnds ==
    ASSUME NEW J, job \in [Workers -> J], NEW w \in Workers, NEW failed,
           up, Finish(w, failed), UNCHANGED <<rev, spec, feedVars, up>>
    PROVE  Ends(w, failed)
  BY DEF Finish, Ends, Busy, Idle, OnlyWorker, feedVars

\* UpdateStatus fetches: the status is left as it is if it already says all this.
LEMMA FetchIsRead ==
    ASSUME NEW J, job \in [Workers -> J], NEW w \in Workers, HasFields(job[w]),
           NEW G, NEW body, body.observed = job[w].rev,
           NEW failed \in BOOLEAN, failed \/ body \in G,
           UpdateFetch(w, body, failed), UNCHANGED <<rev, spec, feedVars>>
    PROVE  StatusRead(w, G) \/ SyncStops(w)
  <1> USE DEF feedVars
  <1>1. /\ up /\ Fetched(w) /\ Busy(w) /\ UNCHANGED <<status, up, wire>>
    BY DEF UpdateFetch, At, Fetched, Busy
  <1>2. CASE status[Target(w)] = NoDoc /\ Goto(w, "create") /\ Seen(Target(w))
    BY <1>1, <1>2 DEF Goto, HasFields, StatusRead, Fetched, OnlyWorker
  <1>3. CASE /\ status[Target(w)] # NoDoc /\ status[Target(w)].body = body
             /\ Finish(w, failed) /\ Seen(Target(w))
    <2>1. Ends(w, failed)
      BY <1>1, <1>3, FinishEnds
    <2> QED
      BY <1>1, <1>3, <2>1 DEF StatusRead
  <1>4. CASE /\ status[Target(w)] # NoDoc
             /\ job' = [job EXCEPT ![w].pc = "replace", ![w].ver = status[Target(w)].ver]
             /\ UNCHANGED queueVars /\ Seen(Target(w))
    BY <1>1, <1>4 DEF HasFields, StatusRead, Fetched, OnlyWorker
  <1>5. CASE Finish(w, TRUE) /\ UNCHANGED <<swallowed, landed>>
    <2>1. Ends(w, TRUE)
      BY <1>1, <1>5, FinishEnds
    <2> QED
      BY <1>1, <1>5, <2>1 DEF SyncStops, StatusKept
  <1> QED
    BY <1>2, <1>3, <1>4, <1>5 DEF UpdateFetch, Target

\* A status document that is written is there, in a later version.
LEMMA WriteBecomes ==
    ASSUME NEW S, NoDoc \notin S, status \in [Docs -> S \cup {NoDoc}],
           \A d \in Docs : status[d] # NoDoc => status[d].ver \in Nat,
           NEW d \in Docs, NEW v, NEW body, \A n \in Nat : [ver |-> n, body |-> body] \in S,
           Create(d, body) \/ Replace(d, v, body)
    PROVE  StatusBecomes(d, body)
  <1>1. PICK n \in Nat : /\ status' = [status EXCEPT ![d] = [ver |-> n, body |-> body]]
                         /\ status[d] # NoDoc => n > status[d].ver
    BY DEF Create, CanCreate, Replace, CanReplace, WriteStatus
  <1>2. [ver |-> n, body |-> body] # NoDoc
    OBVIOUS
  <1> QED
    BY <1>1, <1>2 DEF StatusBecomes

\* createInitialStatus and Replace end the sync.
LEMMA WriteEnds ==
    ASSUME NEW S, NoDoc \notin S, status \in [Docs -> S \cup {NoDoc}],
           \A d \in Docs : status[d] # NoDoc => status[d].ver \in Nat,
           NEW J, job \in [Workers -> J], NEW w \in Workers, Target(w) \in Docs,
           NEW G, NEW body, \A n \in Nat : [ver |-> n, body |-> body] \in S,
           body.observed = job[w].rev,
           NEW failed \in BOOLEAN, failed \/ body \in G,
           UpdateCreate(w, body, failed) \/ UpdateReplace(w, body, failed),
           UNCHANGED <<rev, spec, feedVars>>
    PROVE  StatusWrite(w, G) \/ SyncStops(w)
  <1>1. /\ up /\ Fetched(w) /\ Busy(w) /\ UNCHANGED <<up, wire, landed>>
    BY DEF UpdateCreate, UpdateReplace, At, Fetched, Busy
  <1>2. CASE /\ Create(Target(w), body) \/ Replace(Target(w), job[w].ver, body)
             /\ Finish(w, failed) /\ UNCHANGED swallowed
    <2>1. StatusBecomes(Target(w), body)
      BY <1>2, WriteBecomes
    <2>2. Ends(w, failed)
      BY <1>1, <1>2, FinishEnds
    <2> QED
      BY <1>1, <1>2, <2>1, <2>2 DEF StatusWrite, StatusBecomes
  <1>3. CASE Finish(w, TRUE) /\ UNCHANGED <<status, swallowed>>
    <2>1. Ends(w, TRUE)
      BY <1>1, <1>3, FinishEnds
    <2> QED
      BY <1>1, <1>3, <2>1 DEF SyncStops, StatusKept
  <1>4. CASE Finish(w, failed) /\ UNCHANGED status /\ swallowed' = swallowed \cup {Target(w)}
    <2>1. Ends(w, failed)
      BY <1>1, <1>4, FinishEnds
    <2> QED
      BY <1>1, <1>4, <2>1 DEF StatusWrite
  <1> QED
    BY <1>2, <1>3, <1>4 DEF UpdateCreate, UpdateReplace, Target

\* A job leaves only its own status write on the wire.
LEMMA PendingIsOwn ==
    ASSUME NEW w \in Workers, NEW body, body.observed = job[w].rev,
           NEW r \in PendingWrite(job[w], body)
    PROVE  OwnWrite(w, r)
  BY DEF PendingWrite, CreateRequest, ReplaceRequest, OwnWrite, Fetched, Target

\* A status write that is given up on fails the sync.
LEMMA LostStops ==
    ASSUME NEW J, job \in [Workers -> J], NEW w \in Workers,
           NEW body, body.observed = job[w].rev,
           UpdateLost(w, body), UNCHANGED <<rev, spec, feedVars>>
    PROVE  SyncStops(w)
  <1>1. up /\ Busy(w) /\ StatusKept /\ wire' = wire \cup PendingWrite(job[w], body)
    BY DEF UpdateLost, At, Busy, StatusKept
  <1>2. Ends(w, TRUE)
    BY <1>1, FinishEnds DEF UpdateLost
  <1> QED
    BY <1>1, <1>2, PendingIsOwn DEF SyncStops

\* A status write that was given up on lands.
LEMMA LandsLate ==
    ASSUME NEW S, NoDoc \notin S, status \in [Docs -> S \cup {NoDoc}],
           \A d \in Docs : status[d] # NoDoc => status[d].ver \in Nat,
           NEW r \in wire, r.doc \in Docs, \A n \in Nat : [ver |-> n, body |-> r.body] \in S,
           LateStatus(r), wire' \subseteq wire,
           UNCHANGED <<rev, spec, queueVars, feedVars, up, job>>
    PROVE  LateWrite(r)
  <1>1. StatusBecomes(r.doc, r.body)
    BY WriteBecomes DEF LateStatus
  <1> QED
    BY <1>1 DEF LateStatus, LateWrite, IsWrite, Create, CanCreate, Replace, CanReplace, feedVars

\* A leader comes or goes; what it leaves on the wire is for its workers to say.
LEMMA LeadersChange ==
    ASSUME NEW R, Die(R) \/ Lead, UNCHANGED storeVars,
           \A r \in R : IsWrite(r) => \E w \in Workers : OwnWrite(w, r)
    PROVE  LeaderDies \/ LeaderStarts
  BY DEF Die, FeedLost, LeaderDies, Lead, LeaderStarts, StatusKept, Busy, Idle,
         storeVars, feedVars
=============================================================================
