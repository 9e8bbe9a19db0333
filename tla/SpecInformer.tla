---------------------------- MODULE SpecInformer ----------------------------
(***************************************************************************)
(* The informers over the specs database and the leader that runs them     *)
(* (internal/database/informers, pkg/app/kube_applier.go): List, then a    *)
(* Firestore snapshot listener whose changes pass through a channel into   *)
(* the informer's cache and handlers, and all over again when the stream   *)
(* breaks.  The controllers start once every collection has been listed.   *)
(*                                                                         *)
(* A document is its UpdateTime and whether it decodes.  What is left of a *)
(* controller is the set of documents queued for it and, per document, the *)
(* revision it last acted on.  The cooldown gate (modelled in DesireFeed)  *)
(* may swallow a wake-up for a revision already cached; the resync that    *)
(* makes up for it is here an action that may occur at any time.           *)
(***************************************************************************)
EXTENDS Naturals, Sequences

CONSTANTS
    Colls,     \* the collections: apply, delete and read desires
    Docs,      \* the spec documents of all collections
    Home,      \* the collection of a document
    HearDeletes, \* the collections whose controller registered a DeleteFunc
    NoDoc,     \* a document that does not exist
    Buffer,    \* bound: capacity of a watcher's channel (100 in the code)
    MaxRev,    \* bound: spec writes
    MaxFaults  \* bound: broken streams and lost leaders together

ASSUME Homes == Home \in [Docs -> Colls] /\ HearDeletes \subseteq Colls
ASSUME Bounds == Buffer \in Nat /\ MaxFaults \in Nat

VARIABLES
    rev,       \* the last UpdateTime the specs database handed out
    spec,      \* the specs database
    phase,     \* the leader: standby, syncing (caches not filled yet), running
    reflector, \* what each collection's reflector does: off, list, watch
    listening, \* collections whose snapshot listener is alive
    view,      \* the listener's last snapshot
    events,    \* the watcher's channel
    cache,     \* the informer's store
    synced,    \* collections listed since the leader started (HasSynced)
    queued,    \* documents whose keys are queued
    acted,     \* UpdateTime of the revision a controller last acted on; 0: none
    shown,     \* history: the last revision of a document this leader has cached
    since,     \* history: the last UpdateTime before the syncing leader began; else 0
    faults     \* failures so far

dbVars == <<rev, spec>>
watchVars == <<reflector, listening, view, events, synced>>
vars == <<rev, spec, phase, since, reflector, listening, view, events, cache, shown, synced,
          queued, acted, faults>>

Doc == [rev: Nat \ {0}, good: BOOLEAN]
Broken == [kind |-> "error"]
Changed(d) == [kind |-> "changed", doc |-> d, rev |-> spec[d].rev]
Removed(d) == [kind |-> "removed", doc |-> d]
Events ==
    {Broken} \cup [kind: {"changed"}, doc: Docs, rev: Nat] \cup [kind: {"removed"}, doc: Docs]

DocsOf(c) == {d \in Docs : Home[d] = c}
Absent(d) == spec[d] = NoDoc
Decodes(d) == ~Absent(d) /\ spec[d].good
RevOf(d) == IF Absent(d) THEN 0 ELSE spec[d].rev
Bad == {d \in Docs : ~Absent(d) /\ ~Decodes(d)}

Init ==
    /\ rev = 0
    /\ spec = [d \in Docs |-> NoDoc]
    /\ phase = "standby"
    /\ reflector = [c \in Colls |-> "off"]
    /\ listening = {}
    /\ view = [d \in Docs |-> NoDoc]
    /\ events = [c \in Colls |-> <<>>]
    /\ cache = [d \in Docs |-> 0]
    /\ synced = {}
    /\ queued = {}
    /\ acted = [d \in Docs |-> 0]
    /\ shown = [d \in Docs |-> 0]
    /\ since = 0
    /\ faults = 0

Fault == faults < MaxFaults /\ faults' = faults + 1

-----------------------------------------------------------------------------
\* The backend.
WriteSpec(d, good) ==
    /\ rev < MaxRev
    /\ rev' = rev + 1
    /\ spec' = [spec EXCEPT ![d] = [rev |-> rev + 1, good |-> good]]
    /\ UNCHANGED <<phase, since, watchVars, cache, shown, queued, acted, faults>>

DeleteSpec(d) ==
    /\ ~Absent(d)
    /\ spec' = [spec EXCEPT ![d] = NoDoc]
    /\ UNCHANGED <<rev, phase, since, watchVars, cache, shown, queued, acted, faults>>

-----------------------------------------------------------------------------
(***************************************************************************)
(* The reflector of one collection.                                        *)
(***************************************************************************)
\* The cooldown gate may or may not let the key of an unchanged document through.
MayQueue(D) == \E Q \in SUBSET D : queued' = queued \cup Q

\* Mutant: only a document new to the cache is news.
IsAdded(d, r) == cache[d] = 0

\* handleUpdate: a revision other than the cached one is queued at once.
IsNews(d, r) == cache[d] # r

\* Replace after a List: Add, Update and Delete handlers as the cache and list differ.
Listed(c) ==
    LET news == {d \in DocsOf(c) : ~Absent(d) /\ IsNews(d, RevOf(d))}
        gone == {d \in DocsOf(c) : Absent(d) /\ cache[d] # 0 /\ c \in HearDeletes}
        same == {d \in DocsOf(c) : ~Absent(d) /\ ~IsNews(d, RevOf(d))}
    IN  /\ cache' = [d \in Docs |-> IF d \in DocsOf(c) THEN RevOf(d) ELSE cache[d]]
        /\ shown' = [d \in Docs |-> IF d \in DocsOf(c) /\ ~Absent(d) THEN RevOf(d) ELSE shown[d]]
        /\ \E Q \in SUBSET same : queued' = queued \cup news \cup gone \cup Q

\* The list functions return an error for one document that does not decode.
Listable(c) == DocsOf(c) \cap Bad = {}

\* Mutant: the collection is listed anew on a timer, beside the stream.
ListAnytime(c) ==
    /\ reflector[c] # "off"
    /\ Listable(c)
    /\ Listed(c)
    /\ reflector' = [reflector EXCEPT ![c] = "watch"]
    /\ synced' = synced \cup {c}
    /\ listening' = listening \cup {c}
    /\ UNCHANGED <<dbVars, view, events, phase, since, acted, faults>>

\* List, and the watch that follows it.
\* The watch starts from nothing: its first snapshot reports what is there then.
List(c) ==
    /\ reflector[c] = "list"
    /\ Listable(c)
    /\ Listed(c)
    /\ reflector' = [reflector EXCEPT ![c] = "watch"]
    /\ synced' = synced \cup {c}
    /\ listening' = listening \cup {c}
    /\ view' = [d \in Docs |-> IF d \in DocsOf(c) THEN NoDoc ELSE view[d]]
    /\ events' = [events EXCEPT ![c] = <<>>]
    /\ UNCHANGED <<dbVars, phase, since, acted, faults>>

\* The change of one document, if it decodes: a removal carries the old document.
Reported(d) ==
    IF Absent(d) THEN IF view[d].good THEN <<Removed(d)>> ELSE <<>>
    ELSE IF Decodes(d) THEN <<Changed(d)>> ELSE <<>>

\* Mutant: one event too many.
HasRoomForOneMore(c) == Len(events[c]) <= Buffer

\* The watcher blocks on a full channel.
HasRoom(c) == Len(events[c]) < Buffer

\* Mutant: a document that does not decode ends the listener.
SurvivesAll(d) == Reported(d) # <<>>
Survives(d) == TRUE

\* A snapshot shows a change of d; changes of different documents commute.
Notice(d) ==
    LET c == Home[d]
    IN  /\ c \in listening
        /\ view[d] # spec[d]
        /\ HasRoom(c)
        /\ view' = [view EXCEPT ![d] = spec[d]]
        /\ events' = [events EXCEPT ![c] = @ \o Reported(d)]
        /\ listening' = IF Survives(d) THEN listening ELSE listening \ {c}
        /\ UNCHANGED <<dbVars, phase, since, reflector, cache, shown, synced, queued, acted, faults>>

\* Mutant: run returns without sendError.
LastWordsNone == <<>>
LastWords == <<Broken>>

\* The stream fails: sendError is the watcher's last event.
Break(c) ==
    /\ c \in listening
    /\ Fault
    /\ HasRoom(c)
    /\ listening' = listening \ {c}
    /\ events' = [events EXCEPT ![c] = @ \o LastWords]
    /\ UNCHANGED <<dbVars, phase, since, reflector, view, cache, shown, synced, queued, acted>>

\* The reflector takes one event: an error makes it list again, others reach the handlers.
Handle(c) ==
    /\ reflector[c] = "watch"
    /\ events[c] # <<>>
    /\ events' = [events EXCEPT ![c] = Tail(@)]
    /\ LET e == Head(events[c])
       IN  \/ /\ e.kind = "error"
              /\ reflector' = [reflector EXCEPT ![c] = "list"]
              /\ UNCHANGED <<cache, shown, queued>>
           \/ /\ e.kind = "changed"
              /\ cache' = [cache EXCEPT ![e.doc] = e.rev]
              /\ shown' = [shown EXCEPT ![e.doc] = e.rev]
              /\ IF IsNews(e.doc, e.rev) THEN queued' = queued \cup {e.doc}
                                         ELSE MayQueue({e.doc})
              /\ UNCHANGED reflector
           \/ /\ e.kind = "removed"
              /\ cache' = [cache EXCEPT ![e.doc] = 0]
              /\ queued' = IF cache[e.doc] # 0 /\ c \in HearDeletes
                           THEN queued \cup {e.doc} ELSE queued
              /\ UNCHANGED <<reflector, shown>>
    /\ UNCHANGED <<dbVars, phase, since, listening, view, synced, acted, faults>>

\* Mutant: no resync period.
NeverResyncs(d) == FALSE

\* The reflector resyncs between a List and the end of its watch.
Resyncs(d) == reflector[Home[d]] = "watch" /\ cache[d] # 0

Resync(d) ==
    /\ Resyncs(d)
    /\ d \notin queued
    /\ queued' = queued \cup {d}
    /\ UNCHANGED <<dbVars, phase, since, watchVars, cache, shown, acted, faults>>

-----------------------------------------------------------------------------
(***************************************************************************)
(* The leader.                                                             *)
(***************************************************************************)
\* OnStartedLeading: the informers start.
Lead ==
    /\ phase = "standby"
    /\ phase' = "syncing"
    /\ since' = rev
    /\ reflector' = [c \in Colls |-> "list"]
    /\ UNCHANGED <<dbVars, listening, view, events, synced, cache, shown, queued, acted, faults>>

\* Mutant: the controllers wait for one informer only.
AnySynced == synced # {}

\* WaitForCacheSync on every informer.
AllSynced == synced = Colls

StartControllers ==
    /\ phase = "syncing"
    /\ AllSynced
    /\ phase' = "running"
    /\ since' = 0
    /\ UNCHANGED <<dbVars, watchVars, cache, shown, queued, acted, faults>>

\* A sync fetches the document; one that does not decode is an error, and requeued.
Sync(d) ==
    /\ phase = "running"
    /\ d \in queued
    /\ d \notin Bad
    /\ acted' = [acted EXCEPT ![d] = RevOf(d)]
    /\ queued' = queued \ {d}
    /\ UNCHANGED <<dbVars, phase, since, watchVars, cache, shown, faults>>

\* The lease is lost or the process dies: Run returns and memory is gone.
Resign ==
    /\ phase # "standby"
    /\ Fault
    /\ phase' = "standby"
    /\ reflector' = [c \in Colls |-> "off"]
    /\ listening' = {}
    /\ synced' = {}
    /\ events' = [c \in Colls |-> <<>>]
    /\ view' = [d \in Docs |-> NoDoc]
    /\ cache' = [d \in Docs |-> 0]
    /\ shown' = [d \in Docs |-> 0]
    /\ since' = 0
    /\ queued' = {}
    /\ acted' = [d \in Docs |-> 0]
    /\ UNCHANGED dbVars

Next ==
    \/ \E d \in Docs :
        \/ \E good \in BOOLEAN : WriteSpec(d, good)
        \/ DeleteSpec(d)
        \/ Notice(d)
        \/ Resync(d)
        \/ Sync(d)
    \/ \E c \in Colls : List(c) \/ Break(c) \/ Handle(c)
    \/ Lead
    \/ StartControllers
    \/ Resign

Spec == Init /\ [][Next]_vars

\* Every goroutine keeps going; the backend and the faults owe nothing.
Fairness ==
    /\ \A d \in Docs : WF_vars(Notice(d)) /\ WF_vars(Resync(d)) /\ WF_vars(Sync(d))
    /\ \A c \in Colls : WF_vars(List(c)) /\ WF_vars(Handle(c))
    /\ WF_vars(Lead)
    /\ WF_vars(StartControllers)

FairSpec == Spec /\ Fairness

-----------------------------------------------------------------------------
(***************************************************************************)
(* Properties.                                                             *)
(***************************************************************************)
\* Every variable keeps its type, channels stay within their capacity, and only a
\* reflector that watches has a listener.
TypeOK ==
    /\ rev \in Nat
    /\ spec \in [Docs -> Doc \cup {NoDoc}]
    /\ phase \in {"standby", "syncing", "running"}
    /\ reflector \in [Colls -> {"off", "list", "watch"}]
    /\ \A c \in listening : c \in Colls /\ reflector[c] = "watch"
    /\ view \in [Docs -> Doc \cup {NoDoc}]
    /\ events \in [Colls -> Seq(Events)]
    /\ \A c \in Colls : Len(events[c]) <= Buffer
    /\ cache \in [Docs -> Nat]
    /\ synced \subseteq Colls
    /\ queued \subseteq Docs
    /\ acted \in [Docs -> Nat]
    /\ shown \in [Docs -> Nat]
    /\ since \in Nat
    /\ faults \in 0 .. MaxFaults

\* A document that has been read in full by the informer is never forgotten: once
\* the listener has seen its last revision and the channel holds nothing more about
\* it, its controller has acted on that revision or its key is queued.
About(c, d) == {i \in DOMAIN events[c] : events[c][i].kind # "error" /\ events[c][i].doc = d}
CaughtUp ==
    \A d \in Docs :
        ( /\ Home[d] \in listening
          /\ Decodes(d)
          /\ view[d] = spec[d]
          /\ About(Home[d], d) = {} ) => d \in queued \/ acted[d] = RevOf(d)

\* The cache moves from one revision of a document to a later one, never back to
\* one that a List or the stream had already overtaken.
CacheForward ==
    [][\A d \in Docs : cache'[d] # 0 /\ cache[d] # 0 => cache'[d] >= cache[d]]_vars

\* The informers and the leader give the controllers what they expect.  In every
\* step: they start under caches no older than their leader; a cache moves to later
\* revisions only, across removals and relists, and drops none that is still the
\* document's; and only what the cache has shown is acted on.
Delivery == INSTANCE SpecDelivery WITH known <- cache
DeliversInOrder == Delivery!Spec

\* And in the end: with every document decodable, each one that stays is acted on.
Delivers == Delivery!Liveness

\* A deletion no watch event told of leaves its document in the cache; the resync
\* still has the controller that keeps state for it look, and find it gone.
GhostsAreLaid ==
    \A d \in {e \in Docs : Home[e] \in HearDeletes} :
        <>[](Bad = {}) => ((Absent(d) /\ cache[d] # 0) ~> (acted[d] = 0 \/ ~Absent(d)))

\* While its collection is watched, a document that decodes is delivered, whatever
\* state its neighbours are in.
NeighboursDoNoHarm ==
    \A d \in Docs :
        <>[](phase = "running" /\ reflector[Home[d]] = "watch")
            => []<>(Decodes(d) => acted[d] = RevOf(d))
=============================================================================
