----------------------------- MODULE DesireFeed -----------------------------
(***************************************************************************)
(* How spec changes become workqueue keys: the informer over the specs     *)
(* database, its event handlers and the cooldown gate, as the apply,       *)
(* delete and read-manager controllers share them (handleAdd, handleUpdate *)
(* and enqueueWithCooldown of each controller, internal/controllerutils).  *)
(*                                                                         *)
(* The watch reports a document's current revision; revisions written in   *)
(* between are coalesced away.  A handler runs with the cache update it    *)
(* reports: it only queues a key, so a later call is the same behaviour    *)
(* with the key queued early.  Time is abstract: CooldownOver ends a key's *)
(* cooldown period at any moment after it began.                           *)
(***************************************************************************)
EXTENDS DesireStore, WorkQueue

VARIABLES
    cache,     \* the informer's store: the last revision handed to the handlers
    cooling    \* keys the cooldown gate holds back

feedVars == <<cache, cooling>>

Keys == [scope: Scopes, name: Docs]

\* Mutant: the fields of the key are swapped.
KeyOfSwapped(d, doc) == [scope |-> d, name |-> doc.scope]

\* XxxDesireKeyFromDesire
KeyOf(d, doc) == [scope |-> doc.scope, name |-> d]

FeedInit ==
    /\ cache = [d \in Docs |-> NoDoc]
    /\ cooling = {}

FeedTypeOK ==
    /\ cache \in [Docs -> SpecDoc \cup {NoDoc}]
    /\ cooling \subseteq Keys

\* handleAdd, or handleUpdate with a new UpdateTime: queue at once.
HandleChange(d) ==
    /\ spec[d] # NoDoc
    /\ cache[d] # spec[d]
    /\ cache' = [cache EXCEPT ![d] = spec[d]]
    /\ Add(KeyOf(d, spec[d]))
    /\ UNCHANGED <<cooling, processing, retry>>

\* The document left the collection; no handler is registered for that.
DropDeleted(d) ==
    /\ spec[d] = NoDoc
    /\ cache[d] # NoDoc
    /\ cache' = [cache EXCEPT ![d] = NoDoc]
    /\ UNCHANGED <<cooling, queueVars>>

\* Mutant: handleUpdate ignores every update whose UpdateTime did not change.
NeverSync(k) == FALSE

\* CanSync: no entry for the key, or its period has passed.
CanSync(k) == k \notin cooling

\* handleUpdate with the UpdateTime unchanged (the informer's resync): gated.
HandleResync(d) ==
    /\ cache[d] # NoDoc
    /\ CanSync(KeyOf(d, cache[d]))
    /\ cooling' = cooling \cup {KeyOf(d, cache[d])}
    /\ Add(KeyOf(d, cache[d]))
    /\ UNCHANGED <<cache, processing, retry>>

CooldownOver(k) ==
    /\ k \in cooling
    /\ cooling' = cooling \ {k}
    /\ UNCHANGED <<cache, queueVars>>

\* The process is gone, and with it everything it held in memory.
FeedLost ==
    /\ cache' = [d \in Docs |-> NoDoc]
    /\ cooling' = {}
    /\ QueueLost
=============================================================================
