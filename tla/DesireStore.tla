---------------------------- MODULE DesireStore ----------------------------
(***************************************************************************)
(* The two Firestore databases of a management cluster, for one kind of    *)
(* desire.  The backend writes spec documents; the agent only reads them   *)
(* and writes status documents of the same name                            *)
(* (internal/database/crud.go, desirestatuswriter.go).                     *)
(*                                                                         *)
(* The server-managed UpdateTime is a counter: rev for the specs database  *)
(* (one more for every write, so a document that is deleted and recreated  *)
(* still gets a later one), ver per status document.  A spec is abstracted *)
(* to its UpdateTime, which also identifies its content, its kind (what    *)
(* the controller can make of it) and its scope (the ClusterID and         *)
(* NodePoolName that go into the workqueue key).                           *)
(***************************************************************************)
EXTENDS Naturals

CONSTANTS
    Docs,      \* document IDs
    Scopes,    \* (ClusterID, NodePoolName) pairs
    Kinds,     \* what a spec may hold, given by the controller's module
    NoDoc,     \* a document that does not exist
    MaxRev     \* bound: spec writes

VARIABLES
    rev,       \* the last UpdateTime the specs database handed out
    spec,      \* the specs database
    status     \* the status database

storeVars == <<rev, spec, status>>

SpecDoc == [rev: Nat \ {0}, kind: Kinds, scope: Scopes]

ASSUME NoDocAssumption == NoDoc \notin SpecDoc

StoreInit ==
    /\ rev = 0
    /\ spec = [d \in Docs |-> NoDoc]
    /\ status = [d \in Docs |-> NoDoc]

(***************************************************************************)
(* The backend: create or replace a spec document, delete one.             *)
(***************************************************************************)
WriteSpec(d, kind, scope) ==
    /\ rev < MaxRev
    /\ rev' = rev + 1
    /\ spec' = [spec EXCEPT ![d] = [rev |-> rev + 1, kind |-> kind, scope |-> scope]]
    /\ UNCHANGED status

DeleteSpec(d) ==
    /\ spec[d] # NoDoc
    /\ spec' = [spec EXCEPT ![d] = NoDoc]
    /\ UNCHANGED <<rev, status>>

(***************************************************************************)
(* The status database.  Create fails if the document exists; Replace      *)
(* carries the UpdateTime it read as a precondition (LastUpdateTime).      *)
(***************************************************************************)
\* Mutant: Replace without the LastUpdateTime precondition.
CanReplaceAny(d, ver) == status[d] # NoDoc

CanCreate(d) == status[d] = NoDoc
CanReplace(d, ver) == status[d] # NoDoc /\ status[d].ver = ver

WriteStatus(d, ver, body) ==
    status' = [status EXCEPT ![d] = [ver |-> ver, body |-> body]]

Create(d, body) ==
    /\ CanCreate(d)
    /\ WriteStatus(d, 1, body)

Replace(d, ver, body) ==
    /\ CanReplace(d, ver)
    /\ WriteStatus(d, status[d].ver + 1, body)
=============================================================================
