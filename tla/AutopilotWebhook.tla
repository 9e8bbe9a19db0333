-------------------------- MODULE AutopilotWebhook --------------------------
(***************************************************************************)
(* The mutating webhook that makes hosted control planes acceptable to GKE *)
(* Autopilot (ho-platform-none/webhook/main.go), and the apiserver that    *)
(* calls it: for every creation and update of a Deployment or StatefulSet, *)
(* for the creation of a Pod, in the namespaces that carry the label of    *)
(* its namespaceSelector, with failurePolicy Ignore.                       *)
(*                                                                         *)
(* The webhook has no state.  What can go wrong is what its patches meet:  *)
(* objects that it has patched before, objects stored while it was away,   *)
(* an owner that sends its own manifest again, and others who send back    *)
(* what they read.  A container is its securityContext and its CPU         *)
(* request, a volume its name.                                             *)
(***************************************************************************)
EXTENDS JsonPatch

CONSTANTS
    Names,       \* the workloads of the cluster
    Manifests,   \* what the owner of each may submit
    Selected,    \* the namespaces labelled as hosted control planes (by HyperShift,
                 \* or by hand: nothing in the repository sets the label)
    NoObject,    \* a workload that does not exist
    MaxOutages   \* bound: how often the webhook goes away

Contexts == {"missing", "own", "restricted", "network"}
Container ==
    [securityContext: Contexts, resources: {"own", "50m", "100m", "500m"},
     volumeMounts: {"missing", "own", "data"}]
Workload ==
    [kind: {"Deployment", "StatefulSet", "Pod", "other"},
     namespace: {"clusters", "hypershift", "elsewhere"}, labelled: BOOLEAN, network: BOOLEAN,
     pod: [securityContext: Contexts, affinity: {"missing", "own", "preferred"},
           volumes: Seq({"tls", "data"}), volumeClaimTemplates: Seq({"data"})],
     init: Seq(Container), main: Seq(Container)]

Distinct(s) == \A i, j \in DOMAIN s : s[i] = s[j] => i = j

Restricted(w) ==
    /\ w.pod.securityContext = "restricted"
    /\ \A part \in {"init", "main"} : \A i \in DOMAIN w[part] :
           w[part][i].securityContext \in {"restricted", "network"}

(***************************************************************************)
(* Only a StatefulSet has claims.  The fixes for two workloads name their  *)
(* containers by position: kube-apiserver has a second one, and etcd no    *)
(* more than the five they know, claims instead of a data volume, and      *)
(* something left to restrict (otherwise nothing would need fixing).       *)
(***************************************************************************)
Submittable(n, m) ==
    /\ m \in Workload
    /\ Distinct(m.pod.volumes)
    /\ m.kind # "StatefulSet" => m.pod.volumeClaimTemplates = <<>>
    /\ n = "kube-apiserver" /\ m.kind = "Deployment" => Len(m.main) >= 2
    /\ n = "etcd" /\ m.kind = "StatefulSet" =>
          /\ m.pod.volumeClaimTemplates # <<>>
          /\ \A i \in DOMAIN m.pod.volumes : m.pod.volumes[i] # "data"
          /\ ~Restricted(m)
          /\ Len(m.init) <= 2 /\ Len(m.main) <= 3

ASSUME ManifestsAssumption == \A n \in Names : \A m \in Manifests[n] : Submittable(n, m)
ASSUME OutagesAssumption == MaxOutages \in Nat

VARIABLES
    stored,      \* the objects in the apiserver
    up,          \* the webhook answers
    outages,     \* outages so far
    refused,     \* history: workloads whose last request was refused
    fixed        \* history: workloads whose stored object has passed the webhook

vars == <<stored, up, outages, refused, fixed>>

Exists(n) == stored[n] # NoObject

-----------------------------------------------------------------------------
(***************************************************************************)
(* The webhook.                                                            *)
(***************************************************************************)
\* strings.HasPrefix(namespace, "clusters-") || namespace == "hypershift"
isHyperShiftControlPlane(w) == w.namespace \in {"clusters", "hypershift"}

hasHyperShiftLabels(w) == w.labelled
hasAntiAffinityRules(w) == w.pod.affinity # "missing"

\* Mutant: a container that has a security context of its own is thought to need it.
needsOwnCapabilities(w) ==
    \E i \in DOMAIN w.main : w.main[i].securityContext = "own"

\* By name, command, arguments or a port below 1024: none of them is ever patched.
needsNetworkCapabilities(w) == w.network

\* Mutant: the security context is replaced, as in the fixes that are no longer called.
ReplaceSecurityContext(part, i, value) ==
    ContainerOp("replace", part, i, "securityContext", value)

SecurityContext(part, i, value) == ContainerOp("add", part, i, "securityContext", value)

\* Mutant: the second loop carries the first one's value.
FixContainersMixed(w, part) ==
    [i \in DOMAIN w[part] |-> SecurityContext(part, i - 1, "restricted")]
    \o [i \in DOMAIN w[part] |-> ContainerOp("replace", part, i - 1, "resources", "restricted")]

\* The fixes of the containers of one sort: a security context and resources for each.
FixContainers(w, part) ==
    LET context == IF needsNetworkCapabilities(w) THEN "network" ELSE "restricted"
        cpu == IF hasAntiAffinityRules(w) THEN "100m" ELSE "50m"
    IN  [i \in DOMAIN w[part] |-> SecurityContext(part, i - 1, context)]
        \o [i \in DOMAIN w[part] |-> ContainerOp("replace", part, i - 1, "resources", cpu)]

fixGenericDeploymentForGKEAutopilot(w) ==
    <<PodOp("add", "securityContext", "restricted")>>
    \o FixContainers(w, "init") \o FixContainers(w, "main")

fixKubeAPIServerSpecificPatches == <<ContainerOp("replace", "main", 1, "resources", "100m")>>

fixPodSecurityContext == <<PodOp("add", "securityContext", "restricted")>>

\* Mutant: the claims are left in place.
EtcdClaimsKept == <<>>

EtcdClaims == <<PodOp("replace", "volumeClaimTemplates", <<>>)>>

\* Containers by position: ensure-dns, reset-member; etcd, etcd-metrics, healthz.
fixEtcdResources ==
    <<PodOp("replace", "securityContext", "restricted"),
      PodOp("replace", "affinity", "preferred"),
      ContainerOp("replace", "main", 0, "volumeMounts", "data"),
      ContainerOp("replace", "init", 0, "resources", "500m"),
      ContainerOp("replace", "init", 0, "securityContext", "restricted"),
      ContainerOp("replace", "init", 1, "resources", "500m"),
      ContainerOp("replace", "init", 1, "securityContext", "restricted"),
      ContainerOp("replace", "main", 0, "resources", "500m"),
      ContainerOp("replace", "main", 0, "securityContext", "restricted"),
      ContainerOp("replace", "main", 1, "securityContext", "restricted"),
      ContainerOp("replace", "main", 2, "securityContext", "restricted")>>
    \o EtcdClaims
    \o <<PodOp("append", "volumes", "data")>>

mutateDeployment(n, w) ==
    fixGenericDeploymentForGKEAutopilot(w)
    \o (IF n = "kube-apiserver" THEN fixKubeAPIServerSpecificPatches ELSE <<>>)
mutateStatefulSet(n, w) == IF n = "etcd" THEN fixEtcdResources ELSE <<>>
mutatePod(n, w) == IF hasHyperShiftLabels(w) THEN fixPodSecurityContext ELSE <<>>

\* mutate with sendResponse: the answer is always "allowed", with these patches.
mutate(n, w) ==
    IF ~isHyperShiftControlPlane(w) THEN <<>>
    ELSE IF w.kind = "Deployment" THEN mutateDeployment(n, w)
    ELSE IF w.kind = "StatefulSet" THEN mutateStatefulSet(n, w)
    ELSE IF w.kind = "Pod" THEN mutatePod(n, w)
    ELSE <<>>

-----------------------------------------------------------------------------
(***************************************************************************)
(* The apiserver.                                                          *)
(***************************************************************************)
\* Mutant: no operation but CREATE is configured.
CalledAtCreation(n, w) == up /\ w.namespace \in Selected /\ ~Exists(n)

\* MutatingWebhookConfiguration: selected namespaces only, and pods at their creation.
Called(n, w) == up /\ w.namespace \in Selected /\ (w.kind = "Pod" => ~Exists(n))

\* Volume names are unique; the claims of a StatefulSet do not change.
Valid(n, w) ==
    /\ Distinct(w.pod.volumes)
    /\ Exists(n) => w.pod.volumeClaimTemplates = stored[n].pod.volumeClaimTemplates

\* An object is submitted: patched if the webhook is there, validated, stored.
Submit(n, w) ==
    \E patched \in {IF Called(n, w) THEN ApplyPatch(w, mutate(n, w)) ELSE w} :
        IF patched # Failed /\ Valid(n, patched)
        THEN /\ stored' = [stored EXCEPT ![n] = patched]
             /\ refused' = refused \ {n}
             /\ fixed' = IF Called(n, w) THEN fixed \cup {n}
                         ELSE IF w = stored[n] THEN fixed ELSE fixed \ {n}
        ELSE /\ refused' = refused \cup {n}
             /\ UNCHANGED <<stored, fixed>>

Create(n, m) == ~Exists(n) /\ Submit(n, m) /\ UNCHANGED <<up, outages>>

\* The owner reconciles: it sends its own manifest again, the same or a newer one.
\* (A ReplicaSet only creates and deletes Pods.)
Resubmit(n, m) ==
    /\ Exists(n)
    /\ m.kind # "Pod"
    /\ Submit(n, m)
    /\ UNCHANGED <<up, outages>>

\* Somebody scales or annotates the workload: its pods are to stay as they are.
Edit(n) == Exists(n) /\ Submit(n, stored[n]) /\ UNCHANGED <<up, outages>>

Delete(n) ==
    /\ Exists(n)
    /\ stored' = [stored EXCEPT ![n] = NoObject]
    /\ fixed' = fixed \ {n}
    /\ refused' = refused \ {n}
    /\ UNCHANGED <<up, outages>>

GoAway ==
    /\ up
    /\ outages < MaxOutages
    /\ up' = FALSE
    /\ outages' = outages + 1
    /\ UNCHANGED <<stored, refused, fixed>>

ComeBack == ~up /\ up' = TRUE /\ UNCHANGED <<stored, outages, refused, fixed>>

Init ==
    /\ stored = [n \in Names |-> NoObject]
    /\ up = TRUE
    /\ outages = 0
    /\ refused = {}
    /\ fixed = {}

Next ==
    \/ \E n \in Names :
        \/ \E m \in Manifests[n] : Create(n, m) \/ Resubmit(n, m)
        \/ Edit(n)
        \/ Delete(n)
    \/ GoAway
    \/ ComeBack

\* Owners reconcile for ever; the webhook's Deployment brings it back.
Reconcile(n) == \E m \in Manifests[n] : Resubmit(n, m)

Spec == Init /\ [][Next]_vars
FairSpec == Spec /\ WF_vars(ComeBack) /\ \A n \in Names : WF_vars(Reconcile(n))

-----------------------------------------------------------------------------
(***************************************************************************)
(* Properties.                                                             *)
(***************************************************************************)
\* Stored objects are well formed and keep the containers their owner gave them.
TypeOK ==
    /\ \A n \in Names : Exists(n) =>
        /\ stored[n] \in Workload
        /\ \E m \in Manifests[n] : /\ Len(stored[n].main) = Len(m.main)
                                   /\ Len(stored[n].init) = Len(m.init)
    /\ up \in BOOLEAN
    /\ outages \in 0 .. MaxOutages
    /\ refused \subseteq Names /\ fixed \subseteq Names

\* The webhook never makes the apiserver refuse a Deployment or a Pod: its patch of
\* these applies to whatever fields they have or lack, patched before or not.
NothingBlocked ==
    \A n \in refused : \E m \in Manifests[n] : m.kind = "StatefulSet"

\* Patching is idempotent: sending a patched object back through the webhook, as
\* every scaling or annotation does, leaves it as it is and starts no rollout.
EditsChangeNothing ==
    [][\A n \in fixed : Edit(n) => stored'[n] = stored[n]]_vars

\* A StatefulSet etcd is patched altogether or not at all, through outages, edits and
\* updates: its claims are gone exactly if the data volume that stands in for them is
\* there, once, and all its containers are restricted.
EtcdAllOrNothing ==
    \A n \in Names : Exists(n) /\ n = "etcd" /\ stored[n].kind = "StatefulSet" =>
        LET data == {i \in DOMAIN stored[n].pod.volumes : stored[n].pod.volumes[i] = "data"}
        IN  \/ stored[n].pod.volumeClaimTemplates = <<>> /\ data # {} /\ Restricted(stored[n])
            \/ stored[n].pod.volumeClaimTemplates # <<>> /\ data = {} /\ ~Restricted(stored[n])

\* An outage leaves no Deployment behind for good: once the webhook stays, every
\* Deployment of a control plane whose namespace is selected comes to be restricted.
DeploymentsHeal ==
    \A n \in Names :
        []<>( /\ Exists(n)
              /\ stored[n].kind = "Deployment"
              /\ stored[n].namespace \in Selected
              /\ isHyperShiftControlPlane(stored[n])
              => Restricted(stored[n]) )
=============================================================================
