---------------------- MODULE AutopilotWebhookProofs ----------------------
(***************************************************************************)
(* The webhook's patches, for any manifests its owners may submit.  First  *)
(* what a patch does to a workload: every field it touches gets a value of *)
(* the field's type, and a patch that appends nothing changes nothing the  *)
(* second time.  Then the invariant: a stored object is one of its owner's *)
(* manifests, or what the webhook makes of one.                            *)
(***************************************************************************)
EXTENDS AutopilotWebhook, WellFoundedInduction, TLAPS

-----------------------------------------------------------------------------
(***************************************************************************)
(* Patches.                                                                *)
(***************************************************************************)
\* A bounded set of numbers has a last one.
LEMMA LastOfSome ==
    ASSUME NEW n \in Nat, NEW S \in SUBSET (1 .. n), S # {}
    PROVE  Max(S) \in S /\ \A k \in S : k <= Max(S)
  <1> DEFINE T == {n - k : k \in S}
             L == {p \in Nat \X Nat : p[1] < p[2]}
  <1>0. IsWellFoundedOn(L, Nat)
    <2>1. OpToRel(<, Nat) = L
      BY Zenon DEF OpToRel
    <2> QED
      BY <2>1, NatLessThanWellFounded, Zenon
  <1>1. \E t \in T : \A u \in T : ~(<<u, t>> \in L)
    <2>1. T \subseteq Nat /\ T # {}
      <3>1. PICK k \in S : k \in 1 .. n
        OBVIOUS
      <3>2. n - k \in T
        OBVIOUS
      <3>3. \A j \in 1 .. n : n - j \in Nat
        OBVIOUS
      <3>4. \A t \in T : \E j \in 1 .. n : t = n - j
        OBVIOUS
      <3> QED
        BY <3>2, <3>3, <3>4
    <2> HIDE DEF T, L
    <2> QED
      BY <1>0, <2>1, WFMin
  <1>2. PICK t \in T : \A u \in T : ~(u < t)
    <2>1. \A u, t \in T : u < t => <<u, t>> \in L
      OBVIOUS
    <2> HIDE DEF T, L
    <2> QED
      BY <1>1, <2>1
  <1>3. PICK k \in S : t = n - k
    OBVIOUS
  <1>4. \A j \in S : n - j \in T
    OBVIOUS
  <1>5. \A j \in S : j \in Int /\ ~(n - j < n - k)
    BY <1>2, <1>3, <1>4
  <1>6. \A j \in S : k >= j
    <2> HIDE DEF T, L
    <2> QED
      BY <1>5
  <1> QED
    BY <1>6 DEF Max

\* The operation is about this field.
On(o, part, index, field) == o.part = part /\ o.index = index /\ o.field = field

\* What an operation makes of the value it finds.
Effect(o, old) == IF o.op = "append" THEN Append(old, o.value) ELSE o.value

\* A field keeps its value, or has the effect of one operation on it, whatever it was.
LEMMA AfterPatch ==
    ASSUME NEW ops, NEW n \in Nat, DOMAIN ops = 1 .. n,
           NEW part, NEW index, NEW field
    PROVE  \/ /\ \A k \in 1 .. n : ~On(ops[k], part, index, field)
              /\ \A old : After(old, ops, part, index, field) = old
           \/ \E k \in 1 .. n :
                 /\ On(ops[k], part, index, field)
                 /\ \A old : After(old, ops, part, index, field) = Effect(ops[k], old)
  <1> DEFINE S == {k \in DOMAIN ops : /\ ops[k].part = part /\ ops[k].index = index
                                      /\ ops[k].field = field}
  <1>1. \A old : After(old, ops, part, index, field) =
                    IF S = {} THEN old ELSE Effect(ops[Max(S)], old)
    BY DEF After, Effect
  <1>2. CASE S = {}
    <2>1. \A old : After(old, ops, part, index, field) = old
      <3> HIDE DEF S
      <3> QED
        BY <1>1, <1>2
    <2> QED
      BY <1>2, <2>1 DEF On
  <1>3. CASE S # {}
    <2>1. S \in SUBSET (1 .. n)
      OBVIOUS
    <2>2. Max(S) \in S
      <3> HIDE DEF S
      <3> QED
        BY <1>3, <2>1, LastOfSome
    <2>3. Max(S) \in 1 .. n /\ On(ops[Max(S)], part, index, field)
      BY <2>2 DEF On
    <2>4. \A old : After(old, ops, part, index, field) = Effect(ops[Max(S)], old)
      <3> HIDE DEF S
      <3> QED
        BY <1>1, <1>3
    <2> QED
      BY <2>3, <2>4
  <1> QED
    BY <1>2, <1>3

PodFields == {"securityContext", "affinity", "volumes", "volumeClaimTemplates"}
ContainerFields == {"securityContext", "resources", "volumeMounts"}
Parts == {"init", "main"}

\* A workload has these fields.
LEMMA WorkloadFields ==
    ASSUME NEW w \in Workload
    PROVE  /\ DOMAIN w.pod = PodFields
           /\ \A part \in Parts : /\ w[part] \in Seq(Container)
                                  /\ Len(w[part]) \in Nat
                                  /\ DOMAIN w[part] = 1 .. Len(w[part])
           /\ \A part \in Parts : \A i \in DOMAIN w[part] :
                 w[part][i] \in Container /\ DOMAIN w[part][i] = ContainerFields
  <1>1. w.pod \in [securityContext: Contexts, affinity: {"missing", "own", "preferred"},
                   volumes: Seq({"tls", "data"}), volumeClaimTemplates: Seq({"data"})]
        /\ w.init \in Seq(Container) /\ w.main \in Seq(Container)
    BY DEF Workload
  <1>2. DOMAIN w.pod = PodFields
    BY <1>1 DEF PodFields
  <1>3. \A c \in Container : DOMAIN c = ContainerFields
    BY DEF Container, ContainerFields
  <1>4. \A part \in Parts : w[part] \in Seq(Container)
    BY <1>1 DEF Parts
  <1> QED
    BY <1>2, <1>3, <1>4

PatchedPod(w, ops) == [f \in PodFields |-> After(w.pod[f], ops, "pod", 0, f)]
PatchedContainers(w, ops, part) ==
    [i \in DOMAIN w[part] |->
        [f \in ContainerFields |-> After(w[part][i][f], ops, part, i - 1, f)]]

\* What a patch that applies leaves and what it changes.
LEMMA PatchedFields ==
    ASSUME NEW w \in Workload, NEW ops
    PROVE  IF \A k \in DOMAIN ops : Applies(w, ops[k])
           THEN ApplyPatch(w, ops) = [w EXCEPT !.pod = PatchedPod(w, ops),
                                               !.init = PatchedContainers(w, ops, "init"),
                                               !.main = PatchedContainers(w, ops, "main")]
           ELSE ApplyPatch(w, ops) = Failed
  <1>1. DOMAIN w.pod = PodFields
    BY WorkloadFields
  <1>2. \A part \in Parts : \A i \in DOMAIN w[part] : DOMAIN w[part][i] = ContainerFields
    BY WorkloadFields
  <1>3. [i \in DOMAIN w.init |-> [f \in DOMAIN w.init[i] |-> After(w.init[i][f], ops, "init", i - 1, f)]]
        = PatchedContainers(w, ops, "init")
    BY <1>2 DEF PatchedContainers, Parts
  <1>4. [i \in DOMAIN w.main |-> [f \in DOMAIN w.main[i] |-> After(w.main[i][f], ops, "main", i - 1, f)]]
        = PatchedContainers(w, ops, "main")
    BY <1>2 DEF PatchedContainers, Parts
  <1> QED
    BY <1>1, <1>3, <1>4 DEF ApplyPatch, PatchedPod

\* A value that fits a field.
Fits(field, value) ==
    /\ field = "securityContext" => value \in Contexts
    /\ field = "affinity" => value \in {"missing", "own", "preferred"}
    /\ field = "volumes" => value \in Seq({"tls", "data"})
    /\ field = "volumeClaimTemplates" => value \in Seq({"data"})
    /\ field = "resources" => value \in {"own", "50m", "100m", "500m"}
    /\ field = "volumeMounts" => value \in {"missing", "own", "data"}

Typed(o) ==
    IF o.op = "append" THEN o.field = "volumes" /\ o.value \in {"tls", "data"}
                       ELSE Fits(o.field, o.value)

Operators(ops) ==
    \E n \in Nat : DOMAIN ops = 1 .. n /\ \A k \in 1 .. n : Typed(ops[k])

\* A patch of fitting values keeps the type of every field.
LEMMA AfterFits ==
    ASSUME NEW ops, Operators(ops), NEW part, NEW index, NEW field, NEW old, Fits(field, old)
    PROVE  Fits(field, After(old, ops, part, index, field))
  <1>1. PICK n \in Nat : DOMAIN ops = 1 .. n /\ \A k \in 1 .. n : Typed(ops[k])
    BY DEF Operators
  <1>2. CASE After(old, ops, part, index, field) = old
    BY <1>2
  <1>3. ASSUME NEW k \in 1 .. n, On(ops[k], part, index, field)
        PROVE  Fits(field, Effect(ops[k], old))
    <2>1. CASE ops[k].op = "append"
      <3>1. field = "volumes" /\ ops[k].value \in {"tls", "data"} /\ old \in Seq({"tls", "data"})
        BY <1>1, <1>3, <2>1 DEF Typed, On, Fits
      <3>2. Append(old, ops[k].value) \in Seq({"tls", "data"})
        BY <3>1
      <3> QED
        BY <2>1, <3>1, <3>2 DEF Fits, Effect
    <2>2. CASE ops[k].op # "append"
      BY <1>1, <1>3, <2>2 DEF Typed, On, Effect
    <2> QED
      BY <2>1, <2>2
  <1> QED
    BY <1>1, <1>2, <1>3, AfterPatch

\* A function from 1..n is a sequence.
LEMMA SequenceOf ==
    ASSUME NEW n \in Nat, NEW S, NEW s \in [1 .. n -> S]
    PROVE  s \in Seq(S) /\ Len(s) = n
  OBVIOUS

LEMMA PatchedContainersType ==
    ASSUME NEW w \in Workload, NEW ops, Operators(ops), NEW part \in Parts
    PROVE  /\ PatchedContainers(w, ops, part) \in Seq(Container)
           /\ Len(PatchedContainers(w, ops, part)) = Len(w[part])
           /\ DOMAIN PatchedContainers(w, ops, part) = DOMAIN w[part]
  <1> DEFINE c(i) == [f \in ContainerFields |-> After(w[part][i][f], ops, part, i - 1, f)]
  <1>1. Len(w[part]) \in Nat /\ DOMAIN w[part] = 1 .. Len(w[part])
        /\ \A i \in DOMAIN w[part] : w[part][i] \in Container
    BY WorkloadFields
  <1>2. ASSUME NEW i \in DOMAIN w[part]
        PROVE  c(i) \in Container
    <2>1. /\ Fits("securityContext", w[part][i].securityContext)
          /\ Fits("resources", w[part][i].resources)
          /\ Fits("volumeMounts", w[part][i].volumeMounts)
      BY <1>1 DEF Container, Fits
    <2>2. /\ c(i).securityContext \in Contexts
          /\ c(i).resources \in {"own", "50m", "100m", "500m"}
          /\ c(i).volumeMounts \in {"missing", "own", "data"}
      <3>1. /\ Fits("securityContext", c(i).securityContext)
            /\ Fits("resources", c(i).resources)
            /\ Fits("volumeMounts", c(i).volumeMounts)
        BY <2>1, AfterFits DEF ContainerFields
      <3> QED
        BY <3>1 DEF Fits
    <2>3. c(i) = [securityContext |-> c(i).securityContext, resources |-> c(i).resources,
                  volumeMounts |-> c(i).volumeMounts]
      BY DEF ContainerFields
    <2> HIDE DEF c
    <2> QED
      BY <2>2, <2>3 DEF Container
  <1>3. PatchedContainers(w, ops, part) = [i \in DOMAIN w[part] |-> c(i)]
    BY DEF PatchedContainers
  <1>4. PatchedContainers(w, ops, part) \in [1 .. Len(w[part]) -> Container]
    <2> HIDE DEF c
    <2> QED
      BY <1>1, <1>2, <1>3
  <1> QED
    BY <1>1, <1>4, SequenceOf

LEMMA PatchedPodType ==
    ASSUME NEW w \in Workload, NEW ops, Operators(ops)
    PROVE  PatchedPod(w, ops) \in
               [securityContext: Contexts, affinity: {"missing", "own", "preferred"},
                volumes: Seq({"tls", "data"}), volumeClaimTemplates: Seq({"data"})]
  <1> DEFINE c == PatchedPod(w, ops)
  <1>1. /\ Fits("securityContext", w.pod.securityContext)
        /\ Fits("affinity", w.pod.affinity)
        /\ Fits("volumes", w.pod.volumes)
        /\ Fits("volumeClaimTemplates", w.pod.volumeClaimTemplates)
    BY DEF Workload, Fits
  <1>2. /\ Fits("securityContext", c.securityContext)
        /\ Fits("affinity", c.affinity)
        /\ Fits("volumes", c.volumes)
        /\ Fits("volumeClaimTemplates", c.volumeClaimTemplates)
    BY <1>1, AfterFits DEF PatchedPod, PodFields
  <1>3. c = [securityContext |-> c.securityContext, affinity |-> c.affinity,
             volumes |-> c.volumes, volumeClaimTemplates |-> c.volumeClaimTemplates]
    BY DEF PatchedPod, PodFields
  <1> HIDE DEF c
  <1>4. c \in [securityContext: Contexts, affinity: {"missing", "own", "preferred"},
               volumes: Seq({"tls", "data"}), volumeClaimTemplates: Seq({"data"})]
    BY <1>2, <1>3 DEF Fits
  <1> QED
    BY <1>4 DEF c

\* So a patch of fitting values makes a workload of a workload, with its containers.
LEMMA PatchedWorkload ==
    ASSUME NEW w \in Workload, NEW ops, Operators(ops), NEW p, p = ApplyPatch(w, ops), p # Failed
    PROVE  /\ p \in Workload
           /\ \A k \in DOMAIN ops : Applies(w, ops[k])
           /\ p.kind = w.kind /\ p.namespace = w.namespace
           /\ p.labelled = w.labelled /\ p.network = w.network
           /\ p.pod = PatchedPod(w, ops)
           /\ \A part \in Parts : /\ p[part] = PatchedContainers(w, ops, part)
                                  /\ DOMAIN p[part] = DOMAIN w[part]
                                  /\ Len(p[part]) = Len(w[part])
  <1>1. \A k \in DOMAIN ops : Applies(w, ops[k])
    BY PatchedFields
  <1>2. p = [w EXCEPT !.pod = PatchedPod(w, ops),
                      !.init = PatchedContainers(w, ops, "init"),
                      !.main = PatchedContainers(w, ops, "main")]
    BY <1>1, PatchedFields
  <1>3. /\ PatchedContainers(w, ops, "init") \in Seq(Container)
        /\ PatchedContainers(w, ops, "main") \in Seq(Container)
    BY PatchedContainersType DEF Parts
  <1>4. /\ p \in Workload
        /\ p.kind = w.kind /\ p.namespace = w.namespace
        /\ p.labelled = w.labelled /\ p.network = w.network
        /\ p.pod = PatchedPod(w, ops)
        /\ p.init = PatchedContainers(w, ops, "init")
        /\ p.main = PatchedContainers(w, ops, "main")
    <2>1. DOMAIN w = {"kind", "namespace", "labelled", "network", "pod", "init", "main"}
      BY DEF Workload
    <2>2. /\ p.kind = w.kind /\ p.namespace = w.namespace
          /\ p.labelled = w.labelled /\ p.network = w.network
      BY <1>2, <2>1
    <2>3. /\ p.pod = PatchedPod(w, ops)
          /\ p.init = PatchedContainers(w, ops, "init")
          /\ p.main = PatchedContainers(w, ops, "main")
      BY <1>2, <2>1
    <2>4. p = [kind |-> p.kind, namespace |-> p.namespace, labelled |-> p.labelled,
               network |-> p.network, pod |-> p.pod, init |-> p.init, main |-> p.main]
      BY <1>2, <2>1
    <2>5. /\ w.kind \in {"Deployment", "StatefulSet", "Pod", "other"}
          /\ w.namespace \in {"clusters", "hypershift", "elsewhere"}
          /\ w.labelled \in BOOLEAN /\ w.network \in BOOLEAN
      BY DEF Workload
    <2>6. /\ p.kind \in {"Deployment", "StatefulSet", "Pod", "other"}
          /\ p.namespace \in {"clusters", "hypershift", "elsewhere"}
          /\ p.labelled \in BOOLEAN /\ p.network \in BOOLEAN
      BY <2>2, <2>5
    <2>7. p.pod \in [securityContext: Contexts, affinity: {"missing", "own", "preferred"},
                     volumes: Seq({"tls", "data"}), volumeClaimTemplates: Seq({"data"})]
      BY <2>3, PatchedPodType
    <2>8. p.init \in Seq(Container) /\ p.main \in Seq(Container)
      BY <1>3, <2>3
    <2>9. p \in Workload
      BY <2>4, <2>6, <2>7, <2>8, Zenon DEF Workload
    <2> QED
      BY <2>2, <2>3, <2>9
  <1>5. \A part \in Parts : /\ p[part] = PatchedContainers(w, ops, part)
                            /\ DOMAIN p[part] = DOMAIN w[part]
                            /\ Len(p[part]) = Len(w[part])
    <2>1. \A part \in Parts : p[part] = PatchedContainers(w, ops, part)
      BY <1>4 DEF Parts
    <2> QED
      BY <2>1, PatchedContainersType
  <1> QED
    BY <1>1, <1>4, <1>5

\* A patch that appends nothing changes nothing the second time.
LEMMA AfterTwice ==
    ASSUME NEW ops, Operators(ops), \A k \in DOMAIN ops : ops[k].op # "append",
           NEW part, NEW index, NEW field, NEW old
    PROVE  After(After(old, ops, part, index, field), ops, part, index, field)
           = After(old, ops, part, index, field)
  <1>1. PICK n \in Nat : DOMAIN ops = 1 .. n
    BY DEF Operators
  <1>2. \/ \A x : After(x, ops, part, index, field) = x
        \/ \E k \in 1 .. n : \A x : After(x, ops, part, index, field) = Effect(ops[k], x)
    BY <1>1, AfterPatch
  <1>3. \A k \in 1 .. n : \A x : Effect(ops[k], x) = ops[k].value
    BY <1>1 DEF Effect
  <1> QED
    BY <1>2, <1>3

LEMMA PatchTwice ==
    ASSUME NEW w \in Workload, NEW ops, Operators(ops), \A k \in DOMAIN ops : ops[k].op # "append",
           NEW p, p = ApplyPatch(w, ops), p # Failed, ApplyPatch(p, ops) # Failed
    PROVE  ApplyPatch(p, ops) = p
  <1> DEFINE q == ApplyPatch(p, ops)
  <1>1. /\ p \in Workload
        /\ p.pod = PatchedPod(w, ops)
        /\ \A part \in Parts : /\ p[part] = PatchedContainers(w, ops, part)
                               /\ DOMAIN p[part] = DOMAIN w[part]
    BY PatchedWorkload
  <1>2. q = [p EXCEPT !.pod = PatchedPod(p, ops),
                      !.init = PatchedContainers(p, ops, "init"),
                      !.main = PatchedContainers(p, ops, "main")]
    BY <1>1, PatchedFields
  <1>3. PatchedPod(p, ops) = p.pod
    BY <1>1, AfterTwice DEF PatchedPod
  <1>4. ASSUME NEW part \in Parts
        PROVE  PatchedContainers(p, ops, part) = p[part]
    <2>1. \A i \in DOMAIN w[part], f \in ContainerFields :
             After(p[part][i][f], ops, part, i - 1, f) = p[part][i][f]
      <3> SUFFICES ASSUME NEW i \in DOMAIN w[part], NEW f \in ContainerFields
                   PROVE  After(p[part][i][f], ops, part, i - 1, f) = p[part][i][f]
        OBVIOUS
      <3>1. p[part][i][f] = After(w[part][i][f], ops, part, i - 1, f)
        <4>1. p[part] = PatchedContainers(w, ops, part)
          BY <1>1
        <4>2. PatchedContainers(w, ops, part)[i] =
                  [g \in ContainerFields |-> After(w[part][i][g], ops, part, i - 1, g)]
          BY DEF PatchedContainers
        <4> QED
          BY <4>1, <4>2
      <3> QED
        BY <3>1, AfterTwice
    <2>2. p[part] = [i \in DOMAIN w[part] |-> [f \in ContainerFields |-> p[part][i][f]]]
      BY <1>1 DEF PatchedContainers
    <2> QED
      BY <1>1, <2>1, <2>2 DEF PatchedContainers
  <1>5. p = [p EXCEPT !.pod = p.pod, !.init = p.init, !.main = p.main]
    BY <1>1 DEF Workload
  <1>6. PatchedContainers(p, ops, "init") = p.init /\ PatchedContainers(p, ops, "main") = p.main
    BY <1>4 DEF Parts
  <1> QED
    BY <1>2, <1>3, <1>5, <1>6

\* The empty patch changes nothing.
LEMMA EmptyPatch ==
    ASSUME NEW w \in Workload
    PROVE  ApplyPatch(w, <<>>) = w
  <1> DEFINE ops == <<>>
  <1>1. DOMAIN ops = 1 .. 0
    OBVIOUS
  <1>2. \A part, index, field, old : After(old, ops, part, index, field) = old
    <2> SUFFICES ASSUME NEW part, NEW index, NEW field
                 PROVE  \A old : After(old, ops, part, index, field) = old
      OBVIOUS
    <2>1. ~ \E k \in 1 .. 0 : TRUE
      OBVIOUS
    <2> HIDE DEF ops
    <2> QED
      BY <1>1, <2>1, AfterPatch
  <1>3. PatchedPod(w, ops) = w.pod
    <2>1. w.pod = [f \in PodFields |-> w.pod[f]]
      BY WorkloadFields DEF Workload
    <2> HIDE DEF ops
    <2> QED
      BY <1>2, <2>1 DEF PatchedPod
  <1>4. ASSUME NEW part \in Parts
        PROVE  PatchedContainers(w, ops, part) = w[part]
    <2>1. w[part] = [i \in DOMAIN w[part] |-> w[part][i]]
      BY WorkloadFields
    <2>2. ASSUME NEW i \in DOMAIN w[part]
          PROVE  w[part][i] = [f \in ContainerFields |-> w[part][i][f]]
      BY WorkloadFields DEF Container
    <2> HIDE DEF ops
    <2>3. PatchedContainers(w, ops, part) =
              [i \in DOMAIN w[part] |-> [f \in ContainerFields |-> w[part][i][f]]]
      BY <1>2 DEF PatchedContainers
    <2>4. [i \in DOMAIN w[part] |-> [f \in ContainerFields |-> w[part][i][f]]]
          = [i \in DOMAIN w[part] |-> w[part][i]]
      BY <2>2
    <2> QED
      BY <2>1, <2>3, <2>4
  <1>5. ApplyPatch(w, ops) = [w EXCEPT !.pod = PatchedPod(w, ops),
                                       !.init = PatchedContainers(w, ops, "init"),
                                       !.main = PatchedContainers(w, ops, "main")]
    <2>1. \A k \in DOMAIN ops : Applies(w, ops[k])
      BY <1>1
    <2> HIDE DEF ops
    <2> QED
      BY <2>1, PatchedFields
  <1>6. w = [w EXCEPT !.pod = w.pod, !.init = w.init, !.main = w.main]
    BY DEF Workload
  <1>7. PatchedContainers(w, ops, "init") = w.init /\ PatchedContainers(w, ops, "main") = w.main
    BY <1>4 DEF Parts
  <1> HIDE DEF ops
  <1>8. ApplyPatch(w, ops) = w
    BY <1>3, <1>5, <1>6, <1>7
  <1> QED
    BY <1>8 DEF ops

-----------------------------------------------------------------------------
(***************************************************************************)
(* The webhook's patches.                                                  *)
(***************************************************************************)
\* The operations of the fixes that are written for any workload: what they replace
\* is always there, and they append nothing.
SafeOps(w) ==
    {o \in [op: {"add", "replace"}, part: {"pod", "init", "main"}, index: Nat,
            field: {"securityContext", "resources"},
            value: {"restricted", "network", "50m", "100m"}] :
        /\ o.field = "securityContext" => o.op = "add" /\ o.value \in {"restricted", "network"}
        /\ o.field = "resources" => o.part # "pod" /\ o.value \in {"50m", "100m"}
        /\ o.part # "pod" => o.index + 1 \in DOMAIN w[o.part]}

LEMMA SafeOpsApply ==
    ASSUME NEW w \in Workload, NEW ops \in Seq(SafeOps(w))
    PROVE  /\ Operators(ops)
           /\ \A k \in DOMAIN ops : ops[k].op # "append" /\ Applies(w, ops[k])
           /\ \A k \in DOMAIN ops : ops[k].field \notin {"affinity", "volumes", "volumeClaimTemplates"}
  <1>1. Len(ops) \in Nat /\ DOMAIN ops = 1 .. Len(ops)
        /\ \A k \in DOMAIN ops : ops[k] \in SafeOps(w)
    OBVIOUS
  <1>2. ASSUME NEW o \in SafeOps(w)
        PROVE  /\ Typed(o) /\ o.op # "append"
               /\ o.field \notin {"affinity", "volumes", "volumeClaimTemplates"}
    BY DEF SafeOps, Typed, Fits, Contexts
  <1>3. ASSUME NEW o \in SafeOps(w)
        PROVE  Applies(w, o)
    <2>1. o.part = "pod" \/ (o.part \in Parts /\ o.index + 1 \in DOMAIN w[o.part])
      BY DEF SafeOps, Parts
    <2>2. Reaches(w, o)
      BY <2>1 DEF Reaches
    <2>3. CASE o.op = "add"
      BY <2>2, <2>3 DEF Applies
    <2>4. CASE o.op # "add"
      <3>1. o.field = "resources" /\ o.part # "pod"
        BY <2>4 DEF SafeOps
      <3>2. Holder(w, o) \in Container
        BY <2>1, <3>1, WorkloadFields DEF Holder
      <3>3. Holder(w, o).resources # "missing"
        BY <3>2 DEF Container
      <3> QED
        BY <2>2, <3>1, <3>3 DEF Applies, Has, ListFields
    <2> QED
      BY <2>3, <2>4
  <1> QED
    BY <1>1, <1>2, <1>3 DEF Operators

\* The fixes of one sort of containers.
LEMMA ContainerFixesAreSafe ==
    ASSUME NEW w \in Workload, NEW part \in Parts
    PROVE  FixContainers(w, part) \in Seq(SafeOps(w))
  <1> DEFINE n == Len(w[part])
             context == IF needsNetworkCapabilities(w) THEN "network" ELSE "restricted"
             cpu == IF hasAntiAffinityRules(w) THEN "100m" ELSE "50m"
             F(i) == SecurityContext(part, i - 1, context)
             G(i) == ContainerOp("replace", part, i - 1, "resources", cpu)
  <1>1. n \in Nat /\ DOMAIN w[part] = 1 .. n
    BY WorkloadFields
  <1>2. context \in {"network", "restricted"} /\ cpu \in {"100m", "50m"}
    OBVIOUS
  <1>3. ASSUME NEW i \in 1 .. n
        PROVE  F(i) \in SafeOps(w) /\ G(i) \in SafeOps(w)
    <2>1. i - 1 \in Nat /\ (i - 1) + 1 \in DOMAIN w[part]
      BY <1>1
    <2>2. part \in {"pod", "init", "main"}
      BY DEF Parts
    <2>3. F(i) = [op |-> "add", part |-> part, index |-> i - 1,
                  field |-> "securityContext", value |-> context]
      BY DEF SecurityContext, ContainerOp
    <2>4. G(i) = [op |-> "replace", part |-> part, index |-> i - 1,
                  field |-> "resources", value |-> cpu]
      BY DEF ContainerOp
    <2> HIDE DEF F, G, context, cpu, n
    <2>5. F(i) \in SafeOps(w)
      BY <1>2, <2>1, <2>2, <2>3 DEF SafeOps
    <2>6. G(i) \in SafeOps(w)
      BY <1>2, <2>1, <2>2, <2>4 DEF SafeOps, Parts
    <2> QED
      BY <2>5, <2>6
  <1>4. FixContainers(w, part) = [i \in 1 .. n |-> F(i)] \o [i \in 1 .. n |-> G(i)]
    BY <1>1 DEF FixContainers
  <1> HIDE DEF F, G, n
  <1>5. [i \in 1 .. n |-> F(i)] \in Seq(SafeOps(w)) /\ [i \in 1 .. n |-> G(i)] \in Seq(SafeOps(w))
    BY <1>1, <1>3, SequenceOf
  <1> QED
    BY <1>4, <1>5

\* Every patch but that of a StatefulSet etcd.
LEMMA MutationIsSafe ==
    ASSUME NEW n, NEW w \in Workload, n # "etcd" \/ w.kind # "StatefulSet",
           n = "kube-apiserver" /\ w.kind = "Deployment" => Len(w.main) >= 2
    PROVE  mutate(n, w) \in Seq(SafeOps(w))
  <1>1. <<PodOp("add", "securityContext", "restricted")>> \in Seq(SafeOps(w))
    <2>1. PodOp("add", "securityContext", "restricted") \in SafeOps(w)
      BY DEF PodOp, SafeOps
    <2> QED
      BY <2>1
  <1>2. <<>> \in Seq(SafeOps(w))
    OBVIOUS
  <1>3. fixGenericDeploymentForGKEAutopilot(w) \in Seq(SafeOps(w))
    <2>1. FixContainers(w, "init") \in Seq(SafeOps(w)) /\ FixContainers(w, "main") \in Seq(SafeOps(w))
      BY ContainerFixesAreSafe DEF Parts
    <2> QED
      BY <1>1, <2>1 DEF fixGenericDeploymentForGKEAutopilot
  <1>4. CASE w.kind = "Deployment"
    <2>1. ASSUME n = "kube-apiserver"
          PROVE  fixKubeAPIServerSpecificPatches \in Seq(SafeOps(w))
      <3>1. 1 + 1 \in DOMAIN w.main
        BY <1>4, <2>1, WorkloadFields DEF Parts
      <3>2. ContainerOp("replace", "main", 1, "resources", "100m") \in SafeOps(w)
        BY <3>1 DEF ContainerOp, SafeOps
      <3> QED
        BY <3>2 DEF fixKubeAPIServerSpecificPatches
    <2>2. mutateDeployment(n, w) \in Seq(SafeOps(w))
      BY <1>2, <1>3, <2>1 DEF mutateDeployment
    <2> QED
      BY <1>2, <1>4, <2>2 DEF mutate
  <1>5. CASE w.kind # "Deployment"
    BY <1>1, <1>2, <1>5 DEF mutate, mutateStatefulSet, mutatePod, fixPodSecurityContext
  <1> QED
    BY <1>4, <1>5

\* What the webhook makes of a workload.
Patched(n, w) == ApplyPatch(w, mutate(n, w))

\* A workload is patched alike as long as the webhook sees the same of it.
LEMMA SameMutation ==
    ASSUME NEW n, NEW w, NEW p,
           p.kind = w.kind, p.namespace = w.namespace, p.labelled = w.labelled,
           p.network = w.network, p.pod.affinity = w.pod.affinity,
           DOMAIN p["init"] = DOMAIN w["init"], DOMAIN p["main"] = DOMAIN w["main"]
    PROVE  mutate(n, p) = mutate(n, w)
  <1>1. isHyperShiftControlPlane(p) = isHyperShiftControlPlane(w)
        /\ hasHyperShiftLabels(p) = hasHyperShiftLabels(w)
        /\ hasAntiAffinityRules(p) = hasAntiAffinityRules(w)
        /\ needsNetworkCapabilities(p) = needsNetworkCapabilities(w)
    BY DEF isHyperShiftControlPlane, hasHyperShiftLabels, hasAntiAffinityRules,
           needsNetworkCapabilities
  <1>2. FixContainers(p, "init") = FixContainers(w, "init")
        /\ FixContainers(p, "main") = FixContainers(w, "main")
    BY <1>1 DEF FixContainers
  <1>3. mutateDeployment(n, p) = mutateDeployment(n, w)
        /\ mutateStatefulSet(n, p) = mutateStatefulSet(n, w)
        /\ mutatePod(n, p) = mutatePod(n, w)
    BY <1>1, <1>2 DEF mutateDeployment, fixGenericDeploymentForGKEAutopilot, mutateStatefulSet,
                      mutatePod
  <1> QED
    BY <1>1, <1>3 DEF mutate

\* Every patch but etcd's applies, leaves volumes, claims and affinity alone, and
\* changes nothing the second time.
LEMMA SafePatch ==
    ASSUME NEW n, NEW w \in Workload, n # "etcd" \/ w.kind # "StatefulSet",
           n = "kube-apiserver" /\ w.kind = "Deployment" => Len(w.main) >= 2,
           NEW p, p = Patched(n, w)
    PROVE  /\ p # Failed
           /\ p \in Workload /\ p.kind = w.kind
           /\ Len(p.init) = Len(w.init) /\ Len(p.main) = Len(w.main)
           /\ p.pod.volumes = w.pod.volumes
           /\ p.pod.volumeClaimTemplates = w.pod.volumeClaimTemplates
           /\ Patched(n, p) = p
  <1> DEFINE ops == mutate(n, w)
  <1>1. ops \in Seq(SafeOps(w))
    BY MutationIsSafe
  <1> HIDE DEF ops
  <1>2. /\ Operators(ops)
        /\ \A k \in DOMAIN ops : ops[k].op # "append" /\ Applies(w, ops[k])
        /\ \A k \in DOMAIN ops : ops[k].field \notin {"affinity", "volumes", "volumeClaimTemplates"}
    BY <1>1, SafeOpsApply
  <1>3. p = ApplyPatch(w, ops)
    BY DEF ops, Patched
  <1>4. p # Failed
    <2>1. p = [w EXCEPT !.pod = PatchedPod(w, ops),
                        !.init = PatchedContainers(w, ops, "init"),
                        !.main = PatchedContainers(w, ops, "main")]
      BY <1>2, <1>3, PatchedFields
    <2>2. DOMAIN p = DOMAIN w /\ "pod" \in DOMAIN w
      BY <2>1 DEF Workload
    <2>3. "pod" \notin DOMAIN Failed
      BY DEF Failed
    <2> QED
      BY <2>2, <2>3
  <1>5. /\ p \in Workload
        /\ p.kind = w.kind /\ p.namespace = w.namespace
        /\ p.labelled = w.labelled /\ p.network = w.network
        /\ p.pod = PatchedPod(w, ops)
        /\ \A part \in Parts : DOMAIN p[part] = DOMAIN w[part] /\ Len(p[part]) = Len(w[part])
    BY <1>2, <1>3, <1>4, PatchedWorkload
  <1>6. ASSUME NEW f \in {"affinity", "volumes", "volumeClaimTemplates"}
        PROVE  p.pod[f] = w.pod[f]
    <2>1. PICK k \in Nat : DOMAIN ops = 1 .. k
      BY <1>2 DEF Operators
    <2>2. \A i \in 1 .. k : ~On(ops[i], "pod", 0, f)
      BY <1>2, <2>1 DEF On
    <2>3. After(w.pod[f], ops, "pod", 0, f) = w.pod[f]
      BY <2>1, <2>2, AfterPatch
    <2> QED
      BY <1>5, <2>3 DEF PatchedPod, PodFields
  <1>7. mutate(n, p) = ops
    <2>1. DOMAIN p["init"] = DOMAIN w["init"] /\ DOMAIN p["main"] = DOMAIN w["main"]
      BY <1>5 DEF Parts
    <2>2. p.pod.affinity = w.pod.affinity
      BY <1>6
    <2> QED
      BY <1>5, <2>1, <2>2, SameMutation DEF ops
  <1>8. ApplyPatch(p, ops) # Failed
    <2>1. SafeOps(p) = SafeOps(w)
      <3>1. \A part \in {"pod", "init", "main"} : part # "pod" => DOMAIN p[part] = DOMAIN w[part]
        BY <1>5 DEF Parts
      <3> QED
        BY <3>1 DEF SafeOps
    <2>2. \A k \in DOMAIN ops : Applies(p, ops[k])
      BY <1>1, <1>5, <2>1, SafeOpsApply
    <2>3. ApplyPatch(p, ops) = [p EXCEPT !.pod = PatchedPod(p, ops),
                                         !.init = PatchedContainers(p, ops, "init"),
                                         !.main = PatchedContainers(p, ops, "main")]
      BY <1>5, <2>2, PatchedFields
    <2>4. DOMAIN ApplyPatch(p, ops) = DOMAIN p /\ "pod" \in DOMAIN p
      BY <1>5, <2>3 DEF Workload
    <2>5. "pod" \notin DOMAIN Failed
      BY DEF Failed
    <2> QED
      BY <2>4, <2>5
  <1>9. Patched(n, p) = p
    BY <1>2, <1>3, <1>4, <1>7, <1>8, PatchTwice DEF Patched
  <1> QED
    BY <1>4, <1>5, <1>6, <1>9 DEF Parts

-----------------------------------------------------------------------------
(***************************************************************************)
(* The patch of etcd.                                                      *)
(***************************************************************************)
LEMMA EtcdFixes ==
    /\ DOMAIN fixEtcdResources = 1 .. 13
    /\ fixEtcdResources[1] = PodOp("replace", "securityContext", "restricted")
    /\ fixEtcdResources[2] = PodOp("replace", "affinity", "preferred")
    /\ fixEtcdResources[3] = ContainerOp("replace", "main", 0, "volumeMounts", "data")
    /\ fixEtcdResources[4] = ContainerOp("replace", "init", 0, "resources", "500m")
    /\ fixEtcdResources[5] = ContainerOp("replace", "init", 0, "securityContext", "restricted")
    /\ fixEtcdResources[6] = ContainerOp("replace", "init", 1, "resources", "500m")
    /\ fixEtcdResources[7] = ContainerOp("replace", "init", 1, "securityContext", "restricted")
    /\ fixEtcdResources[8] = ContainerOp("replace", "main", 0, "resources", "500m")
    /\ fixEtcdResources[9] = ContainerOp("replace", "main", 0, "securityContext", "restricted")
    /\ fixEtcdResources[10] = ContainerOp("replace", "main", 1, "securityContext", "restricted")
    /\ fixEtcdResources[11] = ContainerOp("replace", "main", 2, "securityContext", "restricted")
    /\ fixEtcdResources[12] = PodOp("replace", "volumeClaimTemplates", <<>>)
    /\ fixEtcdResources[13] = PodOp("append", "volumes", "data")
  BY DEF fixEtcdResources, EtcdClaims

LEMMA EtcdFixesTyped == Operators(fixEtcdResources)
  <1> SUFFICES ASSUME NEW k \in 1 .. 13
               PROVE  Typed(fixEtcdResources[k])
    BY EtcdFixes DEF Operators
  <1>1. k \in {1, 2, 3, 4, 5, 6, 7, 8, 9, 10, 11, 12, 13}
    OBVIOUS
  <1>2. <<>> \in Seq({"data"})
    OBVIOUS
  <1> DEFINE o == fixEtcdResources[k]
  <1>3. \/ o.op = "append" /\ o.field = "volumes" /\ o.value = "data"
        \/ /\ o.op = "replace"
           /\ \/ o.field = "securityContext" /\ o.value = "restricted"
              \/ o.field = "affinity" /\ o.value = "preferred"
              \/ o.field = "volumeMounts" /\ o.value = "data"
              \/ o.field = "resources" /\ o.value = "500m"
              \/ o.field = "volumeClaimTemplates" /\ o.value = <<>>
    BY <1>1, EtcdFixes DEF PodOp, ContainerOp
  <1> HIDE DEF o
  <1>4. Typed(o)
    BY <1>2, <1>3 DEF Typed, Fits, Contexts
  <1> QED
    BY <1>4 DEF o

\* An operation on its part.
LEMMA EtcdFixesByPart ==
    ASSUME NEW k \in 1 .. 13
    PROVE  LET o == fixEtcdResources[k]
           IN  /\ o.part = "pod" /\ o.field = "securityContext" => o.op = "replace" /\ o.value = "restricted"
               /\ o.part = "pod" /\ o.field = "volumeClaimTemplates" => o.op = "replace" /\ o.value = <<>>
               /\ o.part = "pod" /\ o.field = "volumes" => o.op = "append" /\ o.value = "data"
               /\ o.part # "pod" /\ o.field = "securityContext" => o.op = "replace" /\ o.value = "restricted"
  <1>1. k \in {1, 2, 3, 4, 5, 6, 7, 8, 9, 10, 11, 12, 13}
    OBVIOUS
  <1> QED
    BY <1>1, EtcdFixes DEF PodOp, ContainerOp

\* If it applies, all of etcd is patched; and it does not apply a second time.
LEMMA EtcdPatch ==
    ASSUME NEW w \in Workload, Len(w.init) <= 2, Len(w.main) <= 3,
           NEW p, p = ApplyPatch(w, fixEtcdResources), p # Failed
    PROVE  /\ p \in Workload
           /\ p.kind = w.kind /\ p.namespace = w.namespace
           /\ Len(p.init) = Len(w.init) /\ Len(p.main) = Len(w.main)
           /\ p.pod.volumeClaimTemplates = <<>>
           /\ p.pod.volumes = Append(w.pod.volumes, "data")
           /\ Restricted(p)
           /\ ApplyPatch(p, fixEtcdResources) = Failed
  <1> DEFINE ops == fixEtcdResources
  <1>1. DOMAIN ops = 1 .. 13
    BY EtcdFixes
  <1>2. /\ p \in Workload
        /\ \A k \in DOMAIN ops : Applies(w, ops[k])
        /\ p.kind = w.kind /\ p.namespace = w.namespace
        /\ p.pod = PatchedPod(w, ops)
        /\ \A part \in Parts : /\ p[part] = PatchedContainers(w, ops, part)
                               /\ DOMAIN p[part] = DOMAIN w[part]
                               /\ Len(p[part]) = Len(w[part])
    BY EtcdFixesTyped, PatchedWorkload
  <1>3. ASSUME NEW part, NEW index, NEW field, NEW j \in 1 .. 13, On(ops[j], part, index, field)
        PROVE  \E k \in 1 .. 13 : /\ On(ops[k], part, index, field)
                                  /\ \A old : After(old, ops, part, index, field) = Effect(ops[k], old)
    <2> HIDE DEF ops
    <2>1. 13 \in Nat
      OBVIOUS
    <2>2. \/ \A k \in 1 .. 13 : ~On(ops[k], part, index, field)
          \/ \E k \in 1 .. 13 : /\ On(ops[k], part, index, field)
                                /\ \A old : After(old, ops, part, index, field) = Effect(ops[k], old)
      <3>1. PICK n \in Nat : n = 13
        BY <2>1
      <3>2. DOMAIN ops = 1 .. n
        BY <1>1, <3>1
      <3>3. \/ \A k \in 1 .. n : ~On(ops[k], part, index, field)
            \/ \E k \in 1 .. n : /\ On(ops[k], part, index, field)
                                 /\ \A old : After(old, ops, part, index, field) = Effect(ops[k], old)
        BY <3>2, AfterPatch
      <3> QED
        BY <3>1, <3>3
    <2> QED
      BY <1>3, <2>2, Zenon
  <1>4. p.pod.securityContext = "restricted"
    <2>1. On(ops[1], "pod", 0, "securityContext")
      BY EtcdFixes DEF On, PodOp
    <2>2. PICK k \in 1 .. 13 :
             /\ On(ops[k], "pod", 0, "securityContext")
             /\ \A old : After(old, ops, "pod", 0, "securityContext") = Effect(ops[k], old)
      BY <1>3, <2>1
    <2>3. \A old : Effect(ops[k], old) = "restricted"
      BY <2>2, EtcdFixesByPart DEF On, Effect
    <2> HIDE DEF ops
    <2> QED
      BY <1>2, <2>2, <2>3 DEF PatchedPod, PodFields
  <1>5. p.pod.volumeClaimTemplates = <<>>
    <2>1. On(ops[12], "pod", 0, "volumeClaimTemplates")
      BY EtcdFixes DEF On, PodOp
    <2>2. PICK k \in 1 .. 13 :
             /\ On(ops[k], "pod", 0, "volumeClaimTemplates")
             /\ \A old : After(old, ops, "pod", 0, "volumeClaimTemplates") = Effect(ops[k], old)
      BY <1>3, <2>1
    <2>3. \A old : Effect(ops[k], old) = <<>>
      BY <2>2, EtcdFixesByPart DEF On, Effect
    <2> HIDE DEF ops
    <2> QED
      BY <1>2, <2>2, <2>3 DEF PatchedPod, PodFields
  <1>6. p.pod.volumes = Append(w.pod.volumes, "data")
    <2>1. On(ops[13], "pod", 0, "volumes")
      BY EtcdFixes DEF On, PodOp
    <2>2. PICK k \in 1 .. 13 :
             /\ On(ops[k], "pod", 0, "volumes")
             /\ \A old : After(old, ops, "pod", 0, "volumes") = Effect(ops[k], old)
      BY <1>3, <2>1
    <2>3. \A old : Effect(ops[k], old) = Append(old, "data")
      BY <2>2, EtcdFixesByPart DEF On, Effect
    <2> HIDE DEF ops
    <2> QED
      BY <1>2, <2>2, <2>3 DEF PatchedPod, PodFields
  <1>7. ASSUME NEW part \in Parts, NEW i \in DOMAIN w[part]
        PROVE  p[part][i].securityContext = "restricted"
    <2>1. \E j \in 1 .. 13 : On(ops[j], part, i - 1, "securityContext")
      <3>1. CASE part = "init"
        <4>1. i \in {1, 2}
          BY <3>1, WorkloadFields DEF Parts
        <4>2. On(ops[5], "init", 0, "securityContext") /\ On(ops[7], "init", 1, "securityContext")
          BY EtcdFixes DEF On, ContainerOp
        <4> QED
          BY <3>1, <4>1, <4>2
      <3>2. CASE part = "main"
        <4>1. i \in {1, 2, 3}
          BY <3>2, WorkloadFields DEF Parts
        <4>2. /\ On(ops[9], "main", 0, "securityContext") /\ On(ops[10], "main", 1, "securityContext")
              /\ On(ops[11], "main", 2, "securityContext")
          BY EtcdFixes DEF On, ContainerOp
        <4> QED
          BY <3>2, <4>1, <4>2
      <3> QED
        BY <3>1, <3>2 DEF Parts
    <2>2. PICK k \in 1 .. 13 :
             /\ On(ops[k], part, i - 1, "securityContext")
             /\ \A old : After(old, ops, part, i - 1, "securityContext") = Effect(ops[k], old)
      BY <1>3, <2>1
    <2>3. \A old : Effect(ops[k], old) = "restricted"
      BY <2>2, EtcdFixesByPart DEF On, Effect, Parts
    <2> HIDE DEF ops
    <2>4. PatchedContainers(w, ops, part)[i].securityContext = "restricted"
      BY <2>2, <2>3 DEF PatchedContainers, ContainerFields
    <2> QED
      BY <1>2, <2>4
  <1>8. Restricted(p)
    BY <1>2, <1>4, <1>7 DEF Restricted, Parts
  <1>9. ApplyPatch(p, ops) = Failed
    <2>1. ops[12].part = "pod" /\ ops[12].field = "volumeClaimTemplates" /\ ops[12].op = "replace"
      BY EtcdFixes DEF PodOp
    <2>2. ~Applies(p, ops[12])
      BY <1>5, <2>1 DEF Applies, Has, Holder, ListFields
    <2>3. 12 \in 1 .. 13
      OBVIOUS
    <2> HIDE DEF ops
    <2>4. ~ \A k \in DOMAIN ops : Applies(p, ops[k])
      BY <1>1, <2>2, <2>3, Zenon
    <2> QED
      BY <1>2, <2>4, PatchedFields
  <1> QED
    BY <1>2, <1>5, <1>6, <1>8, <1>9 DEF Parts

-----------------------------------------------------------------------------
(***************************************************************************)
(* The invariant.                                                          *)
(***************************************************************************)
\* What the webhook makes of a manifest, if its patch applies.
PatchedManifests(n) == {Patched(n, m) : m \in Manifests[n]} \ {Failed}

StoredFits ==
    /\ stored \in [Names -> Workload \cup {NoObject}]
    /\ \A n \in Names : Exists(n) => stored[n] \in Manifests[n] \cup PatchedManifests(n)

FixedFits ==
    /\ fixed \subseteq Names /\ refused \subseteq Names
    /\ \A n \in fixed : Exists(n) => stored[n] \in PatchedManifests(n)

\* What a manifest says of what the webhook makes of it.
LEMMA PatchedManifest ==
    ASSUME NEW n \in Names, NEW m \in Manifests[n], NEW p, p = Patched(n, m), p # Failed
    PROVE  /\ p \in Workload /\ p.kind = m.kind
           /\ Len(p.init) = Len(m.init) /\ Len(p.main) = Len(m.main)
           /\ Patched(n, p) \in {p, Failed}
  <1>1. Submittable(n, m)
    BY ManifestsAssumption
  <1>2. m \in Workload
    BY <1>1 DEF Submittable
  <1>3. CASE n # "etcd" \/ m.kind # "StatefulSet"
    BY <1>1, <1>2, <1>3, SafePatch DEF Submittable
  <1>4. CASE n = "etcd" /\ m.kind = "StatefulSet" /\ ~isHyperShiftControlPlane(m)
    <2>1. mutate(n, m) = <<>>
      BY <1>4 DEF mutate
    <2>2. p = m
      BY <1>2, <2>1, EmptyPatch DEF Patched
    <2> QED
      BY <1>2, <2>2
  <1>5. CASE n = "etcd" /\ m.kind = "StatefulSet" /\ isHyperShiftControlPlane(m)
    <2>1. mutate(n, m) = fixEtcdResources
      BY <1>5 DEF mutate, mutateStatefulSet
    <2>2. Len(m.init) <= 2 /\ Len(m.main) <= 3
      BY <1>1, <1>5 DEF Submittable
    <2>3. /\ p \in Workload /\ p.kind = m.kind /\ p.namespace = m.namespace
          /\ Len(p.init) = Len(m.init) /\ Len(p.main) = Len(m.main)
          /\ ApplyPatch(p, fixEtcdResources) = Failed
      BY <1>2, <2>1, <2>2, EtcdPatch DEF Patched
    <2>4. mutate(n, p) = fixEtcdResources
      BY <1>5, <2>3 DEF mutate, mutateStatefulSet, isHyperShiftControlPlane
    <2> QED
      BY <2>3, <2>4 DEF Patched
  <1> QED
    BY <1>3, <1>4, <1>5

\* What a request submits: a manifest, or the stored object itself.
Submission(n, w) == w \in Manifests[n] \/ (Exists(n) /\ w = stored[n])

\* What comes of it.
Outcome(n, w) == IF Called(n, w) THEN Patched(n, w) ELSE w

LEMMA OutcomeFits ==
    ASSUME StoredFits, NEW n \in Names, NEW w, Submission(n, w),
           NEW q, q = Outcome(n, w), q # Failed
    PROVE  /\ q \in Workload /\ q \in Manifests[n] \cup PatchedManifests(n)
           /\ Called(n, w) => q \in PatchedManifests(n)
  <1>1. w \in Manifests[n] \cup PatchedManifests(n)
    BY DEF Submission, StoredFits
  <1>2. CASE w \in Manifests[n]
    <2>1. w \in Workload
      BY <1>2, ManifestsAssumption DEF Submittable
    <2>2. CASE Called(n, w)
      <3>1. q \in PatchedManifests(n)
        BY <1>2, <2>2 DEF Outcome, PatchedManifests
      <3>2. q \in Workload
        BY <1>2, <2>2, PatchedManifest DEF Outcome
      <3> QED
        BY <3>1, <3>2
    <2>3. CASE ~Called(n, w)
      BY <1>2, <2>1, <2>3 DEF Outcome
    <2> QED
      BY <2>2, <2>3
  <1>3. CASE w \in PatchedManifests(n)
    <2>1. PICK m \in Manifests[n] : w = Patched(n, m) /\ w # Failed
      BY <1>3 DEF PatchedManifests
    <2>2. w \in Workload /\ Patched(n, w) \in {w, Failed}
      BY <2>1, PatchedManifest
    <2>3. q = w
      BY <2>2 DEF Outcome
    <2> QED
      BY <1>3, <2>2, <2>3
  <1> QED
    BY <1>1, <1>2, <1>3

\* A request either stores its outcome or changes nothing.
LEMMA Submitted ==
    ASSUME NEW n \in Names, NEW w, Submit(n, w)
    PROVE  LET q == Outcome(n, w)
           IN  \/ /\ q # Failed /\ Valid(n, q)
                  /\ stored' = [stored EXCEPT ![n] = q]
                  /\ refused' = refused \ {n}
                  /\ fixed' = IF Called(n, w) THEN fixed \cup {n}
                              ELSE IF w = stored[n] THEN fixed ELSE fixed \ {n}
               \/ /\ ~(q # Failed /\ Valid(n, q))
                  /\ refused' = refused \cup {n}
                  /\ UNCHANGED <<stored, fixed>>
  BY DEF Submit, Outcome, Patched

\* Every step is a request, a deletion, or an outage's beginning or end.
LEMMA StepCases ==
    ASSUME [Next]_vars, StoredFits
    PROVE  \/ \E n \in Names : \E w : /\ Submission(n, w) /\ Submit(n, w)
                                      /\ UNCHANGED <<up, outages>>
           \/ \E n \in Names : Delete(n)
           \/ (GoAway \/ ComeBack \/ UNCHANGED vars) /\ UNCHANGED <<stored, refused, fixed>>
  <1>1. ASSUME NEW n \in Names, NEW m \in Manifests[n], Create(n, m) \/ Resubmit(n, m)
        PROVE  Submission(n, m) /\ Submit(n, m) /\ UNCHANGED <<up, outages>>
    BY <1>1 DEF Create, Resubmit, Submission
  <1>2. ASSUME NEW n \in Names, Edit(n)
        PROVE  Submission(n, stored[n]) /\ Submit(n, stored[n]) /\ UNCHANGED <<up, outages>>
    BY <1>2 DEF Edit, Submission
  <1>3. CASE GoAway \/ ComeBack \/ UNCHANGED vars
    BY <1>3 DEF GoAway, ComeBack, vars
  <1> QED
    BY <1>1, <1>2, <1>3 DEF Next

LEMMA FitStep ==
    ASSUME StoredFits, FixedFits, [Next]_vars
    PROVE  StoredFits' /\ FixedFits'
  <1>1. ASSUME NEW n \in Names, NEW w, Submission(n, w), Submit(n, w)
        PROVE  StoredFits' /\ FixedFits'
    <2> DEFINE q == Outcome(n, w)
    <2>1. CASE UNCHANGED <<stored, fixed>> /\ refused' = refused \cup {n}
      <3>1. /\ stored' = stored /\ fixed' = fixed /\ refused' = refused \cup {n}
            /\ \A x : PatchedManifests(x)' = PatchedManifests(x)
        BY <2>1 DEF PatchedManifests, Patched
      <3> QED
        BY <3>1 DEF StoredFits, FixedFits, Exists
    <2>2. CASE /\ q # Failed
               /\ stored' = [stored EXCEPT ![n] = q]
               /\ refused' = refused \ {n}
               /\ fixed' = IF Called(n, w) THEN fixed \cup {n}
                           ELSE IF w = stored[n] THEN fixed ELSE fixed \ {n}
      <3>1. /\ q \in Workload /\ q \in Manifests[n] \cup PatchedManifests(n)
            /\ Called(n, w) => q \in PatchedManifests(n)
        BY <1>1, <2>2, OutcomeFits
      <3>2. ~Called(n, w) => q = w
        BY DEF Outcome
      <3> HIDE DEF q
      <3>3. /\ stored' \in [Names -> Workload \cup {NoObject}]
            /\ stored'[n] = q /\ \A x \in Names \ {n} : stored'[x] = stored[x]
        BY <2>2, <3>1 DEF StoredFits
      <3>4. StoredFits'
        BY <3>1, <3>3 DEF StoredFits, Exists, PatchedManifests, Patched
      <3>5. fixed' \subseteq Names /\ refused' \subseteq Names
        BY <2>2 DEF FixedFits
      <3>6. ASSUME NEW x \in fixed', Exists(x)'
            PROVE  stored'[x] \in PatchedManifests(x)
        <4>1. CASE x # n
          BY <2>2, <3>3, <3>5, <3>6, <4>1 DEF FixedFits, Exists
        <4>2. CASE x = n /\ Called(n, w)
          BY <3>1, <3>3, <4>2
        <4>3. CASE x = n /\ ~Called(n, w)
          <5>1. x \in fixed /\ w = stored[n]
            BY <2>2, <4>3
          <5> QED
            BY <3>2, <3>3, <3>6, <4>3, <5>1 DEF FixedFits, Exists
        <4> QED
          BY <4>1, <4>2, <4>3
      <3> QED
        BY <3>4, <3>5, <3>6 DEF FixedFits, PatchedManifests, Patched
    <2> HIDE DEF q
    <2> QED
      BY <1>1, <2>1, <2>2, Submitted DEF q
  <1>2. ASSUME NEW n \in Names, Delete(n)
        PROVE  StoredFits' /\ FixedFits'
    <2>1. /\ stored' \in [Names -> Workload \cup {NoObject}]
          /\ stored'[n] = NoObject /\ \A x \in Names \ {n} : stored'[x] = stored[x]
      BY <1>2 DEF Delete, StoredFits
    <2>2. StoredFits'
      BY <2>1 DEF StoredFits, Exists, PatchedManifests, Patched
    <2>3. FixedFits'
      BY <1>2, <2>1 DEF Delete, FixedFits, Exists, PatchedManifests, Patched
    <2> QED
      BY <2>2, <2>3
  <1>3. CASE UNCHANGED <<stored, refused, fixed>>
    BY <1>3 DEF StoredFits, FixedFits, Exists, PatchedManifests, Patched
  <1> QED
    BY <1>1, <1>2, <1>3, StepCases

LEMMA FitInit ==
    ASSUME Init
    PROVE  StoredFits /\ FixedFits
  BY DEF Init, StoredFits, FixedFits, Exists

\* Every stored object is a manifest of its owner, or what the webhook makes of one; and
\* one that has passed the webhook is the latter.
THEOREM StoredFromManifests == Spec => [](StoredFits /\ FixedFits)
  BY FitInit, FitStep, PTL DEF Spec

OutagesInv == up \in BOOLEAN /\ outages \in 0 .. MaxOutages

\* Every variable keeps its type: what the webhook's patches leave of a workload, once or
\* again, is a well-formed workload with the containers its owner gave it.
THEOREM TypeCorrect == Spec => []TypeOK
  <1>1. Init => OutagesInv
    BY OutagesAssumption DEF Init, OutagesInv
  <1>2. OutagesInv /\ StoredFits /\ [Next]_vars => OutagesInv'
    <2> SUFFICES ASSUME OutagesInv, StoredFits, [Next]_vars
                 PROVE  OutagesInv'
      OBVIOUS
    <2>1. UNCHANGED <<up, outages>> \/ GoAway \/ ComeBack
      BY StepCases DEF Delete, vars
    <2>2. CASE GoAway
      <3>1. outages \in 0 .. MaxOutages /\ outages < MaxOutages
            /\ outages' = outages + 1 /\ up' = FALSE
        BY <2>2 DEF GoAway, OutagesInv
      <3>2. outages' \in 0 .. MaxOutages
        BY <3>1, OutagesAssumption
      <3> QED
        BY <3>1, <3>2 DEF OutagesInv
    <2> QED
      BY <2>1, <2>2 DEF OutagesInv, ComeBack
  <1>3. StoredFits /\ FixedFits /\ OutagesInv => TypeOK
    <2> SUFFICES ASSUME StoredFits, FixedFits, OutagesInv
                 PROVE  TypeOK
      OBVIOUS
    <2>1. ASSUME NEW n \in Names, Exists(n)
          PROVE  /\ stored[n] \in Workload
                 /\ \E m \in Manifests[n] : /\ Len(stored[n].main) = Len(m.main)
                                            /\ Len(stored[n].init) = Len(m.init)
      <3>1. CASE stored[n] \in Manifests[n]
        BY <3>1, ManifestsAssumption DEF Submittable
      <3>2. CASE stored[n] \in PatchedManifests(n)
        <4>1. PICK m \in Manifests[n] : stored[n] = Patched(n, m) /\ stored[n] # Failed
          BY <3>2 DEF PatchedManifests
        <4> QED
          BY <4>1, PatchedManifest
      <3> QED
        BY <2>1, <3>1, <3>2 DEF StoredFits
    <2> QED
      BY <2>1 DEF TypeOK, FixedFits, OutagesInv
  <1> QED
    BY <1>1, <1>2, <1>3, StoredFromManifests, PTL DEF Spec

-----------------------------------------------------------------------------
(***************************************************************************)
(* The properties.                                                         *)
(***************************************************************************)
\* A second pass through the webhook changes nothing: an object that has passed it once,
\* scaled or annotated, is stored as it is or refused.
THEOREM EditsAreIdle == Spec => EditsChangeNothing
  <1>1. ASSUME StoredFits, FixedFits, NEW n \in fixed, Edit(n)
        PROVE  stored'[n] = stored[n]
    <2>1. n \in Names /\ Exists(n) /\ Submit(n, stored[n])
      BY <1>1 DEF Edit, FixedFits
    <2>2. PICK m \in Manifests[n] : stored[n] = Patched(n, m) /\ stored[n] # Failed
      BY <1>1, <2>1 DEF FixedFits, PatchedManifests
    <2>3. Outcome(n, stored[n]) \in {stored[n], Failed}
      BY <2>1, <2>2, PatchedManifest DEF Outcome
    <2>4. stored' = [stored EXCEPT ![n] = stored[n]] \/ stored' = stored
      BY <2>1, <2>3, Submitted
    <2> QED
      BY <1>1, <2>1, <2>4 DEF StoredFits
  <1>2. StoredFits /\ FixedFits /\ [Next]_vars
        => [\A n \in fixed : Edit(n) => stored'[n] = stored[n]]_vars
    BY <1>1
  <1> QED
    BY <1>2, StoredFromManifests, PTL DEF Spec, EditsChangeNothing

\* etcd is patched altogether or not at all: its claims are gone exactly if the volume
\* that stands in for them is there and all its containers are restricted.
THEOREM EtcdIsWhole == Spec => []EtcdAllOrNothing
  <1>1. StoredFits => EtcdAllOrNothing
    <2> SUFFICES ASSUME StoredFits, NEW n \in Names, Exists(n), n = "etcd",
                        stored[n].kind = "StatefulSet"
                 PROVE  LET data == {i \in DOMAIN stored[n].pod.volumes :
                                        stored[n].pod.volumes[i] = "data"}
                        IN  \/ /\ stored[n].pod.volumeClaimTemplates = <<>>
                               /\ data # {} /\ Restricted(stored[n])
                            \/ /\ stored[n].pod.volumeClaimTemplates # <<>>
                               /\ data = {} /\ ~Restricted(stored[n])
      BY DEF EtcdAllOrNothing
    <2>1. ASSUME NEW m \in Manifests[n], m.kind = "StatefulSet"
          PROVE  /\ m \in Workload /\ Len(m.init) <= 2 /\ Len(m.main) <= 3
                 /\ m.pod.volumeClaimTemplates # <<>>
                 /\ {i \in DOMAIN m.pod.volumes : m.pod.volumes[i] = "data"} = {}
                 /\ ~Restricted(m)
      BY <2>1, ManifestsAssumption DEF Submittable
    <2>2. CASE stored[n] \in Manifests[n]
      BY <2>1, <2>2
    <2>3. CASE stored[n] \in PatchedManifests(n)
      <3>1. PICK m \in Manifests[n] : stored[n] = Patched(n, m) /\ stored[n] # Failed
        BY <2>3 DEF PatchedManifests
      <3>2. m.kind = "StatefulSet"
        BY <3>1, PatchedManifest
      <3>3. CASE ~isHyperShiftControlPlane(m)
        <4>1. stored[n] = m
          BY <2>1, <3>1, <3>2, <3>3, EmptyPatch DEF Patched, mutate
        <4> QED
          BY <2>1, <3>2, <4>1
      <3>4. CASE isHyperShiftControlPlane(m)
        <4>1. mutate(n, m) = fixEtcdResources
          BY <3>2, <3>4 DEF mutate, mutateStatefulSet
        <4>2. /\ stored[n].pod.volumeClaimTemplates = <<>>
              /\ stored[n].pod.volumes = Append(m.pod.volumes, "data")
              /\ Restricted(stored[n])
          BY <2>1, <3>1, <3>2, <4>1, EtcdPatch DEF Patched
        <4>3. m.pod.volumes \in Seq({"tls", "data"})
          BY <2>1, <3>2 DEF Workload
        <4>4. /\ Len(m.pod.volumes) + 1 \in DOMAIN Append(m.pod.volumes, "data")
              /\ Append(m.pod.volumes, "data")[Len(m.pod.volumes) + 1] = "data"
          BY <4>3
        <4> QED
          BY <4>2, <4>4
      <3> QED
        BY <3>3, <3>4
    <2> QED
      BY <2>2, <2>3 DEF StoredFits
  <1> QED
    BY <1>1, StoredFromManifests, PTL

\* What the apiserver asks of a workload that has no claims, and the fixes of kube-apiserver.
Plain(n, x) ==
    /\ x \in Workload /\ x.kind # "StatefulSet"
    /\ Distinct(x.pod.volumes)
    /\ x.pod.volumeClaimTemplates = <<>>
    /\ n = "kube-apiserver" /\ x.kind = "Deployment" => Len(x.main) >= 2

LEMMA PlainIsPatched ==
    ASSUME NEW n, NEW x, Plain(n, x)
    PROVE  Patched(n, x) # Failed /\ Plain(n, Patched(n, x))
  BY SafePatch DEF Plain

LEMMA PlainIsStored ==
    ASSUME StoredFits, NEW n \in Names, \A m \in Manifests[n] : m.kind # "StatefulSet",
           NEW w, Submission(n, w)
    PROVE  Outcome(n, w) # Failed /\ Valid(n, Outcome(n, w))
  <1>1. ASSUME NEW m \in Manifests[n]
        PROVE  Plain(n, m)
    BY <1>1, ManifestsAssumption DEF Submittable, Plain
  <1>2. ASSUME Exists(n)
        PROVE  Plain(n, stored[n])
    <2>1. stored[n] \in Manifests[n] \cup PatchedManifests(n)
      BY <1>2 DEF StoredFits
    <2> QED
      BY <1>1, <2>1, PlainIsPatched DEF PatchedManifests
  <1>3. Plain(n, w)
    BY <1>1, <1>2 DEF Submission
  <1>4. Outcome(n, w) # Failed /\ Plain(n, Outcome(n, w))
    <2>1. w # Failed
      <3>1. DOMAIN w # DOMAIN Failed
        <4>1. "pod" \in DOMAIN w
          BY <1>3 DEF Plain, Workload
        <4>2. "pod" \notin DOMAIN Failed
          BY DEF Failed
        <4> QED
          BY <4>1, <4>2
      <3> QED
        BY <3>1
    <2> QED
      BY <1>3, <2>1, PlainIsPatched DEF Outcome
  <1> QED
    BY <1>2, <1>4 DEF Valid, Plain

\* The webhook never makes the apiserver refuse a workload that is no StatefulSet:
\* whatever such an object has or lacks, and however often it was patched, every
\* operation of its patch applies, and what comes of it is valid.
THEOREM NoneIsBlocked == Spec => []NothingBlocked
  <1>1. Init => NothingBlocked
    BY DEF Init, NothingBlocked
  <1>2. NothingBlocked /\ StoredFits /\ FixedFits /\ [Next]_vars => NothingBlocked'
    <2> SUFFICES ASSUME NothingBlocked, StoredFits, FixedFits, [Next]_vars
                 PROVE  NothingBlocked'
      OBVIOUS
    <2>1. ASSUME NEW n \in Names, NEW w, Submission(n, w), Submit(n, w)
          PROVE  NothingBlocked'
      <3>1. CASE \E m \in Manifests[n] : m.kind = "StatefulSet"
        <4>1. refused' \subseteq refused \cup {n}
          BY <2>1, Submitted
        <4> QED
          BY <3>1, <4>1 DEF NothingBlocked
      <3>2. CASE \A m \in Manifests[n] : m.kind # "StatefulSet"
        <4>1. refused' = refused \ {n}
          BY <2>1, <3>2, PlainIsStored, Submitted
        <4> QED
          BY <4>1 DEF NothingBlocked
      <3> QED
        BY <3>1, <3>2
    <2>2. CASE \E n \in Names : Delete(n)
      BY <2>2 DEF Delete, NothingBlocked
    <2>3. CASE UNCHANGED refused
      BY <2>3 DEF NothingBlocked
    <2> QED
      BY <2>1, <2>2, <2>3, StepCases
  <1> QED
    BY <1>1, <1>2, StoredFromManifests, PTL DEF Spec
=============================================================================
