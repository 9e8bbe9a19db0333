--------------------------- MODULE ComputeEngine ---------------------------
(***************************************************************************)
(* Compute Engine as the Private Service Connect demo meets it: resources  *)
(* that refer to each other, and operations that go on after the request   *)
(* was accepted, whether or not anyone waits for them.  A request is       *)
(* refused unless the resource is there (or, to create it, is not), what   *)
(* it refers to is ready and, to delete it, nothing refers to it.          *)
(***************************************************************************)
EXTENDS PscPlan

CONSTANT
    NoCommand   \* resources gcloud has no delete command for

\* cleanup.go names a command gcloud does not have for the instance group alone.
ASSUME NoCommandAssumption == NoCommand \subseteq {Config.Group}

VARIABLES
    res,        \* the resources of the project
    members,    \* the VMs in the instance group
    ports,      \* the instance group has its named ports
    ops,        \* operations under way
    boot        \* how far the provider VM has come up

cloudVars == <<res, members, ports, ops, boot>>

Absent == [state |-> "absent", kind |-> "", uses |-> {}]
Kinds == {"network", "subnet", "INGRESS", "EGRESS", "vm", "health-check", "group",
          "backend-service", "forwarding-rule", "service-attachment", "address"}
Resources ==
    [state: {"creating", "ready", "deleting"}, kind: Kinds, uses: SUBSET Names]

\* An operation; mine says whether the running tool waits for it.
Operations == [do: {"insert", "delete", "addInstance", "setPorts", "addBackend"},
               name: Names, mine: BOOLEAN]
Operation(s, mine) == [do |-> s.do, name |-> s.name, mine |-> mine]

CloudInit ==
    /\ res = [n \in Names |-> Absent]
    /\ members = {}
    /\ ports = FALSE
    /\ ops = {}
    /\ boot = "off"

CloudTypeOK ==
    /\ res \in [Names -> Resources \cup {Absent}]
    /\ members \subseteq {Config.ProviderVM}
    /\ ports \in BOOLEAN
    /\ ops \subseteq Operations
    /\ boot \in {"off", "booting", "marked", "serving"}

Ready(n) == res[n].state = "ready"
InUse(n) == \E m \in Names : n \in res[m].uses

\* Where operations on a kind of resource are found.
OperationScope(kind) ==
    IF kind \in {"network", "INGRESS", "EGRESS", "health-check"} THEN "global"
    ELSE IF kind \in {"vm", "group", "member", "ports"} THEN "zone"
    ELSE "region"

-----------------------------------------------------------------------------
(***************************************************************************)
(* A lookup.  A resource being created is not reliably found yet; one      *)
(* being deleted still is.                                                 *)
(***************************************************************************)
Found(n) ==
    IF res[n] = Absent THEN {FALSE}
    ELSE IF res[n].state = "creating" THEN BOOLEAN
    ELSE {TRUE}

Accepts(s) ==
    \/ s.do = "insert" /\ res[s.name] = Absent /\ \A u \in s.uses : Ready(u)
    \/ s.do = "delete" /\ Ready(s.name) /\ ~InUse(s.name) /\ s.name \notin NoCommand
    \/ s.do \in {"addInstance", "setPorts"} /\ \A u \in {s.name} \cup s.uses : Ready(u)
    \* Update carries the fingerprint of a service without this backend.
    \/ s.do = "addBackend" /\ \A u \in {s.name} \cup s.uses : Ready(u)
                           /\ ~(s.uses \subseteq res[s.name].uses)

\* The request is accepted: its operation begins.
Begin(s, mine) ==
    /\ Accepts(s)
    /\ res' = [res EXCEPT ![s.name] =
                  IF s.do = "insert" THEN [state |-> "creating", kind |-> s.kind, uses |-> s.uses]
                  ELSE IF s.do = "delete" THEN [@ EXCEPT !.state = "deleting"]
                  ELSE @]
    /\ ops' = ops \cup {Operation(s, mine)}
    /\ UNCHANGED <<members, ports, boot>>

-----------------------------------------------------------------------------
(***************************************************************************)
(* An operation ends, with its effect (ok) or with an error.               *)
(***************************************************************************)
Created(o, ok) ==
    /\ o.do = "insert"
    /\ res' = [res EXCEPT ![o.name] = IF ok THEN [@ EXCEPT !.state = "ready"] ELSE Absent]
    /\ boot' = IF ok /\ o.name = Config.ProviderVM THEN "booting" ELSE boot
    /\ UNCHANGED <<members, ports>>

Deleted(o, ok) ==
    /\ o.do = "delete"
    /\ res' = [res EXCEPT ![o.name] = IF ok THEN Absent ELSE [@ EXCEPT !.state = "ready"]]
    /\ members' = IF ok THEN members \ {o.name} ELSE members
    /\ boot' = IF ok /\ o.name = Config.ProviderVM THEN "off" ELSE boot
    /\ ports' = (ports /\ ~(ok /\ o.name = Config.Group))

\* A VM cannot be added twice; the group belongs to the VM's network from now on.
VMAdded(o, ok) ==
    /\ o.do = "addInstance"
    /\ ok => Ready(o.name) /\ Ready(Config.ProviderVM) /\ Config.ProviderVM \notin members
    /\ members' = IF ok THEN {Config.ProviderVM} ELSE members
    /\ res' = IF ok THEN [res EXCEPT ![o.name].uses = {Config.ProviderVPC}] ELSE res
    /\ UNCHANGED <<ports, boot>>

PortsSet(o, ok) ==
    /\ o.do = "setPorts"
    /\ ok => Ready(o.name)
    /\ ports' = (ports \/ ok)
    /\ UNCHANGED <<res, members, boot>>

BackendAdded(o, ok) ==
    /\ o.do = "addBackend"
    /\ ok => Ready(o.name) /\ Ready(Config.Group)
    /\ res' = IF ok THEN [res EXCEPT ![o.name].uses = @ \cup {Config.Group}] ELSE res
    /\ UNCHANGED <<members, ports, boot>>

\* Whether an operation has to fail: what it is about has changed since.
Hopeless(o) ==
    \/ o.do \in {"addInstance", "setPorts"} /\ ~Ready(o.name)
    \/ o.do = "addInstance" /\ (~Ready(Config.ProviderVM) \/ Config.ProviderVM \in members)
    \/ o.do = "addBackend" /\ ~(Ready(o.name) /\ Ready(Config.Group))

End(o, ok) ==
    /\ o \in ops
    /\ ops' = ops \ {o}
    /\ Created(o, ok) \/ Deleted(o, ok) \/ VMAdded(o, ok) \/ PortsSet(o, ok)
       \/ BackendAdded(o, ok)

(***************************************************************************)
(* The provider VM: cloud-init writes the marker the setup looks for,      *)
(* and then reboots the machine before the service stays up.               *)
(***************************************************************************)
BootsFurther ==
    /\ Ready(Config.ProviderVM)
    /\ \/ boot = "booting" /\ boot' = "marked"
       \/ boot = "marked" /\ boot' = "serving"
    /\ UNCHANGED <<res, members, ports, ops>>
=============================================================================
