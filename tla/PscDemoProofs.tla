--------------------------- MODULE PscDemoProofs ---------------------------
(***************************************************************************)
(* The setup and the cleanup of the Private Service Connect demo, for any  *)
(* number of runs and of failures.  First what has to be known about the   *)
(* two programs: what each step is, that a step refers only to what an     *)
(* earlier one created, and that the cleanup deletes what refers before    *)
(* what is referred to.  Then the invariant: the operations under way and  *)
(* the resources fit each other, and each tool's history fits what is      *)
(* there.                                                                  *)
(***************************************************************************)
EXTENDS PscDemo, TLAPS

-----------------------------------------------------------------------------
(***************************************************************************)
(* The programs, step by step.                                             *)
(***************************************************************************)
LEMMA DemoSteps ==
    /\ Len(RunDemo) = 29 /\ DOMAIN RunDemo = 1..29
    /\ RunDemo[1] = CreateVPC(Config.ProviderVPC)
    /\ RunDemo[2] = CreateSubnet(Config.ProviderVPC, Config.ProviderSubnet)
    /\ RunDemo[3] = CreateSubnet(Config.ProviderVPC, Config.PSCNATSubnet)
    /\ RunDemo[4] = CreateFirewallRule("hypershift-redhat-allow-health-checks", Config.ProviderVPC, "INGRESS")
    /\ RunDemo[5] = CreateFirewallRule("hypershift-redhat-allow-http", Config.ProviderVPC, "INGRESS")
    /\ RunDemo[6] = CreateFirewallRule("hypershift-redhat-allow-ssh", Config.ProviderVPC, "INGRESS")
    /\ RunDemo[7] = CreateFirewallRule("hypershift-redhat-allow-egress", Config.ProviderVPC, "INGRESS")
    /\ RunDemo[8] = CreateFirewallRule("hypershift-redhat-allow-psc-nat", Config.ProviderVPC, "INGRESS")
    /\ RunDemo[9] = CreateFirewallRule("hypershift-redhat-allow-egress", Config.ProviderVPC, "EGRESS")
    /\ RunDemo[10] = CreateVPC(Config.ConsumerVPC)
    /\ RunDemo[11] = CreateSubnet(Config.ConsumerVPC, Config.ConsumerSubnet)
    /\ RunDemo[12] = CreateFirewallRule("hypershift-customer-allow-internal", Config.ConsumerVPC, "INGRESS")
    /\ RunDemo[13] = CreateFirewallRule("hypershift-customer-allow-ssh", Config.ConsumerVPC, "INGRESS")
    /\ RunDemo[14] = CreateFirewallRule("hypershift-customer-allow-egress", Config.ConsumerVPC, "EGRESS")
    /\ RunDemo[15] = DeployProviderVM /\ RunDemo[16] = DeployConsumerVM
    /\ RunDemo[17] = WaitForVMsReady /\ RunDemo[18] = TestIsolation
    /\ RunDemo[19] = CreateHealthCheck
    /\ RunDemo[20] = Step("insert", Config.Group, "group", {}, WaitForZonalOperation)
    /\ RunDemo[21] = AddVMToInstanceGroup /\ RunDemo[22] = SetNamedPorts
    /\ RunDemo[23] = Step("insert", Config.BackendService, "backend-service",
                          {Config.HealthCheck}, WaitForRegionalOperation)
    /\ RunDemo[24] = AddBackendToService
    /\ RunDemo[25] = CreateForwardingRule /\ RunDemo[26] = CreateServiceAttachment
    /\ RunDemo[27] = CreatePSCAddress /\ RunDemo[28] = CreatePSCForwardingRule
    /\ RunDemo[29] = TestConnectivity
  BY DEF RunDemo, CreateProviderVPC, CreateProviderFirewallRules, ProviderRules,
         CreateConsumerVPC, CreateConsumerFirewallRules, DeployVMs, SetupPrivateServiceConnect,
         CreateInstanceGroup, CreateBackendService, CreatePSCEndpoint

LEMMA CleanupNames ==
    /\ RunCleanup[1] = DeleteResource(Config.PSCForwardingRule)
    /\ RunCleanup[2] = DeleteResource(Config.PSCAddress)
    /\ RunCleanup[3] = DeleteResource(Config.ServiceAttachment)
    /\ RunCleanup[4] = DeleteResource(Config.ForwardingRule)
    /\ RunCleanup[5] = DeleteResource(Config.BackendService)
    /\ RunCleanup[6] = DeleteResource(Config.Group)
    /\ RunCleanup[7] = DeleteResource(Config.HealthCheck)
    /\ RunCleanup[8] = DeleteResource(Config.ProviderVM)
    /\ RunCleanup[9] = DeleteResource(Config.ConsumerVM)
    /\ RunCleanup[10] = DeleteResource("hypershift-redhat-allow-health-checks")
    /\ RunCleanup[11] = DeleteResource("hypershift-redhat-allow-http")
    /\ RunCleanup[12] = DeleteResource("hypershift-redhat-allow-ssh")
    /\ RunCleanup[13] = DeleteResource("hypershift-redhat-allow-egress")
    /\ RunCleanup[14] = DeleteResource("hypershift-redhat-allow-psc-nat")
    /\ RunCleanup[15] = DeleteResource("hypershift-customer-allow-internal")
    /\ RunCleanup[16] = DeleteResource("hypershift-customer-allow-ssh")
    /\ RunCleanup[17] = DeleteResource("hypershift-customer-allow-egress")
    /\ RunCleanup[18] = DeleteResource(Config.ProviderSubnet)
    /\ RunCleanup[19] = DeleteResource(Config.PSCNATSubnet)
    /\ RunCleanup[20] = DeleteResource(Config.ConsumerSubnet)
    /\ RunCleanup[21] = DeleteResource(Config.ProviderVPC)
    /\ RunCleanup[22] = DeleteResource(Config.ConsumerVPC)
  BY DEF RunCleanup, CleanupPSCComponents, CleanupLoadBalancerComponents, CleanupVMs,
         CleanupVPCs, ProviderRules

LEMMA CleanupSteps ==
    /\ Len(RunCleanup) = 22 /\ DOMAIN RunCleanup = 1..22
    /\ \A i \in 1..22 : RunCleanup[i] = DeleteResource(RunCleanup[i].name)
  <1>1. Len(RunCleanup) = 22 /\ DOMAIN RunCleanup = 1..22
    BY DEF RunCleanup, CleanupPSCComponents, CleanupLoadBalancerComponents, CleanupVMs,
           CleanupVPCs, ProviderRules
  <1>2. ASSUME NEW i \in 1..22 PROVE RunCleanup[i] = DeleteResource(RunCleanup[i].name)
    <2>1. \A n : DeleteResource(n).name = n
      BY DEF DeleteResource, Step
    <2>2. \E n : RunCleanup[i] = DeleteResource(n)
      BY <1>1 DEF RunCleanup
    <2> QED
      BY <2>1, <2>2
  <1> QED
    BY <1>1, <1>2

\* Every name of the configuration is one the cleanup knows.
LEMMA ConfigNames ==
    /\ Config.ProviderVPC \in Names /\ Config.ProviderSubnet \in Names
    /\ Config.PSCNATSubnet \in Names
    /\ Config.ConsumerVPC \in Names /\ Config.ConsumerSubnet \in Names
    /\ Config.ProviderVM \in Names /\ Config.ConsumerVM \in Names
    /\ Config.HealthCheck \in Names /\ Config.BackendService \in Names
    /\ Config.ForwardingRule \in Names /\ Config.ServiceAttachment \in Names
    /\ Config.PSCAddress \in Names /\ Config.PSCForwardingRule \in Names
    /\ Config.Group \in Names
    /\ "hypershift-redhat-allow-health-checks" \in Names
    /\ "hypershift-redhat-allow-http" \in Names
    /\ "hypershift-redhat-allow-ssh" \in Names
    /\ "hypershift-redhat-allow-egress" \in Names
    /\ "hypershift-redhat-allow-psc-nat" \in Names
    /\ "hypershift-customer-allow-internal" \in Names
    /\ "hypershift-customer-allow-ssh" \in Names
    /\ "hypershift-customer-allow-egress" \in Names
  <1>1. \A i \in 1..22 : RunCleanup[i].name \in Names
    BY CleanupSteps DEF Names
  <1>2. \A n : DeleteResource(n).name = n
    BY DEF DeleteResource, Step
  <1> QED
    BY <1>1, <1>2, CleanupNames

Changes == {"insert", "addInstance", "setPorts", "addBackend"}

\* What a step of the setup may be.
SetupStep(s) ==
    \/ /\ s.do = "insert" /\ s.name \in Names /\ s.kind \in Kinds /\ s.uses \subseteq Names
       /\ s.wait = OperationScope(s.kind)
    \/ s = AddVMToInstanceGroup
    \/ s = SetNamedPorts
    \/ s = AddBackendToService
    \/ s.do = "look" /\ s.uses \subseteq Names
    \/ s.do = "ready"

LEMMA SetupForms == \A i \in 1..29 : SetupStep(RunDemo[i])
  <1>1. \A n \in Names : SetupStep(CreateVPC(n))
    BY DEF SetupStep, CreateVPC, Step, Kinds, OperationScope, WaitForOperation
  <1>2. \A n \in Names, v \in Names : SetupStep(CreateSubnet(v, n))
    BY DEF SetupStep, CreateSubnet, Step, Kinds, OperationScope, WaitForRegionalOperation
  <1>3. \A n \in Names, v \in Names, dir \in {"INGRESS", "EGRESS"} :
            SetupStep(CreateFirewallRule(n, v, dir))
    BY DEF SetupStep, CreateFirewallRule, Step, Kinds, OperationScope, WaitForOperation
  <1>4. SetupStep(DeployProviderVM) /\ SetupStep(DeployConsumerVM)
    BY ConfigNames
       DEF SetupStep, DeployProviderVM, DeployConsumerVM, Step, Kinds, OperationScope,
           WaitForZonalOperation
  <1>5. SetupStep(WaitForVMsReady) /\ SetupStep(TestIsolation) /\ SetupStep(TestConnectivity)
    BY ConfigNames DEF SetupStep, WaitForVMsReady, TestIsolation, TestConnectivity, Step
  <1>6. /\ SetupStep(CreateHealthCheck)
        /\ SetupStep(Step("insert", Config.Group, "group", {}, WaitForZonalOperation))
        /\ SetupStep(Step("insert", Config.BackendService, "backend-service",
                          {Config.HealthCheck}, WaitForRegionalOperation))
    BY ConfigNames
       DEF SetupStep, CreateHealthCheck, Step, Kinds, OperationScope, WaitForOperation,
           WaitForZonalOperation, WaitForRegionalOperation
  <1>7. SetupStep(AddVMToInstanceGroup) /\ SetupStep(SetNamedPorts) /\ SetupStep(AddBackendToService)
    BY DEF SetupStep
  <1>8. /\ SetupStep(CreateForwardingRule) /\ SetupStep(CreateServiceAttachment)
        /\ SetupStep(CreatePSCAddress) /\ SetupStep(CreatePSCForwardingRule)
    BY ConfigNames
       DEF SetupStep, CreateForwardingRule, CreateServiceAttachment, CreatePSCAddress,
           CreatePSCForwardingRule, Step, Kinds, OperationScope, WaitForRegionalOperation
  <1> QED
    BY <1>1, <1>2, <1>3, <1>4, <1>5, <1>6, <1>7, <1>8, ConfigNames, DemoSteps

\* A step before i creates n.
CreatedBefore(i, n) == \E j \in 1..(i - 1) : RunDemo[j].do = "insert" /\ RunDemo[j].name = n

\* The step that creates each resource.
LEMMA Creations ==
    /\ \A i \in 2..30 : CreatedBefore(i, Config.ProviderVPC)
    /\ \A i \in 3..30 : CreatedBefore(i, Config.ProviderSubnet)
    /\ \A i \in 4..30 : CreatedBefore(i, Config.PSCNATSubnet)
    /\ CreatedBefore(30, "hypershift-redhat-allow-health-checks")
    /\ CreatedBefore(30, "hypershift-redhat-allow-http")
    /\ CreatedBefore(30, "hypershift-redhat-allow-ssh")
    /\ CreatedBefore(30, "hypershift-redhat-allow-egress")
    /\ CreatedBefore(30, "hypershift-redhat-allow-psc-nat")
    /\ \A i \in 11..30 : CreatedBefore(i, Config.ConsumerVPC)
    /\ \A i \in 12..30 : CreatedBefore(i, Config.ConsumerSubnet)
    /\ CreatedBefore(30, "hypershift-customer-allow-internal")
    /\ CreatedBefore(30, "hypershift-customer-allow-ssh")
    /\ CreatedBefore(30, "hypershift-customer-allow-egress")
    /\ \A i \in 16..30 : CreatedBefore(i, Config.ProviderVM)
    /\ \A i \in 17..30 : CreatedBefore(i, Config.ConsumerVM)
    /\ \A i \in 20..30 : CreatedBefore(i, Config.HealthCheck)
    /\ \A i \in 21..30 : CreatedBefore(i, Config.Group)
    /\ \A i \in 24..30 : CreatedBefore(i, Config.BackendService)
    /\ \A i \in 26..30 : CreatedBefore(i, Config.ForwardingRule)
    /\ \A i \in 27..30 : CreatedBefore(i, Config.ServiceAttachment)
    /\ \A i \in 28..30 : CreatedBefore(i, Config.PSCAddress)
    /\ \A i \in 29..30 : CreatedBefore(i, Config.PSCForwardingRule)
  <1> DEFINE Creates(k, n) == RunDemo[k].do = "insert" /\ RunDemo[k].name = n
  <1>1. ASSUME NEW k \in 1..29, NEW n, Creates(k, n)
        PROVE  \A i \in (k + 1)..30 : CreatedBefore(i, n)
    BY <1>1 DEF CreatedBefore
  <1>2. /\ \A n : CreateVPC(n).do = "insert" /\ CreateVPC(n).name = n
        /\ \A n, v : CreateSubnet(v, n).do = "insert" /\ CreateSubnet(v, n).name = n
        /\ \A n, v, r : /\ CreateFirewallRule(n, v, r).do = "insert"
                        /\ CreateFirewallRule(n, v, r).name = n
        /\ \A n, k, u, w : /\ Step("insert", n, k, u, w).do = "insert"
                           /\ Step("insert", n, k, u, w).name = n
    BY DEF CreateVPC, CreateSubnet, CreateFirewallRule, Step
  <1>3. /\ Creates(1, Config.ProviderVPC) /\ Creates(2, Config.ProviderSubnet)
        /\ Creates(3, Config.PSCNATSubnet)
        /\ Creates(4, "hypershift-redhat-allow-health-checks")
        /\ Creates(5, "hypershift-redhat-allow-http")
        /\ Creates(6, "hypershift-redhat-allow-ssh")
        /\ Creates(7, "hypershift-redhat-allow-egress")
        /\ Creates(8, "hypershift-redhat-allow-psc-nat")
        /\ Creates(10, Config.ConsumerVPC) /\ Creates(11, Config.ConsumerSubnet)
        /\ Creates(12, "hypershift-customer-allow-internal")
        /\ Creates(13, "hypershift-customer-allow-ssh")
        /\ Creates(14, "hypershift-customer-allow-egress")
    BY <1>2, DemoSteps
  <1>4. /\ Creates(15, Config.ProviderVM) /\ Creates(16, Config.ConsumerVM)
        /\ Creates(19, Config.HealthCheck) /\ Creates(20, Config.Group)
        /\ Creates(23, Config.BackendService) /\ Creates(25, Config.ForwardingRule)
        /\ Creates(26, Config.ServiceAttachment) /\ Creates(27, Config.PSCAddress)
        /\ Creates(28, Config.PSCForwardingRule)
    BY <1>2, DemoSteps
       DEF DeployProviderVM, DeployConsumerVM, CreateHealthCheck, CreateForwardingRule,
           CreateServiceAttachment, CreatePSCAddress, CreatePSCForwardingRule
  <1> HIDE DEF Creates
  <1> QED
    BY <1>1, <1>3, <1>4

LEMMA EveryNameIsCreated == \A n \in Names : CreatedBefore(30, n)
  <1>1. \A n : DeleteResource(n).name = n
    BY DEF DeleteResource, Step
  <1>2. \A i \in 1..22 : CreatedBefore(30, RunCleanup[i].name)
    BY <1>1, CleanupNames, Creations
  <1> QED
    BY <1>2, CleanupSteps DEF Names

\* What the steps from the VMs on say of themselves.
LEMMA StepFields ==
    /\ DeployProviderVM.do = "insert" /\ DeployProviderVM.uses = {Config.ProviderSubnet}
    /\ DeployConsumerVM.do = "insert" /\ DeployConsumerVM.uses = {Config.ConsumerSubnet}
    /\ WaitForVMsReady.do = "ready" /\ WaitForVMsReady.uses = {}
    /\ TestIsolation.do = "look"
    /\ TestIsolation.uses = {Config.ProviderVM, Config.ConsumerVM}
    /\ CreateHealthCheck.do = "insert" /\ CreateHealthCheck.uses = {}
    /\ AddVMToInstanceGroup.do = "addInstance" /\ AddVMToInstanceGroup.uses = {Config.ProviderVM}
    /\ AddVMToInstanceGroup.name = Config.Group
    /\ SetNamedPorts.do = "setPorts" /\ SetNamedPorts.uses = {} /\ SetNamedPorts.name = Config.Group
    /\ AddBackendToService.do = "addBackend" /\ AddBackendToService.uses = {Config.Group}
    /\ AddBackendToService.name = Config.BackendService
    /\ CreateForwardingRule.do = "insert"
    /\ CreateForwardingRule.uses = {Config.BackendService, Config.ProviderSubnet}
    /\ CreateServiceAttachment.do = "insert"
    /\ CreateServiceAttachment.uses = {Config.ForwardingRule, Config.PSCNATSubnet}
    /\ CreatePSCAddress.do = "insert" /\ CreatePSCAddress.uses = {Config.ConsumerSubnet}
    /\ CreatePSCForwardingRule.do = "insert"
    /\ CreatePSCForwardingRule.uses = {Config.PSCAddress, Config.ServiceAttachment,
                                       Config.ConsumerVPC, Config.ConsumerSubnet}
    /\ TestConnectivity.do = "look"
    /\ TestConnectivity.uses = {Config.PSCForwardingRule, Config.ForwardingRule}
  BY DEF DeployProviderVM, DeployConsumerVM, WaitForVMsReady, TestIsolation, CreateHealthCheck,
         AddVMToInstanceGroup, SetNamedPorts, AddBackendToService, CreateForwardingRule,
         CreateServiceAttachment, CreatePSCAddress, CreatePSCForwardingRule, TestConnectivity,
         Step

\* What a step refers to, and what it changes, has been created before.
LEMMA UsesAreCreated ==
    \A i \in 1..29 :
        /\ \A u \in RunDemo[i].uses : CreatedBefore(i, u)
        /\ RunDemo[i].do \in Changes \ {"insert"} => CreatedBefore(i, RunDemo[i].name)
  <1>1. /\ \A n : CreateVPC(n).uses = {} /\ CreateVPC(n).do = "insert"
        /\ \A n, v : CreateSubnet(v, n).uses = {v} /\ CreateSubnet(v, n).do = "insert"
        /\ \A n, v, r : /\ CreateFirewallRule(n, v, r).uses = {v}
                        /\ CreateFirewallRule(n, v, r).do = "insert"
        /\ \A n, k, u, w : /\ Step("insert", n, k, u, w).uses = u
                           /\ Step("insert", n, k, u, w).do = "insert"
    BY DEF CreateVPC, CreateSubnet, CreateFirewallRule, Step
  <1> DEFINE P(i) == /\ \A u \in RunDemo[i].uses : CreatedBefore(i, u)
                     /\ RunDemo[i].do \in Changes \ {"insert"} =>
                           CreatedBefore(i, RunDemo[i].name)
  <1>2. \A i \in 1..14 : P(i)
    BY <1>1, DemoSteps, Creations DEF Changes
  <1>3. P(15) /\ P(16) /\ P(17) /\ P(18) /\ P(19) /\ P(20)
    BY <1>1, DemoSteps, StepFields, Creations DEF Changes
  <1>4. P(21) /\ P(22) /\ P(23) /\ P(24)
    BY <1>1, DemoSteps, StepFields, Creations DEF Changes
  <1>5. P(25) /\ P(26) /\ P(27) /\ P(28) /\ P(29)
    BY <1>1, DemoSteps, StepFields, Creations DEF Changes
  <1> HIDE DEF P
  <1>6. \A i \in 1..29 : P(i)
    BY <1>2, <1>3, <1>4, <1>5
  <1> QED
    BY <1>6 DEF P

-----------------------------------------------------------------------------
(***************************************************************************)
(* The invariant.                                                          *)
(***************************************************************************)
\* The tool is at a step of its program, at a call of that step.
RunFits ==
    run # NoRun =>
        /\ verdict = "none"
        /\ run.at \in 1..Len(Program(run.tool))
        /\ run.pc = "check" => Looks(Current)
        /\ run.pc \in {"request", "wait"} => Current.do \in Changes \cup {"delete"}
        /\ run.pc = "wait" => run.op # "none"
        /\ run.pc = "readBack" => Current.do = "insert"
        /\ run.pc \in {"look", "ready"} => Current.do = run.pc

\* Of the operations under way, one at most is the tool's: the one it waits for.
OwnOperation ==
    \A o \in ops : o.mine =>
        run.pc = "wait" /\ run.op = "running" /\ o = Operation(Current, TRUE)

\* The state of a resource says which operation is under way.
OperationsFit ==
    \A o \in ops :
        /\ o.do = "insert" => res[o.name].state = "creating"
        /\ o.do = "delete" => res[o.name].state = "deleting" /\ o.name \notin NoCommand
        /\ o.do \in {"addInstance", "setPorts"} => o.name = Config.Group
        /\ o.do = "addBackend" => o.name = Config.BackendService
        /\ \A p \in ops : o.do \in {"insert", "delete"} /\ p.do = o.do /\ p.name = o.name => p = o

\* Nothing stays half created or half deleted.
ChangesEnd ==
    \A n \in Names : res[n] # Absent /\ ~Ready(n) =>
        \E o \in ops : o.name = n /\ o.do \in {"insert", "delete"}

\* What a resource may refer to.
References(n) ==
    {u \in Names : \/ \E i \in 1..29 : /\ RunDemo[i].do \in {"insert", "addBackend"}
                                       /\ RunDemo[i].name = n
                                       /\ u \in RunDemo[i].uses
                   \/ n = Config.Group /\ u = Config.ProviderVPC}

ReferencesFit == \A n \in Names : res[n].uses \subseteq References(n)

\* What a step is there for is there, or was taken for granted.
Done(s) ==
    /\ s.do = "insert" => Ready(s.name) \/ s.name \in assumed
    /\ s.do = "addInstance" =>
          \/ Ready(Config.ProviderVM) /\ Config.ProviderVM \in members
          \/ Config.ProviderVM \in assumed
    /\ s.do = "setPorts" => (Ready(s.name) /\ ports) \/ s.name \in assumed
    /\ s.do = "addBackend" =>
          (Ready(s.name) /\ Config.Group \in res[s.name].uses) \/ s.name \in assumed

SetupDone ==
    /\ run.tool = "setup" =>
          /\ \A j \in 1..(run.at - 1) : Done(RunDemo[j])
          /\ run.pc = "readBack" \/ (run.pc = "wait" /\ run.op = "ok") => Done(Current)
    /\ verdict = "setup" => \A j \in 1..29 : Done(RunDemo[j])

\* A setup that began with nothing under way and met no failure: everything it finds
\* is as it looks, nothing changes behind its back, nothing it asks for is refused.
CleanSetup ==
    clean /\ run.tool = "setup" =>
        /\ \A o \in ops : o.mine
        /\ assumed = {}
        /\ run.op # "error"
        /\ run.pc = "request" =>
              /\ Current.do = "insert" => res[Current.name] = Absent
              /\ Current.do = "addBackend" => Config.Group \notin res[Current.name].uses
        /\ run.pc = "request" \/ (run.pc = "wait" /\ run.op = "running") =>
              (Current.do = "addInstance" => Config.ProviderVM \notin members)

Removed(n) == res[n] = Absent \/ n \in Stuck

\* A cleanup of that kind has deleted what it could.
CleanCleanup ==
    clean /\ (run.tool = "cleanup" \/ verdict = "cleanup") =>
        /\ \A o \in ops : o.mine
        /\ run.op # "error"
        /\ run.tool = "cleanup" =>
              /\ \A j \in 1..(run.at - 1) : Removed(RunCleanup[j].name)
              /\ run.pc = "wait" /\ run.op = "ok" => Removed(Current.name)
        /\ verdict = "cleanup" => \A n \in Names : Removed(n)

CloudInv == CloudTypeOK /\ OperationsFit /\ ChangesEnd /\ ReferencesFit

-----------------------------------------------------------------------------
(***************************************************************************)
(* Compute Engine.                                                         *)
(***************************************************************************)
\* A step that changes something.
ChangeStep(s) ==
    /\ s.name \in Names
    /\ \/ s.do = "insert" /\ s.kind \in Kinds /\ s.uses \subseteq References(s.name)
       \/ s.do = "delete"
       \/ s.do \in {"addInstance", "setPorts"} /\ s.name = Config.Group
       \/ s.do = "addBackend" /\ s.name = Config.BackendService

LEMMA SpecialReferences ==
    /\ Config.ProviderVPC \in References(Config.Group)
    /\ Config.Group \in References(Config.BackendService)
  <1>1. /\ RunDemo[24].do = "addBackend" /\ RunDemo[24].name = Config.BackendService
        /\ Config.Group \in RunDemo[24].uses
    BY DemoSteps, StepFields
  <1> QED
    BY <1>1, ConfigNames DEF References

\* Changes of one field of a resource.
LEMMA ResourceChanges ==
    /\ Absent.state = "absent" /\ Absent.uses = {} /\ Absent \notin Resources
    /\ \A r \in Resources : /\ r.state \in {"creating", "ready", "deleting"}
                            /\ r.uses \subseteq Names
    /\ \A r \in Resources, st \in {"creating", "ready", "deleting"} :
          /\ [r EXCEPT !.state = st] \in Resources
          /\ [r EXCEPT !.state = st].state = st
          /\ [r EXCEPT !.state = st].uses = r.uses
    /\ \A r \in Resources, u \in SUBSET Names :
          /\ [r EXCEPT !.uses = u] \in Resources
          /\ [r EXCEPT !.uses = u].state = r.state
          /\ [r EXCEPT !.uses = u].uses = u
    /\ \A k \in Kinds, u \in SUBSET Names :
          /\ [state |-> "creating", kind |-> k, uses |-> u] \in Resources
          /\ [state |-> "creating", kind |-> k, uses |-> u].state = "creating"
          /\ [state |-> "creating", kind |-> k, uses |-> u].uses = u
  BY DEF Resources, Absent

LEMMA OperationFields ==
    \A s, mine : /\ Operation(s, mine).do = s.do /\ Operation(s, mine).name = s.name
                 /\ Operation(s, mine).mine = mine
  BY DEF Operation

\* What an accepted request does.
LEMMA BeginEffect ==
    ASSUME CloudInv, NEW s, ChangeStep(s), NEW mine \in BOOLEAN, Begin(s, mine)
    PROVE  /\ ops' = ops \cup {Operation(s, mine)} /\ Operation(s, mine) \in Operations
           /\ UNCHANGED <<members, ports, boot>>
           /\ res' \in [Names -> Resources \cup {Absent}]
           /\ \A n \in Names \ {s.name} : res'[n] = res[n]
           /\ s.do = "insert" => /\ res[s.name] = Absent /\ res'[s.name].state = "creating"
                                 /\ res'[s.name].uses = s.uses
                                 /\ \A u \in s.uses : Ready(u)
           /\ s.do = "delete" => /\ Ready(s.name) /\ s.name \notin NoCommand
                                 /\ ~InUse(s.name)
                                 /\ res'[s.name].state = "deleting"
                                 /\ res'[s.name].uses = res[s.name].uses
           /\ s.do \notin {"insert", "delete"} => res' = res
  <1>1. /\ res \in [Names -> Resources \cup {Absent}] /\ s.name \in Names
        /\ s.do \in {"insert", "delete", "addInstance", "setPorts", "addBackend"}
    BY DEF CloudInv, CloudTypeOK, ChangeStep
  <1>2. Operation(s, mine) \in Operations
    BY <1>1 DEF Operation, Operations
  <1>3. ops' = ops \cup {Operation(s, mine)} /\ UNCHANGED <<members, ports, boot>>
    BY DEF Begin
  <1>4. CASE s.do = "insert"
    <2>1. /\ res' = [res EXCEPT ![s.name] = [state |-> "creating", kind |-> s.kind, uses |-> s.uses]]
          /\ res[s.name] = Absent /\ \A u \in s.uses : Ready(u)
      BY <1>4 DEF Begin, Accepts
    <2>2. s.kind \in Kinds /\ s.uses \in SUBSET Names
      BY <1>4 DEF ChangeStep, References
    <2>3. PICK r \in Resources : /\ res' = [res EXCEPT ![s.name] = r]
                                 /\ r.state = "creating" /\ r.uses = s.uses
      BY <2>1, <2>2, ResourceChanges
    <2>4. /\ res' \in [Names -> Resources \cup {Absent}] /\ res'[s.name] = r
          /\ \A n \in Names \ {s.name} : res'[n] = res[n]
      BY <1>1, <2>3
    <2> QED
      BY <1>2, <1>3, <1>4, <2>1, <2>3, <2>4
  <1>5. CASE s.do = "delete"
    <2>1. /\ res' = [res EXCEPT ![s.name] = [res[s.name] EXCEPT !.state = "deleting"]]
          /\ Ready(s.name) /\ s.name \notin NoCommand /\ ~InUse(s.name)
      BY <1>5 DEF Begin, Accepts
    <2>2. res[s.name] \in Resources
      BY <1>1, <2>1, ResourceChanges DEF Ready
    <2>3. PICK r \in Resources : /\ res' = [res EXCEPT ![s.name] = r]
                                 /\ r.state = "deleting" /\ r.uses = res[s.name].uses
      <3>1. /\ [res[s.name] EXCEPT !.state = "deleting"] \in Resources
            /\ [res[s.name] EXCEPT !.state = "deleting"].state = "deleting"
            /\ [res[s.name] EXCEPT !.state = "deleting"].uses = res[s.name].uses
        BY <2>2, ResourceChanges
      <3> QED
        BY <2>1, <3>1
    <2>4. /\ res' \in [Names -> Resources \cup {Absent}] /\ res'[s.name] = r
          /\ \A n \in Names \ {s.name} : res'[n] = res[n]
      BY <1>1, <2>3
    <2> QED
      BY <1>2, <1>3, <1>5, <2>1, <2>3, <2>4
  <1>6. CASE s.do \notin {"insert", "delete"}
    <2>1. res' = [res EXCEPT ![s.name] = res[s.name]]
      BY <1>6 DEF Begin
    <2>2. res' = res
      BY <1>1, <2>1
    <2> QED
      BY <1>1, <1>2, <1>3, <1>6, <2>2
  <1> QED
    BY <1>4, <1>5, <1>6

LEMMA BeginKeepsCloud ==
    ASSUME CloudInv, NEW s, ChangeStep(s), NEW mine \in BOOLEAN, Begin(s, mine)
    PROVE  CloudInv'
  <1> DEFINE o == Operation(s, mine)
  <1>1. /\ o.do = s.do /\ o.name = s.name
        /\ s.name \in Names /\ s.do = "insert" => s.uses \subseteq References(s.name)
        /\ s.do \in {"addInstance", "setPorts"} => s.name = Config.Group
        /\ s.do = "addBackend" => s.name = Config.BackendService
    BY OperationFields DEF ChangeStep
  <1>2. ops' = ops \cup {o} /\ o \in Operations
    BY BeginEffect
  <1> HIDE DEF o
  <1>3. CloudTypeOK'
    BY <1>2, BeginEffect DEF CloudInv, CloudTypeOK
  <1>4. ASSUME NEW p \in ops, p.do \in {"insert", "delete"}, s.do \in {"insert", "delete"}
        PROVE  p.name # s.name
    <2>1. res[s.name].state \in {"absent", "ready"}
      BY <1>4, BeginEffect, ResourceChanges DEF Ready
    <2>2. res[p.name].state \in {"creating", "deleting"}
      BY <1>4 DEF CloudInv, OperationsFit
    <2> QED
      BY <2>1, <2>2
  <1>5. OperationsFit'
    <2> SUFFICES ASSUME NEW p \in ops'
                 PROVE  /\ p.do = "insert" => res'[p.name].state = "creating"
                        /\ p.do = "delete" => res'[p.name].state = "deleting" /\ p.name \notin NoCommand
                        /\ p.do \in {"addInstance", "setPorts"} => p.name = Config.Group
                        /\ p.do = "addBackend" => p.name = Config.BackendService
                        /\ \A q \in ops' : p.do \in {"insert", "delete"} /\ q.do = p.do
                                           /\ q.name = p.name => q = p
      BY DEF OperationsFit
    <2>1. \A q \in ops' : p.do \in {"insert", "delete"} /\ q.do = p.do /\ q.name = p.name => q = p
      BY <1>1, <1>2, <1>4 DEF CloudInv, OperationsFit
    <2>2. CASE p = o
      BY <1>1, <2>1, <2>2, BeginEffect
    <2>3. CASE p \in ops
      <3>1. p.name \in Names
        BY <2>3 DEF CloudInv, CloudTypeOK, Operations
      <3>2. p.do \in {"insert", "delete"} => res'[p.name] = res[p.name]
        BY <1>4, <2>3, <3>1, BeginEffect
      <3> QED
        BY <2>1, <2>3, <3>2 DEF CloudInv, OperationsFit
    <2> QED
      BY <1>2, <2>2, <2>3
  <1>6. ChangesEnd'
    <2> SUFFICES ASSUME NEW n \in Names, res'[n] # Absent, res'[n].state # "ready"
                 PROVE  \E p \in ops' : p.name = n /\ p.do \in {"insert", "delete"}
      BY DEF ChangesEnd, Ready
    <2>1. CASE res'[n] = res[n]
      BY <1>2, <2>1 DEF CloudInv, ChangesEnd, Ready
    <2>2. CASE n = s.name /\ s.do \in {"insert", "delete"}
      BY <1>1, <1>2, <2>2
    <2> QED
      BY <2>1, <2>2, BeginEffect
  <1>7. ReferencesFit'
    <2> SUFFICES ASSUME NEW n \in Names PROVE res'[n].uses \subseteq References(n)
      BY DEF ReferencesFit, References
    <2>1. res[n].uses \subseteq References(n)
      BY DEF CloudInv, ReferencesFit
    <2> QED
      BY <1>1, <2>1, BeginEffect
  <1> QED
    BY <1>3, <1>5, <1>6, <1>7 DEF CloudInv

\* What the end of an operation does to resources.
LEMMA EndEffect ==
    ASSUME CloudInv, NEW o, NEW ok \in BOOLEAN, End(o, ok)
    PROVE  /\ o \in ops /\ o \in Operations /\ ops' = ops \ {o}
           /\ res' \in [Names -> Resources \cup {Absent}]
           /\ \A n \in Names \ {o.name} : res'[n] = res[n]
           /\ o.do \in {"insert", "delete"} =>
                 /\ res[o.name].state # "ready"
                 /\ res'[o.name] = Absent \/ res'[o.name].state = "ready"
                 /\ res'[o.name].uses \subseteq res[o.name].uses
           /\ o.do \notin {"insert", "delete"} =>
                 /\ res'[o.name].state = res[o.name].state
                 /\ res[o.name] = Absent => res'[o.name] = Absent
                 /\ res'[o.name].uses \subseteq References(o.name)
  <1>1. /\ res \in [Names -> Resources \cup {Absent}] /\ o \in Operations
        /\ o \in ops /\ o.name \in Names /\ ops' = ops \ {o}
    BY DEF CloudInv, CloudTypeOK, End, Operations
  <1>2. res[o.name].uses \subseteq References(o.name)
    BY <1>1 DEF CloudInv, ReferencesFit
  <1>3. CASE Created(o, ok) \/ Deleted(o, ok)
    <2>1. o.do \in {"insert", "delete"}
      BY <1>3 DEF Created, Deleted
    <2>2. res[o.name].state \in {"creating", "deleting"}
      BY <1>1, <2>1 DEF CloudInv, OperationsFit
    <2>3. res[o.name] \in Resources
      BY <1>1, <2>2, ResourceChanges
    <2>4. \/ res' = [res EXCEPT ![o.name] = [res[o.name] EXCEPT !.state = "ready"]]
          \/ res' = [res EXCEPT ![o.name] = Absent]
      BY <1>3 DEF Created, Deleted
    <2>5. PICK r \in Resources \cup {Absent} : /\ res' = [res EXCEPT ![o.name] = r]
                                               /\ r = Absent \/ r.state = "ready"
                                               /\ r.uses \subseteq res[o.name].uses
      <3>1. /\ [res[o.name] EXCEPT !.state = "ready"] \in Resources
            /\ [res[o.name] EXCEPT !.state = "ready"].state = "ready"
            /\ [res[o.name] EXCEPT !.state = "ready"].uses = res[o.name].uses
        BY <2>3, ResourceChanges
      <3>2. Absent.uses = {}
        BY ResourceChanges
      <3> QED
        BY <2>4, <3>1, <3>2
    <2>6. /\ res' \in [Names -> Resources \cup {Absent}] /\ res'[o.name] = r
          /\ \A n \in Names \ {o.name} : res'[n] = res[n]
      BY <1>1, <2>5
    <2> QED
      BY <1>1, <1>2, <2>1, <2>2, <2>5, <2>6
  <1>4. CASE ok /\ (VMAdded(o, ok) \/ BackendAdded(o, ok))
    <2>1. /\ res[o.name].state = "ready" /\ o.do \notin {"insert", "delete"}
      BY <1>4 DEF VMAdded, BackendAdded, Ready
    <2>2. res[o.name] \in Resources
      BY <1>1, <2>1, ResourceChanges
    <2>3. PICK u \in SUBSET Names :
              /\ res' = [res EXCEPT ![o.name] = [res[o.name] EXCEPT !.uses = u]]
              /\ u \subseteq References(o.name)
      <3>1. CASE VMAdded(o, ok)
        <4>1. /\ o.name = Config.Group
              /\ res' = [res EXCEPT ![o.name] = [res[o.name] EXCEPT !.uses = {Config.ProviderVPC}]]
          BY <1>1, <1>4, <3>1 DEF VMAdded, CloudInv, OperationsFit
        <4>2. /\ {Config.ProviderVPC} \in SUBSET Names
              /\ {Config.ProviderVPC} \subseteq References(o.name)
          BY <4>1, SpecialReferences, ConfigNames
        <4> QED
          BY <4>1, <4>2
      <3>2. CASE BackendAdded(o, ok)
        <4>1. /\ o.name = Config.BackendService
              /\ res' = [res EXCEPT ![o.name] =
                            [res[o.name] EXCEPT !.uses = res[o.name].uses \cup {Config.Group}]]
          BY <1>1, <1>4, <3>2 DEF BackendAdded, CloudInv, OperationsFit
        <4>2. res[o.name].uses \subseteq Names
          BY <2>2, ResourceChanges
        <4>3. /\ res[o.name].uses \cup {Config.Group} \in SUBSET Names
              /\ res[o.name].uses \cup {Config.Group} \subseteq References(o.name)
          BY <1>2, <4>1, <4>2, SpecialReferences, ConfigNames
        <4> QED
          BY <4>1, <4>3
      <3> QED
        BY <1>4, <3>1, <3>2
    <2>4. PICK r \in Resources : /\ res' = [res EXCEPT ![o.name] = r]
                                 /\ r.state = "ready" /\ r.uses = u
      <3>1. /\ [res[o.name] EXCEPT !.uses = u] \in Resources
            /\ [res[o.name] EXCEPT !.uses = u].state = res[o.name].state
            /\ [res[o.name] EXCEPT !.uses = u].uses = u
        BY <2>2, ResourceChanges
      <3> QED
        BY <2>1, <2>3, <3>1
    <2>5. /\ res' \in [Names -> Resources \cup {Absent}] /\ res'[o.name] = r
          /\ \A n \in Names \ {o.name} : res'[n] = res[n]
      BY <1>1, <2>4
    <2>6. res[o.name] # Absent
      BY <2>2, ResourceChanges
    <2> QED
      BY <1>1, <2>1, <2>3, <2>4, <2>5, <2>6
  <1>5. CASE res' = res /\ o.do \notin {"insert", "delete"}
    BY <1>1, <1>2, <1>5
  <1> QED
    BY <1>3, <1>4, <1>5 DEF End, VMAdded, PortsSet, BackendAdded

LEMMA EndKeepsCloud ==
    ASSUME CloudInv, NEW o, NEW ok \in BOOLEAN, End(o, ok)
    PROVE  CloudInv'
  <1>1. o \in ops /\ o \in Operations /\ o.name \in Names /\ ops' = ops \ {o}
    BY EndEffect DEF Operations
  <1>2. members' \subseteq {Config.ProviderVM} /\ ports' \in BOOLEAN
        /\ boot' \in {"off", "booting", "marked", "serving"}
    BY DEF End, Created, Deleted, VMAdded, PortsSet, BackendAdded, CloudInv, CloudTypeOK
  <1>3. CloudTypeOK'
    BY <1>1, <1>2, EndEffect DEF CloudInv, CloudTypeOK
  <1>4. ASSUME NEW p \in ops', p.do \in {"insert", "delete"}, p.name = o.name
        PROVE  o.do \notin {"insert", "delete"}
    <2>1. p \in ops /\ p # o
      BY <1>1, <1>4
    <2>2. \/ p.do = o.do
          \/ p.do = "insert" /\ o.do = "delete"
          \/ p.do = "delete" /\ o.do = "insert"
          \/ o.do \notin {"insert", "delete"}
      BY <1>4
    <2> QED
      BY <1>1, <1>4, <2>1, <2>2 DEF CloudInv, OperationsFit
  <1>5. OperationsFit'
    <2> SUFFICES ASSUME NEW p \in ops'
                 PROVE  /\ p.do = "insert" => res'[p.name].state = "creating"
                        /\ p.do = "delete" => res'[p.name].state = "deleting" /\ p.name \notin NoCommand
                        /\ p.do \in {"addInstance", "setPorts"} => p.name = Config.Group
                        /\ p.do = "addBackend" => p.name = Config.BackendService
                        /\ \A q \in ops' : p.do \in {"insert", "delete"} /\ q.do = p.do
                                           /\ q.name = p.name => q = p
      BY DEF OperationsFit
    <2>1. p \in ops /\ p.name \in Names
      BY <1>1 DEF CloudInv, CloudTypeOK, Operations
    <2>2. p.do \in {"insert", "delete"} => res'[p.name].state = res[p.name].state
      BY <1>1, <1>4, <2>1, EndEffect
    <2> QED
      BY <1>1, <2>1, <2>2 DEF CloudInv, OperationsFit
  <1>6. ChangesEnd'
    <2> SUFFICES ASSUME NEW n \in Names, res'[n] # Absent, res'[n].state # "ready"
                 PROVE  \E p \in ops' : p.name = n /\ p.do \in {"insert", "delete"}
      BY DEF ChangesEnd, Ready
    <2>1. ~(n = o.name /\ o.do \in {"insert", "delete"})
      BY EndEffect
    <2>2. res[n] # Absent /\ res[n].state # "ready"
      BY <2>1, EndEffect
    <2>3. PICK p \in ops : p.name = n /\ p.do \in {"insert", "delete"}
      BY <2>2 DEF CloudInv, ChangesEnd, Ready
    <2> QED
      BY <1>1, <2>1, <2>3
  <1>7. ReferencesFit'
    <2> SUFFICES ASSUME NEW n \in Names PROVE res'[n].uses \subseteq References(n)
      BY DEF ReferencesFit, References
    <2>1. res[n].uses \subseteq References(n)
      BY DEF CloudInv, ReferencesFit
    <2> QED
      BY <2>1, EndEffect
  <1> QED
    BY <1>3, <1>5, <1>6, <1>7 DEF CloudInv

\* What nobody waits for any more.
LEMMA OrphanedOperations ==
    ASSUME NEW S, S \subseteq Operations
    PROVE  /\ \A p \in Orphaned(S) : /\ p \in Operations /\ ~p.mine
                                     /\ \E o \in S : p.do = o.do /\ p.name = o.name
           /\ \A o \in S : \E p \in Orphaned(S) : p.do = o.do /\ p.name = o.name
           /\ \A p, q \in Orphaned(S) : p.do = q.do /\ p.name = q.name => p = q
  <1>1. \A o \in Operations : /\ [o EXCEPT !.mine = FALSE] \in Operations
                              /\ [o EXCEPT !.mine = FALSE].mine = FALSE
                              /\ [o EXCEPT !.mine = FALSE].do = o.do
                              /\ [o EXCEPT !.mine = FALSE].name = o.name
    BY DEF Operations
  <1>2. \A o \in Operations : o = [do |-> o.do, name |-> o.name, mine |-> o.mine]
    BY DEF Operations
  <1>3. \A p \in Orphaned(S) : \E o \in S : p = [o EXCEPT !.mine = FALSE]
    BY DEF Orphaned
  <1>4. \A o \in S : [o EXCEPT !.mine = FALSE] \in Orphaned(S)
    BY DEF Orphaned
  <1>5. \A p \in Orphaned(S) : /\ p \in Operations /\ p.mine = FALSE
                               /\ \E o \in S : p.do = o.do /\ p.name = o.name
    <2> TAKE p \in Orphaned(S)
    <2>1. PICK o \in S : p = [o EXCEPT !.mine = FALSE]
      BY <1>3
    <2>2. o \in Operations
      OBVIOUS
    <2> QED
      BY <1>1, <2>1, <2>2
  <1>6. \A o \in S : \E p \in Orphaned(S) : p.do = o.do /\ p.name = o.name
    BY <1>1, <1>4
  <1>7. \A p, q \in Orphaned(S) : p.do = q.do /\ p.name = q.name => p = q
    BY <1>2, <1>5
  <1> QED
    BY <1>5, <1>6, <1>7

LEMMA OthersKeepCloud ==
    ASSUME CloudInv,
           \/ UNCHANGED cloudVars
           \/ ops' = Orphaned(ops) /\ UNCHANGED <<res, members, ports, boot>>
           \/ BootsFurther
    PROVE  CloudInv'
  <1>1. UNCHANGED <<res, members, ports>> /\ boot' \in {"off", "booting", "marked", "serving"}
    BY DEF cloudVars, BootsFurther, CloudInv, CloudTypeOK
  <1>2. CASE ops' = ops
    BY <1>1, <1>2 DEF CloudInv, CloudTypeOK, OperationsFit, ChangesEnd, ReferencesFit, Ready
  <1>3. CASE ops' = Orphaned(ops)
    <2>1. ops \subseteq Operations
      BY DEF CloudInv, CloudTypeOK
    <2>2. \A p \in ops' : /\ p \in Operations
                          /\ \E o \in ops : p.do = o.do /\ p.name = o.name
      BY <1>3, <2>1, OrphanedOperations
    <2>3. \A o \in ops : \E p \in ops' : p.do = o.do /\ p.name = o.name
      BY <1>3, <2>1, OrphanedOperations
    <2>4. \A p, q \in ops' : p.do = q.do /\ p.name = q.name => p = q
      BY <1>3, <2>1, OrphanedOperations
    <2>5. OperationsFit'
      BY <1>1, <2>2, <2>4 DEF CloudInv, OperationsFit
    <2>6. ChangesEnd'
      BY <1>1, <2>3 DEF CloudInv, ChangesEnd, Ready
    <2> QED
      BY <1>1, <2>2, <2>5, <2>6 DEF CloudInv, CloudTypeOK, ReferencesFit
  <1> QED
    BY <1>2, <1>3 DEF cloudVars, BootsFurther

-----------------------------------------------------------------------------
(***************************************************************************)
(* The step a tool is at, and where it goes.                               *)
(***************************************************************************)
Running == [tool: {"setup", "cleanup"}, at: Nat \ {0},
            pc: {"check", "request", "wait", "readBack", "look", "ready"},
            op: {"none", "running", "ok", "error"}]

LEMMA ProgramLengths ==
    /\ Len(Program("setup")) = 29 /\ Len(Program("cleanup")) = 22
    /\ Program("setup") = RunDemo /\ Program("cleanup") = RunCleanup
  BY DemoSteps, CleanupSteps DEF Program

LEMMA DeleteFields == \A n : /\ DeleteResource(n).do = "delete" /\ DeleteResource(n).name = n
                             /\ DeleteResource(n).kind = ""
  BY DEF DeleteResource, Step

\* The steps that are neither an insert nor a test are three.
LEMMA SetupStepFields ==
    ASSUME NEW s, SetupStep(s)
    PROVE  /\ s.do \in Changes \cup {"look", "ready"}
           /\ s.do \in Changes => s.name \in Names /\ s.wait = OperationScope(s.kind)
           /\ s.uses \subseteq Names \/ s.do = "ready"
           /\ s.do = "insert" => s.kind \in Kinds /\ s.uses \subseteq Names
           /\ s.do \in Changes /\ s.kind = "forwarding-rule" => s.do = "insert"
           /\ s.do = "addInstance" => s.name = Config.Group /\ s.uses = {Config.ProviderVM}
           /\ s.do = "setPorts" => s.name = Config.Group /\ s.uses = {}
           /\ s.do = "addBackend" => s.name = Config.BackendService /\ s.uses = {Config.Group}
  <1>1. /\ AddVMToInstanceGroup.wait = OperationScope(AddVMToInstanceGroup.kind)
        /\ SetNamedPorts.wait = OperationScope(SetNamedPorts.kind)
        /\ AddBackendToService.wait = OperationScope(AddBackendToService.kind)
        /\ AddVMToInstanceGroup.kind # "forwarding-rule"
        /\ SetNamedPorts.kind # "forwarding-rule"
        /\ AddBackendToService.kind # "forwarding-rule"
    BY DEF AddVMToInstanceGroup, SetNamedPorts, AddBackendToService, Step, OperationScope,
           WaitForZonalOperation, WaitForRegionalOperation
  <1>2. CASE s = AddVMToInstanceGroup
    BY <1>1, <1>2, StepFields, ConfigNames DEF Changes
  <1>3. CASE s = SetNamedPorts
    BY <1>1, <1>3, StepFields, ConfigNames DEF Changes
  <1>4. CASE s = AddBackendToService
    BY <1>1, <1>4, StepFields, ConfigNames DEF Changes
  <1>5. CASE s.do \in {"insert", "look", "ready"}
    BY <1>5, StepFields DEF SetupStep, Changes
  <1> QED
    BY <1>2, <1>3, <1>4, <1>5 DEF SetupStep

\* What the steps of a program do.
LEMMA ProgramSteps ==
    /\ \A i \in 1..29 : RunDemo[i].do \in Changes \cup {"look", "ready"}
    /\ \A i \in 1..22 : /\ RunCleanup[i].do = "delete" /\ RunCleanup[i].kind = ""
                         /\ RunCleanup[i].name \in Names
  <1>1. ASSUME NEW i \in 1..29 PROVE RunDemo[i].do \in Changes \cup {"look", "ready"}
    <2>1. SetupStep(RunDemo[i])
      BY SetupForms
    <2> QED
      BY <2>1, SetupStepFields
  <1>2. ASSUME NEW i \in 1..22
        PROVE  /\ RunCleanup[i].do = "delete" /\ RunCleanup[i].kind = ""
               /\ RunCleanup[i].name \in Names
    <2>1. PICK n : RunCleanup[i] = DeleteResource(n)
      BY CleanupSteps
    <2>2. RunCleanup[i].do = "delete" /\ RunCleanup[i].kind = ""
      BY <2>1, DeleteFields
    <2> QED
      BY <2>2, CleanupSteps DEF Names
  <1> QED
    BY <1>1, <1>2

LEMMA AnyStep ==
    ASSUME NEW tool \in {"setup", "cleanup"}, NEW i \in 1..Len(Program(tool))
    PROVE  Program(tool)[i].do \in Changes \cup {"delete", "look", "ready"}
  <1>1. CASE tool = "setup"
    BY <1>1, ProgramLengths, ProgramSteps
  <1>2. CASE tool = "cleanup"
    BY <1>2, ProgramLengths, ProgramSteps
  <1> QED
    BY <1>1, <1>2

LEMMA CurrentStep ==
    ASSUME TypeOK, RunFits, run # NoRun
    PROVE  /\ run \in Running /\ verdict = "none"
           /\ run.tool = "setup" =>
                 /\ run.at \in 1..29 /\ Current = RunDemo[run.at] /\ SetupStep(Current)
           /\ run.tool = "cleanup" =>
                 /\ run.at \in 1..22 /\ Current = RunCleanup[run.at]
                 /\ Current.do = "delete" /\ Current.kind = "" /\ Current.name \in Names
                 /\ run.pc \in {"request", "wait"}
           /\ Current.do \in Changes \cup {"delete"} => ChangeStep(Current)
           /\ run.pc = "wait" => SeesOperation
  <1>1. run \in Running /\ verdict = "none" /\ run.at \in 1..Len(Program(run.tool))
    BY DEF TypeOK, RunFits, Running
  <1>2. CASE run.tool = "setup"
    <2>1. run.at \in 1..29 /\ Current = RunDemo[run.at] /\ SetupStep(Current)
      BY <1>1, <1>2, ProgramLengths, SetupForms DEF Current
    <2>2. Current.do # "delete"
      BY <2>1, SetupStepFields DEF Changes
    <2>3. ASSUME Current.do = "insert"
          PROVE  Current.uses \subseteq References(Current.name)
      <3>1. Current.uses \subseteq Names
        BY <2>1, <2>3, SetupStepFields
      <3> QED
        BY <2>1, <2>3, <3>1 DEF References
    <2>4. Current.do \in Changes => ChangeStep(Current)
      BY <2>1, <2>3, SetupStepFields DEF Changes, ChangeStep
    <2>5. run.pc = "wait" => SeesOperation
      BY <1>1, <2>1, <2>2, SetupStepFields DEF RunFits, SeesOperation
    <2> QED
      BY <1>1, <1>2, <2>1, <2>2, <2>4, <2>5
  <1>3. CASE run.tool = "cleanup"
    <2>1. run.at \in 1..22 /\ Current = RunCleanup[run.at]
      BY <1>1, <1>3, ProgramLengths DEF Current
    <2>2. Current.do = "delete" /\ Current.kind = ""
      BY <2>1, ProgramSteps
    <2>3. Current.name \in Names
      BY <2>1, ProgramSteps
    <2>4. run.pc \in {"request", "wait"}
      BY <1>1, <2>2 DEF RunFits, Looks, Running
    <2> QED
      BY <1>1, <1>3, <2>1, <2>2, <2>3, <2>4 DEF ChangeStep, SeesOperation
  <1> QED
    BY <1>1, <1>2, <1>3 DEF Running

LEMMA EntryPoints ==
    ASSUME NEW s, s.do \in Changes \cup {"delete", "look", "ready"}
    PROVE  /\ EntryPoint(s) \in {"check", "request", "look", "ready"}
           /\ EntryPoint(s) = "check" => Looks(s)
           /\ EntryPoint(s) = "request" => s.do \in {"setPorts", "delete"}
           /\ EntryPoint(s) \in {"look", "ready"} => s.do = EntryPoint(s)
           /\ s.do = "insert" => EntryPoint(s) = "check"
  BY DEF EntryPoint, Looks, Changes

LEMMA AdvanceMoves ==
    ASSUME TypeOK, RunFits, run # NoRun, Advance
    PROVE  \/ /\ run' = NoRun /\ verdict' = run.tool
              /\ run.at = Len(Program(run.tool))
           \/ /\ run' \in Running /\ run'.tool = run.tool
              /\ run'.at = run.at + 1 /\ run'.at \in 1..Len(Program(run.tool))
              /\ run'.pc = EntryPoint(Program(run.tool)[run'.at])
              /\ run'.pc \in {"check", "request", "look", "ready"}
              /\ run'.op = "none" /\ verdict' = verdict
              /\ run'.pc = "request" => Current'.do \in {"setPorts", "delete"}
  <1>1. CASE run.at = Len(Program(run.tool))
    BY <1>1 DEF Advance, Leave
  <1>2. CASE run.at # Len(Program(run.tool))
    <2>1. /\ run' = [run EXCEPT !.at = run.at + 1, !.op = "none",
                                !.pc = EntryPoint(Program(run.tool)[run.at + 1])]
          /\ verdict' = verdict
      BY <1>2 DEF Advance
    <2>2. /\ run \in Running /\ run.at \in 1..Len(Program(run.tool))
          /\ Len(Program(run.tool)) \in Nat
      <3>1. run \in Running /\ run.tool \in {"setup", "cleanup"}
        BY CurrentStep DEF Running
      <3>2. Len(Program(run.tool)) \in Nat
        BY <3>1, ProgramLengths
      <3> QED
        BY <3>1, <3>2 DEF RunFits
    <2>3. run.at + 1 \in 1..Len(Program(run.tool)) /\ run.at + 1 \in Nat \ {0}
      BY <1>2, <2>2
    <2>4. PICK e : e = EntryPoint(Program(run.tool)[run.at + 1])
      OBVIOUS
    <2>5. Program(run.tool)[run.at + 1].do \in Changes \cup {"delete", "look", "ready"}
      BY <2>2, <2>3, AnyStep DEF Running
    <2>6. e \in {"check", "request", "look", "ready"}
      BY <2>4, <2>5, EntryPoints
    <2>7. run' = [run EXCEPT !.at = run.at + 1, !.op = "none", !.pc = e]
      BY <2>1, <2>4
    <2>8. /\ run' \in Running /\ run'.tool = run.tool /\ run'.at = run.at + 1
          /\ run'.pc = e /\ run'.op = "none"
      BY <2>2, <2>3, <2>6, <2>7 DEF Running
    <2>9. Current' = Program(run.tool)[run.at + 1]
      BY <2>8 DEF Current, Program
    <2> QED
      BY <2>1, <2>3, <2>4, <2>5, <2>6, <2>8, <2>9, EntryPoints
  <1> QED
    BY <1>1, <1>2

LEMMA AdvanceFits ==
    ASSUME TypeOK, RunFits, run # NoRun, Advance
    PROVE  RunFits'
  <1> SUFFICES ASSUME run' # NoRun
               PROVE  RunFits'
    BY DEF RunFits
  <1>1. /\ run' \in Running /\ run'.tool = run.tool /\ verdict' = verdict
        /\ run'.at \in 1..Len(Program(run.tool))
        /\ run'.pc = EntryPoint(Program(run.tool)[run'.at])
        /\ run'.pc \in {"check", "request", "look", "ready"}
    BY AdvanceMoves
  <1>2. Current' = Program(run.tool)[run'.at] /\ Len(Program(run'.tool)) = Len(Program(run.tool))
    BY <1>1 DEF Current, Program
  <1>3. Current'.do \in Changes \cup {"delete", "look", "ready"}
    BY <1>1, <1>2, CurrentStep, AnyStep DEF Running
  <1>4. /\ run'.pc = "check" => Looks(Current')
        /\ run'.pc = "request" => Current'.do \in {"setPorts", "delete"}
        /\ run'.pc \in {"look", "ready"} => Current'.do = run'.pc
    BY <1>1, <1>2, <1>3, EntryPoints
  <1>5. verdict' = "none"
    BY <1>1, CurrentStep
  <1>6. (run.at \in 1..Len(Program(run.tool)))'
    BY <1>1 DEF Program
  <1>7. Looks(Current)' <=> Looks(Current')
    BY DEF Looks
  <1> QED
    BY <1>1, <1>4, <1>5, <1>6, <1>7 DEF RunFits, Changes

-----------------------------------------------------------------------------
(***************************************************************************)
(* Types, the position of the tool and the operation it waits for.         *)
(***************************************************************************)
BasicInv == TypeOK /\ CloudInv /\ RunFits /\ OwnOperation

LEMMA NobodyWaits ==
    ASSUME OwnOperation, ~(run.pc = "wait" /\ run.op = "running")
    PROVE  \A o \in ops : ~o.mine
  BY DEF OwnOperation

LEMMA NoRunFields == NoRun.pc = "idle" /\ NoRun.tool = "none" /\ NoRun.op = "none"
  BY DEF NoRun

LEMMA MoveFits ==
    ASSUME TypeOK, RunFits, run # NoRun,
           Advance \/ Fail \/ Leave("failed") \/ Leave("killed")
    PROVE  /\ run' \in Running \cup {NoRun} /\ RunFits'
           /\ verdict' \in {"none", "setup", "cleanup", "failed", "killed"}
           /\ run'.pc # "wait"
  <1>1. run.tool \in {"setup", "cleanup"} /\ verdict = "none"
    BY CurrentStep DEF Running
  <1>2. CASE Leave("failed") \/ Leave("killed")
    BY <1>2, NoRunFields DEF Leave, RunFits
  <1>3. CASE Advance
    BY <1>1, <1>3, AdvanceMoves, AdvanceFits, NoRunFields
  <1> QED
    BY <1>2, <1>3 DEF Fail

LEMMA GotoFits ==
    ASSUME TypeOK, RunFits, run # NoRun, NEW pc \in {"request", "readBack"}, Goto(pc),
           pc = "request" => Current.do \in Changes \cup {"delete"},
           pc = "readBack" => Current.do = "insert"
    PROVE  /\ run' \in Running /\ run'.tool = run.tool /\ run'.at = run.at
           /\ run'.pc = pc /\ run'.op = run.op /\ Current' = Current
           /\ RunFits' /\ verdict' = "none"
  <1>1. run \in Running /\ run' = [run EXCEPT !.pc = pc] /\ verdict' = "none"
    BY CurrentStep DEF Goto
  <1>2. /\ run' \in Running /\ run'.tool = run.tool /\ run'.at = run.at
        /\ run'.pc = pc /\ run'.op = run.op
    BY <1>1 DEF Running
  <1>3. Current' = Current /\ Len(Program(run'.tool)) = Len(Program(run.tool))
    BY <1>2 DEF Current, Program
  <1>4. (run.at \in 1..Len(Program(run.tool)))'
    BY <1>2 DEF Program, RunFits
  <1>5. RunFits'
    BY <1>1, <1>2, <1>3, <1>4 DEF RunFits
  <1> QED
    BY <1>1, <1>2, <1>3, <1>5

\* What an action does to the rest of the state.
LEMMA RestTypes ==
    ASSUME TypeOK, Fault \/ NoFault
    PROVE  faults' \in Nat /\ clean' \in BOOLEAN
  <1>1. faults \in Nat /\ clean \in BOOLEAN
    BY DEF TypeOK
  <1>2. \/ faults' = faults + 1 /\ clean' = FALSE
        \/ faults' = faults /\ clean' = clean
    BY DEF Fault, NoFault
  <1>3. faults' \in Nat
    BY <1>1, <1>2
  <1>4. clean' \in BOOLEAN
    BY <1>1, <1>2, Zenon
  <1> QED
    BY <1>3, <1>4

\* The parts of BasicInv' that remain when the operations are left alone.
LEMMA QuietStep ==
    ASSUME BasicInv,
           \/ ~(run.pc = "wait" /\ run.op = "running") /\ UNCHANGED cloudVars
           \/ UNCHANGED <<res, members, ports, boot>> /\ ops' = Orphaned(ops),
           run' \in Running \cup {NoRun}, RunFits',
           verdict' \in {"none", "setup", "cleanup", "failed", "killed"},
           runs' \in Nat, Fault \/ NoFault, assumed' \subseteq Names
    PROVE  BasicInv'
  <1>1. CloudInv'
    BY OthersKeepCloud DEF BasicInv
  <1>2. TypeOK'
    BY <1>1, RestTypes DEF BasicInv, TypeOK, CloudInv, Running
  <1>3. \A o \in ops' : ~o.mine
    BY NobodyWaits, OrphanedOperations DEF BasicInv, CloudInv, CloudTypeOK, cloudVars
  <1> QED
    BY <1>1, <1>2, <1>3 DEF BasicInv, OwnOperation

LEMMA StartKeepsBasic ==
    ASSUME BasicInv, NEW tool \in {"setup", "cleanup"}, Start(tool)
    PROVE  /\ BasicInv' /\ run' \in Running /\ run'.tool = tool /\ run'.at = 1
           /\ run'.pc = EntryPoint(Program(tool)[1]) /\ run'.op = "none"
           /\ run'.pc \in {"check", "request", "look", "ready"}
  <1> DEFINE s == Program(tool)[1]
  <1>1. 1 \in 1..Len(Program(tool)) /\ s.do \in Changes \cup {"delete", "look", "ready"}
    <2>1. 1 \in 1..Len(Program(tool))
      BY ProgramLengths
    <2> QED
      BY <2>1, AnyStep
  <1>2. PICK e \in {"check", "request", "look", "ready"} : e = EntryPoint(s)
    BY <1>1, EntryPoints
  <1>3. run' = [tool |-> tool, at |-> 1, pc |-> e, op |-> "none"] /\ verdict' = "none"
    BY <1>2 DEF Start
  <1>4. /\ run' \in Running /\ run'.tool = tool /\ run'.at = 1 /\ run'.pc = e
        /\ run'.op = "none"
    BY <1>3 DEF Running
  <1>5. Current' = s /\ (run.at \in 1..Len(Program(run.tool)))'
    BY <1>1, <1>4 DEF Current, Program
  <1>6. RunFits'
    <2>1. /\ run'.pc = "check" => Looks(Current')
          /\ run'.pc = "request" => Current'.do \in {"setPorts", "delete"}
          /\ run'.pc \in {"look", "ready"} => Current'.do = run'.pc
      BY <1>1, <1>2, <1>4, <1>5, EntryPoints
    <2>2. Looks(Current)' <=> Looks(Current')
      BY DEF Looks
    <2> QED
      BY <1>2, <1>3, <1>4, <1>5, <2>1, <2>2 DEF RunFits, Changes
  <1>7. CloudInv'
    BY OthersKeepCloud DEF BasicInv, Start
  <1>8. TypeOK'
    BY <1>3, <1>4, <1>7 DEF BasicInv, TypeOK, CloudInv, Running, Start
  <1>9. OwnOperation'
    <2>1. \A o \in ops : ~o.mine
      BY NobodyWaits, NoRunFields DEF BasicInv, Start
    <2> QED
      BY <2>1 DEF OwnOperation, Start, cloudVars
  <1> QED
    BY <1>2, <1>4, <1>6, <1>7, <1>8, <1>9 DEF BasicInv

LEMMA CheckKeepsBasic == BasicInv /\ Check => BasicInv'
  <1> SUFFICES ASSUME BasicInv, Check PROVE BasicInv'
    OBVIOUS
  <1>1. run # NoRun /\ run.pc = "check" /\ Current.do \in Changes
    BY NoRunFields DEF Check, At, BasicInv, RunFits, Looks, Changes
  <1>2. assumed' \subseteq Names
    <2>1. SetupStep(Current)
      BY <1>1, CurrentStep DEF BasicInv, Running
    <2>2. ReliesOn(Current) \subseteq Names
      BY <1>1, <2>1, SetupStepFields DEF ReliesOn, Changes
    <2> QED
      BY <2>2 DEF Check, BasicInv, TypeOK
  <1>3. UNCHANGED <<cloudVars, runs>> /\ (Fault \/ NoFault)
    BY DEF Check
  <1>4. /\ run' \in Running \cup {NoRun} /\ RunFits'
        /\ verdict' \in {"none", "setup", "cleanup", "failed", "killed"}
    <2>1. CASE Goto("request")
      BY <1>1, <2>1, GotoFits DEF BasicInv
    <2>2. CASE Advance \/ Fail
      BY <1>1, <2>2, MoveFits DEF BasicInv
    <2> QED
      BY <2>1, <2>2 DEF Check
  <1> QED
    BY <1>1, <1>2, <1>3, <1>4, QuietStep DEF BasicInv, TypeOK

\* The request is accepted, and the tool waits for its operation.
LEMMA WaitFits ==
    ASSUME BasicInv, At("request"), run' = [run EXCEPT !.pc = "wait", !.op = "running"],
           UNCHANGED verdict
    PROVE  /\ run' \in Running /\ run'.tool = run.tool /\ run'.at = run.at
           /\ run'.pc = "wait" /\ run'.op = "running" /\ Current' = Current /\ RunFits'
  <1>1. run # NoRun /\ run \in Running /\ Current.do \in Changes \cup {"delete"}
    BY NoRunFields, CurrentStep DEF At, BasicInv, RunFits
  <1>2. /\ run' \in Running /\ run'.tool = run.tool /\ run'.at = run.at
        /\ run'.pc = "wait" /\ run'.op = "running"
    BY <1>1 DEF Running
  <1>3. Current' = Current /\ (run.at \in 1..Len(Program(run.tool)))'
    BY <1>1, <1>2 DEF Current, Program, BasicInv, RunFits
  <1>4. RunFits'
    BY <1>1, <1>2, <1>3 DEF RunFits, BasicInv
  <1> QED
    BY <1>2, <1>3, <1>4

LEMMA RequestKeepsBasic == BasicInv /\ Request => BasicInv'
  <1> SUFFICES ASSUME BasicInv, Request PROVE BasicInv'
    OBVIOUS
  <1>1. run # NoRun /\ run.pc = "request" /\ ChangeStep(Current)
    BY NoRunFields, CurrentStep DEF Request, At, BasicInv, RunFits
  <1>2. \A o \in ops : ~o.mine
    BY <1>1, NobodyWaits DEF BasicInv
  <1>3. (Fault \/ NoFault) /\ runs' = runs /\ assumed' = assumed
    BY DEF Request
  <1>4. CASE Begin(Current, TRUE) /\ run' = [run EXCEPT !.pc = "wait", !.op = "running"]
             /\ UNCHANGED verdict
    <2>1. CloudInv' /\ ops' = ops \cup {Operation(Current, TRUE)}
      BY <1>1, <1>4, BeginKeepsCloud DEF BasicInv, Begin
    <2>2. /\ run' \in Running /\ run'.pc = "wait" /\ run'.op = "running" /\ Current' = Current
          /\ RunFits'
      BY <1>1, <1>4, WaitFits DEF At
    <2>3. TypeOK'
      BY <1>3, <1>4, <2>1, <2>2, RestTypes DEF BasicInv, TypeOK, CloudInv, Running
    <2>4. OwnOperation'
      BY <1>2, <2>1, <2>2 DEF OwnOperation
    <2> QED
      BY <2>1, <2>2, <2>3, <2>4 DEF BasicInv
  <1>5. CASE Fail /\ UNCHANGED cloudVars
    BY <1>1, <1>3, <1>5, MoveFits, QuietStep DEF BasicInv, TypeOK
  <1>6. CASE Begin(Current, FALSE) /\ Fail
    <2>1. CloudInv' /\ ops' = ops \cup {Operation(Current, FALSE)}
      BY <1>1, <1>6, BeginKeepsCloud DEF BasicInv, Begin
    <2>2. /\ run' \in Running \cup {NoRun} /\ RunFits'
          /\ verdict' \in {"none", "setup", "cleanup", "failed", "killed"}
      BY <1>1, <1>6, MoveFits DEF BasicInv
    <2>3. TypeOK'
      BY <1>3, <2>1, <2>2, RestTypes DEF BasicInv, TypeOK, CloudInv, Running
    <2>4. OwnOperation'
      BY <1>2, <2>1, OperationFields DEF OwnOperation
    <2> QED
      BY <2>1, <2>2, <2>3, <2>4 DEF BasicInv
  <1> QED
    BY <1>4, <1>5, <1>6 DEF Request

LEMMA PollKeepsBasic == BasicInv /\ Poll => BasicInv'
  <1> SUFFICES ASSUME BasicInv, Poll PROVE BasicInv'
    OBVIOUS
  <1>1. run # NoRun /\ run.pc = "wait" /\ Current.do \in Changes \cup {"delete"}
    BY NoRunFields DEF Poll, At, BasicInv, RunFits
  <1>2. /\ (Fault \/ NoFault) /\ runs' = runs /\ assumed' = assumed
        /\ UNCHANGED <<res, members, ports, boot>> /\ ops' = Orphaned(ops)
    BY DEF Poll
  <1>3. Fail \/ AfterWait
    BY DEF Poll
  <1>4. /\ run' \in Running \cup {NoRun} /\ RunFits'
        /\ verdict' \in {"none", "setup", "cleanup", "failed", "killed"}
    <2>1. CASE Goto("readBack") /\ Current.kind = "forwarding-rule"
      <3>1. run.tool = "setup" /\ SetupStep(Current)
        BY <1>1, <2>1, CurrentStep DEF BasicInv, Running
      <3>2. Current.do = "insert"
        BY <1>1, <2>1, <3>1, SetupStepFields DEF Changes
      <3> QED
        BY <1>1, <2>1, <3>2, GotoFits DEF BasicInv
    <2>2. CASE Advance \/ Fail
      BY <1>1, <2>2, MoveFits DEF BasicInv
    <2> QED
      BY <1>3, <2>1, <2>2 DEF AfterWait
  <1> QED
    BY <1>2, <1>4, QuietStep DEF BasicInv, TypeOK

LEMMA LookingKeepsBasic == BasicInv /\ (ReadBack \/ Look \/ VMsReady) => BasicInv'
  <1> SUFFICES ASSUME BasicInv, ReadBack \/ Look \/ VMsReady PROVE BasicInv'
    OBVIOUS
  <1>1. run # NoRun /\ run.pc # "wait"
    BY NoRunFields DEF ReadBack, Look, VMsReady, At
  <1>2. /\ (Fault \/ NoFault) /\ runs' = runs /\ assumed' = assumed
        /\ UNCHANGED cloudVars /\ (Advance \/ Fail)
    BY DEF ReadBack, Look, VMsReady
  <1>3. /\ run' \in Running \cup {NoRun} /\ RunFits'
        /\ verdict' \in {"none", "setup", "cleanup", "failed", "killed"}
    BY <1>1, <1>2, MoveFits DEF BasicInv
  <1> QED
    BY <1>1, <1>2, <1>3, QuietStep DEF BasicInv, TypeOK

LEMMA KillKeepsBasic == BasicInv /\ Kill => BasicInv'
  <1> SUFFICES ASSUME BasicInv, Kill PROVE BasicInv'
    OBVIOUS
  <1>1. /\ run' \in Running \cup {NoRun} /\ RunFits'
        /\ verdict' \in {"none", "setup", "cleanup", "failed", "killed"}
    BY MoveFits DEF BasicInv, Kill
  <1> QED
    BY <1>1, QuietStep DEF BasicInv, TypeOK, Kill

\* The operation the tool waits for ends, or another one.
LEMMA OperationEndsMoves ==
    ASSUME BasicInv, NEW o, NEW ok \in BOOLEAN, o \in ops,
           run' = IF o.mine THEN [run EXCEPT !.op = IF ok THEN "ok" ELSE "error"] ELSE run,
           UNCHANGED verdict
    PROVE  /\ run' \in Running \cup {NoRun} /\ RunFits' /\ run'.tool = run.tool
           /\ run'.at = run.at /\ run'.pc = run.pc /\ Current' = Current
           /\ o.mine => /\ run \in Running /\ run.pc = "wait" /\ o = Operation(Current, TRUE)
                        /\ run'.op = IF ok THEN "ok" ELSE "error"
           /\ ~o.mine => run' = run
  <1>1. CASE ~o.mine
    BY <1>1 DEF BasicInv, TypeOK, RunFits, Running, Current, Program
  <1>2. CASE o.mine
    <2>1. run.pc = "wait" /\ o = Operation(Current, TRUE)
      BY <1>2 DEF BasicInv, OwnOperation
    <2>2. run # NoRun /\ run \in Running
      BY <2>1, NoRunFields, CurrentStep DEF BasicInv
    <2>3. PICK r \in {"ok", "error"} : r = IF ok THEN "ok" ELSE "error"
      OBVIOUS
    <2>4. run' = [run EXCEPT !.op = r]
      BY <1>2, <2>3
    <2>5. /\ run' \in Running /\ run'.tool = run.tool /\ run'.at = run.at
          /\ run'.pc = run.pc /\ run'.op = r
      BY <2>2, <2>4 DEF Running
    <2>6. Current' = Current /\ (run.at \in 1..Len(Program(run.tool)))'
      BY <2>2, <2>5 DEF Current, Program, BasicInv, RunFits
    <2>7. RunFits'
      BY <2>1, <2>2, <2>3, <2>5, <2>6 DEF RunFits, BasicInv
    <2> QED
      BY <1>2, <2>1, <2>2, <2>3, <2>5, <2>6, <2>7
  <1> QED
    BY <1>1, <1>2

LEMMA EndsKeepsBasic == BasicInv /\ SomeOperationEnds => BasicInv'
  <1> SUFFICES ASSUME BasicInv, NEW o \in ops, OperationEnds(o) PROVE BasicInv'
    BY DEF SomeOperationEnds
  <1>1. PICK ok \in BOOLEAN :
            /\ End(o, ok) /\ (Fault \/ NoFault)
            /\ run' = IF o.mine THEN [run EXCEPT !.op = IF ok THEN "ok" ELSE "error"] ELSE run
    BY DEF OperationEnds
  <1>2. UNCHANGED <<verdict, runs, assumed>>
    BY DEF OperationEnds
  <1>3. CloudInv' /\ ops' = ops \ {o}
    BY <1>1, EndKeepsCloud DEF BasicInv, End
  <1>4. /\ run' \in Running \cup {NoRun} /\ RunFits' /\ Current' = Current
        /\ ~o.mine => run' = run
        /\ o.mine => o = Operation(Current, TRUE)
    BY <1>1, <1>2, OperationEndsMoves
  <1>5. TypeOK'
    BY <1>1, <1>2, <1>3, <1>4, RestTypes DEF BasicInv, TypeOK, CloudInv, Running
  <1>6. OwnOperation'
    BY <1>3, <1>4 DEF BasicInv, OwnOperation
  <1> QED
    BY <1>3, <1>4, <1>5, <1>6 DEF BasicInv

LEMMA OthersKeepBasic == BasicInv /\ (Boot \/ UNCHANGED vars) => BasicInv'
  <1> SUFFICES ASSUME BasicInv, Boot \/ UNCHANGED vars PROVE BasicInv'
    OBVIOUS
  <1>1. UNCHANGED toolVars /\ ops' = ops
    BY DEF Boot, BootsFurther, vars, cloudVars, toolVars
  <1>2. CloudInv'
    BY OthersKeepCloud DEF BasicInv, Boot, vars
  <1>3. TypeOK'
    BY <1>1, <1>2 DEF BasicInv, TypeOK, CloudInv, toolVars
  <1>4. Current' = Current /\ RunFits' /\ OwnOperation'
    BY <1>1 DEF BasicInv, RunFits, OwnOperation, Current, Program, Looks, toolVars
  <1> QED
    BY <1>2, <1>3, <1>4 DEF BasicInv

LEMMA BasicInit == Init => BasicInv
  <1> SUFFICES ASSUME Init PROVE BasicInv
    OBVIOUS
  <1>1. CloudTypeOK /\ OperationsFit /\ ChangesEnd
    BY DEF Init, CloudInit, CloudTypeOK, OperationsFit, ChangesEnd
  <1>2. ReferencesFit
    BY ResourceChanges DEF Init, CloudInit, ReferencesFit
  <1>3. RunFits /\ OwnOperation
    BY DEF Init, CloudInit, RunFits, OwnOperation
  <1>4. TypeOK
    BY <1>1 DEF Init, TypeOK
  <1> QED
    BY <1>1, <1>2, <1>3, <1>4 DEF BasicInv, CloudInv

LEMMA BasicStep == BasicInv /\ [Next]_vars => BasicInv'
  BY StartKeepsBasic, CheckKeepsBasic, RequestKeepsBasic, PollKeepsBasic, LookingKeepsBasic,
     KillKeepsBasic, EndsKeepsBasic, OthersKeepBasic
     DEF Next, Tool

\* Every variable keeps its type, however often the tools are started and whatever
\* fails: no position leaves its program, no operation is about an unknown resource.
THEOREM TypeCorrect == Spec => []TypeOK
  <1>1. BasicInv => TypeOK
    BY DEF BasicInv
  <1> QED
    BY <1>1, BasicInit, BasicStep, PTL DEF Spec

-----------------------------------------------------------------------------
(***************************************************************************)
(* What a setup has done stays done.                                       *)
(***************************************************************************)
LEMMA SomeNamesDiffer ==
    /\ Config.Group # Config.BackendService /\ Config.Group # Config.ProviderVM
    /\ Config.BackendService # Config.ProviderVM
  BY DEF Config

\* The effect of an operation that adds to a group or to a service.
LEMMA Additions ==
    ASSUME CloudInv, NEW o, End(o, TRUE)
    PROVE  /\ o.do = "insert" => res'[o.name].state = "ready"
           /\ o.do = "addInstance" =>
                 Ready(Config.ProviderVM) /\ Config.ProviderVM \in members'
           /\ o.do = "setPorts" => Ready(o.name) /\ ports'
           /\ o.do = "addBackend" =>
                 /\ Ready(o.name) /\ Config.Group \in res'[o.name].uses
                 /\ res[o.name].uses \subseteq res'[o.name].uses
  <1>1. res \in [Names -> Resources \cup {Absent}] /\ o \in ops /\ o.name \in Names
    BY EndEffect DEF CloudInv, CloudTypeOK, Operations
  <1>2. ASSUME o.do = "insert" PROVE res'[o.name].state = "ready"
    <2>1. res' = [res EXCEPT ![o.name] = [res[o.name] EXCEPT !.state = "ready"]]
      BY <1>2 DEF End, Created, Deleted, VMAdded, PortsSet, BackendAdded
    <2>2. res[o.name] \in Resources
      <3>1. res[o.name].state = "creating"
        BY <1>1, <1>2 DEF CloudInv, OperationsFit
      <3> QED
        BY <1>1, <3>1, ResourceChanges
    <2>3. [res[o.name] EXCEPT !.state = "ready"].state = "ready"
      BY <2>2, ResourceChanges
    <2>4. res'[o.name] = [res[o.name] EXCEPT !.state = "ready"]
      BY <1>1, <2>1
    <2> QED
      BY <2>3, <2>4
  <1>3. o.do = "addInstance" => Ready(Config.ProviderVM) /\ Config.ProviderVM \in members'
    BY DEF End, Created, Deleted, VMAdded, PortsSet, BackendAdded
  <1>4. o.do = "setPorts" => Ready(o.name) /\ ports'
    BY DEF End, Created, Deleted, VMAdded, PortsSet, BackendAdded
  <1>5. ASSUME o.do = "addBackend"
        PROVE  /\ Ready(o.name) /\ Config.Group \in res'[o.name].uses
               /\ res[o.name].uses \subseteq res'[o.name].uses
    <2>1. /\ Ready(o.name)
          /\ res' = [res EXCEPT ![o.name] =
                        [res[o.name] EXCEPT !.uses = res[o.name].uses \cup {Config.Group}]]
      BY <1>5 DEF End, Created, Deleted, VMAdded, PortsSet, BackendAdded
    <2>2. res[o.name] \in Resources /\ res[o.name].uses \subseteq Names
      BY <1>1, <2>1, ResourceChanges DEF Ready
    <2>3. res[o.name].uses \cup {Config.Group} \in SUBSET Names
      BY <2>2, ConfigNames
    <2>4. [res[o.name] EXCEPT !.uses = res[o.name].uses \cup {Config.Group}].uses
             = res[o.name].uses \cup {Config.Group}
      BY <2>2, <2>3, ResourceChanges
    <2>5. res'[o.name] = [res[o.name] EXCEPT !.uses = res[o.name].uses \cup {Config.Group}]
      BY <1>1, <2>1
    <2> QED
      BY <2>1, <2>4, <2>5
  <1> QED
    BY <1>2, <1>3, <1>4, <1>5

\* Nobody begins to delete: what is in place stays in place.
Building ==
    \/ UNCHANGED <<res, members, ports>>
    \/ \E mine \in BOOLEAN :
          ChangeStep(Current) /\ Current.do # "delete" /\ Begin(Current, mine)
    \/ \E o \in ops, ok \in BOOLEAN : End(o, ok)

LEMMA BuildingTakesNothingAway ==
    ASSUME CloudInv, Building
    PROVE  /\ \A n \in Names : Ready(n) => res'[n].state = "ready"
           /\ Ready(Config.ProviderVM) /\ Config.ProviderVM \in members =>
                 Config.ProviderVM \in members'
           /\ Ready(Config.Group) /\ ports => ports'
           /\ Ready(Config.BackendService) =>
                 res[Config.BackendService].uses \subseteq res'[Config.BackendService].uses
  <1>1. CASE UNCHANGED <<res, members, ports>>
    BY <1>1 DEF Ready
  <1>2. ASSUME NEW mine \in BOOLEAN, ChangeStep(Current), Current.do # "delete",
               Begin(Current, mine)
        PROVE  /\ \A n \in Names : Ready(n) => res'[n] = res[n]
               /\ UNCHANGED <<members, ports>>
    <2>1. Current.do = "insert" => res[Current.name].state # "ready"
      BY <1>2, BeginEffect, ResourceChanges
    <2> QED
      BY <1>2, <2>1, BeginEffect DEF Ready
  <1>3. ASSUME NEW o \in ops, NEW ok \in BOOLEAN, End(o, ok)
        PROVE  /\ \A n \in Names : Ready(n) => res'[n].state = "ready"
               /\ Ready(Config.ProviderVM) /\ Config.ProviderVM \in members =>
                     Config.ProviderVM \in members'
               /\ Ready(Config.Group) /\ ports => ports'
               /\ Ready(Config.BackendService) =>
                     res[Config.BackendService].uses \subseteq res'[Config.BackendService].uses
    <2>1. \A n \in Names : Ready(n) => res'[n].state = "ready"
      BY <1>3, EndEffect DEF Ready
    <2>2. /\ o.name \in Names
          /\ o.do \in {"insert", "delete"} => ~Ready(o.name)
          /\ o.do = "addInstance" => o.name = Config.Group
          /\ o.do = "addBackend" => o.name = Config.BackendService
      BY <1>3, EndEffect DEF CloudInv, CloudTypeOK, OperationsFit, Operations, Ready
    <2>3. Ready(Config.ProviderVM) /\ Config.ProviderVM \in members =>
              Config.ProviderVM \in members'
      BY <1>3, <2>2 DEF End, Created, Deleted, VMAdded, PortsSet, BackendAdded
    <2>4. Ready(Config.Group) /\ ports => ports'
      BY <1>3, <2>2 DEF End, Created, Deleted, VMAdded, PortsSet, BackendAdded
    <2>5. ASSUME Ready(Config.BackendService)
          PROVE  res[Config.BackendService].uses \subseteq res'[Config.BackendService].uses
      <3>1. CASE o.name # Config.BackendService
        BY <1>3, <3>1, ConfigNames, EndEffect
      <3>2. CASE o.name = Config.BackendService /\ o.do = "addBackend" /\ ok
        <4>1. End(o, TRUE)
          BY <1>3, <3>2
        <4> QED
          BY <3>2, <4>1, Additions
      <3>3. CASE o.name = Config.BackendService /\ (o.do = "setPorts" \/ (o.do = "addBackend" /\ ~ok))
        BY <1>3, <3>3 DEF End, Created, Deleted, VMAdded, PortsSet, BackendAdded
      <3>4. o.do \in {"insert", "delete", "addInstance", "setPorts", "addBackend"}
        BY <1>3 DEF End, Created, Deleted, VMAdded, PortsSet, BackendAdded
      <3> QED
        BY <2>2, <2>5, <3>1, <3>2, <3>3, <3>4, SomeNamesDiffer
    <2> QED
      BY <2>1, <2>3, <2>4, <2>5
  <1>4. CASE \E mine \in BOOLEAN :
                ChangeStep(Current) /\ Current.do # "delete" /\ Begin(Current, mine)
    BY <1>2, <1>4, ConfigNames DEF Ready
  <1>5. CASE \E o \in ops, ok \in BOOLEAN : End(o, ok)
    BY <1>3, <1>5
  <1> QED
    BY <1>1, <1>4, <1>5 DEF Building

LEMMA DoneStays ==
    ASSUME CloudInv, Building, assumed \subseteq assumed', NEW s, SetupStep(s), Done(s)
    PROVE  Done(s)'
  <1>1. /\ s.do \in Changes => s.name \in Names
        /\ s.do = "setPorts" => s.name = Config.Group
        /\ s.do = "addBackend" => s.name = Config.BackendService
    BY SetupStepFields
  <1>2. (s.do = "insert" => Ready(s.name) \/ s.name \in assumed)'
    BY <1>1, BuildingTakesNothingAway DEF Done, Ready, Changes
  <1>3. (s.do = "addInstance" => \/ Ready(Config.ProviderVM) /\ Config.ProviderVM \in members
                                 \/ Config.ProviderVM \in assumed)'
    BY ConfigNames, BuildingTakesNothingAway DEF Done, Ready
  <1>4. (s.do = "setPorts" => (Ready(s.name) /\ ports) \/ s.name \in assumed)'
    BY <1>1, ConfigNames, BuildingTakesNothingAway DEF Done, Ready
  <1>5. (s.do = "addBackend" =>
            (Ready(s.name) /\ Config.Group \in res[s.name].uses) \/ s.name \in assumed)'
    BY <1>1, ConfigNames, BuildingTakesNothingAway DEF Done, Ready
  <1> QED
    BY <1>2, <1>3, <1>4, <1>5 DEF Done

\* The end of the operation a setup waits for is what the step was there for.
LEMMA EndDoes ==
    ASSUME CloudInv, NEW o, End(o, TRUE), NEW s, SetupStep(s), o.do = s.do, o.name = s.name
    PROVE  Done(s)'
  <1>1. /\ o \in ops /\ End(o, TRUE) /\ TRUE \in BOOLEAN /\ Building
    BY EndEffect DEF Building
  <1>2. /\ s.do \in Changes => s.name \in Names
        /\ s.do = "setPorts" => s.name = Config.Group
        /\ s.do = "addBackend" => s.name = Config.BackendService
    BY SetupStepFields
  <1>3. (s.do = "insert" => Ready(s.name))'
    BY Additions DEF Ready
  <1>4. (s.do = "addInstance" => Ready(Config.ProviderVM) /\ Config.ProviderVM \in members)'
    BY <1>1, ConfigNames, Additions, BuildingTakesNothingAway DEF Ready
  <1>5. (s.do = "setPorts" => Ready(s.name) /\ ports)'
    BY <1>1, <1>2, ConfigNames, Additions, BuildingTakesNothingAway DEF Ready
  <1>6. (s.do = "addBackend" => Ready(s.name) /\ Config.Group \in res[s.name].uses)'
    BY <1>1, <1>2, ConfigNames, Additions, BuildingTakesNothingAway DEF Ready
  <1> QED
    BY <1>3, <1>4, <1>5, <1>6 DEF Done

LEMMA SetupKept ==
    ASSUME CloudInv, Building, assumed \subseteq assumed'
    PROVE  \A j \in 1..29 : Done(RunDemo[j]) => Done(RunDemo[j])'
  <1> SUFFICES ASSUME NEW j \in 1..29, Done(RunDemo[j]) PROVE Done(RunDemo[j])'
    OBVIOUS
  <1>1. PICK s : s = RunDemo[j]
    OBVIOUS
  <1>2. SetupStep(s) /\ Done(s)
    BY <1>1, SetupForms
  <1>3. Done(s)'
    BY <1>2, DoneStays
  <1> QED
    BY <1>1, <1>3

LEMMA SetupAdvances ==
    ASSUME BasicInv, SetupDone, run # NoRun, run.tool = "setup", Building,
           assumed \subseteq assumed', Advance, NEW s, s = Current, Done(s)'
    PROVE  SetupDone'
  <1>1. run.at \in 1..29 /\ s = RunDemo[run.at]
    BY CurrentStep DEF BasicInv
  <1>2. \A j \in 1..(run.at - 1) : j \in 1..29 /\ Done(RunDemo[j])
    BY <1>1 DEF SetupDone
  <1>3. \A j \in 1..run.at : Done(RunDemo[j])'
    <2> TAKE j \in 1..run.at
    <2>1. CASE j = run.at
      BY <1>1, <2>1
    <2>2. CASE j \in 1..(run.at - 1)
      BY <1>2, <2>2, SetupKept DEF BasicInv
    <2> QED
      BY <1>1, <2>1, <2>2
  <1>4. CASE run' = NoRun /\ verdict' = run.tool /\ run.at = 29
    BY <1>3, <1>4, NoRunFields DEF SetupDone
  <1>5. CASE /\ run'.at = run.at + 1 /\ verdict' = verdict
             /\ run'.pc \in {"check", "request", "look", "ready"}
    BY <1>1, <1>3, <1>5, CurrentStep DEF SetupDone, BasicInv
  <1> QED
    BY <1>4, <1>5, AdvanceMoves, ProgramLengths DEF BasicInv

LEMMA SetupStays ==
    ASSUME BasicInv, SetupDone, run.tool # "cleanup" => Building /\ assumed \subseteq assumed',
           run'.tool = run.tool, run'.at = run.at, verdict' = verdict, Current' = Current,
           run.tool = "setup" /\ (run'.pc = "readBack" \/ (run'.pc = "wait" /\ run'.op = "ok"))
               => Done(Current)'
    PROVE  SetupDone'
  <1>1. CASE run.tool = "setup"
    <2>1. run # NoRun
      BY <1>1, NoRunFields
    <2>2. run.at \in 1..29 /\ verdict = "none"
      BY <1>1, <2>1, CurrentStep DEF BasicInv
    <2>3. \A j \in 1..(run.at - 1) : j \in 1..29 /\ Done(RunDemo[j])
      BY <1>1, <2>2 DEF SetupDone
    <2>4. \A j \in 1..(run.at - 1) : Done(RunDemo[j])'
      BY <1>1, <2>3, SetupKept DEF BasicInv
    <2> QED
      BY <1>1, <2>2, <2>4 DEF SetupDone
  <1>2. CASE run.tool = "cleanup"
    <2>1. run # NoRun
      BY <1>2, NoRunFields
    <2>2. verdict = "none"
      BY <1>2, <2>1, CurrentStep DEF BasicInv
    <2> QED
      BY <1>2, <2>2 DEF SetupDone
  <1>3. CASE run = NoRun
    <2>1. run.tool = "none"
      BY <1>3, NoRunFields
    <2>2. verdict = "setup" => \A j \in 1..29 : Done(RunDemo[j])'
      BY <2>1, SetupKept DEF BasicInv, SetupDone
    <2> QED
      BY <2>1, <2>2 DEF SetupDone
  <1> QED
    BY <1>1, <1>2, <1>3, CurrentStep DEF BasicInv, Running

LEMMA SetupLeaves ==
    ASSUME run'.tool # "setup", verdict' # "setup"
    PROVE  SetupDone'
  BY DEF SetupDone

LEMMA LeavingFields ==
    ASSUME Leave("failed") \/ Leave("killed")
    PROVE  run' = NoRun /\ run'.tool = "none" /\ verdict' \in {"failed", "killed"}
  BY NoRunFields DEF Leave

\* A cleanup goes on whatever happens.
LEMMA CleanupMoves ==
    ASSUME TypeOK, RunFits, run.tool = "cleanup", Advance \/ Fail
    PROVE  /\ Advance /\ run' # run
           /\ run'.tool \in {"cleanup", "none"} /\ verdict' \in {"none", "cleanup"}
  <1>1. run # NoRun
    BY NoRunFields
  <1>2. Advance
    BY DEF Fail
  <1>3. run \in Running /\ verdict = "none"
    BY <1>1, CurrentStep
  <1>4. run'.at = run.at + 1 => run' # run
    BY <1>3 DEF Running
  <1> QED
    BY <1>1, <1>2, <1>3, <1>4, AdvanceMoves, NoRunFields

\* The tools at each point of a step.
LEMMA ToolAt ==
    ASSUME TypeOK, RunFits, run # NoRun
    PROVE  /\ run.tool \in {"setup", "cleanup"}
           /\ run.pc \in {"check", "readBack", "look", "ready"} => run.tool = "setup"
           /\ run.tool = "setup" /\ Fail => Leave("failed")
           /\ run.tool = "setup" => Current.do # "delete"
           /\ run.pc \in {"look", "ready"} => Done(Current) /\ Current.do = run.pc
  <1>1. run \in Running /\ (run.tool = "cleanup" => run.pc \in {"request", "wait"})
    BY CurrentStep
  <1>2. run.tool = "setup" => Current.do \in Changes \cup {"look", "ready"}
    BY CurrentStep, SetupStepFields
  <1> QED
    BY <1>1, <1>2 DEF Running, Fail, Done, RunFits, Changes

LEMMA CheckKeepsSetup == BasicInv /\ SetupDone /\ Check => SetupDone'
  <1> SUFFICES ASSUME BasicInv, SetupDone, Check PROVE SetupDone'
    OBVIOUS
  <1>1. /\ run # NoRun /\ run.pc = "check" /\ run.tool = "setup"
        /\ SetupStep(Current) /\ Looks(Current)
    BY NoRunFields, ToolAt, CurrentStep DEF Check, At, BasicInv, RunFits
  <1>2. UNCHANGED cloudVars /\ Building
    BY DEF Check, cloudVars, Building
  <1>3. CASE Fail
    BY <1>1, <1>3, ToolAt, LeavingFields, SetupLeaves DEF BasicInv
  <1>4. CASE Goto("request") /\ UNCHANGED assumed
    <2>1. Current.do \in Changes
      BY <1>1 DEF Looks, Changes
    <2>2. run'.tool = run.tool /\ run'.at = run.at /\ run'.pc = "request"
          /\ Current' = Current /\ verdict' = verdict
      BY <1>1, <1>4, <2>1, GotoFits, CurrentStep DEF BasicInv
    <2> QED
      BY <1>2, <1>4, <2>2, SetupStays
  <1>5. CASE /\ Advance /\ assumed' = assumed \cup ReliesOn(Current)
             /\ TRUE \in AlreadyThere(Current)
    <2>1. PICK s : s = Current
      OBVIOUS
    <2>2. res' = res /\ members' = members /\ ports' = ports
      BY <1>2 DEF cloudVars
    <2>3. /\ Ready(s.name) \/ s.name \in assumed'
          /\ s.do # "insert" => \A n \in s.uses : Ready(n) \/ n \in assumed'
      <3>1. assumed' = assumed \cup ReliesOn(s)
        BY <1>5, <2>1
      <3>2. CASE s.do = "insert"
        BY <3>1, <3>2 DEF ReliesOn
      <3>3. CASE s.do # "insert"
        BY <3>1, <3>3 DEF ReliesOn
      <3> QED
        BY <3>2, <3>3
    <2>4. SetupStep(s) /\ Looks(s) /\ TRUE \in AlreadyThere(s)
      BY <1>1, <1>5, <2>1
    <2>5. Done(s)'
      <3>1. CASE s.do = "insert"
        BY <2>2, <2>3, <3>1 DEF Done, Ready
      <3>2. CASE s.do = "addInstance"
        <4>1. Config.ProviderVM \in members /\ s.uses = {Config.ProviderVM}
          BY <2>4, <3>2, SetupStepFields DEF AlreadyThere
        <4> QED
          BY <2>2, <2>3, <3>2, <4>1 DEF Done, Ready
      <3>3. CASE s.do = "addBackend"
        <4>1. Config.Group \in res[s.name].uses
          BY <2>4, <3>3, SetupStepFields DEF AlreadyThere
        <4> QED
          BY <2>2, <2>3, <3>3, <4>1 DEF Done, Ready
      <3> QED
        BY <2>4, <3>1, <3>2, <3>3 DEF Looks
    <2> QED
      BY <1>1, <1>2, <1>5, <2>1, <2>5, SetupAdvances
  <1> QED
    BY <1>3, <1>4, <1>5 DEF Check

\* A cleanup says nothing of the setup's steps.
LEMMA CleanupSaysNothing ==
    ASSUME TypeOK, RunFits, run.tool = "cleanup", Advance \/ Fail
    PROVE  SetupDone'
  BY CleanupMoves, SetupLeaves

LEMMA RequestKeepsSetup == BasicInv /\ SetupDone /\ Request => SetupDone'
  <1> SUFFICES ASSUME BasicInv, SetupDone, Request PROVE SetupDone'
    OBVIOUS
  <1>1. /\ run # NoRun /\ run.pc = "request" /\ run.tool \in {"setup", "cleanup"}
        /\ ChangeStep(Current) /\ (run.tool = "setup" => Current.do # "delete")
    BY NoRunFields, ToolAt, CurrentStep DEF Request, At, BasicInv, RunFits
  <1>2. CASE Fail
    <2>1. CASE run.tool = "setup"
      BY <1>1, <1>2, <2>1, ToolAt, LeavingFields, SetupLeaves DEF BasicInv
    <2>2. CASE run.tool = "cleanup"
      BY <1>2, <2>2, CleanupSaysNothing DEF BasicInv
    <2> QED
      BY <1>1, <2>1, <2>2
  <1>3. CASE /\ Begin(Current, TRUE) /\ run' = [run EXCEPT !.pc = "wait", !.op = "running"]
             /\ UNCHANGED <<verdict, assumed>>
    <2>1. run.tool # "cleanup" => Building /\ assumed \subseteq assumed'
      BY <1>1, <1>3 DEF Building
    <2>2. /\ run'.tool = run.tool /\ run'.at = run.at /\ run'.pc = "wait"
          /\ run'.op = "running" /\ Current' = Current
      BY <1>1, <1>3, WaitFits DEF At
    <2> QED
      BY <1>3, <2>1, <2>2, SetupStays
  <1> QED
    BY <1>2, <1>3 DEF Request

LEMMA PollKeepsSetup == BasicInv /\ SetupDone /\ Poll => SetupDone'
  <1> SUFFICES ASSUME BasicInv, SetupDone, Poll PROVE SetupDone'
    OBVIOUS
  <1>1. /\ run # NoRun /\ run.pc = "wait" /\ run \in Running /\ run.op # "none"
        /\ run.tool \in {"setup", "cleanup"} /\ SeesOperation
    BY NoRunFields, ToolAt, CurrentStep DEF Poll, At, BasicInv, RunFits
  <1>2. assumed' = assumed /\ UNCHANGED <<res, members, ports>>
    BY DEF Poll
  <1>3. CASE run.tool = "cleanup"
    <2>1. Advance \/ Fail
      BY <1>1, <1>3, CurrentStep DEF Poll, AfterWait, BasicInv
    <2> QED
      BY <1>3, <2>1, CleanupSaysNothing DEF BasicInv
  <1>4. CASE run.tool = "setup" /\ Fail
    BY <1>1, <1>4, ToolAt, LeavingFields, SetupLeaves DEF BasicInv
  <1>5. CASE run.tool = "setup" /\ run.op = "ok" /\ AfterWait
    <2>1. PICK s : s = Current
      OBVIOUS
    <2>2. Done(s)'
      BY <1>1, <1>2, <1>5, <2>1 DEF SetupDone, Done, Ready
    <2>3. CASE Advance
      BY <1>1, <1>2, <1>5, <2>1, <2>2, <2>3, SetupAdvances DEF Building
    <2>4. CASE Goto("readBack") /\ Current.kind = "forwarding-rule"
      <3>1. Current.do = "insert"
        BY <1>1, <1>5, <2>4, CurrentStep, SetupStepFields DEF BasicInv, RunFits, Changes
      <3>2. /\ run'.tool = run.tool /\ run'.at = run.at /\ Current' = Current
            /\ verdict' = verdict
        BY <1>1, <2>4, <3>1, GotoFits, CurrentStep DEF BasicInv
      <3>3. Done(Current)'
        BY <2>1, <2>2, <3>2 DEF Done, Ready
      <3> QED
        BY <1>2, <3>2, <3>3, SetupStays DEF Building
    <2> QED
      BY <1>5, <2>3, <2>4 DEF AfterWait
  <1>6. run.op \in {"running", "ok", "error"}
    BY <1>1 DEF Running
  <1>7. Fail \/ (run.op = "ok" /\ AfterWait)
    BY <1>1, <1>6 DEF Poll, Finished
  <1> QED
    BY <1>1, <1>3, <1>4, <1>5, <1>7

LEMMA LookingKeepsSetup == BasicInv /\ SetupDone /\ (ReadBack \/ Look \/ VMsReady) => SetupDone'
  <1> SUFFICES ASSUME BasicInv, SetupDone, ReadBack \/ Look \/ VMsReady PROVE SetupDone'
    OBVIOUS
  <1>1. /\ run # NoRun /\ run.pc \in {"readBack", "look", "ready"} /\ run.tool = "setup"
    BY NoRunFields, ToolAt DEF ReadBack, Look, VMsReady, At, BasicInv
  <1>2. /\ assumed' = assumed /\ UNCHANGED <<res, members, ports>> /\ (Advance \/ Fail)
    BY DEF ReadBack, Look, VMsReady, cloudVars
  <1>3. CASE Fail
    BY <1>1, <1>3, ToolAt, LeavingFields, SetupLeaves DEF BasicInv
  <1>4. CASE Advance
    <2>1. PICK s : s = Current
      OBVIOUS
    <2>2. Done(s)
      BY <1>1, <2>1, ToolAt DEF BasicInv, SetupDone
    <2>3. Done(s)'
      BY <1>2, <2>2 DEF Done, Ready
    <2> QED
      BY <1>1, <1>2, <1>4, <2>1, <2>3, SetupAdvances DEF Building
  <1> QED
    BY <1>2, <1>3, <1>4

LEMMA EndsKeepsSetup == BasicInv /\ SetupDone /\ SomeOperationEnds => SetupDone'
  <1> SUFFICES ASSUME BasicInv, SetupDone, NEW o \in ops, OperationEnds(o) PROVE SetupDone'
    BY DEF SomeOperationEnds
  <1>1. PICK ok \in BOOLEAN :
            /\ End(o, ok)
            /\ run' = IF o.mine THEN [run EXCEPT !.op = IF ok THEN "ok" ELSE "error"] ELSE run
    BY DEF OperationEnds
  <1>2. UNCHANGED <<verdict, assumed>> /\ Building
    BY <1>1 DEF OperationEnds, Building
  <1>3. /\ run'.tool = run.tool /\ run'.at = run.at /\ run'.pc = run.pc /\ Current' = Current
        /\ o.mine => /\ run.pc = "wait" /\ o = Operation(Current, TRUE)
                     /\ run'.op = IF ok THEN "ok" ELSE "error"
        /\ ~o.mine => run' = run
    BY <1>1, <1>2, OperationEndsMoves
  <1>4. ASSUME run.tool = "setup",
               run'.pc = "readBack" \/ (run'.pc = "wait" /\ run'.op = "ok")
        PROVE  Done(Current)'
    <2>1. PICK s : s = Current
      OBVIOUS
    <2>2. run # NoRun /\ SetupStep(s)
      BY <1>4, <2>1, NoRunFields, CurrentStep DEF BasicInv
    <2>3. Done(s)'
      <3>1. CASE o.mine
        <4>1. ok = TRUE
          BY <1>1, <1>3, <1>4, <3>1
        <4>2. o.do = s.do /\ o.name = s.name
          BY <1>3, <2>1, <3>1, OperationFields
        <4> QED
          BY <1>1, <2>2, <4>1, <4>2, EndDoes DEF BasicInv
      <3>2. CASE ~o.mine
        <4>1. Done(s)
          BY <1>3, <1>4, <2>1, <3>2 DEF SetupDone
        <4> QED
          BY <1>2, <2>2, <4>1, DoneStays DEF BasicInv
      <3> QED
        BY <3>1, <3>2
    <2> QED
      BY <1>3, <2>1, <2>3 DEF Done, Ready
  <1> QED
    BY <1>2, <1>3, <1>4, SetupStays

LEMMA OthersKeepSetup ==
    ASSUME BasicInv, SetupDone,
           Kill \/ Start("setup") \/ Start("cleanup") \/ Boot \/ UNCHANGED vars
    PROVE  SetupDone'
  <1>1. CASE Kill
    BY <1>1, LeavingFields, SetupLeaves DEF Kill
  <1>2. ASSUME NEW tool \in {"setup", "cleanup"}, Start(tool) PROVE SetupDone'
    <2>1. /\ run'.at = 1 /\ run'.pc \in {"check", "request", "look", "ready"}
      BY <1>2, StartKeepsBasic
    <2>2. verdict' = "none"
      BY <1>2 DEF Start
    <2> QED
      BY <2>1, <2>2 DEF SetupDone
  <1>3. CASE Boot \/ UNCHANGED vars
    <2>1. UNCHANGED <<run, verdict, assumed, res, members, ports>>
      BY <1>3 DEF Boot, BootsFurther, vars, cloudVars, toolVars
    <2>2. Current' = Current
      BY <2>1 DEF Current, Program
    <2> QED
      BY <2>1, <2>2 DEF SetupDone, Done, Ready
  <1> QED
    BY <1>1, <1>2, <1>3

LEMMA SetupStepKept == BasicInv /\ SetupDone /\ [Next]_vars => SetupDone'
  BY CheckKeepsSetup, RequestKeepsSetup, PollKeepsSetup, LookingKeepsSetup, EndsKeepsSetup,
     OthersKeepSetup DEF Next, Tool

\* A setup that says it succeeded leaves every resource ready, the VM in the group with
\* its ports set and the group behind the service, but for what it found in the middle
\* of a change; whatever earlier runs and their pending operations did before and do on.
THEOREM SuccessIsWired == Spec => []SuccessIsComplete
  <1>1. Init => SetupDone
    BY NoRunFields DEF Init, SetupDone
  <1>2. ASSUME SetupDone, verdict = "setup", NEW n \in Names, n \notin assumed
        PROVE  Complete(n)
    <2>1. \A j \in 1..29 : Done(RunDemo[j])
      BY <1>2 DEF SetupDone
    <2>2. Ready(n)
      <3>1. PICK j \in 1..29 : RunDemo[j].do = "insert" /\ RunDemo[j].name = n
        BY EveryNameIsCreated DEF CreatedBefore
      <3> QED
        BY <1>2, <2>1, <3>1 DEF Done
    <2>3. n = Config.Group => ports /\ Config.ProviderVM \in members \cup assumed
      <3>1. /\ RunDemo[21].do = "addInstance"
            /\ RunDemo[22].do = "setPorts" /\ RunDemo[22].name = Config.Group
        BY DemoSteps, StepFields
      <3>2. Done(RunDemo[21]) /\ Done(RunDemo[22])
        BY <2>1
      <3> QED
        BY <1>2, <3>1, <3>2 DEF Done
    <2>4. n = Config.BackendService => Config.Group \in res[n].uses
      <3>1. RunDemo[24].do = "addBackend" /\ RunDemo[24].name = Config.BackendService
        BY DemoSteps, StepFields
      <3>2. Done(RunDemo[24])
        BY <2>1
      <3> QED
        BY <1>2, <3>1, <3>2 DEF Done
    <2> QED
      BY <2>2, <2>3, <2>4 DEF Complete
  <1>3. SetupDone => SuccessIsComplete
    BY <1>2 DEF SuccessIsComplete
  <1> QED
    BY <1>1, <1>3, BasicInit, BasicStep, SetupStepKept, PTL DEF Spec

-----------------------------------------------------------------------------
(***************************************************************************)
(* A setup that began with nothing under way and met no failure.           *)
(***************************************************************************)
LEMMA NothingUnderWay ==
    ASSUME CloudInv, ops = {}
    PROVE  \A n \in Names : res[n] = Absent \/ Ready(n)
  BY DEF CloudInv, ChangesEnd

LEMMA CleanNow ==
    ASSUME BasicInv, SetupDone, CleanSetup, clean, run.tool = "setup"
    PROVE  /\ run # NoRun /\ SetupStep(Current) /\ assumed = {} /\ run.op # "error"
           /\ \A o \in ops : o.mine
           /\ \A u \in Current.uses : Ready(u)
           /\ Current.do \in Changes \ {"insert"} => Ready(Current.name)
           /\ ~(run.pc = "wait" /\ run.op = "running") =>
                 ops = {} /\ \A n \in Names : res[n] = Absent \/ Ready(n)
  <1>1. run # NoRun
    BY NoRunFields
  <1>2. run.at \in 1..29 /\ Current = RunDemo[run.at] /\ SetupStep(Current)
    BY <1>1, CurrentStep DEF BasicInv
  <1>3. assumed = {} /\ run.op # "error" /\ \A o \in ops : o.mine
    BY DEF CleanSetup
  <1>4. ASSUME NEW n, CreatedBefore(run.at, n) PROVE Ready(n)
    <2>1. PICK j \in 1..(run.at - 1) : RunDemo[j].do = "insert" /\ RunDemo[j].name = n
      BY <1>4 DEF CreatedBefore
    <2> QED
      BY <1>3, <2>1 DEF SetupDone, Done
  <1>5. /\ \A u \in RunDemo[run.at].uses : CreatedBefore(run.at, u)
        /\ RunDemo[run.at].do \in Changes \ {"insert"} =>
              CreatedBefore(run.at, RunDemo[run.at].name)
    BY <1>2, UsesAreCreated
  <1>6. ~(run.pc = "wait" /\ run.op = "running") => ops = {}
    BY <1>3, NobodyWaits DEF BasicInv
  <1> QED
    BY <1>1, <1>2, <1>3, <1>4, <1>5, <1>6, NothingUnderWay DEF BasicInv

LEMMA CleanAdvances ==
    ASSUME BasicInv, run # NoRun, run.tool = "setup", Advance,
           \A o \in ops' : o.mine, assumed' = {}
    PROVE  CleanSetup' /\ RerunSucceeds'
  <1>1. verdict = "none"
    BY CurrentStep DEF BasicInv
  <1>2. CASE run' = NoRun /\ verdict' = run.tool
    BY <1>2, NoRunFields DEF CleanSetup, RerunSucceeds
  <1>3. CASE /\ run'.op = "none" /\ verdict' = verdict
             /\ run'.pc \in {"check", "request", "look", "ready"}
             /\ run'.pc = "request" => Current'.do \in {"setPorts", "delete"}
    BY <1>1, <1>3 DEF CleanSetup, RerunSucceeds
  <1> QED
    BY <1>2, <1>3, AdvanceMoves DEF BasicInv

LEMMA NotClean ==
    ASSUME ~clean'
    PROVE  CleanSetup' /\ RerunSucceeds'
  BY DEF CleanSetup, RerunSucceeds

\* A cleanup never fails, and says nothing of a setup.
LEMMA CleanupIsNoSetup ==
    ASSUME TypeOK, RunFits, run.tool = "cleanup", Advance \/ Fail
    PROVE  CleanSetup' /\ RerunSucceeds'
  <1>1. run'.tool \in {"cleanup", "none"} /\ verdict' \in {"none", "cleanup"}
    BY CleanupMoves
  <1> QED
    BY <1>1 DEF CleanSetup, RerunSucceeds

CleanInv == SetupDone /\ CleanSetup /\ RerunSucceeds

LEMMA CheckKeepsClean == BasicInv /\ CleanInv /\ Check => CleanSetup' /\ RerunSucceeds'
  <1> SUFFICES ASSUME BasicInv, CleanInv, Check, clean' PROVE CleanSetup' /\ RerunSucceeds'
    BY NotClean
  <1>1. clean /\ ~Fault
    BY DEF Check, Fault, NoFault
  <1>2. /\ run # NoRun /\ run.pc = "check" /\ run.tool = "setup" /\ Looks(Current)
    BY NoRunFields, ToolAt DEF Check, At, BasicInv, RunFits
  <1>3. /\ SetupStep(Current) /\ assumed = {} /\ ops = {} /\ run.op # "error"
        /\ \A u \in Current.uses : Ready(u)
        /\ Current.do \in Changes \ {"insert"} => Ready(Current.name)
        /\ \A n \in Names : res[n] = Absent \/ Ready(n)
    BY <1>1, <1>2, CleanNow DEF CleanInv
  <1>4. Current.do \in Changes /\ Current.name \in Names
    BY <1>2, <1>3, SetupStepFields DEF Looks, Changes
  <1>5. UNCHANGED <<res, members, ports, ops>>
    BY DEF Check, cloudVars
  <1>6. ~(Current.do # "insert" /\ res[Current.name] = Absent)
    BY <1>3, <1>4, ResourceChanges DEF Ready
  <1>7. CASE /\ Advance /\ assumed' = assumed \cup ReliesOn(Current)
             /\ TRUE \in AlreadyThere(Current)
    <2>1. Ready(Current.name)
      <3>1. CASE Current.do = "insert"
        <4>1. TRUE \in Found(Current.name)
          BY <1>7, <3>1 DEF AlreadyThere
        <4>2. res[Current.name] # Absent
          BY <4>1 DEF Found
        <4> QED
          BY <1>3, <1>4, <4>2
      <3>2. CASE Current.do # "insert"
        BY <1>3, <1>4, <3>2
      <3> QED
        BY <3>1, <3>2
    <2>2. ReliesOn(Current) = {}
      <3>1. CASE Current.do = "insert"
        BY <2>1, <3>1 DEF ReliesOn
      <3>2. CASE Current.do # "insert"
        BY <1>3, <2>1, <3>2 DEF ReliesOn
      <3> QED
        BY <3>1, <3>2
    <2> QED
      BY <1>2, <1>3, <1>5, <1>7, <2>2, CleanAdvances
  <1>8. CASE Goto("request") /\ UNCHANGED assumed /\ FALSE \in AlreadyThere(Current)
    <2>1. /\ run'.tool = "setup" /\ run'.pc = "request" /\ run'.op = run.op
          /\ Current' = Current /\ verdict' = "none"
      BY <1>2, <1>4, <1>8, GotoFits DEF BasicInv
    <2>2. Current.do = "insert" => res[Current.name] = Absent
      <3> SUFFICES ASSUME Current.do = "insert" PROVE res[Current.name] = Absent
        OBVIOUS
      <3>1. FALSE \in Found(Current.name)
        BY <1>8 DEF AlreadyThere
      <3>2. res[Current.name] = Absent \/ res[Current.name].state = "creating"
        BY <3>1 DEF Found
      <3> QED
        BY <1>3, <1>4, <3>2 DEF Ready
    <2>3. Current.do = "addBackend" => Config.Group \notin res[Current.name].uses
      BY <1>3, <1>8, SetupStepFields DEF AlreadyThere
    <2>4. Current.do = "addInstance" => Config.ProviderVM \notin members
      BY <1>3, <1>8, SetupStepFields DEF AlreadyThere
    <2> QED
      BY <1>3, <1>5, <1>8, <2>1, <2>2, <2>3, <2>4 DEF CleanSetup, RerunSucceeds
  <1>9. AlreadyThere(Current) \subseteq BOOLEAN
    BY DEF AlreadyThere, Found
  <1>10. PICK there \in AlreadyThere(Current) :
             IF there THEN Advance /\ assumed' = assumed \cup ReliesOn(Current)
             ELSE Goto("request") /\ UNCHANGED assumed
    BY <1>1, <1>6 DEF Check
  <1>11. there \in BOOLEAN
    BY <1>9
  <1> QED
    BY <1>7, <1>8, <1>10, <1>11

LEMMA RequestKeepsClean == BasicInv /\ CleanInv /\ Request => CleanSetup' /\ RerunSucceeds'
  <1> SUFFICES ASSUME BasicInv, CleanInv, Request, clean' PROVE CleanSetup' /\ RerunSucceeds'
    BY NotClean
  <1>1. clean /\ ~Fault /\ assumed' = assumed
    BY DEF Request, Fault, NoFault
  <1>2. /\ run # NoRun /\ run.pc = "request" /\ run.tool \in {"setup", "cleanup"}
        /\ verdict = "none" /\ Current.do \in Changes \cup {"delete"}
    BY NoRunFields, ToolAt, CurrentStep DEF Request, At, BasicInv, RunFits
  <1>3. CASE run.tool = "setup"
    <2>1. /\ SetupStep(Current) /\ assumed = {} /\ ops = {}
          /\ \A u \in Current.uses : Ready(u)
          /\ Current.do \in Changes \ {"insert"} => Ready(Current.name)
      BY <1>1, <1>2, <1>3, CleanNow DEF CleanInv
    <2>2. /\ Current.do = "insert" => res[Current.name] = Absent
          /\ Current.do = "addBackend" => Config.Group \notin res[Current.name].uses
          /\ Current.do = "addInstance" => Config.ProviderVM \notin members
      BY <1>1, <1>2, <1>3 DEF CleanInv, CleanSetup
    <2>3. Current.do \in Changes
      BY <1>2, <1>3, ToolAt DEF BasicInv
    <2>4. Accepts(Current)
      <3>1. CASE Current.do = "insert"
        BY <2>1, <2>2, <3>1 DEF Accepts
      <3>2. CASE Current.do \in {"addInstance", "setPorts"}
        BY <2>1, <3>2 DEF Accepts, Changes
      <3>3. CASE Current.do = "addBackend"
        <4>1. Current.uses = {Config.Group}
          BY <2>1, <3>3, SetupStepFields
        <4> QED
          BY <2>1, <2>2, <3>3, <4>1 DEF Accepts, Changes
      <3> QED
        BY <2>3, <3>1, <3>2, <3>3 DEF Changes
    <2>5. Begin(Current, TRUE) /\ run' = [run EXCEPT !.pc = "wait", !.op = "running"]
          /\ UNCHANGED verdict
      BY <1>1, <2>4 DEF Request
    <2>6. run'.pc = "wait" /\ run'.op = "running" /\ Current' = Current
      BY <1>2, <2>5, WaitFits DEF At
    <2>7. \A o \in ops' : o.mine
      BY <2>1, <2>5, OperationFields DEF Begin
    <2>8. members' = members
      BY <2>5 DEF Begin
    <2> QED
      BY <1>1, <1>2, <2>1, <2>2, <2>5, <2>6, <2>7, <2>8 DEF CleanSetup, RerunSucceeds
  <1>4. CASE run.tool = "cleanup"
    <2>1. CASE Fail
      BY <1>4, <2>1, CleanupIsNoSetup DEF BasicInv
    <2>2. CASE run' = [run EXCEPT !.pc = "wait", !.op = "running"] /\ UNCHANGED verdict
      <3>1. run'.tool = "cleanup"
        BY <1>2, <1>4, <2>2, WaitFits DEF At
      <3> QED
        BY <1>2, <2>2, <3>1 DEF CleanSetup, RerunSucceeds
    <2> QED
      BY <2>1, <2>2 DEF Request
  <1> QED
    BY <1>2, <1>3, <1>4

LEMMA PollKeepsClean == BasicInv /\ CleanInv /\ Poll => CleanSetup' /\ RerunSucceeds'
  <1> SUFFICES ASSUME BasicInv, CleanInv, Poll, clean' PROVE CleanSetup' /\ RerunSucceeds'
    BY NotClean
  <1>1. clean /\ ~Fault /\ assumed' = assumed /\ ops' = Orphaned(ops)
    BY DEF Poll, Fault, NoFault
  <1>2. /\ run # NoRun /\ run.pc = "wait" /\ run.tool \in {"setup", "cleanup"}
        /\ verdict = "none" /\ SeesOperation /\ Current.do \in Changes \cup {"delete"}
    BY NoRunFields, ToolAt, CurrentStep DEF Poll, At, BasicInv, RunFits
  <1>3. run.op # "running" /\ (IF run.op = "error" THEN Fail ELSE AfterWait)
    BY <1>1, <1>2 DEF Poll, Finished
  <1>4. CASE run.tool = "setup"
    <2>1. SetupStep(Current) /\ assumed = {} /\ ops = {} /\ run.op # "error"
      BY <1>1, <1>2, <1>3, <1>4, CleanNow DEF CleanInv
    <2>2. ops' = {}
      BY <1>1, <2>1 DEF Orphaned
    <2>3. CASE Advance
      BY <1>1, <1>2, <1>4, <2>1, <2>2, <2>3, CleanAdvances
    <2>4. CASE Goto("readBack") /\ Current.kind = "forwarding-rule"
      <3>1. Current.do = "insert"
        BY <1>2, <1>4, <2>1, <2>4, ToolAt, SetupStepFields DEF BasicInv
      <3>2. run'.pc = "readBack" /\ run'.op = run.op /\ verdict' = "none"
        BY <1>2, <2>4, <3>1, GotoFits DEF BasicInv
      <3> QED
        BY <1>1, <2>1, <2>2, <3>2 DEF CleanSetup, RerunSucceeds
    <2> QED
      BY <1>3, <2>1, <2>3, <2>4 DEF AfterWait
  <1>5. CASE run.tool = "cleanup"
    <2>1. Current.kind = ""
      BY <1>2, <1>5, CurrentStep DEF BasicInv
    <2>2. Advance \/ Fail
      BY <1>3, <2>1 DEF AfterWait
    <2> QED
      BY <1>5, <2>2, CleanupIsNoSetup DEF BasicInv
  <1> QED
    BY <1>2, <1>4, <1>5

LEMMA LookingKeepsClean ==
    BasicInv /\ CleanInv /\ (ReadBack \/ Look \/ VMsReady) => CleanSetup' /\ RerunSucceeds'
  <1> SUFFICES ASSUME BasicInv, CleanInv, ReadBack \/ Look \/ VMsReady, clean'
               PROVE  CleanSetup' /\ RerunSucceeds'
    BY NotClean
  <1>1. clean /\ ~Fault /\ assumed' = assumed /\ ops' = ops
    BY DEF ReadBack, Look, VMsReady, Fault, NoFault, cloudVars
  <1>2. /\ run # NoRun /\ run.pc \in {"readBack", "look", "ready"} /\ run.tool = "setup"
    BY NoRunFields, ToolAt DEF ReadBack, Look, VMsReady, At, BasicInv
  <1>3. assumed = {} /\ ops = {} /\ \A u \in Current.uses : Ready(u)
    BY <1>1, <1>2, CleanNow DEF CleanInv
  <1>4. ~ \E n \in Current.uses : FALSE \in Found(n)
    <2> SUFFICES ASSUME NEW n \in Current.uses PROVE FALSE \notin Found(n)
      OBVIOUS
    <2>1. res[n].state = "ready" /\ res[n] # Absent
      BY <1>3, ResourceChanges DEF Ready
    <2> QED
      BY <2>1 DEF Found
  <1>5. Advance
    BY <1>1, <1>4 DEF ReadBack, Look, VMsReady
  <1> QED
    BY <1>1, <1>2, <1>3, <1>5, CleanAdvances

LEMMA EndsKeepsClean ==
    BasicInv /\ CleanInv /\ SomeOperationEnds => CleanSetup' /\ RerunSucceeds'
  <1> SUFFICES ASSUME BasicInv, CleanInv, NEW o \in ops, OperationEnds(o), clean'
               PROVE  CleanSetup' /\ RerunSucceeds'
    BY NotClean DEF SomeOperationEnds
  <1>1. PICK ok \in BOOLEAN :
            /\ End(o, ok)
            /\ IF ok THEN NoFault ELSE IF Hopeless(o) THEN NoFault ELSE Fault
            /\ run' = IF o.mine THEN [run EXCEPT !.op = IF ok THEN "ok" ELSE "error"] ELSE run
    BY DEF OperationEnds
  <1>2. /\ clean /\ ~Fault /\ assumed' = assumed /\ verdict' = verdict
        /\ ops' = ops \ {o} /\ (ok \/ Hopeless(o))
    BY <1>1 DEF OperationEnds, Fault, NoFault, End
  <1>3. /\ run'.tool = run.tool /\ run'.at = run.at /\ run'.pc = run.pc /\ Current' = Current
        /\ o.mine => /\ run.pc = "wait" /\ o = Operation(Current, TRUE)
                     /\ run'.op = IF ok THEN "ok" ELSE "error"
    BY <1>1, <1>2, OperationEndsMoves
  <1>4. RerunSucceeds'
    BY <1>2 DEF CleanInv, RerunSucceeds
  <1>5. CASE run.tool = "setup"
    <2>1. /\ SetupStep(Current) /\ assumed = {} /\ \A p \in ops : p.mine
          /\ \A u \in Current.uses : Ready(u)
          /\ Current.do \in Changes \ {"insert"} => Ready(Current.name)
      BY <1>2, <1>5, CleanNow DEF CleanInv
    <2>2. run.pc = "wait" /\ o.do = Current.do /\ o.name = Current.name /\ run.op = "running"
      BY <1>3, <2>1, OperationFields DEF BasicInv, OwnOperation
    <2>3. Current.do = "addInstance" => Config.ProviderVM \notin members
      BY <1>2, <1>5, <2>2 DEF CleanInv, CleanSetup
    <2>4. ~Hopeless(o)
      <3>1. Current.do \in {"addInstance", "setPorts"} => Ready(o.name)
        BY <2>1, <2>2 DEF Changes
      <3>2. Current.do = "addInstance" => Ready(Config.ProviderVM)
        BY <2>1, SetupStepFields
      <3>3. Current.do = "addBackend" => Ready(o.name) /\ Ready(Config.Group)
        BY <2>1, <2>2, SetupStepFields DEF Changes
      <3> QED
        BY <2>2, <2>3, <3>1, <3>2, <3>3 DEF Hopeless
    <2>5. run'.op = "ok"
      BY <1>2, <1>3, <2>1, <2>4
    <2> QED
      BY <1>2, <1>3, <1>4, <2>1, <2>2, <2>5 DEF CleanSetup
  <1>6. CASE run.tool # "setup"
    BY <1>3, <1>4, <1>6 DEF CleanSetup
  <1> QED
    BY <1>5, <1>6

LEMMA OthersKeepClean ==
    ASSUME BasicInv, CleanInv,
           Kill \/ Start("setup") \/ Start("cleanup") \/ Boot \/ UNCHANGED vars
    PROVE  CleanSetup' /\ RerunSucceeds'
  <1>1. CASE Kill
    BY <1>1, NotClean DEF Kill, Fault
  <1>2. CASE Start("setup")
    <2>1. /\ run'.op = "none" /\ run'.pc = EntryPoint(RunDemo[1])
      BY <1>2, StartKeepsBasic, ProgramLengths
    <2>2. RunDemo[1].do = "insert"
      BY DemoSteps DEF CreateVPC, Step
    <2>3. run'.pc = "check"
      BY <2>1, <2>2, EntryPoints DEF Changes
    <2>4. verdict' = "none" /\ assumed' = {} /\ clean' = (ops = {}) /\ ops' = ops
      BY <1>2 DEF Start, cloudVars
    <2> QED
      BY <2>1, <2>3, <2>4 DEF CleanSetup, RerunSucceeds
  <1>3. CASE Start("cleanup")
    <2>1. run'.tool = "cleanup" /\ verdict' = "none"
      BY <1>3, StartKeepsBasic DEF Start
    <2> QED
      BY <2>1 DEF CleanSetup, RerunSucceeds
  <1>4. CASE Boot \/ UNCHANGED vars
    <2>1. UNCHANGED <<run, verdict, clean, assumed, res, members, ports, ops>>
      BY <1>4 DEF Boot, BootsFurther, vars, cloudVars, toolVars
    <2>2. Current' = Current
      BY <2>1 DEF Current, Program
    <2> QED
      BY <2>1, <2>2 DEF CleanInv, CleanSetup, RerunSucceeds
  <1> QED
    BY <1>1, <1>2, <1>3, <1>4

LEMMA CleanStep == BasicInv /\ CleanInv /\ [Next]_vars => CleanInv'
  <1>1. BasicInv /\ CleanInv /\ [Next]_vars => CleanSetup' /\ RerunSucceeds'
    BY CheckKeepsClean, RequestKeepsClean, PollKeepsClean, LookingKeepsClean, EndsKeepsClean,
       OthersKeepClean DEF Next, Tool
  <1> QED
    BY <1>1, SetupStepKept DEF CleanInv

\* A setup that starts when no operation is under way and meets no failure of its own
\* does not fail, whatever killed or failed runs before it left behind.
THEOREM RerunsSucceed == Spec => []RerunSucceeds
  <1>1. Init => CleanInv
    BY NoRunFields DEF Init, CleanInv, SetupDone, CleanSetup, RerunSucceeds
  <1>2. CleanInv => RerunSucceeds
    BY DEF CleanInv
  <1> QED
    BY <1>1, <1>2, BasicInit, BasicStep, CleanStep, PTL DEF Spec

-----------------------------------------------------------------------------
(***************************************************************************)
(* The order of the cleanup.                                               *)
(***************************************************************************)
\* A step of the cleanup before q deletes n.
DeletedBefore(q, n) == \E p \in 1..(q - 1) : RunCleanup[p].name = n

LEMMA Deletions ==
    /\ \A q \in 2..22 : DeletedBefore(q, Config.PSCForwardingRule)
    /\ \A q \in 3..22 : DeletedBefore(q, Config.PSCAddress)
    /\ \A q \in 4..22 : DeletedBefore(q, Config.ServiceAttachment)
    /\ \A q \in 5..22 : DeletedBefore(q, Config.ForwardingRule)
    /\ \A q \in 6..22 : DeletedBefore(q, Config.BackendService)
    /\ \A q \in 7..22 : DeletedBefore(q, Config.Group)
    /\ \A q \in 9..22 : DeletedBefore(q, Config.ProviderVM)
    /\ \A q \in 10..22 : DeletedBefore(q, Config.ConsumerVM)
    /\ \A q \in 18..22 : /\ DeletedBefore(q, "hypershift-redhat-allow-health-checks")
                         /\ DeletedBefore(q, "hypershift-redhat-allow-http")
                         /\ DeletedBefore(q, "hypershift-redhat-allow-ssh")
                         /\ DeletedBefore(q, "hypershift-redhat-allow-egress")
                         /\ DeletedBefore(q, "hypershift-redhat-allow-psc-nat")
                         /\ DeletedBefore(q, "hypershift-customer-allow-internal")
                         /\ DeletedBefore(q, "hypershift-customer-allow-ssh")
                         /\ DeletedBefore(q, "hypershift-customer-allow-egress")
    /\ \A q \in 19..22 : DeletedBefore(q, Config.ProviderSubnet)
    /\ \A q \in 20..22 : DeletedBefore(q, Config.PSCNATSubnet)
    /\ \A q \in 21..22 : DeletedBefore(q, Config.ConsumerSubnet)
  <1> DEFINE Deletes(p, n) == RunCleanup[p].name = n
  <1>1. ASSUME NEW p \in 1..22, NEW n, Deletes(p, n)
        PROVE  \A q \in (p + 1)..22 : DeletedBefore(q, n)
    BY <1>1 DEF DeletedBefore
  <1>2. /\ Deletes(1, Config.PSCForwardingRule) /\ Deletes(2, Config.PSCAddress)
        /\ Deletes(3, Config.ServiceAttachment) /\ Deletes(4, Config.ForwardingRule)
        /\ Deletes(5, Config.BackendService) /\ Deletes(6, Config.Group)
        /\ Deletes(8, Config.ProviderVM) /\ Deletes(9, Config.ConsumerVM)
        /\ Deletes(10, "hypershift-redhat-allow-health-checks")
        /\ Deletes(11, "hypershift-redhat-allow-http")
        /\ Deletes(12, "hypershift-redhat-allow-ssh")
        /\ Deletes(13, "hypershift-redhat-allow-egress")
        /\ Deletes(14, "hypershift-redhat-allow-psc-nat")
        /\ Deletes(15, "hypershift-customer-allow-internal")
        /\ Deletes(16, "hypershift-customer-allow-ssh")
        /\ Deletes(17, "hypershift-customer-allow-egress")
        /\ Deletes(18, Config.ProviderSubnet) /\ Deletes(19, Config.PSCNATSubnet)
        /\ Deletes(20, Config.ConsumerSubnet)
    BY CleanupNames, DeleteFields
  <1> HIDE DEF Deletes
  <1> QED
    BY <1>1, <1>2

\* Where the resources others refer to are deleted.
LEMMA CleanupStrings ==
    /\ RunCleanup[1].name = "customer-psc-forwarding-rule"
    /\ RunCleanup[2].name = "customer-psc-endpoint-ip"
    /\ RunCleanup[3].name = "redhat-service-attachment"
    /\ RunCleanup[4].name = "redhat-forwarding-rule"
    /\ RunCleanup[5].name = "redhat-backend-service"
    /\ RunCleanup[6].name = "redhat-service-group"
    /\ RunCleanup[7].name = "redhat-service-health-check"
    /\ RunCleanup[8].name = "redhat-service-vm"
    /\ RunCleanup[9].name = "customer-client-vm"
    /\ RunCleanup[10].name = "hypershift-redhat-allow-health-checks"
    /\ RunCleanup[11].name = "hypershift-redhat-allow-http"
    /\ RunCleanup[12].name = "hypershift-redhat-allow-ssh"
    /\ RunCleanup[13].name = "hypershift-redhat-allow-egress"
    /\ RunCleanup[14].name = "hypershift-redhat-allow-psc-nat"
    /\ RunCleanup[15].name = "hypershift-customer-allow-internal"
    /\ RunCleanup[16].name = "hypershift-customer-allow-ssh"
    /\ RunCleanup[17].name = "hypershift-customer-allow-egress"
    /\ RunCleanup[18].name = "hypershift-redhat-subnet"
    /\ RunCleanup[19].name = "hypershift-redhat-psc-nat"
    /\ RunCleanup[20].name = "hypershift-customer-subnet"
    /\ RunCleanup[21].name = "hypershift-redhat"
    /\ RunCleanup[22].name = "hypershift-customer"
  <1>1. /\ RunCleanup[1].name = Config.PSCForwardingRule
        /\ RunCleanup[2].name = Config.PSCAddress
        /\ RunCleanup[3].name = Config.ServiceAttachment
        /\ RunCleanup[4].name = Config.ForwardingRule
        /\ RunCleanup[5].name = Config.BackendService
        /\ RunCleanup[6].name = Config.Group
        /\ RunCleanup[7].name = Config.HealthCheck
        /\ RunCleanup[8].name = Config.ProviderVM
        /\ RunCleanup[9].name = Config.ConsumerVM
        /\ RunCleanup[10].name = "hypershift-redhat-allow-health-checks"
        /\ RunCleanup[11].name = "hypershift-redhat-allow-http"
        /\ RunCleanup[12].name = "hypershift-redhat-allow-ssh"
        /\ RunCleanup[13].name = "hypershift-redhat-allow-egress"
        /\ RunCleanup[14].name = "hypershift-redhat-allow-psc-nat"
        /\ RunCleanup[15].name = "hypershift-customer-allow-internal"
        /\ RunCleanup[16].name = "hypershift-customer-allow-ssh"
        /\ RunCleanup[17].name = "hypershift-customer-allow-egress"
        /\ RunCleanup[18].name = Config.ProviderSubnet
        /\ RunCleanup[19].name = Config.PSCNATSubnet
        /\ RunCleanup[20].name = Config.ConsumerSubnet
        /\ RunCleanup[21].name = Config.ProviderVPC
        /\ RunCleanup[22].name = Config.ConsumerVPC
    BY CleanupNames, DeleteFields
  <1>2. /\ Config.PSCForwardingRule = "customer-psc-forwarding-rule"
        /\ Config.PSCAddress = "customer-psc-endpoint-ip"
        /\ Config.ServiceAttachment = "redhat-service-attachment"
        /\ Config.ForwardingRule = "redhat-forwarding-rule"
        /\ Config.BackendService = "redhat-backend-service"
        /\ Config.Group = "redhat-service-group"
        /\ Config.HealthCheck = "redhat-service-health-check"
        /\ Config.ProviderVM = "redhat-service-vm"
        /\ Config.ConsumerVM = "customer-client-vm"
        /\ Config.ProviderSubnet = "hypershift-redhat-subnet"
        /\ Config.PSCNATSubnet = "hypershift-redhat-psc-nat"
        /\ Config.ConsumerSubnet = "hypershift-customer-subnet"
        /\ Config.ProviderVPC = "hypershift-redhat"
        /\ Config.ConsumerVPC = "hypershift-customer"
    BY DEF Config
  <1> QED
    BY <1>1, <1>2

LEMMA CleanupPositions ==
    ASSUME NEW q \in 1..22
    PROVE  /\ RunCleanup[q].name = Config.PSCAddress => q = 2
           /\ RunCleanup[q].name = Config.ServiceAttachment => q = 3
           /\ RunCleanup[q].name = Config.ForwardingRule => q = 4
           /\ RunCleanup[q].name = Config.BackendService => q = 5
           /\ RunCleanup[q].name = Config.Group => q = 6
           /\ RunCleanup[q].name = Config.HealthCheck => q = 7
           /\ RunCleanup[q].name = Config.ProviderSubnet => q = 18
           /\ RunCleanup[q].name = Config.PSCNATSubnet => q = 19
           /\ RunCleanup[q].name = Config.ConsumerSubnet => q = 20
           /\ RunCleanup[q].name = Config.ProviderVPC => q = 21
           /\ RunCleanup[q].name = Config.ConsumerVPC => q = 22
  <1>1. CASE q \in 1..7
    BY <1>1, CleanupStrings DEF Config
  <1>2. CASE q \in 8..14
    BY <1>2, CleanupStrings DEF Config
  <1>3. CASE q \in 15..22
    BY <1>3, CleanupStrings DEF Config
  <1> QED
    BY <1>1, <1>2, <1>3

\* Whatever deletes u comes after what deletes n.
DeletedAfter(u, n) ==
    \A q \in 1..22 : RunCleanup[q].name = u => DeletedBefore(q, n)

LEMMA Orders ==
    /\ DeletedAfter(Config.ProviderVPC, Config.ProviderSubnet)
    /\ DeletedAfter(Config.ProviderVPC, Config.PSCNATSubnet)
    /\ DeletedAfter(Config.ProviderVPC, Config.Group)
    /\ DeletedAfter(Config.ProviderVPC, "hypershift-redhat-allow-health-checks")
    /\ DeletedAfter(Config.ProviderVPC, "hypershift-redhat-allow-http")
    /\ DeletedAfter(Config.ProviderVPC, "hypershift-redhat-allow-ssh")
    /\ DeletedAfter(Config.ProviderVPC, "hypershift-redhat-allow-egress")
    /\ DeletedAfter(Config.ProviderVPC, "hypershift-redhat-allow-psc-nat")
    /\ DeletedAfter(Config.ConsumerVPC, Config.ConsumerSubnet)
    /\ DeletedAfter(Config.ConsumerVPC, "hypershift-customer-allow-internal")
    /\ DeletedAfter(Config.ConsumerVPC, "hypershift-customer-allow-ssh")
    /\ DeletedAfter(Config.ConsumerVPC, "hypershift-customer-allow-egress")
    /\ DeletedAfter(Config.ConsumerVPC, Config.PSCForwardingRule)
    /\ DeletedAfter(Config.ProviderSubnet, Config.ProviderVM)
    /\ DeletedAfter(Config.ProviderSubnet, Config.ForwardingRule)
    /\ DeletedAfter(Config.ConsumerSubnet, Config.ConsumerVM)
    /\ DeletedAfter(Config.ConsumerSubnet, Config.PSCAddress)
    /\ DeletedAfter(Config.ConsumerSubnet, Config.PSCForwardingRule)
    /\ DeletedAfter(Config.PSCNATSubnet, Config.ServiceAttachment)
    /\ DeletedAfter(Config.HealthCheck, Config.BackendService)
    /\ DeletedAfter(Config.Group, Config.BackendService)
    /\ DeletedAfter(Config.BackendService, Config.ForwardingRule)
    /\ DeletedAfter(Config.ForwardingRule, Config.ServiceAttachment)
    /\ DeletedAfter(Config.PSCAddress, Config.PSCForwardingRule)
    /\ DeletedAfter(Config.ServiceAttachment, Config.PSCForwardingRule)
  <1>1. ASSUME NEW u, NEW n, NEW k \in 1..22,
               \A q \in 1..22 : RunCleanup[q].name = u => q = k, DeletedBefore(k, n)
        PROVE  DeletedAfter(u, n)
    BY <1>1 DEF DeletedAfter
  <1> DEFINE Only(k, u) == \A q \in 1..22 : RunCleanup[q].name = u => q = k
  <1>2. /\ Only(2, Config.PSCAddress) /\ Only(3, Config.ServiceAttachment)
        /\ Only(4, Config.ForwardingRule) /\ Only(5, Config.BackendService)
        /\ Only(6, Config.Group) /\ Only(7, Config.HealthCheck)
        /\ Only(18, Config.ProviderSubnet) /\ Only(19, Config.PSCNATSubnet)
        /\ Only(20, Config.ConsumerSubnet) /\ Only(21, Config.ProviderVPC)
        /\ Only(22, Config.ConsumerVPC)
    BY CleanupPositions
  <1>3. ASSUME NEW u, NEW n, NEW k \in 1..22, Only(k, u), DeletedBefore(k, n)
        PROVE  DeletedAfter(u, n)
    BY <1>1, <1>3
  <1> HIDE DEF Only
  <1> QED
    BY <1>2, <1>3, Deletions

\* What refers to a resource is deleted before it.
LEMMA CleanupOrder ==
    ASSUME NEW m \in Names, NEW u \in References(m)
    PROVE  DeletedAfter(u, m)
  <1>1. /\ \A n : CreateVPC(n).uses = {} /\ CreateVPC(n).name = n
        /\ \A n, v : CreateSubnet(v, n).uses = {v} /\ CreateSubnet(v, n).name = n
        /\ \A n, v, r : /\ CreateFirewallRule(n, v, r).uses = {v}
                        /\ CreateFirewallRule(n, v, r).name = n
        /\ \A n, k, w, x : /\ Step("insert", n, k, w, x).uses = w
                           /\ Step("insert", n, k, w, x).name = n
    BY DEF CreateVPC, CreateSubnet, CreateFirewallRule, Step
  <1>2. /\ DeployProviderVM.name = Config.ProviderVM /\ DeployConsumerVM.name = Config.ConsumerVM
        /\ CreateForwardingRule.name = Config.ForwardingRule
        /\ CreateServiceAttachment.name = Config.ServiceAttachment
        /\ CreatePSCAddress.name = Config.PSCAddress
        /\ CreatePSCForwardingRule.name = Config.PSCForwardingRule
    BY DEF DeployProviderVM, DeployConsumerVM, CreateForwardingRule, CreateServiceAttachment,
           CreatePSCAddress, CreatePSCForwardingRule, Step
  <1> DEFINE P(i) == RunDemo[i].do \in {"insert", "addBackend"} =>
                        \A v \in RunDemo[i].uses : DeletedAfter(v, RunDemo[i].name)
  <1>3. P(1) /\ P(2) /\ P(3) /\ P(4) /\ P(5) /\ P(6) /\ P(7)
    BY <1>1, DemoSteps, Orders
  <1>4. P(8) /\ P(9) /\ P(10) /\ P(11) /\ P(12) /\ P(13) /\ P(14)
    BY <1>1, DemoSteps, Orders
  <1>5. P(15) /\ P(16) /\ P(17) /\ P(18) /\ P(19) /\ P(20) /\ P(21) /\ P(22)
    BY <1>1, <1>2, DemoSteps, StepFields, Orders
  <1>6. P(23) /\ P(24) /\ P(25) /\ P(26)
    BY <1>1, <1>2, DemoSteps, StepFields, Orders
  <1>7. P(27) /\ P(28) /\ P(29)
    BY <1>1, <1>2, DemoSteps, StepFields, Orders
  <1> HIDE DEF P
  <1>8. \A i \in 1..29 : P(i)
    BY <1>3, <1>4, <1>5, <1>6, <1>7
  <1>9. CASE m = Config.Group /\ u = Config.ProviderVPC
    BY <1>9, Orders
  <1>10. CASE \E i \in 1..29 : /\ RunDemo[i].do \in {"insert", "addBackend"}
                               /\ RunDemo[i].name = m
                               /\ u \in RunDemo[i].uses
    BY <1>8, <1>10 DEF P
  <1> QED
    BY <1>9, <1>10 DEF References

\* The group refers to its network, which refers to nothing.
LEMMA NetworkRefersToNothing ==
    References(Config.ProviderVPC) = {} /\ References(Config.Group) \subseteq {Config.ProviderVPC}
  <1> DEFINE P(i) == \/ RunDemo[i].do \notin {"insert", "addBackend"}
                     \/ RunDemo[i].name \notin {Config.ProviderVPC, Config.Group}
                     \/ RunDemo[i].uses = {}
  <1>1. /\ \A n : CreateVPC(n).uses = {}
        /\ \A n, v : CreateSubnet(v, n).name = n
        /\ \A n, v, r : CreateFirewallRule(n, v, r).name = n
        /\ \A n, k, w, x : Step("insert", n, k, w, x).name = n
        /\ \A n, k, w, x : Step("insert", n, k, w, x).uses = w
    BY DEF CreateVPC, CreateSubnet, CreateFirewallRule, Step
  <1>2. /\ RunDemo[1].uses = {} /\ RunDemo[10].uses = {} /\ RunDemo[20].uses = {}
        /\ RunDemo[17].do = "ready" /\ RunDemo[18].do = "look" /\ RunDemo[21].do = "addInstance"
        /\ RunDemo[22].do = "setPorts" /\ RunDemo[29].do = "look" /\ RunDemo[19].uses = {}
    BY <1>1, DemoSteps, StepFields
  <1>3. /\ RunDemo[2].name = Config.ProviderSubnet /\ RunDemo[3].name = Config.PSCNATSubnet
        /\ RunDemo[4].name = "hypershift-redhat-allow-health-checks"
        /\ RunDemo[5].name = "hypershift-redhat-allow-http"
        /\ RunDemo[6].name = "hypershift-redhat-allow-ssh"
        /\ RunDemo[7].name = "hypershift-redhat-allow-egress"
        /\ RunDemo[8].name = "hypershift-redhat-allow-psc-nat"
        /\ RunDemo[9].name = "hypershift-redhat-allow-egress"
        /\ RunDemo[11].name = Config.ConsumerSubnet
        /\ RunDemo[12].name = "hypershift-customer-allow-internal"
        /\ RunDemo[13].name = "hypershift-customer-allow-ssh"
        /\ RunDemo[14].name = "hypershift-customer-allow-egress"
        /\ RunDemo[23].name = Config.BackendService
    BY <1>1, DemoSteps
  <1>4. /\ RunDemo[15].name = Config.ProviderVM /\ RunDemo[16].name = Config.ConsumerVM
        /\ RunDemo[25].name = Config.ForwardingRule /\ RunDemo[26].name = Config.ServiceAttachment
        /\ RunDemo[27].name = Config.PSCAddress /\ RunDemo[28].name = Config.PSCForwardingRule
    BY DemoSteps
       DEF DeployProviderVM, DeployConsumerVM, CreateForwardingRule, CreateServiceAttachment,
           CreatePSCAddress, CreatePSCForwardingRule, Step
  <1>5. RunDemo[24].name = Config.BackendService
    BY DemoSteps, StepFields
  <1>6. \A n \in {Config.ProviderSubnet, Config.PSCNATSubnet, Config.ConsumerSubnet,
                  Config.ProviderVM, Config.ConsumerVM, Config.BackendService,
                  Config.ForwardingRule, Config.ServiceAttachment, Config.PSCAddress,
                  Config.PSCForwardingRule, "hypershift-redhat-allow-health-checks",
                  "hypershift-redhat-allow-http", "hypershift-redhat-allow-ssh",
                  "hypershift-redhat-allow-egress", "hypershift-redhat-allow-psc-nat",
                  "hypershift-customer-allow-internal", "hypershift-customer-allow-ssh",
                  "hypershift-customer-allow-egress"} :
            n # Config.ProviderVPC /\ n # Config.Group
    BY DEF Config
  <1>7. \A i \in 1..29 : P(i)
    <2>1. P(1) /\ P(10) /\ P(17) /\ P(18) /\ P(19) /\ P(20) /\ P(21) /\ P(22) /\ P(29)
      BY <1>2
    <2>2. P(2) /\ P(3) /\ P(4) /\ P(5) /\ P(6) /\ P(7) /\ P(8) /\ P(9) /\ P(11)
          /\ P(12) /\ P(13) /\ P(14) /\ P(23)
      BY <1>3, <1>6
    <2>3. P(15) /\ P(16) /\ P(24) /\ P(25) /\ P(26) /\ P(27) /\ P(28)
      BY <1>4, <1>5, <1>6
    <2> HIDE DEF P
    <2> QED
      BY <2>1, <2>2, <2>3
  <1> HIDE DEF P
  <1>8. Config.Group # Config.ProviderVPC
    BY DEF Config
  <1> QED
    BY <1>7, <1>8 DEF P, References

-----------------------------------------------------------------------------
(***************************************************************************)
(* A cleanup that began with nothing under way and met no failure.         *)
(***************************************************************************)
\* What something that is still there refers to has to stay as well.
LEMMA StuckStays ==
    ASSUME CloudInv, NEW m \in Names, Removed(m), NEW n \in Names, n \in res[m].uses
    PROVE  n \in Stuck
  <1>1. m \in Stuck
    BY ResourceChanges DEF Removed
  <1>2. CASE m \in NoCommand
    BY <1>2 DEF Stuck
  <1>3. ASSUME NEW g \in NoCommand, m \in res[g].uses PROVE FALSE
    <2>1. g = Config.Group
      BY NoCommandAssumption
    <2>2. m = Config.ProviderVPC
      BY <1>3, <2>1, ConfigNames, NetworkRefersToNothing DEF CloudInv, ReferencesFit
    <2> QED
      BY <2>2, NetworkRefersToNothing DEF CloudInv, ReferencesFit
  <1> QED
    BY <1>1, <1>2, <1>3 DEF Stuck

\* What cannot be deleted, or is not there, is not touched by deleting something else.
LEMMA RemovedStays ==
    ASSUME NEW d \in Names, d \notin NoCommand, res[d] # Absent,
           \A n \in Names \ {d} : res'[n] = res[n]
    PROVE  \A n \in Names : Removed(n) => Removed(n)'
  <1>1. \A g \in NoCommand : res'[g] = res[g]
    BY NoCommandAssumption, ConfigNames
  <1>2. Stuck' = Stuck
    BY <1>1 DEF Stuck
  <1> QED
    BY <1>2 DEF Removed

LEMMA CleanupNow ==
    ASSUME BasicInv, CleanCleanup, clean, run.tool = "cleanup"
    PROVE  /\ run # NoRun /\ run \in Running /\ verdict = "none" /\ run.at \in 1..22
           /\ Current = RunCleanup[run.at] /\ Current.do = "delete" /\ Current.name \in Names
           /\ Current.kind = "" /\ ChangeStep(Current)
           /\ \A o \in ops : o.mine
           /\ run.op # "error"
           /\ \A j \in 1..(run.at - 1) : Removed(RunCleanup[j].name)
           /\ run.pc = "wait" /\ run.op = "ok" => Removed(Current.name)
           /\ ~(run.pc = "wait" /\ run.op = "running") =>
                 ops = {} /\ \A n \in Names : res[n] = Absent \/ Ready(n)
  <1>1. run # NoRun
    BY NoRunFields
  <1>2. \A o \in ops : o.mine
    BY DEF CleanCleanup
  <1>3. ~(run.pc = "wait" /\ run.op = "running") => ops = {}
    BY <1>2, NobodyWaits DEF BasicInv
  <1> QED
    BY <1>1, <1>2, <1>3, CurrentStep, NothingUnderWay DEF BasicInv, CleanCleanup

LEMMA CleanupAdvances ==
    ASSUME BasicInv, CleanCleanup, clean, run.tool = "cleanup", Advance, ops' = {}, res' = res,
           Removed(Current.name)
    PROVE  CleanCleanup'
  <1>1. \A n : Removed(n)' <=> Removed(n)
    BY DEF Removed, Stuck
  <1>2. run # NoRun /\ verdict = "none" /\ run.at \in 1..22 /\ Current = RunCleanup[run.at]
    BY CleanupNow
  <1>3. \A j \in 1..run.at : Removed(RunCleanup[j].name)'
    <2> TAKE j \in 1..run.at
    <2>1. CASE j = run.at
      BY <1>1, <1>2, <2>1
    <2>2. CASE j \in 1..(run.at - 1)
      BY <1>1, <2>2, CleanupNow
    <2> QED
      BY <1>2, <2>1, <2>2
  <1>4. CASE run' = NoRun /\ verdict' = run.tool /\ run.at = 22
    <2>1. \A n \in Names : Removed(n)'
      BY <1>3, <1>4, CleanupSteps DEF Names
    <2> QED
      BY <1>4, <2>1, NoRunFields DEF CleanCleanup
  <1>5. CASE /\ run'.at = run.at + 1 /\ verdict' = verdict /\ run'.op = "none"
             /\ run'.pc \in {"check", "request", "look", "ready"}
    BY <1>2, <1>3, <1>5 DEF CleanCleanup
  <1> QED
    BY <1>2, <1>4, <1>5, AdvanceMoves, ProgramLengths DEF BasicInv

\* A setup says nothing of a cleanup.
LEMMA SetupIsNoCleanup ==
    ASSUME run'.tool # "cleanup", verdict' # "cleanup"
    PROVE  CleanCleanup'
  BY DEF CleanCleanup

LEMMA SetupMoves ==
    ASSUME TypeOK, RunFits, run.tool = "setup", Advance \/ Fail
    PROVE  CleanCleanup'
  <1>1. run # NoRun /\ verdict = "none"
    BY NoRunFields, CurrentStep
  <1>2. CASE Fail
    BY <1>1, <1>2, ToolAt, LeavingFields, SetupIsNoCleanup
  <1>3. CASE Advance
    BY <1>1, <1>3, AdvanceMoves, NoRunFields, SetupIsNoCleanup
  <1> QED
    BY <1>2, <1>3

LEMMA CleanupNotClean == ~clean' => CleanCleanup'
  BY DEF CleanCleanup

LEMMA RequestKeepsCleanup == BasicInv /\ CleanCleanup /\ Request => CleanCleanup'
  <1> SUFFICES ASSUME BasicInv, CleanCleanup, Request, clean' PROVE CleanCleanup'
    BY CleanupNotClean
  <1>1. clean /\ ~Fault
    BY DEF Request, Fault, NoFault
  <1>2. /\ run # NoRun /\ run.pc = "request" /\ run.tool \in {"setup", "cleanup"}
        /\ verdict = "none"
    BY NoRunFields, ToolAt, CurrentStep DEF Request, At, BasicInv
  <1>3. CASE run' = [run EXCEPT !.pc = "wait", !.op = "running"] /\ Begin(Current, TRUE)
             /\ UNCHANGED verdict
    <2>1. /\ run'.pc = "wait" /\ run'.op = "running" /\ Current' = Current
          /\ run'.tool = run.tool /\ run'.at = run.at
      BY <1>2, <1>3, WaitFits DEF At
    <2>2. CASE run.tool = "setup"
      BY <1>2, <1>3, <2>1, <2>2, SetupIsNoCleanup
    <2>3. CASE run.tool = "cleanup"
      <3>1. /\ ops = {} /\ Current.do = "delete" /\ Current.name \in Names
            /\ ChangeStep(Current) /\ run.at \in 1..22
            /\ \A j \in 1..(run.at - 1) : Removed(RunCleanup[j].name)
        BY <1>1, <1>2, <2>3, CleanupNow
      <3>2. /\ ops' = {Operation(Current, TRUE)} /\ Current.name \notin NoCommand
            /\ Ready(Current.name) /\ \A n \in Names \ {Current.name} : res'[n] = res[n]
        BY <1>3, <3>1, BeginEffect DEF BasicInv
      <3>3. res[Current.name] # Absent
        BY <3>2, ResourceChanges DEF Ready
      <3>4. \A n \in Names : Removed(n) => Removed(n)'
        BY <3>1, <3>2, <3>3, RemovedStays
      <3>5. \A j \in 1..(run.at - 1) : Removed(RunCleanup[j].name)'
        <4> TAKE j \in 1..(run.at - 1)
        <4>1. j \in 1..22
          BY <3>1
        <4>2. RunCleanup[j].name \in Names
          BY <4>1, ProgramSteps
        <4> QED
          BY <3>1, <3>4, <4>2
      <3> QED
        BY <1>2, <1>3, <2>1, <3>2, <3>5, OperationFields DEF CleanCleanup
    <2> QED
      BY <1>2, <2>2, <2>3
  <1>4. CASE ~Accepts(Current) /\ Fail /\ UNCHANGED cloudVars
    <2>1. CASE run.tool = "setup"
      BY <1>4, <2>1, SetupMoves DEF BasicInv
    <2>2. CASE run.tool = "cleanup"
      <3>1. /\ ops = {} /\ Current.do = "delete" /\ Current.name \in Names
            /\ Current = RunCleanup[run.at] /\ run.at \in 1..22
            /\ \A j \in 1..(run.at - 1) : Removed(RunCleanup[j].name)
            /\ \A n \in Names : res[n] = Absent \/ Ready(n)
        BY <1>1, <1>2, <2>2, CleanupNow
      <3>2. ~Ready(Current.name) \/ InUse(Current.name) \/ Current.name \in NoCommand
        BY <1>4, <3>1 DEF Accepts
      <3>3. Removed(Current.name)
        <4>1. CASE ~Ready(Current.name)
          BY <3>1, <4>1 DEF Removed
        <4>2. CASE Current.name \in NoCommand
          BY <4>2 DEF Removed, Stuck
        <4>3. CASE InUse(Current.name)
          <5>1. PICK m \in Names : Current.name \in res[m].uses
            BY <4>3 DEF InUse
          <5>2. Current.name \in References(m)
            BY <5>1 DEF BasicInv, CloudInv, ReferencesFit
          <5>3. DeletedBefore(run.at, m)
            BY <3>1, <5>2, CleanupOrder DEF DeletedAfter
          <5>4. Removed(m)
            BY <3>1, <5>3 DEF DeletedBefore
          <5> QED
            BY <3>1, <5>1, <5>4, StuckStays DEF BasicInv, Removed
        <4> QED
          BY <3>2, <4>1, <4>2, <4>3
      <3>4. Advance
        BY <1>4, <2>2 DEF Fail
      <3> QED
        BY <1>1, <1>4, <2>2, <3>1, <3>3, <3>4, CleanupAdvances DEF cloudVars
    <2> QED
      BY <1>2, <2>1, <2>2
  <1> QED
    BY <1>1, <1>3, <1>4 DEF Request

LEMMA PollKeepsCleanup == BasicInv /\ CleanCleanup /\ Poll => CleanCleanup'
  <1> SUFFICES ASSUME BasicInv, CleanCleanup, Poll, clean' PROVE CleanCleanup'
    BY CleanupNotClean
  <1>1. clean /\ ~Fault /\ ops' = Orphaned(ops) /\ res' = res
    BY DEF Poll, Fault, NoFault
  <1>2. /\ run # NoRun /\ run.pc = "wait" /\ run.tool \in {"setup", "cleanup"}
        /\ verdict = "none" /\ SeesOperation /\ run \in Running /\ run.op # "none"
    BY NoRunFields, ToolAt, CurrentStep DEF Poll, At, BasicInv, RunFits
  <1>3. run.op # "running" /\ (IF run.op = "error" THEN Fail ELSE AfterWait)
    BY <1>1, <1>2 DEF Poll, Finished
  <1>4. CASE run.tool = "setup"
    <2>1. CASE Advance \/ Fail
      BY <1>4, <2>1, SetupMoves DEF BasicInv
    <2>2. CASE Goto("readBack") /\ Current.kind = "forwarding-rule"
      <3>1. run'.tool = run.tool /\ verdict' = "none"
        BY <1>2, <2>2 DEF Goto, Running
      <3> QED
        BY <1>4, <3>1, SetupIsNoCleanup
    <2> QED
      BY <1>3, <2>1, <2>2 DEF AfterWait
  <1>5. CASE run.tool = "cleanup"
    <2>1. /\ ops = {} /\ run.op # "error" /\ Current.kind = ""
          /\ run.pc = "wait" /\ run.op = "ok" => Removed(Current.name)
      BY <1>1, <1>2, <1>3, <1>5, CleanupNow
    <2>2. run.op = "ok"
      BY <1>2, <1>3, <2>1 DEF Running
    <2>3. Advance /\ ops' = {}
      BY <1>1, <1>3, <2>1 DEF AfterWait, Orphaned
    <2> QED
      BY <1>1, <1>2, <1>5, <2>1, <2>2, <2>3, CleanupAdvances
  <1> QED
    BY <1>2, <1>4, <1>5

LEMMA SetupOnlyKeepsCleanup ==
    BasicInv /\ CleanCleanup /\ (Check \/ ReadBack \/ Look \/ VMsReady) => CleanCleanup'
  <1> SUFFICES ASSUME BasicInv, CleanCleanup, Check \/ ReadBack \/ Look \/ VMsReady
               PROVE  CleanCleanup'
    OBVIOUS
  <1>1. run # NoRun /\ run.tool = "setup" /\ verdict = "none" /\ run \in Running
    BY NoRunFields, ToolAt, CurrentStep DEF Check, ReadBack, Look, VMsReady, At, BasicInv
  <1>2. CASE Advance \/ Fail
    BY <1>1, <1>2, SetupMoves DEF BasicInv
  <1>3. CASE Goto("request")
    <2>1. run'.tool = run.tool /\ verdict' = "none"
      BY <1>1, <1>3 DEF Goto, Running
    <2> QED
      BY <1>1, <2>1, SetupIsNoCleanup
  <1> QED
    BY <1>2, <1>3 DEF Check, ReadBack, Look, VMsReady

LEMMA EndsKeepsCleanup == BasicInv /\ CleanCleanup /\ SomeOperationEnds => CleanCleanup'
  <1> SUFFICES ASSUME BasicInv, CleanCleanup, NEW o \in ops, OperationEnds(o), clean'
               PROVE  CleanCleanup'
    BY CleanupNotClean DEF SomeOperationEnds
  <1>1. PICK ok \in BOOLEAN :
            /\ End(o, ok)
            /\ IF ok THEN NoFault ELSE IF Hopeless(o) THEN NoFault ELSE Fault
            /\ run' = IF o.mine THEN [run EXCEPT !.op = IF ok THEN "ok" ELSE "error"] ELSE run
    BY DEF OperationEnds
  <1>2. /\ clean /\ verdict' = verdict /\ ops' = ops \ {o} /\ (ok \/ Hopeless(o))
    BY <1>1 DEF OperationEnds, Fault, NoFault, End
  <1>3. /\ run'.tool = run.tool /\ run'.at = run.at /\ run'.pc = run.pc /\ Current' = Current
        /\ o.mine => /\ run.pc = "wait" /\ o = Operation(Current, TRUE)
                     /\ run'.op = IF ok THEN "ok" ELSE "error"
    BY <1>1, <1>2, OperationEndsMoves
  <1>4. CASE run.tool = "cleanup"
    <2>1. /\ Current.do = "delete" /\ Current.name \in Names /\ run.at \in 1..22
          /\ \A p \in ops : p.mine
          /\ \A j \in 1..(run.at - 1) : Removed(RunCleanup[j].name)
          /\ verdict = "none"
      BY <1>2, <1>4, CleanupNow
    <2>2. o.do = "delete" /\ o.name = Current.name
      BY <1>3, <2>1, OperationFields
    <2>3. ok = TRUE
      BY <1>2, <2>2 DEF Hopeless
    <2>4. /\ o.name \notin NoCommand /\ res[o.name].state = "deleting"
          /\ res \in [Names -> Resources \cup {Absent}]
      BY <2>2 DEF BasicInv, CloudInv, OperationsFit, CloudTypeOK
    <2>5. res' = [res EXCEPT ![o.name] = Absent]
      BY <1>1, <2>2, <2>3 DEF End, Created, Deleted, VMAdded, PortsSet, BackendAdded
    <2>6. res'[o.name] = Absent /\ \A n \in Names \ {o.name} : res'[n] = res[n]
      BY <2>1, <2>2, <2>4, <2>5
    <2>7. res[o.name] # Absent
      BY <2>4, ResourceChanges
    <2>8. \A n \in Names : Removed(n) => Removed(n)'
      BY <2>1, <2>2, <2>4, <2>6, <2>7, RemovedStays
    <2>9. \A j \in 1..(run.at - 1) : Removed(RunCleanup[j].name)'
      <3> TAKE j \in 1..(run.at - 1)
      <3>1. j \in 1..22
        BY <2>1
      <3>2. RunCleanup[j].name \in Names
        BY <3>1, ProgramSteps
      <3> QED
        BY <2>1, <2>8, <3>2
    <2>10. Removed(Current.name)'
      BY <1>3, <2>2, <2>6 DEF Removed
    <2>11. run'.op = "ok"
      BY <1>3, <2>1, <2>3
    <2> QED
      BY <1>2, <1>3, <2>1, <2>9, <2>10, <2>11 DEF CleanCleanup
  <1>5. CASE verdict = "cleanup"
    <2>1. run = NoRun /\ o.mine
      BY <1>2, <1>5 DEF BasicInv, RunFits, CleanCleanup
    <2> QED
      BY <1>3, <2>1, NoRunFields
  <1>6. CASE run.tool # "cleanup" /\ verdict # "cleanup"
    BY <1>2, <1>3, <1>6, SetupIsNoCleanup
  <1> QED
    BY <1>4, <1>5, <1>6

LEMMA OthersKeepCleanup ==
    ASSUME BasicInv, CleanCleanup,
           Kill \/ Start("setup") \/ Start("cleanup") \/ Boot \/ UNCHANGED vars
    PROVE  CleanCleanup'
  <1>1. CASE Kill
    BY <1>1, CleanupNotClean DEF Kill, Fault
  <1>2. CASE Start("setup")
    <2>1. run'.tool = "setup" /\ verdict' = "none"
      BY <1>2, StartKeepsBasic DEF Start
    <2> QED
      BY <2>1, SetupIsNoCleanup
  <1>3. CASE Start("cleanup")
    <2>1. /\ run'.op = "none" /\ run'.pc \in {"check", "request", "look", "ready"}
          /\ run'.at = 1
      BY <1>3, StartKeepsBasic
    <2>2. verdict' = "none" /\ clean' = (ops = {}) /\ ops' = ops
      BY <1>3 DEF Start, cloudVars
    <2>3. clean' => ops' = {}
      BY <2>2
    <2>4. \A j \in 1..(run'.at - 1) : FALSE
      BY <2>1
    <2>5. ASSUME clean' PROVE CleanCleanup'
      BY <2>1, <2>2, <2>3, <2>4, <2>5 DEF CleanCleanup
    <2> QED
      BY <2>5, CleanupNotClean
  <1>4. CASE Boot \/ UNCHANGED vars
    <2>1. UNCHANGED <<run, verdict, clean, res, ops>>
      BY <1>4 DEF Boot, BootsFurther, vars, cloudVars, toolVars
    <2>2. Current' = Current
      BY <2>1 DEF Current, Program
    <2> QED
      BY <2>1, <2>2 DEF CleanCleanup, Removed, Stuck
  <1> QED
    BY <1>1, <1>2, <1>3, <1>4

LEMMA CleanupStep == BasicInv /\ CleanCleanup /\ [Next]_vars => CleanCleanup'
  BY SetupOnlyKeepsCleanup, RequestKeepsCleanup, PollKeepsCleanup, EndsKeepsCleanup,
     OthersKeepCleanup DEF Next, Tool

\* A cleanup that starts when no operation is under way and meets no failure leaves
\* only what gcloud has no command for, and what that refers to: its order respects
\* every reference a setup, however it ended, can have made.
THEOREM CleanupLeavesOnlyStuck == Spec => []CleanupLeavesLittle
  <1>1. Init => CleanCleanup
    BY NoRunFields DEF Init, CleanCleanup
  <1>2. CleanCleanup => CleanupLeavesLittle
    BY DEF CleanCleanup, CleanupLeavesLittle, Removed
  <1> QED
    BY <1>1, <1>2, BasicInit, BasicStep, CleanupStep, PTL DEF Spec
=============================================================================
