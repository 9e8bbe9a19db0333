------------------------------ MODULE PscPlan ------------------------------
(***************************************************************************)
(* What the Private Service Connect demo (psc-research/golang) creates, in *)
(* which order and out of what, and what its cleanup deletes.  A step is   *)
(* one call on Compute Engine: what it does, the resource it is about, the *)
(* kind of the resource, the resources its request refers to, and the kind *)
(* of operation the code waits for.  Whether a step's resource is there    *)
(* already is looked up first, but for setPorts; see PscDemo.              *)
(***************************************************************************)
EXTENDS Naturals, Sequences

\* NewConfig: the names; ranges, images and machine types play no part.
Config == [
    ProviderVPC |-> "hypershift-redhat",
    ProviderSubnet |-> "hypershift-redhat-subnet",
    PSCNATSubnet |-> "hypershift-redhat-psc-nat",
    ConsumerVPC |-> "hypershift-customer",
    ConsumerSubnet |-> "hypershift-customer-subnet",
    ProviderVM |-> "redhat-service-vm",
    ConsumerVM |-> "customer-client-vm",
    HealthCheck |-> "redhat-service-health-check",
    BackendService |-> "redhat-backend-service",
    ForwardingRule |-> "redhat-forwarding-rule",
    ServiceAttachment |-> "redhat-service-attachment",
    PSCAddress |-> "customer-psc-endpoint-ip",
    PSCForwardingRule |-> "customer-psc-forwarding-rule",
    Group |-> "redhat-service-group"]

Step(do, name, kind, uses, wait) ==
    [do |-> do, name |-> name, kind |-> kind, uses |-> uses, wait |-> wait]

\* The operations client each of the wait functions asks.
WaitForOperation == "global"
WaitForRegionalOperation == "region"
WaitForZonalOperation == "zone"

-----------------------------------------------------------------------------
(***************************************************************************)
(* pkg/vpc.                                                                *)
(***************************************************************************)
CreateVPC(name) == Step("insert", name, "network", {}, WaitForOperation)

CreateSubnet(vpc, name) == Step("insert", name, "subnet", {vpc}, WaitForRegionalOperation)

CreateFirewallRule(name, vpc, direction) ==
    Step("insert", name, direction, {vpc}, WaitForOperation)

ProviderRules == <<
    "hypershift-redhat-allow-health-checks", "hypershift-redhat-allow-http",
    "hypershift-redhat-allow-ssh", "hypershift-redhat-allow-egress",
    "hypershift-redhat-allow-psc-nat">>

\* The whole list is created as INGRESS, then the egress rule once more as EGRESS.
CreateProviderFirewallRules ==
    [i \in DOMAIN ProviderRules |->
        CreateFirewallRule(ProviderRules[i], Config.ProviderVPC, "INGRESS")]
    \o <<CreateFirewallRule("hypershift-redhat-allow-egress", Config.ProviderVPC, "EGRESS")>>

CreateConsumerFirewallRules == <<
    CreateFirewallRule("hypershift-customer-allow-internal", Config.ConsumerVPC, "INGRESS"),
    CreateFirewallRule("hypershift-customer-allow-ssh", Config.ConsumerVPC, "INGRESS"),
    CreateFirewallRule("hypershift-customer-allow-egress", Config.ConsumerVPC, "EGRESS")>>

CreateProviderVPC ==
    <<CreateVPC(Config.ProviderVPC),
      CreateSubnet(Config.ProviderVPC, Config.ProviderSubnet),
      CreateSubnet(Config.ProviderVPC, Config.PSCNATSubnet)>>
    \o CreateProviderFirewallRules

CreateConsumerVPC ==
    <<CreateVPC(Config.ConsumerVPC),
      CreateSubnet(Config.ConsumerVPC, Config.ConsumerSubnet)>>
    \o CreateConsumerFirewallRules

(***************************************************************************)
(* pkg/vm.                                                                 *)
(***************************************************************************)
DeployProviderVM ==
    Step("insert", Config.ProviderVM, "vm", {Config.ProviderSubnet}, WaitForZonalOperation)
DeployConsumerVM ==
    Step("insert", Config.ConsumerVM, "vm", {Config.ConsumerSubnet}, WaitForZonalOperation)
DeployVMs == <<DeployProviderVM, DeployConsumerVM>>

WaitForVMsReady == Step("ready", Config.ProviderVM, "", {}, "")

(***************************************************************************)
(* pkg/psc.                                                                *)
(***************************************************************************)
CreateHealthCheck ==
    Step("insert", Config.HealthCheck, "health-check", {}, WaitForOperation)

AddVMToInstanceGroup ==
    Step("addInstance", Config.Group, "member", {Config.ProviderVM}, WaitForZonalOperation)
SetNamedPorts ==
    Step("setPorts", Config.Group, "ports", {}, WaitForZonalOperation)
CreateInstanceGroup == <<
    Step("insert", Config.Group, "group", {}, WaitForZonalOperation),
    AddVMToInstanceGroup,
    SetNamedPorts>>

AddBackendToService ==
    Step("addBackend", Config.BackendService, "", {Config.Group}, WaitForRegionalOperation)
CreateBackendService == <<
    Step("insert", Config.BackendService, "backend-service", {Config.HealthCheck},
         WaitForRegionalOperation),
    AddBackendToService>>

CreateForwardingRule ==
    Step("insert", Config.ForwardingRule, "forwarding-rule",
         {Config.BackendService, Config.ProviderSubnet}, WaitForRegionalOperation)
CreateServiceAttachment ==
    Step("insert", Config.ServiceAttachment, "service-attachment",
         {Config.ForwardingRule, Config.PSCNATSubnet}, WaitForRegionalOperation)
CreatePSCAddress ==
    Step("insert", Config.PSCAddress, "address", {Config.ConsumerSubnet},
         WaitForRegionalOperation)
CreatePSCForwardingRule ==
    Step("insert", Config.PSCForwardingRule, "forwarding-rule",
         {Config.PSCAddress, Config.ServiceAttachment, Config.ConsumerVPC,
          Config.ConsumerSubnet}, WaitForRegionalOperation)
CreatePSCEndpoint == <<CreatePSCAddress, CreatePSCForwardingRule>>

SetupPrivateServiceConnect ==
    <<CreateHealthCheck>> \o CreateInstanceGroup \o CreateBackendService
    \o <<CreateForwardingRule, CreateServiceAttachment>> \o CreatePSCEndpoint

-----------------------------------------------------------------------------
(***************************************************************************)
(* pkg/testing, as far as it can fail: it looks up the VMs' addresses, and *)
(* the addresses of the two forwarding rules; no probe's outcome counts.   *)
(***************************************************************************)
TestIsolation == Step("look", "", "", {Config.ProviderVM, Config.ConsumerVM}, "")
TestConnectivity ==
    Step("look", "", "", {Config.PSCForwardingRule, Config.ForwardingRule}, "")

RunDemo ==
    CreateProviderVPC \o CreateConsumerVPC \o DeployVMs
    \o <<WaitForVMsReady, TestIsolation>>
    \o SetupPrivateServiceConnect \o <<TestConnectivity>>

(***************************************************************************)
(* cmd/cleanup.go: gcloud's delete, in this order.                         *)
(***************************************************************************)
CleanupPSCComponents ==
    <<Config.PSCForwardingRule, Config.PSCAddress, Config.ServiceAttachment>>
CleanupLoadBalancerComponents ==
    <<Config.ForwardingRule, Config.BackendService, Config.Group, Config.HealthCheck>>
CleanupVMs == <<Config.ProviderVM, Config.ConsumerVM>>
CleanupVPCs ==
    ProviderRules
    \o <<"hypershift-customer-allow-internal", "hypershift-customer-allow-ssh",
         "hypershift-customer-allow-egress",
         Config.ProviderSubnet, Config.PSCNATSubnet, Config.ConsumerSubnet,
         Config.ProviderVPC, Config.ConsumerVPC>>

DeleteResource(name) == Step("delete", name, "", {}, "")

\* Mutant: load balancer first, the attachment that refers to it after.
CleanupSwapped ==
    LET names == CleanupLoadBalancerComponents \o CleanupPSCComponents
                 \o CleanupVMs \o CleanupVPCs
    IN  [i \in DOMAIN names |-> DeleteResource(names[i])]

RunCleanup ==
    LET names == CleanupPSCComponents \o CleanupLoadBalancerComponents
                 \o CleanupVMs \o CleanupVPCs
    IN  [i \in DOMAIN names |-> DeleteResource(names[i])]

Names == {RunCleanup[i].name : i \in DOMAIN RunCleanup}
=============================================================================
