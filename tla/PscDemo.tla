------------------------------ MODULE PscDemo ------------------------------
(***************************************************************************)
(* The Private Service Connect demo's two tools over Compute Engine: the   *)
(* setup (cmd/main.go with pkg/vpc, pkg/vm and pkg/psc), which creates     *)
(* what is not there and can be run again, and the cleanup                 *)
(* (cmd/cleanup.go), which deletes everything and shrugs errors off.       *)
(*                                                                         *)
(* A user starts one tool at a time, in any order.  A tool can be killed,  *)
(* or give up on a call, between any two steps; the operations it began    *)
(* go on without it.                                                       *)
(***************************************************************************)
EXTENDS ComputeEngine

CONSTANTS
    MaxRuns,    \* bound: how often a tool is started
    MaxFaults   \* bound: failing calls, failing operations and kills together

VARIABLES
    run,        \* the running tool, its position in its program, its operation's result
    verdict,    \* how the last run ended
    runs,       \* runs so far
    faults,     \* failures so far
    clean,      \* history: this run began with nothing under way and met no failure
    assumed     \* history: what this setup took for granted though it was changing

toolVars == <<run, verdict, runs, faults, clean, assumed>>
vars == <<cloudVars, toolVars>>

NoRun == [tool |-> "none", at |-> 0, pc |-> "idle", op |-> "none"]
Program(tool) == IF tool = "setup" THEN RunDemo ELSE RunCleanup
Current == Program(run.tool)[run.at]

Init ==
    /\ CloudInit
    /\ run = NoRun
    /\ verdict = "none"
    /\ runs = 0
    /\ faults = 0
    /\ clean = FALSE
    /\ assumed = {}

Fault == faults < MaxFaults /\ faults' = faults + 1 /\ clean' = FALSE
NoFault == UNCHANGED <<faults, clean>>

-----------------------------------------------------------------------------
(***************************************************************************)
(* Moving through a program.                                               *)
(***************************************************************************)
\* Mutant: the VM is added without looking for it among the group's members.
LooksButForVM(s) == s.do \in {"insert", "addBackend"}

\* Mutant: the named ports are set only if something about the group was missing.
LooksAtPorts(s) == s.do \in {"insert", "addInstance", "addBackend", "setPorts"}

\* Whether the code looks first for what the step would do.
Looks(s) == s.do \in {"insert", "addInstance", "addBackend"}

\* Mutant: the steps that do not look first are not all requests.
EntryPointPlain(s) == IF Looks(s) THEN "check" ELSE s.do

EntryPoint(s) ==
    IF Looks(s) THEN "check"
    ELSE IF s.do \in {"look", "ready"} THEN s.do
    ELSE "request"

\* The tool is gone; nobody waits for its operation any more.
Leave(outcome) ==
    /\ run' = NoRun
    /\ verdict' = outcome

Orphaned(S) == {[o EXCEPT !.mine = FALSE] : o \in S}

\* The step is done: go on with the next, or end.
Advance ==
    IF run.at = Len(Program(run.tool))
    THEN Leave(run.tool)
    ELSE /\ run' = [run EXCEPT !.at = @ + 1, !.op = "none",
                               !.pc = EntryPoint(Program(run.tool)[run.at + 1])]
         /\ UNCHANGED verdict

\* The step failed: setup returns the error, cleanup warns and goes on.
Fail == IF run.tool = "setup" THEN Leave("failed") ELSE Advance

Goto(pc) == run' = [run EXCEPT !.pc = pc] /\ UNCHANGED verdict
At(pc) == run.pc = pc

-----------------------------------------------------------------------------
Start(tool) ==
    /\ run = NoRun
    /\ runs < MaxRuns
    /\ runs' = runs + 1
    /\ run' = [tool |-> tool, at |-> 1, pc |-> EntryPoint(Program(tool)[1]), op |-> "none"]
    /\ verdict' = "none"
    /\ clean' = (ops = {})
    /\ assumed' = {}
    /\ UNCHANGED <<cloudVars, faults>>

\* XxxExists; the group's member list; the backends of the service.
AlreadyThere(s) ==
    IF s.do = "insert" THEN Found(s.name)
    ELSE IF s.do = "addInstance" THEN {s.uses \subseteq members}
    ELSE {s.uses \subseteq res[s.name].uses}

\* What a setup relies on unseen if it takes the step for done.
ReliesOn(s) ==
    {n \in {s.name} \cup (IF s.do = "insert" THEN {} ELSE s.uses) : ~Ready(n)}

Check ==
    /\ At("check")
    /\ \/ /\ Current.do # "insert" => res[Current.name] # Absent
          /\ \E there \in AlreadyThere(Current) :
                IF there
                THEN Advance /\ assumed' = assumed \cup ReliesOn(Current)
                ELSE Goto("request") /\ UNCHANGED assumed
          /\ NoFault
       \/ /\ Current.do # "insert" /\ res[Current.name] = Absent
          /\ Fail
          /\ NoFault /\ UNCHANGED assumed
       \/ Fault /\ Fail /\ UNCHANGED assumed
    /\ UNCHANGED <<cloudVars, runs>>

\* The call that changes something.  It may be executed although it failed here.
Request ==
    /\ At("request")
    /\ \/ Begin(Current, TRUE)
          /\ run' = [run EXCEPT !.pc = "wait", !.op = "running"]
          /\ NoFault /\ UNCHANGED verdict
       \/ ~Accepts(Current) /\ Fail /\ NoFault /\ UNCHANGED cloudVars
       \/ Fault /\ Fail /\ UNCHANGED cloudVars
       \/ Fault /\ Begin(Current, FALSE) /\ Fail
    /\ UNCHANGED <<runs, assumed>>

\* Mutant: the loop ends only if the operation is done without an error.
FinishedWell == run.op = "ok"

\* op.GetStatus() == DONE
Finished == run.op # "running"

\* The wait function asks the client of the scope the operation belongs to.
SeesOperation == run.tool = "cleanup" \/ Current.wait = OperationScope(Current.kind)

\* createForwardingRule and createPSCForwardingRule read the rule's address back.
AfterWait == IF Current.kind = "forwarding-rule" THEN Goto("readBack") ELSE Advance

\* The wait functions, and gcloud's own waiting: poll until the operation is done.
Poll ==
    /\ At("wait")
    /\ \/ /\ Finished \/ ~SeesOperation
          /\ IF run.op = "error" \/ ~SeesOperation THEN Fail ELSE AfterWait
          /\ ops' = Orphaned(ops)
          /\ NoFault
       \/ Fault /\ Fail /\ ops' = Orphaned(ops)
    /\ UNCHANGED <<res, members, ports, boot, runs, assumed>>

ReadBack ==
    /\ At("readBack")
    /\ \/ Found(Current.name) = {TRUE} /\ Advance /\ NoFault
       \/ Fault /\ Fail
    /\ UNCHANGED <<cloudVars, runs, assumed>>

\* The tests end with an error only if a resource they look up is not found.
Look ==
    /\ At("look")
    /\ \/ (\A n \in Current.uses : TRUE \in Found(n)) /\ Advance /\ NoFault
       \/ (\E n \in Current.uses : FALSE \in Found(n)) /\ Fail /\ NoFault
       \/ Fault /\ Fail
    /\ UNCHANGED <<cloudVars, runs, assumed>>

\* WaitForVMsReady returns nil when both VMs run and the marker is there, and
\* after five minutes, whatever it sees or fails to see until then.
VMsReady ==
    /\ At("ready")
    /\ Advance
    /\ NoFault
    /\ UNCHANGED <<cloudVars, runs, assumed>>

Kill ==
    /\ run # NoRun
    /\ Fault
    /\ Leave("killed")
    /\ ops' = Orphaned(ops)
    /\ UNCHANGED <<res, members, ports, boot, runs, assumed>>

-----------------------------------------------------------------------------
\* An operation ends; if the tool waits for it, that is what it will see.
OperationEnds(o) ==
    /\ \E ok \in BOOLEAN :
        /\ End(o, ok)
        /\ IF ok THEN NoFault
           ELSE IF Hopeless(o) THEN NoFault
           ELSE Fault
        /\ run' = IF o.mine THEN [run EXCEPT !.op = IF ok THEN "ok" ELSE "error"] ELSE run
    /\ UNCHANGED <<verdict, runs, assumed>>

SomeOperationEnds == \E o \in ops : OperationEnds(o)

Boot == BootsFurther /\ UNCHANGED toolVars

Tool == Check \/ Request \/ Poll \/ ReadBack \/ Look \/ VMsReady

Next ==
    \/ Start("setup") \/ Start("cleanup")
    \/ Tool
    \/ Kill
    \/ SomeOperationEnds
    \/ Boot

(***************************************************************************)
(* Fairness.  A running tool goes on, operations end: every polling loop   *)
(* of the code relies on that, none has a deadline.                        *)
(***************************************************************************)
Spec == Init /\ [][Next]_vars
FairSpec ==
    /\ Spec
    /\ WF_vars(Tool)
    /\ WF_vars(SomeOperationEnds)
    /\ WF_vars(Boot)

-----------------------------------------------------------------------------
TypeOK ==
    /\ CloudTypeOK
    /\ run \in [tool: {"setup", "cleanup"}, at: Nat \ {0},
                pc: {"check", "request", "wait", "readBack", "look", "ready"},
                op: {"none", "running", "ok", "error"}] \cup {NoRun}
    /\ verdict \in {"none", "setup", "cleanup", "failed", "killed"}
    /\ runs \in Nat /\ faults \in Nat
    /\ clean \in BOOLEAN
    /\ assumed \subseteq Names

(***************************************************************************)
(* Properties.                                                             *)
(***************************************************************************)
\* "Safe to re-run if partially failed" (golang/README.md:12): whatever killed or
\* failed runs of the two tools left behind, a setup that starts when no operation
\* is under way and meets no failure of its own does not fail.
RerunSucceeds == verdict = "failed" => ~clean

Complete(n) ==
    /\ Ready(n)
    /\ n = Config.Group => ports /\ (Config.ProviderVM \in members \cup assumed)
    /\ n = Config.BackendService => Config.Group \in res[n].uses

\* A setup that says it succeeded leaves everything in place and wired up, but for
\* what it found in the middle of a change some earlier run had begun.
SuccessIsComplete ==
    verdict = "setup" => \A n \in Names \ assumed : Complete(n)

\* What cannot be deleted keeps what it refers to.
Stuck == NoCommand \cup UNION {res[n].uses : n \in NoCommand}

\* The order of the cleanup respects every reference: if nothing fails, it leaves
\* only what gcloud has no command for, and what that refers to.
CleanupLeavesLittle ==
    verdict = "cleanup" /\ clean => \A n \in Names \ Stuck : res[n] = Absent

\* No run hangs: every wait ends and every program reaches its end.
RunsEnd == run # NoRun ~> run = NoRun

\* vpc.go:228 and vpc.go:250 describe the rule and its creation as egress.
EgressRules == {"hypershift-redhat-allow-egress", "hypershift-customer-allow-egress"}
EgressIsEgress == verdict = "setup" => \A n \in EgressRules : res[n].kind = "EGRESS"
=============================================================================
