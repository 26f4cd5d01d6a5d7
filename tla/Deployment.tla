----------------------------- MODULE Deployment -----------------------------
(***************************************************************************)
(* `azd up`, `azd provision` and `azd down` with the hooks prepare(),      *)
(* preprovision() and postprovision() of scripts/workshop.py, its commands *)
(* smoke, inspect, verify-restart and benchmark, and what they run on the  *)
(* VM: scripts/vm/install.sh and scripts/vm/inspect.py.                    *)
(*                                                                         *)
(* An environment is created in a resource group, removed with it and      *)
(* created again under the same names: `gen` counts the environments.  Its *)
(* evidence lives in .workshop/<environment> on the console, a file being  *)
(* abstracted to the environment it was obtained from (0: no file).        *)
(*                                                                         *)
(* A killed command leaves in Azure what it started there: the template    *)
(* deployment, the deletion of the group, the Run Command on the VM.       *)
(***************************************************************************)
EXTENDS Naturals

CONSTANTS Menu,       \* the commands run from the console
          MaxGen,     \* bound: environments created
          MaxDigest   \* bound: versions of the application's source

Commands == {"up", "provision", "down", "smoke", "inspect", "verify",
             "benchmark"}

ASSUME BoundsAssumption == MaxGen \in Nat /\ MaxDigest \in Nat \ {0}
ASSUME MenuAssumption   == Menu \subseteq Commands

VARIABLES group,     \* the resource group
          gen,       \* the environment the group holds, or last held
          ready,     \* it has its VM and its PostgreSQL server
          arm,       \* the template deployment that runs in Azure
          link,      \* the release /opt/orders-api/current points to
          running,   \* the release the service runs
          bundle,    \* the digest in /opt/orders-api/bundle.sha256
          schema,    \* the database has its schema and the seed orders
          job,       \* the Run Command that runs on the VM
          source,    \* the digest of the sources on the console
          op,        \* the console's command
          files      \* the evidence on the console

azure == <<group, gen, ready, arm>>
vm    == <<link, running, bundle, schema>>
vars  == <<azure, vm, job, source, op, files>>

Gens    == 0..MaxGen
Digests == 0..MaxDigest

\* "empty": explicitly selected, with neither tags nor resources.
Groups == {"absent", "empty", "present", "deleting"}

\* A template deployment or Run Command is `mine` while a command waits for it.
NoArm == [step |-> "none", mine |-> FALSE]
Arms  == [step : {"none", "started", "created"}, mine : BOOLEAN]

NoJob == [kind |-> "none", phase |-> "none", digest |-> 0, mine |-> FALSE]
Phases == {"build", "bootstrap", "switch", "restart", "ready", "record",
           "inspect", "ok", "error"}
Jobs == [kind : {"install", "inspect"}, phase : Phases, digest : Digests,
         mine : BOOLEAN]

\* The calls of a command, in order, and how it ends.
Points == {"fresh", "prepare", "preflight", "preprovision", "arm", "vm", "plan",
           "smoke", "benchmark", "predown", "delete", "inspect", "before",
           "witness", "restart", "after", "compare"}
Ends   == {"idle", "succeeded", "failed"}
Ops    == [cmd : Commands, at : Points \cup Ends, digest : Digests]

NoFiles == [witness |-> 0, smoke |-> 0, deployed |-> 0,
            restart |-> 0]
Files   == [witness : Gens, smoke : Gens, deployed : Gens,
            restart : Gens]

Init ==
    /\ group \in {"absent", "empty"} /\ gen = 0 /\ ready = FALSE /\ arm = NoArm
    /\ link = 0 /\ running = 0 /\ bundle = 0 /\ schema = FALSE
    /\ job = NoJob
    /\ source = 1
    /\ op = [cmd |-> "up", at |-> "idle", digest |-> 0]
    /\ files = NoFiles

Deployed == group = "present" /\ ready

\* What the public API answers 200 to.
Serving == group = "present" /\ running # 0 /\ schema

FirstPoint(cmd) ==
    CASE cmd = "up"        -> "prepare"
      [] cmd = "benchmark" -> "fresh"
      [] cmd = "provision" -> "preprovision"
      [] cmd = "down"      -> "predown"
      [] cmd = "verify"    -> "before"
      [] OTHER             -> cmd

\* What follows a call that returned.
NextPoint(cmd, point) ==
    CASE point = "fresh"        -> "prepare"
      [] point = "prepare"      -> "preflight"
      [] point = "preflight"    -> "preprovision"
      [] point = "preprovision" -> "arm"
      [] point = "arm"          -> "vm"
      [] point = "vm"           -> "plan"
      [] point = "plan"         -> "smoke"
      [] point = "smoke" /\ cmd = "benchmark" -> "benchmark"
      [] point = "predown"      -> "delete"
      [] point = "before"       -> "witness"
      [] point = "witness"      -> "restart"
      [] point = "restart"      -> "after"
      [] point = "after"        -> "compare"
      [] point = "compare"      -> "smoke"
      [] OTHER                  -> "succeeded"

Advance == op' = [op EXCEPT !.at = NextPoint(op.cmd, @)]
Fail    == op' = [op EXCEPT !.at = "failed"]

-----------------------------------------------------------------------------
(* The console.                                                            *)

Start ==
    /\ op.at \in Ends
    /\ \E cmd \in Menu :
          op' = [cmd |-> cmd, at |-> FirstPoint(cmd), digest |-> 0]
    /\ UNCHANGED <<azure, vm, job, source, files>>

\* The application is changed on the console.
Edit ==
    /\ source < MaxDigest
    /\ source' = source + 1
    /\ UNCHANGED <<azure, vm, job, op, files>>

\* Any call may fail, and stage() turns its error into the command's.
CallFails ==
    /\ op.at \in Points \ {"arm", "delete", "vm", "inspect", "before", "after"}
    /\ Fail
    /\ UNCHANGED <<azure, vm, job, source, files>>

\* The benchmark refuses a group that exists.
CheckFresh ==
    /\ op.at = "fresh"
    /\ IF group = "absent" THEN Advance ELSE Fail
    /\ UNCHANGED <<azure, vm, job, source, files>>

\* prepare: check_resource_group accepts a group with the workshop's tags and
\* a selected empty one; only where there is none the evidence is cleared.
Prepare ==
    /\ op.at = "prepare"
    /\ Advance
    /\ files' = IF group = "absent" THEN NoFiles ELSE files
    /\ UNCHANGED <<azure, vm, job, source>>

\* The rest of prepare: identity, VM size, providers, quota, key.
Preflight ==
    /\ op.at = "preflight"
    /\ Advance
    /\ UNCHANGED <<azure, vm, job, source, files>>

\* preprovision looks at the group again and clears nothing.
Preprovision ==
    /\ op.at = "preprovision"
    /\ Advance
    /\ UNCHANGED <<azure, vm, job, source, files>>

\* azd starts the template deployment and waits for it.
StartArm ==
    /\ op.at = "arm"
    /\ ~arm.mine
    /\ IF arm = NoArm
       THEN arm' = [step |-> "started", mine |-> TRUE] /\ UNCHANGED op
       ELSE Fail /\ UNCHANGED arm
    /\ UNCHANGED <<group, gen, ready, vm, job, source, files>>

\* run_vm; Azure refuses a second command on the VM.  bundle() reads the
\* sources at this moment.
RunVm ==
    /\ op.at \in {"vm", "inspect", "before", "after"}
    /\ ~job.mine
    /\ IF Deployed /\ job = NoJob
       THEN /\ job' = IF op.at = "vm"
                      THEN [kind |-> "install", phase |-> "build",
                            digest |-> source, mine |-> TRUE]
                      ELSE [kind |-> "inspect", phase |-> "inspect",
                            digest |-> 0, mine |-> TRUE]
            /\ op' = IF op.at = "vm" THEN [op EXCEPT !.digest = source] ELSE op
       ELSE Fail /\ UNCHANGED job
    /\ UNCHANGED <<azure, vm, source, files>>

\* run_result: the command's own success record, which deploy_vm compares with
\* the digest it sent.
VmReturns ==
    /\ job.mine
    /\ job.phase \in {"ok", "error"}
    /\ job' = NoJob
    /\ IF job.phase = "ok" /\ (op.at = "vm" => bundle = op.digest)
       THEN /\ Advance
            /\ files' = IF op.at = "vm" THEN [files EXCEPT !.deployed = gen]
                                        ELSE files
       ELSE Fail /\ UNCHANGED files
    /\ UNCHANGED <<azure, vm, source>>

\* ensure_sre_response_plan (IncidentWorkflow is its model).
ResponsePlan ==
    /\ op.at = "plan"
    /\ Advance
    /\ UNCHANGED <<azure, vm, job, source, files>>

\* smoke: ready, at least five orders, the schema version, no fault routes.
Smoke ==
    /\ op.at = "smoke"
    /\ Serving
    /\ Advance
    /\ files' = [files EXCEPT !.smoke = gen]
    /\ UNCHANGED <<azure, vm, job, source>>

\* The benchmark succeeds only with the evidence of the smoke test.
BenchmarkEnds ==
    /\ op.at = "benchmark"
    /\ IF files.smoke # 0 THEN Advance ELSE Fail
    /\ UNCHANGED <<azure, vm, job, source, files>>

\* predown removes the agent's subscription role.
Predown ==
    /\ op.at = "predown"
    /\ Advance
    /\ UNCHANGED <<azure, vm, job, source, files>>

\* azd down asks for the deletion of the group and waits; a group that is not
\* there, or has not azd's tag, is an error.
DeleteGroup ==
    /\ op.at = "delete"
    /\ \/ group = "present" /\ group' = "deleting" /\ UNCHANGED op
       \/ group \in {"absent", "empty"} /\ Fail /\ UNCHANGED group
    /\ UNCHANGED <<gen, ready, arm, vm, job, source, files>>

\* verify_restart reads the recorded order, or creates and records one.  The
\* server of a later environment has the same resource ID, so it is the order
\* itself that is not found there.
Witness ==
    /\ op.at = "witness"
    /\ Serving
    /\ IF files.witness \in {0, gen}
       THEN Advance /\ files' = [files EXCEPT !.witness = gen]
       ELSE Fail /\ UNCHANGED files
    /\ UNCHANGED <<azure, vm, job, source>>

\* az vm restart: what ran on the VM is lost, the service starts again from
\* the release that is linked.
RestartVm ==
    /\ op.at = "restart"
    /\ Deployed
    /\ Advance
    /\ running' = link
    /\ job' = NoJob
    /\ UNCHANGED <<azure, link, bundle, schema, source, files>>

\* The recorded order is still served after the restart.
Compare ==
    /\ op.at = "compare"
    /\ Serving
    /\ IF files.witness = gen
       THEN Advance /\ files' = [files EXCEPT !.restart = gen]
       ELSE Fail /\ UNCHANGED files
    /\ UNCHANGED <<azure, vm, job, source>>

\* The command is killed, or az gives up (900 s); Azure goes on.
Killed ==
    /\ op.at \in Points
    /\ Fail
    /\ arm' = [arm EXCEPT !.mine = FALSE]
    /\ job' = [job EXCEPT !.mine = FALSE]
    /\ UNCHANGED <<group, gen, ready, vm, source, files>>

Console ==
    \/ CheckFresh \/ Prepare \/ Preflight \/ Preprovision \/ StartArm \/ RunVm
    \/ VmReturns \/ ResponsePlan \/ Smoke \/ BenchmarkEnds \/ Predown \/ DeleteGroup
    \/ Witness \/ RestartVm \/ Compare \/ CallFails

-----------------------------------------------------------------------------
(* Azure.                                                                  *)

\* The template creates the group, or tags the empty one; it fails in a group
\* that is being deleted.
ArmCreates ==
    /\ arm.step = "started"
    /\ \/ /\ group \in {"absent", "empty"} /\ gen < MaxGen
          /\ group' = "present" /\ gen' = gen + 1
       \/ group = "present" /\ UNCHANGED <<group, gen>>
    /\ arm' = [arm EXCEPT !.step = "created"]
    /\ UNCHANGED <<ready, vm, job, source, op, files>>

ArmSucceeds ==
    /\ arm.step = "created"
    /\ group = "present"
    /\ arm' = NoArm
    /\ ready' = TRUE
    /\ IF arm.mine THEN Advance ELSE UNCHANGED op
    /\ UNCHANGED <<group, gen, vm, job, source, files>>

ArmFails ==
    /\ arm # NoArm
    /\ arm' = NoArm
    /\ IF arm.mine THEN Fail ELSE UNCHANGED op
    /\ UNCHANGED <<group, gen, ready, vm, job, source, files>>

\* The deletion ends; azd down, if it still waits, has succeeded.
GroupDeleted ==
    /\ group = "deleting"
    /\ group' = "absent"
    /\ ready' = FALSE
    /\ link' = 0 /\ running' = 0 /\ bundle' = 0 /\ schema' = FALSE
    /\ job' = NoJob
    /\ op' = IF op.at = "delete" THEN [op EXCEPT !.at = "succeeded"]
             ELSE IF job.mine    THEN [op EXCEPT !.at = "failed"]
             ELSE op
    /\ UNCHANGED <<gen, arm, source, files>>

\* An organizer creates the group for the participant who selected it.
GroupCreated ==
    /\ group = "absent"
    /\ group' = "empty"
    /\ UNCHANGED <<gen, ready, arm, vm, job, source, op, files>>

Azure == ArmCreates \/ ArmSucceeds \/ ArmFails \/ GroupDeleted \/ GroupCreated

-----------------------------------------------------------------------------
(* The VM: install.sh under set -e, each step of which may fail, and       *)
(* inspect.py.                                                             *)

At(phase) == job # NoJob /\ job.phase = phase

Then(phase) == job' = [job EXCEPT !.phase = phase]

\* cloud-init, packages, faults.py and inspect.py, publish, configuration.
BuildRelease ==
    /\ At("build")
    /\ Then("bootstrap") \/ Then("error")
    /\ UNCHANGED <<azure, vm, source, op, files>>

\* Mutation of Bootstrap: the last failed attempt is ignored.
BootstrapIgnored ==
    /\ At("bootstrap")
    /\ Then("switch")
    /\ schema' \in {schema, TRUE}
    /\ UNCHANGED <<azure, link, running, bundle, source, op, files>>

\* Up to thirty attempts at the one transaction that creates the schema and
\* the seed orders; an attempt that is killed may have been committed.
Bootstrap ==
    /\ At("bootstrap")
    /\ \/ Then("switch") /\ schema' = TRUE
       \/ Then("error") /\ schema' \in {schema, TRUE}
    /\ UNCHANGED <<azure, link, running, bundle, source, op, files>>

SwitchRelease ==
    /\ At("switch")
    /\ link' = job.digest
    /\ Then("restart")
    /\ UNCHANGED <<azure, running, bundle, schema, source, op, files>>

\* Mutation of RestartService: the service is started, which does nothing
\* when it runs.
StartService ==
    /\ At("restart")
    /\ running' = IF running = 0 THEN link ELSE running
    /\ Then("ready")
    /\ UNCHANGED <<azure, link, bundle, schema, source, op, files>>

RestartService ==
    /\ At("restart")
    /\ \/ running' = link /\ Then("ready")
       \/ Then("error") /\ UNCHANGED running
    /\ UNCHANGED <<azure, link, bundle, schema, source, op, files>>

\* Readiness within 36 attempts.
AwaitReady ==
    /\ At("ready")
    /\ \/ schema /\ Then("record")
       \/ Then("error")
    /\ UNCHANGED <<azure, vm, source, op, files>>

\* Mutation of RecordBundle: the file is cut short, the digest of no source.
RecordBundleCut ==
    /\ At("record")
    /\ bundle' = MaxDigest + 1
    /\ Then("inspect")
    /\ UNCHANGED <<azure, link, running, schema, source, op, files>>

RecordBundle ==
    /\ At("record")
    /\ bundle' = job.digest
    /\ Then("inspect")
    /\ UNCHANGED <<azure, link, running, schema, source, op, files>>

\* inspect.py: service, private DNS, migration, seed orders, health.
Inspect ==
    /\ At("inspect")
    /\ \/ running # 0 /\ schema /\ Then("ok")
       \/ Then("error")
    /\ UNCHANGED <<azure, vm, source, op, files>>

\* A finished command nobody waits for.
JobForgotten ==
    /\ At("ok") \/ At("error")
    /\ ~job.mine
    /\ job' = NoJob
    /\ UNCHANGED <<azure, vm, source, op, files>>

Vm ==
    \/ BuildRelease \/ Bootstrap \/ SwitchRelease \/ RestartService
    \/ AwaitReady \/ RecordBundle \/ Inspect \/ JobForgotten

Next == Start \/ Edit \/ Console \/ Killed \/ Azure \/ Vm

Spec == Init /\ [][Next]_vars

-----------------------------------------------------------------------------
TypeOK ==
    /\ group \in Groups /\ gen \in Gens /\ ready \in BOOLEAN /\ arm \in Arms
    /\ link \in Digests /\ running \in Digests /\ bundle \in Digests
    /\ schema \in BOOLEAN
    /\ job \in Jobs \cup {NoJob}
    /\ source \in 1..MaxDigest
    /\ op \in Ops
    /\ files \in Files

UpSucceeded == op.cmd \in {"up", "provision", "benchmark"} /\ op.at = "succeeded"

\* An `azd up` (or benchmark) that reports success has left the application it
\* read from the console running in the environment that now exists, and its
\* deployment and smoke evidence is of that environment: never of a removed
\* one, and never the work of a command that an earlier run gave up.
UpIsVerified ==
    UpSucceeded =>
        /\ Serving
        /\ running = op.digest /\ link = op.digest /\ bundle = op.digest
        /\ files.deployed = gen /\ files.smoke = gen

\* The service never runs before the database has its schema and seed orders,
\* not even after a failed bootstrap, a kill or a VM restart half way.
SchemaBeforeService == running # 0 => schema
=============================================================================
