---------------------------- MODULE FaultControl ----------------------------
(***************************************************************************)
(* `python scripts/workshop.py fault <action>` run from several consoles   *)
(* against one workshop environment: fault(), deploy_postgresql_fault(),   *)
(* postgresql_fault_status() and vm_fault() of scripts/workshop.py.        *)
(*                                                                         *)
(* The rule is written by an Azure deployment with the fixed name          *)
(* orders-postgresql-fault, so a second one is refused while one is        *)
(* active.  A console that stops waiting (az timed out, Ctrl-C) leaves its *)
(* deployment or its VM command running.                                   *)
(***************************************************************************)
EXTENDS VmFaults

CONSTANT Menu  \* the actions each console may run

VARIABLES deployment,  \* the active orders-postgresql-fault deployment
          op,          \* each console's current or last operation
          writer       \* history: whose deployment of the rule started last

vars == <<access, enforced, pooled, fresh, cpu, job, deployment, op, writer>>

Actions == {"cpu", "postgresql", "status", "reset", "reset-cpu",
            "reset-postgresql"}
RuleActions == {"postgresql", "reset", "reset-postgresql"}

ASSUME MenuAssumption == Menu \in [Operators -> SUBSET Actions]

NoDeployment == [owner |-> Nobody, target |-> "none"]
Deployments  == [owner : Operators \cup {Nobody}, target : Access]

\* The calls an operation makes one after another, the VM commands ...
VmPoints == {"checkVm", "recycle", "resetCpu", "startCpu", "probe"}
\* ... the other calls, and how it ends.
Points == VmPoints \cup {"deploy", "readBack", "ruleStatus"}
Ends   == {"idle", "succeeded", "failed", "partial"}

Ops == [action : Actions, at : Points \cup Ends]

Target(action) == IF action = "postgresql" THEN "Deny" ELSE "Allow"

CommandAt(o) ==
    CASE op[o].at = "checkVm"  -> "status"
      [] op[o].at = "resetCpu" -> "reset"
      [] op[o].at = "startCpu" -> "cpu"
      [] op[o].at = "probe"    -> "postgresql-status"
      [] op[o].at = "recycle"  -> IF op[o].action = "postgresql"
                                  THEN "postgresql-denied"
                                  ELSE "postgresql-ready"

FirstCall(action) ==
    CASE action = "cpu"        -> "startCpu"
      [] action = "postgresql" -> "checkVm"
      [] action = "reset-cpu"  -> "resetCpu"
      [] action = "status"     -> "ruleStatus"
      [] OTHER                 -> "deploy"

\* What follows a call that returned.
NextCall(action, point) ==
    CASE point = "checkVm"                            -> "deploy"
      [] point = "deploy"                             -> "readBack"
      [] point = "readBack"                           -> "recycle"
      [] point = "recycle" /\ action = "reset"        -> "resetCpu"
      [] point = "startCpu"                           -> "ruleStatus"
      [] point = "resetCpu" /\ action = "reset-cpu"   -> "ruleStatus"
      [] point = "ruleStatus" /\ action = "status"    -> "probe"
      [] OTHER                                        -> "succeeded"

\* Mutation of FailureAt: an error leaves the operation where it is not known.
FailureUnreported(action, point) == "unreported"

\* A DeploymentError after the rule was read back is reported as partial.
FailureAt(action, point) ==
    IF action \in RuleActions /\ point \in {"recycle", "resetCpu"}
    THEN "partial" ELSE "failed"

Init ==
    /\ VmInit
    /\ deployment = NoDeployment
    /\ op = [o \in Operators |-> [action |-> "status", at |-> "idle"]]
    /\ writer = Nobody

-----------------------------------------------------------------------------
\* The call of o returned, or raised DeploymentError.
Advance(o) == op' = [op EXCEPT ![o].at = NextCall(op[o].action, @)]
Fail(o)    == op' = [op EXCEPT ![o].at = FailureAt(op[o].action, @)]

\* A participant runs `fault <action>`.
Start(o) ==
    /\ op[o].at \in Ends
    /\ \E action \in Menu[o] :
          op' = [op EXCEPT ![o] = [action |-> action,
                                   at     |-> FirstCall(action)]]
    /\ UNCHANGED <<access, vmVars, deployment, writer>>

\* az deployment group create; refused while the deployment of that name is
\* active.
StartDeployment(o) ==
    /\ op[o].at = "deploy"
    /\ deployment.owner # o
    /\ IF deployment = NoDeployment
       THEN /\ deployment' = [owner |-> o, target |-> Target(op[o].action)]
            /\ writer' = o
            /\ UNCHANGED op
       ELSE Fail(o) /\ UNCHANGED <<deployment, writer>>
    /\ UNCHANGED <<access, vmVars>>

\* The deployment writes the rule and ends; the console that still waits
\* for it goes on to the read-back.
DeploymentSucceeds ==
    /\ deployment # NoDeployment
    /\ access' = deployment.target
    /\ deployment' = NoDeployment
    /\ IF deployment.owner # Nobody THEN Advance(deployment.owner)
                                    ELSE UNCHANGED op
    /\ UNCHANGED <<vmVars, writer>>

\* It ends in an error, before or after it wrote the rule.
DeploymentFails ==
    /\ deployment # NoDeployment
    /\ access' \in {access, deployment.target}
    /\ deployment' = NoDeployment
    /\ IF deployment.owner # Nobody THEN Fail(deployment.owner)
                                    ELSE UNCHANGED op
    /\ UNCHANGED <<vmVars, writer>>

\* deploy_postgresql_fault reads the rule back: az may fail, and a rule that
\* is not the one deployed is an error.
ReadBack(o) ==
    /\ op[o].at = "readBack"
    /\ \/ access = Target(op[o].action) /\ Advance(o)
       \/ Fail(o)
    /\ UNCHANGED <<access, vmVars, deployment, writer>>

\* postgresql_fault_status; reading Azure can fail.
RuleStatus(o) ==
    /\ op[o].at = "ruleStatus"
    /\ Advance(o) \/ Fail(o)
    /\ UNCHANGED <<access, vmVars, deployment, writer>>

\* az vm run-command invoke; refused while another command runs on the VM.
InvokeVm(o) ==
    /\ op[o].at \in VmPoints
    /\ job.owner # o
    /\ IF job = NoJob
       THEN /\ job' = NewJob(o, CommandAt(o))
            /\ UNCHANGED op
       ELSE Fail(o) /\ UNCHANGED job
    /\ UNCHANGED <<network, process, cpu, deployment, writer>>

\* run_result finds the success record with this operation's request ID, or
\* raises.
VmReturns(o) ==
    /\ job.owner = o
    /\ job.phase \in {"ok", "error"}
    /\ job' = NoJob
    /\ IF job.phase = "ok" THEN Advance(o) ELSE Fail(o)
    /\ UNCHANGED <<network, process, cpu, deployment, writer>>

\* Mutation of Abandon: the command keeps the request ID of the operation
\* that gave it up.
AbandonKeepingRequest(o) ==
    /\ op[o].at \in Points
    /\ Fail(o)
    /\ UNCHANGED <<network, process, cpu, deployment, job, writer>>

\* The console stops waiting: az timed out (300 s, 240 s), or Ctrl-C at any
\* call.  What Azure started for it goes on.
Abandon(o) ==
    /\ op[o].at \in Points
    /\ Fail(o)
    /\ deployment' = IF deployment.owner = o
                     THEN [deployment EXCEPT !.owner = Nobody] ELSE deployment
    /\ job' = IF job.owner = o THEN [job EXCEPT !.owner = Nobody] ELSE job
    /\ UNCHANGED <<network, process, cpu, writer>>

OnVm == VmNext /\ UNCHANGED <<access, deployment, op, writer>>

Console(o) ==
    \/ StartDeployment(o) \/ ReadBack(o) \/ RuleStatus(o)
    \/ InvokeVm(o) \/ VmReturns(o)

Next ==
    \/ \E o \in Operators : Start(o) \/ Console(o) \/ Abandon(o)
    \/ DeploymentSucceeds \/ DeploymentFails
    \/ OnVm

Spec == Init /\ [][Next]_vars

\* Azure finishes what it accepted, faults.py runs to its end (its deadline
\* passes), a console makes its next call.  Nobody is obliged to start an
\* operation, to give one up, or to let the rule propagate.
Fairness ==
    /\ \A o \in Operators : WF_vars(Console(o))
    /\ WF_vars(DeploymentSucceeds \/ DeploymentFails)
    /\ WF_vars(JobStep /\ OnVm)
    /\ SF_vars(DeadlinePasses /\ OnVm)

FairSpec == Spec /\ Fairness

-----------------------------------------------------------------------------
TypeOK ==
    /\ access \in Access /\ enforced \in Access
    /\ pooled \in BOOLEAN /\ fresh \in BOOLEAN
    /\ cpu \in {"inactive", "active"}
    /\ job \in Jobs \cup {NoJob}
    /\ deployment \in Deployments \cup {NoDeployment}
    /\ op \in [Operators -> Ops]
    /\ writer \in Operators \cup {Nobody}

\* A successful operation, and no other console has deployed the rule since.
Stands(o) == op[o].at = "succeeded" /\ writer = o

\* A `fault postgresql` reported as verified is true in the data plane, not
\* only in the rule: new connections to PostgreSQL are refused until somebody
\* deploys the rule again, whatever the other consoles, the abandoned
\* deployments and the abandoned VM commands do.
InjectHolds ==
    \A o \in Operators : Stands(o) /\ op[o].action = "postgresql" =>
        access = "Deny" /\ enforced = "Deny"

\* A reset reported as verified stays verified: PostgreSQL is reachable over
\* new connections, so the 200s of the probes did not come from a connection
\* that outlived the Deny, and no write of an earlier inject is on its way.
ResetHolds ==
    \A o \in Operators :
        Stands(o) /\ op[o].action \in {"reset", "reset-postgresql"} =>
            access = "Allow" /\ enforced = "Allow"

\* The answer a console waits for is the answer to the command its own
\* operation has reached: the output of a command that an earlier operation
\* gave up is never taken for it.
VerdictMatches ==
    \A o \in Operators :
        job.owner = o => op[o].at \in VmPoints /\ job.cmd = CommandAt(o)

\* Every fault command ends, whatever the other consoles do meanwhile.
EveryOperationEnds ==
    \A o \in Operators : op[o].at \in Points ~> op[o].at \in Ends

\* A command its console gave up does not block the VM for ever.
VmIsFreed == job # NoJob ~> job = NoJob
=============================================================================
