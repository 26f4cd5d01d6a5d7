------------------------ MODULE FaultControl_proofs -------------------------
(***************************************************************************)
(* Proofs about FaultControl for any set of consoles and any menus: types, *)
(* and that a verified inject or reset holds in the data plane.            *)
(***************************************************************************)
EXTENDS FaultControl, VmFaults_proofs

-----------------------------------------------------------------------------
(* The inductive invariant.  Its parts follow the life of an operation on  *)
(* the rule whose console was the last to have a deployment accepted.      *)

\* Operations on the rule make none of the calls of the other operations.
CallsMatch ==
    \A o \in Operators : op[o].action \in RuleActions =>
        op[o].at \in {"checkVm", "deploy", "readBack", "recycle", "resetCpu"}
                       \cup Ends

\* A deployment a console waits for is the one its operation asked for.
DeploymentMatches ==
    \A o \in Operators : deployment.owner = o =>
        /\ op[o].at = "deploy"
        /\ deployment.target = Target(op[o].action)

\* The operation of o has deployed, and nobody has deployed since.
Owns(o, points) ==
    writer = o /\ op[o].action \in RuleActions /\ op[o].at \in points

\* Its deployment is over, so nothing will write the rule by itself.
RuleSettled ==
    \A o \in Operators :
        Owns(o, {"readBack", "recycle", "resetCpu", "succeeded"}) =>
            deployment = NoDeployment

\* After the read-back the rule is the target.
RuleRead ==
    \A o \in Operators : Owns(o, {"recycle", "resetCpu", "succeeded"}) =>
        access = Target(op[o].action)

\* What the running recycle has observed so far shows the data plane.
RecycleObserves ==
    \A o \in Operators : Owns(o, {"recycle"}) /\ job.owner = o => Observes

\* After the recycle the data plane enforces the target.
Verified ==
    \A o \in Operators : Owns(o, {"resetCpu", "succeeded"}) =>
        enforced = Target(op[o].action)

IInv ==
    /\ TypeOK /\ VerdictMatches /\ CallsMatch /\ DeploymentMatches
    /\ RuleSettled /\ RuleRead /\ RecycleObserves /\ Verified

-----------------------------------------------------------------------------
(* Lemmas on the operators the actions are built from.                     *)

\* NextCall and FailureAt stay within the points and ends of an operation.
LEMMA CallsTyped ==
    ASSUME NEW action, NEW point
    PROVE  /\ NextCall(action, point) \in Points \cup Ends
           /\ FailureAt(action, point) \in {"failed", "partial"}
           /\ FirstCall(action) \in Points
  BY DEF NextCall, FailureAt, FirstCall, Points, VmPoints, Ends

\* A call that returns or fails moves its own operation and no other.
LEMMA AdvanceFrame ==
    ASSUME TypeOK, NEW o \in Operators, Advance(o)
    PROVE  /\ op' \in [Operators -> Ops]
           /\ op'[o].action = op[o].action
           /\ op'[o].at = NextCall(op[o].action, op[o].at)
           /\ \A p \in Operators : p # o => op'[p] = op[p]
  BY CallsTyped DEF TypeOK, Advance, Ops

\* A call that fails leaves its operation at an end and the others alone.
LEMMA FailFrame ==
    ASSUME TypeOK, NEW o \in Operators, Fail(o)
    PROVE  /\ op' \in [Operators -> Ops]
           /\ op'[o].action = op[o].action
           /\ op'[o].at \in {"failed", "partial"}
           /\ \A p \in Operators : p # o => op'[p] = op[p]
  BY CallsTyped DEF TypeOK, Fail, Ops, Ends

\* The command for a point is one faults.py knows.
LEMMA CommandTyped ==
    ASSUME NEW o \in Operators, op[o].at \in VmPoints
    PROVE  /\ CommandAt(o) \in Commands
           /\ op[o].at = "recycle" => CommandAt(o) \in Recycles
  BY DEF CommandAt, Commands, VmPoints, Recycles

-----------------------------------------------------------------------------
(* Types.                                                                  *)

\* The initial states of the environment and of the consoles are typed.
LEMMA TypeInit == Init => TypeOK
  <1>1. [action |-> "status", at |-> "idle"] \in Ops
    BY DEF Ops, Actions, Ends
  <1> QED
    BY <1>1 DEF Init, VmInit, TypeOK, Access

\* Every step of fault(), of Azure and of faults.py keeps the types.
LEMMA TypeStep ==
    ASSUME TypeOK, [Next]_vars
    PROVE  TypeOK'
  <1>1. ASSUME NEW o \in Operators, Start(o) PROVE TypeOK'
    <2>1. PICK action \in Menu[o] :
              op' = [op EXCEPT ![o] = [action |-> action,
                                       at     |-> FirstCall(action)]]
      BY <1>1 DEF Start
    <2>2. [action |-> action, at |-> FirstCall(action)] \in Ops
      BY MenuAssumption, CallsTyped DEF Ops
    <2> QED
      BY <1>1, <2>1, <2>2 DEF Start, vmVars, TypeOK
  <1>2. ASSUME NEW o \in Operators, StartDeployment(o) PROVE TypeOK'
    BY <1>2, FailFrame
       DEF StartDeployment, vmVars, TypeOK, Deployments, Target, Access
  <1>3. ASSUME NEW o \in Operators, ReadBack(o) PROVE TypeOK'
    BY <1>3, FailFrame, AdvanceFrame DEF ReadBack, vmVars, TypeOK
  <1>4. ASSUME NEW o \in Operators, RuleStatus(o) PROVE TypeOK'
    BY <1>4, FailFrame, AdvanceFrame DEF RuleStatus, vmVars, TypeOK
  <1>5. ASSUME NEW o \in Operators, InvokeVm(o) PROVE TypeOK'
    <2>1. op[o].at \in VmPoints => NewJob(o, CommandAt(o)) \in Jobs
      BY CommandTyped, NewJobTyped
    <2> QED
      BY <1>5, <2>1, FailFrame DEF InvokeVm, network, process, TypeOK
  <1>6. ASSUME NEW o \in Operators, VmReturns(o) PROVE TypeOK'
    BY <1>6, FailFrame, AdvanceFrame
       DEF VmReturns, network, process, TypeOK
  <1>7. ASSUME NEW o \in Operators, Abandon(o) PROVE TypeOK'
    <2>1. job' \in Jobs \cup {NoJob}
      BY <1>7, NobodyAssumption DEF Abandon, TypeOK, Jobs, NoJob
    <2>2. deployment' \in Deployments \cup {NoDeployment}
      BY <1>7, NobodyAssumption
         DEF Abandon, TypeOK, Deployments, NoDeployment
    <2> QED
      BY <1>7, <2>1, <2>2, FailFrame DEF Abandon, network, process, TypeOK
  <1>8. CASE DeploymentSucceeds
    <2>1. deployment.target \in Access
      BY <1>8 DEF DeploymentSucceeds, TypeOK, Deployments
    <2>2. deployment.owner \in Operators \cup {Nobody}
      BY <1>8 DEF DeploymentSucceeds, TypeOK, Deployments
    <2> QED
      BY <1>8, <2>1, <2>2, AdvanceFrame
         DEF DeploymentSucceeds, vmVars, TypeOK
  <1>9. CASE DeploymentFails
    <2>1. deployment.target \in Access
      BY <1>9 DEF DeploymentFails, TypeOK, Deployments
    <2>2. deployment.owner \in Operators \cup {Nobody}
      BY <1>9 DEF DeploymentFails, TypeOK, Deployments
    <2> QED
      BY <1>9, <2>1, <2>2, FailFrame DEF DeploymentFails, vmVars, TypeOK
  <1>10. CASE OnVm
    <2>1. VmTypeOK
      BY DEF TypeOK, VmTypeOK
    <2> QED
      BY <1>10, <2>1, JobStepTypes, EnvironmentTypes DEF OnVm, VmNext, TypeOK
  <1>11. CASE UNCHANGED vars
    BY <1>11 DEF vars, TypeOK
  <1> QED
    BY <1>1, <1>2, <1>3, <1>4, <1>5, <1>6, <1>7, <1>8, <1>9, <1>10, <1>11
       DEF Next, Console

\* Every state of fault() and faults.py has its type, whatever the set of
\* consoles and the actions they run.
THEOREM TypeCorrect == Spec => []TypeOK
  BY TypeInit, TypeStep, PTL DEF Spec

-----------------------------------------------------------------------------
(* The invariant is inductive.  First the calls of a console.              *)

\* The parts of IInv that speak of operations and deployments.
OpInv == CallsMatch /\ DeploymentMatches /\ RuleSettled /\ RuleRead /\ Verified

\* An operation that ends unsuccessfully leaves every claim about the others.
LEMMA FailPreserves ==
    ASSUME IInv, NEW o \in Operators, Fail(o), UNCHANGED <<access, enforced>>,
           writer' = writer,
           deployment' \in {deployment, NoDeployment,
                            [deployment EXCEPT !.owner = Nobody]},
           deployment'.owner # o
    PROVE  OpInv'
  <1>1. \A p \in Operators : p # o => op'[p] = op[p]
    BY FailFrame DEF IInv
  <1>2. op'[o].at \in {"failed", "partial"}
    BY FailFrame DEF IInv
  <1>3. \A p \in Operators : deployment'.owner = p =>
                deployment' = deployment /\ p # o
    BY NobodyAssumption DEF NoDeployment, IInv, TypeOK, Deployments
  <1>4. deployment = NoDeployment => deployment' = NoDeployment
    BY DEF NoDeployment
  <1>5. CallsMatch' /\ DeploymentMatches'
    BY <1>1, <1>2, <1>3 DEF IInv, CallsMatch, DeploymentMatches, Ends
  <1>6. RuleSettled' /\ RuleRead' /\ Verified'
    BY <1>1, <1>2, <1>4 DEF IInv, RuleSettled, RuleRead, Verified, Owns
  <1> QED
    BY <1>5, <1>6 DEF OpInv

\* The recycle of an operation that owns the rule wants to see its target.
LEMMA RecycleWants ==
    ASSUME IInv, NEW o \in Operators, Owns(o, {"recycle"}), job.owner = o
    PROVE  /\ VmTypeOK /\ job.cmd \in Recycles /\ Observes
           /\ Wanted(job.cmd) = Target(op[o].action)
           /\ access = Target(op[o].action)
  <1>1. VmTypeOK
    BY DEF IInv, TypeOK, VmTypeOK
  <1>2. Observes /\ access = Target(op[o].action)
    BY DEF IInv, RecycleObserves, RuleRead, Owns
  <1>3. job.cmd = CommandAt(o) /\ op[o].at = "recycle"
        /\ op[o].action \in RuleActions
    BY DEF IInv, VerdictMatches, Owns
  <1> QED
    BY <1>1, <1>2, <1>3 DEF CommandAt, Recycles, Wanted, Target, RuleActions

\* A step of one console that is not waiting for the VM.
LEMMA JobClaimsKept ==
    ASSUME IInv, NEW o \in Operators, job.owner # o,
           UNCHANGED <<enforced, pooled, job, writer>>,
           \A p \in Operators : p # o => op'[p] = op[p]
    PROVE  VerdictMatches' /\ RecycleObserves'
  <1>1. ASSUME NEW p \in Operators, job'.owner = p
        PROVE  /\ op'[p] = op[p] /\ job.owner = p /\ job' = job
               /\ CommandAt(p)' = CommandAt(p)
    BY <1>1 DEF CommandAt
  <1>2. VerdictMatches'
    BY <1>1 DEF IInv, VerdictMatches
  <1>3. RecycleObserves'
    BY <1>1 DEF IInv, RecycleObserves, Owns, Observes
  <1> QED
    BY <1>2, <1>3

\* Starting a fault action makes no claim and keeps those of the others.
LEMMA StartPreserves ==
    ASSUME IInv, NEW o \in Operators, Start(o), TypeOK'
    PROVE  IInv'
  <1>1. PICK action \in Menu[o] :
            op' = [op EXCEPT ![o] = [action |-> action,
                                     at     |-> FirstCall(action)]]
    BY DEF Start
  <1>2. /\ op'[o].action = action /\ op'[o].at = FirstCall(action)
        /\ \A p \in Operators : p # o => op'[p] = op[p]
    BY <1>1 DEF IInv, TypeOK
  <1>3. action \in RuleActions => FirstCall(action) \in {"checkVm", "deploy"}
    BY DEF RuleActions, FirstCall
  <1>4. job.owner # o /\ deployment.owner # o
    BY DEF Start, IInv, VerdictMatches, DeploymentMatches, Ends, VmPoints
  <1>5. UNCHANGED <<access, enforced, pooled, job, deployment, writer>>
    BY DEF Start, vmVars
  <1>6. VerdictMatches'
    BY <1>2, <1>4, <1>5 DEF IInv, VerdictMatches, CommandAt
  <1>7. CallsMatch' /\ DeploymentMatches'
    BY <1>2, <1>3, <1>4, <1>5 DEF IInv, CallsMatch, DeploymentMatches
  <1>8. RuleSettled' /\ RuleRead' /\ Verified'
    BY <1>2, <1>3, <1>5 DEF IInv, RuleSettled, RuleRead, Verified, Owns
  <1>9. RecycleObserves'
    BY <1>2, <1>4, <1>5 DEF IInv, RecycleObserves, Owns, Observes
  <1> QED
    BY <1>6, <1>7, <1>8, <1>9 DEF IInv

\* Deploying the rule withdraws the claims of every other console: it is the
\* last writer from then on.
LEMMA StartDeploymentPreserves ==
    ASSUME IInv, NEW o \in Operators, StartDeployment(o), TypeOK'
    PROVE  IInv'
  <1>1. UNCHANGED <<access, enforced, pooled, job>>
    BY DEF StartDeployment, vmVars
  <1>2. job.owner # o
    BY DEF StartDeployment, IInv, VerdictMatches, VmPoints
  <1>3. CASE deployment = NoDeployment
    <2>1. op' = op /\ writer' = o
      BY <1>3 DEF StartDeployment
    <2>2. deployment' = [owner |-> o, target |-> Target(op[o].action)]
      BY <1>3 DEF StartDeployment
    <2>3. \A p \in Operators : writer' = p => p = o
      BY <2>1
    <2>4. VerdictMatches'
      BY <1>1, <2>1 DEF IInv, VerdictMatches, CommandAt
    <2>5. CallsMatch' /\ DeploymentMatches'
      BY <2>1, <2>2 DEF StartDeployment, IInv, CallsMatch, DeploymentMatches
    <2>6. RuleSettled' /\ RuleRead' /\ RecycleObserves' /\ Verified'
      BY <2>1, <2>3
         DEF StartDeployment, RuleSettled, RuleRead, RecycleObserves,
             Verified, Owns
    <2> QED
      BY <2>4, <2>5, <2>6 DEF IInv
  <1>4. CASE deployment # NoDeployment
    <2>1. Fail(o) /\ deployment' = deployment /\ writer' = writer
      BY <1>4 DEF StartDeployment
    <2>2. OpInv'
      BY <1>1, <2>1, FailPreserves DEF StartDeployment
    <2>3. \A p \in Operators : p # o => op'[p] = op[p]
      BY <2>1, FailFrame DEF IInv
    <2>4. VerdictMatches' /\ RecycleObserves'
      BY <1>1, <1>2, <2>1, <2>3, JobClaimsKept
    <2> QED
      BY <2>2, <2>4 DEF IInv, OpInv
  <1> QED
    BY <1>3, <1>4

\* ReadBack and RuleStatus change only the operation of their console.
LEMMA ReadBackPreserves ==
    ASSUME IInv, NEW o \in Operators, ReadBack(o), TypeOK'
    PROVE  IInv'
  <1>1. UNCHANGED <<access, enforced, pooled, job, deployment, writer>>
    BY DEF ReadBack, vmVars
  <1>2. job.owner # o /\ deployment.owner # o
    BY DEF ReadBack, IInv, VerdictMatches, DeploymentMatches, VmPoints
  <1>3. \A p \in Operators : p # o => op'[p] = op[p]
    BY FailFrame, AdvanceFrame DEF IInv, ReadBack
  <1>4. VerdictMatches' /\ RecycleObserves'
    BY <1>1, <1>2, <1>3, JobClaimsKept
  <1>5. CASE Fail(o)
    BY <1>1, <1>2, <1>4, <1>5, FailPreserves DEF IInv, OpInv
  <1>6. CASE access = Target(op[o].action) /\ Advance(o)
    <2>1. op'[o].action = op[o].action /\ op'[o].at = "recycle"
      BY <1>6, AdvanceFrame DEF IInv, ReadBack, NextCall
    <2>2. CallsMatch' /\ DeploymentMatches'
      BY <1>1, <1>2, <1>3, <2>1 DEF IInv, CallsMatch, DeploymentMatches
    <2>3. RuleSettled' /\ RuleRead' /\ Verified'
      BY <1>1, <1>3, <1>6, <2>1
         DEF ReadBack, IInv, RuleSettled, RuleRead, Verified, Owns
    <2> QED
      BY <1>4, <2>2, <2>3 DEF IInv
  <1> QED
    BY <1>5, <1>6 DEF ReadBack

\* Reading the rule for a status changes nothing else.
LEMMA RuleStatusPreserves ==
    ASSUME IInv, NEW o \in Operators, RuleStatus(o), TypeOK'
    PROVE  IInv'
  <1>1. UNCHANGED <<access, enforced, pooled, job, deployment, writer>>
    BY DEF RuleStatus, vmVars
  <1>2. job.owner # o /\ deployment.owner # o
    BY DEF RuleStatus, IInv, VerdictMatches, DeploymentMatches, VmPoints
  <1>3. op[o].action \notin RuleActions
    BY DEF RuleStatus, IInv, CallsMatch, Ends
  <1>4. /\ op'[o].action = op[o].action
        /\ \A p \in Operators : p # o => op'[p] = op[p]
    BY FailFrame, AdvanceFrame DEF IInv, RuleStatus
  <1>5. VerdictMatches' /\ RecycleObserves'
    BY <1>1, <1>2, <1>4, JobClaimsKept
  <1>6. CallsMatch' /\ DeploymentMatches'
    BY <1>1, <1>2, <1>3, <1>4 DEF IInv, CallsMatch, DeploymentMatches
  <1>7. RuleSettled' /\ RuleRead' /\ Verified'
    BY <1>1, <1>3, <1>4 DEF IInv, RuleSettled, RuleRead, Verified, Owns
  <1> QED
    BY <1>5, <1>6, <1>7 DEF IInv

\* Invoking a command starts it with nothing observed.
LEMMA InvokeVmPreserves ==
    ASSUME IInv, NEW o \in Operators, InvokeVm(o), TypeOK'
    PROVE  IInv'
  <1>1. UNCHANGED <<access, enforced, pooled, deployment, writer>>
    BY DEF InvokeVm, network, process
  <1>2. deployment.owner # o
    BY DEF InvokeVm, IInv, DeploymentMatches, VmPoints
  <1>3. CASE job = NoJob
    <2>0. op' = op /\ job' = NewJob(o, CommandAt(o)) /\ op[o].at \in VmPoints
      BY <1>3 DEF InvokeVm
    <2>1. op' = op /\ job'.owner = o /\ job'.phase = "start"
      BY <2>0, CommandTyped, NewJobTyped
    <2>2. job'.cmd = CommandAt(o) /\ job'.ready = 0
      BY <2>0, CommandTyped, NewJobTyped
    <2>3. CommandAt(o)' = CommandAt(o)
      BY <2>1 DEF CommandAt
    <2>4. VerdictMatches'
      BY <2>1, <2>2, <2>3 DEF InvokeVm, VerdictMatches
    <2>5. RecycleObserves'
      BY <2>1, <2>2 DEF RecycleObserves, Observes
    <2>6. OpInv'
      BY <1>1, <2>1
         DEF OpInv, IInv, CallsMatch, DeploymentMatches, RuleSettled, RuleRead,
             Verified, Owns
    <2> QED
      BY <2>4, <2>5, <2>6 DEF IInv, OpInv
  <1>4. CASE job # NoJob
    <2>1. Fail(o) /\ job' = job /\ job.owner # o
      BY <1>4 DEF InvokeVm
    <2>2. OpInv'
      BY <1>1, <1>2, <2>1, FailPreserves
    <2>3. \A p \in Operators : p # o => op'[p] = op[p]
      BY <2>1, FailFrame DEF IInv
    <2> QED
      BY <1>1, <2>1, <2>2, <2>3, JobClaimsKept DEF IInv, OpInv
  <1> QED
    BY <1>3, <1>4

\* The verdict of a recycle becomes the claim of its operation.
LEMMA VmReturnsPreserves ==
    ASSUME IInv, NEW o \in Operators, VmReturns(o), TypeOK'
    PROVE  IInv'
  <1>1. UNCHANGED <<access, enforced, pooled, deployment, writer>>
    BY DEF VmReturns, network, process
  <1>2. op[o].at \in VmPoints /\ deployment.owner # o
    BY DEF VmReturns, IInv, VerdictMatches, DeploymentMatches, VmPoints
  <1>3. /\ op'[o].action = op[o].action
        /\ \A p \in Operators : p # o => op'[p] = op[p]
    BY FailFrame, AdvanceFrame DEF IInv, VmReturns
  <1>4. job'.owner \notin Operators
    BY NobodyAssumption DEF VmReturns, NoJob
  <1>5. VerdictMatches' /\ RecycleObserves'
    BY <1>4 DEF VerdictMatches, RecycleObserves
  <1>6. CASE Fail(o)
    BY <1>1, <1>2, <1>5, <1>6, FailPreserves DEF IInv, OpInv
  <1>7. CASE job.phase = "ok" /\ Advance(o)
    <2>1. op'[o].at = NextCall(op[o].action, op[o].at)
      BY <1>7, AdvanceFrame DEF IInv
    <2>2. CallsMatch' /\ DeploymentMatches'
      BY <1>1, <1>2, <1>3, <2>1
         DEF IInv, CallsMatch, DeploymentMatches, NextCall, VmPoints, Ends,
             RuleActions
    <2>3. Owns(o, {"readBack", "recycle", "resetCpu", "succeeded"})' =>
             Owns(o, {"recycle", "resetCpu"})
      BY <1>1, <1>2, <1>3, <2>1
         DEF IInv, CallsMatch, Owns, NextCall, VmPoints, Ends
    <2>4. Owns(o, {"recycle"}) => enforced = Target(op[o].action)
      BY <1>7, RecycleWants, ObservedEnforced DEF VmReturns
    <2>5. op'[o].at # "recycle" /\ (Owns(o, {"recycle", "resetCpu"}) =>
              /\ deployment = NoDeployment /\ access = Target(op[o].action)
              /\ enforced = Target(op[o].action))
      BY <1>2, <2>1, <2>4
         DEF IInv, RuleSettled, RuleRead, Verified, Owns, NextCall, VmPoints
    <2>6. RuleSettled' /\ RuleRead' /\ Verified'
      BY <1>1, <1>3, <2>3, <2>5
         DEF IInv, RuleSettled, RuleRead, Verified, Owns
    <2> QED
      BY <1>5, <2>2, <2>6 DEF IInv
  <1> QED
    BY <1>6, <1>7 DEF VmReturns

\* Giving up detaches the operation from what Azure goes on with.
LEMMA AbandonPreserves ==
    ASSUME IInv, NEW o \in Operators, Abandon(o), TypeOK'
    PROVE  IInv'
  <1>1. UNCHANGED <<access, enforced, pooled, writer>>
    BY DEF Abandon, network, process
  <1>2. deployment' \in {deployment, [deployment EXCEPT !.owner = Nobody]}
        /\ deployment'.owner # o
    BY NobodyAssumption DEF Abandon, IInv, TypeOK, Deployments, NoDeployment
  <1>3. OpInv'
    BY <1>1, <1>2, FailPreserves DEF Abandon
  <1>4. \A p \in Operators : p # o => op'[p] = op[p]
    BY FailFrame DEF Abandon, IInv
  <1>5. job'.owner # o /\ \A p \in Operators : job'.owner = p => job' = job
    BY NobodyAssumption DEF Abandon, IInv, TypeOK, Jobs, NoJob
  <1>6. ASSUME NEW p \in Operators, job'.owner = p
        PROVE  /\ op'[p] = op[p] /\ job.owner = p /\ job' = job
               /\ CommandAt(p)' = CommandAt(p)
    BY <1>4, <1>5, <1>6 DEF CommandAt
  <1>7. VerdictMatches'
    BY <1>6 DEF IInv, VerdictMatches
  <1>8. RecycleObserves'
    BY <1>1, <1>6 DEF IInv, RecycleObserves, Owns, Observes
  <1> QED
    BY <1>3, <1>7, <1>8 DEF IInv, OpInv

\* The end of a deployment moves the console that waits for it, if any: no
\* operation claims anything about the rule while a deployment is active.
LEMMA DeploymentSucceedsPreserves ==
    ASSUME IInv, DeploymentSucceeds, TypeOK'
    PROVE  IInv'
  <1>1. UNCHANGED <<enforced, pooled, job, writer>> /\ deployment' = NoDeployment
    BY DEF DeploymentSucceeds, vmVars
  <1>2. \A p \in Operators :
            ~Owns(p, {"readBack", "recycle", "resetCpu", "succeeded"})
    BY DEF DeploymentSucceeds, IInv, RuleSettled
  <1>3. CASE deployment.owner = Nobody
    <2>1. op' = op
      BY <1>3 DEF DeploymentSucceeds
    <2>2. VerdictMatches' /\ CallsMatch'
      BY <1>1, <2>1 DEF IInv, VerdictMatches, CallsMatch, CommandAt
    <2>3. DeploymentMatches' /\ RuleSettled'
      BY <1>1, NobodyAssumption DEF DeploymentMatches, RuleSettled, NoDeployment
    <2>4. RuleRead' /\ RecycleObserves' /\ Verified'
      BY <1>1, <1>2, <2>1 DEF RuleRead, RecycleObserves, Verified, Owns
    <2> QED
      BY <2>2, <2>3, <2>4 DEF IInv
  <1>4. CASE deployment.owner # Nobody
    <2>1. PICK o \in Operators : deployment.owner = o
      BY <1>4 DEF DeploymentSucceeds, IInv, TypeOK, Deployments
    <2>2. op[o].at = "deploy" /\ Advance(o)
      BY <1>4, <2>1 DEF DeploymentSucceeds, IInv, DeploymentMatches
    <2>3. /\ op'[o].at = "readBack" /\ op'[o].action = op[o].action
          /\ \A p \in Operators : p # o => op'[p] = op[p]
      BY <2>2, AdvanceFrame DEF IInv, NextCall
    <2>4. job.owner # o
      BY <2>2 DEF IInv, VerdictMatches, VmPoints
    <2>5. VerdictMatches' /\ RecycleObserves'
      BY <1>1, <2>3, <2>4, JobClaimsKept
    <2>6. CallsMatch'
      BY <2>3 DEF IInv, CallsMatch
    <2>7. DeploymentMatches' /\ RuleSettled'
      BY <1>1, NobodyAssumption DEF DeploymentMatches, RuleSettled, NoDeployment
    <2>8. RuleRead' /\ Verified'
      BY <1>1, <1>2, <2>3 DEF RuleRead, Verified, Owns
    <2> QED
      BY <2>5, <2>6, <2>7, <2>8 DEF IInv
  <1> QED
    BY <1>3, <1>4

\* A deployment that fails, before or after it wrote the rule, claims nothing.
LEMMA DeploymentFailsPreserves ==
    ASSUME IInv, DeploymentFails, TypeOK'
    PROVE  IInv'
  <1>1. UNCHANGED <<enforced, pooled, job, writer>> /\ deployment' = NoDeployment
    BY DEF DeploymentFails, vmVars
  <1>2. \A p \in Operators :
            ~Owns(p, {"readBack", "recycle", "resetCpu", "succeeded"})
    BY DEF DeploymentFails, IInv, RuleSettled
  <1>3. CASE deployment.owner = Nobody
    <2>1. op' = op
      BY <1>3 DEF DeploymentFails
    <2>2. VerdictMatches' /\ CallsMatch'
      BY <1>1, <2>1 DEF IInv, VerdictMatches, CallsMatch, CommandAt
    <2>3. DeploymentMatches' /\ RuleSettled'
      BY <1>1, NobodyAssumption DEF DeploymentMatches, RuleSettled, NoDeployment
    <2>4. RuleRead' /\ RecycleObserves' /\ Verified'
      BY <1>1, <1>2, <2>1 DEF RuleRead, RecycleObserves, Verified, Owns
    <2> QED
      BY <2>2, <2>3, <2>4 DEF IInv
  <1>4. CASE deployment.owner # Nobody
    <2>1. PICK o \in Operators : deployment.owner = o
      BY <1>4 DEF DeploymentFails, IInv, TypeOK, Deployments
    <2>2. op[o].at = "deploy" /\ Fail(o)
      BY <1>4, <2>1 DEF DeploymentFails, IInv, DeploymentMatches
    <2>3. /\ op'[o].at \in {"failed", "partial"}
          /\ op'[o].action = op[o].action
          /\ \A p \in Operators : p # o => op'[p] = op[p]
      BY <2>2, FailFrame DEF IInv
    <2>4. job.owner # o
      BY <2>2 DEF IInv, VerdictMatches, VmPoints
    <2>5. VerdictMatches' /\ RecycleObserves'
      BY <1>1, <2>3, <2>4, JobClaimsKept
    <2>6. CallsMatch'
      BY <2>3 DEF IInv, CallsMatch, Ends
    <2>7. DeploymentMatches' /\ RuleSettled'
      BY <1>1, NobodyAssumption DEF DeploymentMatches, RuleSettled, NoDeployment
    <2>8. RuleRead' /\ Verified'
      BY <1>1, <1>2, <2>3 DEF RuleRead, Verified, Owns
    <2> QED
      BY <2>5, <2>6, <2>7, <2>8 DEF IInv
  <1> QED
    BY <1>3, <1>4

-----------------------------------------------------------------------------
(* What happens on the VM and in the network.  Nothing there moves an      *)
(* operation or the rule, so what is left is the data plane.               *)

\* While the rule of an operation is settled, the data plane can only turn
\* to its target; connections are made only when it allows them.
LEMMA EnvironmentPreserves ==
    ASSUME IInv, Environment, UNCHANGED <<access, deployment, op, writer>>,
           TypeOK'
    PROVE  IInv'
  <1>1. job' = job
    BY DEF Environment, Propagate, TrafficConnects, PoolDrains, ApiCrashes,
           CpuExpires
  <1>2. VerdictMatches'
    BY <1>1 DEF IInv, VerdictMatches, CommandAt
  <1>3. CallsMatch' /\ DeploymentMatches' /\ RuleSettled' /\ RuleRead'
    BY DEF IInv, CallsMatch, DeploymentMatches, RuleSettled, RuleRead, Owns
  <1>4. enforced' \in {enforced, access}
    BY DEF Environment, Propagate, TrafficConnects, PoolDrains, ApiCrashes,
           CpuExpires
  <1>5. Verified'
    BY <1>4 DEF IInv, RuleRead, Verified, Owns
  <1>6. RecycleObserves'
    <2> SUFFICES ASSUME NEW o \in Operators, Owns(o, {"recycle"})',
                        job'.owner = o
                 PROVE  Observes'
      BY DEF RecycleObserves
    <2>1. Owns(o, {"recycle"}) /\ job.owner = o
      BY <1>1 DEF Owns
    <2> QED
      BY <2>1, RecycleWants, ObservesStands
  <1> QED
    BY <1>2, <1>3, <1>5, <1>6 DEF IInv

\* A step of faults.py keeps what its command has observed true.
LEMMA JobStepPreserves ==
    ASSUME IInv, JobStep, UNCHANGED <<access, deployment, op, writer>>, TypeOK'
    PROVE  IInv'
  <1>0. VmTypeOK
    BY DEF IInv, TypeOK, VmTypeOK
  <1>1. job \in Jobs /\ enforced' = enforced
    BY <1>0, JobFrame
  <1>2. VerdictMatches'
    BY <1>0, JobFrame DEF IInv, VerdictMatches, CommandAt
  <1>3. OpInv'
    BY <1>1 DEF OpInv, IInv, CallsMatch, DeploymentMatches, RuleSettled,
                RuleRead, Verified, Owns
  <1>4. RecycleObserves'
    <2> SUFFICES ASSUME NEW o \in Operators, Owns(o, {"recycle"})',
                        job'.owner = o
                 PROVE  Observes'
      BY DEF RecycleObserves
    <2>1. Owns(o, {"recycle"}) /\ job.owner = o /\ ~JobForgotten
      BY <1>0, JobFrame DEF Owns
    <2> QED
      BY <1>0, <2>1, RecycleWants, ObservesKept
  <1> QED
    BY <1>2, <1>3, <1>4 DEF IInv, OpInv

-----------------------------------------------------------------------------
(* The invariant, and what follows from it.                                *)

\* Nothing runs and nothing is claimed initially.
LEMMA InitEstablishes == Init => IInv
  <1> SUFFICES ASSUME Init PROVE IInv
    OBVIOUS
  <1>1. job.owner = Nobody /\ deployment.owner = Nobody /\ writer = Nobody
    BY DEF Init, VmInit, NoJob, NoDeployment
  <1>2. \A o \in Operators : o # Nobody
    BY NobodyAssumption
  <1>3. \A o \in Operators : op[o].action \notin RuleActions
    BY DEF Init, RuleActions
  <1> QED
    BY <1>1, <1>2, <1>3, TypeInit
       DEF IInv, VerdictMatches, CallsMatch, DeploymentMatches, RuleSettled,
           RuleRead, RecycleObserves, Verified, Owns

\* The strengthened invariant is inductive: one step per action of Next.
LEMMA Inductive == IInv /\ [Next]_vars => IInv'
  <1> SUFFICES ASSUME IInv, [Next]_vars PROVE IInv'
    OBVIOUS
  <1>1. TypeOK'
    BY TypeStep DEF IInv
  <1>2. ASSUME NEW o \in Operators, Start(o) \/ Console(o) \/ Abandon(o)
        PROVE  IInv'
    BY <1>1, <1>2, StartPreserves, StartDeploymentPreserves,
       ReadBackPreserves, RuleStatusPreserves, InvokeVmPreserves,
       VmReturnsPreserves, AbandonPreserves DEF Console
  <1>3. CASE DeploymentSucceeds \/ DeploymentFails
    BY <1>1, <1>3, DeploymentSucceedsPreserves, DeploymentFailsPreserves
  <1>4. CASE OnVm
    BY <1>1, <1>4, JobStepPreserves, EnvironmentPreserves DEF OnVm, VmNext
  <1>5. CASE UNCHANGED vars
    <2>1. VerdictMatches' /\ CallsMatch' /\ DeploymentMatches'
      BY <1>5 DEF vars, IInv, VerdictMatches, CallsMatch, DeploymentMatches,
                  CommandAt
    <2>2. RuleSettled' /\ RuleRead' /\ Verified' /\ RecycleObserves'
      BY <1>5 DEF vars, IInv, RuleSettled, RuleRead, Verified,
                  RecycleObserves, Owns, Observes
    <2> QED
      BY <1>1, <2>1, <2>2 DEF IInv
  <1> QED
    BY <1>2, <1>3, <1>4, <1>5 DEF Next

\* The strengthened invariant holds in every reachable state.
LEMMA InvariantHolds == Spec => []IInv
  BY InitEstablishes, Inductive, PTL DEF Spec

\* What the runs check follows from the strengthened invariant.
LEMMA InvariantImplies == IInv => InjectHolds /\ ResetHolds /\ VerdictMatches
  BY DEF IInv, RuleRead, Verified, Owns, Stands, InjectHolds, ResetHolds,
         Target, RuleActions

\* A verified `fault postgresql` stays true in the data plane until somebody
\* deploys the rule again, for any number of consoles.
THEOREM InjectCorrect == Spec => []InjectHolds
  BY InvariantHolds, InvariantImplies, PTL

\* A verified reset stays true in the data plane until somebody deploys the
\* rule again, for any number of consoles.
THEOREM ResetCorrect == Spec => []ResetHolds
  BY InvariantHolds, InvariantImplies, PTL

\* A console never takes the output of another operation's VM command, nor of
\* one that was given up, for its own.
THEOREM VerdictCorrect == Spec => []VerdictMatches
  BY InvariantHolds, InvariantImplies, PTL
=============================================================================
