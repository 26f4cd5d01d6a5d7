-------------------------- MODULE Deployment_proofs --------------------------
(***************************************************************************)
(* Proofs about Deployment for any number of environments and versions and *)
(* any set of commands: what a successful `azd up` says is true, and the   *)
(* service never runs without its schema.                                  *)
(***************************************************************************)
EXTENDS Deployment, TLAPS

\* The commands that deploy.
Deploying == {"up", "provision", "benchmark"}

-----------------------------------------------------------------------------
(* The inductive invariant.                                                *)

\* Which commands make which calls.
CallsMatch ==
    /\ op.at \in {"fresh", "prepare", "preflight", "preprovision", "arm", "vm",
                  "plan", "benchmark"} => op.cmd \in Deploying
    /\ op.at \in {"predown", "delete", "inspect", "before", "witness",
                  "restart", "after", "compare"} => op.cmd \notin Deploying

\* What the command waits for belongs to the call it has reached.
WaitsMatch ==
    /\ arm.mine => op.at = "arm"
    /\ job.mine => IF job.kind = "install"
                   THEN op.at = "vm" ELSE op.at \in {"inspect", "before", "after"}

\* A release is linked, and then started, only once the schema is there.
SchemaFirst ==
    /\ link # 0 => schema
    /\ job.phase \in {"switch", "restart", "ready", "record"} => schema

\* From the end of the template deployment on, the environment stays.
EnvironmentStays ==
    op.cmd \in Deploying
        /\ op.at \in {"vm", "plan", "smoke", "benchmark", "succeeded"} =>
            group = "present" /\ arm = NoArm

\* How far the installation the command waits for has come.
InstallFollowed ==
    job.mine /\ op.at = "vm" =>
        /\ op.digest # 0 /\ job.digest = op.digest
        /\ job.phase \in {"restart", "ready", "record", "inspect", "ok"} =>
              link = op.digest
        /\ job.phase \in {"ready", "record", "inspect", "ok"} =>
              running = op.digest
        /\ job.phase \in {"inspect", "ok"} => bundle = op.digest

\* Nothing touches the VM between the end of the installation and the end of
\* the command.
InstalledStays ==
    op.cmd \in Deploying
        /\ op.at \in {"plan", "smoke", "benchmark", "succeeded"} =>
            /\ job = NoJob
            /\ op.digest # 0
            /\ running = op.digest /\ link = op.digest /\ bundle = op.digest
            /\ files.deployed = gen

\* The smoke evidence is of this command.
SmokeStays ==
    op.cmd \in Deploying /\ op.at \in {"benchmark", "succeeded"} =>
        files.smoke = gen

Parts ==
    /\ CallsMatch /\ WaitsMatch /\ SchemaFirst /\ SchemaBeforeService
    /\ EnvironmentStays /\ InstallFollowed /\ InstalledStays /\ SmokeStays

IInv == TypeOK /\ Parts

-----------------------------------------------------------------------------
(* Types.                                                                  *)

USE DEF Gens, Digests

\* The initial states have the right types.
LEMMA TypeInit == Init => TypeOK
  <1> SUFFICES ASSUME Init PROVE TypeOK
    OBVIOUS
  <1>1. group \in Groups /\ arm \in Arms /\ op \in Ops /\ files \in Files
    BY BoundsAssumption
       DEF Init, Groups, NoArm, Arms, Ops, Commands, Ends, NoFiles, Files
  <1>2. /\ gen \in Gens /\ link \in Digests /\ running \in Digests
        /\ bundle \in Digests /\ source \in 1..MaxDigest
    BY BoundsAssumption DEF Init
  <1>3. ready \in BOOLEAN /\ schema \in BOOLEAN /\ job = NoJob
    BY DEF Init
  <1> QED
    BY <1>1, <1>2, <1>3 DEF TypeOK

\* What follows a call is a call or an end.
LEMMA NextPointType ==
    ASSUME NEW cmd, NEW point
    PROVE  NextPoint(cmd, point) \in Points \cup Ends
  BY DEF NextPoint, Points, Ends

\* The effect of Advance and of Fail on the command.
LEMMA Advances ==
    ASSUME TypeOK, Advance
    PROVE  /\ op' \in Ops
           /\ op'.cmd = op.cmd /\ op'.digest = op.digest
           /\ op'.at = NextPoint(op.cmd, op.at)
  BY NextPointType DEF TypeOK, Advance, Ops

\* A call that fails leaves the command with the digest it had.
LEMMA Fails ==
    ASSUME TypeOK, Fail
    PROVE  /\ op' \in Ops
           /\ op'.cmd = op.cmd /\ op'.digest = op.digest
           /\ op'.at = "failed"
  BY DEF TypeOK, Fail, Ops, Ends

\* The effect of a step of install.sh on the command it runs in.
LEMMA Phase ==
    ASSUME TypeOK, NEW phase \in Phases, NEW other, At(other), Then(phase)
    PROVE  /\ job' \in Jobs
           /\ job'.kind = job.kind /\ job'.digest = job.digest
           /\ job'.mine = job.mine /\ job'.phase = phase
           /\ job.phase = other
  BY DEF TypeOK, Then, Jobs, At

\* A command nobody waits for any more.
LEMMA Forgotten ==
    ASSUME TypeOK
    PROVE  /\ [job EXCEPT !.mine = FALSE] \in Jobs \cup {NoJob}
           /\ [arm EXCEPT !.mine = FALSE] \in Arms
  <1>1. \A j \in Jobs : [j EXCEPT !.mine = FALSE] \in Jobs
    BY Zenon DEF Jobs
  <1>2. ASSUME NEW b
        PROVE  [[kind |-> "none", phase |-> "none", digest |-> 0, mine |-> b]
                  EXCEPT !.mine = b]
                 = [kind |-> "none", phase |-> "none", digest |-> 0, mine |-> b]
    OBVIOUS
  <1>3. [NoJob EXCEPT !.mine = FALSE] = NoJob
    BY Zenon, <1>2 DEF NoJob
  <1>4. \A a \in Arms : [a EXCEPT !.mine = FALSE] \in Arms
    BY Zenon DEF Arms
  <1> QED
    BY Zenon, <1>1, <1>3, <1>4 DEF TypeOK

\* The commands that RunVm starts.
LEMMA Started ==
    ASSUME NEW digest \in Digests, NEW kind \in {"install", "inspect"},
           NEW phase \in Phases
    PROVE  [kind |-> kind, phase |-> phase, digest |-> digest, mine |-> TRUE]
              \in Jobs
  BY DEF Jobs

\* Every step keeps the types.
LEMMA TypeStep == TypeOK /\ [Next]_vars => TypeOK'
  <1> SUFFICES ASSUME TypeOK, [Next]_vars PROVE TypeOK'
    OBVIOUS
  <1> USE BoundsAssumption, MenuAssumption, NextPointType, Advances, Fails
          DEF TypeOK, azure, vm
  <1>1. CASE Start
    BY <1>1, MenuAssumption DEF Start, Ops, Commands, Points, Ends, FirstPoint
  <1>2. CASE Edit
    BY <1>2 DEF Edit
  <1>3. CASE CallFails
    BY <1>3 DEF CallFails
  <1>4. CASE CheckFresh
    BY <1>4 DEF CheckFresh
  <1>5. CASE Prepare
    BY <1>5 DEF Prepare, Files, NoFiles
  <1>6. CASE Preflight
    BY <1>6 DEF Preflight
  <1>7. CASE Preprovision
    BY <1>7 DEF Preprovision
  <1>8. CASE StartArm
    <2>1. arm' = [step |-> "started", mine |-> TRUE] \/ arm' = arm
      BY <1>8, Zenon DEF StartArm
    <2>2. arm' \in Arms
      <3>1. [step |-> "started", mine |-> TRUE] \in Arms
        BY DEF Arms
      <3> QED
        BY <2>1, <3>1 DEF TypeOK
    <2>3. op' \in Ops
      BY <1>8 DEF StartArm
    <2> QED
      BY <1>8, <2>2, <2>3 DEF StartArm
  <1>9. CASE RunVm
    <2>1. source \in Digests /\ 0 \in Digests
      BY BoundsAssumption
    <2>2. job' = job \/ job' \in Jobs
      BY <1>9, <2>1, Started DEF RunVm, Phases
    <2>3. op' \in Ops
      BY <1>9, <2>1 DEF RunVm, Ops
    <2> QED
      BY <1>9, <2>2, <2>3 DEF RunVm
  <1>10. CASE VmReturns
    BY <1>10 DEF VmReturns, Files
  <1>11. CASE ResponsePlan
    BY <1>11 DEF ResponsePlan
  <1>12. CASE Smoke
    BY <1>12 DEF Smoke, Files
  <1>13. CASE BenchmarkEnds
    BY <1>13 DEF BenchmarkEnds
  <1>14. CASE Predown
    BY <1>14 DEF Predown
  <1>15. CASE DeleteGroup
    BY <1>15 DEF DeleteGroup, Groups
  <1>16. CASE Witness
    BY <1>16 DEF Witness, Files
  <1>17. CASE RestartVm
    BY <1>17 DEF RestartVm
  <1>18. CASE Compare
    BY <1>18 DEF Compare, Files
  <1>19. CASE Killed
    BY <1>19, Forgotten DEF Killed
  <1>20. CASE ArmCreates
    BY <1>20 DEF ArmCreates, TypeOK, Arms, Arms, NoArm, Groups
  <1>21. CASE ArmSucceeds
    BY <1>21 DEF ArmSucceeds, Arms, NoArm
  <1>22. CASE ArmFails
    BY <1>22 DEF ArmFails, Arms, NoArm
  <1>23. CASE GroupDeleted
    <2>1. op' \in Ops
      BY <1>23 DEF GroupDeleted, Ops, Ends
    <2>2. group' \in Groups
      BY <1>23 DEF GroupDeleted, Groups
    <2>3. 0 \in Digests
      BY BoundsAssumption
    <2> QED
      BY <1>23, <2>1, <2>2, <2>3 DEF GroupDeleted
  <1>24. CASE GroupCreated
    BY <1>24 DEF GroupCreated, Groups
  <1>25. CASE BuildRelease
    BY <1>25, Phase DEF Phases, BuildRelease
  <1>26. CASE Bootstrap
    BY <1>26, Phase DEF Phases, Bootstrap
  <1>27. CASE SwitchRelease
    BY <1>27, Phase DEF Phases, SwitchRelease, Jobs
  <1>28. CASE RestartService
    BY <1>28, Phase DEF Phases, RestartService
  <1>29. CASE AwaitReady
    BY <1>29, Phase DEF Phases, AwaitReady
  <1>30. CASE RecordBundle
    BY <1>30, Phase DEF Phases, RecordBundle, Jobs
  <1>31. CASE Inspect
    BY <1>31, Phase DEF Phases, Inspect
  <1>32. CASE JobForgotten
    BY <1>32 DEF JobForgotten
  <1>33. CASE UNCHANGED vars
    BY <1>33 DEF vars
  <1> QED
    BY <1>1, <1>2, <1>3, <1>4, <1>5, <1>6, <1>7, <1>8, <1>9, <1>10,
       <1>11, <1>12, <1>13, <1>14, <1>15, <1>16, <1>17, <1>18, <1>19,
       <1>20, <1>21, <1>22, <1>23, <1>24, <1>25, <1>26, <1>27, <1>28,
       <1>29, <1>30, <1>31, <1>32, <1>33
       DEF Next, Console, Azure, Vm

-----------------------------------------------------------------------------
(* Every action preserves the inductive invariant.                         *)

\* Nothing has run, waited or been deployed.
LEMMA PartsInit == Init => Parts
  BY DEF Init, Parts, CallsMatch, WaitsMatch, SchemaFirst, SchemaBeforeService,
         EnvironmentStays, InstallFollowed, InstalledStays, SmokeStays,
         NoArm, NoJob, Deploying

\* Nobody waits for what does not run.
LEMMA NothingWaits ==
    /\ ~NoArm.mine /\ NoArm.step = "none"
    /\ ~NoJob.mine /\ NoJob.phase = "none"
  BY DEF NoArm, NoJob

\* Every step keeps the other parts.
LEMMA PartsStep == TypeOK /\ Parts /\ [Next]_vars => Parts'
  <1> SUFFICES ASSUME TypeOK, Parts, [Next]_vars PROVE Parts'
    OBVIOUS
  <1> USE Advances, Fails, NothingWaits, BoundsAssumption
          DEF azure, vm, Parts, CallsMatch, WaitsMatch, SchemaFirst,
              SchemaBeforeService, EnvironmentStays, InstallFollowed,
              InstalledStays, SmokeStays, Deploying
  <1>1. CASE Start
    BY <1>1, MenuAssumption DEF Start, FirstPoint, Commands, Ends
  <1>2. CASE Edit
    BY <1>2 DEF Edit
  <1>3. CASE CallFails
    BY <1>3 DEF CallFails, Points
  <1>4. CASE CheckFresh
    BY <1>4 DEF CheckFresh, NextPoint
  <1>5. CASE Prepare
    BY <1>5 DEF Prepare, NextPoint
  <1>6. CASE Preflight
    BY <1>6 DEF Preflight, NextPoint
  <1>7. CASE Preprovision
    BY <1>7 DEF Preprovision, NextPoint
  <1>8. CASE StartArm
    BY <1>8 DEF StartArm
  <1>9. CASE RunVm
    <2>1. CASE Deployed /\ job = NoJob /\ op.at = "vm"
      <3>1. /\ job'.kind = "install" /\ job'.phase = "build"
            /\ job'.digest = source
        BY <1>9, <2>1 DEF RunVm
      <3>2. /\ op'.cmd = op.cmd /\ op'.at = op.at /\ op'.digest = source
            /\ source # 0
        BY <1>9, <2>1 DEF RunVm, TypeOK, Ops
      <3> QED
        BY <1>9, <2>1, <3>1, <3>2 DEF RunVm
    <2>2. CASE Deployed /\ job = NoJob /\ op.at # "vm"
      <3>1. job'.kind = "inspect" /\ job'.phase = "inspect" /\ op' = op
        BY <1>9, <2>2 DEF RunVm
      <3> QED
        BY <1>9, <2>2, <3>1 DEF RunVm
    <2>3. CASE ~(Deployed /\ job = NoJob)
      BY <1>9, <2>3 DEF RunVm
    <2> QED
      BY <2>1, <2>2, <2>3
  <1>10. CASE VmReturns
    <2>1. CASE Fail
      BY <1>10, <2>1 DEF VmReturns
    <2>2. CASE Advance /\ op.at = "vm"
      <3>1. op'.at = "plan"
        BY <2>2 DEF NextPoint
      <3>2. bundle = op.digest /\ files' = [files EXCEPT !.deployed = gen]
        BY <1>10, <2>2, <3>1 DEF VmReturns
      <3>3. files'.deployed = gen
        BY <3>2 DEF TypeOK, Files
      <3> QED
        BY <1>10, <2>2, <3>1, <3>2, <3>3 DEF VmReturns
    <2>3. CASE Advance /\ op.at # "vm"
      BY <1>10, <2>3 DEF VmReturns, NextPoint
    <2> QED
      BY <1>10, <2>1, <2>2, <2>3 DEF VmReturns
  <1>11. CASE ResponsePlan
    BY <1>11 DEF ResponsePlan, NextPoint
  <1>12. CASE Smoke
    BY <1>12 DEF Smoke, NextPoint, Serving
  <1>13. CASE BenchmarkEnds
    BY <1>13 DEF BenchmarkEnds, NextPoint
  <1>14. CASE Predown
    BY <1>14 DEF Predown, NextPoint
  <1>15. CASE DeleteGroup
    BY <1>15 DEF DeleteGroup
  <1>16. CASE Witness
    BY <1>16 DEF Witness, NextPoint
  <1>17. CASE RestartVm
    BY <1>17 DEF RestartVm, NextPoint
  <1>18. CASE Compare
    BY <1>18 DEF Compare, NextPoint, Serving
  <1>19. CASE Killed
    BY <1>19 DEF Killed
  <1>20. CASE ArmCreates
    BY <1>20 DEF ArmCreates, TypeOK, Arms
  <1>21. CASE ArmSucceeds
    BY <1>21 DEF ArmSucceeds, NextPoint
  <1>22. CASE ArmFails
    BY <1>22 DEF ArmFails
  <1>23. CASE GroupDeleted
    BY <1>23 DEF GroupDeleted
  <1>24. CASE GroupCreated
    BY <1>24 DEF GroupCreated
  <1>25. CASE BuildRelease
    BY <1>25, Phase DEF BuildRelease, Phases, At
  <1>26. CASE Bootstrap
    <2>1. CASE Then("switch") /\ schema'
      BY <1>26, <2>1, Phase DEF Bootstrap, Phases, At
    <2>2. CASE Then("error") /\ (schema => schema')
      BY <1>26, <2>2, Phase DEF Bootstrap, Phases, At
    <2>3. schema' \in {schema, TRUE} => (schema => schema')
      BY Zenon
    <2>4. schema' = TRUE => schema'
      BY Zenon
    <2>5. \/ Then("switch") /\ schema' = TRUE
          \/ Then("error") /\ schema' \in {schema, TRUE}
      BY <1>26, Zenon DEF Bootstrap
    <2> QED
      BY <2>1, <2>2, <2>3, <2>4, <2>5, Zenon
  <1>27. CASE SwitchRelease
    BY <1>27, Phase DEF SwitchRelease, Phases, At
  <1>28. CASE RestartService
    BY <1>28, Phase DEF RestartService, Phases, At
  <1>29. CASE AwaitReady
    BY <1>29, Phase DEF AwaitReady, Phases, At
  <1>30. CASE RecordBundle
    BY <1>30, Phase DEF RecordBundle, Phases, At
  <1>31. CASE Inspect
    BY <1>31, Phase DEF Inspect, Phases, At
  <1>32. CASE JobForgotten
    BY <1>32 DEF JobForgotten
  <1>33. CASE UNCHANGED vars
    BY <1>33 DEF vars
  <1> QED
    BY <1>1, <1>2, <1>3, <1>4, <1>5, <1>6, <1>7, <1>8, <1>9, <1>10,
       <1>11, <1>12, <1>13, <1>14, <1>15, <1>16, <1>17, <1>18, <1>19,
       <1>20, <1>21, <1>22, <1>23, <1>24, <1>25, <1>26, <1>27, <1>28,
       <1>29, <1>30, <1>31, <1>32, <1>33
       DEF Next, Console, Azure, Vm

-----------------------------------------------------------------------------
(* The theorems.                                                           *)

\* The inductive invariant holds throughout.
LEMMA InvariantHolds == Spec => []IInv
  <1>1. Init => IInv
    BY TypeInit, PartsInit DEF IInv
  <1>2. IInv /\ [Next]_vars => IInv'
    BY TypeStep, PartsStep DEF IInv
  <1> QED
    BY <1>1, <1>2, PTL DEF Spec

\* Type correctness of Deployment.
THEOREM TypeCorrect == Spec => []TypeOK
  BY InvariantHolds, PTL DEF IInv

\* The service never runs on a database without schema and seed orders.
THEOREM SchemaCorrect == Spec => []SchemaBeforeService
  <1>1. IInv => SchemaBeforeService
    BY DEF IInv, Parts
  <1> QED
    BY <1>1, InvariantHolds, PTL

\* A deployment that reports success has left its own sources running in the
\* environment that exists, and evidence of that environment.
THEOREM UpCorrect == Spec => []UpIsVerified
  <1>1. IInv => UpIsVerified
    BY DEF IInv, Parts, UpIsVerified, UpSucceeded, Serving, EnvironmentStays,
           InstalledStays, SmokeStays, SchemaBeforeService, Deploying
  <1> QED
    BY <1>1, InvariantHolds, PTL
==============================================================================
