---------------------------- MODULE Cohort_proofs ----------------------------
(***************************************************************************)
(* Proofs about Cohort for any number of participants, subscriptions and   *)
(* threads: what is recorded is true, no role outlives its group and none  *)
(* is removed while it can come back, unless cleanup looked while a        *)
(* deployment ran, and no foreign group is touched.                        *)
(***************************************************************************)
EXTENDS Cohort, WellFoundedInduction, TLAPS

-----------------------------------------------------------------------------
(* The inductive invariant.                                                *)

\* A thread's call belongs to its stage, and its item shows the stage.
Matches(f, w) ==
    /\ w.call \notin {"none", "did"} => w.at = "deployment"
    /\ w.at = "deployment" => /\ ~w.passed /\ f.deployment = "Running"
                              /\ f.status # "Ready"
    /\ w.at = "validation" => f.deployment = "Succeeded" /\ f.status # "Ready"
    /\ w.at = "rbac" => PassedBefore(f) /\ f.status # "Ready"

\* The deployments that go on have what their phase needs, and so has the role.
Founded(w, c) ==
    /\ c.monitoring \/ "role" \in c.stray \/ w.call = "role" =>
          c.group = "there" /\ c.parts # "nothing"
    /\ "resources" \in c.stray \/ w.call = "resources" => c.group = "there"

\* What a stage did, and what the item says of it, is still there as long as
\* the agent has its role or a deployment may give it one.
Stands(f, w, c) ==
    /\ w.at = "deployment" /\ w.call = "did" =>
          c.group = "there" /\ c.parts \in {"built", "checked"}
    /\ c.monitoring \/ c.stray # {} =>
          /\ w.at = "validation" /\ w.call = "did" => c.parts = "checked"
          /\ w.at = "rbac" /\ w.call = "did" => c.access
          /\ f.deployment = "Succeeded" =>
                c.group = "there" /\ c.parts \in {"built", "checked"}
          /\ PassedBefore(f) => c.parts = "checked"
          /\ f.status = "Ready" =>
                c.group = "there" /\ c.parts = "checked" /\ c.access

\* What is recorded as removed is gone, and nothing is on its way.
Removed(f, c) ==
    f.deployment = "Removed" =>
        c.group = "none" /\ ~c.monitoring /\ c.stray = {}

\* A participant's item, thread and environment fit.
Fits(f, w, c) ==
    /\ Matches(f, w)
    /\ c.group = "foreign" => c.stray = {} /\ w.at = "none"
    /\ ~c.hasty => Founded(w, c) /\ Stands(f, w, c) /\ Removed(f, c)

\* Cleanup has looked: nothing is on its way, and the role is removed first.
Looked(c, at) ==
    /\ c.group # "foreign"
    /\ ~c.hasty => c.stray = {} /\ (at \in {"delete", "wait"} => ~c.monitoring)

\* Threads work in the pool; foreign groups end a deployment in preflight and
\* a cleanup at its look-up.
RunFits ==
    /\ \A i \in Participants : worker[i].at # "none" =>
          Running("deploy", "consider") /\ i \notin run.left
    /\ Running("deploy", "inspect") =>
          \A i \in Listed \ run.left : cloud[i].group # "foreign"
    /\ Running("deploy", "consider") =>
          \A i \in run.left : cloud[i].group # "foreign"
    /\ run.cmd = "cleanup" /\ run.left # {} /\ run.at # "exists" =>
          Looked(cloud[Now], run.at)

AllFit == \A i \in Participants : Fits(file[i], worker[i], cloud[i])

IInv == TypeOK /\ AllFit /\ RunFits

-----------------------------------------------------------------------------
(* Lemmas on the operators the actions are built from.                     *)

\* The next item is one of those that are left.
LEMMA NowLeft ==
    ASSUME run.left \subseteq Participants, run.left # {}
    PROVE  Now \in run.left /\ Now \in Participants
  <1>1. run.left \subseteq Nat
    BY CohortAssumption DEF Participants
  <1>2. PICK i \in run.left : \A j \in run.left :
           <<j, i>> \notin OpToRel(<, Nat)
    BY <1>1, NatLessThanWellFounded, WFMin, Zenon
  <1>3. \A j \in run.left : ~(j < i)
    BY <1>1, <1>2, Zenon DEF OpToRel
  <1>4. \A j \in run.left : i <= j
    BY <1>1, <1>3
  <1> QED
    BY <1>4 DEF Now

\* What a stage writes is an item.
LEMMA ItemsTyped ==
    ASSUME NEW item \in Items, NEW stage \in Stages
    PROVE  /\ Begun(item, stage) \in Items
           /\ Begun(item, "done") = item
           /\ Finished(item, stage) \in Items
           /\ Broken(item, stage) \in Items
  BY DEF Items, Stages, Begun, Finished, Broken, Failing, Item

\* The other writes of deploy and cleanup keep an item an item.
LEMMA WritesTyped ==
    ASSUME NEW item \in Items
    PROVE  /\ [item EXCEPT !.deployment = "Failed", !.status = "Failed"] \in Items
           /\ [item EXCEPT !.status = "Failed"] \in Items
           /\ Item("Removed", "-", "Cleaned") \in Items
  BY DEF Items, Item

\* What is written when a stage begins, stage by stage.
LEMMA BegunStages ==
    ASSUME NEW item
    PROVE  /\ Begun(item, "deployment") =
                 Item("Running", "Pending", "Pending")
           /\ Begun(item, "validation") =
                 [item EXCEPT !.validation = "Running", !.status = "Pending"]
           /\ Begun(item, "rbac") = [item EXCEPT !.status = "Pending"]
           /\ Begun(item, "done") = item
  BY DEF Begun

\* What is written when a stage succeeds, stage by stage.
LEMMA FinishedStages ==
    ASSUME NEW item
    PROVE  /\ Finished(item, "deployment") =
                 [item EXCEPT !.deployment = "Succeeded",
                              !.validation = "Pending", !.status = "Pending"]
           /\ Finished(item, "validation") =
                 [item EXCEPT !.validation = "Passed"]
           /\ Finished(item, "rbac") = [item EXCEPT !.status = "Ready"]
  BY DEF Finished

\* What a thread leaves behind is in a phase: the one its call was in.
LEMMA LeftTyped ==
    ASSUME NEW i \in Participants
    PROVE  LeftBy(i) \subseteq Phases /\ LeftBy(i) \subseteq {worker[i].call}
  BY DEF LeftBy

\* An environment stays one whatever goes on.
LEMMA StrayTyped ==
    ASSUME NEW c \in Clouds, NEW stray \in SUBSET Phases
    PROVE  WithStray(c, stray) \in Clouds
  BY DEF Clouds, WithStray

\* What a phase does to an environment keeps it one.
LEMMA AppliedTyped ==
    ASSUME NEW c \in Clouds, NEW phase \in Phases
    PROVE  Applied(c, phase) \in Clouds
  BY DEF Clouds, Phases, Applied

\* The end of a process changes only what Azure goes on with.
LEMMA EndTyped ==
    ASSUME TypeOK, End
    PROVE  TypeOK'
  <1>1. worker' \in [Participants -> Workers]
    BY DEF End, NoWorker, Workers
  <1>2. ASSUME NEW i \in Participants
        PROVE  WithStray(cloud[i], cloud[i].stray \cup LeftBy(i)) \in Clouds
    <2>1. cloud[i] \in Clouds
      BY DEF TypeOK
    <2>2. cloud[i].stray \cup LeftBy(i) \in SUBSET Phases
      BY <2>1, LeftTyped DEF Clouds
    <2> QED
      BY <2>1, <2>2, StrayTyped
  <1>3. cloud' \in [Participants -> Clouds]
    BY <1>2 DEF End
  <1> QED
    BY <1>1, <1>3 DEF TypeOK, End

-----------------------------------------------------------------------------
(* Types.                                                                  *)

\* Initially.
LEMMA TypeInit == Init => TypeOK
  BY DEF Init, TypeOK, NoItem, Item, Items, NoRun, NoWorker, Workers, Clouds

\* deploy, before and after its pool.
LEMMA DeployingTypes ==
    ASSUME TypeOK, StartDeploy \/ Deploying \/ Abort
    PROVE  TypeOK'
  <1> USE DEF TypeOK
  <1>1. Pending \in Items
    BY DEF Pending, Item, Items
  <1>2. Listed \subseteq Participants
    BY DEF Listed
  <1>3. CASE StartDeploy
    <2>1. PICK n \in Participants :
             /\ file' = [i \in Participants |->
                           IF i \in 1..n \ Listed THEN Pending ELSE file[i]]
             /\ run' = [cmd |-> "deploy", at |-> "inspect", left |-> 1..n,
                        gone |-> {}]
      BY <1>3 DEF StartDeploy
    <2>2. 1..n \subseteq Participants
      BY CohortAssumption DEF Participants
    <2> QED
      BY <1>1, <1>3, <2>1, <2>2 DEF StartDeploy, Runs
  <1>4. CASE run # NoRun /\ run.left # {} /\ (Inspect \/ ConfirmReady
                \/ ReadyFails \/ Configure \/ ConfigureFails)
    <2>1. Now \in Participants /\ run \in Runs
      BY <1>4, NowLeft DEF Runs
    <2>7. NextItem("consider") => run' \in Runs
      BY <2>1 DEF NextItem, Runs
    <2>2. CASE Inspect
      <3>1. CASE ~End
        <4>1. PICK gone \in SUBSET Participants :
                 /\ run' = [run EXCEPT !.left = @ \ {Now}, !.gone = gone]
                 /\ UNCHANGED <<file, worker, cloud>>
          <5>1. run.gone \cup {Now} \in SUBSET Participants
            BY <2>1 DEF Runs
          <5>2. run.gone \in SUBSET Participants
            BY <2>1 DEF Runs
          <5> QED
            BY <2>2, <3>1, <5>1, <5>2, Zenon DEF Inspect
        <4> QED
          BY <2>1, <4>1 DEF Runs
      <3> QED
        BY <3>1, EndTyped
    <2>3. CASE ConfirmReady
      <3>1. /\ cloud' = [cloud EXCEPT ![Now].access = TRUE]
            /\ NextItem("consider")
            /\ UNCHANGED <<file, worker>>
        BY <2>3 DEF ConfirmReady, Grant
      <3>2. cloud' \in [Participants -> Clouds]
        BY <2>1, <3>1 DEF Clouds
      <3> QED
        BY <2>1, <2>7, <3>1, <3>2
    <2>4. CASE ReadyFails
      BY <2>1, <2>4, WritesTyped DEF ReadyFails
    <2>5. CASE Configure
      <3>1. /\ worker' = [worker EXCEPT ![Now].at = "queued"]
            /\ NextItem("consider") /\ UNCHANGED <<file, cloud>>
        BY <2>5 DEF Configure
      <3>2. worker' \in [Participants -> Workers]
        BY <2>1, <3>1 DEF Workers
      <3> QED
        BY <2>1, <2>7, <3>1, <3>2
    <2>6. CASE ConfigureFails
      <3>1. /\ file' = [file EXCEPT ![Now].deployment = "Failed",
                                    ![Now].status = "Failed"]
            /\ NextItem("consider") /\ UNCHANGED <<worker, cloud>>
        BY <2>6 DEF ConfigureFails
      <3>2. file' \in [Participants -> Items]
        BY <2>1, <3>1, WritesTyped
      <3> QED
        BY <2>1, <2>7, <3>1, <3>2
    <2> QED
      BY <1>4, <2>2, <2>3, <2>4, <2>5, <2>6
  <1>5. CASE SavePreflight
    <2>1. /\ run \in Runs
          /\ run' = [run EXCEPT !.at = "consider", !.left = Listed]
          /\ UNCHANGED <<worker, cloud>>
      BY <1>5 DEF SavePreflight, Running, NoRun
    <2>2. run' \in Runs
      BY <1>2, <2>1 DEF Runs
    <2>3. file' \in [Participants -> Items]
      BY <1>1, <1>5 DEF SavePreflight
    <2> QED
      BY <2>1, <2>2, <2>3
  <1>6. CASE EndDeploy \/ Abort
    BY <1>6, EndTyped DEF EndDeploy, Abort
  <1> QED
    BY <1>3, <1>4, <1>5, <1>6 DEF Deploying, Inspect, ConfirmReady,
       ReadyFails, Configure, ConfigureFails, Running, NoRun

\* The threads.
LEMMA DeployedTypes ==
    ASSUME TypeOK, NEW i \in Participants, Deployed(i)
    PROVE  TypeOK'
  <1> USE DEF TypeOK
  <1>1. CASE Begin(i)
    <2> DEFINE passed == PassedBefore(file[i])
               first == IF file[i].deployment # "Succeeded" THEN "deployment"
                        ELSE IF passed THEN "rbac" ELSE "validation"
    <2>1. first \in Stages /\ passed \in BOOLEAN
      BY DEF Stages, PassedBefore
    <2>2. Begun(file[i], first) \in Items
      BY <2>1, ItemsTyped
    <2> DEFINE call == IF first = "deployment" THEN "group" ELSE "none"
    <2>3. /\ worker' = [worker EXCEPT
                ![i] = [at |-> first, passed |-> passed /\ first = "deployment",
                        call |-> call]]
          /\ file' = [file EXCEPT ![i] = Begun(@, first)]
          /\ UNCHANGED <<run, cloud>>
      BY <1>1 DEF Begin
    <2>4. call \in Phases \cup {"none"}
      BY DEF Phases
    <2> HIDE DEF passed, first, call
    <2> QED
      BY <2>1, <2>2, <2>3, <2>4 DEF Workers
  <1>2. CASE AzdUp(i) \/ Validate(i) \/ Assign(i)
    <2>1. /\ worker' = [worker EXCEPT ![i].call = "did"]
          /\ UNCHANGED <<file, run>>
      BY <1>2 DEF AzdUp, Validate, Assign, Does
    <2>2. worker' \in [Participants -> Workers]
      BY <2>1 DEF Workers
    <2>3. \/ cloud' = [cloud EXCEPT ![i].access = TRUE]
          \/ \E parts \in {"checked", cloud[i].parts} :
                cloud' = [cloud EXCEPT ![i].parts = parts]
          \/ cloud' = [cloud EXCEPT ![i].parts = "built", ![i].hasty = FALSE]
      <3>1. CASE AzdUp(i)
        BY <3>1, Zenon DEF AzdUp
      <3>2. CASE Validate(i)
        BY <3>2, Zenon DEF Validate
      <3> QED
        BY <1>2, <3>1, <3>2, Zenon DEF Assign, Grant
    <2>4. ASSUME NEW parts \in {"checked", cloud[i].parts}
          PROVE  [cloud EXCEPT ![i].parts = parts] \in [Participants -> Clouds]
      BY DEF Clouds
    <2>6. [cloud EXCEPT ![i].parts = "built", ![i].hasty = FALSE]
             \in [Participants -> Clouds]
      BY DEF Clouds
    <2>5. [cloud EXCEPT ![i].access = TRUE] \in [Participants -> Clouds]
      BY DEF Clouds
    <2> QED
      BY <2>1, <2>2, <2>3, <2>4, <2>5, <2>6
  <1>3. CASE Record(i)
    <2>1. PICK next \in {"validation", "rbac", "done"} :
             /\ file' = [file EXCEPT
                           ![i] = Begun(Finished(@, worker[i].at), next)]
             /\ worker' = [worker EXCEPT ![i].at = next, ![i].call = "none"]
      BY <1>3 DEF Record, At, Stages
    <2>2. Begun(Finished(file[i], worker[i].at), next) \in Items
      BY <1>3, <2>1, ItemsTyped DEF Record, Stages
    <2> QED
      BY <1>3, <2>1, <2>2 DEF Record, Workers, Stages
  <1>4. CASE StageFails(i)
    <2>1. PICK left \in {{}, LeftBy(i)} : cloud' = [cloud EXCEPT
                      ![i] = WithStray(cloud[i], cloud[i].stray \cup left)]
      BY <1>4 DEF StageFails
    <2>2. cloud[i].stray \cup left \in SUBSET Phases
      BY <2>1, LeftTyped DEF Clouds
    <2>3. cloud' \in [Participants -> Clouds]
      BY <2>1, <2>2, StrayTyped
    <2>4. file' \in [Participants -> Items] /\ UNCHANGED run
      BY <1>4, ItemsTyped DEF StageFails
    <2>5. worker' \in [Participants -> Workers]
      BY <1>4 DEF StageFails, Workers, NoWorker
    <2> QED
      BY <2>3, <2>4, <2>5
  <1> QED
    BY <1>1, <1>2, <1>3, <1>4 DEF Deployed

\* cleanup.
LEMMA CleanupTypes ==
    ASSUME TypeOK, StartCleanup \/ CleaningUp \/ CleanupFails
    PROVE  TypeOK'
  <1> USE DEF TypeOK
  <1>1. CASE StartCleanup
    BY <1>1 DEF StartCleanup, Listed, Runs
  <1>2. CASE EndCleanup
    BY <1>2, EndTyped DEF EndCleanup
  <1>3. CASE run \in Runs /\ run.left # {} /\ (FindGroup \/ RemoveRole
                \/ Delete \/ Gone \/ Deadline \/ CleanupFails)
    <2>1. Now \in Participants
      BY <1>3, NowLeft DEF Runs
    <2>2. NotCleaned => run' \in Runs /\ file' \in [Participants -> Items]
                           /\ UNCHANGED worker
      <3> SUFFICES ASSUME NotCleaned PROVE run' \in Runs /\
             file' \in [Participants -> Items] /\ UNCHANGED worker
        OBVIOUS
      <3>1. file' \in [Participants -> Items]
        BY <2>1, WritesTyped DEF NotCleaned
      <3> QED
        BY <1>3, <3>1 DEF NotCleaned, NextItem, Runs
    <2>3. Cleaned => run' \in Runs /\ file' \in [Participants -> Items]
                        /\ UNCHANGED worker
      <3> SUFFICES ASSUME Cleaned PROVE run' \in Runs /\
             file' \in [Participants -> Items] /\ UNCHANGED worker
        OBVIOUS
      <3>1. file' \in [Participants -> Items]
        BY <2>1, WritesTyped DEF Cleaned
      <3> QED
        BY <1>3, <3>1 DEF Cleaned, NextItem, Runs
    <2>4. ASSUME NEW at \in {"role", "delete", "wait"}, Proceed(at)
          PROVE  run' \in Runs /\ UNCHANGED <<file, worker>>
      BY <1>3, <2>4 DEF Proceed, Runs
    <2>5. CASE RemoveRole
      <3>1. cloud[Now] \in Clouds
        BY <2>1
      <3>2. \A b \in BOOLEAN : [cloud[Now] EXCEPT !.monitoring = b] \in Clouds
        BY <3>1 DEF Clouds
      <3>3. (cloud[Now].monitoring /\ cloud[Now].parts = "nothing") \in BOOLEAN
        OBVIOUS
      <3>4. cloud' \in [Participants -> Clouds]
        BY <2>1, <2>5, <3>2, <3>3 DEF RemoveRole
      <3> QED
        BY <2>4, <2>5, <3>4 DEF RemoveRole
    <2>6. CASE Delete
      BY <2>1, <2>2, <2>4, <2>6 DEF Delete, Clouds
    <2>7. CASE FindGroup
      <3>1. cloud' \in [Participants -> Clouds]
        <4>1. \A b \in BOOLEAN : [cloud[Now] EXCEPT !.hasty = b] \in Clouds
          BY <2>1 DEF Clouds
        <4>2. (cloud[Now].hasty \/ cloud[Now].stray # {}) \in BOOLEAN
          OBVIOUS
        <4> QED
          BY <2>1, <2>7, <4>1, <4>2 DEF FindGroup, Look
      <3> QED
        BY <2>2, <2>3, <2>4, <2>7, <3>1 DEF FindGroup
    <2> QED
      BY <1>3, <2>2, <2>3, <2>5, <2>6, <2>7
         DEF Gone, Deadline, CleanupFails
  <1>4. run.cmd = "cleanup" => run \in Runs
    BY DEF NoRun
  <1> QED
    BY <1>1, <1>2, <1>3, <1>4 DEF CleaningUp, CleanupFails, FindGroup,
       RemoveRole, Delete, Gone, Deadline, Cleaning, Running

\* Template deployments, awaited or not, and deletions.
LEMMA AzureTypes ==
    ASSUME TypeOK, NEW i \in Participants,
           Provision(i) \/ Stray(i) \/ Deletion(i)
    PROVE  TypeOK'
  <1>1. cloud[i] \in Clouds /\ worker[i] \in Workers
    BY DEF TypeOK
  <1>2. CASE Provision(i)
    <2>1. /\ worker[i].call \in Phases
          /\ worker' = [worker EXCEPT ![i].call = After(worker[i].call)]
          /\ cloud' = [cloud EXCEPT ![i] = Applied(@, worker[i].call)]
          /\ UNCHANGED <<file, run>>
      BY <1>2 DEF Provision, Does
    <2>2. After(worker[i].call) \in Phases \cup {"deployed"}
      BY <2>1 DEF After, Phases
    <2>3. worker' \in [Participants -> Workers]
      BY <2>1, <2>2 DEF TypeOK, Workers
    <2>4. cloud' \in [Participants -> Clouds]
      BY <1>1, <2>1, AppliedTyped DEF TypeOK
    <2> QED
      BY <2>1, <2>3, <2>4 DEF TypeOK
  <1>3. CASE Stray(i)
    <2>1. PICK c \in Clouds, stray \in SUBSET Phases :
             cloud' = [cloud EXCEPT ![i] = WithStray(c, stray)]
      <3>1. PICK phase \in cloud[i].stray :
               LET others == cloud[i].stray \ {phase}
               IN \/ cloud' = [cloud EXCEPT ![i] = WithStray(cloud[i], others)]
                  \/ cloud' = [cloud EXCEPT
                        ![i] = WithStray(Applied(cloud[i], phase),
                                others \cup ({After(phase)} \cap Phases))]
        BY <1>3, Zenon DEF Stray
      <3>2. Applied(cloud[i], phase) \in Clouds
        BY <1>1, <3>1, AppliedTyped DEF Clouds
      <3>3. /\ cloud[i].stray \ {phase} \in SUBSET Phases
            /\ (cloud[i].stray \ {phase})
                  \cup ({After(phase)} \cap Phases) \in SUBSET Phases
        BY <1>1 DEF Clouds
      <3> QED
        BY <1>1, <3>1, <3>2, <3>3, Zenon
    <2>2. WithStray(c, stray) \in Clouds
      BY <2>1, StrayTyped
    <2>3. cloud' \in [Participants -> Clouds]
      BY <2>1, <2>2 DEF TypeOK
    <2>4. UNCHANGED <<file, run, worker>>
      BY <1>3 DEF Stray
    <2> QED
      BY <2>3, <2>4 DEF TypeOK
  <1>4. CASE Deletion(i)
    <2>1. /\ [cloud[i] EXCEPT !.parts = "nothing"] \in Clouds
          /\ [cloud[i] EXCEPT !.parts = "some"] \in Clouds
          /\ [cloud[i] EXCEPT !.group = "there"] \in Clouds
          /\ [cloud[i] EXCEPT !.group = "none", !.parts = "nothing",
                              !.access = FALSE] \in Clouds
      BY <1>1 DEF Clouds
    <2>2. cloud' \in [Participants -> Clouds]
      <3>1. CASE cloud' = [cloud EXCEPT ![i].group = "none",
                             ![i].parts = "nothing", ![i].access = FALSE]
        BY <2>1, <3>1 DEF TypeOK
      <3>2. CASE \/ cloud' = [cloud EXCEPT ![i].parts = "nothing"]
                 \/ cloud' = [cloud EXCEPT ![i].parts = "some"]
                 \/ cloud' = [cloud EXCEPT ![i].group = "there"]
        BY <2>1, <3>2 DEF TypeOK
      <3> QED
        BY <1>4, <3>1, <3>2, Zenon DEF Deletion
    <2> QED
      BY <1>4, <2>2 DEF TypeOK, Deletion
  <1> QED
    BY <1>2, <1>3, <1>4

\* Every step keeps the types.
LEMMA TypeStep == TypeOK /\ [Next]_vars => TypeOK'
  <1> SUFFICES ASSUME TypeOK, [Next]_vars PROVE TypeOK'
    OBVIOUS
  <1>1. CASE UNCHANGED vars
    BY <1>1 DEF vars, TypeOK
  <1>2. CASE Kill
    BY <1>2, EndTyped DEF Kill
  <1> QED
    BY <1>1, <1>2, DeployingTypes, DeployedTypes, CleanupTypes, AzureTypes
       DEF Next

\* The variables have their types, for any number of participants and threads:
\* deploy and cleanup write only the stages and statuses of an item.
THEOREM TypeCorrect == Spec => []TypeOK
  BY TypeInit, TypeStep, PTL DEF Spec

-----------------------------------------------------------------------------
(* What each step does to one participant: its item, thread, environment.  *)

\* A phase that azd up waits for ends, and the next begins.
LEMMA AwaitedFits ==
    ASSUME NEW f \in Items, NEW w \in Workers, NEW c \in Clouds, Fits(f, w, c),
           w.call \in Phases,
           w.call = "resources" => c.group = "there"
    PROVE  Fits(f, [w EXCEPT !.call = After(w.call)], Applied(c, w.call))
  <1> DEFINE v == [w EXCEPT !.call = After(w.call)]
             d == Applied(c, w.call)
  <1>1. /\ w.at = "deployment" /\ ~w.passed /\ f.deployment = "Running"
        /\ f.status # "Ready" /\ c.group # "foreign"
    BY DEF Fits, Matches, Phases
  <1>2. /\ v.at = w.at /\ v.passed = w.passed /\ v.call = After(w.call)
        /\ v.call \in {"resources", "role", "deployed"}
    BY DEF Workers, After, Phases
  <1>3. d.stray = c.stray /\ d.hasty = c.hasty
    BY DEF Clouds, Applied, Phases
  <1>4. /\ d.group \in {c.group, "there"}
        /\ c.group = "there" => d.group = "there"
        /\ w.call = "group" => d.group = "there" /\ v.call = "resources"
        /\ c.parts # "nothing" => d.parts # "nothing"
        /\ w.call = "resources" => d.parts # "nothing"
        /\ d.monitoring => c.monitoring \/ w.call = "role"
        /\ w.call = "role" => v.call = "deployed"
    BY DEF Clouds, Applied, Phases, After
  <1> HIDE DEF v, d
  <1>5. Matches(f, v)
    BY <1>1, <1>2 DEF Matches
  <1>6. ASSUME ~c.hasty PROVE Founded(v, d)
    <2>1. Founded(w, c)
      BY <1>6 DEF Fits
    <2> QED
      BY <1>2, <1>3, <1>4, <2>1 DEF Founded, Phases
  <1>7. Stands(f, v, d) /\ Removed(f, d)
    BY <1>1, <1>2 DEF Stands, Removed, PassedBefore
  <1>8. d.group # "foreign"
    BY <1>1, <1>4
  <1> QED
    BY <1>3, <1>5, <1>6, <1>7, <1>8 DEF Fits, v, d

\* A deployment that nobody waits for fails.
LEMMA StrayFailsFits ==
    ASSUME NEW f \in Items, NEW w \in Workers, NEW c \in Clouds, Fits(f, w, c),
           NEW phase \in c.stray
    PROVE  Fits(f, w, WithStray(c, c.stray \ {phase}))
  <1> DEFINE d == WithStray(c, c.stray \ {phase})
  <1>1. /\ d.stray = c.stray \ {phase} /\ d.group = c.group
        /\ d.parts = c.parts /\ d.monitoring = c.monitoring
        /\ d.access = c.access /\ d.hasty = c.hasty
    BY DEF Clouds, WithStray
  <1> HIDE DEF d
  <1>2. Founded(w, c) => Founded(w, d)
    BY <1>1 DEF Founded
  <1>3. Stands(f, w, c) => Stands(f, w, d)
    BY <1>1 DEF Stands
  <1>4. Removed(f, c) => Removed(f, d)
    BY <1>1 DEF Removed
  <1> QED
    BY <1>1, <1>2, <1>3, <1>4 DEF Fits, d

\* It goes on to its next phase.
LEMMA StrayFits ==
    ASSUME NEW f \in Items, NEW w \in Workers, NEW c \in Clouds, Fits(f, w, c),
           NEW phase \in c.stray,
           phase = "resources" => c.group = "there"
    PROVE  Fits(f, w, WithStray(Applied(c, phase),
                   (c.stray \ {phase}) \cup ({After(phase)} \cap Phases)))
  <1> DEFINE stray == (c.stray \ {phase}) \cup ({After(phase)} \cap Phases)
             d == WithStray(Applied(c, phase), stray)
  <1>1. phase \in Phases /\ Applied(c, phase) \in Clouds
    BY AppliedTyped DEF Clouds
  <1>2. /\ d.stray = stray /\ d.hasty = c.hasty /\ d.access = c.access
        /\ d.group = Applied(c, phase).group
        /\ d.parts = Applied(c, phase).parts
        /\ d.monitoring = Applied(c, phase).monitoring
    <2> HIDE DEF stray
    <2>1. /\ d.stray = stray /\ d.hasty = Applied(c, phase).hasty
          /\ d.access = Applied(c, phase).access
          /\ d.group = Applied(c, phase).group
          /\ d.parts = Applied(c, phase).parts
          /\ d.monitoring = Applied(c, phase).monitoring
      BY <1>1 DEF Clouds, WithStray
    <2>2. /\ Applied(c, phase).hasty = c.hasty
          /\ Applied(c, phase).access = c.access
      BY <1>1 DEF Clouds, Applied, Phases
    <2> QED
      BY <2>1, <2>2
  <1>3. /\ c.group = "there" => d.group = "there"
        /\ d.group \in {c.group, "there"}
        /\ phase = "group" => d.group = "there"
        /\ d.parts \in {c.parts, "some"}
        /\ c.parts # "nothing" => d.parts = c.parts
        /\ phase = "resources" => d.parts # "nothing"
        /\ d.monitoring => c.monitoring \/ phase = "role"
    <2> HIDE DEF d
    <2> QED
      BY <1>1, <1>2 DEF Clouds, Applied, Phases
  <1>4. /\ "role" \in stray => "role" \in c.stray \/ phase = "resources"
        /\ "resources" \in stray => "resources" \in c.stray \/ phase = "group"
    BY <1>1 DEF After, Phases
  <1>5. c.group # "foreign"
    BY DEF Fits
  <1> HIDE DEF d, stray
  <1>6. Founded(w, c) => Founded(w, d)
    BY <1>2, <1>3, <1>4 DEF Founded
  <1>7. Stands(f, w, c) => Stands(f, w, d)
    BY <1>2, <1>3 DEF Stands
  <1>8. Removed(f, c) => Removed(f, d)
    BY DEF Removed
  <1> QED
    BY <1>2, <1>3, <1>5, <1>6, <1>7, <1>8 DEF Fits, d, stray

\* A deletion goes on, or stops half way.
LEMMA DeletionFits ==
    ASSUME NEW f \in Items, NEW w \in Workers, NEW c \in Clouds, Fits(f, w, c),
           NEW d \in Clouds, c.group = "deleting",
           d.monitoring = c.monitoring, d.stray = c.stray, d.hasty = c.hasty,
           d.group \in {"deleting", "there", "none"}
    PROVE  Fits(f, w, d)
  <1>1. d.group # "foreign"
    OBVIOUS
  <1>2. ASSUME ~c.hasty PROVE Founded(w, d) /\ Stands(f, w, d) /\ Removed(f, d)
    <2>1. Founded(w, c) /\ Stands(f, w, c) /\ Removed(f, c) /\ Matches(f, w)
      BY <1>2 DEF Fits
    <2>2. Founded(w, d)
      BY <2>1 DEF Founded
    <2>3. Stands(f, w, d)
      BY <2>1 DEF Founded, Stands, Matches, PassedBefore
    <2>4. Removed(f, d)
      BY <2>1 DEF Removed
    <2> QED
      BY <2>2, <2>3, <2>4
  <1> QED
    BY <1>1, <1>2 DEF Fits

\* A thread ends; what its call was in may go on.
LEMMA LeavingFits ==
    ASSUME NEW f \in Items, NEW w \in Workers, NEW c \in Clouds, Fits(f, w, c),
           NEW g \in Items, NEW v \in Workers, NEW left \in SUBSET Phases,
           left \subseteq {w.call},
           v.call = "none", v.at \in {"none", "done"},
           v.at = "done" => w.at \in Stages,
           g.deployment \in {f.deployment, "Failed"},
           g.validation \in {f.validation, "Failed"},
           g.status \in {f.status, "Failed"}
    PROVE  Fits(g, v, WithStray(c, c.stray \cup left))
  <1> DEFINE d == WithStray(c, c.stray \cup left)
  <1>1. /\ d.stray = c.stray \cup left /\ d.group = c.group
        /\ d.parts = c.parts /\ d.monitoring = c.monitoring
        /\ d.access = c.access /\ d.hasty = c.hasty
    BY DEF Clouds, WithStray
  <1> HIDE DEF d
  <1>2. left # {} => left = {w.call} /\ w.at = "deployment"
                        /\ f.deployment = "Running" /\ f.status # "Ready"
    BY DEF Fits, Matches, Phases
  <1>3. Matches(g, v)
    BY DEF Matches
  <1>4. d.group = "foreign" => d.stray = {} /\ v.at = "none"
    BY <1>1, <1>2 DEF Fits, Stages
  <1>5. Founded(w, c) => Founded(v, d)
    BY <1>1, <1>2 DEF Founded
  <1>6. Stands(f, w, c) => Stands(g, v, d)
    BY <1>1, <1>2 DEF Stands, PassedBefore
  <1>7. Removed(f, c) => Removed(g, d)
    BY <1>1, <1>2 DEF Removed
  <1> QED
    BY <1>1, <1>3, <1>4, <1>5, <1>6, <1>7 DEF Fits, d

\* An item that no thread has is reset, fails or is queued, or its roles are
\* assigned.
LEMMA IdleFits ==
    ASSUME NEW f \in Items, NEW w \in Workers, NEW c \in Clouds, Fits(f, w, c),
           NEW g \in Items, NEW v \in Workers, NEW d \in Clouds,
           w.at = "none", v.call = w.call, v.at \in {"none", "queued"},
           v.at = "queued" => c.group # "foreign",
           d.group = c.group, d.parts = c.parts, d.monitoring = c.monitoring,
           d.stray = c.stray, d.hasty = c.hasty, c.access => d.access,
           g.deployment \in {f.deployment, "Failed", "Pending"},
           g.deployment # "Pending" => g.validation = f.validation,
           g.status \in {f.status, "Failed", "Pending"}
    PROVE  Fits(g, v, d)
  <1>1. Matches(g, v)
    BY DEF Fits, Matches
  <1>2. Founded(w, c) => Founded(v, d)
    BY DEF Founded
  <1>3. Stands(f, w, c) => Stands(g, v, d)
    BY DEF Stands, PassedBefore
  <1>4. Removed(f, c) => Removed(g, d)
    BY DEF Removed
  <1> QED
    BY <1>1, <1>2, <1>3, <1>4 DEF Fits

\* Cleanup looks at an environment.
LEMMA LookFits ==
    ASSUME NEW f \in Items, NEW w \in Workers, NEW c \in Clouds, Fits(f, w, c),
           NEW d \in Clouds,
           d.group = c.group, d.parts = c.parts, d.monitoring = c.monitoring,
           d.access = c.access, d.stray = c.stray,
           ~d.hasty => ~c.hasty /\ c.stray = {}
    PROVE  Fits(f, w, d) /\ (~d.hasty => d.stray = {})
  <1>1. Founded(w, c) => Founded(w, d)
    BY DEF Founded
  <1>2. Stands(f, w, c) => Stands(f, w, d)
    BY DEF Stands
  <1>3. Removed(f, c) => Removed(f, d)
    BY DEF Removed
  <1> QED
    BY <1>1, <1>2, <1>3 DEF Fits

\* Its group is gone, and no deployment is on its way.
LEMMA CleanedFits ==
    ASSUME NEW f \in Items, NEW w \in Workers, NEW c \in Clouds, Fits(f, w, c),
           w.at = "none", c.group = "none", ~c.hasty => c.stray = {}
    PROVE  Fits(Item("Removed", "-", "Cleaned"), w, c)
  <1> DEFINE g == Item("Removed", "-", "Cleaned")
  <1>1. g.deployment = "Removed" /\ g.status = "Cleaned" /\ ~PassedBefore(g)
    BY DEF Item, PassedBefore
  <1> HIDE DEF g
  <1>2. Matches(g, w) /\ Stands(g, w, c)
    BY <1>1 DEF Fits, Matches, Stands
  <1>3. ~c.hasty => Founded(w, c) /\ Removed(g, c)
    BY DEF Fits, Founded, Removed
  <1> QED
    BY <1>2, <1>3 DEF Fits, g

\* The role is removed: the agent that names it is still there.
LEMMA RoleRemovedFits ==
    ASSUME NEW f \in Items, NEW w \in Workers, NEW c \in Clouds, Fits(f, w, c),
           Looked(c, "role"), NEW d \in Clouds,
           d.group = c.group, d.parts = c.parts, d.access = c.access,
           d.stray = c.stray, d.hasty = c.hasty,
           d.monitoring => c.monitoring /\ c.parts = "nothing"
    PROVE  Fits(f, w, d) /\ Looked(d, "delete")
  <1>1. Founded(w, c) => Founded(w, d) /\ ~d.monitoring
    BY DEF Founded
  <1>2. Stands(f, w, c) => Stands(f, w, d)
    BY DEF Stands
  <1>3. Removed(f, c) => Removed(f, d)
    BY DEF Removed
  <1> QED
    BY <1>1, <1>2, <1>3 DEF Fits, Looked

\* The group's deletion begins, without the role.
LEMMA DeletingFits ==
    ASSUME NEW f \in Items, NEW w \in Workers, NEW c \in Clouds, Fits(f, w, c),
           w.at = "none", Looked(c, "delete"), c.group # "none",
           NEW d \in Clouds, d.group = "deleting", d.parts = c.parts,
           d.monitoring = c.monitoring, d.stray = c.stray, d.hasty = c.hasty
    PROVE  Fits(f, w, d) /\ Looked(d, "wait")
  <1>1. Looked(d, "wait")
    BY DEF Looked
  <1>2. ASSUME ~d.hasty
        PROVE  Founded(w, d) /\ Stands(f, w, d) /\ Removed(f, d)
    <2>1. /\ ~d.monitoring /\ d.stray = {} /\ w.call # "role"
          /\ w.call # "resources" /\ Removed(f, c)
      BY <1>2 DEF Looked, Fits, Matches
    <2> QED
      BY <2>1 DEF Founded, Stands, Removed
  <1> QED
    BY <1>1, <1>2 DEF Fits

\* A thread takes its item.
LEMMA BegunFits ==
    ASSUME NEW f \in Items, NEW w \in Workers, NEW c \in Clouds, Fits(f, w, c),
           w.at = "queued", NEW g \in Items, NEW v \in Workers,
           \/ /\ v.at = "deployment" /\ v.call = "group" /\ ~v.passed
              /\ g.deployment = "Running" /\ g.status # "Ready"
           \/ /\ v.call = "none" /\ g.status # "Ready"
              /\ f.deployment = "Succeeded" /\ g.deployment = "Succeeded"
              /\ \/ v.at = "validation" /\ g.validation = "Running"
                 \/ /\ v.at = "rbac" /\ f.validation = "Passed"
                    /\ g.validation = "Passed"
    PROVE  Fits(g, v, c)
  <1>1. Matches(g, v) /\ c.group # "foreign"
    BY DEF Matches, PassedBefore, Fits
  <1>2. Founded(w, c) => Founded(v, c)
    BY DEF Founded
  <1>3. Stands(f, w, c) => Stands(g, v, c)
    BY DEF Stands, PassedBefore
  <1>4. Removed(g, c)
    BY DEF Removed
  <1> QED
    BY <1>1, <1>2, <1>3, <1>4 DEF Fits

\* The call of a stage succeeds: azd up makes all of it, and later calls only
\* add to it.
LEMMA StageFits ==
    ASSUME NEW f \in Items, NEW w \in Workers, NEW c \in Clouds, Fits(f, w, c),
           NEW v \in Workers, NEW d \in Clouds, w.at \in Stages,
           v.at = w.at, v.passed = w.passed, v.call = "did",
           d.group = c.group, d.monitoring = c.monitoring, d.stray = c.stray,
           c.access => d.access,
           \/ /\ w.at = "deployment" /\ c.group = "there"
              /\ c.parts # "nothing" /\ d.parts = "built"
              /\ w.call = "deployed"
           \/ /\ w.at = "validation" /\ d.hasty = c.hasty
              /\ d.parts = IF c.parts = "built" THEN "checked" ELSE c.parts
           \/ /\ w.at = "rbac" /\ d.hasty = c.hasty
              /\ d.parts = c.parts /\ d.access
    PROVE  Fits(f, v, d)
  <1>1. Matches(f, v) /\ c.group # "foreign"
    BY DEF Matches, Fits, Stages
  <1>2. CASE w.at = "deployment"
    <2>1. /\ f.deployment = "Running" /\ f.status # "Ready"
          /\ c.group = "there" /\ d.parts = "built"
      BY <1>2 DEF Fits, Matches
    <2> QED
      BY <1>1, <1>2, <2>1 DEF Fits, Founded, Stands, Removed, PassedBefore
  <1>3. CASE w.at # "deployment"
    <2>1. Founded(w, c) => Founded(v, d)
      BY <1>3 DEF Founded
    <2>2. Stands(f, w, c) /\ Matches(f, w) => Stands(f, v, d)
      BY <1>3 DEF Stands, Matches, PassedBefore, Stages
    <2>3. Removed(f, c) => Removed(f, d)
      BY DEF Removed
    <2> QED
      BY <1>1, <1>3, <2>1, <2>2, <2>3 DEF Fits
  <1> QED
    BY <1>2, <1>3

\* A stage is recorded, and the next one begins.
LEMMA RecordedFits ==
    ASSUME NEW f \in Items, NEW w \in Workers, NEW c \in Clouds, Fits(f, w, c),
           w.call = "did", NEW g \in Items, NEW v \in Workers,
           v.call = "none", g.deployment = "Succeeded",
           \/ /\ w.at = "deployment" /\ v.at = "validation"
              /\ g.validation = "Running" /\ g.status = "Pending"
           \/ /\ w.at = "validation" /\ v.at = "rbac"
              /\ g.validation = "Passed" /\ g.status = "Pending"
           \/ /\ w.at = "rbac" /\ v.at = "done"
              /\ g.validation = "Passed" /\ g.status = "Ready"
    PROVE  Fits(g, v, c)
  <1>1. Matches(g, v) /\ c.group # "foreign"
    BY DEF Matches, PassedBefore, Fits
  <1>2. Founded(w, c) => Founded(v, c)
    BY DEF Founded
  <1>3. Stands(f, w, c) /\ Matches(f, w) => Stands(g, v, c)
    BY DEF Stands, Matches, PassedBefore
  <1>4. Removed(g, c)
    BY DEF Removed
  <1> QED
    BY <1>1, <1>2, <1>3, <1>4 DEF Fits

-----------------------------------------------------------------------------
(* Every action preserves the inductive invariant.                         *)

\* What the invariant says of one participant.
LEMMA FitsOne ==
    ASSUME IInv, NEW i \in Participants
    PROVE  /\ Fits(file[i], worker[i], cloud[i])
           /\ file[i] \in Items /\ worker[i] \in Workers /\ cloud[i] \in Clouds
  BY DEF IInv, AllFit, TypeOK

\* Between two processes, and in a cleanup, no thread runs.
LEMMA NoThreads ==
    ASSUME IInv, ~Running("deploy", "consider"), NEW i \in Participants
    PROVE  worker[i].at = "none"
  BY DEF IInv, RunFits

\* A step that changes one participant only.
LEMMA OneFits ==
    ASSUME IInv, NEW i \in Participants,
           \A j \in Participants : j # i =>
              file'[j] = file[j] /\ worker'[j] = worker[j]
                 /\ cloud'[j] = cloud[j],
           Fits(file'[i], worker'[i], cloud'[i])
    PROVE  AllFit'
  <1>1. \A j \in Participants :
           j # i => Fits(file'[j], worker'[j], cloud'[j])
    BY DEF IInv, AllFit
  <1> QED
    BY <1>1 DEF AllFit

\* A step of a thread of the pool.
LEMMA ThreadRunFits ==
    ASSUME IInv, NEW i \in Participants, worker[i].at # "none", run' = run,
           \A j \in Participants : j # i =>
              worker'[j] = worker[j] /\ cloud'[j] = cloud[j]
    PROVE  RunFits'
  <1>1. /\ Running("deploy", "consider") /\ i \notin run.left
        /\ run.left \subseteq Participants
    BY DEF IInv, TypeOK, RunFits, Runs, NoRun
  <1> QED
    BY <1>1 DEF IInv, RunFits, Running

\* A step of Azure on its own.
LEMMA AzureRunFits ==
    ASSUME IInv, NEW i \in Participants, UNCHANGED <<file, run, worker>>,
           \A j \in Participants : j # i => cloud'[j] = cloud[j],
           cloud[i].group # "foreign" => cloud'[i].group # "foreign",
           \A at \in {"role", "delete", "wait"} :
              Looked(cloud[i], at) => Looked(cloud'[i], at)
    PROVE  RunFits'
  <1>1. \A j \in Participants : cloud[j].group # "foreign" =>
                                   cloud'[j].group # "foreign"
    OBVIOUS
  <1>2. run.left \subseteq Participants /\ Listed \subseteq Participants
           /\ Listed' = Listed
    BY DEF IInv, TypeOK, Runs, NoRun, Listed
  <1>3. run.cmd = "cleanup" /\ run.left # {} /\ run.at # "exists" =>
           Looked(cloud'[Now], run.at)
    <2> SUFFICES ASSUME run.cmd = "cleanup", run.left # {}, run.at # "exists"
                 PROVE  Looked(cloud'[Now], run.at)
      OBVIOUS
    <2>1. Now \in Participants
      BY <1>2, NowLeft
    <2>2. Looked(cloud[Now], run.at)
      BY DEF IInv, RunFits
    <2>3. CASE run.at \in {"role", "delete", "wait"}
      BY <2>1, <2>2, <2>3
    <2>4. CASE run.at \notin {"delete", "wait"}
      <3>1. Looked(cloud[Now], "role")
        BY <2>2, <2>4 DEF Looked
      <3>2. Looked(cloud'[Now], "role")
        BY <2>1, <3>1
      <3> QED
        BY <2>4, <3>2 DEF Looked
    <2> QED
      BY <2>3, <2>4
  <1>4. Now' = Now
    BY DEF Now
  <1> QED
    BY <1>1, <1>2, <1>3, <1>4 DEF IInv, RunFits, Running

\* Nothing has run: the invariant holds.
LEMMA InitEstablishes == Init => IInv
  <1> SUFFICES ASSUME Init PROVE IInv
    OBVIOUS
  <1>1. AllFit
    <2> SUFFICES ASSUME NEW i \in Participants
                 PROVE  Fits(file[i], worker[i], cloud[i])
      BY DEF AllFit
    <2>1. /\ file[i] = NoItem /\ worker[i] = NoWorker
          /\ ~cloud[i].monitoring /\ cloud[i].stray = {}
      BY DEF Init
    <2> QED
      BY <2>1 DEF Fits, Matches, Founded, Stands, Removed, NoItem, Item,
                  NoWorker, PassedBefore
  <1>2. RunFits
    BY DEF Init, RunFits, NoWorker, NoRun, Running
  <1> QED
    BY <1>1, <1>2, TypeInit DEF IInv

\* The end of a process, in whatever way.
LEMMA EndPreserves ==
    ASSUME IInv, TypeOK', End
    PROVE  IInv'
  <1>1. ASSUME NEW i \in Participants
        PROVE  Fits(file'[i], worker'[i], cloud'[i])
    <2>1. /\ file'[i] = file[i] /\ worker'[i] = NoWorker
          /\ cloud'[i] = WithStray(cloud[i], cloud[i].stray \cup LeftBy(i))
      BY DEF End
    <2>2. NoWorker \in Workers /\ NoWorker.call = "none" /\ NoWorker.at = "none"
      BY DEF NoWorker, Workers
    <2>3. LeftBy(i) \in SUBSET Phases /\ LeftBy(i) \subseteq {worker[i].call}
      BY LeftTyped
    <2>4. Fits(file[i], NoWorker,
               WithStray(cloud[i], cloud[i].stray \cup LeftBy(i)))
      BY <2>2, <2>3, FitsOne, LeavingFits
    <2> QED
      BY <2>1, <2>4
  <1>2. RunFits'
    BY DEF End, RunFits, NoRun, NoWorker, Running
  <1> QED
    BY <1>1, <1>2 DEF IInv, AllFit

\* A deployment begins when nothing runs.
LEMMA StartDeployPreserves ==
    ASSUME IInv, TypeOK', StartDeploy
    PROVE  IInv'
  <1>1. PICK n \in Participants :
             /\ file' = [i \in Participants |->
                           IF i \in 1..n \ Listed THEN Pending ELSE file[i]]
             /\ Listed \subseteq 1..n
             /\ run' = [cmd |-> "deploy", at |-> "inspect", left |-> 1..n,
                        gone |-> {}]
             /\ UNCHANGED <<worker, cloud>>
    BY DEF StartDeploy
  <1>2. \A i \in Participants : worker[i].at = "none"
    BY NoThreads DEF StartDeploy, NoRun, Running
  <1>3. ASSUME NEW i \in Participants
        PROVE  Fits(file'[i], worker'[i], cloud'[i])
    <2>1. /\ file'[i] \in {file[i], Pending} /\ Pending \in Items
          /\ Pending.deployment = "Pending" /\ Pending.status = "Pending"
      BY <1>1 DEF Pending, Item, Items
    <2> QED
      BY <1>1, <1>2, <2>1, FitsOne, IdleFits
  <1>4. RunFits'
    <2>1. \A i \in Participants : i \notin 1..n => file'[i] = NoItem
      BY <1>1 DEF Listed
    <2> QED
      BY <1>1, <1>2, <2>1 DEF RunFits, Running, Listed
  <1> QED
    BY <1>3, <1>4 DEF IInv, AllFit

\* Preflight stops at a foreign group.
LEMMA InspectPreserves ==
    ASSUME IInv, TypeOK', Inspect
    PROVE  IInv'
  <1>1. CASE ~End
    <2>1. Now \in run.left /\ run \in Runs
      BY NowLeft DEF Inspect, Running, IInv, TypeOK, NoRun, Runs
    <2>2. /\ run'.cmd = run.cmd /\ run'.at = run.at
          /\ run'.left = run.left \ {Now}
          /\ UNCHANGED <<file, worker, cloud>>
          /\ Running("deploy", "inspect")
          /\ cloud[Now].group # "foreign"
      BY <1>1, <2>1 DEF Inspect, Runs
    <2>3. AllFit'
      BY <2>2 DEF IInv, AllFit
    <2>4. RunFits'
      BY <2>1, <2>2 DEF IInv, RunFits, Running, Listed
    <2> QED
      BY <2>3, <2>4 DEF IInv
  <1> QED
    BY <1>1, EndPreserves

\* After preflight every group of the list is the cohort's own.
LEMMA SavePreflightPreserves ==
    ASSUME IInv, TypeOK', SavePreflight
    PROVE  IInv'
  <1>1. /\ run'.cmd = "deploy" /\ run'.at = "consider" /\ run'.left = Listed
        /\ UNCHANGED <<worker, cloud>>
        /\ run.left = {} /\ Running("deploy", "inspect")
    BY DEF SavePreflight, IInv, TypeOK, Runs, NoRun, Running
  <1>2. \A i \in Participants : worker[i].at = "none"
    BY <1>1, NoThreads DEF Running
  <1>3. ASSUME NEW i \in Participants
        PROVE  Fits(file'[i], worker'[i], cloud'[i])
    <2>1. /\ file'[i] \in {Pending, file[i]} /\ Pending \in Items
          /\ Pending.deployment = "Pending" /\ Pending.status = "Pending"
      BY DEF SavePreflight, Pending, Item, Items
    <2> QED
      BY <1>1, <1>2, <2>1, FitsOne, IdleFits
  <1>4. RunFits'
    BY <1>1, <1>2 DEF IInv, RunFits, Running
  <1> QED
    BY <1>3, <1>4 DEF IInv, AllFit

\* The items of the list that are deployed.
LEMMA ConsiderPreserves ==
    ASSUME IInv, TypeOK',
           ConfirmReady \/ ReadyFails \/ Configure \/ ConfigureFails
    PROVE  IInv'
  <1>1. /\ Running("deploy", "consider") /\ run \in Runs
        /\ run.left # {} /\ Now \in run.left /\ Now \in Participants
    BY NowLeft DEF ConfirmReady, ReadyFails, Configure, ConfigureFails,
                   Running, IInv, TypeOK, NoRun, Runs
  <1>2. worker[Now].at = "none" /\ cloud[Now].group # "foreign"
    BY <1>1 DEF IInv, RunFits
  <1>3. /\ run'.cmd = "deploy" /\ run'.at = "consider"
        /\ run'.left \in {run.left, run.left \ {Now}}
        /\ worker' # worker => run'.left = run.left \ {Now}
    BY <1>1 DEF ConfirmReady, ReadyFails, Configure, ConfigureFails,
       NextItem, Running, Runs
  <1>4. /\ file[Now] \in Items /\ worker[Now] \in Workers
        /\ cloud[Now] \in Clouds /\ Fits(file[Now], worker[Now], cloud[Now])
        /\ file'[Now] \in Items /\ worker'[Now] \in Workers
        /\ cloud'[Now] \in Clouds
    BY <1>1, FitsOne DEF TypeOK
  <1>5. /\ \A i \in Participants : i # Now =>
              file'[i] = file[i] /\ worker'[i] = worker[i]
                 /\ cloud'[i] = cloud[i]
        /\ file'[Now].deployment \in {file[Now].deployment, "Failed"}
        /\ file'[Now].validation = file[Now].validation
        /\ file'[Now].status \in {file[Now].status, "Failed"}
        /\ worker'[Now].at \in {"none", "queued"}
        /\ worker'[Now].call = worker[Now].call
        /\ cloud'[Now].group = cloud[Now].group
        /\ cloud'[Now].parts = cloud[Now].parts
        /\ cloud'[Now].monitoring = cloud[Now].monitoring
        /\ cloud'[Now].stray = cloud[Now].stray
        /\ cloud'[Now].hasty = cloud[Now].hasty
        /\ cloud[Now].access => cloud'[Now].access
    <2>1. CASE ConfirmReady
      <3>1. /\ cloud' = [cloud EXCEPT ![Now].access = TRUE]
            /\ UNCHANGED <<file, worker>>
        BY <2>1 DEF ConfirmReady, Grant
      <3> QED
        BY <1>1, <1>2, <1>4, <3>1 DEF IInv, TypeOK, Clouds
    <2>2. CASE ReadyFails
      <3>1. /\ file' = [file EXCEPT ![Now].status = "Failed"]
            /\ UNCHANGED <<worker, cloud>>
        BY <2>2 DEF ReadyFails
      <3> QED
        BY <1>1, <1>2, <1>4, <3>1 DEF IInv, TypeOK, Items
    <2>3. CASE Configure
      <3>1. /\ worker' = [worker EXCEPT ![Now].at = "queued"]
            /\ UNCHANGED <<file, cloud>>
        BY <2>3 DEF Configure
      <3> QED
        BY <1>1, <1>2, <1>4, <3>1 DEF IInv, TypeOK, Workers
    <2>4. CASE ConfigureFails
      <3>1. /\ file'[Now] = [file[Now] EXCEPT !.deployment = "Failed",
                                              !.status = "Failed"]
            /\ \A i \in Participants : i # Now => file'[i] = file[i]
            /\ UNCHANGED <<worker, cloud>>
        BY <1>1, <2>4 DEF ConfigureFails, IInv, TypeOK
      <3> QED
        BY <1>2, <1>4, <3>1 DEF Items
    <2> QED
      BY <2>1, <2>2, <2>3, <2>4
  <1>6. Fits(file'[Now], worker'[Now], cloud'[Now])
    BY <1>2, <1>4, <1>5, IdleFits
  <1>7. AllFit'
    BY <1>1, <1>5, <1>6, OneFits
  <1>8. RunFits'
    <2>1. \A i \in Participants : worker'[i].at # "none" =>
             i \notin run'.left
      <3>1. CASE worker' = worker
        BY <1>1, <1>3, <3>1 DEF IInv, RunFits
      <3>2. CASE worker' # worker
        BY <1>1, <1>3, <1>5, <3>2 DEF IInv, RunFits
      <3> QED
        BY <3>1, <3>2
    <2>2. \A i \in run'.left : cloud'[i].group # "foreign"
      BY <1>1, <1>3, <1>5 DEF IInv, RunFits, Runs
    <2> QED
      BY <1>3, <2>1, <2>2 DEF RunFits, Running
  <1> QED
    BY <1>7, <1>8 DEF IInv

\* A thread takes its item.
LEMMA BeginPreserves ==
    ASSUME IInv, TypeOK', NEW i \in Participants, Begin(i)
    PROVE  IInv'
  <1> DEFINE passed == PassedBefore(file[i])
             first == IF file[i].deployment # "Succeeded" THEN "deployment"
                      ELSE IF passed THEN "rbac" ELSE "validation"
             call == IF first = "deployment" THEN "group" ELSE "none"
  <1>1. /\ worker[i].at = "queued" /\ UNCHANGED <<run, cloud>>
        /\ \A j \in Participants : j # i =>
              file'[j] = file[j] /\ worker'[j] = worker[j]
                 /\ cloud'[j] = cloud[j]
    BY DEF Begin, At, IInv, TypeOK
  <1>2. /\ worker'[i] = [at |-> first, passed |-> passed /\ first = "deployment",
                         call |-> call]
        /\ file'[i] = Begun(file[i], first)
    BY DEF Begin, IInv, TypeOK
  <1>3. /\ file[i] \in Items /\ file'[i] \in Items /\ worker'[i] \in Workers
        /\ worker[i] \in Workers /\ cloud[i] \in Clouds
        /\ Fits(file[i], worker[i], cloud[i])
    BY FitsOne DEF TypeOK
  <1>4. ASSUME file[i].deployment # "Succeeded"
        PROVE  Fits(file'[i], worker'[i], cloud[i])
    <2>1. file'[i] = Item("Running", "Pending", "Pending")
      BY <1>2, <1>4, BegunStages, Zenon
    <2>2. worker'[i] = [at |-> "deployment", passed |-> FALSE, call |-> "group"]
      BY <1>2, <1>4 DEF PassedBefore
    <2>3. /\ worker'[i].at = "deployment" /\ worker'[i].call = "group"
          /\ ~worker'[i].passed
          /\ file'[i].deployment = "Running" /\ file'[i].status # "Ready"
      BY <2>1, <2>2 DEF Item
    <2> QED
      BY <1>1, <1>3, <2>3, BegunFits
  <1>5. ASSUME file[i].deployment = "Succeeded" /\ passed
        PROVE  Fits(file'[i], worker'[i], cloud[i])
    <2>1. file'[i] = [file[i] EXCEPT !.status = "Pending"]
      BY <1>2, <1>5, BegunStages, Zenon
    <2>2. worker'[i].at = "rbac" /\ worker'[i].call = "none"
      BY <1>2, <1>5
    <2>3. /\ file'[i].deployment = "Succeeded" /\ file'[i].validation = "Passed"
          /\ file'[i].status # "Ready" /\ file[i].validation = "Passed"
      BY <1>3, <1>5, <2>1 DEF Items, PassedBefore
    <2> QED
      BY <1>1, <1>3, <1>5, <2>2, <2>3, BegunFits
  <1>6. ASSUME file[i].deployment = "Succeeded" /\ ~passed
        PROVE  Fits(file'[i], worker'[i], cloud[i])
    <2>1. file'[i] = [file[i] EXCEPT !.validation = "Running",
                                     !.status = "Pending"]
      BY <1>2, <1>6, BegunStages, Zenon
    <2>2. worker'[i].at = "validation" /\ worker'[i].call = "none"
      BY <1>2, <1>6
    <2>3. /\ file'[i].deployment = "Succeeded" /\ file'[i].validation = "Running"
          /\ file'[i].status # "Ready"
      BY <1>3, <1>6, <2>1 DEF Items
    <2> QED
      BY <1>1, <1>3, <1>6, <2>2, <2>3, BegunFits
  <1>7. Fits(file'[i], worker'[i], cloud[i])
    BY <1>4, <1>5, <1>6
  <1>8. AllFit'
    <2>1. Fits(file'[i], worker'[i], cloud'[i])
      BY <1>1, <1>7
    <2> QED
      BY <1>1, <2>1, OneFits
  <1>9. RunFits'
    BY <1>1, ThreadRunFits
  <1> QED
    BY <1>8, <1>9 DEF IInv

\* The call of a stage succeeds.
LEMMA StagePreserves ==
    ASSUME IInv, TypeOK', NEW i \in Participants,
           AzdUp(i) \/ Validate(i) \/ Assign(i)
    PROVE  IInv'
  <1>1. /\ file[i] \in Items /\ worker[i] \in Workers /\ cloud[i] \in Clouds
        /\ worker'[i] \in Workers /\ cloud'[i] \in Clouds
        /\ Fits(file[i], worker[i], cloud[i])
    BY FitsOne DEF TypeOK
  <1>2. /\ worker' = [worker EXCEPT ![i].call = "did"]
        /\ UNCHANGED <<file, run>> /\ worker[i].at \in Stages
    BY DEF AzdUp, Validate, Assign, Does, At, Stages
  <1>3. /\ worker'[i].at = worker[i].at /\ worker'[i].passed = worker[i].passed
        /\ worker'[i].call = "did"
        /\ \A j \in Participants : j # i => worker'[j] = worker[j]
    BY <1>1, <1>2 DEF IInv, TypeOK, Workers
  <1>4. /\ \A j \in Participants : j # i => cloud'[j] = cloud[j]
        /\ Fits(file[i], worker'[i], cloud'[i])
    <2>1. CASE AzdUp(i)
      <3>1. /\ cloud'[i] = [cloud[i] EXCEPT !.parts = "built", !.hasty = FALSE]
            /\ \A j \in Participants : j # i => cloud'[j] = cloud[j]
            /\ worker[i].at = "deployment" /\ worker[i].call = "deployed"
            /\ cloud[i].group = "there" /\ cloud[i].parts # "nothing"
        BY <2>1 DEF AzdUp, Does, At, IInv, TypeOK
      <3>2. /\ cloud'[i].group = cloud[i].group
            /\ cloud'[i].monitoring = cloud[i].monitoring
            /\ cloud'[i].stray = cloud[i].stray
            /\ cloud'[i].access = cloud[i].access
            /\ cloud'[i].parts = "built"
        BY <1>1, <3>1 DEF Clouds
      <3> QED
        BY <1>1, <1>2, <1>3, <3>1, <3>2, StageFits
    <2>2. CASE Validate(i)
      <3> DEFINE parts == IF cloud[i].parts = "built" THEN "checked"
                                                      ELSE cloud[i].parts
      <3>1. /\ cloud' = [cloud EXCEPT ![i].parts = parts]
            /\ worker[i].at = "validation"
        BY <2>2 DEF Validate, Does, At
      <3>2. /\ cloud'[i].group = cloud[i].group
            /\ cloud'[i].monitoring = cloud[i].monitoring
            /\ cloud'[i].stray = cloud[i].stray
            /\ cloud'[i].access = cloud[i].access
            /\ cloud'[i].hasty = cloud[i].hasty
            /\ cloud'[i].parts = parts
            /\ \A j \in Participants : j # i => cloud'[j] = cloud[j]
        <4> HIDE DEF parts
        <4> QED
          BY <1>1, <3>1 DEF Clouds, IInv, TypeOK
      <3> QED
        BY <1>1, <1>2, <1>3, <3>1, <3>2, StageFits
    <2>3. CASE Assign(i)
      <3>1. /\ cloud' = [cloud EXCEPT ![i].access = TRUE]
            /\ worker[i].at = "rbac"
        BY <2>3 DEF Assign, Grant, Does, At
      <3>2. /\ cloud'[i].group = cloud[i].group
            /\ cloud'[i].monitoring = cloud[i].monitoring
            /\ cloud'[i].stray = cloud[i].stray
            /\ cloud'[i].access
            /\ cloud'[i].hasty = cloud[i].hasty
            /\ cloud'[i].parts = cloud[i].parts
            /\ \A j \in Participants : j # i => cloud'[j] = cloud[j]
        BY <1>1, <3>1 DEF Clouds, IInv, TypeOK
      <3> QED
        BY <1>1, <1>2, <1>3, <3>1, <3>2, StageFits
    <2> QED
      BY <2>1, <2>2, <2>3
  <1>5. AllFit'
    <2>1. Fits(file'[i], worker'[i], cloud'[i])
      BY <1>2, <1>4
    <2>2. \A j \in Participants : j # i =>
             file'[j] = file[j] /\ worker'[j] = worker[j] /\ cloud'[j] = cloud[j]
      BY <1>2, <1>3, <1>4
    <2> QED
      BY <2>1, <2>2, OneFits
  <1>6. RunFits'
    BY <1>2, <1>3, <1>4, ThreadRunFits DEF Stages
  <1> QED
    BY <1>5, <1>6 DEF IInv

\* A stage is recorded, and the next one begins.
LEMMA RecordPreserves ==
    ASSUME IInv, TypeOK', NEW i \in Participants, Record(i)
    PROVE  IInv'
  <1> DEFINE next ==
        CASE At(i, "deployment") -> IF worker[i].passed THEN "rbac"
                                    ELSE "validation"
          [] At(i, "validation") -> "rbac"
          [] At(i, "rbac")       -> "done"
  <1>1. /\ worker[i].at \in Stages /\ worker[i].call = "did"
        /\ UNCHANGED <<run, cloud>>
        /\ file' = [file EXCEPT ![i] = Begun(Finished(@, worker[i].at), next)]
        /\ worker' = [worker EXCEPT ![i].at = next, ![i].call = "none"]
    BY Zenon DEF Record
  <1>2. /\ file[i] \in Items /\ worker[i] \in Workers /\ cloud[i] \in Clouds
        /\ file'[i] \in Items /\ worker'[i] \in Workers
        /\ Fits(file[i], worker[i], cloud[i])
    BY FitsOne DEF TypeOK
  <1>3. /\ \A j \in Participants : j # i =>
              file'[j] = file[j] /\ worker'[j] = worker[j]
        /\ file'[i] = Begun(Finished(file[i], worker[i].at), next)
        /\ worker'[i] = [worker[i] EXCEPT !.at = next, !.call = "none"]
    <2> HIDE DEF next
    <2> QED
      BY <1>1 DEF IInv, TypeOK
  <1>4. Matches(file[i], worker[i])
    BY <1>2 DEF Fits
  <1>5. ASSUME worker[i].at = "deployment"
        PROVE  Fits(file'[i], worker'[i], cloud[i])
    <2>1. next = "validation"
      BY <1>4, <1>5, Zenon DEF At, Matches
    <2> DEFINE item == [file[i] EXCEPT !.deployment = "Succeeded",
                          !.validation = "Pending", !.status = "Pending"]
    <2>2. file'[i] = Begun(item, "validation")
      BY <1>3, <1>5, <2>1, FinishedStages, Zenon
    <2>3. file'[i] = [item EXCEPT !.validation = "Running",
                                  !.status = "Pending"]
      BY <2>2, BegunStages, Zenon
    <2>4. worker'[i] = [worker[i] EXCEPT !.at = "validation", !.call = "none"]
      BY <1>3, <2>1, Zenon
    <2>5. /\ worker'[i].at = "validation" /\ worker'[i].call = "none"
          /\ file'[i].deployment = "Succeeded"
          /\ file'[i].validation = "Running" /\ file'[i].status = "Pending"
      BY <1>2, <2>3, <2>4 DEF Items, Workers
    <2> QED
      BY <1>1, <1>2, <1>5, <2>5, RecordedFits
  <1>6. ASSUME worker[i].at = "validation"
        PROVE  Fits(file'[i], worker'[i], cloud[i])
    <2>1. next = "rbac"
      BY <1>6, Zenon DEF At
    <2> DEFINE item == [file[i] EXCEPT !.validation = "Passed"]
    <2>2. file'[i] = Begun(item, "rbac")
      BY <1>3, <1>6, <2>1, FinishedStages, Zenon
    <2>3. file'[i] = [item EXCEPT !.status = "Pending"]
      BY <2>2, BegunStages, Zenon
    <2>4. worker'[i] = [worker[i] EXCEPT !.at = "rbac", !.call = "none"]
      BY <1>3, <2>1, Zenon
    <2>5. /\ worker'[i].at = "rbac" /\ worker'[i].call = "none"
          /\ file'[i].deployment = "Succeeded"
          /\ file'[i].validation = "Passed" /\ file'[i].status = "Pending"
      BY <1>2, <1>4, <1>6, <2>3, <2>4 DEF Items, Workers, Matches
    <2> QED
      BY <1>1, <1>2, <1>6, <2>5, RecordedFits
  <1>7. ASSUME worker[i].at = "rbac"
        PROVE  Fits(file'[i], worker'[i], cloud[i])
    <2>1. next = "done"
      BY <1>7, Zenon DEF At
    <2> DEFINE item == [file[i] EXCEPT !.status = "Ready"]
    <2>2. file'[i] = Begun(item, "done")
      BY <1>3, <1>7, <2>1, FinishedStages, Zenon
    <2>3. file'[i] = item
      BY <2>2, BegunStages, Zenon
    <2>4. worker'[i] = [worker[i] EXCEPT !.at = "done", !.call = "none"]
      BY <1>3, <2>1, Zenon
    <2>5. /\ worker'[i].at = "done" /\ worker'[i].call = "none"
          /\ file'[i].deployment = "Succeeded"
          /\ file'[i].validation = "Passed" /\ file'[i].status = "Ready"
      BY <1>2, <1>4, <1>7, <2>3, <2>4 DEF Items, Workers, Matches, PassedBefore
    <2> QED
      BY <1>1, <1>2, <1>7, <2>5, RecordedFits
  <1>8. /\ UNCHANGED <<run, cloud>>
        /\ \A j \in Participants : j # i =>
              file'[j] = file[j] /\ worker'[j] = worker[j]
        /\ Fits(file'[i], worker'[i], cloud[i])
    BY <1>1, <1>3, <1>5, <1>6, <1>7 DEF Stages
  <1>11. worker[i].at \in Stages
    BY <1>1
  <1> HIDE DEF next
  <1>9. AllFit'
    <2>1. Fits(file'[i], worker'[i], cloud'[i])
      BY <1>8
    <2> QED
      BY <1>8, <2>1, OneFits
  <1>10. RunFits'
    BY <1>8, <1>11, ThreadRunFits DEF Stages
  <1> QED
    BY <1>9, <1>10 DEF IInv

\* A stage fails.
LEMMA StageFailsPreserves ==
    ASSUME IInv, TypeOK', NEW i \in Participants, StageFails(i)
    PROVE  IInv'
  <1>1. PICK left \in {{}, LeftBy(i)} : cloud' = [cloud EXCEPT
                      ![i] = WithStray(cloud[i], cloud[i].stray \cup left)]
    BY DEF StageFails
  <1>2. left \in SUBSET Phases /\ left \subseteq {worker[i].call}
    BY <1>1, LeftTyped
  <1>3. /\ worker[i].at \in Stages /\ run' = run
        /\ worker'[i].at = "done" /\ worker'[i].call = "none"
        /\ file'[i] = Broken(file[i], worker[i].at)
        /\ \A j \in Participants : j # i =>
              file'[j] = file[j] /\ worker'[j] = worker[j]
    BY DEF StageFails, NoWorker, IInv, TypeOK
  <1>4. /\ cloud'[i] = WithStray(cloud[i], cloud[i].stray \cup left)
        /\ \A j \in Participants : j # i => cloud'[j] = cloud[j]
    BY <1>1 DEF IInv, TypeOK
  <1>5. /\ file[i] \in Items /\ worker[i] \in Workers /\ cloud[i] \in Clouds
        /\ file'[i] \in Items /\ worker'[i] \in Workers
        /\ Fits(file[i], worker[i], cloud[i])
    BY FitsOne DEF TypeOK
  <1>6. /\ file'[i].status = "Failed"
        /\ file'[i].deployment \in {file[i].deployment, "Failed"}
        /\ file'[i].validation \in {file[i].validation, "Failed"}
    BY <1>3, <1>5 DEF Broken, Failing, Items, Stages
  <1>7. Fits(file'[i], worker'[i], cloud'[i])
    BY <1>2, <1>3, <1>4, <1>5, <1>6, LeavingFits
  <1>8. AllFit'
    BY <1>3, <1>4, <1>7, OneFits
  <1>9. RunFits'
    BY <1>3, <1>4, ThreadRunFits DEF Stages
  <1> QED
    BY <1>8, <1>9 DEF IInv

\* A cleanup begins when nothing runs.
LEMMA StartCleanupPreserves ==
    ASSUME IInv, TypeOK', StartCleanup
    PROVE  IInv'
  <1>1. /\ run'.cmd = "cleanup" /\ run'.at = "exists"
        /\ UNCHANGED <<file, worker, cloud>>
    BY DEF StartCleanup
  <1>2. \A i \in Participants : worker[i].at = "none"
    BY NoThreads DEF StartCleanup, NoRun, Running
  <1>3. AllFit'
    BY <1>1 DEF IInv, AllFit
  <1>4. RunFits'
    BY <1>1, <1>2 DEF RunFits, Running
  <1> QED
    BY <1>3, <1>4 DEF IInv

\* A step of a cleanup on the item that is next.
LEMMA CleanupPreserves ==
    ASSUME IInv, TypeOK',
           \/ FindGroup \/ RemoveRole \/ Delete \/ Gone \/ Deadline
           \/ CleanupFails
    PROVE  IInv'
  <1> DEFINE f == file[Now]
             w == worker[Now]
             c == cloud[Now]
             d == cloud'[Now]
  <1>1. /\ run.cmd = "cleanup" /\ run \in Runs
        /\ run.left # {} /\ Now \in run.left /\ Now \in Participants
    BY NowLeft DEF FindGroup, RemoveRole, Delete, Gone, Deadline, CleanupFails,
                   Cleaning, Running, IInv, TypeOK, NoRun, Runs
  <1>2. \A i \in Participants : worker[i].at = "none"
    BY <1>1, NoThreads DEF Running
  <1>3. /\ f \in Items /\ w \in Workers /\ c \in Clouds /\ Fits(f, w, c)
        /\ file'[Now] \in Items /\ d \in Clouds /\ w.at = "none"
    BY <1>1, <1>2, FitsOne DEF TypeOK
  <1>4. run.at # "exists" => Looked(c, run.at)
    BY <1>1 DEF IInv, RunFits
  <1>5. ASSUME NextItem("exists"), UNCHANGED worker,
               \A i \in Participants : i # Now =>
                  file'[i] = file[i] /\ cloud'[i] = cloud[i],
               Fits(file'[Now], w, d)
        PROVE  IInv'
    <2>1. run'.cmd = "cleanup" /\ run'.at = "exists"
      BY <1>1, <1>5 DEF NextItem, Runs
    <2>2. RunFits'
      BY <1>2, <1>5, <2>1 DEF RunFits, Running
    <2>3. AllFit'
      BY <1>1, <1>5, OneFits
    <2> QED
      BY <2>2, <2>3 DEF IInv
  <1>6. ASSUME NotCleaned, Fits(f, w, d),
               \A i \in Participants : i # Now => cloud'[i] = cloud[i]
        PROVE  IInv'
    <2>1. /\ file'[Now] = [f EXCEPT !.status = "Failed"]
          /\ \A i \in Participants : i # Now => file'[i] = file[i]
          /\ NextItem("exists") /\ UNCHANGED worker
      BY <1>1, <1>6 DEF NotCleaned, IInv, TypeOK
    <2>2. /\ file'[Now].deployment = f.deployment
          /\ file'[Now].validation = f.validation
          /\ file'[Now].status = "Failed"
      BY <1>3, <2>1 DEF Items
    <2>3. Fits(file'[Now], w, d)
      <3> HIDE DEF f, w, d
      <3> QED
        BY <1>3, <1>6, <2>2, IdleFits
    <2> QED
      BY <1>5, <1>6, <2>1, <2>3
  <1>7. ASSUME Cleaned, Fits(f, w, d), d.group = "none",
               ~d.hasty => d.stray = {},
               \A i \in Participants : i # Now => cloud'[i] = cloud[i]
        PROVE  IInv'
    <2>1. /\ file'[Now] = Item("Removed", "-", "Cleaned")
          /\ \A i \in Participants : i # Now => file'[i] = file[i]
          /\ NextItem("exists") /\ UNCHANGED worker
      BY <1>1, <1>7 DEF Cleaned, IInv, TypeOK
    <2>2. Fits(file'[Now], w, d)
      BY <1>3, <1>7, <2>1, CleanedFits
    <2> QED
      BY <1>5, <1>7, <2>1, <2>2
  <1>8. ASSUME NEW at, Proceed(at), Fits(f, w, d), Looked(d, at),
               \A i \in Participants : i # Now => cloud'[i] = cloud[i]
        PROVE  IInv'
    <2>1. /\ UNCHANGED <<file, worker>> /\ run'.cmd = "cleanup"
          /\ run'.left = run.left /\ run'.at = at /\ Now' = Now
      BY <1>1, <1>8 DEF Proceed, Runs, Now
    <2>2. AllFit'
      <3>1. Fits(file'[Now], worker'[Now], cloud'[Now])
        BY <1>8, <2>1
      <3> QED
        BY <1>1, <1>8, <2>1, <3>1, OneFits
    <2>3. RunFits'
      BY <1>2, <1>8, <2>1 DEF RunFits, Running
    <2> QED
      BY <2>2, <2>3 DEF IInv
  <1>9. CASE FindGroup
    <2>1. /\ cloud' = [cloud EXCEPT ![Now].hasty = @ \/ cloud[Now].stray # {}]
          /\ \/ Cleaned /\ c.group = "none"
             \/ NotCleaned
             \/ Proceed("role") /\ c.group # "foreign"
      BY <1>9 DEF FindGroup, Look
    <2>2. /\ d = [c EXCEPT !.hasty = c.hasty \/ c.stray # {}]
          /\ \A i \in Participants : i # Now => cloud'[i] = cloud[i]
      BY <1>1, <2>1 DEF IInv, TypeOK
    <2>3. /\ d.group = c.group /\ d.parts = c.parts
          /\ d.monitoring = c.monitoring /\ d.access = c.access
          /\ d.stray = c.stray
      BY <1>3, <2>2 DEF Clouds
    <2>4. ~d.hasty => ~c.hasty /\ c.stray = {}
      BY <1>3, <2>2 DEF Clouds
    <2>5. Fits(f, w, d) /\ (~d.hasty => d.stray = {})
      BY <1>3, <2>3, <2>4, LookFits
    <2>6. c.group # "foreign" => Looked(d, "role")
      BY <2>3, <2>5 DEF Looked
    <2> QED
      BY <1>6, <1>7, <1>8, <2>1, <2>2, <2>3, <2>5, <2>6
  <1>10. CASE RemoveRole
    <2>1. /\ d = [c EXCEPT !.monitoring = c.monitoring /\ c.parts = "nothing"]
          /\ \A i \in Participants : i # Now => cloud'[i] = cloud[i]
          /\ run.at = "role"
      BY <1>1, <1>10 DEF RemoveRole, IInv, TypeOK, Cleaning, Running
    <2>2. /\ d.group = c.group /\ d.parts = c.parts /\ d.access = c.access
          /\ d.stray = c.stray /\ d.hasty = c.hasty
      BY <1>3, <2>1 DEF Clouds
    <2>3. d.monitoring => c.monitoring /\ c.parts = "nothing"
      BY <1>3, <2>1 DEF Clouds
    <2>4. Looked(c, "role")
      BY <1>4, <2>1
    <2>5. Fits(f, w, d) /\ Looked(d, "delete")
      <3> HIDE DEF f, w, c, d
      <3> QED
        BY <1>3, <2>2, <2>3, <2>4, RoleRemovedFits
    <2> QED
      BY <1>8, <1>10, <2>1, <2>5 DEF RemoveRole
  <1>11. CASE Delete
    <2>1. CASE Proceed("wait") /\ c.group # "none"
                  /\ cloud' = [cloud EXCEPT ![Now].group = "deleting"]
      <3>1. /\ d = [c EXCEPT !.group = "deleting"]
            /\ \A i \in Participants : i # Now => cloud'[i] = cloud[i]
            /\ run.at = "delete"
        BY <1>1, <1>11, <2>1 DEF Delete, IInv, TypeOK, Cleaning, Running
      <3>2. /\ d.group = "deleting" /\ d.parts = c.parts
            /\ d.monitoring = c.monitoring /\ d.stray = c.stray
            /\ d.hasty = c.hasty
        BY <1>3, <3>1 DEF Clouds
      <3>3. Looked(c, "delete") /\ c.group # "none"
        BY <1>4, <2>1, <3>1
      <3>4. Fits(f, w, d) /\ Looked(d, "wait")
        <4> HIDE DEF f, w, c, d
        <4> QED
          BY <1>3, <3>2, <3>3, DeletingFits
      <3> QED
        BY <1>8, <2>1, <3>1, <3>4
    <2> QED
      BY <1>3, <1>6, <1>11, <2>1 DEF Delete
  <1>12. CASE Gone
    <2>1. run.at = "wait" /\ UNCHANGED cloud /\ Cleaned /\ c.group = "none"
      BY <1>12 DEF Gone, Cleaning, Running
    <2>2. ~d.hasty => d.stray = {}
      BY <1>4, <2>1 DEF Looked
    <2> QED
      BY <1>3, <1>7, <2>1, <2>2
  <1> QED
    BY <1>3, <1>6, <1>9, <1>10, <1>11, <1>12 DEF Deadline, CleanupFails

\* The template deployment of an azd up goes on.
LEMMA ProvisionPreserves ==
    ASSUME IInv, TypeOK', NEW i \in Participants, Provision(i)
    PROVE  IInv'
  <1>1. /\ file[i] \in Items /\ worker[i] \in Workers /\ cloud[i] \in Clouds
        /\ Fits(file[i], worker[i], cloud[i])
    BY FitsOne
  <1>2. /\ worker[i].call \in Phases /\ worker[i].at = "deployment"
        /\ worker[i].call = "resources" => cloud[i].group = "there"
        /\ worker'[i] = [worker[i] EXCEPT !.call = After(worker[i].call)]
        /\ cloud'[i] = Applied(cloud[i], worker[i].call)
        /\ UNCHANGED <<file, run>>
        /\ \A j \in Participants : j # i =>
              cloud'[j] = cloud[j] /\ worker'[j] = worker[j]
    BY DEF Provision, Does, At, Possible, IInv, TypeOK
  <1>3. Fits(file'[i], worker'[i], cloud'[i])
    BY <1>1, <1>2, AwaitedFits
  <1>4. AllFit'
    BY <1>2, <1>3, OneFits
  <1>5. RunFits'
    BY <1>2, ThreadRunFits
  <1> QED
    BY <1>4, <1>5 DEF IInv

\* A template deployment that nobody waits for fails or goes on, by itself.
LEMMA StrayPreserves ==
    ASSUME IInv, TypeOK', NEW i \in Participants, Stray(i)
    PROVE  IInv'
  <1> DEFINE d == cloud'[i]
  <1>1. /\ file[i] \in Items /\ worker[i] \in Workers /\ cloud[i] \in Clouds
        /\ Fits(file[i], worker[i], cloud[i])
    BY FitsOne
  <1>2. PICK phase \in cloud[i].stray :
           LET others == cloud[i].stray \ {phase}
           IN \/ cloud' = [cloud EXCEPT ![i] = WithStray(cloud[i], others)]
              \/ /\ Possible(i, phase)
                 /\ cloud' = [cloud EXCEPT
                        ![i] = WithStray(Applied(cloud[i], phase),
                                others \cup ({After(phase)} \cap Phases))]
    BY Zenon DEF Stray
  <1>3. /\ UNCHANGED <<file, run, worker>>
        /\ \A j \in Participants : j # i => cloud'[j] = cloud[j]
    BY <1>2 DEF Stray, IInv, TypeOK
  <1>4. \/ d = WithStray(cloud[i], cloud[i].stray \ {phase})
        \/ /\ phase = "resources" => cloud[i].group = "there"
           /\ d = WithStray(Applied(cloud[i], phase),
                    (cloud[i].stray \ {phase}) \cup ({After(phase)} \cap Phases))
    BY <1>2 DEF Possible, IInv, TypeOK
  <1>5. Fits(file[i], worker[i], d)
    <2>1. CASE d = WithStray(cloud[i], cloud[i].stray \ {phase})
      <3>1. Fits(file[i], worker[i],
                 WithStray(cloud[i], cloud[i].stray \ {phase}))
        BY <1>1, <1>2, StrayFailsFits
      <3> QED
        BY <2>1, <3>1, Zenon
    <2>2. CASE /\ phase = "resources" => cloud[i].group = "there"
               /\ d = WithStray(Applied(cloud[i], phase),
                    (cloud[i].stray \ {phase}) \cup ({After(phase)} \cap Phases))
      <3>1. Fits(file[i], worker[i], WithStray(Applied(cloud[i], phase),
                 (cloud[i].stray \ {phase}) \cup ({After(phase)} \cap Phases)))
        BY <1>1, <1>2, <2>2, StrayFits
      <3> QED
        BY <2>2, <3>1, Zenon
    <2> QED
      BY <1>4, <2>1, <2>2
  <1>6. d.hasty = cloud[i].hasty /\ d.group \in {cloud[i].group, "there"}
    <2>1. phase \in Phases
      BY <1>1, <1>2 DEF Clouds
    <2>2. Applied(cloud[i], phase) \in Clouds
      BY <1>1, <2>1, AppliedTyped
    <2>3. /\ Applied(cloud[i], phase).hasty = cloud[i].hasty
          /\ Applied(cloud[i], phase).group \in {cloud[i].group, "there"}
      BY <1>1, <2>1 DEF Clouds, Applied, Phases
    <2>4. ASSUME NEW c \in Clouds, NEW stray, d = WithStray(c, stray)
          PROVE  d.hasty = c.hasty /\ d.group = c.group
      BY <2>4 DEF WithStray, Clouds
    <2> QED
      BY <1>1, <1>4, <2>2, <2>3, <2>4
  <1>7. AllFit'
    BY <1>3, <1>5, OneFits
  <1>8. RunFits'
    <2>1. \A at \in {"role", "delete", "wait"} :
             Looked(cloud[i], at) => Looked(d, at)
      BY <1>2, <1>6 DEF Looked
    <2> QED
      BY <1>3, <1>6, <2>1, AzureRunFits
  <1> QED
    BY <1>7, <1>8 DEF IInv

\* A deletion goes on, by itself.
LEMMA DeletionPreserves ==
    ASSUME IInv, TypeOK', NEW i \in Participants, Deletion(i)
    PROVE  IInv'
  <1> DEFINE c == cloud[i]
             d == cloud'[i]
  <1>1. /\ file[i] \in Items /\ worker[i] \in Workers /\ c \in Clouds
        /\ d \in Clouds /\ Fits(file[i], worker[i], c)
    BY FitsOne DEF TypeOK
  <1>2. /\ c.group = "deleting" /\ UNCHANGED <<file, run, worker>>
        /\ \A j \in Participants : j # i => cloud'[j] = cloud[j]
        /\ \/ d = [c EXCEPT !.parts = "nothing"]
           \/ d = [c EXCEPT !.parts = "some"]
           \/ d = [c EXCEPT !.group = "there"]
           \/ d = [c EXCEPT !.group = "none", !.parts = "nothing",
                            !.access = FALSE]
    BY DEF Deletion, IInv, TypeOK
  <1>3. /\ d.monitoring = c.monitoring /\ d.stray = c.stray
        /\ d.hasty = c.hasty /\ d.group \in {"deleting", "there", "none"}
    BY <1>1, <1>2 DEF Clouds
  <1>4. Fits(file[i], worker[i], d)
    BY <1>1, <1>2, <1>3, DeletionFits
  <1>5. AllFit'
    BY <1>2, <1>4, OneFits
  <1>6. RunFits'
    <2>1. \A at \in {"role", "delete", "wait"} : Looked(c, at) => Looked(d, at)
      BY <1>3 DEF Looked
    <2> QED
      BY <1>2, <1>3, <2>1, AzureRunFits
  <1> QED
    BY <1>5, <1>6 DEF IInv

\* The strengthened invariant is inductive: one step per action of Next.
LEMMA Inductive == IInv /\ [Next]_vars => IInv'
  <1> SUFFICES ASSUME IInv, [Next]_vars PROVE IInv'
    OBVIOUS
  <1>1. TypeOK'
    BY TypeStep DEF IInv
  <1>2. CASE StartDeploy \/ Deploying \/ Abort
    BY <1>1, <1>2, StartDeployPreserves, InspectPreserves,
       SavePreflightPreserves, ConsiderPreserves, EndPreserves
       DEF Deploying, EndDeploy, Abort
  <1>3. ASSUME NEW i \in Participants, Deployed(i)
        PROVE  IInv'
    BY <1>1, <1>3, BeginPreserves, StagePreserves, RecordPreserves,
       StageFailsPreserves DEF Deployed
  <1>4. ASSUME NEW i \in Participants, Provision(i) \/ Stray(i) \/ Deletion(i)
        PROVE  IInv'
    BY <1>1, <1>4, ProvisionPreserves, StrayPreserves, DeletionPreserves
  <1>5. CASE StartCleanup \/ CleaningUp \/ CleanupFails
    BY <1>1, <1>5, StartCleanupPreserves, CleanupPreserves, EndPreserves
       DEF CleaningUp, EndCleanup
  <1>6. CASE Kill
    BY <1>1, <1>6, EndPreserves DEF Kill
  <1>7. CASE UNCHANGED vars
    <2>1. AllFit'
      BY <1>7 DEF vars, IInv, AllFit
    <2>2. RunFits'
      BY <1>7 DEF vars, IInv, RunFits, Running, Now, Listed
    <2> QED
      BY <1>1, <2>1, <2>2 DEF IInv
  <1> QED
    BY <1>2, <1>3, <1>4, <1>5, <1>6, <1>7 DEF Next

\* The strengthened invariant holds in every reachable state.
LEMMA InvariantHolds == Spec => []IInv
  BY InitEstablishes, Inductive, PTL DEF Spec

\* No step touches a foreign group: the invariant keeps the process away, and
\* no deployment is on its way to it.
LEMMA ForeignStep ==
    ASSUME IInv, Next, NEW i \in Participants, cloud[i].group = "foreign"
    PROVE  cloud'[i] = cloud[i]
  <1>1. /\ cloud[i] \in Clouds /\ cloud[i].stray = {} /\ worker[i].at = "none"
        /\ worker[i].call \in {"none", "did"}
    BY FitsOne DEF Fits, Matches
  <1>2. CASE End
    <2>1. LeftBy(i) = {}
      BY <1>1 DEF LeftBy, Phases
    <2>2. cloud'[i] = WithStray(cloud[i], {})
      BY <1>1, <1>2, <2>1 DEF End
    <2>3. cloud'[i] = [cloud[i] EXCEPT !.stray = cloud[i].stray]
      BY <1>1, <2>2 DEF WithStray
    <2> QED
      BY <1>1, <2>3 DEF Clouds
  <1>3. CASE StartDeploy \/ Inspect \/ SavePreflight \/ ReadyFails \/ Configure
             \/ ConfigureFails \/ EndDeploy \/ Abort \/ StartCleanup
             \/ EndCleanup \/ Kill
    BY <1>2, <1>3 DEF StartDeploy, Inspect, SavePreflight, ReadyFails,
       Configure, ConfigureFails, EndDeploy, Abort, StartCleanup, EndCleanup,
       Kill
  <1>4. CASE ConfirmReady
    <2>1. Now \in run.left
      BY <1>4, NowLeft DEF ConfirmReady, Running, IInv, TypeOK, Runs, NoRun
    <2>2. i # Now
      BY <1>4, <2>1 DEF ConfirmReady, IInv, RunFits
    <2> QED
      BY <1>4, <2>2 DEF ConfirmReady, Grant, IInv, TypeOK
  <1>5. ASSUME NEW j \in Participants, Deployed(j)
        PROVE  cloud'[i] = cloud[i]
    <2>1. CASE Begin(j) \/ Record(j)
      BY <2>1 DEF Begin, Record
    <2>2. CASE AzdUp(j) \/ Validate(j) \/ Assign(j) \/ StageFails(j)
      <3>1. i # j
        BY <1>1, <2>2 DEF AzdUp, Validate, Assign, StageFails, Does, At, Stages
      <3> QED
        BY <2>2, <3>1 DEF AzdUp, Validate, Assign, StageFails, Grant, IInv,
           TypeOK
    <2> QED
      BY <1>5, <2>1, <2>2 DEF Deployed
  <1>6. ASSUME NEW j \in Participants, Provision(j) \/ Stray(j) \/ Deletion(j)
        PROVE  cloud'[i] = cloud[i]
    <2>1. i # j
      BY <1>1, <1>6 DEF Provision, Stray, Deletion, Does, At
    <2>2. CASE Stray(j)
      <3>1. PICK c : cloud' = [cloud EXCEPT ![j] = c]
        BY <2>2, Zenon DEF Stray
      <3> QED
        BY <2>1, <3>1 DEF IInv, TypeOK
    <2> QED
      BY <1>6, <2>1, <2>2 DEF Provision, Deletion, IInv, TypeOK
  <1>7. CASE FindGroup
    <2>1. cloud' = [cloud EXCEPT ![Now].hasty = @ \/ cloud[Now].stray # {}]
      BY <1>7 DEF FindGroup, Look
    <2>2. CASE i = Now
      <3>1. cloud'[i] = [cloud[i] EXCEPT
                           !.hasty = cloud[i].hasty \/ cloud[i].stray # {}]
        BY <2>1, <2>2 DEF IInv, TypeOK
      <3> QED
        BY <1>1, <3>1 DEF Clouds
    <2> QED
      BY <2>1, <2>2 DEF IInv, TypeOK
  <1>8. CASE Gone \/ Deadline \/ CleanupFails
    BY <1>8 DEF Gone, Deadline, CleanupFails
  <1>9. CASE RemoveRole \/ Delete
    <2>1. i # Now
      BY <1>9 DEF RemoveRole, Delete, Cleaning, Running, IInv, RunFits, Looked
    <2> QED
      BY <1>9, <2>1 DEF RemoveRole, Delete, NotCleaned, IInv, TypeOK
  <1> QED
    BY <1>3, <1>4, <1>5, <1>6, <1>7, <1>8, <1>9 DEF Next, Deploying, CleaningUp

-----------------------------------------------------------------------------
(* What the run checks, for any number of participants and threads.        *)

\* Whatever is killed, fails or is repeated, what state.json says was done is
\* done, unless a cleanup has begun to undo it or has looked too early.
THEOREM RecordsCorrect == Spec => []RecordsHold
  <1>1. IInv => RecordsHold
    BY DEF IInv, AllFit, Fits, Stands, RecordsHold
  <1> QED
    BY <1>1, InvariantHolds, PTL

\* The role on the subscription never outlives the agent's group, unless cleanup
\* looked at it while a template deployment ran that nobody waited for.
THEOREM NoOrphanRoleCorrect == Spec => []NoOrphanRole
  <1>1. IInv => NoOrphanRole
    BY DEF IInv, AllFit, Fits, Founded, NoOrphanRole
  <1> QED
    BY <1>1, InvariantHolds, PTL

\* An environment recorded as removed is gone, and stays gone, with the same
\* exception.
THEOREM RemovedCorrect == Spec => []RemovedIsGone
  <1>1. IInv => RemovedIsGone
    BY DEF IInv, AllFit, Fits, Removed, RemovedIsGone
  <1> QED
    BY <1>1, InvariantHolds, PTL

\* Neither deploy nor cleanup ever touches a foreign resource group.
THEOREM ForeignCorrect == Spec => ForeignUntouched
  <1>1. IInv /\ [Next]_vars =>
           [\A i \in Participants :
              cloud[i].group = "foreign" => cloud'[i] = cloud[i]]_vars
    BY ForeignStep
  <1> QED
    BY <1>1, InvariantHolds, PTL DEF Spec, ForeignUntouched
=============================================================================
