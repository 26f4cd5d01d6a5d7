------------------------------- MODULE Cohort -------------------------------
(***************************************************************************)
(* `python scripts/cohort.py deploy | cleanup`: the saved state, one       *)
(* running process with its thread pool, and what Azure holds for each     *)
(* participant.                                                            *)
(*                                                                         *)
(* The process keeps the saved state in memory and writes all of it after  *)
(* every change, so `file` stands for both; only the resets of preflight   *)
(* wait in memory (run.gone) until preflight is over.  A killed process    *)
(* loses everything but the file; a template deployment that its azd up    *)
(* has submitted goes on in Azure, where nobody waits for it any more.     *)
(***************************************************************************)
EXTENDS Naturals, FiniteSets

CONSTANTS Last,           \* the number of the last participant
          Subscriptions,  \* how many subscriptions the cohort is spread over
          Parallel,       \* --parallel-per-subscription
          Targets,        \* the sets of participants cleanup is run for
          MaxStrays       \* bound: how many of i's deployments nobody waits for

ASSUME CohortAssumption ==
    /\ Last \in Nat \ {0}
    /\ Subscriptions \in Nat \ {0}
    /\ Parallel \in Nat \ {0}
    /\ Targets \subseteq SUBSET (1..Last)
    /\ MaxStrays \in [1..Last -> Nat]

VARIABLES file,    \* state.json: an item for each participant
          run,     \* the process
          worker,  \* its threads, one for each participant to be deployed
          cloud    \* Azure: each participant's resource group and roles

vars == <<file, run, worker, cloud>>

Participants == 1..Last
Subscription(i) == i % Subscriptions

\* What cohort.py reads back of an item: two stages and whether it is Ready.  A
\* status that names what is going on is "Pending", "Cleanup failed" is "Failed";
\* rbac and the other texts are only printed.
Item(deployment, validation, status) ==
    [deployment |-> deployment, validation |-> validation, status |-> status]
NoItem  == Item("-", "-", "-")
Pending == Item("Pending", "Pending", "Pending")

Items == [deployment : {"-", "Pending", "Running", "Succeeded", "Failed",
                        "Removed"},
          validation : {"-", "Pending", "Running", "Passed", "Failed"},
          status     : {"-", "Pending", "Ready", "Failed", "Cleaned"}]

Listed == {i \in Participants : file[i] # NoItem}

\* The stages of deploy_participant.
Stages == {"deployment", "validation", "rbac"}

NoRun  == [cmd |-> "none", at |-> "none", left |-> {}, gone |-> {}]
Runs   == [cmd : {"deploy", "cleanup"}, left : SUBSET Participants,
           gone : SUBSET Participants,
           at : {"inspect", "consider", "exists", "role", "delete", "wait"}]

\* A template deployment writes the group, then the resources (the nested
\* deployment), then the agent's role on the subscription.
Phases == {"group", "resources", "role"}

\* passed: the local validation_passed, as long as the deployment may still ask
\* for it; call: the stage's call has not returned, its template deployment is
\* in a phase or over, or it has returned.
NoWorker == [at |-> "none", passed |-> FALSE, call |-> "none"]
Workers  == [at : Stages \cup {"none", "queued", "done"}, passed : BOOLEAN,
             call : Phases \cup {"none", "deployed", "did"}]

\* A group with other tags is foreign.  parts: nothing that counts, the VM and
\* the agent, everything azd up makes, or all of it validated since.
Clouds == [group : {"none", "foreign", "there", "deleting"},
           parts : {"nothing", "some", "built", "checked"},
           monitoring : BOOLEAN,   \* the agent's role on the subscription
           access : BOOLEAN,       \* the participant's roles
           stray : SUBSET Phases,  \* deployments that nobody waits for
           hasty : BOOLEAN]        \* history: cleanup looked while one ran

Init ==
    /\ file = [i \in Participants |-> NoItem]
    /\ run = NoRun
    /\ worker = [i \in Participants |-> NoWorker]
    /\ \E foreign \in SUBSET Participants :
          cloud = [i \in Participants |->
                     [group |-> IF i \in foreign THEN "foreign" ELSE "none",
                      parts |-> "nothing", monitoring |-> FALSE,
                      access |-> FALSE, stray |-> {}, hasty |-> FALSE]]

Running(cmd, at) == run.cmd = cmd /\ run.at = at

\* The items are taken in the order of the list.
Now == CHOOSE i \in run.left : \A j \in run.left : i <= j

\* The process goes on with the next item.
NextItem(at) == run' = [run EXCEPT !.left = @ \ {Now}, !.at = at]

\* What a thread's template deployment is once nobody waits for it.
LeftBy(i) == IF Cardinality(cloud[i].stray) < MaxStrays[i]
             THEN {worker[i].call} \cap Phases ELSE {}

WithStray(c, stray) == [c EXCEPT !.stray = stray]

\* The process ends, and its threads with it.
End == /\ run' = NoRun
       /\ worker' = [i \in Participants |-> NoWorker]
       /\ cloud' = [i \in Participants |->
                       WithStray(cloud[i], cloud[i].stray \cup LeftBy(i))]
       /\ UNCHANGED file

-----------------------------------------------------------------------------
(* deploy: the state, preflight and the list of what is to be deployed.    *)

\* load_or_create_state: the cohort may be extended, never reduced.
StartDeploy ==
    /\ run = NoRun
    /\ \E n \in Participants :
          /\ Listed \subseteq 1..n
          /\ file' = [i \in Participants |->
                        IF i \in 1..n \ Listed THEN Pending ELSE file[i]]
          /\ run' = [cmd |-> "deploy", at |-> "inspect", left |-> 1..n,
                     gone |-> {}]
    /\ UNCHANGED <<worker, cloud>>

\* Mutation of Inspect: the tags of an existing group are not compared.
InspectAnyGroup ==
    /\ Running("deploy", "inspect") /\ run.left # {}
    /\ run' = [run EXCEPT !.left = @ \ {Now},
                 !.gone = IF cloud[Now].parts = "nothing" THEN @ \cup {Now}
                                                          ELSE @]
    /\ UNCHANGED <<file, worker, cloud>>

\* inspect_resource_group refuses a foreign group, which ends the command, and
\* looks for the VM.
Inspect ==
    /\ Running("deploy", "inspect") /\ run.left # {}
    /\ IF cloud[Now].group = "foreign" THEN End
       ELSE /\ run' = [run EXCEPT !.left = @ \ {Now},
                         !.gone = IF cloud[Now].parts = "nothing"
                                  THEN @ \cup {Now} ELSE @]
            /\ UNCHANGED <<file, worker, cloud>>

\* The end of preflight: what succeeded and is gone starts again.
SavePreflight ==
    /\ Running("deploy", "inspect") /\ run.left = {}
    /\ file' = [i \in Participants |->
                  IF i \in run.gone /\ file[i].deployment = "Succeeded"
                  THEN Pending ELSE file[i]]
    /\ run' = [run EXCEPT !.at = "consider", !.left = Listed]
    /\ UNCHANGED <<worker, cloud>>

\* Roles can be assigned in a group with an agent.
Grant(i) ==
    /\ cloud[i].parts # "nothing"
    /\ cloud' = [cloud EXCEPT ![i].access = TRUE]

\* A Ready participant only has its access confirmed ...
ConfirmReady ==
    /\ Running("deploy", "consider") /\ run.left # {}
    /\ file[Now].status = "Ready"
    /\ Grant(Now)
    /\ NextItem("consider")
    /\ UNCHANGED <<file, worker>>

\* ... or has failed, and is then deployed like the others.
ReadyFails ==
    /\ Running("deploy", "consider") /\ run.left # {}
    /\ file[Now].status = "Ready"
    /\ file' = [file EXCEPT ![Now].status = "Failed"]
    /\ UNCHANGED <<run, worker, cloud>>

\* configure_environment succeeds, and the item is appended to pending ...
Configure ==
    /\ Running("deploy", "consider") /\ run.left # {}
    /\ file[Now].status # "Ready"
    /\ worker' = [worker EXCEPT ![Now].at = "queued"]
    /\ NextItem("consider")
    /\ UNCHANGED <<file, cloud>>

\* ... or fails.
ConfigureFails ==
    /\ Running("deploy", "consider") /\ run.left # {}
    /\ file[Now].status # "Ready"
    /\ file' = [file EXCEPT ![Now].deployment = "Failed",
                            ![Now].status = "Failed"]
    /\ NextItem("consider")
    /\ UNCHANGED <<worker, cloud>>

\* Any other error before the pool has started ends the command.
Abort ==
    /\ \/ Running("deploy", "inspect")
       \/ Running("deploy", "consider") /\ run.left # {}
    /\ End

-----------------------------------------------------------------------------
(* deploy_parallel and deploy_participant.                                 *)

Pooling == Running("deploy", "consider") /\ run.left = {}

At(i, stage) == worker[i].at = stage

\* A thread of the subscription's executor is free for i, the first it has.
ThreadFree(i) ==
    LET mates == {j \in Participants : Subscription(j) = Subscription(i)}
    IN /\ Cardinality({j \in mates : worker[j].at \in Stages}) < Parallel
       /\ \A j \in mates : At(j, "queued") => i <= j

\* What is written when a stage begins ...
Begun(item, stage) ==
    CASE stage = "deployment" ->
            Item("Running", "Pending", "Pending")
      [] stage = "validation" ->
            [item EXCEPT !.validation = "Running", !.status = "Pending"]
      [] stage = "rbac" ->
            [item EXCEPT !.status = "Pending"]
      [] stage = "done" -> item

\* ... when it succeeds ...
Finished(item, stage) ==
    CASE stage = "deployment" ->
            [item EXCEPT !.deployment = "Succeeded", !.validation = "Pending",
                         !.status = "Pending"]
      [] stage = "validation" -> [item EXCEPT !.validation = "Passed"]
      [] stage = "rbac" -> [item EXCEPT !.status = "Ready"]

Failing(item, stage, status) ==
    CASE stage = "deployment" ->
            [item EXCEPT !.deployment = "Failed", !.status = status]
      [] stage = "validation" ->
            [item EXCEPT !.validation = "Failed", !.status = status]
      [] stage = "rbac" -> [item EXCEPT !.status = status]

\* Mutation of Broken: the error becomes the status.
BrokenWithError(item, stage) == Failing(item, stage, "error")

\* ... and when it fails.
Broken(item, stage) == Failing(item, stage, "Failed")

\* Mutation of PassedBefore: an earlier validation counts by itself.
PassedOnce(item) == item.validation = "Passed"

\* validation_passed.
PassedBefore(item) ==
    item.deployment = "Succeeded" /\ item.validation = "Passed"

\* A thread takes the item: stages that were finished before are skipped.  azd
\* up submits its template: one that fails before does as one whose template
\* deployment fails at once.
Begin(i) ==
    /\ Pooling /\ At(i, "queued") /\ ThreadFree(i)
    /\ LET passed == PassedBefore(file[i])
           first  == IF file[i].deployment # "Succeeded" THEN "deployment"
                     ELSE IF passed THEN "rbac" ELSE "validation"
       IN /\ worker' = [worker EXCEPT
                ![i] = [at |-> first, passed |-> passed /\ first = "deployment",
                        call |-> IF first = "deployment" THEN "group"
                                                         ELSE "none"]]
          /\ file' = [file EXCEPT ![i] = Begun(@, first)]
    /\ UNCHANGED <<run, cloud>>

Does(i, stage, from, to) == /\ At(i, stage) /\ worker[i].call = from
                            /\ worker' = [worker EXCEPT ![i].call = to]
                            /\ UNCHANGED <<file, run>>

\* azd up succeeds: the template is deployed and the release is on the VM.
AzdUp(i) ==
    /\ Does(i, "deployment", "deployed", "did")
    /\ cloud[i].group = "there" /\ cloud[i].parts # "nothing"
    /\ cloud' = [cloud EXCEPT ![i].parts = "built", ![i].hasty = FALSE]

\* smoke, inspect, telemetry and fault status.
Validate(i) ==
    /\ Does(i, "validation", "none", "did")
    /\ cloud[i].parts # "nothing"
    /\ cloud' = [cloud EXCEPT ![i].parts = IF @ = "built" THEN "checked" ELSE @]

\* ensure_participant_access.
Assign(i) == Does(i, "rbac", "none", "did") /\ Grant(i)

\* The stage is recorded and the next one begins.
Record(i) ==
    /\ worker[i].at \in Stages /\ worker[i].call = "did"
    /\ LET next == CASE At(i, "deployment") -> IF worker[i].passed THEN "rbac"
                                               ELSE "validation"
                     [] At(i, "validation") -> "rbac"
                     [] At(i, "rbac")       -> "done"
       IN /\ file' = [file EXCEPT
                        ![i] = Begun(Finished(@, worker[i].at), next)]
          /\ worker' = [worker EXCEPT ![i].at = next, ![i].call = "none"]
    /\ UNCHANGED <<run, cloud>>

\* A stage raises.  An azd up that fails has seen its template deployment
\* fail, or leaves it to Azure.
StageFails(i) ==
    /\ worker[i].at \in Stages
    /\ file' = [file EXCEPT ![i] = Broken(@, worker[i].at)]
    /\ worker' = [worker EXCEPT ![i] = [NoWorker EXCEPT !.at = "done"]]
    /\ \E left \in {{}, LeftBy(i)} :
          cloud' = [cloud EXCEPT
                      ![i] = WithStray(cloud[i], cloud[i].stray \cup left)]
    /\ UNCHANGED run

EndDeploy ==
    /\ Pooling
    /\ \A i \in Participants : worker[i].at \in {"none", "done"}
    /\ End

-----------------------------------------------------------------------------
(* cleanup, one target after the other.                                    *)

StartCleanup ==
    /\ run = NoRun
    /\ \E targets \in Targets :
          /\ targets \cap Listed # {}
          /\ run' = [cmd |-> "cleanup", at |-> "exists",
                     left |-> targets \cap Listed, gone |-> {}]
    /\ UNCHANGED <<file, worker, cloud>>

Cleaning(at) == Running("cleanup", at) /\ run.left # {}

\* The item is removed.
Cleaned ==
    /\ file' = [file EXCEPT ![Now] = Item("Removed", "-", "Cleaned")]
    /\ NextItem("exists")
    /\ UNCHANGED worker

\* It is left as it was, but for its status.
NotCleaned ==
    /\ file' = [file EXCEPT ![Now].status = "Failed"]
    /\ NextItem("exists")
    /\ UNCHANGED worker

Proceed(at) == run' = [run EXCEPT !.at = at] /\ UNCHANGED <<file, worker>>

\* What cleanup finds while a deployment runs may not last.
Look == cloud' = [cloud EXCEPT ![Now].hasty = @ \/ cloud[Now].stray # {}]

\* Mutation of FindGroup: the role is not looked for.
FindGroupOnly ==
    /\ Cleaning("exists")
    /\ Look
    /\ CASE cloud[Now].group = "none"    -> Cleaned
         [] cloud[Now].group = "foreign" -> NotCleaned
         [] OTHER -> Proceed("delete")

\* group exists, and group show for its tags.
FindGroup ==
    /\ Cleaning("exists")
    /\ Look
    /\ CASE cloud[Now].group = "none"    -> Cleaned
         [] cloud[Now].group = "foreign" -> NotCleaned
         [] OTHER -> Proceed("role")

\* The agent's identity names the role to be removed; without an agent there
\* is none.
RemoveRole ==
    /\ Cleaning("role")
    /\ cloud' = [cloud EXCEPT
                   ![Now].monitoring = @ /\ cloud[Now].parts = "nothing"]
    /\ Proceed("delete")

\* Mutation of Delete: the deletion is not waited for.
DeleteUnattended ==
    /\ Cleaning("delete")
    /\ cloud[Now].group # "none"
    /\ file' = [file EXCEPT ![Now] = Item("Removed", "-", "Cleaned")]
    /\ NextItem("exists")
    /\ cloud' = [cloud EXCEPT ![Now].group = "deleting"]
    /\ UNCHANGED worker

\* group delete --no-wait; a group that is gone by now is an error.
Delete ==
    /\ Cleaning("delete")
    /\ IF cloud[Now].group = "none" THEN NotCleaned /\ UNCHANGED cloud
       ELSE Proceed("wait") /\ cloud' = [cloud EXCEPT ![Now].group = "deleting"]

Gone == /\ Cleaning("wait") /\ cloud[Now].group = "none"
        /\ Cleaned /\ UNCHANGED cloud

\* Mutation of Deadline: it polls for ever.
PollForEver == /\ Cleaning("wait") /\ cloud[Now].group = "none"
               /\ NotCleaned /\ UNCHANGED cloud

\* The 20 minutes are over.
Deadline == Cleaning("wait") /\ NotCleaned /\ UNCHANGED cloud

\* Azure refuses a request.
CleanupFails ==
    run.cmd = "cleanup" /\ run.left # {} /\ NotCleaned /\ UNCHANGED cloud

EndCleanup == run.cmd = "cleanup" /\ run.left = {} /\ End

-----------------------------------------------------------------------------
(* Azure, and the end of a process.                                        *)

\* The nested deployment has a fixed name: there is one at a time.
Nested(i) == worker[i].call = "resources" \/ "resources" \in cloud[i].stray

\* Whether a phase can end well.  The role needs the identity that the
\* resources returned, but no group.
Possible(i, phase) ==
    /\ phase = "group"     => cloud[i].group # "deleting" /\ ~Nested(i)
    /\ phase = "resources" => cloud[i].group = "there"

\* What Azure holds after a phase: redeploying changes no resource.
Applied(c, phase) ==
    CASE phase = "group"     -> [c EXCEPT !.group = "there"]
      [] phase = "resources" -> [c EXCEPT !.parts = IF @ = "nothing" THEN "some"
                                                                     ELSE @]
      [] phase = "role"      -> [c EXCEPT !.monitoring = TRUE]

After(phase) == CASE phase = "group"     -> "resources"
                  [] phase = "resources" -> "role"
                  [] phase = "role"      -> "deployed"

\* The template deployment that azd up waits for goes on.
Provision(i) ==
    /\ worker[i].call \in Phases /\ Possible(i, worker[i].call)
    /\ Does(i, "deployment", worker[i].call, After(worker[i].call))
    /\ cloud' = [cloud EXCEPT ![i] = Applied(@, worker[i].call)]

\* One that nobody waits for goes on or fails, whatever runs by now.  (Two in
\* the same phase count as one: they do the same.)
Stray(i) ==
    /\ \E phase \in cloud[i].stray :
          LET others == cloud[i].stray \ {phase}
          IN \/ cloud' = [cloud EXCEPT ![i] = WithStray(cloud[i], others)]
             \/ /\ Possible(i, phase)
                /\ cloud' = [cloud EXCEPT
                     ![i] = WithStray(Applied(cloud[i], phase),
                                      others \cup ({After(phase)} \cap Phases))]
    /\ UNCHANGED <<file, run, worker>>

\* A deletion goes on whether or not anyone waits for it: the VM and the agent
\* disappear first; it may stop half way.
Deletion(i) ==
    /\ cloud[i].group = "deleting"
    /\ \/ cloud' = [cloud EXCEPT ![i].parts = "nothing"]
       \/ cloud' = [cloud EXCEPT ![i].parts = "some"] /\ cloud[i].parts # "nothing"
       \/ cloud' = [cloud EXCEPT ![i].group = "there"]
       \/ cloud' = [cloud EXCEPT ![i].group = "none", ![i].parts = "nothing",
                                 ![i].access = FALSE]
    /\ UNCHANGED <<file, run, worker>>

Kill == run # NoRun /\ End

Deploying == \/ Inspect \/ SavePreflight \/ ConfirmReady \/ ReadyFails
             \/ Configure \/ ConfigureFails \/ EndDeploy
Deployed(i) == \/ Begin(i) \/ AzdUp(i) \/ Validate(i) \/ Assign(i)
               \/ Record(i) \/ StageFails(i)
CleaningUp == \/ FindGroup \/ RemoveRole \/ Delete \/ Gone \/ Deadline
              \/ EndCleanup

Next ==
    \/ StartDeploy \/ Deploying \/ Abort
    \/ \E i \in Participants :
          Deployed(i) \/ Provision(i) \/ Stray(i) \/ Deletion(i)
    \/ StartCleanup \/ CleaningUp \/ CleanupFails
    \/ Kill

Spec == Init /\ [][Next]_vars

\* The process goes on; azd up, the checks and the calls of az return or fail.
\* Nobody has to start or to kill a command, and a deletion may never end.
Fairness ==
    /\ WF_vars(Deploying)
    /\ \A i \in Participants : WF_vars(Deployed(i))
    /\ WF_vars(CleaningUp)

FairSpec == Spec /\ Fairness

-----------------------------------------------------------------------------
(* The type invariant.                                                     *)
TypeOK ==
    /\ file \in [Participants -> Items]
    /\ run \in Runs \cup {NoRun}
    /\ worker \in [Participants -> Workers]
    /\ cloud \in [Participants -> Clouds]

(* What state.json says was done is done, whatever was killed, failed,     *)
(* skipped or repeated: unless a cleanup has begun to undo it (its role is *)
(* gone first, or a stray deployment has assigned it anew), a Succeeded    *)
(* deployment is complete, a Passed validation is of the infrastructure    *)
(* that is there now, and a Ready participant has access to it.            *)
RecordsHold ==
    \A i \in Participants : cloud[i].monitoring /\ ~cloud[i].hasty =>
        /\ file[i].deployment = "Succeeded" => cloud[i].parts \in {"built", "checked"}
        /\ PassedBefore(file[i]) => cloud[i].parts = "checked"
        /\ file[i].status = "Ready" => cloud[i].parts = "checked" /\ cloud[i].access

(* "azd down and the cohort cleanup remove the subscription role           *)
(* assignment before deleting the resource group" (README.md:287): the     *)
(* role can outlive its group only if cleanup looked at it while a         *)
(* deployment that a killed or failed azd up had submitted still ran.  Any *)
(* other interruption of deployment, cleanup and deletion leaves none,     *)
(* although such deployments go on and later cleanups are interrupted too. *)
NoOrphanRole == \A i \in Participants :
    cloud[i].monitoring /\ ~cloud[i].hasty => cloud[i].group = "there"

(* An environment recorded as removed is gone and costs nothing, and no    *)
(* deployment brings it back: with the same exception.                     *)
RemovedIsGone == \A i \in Participants :
    file[i].deployment = "Removed" /\ ~cloud[i].hasty =>
        cloud[i].group = "none" /\ ~cloud[i].monitoring

(* A resource group without the workshop's tags is never touched, neither  *)
(* by azd up (preflight inspects every group first) nor by cleanup.        *)
ForeignUntouched ==
    [][\A i \in Participants :
          cloud[i].group = "foreign" => cloud'[i] = cloud[i]]_vars

(* A command ends: the pool drains although participants fail, and cleanup *)
(* does not wait for ever.                                                 *)
CommandEnds == run # NoRun ~> run = NoRun

(* "The cohort's Ready result verifies infrastructure stages" (docs/sre/   *)
(* 30-appendix/07-organizer-guide.md:107): who is made Ready has a         *)
(* validated environment, with the agent's role, that is not being deleted.*)
ReadyIsVerified ==
    [][\A i \in Participants :
          file'[i].status = "Ready" /\ file[i].status # "Ready" =>
              /\ cloud[i].group = "there"
              /\ cloud[i].parts = "checked"
              /\ cloud[i].monitoring]_vars
=============================================================================
