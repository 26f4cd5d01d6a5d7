# Verification of the SRE agent workshop

TLA+ models of the parts of this repository that are concurrent, that can be
interrupted, or that talk to a service which may answer late or not at all;
TLC configurations that check them on small instances; and TLAPS proofs for
every size of the instance. Paths below are relative to the repository's root.

## 1. Inventory

The repository deploys a small workshop environment in Azure: an Orders API on
a VM, backed by PostgreSQL, a Catalog API, an Azure SRE Agent that handles the
alerts, and tools with which participants cause and clear incidents.

| Component | Source | State it keeps | Operations | Status |
|---|---|---|---|---|
| Fault control | `scripts/workshop.py` (`fault`, `deploy_postgresql_fault`, `vm_fault`), `scripts/vm/faults.py` | NSG rule in front of PostgreSQL, the `orders-api` process and its connection pool, the CPU-pressure unit, the running VM command | `fault cpu, postgresql, status, reset, reset-cpu, reset-postgresql` | modelled: `VmFaults`, `FaultControl` |
| Idempotent order creation | `src/OrdersApi/wwwroot/app.js`, `Program.cs`, `OrdersRepository.cs` | the form with its pending key, the tables `orders` and `order_requests` | submit, edit, give up, reload; POST with or without a key; PUT quantity | modelled except the reads: `OrderRequests`, promise in `OnceOnly` |
| Incident workflow, response plan | `scripts/workshop.py` (`ensure_incident_workflow`, `remove_incident_workflow`, `ensure_sre_response_plan`) | agent configuration in the service, state file, lock file | `incident-workflow install, remove, status`; provisioning | modelled: `IncidentWorkflow` |
| Cohort deployment | `scripts/cohort.py` | `state.json`: an item per participant; the thread pools; resource groups and roles in Azure | deploy (parallel, resumable), cleanup | modelled: `Cohort` |
| Browser fault launcher | `web/src/ui.js`, `index.js`, `azure.js` | running operation, status-check flag, conditional PUTs on their way | Run and Reset of both launchers, reconnect, reload | modelled: `FaultLauncher` |
| Provisioning hooks, checks | `scripts/workshop.py`, `scripts/vm/install.sh` | resource group, template deployment, VM and its release, evidence files | `azd up`, `provision`, `down` with their hooks; `smoke`, `inspect`, `verify-restart`, `benchmark` | partly: `Deployment` |
| Database bootstrap | `src/OrdersApi/DatabaseBootstrap.cs` | schema, seed, identity sequence | migrate and seed under an advisory lock | partly: a step of `Deployment` |
| VM inspection | `scripts/vm/inspect.py` | none | checks service, DNS, migration, seed, health | partly: a step of `Deployment` |
| Health check, knowledge | `scripts/workshop.py` | skill, custom agent, task and documents on the agent; evidence file | `health-check` and `knowledge install, remove, status` | modelled: `AgentContent` |
| Database availability probe | `src/OrdersApi/DatabaseAvailabilityService.cs` | one pooled connection | `SELECT 1` every few seconds | partly: `TrafficConnects` in `VmFaults` |
| Orders GUI reads | `app.js` | list, details dialog | refresh, open, close, update quantity | not modelled |
| Catalog, themes, sign-in, accounts, Bicep | several | none, or declarative | - | not modelled |

**How they interact.** Fault control and the browser launcher both write the
one NSG rule and both run `faults.py` on the one VM; nothing but Azure's own
refusals keeps them apart: a second deployment, a second Run Command, a PUT
whose ETag is old. `install.sh` and `inspect.py` run through the same Run
Command. `faults.py` restarts `orders-api` because its pooled
connections outlive the rule that should cut them. Provisioning and the
incident workflow write the same response plan; only the latter takes a lock.
The Orders page and any other caller race on `order_requests`.

**Hard behaviours.** A client gives up (az after 240 s or 300 s, the browser
after its request timeout, the agent client after 20 s) while what it asked for
goes on; a process is killed between two writes; a read-back shows the desired
configuration before it takes effect; two operators act at the same time; a
compensation fails itself. `PROJECT.json` lists each at its line ("hazards").

**What makes each part correct.**

* Fault control: a result reported as verified is true of the data plane, stays
  true until somebody deploys the rule again, and every command ends.
* Order creation: one intent, one order; every answer is truthful; the two
  tables agree; nothing stays locked.
* Incident workflow: an alert never matches two plans; whatever was installed
  can be removed; nobody's edit is lost; one command at a time.
* Cohort: what `state.json` says was done is done, so that a rerun may skip it;
  cleanup leaves no role behind and touches no other group; every command ends.
  (The second holds unless cleanup looks at an environment that a deployment
  nobody waits for is still building: section 7.)
* Browser launcher: what a page reports as verified is true of the data plane;
  after an unconfirmed change a reset gives the Run buttons back only if no
  incident has been running since it was pressed.
* Deployment: a successful `azd up` is about the environment that exists and the
  sources it read; the service never runs on a database without its schema.
* Health check, knowledge: no schedule for an agent that is not there; a reported
  success is real although reads lag; a command gives up in the end.

## 2. Modules

| Module | What it is |
|---|---|
| `VmFaults` | `faults.py` step by step, the process with its pool, the rule as stored and as enforced |
| `FaultControl` | `EXTENDS VmFaults`: the consoles, the deployment, the order of the calls of each fault action |
| `VmFaults_proofs` | lemmas on `VmFaults`, shared by the next one and by `FaultLauncher_proofs` |
| `FaultControl_proofs` | the theorems about `FaultControl` |
| `OnceOnly` | abstract: what POST /orders promises |
| `OrderRequests` | form, handler, transactions, tables; implements `OnceOnly` |
| `IncidentWorkflow` | install, remove and the response-plan stage over the agent's configuration |
| `Cohort` | the saved state, one process with its threads, the resource groups |
| `Cohort_proofs` | the theorems about `Cohort` |
| `FaultLauncher` | `EXTENDS VmFaults`: the browser pages, which write the rule themselves |
| `Deployment` | the deployment commands, the resource group, the VM's release, the evidence |
| `AgentContent` | installing and removing the health check and the knowledge files |
| `OrderRequests_proofs`, `IncidentWorkflow_proofs`, `FaultLauncher_proofs`, `Deployment_proofs`, `AgentContent_proofs` | the theorems about them |
| `MC*` | the instances TLC checks: model values, menus, symmetry |

### Fault control

`op[o]` is a console's operation: its action and the call it has reached.
`FirstCall` and `NextCall` are the straight-line bodies of `fault()`;
`FailureAt` is its error handling (a failure after the rule was read back is
"partial"). `InvokeVm`/`VmReturns` are `vm_fault()` with `run_result()`;
`StartDeployment`, `DeploymentSucceeds/Fails` and `ReadBack` are
`deploy_postgresql_fault()`. `Abandon` is az's timeout or Ctrl-C: the request
ID is forgotten, so `job.owner` or `deployment.owner` becomes `Nobody`, and the
command goes on. In the VM, `JobStart` to `DeadlinePasses` are `main()`,
`start_cpu`, `recycle_orders_api` and `database_status`, one step for each
probe, since the rule may change between two probes.

* Azure refuses a second deployment of the same name while one is active (the
  name is fixed: see `docs/sre/30-appendix/02-troubleshooting.md` on the active
  deployment) and a second Run Command on the VM. Both are failures of the
  later operation, as in the code.
* `access` is read back at once; `enforced` follows with `Propagate` and is
  never obliged to. "NSGs preserve established flows" (`README.md`) is `pooled`.
* PostgreSQL itself is up: 503 comes from the rule. A probe may always time
  out, which is how its own failures appear.
* A process ID is only compared with the previous one, so it is `fresh`.
* Evidence files are left out but for the partial outcome. Ctrl-C during the
  recycle writes no partial file in the code; here it is counted as partial,
  which no property depends on.
* `InjectHolds` claims the rule and its enforcement, not that no connection
  exists: traffic in flight during the recycle may leave one behind.

### Order creation

A `request[s]` is the handler and its transaction together, because the
transaction may outlive the handler. `Reserve` is the
`INSERT ... ON CONFLICT DO NOTHING` that waits for an uncommitted row of the
same key; `Insert` is the INSERT of the order, the UPDATE of the row and the
COMMIT being sent (no other transaction can see between them; a failure inside
is `GiveUpOnDatabase`, with the transaction left to PostgreSQL).
`DbCommits` may come after `GiveUpOnDatabase`: the order then exists although
the client was told 503. `Shown` is what `createOrder` does with an answer;
`GiveUp` is `REQUEST_TIMEOUT_MS`; `Detached` is the aborted fetch, which may
or may not have reached the server.

* Validation and the catalog collapse into `Valid`, prices are part of the
  payload, page keys are fresh (128 random bits), and loading the order list
  after a success is not part of the attempt.
* `intent` is history: a confirmed, rejected, edited or forgotten submission
  starts a new one. Editing a form and editing it back after an unconfirmed
  submission is a new intent, as it is in the code (`pendingRequest = null`).

### Incident workflow

`config` has three components: the original plan (`anchor`), the dedicated plan
(`workflow`) and the custom agent with its skills (`agent`, written and removed
together). A component is a `base` (as the repository has it, or edited) and
one flag: the anchor's title filter, the plan's enabled flag. `InstallSteps`
and `RemoveSteps` are the order of `incident_guarded_put` and the deletions;
`Get`, `Put`, `Verify` are one guarded request: compare, write with `If-Match`,
read back. `Raise` is the `except` of each command (an installation rolls back
with the removal's steps), `Kill` is a kill at any point, which leaves the lock.

* Rather than ETag values, `fresh` says that the component was not written
  since the GET. `Tags` says what the GET may be answered with: a component that
  is not there has no ETag, one that is there may come without, since
  `sre_agent_request` then returns None (`scripts/workshop.py:969-972`; the test
  at `scripts/test_workshop.py:2743` expects it). The PUT or DELETE that follows
  is then unconditional (lines 2202 and 2303). `EditsKept` says that this is the
  only way in which an edit is lost (`Unguarded`).
* Read-back retries are one `Verify`; provisioning's retry budget is abstracted:
  it may retry or give up at any failure.
* One machine and one workspace, hence one state file and one lock file.
* The service may store the anchor without its title filter (`Stored`), which
  is the case the read-back is there for. A plan returned without
  `titleNotContains` makes the lookup at `scripts/workshop.py:2289` raise
  KeyError; that is a failure of the rollback here.

### Cohort

`run` is the process: its command, where it is in `deploy` or `cleanup` and the
items it has `left`, taken in the order of the list. `worker[i]` is the thread
that runs `deploy_participant` for `i`: the stage it is in, and how far the call
of that stage is. `cloud[i]` is what Azure holds: the resource group, how
complete what is in it is (`parts`), the agent's role on the subscription, the
participant's roles, and the template deployments that nobody waits for
(`stray`). `Begin`, a stage's call, `Record` are a stage; `StageFails` is the
`except` around it.

* `file` is `state.json` and the state in memory: `update_item` and `save_state`
  write everything after every change. Only what preflight resets waits in
  `run.gone` until preflight is over. An item is what the code reads back of it:
  two stages and whether it is Ready. The texts of `status` and `rbac` are only
  printed.
* The template deployment of `azd up` has three `Phases` in the order
  `infra/azd/main.bicep` forces: the group, its resources (a nested deployment
  under a fixed name, of which Azure runs one at a time), and the agent's role on
  the subscription, which needs the identity the resources return but not the
  group. `Provision` is a phase of a deployment its `azd up` waits for.
* Once submitted, a template deployment goes on in Azure. A kill leaves it to
  `Stray`, and so may an `azd up` that fails: it goes on beside whatever runs by
  then, a cleanup or another deployment, or fails. `MaxStrays` bounds how many
  of them there are for each participant; two in the same phase do the same and
  count as one.
* `hasty` is history: cleanup looked at the participant (`group exists` to
  `group show`) while such a deployment ran. Nothing in `cleanup_target` asks for
  running deployments, so what it found need not last: the role may be assigned
  after it was looked for, or the group come back. `NoOrphanRole`,
  `RemovedIsGone` and `RecordsHold` except these environments, and only these,
  until `azd up` has succeeded there again; section 7 has what TLC finds in them.
* One process at a time. The code has no lock and promises nothing for two;
  with two, the later write of the whole file wins.
* `Kill` is a kill, a power cut and any error nobody catches, at every point.
  What Azure was asked for, a deletion or a template deployment, goes on. Ctrl-C,
  which waits for the running threads, is not modelled on its own, nor is a
  state file that cannot be written.
* Checks of accounts, quotas and providers only end the command (`Abort`).
* The VM, which preflight looks for, and the agent, whose identity names the
  role, are one value of `parts`: `azd up` creates them in the same deployment,
  and a deletion that stops half way is `parts = "some"`.
* `ThreadFree` is a `ThreadPoolExecutor` of `--parallel-per-subscription`
  threads for each subscription, first come first served.

### Browser launcher

`op[p]` is a page's operation: the call of `runFault()` it has reached, the
answer that call has got (`answer`), and whether an answer so far told of an
active incident (`active`). `lock` are the pages with `requiresStatusCheck` set;
`puts` are the PUTs whose ETag is still the rule's. `GetRule`,
`ApplyPut`/`RefusePut`/`InterruptPut` and `ReadBack` are `setPostgresqlFault()`,
`PostCommand`, `CommandEnds`, `TakeAnswer` and `CommandLost` are `runVmFault()`;
the VM is the one of `VmFaults`, the same as for the command line. `Ambiguous`
is an `AmbiguousOperationError`, which sets the lock; `Locked` is the end of
`executeFault()`.

* What is observed and what is done with it are different steps. A command's
  result says of the CPU unit what `faults.py` read (`job.unit`, `Done`);
  `CommandEnds` frees the VM and leaves the result to be polled; `RuleStatus` is
  the moment Azure answers the GET of the rule. `TakeAnswer` is the page that
  goes on, or ends and sets its lock by what was `Answered`. In between, other
  pages and consoles write the rule and run the next command.
* `renewed` is history: the incidents begun since a page's running reset was
  pressed. `UnlockMeansClear` is about the others. Without it the property is
  violated: a CPU incident begun by another console after the command's end is
  not noticed by the page that polls later.

* A PUT that is applied changes the ETag, so it takes all others out of `puts`.
  An interrupted one stays there, without its page, and may be applied much later.
* `runFault` also has `status` and `reset`. No control of the page calls them, so
  they are not actions.
* `OtherConsole` and `OtherCommand` are everybody who does not use a page: they
  write the rule at any moment, and run any of `OtherCommands` whenever the VM is
  free. The order of their calls is that of `FaultControl` and is not repeated.
* `Reconnect` is `completeConnection`, which clears the lock for whatever
  environment was chosen; `Reload` forgets everything.
* `standing` is history: without it a verdict would be claimed for ever, although
  the other page may rightly change the rule afterwards.
* The metric charts only read.

### Deployment

`op` is the console's command and the call it has reached, `arm` the template
deployment, `job` the Run Command with `install.sh` or `inspect.py`. `link`,
`running` and `bundle` are the release that `current` names, the one the service
was started from, and the digest in `bundle.sha256`; they differ while an
installation is half way, or has failed there. `gen` counts the environments,
because all names, and so all resource IDs, are reused.

* `Killed` is a kill, Ctrl-C and az's own timeout at every point. The template
  deployment, the deletion of the group and the command on the VM go on; a later
  command meets them.
* `CallFails` is any failing call that changes nothing; `NextPoint` is the order
  of the calls, which `stage()` stops at the first error.
* The bootstrap is one transaction (its advisory lock and its identity sequence
  are not modelled); an attempt that is killed may have been committed.
* Of the evidence only the four files a later decision or claim rests on are
  kept: the persistence witness, smoke, deployment, restart.
* Telemetry queries, quota, SKU and provider checks, boot ID, DNS and TLS details
  and `check_infra.py` are left out or are one failure.

### Health check and knowledge

`store` is what the agent holds of each item, `seen` an earlier value that a read
may still answer, `late` the writes that were given up and may still be carried
out. A round of `Write`s in the order of the code is followed by `ReadBack`;
`Repeat` is the loop around both, with its eight attempts (`Attempts`).

* The two features share no item and no file, so a behaviour follows one of them.
* A value is "defined" (what the definition on the console says) or "other" (what
  an earlier version said). `EditDefinition` makes the former the latter.
* Each item of the read-back is answered with its present or its earlier value.
* `overtaken` is history: a write that was given up was carried out after the
  opposite command began, or after the definition changed. The code cannot know;
  both properties are only claimed without it, and TLC violates both with it.
* The service stores what an accepted write sent, so what can differ at the
  read-back is its age, never a value the service has changed; the leniency of
  `text_matches` (`scripts/workshop.py:1300`) is not exercised.
* The items of a feature are not guarded by a lock. One command at a time is
  assumed: the code promises nothing for two.

## 3. Runs

| Run | Instance | Question |
|---|---|---|
| `FaultControl` | 2 consoles, all actions | does a verified inject or reset hold, and is an answer only taken by the operation it belongs to |
| `FaultControlLive` | 2 consoles, inject and reset of PostgreSQL | does every operation end, and is the VM freed |
| `OrderRequests` | 1 page, 1 caller, 2 open requests, 3 ever sent, 2 page keys, 3 payloads | one order per intent, truthful answers, agreeing tables, `OnceOnly` implemented |
| `OrderRequestsLive` | 1 page, 2 open requests, 3 ever sent | keys are released, the form is unlocked |
| `IncidentWorkflow` | 2 consoles install/remove, 2 portal edits | partition, recoverability, edits kept |
| `IncidentDelays` | 2 consoles, all commands, late requests | the lock and the snapshot, whatever is late |
| `Cohort` | 2 participants, 1 subscription, 1 thread, cleanup of participant 1 | is the record true, is no role left behind, are foreign groups untouched, does every command end, while deployments of killed commands go on |
| `CohortUndone` | 1 participant, deploy and cleanup | expected violation, see findings |
| `IncidentRace` | 1 installs, 1 provisions | expected violation, see findings |
| `FaultLauncher` | 2 pages, one with every button, one that starts PostgreSQL incidents; other consoles write the rule, start and reset CPU | is a page's verdict true in the data plane, does a reset that unlocks Run overlook a running incident |
| `Deployment` | all commands, 2 environments, 2 versions of the source | is a success about what exists, is there a schema before the service |
| `AgentContent` | 1 console, either feature, 2 attempts, 1 late write | no schedule without its agent, real successes, does every command end |

**Why these bounds are enough to be interesting.** Two consoles give every
pairwise interleaving, among them an abandoned deployment or command of the
first meeting the second; the proofs remove the bound. Three requests give a
submission, its retry while the first COMMIT is undecided, and a rival with
another payload; all faults may happen in each. `MaxEdits` = 2 gives an edit
before and one after the comparison, on the same or on different components.
`Delays` keeps one late request at a time (`late = {}` in `Postpone`), which is
enough for it to meet a rollback or a later command. Operations are repeated without limit: histories are cyclic,
not bounded in length, except for `MaxRequests` and `MaxEdits`. Symmetry (of
consoles, slots, keys, payloads) is used only where no liveness is checked.

Two participants and one thread make one wait in the queue while the other is
deployed, fails or is killed; participants of different subscriptions share
only the process. Cleanup has one target, since its targets are handled one
after the other, with nothing kept between them. One template deployment of that
participant at a time may be left to Azure, which is enough for it to meet a
cleanup, a later deployment and its own successor; this gives 1.2·10^6 states,
and the proofs hold for any number of them.

Two pages give a PUT of one that is refused, or applied late, because of the
other's; the second page only starts the PostgreSQL incident, which keeps the run
at 2.5·10^6 states: resets of the rule by others are those of `OtherConsole`.
Other consoles start and reset the CPU incident, so that the VM's next command
meets a result that has not been polled. `MaxGen` =
2 gives an environment, its removal and its successor under the same names, and
`MaxDigest` = 2 an installation of other sources than those that already run,
or than those of a command that was given up. `Attempts` = 2 has a round that
fails and one that ends the command; `MaxLate` = 1 a write that meets a later
round or a later command. With more of either nothing new can be met, since the
rounds are alike and a late write does not depend on another.

Every property of a passing run has a mutant in `PROJECT.json`: a plausible bug
of the code under which TLC finds that property violated. The mutated forms stand
before what they mutate, marked "Mutation of"; no action uses them.

## 4. Fairness

* Consoles: weak fairness of their own next call (`Console`). Starting an
  operation or pressing Ctrl-C is nobody's obligation.
* Azure ends a deployment it accepted, in success or failure.
* `faults.py`: weak fairness of its steps (subprocess and HTTP calls have
  timeouts) and strong fairness of `DeadlinePasses`, because the loop returns to
  the test of its 150 s deadline again and again and time passes. `Propagate`
  is not fair: operations end even if the rule never takes effect.
* Handlers have command timeouts, the browser has `REQUEST_TIMEOUT_MS`, and
  PostgreSQL ends a transaction whose COMMIT was sent or whose connection is
  gone: weak fairness of `Handle`, `Deliver`, `GiveUp` and of the end of `Left`
  transactions. Submitting and retrying are not fair.

* Cohort: the process and its threads go on, and every call of `azd` or `az`
  returns or fails. For `azd up` that is an assumption: `run_logged` has no
  timeout. `Provision` is therefore not fair by itself: `azd up` returns, or
  fails and may leave its deployment to Azure. `Stray`, `Gone` and `Deletion` are
  nobody's obligation: cleanup ends because of its own deadline.
* `AgentContent`: weak fairness of the command's next call. Each request has a
  timeout of 20 s and the pauses between attempts are 15 s. The service is never
  obliged to become consistent.
* `FaultLauncher` and `Deployment` are checked for safety only.

## 5. What is proved

`FaultControl_proofs`, for every set of consoles and every menu, assuming only
`NobodyAssumption` and `MenuAssumption` (Nobody is not a console; a menu is a
set of actions for each console):

* `TypeCorrect`: `Spec => []TypeOK`
* `InjectCorrect`: `Spec => []InjectHolds`
* `ResetCorrect`: `Spec => []ResetHolds`
* `VerdictCorrect`: `Spec => []VerdictMatches`

None of the last three is inductive. `InjectHolds` speaks of the moment the
operation has succeeded, but its truth was established earlier: by the
deployment, which nobody has superseded, and by two probes through a process
that had no older connection. `IInv` therefore adds, for the last writer of the
rule, that the only deployment that can still run is its own and is before its
read-back (`CallsMatch`, `DeploymentMatches`); that after the read-back the rule
is its target and cannot change (`RuleSettled`, `RuleRead`); that a recycle's
probes say what is enforced, given a fresh process (`RecycleObserves`); and that
the end of the recycle carries it over to the rest of the operation
(`Verified`). TLC checks the properties on two consoles; each step of the
proof is one action, under it one conjunct.

`Cohort_proofs`, for any number of participants, subscriptions and threads and
any targets of cleanup, and any number of template deployments that go on by
themselves, from `CohortAssumption` (the first three are positive numbers, the
targets are participants, `MaxStrays` is a number for each participant):

* `TypeCorrect`: `Spec => []TypeOK`
* `RecordsCorrect`: `Spec => []RecordsHold`
* `NoOrphanRoleCorrect`: `Spec => []NoOrphanRole`
* `RemovedCorrect`: `Spec => []RemovedIsGone`
* `ForeignCorrect`: `Spec => ForeignUntouched`

A record is written when its stage is over, long after the stage did what it
records, and other processes may have begun in between if this one was killed.
`IInv` therefore says, for each participant by itself (`Fits`), where its thread
may be and what its item says meanwhile (`Matches`); that a deployment that goes
on, watched or not, has what its phase needs, and the role a group with an agent
that nobody is deleting (`Founded`); that what a stage did is still there as long
as the role is, or may be assigned (`Stands`); and that what is recorded as
removed is gone with nothing on its way (`Removed`). The last three fail where
cleanup was `hasty`. `RunFits` is about the process: cleanup has looked and takes
the role away before the group (`Looked`), and preflight or that look-up stood
between the process and every foreign group. Each step is a lemma on one
participant's item, thread and environment. `NowLeft` needs that a set of numbers
has a least one, which the library's well-foundedness of `<` provides.

`Deployment_proofs`, for any number of environments and versions of the source
and any set of commands, from `BoundsAssumption` and `MenuAssumption`:

* `TypeCorrect`: `Spec => []TypeOK`
* `SchemaCorrect`: `Spec => []SchemaBeforeService`
* `UpCorrect`: `Spec => []UpIsVerified`

A success is the end of a long sequence, in the middle of which former commands
may still be at work. `IInv` says that what a command waits for belongs to the
call it has reached (`WaitsMatch`), that after its own template deployment there
is no other and the group stays (`EnvironmentStays`), how far the installation it
waits for has come, by its own digest (`InstallFollowed`), and that after it
nothing touches the VM (`InstalledStays`), because Azure runs one command at a
time. `SchemaFirst` is the order of `install.sh`.

`AgentContent_proofs`, for any number of attempts and of late writes, from
`BoundsAssumption`:

* `TypeCorrect`: `Spec => []TypeOK`
* `NoDanglingCorrect`: `Spec => []NoDanglingSchedule`
* `SuccessCorrect`: `Spec => SuccessIsReal`

`RoundHolds` says that what the current round has written is as wanted: by that
the read-back need not be believed. It survives late writes because those that
overtake nothing want what the command wants (`LateMatch`), and they leave no
gap because what they need was written before they were sent and has not been
removed since (`LatePrepared`).

`OrderRequests_proofs`, for any number of pages, page keys, requests, payloads
and other callers, from the assumptions of `OrderRequests`:

* `TypeCorrect`: `Spec => []TypeOK`
* `OneOrderCorrect`: `Spec => []OneOrderPerIntent`
* `ConfirmedCorrect`: `Spec => []ConfirmedIsMine`
* `RecordsCorrect`: `Spec => []RecordsComplete`
* `Refinement`: `Spec => OnceOnlySpec`

That an intent has one order depends on both ends. In the database a key has one
row, and at most one transaction that may still write it, in whatever state its
handler is (`RowsGuarded`); numbers are not handed out twice (`NumbersMatch`);
a 201, sent or not, names an order of that key and content (`AnswersTrue`). In
the browser a key belongs to one intent, and an intent to one key, among all
that was ever sent (`ClaimsMatch`), the pending key to the present one
(`PendingMatches`), and a page waits for one request only (`FormsMatch`). The
conjunction, `IInv`, is inductive. The refinement maps a request to what has
been said to its client and a committed order to an entry of the ledger; each
action is a step of `OnceOnly` or a stutter. `OnceOnly` numbers its orders within a
bound; `NumbersLast` shows that the identity stays within it, because every
request takes one number at most.

`IncidentWorkflow_proofs`, for any number of consoles and of portal edits, from
`MenuAssumption`. With every command and late requests:

* `TypeCorrect`: `Spec => []TypeOK`
* `OneAtATimeCorrect`: `Spec => []OneAtATime`
* `SnapshotCorrect`: `Spec => SnapshotKept`

If no request is applied after it timed out (`~Delays`):

* `NothingLeftCorrect`: `~Delays => (Spec => []NothingLeftBehind)`

If moreover nobody provisions (`Alone`):

* `NoOverlapCorrect`: `Alone => (Spec => []NoOverlap)`
* `ActiveCorrect`: `Alone => (Spec => []ActiveMeansRouted)`
* `EditsCorrect`: `Alone => (Spec => EditsKept)`

Both hypotheses are needed: with provisioning TLC violates the last three
(`NoOverlap` in the run `IncidentRace`), with late requests all four (section 7).
The run `IncidentWorkflow` is an instance of `Alone`. `IInv` says who may be past
the lock and what such a command knows of the state file (`StateRead`).
`UInv` adds how far an undoing has got and that its target has no filter;
provisioning, which only ever takes the filter away, cannot disturb it. `SInv`
adds the order of the requests in both directions (`Progress`: the dedicated plan
is not enabled before the filter is seen to be set, the filter is not removed
before the plan is seen to be disabled), and that a request whose ETag holds
still faces what was compared (`Compared`). `EditsCorrect` follows for every
request but those whose GET found a component and had no ETag.

`VmFaults_proofs` has no theorem of its own. Its lemmas say that every step of
`faults.py` and of its surroundings keeps the types, and that what a recycle's
two probes observed of the data plane stays true while the rule stays
(`Observes`, `ObservedEnforced`), and that a command which succeeded and read the
CPU unit as inactive leaves it so until the next command (`UnitRead`); both users
of the VM cite them.

`FaultLauncher_proofs`, for any set of pages with any buttons, from the
assumptions of `FaultLauncher`:

* `TypeCorrect`: `Spec => []TypeOK`
* `InjectCorrect`: `Spec => []InjectHolds`
* `ResetCorrect`: `Spec => []ResetHolds`
* `UnlockCorrect`: `Spec => UnlockMeansClear`

The invariant is that of `FaultControl` page by page, but a page owns the rule
only as long as nobody has written it (`standing`), which interrupted PUTs may do
at any time. `Claims` says which calls a button leads to, whose PUT and whose
command is under way, that the rule read back stands, what the recycle has
observed, and that the data plane follows it, whether or not the page has the
answer already. `UnlockMeansClear` needs a second invariant, `Releases`: once a
reset has observed that an incident is over, by the GET of the rule, by its
read-back, or by what `faults.py` read of the CPU unit, that incident is inactive
now or was begun since the reset was pressed, whatever pages, late PUTs and other
consoles have done in the meantime (`SeenOver`, and `UnitRead` while the command
has not ended).

## 6. Model-checked only

The liveness properties (`EveryOperationEnds`, `VmIsFreed`, `KeyIsReleased`,
`SubmissionEnds`, both `CommandEnds`), which are out of the prover's reach. Every
safety property that a passing run checks is also a theorem, those of
`IncidentWorkflow` under the hypotheses above.

## 7. Findings

* `IncidentRace`: provisioning decides on a listing and then PUTs the unfiltered
  plan, without lock or ETag; an installation that is activated in between loses
  its filter and both plans match. This contradicts "This partition prevents one
  alert from matching both plans."
  (`docs/sre/30-appendix/09-incident-workflow.md:38`).
* `CohortUndone`: a cleanup that fails or is killed after it removed the agent's
  role or requested the deletion leaves the recorded stages alone, and the next
  `deploy` skips them and reports Ready for an environment that is half removed.
  `docs/sre/30-appendix/07-organizer-guide.md:107` says that Ready "verifies
  infrastructure stages". `RecordsHold` therefore only speaks of environments
  whose role is still there: within them, every recorded stage is true.

**Also observed with TLC**, without a run of their own:

* With late requests `NoOverlap` fails as well: an activation PUT that the client
  gave up after 20 s is applied during the rollback, which skipped disabling the
  plan because it still read it disabled (`scripts/workshop.py:2280`), so the ETag
  of the PUT is still valid. In the same way a creation, which has no ETag, may be
  applied after the rollback removed the state file (`NothingLeftBehind`,
  `ActiveMeansRouted`), or over the component that a later installation created
  and somebody edited (`EditsKept`).
* A GET that is answered without an ETag leaves the PUT or DELETE after it without
  `If-Match` (`scripts/workshop.py:969`, 2202, 2303): an edit made in the portal in
  between is lost.
* A cleanup of a participant whose killed or failed `azd up` has left a template
  deployment running can be undone by it: the role is assigned after
  `cleanup_target` looked for it (`scripts/cohort.py:822-827`,
  `infra/azd/main.bicep:71-78`) and stays on the subscription without its group,
  or the group comes back after the item says Removed. `README.md:287` says that
  cleanup removes the assignment before the group; it says nothing of running
  deployments, and the code does not look for any.
* A reset releases the Run buttons by what was observed earlier: an incident that
  somebody begins after the CPU unit was read (`scripts/vm/faults.py:159`) or
  after the rule was answered, but before the page uses the answer
  (`web/src/index.js:303-312`), is not noticed.
* Provisioning's unfiltered PUT also makes a state file that says active untrue
  and overwrites an edit made after its listing (`ActiveMeansRouted`, `EditsKept`).
  `NothingLeftBehind` holds with provisioning, which is proved.
* When `configure_environment` fails for a participant whose infrastructure is
  complete, `deploy` writes deployment "Failed" (`scripts/cohort.py:769`), and
  the next run repeats `azd up` and the validation.
* After a Deny PUT that was applied, a second GET that fails is an ordinary error
  (`web/src/azure.js:483`): the incident may be running and Run is not locked.
* A PUT that was interrupted can be applied after a reset has read Allow, skipped
  its own PUT (`web/src/azure.js:471`) and been reported as verified.
* The persistence witness of a removed environment is kept when `prepare` sees a
  group that is selected empty or still being deleted (`scripts/workshop.py:741`);
  `verify-restart` then fails for the new environment (line 2825) rather than
  succeed wrongly.
* An installation that fails after its release was switched leaves the former
  `bundle.sha256` (`scripts/vm/install.sh:173`): a VM restart then runs the new
  release while `inspect` reports the old digest. `UpIsVerified` speaks of
  successful commands, after which the three agree.

## 8. Plan

1. Proofs: what holds of `IncidentWorkflow` with late requests beyond the lock and
   the snapshot.
2. `DatabaseBootstrap`: advisory lock and `setval` against live inserts. A number
   that is handed out twice fails the second INSERT (the primary key), so what is
   at stake is one refused request, not an order.
3. `OrdersGui`: overlapping refreshes and stale responses of the details dialog.
   It keeps nothing beyond the page.
