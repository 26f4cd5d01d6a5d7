--------------------------- MODULE FaultLauncher ---------------------------
(***************************************************************************)
(* The two incident launchers of the workshop site: execute() of           *)
(* web/src/ui.js, executeFault() of web/src/index.js and runFault(),       *)
(* setPostgresqlFault(), runVmFault() of web/src/azure.js, run from pages  *)
(* (browser tabs) connected to one workshop environment.                   *)
(*                                                                         *)
(* Unlike the command line, a page writes the PostgreSQL rule itself: GET, *)
(* PUT with If-Match when the rule differs, GET.  `puts` holds the PUTs on *)
(* their way that carry the rule's current ETag; a PUT that is applied     *)
(* gives the rule another ETag, so the others leave the set: Azure will    *)
(* refuse them (412).                                                      *)
(*                                                                         *)
(* A page awaits every answer.  What Azure or faults.py observed is fixed  *)
(* when they answer; the page uses it later, when the VM may have taken    *)
(* the next command and somebody may have written the rule.                *)
(*                                                                         *)
(* runFault also knows `status` and `reset`; no control of the page asks   *)
(* for them.  Other consoles are the steps OtherConsole and OtherCommand:  *)
(* they write the rule and use the VM whenever they like (FaultControl is  *)
(* their model).                                                           *)
(***************************************************************************)
EXTENDS VmFaults

CONSTANTS Menu,          \* the buttons used on each page
          OtherCommands  \* what other consoles run on the VM

VARIABLES op,       \* each page's running or last operation
          lock,     \* the pages with requiresStatusCheck set
          puts,     \* the conditional PUTs that may still be applied
          standing, \* history: the pages that read back the rule they wanted,
                    \* no PUT having been applied since
          renewed   \* history: the incidents begun since a page's running
                    \* reset was pressed

pageVars == <<op, lock, puts, standing>>
vars     == <<access, vmVars, pageVars, renewed>>

Incidents == {"cpu", "postgresql"}
Injects   == Incidents
Actions   == Injects \cup {"reset-cpu", "reset-postgresql"}

ASSUME MenuAssumption == Menu \in [Operators -> SUBSET Actions]
ASSUME OtherAssumption == OtherCommands \subseteq Commands

VmPoints == {"checkVm", "recycle", "resetCpu", "startCpu"}
Points   == VmPoints \cup {"get", "put", "readBack", "ruleStatus"}
Ends     == {"idle", "succeeded", "failed", "ambiguous"}

Replies == {"none", "ok", "error"}

\* `answer` is what has been answered to the call the operation is at, `active`
\* whether an answer a reset has got so far tells of an active incident.
Ops  == [action : Actions, at : Points \cup Ends, answer : Replies,
         active : BOOLEAN]
Puts == [owner : Operators \cup {Nobody}, target : Access]

Target(p) == IF op[p].action = "postgresql" THEN "Deny" ELSE "Allow"

CommandAt(p) ==
    CASE op[p].at = "checkVm"  -> "status"
      [] op[p].at = "resetCpu" -> "reset"
      [] op[p].at = "startCpu" -> "cpu"
      [] op[p].at = "recycle"  -> IF op[p].action = "postgresql"
                                  THEN "postgresql-denied"
                                  ELSE "postgresql-ready"

FirstCall(action) ==
    CASE action = "postgresql"       -> "checkVm"
      [] action = "reset-postgresql" -> "get"
      [] action = "reset-cpu"        -> "resetCpu"
      [] action = "cpu"              -> "startCpu"

\* Mutation of NextCall: the status that follows a CPU action is forgotten.
NextCallUnchecked(point) ==
    CASE point = "checkVm"  -> "get"
      [] point = "put"      -> "readBack"
      [] point = "readBack" -> "recycle"
      [] OTHER              -> "verified"

NextCall(point) ==
    CASE point = "checkVm"                -> "get"
      [] point = "put"                    -> "readBack"
      [] point = "readBack"               -> "recycle"
      [] point \in {"startCpu", "resetCpu"} -> "ruleStatus"
      [] OTHER                            -> "succeeded"

Init ==
    /\ VmInit
    /\ op = [p \in Operators |-> [action |-> "cpu", at |-> "idle",
                                  answer |-> "none", active |-> FALSE]]
    /\ lock = {}
    /\ puts = {}
    /\ standing = {}
    /\ renewed = [p \in Operators |-> {}]

Active(incident) == IF incident = "cpu" THEN cpu = "active" ELSE access = "Deny"

Resets(p) == op[p].at \in Points /\ op[p].action \notin Injects

\* What every step adds to the history `renewed`.
Renewals ==
    renewed' = [p \in Operators |->
        IF Resets(p)'
        THEN renewed[p] \cup {i \in Incidents : ~Active(i) /\ Active(i)'}
        ELSE {}]

-----------------------------------------------------------------------------
\* An operation goes on to its next call, or ends.
Gone(o, at) == [o EXCEPT !.at = at, !.answer = "none",
                         !.active = at \in Points /\ @]

\* Its call is answered; the answers of one operation are merged, and only
\* those of a reset are looked at.
Answered(o, answer, active) ==
    [o EXCEPT !.answer = answer,
              !.active = @ \/ (o.action \notin Injects /\ active)]

\* Mutation of Locked: a reset that ended releases the page.
LockedUntilReset(p, next) ==
    IF next = "succeeded" /\ op[p].action \notin Injects THEN lock \ {p}
                                                        ELSE lock

\* requiresStatusCheck after p's call: a reset that ended sets it to what the
\* reset observed, a started incident leaves it alone.
Locked(p, next) ==
    IF next # "succeeded" \/ op[p].action \in Injects THEN lock
    ELSE IF op[p].active THEN lock \cup {p} ELSE lock \ {p}

\* The call of p returned.
Advance(p) ==
    LET next == NextCall(op[p].at)
    IN  /\ op' = [op EXCEPT ![p] = Gone(@, next)]
        /\ lock' = Locked(p, next)

\* AmbiguousOperationError: the operation may have succeeded.
Ambiguous(p) ==
    /\ op' = [op EXCEPT ![p] = Gone(@, "ambiguous")]
    /\ lock' = lock \cup {p}

\* Any other error; runFault turns one of the recycle into an ambiguous one.
Refused(p) ==
    IF op[p].at = "recycle" THEN Ambiguous(p)
    ELSE op' = [op EXCEPT ![p] = Gone(@, "failed")] /\ UNCHANGED lock

\* What p started goes on without it.
Orphaned(p) ==
    /\ job' = IF job.owner = p THEN [job EXCEPT !.owner = Nobody] ELSE job
    /\ puts' = {IF r.owner = p THEN [r EXCEPT !.owner = Nobody] ELSE r
                   : r \in puts}

\* A button is pressed: Run is disabled while the page is locked, both are
\* while it runs an operation.
Press(p) ==
    /\ op[p].at \in Ends
    /\ \E action \in Menu[p] :
          /\ action \in Injects => p \notin lock
          /\ op' = [op EXCEPT ![p] = [action |-> action,
                                      at     |-> FirstCall(action),
                                      answer |-> "none",
                                      active |-> FALSE]]
    /\ standing' = standing \ {p}
    /\ UNCHANGED <<access, vmVars, lock, puts>>
    /\ Renewals

\* The first GET of setPostgresqlFault; a rule that already is as wanted is
\* not written.
GetRule(p) ==
    /\ op[p].at = "get"
    /\ \/ /\ access = Target(p)
          /\ op' = [op EXCEPT ![p] = Gone(@, "readBack")]
          /\ UNCHANGED <<lock, puts>>
       \/ /\ access # Target(p)
          /\ op' = [op EXCEPT ![p] = Gone(@, "put")]
          /\ puts' = puts \cup {[owner |-> p, target |-> Target(p)]}
          /\ UNCHANGED lock
       \/ Refused(p) /\ UNCHANGED puts
    /\ UNCHANGED <<access, vmVars, standing>>
    /\ Renewals

\* Azure applies a PUT: its page learns of it, unless the answer is lost.
ApplyPut(r) ==
    /\ r \in puts
    /\ access' = r.target
    /\ puts' = {}
    /\ standing' = {}
    /\ IF r.owner = Nobody THEN UNCHANGED <<op, lock>>
       ELSE Advance(r.owner) \/ Ambiguous(r.owner)
    /\ UNCHANGED vmVars
    /\ Renewals

\* Azure refuses the PUT: 412, or any other HTTP error.
RefusePut(p) ==
    /\ op[p].at = "put"
    /\ Refused(p)
    /\ puts' = {r \in puts : r.owner # p}
    /\ UNCHANGED <<access, vmVars, standing>>
    /\ Renewals

\* The PUT is interrupted; it may be applied later.
InterruptPut(p) ==
    /\ op[p].at = "put"
    /\ Ambiguous(p)
    /\ Orphaned(p)
    /\ UNCHANGED <<access, network, process, cpu, standing>>
    /\ Renewals

\* Mutation of ReadBack: the rule is not read again.
NoReadBack(p) ==
    /\ op[p].at = "readBack"
    /\ Advance(p)
    /\ standing' = standing \cup {p}
    /\ UNCHANGED <<access, vmVars, puts>>
    /\ Renewals

\* The second GET: another rule than the one wanted is an ambiguous outcome,
\* a GET that fails an ordinary error.
ReadBack(p) ==
    /\ op[p].at = "readBack"
    /\ \/ /\ access = Target(p)
          /\ Advance(p)
          /\ standing' = standing \cup {p}
       \/ access # Target(p) /\ Ambiguous(p) /\ UNCHANGED standing
       \/ Refused(p) /\ UNCHANGED standing
    /\ UNCHANGED <<access, vmVars, puts>>
    /\ Renewals

\* Azure answers the GET of postgresqlFaultStatus, after a CPU action, or
\* the GET fails.
RuleStatus(p) ==
    /\ op[p].at = "ruleStatus"
    /\ op[p].answer = "none"
    /\ \/ /\ op' = [op EXCEPT ![p] = Answered(@, "ok", access = "Deny")]
          /\ UNCHANGED lock
       \/ Refused(p)
    /\ UNCHANGED <<access, vmVars, puts, standing>>
    /\ Renewals

\* POST runCommand; Azure refuses it while another command runs on the VM.
PostCommand(p) ==
    /\ op[p].at \in VmPoints
    /\ op[p].answer = "none"
    /\ job.owner # p
    /\ IF job = NoJob
       THEN job' = NewJob(p, CommandAt(p)) /\ UNCHANGED <<op, lock>>
       ELSE Refused(p) /\ UNCHANGED job
    /\ UNCHANGED <<access, enforced, process, cpu, puts, standing>>
    /\ Renewals

\* The command has ended, with p's request ID in its output or without one.
\* Its result waits for the page; the VM takes the next command.
CommandEnds(p) ==
    /\ job.owner = p
    /\ job.phase \in {"ok", "error"}
    /\ op' = [op EXCEPT ![p] = Answered(@, job.phase, job.unit = "active")]
    /\ job' = NoJob
    /\ UNCHANGED <<access, enforced, process, cpu, lock, puts, standing>>
    /\ Renewals

\* The page gets the answer it awaits: the next poll finds the command ended,
\* the GET returns.  A command Azure reports as failed is an error, a finished
\* one that lacks its result an ambiguous outcome.
TakeAnswer(p) ==
    /\ op[p].answer # "none"
    /\ IF op[p].answer = "ok" THEN Advance(p) ELSE Refused(p) \/ Ambiguous(p)
    /\ UNCHANGED <<access, vmVars, puts, standing>>
    /\ Renewals

\* The POST is interrupted, a poll fails, or four minutes have passed.
CommandLost(p) ==
    /\ op[p].at \in VmPoints
    /\ job.owner = p \/ op[p].answer # "none"
    /\ Ambiguous(p)
    /\ Orphaned(p)
    /\ UNCHANGED <<access, network, process, cpu, standing>>
    /\ Renewals

\* completeConnection: Retry and Change environment are offered while an
\* operation runs.
Reconnect(p) ==
    /\ p \in lock
    /\ lock' = lock \ {p}
    /\ UNCHANGED <<access, vmVars, op, puts, standing>>
    /\ Renewals

\* The page is reloaded: it forgets its operation and its lock.
Reload(p) ==
    /\ op[p].at # "idle"
    /\ op' = [op EXCEPT ![p] = Gone(@, "idle")]
    /\ lock' = lock \ {p}
    /\ Orphaned(p)
    /\ standing' = standing \ {p}
    /\ UNCHANGED <<access, network, process, cpu>>
    /\ Renewals

\* The command line deploys the rule, without asking for its ETag.
OtherConsole ==
    /\ access' \in Access
    /\ puts' = {}
    /\ standing' = {}
    /\ UNCHANGED <<vmVars, op, lock>>
    /\ Renewals

\* The command line uses the VM.
OtherCommand ==
    /\ job = NoJob
    /\ \E cmd \in OtherCommands : job' = NewJob(Nobody, cmd)
    /\ UNCHANGED <<access, enforced, process, cpu, pageVars>>
    /\ Renewals

OnVm == VmNext /\ UNCHANGED <<access, pageVars>> /\ Renewals

Page(p) ==
    \/ GetRule(p) \/ ReadBack(p) \/ RuleStatus(p) \/ RefusePut(p)
    \/ InterruptPut(p) \/ PostCommand(p) \/ CommandEnds(p) \/ TakeAnswer(p)
    \/ CommandLost(p)

Next ==
    \/ \E p \in Operators : Press(p) \/ Page(p) \/ Reconnect(p) \/ Reload(p)
    \/ \E r \in puts : ApplyPut(r)
    \/ OtherConsole \/ OtherCommand
    \/ OnVm

Spec == Init /\ [][Next]_vars

-----------------------------------------------------------------------------
TypeOK ==
    /\ access \in Access /\ enforced \in Access
    /\ pooled \in BOOLEAN /\ fresh \in BOOLEAN
    /\ cpu \in {"inactive", "active"}
    /\ job \in Jobs \cup {NoJob}
    /\ op \in [Operators -> Ops]
    /\ lock \subseteq Operators
    /\ puts \subseteq Puts
    /\ standing \subseteq Operators
    /\ renewed \in [Operators -> SUBSET Incidents]

Verified(p, action) == op[p].at = "succeeded" /\ op[p].action = action

\* An incident the page reports as started is one: PostgreSQL refuses new
\* connections, in the data plane and not only in the rule, until a PUT
\* changes the rule, whatever the other page, interrupted PUTs and abandoned
\* commands do.
InjectHolds ==
    \A p \in standing : Verified(p, "postgresql") =>
        access = "Deny" /\ enforced = "Deny"

\* A reset the page reports as verified is not the doing of connections that
\* outlived the Deny: new ones are accepted.
ResetHolds ==
    \A p \in standing : Verified(p, "reset-postgresql") =>
        access = "Allow" /\ enforced = "Allow"

\* A reset that ends with the Run buttons of its page released leaves no
\* incident that has been running since it was pressed: what is active now,
\* somebody began meanwhile.  The page decides on what faults.py and Azure
\* observed some time before, and not at the same time.
UnlockMeansClear ==
    [][\A p \in Operators :
          Resets(p) /\ op'[p].at = "succeeded" /\ p \notin lock' =>
              \A i \in Incidents : Active(i) => i \in renewed[p]]_vars
=============================================================================
