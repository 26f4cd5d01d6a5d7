-------------------------- MODULE IncidentWorkflow --------------------------
(***************************************************************************)
(* `python scripts/workshop.py incident-workflow install | remove` and the *)
(* response-plan stage of provisioning (ensure_sre_response_plan) against  *)
(* the configuration of one Azure SRE Agent.                               *)
(*                                                                         *)
(* The original response plan (the anchor) handles every Sev1/Sev2 alert.  *)
(* The installer partitions it by a title filter and adds a dedicated plan *)
(* (the workflow) and a custom agent; the three skills are written and     *)
(* deleted like the custom agent, right before or after it, and `agent`    *)
(* stands for all four.  What is needed to undo this is kept in the state  *)
(* file, and a lock file keeps install and remove apart.                   *)
(*                                                                         *)
(* A conditional request carries the ETag of an earlier GET; `fresh` says  *)
(* that the component was not written since, so If-Match still holds.  A   *)
(* GET that is answered without an ETag makes the request unconditional.   *)
(***************************************************************************)
EXTENDS Naturals, Sequences

CONSTANTS Consoles,  \* where commands are run
          Menu,      \* the commands each console may run
          Free,      \* no lock file
          MaxEdits,  \* bound on the edits made in the portal
          Delays     \* whether a request may be applied after it timed out

Commands == {"install", "remove", "provision"}

ASSUME MenuAssumption ==
    /\ Menu \in [Consoles -> SUBSET Commands]
    /\ Free \notin Consoles
    /\ MaxEdits \in Nat
    /\ Delays \in BOOLEAN

VARIABLES config,  \* the components the agent service holds
          file,    \* incident-workflow-state.json
          lock,    \* incident-workflow-state.lock: the console that made it
          proc,    \* the command each console runs
          late,    \* the request that timed out and may still be applied
          edits    \* how many edits the portal has made

vars == <<config, file, lock, proc, late, edits>>

Paths == {"anchor", "workflow", "agent"}

\* A component: `base` stands for all of its fields but one, `on` for that
\* one: the anchor's title filter is set, the workflow plan is enabled.
Versions == [base : {"repo", "edited"}, on : BOOLEAN]
Absent   == [base |-> "none", on |-> FALSE]
Off == [base |-> "repo", on |-> FALSE]
On  == [base |-> "repo", on |-> TRUE]

NoFile == [phase |-> "none", original |-> Absent]
Phases == {"prepared", "active", "partial", "removing"}
Files  == [phase : Phases, original : Versions]

\* The filter is added to the plan that was found, if it has none yet.
Partitioned == [file.original EXCEPT !.on = TRUE]

-----------------------------------------------------------------------------
(* The requests of an installation and of a removal, in their order.       *)

\* Mutation of InstallSteps: the dedicated plan is enabled first.
InstallStepsEnabledFirst ==
    << [path |-> "agent",    to |-> On,          from |-> {Absent}],
       [path |-> "workflow", to |-> Off,         from |-> {Absent}],
       [path |-> "workflow", to |-> On,          from |-> {Off}],
       [path |-> "anchor",   to |-> Partitioned, from |-> {file.original}] >>

InstallSteps ==
    << [path |-> "agent",    to |-> On,          from |-> {Absent}],
       [path |-> "workflow", to |-> Off,         from |-> {Absent}],
       [path |-> "anchor",   to |-> Partitioned, from |-> {file.original}],
       [path |-> "workflow", to |-> On,          from |-> {Off}] >>

RemoveSteps ==
    << [path |-> "workflow", to |-> Off,           from |-> {On, Off}],
       [path |-> "anchor",   to |-> file.original, from |-> {Partitioned,
                                                             file.original}],
       [path |-> "workflow", to |-> Absent,        from |-> {Off}],
       [path |-> "agent",    to |-> Absent,        from |-> {On}] >>

\* Points of a command; `undo` says that it works off RemoveSteps.
Points == {"lock", "readState", "plans", "absent", "save", "get", "put",
           "verify", "active", "plansAgain", "partsAgain", "partial",
           "orphans", "removing", "unlink", "plansNow", "partsNow", "list",
           "create", "confirm"}
Ends   == {"idle", "ok", "failed"}

\* What a command knows: the plan it found, whether the GET before a PUT
\* returned an ETag and whether that still holds, what a status found.
Procs == [cmd : Commands, at : Points \cup Ends, step : 1..4, undo : BOOLEAN,
          found : Versions \cup {Absent}, etag : BOOLEAN, fresh : BOOLEAN,
          matches : BOOLEAN]

Ended(cmd, result) ==
    [cmd |-> cmd, at |-> result, step |-> 1, undo |-> FALSE, found |-> Absent,
     etag |-> FALSE, fresh |-> FALSE, matches |-> FALSE]

Init ==
    /\ config \in {[p \in Paths |-> IF p = "anchor" THEN anchor ELSE Absent] :
                      anchor \in {Absent, Off}}
    /\ file = NoFile
    /\ lock = Free
    /\ proc = [c \in Consoles |-> Ended("install", "idle")]
    /\ late = {}
    /\ edits = 0

At(c, point) == proc[c].at = point
Goto(c, point) == proc' = [proc EXCEPT ![c].at = point]
Step(c) == IF proc[c].undo THEN RemoveSteps[proc[c].step]
                           ELSE InstallSteps[proc[c].step]

\* Mutation of Onward: one request too many.
OnwardPastEnd(c) ==
    IF proc[c].step <= 4
    THEN [proc[c] EXCEPT !.step = @ + 1, !.at = "get", !.etag = FALSE,
                         !.fresh = FALSE]
    ELSE [proc[c] EXCEPT !.at = IF proc[c].undo THEN "unlink" ELSE "active",
                         !.etag = FALSE, !.fresh = FALSE]

\* What c does once its request is done: the next one, or what follows them.
Onward(c) ==
    IF proc[c].step < 4
    THEN [proc[c] EXCEPT !.step = @ + 1, !.at = "get", !.etag = FALSE,
                         !.fresh = FALSE]
    ELSE [proc[c] EXCEPT !.at = IF proc[c].undo THEN "unlink" ELSE "active",
                         !.etag = FALSE, !.fresh = FALSE]

\* A command that ends gives its lock up (the context manager's finally).
Holding(c) == proc[c].cmd # "provision" /\ proc[c].at \in Points \ {"lock"}
End(c, result) ==
    /\ proc' = [proc EXCEPT ![c] = Ended(proc[c].cmd, result)]
    /\ lock' = IF Holding(c) THEN Free ELSE lock

\* An error: an installation that has begun to write rolls back, any other
\* command ends.  Provisioning tries again from the listing, or ends.
Raise(c) ==
    \/ /\ proc[c].at \in {"get", "put", "verify", "active", "plansAgain",
                          "partsAgain"}
       /\ ~proc[c].undo
       /\ Goto(c, "partial")
       /\ UNCHANGED lock
    \/ /\ \/ proc[c].undo
          \/ proc[c].at \notin {"get", "put", "verify", "active", "plansAgain",
                                "partsAgain"}
       /\ End(c, "failed")

\* A component is written: an ETag that was read before matches no longer.
Write(path, version) ==
    /\ config' = [config EXCEPT ![path] = version]
    /\ late' = {r \in late : r.path = path => ~r.etag}

Stale(path) ==
    [d \in Consoles |-> IF At(d, "put") /\ Step(d).path = path
                        THEN [proc[d] EXCEPT !.fresh = FALSE] ELSE proc[d]]

-----------------------------------------------------------------------------
(* install and remove: the lock, the state file and the checks.            *)

Start(c) ==
    /\ proc[c].at \in Ends
    /\ \E cmd \in Menu[c] :
          proc' = [proc EXCEPT ![c] =
             Ended(cmd, IF cmd = "provision" THEN "list" ELSE "lock")]
    /\ UNCHANGED <<config, file, lock, late, edits>>

\* Mutation of Lock: an existing lock file is replaced.
LockReplaced(c) ==
    /\ At(c, "lock")
    /\ lock' = c
    /\ Goto(c, "readState")
    /\ UNCHANGED <<config, file, late, edits>>

\* The lock file is created exclusively; if it is there the command ends.
Lock(c) ==
    /\ At(c, "lock")
    /\ IF lock = Free THEN lock' = c /\ Goto(c, "readState")
                      ELSE End(c, "failed")
    /\ UNCHANGED <<config, file, late, edits>>

ReadState(c) ==
    /\ At(c, "readState")
    /\ Goto(c, CASE proc[c].cmd = "remove" /\ file = NoFile  -> "orphans"
                 [] proc[c].cmd = "remove" /\ file # NoFile  -> "removing"
                 [] proc[c].cmd = "install" /\ file = NoFile -> "plans"
                 [] OTHER                                    -> "plansNow")
    /\ UNCHANGED <<config, file, lock, late, edits>>

\* The listing of the plans: the anchor as it is now is the original; the
\* dedicated plan must not overlap with another one.
FindPlans(c) ==
    /\ At(c, "plans")
    /\ IF config["anchor"] = Absent
       THEN Raise(c)
       ELSE /\ proc' = [proc EXCEPT ![c].found = config["anchor"],
                                    ![c].at = "absent"]
            /\ UNCHANGED lock
    /\ UNCHANGED <<config, file, late, edits>>

\* Components that exist without a state file are not replaced.
CheckAbsent(c) ==
    /\ At(c, "absent")
    /\ IF config[InstallSteps[proc[c].step].path] # Absent THEN Raise(c)
       ELSE /\ proc' = [proc EXCEPT ![c].step = 3 - @,
                          ![c].at = IF proc[c].step = 1 THEN "absent" ELSE "save"]
            /\ UNCHANGED lock
    /\ UNCHANGED <<config, file, late, edits>>

\* save_incident_state before the first request, atomically.
Save(c) ==
    /\ At(c, "save")
    /\ file' = [phase |-> "prepared", original |-> proc[c].found]
    /\ proc' = [proc EXCEPT ![c].at = "get", ![c].found = Absent]
    /\ UNCHANGED <<config, lock, late, edits>>

\* ... and whenever the phase changes.
SavePhase(c) ==
    /\ \/ At(c, "active") /\ file' = [file EXCEPT !.phase = "active"]
                          /\ Goto(c, "plansAgain")
       \/ At(c, "partial") /\ file' = [file EXCEPT !.phase = "partial"]
                           /\ proc' = [proc EXCEPT ![c].at = "get",
                                         ![c].undo = TRUE, ![c].step = 1,
                                         ![c].etag = FALSE, ![c].fresh = FALSE]
       \/ At(c, "removing") /\ file' = [file EXCEPT !.phase = "removing"]
                            /\ proc' = [proc EXCEPT ![c].at = "get",
                                          ![c].undo = TRUE]
    /\ UNCHANGED <<config, lock, late, edits>>

\* Everything is undone: the state file goes last.
Unlink(c) ==
    /\ At(c, "unlink")
    /\ file' = NoFile
    /\ End(c, IF proc[c].cmd = "remove" THEN "ok" ELSE "failed")
    /\ UNCHANGED <<config, late, edits>>

\* remove without a state file: unowned components are left alone.
Orphans(c) ==
    /\ At(c, "orphans")
    /\ End(c, IF config["workflow"] = Absent /\ config["agent"] = Absent
              THEN "ok" ELSE "failed")
    /\ UNCHANGED <<config, file, late, edits>>

\* incident_workflow_status, first the plans of one listing ...
StatusPlans(c) ==
    /\ \/ At(c, "plansNow")
       \/ At(c, "plansAgain")
    /\ proc' = [proc EXCEPT
          ![c].matches = file.phase = "active" /\ config["anchor"] = Partitioned,
          ![c].at = IF @ = "plansNow" THEN "partsNow" ELSE "partsAgain"]
    /\ UNCHANGED <<config, file, lock, late, edits>>

\* ... then the components: the command succeeds if everything matches.
StatusParts(c) ==
    /\ \/ At(c, "partsNow")
       \/ At(c, "partsAgain")
    /\ IF proc[c].matches /\ config["workflow"] = On /\ config["agent"] = On
       THEN End(c, "ok") ELSE Raise(c)
    /\ UNCHANGED <<config, file, late, edits>>

-----------------------------------------------------------------------------
(* The guarded requests: GET, compare, PUT or DELETE with If-Match, read   *)
(* back.                                                                   *)

\* Whether the answer of a GET has an ETag: a component that is not there has
\* none, and one that is there may come without (the code then takes None).
Tags(now) == IF now = Absent THEN {FALSE} ELSE BOOLEAN

\* Mutation of Get: a component that is not what it should be is skipped.
GetLenient(c) ==
    /\ At(c, "get")
    /\ LET now == config[Step(c).path]
       IN \E tag \in Tags(now) :
             proc' = IF now \in Step(c).from /\ now # Step(c).to
                     THEN [proc EXCEPT ![c].at = "put", ![c].fresh = TRUE,
                                       ![c].etag = tag]
                     ELSE [proc EXCEPT ![c] = Onward(c)]
    /\ UNCHANGED <<config, file, lock, late, edits>>

\* Nothing to do when it is as desired; disabling is also skipped when the
\* plan is off or gone, whatever else was changed in it.  (The installer
\* reads the plan twice there, with the same outcomes.)
Get(c) ==
    /\ At(c, "get")
    /\ LET now  == config[Step(c).path]
           done == \/ now = Step(c).to
                   \/ proc[c].undo /\ proc[c].step = 1 /\ ~now.on
       IN IF done THEN proc' = [proc EXCEPT ![c] = Onward(c)] /\ UNCHANGED lock
          ELSE IF now \in Step(c).from
          THEN /\ \E tag \in Tags(now) :
                     proc' = [proc EXCEPT ![c].at = "put", ![c].fresh = TRUE,
                                          ![c].etag = tag]
               /\ UNCHANGED lock
          ELSE Raise(c)
    /\ UNCHANGED <<config, file, late, edits>>

\* Mutation of Matched: the request carries no If-Match.
MatchedAlways(c) == TRUE

\* The service accepts the request: it has no ETag, or the ETag still holds.
\* A DELETE of what is gone (404) counts as done.
Matched(c) ==
    \/ ~proc[c].etag
    \/ proc[c].fresh
    \/ Step(c).to = Absent /\ config[Step(c).path] = Absent

\* What the service may make of it: it may drop the anchor's title filter.
Stored(step) == {step.to} \cup (IF step.path = "anchor"
                                THEN {[step.to EXCEPT !.on = FALSE]} ELSE {})

\* The request succeeds, or the ETag no longer matches.
Put(c) ==
    /\ At(c, "put")
    /\ IF Matched(c)
       THEN \E version \in Stored(Step(c)) :
               /\ Write(Step(c).path, version)
               /\ proc' = [Stale(Step(c).path) EXCEPT ![c].at = "verify"]
               /\ UNCHANGED lock
       ELSE Raise(c) /\ UNCHANGED <<config, late>>
    /\ UNCHANGED <<file, edits>>

\* The answer is lost although the request was applied, or still will be:
\* an installation rolls back, anything else ends.
Postpone(path, to, etag) ==
    /\ Delays
    /\ late = {}
    /\ late' = {[path |-> path, to |-> to, etag |-> etag]}
    /\ UNCHANGED config

PutUnanswered(c) ==
    /\ At(c, "put")
    /\ Matched(c)
    /\ \/ Write(Step(c).path, Step(c).to)
       \/ Postpone(Step(c).path, Step(c).to, proc[c].etag)
    /\ IF proc[c].undo
       THEN /\ proc' = [Stale(Step(c).path) EXCEPT
                           ![c] = Ended(proc[c].cmd, "failed")]
            /\ lock' = Free
       ELSE /\ proc' = [Stale(Step(c).path) EXCEPT ![c].at = "partial"]
            /\ UNCHANGED lock
    /\ UNCHANGED <<file, edits>>

\* Mutation of Verify: the component is not read back.
VerifyNothing(c) ==
    /\ At(c, "verify")
    /\ proc' = [proc EXCEPT ![c] = Onward(c)]
    /\ UNCHANGED <<config, file, lock, late, edits>>

\* The component is read back, repeatedly: it is as desired, or attempts
\* run out.
Verify(c) ==
    /\ At(c, "verify")
    /\ IF config[Step(c).path] = Step(c).to
       THEN proc' = [proc EXCEPT ![c] = Onward(c)] /\ UNCHANGED lock
       ELSE Raise(c)
    /\ UNCHANGED <<config, file, late, edits>>

-----------------------------------------------------------------------------
(* ensure_sre_response_plan: no lock, no ETag, several attempts.           *)

\* With a state file or a dedicated plan, the status decides; without, the
\* anchor is created or replaced.
ListPlans(c) ==
    /\ At(c, "list")
    /\ Goto(c, IF file # NoFile \/ config["workflow"] # Absent
               THEN "plansNow" ELSE "create")
    /\ UNCHANGED <<config, file, lock, late, edits>>

CreateAnchor(c) ==
    /\ At(c, "create")
    /\ \/ Write("anchor", Off) /\ proc' = [Stale("anchor") EXCEPT ![c].at = "confirm"]
       \/ Write("anchor", Off) /\ proc' = [Stale("anchor") EXCEPT ![c].at = "list"]
       \/ Postpone("anchor", Off, FALSE) /\ Goto(c, "list")
    /\ UNCHANGED <<file, lock, edits>>

\* The plan must be in the listing; which filter it has is not looked at.
ConfirmAnchor(c) ==
    /\ At(c, "confirm")
    /\ Goto(c, IF config["anchor"] # Absent THEN "ok" ELSE "list")
    /\ UNCHANGED <<config, file, lock, late, edits>>

-----------------------------------------------------------------------------
(* Failures, the operator and the service.                                 *)

\* A request is refused or not answered, or a file cannot be written.
\* Provisioning lists again, or has used its attempts.
Fail(c) ==
    /\ proc[c].at \in Points \ {"lock"}
    /\ \/ proc[c].cmd = "provision" /\ Goto(c, "list") /\ UNCHANGED lock
       \/ Raise(c)
    /\ UNCHANGED <<config, file, late, edits>>

\* The process is killed: its lock file stays ...
Kill(c) ==
    /\ proc[c].at \in Points
    /\ proc' = [proc EXCEPT ![c] = Ended(proc[c].cmd, "failed")]
    /\ UNCHANGED <<config, file, lock, late, edits>>

\* ... until the operator, who checked the recorded process, removes it.
RemoveStaleLock ==
    /\ lock # Free
    /\ ~Holding(lock)
    /\ lock' = Free
    /\ UNCHANGED <<config, file, proc, late, edits>>

\* The request that timed out is applied after all.
LateApplied ==
    /\ \E r \in late : /\ config' = [config EXCEPT ![r.path] = r.to]
                       /\ proc' = Stale(r.path)
    /\ late' = {}
    /\ UNCHANGED <<file, lock, edits>>

\* Someone edits a component in the portal.
PortalEdit ==
    /\ edits < MaxEdits
    /\ edits' = edits + 1
    /\ \E path \in {p \in Paths : config[p] # Absent} :
          /\ Write(path, [config[path] EXCEPT !.base = "edited"])
          /\ proc' = Stale(path)
    /\ UNCHANGED <<file, lock>>

Command(c) ==
    \/ Start(c) \/ Lock(c) \/ ReadState(c) \/ FindPlans(c) \/ CheckAbsent(c)
    \/ Save(c) \/ SavePhase(c) \/ Unlink(c) \/ Orphans(c)
    \/ StatusPlans(c) \/ StatusParts(c)
    \/ Get(c) \/ Put(c) \/ PutUnanswered(c) \/ Verify(c)
    \/ ListPlans(c) \/ CreateAnchor(c) \/ ConfirmAnchor(c)
    \/ Fail(c) \/ Kill(c)

Next ==
    \/ \E c \in Consoles : Command(c)
    \/ RemoveStaleLock
    \/ LateApplied
    \/ PortalEdit

Spec == Init /\ [][Next]_vars

-----------------------------------------------------------------------------
(* The type invariant: components, the state file, the lock, the commands  *)
(* and a request in flight have the values listed above.                   *)
TypeOK ==
    /\ config \in [Paths -> Versions \cup {Absent}]
    /\ file \in Files \cup {NoFile}
    /\ lock \in Consoles \cup {Free}
    /\ proc \in [Consoles -> Procs]
    /\ late \in SUBSET [path : Paths, to : Versions \cup {Absent}, etag : BOOLEAN]
    /\ edits \in 0..MaxEdits

(* No alert matches both plans: the dedicated plan is never enabled while  *)
(* the original plan has no title filter, whatever fails, is killed or is  *)
(* edited on the way (the order of ensure_incident_workflow's requests and *)
(* of remove_incident_components').                                        *)
NoOverlap == ~(config["workflow"].on /\ ~config["anchor"].on)

(* What is needed to undo the installation outlives everything that was    *)
(* installed: without a state file no component of the workflow is left    *)
(* and the original plan is unfiltered (save_incident_state comes before   *)
(* the first request, unlink after the last).                              *)
NothingLeftBehind ==
    file = NoFile => /\ config["agent"] = Absent
                     /\ config["workflow"] = Absent
                     /\ ~config["anchor"].on

(* A state file in phase "active" tells the truth about the routing: the   *)
(* filter is set and the dedicated plan with its agent is there, enabled.  *)
ActiveMeansRouted ==
    file.phase = "active" => /\ config["anchor"].on
                             /\ config["workflow"].on
                             /\ config["agent"].on

(* An edit made in the portal can only be lost in one way: the GET of a    *)
(* component that exists was answered without an ETag, the edit came after *)
(* that GET, and the PUT or DELETE it precedes was therefore               *)
(* unconditional.  Edits made before the GET are seen by the comparison,   *)
(* those after a GET with an ETag are met by If-Match, and what a creation *)
(* writes was not there to be edited (incident_guarded_put, the deletions  *)
(* of remove_incident_components and sre_agent_request).                   *)
Unguarded(c, p) ==
    /\ At(c, "put") /\ proc'[c].at # "put"
    /\ Step(c).path = p /\ Absent \notin Step(c).from
    /\ ~proc[c].etag /\ ~proc[c].fresh

EditsKept ==
    [][\A p \in Paths :
          config[p].base = "edited" /\ config'[p].base # "edited" =>
             \E c \in Consoles : Unguarded(c, p)]_vars

(* Install and remove never run together, although the lock file of a      *)
(* killed command is removed by hand: who works holds the lock.            *)
OneAtATime == \A c \in Consoles : Holding(c) => lock = c

(* The original plan in the state file is never replaced by a later one    *)
(* while it is needed (an installation never snapshots a filtered plan     *)
(* over the original).                                                     *)
SnapshotKept ==
    [][file # NoFile /\ file' # NoFile => file'.original = file.original]_vars
=============================================================================
