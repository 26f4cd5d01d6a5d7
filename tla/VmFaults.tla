------------------------------ MODULE VmFaults ------------------------------
(***************************************************************************)
(* scripts/vm/faults.py running as a VM Run Command, and what it acts on:  *)
(* the orders-api process with its Npgsql pool, the CPU-pressure unit and  *)
(* the network security group (NSG) in front of PostgreSQL.                *)
(*                                                                         *)
(* `access` is the rule Azure Resource Manager reads back, `enforced` the  *)
(* rule the data plane applies to NEW connections: it follows later, and   *)
(* never touches an established flow.  `pooled` says that the current      *)
(* orders-api process holds such a flow.  A process ID is abstracted to    *)
(* what faults.py asks of it: `fresh`, the process was started after the   *)
(* running command read the previous process ID.                           *)
(*                                                                         *)
(* Azure runs one command at a time on a VM.  `job` is that command; its   *)
(* owner is the operation whose request ID its output carries, or Nobody   *)
(* once that operation has stopped waiting (the command goes on).          *)
(***************************************************************************)
CONSTANTS Operators,   \* the consoles from which fault actions are run
          Nobody       \* the owner of a command nobody waits for any more

ASSUME NobodyAssumption == Nobody \notin Operators

VARIABLES access, enforced, pooled, fresh, cpu, job

network == <<access, enforced>>
process == <<pooled, fresh>>
vmVars  == <<enforced, pooled, fresh, cpu, job>>

Access   == {"Allow", "Deny"}
Units    == {"inactive", "active"}
Commands == {"cpu", "status", "reset", "postgresql-denied",
             "postgresql-ready", "postgresql-status"}
Recycles == {"postgresql-denied", "postgresql-ready"}

\* One HTTP probe: no answer yet, 200, or 503 "Orders database unavailable".
Codes == {0, 200, 503}

NoJob == [owner |-> Nobody, cmd |-> "none", phase |-> "none",
          ready |-> 0, orders |-> 0, unit |-> "inactive"]

\* A command Azure has just accepted.
NewJob(owner, cmd) == [NoJob EXCEPT !.owner = owner, !.cmd = cmd,
                                    !.phase = "start"]

Phases == {"start", "restart", "ready", "orders", "check", "again", "verify",
           "ok", "error"}

Jobs == [owner  : Operators \cup {Nobody},
         cmd    : Commands,
         phase  : Phases,
         ready  : Codes,
         orders : Codes,
         unit   : Units]

Running(phase) == job # NoJob /\ job.phase = phase

\* What database_status() concludes from the two probes.
Connectivity(j) ==
    CASE j.ready = 200 /\ j.orders = 200 -> "ready"
      [] j.ready = 503 /\ j.orders = 503 -> "unavailable"
      [] OTHER                           -> "inconsistent"

Expected(cmd) == IF cmd = "postgresql-denied" THEN "unavailable" ELSE "ready"

VmInit ==
    /\ access = "Allow" /\ enforced = "Allow"
    /\ pooled \in BOOLEAN
    /\ fresh = FALSE
    /\ cpu = "inactive"
    /\ job = NoJob

-----------------------------------------------------------------------------
(* main() of faults.py, one step per call it makes.                        *)

\* The command succeeds.  Its result says what it has just read of the CPU
\* unit: every result of faults.py includes cpu_status().
Done(unit) == job' = [job EXCEPT !.phase = "ok", !.unit = unit]

\* Reads the command; the CPU commands read the unit before acting on it,
\* the recycles read the previous process ID.  systemctl can fail.
JobStart ==
    /\ Running("start")
    /\ \/ /\ job.cmd = "status"
          /\ Done(cpu)
          /\ UNCHANGED <<cpu, fresh>>
       \/ /\ job.cmd = "reset"
          /\ cpu' = "inactive"
          /\ Done("inactive")
          /\ UNCHANGED fresh
       \/ /\ job.cmd = "cpu"
          /\ cpu' = "active"
          /\ job' = [job EXCEPT !.phase = IF cpu = "active" THEN "error"
                                                            ELSE "verify"]
          /\ UNCHANGED fresh
       \/ /\ job.cmd \in Recycles
          /\ fresh' = FALSE
          /\ job' = [job EXCEPT !.phase = "restart"]
          /\ UNCHANGED cpu
       \/ /\ job.cmd = "postgresql-status"
          /\ job' = [job EXCEPT !.phase = "ready"]
          /\ UNCHANGED <<cpu, fresh>>
       \/ /\ job' = [job EXCEPT !.phase = "error"]
          /\ UNCHANGED <<cpu, fresh>>
    /\ UNCHANGED <<enforced, pooled>>

\* start_cpu reads the unit again after systemd-run.
VerifyCpu ==
    /\ Running("verify")
    /\ IF cpu = "active" THEN Done(cpu) ELSE job' = [job EXCEPT !.phase = "error"]
    /\ UNCHANGED <<enforced, pooled, fresh, cpu>>

\* Mutation of RestartApi: the service is reloaded, not restarted, so the pool
\* of the old process survives.
ReloadApi ==
    /\ Running("restart")
    /\ fresh' = TRUE
    /\ job' = [job EXCEPT !.phase = "ready"]
    /\ UNCHANGED <<enforced, pooled, cpu>>

\* systemctl restart orders-api: the new process holds no connection.  Its
\* failure is not caught inside the loop and ends the command.
RestartApi ==
    /\ Running("restart")
    /\ \/ /\ pooled' = FALSE
          /\ fresh' = TRUE
          /\ job' = [job EXCEPT !.phase = "ready"]
       \/ /\ job' = [job EXCEPT !.phase = "error"]
          /\ UNCHANGED process
    /\ UNCHANGED <<enforced, cpu>>

\* A request succeeds over a pooled connection or over a new one, which stays
\* in the pool; under Deny it fails when it needs a new one.
Answers == (IF pooled \/ enforced = "Allow" THEN {200} ELSE {})
             \cup (IF enforced = "Deny" THEN {503} ELSE {})

\* A probe that times out or returns something else raises RuntimeError: the
\* recycle tries again, database_status alone gives up.
ProbeRaises == job' = [job EXCEPT !.phase =
                          IF job.cmd \in Recycles THEN "again" ELSE "error"]

ProbeReady ==
    /\ Running("ready")
    /\ \/ \E code \in Answers :
            /\ job' = [job EXCEPT !.phase = "orders", !.ready = code]
            /\ pooled' = IF code = 200 THEN TRUE ELSE pooled
       \/ ProbeRaises /\ UNCHANGED pooled
    /\ UNCHANGED <<enforced, fresh, cpu>>

ProbeOrders ==
    /\ Running("orders")
    /\ \/ \E code \in Answers :
            /\ job' = [job EXCEPT !.phase = "check", !.orders = code]
            /\ pooled' = IF code = 200 THEN TRUE ELSE pooled
       \/ ProbeRaises /\ UNCHANGED pooled
    /\ UNCHANGED <<enforced, fresh, cpu>>

\* Mutation of Accepted: any consistent pair of probes will do.
AcceptedAnyVerdict == Connectivity(job) # "inconsistent"

\* The CPU unit is read, then comes the verdict: consistent probes and, for a
\* recycle, the expected connectivity and a process that is not the previous one.
Accepted ==
    IF job.cmd \in Recycles
    THEN Connectivity(job) = Expected(job.cmd) /\ fresh
    ELSE Connectivity(job) # "inconsistent"

CheckProbes ==
    /\ Running("check")
    /\ IF Accepted THEN Done(cpu) ELSE ProbeRaises
    /\ UNCHANGED <<enforced, pooled, fresh, cpu>>

\* Time is left before the 150-second deadline: restart and probe again.
TryAgain ==
    /\ Running("again")
    /\ job' = [job EXCEPT !.phase = "restart", !.ready = 0, !.orders = 0]
    /\ UNCHANGED <<enforced, pooled, fresh, cpu>>

\* Mutation of DeadlinePasses: the retry loop has no deadline.
DeadlineIgnored ==
    /\ Running("again")
    /\ job' = [job EXCEPT !.phase = "again"]
    /\ UNCHANGED <<enforced, pooled, fresh, cpu>>

\* DATABASE_VERIFICATION_SECONDS have passed.
DeadlinePasses ==
    /\ Running("again")
    /\ job' = [job EXCEPT !.phase = "error"]
    /\ UNCHANGED <<enforced, pooled, fresh, cpu>>

\* A finished command nobody waits for leaves the VM free.
JobForgotten ==
    /\ job # NoJob
    /\ job.phase \in {"ok", "error"}
    /\ job.owner = Nobody
    /\ job' = NoJob
    /\ UNCHANGED <<enforced, pooled, fresh, cpu>>

JobStep ==
    \/ JobStart \/ VerifyCpu \/ RestartApi \/ ProbeReady \/ ProbeOrders
    \/ CheckProbes \/ TryAgain \/ DeadlinePasses \/ JobForgotten

-----------------------------------------------------------------------------
(* What happens on the VM and in the network by itself.                    *)

\* The data plane catches up with the rule.
Propagate ==
    /\ enforced # access
    /\ enforced' = access
    /\ UNCHANGED <<pooled, fresh, cpu, job>>

\* Customer traffic and the one-minute availability probe open a connection.
TrafficConnects ==
    /\ ~pooled /\ enforced = "Allow"
    /\ pooled' = TRUE
    /\ UNCHANGED <<enforced, fresh, cpu, job>>

\* The pool prunes idle connections, a broken one is discarded.
PoolDrains ==
    /\ pooled
    /\ pooled' = FALSE
    /\ UNCHANGED <<enforced, fresh, cpu, job>>

\* The process dies and systemd starts another one (Restart=always).
ApiCrashes ==
    /\ pooled' = FALSE
    /\ fresh' = TRUE
    /\ UNCHANGED <<enforced, cpu, job>>

\* RuntimeMaxSec, or the worker's own sleep, ends the CPU pressure.
CpuExpires ==
    /\ cpu = "active"
    /\ cpu' = "inactive"
    /\ UNCHANGED <<enforced, pooled, fresh, job>>

Environment ==
    Propagate \/ TrafficConnects \/ PoolDrains \/ ApiCrashes \/ CpuExpires

VmNext == JobStep \/ Environment
=============================================================================
