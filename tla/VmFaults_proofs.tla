-------------------------- MODULE VmFaults_proofs --------------------------
(***************************************************************************)
(* Lemmas on faults.py and its surroundings (VmFaults), shared by the      *)
(* proofs about the command line and about the site: types, and that what  *)
(* a recycle has observed shows what the data plane enforces.              *)
(***************************************************************************)
EXTENDS VmFaults, TLAPS

-----------------------------------------------------------------------------
(* Types.                                                                  *)

VmTypeOK ==
    /\ access \in Access /\ enforced \in Access
    /\ pooled \in BOOLEAN /\ fresh \in BOOLEAN
    /\ cpu \in {"inactive", "active"}
    /\ job \in Jobs \cup {NoJob}

\* Replacing a field of a command by a value of its kind gives a command.
LEMMA PhaseTyped ==
    ASSUME job \in Jobs, NEW phase \in Phases, NEW r \in Codes, NEW c \in Codes
    PROVE  /\ [job EXCEPT !.phase = phase] \in Jobs
           /\ [job EXCEPT !.phase = phase, !.ready = r] \in Jobs
           /\ [job EXCEPT !.phase = phase, !.orders = c] \in Jobs
           /\ [job EXCEPT !.phase = phase, !.ready = r, !.orders = c] \in Jobs
           /\ \A unit \in Units :
                 [job EXCEPT !.phase = phase, !.unit = unit] \in Jobs
  BY DEF Jobs

\* A command Azure has just accepted is one that has observed nothing.
LEMMA NewJobTyped ==
    ASSUME NEW owner \in Operators \cup {Nobody}, NEW cmd \in Commands
    PROVE  /\ NewJob(owner, cmd) \in Jobs
           /\ NewJob(owner, cmd).owner = owner /\ NewJob(owner, cmd).cmd = cmd
           /\ NewJob(owner, cmd).phase = "start"
           /\ NewJob(owner, cmd).ready = 0
  BY DEF NewJob, NoJob, Jobs, Phases, Codes, Units

\* A command that succeeds is still that command.
LEMMA DoneTyped ==
    ASSUME job \in Jobs, NEW unit \in Units, Done(unit)
    PROVE  /\ job' \in Jobs /\ job'.phase = "ok" /\ job'.unit = unit
           /\ job'.owner = job.owner /\ job'.cmd = job.cmd
           /\ job'.ready = job.ready
  BY DEF Done, Jobs, Phases

\* A step of faults.py keeps the types of what it writes.
LEMMA JobStepTypes ==
    ASSUME VmTypeOK, JobStep
    PROVE  /\ enforced' \in Access
           /\ pooled' \in BOOLEAN /\ fresh' \in BOOLEAN
           /\ cpu' \in {"inactive", "active"}
           /\ job' \in Jobs \cup {NoJob}
  <1>1. job \in Jobs
    BY DEF VmTypeOK, JobStep, JobStart, VerifyCpu, RestartApi, ProbeReady,
           ProbeOrders, CheckProbes, TryAgain, DeadlinePasses, JobForgotten,
           Running
  <1>2. \A phase \in Phases : [job EXCEPT !.phase = phase] \in Jobs
    BY <1>1 DEF Jobs
  <1>0. ASSUME NEW unit \in Units, Done(unit)
        PROVE  job' \in Jobs
    BY <1>0, <1>1, DoneTyped
  <1> USE DEF VmTypeOK, Units
  <1>3. CASE JobStart
    <2>1. CASE Done(cpu) \/ Done("inactive")
      BY <1>0, <1>3, <2>1 DEF JobStart
    <2> QED  BY <1>2, <1>3, <2>1 DEF JobStart, Phases
  <1>4. CASE VerifyCpu
    BY <1>0, <1>2, <1>4 DEF VerifyCpu, Phases
  <1>5. CASE RestartApi
    BY <1>2, <1>5 DEF RestartApi, process, Phases
  <1>6. CASE ProbeReady
    <2>1. Answers \subseteq Codes
      BY DEF Answers, Codes
    <2>2. CASE ProbeRaises /\ UNCHANGED pooled
      BY <1>2, <1>6, <2>2 DEF ProbeReady, ProbeRaises, Phases
    <2>3. ASSUME NEW code \in Answers,
                 job' = [job EXCEPT !.phase = "orders", !.ready = code],
                 pooled' = IF code = 200 THEN TRUE ELSE pooled
          PROVE  job' \in Jobs /\ pooled' \in BOOLEAN
      BY <1>1, <2>1, <2>3, PhaseTyped DEF Phases
    <2> QED
      BY <1>6, <2>2, <2>3 DEF ProbeReady
  <1>7. CASE ProbeOrders
    <2>1. Answers \subseteq Codes
      BY DEF Answers, Codes
    <2>2. CASE ProbeRaises /\ UNCHANGED pooled
      BY <1>2, <1>7, <2>2 DEF ProbeOrders, ProbeRaises, Phases
    <2>3. ASSUME NEW code \in Answers,
                 job' = [job EXCEPT !.phase = "check", !.orders = code],
                 pooled' = IF code = 200 THEN TRUE ELSE pooled
          PROVE  job' \in Jobs /\ pooled' \in BOOLEAN
      BY <1>1, <2>1, <2>3, PhaseTyped DEF Phases
    <2> QED
      BY <1>7, <2>2, <2>3 DEF ProbeOrders
  <1>8. CASE CheckProbes
    BY <1>0, <1>2, <1>8 DEF CheckProbes, ProbeRaises, Phases
  <1>9. CASE TryAgain
    BY <1>1, <1>9, PhaseTyped DEF TryAgain, Codes, Phases
  <1>10. CASE DeadlinePasses
    BY <1>2, <1>10 DEF DeadlinePasses, Phases
  <1>11. CASE JobForgotten
    BY <1>11 DEF JobForgotten
  <1> QED
    BY <1>3, <1>4, <1>5, <1>6, <1>7, <1>8, <1>9, <1>10, <1>11 DEF JobStep

\* So does what happens on the VM and in the network by itself.
LEMMA EnvironmentTypes ==
    ASSUME VmTypeOK, Environment
    PROVE  /\ enforced' \in Access
           /\ pooled' \in BOOLEAN /\ fresh' \in BOOLEAN
           /\ cpu' \in {"inactive", "active"}
           /\ job' = job
  BY DEF VmTypeOK, Environment, Propagate, TrafficConnects, PoolDrains,
         ApiCrashes, CpuExpires

-----------------------------------------------------------------------------
(* What a recycle observes.                                                *)

\* faults.py keeps its command and its request ID; forgetting a command
\* frees the VM.
LEMMA JobFrame ==
    ASSUME VmTypeOK, JobStep
    PROVE  /\ job \in Jobs
           /\ enforced' = enforced
           /\ \A p \in Operators : job'.owner = p =>
                 /\ job.owner = p /\ job'.cmd = job.cmd
                 /\ ~JobForgotten
  <1>1. job \in Jobs
    BY DEF VmTypeOK, JobStep, JobStart, VerifyCpu, RestartApi, ProbeReady,
           ProbeOrders, CheckProbes, TryAgain, DeadlinePasses, JobForgotten,
           Running
  <1>2. enforced' = enforced
    BY DEF JobStep, JobStart, VerifyCpu, RestartApi, ProbeReady, ProbeOrders,
           CheckProbes, TryAgain, DeadlinePasses, JobForgotten
  <1>3. CASE JobForgotten
    BY <1>1, <1>2, <1>3, NobodyAssumption DEF JobForgotten, NoJob
  <1>4. CASE ~JobForgotten
    BY <1>1, <1>2, <1>4
       DEF JobStep, JobStart, VerifyCpu, RestartApi, ProbeReady, ProbeOrders,
           CheckProbes, TryAgain, DeadlinePasses, ProbeRaises, Done, Jobs
  <1> QED
    BY <1>3, <1>4

\* A recycle accepts a verdict only if its readiness probe saw the expected
\* connectivity.
LEMMA AcceptedMeans ==
    ASSUME job \in Jobs, job.cmd \in Recycles, Accepted
    PROVE  job.ready = IF job.cmd = "postgresql-denied" THEN 503 ELSE 200
  BY DEF Accepted, Connectivity, Expected

\* What the running recycle has observed so far shows the data plane: under
\* Deny a 503, under Allow a 200 or a connection of the new process.
Observes ==
    /\ job.phase # "verify"
    /\ job.phase \in {"start", "restart", "ready"} => job.ready = 0
    /\ job.phase = "ok" =>
          job.ready = IF job.cmd = "postgresql-denied" THEN 503 ELSE 200
    /\ job.cmd = "postgresql-denied" /\ job.ready = 503 => enforced = "Deny"
    /\ /\ job.cmd = "postgresql-ready"
       /\ job.phase \in {"ready", "orders", "check", "ok"}
       /\ pooled \/ job.ready = 200
       => enforced = "Allow"

\* The rule a recycle is meant to see.
Wanted(cmd) == IF cmd = "postgresql-denied" THEN "Deny" ELSE "Allow"

\* A recycle that ends well has seen the data plane enforce that rule.
LEMMA ObservedEnforced ==
    ASSUME VmTypeOK, job.cmd \in Recycles, Observes, job.phase = "ok"
    PROVE  enforced = Wanted(job.cmd)
  BY DEF Observes, Recycles, Wanted

\* A step of faults.py keeps what its command has observed true.
LEMMA ObservesKept ==
    ASSUME VmTypeOK, JobStep, ~JobForgotten, job.cmd \in Recycles, Observes
    PROVE  Observes' /\ job'.cmd = job.cmd
  <1>1. job \in Jobs /\ enforced' = enforced
    BY JobFrame
  <1>2. job'.cmd = job.cmd
    BY <1>1 DEF JobStep, JobStart, VerifyCpu, RestartApi, ProbeReady,
                ProbeOrders, CheckProbes, TryAgain, DeadlinePasses,
                ProbeRaises, Done, Jobs
  <1>3. CASE JobStart
    BY <1>1, <1>2, <1>3 DEF JobStart, Running, Recycles, Jobs, Observes
  <1>4. CASE RestartApi
    BY <1>1, <1>2, <1>4 DEF RestartApi, Running, process, Jobs, Observes
  <1>5. CASE ProbeReady
    <2>1. CASE ProbeRaises /\ UNCHANGED pooled
      BY <1>1, <1>2, <1>5, <2>1
         DEF ProbeReady, ProbeRaises, Running, Jobs, Observes
    <2>2. ASSUME NEW code \in Answers,
                 job' = [job EXCEPT !.phase = "orders", !.ready = code],
                 pooled' = IF code = 200 THEN TRUE ELSE pooled
          PROVE  /\ job'.phase = "orders" /\ job'.ready = code
                 /\ code = 503 => enforced = "Deny"
                 /\ pooled' \/ code = 200 => pooled \/ enforced = "Allow"
      BY <1>1, <2>2 DEF Answers, Jobs
    <2>3. CASE ~(ProbeRaises /\ UNCHANGED pooled)
      <3>1. PICK code \in Answers :
               /\ job' = [job EXCEPT !.phase = "orders", !.ready = code]
               /\ pooled' = IF code = 200 THEN TRUE ELSE pooled
        BY <1>5, <2>3 DEF ProbeReady
      <3>2. /\ job'.phase = "orders" /\ job'.ready = code
            /\ code = 503 => enforced = "Deny"
            /\ pooled' \/ code = 200 => pooled \/ enforced = "Allow"
        BY <2>2, <3>1
      <3>3. job.phase = "ready"
        BY <1>5 DEF ProbeReady, Running
      <3> QED
        BY <1>1, <1>2, <3>2, <3>3 DEF Observes
    <2> QED
      BY <2>1, <2>3
  <1>6. CASE ProbeOrders
    <2>1. CASE ProbeRaises /\ UNCHANGED pooled
      BY <1>1, <1>2, <1>6, <2>1
         DEF ProbeOrders, ProbeRaises, Running, Jobs, Observes
    <2>2. ASSUME NEW code \in Answers,
                 job' = [job EXCEPT !.phase = "check", !.orders = code],
                 pooled' = IF code = 200 THEN TRUE ELSE pooled
          PROVE  /\ job'.phase = "check" /\ job'.ready = job.ready
                 /\ pooled' => pooled \/ enforced = "Allow"
      BY <1>1, <2>2 DEF Answers, Jobs
    <2>3. CASE ~(ProbeRaises /\ UNCHANGED pooled)
      <3>1. /\ job'.phase = "check" /\ job'.ready = job.ready
            /\ pooled' => pooled \/ enforced = "Allow"
        BY <1>6, <2>2, <2>3 DEF ProbeOrders
      <3>2. job.phase = "orders"
        BY <1>6 DEF ProbeOrders, Running
      <3> QED
        BY <1>1, <1>2, <3>1, <3>2 DEF Observes
    <2> QED
      BY <2>1, <2>3
  <1>7. CASE CheckProbes
    <2>1. CASE Accepted
      <3>1. /\ job'.phase = "ok" /\ job'.ready = job.ready /\ pooled' = pooled
            /\ job.phase = "check"
        BY <1>1, <1>7, <2>1 DEF CheckProbes, Running, Done, Jobs
      <3> QED
        BY <1>1, <1>2, <2>1, <3>1, AcceptedMeans DEF Observes
    <2>2. CASE ~Accepted
      BY <1>1, <1>2, <1>7, <2>2
         DEF CheckProbes, ProbeRaises, Running, Jobs, Observes
    <2> QED
      BY <2>1, <2>2
  <1>8. CASE TryAgain
    BY <1>1, <1>2, <1>8 DEF TryAgain, Running, Jobs, Observes
  <1>9. CASE DeadlinePasses
    BY <1>1, <1>2, <1>9 DEF DeadlinePasses, Running, Jobs, Observes
  <1>10. CASE VerifyCpu
    BY <1>10 DEF VerifyCpu, Running, Observes
  <1> QED
    BY <1>2, <1>3, <1>4, <1>5, <1>6, <1>7, <1>8, <1>9, <1>10 DEF JobStep

\* The CPU unit a successful command reports as inactive still is: nothing can
\* start it while the command holds the VM.
UnitRead == job.phase = "ok" /\ job.unit = "inactive" => cpu = "inactive"

\* No step on the VM or in the network changes that.
LEMMA UnitReadKept ==
    ASSUME VmTypeOK, UnitRead, JobStep \/ Environment
    PROVE  UnitRead'
  <1>1. CASE JobStep
    <2>1. job \in Jobs
      BY <1>1, JobFrame
    <2>2. CASE \E unit \in Units : Done(unit) /\ cpu' = unit
      BY <2>1, <2>2, DoneTyped DEF UnitRead
    <2>3. CASE job'.phase # "ok"
      BY <2>3 DEF UnitRead
    <2>4. ASSUME NEW phase \in Phases \ {"ok"}, job' = [job EXCEPT !.phase = phase]
          PROVE  job'.phase # "ok"
      BY <2>1, <2>4 DEF Jobs
    <2>5. CASE JobStart
      <3>1. \/ Done(cpu) /\ cpu' = cpu
            \/ Done("inactive") /\ cpu' = "inactive"
            \/ \E phase \in Phases \ {"ok"} : job' = [job EXCEPT !.phase = phase]
        BY <2>5 DEF JobStart, Phases
      <3>2. cpu \in Units /\ "inactive" \in Units
        BY DEF VmTypeOK, Units
      <3> QED  BY <2>2, <2>3, <2>4, <3>1, <3>2
    <2>6. CASE VerifyCpu \/ CheckProbes
      <3>1. \/ Done(cpu) /\ cpu' = cpu
            \/ \E phase \in Phases \ {"ok"} : job' = [job EXCEPT !.phase = phase]
        BY <2>6 DEF VerifyCpu, CheckProbes, ProbeRaises, Phases
      <3> QED  BY <2>2, <2>3, <2>4, <3>1 DEF VmTypeOK, Units
    <2>7. CASE RestartApi \/ DeadlinePasses
      <3>1. \E phase \in Phases \ {"ok"} : job' = [job EXCEPT !.phase = phase]
        BY <2>7 DEF RestartApi, DeadlinePasses, Phases
      <3> QED  BY <2>3, <2>4, <3>1
    <2>8. CASE ProbeReady \/ ProbeOrders \/ TryAgain \/ JobForgotten
      <3>1. CASE ProbeReady
        BY <2>1, <2>3, <3>1 DEF ProbeReady, ProbeRaises, Jobs
      <3>2. CASE ProbeOrders
        BY <2>1, <2>3, <3>2 DEF ProbeOrders, ProbeRaises, Jobs
      <3>3. CASE TryAgain
        BY <2>1, <2>3, <3>3 DEF TryAgain, Jobs
      <3>4. CASE JobForgotten
        BY <2>3, <3>4 DEF JobForgotten, NoJob
      <3> QED  BY <2>8, <3>1, <3>2, <3>3, <3>4
    <2> QED  BY <1>1, <2>5, <2>6, <2>7, <2>8 DEF JobStep
  <1>2. CASE Environment
    BY <1>2 DEF UnitRead, Environment, Propagate, TrafficConnects, PoolDrains,
                ApiCrashes, CpuExpires
  <1> QED  BY <1>1, <1>2

\* While the rule is the one a recycle wants to see, the data plane can only
\* turn to it, and connections are made only when it allows them.
LEMMA ObservesStands ==
    ASSUME VmTypeOK, Environment, Observes, job.cmd \in Recycles,
           access = Wanted(job.cmd)
    PROVE  Observes' /\ enforced' \in {enforced, access}
  <1>1. job' = job /\ enforced' \in {enforced, access}
    BY DEF Environment, Propagate, TrafficConnects, PoolDrains, ApiCrashes,
           CpuExpires
  <1>2. pooled' => (pooled /\ enforced' \in {enforced, access})
                     \/ enforced' = "Allow"
    BY <1>1 DEF Environment, Propagate, TrafficConnects, PoolDrains,
                ApiCrashes, CpuExpires
  <1> QED
    BY <1>1, <1>2 DEF Observes, Wanted, Recycles
=============================================================================
