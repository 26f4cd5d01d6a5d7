----------------------- MODULE IncidentWorkflow_proofs -----------------------
(***************************************************************************)
(* Proofs about IncidentWorkflow for any number of consoles and edits.     *)
(* With every command allowed and requests that time out and are applied   *)
(* later: types, the lock, and the snapshot of the original plan.  With    *)
(* requests that take effect before they time out or never: nothing is     *)
(* left behind; without provisioning as well: the routing of the alerts    *)
(* and the edits.                                                          *)
(***************************************************************************)
EXTENDS IncidentWorkflow, TLAPS

-----------------------------------------------------------------------------
(* The inductive invariant.                                                *)

\* The points of each command, and what it knows there.
Writing == {"get", "put", "verify"}

\* What the process of a console may be.
Fits(p) ==
    /\ p.at \in {"list", "create", "confirm"} => p.cmd = "provision"
    /\ p.at \in {"plansNow", "partsNow"} => p.cmd \in {"install", "provision"}
    /\ p.at \in {"lock", "readState"} => p.cmd \in {"install", "remove"}
    /\ p.at \in {"plans", "absent", "save", "active", "plansAgain",
                 "partsAgain", "partial"} => p.cmd = "install"
    /\ p.at \in {"orphans", "removing"} => p.cmd = "remove"
    /\ p.at \in Writing \cup {"unlink"} => p.cmd \in {"install", "remove"}
    /\ p.at \in Writing /\ p.cmd = "remove" => p.undo
    /\ p.at = "unlink" => p.undo
    /\ p.undo => p.at \in Writing \cup {"unlink"}
    /\ p.at \in {"lock", "readState", "plans", "save", "removing"} => p.step = 1
    /\ p.at = "absent" => p.step \in {1, 2}
    /\ p.at \in {"absent", "save"} => p.found \in Versions

\* Every command is somewhere it can be.
CommandsFit == \A c \in Consoles : Fits(proc[c])

\* The state file, seen from a command that holds the lock: it is written
\* before the first request, and there is none before.
Reads(c) ==
    /\ proc[c].at \in {"plans", "absent", "save"} => file = NoFile
    /\ proc[c].at \in Writing \cup {"active", "plansAgain", "partsAgain",
                                    "partial", "removing", "unlink"} =>
          file # NoFile

StateRead == \A c \in Consoles : Reads(c)

IInv == TypeOK /\ CommandsFit /\ OneAtATime /\ StateRead

\* How far an undoing has got, whatever provisioning does meanwhile: the filter
\* is seen to be gone, then the dedicated plan, then the agent.  What is undone
\* to is the plan that was found without a filter.
Undone(c) ==
    LET p == proc[c]
    IN  /\ p.at \in {"absent", "save"} => ~p.found.on
        /\ p.at \in Writing \cup {"unlink"} /\ p.undo =>
              /\ p.step \in {3, 4} => ~config["anchor"].on
              /\ p.step = 4 => config["workflow"] = Absent
        /\ p.at = "unlink" => p.step = 4 /\ config["agent"] = Absent

\* Without delays: nothing is left without a state file, and what the state
\* file keeps of the original plan has no filter.
Cleared ==
    /\ late = {}
    /\ file # NoFile => ~file.original.on
    /\ NothingLeftBehind

UInv == Cleared /\ \A c \in Consoles : Undone(c)

\* Installations and removals only, and no request that is applied later: the
\* rest needs both, as the findings show.
Alone == /\ ~Delays
         /\ \A c \in Consoles : "provision" \notin Menu[c]

\* How far the commands have got.  Installing: the dedicated plan is not
\* enabled before the filter is seen to be set; undoing: the filter is not
\* taken away before the plan is seen to be disabled.
Progress(c) ==
    LET p == proc[c]
    IN  /\ p.cmd # "provision"
        /\ p.at \in Writing /\ ~p.undo =>
              /\ file.phase = "prepared"
              /\ p.step \in {1, 2} => ~config["anchor"].on
              /\ p.step \in {1, 2, 3} => ~config["workflow"].on
              /\ p.step \in {2, 3, 4} => config["agent"].on
              /\ p.step = 4 => config["anchor"].on
        /\ p.at \in {"active", "plansAgain", "partsAgain"} =>
              /\ file.phase \in {"prepared", "active"}
              /\ config["anchor"].on /\ config["workflow"].on
              /\ config["agent"].on
        /\ p.at \in Writing \cup {"unlink"} /\ p.undo =>
              /\ file.phase \in {"partial", "removing"}
              /\ p.step \in {2, 3, 4} => ~config["workflow"].on
              /\ p.step \in {3, 4} => ~config["anchor"].on
              /\ p.step = 4 => config["workflow"] = Absent
        /\ p.at = "unlink" => p.step = 4 /\ config["agent"] = Absent
        /\ p.at = "save" => ~p.found.on
        /\ p.at = "absent" => ~p.found.on

\* A component that was not written since the GET is what was compared, and
\* one that is to be created is still absent: only its creator writes it.
Compared(c) ==
    At(c, "put") =>
        /\ proc[c].fresh => config[Step(c).path] \in Step(c).from
        /\ Absent \in Step(c).from => config[Step(c).path] = Absent

\* What EditsKept says of a step.
KeepsEdits ==
    \A p \in Paths : config[p].base = "edited" /\ config'[p].base # "edited" =>
                         \E c \in Consoles : Unguarded(c, p)

\* No request waits to be applied; the plans are routed as promised.
Routing ==
    /\ late = {}
    /\ file # NoFile => ~file.original.on
    /\ NoOverlap /\ NothingLeftBehind /\ ActiveMeansRouted

SInv ==
    /\ Routing
    /\ \A c \in Consoles : Progress(c) /\ Compared(c)

-----------------------------------------------------------------------------
(* Types, and where a command can be.                                      *)

\* Versions are what the operators below build.
LEMMA VersionsTyped ==
    /\ Absent \notin Versions /\ Off \in Versions /\ On \in Versions
    /\ ~Absent.on /\ ~Off.on /\ On.on
    /\ Absent.base = "none" /\ Off.base = "repo" /\ On.base = "repo"
    /\ \A v \in Versions : v # Absent /\ v.base \in {"repo", "edited"}
                           /\ v.on \in BOOLEAN
  BY DEF Absent, Off, On, Versions

\* A state file holds a plan; filtering it changes nothing else.
LEMMA FileTyped ==
    ASSUME TypeOK, file # NoFile
    PROVE  /\ file \in Files /\ file.original \in Versions
           /\ Partitioned \in Versions
           /\ Partitioned.base = file.original.base /\ Partitioned.on
  BY DEF TypeOK, Files, Partitioned, Versions

\* The requests of a command that has a state file.
LEMMA StepTyped ==
    ASSUME TypeOK, NEW c \in Consoles
    PROVE  /\ Step(c).path \in Paths
           /\ file # NoFile => Step(c).to \in Versions \cup {Absent}
  BY VersionsTyped, FileTyped
     DEF TypeOK, Procs, Step, InstallSteps, RemoveSteps, Paths

\* A console, after others have written: only its ETag may be spent.
Alike(q, p) ==
    /\ q.cmd = p.cmd /\ q.at = p.at /\ q.step = p.step /\ q.undo = p.undo
    /\ q.found = p.found /\ q.etag = p.etag
    /\ q.fresh => p.fresh

\* What is alike is where it can be.
LEMMA AlikeFits ==
    ASSUME NEW p, NEW q, Alike(q, p), Fits(p)
    PROVE  Fits(q)
  BY DEF Alike, Fits

\* After a write the consoles are alike, and no ETag of it holds.
LEMMA StaleAlike ==
    ASSUME TypeOK, NEW path
    PROVE  /\ Stale(path) \in [Consoles -> Procs]
           /\ \A d \in Consoles :
                 /\ Alike(Stale(path)[d], proc[d])
                 /\ At(d, "put") /\ Step(d).path = path => ~Stale(path)[d].fresh
  <1> SUFFICES ASSUME NEW d \in Consoles
               PROVE  /\ Stale(path)[d] \in Procs
                      /\ Alike(Stale(path)[d], proc[d])
                      /\ At(d, "put") /\ Step(d).path = path =>
                            ~Stale(path)[d].fresh
    BY DEF Stale
  <1>1. proc[d] \in Procs
    BY DEF TypeOK
  <1>2. Stale(path)[d] = IF At(d, "put") /\ Step(d).path = path
                         THEN [proc[d] EXCEPT !.fresh = FALSE] ELSE proc[d]
    BY DEF Stale
  <1>3. /\ [proc[d] EXCEPT !.fresh = FALSE] \in Procs
        /\ Alike([proc[d] EXCEPT !.fresh = FALSE], proc[d])
        /\ ~[proc[d] EXCEPT !.fresh = FALSE].fresh
    BY <1>1 DEF Procs, Alike
  <1>4. Alike(proc[d], proc[d])
    BY DEF Alike
  <1> QED  BY <1>1, <1>2, <1>3, <1>4

\* A command that has ended, or only begins.
LEMMA EndedTyped ==
    ASSUME NEW cmd \in Commands
    PROVE  /\ \A result \in Ends : /\ Ended(cmd, result) \in Procs
                                   /\ Fits(Ended(cmd, result))
           /\ Ended(cmd, "lock") \in Procs /\ Ended(cmd, "list") \in Procs
           /\ cmd # "provision" => Fits(Ended(cmd, "lock"))
           /\ cmd = "provision" => Fits(Ended(cmd, "list"))
           /\ \A at : /\ Ended(cmd, at).at = at /\ Ended(cmd, at).cmd = cmd
                      /\ ~Ended(cmd, at).undo /\ Ended(cmd, at).step = 1
  BY DEF Ended, Procs, Points, Ends, Fits, Writing, Commands, Absent

\* Only c moves; what it becomes.
Only(c) ==
    /\ proc' \in [Consoles -> Procs]
    /\ \A d \in Consoles : d # c => Alike(proc'[d], proc[d])

Becomes(c, cmd, at, step, undo, found) ==
    /\ Only(c)
    /\ proc'[c].cmd = cmd /\ proc'[c].at = at /\ proc'[c].step = step
    /\ proc'[c].undo = undo /\ proc'[c].found = found

\* One console moves.
LEMMA OneMoves ==
    ASSUME TypeOK, NEW c \in Consoles, NEW q \in Procs,
           proc' = [proc EXCEPT ![c] = q]
    PROVE  Becomes(c, q.cmd, q.at, q.step, q.undo, q.found)
           /\ proc'[c] = q
  BY DEF TypeOK, Becomes, Only, Alike

\* So does one that writes.
LEMMA OneWrites ==
    ASSUME TypeOK, NEW c \in Consoles, NEW path, NEW q \in Procs,
           proc' = [Stale(path) EXCEPT ![c] = q]
    PROVE  Becomes(c, q.cmd, q.at, q.step, q.undo, q.found)
           /\ proc'[c] = q
  BY StaleAlike DEF Becomes, Only, Alike

\* Going to another point.
LEMMA GotoMoves ==
    ASSUME TypeOK, NEW c \in Consoles, NEW point \in Points \cup Ends,
           Goto(c, point)
    PROVE  Becomes(c, proc[c].cmd, point, proc[c].step, proc[c].undo,
                   proc[c].found)
  <1> DEFINE q == [proc[c] EXCEPT !.at = point]
  <1>1. proc[c] \in Procs
    BY DEF TypeOK
  <1>2. /\ q \in Procs /\ q.at = point /\ q.cmd = proc[c].cmd
        /\ q.undo = proc[c].undo /\ q.step = proc[c].step
        /\ q.found = proc[c].found
    BY <1>1 DEF Procs
  <1>3. proc' = [proc EXCEPT ![c] = q]
    BY DEF Goto, TypeOK
  <1> HIDE DEF q
  <1>4. Becomes(c, q.cmd, q.at, q.step, q.undo, q.found)
    BY <1>2, <1>3, OneMoves
  <1> QED  BY <1>2, <1>4 DEF Becomes

\* Ending: the lock is given up.
Stops(c) ==
    /\ Only(c)
    /\ proc'[c].cmd = proc[c].cmd /\ proc'[c].at \in Ends /\ ~proc'[c].undo
    /\ lock' = IF Holding(c) THEN Free ELSE lock

\* Rolling back: an installation that fails while it writes or checks.
RollsBack(c) ==
    /\ Becomes(c, proc[c].cmd, "partial", proc[c].step, proc[c].undo,
               proc[c].found)
    /\ proc[c].at \in Writing \cup {"active", "plansAgain", "partsAgain"}
    /\ ~proc[c].undo
    /\ lock' = lock

\* Being replaced by a command that has ended, or begins.
LEMMA EndedMoves ==
    ASSUME TypeOK, NEW c \in Consoles, NEW cmd \in Commands,
           NEW at \in Ends \cup {"lock", "list"},
           proc' = [proc EXCEPT ![c] = Ended(cmd, at)]
    PROVE  Only(c) /\ proc'[c].cmd = cmd /\ proc'[c].at = at
           /\ ~proc'[c].undo /\ proc'[c].step = 1
  <1>1. Ended(cmd, at) \in Procs
    BY EndedTyped
  <1>2. Only(c) /\ proc'[c] = Ended(cmd, at)
    BY <1>1, OneMoves DEF Becomes
  <1> QED  BY <1>2, EndedTyped

\* What End does.
LEMMA EndMoves ==
    ASSUME TypeOK, NEW c \in Consoles, NEW result \in Ends, End(c, result)
    PROVE  Stops(c)
  <1>1. proc[c].cmd \in Commands
    BY DEF TypeOK, Procs
  <1>2. proc' = [proc EXCEPT ![c] = Ended(proc[c].cmd, result)]
    BY DEF End
  <1>3. /\ Ended(proc[c].cmd, result) \in Procs
        /\ ~Ended(proc[c].cmd, result).undo
        /\ Ended(proc[c].cmd, result).at = result
        /\ Ended(proc[c].cmd, result).cmd = proc[c].cmd
    BY <1>1, EndedTyped
  <1>4. Only(c) /\ proc'[c] = Ended(proc[c].cmd, result)
    BY <1>2, <1>3, OneMoves DEF Becomes
  <1> QED  BY <1>3, <1>4 DEF Stops, End

\* What Raise does.
LEMMA RaiseMoves ==
    ASSUME TypeOK, NEW c \in Consoles, Raise(c)
    PROVE  Stops(c) \/ RollsBack(c)
  <1>1. CASE End(c, "failed")
    BY <1>1, EndMoves DEF Ends
  <1>2. CASE /\ proc[c].at \in {"get", "put", "verify", "active", "plansAgain",
                                "partsAgain"}
             /\ ~proc[c].undo
             /\ Goto(c, "partial")
             /\ UNCHANGED lock
    BY <1>2, GotoMoves DEF RollsBack, Writing, Points
  <1> QED  BY <1>1, <1>2 DEF Raise

\* What Onward makes of a process.
LEMMA OnwardMoves ==
    ASSUME TypeOK, NEW c \in Consoles, proc' = [proc EXCEPT ![c] = Onward(c)]
    PROVE  IF proc[c].step < 4
           THEN Becomes(c, proc[c].cmd, "get", proc[c].step + 1, proc[c].undo,
                        proc[c].found)
           ELSE Becomes(c, proc[c].cmd,
                        IF proc[c].undo THEN "unlink" ELSE "active",
                        proc[c].step, proc[c].undo, proc[c].found)
  <1> DEFINE p == proc[c]
             q == Onward(c)
  <1>1. p \in Procs
    BY DEF TypeOK
  <1>2. /\ q \in Procs /\ q.cmd = p.cmd /\ q.undo = p.undo /\ q.found = p.found
        /\ q.at = IF p.step < 4 THEN "get"
                  ELSE IF p.undo THEN "unlink" ELSE "active"
        /\ q.step = IF p.step < 4 THEN p.step + 1 ELSE p.step
    <2>1. CASE p.step < 4
      <3> DEFINE r == [p EXCEPT !.step = p.step + 1, !.at = "get",
                                !.etag = FALSE, !.fresh = FALSE]
      <3>1. q = r
        BY <2>1, Zenon DEF Onward
      <3>2. /\ r \in Procs /\ r.cmd = p.cmd /\ r.undo = p.undo
            /\ r.found = p.found /\ r.at = "get" /\ r.step = p.step + 1
        <4> DEFINE n == p.step + 1
        <4>1. n \in 1..4
          BY <1>1, <2>1 DEF Procs
        <4> HIDE DEF n
        <4>2. r = [p EXCEPT !.step = n, !.at = "get", !.etag = FALSE,
                            !.fresh = FALSE]
          BY Zenon DEF n
        <4>3. /\ r \in Procs /\ r.cmd = p.cmd /\ r.undo = p.undo
              /\ r.found = p.found /\ r.at = "get" /\ r.step = n
          BY <1>1, <4>1, <4>2 DEF Procs, Points
        <4> QED  BY <4>3 DEF n
      <3> HIDE DEF r, q
      <3> QED  BY <2>1, <3>1, <3>2
    <2>2. CASE ~(p.step < 4) /\ p.undo
      <3> DEFINE r == [p EXCEPT !.at = "unlink", !.etag = FALSE, !.fresh = FALSE]
      <3>1. q = r
        BY <2>2, Zenon DEF Onward
      <3>2. /\ r \in Procs /\ r.cmd = p.cmd /\ r.undo = p.undo
            /\ r.found = p.found /\ r.at = "unlink" /\ r.step = p.step
        BY <1>1 DEF Procs, Points
      <3> HIDE DEF r, q
      <3> QED  BY <2>2, <3>1, <3>2
    <2>3. CASE ~(p.step < 4) /\ ~p.undo
      <3> DEFINE r == [p EXCEPT !.at = "active", !.etag = FALSE, !.fresh = FALSE]
      <3>1. q = r
        BY <2>3, Zenon DEF Onward
      <3>2. /\ r \in Procs /\ r.cmd = p.cmd /\ r.undo = p.undo
            /\ r.found = p.found /\ r.at = "active" /\ r.step = p.step
        BY <1>1 DEF Procs, Points
      <3> HIDE DEF r, q
      <3> QED  BY <2>3, <3>1, <3>2
    <2> QED  BY <2>1, <2>2, <2>3
  <1> HIDE DEF q
  <1>3. Becomes(c, q.cmd, q.at, q.step, q.undo, q.found)
    BY <1>2, OneMoves DEF q
  <1> QED  BY <1>2, <1>3 DEF Becomes
-----------------------------------------------------------------------------
(* What each step makes of the process that takes it.                      *)

\* c goes to a point, keeping the rest.
Passes(c, point) ==
    Becomes(c, proc[c].cmd, point, proc[c].step, proc[c].undo, proc[c].found)

\* Start: a command begins.
LEMMA StartMoves ==
    ASSUME TypeOK, MenuAssumption, NEW c \in Consoles, Start(c)
    PROVE  /\ Only(c) /\ proc[c].at \in Ends
           /\ proc'[c].cmd \in Menu[c] \cap Commands
           /\ proc'[c].at = IF proc'[c].cmd = "provision" THEN "list" ELSE "lock"
           /\ ~proc'[c].undo /\ proc'[c].step = 1
  <1>1. PICK cmd \in Menu[c] :
           proc' = [proc EXCEPT ![c] =
              Ended(cmd, IF cmd = "provision" THEN "list" ELSE "lock")]
    BY DEF Start
  <1> DEFINE at == IF cmd = "provision" THEN "list" ELSE "lock"
             q == Ended(cmd, at)
  <1>2. cmd \in Commands
    BY DEF MenuAssumption
  <1>3. /\ q \in Procs /\ q.at = at /\ q.cmd = cmd /\ ~q.undo /\ q.step = 1
    <2>1. CASE cmd = "provision"
      BY <1>2, <2>1, EndedTyped
    <2>2. CASE cmd # "provision"
      BY <1>2, <2>2, EndedTyped
    <2> QED  BY <2>1, <2>2
  <1>4. proc' = [proc EXCEPT ![c] = q]
    BY <1>1
  <1> HIDE DEF q
  <1>5. Only(c) /\ proc'[c] = q
    BY <1>3, <1>4, OneMoves DEF Becomes
  <1> QED  BY <1>2, <1>3, <1>5 DEF Start

\* Lock: the lock is taken, or the command ends.
LEMMA LockMoves ==
    ASSUME TypeOK, NEW c \in Consoles, Lock(c)
    PROVE  \/ Stops(c)
           \/ lock = Free /\ lock' = c /\ Passes(c, "readState")
  <1>1. CASE lock = Free
    BY <1>1, GotoMoves DEF Lock, Passes, Points
  <1>2. CASE lock # Free
    BY <1>2, EndMoves DEF Lock, Ends
  <1> QED  BY <1>1, <1>2

\* ReadState: the state file decides.
LEMMA ReadStateMoves ==
    ASSUME TypeOK, NEW c \in Consoles, ReadState(c), Fits(proc[c])
    PROVE  \/ Passes(c, "orphans") /\ proc[c].cmd = "remove"
           \/ Passes(c, "removing") /\ proc[c].cmd = "remove" /\ file # NoFile
           \/ Passes(c, "plans") /\ proc[c].cmd = "install" /\ file = NoFile
           \/ Passes(c, "plansNow") /\ proc[c].cmd = "install" /\ file # NoFile
  <1>1. proc[c].cmd \in {"install", "remove"}
    BY DEF ReadState, At, Fits
  <1>2. CASE proc[c].cmd = "remove" /\ file = NoFile
    <2>1. Goto(c, "orphans")
      BY <1>2 DEF ReadState
    <2> QED  BY <1>2, <2>1, GotoMoves DEF Passes, Points
  <1>3. CASE proc[c].cmd = "remove" /\ file # NoFile
    <2>1. Goto(c, "removing")
      BY <1>3 DEF ReadState
    <2> QED  BY <1>3, <2>1, GotoMoves DEF Passes, Points
  <1>4. CASE proc[c].cmd = "install" /\ file = NoFile
    <2>1. Goto(c, "plans")
      BY <1>4 DEF ReadState
    <2> QED  BY <1>4, <2>1, GotoMoves DEF Passes, Points
  <1>5. CASE proc[c].cmd = "install" /\ file # NoFile
    <2>1. Goto(c, "plansNow")
      BY <1>5 DEF ReadState
    <2> QED  BY <1>5, <2>1, GotoMoves DEF Passes, Points
  <1> QED  BY <1>1, <1>2, <1>3, <1>4, <1>5

\* FindPlans: the anchor is remembered.
LEMMA FindPlansMoves ==
    ASSUME TypeOK, NEW c \in Consoles, FindPlans(c)
    PROVE  \/ Stops(c) \/ RollsBack(c)
           \/ /\ config["anchor"] \in Versions /\ lock' = lock
              /\ Becomes(c, proc[c].cmd, "absent", proc[c].step, proc[c].undo,
                         config["anchor"])
  <1>1. CASE config["anchor"] = Absent
    BY <1>1, RaiseMoves DEF FindPlans
  <1>2. CASE config["anchor"] # Absent
    <2> DEFINE v == config["anchor"]
               q == [proc[c] EXCEPT !.found = v, !.at = "absent"]
    <2>1. v \in Versions
      BY <1>2 DEF TypeOK, Paths
    <2> HIDE DEF v
    <2>2. proc' = [proc EXCEPT ![c] = q] /\ lock' = lock
      BY <1>2 DEF FindPlans, TypeOK, v
    <2>3. /\ q \in Procs /\ q.at = "absent" /\ q.cmd = proc[c].cmd
          /\ q.undo = proc[c].undo /\ q.step = proc[c].step /\ q.found = v
      BY <2>1 DEF TypeOK, Procs, Points
    <2> HIDE DEF q
    <2>4. Becomes(c, q.cmd, q.at, q.step, q.undo, q.found)
      BY <2>2, <2>3, OneMoves
    <2> QED  BY <2>1, <2>2, <2>3, <2>4 DEF Becomes, v
  <1> QED  BY <1>1, <1>2

\* CheckAbsent: the custom agent first, then the dedicated plan.
LEMMA CheckAbsentMoves ==
    ASSUME TypeOK, NEW c \in Consoles, CheckAbsent(c), Fits(proc[c])
    PROVE  \/ Stops(c) \/ RollsBack(c)
           \/ /\ lock' = lock
              /\ \/ Becomes(c, proc[c].cmd, "absent", 2, proc[c].undo,
                            proc[c].found)
                 \/ Becomes(c, proc[c].cmd, "save", 1, proc[c].undo,
                            proc[c].found)
  <1> DEFINE p == proc[c]
             n == 3 - p.step
             at == IF p.step = 1 THEN "absent" ELSE "save"
             q == [p EXCEPT !.step = n, !.at = at]
  <1>1. p \in Procs /\ p.step \in {1, 2}
    BY DEF TypeOK, CheckAbsent, At, Fits
  <1>2. \/ p.step = 1 /\ n = 2 /\ at = "absent"
        \/ p.step = 2 /\ n = 1 /\ at = "save"
    BY <1>1
  <1>3. CASE config[InstallSteps[p.step].path] # Absent
    BY <1>3, RaiseMoves DEF CheckAbsent
  <1>4. CASE config[InstallSteps[p.step].path] = Absent
    <2>1. proc' = [proc EXCEPT ![c] = q] /\ lock' = lock
      BY <1>4 DEF CheckAbsent, TypeOK
    <2>2. n \in 1..4 /\ at \in Points
      BY <1>2 DEF Points
    <2> HIDE DEF n, at
    <2>3. /\ q \in Procs /\ q.at = at /\ q.cmd = p.cmd /\ q.undo = p.undo
          /\ q.step = n /\ q.found = p.found
      BY <1>1, <2>2 DEF Procs
    <2> HIDE DEF q
    <2>4. Becomes(c, q.cmd, q.at, q.step, q.undo, q.found)
      BY <2>1, <2>3, OneMoves
    <2>5. Becomes(c, p.cmd, at, n, p.undo, p.found)
      BY <2>3, <2>4 DEF Becomes
    <2> QED  BY <1>2, <2>1, <2>5
  <1> QED  BY <1>3, <1>4

\* Save: the first request is next.
LEMMA SaveMoves ==
    ASSUME TypeOK, NEW c \in Consoles, Save(c)
    PROVE  Becomes(c, proc[c].cmd, "get", proc[c].step, proc[c].undo, Absent)
  <1> DEFINE q == [proc[c] EXCEPT !.at = "get", !.found = Absent]
  <1>1. proc' = [proc EXCEPT ![c] = q]
    BY DEF Save, TypeOK
  <1>2. /\ q \in Procs /\ q.at = "get" /\ q.cmd = proc[c].cmd
        /\ q.undo = proc[c].undo /\ q.step = proc[c].step /\ q.found = Absent
    BY DEF TypeOK, Procs, Points
  <1> HIDE DEF q
  <1>3. Becomes(c, q.cmd, q.at, q.step, q.undo, q.found)
    BY <1>1, <1>2, OneMoves
  <1> QED  BY <1>2, <1>3 DEF Becomes

\* SavePhase: active after the last request; then, or when removing, undoing
\* begins at its first request.
LEMMA SavePhaseMoves ==
    ASSUME TypeOK, NEW c \in Consoles, SavePhase(c), Fits(proc[c])
    PROVE  \/ /\ At(c, "active") /\ Passes(c, "plansAgain")
              /\ file' = [file EXCEPT !.phase = "active"]
           \/ /\ At(c, "partial")
              /\ Becomes(c, proc[c].cmd, "get", 1, TRUE, proc[c].found)
              /\ file' = [file EXCEPT !.phase = "partial"]
           \/ /\ At(c, "removing")
              /\ Becomes(c, proc[c].cmd, "get", 1, TRUE, proc[c].found)
              /\ file' = [file EXCEPT !.phase = "removing"]
  <1> DEFINE p == proc[c]
  <1>1. p \in Procs
    BY DEF TypeOK
  <1>2. CASE At(c, "active")
    BY <1>2, GotoMoves DEF SavePhase, Passes, Points, At
  <1>3. CASE At(c, "partial")
    <2> DEFINE q == [p EXCEPT !.at = "get", !.undo = TRUE, !.step = 1,
                              !.etag = FALSE, !.fresh = FALSE]
    <2>1. proc' = [proc EXCEPT ![c] = q]
      BY <1>3 DEF SavePhase, TypeOK, At
    <2>2. /\ q \in Procs /\ q.at = "get" /\ q.cmd = p.cmd /\ q.undo = TRUE
          /\ q.step = 1 /\ q.found = p.found
      <3> DEFINE one == 1
                 yes == TRUE
      <3>1. one \in 1..4 /\ yes \in BOOLEAN
        OBVIOUS
      <3> HIDE DEF one, yes
      <3>2. q = [p EXCEPT !.at = "get", !.undo = yes, !.step = one,
                          !.etag = FALSE, !.fresh = FALSE]
        BY Zenon DEF one, yes
      <3>3. /\ q \in Procs /\ q.at = "get" /\ q.undo = yes /\ q.step = one
            /\ q.cmd = p.cmd /\ q.found = p.found
        BY <1>1, <3>1, <3>2 DEF Procs, Points
      <3> QED  BY <3>3 DEF one, yes
    <2> HIDE DEF q
    <2>3. Becomes(c, q.cmd, q.at, q.step, q.undo, q.found)
      BY <2>1, <2>2, OneMoves
    <2>4. Becomes(c, p.cmd, "get", 1, TRUE, p.found)
      BY <2>2, <2>3 DEF Becomes
    <2> QED  BY <1>3, <2>4 DEF SavePhase, At
  <1>4. CASE At(c, "removing")
    <2> DEFINE q == [p EXCEPT !.at = "get", !.undo = TRUE]
    <2>1. proc' = [proc EXCEPT ![c] = q]
      BY <1>4 DEF SavePhase, TypeOK, At
    <2>2. /\ q \in Procs /\ q.at = "get" /\ q.cmd = p.cmd /\ q.undo = TRUE
          /\ q.step = 1 /\ q.found = p.found
      <3>1. p.step = 1
        BY <1>4 DEF At, Fits
      <3> QED  BY <1>1, <3>1 DEF Procs, Points
    <2> HIDE DEF q
    <2>3. Becomes(c, q.cmd, q.at, q.step, q.undo, q.found)
      BY <2>1, <2>2, OneMoves
    <2>4. Becomes(c, p.cmd, "get", 1, TRUE, p.found)
      BY <2>2, <2>3 DEF Becomes
    <2> QED  BY <1>4, <2>4 DEF SavePhase, At
  <1> QED  BY <1>2, <1>3, <1>4 DEF SavePhase

\* Unlink and Orphans: the command ends.
LEMMA UnlinkMoves ==
    ASSUME TypeOK, NEW c \in Consoles, Unlink(c) \/ Orphans(c)
    PROVE  Stops(c)
  <1>1. CASE Unlink(c)
    <2> DEFINE r == IF proc[c].cmd = "remove" THEN "ok" ELSE "failed"
    <2>1. End(c, r) /\ r \in Ends
      BY <1>1 DEF Unlink, Ends
    <2> QED  BY <2>1, EndMoves
  <1>2. CASE Orphans(c)
    <2> DEFINE r == IF config["workflow"] = Absent /\ config["agent"] = Absent
                    THEN "ok" ELSE "failed"
    <2>1. End(c, r) /\ r \in Ends
      BY <1>2 DEF Orphans, Ends
    <2> QED  BY <2>1, EndMoves
  <1> QED  BY <1>1, <1>2

\* StatusPlans: the components are next.
LEMMA StatusPlansMoves ==
    ASSUME TypeOK, NEW c \in Consoles, StatusPlans(c)
    PROVE  \/ At(c, "plansNow") /\ Passes(c, "partsNow")
           \/ At(c, "plansAgain") /\ Passes(c, "partsAgain")
  <1> DEFINE p == proc[c]
             at == IF p.at = "plansNow" THEN "partsNow" ELSE "partsAgain"
             m == file.phase = "active" /\ config["anchor"] = Partitioned
             q == [p EXCEPT !.matches = m, !.at = at]
  <1>1. proc' = [proc EXCEPT ![c] = q]
    BY DEF StatusPlans, TypeOK
  <1>2. m \in BOOLEAN /\ at \in Points /\ p \in Procs
    BY DEF Points, TypeOK
  <1> HIDE DEF m, at
  <1>3. /\ q \in Procs /\ q.at = at /\ q.cmd = p.cmd
        /\ q.undo = p.undo /\ q.step = p.step /\ q.found = p.found
    BY <1>2 DEF Procs
  <1> HIDE DEF q
  <1>4. Becomes(c, q.cmd, q.at, q.step, q.undo, q.found)
    BY <1>1, <1>3, OneMoves
  <1>5. Passes(c, at)
    BY <1>3, <1>4 DEF Becomes, Passes
  <1> QED  BY <1>5 DEF StatusPlans, At, at

\* StatusParts: the command ends, or rolls back.
LEMMA StatusPartsMoves ==
    ASSUME TypeOK, NEW c \in Consoles, StatusParts(c)
    PROVE  Stops(c) \/ RollsBack(c)
  <1>1. End(c, "ok") \/ Raise(c)
    BY DEF StatusParts
  <1> QED  BY <1>1, EndMoves, RaiseMoves DEF Ends

\* The next request, or what follows the last one.
Advances(c) ==
    /\ lock' = lock
    /\ \/ /\ proc[c].step < 4
          /\ Becomes(c, proc[c].cmd, "get", proc[c].step + 1, proc[c].undo,
                     proc[c].found)
       \/ /\ proc[c].step = 4 /\ proc[c].undo
          /\ Passes(c, "unlink")
       \/ /\ proc[c].step = 4 /\ ~proc[c].undo
          /\ Passes(c, "active")

\* Onward advances.
LEMMA OnwardAdvances ==
    ASSUME TypeOK, NEW c \in Consoles, lock' = lock,
           proc' = [proc EXCEPT ![c] = Onward(c)]
    PROVE  Advances(c)
  <1>1. proc[c] \in Procs
    BY DEF TypeOK
  <1>2. proc[c].step < 4 \/ proc[c].step = 4
    BY <1>1 DEF Procs
  <1>3. CASE proc[c].step < 4
    BY <1>3, OnwardMoves DEF Advances
  <1>4. CASE proc[c].step = 4
    BY <1>4, OnwardMoves DEF Advances, Passes
  <1> QED  BY <1>2, <1>3, <1>4

\* Get: nothing to do, a request for what was compared, or an error.
LEMMA GetMoves ==
    ASSUME TypeOK, NEW c \in Consoles, Get(c)
    PROVE  \/ Stops(c) \/ RollsBack(c)
           \/ /\ \/ config[Step(c).path] = Step(c).to
                 \/ proc[c].undo /\ proc[c].step = 1 /\ ~config[Step(c).path].on
              /\ Advances(c)
           \/ /\ config[Step(c).path] \in Step(c).from
              /\ Passes(c, "put") /\ lock' = lock
  <1> DEFINE now == config[Step(c).path]
             done == \/ now = Step(c).to
                     \/ proc[c].undo /\ proc[c].step = 1 /\ ~now.on
             q(tag) == [proc[c] EXCEPT !.at = "put", !.fresh = TRUE,
                                       !.etag = tag]
  <1>1. CASE done
    <2>1. proc' = [proc EXCEPT ![c] = Onward(c)] /\ lock' = lock
      BY <1>1 DEF Get
    <2> QED  BY <1>1, <2>1, OnwardAdvances
  <1>2. CASE ~done /\ now \notin Step(c).from
    <2>1. Raise(c)
      BY <1>2 DEF Get
    <2> QED  BY <2>1, RaiseMoves
  <1>3. CASE ~done /\ now \in Step(c).from
    <2>1. PICK tag \in BOOLEAN :
             proc' = [proc EXCEPT ![c] = q(tag)] /\ lock' = lock
      BY <1>3 DEF Get, TypeOK, Tags
    <2>2. proc[c] \in Procs
      BY DEF TypeOK
    <2> DEFINE r == q(tag)
    <2>3. /\ r \in Procs /\ r.at = "put" /\ r.cmd = proc[c].cmd
          /\ r.undo = proc[c].undo /\ r.step = proc[c].step
          /\ r.found = proc[c].found
      BY <2>2 DEF Procs, Points
    <2>4. proc' = [proc EXCEPT ![c] = r]
      BY <2>1
    <2> HIDE DEF r
    <2>5. Becomes(c, r.cmd, r.at, r.step, r.undo, r.found)
      BY <2>3, <2>4, OneMoves
    <2>6. Passes(c, "put")
      BY <2>3, <2>5 DEF Becomes, Passes
    <2> QED  BY <1>3, <2>1, <2>6
  <1> QED  BY <1>1, <1>2, <1>3

\* Verify: as desired, or an error.
LEMMA VerifyMoves ==
    ASSUME TypeOK, NEW c \in Consoles, Verify(c)
    PROVE  \/ Stops(c) \/ RollsBack(c)
           \/ config[Step(c).path] = Step(c).to /\ Advances(c)
  BY OnwardAdvances, RaiseMoves DEF Verify

\* Put: the component is written, or an error.
LEMMA PutMoves ==
    ASSUME TypeOK, NEW c \in Consoles, Put(c)
    PROVE  \/ (Stops(c) \/ RollsBack(c)) /\ UNCHANGED <<config, late>>
           \/ /\ Passes(c, "verify") /\ lock' = lock /\ Matched(c)
              /\ \E version \in Stored(Step(c)) : Write(Step(c).path, version)
              /\ \A d \in Consoles \ {c} :
                    At(d, "put") /\ Step(d).path = Step(c).path =>
                       ~proc'[d].fresh
  <1>1. CASE ~Matched(c)
    BY <1>1, RaiseMoves DEF Put
  <1>2. CASE Matched(c)
    <2> DEFINE s == Stale(Step(c).path)
               q == [s[c] EXCEPT !.at = "verify"]
    <2>1. PICK version \in Stored(Step(c)) :
             /\ Write(Step(c).path, version)
             /\ proc' = [s EXCEPT ![c].at = "verify"] /\ lock' = lock
      BY <1>2 DEF Put
    <2>2. /\ s \in [Consoles -> Procs] /\ Alike(s[c], proc[c])
          /\ \A d \in Consoles : At(d, "put") /\ Step(d).path = Step(c).path =>
                                    ~s[d].fresh
      BY StaleAlike
    <2> HIDE DEF s
    <2>3. proc' = [s EXCEPT ![c] = q]
      BY <2>1, <2>2
    <2>4. /\ q \in Procs /\ q.at = "verify" /\ q.cmd = proc[c].cmd
          /\ q.undo = proc[c].undo /\ q.step = proc[c].step
          /\ q.found = proc[c].found
      BY <2>2 DEF Procs, Points, Alike
    <2> HIDE DEF q
    <2>5. Becomes(c, q.cmd, q.at, q.step, q.undo, q.found)
      BY <2>3, <2>4, OneWrites DEF s
    <2>6. \A d \in Consoles \ {c} : proc'[d] = s[d]
      BY <2>2, <2>3
    <2>7. Passes(c, "verify")
      BY <2>4, <2>5 DEF Becomes, Passes
    <2> QED  BY <1>2, <2>1, <2>2, <2>6, <2>7
  <1> QED  BY <1>1, <1>2

\* PutUnanswered: the component is written, or will be; the command ends or
\* rolls back.
LEMMA PutUnansweredMoves ==
    ASSUME TypeOK, NEW c \in Consoles, PutUnanswered(c)
    PROVE  /\ \/ /\ Only(c) /\ proc'[c].cmd = proc[c].cmd
                 /\ proc'[c].at = "failed" /\ ~proc'[c].undo /\ lock' = Free
              \/ Passes(c, "partial") /\ ~proc[c].undo /\ lock' = lock
           /\ \A d \in Consoles \ {c} :
                 At(d, "put") /\ Step(d).path = Step(c).path => ~proc'[d].fresh
  <1> DEFINE s == Stale(Step(c).path)
             q == [s[c] EXCEPT !.at = "partial"]
             e == Ended(proc[c].cmd, "failed")
  <1>1. /\ s \in [Consoles -> Procs] /\ Alike(s[c], proc[c])
        /\ \A d \in Consoles : At(d, "put") /\ Step(d).path = Step(c).path =>
                                  ~s[d].fresh
    BY StaleAlike
  <1>2. CASE proc[c].undo
    <2>1. proc' = [s EXCEPT ![c] = e] /\ lock' = Free
      BY <1>2 DEF PutUnanswered
    <2>2. e \in Procs /\ e.at = "failed" /\ e.cmd = proc[c].cmd /\ ~e.undo
      BY EndedTyped DEF TypeOK, Procs, Ends
    <2> HIDE DEF e
    <2>3. Only(c) /\ proc'[c] = e
      BY <2>1, <2>2, OneWrites DEF Becomes
    <2> HIDE DEF s
    <2>4. \A d \in Consoles \ {c} : proc'[d] = s[d]
      BY <1>1, <2>1
    <2> QED  BY <1>1, <2>1, <2>2, <2>3, <2>4
  <1>3. CASE ~proc[c].undo
    <2>1. proc' = [s EXCEPT ![c].at = "partial"] /\ lock' = lock
      BY <1>3 DEF PutUnanswered
    <2> HIDE DEF s
    <2>2. proc' = [s EXCEPT ![c] = q]
      BY <1>1, <2>1
    <2>3. /\ q \in Procs /\ q.at = "partial" /\ q.cmd = proc[c].cmd
          /\ q.undo = proc[c].undo /\ q.step = proc[c].step
          /\ q.found = proc[c].found
      BY <1>1 DEF Procs, Points, Alike
    <2> HIDE DEF q
    <2>4. Becomes(c, q.cmd, q.at, q.step, q.undo, q.found)
      BY <2>2, <2>3, OneWrites DEF s
    <2>5. Passes(c, "partial")
      BY <2>3, <2>4 DEF Becomes, Passes
    <2>6. \A d \in Consoles \ {c} : proc'[d] = s[d]
      BY <1>1, <2>2
    <2> QED  BY <1>1, <1>3, <2>1, <2>5, <2>6
  <1> QED  BY <1>2, <1>3

\* Provisioning: from one of its points to another, or done.
LEMMA ProvisionMoves ==
    ASSUME TypeOK, NEW c \in Consoles,
           ListPlans(c) \/ CreateAnchor(c) \/ ConfirmAnchor(c)
    PROVE  /\ proc[c].at \in {"list", "create", "confirm"} /\ lock' = lock
           /\ \E point \in {"list", "create", "confirm", "plansNow", "ok"} :
                 Passes(c, point)
  <1>1. CASE ListPlans(c)
    <2> DEFINE at == IF file # NoFile \/ config["workflow"] # Absent
                     THEN "plansNow" ELSE "create"
    <2>1. Goto(c, at) /\ at \in {"create", "plansNow"}
      BY <1>1 DEF ListPlans
    <2> HIDE DEF at
    <2>2. Passes(c, at)
      BY <2>1, GotoMoves DEF Passes, Points
    <2> QED  BY <1>1, <2>1, <2>2 DEF ListPlans, At
  <1>2. CASE ConfirmAnchor(c)
    <2> DEFINE at == IF config["anchor"] # Absent THEN "ok" ELSE "list"
    <2>1. Goto(c, at) /\ at \in {"ok", "list"}
      BY <1>2 DEF ConfirmAnchor
    <2> HIDE DEF at
    <2>2. Passes(c, at)
      BY <2>1, GotoMoves DEF Passes, Points, Ends
    <2> QED  BY <1>2, <2>1, <2>2 DEF ConfirmAnchor, At
  <1>3. CASE CreateAnchor(c)
    <2> DEFINE s == Stale("anchor")
    <2>1. s \in [Consoles -> Procs] /\ Alike(s[c], proc[c])
      BY StaleAlike
    <2>2. ASSUME NEW at \in {"confirm", "list"}, proc' = [s EXCEPT ![c].at = at]
          PROVE  Passes(c, at)
      <3> DEFINE q == [s[c] EXCEPT !.at = at]
      <3> HIDE DEF s
      <3>1. proc' = [s EXCEPT ![c] = q]
        BY <2>1, <2>2
      <3>2. /\ q \in Procs /\ q.at = at /\ q.cmd = proc[c].cmd
            /\ q.undo = proc[c].undo /\ q.step = proc[c].step
            /\ q.found = proc[c].found
        BY <2>1 DEF Procs, Points, Alike
      <3> HIDE DEF q
      <3>3. Becomes(c, q.cmd, q.at, q.step, q.undo, q.found)
        BY <3>1, <3>2, OneWrites DEF s
      <3> QED  BY <3>2, <3>3 DEF Becomes, Passes
    <2>3. CASE proc' = [s EXCEPT ![c].at = "confirm"]
      BY <1>3, <2>2, <2>3 DEF CreateAnchor, At
    <2>4. CASE proc' = [s EXCEPT ![c].at = "list"]
      BY <1>3, <2>2, <2>4 DEF CreateAnchor, At
    <2>5. CASE Goto(c, "list")
      BY <1>3, <2>5, GotoMoves DEF CreateAnchor, Passes, Points, At
    <2> QED  BY <1>3, <2>3, <2>4, <2>5 DEF CreateAnchor
  <1> QED  BY <1>1, <1>2, <1>3

\* Failing: provisioning lists again, any other command fails.
LEMMA FailMoves ==
    ASSUME TypeOK, NEW c \in Consoles, Fail(c)
    PROVE  \/ Stops(c) \/ RollsBack(c)
           \/ proc[c].cmd = "provision" /\ Passes(c, "list") /\ lock' = lock
  BY RaiseMoves, GotoMoves DEF Fail, Passes, Points

\* Being killed: the lock file stays.
LEMMA KillMoves ==
    ASSUME TypeOK, NEW c \in Consoles, Kill(c)
    PROVE  /\ Only(c) /\ proc'[c].cmd = proc[c].cmd /\ proc'[c].at = "failed"
           /\ ~proc'[c].undo /\ lock' = lock
  <1> DEFINE e == Ended(proc[c].cmd, "failed")
  <1>1. proc' = [proc EXCEPT ![c] = e] /\ lock' = lock
    BY DEF Kill
  <1>2. e \in Procs /\ e.at = "failed" /\ e.cmd = proc[c].cmd /\ ~e.undo
    BY EndedTyped DEF TypeOK, Procs, Ends
  <1> HIDE DEF e
  <1>3. Only(c) /\ proc'[c] = e
    BY <1>1, <1>2, OneMoves DEF Becomes
  <1> QED  BY <1>1, <1>2, <1>3
-----------------------------------------------------------------------------
(* The lock and the state file.                                            *)

\* Who begins to work takes the lock, who gives it up has held it.
LockMoved(c) ==
    \/ lock' = lock /\ (Holding(c)' => Holding(c))
    \/ lock = Free /\ lock' = c
    \/ Holding(c) /\ lock' = Free /\ ~Holding(c)'

\* The state file is written by who works, and an original plan stays.
FileMoved(c) ==
    /\ file' \in Files \cup {NoFile}
    /\ file' = file \/ Holding(c)
    /\ file # NoFile /\ file' # NoFile => file'.original = file.original

Sound(c) ==
    /\ Only(c) /\ Fits(proc'[c]) /\ LockMoved(c) /\ FileMoved(c)
    /\ Reads(c)'

\* Where a process is, it fits and reads what it may.
LEMMA Here ==
    ASSUME IInv, NEW c \in Consoles
    PROVE  /\ Fits(proc[c]) /\ Reads(c) /\ proc[c] \in Procs
           /\ Holding(c) => lock = c
  BY DEF IInv, CommandsFit, StateRead, OneAtATime, TypeOK

\* The state file that stays.
LEMMA FileStays ==
    ASSUME TypeOK, file' = file, NEW c
    PROVE  FileMoved(c)
  BY DEF TypeOK, FileMoved

\* A command that ends or fails.
LEMMA StopsSound ==
    ASSUME IInv, NEW c \in Consoles, Stops(c),
           FileMoved(c)
    PROVE  Sound(c)
  <1>1. /\ proc'[c].at \in Ends /\ ~proc'[c].undo
        /\ lock' = IF Holding(c) THEN Free ELSE lock
        /\ Only(c)
    BY DEF Stops
  <1>2. Fits(proc'[c]) /\ Reads(c)' /\ ~Holding(c)'
    BY <1>1 DEF Fits, Reads, Holding, Ends, Points, Writing
  <1>3. LockMoved(c)
    BY <1>1, <1>2 DEF LockMoved
  <1> QED  BY <1>1, <1>2, <1>3 DEF Sound

\* A command that rolls back.
LEMMA RollsBackSound ==
    ASSUME IInv, NEW c \in Consoles, RollsBack(c), file' = file
    PROVE  Sound(c)
  <1>1. /\ Becomes(c, proc[c].cmd, "partial", proc[c].step, proc[c].undo,
                   proc[c].found)
        /\ proc[c].at \in Writing \cup {"active", "plansAgain", "partsAgain"}
        /\ ~proc[c].undo /\ lock' = lock
    BY DEF RollsBack
  <1>2. proc[c].cmd = "install" /\ file # NoFile /\ Holding(c)
    BY <1>1, Here DEF Fits, Reads, Writing, Holding, Points
  <1>3. Fits(proc'[c])
    BY <1>1, <1>2 DEF Becomes, Fits, Writing
  <1>4. Reads(c)' /\ LockMoved(c) /\ Only(c)
    BY <1>1, <1>2 DEF Becomes, Reads, Writing, LockMoved
  <1> QED  BY <1>3, <1>4, FileStays DEF Sound, IInv

\* One that goes on to the next request.
LEMMA AdvancesSound ==
    ASSUME IInv, NEW c \in Consoles, Advances(c), At(c, "get") \/ At(c, "verify"),
           file' = file
    PROVE  Sound(c)
  <1>1. /\ proc[c].at \in {"get", "verify"}
        /\ proc[c].cmd = "install" \/ (proc[c].cmd = "remove" /\ proc[c].undo)
        /\ file # NoFile /\ Holding(c)
    BY Here DEF Fits, Reads, Writing, Holding, Points, At
  <1>2. /\ Only(c) /\ proc'[c].cmd = proc[c].cmd /\ proc'[c].undo = proc[c].undo
        /\ lock' = lock
        /\ \/ proc'[c].at = "get"
           \/ proc'[c].at = "unlink" /\ proc[c].undo
           \/ proc'[c].at = "active" /\ ~proc[c].undo
    BY DEF Advances, Becomes, Passes
  <1>3. Fits(proc'[c])
    BY <1>1, <1>2 DEF Fits, Writing
  <1>4. Reads(c)' /\ LockMoved(c)
    BY <1>1, <1>2 DEF Reads, LockMoved
  <1> QED  BY <1>2, <1>3, <1>4, FileStays DEF Sound, IInv

\* The steps before the first request.
LEMMA PreparingSound ==
    ASSUME IInv, MenuAssumption, NEW c \in Consoles,
           \/ Start(c) \/ Lock(c) \/ ReadState(c) \/ FindPlans(c)
           \/ CheckAbsent(c)
    PROVE  Sound(c)
  <1>0. /\ file' = file /\ Fits(proc[c]) /\ Reads(c) /\ TypeOK
        /\ FileMoved(c)
    BY Here, FileStays
       DEF IInv, Start, Lock, ReadState, FindPlans, CheckAbsent
  <1>1. CASE Start(c)
    <2>1. /\ Only(c) /\ proc[c].at \in Ends
          /\ proc'[c].cmd \in Commands
          /\ proc'[c].at = IF proc'[c].cmd = "provision" THEN "list" ELSE "lock"
          /\ ~proc'[c].undo /\ proc'[c].step = 1 /\ lock' = lock
      BY <1>0, <1>1, StartMoves DEF Start
    <2>2. Fits(proc'[c])
      BY <2>1 DEF Fits, Commands, Writing
    <2>3. Reads(c)' /\ ~Holding(c)'
      BY <2>1 DEF Reads, Holding, Writing
    <2> QED  BY <1>0, <2>1, <2>2, <2>3 DEF Sound, LockMoved
  <1>2. CASE Lock(c)
    <2>1. CASE Stops(c)
      BY <1>0, <2>1, StopsSound
    <2>2. CASE lock = Free /\ lock' = c /\ Passes(c, "readState")
      <3>1. proc[c].at = "lock"
        BY <1>2 DEF Lock, At
      <3>2. Fits(proc'[c]) /\ Reads(c)' /\ Only(c)
        BY <1>0, <2>2, <3>1 DEF Passes, Becomes, Fits, Writing, Reads
      <3> QED  BY <1>0, <2>2, <3>2 DEF Sound, LockMoved
    <2> QED  BY <1>0, <1>2, <2>1, <2>2, LockMoves
  <1>3. CASE ReadState(c)
    <2>1. proc[c].at = "readState" /\ lock' = lock
      BY <1>3 DEF ReadState, At
    <2>2. \/ Passes(c, "orphans") /\ proc[c].cmd = "remove"
          \/ Passes(c, "removing") /\ proc[c].cmd = "remove" /\ file # NoFile
          \/ Passes(c, "plans") /\ proc[c].cmd = "install" /\ file = NoFile
          \/ Passes(c, "plansNow") /\ proc[c].cmd = "install" /\ file # NoFile
      BY <1>0, <1>3, ReadStateMoves
    <2>3. Fits(proc'[c])
      BY <1>0, <2>1, <2>2 DEF Passes, Becomes, Fits, Writing
    <2>4. Reads(c)' /\ Only(c)
      BY <1>0, <2>1, <2>2 DEF Passes, Becomes, Reads, Writing
    <2>5. Holding(c)
      BY <2>1, <2>2 DEF Holding, Points
    <2> QED  BY <1>0, <2>1, <2>3, <2>4, <2>5 DEF Sound, LockMoved
  <1>4. CASE FindPlans(c)
    <2>1. proc[c].at = "plans"
      BY <1>4 DEF FindPlans, At
    <2>2. CASE Becomes(c, proc[c].cmd, "absent", proc[c].step, proc[c].undo,
                       config["anchor"]) /\ config["anchor"] \in Versions
               /\ lock' = lock
      <3>1. Fits(proc'[c])
        BY <1>0, <2>1, <2>2 DEF Becomes, Fits, Writing
      <3>2. Reads(c)' /\ Only(c)
        BY <1>0, <2>1, <2>2 DEF Becomes, Reads, Writing
      <3>3. Holding(c)
        BY <1>0, <2>1 DEF Holding, Points, Fits
      <3> QED  BY <1>0, <2>2, <3>1, <3>2, <3>3 DEF Sound, LockMoved
    <2> QED  BY <1>0, <1>4, <2>2, FindPlansMoves, StopsSound, RollsBackSound
  <1>5. CASE CheckAbsent(c)
    <2>1. proc[c].at = "absent"
      BY <1>5 DEF CheckAbsent, At
    <2>2. CASE /\ lock' = lock
               /\ \/ Becomes(c, proc[c].cmd, "absent", 2, proc[c].undo,
                             proc[c].found)
                  \/ Becomes(c, proc[c].cmd, "save", 1, proc[c].undo,
                             proc[c].found)
      <3>1. Fits(proc'[c])
        BY <1>0, <2>1, <2>2 DEF Becomes, Fits, Writing
      <3>2. Reads(c)' /\ Only(c)
        BY <1>0, <2>1, <2>2 DEF Becomes, Reads, Writing
      <3>3. Holding(c)
        BY <1>0, <2>1 DEF Holding, Points, Fits
      <3> QED  BY <1>0, <2>2, <3>1, <3>2, <3>3 DEF Sound, LockMoved
    <2> QED  BY <1>0, <1>5, <2>2, CheckAbsentMoves, StopsSound, RollsBackSound
  <1> QED  BY <1>1, <1>2, <1>3, <1>4, <1>5

\* The state file and the status.
LEMMA RecordingSound ==
    ASSUME IInv, NEW c \in Consoles,
           \/ Save(c) \/ SavePhase(c) \/ Unlink(c) \/ Orphans(c)
           \/ StatusPlans(c) \/ StatusParts(c)
    PROVE  Sound(c)
  <1>0. Fits(proc[c]) /\ Reads(c) /\ TypeOK
    BY Here DEF IInv
  <1>1. CASE Save(c)
    <2>1. /\ proc[c].at = "save" /\ lock' = lock
          /\ file' = [phase |-> "prepared", original |-> proc[c].found]
      BY <1>1 DEF Save, At
    <2>2. proc[c].cmd = "install" /\ file = NoFile /\ proc[c].found \in Versions
      BY <1>0, <2>1 DEF Fits, Reads
    <2>3. file' \in Files /\ file' # NoFile
      BY <2>1, <2>2 DEF Files, Phases, NoFile
    <2>4. Becomes(c, proc[c].cmd, "get", proc[c].step, proc[c].undo, Absent)
      BY <1>0, <1>1, SaveMoves
    <2>5. Fits(proc'[c]) /\ Reads(c)' /\ Only(c) /\ Holding(c)
      BY <1>0, <2>1, <2>2, <2>3, <2>4
         DEF Becomes, Fits, Writing, Reads, Holding, Points
    <2> QED  BY <2>1, <2>2, <2>3, <2>5 DEF Sound, LockMoved, FileMoved
  <1>2. CASE SavePhase(c)
    <2>1. lock' = lock /\ proc[c].at \in {"active", "partial", "removing"}
      BY <1>2 DEF SavePhase, At
    <2>2. file \in Files /\ Holding(c)
      BY <1>0, <2>1, FileTyped DEF Fits, Reads, Holding, Points
    <2>3. /\ file' \in Files /\ file' # NoFile
          /\ file'.original = file.original
      <3>1. ASSUME NEW phase \in {"active", "partial", "removing"},
                   file' = [file EXCEPT !.phase = phase]
            PROVE  /\ file' \in Files /\ file'.original = file.original
                   /\ file'.phase = phase
        BY <2>2, <3>1 DEF Files, Phases
      <3>2. /\ file' \in Files /\ file'.original = file.original
            /\ file'.phase \in {"active", "partial", "removing"}
        BY <1>2, <3>1 DEF SavePhase
      <3> QED  BY <3>2 DEF NoFile
    <2>4. \/ At(c, "active") /\ Passes(c, "plansAgain")
          \/ At(c, "partial")
             /\ Becomes(c, proc[c].cmd, "get", 1, TRUE, proc[c].found)
          \/ At(c, "removing")
             /\ Becomes(c, proc[c].cmd, "get", 1, TRUE, proc[c].found)
      BY <1>0, <1>2, SavePhaseMoves
    <2>5. Fits(proc'[c]) /\ Reads(c)' /\ Only(c)
      BY <1>0, <2>3, <2>4
         DEF Becomes, Passes, Fits, Writing, Reads, At
    <2> QED  BY <2>1, <2>2, <2>3, <2>5 DEF Sound, LockMoved, FileMoved
  <1>3. CASE Unlink(c)
    <2>1. Holding(c) /\ FileMoved(c)
      BY <1>0, <1>3 DEF Unlink, At, Fits, Holding, Points, FileMoved
    <2> QED  BY <1>0, <1>3, <2>1, UnlinkMoves, StopsSound
  <1>4. CASE Orphans(c)
    BY <1>0, <1>4, UnlinkMoves, StopsSound, FileStays DEF Orphans
  <1>5. CASE StatusPlans(c)
    <2>1. /\ proc[c].at \in {"plansNow", "plansAgain"} /\ lock' = lock
          /\ file' = file
      BY <1>5 DEF StatusPlans, At
    <2>2. \/ At(c, "plansNow") /\ Passes(c, "partsNow")
          \/ At(c, "plansAgain") /\ Passes(c, "partsAgain")
      BY <1>0, <1>5, StatusPlansMoves
    <2>3. Fits(proc'[c]) /\ Reads(c)' /\ Only(c)
      BY <1>0, <2>1, <2>2 DEF Becomes, Passes, Fits, Writing, Reads, At
    <2>4. Holding(c)' => Holding(c)
      BY <2>1, <2>2 DEF Becomes, Passes, Holding, Points
    <2> QED  BY <1>0, <2>1, <2>3, <2>4, FileStays DEF Sound, LockMoved
  <1>6. CASE StatusParts(c)
    <2>1. file' = file
      BY <1>6 DEF StatusParts
    <2> QED  BY <1>0, <1>6, <2>1, StatusPartsMoves, StopsSound, RollsBackSound,
                FileStays
  <1> QED  BY <1>1, <1>2, <1>3, <1>4, <1>5, <1>6

\* The requests.
LEMMA WritingSound ==
    ASSUME IInv, NEW c \in Consoles,
           Get(c) \/ Put(c) \/ PutUnanswered(c) \/ Verify(c)
    PROVE  Sound(c)
  <1>0. /\ Fits(proc[c]) /\ Reads(c) /\ TypeOK /\ file' = file
        /\ FileMoved(c)
        /\ proc[c].at \in Writing
    BY Here, FileStays DEF IInv, Get, Put, PutUnanswered, Verify, At, Writing
  <1>1. /\ proc[c].cmd = "install" \/ (proc[c].cmd = "remove" /\ proc[c].undo)
        /\ file # NoFile /\ Holding(c)
    BY <1>0 DEF Fits, Reads, Writing, Holding, Points
  <1>2. ASSUME NEW point \in {"put", "verify"}, Passes(c, point), lock' = lock
        PROVE  Sound(c)
    <2>1. Fits(proc'[c])
      BY <1>0, <1>1, <1>2 DEF Passes, Becomes, Fits, Writing
    <2>2. Reads(c)' /\ Only(c)
      BY <1>0, <1>1, <1>2 DEF Passes, Becomes, Reads, Writing
    <2> QED  BY <1>0, <1>1, <1>2, <2>1, <2>2 DEF Sound, LockMoved
  <1>3. CASE Get(c)
    <2>1. At(c, "get")
      BY <1>3 DEF Get
    <2> QED  BY <1>0, <1>2, <1>3, <2>1, GetMoves, AdvancesSound, StopsSound,
                RollsBackSound
  <1>4. CASE Put(c)
    BY <1>0, <1>2, <1>4, PutMoves, StopsSound, RollsBackSound
  <1>5. CASE PutUnanswered(c)
    <2>1. CASE /\ Only(c) /\ proc'[c].cmd = proc[c].cmd
               /\ proc'[c].at = "failed" /\ ~proc'[c].undo /\ lock' = Free
      <3>1. Stops(c)
        BY <1>1, <2>1 DEF Stops, Ends
      <3> QED  BY <1>0, <3>1, StopsSound
    <2>2. CASE Passes(c, "partial") /\ ~proc[c].undo /\ lock' = lock
      <3>1. RollsBack(c)
        BY <1>0, <2>2 DEF RollsBack, Passes
      <3> QED  BY <1>0, <3>1, RollsBackSound
    <2> QED  BY <1>0, <1>5, <2>1, <2>2, PutUnansweredMoves
  <1>6. CASE Verify(c)
    <2>1. At(c, "verify")
      BY <1>6 DEF Verify
    <2> QED  BY <1>0, <1>6, <2>1, VerifyMoves, AdvancesSound, StopsSound,
                RollsBackSound
  <1> QED  BY <1>3, <1>4, <1>5, <1>6

\* Provisioning, failing and being killed.
LEMMA OthersSound ==
    ASSUME IInv, NEW c \in Consoles,
           \/ ListPlans(c) \/ CreateAnchor(c) \/ ConfirmAnchor(c)
           \/ Fail(c) \/ Kill(c)
    PROVE  Sound(c)
  <1>0. /\ Fits(proc[c]) /\ Reads(c) /\ TypeOK /\ file' = file
        /\ FileMoved(c)
    BY Here, FileStays
       DEF IInv, ListPlans, CreateAnchor, ConfirmAnchor, Fail, Kill
  <1>1. ASSUME proc[c].cmd = "provision", lock' = lock,
               NEW point \in {"list", "create", "confirm", "plansNow", "ok"},
               Passes(c, point)
        PROVE  Sound(c)
    <2>1. ~proc[c].undo
      BY <1>0, <1>1 DEF Fits, Writing
    <2>2. Fits(proc'[c])
      BY <1>0, <1>1, <2>1 DEF Passes, Becomes, Fits, Writing
    <2>3. Reads(c)' /\ Only(c) /\ ~Holding(c)'
      BY <1>0, <1>1 DEF Passes, Becomes, Reads, Writing, Holding
    <2> QED  BY <1>0, <1>1, <2>2, <2>3 DEF Sound, LockMoved
  <1>2. CASE ListPlans(c) \/ CreateAnchor(c) \/ ConfirmAnchor(c)
    <2>1. /\ proc[c].at \in {"list", "create", "confirm"} /\ lock' = lock
          /\ \E point \in {"list", "create", "confirm", "plansNow", "ok"} :
                Passes(c, point)
      BY <1>0, <1>2, ProvisionMoves
    <2>2. proc[c].cmd = "provision"
      BY <1>0, <2>1 DEF Fits
    <2> QED  BY <1>1, <2>1, <2>2
  <1>3. CASE Fail(c)
    BY <1>0, <1>1, <1>3, FailMoves, StopsSound, RollsBackSound
  <1>4. CASE Kill(c)
    <2>1. /\ Only(c) /\ proc'[c].cmd = proc[c].cmd /\ proc'[c].at = "failed"
          /\ ~proc'[c].undo /\ lock' = lock
      BY <1>0, <1>4, KillMoves
    <2>2. Fits(proc'[c]) /\ Reads(c)' /\ ~Holding(c)'
      BY <2>1 DEF Fits, Reads, Holding, Points, Writing
    <2> QED  BY <1>0, <2>1, <2>2 DEF Sound, LockMoved
  <1> QED  BY <1>2, <1>3, <1>4

\* Every step of a command is sound.
LEMMA CommandSound ==
    ASSUME IInv, MenuAssumption, NEW c \in Consoles, Command(c)
    PROVE  Sound(c)
  BY PreparingSound, RecordingSound, WritingSound, OthersSound DEF Command
-----------------------------------------------------------------------------
(* The inductive invariant is kept.                                        *)

\* A sound step keeps the consoles apart.
LEMMA SoundKeeps ==
    ASSUME IInv, MenuAssumption, NEW c \in Consoles, Sound(c)
    PROVE  /\ CommandsFit' /\ OneAtATime' /\ StateRead'
           /\ proc' \in [Consoles -> Procs]
           /\ file' \in Files \cup {NoFile}
           /\ lock' \in Consoles \cup {Free}
  <1>1. ASSUME NEW d \in Consoles, d # c
        PROVE  /\ Alike(proc'[d], proc[d])
               /\ Fits(proc'[d]) /\ (Holding(d)' => Holding(d))
    <2>1. Alike(proc'[d], proc[d])
      BY <1>1 DEF Sound, Only
    <2>2. Fits(proc'[d])
      BY <2>1, Here, AlikeFits
    <2> QED  BY <2>1, <2>2 DEF Alike, Holding
  <1>2. CommandsFit'
    BY <1>1 DEF CommandsFit, Sound
  <1>3. lock' \in Consoles \cup {Free}
    BY DEF Sound, LockMoved, IInv, TypeOK
  <1>4. OneAtATime'
    <2> SUFFICES ASSUME NEW d \in Consoles, Holding(d)'
                 PROVE  lock' = d
      BY DEF OneAtATime
    <2>1. CASE lock' = lock /\ (Holding(c)' => Holding(c))
      BY <1>1, <2>1, Here
    <2>2. CASE lock = Free /\ lock' = c
      <3>1. d # c => lock = d
        BY <1>1, Here
      <3> QED  BY <2>2, <3>1 DEF MenuAssumption
    <2>3. CASE Holding(c) /\ lock' = Free /\ ~Holding(c)'
      <3>1. d # c /\ lock = c
        BY <2>3, Here
      <3> QED  BY <1>1, <3>1, Here
    <2> QED  BY <2>1, <2>2, <2>3 DEF Sound, LockMoved
  <1>5. StateRead'
    <2> SUFFICES ASSUME NEW d \in Consoles, d # c
                 PROVE  Reads(d)'
      BY DEF StateRead, Sound
    <2>1. Alike(proc'[d], proc[d]) /\ Fits(proc[d]) /\ Reads(d)
      BY <1>1, Here
    <2>2. CASE file' = file
      BY <2>1, <2>2 DEF Reads, Alike
    <2>3. CASE Holding(c)
      <3>1. ~Holding(d)
        BY <2>3, Here
      <3>2. proc[d].at \notin {"plans", "absent", "save", "active",
                               "plansAgain", "partsAgain", "partial",
                               "removing", "unlink"} \cup Writing
        BY <2>1, <3>1 DEF Fits, Holding, Points, Writing
      <3> QED  BY <2>1, <3>2 DEF Reads, Alike
    <2> QED  BY <2>2, <2>3 DEF Sound, FileMoved
  <1> QED  BY <1>2, <1>3, <1>4, <1>5 DEF Sound, Only, FileMoved

\* A write, of a version.
LEMMA WriteTyped ==
    ASSUME TypeOK, NEW path \in Paths, NEW version \in Versions \cup {Absent},
           Write(path, version)
    PROVE  /\ config' \in [Paths -> Versions \cup {Absent}]
           /\ late' \in SUBSET [path : Paths, to : Versions \cup {Absent},
                                etag : BOOLEAN]
  BY DEF TypeOK, Write

\* A request that is left to be applied.
LEMMA PostponeTyped ==
    ASSUME TypeOK, NEW path \in Paths, NEW to \in Versions \cup {Absent},
           NEW etag \in BOOLEAN, Postpone(path, to, etag)
    PROVE  /\ config' = config
           /\ late' \in SUBSET [path : Paths, to : Versions \cup {Absent},
                                etag : BOOLEAN]
  BY DEF TypeOK, Postpone

\* What a request may store.
LEMMA StoredTyped ==
    ASSUME TypeOK, NEW c \in Consoles, file # NoFile
    PROVE  \A version \in Stored(Step(c)) :
              /\ version \in Versions \cup {Absent}
              /\ version.base = Step(c).to.base
              /\ version = Step(c).to \/ (Step(c).path = "anchor" /\ ~version.on)
  <1> DEFINE s == Step(c)
  <1>1. s.to \in Versions \cup {Absent}
    BY StepTyped
  <1>2. s.path = "anchor" => s.to \in Versions
    BY VersionsTyped, FileTyped
       DEF TypeOK, Procs, Step, InstallSteps, RemoveSteps
  <1> HIDE DEF s
  <1>3. \A v \in Versions : /\ [v EXCEPT !.on = FALSE] \in Versions
                            /\ [v EXCEPT !.on = FALSE].base = v.base
                            /\ ~[v EXCEPT !.on = FALSE].on
    BY DEF Versions
  <1>4. ASSUME NEW version \in Stored(s)
        PROVE  /\ version \in Versions \cup {Absent}
               /\ version.base = s.to.base
               /\ version = s.to \/ (s.path = "anchor" /\ ~version.on)
    <2>1. CASE version = s.to
      BY <1>1, <2>1
    <2>2. CASE s.path = "anchor" /\ version = [s.to EXCEPT !.on = FALSE]
      BY <1>2, <1>3, <2>2
    <2> QED  BY <2>1, <2>2 DEF Stored
  <1> QED  BY <1>4 DEF s

\* The components and a request in flight, when a command moves.
LEMMA CommandTyped ==
    ASSUME IInv, NEW c \in Consoles, Command(c)
    PROVE  /\ config' \in [Paths -> Versions \cup {Absent}]
           /\ late' \in SUBSET [path : Paths, to : Versions \cup {Absent},
                                etag : BOOLEAN]
           /\ edits' = edits
  <1>0. TypeOK /\ Fits(proc[c]) /\ Reads(c) /\ proc[c].etag \in BOOLEAN
    BY Here DEF IInv, Procs
  <1>1. CASE config' = config /\ late' = late /\ edits' = edits
    BY <1>0, <1>1 DEF TypeOK
  <1>2. ASSUME At(c, "put")
        PROVE  file # NoFile /\ Step(c).path \in Paths
               /\ Step(c).to \in Versions \cup {Absent}
    BY <1>0, <1>2, StepTyped DEF Reads, At, Writing
  <1>3. CASE Put(c)
    <2>1. At(c, "put") /\ edits' = edits
      BY <1>3 DEF Put
    <2>2. CASE UNCHANGED <<config, late>>
      BY <1>1, <2>1, <2>2
    <2>3. CASE \E version \in Stored(Step(c)) : Write(Step(c).path, version)
      BY <1>0, <1>2, <2>1, <2>3, StoredTyped, WriteTyped
    <2> QED  BY <1>0, <1>3, <2>2, <2>3, PutMoves
  <1>4. CASE PutUnanswered(c)
    <2>1. /\ At(c, "put") /\ edits' = edits
          /\ \/ Write(Step(c).path, Step(c).to)
             \/ Postpone(Step(c).path, Step(c).to, proc[c].etag)
      BY <1>4 DEF PutUnanswered
    <2>2. CASE Write(Step(c).path, Step(c).to)
      BY <1>0, <1>2, <2>1, <2>2, WriteTyped
    <2>3. CASE Postpone(Step(c).path, Step(c).to, proc[c].etag)
      BY <1>0, <1>2, <2>1, <2>3, PostponeTyped DEF TypeOK
    <2> QED  BY <2>1, <2>2, <2>3
  <1>5. CASE CreateAnchor(c)
    <2>1. edits' = edits /\ (Write("anchor", Off) \/ Postpone("anchor", Off, FALSE))
      BY <1>5 DEF CreateAnchor
    <2>2. "anchor" \in Paths /\ Off \in Versions /\ FALSE \in BOOLEAN
      BY VersionsTyped DEF Paths
    <2>3. CASE Write("anchor", Off)
      BY <1>0, <2>1, <2>2, <2>3, WriteTyped
    <2>4. CASE Postpone("anchor", Off, FALSE)
      BY <1>0, <2>1, <2>2, <2>4 DEF Postpone, TypeOK
    <2> QED  BY <2>1, <2>3, <2>4
  <1>6. CASE Start(c) \/ Lock(c) \/ ReadState(c) \/ FindPlans(c) \/ CheckAbsent(c)
    BY <1>1, <1>6 DEF Start, Lock, ReadState, FindPlans, CheckAbsent
  <1>7. CASE Save(c) \/ SavePhase(c) \/ Unlink(c) \/ Orphans(c)
    BY <1>1, <1>7 DEF Save, SavePhase, Unlink, Orphans
  <1>8. CASE StatusPlans(c) \/ StatusParts(c) \/ Get(c) \/ Verify(c)
    BY <1>1, <1>8 DEF StatusPlans, StatusParts, Get, Verify
  <1>9. CASE ListPlans(c) \/ ConfirmAnchor(c) \/ Fail(c) \/ Kill(c)
    BY <1>1, <1>9 DEF ListPlans, ConfirmAnchor, Fail, Kill
  <1> QED  BY <1>3, <1>4, <1>5, <1>6, <1>7, <1>8, <1>9 DEF Command

\* A write by someone else only spends ETags.
LEMMA StaleKeeps ==
    ASSUME IInv, NEW path, proc' = Stale(path), file' = file, lock' = lock
    PROVE  /\ CommandsFit' /\ OneAtATime' /\ StateRead'
           /\ proc' \in [Consoles -> Procs]
           /\ \A d \in Consoles : Alike(proc'[d], proc[d])
  <1>1. /\ proc' \in [Consoles -> Procs]
        /\ \A d \in Consoles : Alike(proc'[d], proc[d])
    BY StaleAlike DEF IInv
  <1>2. ASSUME NEW d \in Consoles
        PROVE  Fits(proc'[d]) /\ Reads(d)' /\ (Holding(d)' => lock' = d)
    <2>1. /\ Alike(proc'[d], proc[d]) /\ Fits(proc[d]) /\ Reads(d)
          /\ Holding(d) => lock = d
      BY <1>1, Here
    <2>2. Fits(proc'[d])
      BY <2>1, AlikeFits
    <2> QED  BY <2>1, <2>2 DEF Alike, Holding, Reads
  <1> QED  BY <1>1, <1>2 DEF CommandsFit, OneAtATime, StateRead

\* The initial states.
LEMMA InitIInv ==
    ASSUME Init, MenuAssumption
    PROVE  IInv
  <1>1. \A c \in Consoles : /\ proc[c] = Ended("install", "idle")
                            /\ proc[c] \in Procs /\ Fits(proc[c])
                            /\ proc[c].at = "idle"
    BY EndedTyped DEF Init, Commands, Ends
  <1>2. proc \in [Consoles -> Procs]
    BY <1>1 DEF Init
  <1>3. config \in [Paths -> Versions \cup {Absent}]
    BY VersionsTyped DEF Init
  <1>4. TypeOK
    BY <1>2, <1>3 DEF TypeOK, Init, MenuAssumption
  <1>5. OneAtATime /\ StateRead
    BY <1>1 DEF OneAtATime, StateRead, Holding, Reads, Points, Writing
  <1> QED  BY <1>1, <1>4, <1>5 DEF IInv, CommandsFit

\* Every step keeps the invariant and the snapshot.
LEMMA NextIInv ==
    ASSUME IInv, MenuAssumption, Next
    PROVE  /\ IInv'
           /\ file # NoFile /\ file' # NoFile => file'.original = file.original
  <1>0. TypeOK
    BY DEF IInv
  <1>1. ASSUME NEW c \in Consoles, Command(c)
        PROVE  /\ IInv'
               /\ file # NoFile /\ file' # NoFile =>
                     file'.original = file.original
    <2>1. Sound(c)
      BY <1>1, CommandSound
    <2>2. /\ CommandsFit' /\ OneAtATime' /\ StateRead'
          /\ proc' \in [Consoles -> Procs]
          /\ file' \in Files \cup {NoFile}
          /\ lock' \in Consoles \cup {Free}
      BY <2>1, SoundKeeps
    <2>3. /\ config' \in [Paths -> Versions \cup {Absent}]
          /\ late' \in SUBSET [path : Paths, to : Versions \cup {Absent},
                               etag : BOOLEAN]
          /\ edits' \in 0..MaxEdits
      BY <1>0, <1>1, CommandTyped DEF TypeOK
    <2>4. TypeOK'
      BY <2>2, <2>3 DEF TypeOK
    <2> QED  BY <2>1, <2>2, <2>4 DEF IInv, Sound, FileMoved
  <1>2. CASE RemoveStaleLock
    <2>1. /\ lock' = Free /\ ~Holding(lock)
          /\ config' = config /\ file' = file /\ proc' = proc
          /\ late' = late /\ edits' = edits
      BY <1>2 DEF RemoveStaleLock
    <2>2. OneAtATime'
      BY <2>1 DEF IInv, OneAtATime, Holding
    <2>3. TypeOK' /\ CommandsFit' /\ StateRead'
      BY <2>1 DEF IInv, TypeOK, CommandsFit, StateRead, Reads
    <2> QED  BY <2>1, <2>2, <2>3 DEF IInv
  <1>3. CASE LateApplied
    <2>1. PICK r \in late : /\ config' = [config EXCEPT ![r.path] = r.to]
                            /\ proc' = Stale(r.path)
      BY <1>3 DEF LateApplied
    <2>2. late' = {} /\ file' = file /\ lock' = lock /\ edits' = edits
      BY <1>3 DEF LateApplied
    <2>3. /\ CommandsFit' /\ OneAtATime' /\ StateRead'
          /\ proc' \in [Consoles -> Procs]
      BY <2>1, <2>2, StaleKeeps
    <2>4. TypeOK'
      BY <1>0, <2>1, <2>2, <2>3 DEF TypeOK
    <2> QED  BY <2>2, <2>3, <2>4 DEF IInv
  <1>4. CASE PortalEdit
    <2> DEFINE V(path) == [config[path] EXCEPT !.base = "edited"]
    <2>1. PICK path \in Paths : /\ config[path] # Absent
                                /\ Write(path, V(path))
                                /\ proc' = Stale(path)
      BY <1>4 DEF PortalEdit
    <2>2. /\ edits < MaxEdits /\ edits' = edits + 1
          /\ file' = file /\ lock' = lock
      BY <1>4 DEF PortalEdit
    <2>3. /\ CommandsFit' /\ OneAtATime' /\ StateRead'
          /\ proc' \in [Consoles -> Procs]
      BY <2>1, <2>2, StaleKeeps
    <2>4. config[path] \in Versions
      BY <1>0, <2>1 DEF TypeOK
    <2>5. V(path) \in Versions
      BY <2>4 DEF Versions
    <2> HIDE DEF V
    <2>6. /\ config' \in [Paths -> Versions \cup {Absent}]
          /\ late' \in SUBSET [path : Paths, to : Versions \cup {Absent},
                               etag : BOOLEAN]
      BY <1>0, <2>1, <2>5, WriteTyped
    <2>7. edits' \in 0..MaxEdits
      BY <1>0, <2>2 DEF TypeOK, MenuAssumption
    <2>8. TypeOK'
      BY <1>0, <2>2, <2>3, <2>6, <2>7 DEF TypeOK
    <2> QED  BY <2>2, <2>3, <2>8 DEF IInv
  <1> QED  BY <1>1, <1>2, <1>3, <1>4 DEF Next

\* Nothing happens.
LEMMA StutterIInv ==
    ASSUME IInv, UNCHANGED vars
    PROVE  IInv'
  <1> USE DEF vars
  <1>1. TypeOK'
    BY DEF IInv, TypeOK
  <1>2. CommandsFit'
    BY DEF IInv, CommandsFit
  <1>3. OneAtATime'
    BY DEF IInv, OneAtATime, Holding
  <1>4. StateRead'
    BY DEF IInv, StateRead, Reads
  <1> QED  BY <1>1, <1>2, <1>3, <1>4 DEF IInv

\* The invariant holds in every state.
LEMMA Invariant == Spec => []IInv
  <1>1. Init => IInv
    BY InitIInv, MenuAssumption
  <1>2. IInv /\ [Next]_vars => IInv'
    BY NextIInv, StutterIInv, MenuAssumption
  <1> QED  BY <1>1, <1>2, PTL DEF Spec

\* The types: whatever install, remove, provisioning, the portal and a request
\* that was applied late do, components, state file, lock and commands have the
\* values they are meant to have.
THEOREM TypeCorrect == Spec => []TypeOK
  <1>1. IInv => TypeOK
    BY DEF IInv
  <1> QED  BY <1>1, Invariant, PTL

\* Install and remove never run together, for any number of consoles: whoever
\* is past the lock is the one that made the lock file, although the operator
\* removes the lock of a killed command (incident_workflow_lock).
THEOREM OneAtATimeCorrect == Spec => []OneAtATime
  <1>1. IInv => OneAtATime
    BY DEF IInv
  <1> QED  BY <1>1, Invariant, PTL

\* The snapshot of the original plan is never replaced while it is needed:
\* save_incident_state with a new original happens only without a state file.
THEOREM SnapshotCorrect == Spec => SnapshotKept
  <1>1. IInv /\ [Next]_vars =>
           [file # NoFile /\ file' # NoFile =>
               file'.original = file.original]_vars
    BY NextIInv, MenuAssumption
  <1> QED  BY <1>1, Invariant, PTL DEF Spec, SnapshotKept
-----------------------------------------------------------------------------
(* No request is applied late: nothing is left behind.                     *)

\* The requests, one by one.
LEMMA Requests ==
    ASSUME TypeOK, NEW c \in Consoles, NEW s, s = Step(c)
    PROVE  /\ ~proc[c].undo =>
                /\ proc[c].step = 1 => /\ s.path = "agent" /\ s.to = On
                                       /\ s.from = {Absent}
                /\ proc[c].step = 2 => /\ s.path = "workflow" /\ s.to = Off
                                       /\ s.from = {Absent}
                /\ proc[c].step = 3 => /\ s.path = "anchor"
                                       /\ s.to = Partitioned
                                       /\ s.from = {file.original}
                /\ proc[c].step = 4 => /\ s.path = "workflow" /\ s.to = On
                                       /\ s.from = {Off}
           /\ proc[c].undo =>
                /\ proc[c].step = 1 => /\ s.path = "workflow" /\ s.to = Off
                                       /\ s.from = {On, Off}
                /\ proc[c].step = 2 => /\ s.path = "anchor"
                                       /\ s.to = file.original
                                       /\ s.from = {Partitioned, file.original}
                /\ proc[c].step = 3 => /\ s.path = "workflow" /\ s.to = Absent
                                       /\ s.from = {Off}
                /\ proc[c].step = 4 => /\ s.path = "agent" /\ s.to = Absent
                                       /\ s.from = {On}
           /\ proc[c].step \in {1, 2, 3, 4} /\ proc[c].undo \in BOOLEAN
  <1>1. proc[c].step \in {1, 2, 3, 4} /\ proc[c].undo \in BOOLEAN
    BY DEF TypeOK, Procs
  <1>2. CASE proc[c].undo
    <2>1. s = RemoveSteps[proc[c].step]
      BY <1>2 DEF Step
    <2> QED  BY <1>1, <1>2, <2>1 DEF RemoveSteps
  <1>3. CASE ~proc[c].undo
    <2>1. s = InstallSteps[proc[c].step]
      BY <1>3 DEF Step
    <2> QED  BY <1>1, <1>3, <2>1 DEF InstallSteps
  <1> QED  BY <1>1, <1>2, <1>3

\* A step of c takes nothing from what another console has undone: c holds the
\* lock, or it does not write but to drop the filter.
Spares(c) ==
    \/ Holding(c)
    \/ /\ config'["workflow"] = config["workflow"]
       /\ config'["agent"] = config["agent"]
       /\ config'["anchor"].on => config["anchor"].on

\* So the others stay where they are.
LEMMA OthersUndone ==
    ASSUME IInv, NEW c \in Consoles, NEW d \in Consoles, d # c, Only(c),
           Undone(d), Spares(c)
    PROVE  Undone(d)'
  <1>1. Alike(proc'[d], proc[d]) /\ Fits(proc[d])
    BY Here DEF Only, IInv, CommandsFit
  <1>2. CASE Holding(c)
    <2>1. ~Holding(d)
      BY <1>2, Here
    <2>2. proc[d].at \notin Writing \cup {"absent", "save", "unlink"}
      BY <1>1, <2>1 DEF Holding, Fits, Writing, Points
    <2> QED  BY <1>1, <2>2 DEF Undone, Alike, Writing
  <1>3. CASE ~Holding(c)
    BY <1>1, <1>3 DEF Spares, Undone, Alike
  <1> QED  BY <1>2, <1>3

\* What a step of a command has to show.
LEMMA CommandClears ==
    ASSUME IInv, UInv, NEW c \in Consoles, Only(c), Spares(c), Undone(c)',
           Cleared'
    PROVE  UInv'
  BY OthersUndone DEF UInv

\* A step that leaves components and state file alone, and does not reach a
\* point of which anything is asked.
LEMMA IdleClears ==
    ASSUME IInv, UInv, NEW c \in Consoles, Only(c),
           \/ proc'[c].at \notin Writing \cup {"absent", "save", "unlink"}
           \/ Undone(c)',
           config' = config, late' = late, file' = file
    PROVE  UInv'
  <1>1. Cleared' /\ Spares(c)
    BY DEF UInv, Cleared, NothingLeftBehind, Spares
  <1>2. Undone(c)'
    BY DEF Undone, Writing
  <1> QED  BY <1>1, <1>2, CommandClears

\* Stopping and failing are such steps.
LEMMA FailingClears ==
    ASSUME IInv, UInv, NEW c \in Consoles, Stops(c) \/ RollsBack(c),
           config' = config, late' = late, file' = file
    PROVE  UInv'
  <1>1. Only(c) /\ proc'[c].at \in Ends \cup {"partial"}
    BY DEF Stops, RollsBack, Becomes
  <1> QED  BY <1>1, IdleClears DEF Ends, Writing

\* The next request, once the last one is seen to be done.
LEMMA AdvancingClears ==
    ASSUME IInv, UInv, NEW c \in Consoles, Advances(c),
           At(c, "get") \/ At(c, "verify"),
           \/ config[Step(c).path] = Step(c).to
           \/ proc[c].undo /\ proc[c].step = 1,
           config' = config, late' = late, file' = file
    PROVE  UInv'
  <1> DEFINE p == proc[c]
             s == Step(c)
  <1>1. /\ TypeOK /\ p.at \in {"get", "verify"} /\ file # NoFile /\ Undone(c)
        /\ ~file.original.on /\ p.step \in {1, 2, 3, 4}
    BY Here, Requests DEF IInv, UInv, Reads, At, Writing, Cleared
  <1>2. /\ Only(c) /\ proc'[c].undo = p.undo
        /\ \/ proc'[c].at = "get" /\ p.step < 4 /\ proc'[c].step = p.step + 1
           \/ /\ proc'[c].at = "unlink" /\ p.undo /\ p.step = 4
              /\ proc'[c].step = p.step
           \/ proc'[c].at = "active"
    BY DEF Advances, Becomes, Passes
  <1> HIDE DEF s
  <1>3. p.undo => /\ p.step = 2 => s.path = "anchor" /\ s.to = file.original
                  /\ p.step = 3 => s.path = "workflow" /\ s.to = Absent
                  /\ p.step = 4 => s.path = "agent" /\ s.to = Absent
    BY <1>1, Requests DEF s
  <1>4. config[s.path] = s.to \/ (p.undo /\ p.step = 1)
    BY DEF s
  <1>5. Undone(c)'
    BY <1>1, <1>2, <1>3, <1>4 DEF Undone, Writing
  <1> QED  BY <1>2, <1>5, IdleClears

\* The steps before the first request.
LEMMA PreparingClears ==
    ASSUME IInv, UInv, MenuAssumption, NEW c \in Consoles,
           \/ Start(c) \/ Lock(c) \/ ReadState(c) \/ FindPlans(c)
           \/ CheckAbsent(c)
    PROVE  UInv'
  <1>0. /\ config' = config /\ file' = file /\ late' = late /\ TypeOK
        /\ Fits(proc[c]) /\ Reads(c) /\ Undone(c)
    BY Here DEF IInv, UInv, Start, Lock, ReadState, FindPlans, CheckAbsent
  <1>1. CASE Start(c)
    <2>1. Only(c) /\ proc'[c].at \in {"list", "lock"}
      BY <1>0, <1>1, StartMoves
    <2> QED  BY <1>0, <2>1, IdleClears DEF Writing
  <1>2. CASE Lock(c)
    <2>1. CASE Passes(c, "readState")
      BY <1>0, <2>1, IdleClears DEF Passes, Becomes, Writing
    <2> QED  BY <1>0, <1>2, <2>1, LockMoves, FailingClears
  <1>3. CASE ReadState(c)
    <2>1. PICK point \in {"orphans", "removing", "plans", "plansNow"} :
             Passes(c, point)
      BY <1>0, <1>3, ReadStateMoves
    <2> QED  BY <1>0, <2>1, IdleClears DEF Passes, Becomes, Writing
  <1>4. CASE FindPlans(c)
    <2>1. CASE Becomes(c, proc[c].cmd, "absent", proc[c].step, proc[c].undo,
                       config["anchor"])
      <3>1. proc[c].at = "plans"
        BY <1>4 DEF FindPlans, At
      <3>2. ~config["anchor"].on
        BY <1>0, <3>1 DEF Reads, UInv, Cleared, NothingLeftBehind
      <3>3. Only(c) /\ Undone(c)'
        BY <2>1, <3>2 DEF Becomes, Undone, Writing
      <3> QED  BY <1>0, <3>3, IdleClears
    <2> QED  BY <1>0, <1>4, <2>1, FindPlansMoves, FailingClears
  <1>5. CASE CheckAbsent(c)
    <2>1. CASE \/ Becomes(c, proc[c].cmd, "absent", 2, proc[c].undo,
                          proc[c].found)
               \/ Becomes(c, proc[c].cmd, "save", 1, proc[c].undo,
                          proc[c].found)
      <3>1. ~proc[c].found.on
        BY <1>0, <1>5 DEF Undone, CheckAbsent, At
      <3>2. Only(c) /\ Undone(c)'
        BY <2>1, <3>1 DEF Becomes, Undone, Writing
      <3> QED  BY <1>0, <3>2, IdleClears
    <2> QED  BY <1>0, <1>5, <2>1, CheckAbsentMoves, FailingClears
  <1> QED  BY <1>1, <1>2, <1>3, <1>4, <1>5

\* The state file is written: by who holds the lock, and it is removed last.
LEMMA SavingClears ==
    ASSUME IInv, UInv, NEW c \in Consoles, Save(c) \/ SavePhase(c) \/ Unlink(c)
    PROVE  UInv'
  <1>0. /\ config' = config /\ late' = late /\ TypeOK
        /\ Fits(proc[c]) /\ Reads(c) /\ Undone(c) /\ Cleared
        /\ proc[c].at \in {"save", "active", "partial", "removing", "unlink"}
        /\ Holding(c)
    BY Here DEF IInv, UInv, Save, SavePhase, Unlink, At, Holding, Points, Fits
  <1>1. Spares(c)
    BY <1>0 DEF Spares
  <1>2. CASE Save(c)
    <2>1. /\ proc[c].at = "save"
          /\ file' = [phase |-> "prepared", original |-> proc[c].found]
      BY <1>2 DEF Save, At
    <2>2. ~proc[c].undo /\ ~proc[c].found.on
      BY <1>0, <2>1 DEF Fits, Undone, Writing
    <2>3. file'.original = proc[c].found /\ file' # NoFile
      BY <2>1 DEF NoFile
    <2>4. Becomes(c, proc[c].cmd, "get", proc[c].step, proc[c].undo, Absent)
      BY <1>0, <1>2, SaveMoves
    <2>5. Only(c) /\ Undone(c)'
      BY <2>2, <2>4 DEF Becomes, Undone, Writing
    <2>6. Cleared'
      BY <1>0, <2>2, <2>3 DEF Cleared, NothingLeftBehind
    <2> QED  BY <1>1, <2>5, <2>6, CommandClears
  <1>3. CASE SavePhase(c)
    <2>1. proc[c].at \in {"active", "partial", "removing"}
      BY <1>3 DEF SavePhase, At
    <2>2. file \in Files /\ file # NoFile /\ ~file.original.on
      BY <1>0, <2>1, FileTyped DEF Reads, Cleared
    <2>3. PICK phase \in {"active", "partial", "removing"} :
             file' = [file EXCEPT !.phase = phase]
      BY <1>3 DEF SavePhase
    <2>4. file'.original = file.original /\ file'.phase = phase
      BY <2>2, <2>3 DEF Files
    <2>5. Cleared'
      BY <1>0, <2>2, <2>4 DEF Cleared, NothingLeftBehind, NoFile
    <2>6. \/ Passes(c, "plansAgain")
          \/ Becomes(c, proc[c].cmd, "get", 1, TRUE, proc[c].found)
      BY <1>0, <1>3, SavePhaseMoves
    <2>7. Only(c) /\ Undone(c)'
      BY <2>6 DEF Passes, Becomes, Undone, Writing
    <2> QED  BY <1>1, <2>5, <2>7, CommandClears
  <1>4. CASE Unlink(c)
    <2>1. proc[c].at = "unlink" /\ file' = NoFile
      BY <1>4 DEF Unlink, At
    <2>2. /\ config["agent"] = Absent /\ config["workflow"] = Absent
          /\ ~config["anchor"].on
      BY <1>0, <2>1 DEF Undone, Fits
    <2>3. Cleared'
      BY <1>0, <2>1, <2>2 DEF Cleared, NothingLeftBehind
    <2>4. Stops(c)
      BY <1>0, <1>4, UnlinkMoves
    <2>5. Only(c) /\ Undone(c)'
      BY <2>4 DEF Stops, Ends, Undone, Writing
    <2> QED  BY <1>1, <2>3, <2>5, CommandClears
  <1> QED  BY <1>2, <1>3, <1>4

\* Looking at the plans, provisioning without writing, failing, being killed.
LEMMA LookingClears ==
    ASSUME IInv, UInv, NEW c \in Consoles,
           \/ Orphans(c) \/ StatusPlans(c) \/ StatusParts(c)
           \/ ListPlans(c) \/ ConfirmAnchor(c) \/ Fail(c) \/ Kill(c)
    PROVE  UInv'
  <1>0. /\ config' = config /\ file' = file /\ late' = late /\ TypeOK
        /\ Fits(proc[c])
    BY Here DEF IInv, Orphans, StatusPlans, StatusParts, ListPlans,
                ConfirmAnchor, Fail, Kill
  <1>1. CASE StatusPlans(c)
    BY <1>0, <1>1, StatusPlansMoves, IdleClears DEF Passes, Becomes, Writing
  <1>2. CASE Kill(c)
    BY <1>0, <1>2, KillMoves, IdleClears DEF Ends, Writing
  <1>3. CASE ListPlans(c) \/ ConfirmAnchor(c)
    BY <1>0, <1>3, ProvisionMoves, IdleClears DEF Passes, Becomes, Writing
  <1>4. CASE Orphans(c) \/ StatusParts(c)
    BY <1>0, <1>4, UnlinkMoves, StatusPartsMoves, FailingClears
  <1>5. CASE Fail(c)
    <2>1. CASE Goto(c, "list")
      <3>1. Only(c) /\ proc'[c].at = "list"
        BY <1>0, <2>1, GotoMoves DEF Becomes, Points
      <3> QED  BY <1>0, <3>1, IdleClears DEF Writing
    <2> QED  BY <1>0, <1>5, <2>1, RaiseMoves, FailingClears DEF Fail
  <1> QED  BY <1>1, <1>2, <1>3, <1>4, <1>5

\* The requests, but the writes.
LEMMA AskingClears ==
    ASSUME IInv, UInv, NEW c \in Consoles, Get(c) \/ Verify(c)
    PROVE  UInv'
  <1>0. /\ config' = config /\ file' = file /\ late' = late /\ TypeOK
        /\ Undone(c)
    BY DEF IInv, UInv, Get, Verify
  <1>1. CASE Get(c)
    <2>1. At(c, "get")
      BY <1>1 DEF Get
    <2>2. CASE Passes(c, "put")
      <3>1. Only(c) /\ Undone(c)'
        BY <1>0, <2>1, <2>2 DEF Passes, Becomes, Undone, At, Writing
      <3> QED  BY <1>0, <3>1, IdleClears
    <2> QED  BY <1>0, <1>1, <2>1, <2>2, GetMoves, AdvancingClears,
                FailingClears
  <1>2. CASE Verify(c)
    <2>1. At(c, "verify")
      BY <1>2 DEF Verify
    <2> QED  BY <1>0, <1>2, <2>1, VerifyMoves, AdvancingClears, FailingClears
  <1> QED  BY <1>1, <1>2

\* The writes of an installation or a removal: there is a state file, and what
\* was undone is not written again.
LEMMA WritingClears ==
    ASSUME IInv, UInv, ~Delays, NEW c \in Consoles, Put(c) \/ PutUnanswered(c)
    PROVE  UInv'
  <1>0. /\ file' = file /\ file # NoFile /\ TypeOK /\ Undone(c) /\ At(c, "put")
        /\ Holding(c) /\ late = {} /\ ~file.original.on
        /\ proc[c].step \in {1, 2, 3, 4}
    BY Here, Requests
       DEF IInv, UInv, Cleared, Put, PutUnanswered, Holding, Points, At,
           Reads, Writing, Fits
  <1>1. ASSUME NEW version \in Stored(Step(c)), Write(Step(c).path, version),
               Only(c),
               Passes(c, "verify") \/ proc'[c].at \in Ends \cup {"partial"}
        PROVE  UInv'
    <2> DEFINE p == proc[c]
               s == Step(c)
    <2>1. Cleared' /\ Spares(c)
      BY <1>0, <1>1
         DEF Cleared, UInv, NothingLeftBehind, Write, Spares
    <2>2. CASE Passes(c, "verify")
      <3>1. /\ config'["workflow"] = IF s.path = "workflow" THEN version
                                     ELSE config["workflow"]
            /\ config'["anchor"] = IF s.path = "anchor" THEN version
                                   ELSE config["anchor"]
        BY <1>0, <1>1 DEF Write, TypeOK, Paths
      <3> HIDE DEF s
      <3>2. p.undo => /\ p.step = 3 => s.path = "workflow"
                      /\ p.step = 4 => s.path = "agent"
        BY <1>0, Requests DEF s
      <3> QED  BY <1>0, <2>1, <2>2, <3>1, <3>2, <1>1, CommandClears
               DEF Undone, Passes, Becomes, At, Writing
    <2>3. CASE proc'[c].at \in Ends \cup {"partial"}
      <3>1. Undone(c)'
        BY <2>3 DEF Undone, Ends, Writing
      <3> QED  BY <1>1, <2>1, <3>1, CommandClears
    <2> QED  BY <1>1, <2>2, <2>3
  <1>2. CASE Put(c)
    <2>1. CASE (Stops(c) \/ RollsBack(c)) /\ UNCHANGED <<config, late>>
      BY <1>0, <2>1, FailingClears
    <2>2. CASE /\ Passes(c, "verify")
               /\ \E version \in Stored(Step(c)) : Write(Step(c).path, version)
      BY <1>1, <2>2 DEF Passes, Becomes
    <2> QED  BY <1>0, <1>2, <2>1, <2>2, PutMoves
  <1>3. CASE PutUnanswered(c)
    <2>1. Write(Step(c).path, Step(c).to)
      BY <1>3 DEF PutUnanswered, Postpone
    <2>2. Only(c) /\ proc'[c].at \in Ends \cup {"partial"}
      BY <1>0, <1>3, PutUnansweredMoves DEF Passes, Becomes, Ends
    <2>3. Step(c).to \in Stored(Step(c))
      BY DEF Stored
    <2> QED  BY <1>1, <2>1, <2>2, <2>3
  <1> QED  BY <1>2, <1>3

\* Provisioning replaces the plan by one without a filter, lock or no lock.
LEMMA ProvisionClears ==
    ASSUME IInv, UInv, ~Delays, NEW c \in Consoles, CreateAnchor(c)
    PROVE  UInv'
  <1>1. TypeOK /\ file' = file /\ Write("anchor", Off)
    BY DEF IInv, CreateAnchor, Postpone
  <1>2. /\ config'["workflow"] = config["workflow"]
        /\ config'["agent"] = config["agent"]
        /\ ~config'["anchor"].on /\ late' = {}
    BY <1>1, VersionsTyped DEF TypeOK, Paths, Write, UInv, Cleared
  <1>3. PICK point \in {"list", "create", "confirm", "plansNow", "ok"} :
           Only(c) /\ proc'[c].at = point
    BY <1>1, ProvisionMoves DEF Passes, Becomes
  <1>4. Undone(c)' /\ Spares(c)
    BY <1>2, <1>3 DEF Undone, Spares, Writing
  <1>5. Cleared'
    BY <1>1, <1>2 DEF UInv, Cleared, NothingLeftBehind
  <1> QED  BY <1>3, <1>4, <1>5, CommandClears

\* An edit in the portal neither adds a component nor sets a filter.
LEMMA EditClears ==
    ASSUME IInv, UInv, PortalEdit
    PROVE  UInv'
  <1> DEFINE V(path) == [config[path] EXCEPT !.base = "edited"]
  <1>1. PICK path \in Paths : /\ config[path] # Absent
                              /\ Write(path, V(path))
                              /\ proc' = Stale(path)
    BY DEF PortalEdit
  <1>2. file' = file /\ TypeOK
    BY DEF PortalEdit, IInv
  <1>3. V(path).on = config[path].on
    <2>1. config[path] \in Versions
      BY <1>1, <1>2 DEF TypeOK
    <2> QED  BY <2>1 DEF Versions
  <1> HIDE DEF V
  <1>4. \A p \in Paths : config'[p] = IF p = path THEN V(path) ELSE config[p]
    BY <1>1, <1>2 DEF Write, TypeOK
  <1>5. \A p \in Paths : /\ config'[p].on = config[p].on
                         /\ config[p] = Absent => config'[p] = Absent
    BY <1>1, <1>3, <1>4
  <1>6. "anchor" \in Paths /\ "workflow" \in Paths /\ "agent" \in Paths
    BY DEF Paths
  <1>7. Cleared'
    BY <1>1, <1>2, <1>5, <1>6
       DEF UInv, Cleared, NothingLeftBehind, Write
  <1>8. ASSUME NEW d \in Consoles
        PROVE  Undone(d)'
    <2>1. Alike(proc'[d], proc[d]) /\ Undone(d)
      BY <1>1, <1>2, StaleAlike DEF UInv
    <2> QED  BY <1>5, <1>6, <2>1 DEF Undone, Alike
  <1> QED  BY <1>7, <1>8 DEF UInv

\* Every step keeps it.
LEMMA NextUInv ==
    ASSUME IInv, UInv, MenuAssumption, ~Delays, [Next]_vars
    PROVE  UInv'
  <1>1. ASSUME UNCHANGED <<config, file, proc, late>>
        PROVE  UInv'
    BY <1>1 DEF UInv, Cleared, NothingLeftBehind, Undone
  <1>2. CASE RemoveStaleLock \/ UNCHANGED vars
    BY <1>1, <1>2 DEF RemoveStaleLock, vars
  <1>3. CASE LateApplied
    BY <1>3 DEF LateApplied, UInv, Cleared
  <1>4. ASSUME NEW c \in Consoles, Command(c)
        PROVE  UInv'
    BY <1>4, PreparingClears, SavingClears, LookingClears, AskingClears,
       WritingClears, ProvisionClears DEF Command
  <1> QED  BY <1>2, <1>3, <1>4, EditClears DEF Next

\* Without a state file there is nothing to undo: every component that was
\* installed is gone and the original plan is unfiltered.  Provisioning may
\* run at any time; no request is applied after it timed out.
THEOREM NothingLeftCorrect == ~Delays => (Spec => []NothingLeftBehind)
  <1>1. SUFFICES ASSUME ~Delays PROVE Spec => []NothingLeftBehind
    OBVIOUS
  <1>2. Init => UInv
    <2> SUFFICES ASSUME Init PROVE UInv
      OBVIOUS
    <2>1. /\ late = {} /\ file = NoFile
          /\ config["agent"] = Absent /\ config["workflow"] = Absent
          /\ config["anchor"] \in {Absent, Off}
      BY DEF Init, Paths
    <2>2. Cleared
      BY <2>1, VersionsTyped DEF Cleared, NothingLeftBehind
    <2>3. \A c \in Consoles : proc[c].at = "idle"
      BY EndedTyped DEF Init, Commands, Ends
    <2> QED  BY <2>2, <2>3 DEF UInv, Undone, Writing
  <1>3. IInv /\ UInv /\ [Next]_vars => UInv'
    BY <1>1, NextUInv, MenuAssumption
  <1>4. UInv => NothingLeftBehind
    BY DEF UInv, Cleared
  <1> QED  BY <1>2, <1>3, <1>4, Invariant, PTL DEF Spec
-----------------------------------------------------------------------------
(* Installations and removals only: how far they have got.                 *)

\* A console whose request is the same.
LEMMA SameStep ==
    ASSUME NEW d, proc'[d].undo = proc[d].undo, proc'[d].step = proc[d].step,
           file' = file
    PROVE  Step(d)' = Step(d)
  BY DEF Step, InstallSteps, RemoveSteps, Partitioned

\* What holds of a console that is not in the middle of the requests.
Quiet == Ends \cup {"lock", "readState", "plans", "orphans", "removing",
                    "partial", "plansNow", "partsNow"}

\* Nothing more is asked of it.
LEMMA QuietProgress ==
    ASSUME NEW c, proc'[c].cmd # "provision", proc'[c].at \in Quiet
    PROVE  Progress(c)' /\ Compared(c)'
  BY DEF Progress, Compared, Quiet, Ends, Writing, At

\* The other consoles: either nothing they know changes, or they do not hold
\* the lock.
LEMMA OthersProgress ==
    ASSUME IInv, NEW c \in Consoles, NEW d \in Consoles, d # c, Only(c),
           Progress(d), Compared(d),
           (config' = config /\ file' = file) \/ Holding(c)
    PROVE  Progress(d)' /\ Compared(d)'
  <1>1. Alike(proc'[d], proc[d]) /\ proc[d].cmd # "provision"
    BY DEF Only, Progress
  <1>2. CASE config' = config /\ file' = file
    <2>1. Progress(d)'
      BY <1>1, <1>2 DEF Progress, Alike
    <2>2. Step(d)' = Step(d)
      BY <1>1, <1>2, SameStep DEF Alike
    <2>3. Compared(d)'
      BY <1>1, <1>2, <2>2 DEF Compared, Alike, At
    <2> QED  BY <2>1, <2>3
  <1>3. CASE Holding(c)
    <2>1. ~Holding(d)
      BY <1>3, Here
    <2>2. proc[d].at \in Quiet
      BY <1>1, <2>1, Here DEF Holding, Quiet, Procs
    <2> QED  BY <1>1, <2>2, QuietProgress DEF Alike
  <1> QED  BY <1>2, <1>3

\* Nothing that the routing depends on changes.
LEMMA RoutingStays ==
    ASSUME Routing, config' = config, file' = file, late' = late
    PROVE  Routing'
  BY DEF Routing, NoOverlap, NothingLeftBehind, ActiveMeansRouted

\* A request is written: the filter and the dedicated plan are in order.
LEMMA WriteRoutes ==
    ASSUME IInv, SInv, NEW c \in Consoles, At(c, "put"),
           NEW version \in Stored(Step(c)), Write(Step(c).path, version),
           file' = file
    PROVE  /\ Routing'
           /\ Passes(c, "verify") => Progress(c)'
  <1> DEFINE p == proc[c]
             s == Step(c)
  <1>1. /\ TypeOK /\ p.at = "put" /\ file # NoFile /\ Progress(c) /\ Routing
        /\ p.at \in Writing
    BY Here DEF IInv, SInv, Reads, At, Writing
  <1>2. /\ version = s.to \/ (s.path = "anchor" /\ ~version.on)
    BY <1>1, StoredTyped
  <1>3. /\ config'["agent"] = IF s.path = "agent" THEN version
                              ELSE config["agent"]
        /\ config'["workflow"] = IF s.path = "workflow" THEN version
                                 ELSE config["workflow"]
        /\ config'["anchor"] = IF s.path = "anchor" THEN version
                               ELSE config["anchor"]
    BY <1>1 DEF Write, TypeOK, Paths
  <1>4. late' = {}
    BY <1>1 DEF Write, Routing
  <1>5. file.phase # "active" /\ ~file.original.on
    BY <1>1 DEF Progress, Routing, Writing
  <1>6. ~Absent.on /\ ~Off.on /\ On.on
    BY VersionsTyped
  <1> HIDE DEF s
  <1>7. CASE ~p.undo
    <2>1. /\ p.step = 1 => s.path = "agent" /\ s.to = On
          /\ p.step = 2 => s.path = "workflow" /\ s.to = Off
          /\ p.step = 3 => s.path = "anchor"
          /\ p.step = 4 => s.path = "workflow" /\ s.to = On
          /\ p.step \in {1, 2, 3, 4}
      BY <1>1, <1>7, Requests DEF s
    <2>2. NoOverlap'
      BY <1>1, <1>2, <1>3, <1>6, <1>7, <2>1
         DEF Routing, NoOverlap, Progress
    <2>3. Passes(c, "verify") => Progress(c)'
      BY <1>1, <1>2, <1>3, <1>6, <1>7, <2>1
         DEF Progress, Passes, Becomes, Writing
    <2> QED  BY <1>1, <1>4, <1>5, <2>2, <2>3
             DEF Routing, NothingLeftBehind, ActiveMeansRouted
  <1>8. CASE p.undo
    <2>1. /\ p.step = 1 => s.path = "workflow" /\ s.to = Off
          /\ p.step = 2 => s.path = "anchor"
          /\ p.step = 3 => s.path = "workflow" /\ s.to = Absent
          /\ p.step = 4 => s.path = "agent" /\ s.to = Absent
          /\ p.step \in {1, 2, 3, 4}
      BY <1>1, <1>8, Requests DEF s
    <2>2. NoOverlap'
      BY <1>1, <1>2, <1>3, <1>6, <1>8, <2>1
         DEF Routing, NoOverlap, Progress
    <2>3. Passes(c, "verify") => Progress(c)'
      BY <1>1, <1>2, <1>3, <1>6, <1>8, <2>1
         DEF Progress, Passes, Becomes, Writing
    <2> QED  BY <1>1, <1>4, <1>5, <2>2, <2>3
             DEF Routing, NothingLeftBehind, ActiveMeansRouted
  <1> QED  BY <1>1, <1>7, <1>8, Requests

\* A step that leaves the components alone loses no edit.
LEMMA SameKeepsEdits ==
    ASSUME config' = config
    PROVE  KeepsEdits
  BY DEF KeepsEdits

\* A creation compares with nothing else.
LEMMA OneSource ==
    ASSUME IInv, NEW c \in Consoles, At(c, "get"), Absent \in Step(c).from
    PROVE  Step(c).from = {Absent}
  <1>1. TypeOK /\ file # NoFile
    BY Here DEF IInv, Reads, At, Writing
  <1>2. file.original \in Versions /\ Partitioned \in Versions
    BY <1>1, FileTyped
  <1> QED  BY <1>1, <1>2, Requests, VersionsTyped

\* What is written over an edited component keeps the edit, unless the GET had
\* no ETag and the edit came after it.
LEMMA WriteKeepsEdits ==
    ASSUME IInv, NEW c \in Consoles, Compared(c), At(c, "put"), Matched(c),
           NEW version \in Stored(Step(c)), Write(Step(c).path, version),
           proc'[c].at # "put"
    PROVE  KeepsEdits
  <1> DEFINE s == Step(c)
  <1>1. TypeOK /\ file # NoFile
    BY Here DEF IInv, Reads, At, Writing
  <1>2. version.base = s.to.base /\ s.path \in Paths
    BY <1>1, StoredTyped, StepTyped
  <1>3. /\ Partitioned.base = file.original.base
        /\ Absent.base = "none" /\ On.base = "repo" /\ Off.base = "repo"
    BY <1>1, FileTyped, VersionsTyped
  <1>4. \/ config[s.path] = Absent \/ config[s.path] \in s.from
        \/ Absent \notin s.from /\ ~proc[c].etag /\ ~proc[c].fresh
    BY DEF Compared, Matched
  <1>5. \A p \in Paths : config'[p] = IF p = s.path THEN version ELSE config[p]
    BY <1>1 DEF Write, TypeOK
  <1> HIDE DEF s
  <1>6. CASE config[s.path] = Absent \/ config[s.path] \in s.from
    <2>1. config[s.path].base = "edited" => s.to.base = "edited"
      <3>1. CASE config[s.path] = Absent
        BY <1>3, <3>1
      <3>2. CASE config[s.path] \in s.from
        BY <1>1, <1>3, <3>2, Requests DEF s
      <3> QED  BY <1>6, <3>1, <3>2
    <2> QED  BY <1>2, <1>5, <2>1 DEF KeepsEdits
  <1>7. CASE Absent \notin s.from /\ ~proc[c].etag /\ ~proc[c].fresh
    <2>1. Unguarded(c, s.path)
      BY <1>7 DEF Unguarded, s
    <2> QED  BY <1>5, <2>1 DEF KeepsEdits
  <1> QED  BY <1>4, <1>6, <1>7

\* What a step that leaves the components alone has to show.
LEMMA Onwards ==
    ASSUME IInv, SInv, NEW c \in Consoles, Only(c), Progress(c)', Compared(c)',
           config' = config, late' = late, file' = file
    PROVE  SInv'
  <1>1. Routing'
    BY RoutingStays DEF SInv
  <1>2. \A d \in Consoles : Progress(d)' /\ Compared(d)'
    BY OthersProgress DEF SInv
  <1> QED  BY <1>1, <1>2 DEF SInv

\* A step of a command that does not write, and stops, fails or goes where
\* nothing is asked of it.
LEMMA QuietStep ==
    ASSUME IInv, SInv, NEW c \in Consoles, Only(c), proc'[c].cmd # "provision",
           proc'[c].at \in Quiet,
           config' = config, late' = late, file' = file
    PROVE  SInv'
  BY QuietProgress, Onwards

\* Stopping and failing are such steps.
LEMMA FailingStep ==
    ASSUME IInv, SInv, NEW c \in Consoles, Stops(c) \/ RollsBack(c),
           config' = config, late' = late, file' = file
    PROVE  SInv'
  <1>1. Only(c) /\ proc'[c].cmd = proc[c].cmd /\ proc'[c].at \in Quiet
    BY DEF Stops, RollsBack, Becomes, Quiet
  <1> QED  BY <1>1, QuietStep DEF SInv, Progress

\* The next request, once the last one is seen to be done.
LEMMA AdvancingStep ==
    ASSUME IInv, SInv, NEW c \in Consoles, Advances(c),
           At(c, "get") \/ At(c, "verify"),
           \/ config[Step(c).path] = Step(c).to
           \/ /\ proc[c].undo /\ proc[c].step = 1
              /\ ~config[Step(c).path].on,
           config' = config, late' = late, file' = file
    PROVE  SInv'
  <1> DEFINE p == proc[c]
             s == Step(c)
  <1>1. /\ TypeOK /\ p.at \in {"get", "verify"} /\ file # NoFile /\ Progress(c)
        /\ Partitioned.on /\ ~file.original.on
    BY Here, FileTyped DEF IInv, SInv, Reads, At, Writing, Routing
  <1>2. /\ Only(c) /\ proc'[c].cmd = p.cmd /\ proc'[c].undo = p.undo
        /\ \/ proc'[c].at = "get" /\ p.step < 4 /\ proc'[c].step = p.step + 1
           \/ /\ proc'[c].at = "unlink" /\ p.undo /\ p.step = 4
              /\ proc'[c].step = p.step
           \/ /\ proc'[c].at = "active" /\ ~p.undo /\ p.step = 4
              /\ proc'[c].step = p.step
    BY DEF Advances, Becomes, Passes
  <1>3. ~Absent.on /\ ~Off.on /\ On.on
    BY VersionsTyped
  <1> HIDE DEF s
  <1>4. Progress(c)'
    <2>1. CASE ~p.undo
      <3>1. /\ p.step = 1 => s.path = "agent" /\ s.to = On
            /\ p.step = 2 => s.path = "workflow" /\ s.to = Off
            /\ p.step = 3 => s.path = "anchor" /\ s.to = Partitioned
            /\ p.step = 4 => s.path = "workflow" /\ s.to = On
            /\ p.step \in {1, 2, 3, 4}
        BY <1>1, <2>1, Requests DEF s
      <3>2. config[s.path] = s.to
        BY <2>1 DEF s
      <3> QED  BY <1>1, <1>2, <1>3, <2>1, <3>1, <3>2 DEF Progress, Writing
    <2>2. CASE p.undo
      <3>1. /\ p.step = 1 => s.path = "workflow" /\ s.to = Off
            /\ p.step = 2 => s.path = "anchor" /\ s.to = file.original
            /\ p.step = 3 => s.path = "workflow" /\ s.to = Absent
            /\ p.step = 4 => s.path = "agent" /\ s.to = Absent
            /\ p.step \in {1, 2, 3, 4}
        BY <1>1, <2>2, Requests DEF s
      <3>2. config[s.path] = s.to \/ (p.step = 1 /\ ~config[s.path].on)
        BY <2>2 DEF s
      <3> QED  BY <1>1, <1>2, <1>3, <2>2, <3>1, <3>2 DEF Progress, Writing
    <2> QED  BY <1>1, <2>1, <2>2, Requests
  <1>5. Compared(c)'
    BY <1>2 DEF Compared, At
  <1> QED  BY <1>2, <1>4, <1>5, Onwards

\* The steps before the first request.
LEMMA PreparingProgress ==
    ASSUME IInv, SInv, MenuAssumption, Alone, NEW c \in Consoles,
           \/ Start(c) \/ Lock(c) \/ ReadState(c) \/ FindPlans(c)
           \/ CheckAbsent(c)
    PROVE  SInv'
  <1>0. /\ config' = config /\ file' = file /\ late' = late /\ TypeOK
        /\ Fits(proc[c]) /\ Reads(c) /\ Progress(c)
        /\ proc[c].cmd # "provision"
    BY Here DEF IInv, SInv, Progress, Start, Lock, ReadState, FindPlans,
                CheckAbsent
  <1>1. CASE Start(c)
    <2>1. Only(c) /\ proc'[c].cmd # "provision" /\ proc'[c].at \in Quiet
      BY <1>0, <1>1, StartMoves DEF Alone, Quiet
    <2> QED  BY <1>0, <2>1, QuietStep
  <1>2. CASE Lock(c)
    <2>1. CASE Passes(c, "readState")
      BY <1>0, <2>1, QuietStep DEF Passes, Becomes, Quiet
    <2> QED  BY <1>0, <1>2, <2>1, LockMoves, FailingStep
  <1>3. CASE ReadState(c)
    <2>1. PICK point \in {"orphans", "removing", "plans", "plansNow"} :
             Passes(c, point)
      BY <1>0, <1>3, ReadStateMoves
    <2>2. Only(c) /\ proc'[c].cmd # "provision" /\ proc'[c].at \in Quiet
      BY <1>0, <2>1 DEF Passes, Becomes, Quiet
    <2> QED  BY <1>0, <2>2, QuietStep
  <1>4. CASE FindPlans(c)
    <2>1. CASE Becomes(c, proc[c].cmd, "absent", proc[c].step, proc[c].undo,
                       config["anchor"])
      <3>1. proc[c].at = "plans"
        BY <1>4 DEF FindPlans, At
      <3>2. ~config["anchor"].on /\ ~proc[c].undo
        BY <1>0, <3>1 DEF Reads, SInv, Routing, NothingLeftBehind, Fits, Writing
      <3>3. Only(c) /\ Progress(c)' /\ Compared(c)'
        BY <1>0, <2>1, <3>2 DEF Becomes, Progress, Compared, At, Writing
      <3> QED  BY <1>0, <3>3, Onwards
    <2> QED  BY <1>0, <1>4, <2>1, FindPlansMoves, FailingStep
  <1>5. CASE CheckAbsent(c)
    <2>1. CASE \/ Becomes(c, proc[c].cmd, "absent", 2, proc[c].undo,
                          proc[c].found)
               \/ Becomes(c, proc[c].cmd, "save", 1, proc[c].undo,
                          proc[c].found)
      <3>1. proc[c].at = "absent"
        BY <1>5 DEF CheckAbsent, At
      <3>2. ~proc[c].found.on
        BY <1>0, <3>1 DEF Progress
      <3>3. Only(c) /\ Progress(c)' /\ Compared(c)'
        BY <1>0, <2>1, <3>2 DEF Becomes, Progress, Compared, At, Writing
      <3> QED  BY <1>0, <3>3, Onwards
    <2> QED  BY <1>0, <1>5, <2>1, CheckAbsentMoves, FailingStep
  <1> QED  BY <1>1, <1>2, <1>3, <1>4, <1>5

\* The state file is written: by who holds the lock.
LEMMA SavingProgress ==
    ASSUME IInv, SInv, NEW c \in Consoles, Save(c) \/ SavePhase(c) \/ Unlink(c)
    PROVE  SInv'
  <1>0. /\ config' = config /\ late' = late /\ TypeOK
        /\ Fits(proc[c]) /\ Reads(c) /\ Progress(c) /\ Routing
        /\ proc[c].cmd # "provision"
        /\ proc[c].at \in {"save", "active", "partial", "removing", "unlink"}
        /\ Holding(c)
    BY Here DEF IInv, SInv, Progress, Save, SavePhase, Unlink, At, Holding,
                Points
  <1>1. ASSUME Only(c), Progress(c)', Compared(c)', Routing'
        PROVE  SInv'
    BY <1>0, <1>1, OthersProgress DEF SInv
  <1>2. CASE Save(c)
    <2>1. /\ proc[c].at = "save"
          /\ file' = [phase |-> "prepared", original |-> proc[c].found]
      BY <1>2 DEF Save, At
    <2>2. /\ file = NoFile /\ proc[c].step = 1 /\ ~proc[c].undo
          /\ ~proc[c].found.on
      BY <1>0, <2>1 DEF Fits, Reads, Progress, Writing
    <2>3. /\ config["agent"] = Absent /\ config["workflow"] = Absent
          /\ ~config["anchor"].on /\ ~Absent.on
      BY <1>0, <2>2, VersionsTyped DEF Routing, NothingLeftBehind
    <2>4. /\ file'.phase = "prepared" /\ ~file'.original.on /\ file' # NoFile
      BY <2>1, <2>2 DEF NoFile
    <2>5. Routing'
      BY <1>0, <2>3, <2>4
         DEF Routing, NoOverlap, NothingLeftBehind, ActiveMeansRouted
    <2>6. Becomes(c, proc[c].cmd, "get", proc[c].step, proc[c].undo, Absent)
      BY <1>0, <1>2, SaveMoves
    <2>7. Only(c) /\ Progress(c)' /\ Compared(c)'
      BY <1>0, <2>2, <2>3, <2>4, <2>6
         DEF Becomes, Progress, Compared, At, Writing
    <2> QED  BY <1>1, <2>5, <2>7
  <1>3. CASE SavePhase(c)
    <2>1. proc[c].at \in {"active", "partial", "removing"}
      BY <1>3 DEF SavePhase, At
    <2>2. file \in Files /\ file # NoFile /\ ~file.original.on
      BY <1>0, <2>1, FileTyped DEF Reads, Routing
    <2>3. ASSUME NEW phase \in {"active", "partial", "removing"},
                 file' = [file EXCEPT !.phase = phase],
                 phase = "active" => /\ config["anchor"].on
                                     /\ config["workflow"].on
                                     /\ config["agent"].on
          PROVE  Routing' /\ file'.phase = phase
      <3>1. file'.phase = phase /\ file'.original = file.original
        BY <2>2, <2>3 DEF Files
      <3>2. file' # NoFile
        BY <3>1 DEF NoFile
      <3> QED  BY <1>0, <2>2, <2>3, <3>1, <3>2
               DEF Routing, NoOverlap, NothingLeftBehind, ActiveMeansRouted
    <2>4. CASE At(c, "active")
      <3>1. /\ Passes(c, "plansAgain")
            /\ file' = [file EXCEPT !.phase = "active"]
        BY <1>0, <1>3, <2>4, SavePhaseMoves DEF At
      <3>2. /\ config["anchor"].on /\ config["workflow"].on
            /\ config["agent"].on /\ ~proc[c].undo
        BY <1>0, <2>4 DEF Progress, At, Fits, Writing
      <3>3. Routing' /\ file'.phase = "active"
        BY <2>3, <3>1, <3>2
      <3>4. Only(c) /\ Progress(c)' /\ Compared(c)'
        BY <1>0, <3>1, <3>2, <3>3
           DEF Passes, Becomes, Progress, Compared, At, Writing
      <3> QED  BY <1>1, <3>3, <3>4
    <2>5. CASE At(c, "partial") \/ At(c, "removing")
      <3>1. /\ Becomes(c, proc[c].cmd, "get", 1, TRUE, proc[c].found)
            /\ \/ file' = [file EXCEPT !.phase = "partial"]
               \/ file' = [file EXCEPT !.phase = "removing"]
        BY <1>0, <1>3, <2>5, SavePhaseMoves DEF At
      <3>2. Routing' /\ file'.phase \in {"partial", "removing"}
        BY <2>3, <3>1
      <3>3. Only(c) /\ Progress(c)' /\ Compared(c)'
        BY <1>0, <3>1, <3>2
           DEF Becomes, Progress, Compared, At, Writing
      <3> QED  BY <1>1, <3>2, <3>3
    <2> QED  BY <2>1, <2>4, <2>5 DEF At
  <1>4. CASE Unlink(c)
    <2>1. proc[c].at = "unlink" /\ file' = NoFile
      BY <1>4 DEF Unlink, At
    <2>2. /\ config["agent"] = Absent /\ config["workflow"] = Absent
          /\ ~config["anchor"].on
      BY <1>0, <2>1 DEF Progress, Fits
    <2>3. Routing'
      BY <1>0, <2>1, <2>2, VersionsTyped
         DEF Routing, NoOverlap, NothingLeftBehind, ActiveMeansRouted, NoFile
    <2>4. Stops(c)
      BY <1>0, <1>4, UnlinkMoves
    <2>5. Only(c) /\ Progress(c)' /\ Compared(c)'
      <3>1. /\ Only(c) /\ proc'[c].cmd # "provision"
            /\ proc'[c].at \in Quiet
        BY <1>0, <2>4 DEF Stops, Quiet
      <3> QED  BY <3>1, QuietProgress
    <2> QED  BY <1>1, <2>3, <2>5
  <1> QED  BY <1>2, <1>3, <1>4

\* Looking at the plans, failing and being killed.
LEMMA LookingProgress ==
    ASSUME IInv, SInv, NEW c \in Consoles,
           \/ Orphans(c) \/ StatusPlans(c) \/ StatusParts(c)
           \/ Fail(c) \/ Kill(c)
    PROVE  SInv'
  <1>0. /\ config' = config /\ file' = file /\ late' = late /\ TypeOK
        /\ Progress(c) /\ Fits(proc[c]) /\ proc[c].cmd # "provision"
    BY Here DEF IInv, SInv, Progress, Orphans, StatusPlans, StatusParts, Fail,
                Kill
  <1>1. CASE StatusPlans(c)
    <2>1. CASE At(c, "plansNow") /\ Passes(c, "partsNow")
      BY <1>0, <2>1, QuietStep DEF Passes, Becomes, Quiet
    <2>2. CASE At(c, "plansAgain") /\ Passes(c, "partsAgain")
      <3>1. Only(c) /\ Progress(c)' /\ Compared(c)'
        BY <1>0, <2>2 DEF Passes, Becomes, Progress, Compared, At, Writing,
                          Fits
      <3> QED  BY <1>0, <3>1, Onwards
    <2> QED  BY <1>0, <1>1, <2>1, <2>2, StatusPlansMoves
  <1>2. CASE Kill(c)
    <2>1. Only(c) /\ proc'[c].cmd # "provision" /\ proc'[c].at \in Quiet
      BY <1>0, <1>2, KillMoves DEF Quiet, Ends
    <2> QED  BY <1>0, <2>1, QuietStep
  <1>3. CASE Orphans(c) \/ StatusParts(c) \/ Fail(c)
    BY <1>0, <1>3, UnlinkMoves, StatusPartsMoves, FailMoves, FailingStep
  <1> QED  BY <1>1, <1>2, <1>3

\* The requests, but the writes.
LEMMA AskingProgress ==
    ASSUME IInv, SInv, NEW c \in Consoles, Get(c) \/ Verify(c)
    PROVE  SInv'
  <1>0. /\ config' = config /\ file' = file /\ late' = late /\ TypeOK
        /\ Progress(c) /\ Fits(proc[c])
    BY Here DEF IInv, SInv, Get, Verify
  <1>1. CASE Get(c)
    <2>0. At(c, "get")
      BY <1>1 DEF Get
    <2>1. CASE /\ config[Step(c).path] \in Step(c).from
               /\ Passes(c, "put") /\ lock' = lock
      <3>1. Step(c)' = Step(c)
        BY <1>0, <2>1, SameStep DEF Passes, Becomes
      <3>2. Absent \in Step(c).from => config[Step(c).path] = Absent
        BY <1>0, <2>0, <2>1, OneSource
      <3>3. Compared(c)'
        BY <1>0, <2>1, <3>1, <3>2 DEF Compared
      <3>4. Only(c) /\ Progress(c)'
        BY <1>0, <2>0, <2>1 DEF Passes, Becomes, Progress, At, Writing
      <3> QED  BY <1>0, <3>3, <3>4, Onwards
    <2> QED  BY <1>0, <1>1, <2>0, <2>1, GetMoves, AdvancingStep, FailingStep
  <1>2. CASE Verify(c)
    <2>1. At(c, "verify")
      BY <1>2 DEF Verify
    <2> QED  BY <1>0, <1>2, <2>1, VerifyMoves, AdvancingStep, FailingStep
  <1> QED  BY <1>1, <1>2

\* The writes.
LEMMA WritingProgress ==
    ASSUME IInv, SInv, Alone, NEW c \in Consoles, Put(c) \/ PutUnanswered(c)
    PROVE  /\ SInv'
           /\ KeepsEdits
  <1>0. /\ file' = file /\ TypeOK /\ Progress(c) /\ Compared(c) /\ At(c, "put")
        /\ Fits(proc[c]) /\ Holding(c)
        /\ proc[c].cmd # "provision"
    BY Here DEF IInv, SInv, Put, PutUnanswered, Holding, Points, At, Progress
  <1>1. ASSUME Matched(c), NEW version \in Stored(Step(c)),
               Write(Step(c).path, version), Only(c),
               \/ Passes(c, "verify")
               \/ proc'[c].cmd # "provision" /\ proc'[c].at \in Quiet
        PROVE  /\ SInv'
               /\ KeepsEdits
    <2>0. proc'[c].at # "put"
      BY <1>1 DEF Passes, Becomes, Quiet, Ends
    <2>1. KeepsEdits
      BY <1>0, <1>1, <2>0, WriteKeepsEdits
    <2>2. Routing' /\ (Passes(c, "verify") => Progress(c)')
      BY <1>0, <1>1, WriteRoutes
    <2>3. Progress(c)' /\ Compared(c)'
      <3>1. CASE Passes(c, "verify")
        BY <2>2, <3>1 DEF Compared, At, Passes, Becomes
      <3> QED  BY <1>1, <3>1, QuietProgress
    <2>4. \A d \in Consoles : Progress(d)' /\ Compared(d)'
      BY <1>0, <1>1, <2>3, OthersProgress DEF SInv
    <2> QED  BY <2>1, <2>2, <2>4 DEF SInv
  <1>2. CASE Put(c)
    <2>1. CASE (Stops(c) \/ RollsBack(c)) /\ UNCHANGED <<config, late>>
      BY <1>0, <2>1, FailingStep, SameKeepsEdits
    <2>2. CASE /\ Passes(c, "verify") /\ Matched(c)
               /\ \E version \in Stored(Step(c)) : Write(Step(c).path, version)
      BY <1>1, <2>2 DEF Passes, Becomes
    <2> QED  BY <1>0, <1>2, <2>1, <2>2, PutMoves
  <1>3. CASE PutUnanswered(c)
    <2>1. Matched(c) /\ Write(Step(c).path, Step(c).to)
      BY <1>3 DEF PutUnanswered, Postpone, Alone
    <2>2. Only(c) /\ proc'[c].cmd # "provision" /\ proc'[c].at \in Quiet
      BY <1>0, <1>3, PutUnansweredMoves DEF Passes, Becomes, Quiet, Ends
    <2>3. Step(c).to \in Stored(Step(c))
      BY DEF Stored
    <2> QED  BY <1>1, <2>1, <2>2, <2>3
  <1> QED  BY <1>2, <1>3

\* A step of a command.
LEMMA CommandProgress ==
    ASSUME IInv, SInv, MenuAssumption, Alone, NEW c \in Consoles, Command(c)
    PROVE  /\ SInv'
           /\ KeepsEdits
  <1>1. CASE Put(c) \/ PutUnanswered(c)
    BY <1>1, WritingProgress
  <1>2. CASE \/ Start(c) \/ Lock(c) \/ ReadState(c) \/ FindPlans(c)
             \/ CheckAbsent(c)
    <2>1. config' = config
      BY <1>2 DEF Start, Lock, ReadState, FindPlans, CheckAbsent
    <2> QED  BY <1>2, <2>1, PreparingProgress, SameKeepsEdits
  <1>3. CASE Save(c) \/ SavePhase(c) \/ Unlink(c)
    <2>1. config' = config
      BY <1>3 DEF Save, SavePhase, Unlink
    <2> QED  BY <1>3, <2>1, SavingProgress, SameKeepsEdits
  <1>4. CASE \/ Orphans(c) \/ StatusPlans(c) \/ StatusParts(c)
             \/ Fail(c) \/ Kill(c)
    <2>1. config' = config
      BY <1>4 DEF Orphans, StatusPlans, StatusParts, Fail, Kill
    <2> QED  BY <1>4, <2>1, LookingProgress, SameKeepsEdits
  <1>5. CASE Get(c) \/ Verify(c)
    <2>1. config' = config
      BY <1>5 DEF Get, Verify
    <2> QED  BY <1>5, <2>1, AskingProgress, SameKeepsEdits
  <1>6. CASE ListPlans(c) \/ CreateAnchor(c) \/ ConfirmAnchor(c)
    <2>1. proc[c].at \in {"list", "create", "confirm"}
      BY <1>6 DEF ListPlans, CreateAnchor, ConfirmAnchor, At
    <2>2. proc[c].cmd = "provision"
      BY <2>1, Here DEF Fits
    <2> QED  BY <2>2 DEF SInv, Progress
  <1> QED  BY <1>1, <1>2, <1>3, <1>4, <1>5, <1>6 DEF Command

\* An edit in the portal: a filter or a plan that is on stays on, and the
\* ETag of what was edited is spent.
LEMMA EditProgress ==
    ASSUME IInv, SInv, PortalEdit
    PROVE  /\ SInv'
           /\ KeepsEdits
  <1> DEFINE V(path) == [config[path] EXCEPT !.base = "edited"]
  <1>1. PICK path \in Paths : /\ config[path] # Absent
                              /\ Write(path, V(path))
                              /\ proc' = Stale(path)
    BY DEF PortalEdit
  <1>2. file' = file /\ lock' = lock /\ TypeOK
    BY DEF PortalEdit, IInv
  <1>3. /\ config[path] \in Versions /\ V(path) \in Versions
        /\ V(path).on = config[path].on /\ V(path).base = "edited"
    <2>1. config[path] \in Versions
      BY <1>1, <1>2 DEF TypeOK
    <2> QED  BY <2>1 DEF Versions
  <1> HIDE DEF V
  <1>4. \A p \in Paths : config'[p] = IF p = path THEN V(path) ELSE config[p]
    BY <1>1, <1>2 DEF Write, TypeOK
  <1>5. \A p \in Paths : /\ config'[p].on = config[p].on
                         /\ config'[p] = Absent <=> config[p] = Absent
                         /\ config[p].base = "edited" =>
                               config'[p].base = "edited"
    BY <1>1, <1>3, <1>4, VersionsTyped
  <1>6. late' = {}
    BY <1>1 DEF Write, SInv, Routing
  <1>7. "anchor" \in Paths /\ "workflow" \in Paths /\ "agent" \in Paths
    BY DEF Paths
  <1>8. Routing'
    BY <1>2, <1>5, <1>6, <1>7
       DEF SInv, Routing, NoOverlap, NothingLeftBehind, ActiveMeansRouted
  <1>9. ASSUME NEW d \in Consoles
        PROVE  Progress(d)' /\ Compared(d)'
    <2>1. /\ Alike(proc'[d], proc[d])
          /\ At(d, "put") /\ Step(d).path = path => ~proc'[d].fresh
          /\ Progress(d) /\ Compared(d) /\ Step(d).path \in Paths
      BY <1>1, <1>2, StaleAlike, StepTyped DEF SInv
    <2>2. Progress(d)'
      BY <1>2, <1>5, <1>7, <2>1 DEF Progress, Alike
    <2>3. Step(d)' = Step(d)
      BY <1>2, <2>1, SameStep DEF Alike
    <2>4. Compared(d)'
      BY <1>1, <1>4, <1>5, <2>1, <2>3 DEF Compared, Alike, At
    <2> QED  BY <2>2, <2>4
  <1> QED  BY <1>5, <1>8, <1>9 DEF SInv, KeepsEdits

\* The initial states.
LEMMA InitSInv ==
    ASSUME Init
    PROVE  SInv
  <1>1. /\ late = {} /\ file = NoFile /\ file.phase = "none"
        /\ config["agent"] = Absent /\ config["workflow"] = Absent
        /\ config["anchor"] \in {Absent, Off}
    BY DEF Init, Paths, NoFile
  <1>2. Routing
    BY <1>1, VersionsTyped
       DEF Routing, NoOverlap, NothingLeftBehind, ActiveMeansRouted
  <1>3. \A c \in Consoles : proc[c].at = "idle" /\ proc[c].cmd = "install"
    BY EndedTyped DEF Init, Commands, Ends
  <1>4. \A c \in Consoles : Progress(c) /\ Compared(c)
    BY <1>3 DEF Progress, Compared, At, Writing
  <1> QED  BY <1>2, <1>4 DEF SInv

\* Every step keeps the progress of the commands, the routing and the edits.
LEMMA NextSInv ==
    ASSUME IInv, SInv, MenuAssumption, Alone, [Next]_vars
    PROVE  /\ SInv'
           /\ KeepsEdits
  <1>1. ASSUME UNCHANGED <<config, file, proc, late>>
        PROVE  /\ SInv'
               /\ KeepsEdits
    <2>1. Routing'
      BY <1>1, RoutingStays DEF SInv
    <2>2. ASSUME NEW d \in Consoles
          PROVE  Progress(d)' /\ Compared(d)'
      <3>1. Step(d)' = Step(d)
        BY <1>1, SameStep
      <3>2. Progress(d) /\ Compared(d)
        BY DEF SInv
      <3>3. Progress(d)'
        BY <1>1, <3>2 DEF Progress
      <3>4. Compared(d)'
        BY <1>1, <3>1, <3>2 DEF Compared, At
      <3> QED  BY <3>3, <3>4
    <2> QED  BY <1>1, <2>1, <2>2, SameKeepsEdits DEF SInv
  <1>2. CASE RemoveStaleLock
    BY <1>1, <1>2 DEF RemoveStaleLock
  <1>3. CASE LateApplied
    BY <1>3 DEF LateApplied, SInv, Routing
  <1>4. CASE UNCHANGED vars
    BY <1>1, <1>4 DEF vars
  <1> QED  BY <1>2, <1>3, <1>4, CommandProgress, EditProgress DEF Next

\* Installations and removals only: the invariant holds in every state.
LEMMA Settled == Alone => (Spec => []SInv)
  <1>1. Init => SInv
    BY InitSInv
  <1>2. Alone => (IInv /\ SInv /\ [Next]_vars => SInv')
    BY NextSInv, MenuAssumption
  <1>3. SUFFICES ASSUME Alone PROVE Spec => []SInv
    OBVIOUS
  <1>4. IInv /\ SInv /\ [Next]_vars => SInv'
    BY <1>2, <1>3
  <1> QED  BY <1>1, <1>4, Invariant, PTL DEF Spec

\* No alert ever matches both plans: as long as provisioning does not replace
\* the plan at the same time and no request is applied after it timed out, the
\* dedicated plan is not enabled while the original one is unfiltered, whichever
\* request fails, is lost or refused, whoever is killed and whatever is edited.
THEOREM NoOverlapCorrect == Alone => (Spec => []NoOverlap)
  <1>1. SInv => NoOverlap
    BY DEF SInv, Routing
  <1> QED  BY <1>1, Settled, PTL

\* A state file that says "active" is true of the filter and the dedicated plan.
THEOREM ActiveCorrect == Alone => (Spec => []ActiveMeansRouted)
  <1>1. SInv => ActiveMeansRouted
    BY DEF SInv, Routing
  <1> QED  BY <1>1, Settled, PTL

\* An edit made in the portal is overwritten or deleted only if it came after
\* the GET of that request and that GET was answered without an ETag: otherwise
\* a request writes over what was compared, or its ETag holds no longer.
THEOREM EditsCorrect == Alone => (Spec => EditsKept)
  <1>1. SUFFICES ASSUME Alone PROVE Spec => EditsKept
    OBVIOUS
  <1>2. IInv /\ SInv /\ [Next]_vars =>
           [\A p \in Paths :
               config[p].base = "edited" /\ config'[p].base # "edited" =>
                  \E c \in Consoles : Unguarded(c, p)]_vars
    BY <1>1, NextSInv, MenuAssumption DEF KeepsEdits
  <1>3. Spec => []SInv
    BY <1>1, Settled
  <1> QED  BY <1>2, <1>3, Invariant, PTL DEF Spec, EditsKept
=============================================================================
