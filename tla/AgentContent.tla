---------------------------- MODULE AgentContent ----------------------------
(***************************************************************************)
(* `workshop.py health-check` and `workshop.py knowledge`: installing and  *)
(* removing the scheduled health check (a skill, a custom agent that uses  *)
(* it, a task that schedules the agent) and the knowledge files on the     *)
(* Azure SRE Agent.  `status` only reads.                                  *)
(*                                                                         *)
(* A command repeats all its writes until what it reads back agrees.  The  *)
(* service may show an earlier value of an item for a while (`seen`), and  *)
(* may carry out a write after its caller has given it up (`late`).        *)
(* The two features share no item: a behaviour follows the commands of one.*)
(***************************************************************************)
EXTENDS Naturals, Sequences, FiniteSets

CONSTANTS Attempts,  \* rounds of one command (8)
          MaxLate    \* bound: given-up writes that may still be carried out

ASSUME BoundsAssumption == Attempts \in Nat \ {0} /\ MaxLate \in Nat

VARIABLES store,     \* the items on the agent
          seen,      \* what a read may still answer
          late,      \* writes given up by the command that sent them
          op,        \* the console's running or last command
          evidence,  \* the console has the feature's evidence file
          overtaken  \* history: a write was carried out after the definition
                     \* was edited or the opposite command begun

vars == <<store, seen, late, op, evidence, overtaken>>

Features == {"health", "knowledge"}
Actions  == {"install", "remove"}
Items    == {"skill", "agent", "task", "comms", "slo"}

\* "defined": as the definition on the console says; "other": as an earlier
\* version of it said.
Values == {"absent", "defined", "other"}
Writes == [item : Items, value : Values, old : BOOLEAN]

Ends == {"idle", "succeeded", "failed"}
Ops  == [feature : Features, action : Actions,
         at : {"connectors", "write", "read"} \cup Ends,
         next : 1..3, attempt : 1..Attempts]

\* Mutation of InstallOrder: the task first.
InstallOrderTaskFirst(f) ==
    IF f = "health" THEN <<"task", "skill", "agent">> ELSE <<"comms", "slo">>

InstallOrder(f) ==
    IF f = "health" THEN <<"skill", "agent", "task">> ELSE <<"comms", "slo">>

\* Mutation of RemoveOrder: the order of the installation.
RemoveOrderAsInstalled(f) == InstallOrder(f)

RemoveOrder(f) ==
    IF f = "health" THEN <<"task", "agent", "skill">> ELSE <<"comms", "slo">>

Plan == IF op.action = "install" THEN InstallOrder(op.feature)
                                 ELSE RemoveOrder(op.feature)

Content(f) == {InstallOrder(f)[n] : n \in DOMAIN InstallOrder(f)}

Running == op.at \notin Ends

Init ==
    /\ store = [i \in Items |-> "absent"]
    /\ seen = store
    /\ late = {}
    /\ op \in [feature : Features, action : {"install"}, at : {"idle"},
              next : {1}, attempt : {1}]
    /\ evidence = FALSE
    /\ overtaken = FALSE

-----------------------------------------------------------------------------
\* A command is started, after the previous one ended or was killed.
Start ==
    /\ ~Running
    /\ \E a \in Actions :
          /\ op' = [op EXCEPT !.action = a, !.next = 1, !.attempt = 1,
                !.at = IF op.feature = "health" /\ a = "install"
                       THEN "connectors" ELSE "write"]
          /\ late' = {[w EXCEPT !.old = @ \/
                         a # IF w.value = "absent" THEN "remove" ELSE "install"]
                         : w \in late}
    /\ UNCHANGED <<store, seen, evidence, overtaken>>

\* The definition under agent/ is edited: what was installed is now another.
EditDefinition ==
    LET Other(v) == IF v = "defined" THEN "other" ELSE v
    IN  /\ ~Running
        /\ store' = [i \in Items |-> Other(store[i])]
        /\ seen' = [i \in Items |-> Other(seen[i])]
        /\ late' = {[w EXCEPT !.value = Other(@),
                              !.old = @ \/ w.value # "absent"] : w \in late}
        /\ UNCHANGED <<op, evidence, overtaken>>

Fail == op' = [op EXCEPT !.at = "failed"]

\* health_check_telemetry_tools: no write without a healthy log-analytics
\* connector.
CheckConnectors ==
    /\ op.at = "connectors"
    /\ op' = [op EXCEPT !.at = "write"] \/ Fail
    /\ UNCHANGED <<store, seen, late, evidence, overtaken>>

\* Mutation of Repeat: the attempts are not counted.
RepeatForever == op' = [op EXCEPT !.at = "write", !.next = 1]

\* Mutation of Repeat: one round too many.
RepeatOnceMore ==
    IF op.attempt > Attempts THEN Fail
    ELSE op' = [op EXCEPT !.at = "write", !.next = 1, !.attempt = @ + 1]

\* A retryable error: the whole round again, 15 s later, unless it was the
\* last attempt.
Repeat ==
    IF op.attempt = Attempts THEN Fail
    ELSE op' = [op EXCEPT !.at = "write", !.next = 1, !.attempt = @ + 1]

Current == [item  |-> Plan[op.next],
            value |-> IF op.action = "install" THEN "defined" ELSE "absent",
            old   |-> FALSE]

Written == op' = [op EXCEPT !.at = IF op.next = Len(Plan) THEN "read" ELSE @,
                            !.next = IF @ = Len(Plan) THEN 1 ELSE @ + 1]

\* The service carries out a PUT, an upload or a DELETE (404 is as good).
Write ==
    /\ op.at = "write"
    /\ store' = [store EXCEPT ![Current.item] = Current.value]
    /\ Written
    /\ UNCHANGED <<seen, late, evidence, overtaken>>

\* Mutation of WriteRefused: errors of a DELETE are ignored.
WriteRefusedIgnored ==
    /\ op.at = "write"
    /\ IF op.action = "remove" THEN Written ELSE Repeat \/ Fail
    /\ UNCHANGED <<store, seen, late, evidence, overtaken>>

\* It answers with an error, retryable or not.
WriteRefused ==
    /\ op.at = "write"
    /\ Repeat \/ Fail
    /\ UNCHANGED <<store, seen, late, evidence, overtaken>>

\* No answer within 20 s (or the command is killed): the write was carried
\* out, or will be, or never is.
WriteInterrupted ==
    /\ op.at = "write"
    /\ Repeat \/ Fail
    /\ \/ store' = [store EXCEPT ![Current.item] = Current.value]
          /\ UNCHANGED late
       \/ /\ Cardinality(late) < MaxLate
          /\ late' = late \cup {Current}
          /\ UNCHANGED store
    /\ UNCHANGED <<seen, evidence, overtaken>>

\* What the requests of the read-back may answer.
Views == {view \in [Content(op.feature) -> Values] :
             \A i \in Content(op.feature) : view[i] \in {store[i], seen[i]}}

\* health_check_report compares the content, knowledge_report the names;
\* after a removal no name may be left.
Agrees(view) ==
    \A i \in DOMAIN view :
        CASE op.action = "remove"    -> view[i] = "absent"
          [] op.feature = "health"   -> view[i] = "defined"
          [] OTHER                   -> view[i] # "absent"

\* The read-back; only when it agrees the evidence is written, or removed.
ReadBack ==
    /\ op.at = "read"
    /\ \E view \in Views :
          IF Agrees(view)
          THEN /\ op' = [op EXCEPT !.at = "succeeded"]
               /\ evidence' = (op.action = "install")
          ELSE Repeat /\ UNCHANGED evidence
    /\ UNCHANGED <<store, seen, late, overtaken>>

ReadFails ==
    /\ op.at = "read"
    /\ Repeat \/ Fail
    /\ UNCHANGED <<store, seen, late, evidence, overtaken>>

Killed ==
    /\ Running
    /\ Fail
    /\ UNCHANGED <<store, seen, late, evidence, overtaken>>

-----------------------------------------------------------------------------
(* The service.                                                            *)

BecomesVisible(i) ==
    /\ seen[i] # store[i]
    /\ seen' = [seen EXCEPT ![i] = store[i]]
    /\ UNCHANGED <<store, late, op, evidence, overtaken>>

LateWrite(w) ==
    /\ store' = [store EXCEPT ![w.item] = w.value]
    /\ late' = late \ {w}
    /\ overtaken' = (overtaken \/ w.old)
    /\ UNCHANGED <<seen, op, evidence>>

LateDropped(w) ==
    /\ late' = late \ {w}
    /\ UNCHANGED <<store, seen, op, evidence, overtaken>>

Service ==
    \/ \E i \in Items : BecomesVisible(i)
    \/ \E w \in late : LateWrite(w) \/ LateDropped(w)

Command ==
    \/ CheckConnectors \/ Write \/ WriteRefused \/ WriteInterrupted
    \/ ReadBack \/ ReadFails

Next == Start \/ EditDefinition \/ Command \/ Killed \/ Service

Spec == Init /\ [][Next]_vars

\* Each request has a timeout of 20 s and the pauses are 15 s.
FairSpec == Spec /\ WF_vars(Command)

-----------------------------------------------------------------------------
TypeOK ==
    /\ store \in [Items -> Values] /\ seen \in [Items -> Values]
    /\ late \subseteq Writes /\ Cardinality(late) <= MaxLate
    /\ op \in Ops
    /\ evidence \in BOOLEAN
    /\ overtaken \in BOOLEAN

\* The schedule never runs an agent that is not there: however an installation
\* or a removal fails half way, is repeated or killed, the task is installed
\* only while its agent is, and the agent while its skill is, unless a write
\* that was given up overtook a later command.
NoDanglingSchedule ==
    ~overtaken =>
        /\ store["task"] # "absent" => store["agent"] # "absent"
        /\ store["agent"] # "absent" => store["skill"] # "absent"

\* "install reads all three back", "remove deletes only those three": when a
\* command reports success, every item of its feature is as it says, although
\* the read-back may have been answered with earlier values.
SuccessIsReal ==
    [][Running /\ op'.at = "succeeded" /\ ~overtaken =>
          \A i \in Content(op.feature) :
              store[i] = IF op.action = "install" THEN "defined" ELSE "absent"]_vars

\* A command ends, whatever the service answers: it gives up after its last
\* attempt.
CommandEnds == Running ~> ~Running
=============================================================================
