------------------------ MODULE FaultLauncher_proofs ------------------------
(***************************************************************************)
(* Proofs about FaultLauncher for any set of pages and any buttons: types, *)
(* that an incident or a reset the page reports as done is so in the data  *)
(* plane, and that a reset releases its page only when what is still       *)
(* active was begun while it ran.                                          *)
(***************************************************************************)
EXTENDS FaultLauncher, VmFaults_proofs

-----------------------------------------------------------------------------
(* The inductive invariant, page by page.                                  *)

RuleActions == {"postgresql", "reset-postgresql"}

\* The calls each button leads to.
CallsMatch(p) ==
    /\ op[p].at = "checkVm" => op[p].action = "postgresql"
    /\ op[p].at \in {"get", "put", "readBack", "recycle"} =>
          op[p].action \in RuleActions
    /\ op[p].at = "startCpu" => op[p].action = "cpu"
    /\ op[p].at = "resetCpu" => op[p].action = "reset-cpu"
    /\ op[p].at = "ruleStatus" => op[p].action \notin RuleActions

\* The command a page waits for is the one its operation asked for; a page
\* with an answer waits for nothing.
JobMatches(p) ==
    /\ job.owner = p => /\ op[p].at \in VmPoints /\ job.cmd = CommandAt(p)
                        /\ op[p].answer = "none"
    /\ op[p].answer # "none" => op[p].at \in VmPoints \cup {"ruleStatus"}

\* A page waits for its PUT.
PutsMatch(p) == \A r \in puts : r.owner = p => op[p].at = "put"

\* What a page read back, and nobody has written since, is the rule: while its
\* recycle runs, and after its operation has ended.
RuleStands(p) ==
    p \in standing => /\ access = Target(p)
                      /\ op[p].action \in RuleActions
                      /\ op[p].at \in {"recycle", "succeeded", "failed",
                                       "ambiguous"}

\* What its running recycle has observed so far shows the data plane.
RecycleObserves(p) == p \in standing /\ job.owner = p => Observes

\* After the recycle the data plane enforces the target, whether or not the
\* page knows the result already.
DataPlaneFollows(p) ==
    p \in standing /\ (op[p].at = "succeeded" \/ op[p].answer = "ok")
        => enforced = Target(p)

Claims(p) ==
    /\ CallsMatch(p) /\ JobMatches(p) /\ PutsMatch(p) /\ RuleStands(p)
    /\ RecycleObserves(p) /\ DataPlaneFollows(p)

IInv == TypeOK /\ \A p \in Operators : Claims(p)

-----------------------------------------------------------------------------
(* How the steps of a page move its operation.                             *)

\* Only the operation of p moves, to a point or an end.
Moves(p, at) ==
    /\ op' \in [Operators -> Ops]
    /\ op'[p].action = op[p].action /\ op'[p].at = at
    /\ op'[p].answer = "none"
    /\ at \in Points => op'[p].active = op[p].active
    /\ \A q \in Operators : q # p => op'[q] = op[q]

\* Only the operation of p moves: its call is answered.
Gets(p, answer, active) ==
    /\ op' \in [Operators -> Ops]
    /\ op'[p].action = op[p].action /\ op'[p].at = op[p].at
    /\ op'[p].answer = answer
    /\ op[p].action \notin Injects /\ ~op'[p].active =>
          ~op[p].active /\ ~active
    /\ \A q \in Operators : q # p => op'[q] = op[q]

\* The calls stay within the points and ends of an operation.
LEMMA CallsTyped ==
    /\ \A point : NextCall(point) \in Points \cup Ends
    /\ \A action \in Actions : FirstCall(action) \in Points
    /\ \A p \in Operators : op[p].at \in VmPoints => CommandAt(p) \in Commands
  BY DEF NextCall, FirstCall, CommandAt, Points, VmPoints, Ends, Commands,
         Actions, Injects, Incidents

\* An operation that went somewhere.
LEMMA GoneTyped ==
    ASSUME NEW o \in Ops, NEW at \in Points \cup Ends
    PROVE  /\ Gone(o, at) \in Ops
           /\ Gone(o, at).action = o.action /\ Gone(o, at).at = at
           /\ Gone(o, at).answer = "none"
           /\ at \in Points => Gone(o, at).active = o.active
  <1> DEFINE b == at \in Points /\ o.active
  <1>1. b \in BOOLEAN /\ (at \in Points => b = o.active)
    BY DEF Ops
  <1>2. Gone(o, at) = [o EXCEPT !.at = at, !.answer = "none", !.active = b]
    BY DEF Gone
  <1> HIDE DEF b
  <1>3. /\ [o EXCEPT !.at = at, !.answer = "none", !.active = b] \in Ops
        /\ [o EXCEPT !.at = at, !.answer = "none", !.active = b].action = o.action
        /\ [o EXCEPT !.at = at, !.answer = "none", !.active = b].at = at
        /\ [o EXCEPT !.at = at, !.answer = "none", !.active = b].answer = "none"
        /\ [o EXCEPT !.at = at, !.answer = "none", !.active = b].active = b
    BY <1>1 DEF Ops, Replies
  <1> QED  BY <1>1, <1>2, <1>3

\* An operation whose call was answered.
LEMMA AnsweredTyped ==
    ASSUME NEW o \in Ops, NEW answer \in Replies, NEW active \in BOOLEAN
    PROVE  /\ Answered(o, answer, active) \in Ops
           /\ Answered(o, answer, active).action = o.action
           /\ Answered(o, answer, active).at = o.at
           /\ Answered(o, answer, active).answer = answer
           /\ o.action \notin Injects /\ ~Answered(o, answer, active).active =>
                 ~o.active /\ ~active
  <1> DEFINE b == o.active \/ (o.action \notin Injects /\ active)
  <1>1. b \in BOOLEAN
        /\ (o.action \notin Injects /\ ~b => ~o.active /\ ~active)
    BY DEF Ops
  <1>2. Answered(o, answer, active) = [o EXCEPT !.answer = answer, !.active = b]
    BY DEF Answered
  <1> HIDE DEF b
  <1>3. /\ [o EXCEPT !.answer = answer, !.active = b] \in Ops
        /\ [o EXCEPT !.answer = answer, !.active = b].action = o.action
        /\ [o EXCEPT !.answer = answer, !.active = b].at = o.at
        /\ [o EXCEPT !.answer = answer, !.active = b].answer = answer
        /\ [o EXCEPT !.answer = answer, !.active = b].active = b
    BY <1>1 DEF Ops
  <1> QED  BY <1>1, <1>2, <1>3

\* An operation goes somewhere.
LEMMA GoesTo ==
    ASSUME TypeOK, NEW p \in Operators, NEW at \in Points \cup Ends,
           op' = [op EXCEPT ![p] = Gone(@, at)]
    PROVE  Moves(p, at)
  <1>1. op[p] \in Ops
    BY DEF TypeOK
  <1>2. /\ Gone(op[p], at) \in Ops
        /\ Gone(op[p], at).action = op[p].action /\ Gone(op[p], at).at = at
        /\ Gone(op[p], at).answer = "none"
        /\ at \in Points => Gone(op[p], at).active = op[p].active
    BY <1>1, GoneTyped
  <1>3. op' = [op EXCEPT ![p] = Gone(op[p], at)]
    OBVIOUS
  <1> QED  BY <1>2, <1>3 DEF TypeOK, Moves

\* A call is answered.
LEMMA AnswerGets ==
    ASSUME TypeOK, NEW p \in Operators, NEW answer \in Replies,
           NEW active \in BOOLEAN,
           op' = [op EXCEPT ![p] = Answered(@, answer, active)]
    PROVE  Gets(p, answer, active)
  <1>1. op[p] \in Ops
    BY DEF TypeOK
  <1> DEFINE o == Answered(op[p], answer, active)
  <1>2. /\ o \in Ops /\ o.action = op[p].action /\ o.at = op[p].at
        /\ o.answer = answer
        /\ op[p].action \notin Injects /\ ~o.active => ~op[p].active /\ ~active
    BY <1>1, AnsweredTyped
  <1>3. op' = [op EXCEPT ![p] = o]
    OBVIOUS
  <1> HIDE DEF o
  <1> QED  BY <1>2, <1>3 DEF TypeOK, Gets

\* The history stays within its type.
LEMMA RenewalsTyped ==
    ASSUME TypeOK, Renewals
    PROVE  renewed' \in [Operators -> SUBSET Incidents]
  BY DEF TypeOK, Renewals

\* A call that returned.
LEMMA AdvanceMoves ==
    ASSUME TypeOK, NEW p \in Operators, Advance(p)
    PROVE  /\ Moves(p, NextCall(op[p].at))
           /\ lock' = Locked(p, NextCall(op[p].at))
           /\ lock' \subseteq Operators
  <1> DEFINE next == NextCall(op[p].at)
  <1>1. op' = [op EXCEPT ![p] = Gone(@, next)] /\ lock' = Locked(p, next)
    BY DEF Advance
  <1>2. next \in Points \cup Ends
    BY CallsTyped
  <1> HIDE DEF next
  <1>3. Moves(p, next)
    BY <1>1, <1>2, GoesTo
  <1>4. lock' \subseteq Operators
    BY <1>1 DEF Locked, TypeOK
  <1> QED  BY <1>1, <1>3, <1>4 DEF next

\* An operation that may have succeeded.
LEMMA AmbiguousMoves ==
    ASSUME TypeOK, NEW p \in Operators, Ambiguous(p)
    PROVE  Moves(p, "ambiguous") /\ lock' = lock \cup {p}
           /\ lock' \subseteq Operators
  BY GoesTo DEF Ambiguous, Ends, TypeOK

\* An error.
LEMMA RefusedMoves ==
    ASSUME TypeOK, NEW p \in Operators, Refused(p)
    PROVE  /\ Moves(p, "ambiguous") \/ Moves(p, "failed")
           /\ lock' \subseteq Operators /\ lock \subseteq lock'
  <1>1. CASE op[p].at = "recycle"
    BY <1>1, AmbiguousMoves DEF Refused
  <1>2. CASE op[p].at # "recycle"
    BY <1>2, GoesTo DEF Refused, Ends, TypeOK
  <1> QED  BY <1>1, <1>2

\* What a page started goes on without it.
LEMMA OrphanedFrame ==
    ASSUME TypeOK, NEW p \in Operators, Orphaned(p)
    PROVE  /\ job' \in Jobs \cup {NoJob} /\ puts' \subseteq Puts
           /\ job'.owner # p
           /\ \A q \in Operators : job'.owner = q => job' = job
           /\ \A r \in puts' : r.owner # p
                               /\ (r.owner \in Operators => r \in puts)
  <1>1. /\ job' \in Jobs \cup {NoJob} /\ job'.owner # p
        /\ \A q \in Operators : job'.owner = q => job' = job
    BY NobodyAssumption DEF Orphaned, TypeOK, Jobs, NoJob
  <1>2. \A r \in puts : /\ [r EXCEPT !.owner = Nobody] \in Puts
                        /\ [r EXCEPT !.owner = Nobody].owner = Nobody
    BY DEF TypeOK, Puts
  <1>3. \A s \in puts' : \E r \in puts :
           s = IF r.owner = p THEN [r EXCEPT !.owner = Nobody] ELSE r
    BY DEF Orphaned
  <1>4. /\ puts' \subseteq Puts
        /\ \A r \in puts' : r.owner # p /\ (r.owner \in Operators => r \in puts)
    <2> SUFFICES ASSUME NEW s \in puts'
                 PROVE  s \in Puts /\ s.owner # p
                        /\ (s.owner \in Operators => s \in puts)
      OBVIOUS
    <2>1. PICK r \in puts :
             s = IF r.owner = p THEN [r EXCEPT !.owner = Nobody] ELSE r
      BY <1>3
    <2>2. CASE r.owner = p
      BY <1>2, <2>1, <2>2, NobodyAssumption
    <2>3. CASE r.owner # p
      BY <2>1, <2>3 DEF TypeOK
    <2> QED  BY <2>2, <2>3
  <1> QED  BY <1>1, <1>4

\* The claims of a page that does not move, when nobody writes the rule.
LEMMA OthersKept ==
    ASSUME NEW q \in Operators, Claims(q), op'[q] = op[q],
           UNCHANGED <<access, enforced, pooled>>,
           job'.owner = q => job' = job,
           \A r \in puts' : r.owner = q => r \in puts,
           q \in standing' => q \in standing
    PROVE  Claims(q)'
  <1>1. Target(q)' = Target(q) /\ CommandAt(q)' = CommandAt(q)
    BY DEF Target, CommandAt
  <1>2. CallsMatch(q)' /\ JobMatches(q)' /\ PutsMatch(q)'
    BY <1>1 DEF Claims, CallsMatch, JobMatches, PutsMatch
  <1>3. RuleStands(q)' /\ DataPlaneFollows(q)'
    BY <1>1 DEF Claims, RuleStands, DataPlaneFollows
  <1>4. RecycleObserves(q)'
    BY DEF Claims, RecycleObserves, Observes
  <1> QED  BY <1>2, <1>3, <1>4 DEF Claims

\* The claims of a page whose operation ends badly, or is forgotten.
LEMMA EndedKept ==
    ASSUME NEW p \in Operators, Claims(p),
           op'[p].action = op[p].action, op'[p].answer = "none",
           \/ op'[p].at \in {"failed", "ambiguous"} /\ standing' = standing
           \/ op'[p].at = "idle" /\ p \notin standing',
           access' = access, op[p].at \in Points \/ p \notin standing',
           job'.owner # p,
           \A r \in puts' : r.owner # p
    PROVE  Claims(p)'
  <1>1. Target(p)' = Target(p)
    BY DEF Target
  <1>2. CallsMatch(p)' /\ JobMatches(p)' /\ PutsMatch(p)'
    BY DEF CallsMatch, JobMatches, PutsMatch
  <1>3. RuleStands(p)' /\ DataPlaneFollows(p)' /\ RecycleObserves(p)'
    BY <1>1 DEF Claims, RuleStands, DataPlaneFollows, RecycleObserves
  <1> QED  BY <1>2, <1>3 DEF Claims

-----------------------------------------------------------------------------
(* Each step keeps the types and the claims.                               *)

\* The variables of the VM that a step leaves alone.
LEMMA VmStays ==
    ASSUME TypeOK, UNCHANGED <<access, vmVars>>
    PROVE  UNCHANGED <<access, enforced, pooled, fresh, cpu, job>>
  BY DEF vmVars

\* A button starts an operation that has observed nothing.
LEMMA PressKeeps ==
    ASSUME IInv, NEW p \in Operators, Press(p)
    PROVE  IInv'
  <1>0. TypeOK /\ Claims(p) /\ op[p].at \in Ends
        /\ UNCHANGED <<access, enforced, pooled, fresh, cpu, job, lock, puts>>
        /\ standing' = standing \ {p}
    BY DEF IInv, Press, vmVars
  <1>1. PICK action \in Menu[p] :
           op' = [op EXCEPT ![p] = [action |-> action,
                                    at     |-> FirstCall(action),
                                    answer |-> "none",
                                    active |-> FALSE]]
    BY DEF Press
  <1>2. action \in Actions /\ FirstCall(action) \in Points
    BY MenuAssumption, CallsTyped
  <1>3. /\ op' \in [Operators -> Ops]
        /\ op'[p].action = action /\ op'[p].at = FirstCall(action)
        /\ op'[p].answer = "none"
        /\ \A q \in Operators : q # p => op'[q] = op[q]
    BY <1>0, <1>1, <1>2 DEF TypeOK, Ops, Replies
  <1>4. TypeOK'
    BY <1>0, <1>3, RenewalsTyped DEF TypeOK, Press
  <1>5. job.owner # p /\ \A r \in puts : r.owner # p
    BY <1>0 DEF Claims, JobMatches, PutsMatch, Ends, VmPoints
  <1>6. CallsMatch(p)'
    BY <1>2, <1>3
       DEF CallsMatch, FirstCall, Actions, Injects, Incidents, RuleActions
  <1>7. Claims(p)'
    BY <1>0, <1>3, <1>5, <1>6
       DEF Claims, JobMatches, PutsMatch, RuleStands, RecycleObserves,
           DataPlaneFollows
  <1>8. \A q \in Operators : q # p => Claims(q)'
    BY <1>0, <1>3, OthersKept DEF IInv
  <1> QED  BY <1>4, <1>7, <1>8 DEF IInv

\* A page whose operation ends badly, or is forgotten, claims nothing; the
\* claims of the others stay.
LEMMA EndingKeeps ==
    ASSUME IInv, NEW p \in Operators, NEW at \in {"failed", "ambiguous", "idle"},
           Moves(p, at), lock' \subseteq Operators, Renewals,
           IF at = "idle" THEN standing' = standing \ {p}
                          ELSE standing' = standing /\ op[p].at \in Points,
           UNCHANGED <<access, enforced, pooled, fresh, cpu>>,
           job' \in Jobs \cup {NoJob}, puts' \subseteq Puts, job'.owner # p,
           \A q \in Operators : job'.owner = q => job' = job,
           \A r \in puts' : r.owner # p /\ (r.owner \in Operators => r \in puts)
    PROVE  IInv'
  <1>0. TypeOK /\ Claims(p)
    BY DEF IInv
  <1>1. TypeOK'
    BY <1>0, RenewalsTyped DEF TypeOK, Moves
  <1>2. Claims(p)'
    BY <1>0, EndedKept DEF Moves
  <1>3. \A q \in Operators : q # p => Claims(q)'
    BY OthersKept DEF IInv, Moves
  <1> QED  BY <1>1, <1>2, <1>3 DEF IInv

\* A request that failed, while the page waits neither for a command nor for
\* a PUT.
LEMMA FailingKeeps ==
    ASSUME IInv, NEW p \in Operators, Refused(p) \/ Ambiguous(p),
           op[p].at \in Points, standing' = standing, Renewals,
           UNCHANGED <<access, enforced, pooled, fresh, cpu>>,
           job' \in {job, NoJob}, puts' \subseteq puts,
           job'.owner # p, \A r \in puts' : r.owner # p
    PROVE  IInv'
  <1>0. TypeOK
    BY DEF IInv
  <1>1. PICK at \in {"failed", "ambiguous"} :
           Moves(p, at) /\ lock' \subseteq Operators
    BY <1>0, RefusedMoves, AmbiguousMoves
  <1>2. /\ job' \in Jobs \cup {NoJob} /\ puts' \subseteq Puts
        /\ \A q \in Operators : job'.owner = q => job' = job
        /\ \A r \in puts' : r.owner # p /\ (r.owner \in Operators => r \in puts)
    BY <1>0, NobodyAssumption DEF TypeOK, NoJob
  <1> QED  BY <1>1, <1>2, EndingKeeps

\* The first GET: the page goes to the read-back or sends its PUT.
LEMMA GetRuleKeeps ==
    ASSUME IInv, NEW p \in Operators, GetRule(p)
    PROVE  IInv'
  <1>0. TypeOK /\ Claims(p) /\ op[p].at = "get" /\ Renewals
        /\ UNCHANGED <<access, enforced, pooled, fresh, cpu, job, standing>>
    BY DEF IInv, GetRule, vmVars
  <1>1. /\ op[p].action \in RuleActions /\ p \notin standing
        /\ job.owner # p /\ \A r \in puts : r.owner # p
    BY <1>0 DEF Claims, CallsMatch, RuleStands, JobMatches, PutsMatch, VmPoints
  <1>2. ASSUME NEW at \in {"readBack", "put"}, Moves(p, at), lock' = lock,
               puts' \subseteq Puts,
               \A r \in puts' : r.owner = p => at = "put",
               \A r \in puts' : r.owner # p => r \in puts
        PROVE  IInv'
    <2>1. TypeOK'
      BY <1>0, <1>2, RenewalsTyped DEF TypeOK, Moves
    <2>2. Claims(p)'
      BY <1>0, <1>1, <1>2
         DEF Claims, CallsMatch, JobMatches, PutsMatch, RuleStands,
             RecycleObserves, DataPlaneFollows, Moves
    <2>3. \A q \in Operators : q # p => Claims(q)'
      BY <1>0, <1>2, OthersKept DEF IInv, Moves
    <2> QED  BY <2>1, <2>2, <2>3 DEF IInv
  <1>3. CASE op' = [op EXCEPT ![p] = Gone(@, "readBack")] /\ UNCHANGED <<lock, puts>>
    <2>1. Moves(p, "readBack")
      BY <1>0, <1>3, GoesTo DEF Points
    <2> QED  BY <1>0, <1>1, <1>2, <1>3, <2>1 DEF TypeOK
  <1>4. CASE /\ op' = [op EXCEPT ![p] = Gone(@, "put")]
             /\ puts' = puts \cup {[owner |-> p, target |-> Target(p)]}
             /\ UNCHANGED lock
    <2>1. [owner |-> p, target |-> Target(p)] \in Puts
      BY DEF Puts, Target, Access
    <2>2. Moves(p, "put")
      BY <1>0, <1>4, GoesTo DEF Points
    <2>3. /\ puts' \subseteq Puts /\ lock' = lock
          /\ \A r \in puts' : r.owner # p => r \in puts
      BY <1>0, <1>4, <2>1 DEF TypeOK
    <2> QED  BY <1>2, <2>2, <2>3
  <1>5. CASE Refused(p) /\ UNCHANGED puts
    BY <1>0, <1>1, <1>5, FailingKeeps DEF Points
  <1> QED  BY <1>3, <1>4, <1>5 DEF GetRule

\* A write of the rule withdraws every claim about it.
LEMMA RuleWritten ==
    ASSUME IInv, access' \in Access, puts' = {}, standing' = {},
           UNCHANGED <<enforced, pooled, fresh, cpu, job>>,
           op' \in [Operators -> Ops], lock' \subseteq Operators, Renewals,
           \A q \in Operators : \/ op'[q] = op[q]
                                \/ /\ CallsMatch(q)' /\ job.owner # q
                                   /\ op'[q].answer = "none"
    PROVE  IInv'
  <1>1. TypeOK'
    BY RenewalsTyped DEF IInv, TypeOK
  <1>2. ASSUME NEW q \in Operators
        PROVE  Claims(q)'
    <2>1. CallsMatch(q)' /\ JobMatches(q)'
      <3>1. CASE op'[q] = op[q]
        <4>1. Claims(q) /\ CommandAt(q)' = CommandAt(q)
          BY <3>1 DEF IInv, CommandAt
        <4> QED  BY <3>1, <4>1 DEF Claims, CallsMatch, JobMatches
      <3>2. CASE CallsMatch(q)' /\ job.owner # q /\ op'[q].answer = "none"
        BY <3>2 DEF JobMatches
      <3> QED  BY <3>1, <3>2
    <2> QED  BY <2>1 DEF Claims, PutsMatch, RuleStands, RecycleObserves,
                         DataPlaneFollows
  <1> QED  BY <1>1, <1>2 DEF IInv

\* Azure applies a PUT.
LEMMA ApplyPutKeeps ==
    ASSUME IInv, NEW r \in puts, ApplyPut(r)
    PROVE  IInv'
  <1>0. /\ TypeOK /\ r \in Puts /\ access' = r.target /\ puts' = {}
        /\ standing' = {} /\ Renewals
        /\ UNCHANGED <<enforced, pooled, fresh, cpu, job>>
    BY DEF IInv, ApplyPut, vmVars, TypeOK
  <1>1. CASE r.owner = Nobody
    <2>1. op' = op /\ lock' = lock
      BY <1>1 DEF ApplyPut
    <2> QED  BY <1>0, <2>1, RuleWritten DEF Puts, TypeOK
  <1>2. CASE r.owner # Nobody
    <2> DEFINE p == r.owner
    <2>1. p \in Operators /\ Claims(p) /\ access' \in Access
      BY <1>0, <1>2 DEF Puts, IInv
    <2>2. op[p].at = "put" /\ op[p].action \in RuleActions /\ job.owner # p
      BY <2>1 DEF Claims, PutsMatch, CallsMatch, JobMatches, VmPoints
    <2>3. Advance(p) \/ Ambiguous(p)
      BY <1>2 DEF ApplyPut
    <2>4. /\ Moves(p, "readBack") \/ Moves(p, "ambiguous")
          /\ lock' \subseteq Operators
      <3>1. CASE Advance(p)
        <4>1. Moves(p, NextCall(op[p].at)) /\ lock' \subseteq Operators
          BY <1>0, <2>1, <3>1, AdvanceMoves
        <4> QED  BY <2>2, <4>1 DEF NextCall
      <3>2. CASE Ambiguous(p)
        BY <1>0, <2>1, <3>2, AmbiguousMoves
      <3> QED  BY <2>3, <3>1, <3>2
    <2> HIDE DEF p
    <2>5. CallsMatch(p)'
      BY <2>2, <2>4 DEF CallsMatch, Moves
    <2> QED  BY <1>0, <2>1, <2>2, <2>4, <2>5, RuleWritten DEF Moves
  <1> QED  BY <1>1, <1>2

\* Another console writes the rule.
LEMMA OtherConsoleKeeps ==
    ASSUME IInv, OtherConsole
    PROVE  IInv'
  BY RuleWritten DEF OtherConsole, vmVars, IInv, TypeOK

\* Azure refuses the PUT.
LEMMA RefusePutKeeps ==
    ASSUME IInv, NEW p \in Operators, RefusePut(p)
    PROVE  IInv'
  <1>1. Claims(p) /\ op[p].at = "put" /\ Refused(p) /\ Renewals
        /\ puts' = {r \in puts : r.owner # p}
        /\ UNCHANGED <<access, enforced, pooled, fresh, cpu, job, standing>>
    BY DEF IInv, RefusePut, vmVars
  <1>2. job.owner # p
    BY <1>1 DEF Claims, JobMatches, VmPoints
  <1> QED  BY <1>1, <1>2, FailingKeeps DEF Points

\* A page gives up what it has started.
LEMMA InterruptKeeps ==
    ASSUME IInv, NEW p \in Operators, InterruptPut(p) \/ CommandLost(p)
    PROVE  IInv'
  <1>0. /\ TypeOK /\ op[p].at \in Points /\ Ambiguous(p) /\ Orphaned(p)
        /\ Renewals
        /\ UNCHANGED <<access, enforced, pooled, fresh, cpu, standing>>
    BY DEF IInv, InterruptPut, CommandLost, network, process, Points
  <1>1. Moves(p, "ambiguous") /\ lock' \subseteq Operators
    BY <1>0, AmbiguousMoves
  <1>2. /\ job' \in Jobs \cup {NoJob} /\ puts' \subseteq Puts
        /\ job'.owner # p
        /\ \A q \in Operators : job'.owner = q => job' = job
        /\ \A r \in puts' : r.owner # p /\ (r.owner \in Operators => r \in puts)
    BY <1>0, OrphanedFrame
  <1> QED  BY <1>0, <1>1, <1>2, EndingKeeps

\* A page is reloaded.
LEMMA ReloadKeeps ==
    ASSUME IInv, NEW p \in Operators, Reload(p)
    PROVE  IInv'
  <1>0. /\ TypeOK /\ Orphaned(p) /\ lock' = lock \ {p} /\ Renewals
        /\ op' = [op EXCEPT ![p] = Gone(@, "idle")] /\ standing' = standing \ {p}
        /\ UNCHANGED <<access, enforced, pooled, fresh, cpu>>
    BY DEF IInv, Reload, network, process
  <1>1. Moves(p, "idle") /\ lock' \subseteq Operators
    BY <1>0, GoesTo DEF Ends, TypeOK
  <1>2. /\ job' \in Jobs \cup {NoJob} /\ puts' \subseteq Puts
        /\ job'.owner # p
        /\ \A q \in Operators : job'.owner = q => job' = job
        /\ \A r \in puts' : r.owner # p /\ (r.owner \in Operators => r \in puts)
    BY <1>0, OrphanedFrame
  <1> QED  BY <1>0, <1>1, <1>2, EndingKeeps

\* A page is connected again: only its lock changes.
LEMMA ReconnectKeeps ==
    ASSUME IInv, NEW p \in Operators, Reconnect(p)
    PROVE  IInv'
  <1>0. /\ TypeOK /\ lock' = lock \ {p}
        /\ UNCHANGED <<access, enforced, pooled, fresh, cpu, job, op, puts,
                       standing>>
    BY DEF IInv, Reconnect, vmVars
  <1>1. TypeOK'
    BY <1>0, RenewalsTyped DEF TypeOK, Reconnect
  <1>2. \A q \in Operators : Claims(q)'
    BY <1>0, OthersKept DEF IInv
  <1> QED  BY <1>1, <1>2 DEF IInv

\* The second GET: from now on the page claims what it read.
LEMMA ReadBackKeeps ==
    ASSUME IInv, NEW p \in Operators, ReadBack(p)
    PROVE  IInv'
  <1>0. TypeOK /\ Claims(p) /\ op[p].at = "readBack" /\ Renewals
        /\ UNCHANGED <<access, enforced, pooled, fresh, cpu, job, puts>>
    BY DEF IInv, ReadBack, vmVars
  <1>1. /\ op[p].action \in RuleActions
        /\ job.owner # p /\ \A r \in puts : r.owner # p
    BY <1>0 DEF Claims, CallsMatch, JobMatches, PutsMatch, VmPoints
  <1>2. CASE /\ access = Target(p) /\ Advance(p)
             /\ standing' = standing \cup {p}
    <2>1. Moves(p, NextCall(op[p].at)) /\ lock' \subseteq Operators
      BY <1>0, <1>2, AdvanceMoves
    <2>2. Moves(p, "recycle")
      BY <1>0, <2>1 DEF NextCall
    <2>3. TypeOK'
      BY <1>0, <1>2, <2>1, RenewalsTyped DEF TypeOK, Moves
    <2>4. Target(p)' = Target(p)
      BY <2>2 DEF Target, Moves
    <2>5. Claims(p)'
      BY <1>0, <1>1, <1>2, <2>2, <2>4
         DEF Claims, CallsMatch, JobMatches, PutsMatch, RuleStands,
             RecycleObserves, DataPlaneFollows, Moves
    <2>6. \A q \in Operators : q # p => Claims(q)'
      BY <1>0, <1>2, <2>1, OthersKept DEF IInv, Moves
    <2> QED  BY <2>3, <2>5, <2>6 DEF IInv
  <1>3. CASE (Refused(p) \/ Ambiguous(p)) /\ standing' = standing
    BY <1>0, <1>1, <1>3, FailingKeeps DEF Points
  <1> QED  BY <1>2, <1>3 DEF ReadBack

\* The answer to a call, while the claims about it are unchanged but for what
\* a recycle has seen.
LEMMA AnswerKeeps ==
    ASSUME IInv, NEW p \in Operators, NEW answer \in {"ok", "error"}, NEW active,
           Gets(p, answer, active), op[p].at \in VmPoints \cup {"ruleStatus"},
           UNCHANGED <<access, enforced, pooled, fresh, cpu, lock, puts, standing>>,
           Renewals, job' \in {job, NoJob}, job'.owner # p,
           p \in standing /\ answer = "ok" => enforced = Target(p)
    PROVE  IInv'
  <1>0. TypeOK /\ Claims(p)
    BY DEF IInv
  <1>1. TypeOK'
    BY <1>0, RenewalsTyped DEF TypeOK, Gets
  <1>2. Target(p)' = Target(p)
    BY DEF Target, Gets
  <1>3. CallsMatch(p)' /\ JobMatches(p)' /\ PutsMatch(p)'
    BY <1>0 DEF Claims, CallsMatch, JobMatches, PutsMatch, Gets
  <1>4. RuleStands(p)' /\ RecycleObserves(p)'
    BY <1>0, <1>2 DEF Claims, RuleStands, RecycleObserves, Gets
  <1>5. DataPlaneFollows(p)'
    BY <1>0, <1>2 DEF Claims, DataPlaneFollows, Gets
  <1>6. \A q \in Operators : job'.owner = q => job' = job
    BY NobodyAssumption DEF NoJob
  <1>7. \A q \in Operators : q # p => Claims(q)'
    BY <1>6, OthersKept DEF IInv, Gets
  <1> QED  BY <1>1, <1>3, <1>4, <1>5, <1>7 DEF IInv, Claims

\* Azure answers the page's question about the rule.
LEMMA RuleStatusKeeps ==
    ASSUME IInv, NEW p \in Operators, RuleStatus(p)
    PROVE  IInv'
  <1>0. TypeOK /\ Claims(p) /\ op[p].at = "ruleStatus" /\ Renewals
        /\ UNCHANGED <<access, enforced, pooled, fresh, cpu, job, puts, standing>>
    BY DEF IInv, RuleStatus, vmVars
  <1>1. /\ op[p].action \notin RuleActions /\ p \notin standing
        /\ job.owner # p /\ \A r \in puts : r.owner # p
    BY <1>0 DEF Claims, CallsMatch, JobMatches, PutsMatch, RuleStands, VmPoints
  <1> DEFINE deny == access = "Deny"
  <1>2. CASE op' = [op EXCEPT ![p] = Answered(@, "ok", deny)] /\ lock' = lock
    <2>1. deny \in BOOLEAN /\ "ok" \in Replies
      BY DEF Replies
    <2> HIDE DEF deny
    <2>2. Gets(p, "ok", deny)
      BY <1>0, <1>2, <2>1, AnswerGets
    <2> QED  BY <1>0, <1>1, <1>2, <2>2, AnswerKeeps
  <1>3. CASE Refused(p)
    BY <1>0, <1>1, <1>3, FailingKeeps DEF Points
  <1> QED  BY <1>2, <1>3 DEF RuleStatus

\* A command begins with nothing observed.
LEMMA PostCommandKeeps ==
    ASSUME IInv, NEW p \in Operators, PostCommand(p)
    PROVE  IInv'
  <1>0. TypeOK /\ Claims(p) /\ op[p].at \in VmPoints /\ job.owner # p
        /\ op[p].answer = "none" /\ Renewals
        /\ UNCHANGED <<access, enforced, pooled, fresh, cpu, puts, standing>>
    BY DEF IInv, PostCommand, process
  <1>1. CASE job = NoJob
    <2>1. UNCHANGED <<op, lock>> /\ job' = NewJob(p, CommandAt(p))
      BY <1>1 DEF PostCommand
    <2>2. /\ job' \in Jobs
          /\ job'.owner = p /\ job'.cmd = CommandAt(p) /\ job'.phase = "start"
          /\ job'.ready = 0
      <3>1. CommandAt(p) \in Commands
        BY <1>0, CallsTyped
      <3> QED  BY <2>1, <3>1, NewJobTyped
    <2>3. TypeOK'
      BY <1>0, <2>1, <2>2, RenewalsTyped DEF TypeOK
    <2>4. /\ job'.owner = p /\ job'.cmd = CommandAt(p) /\ job'.phase = "start"
          /\ job'.ready = 0
      BY <2>2
    <2>5. CommandAt(p)' = CommandAt(p) /\ Target(p)' = Target(p)
      BY <2>1 DEF CommandAt, Target
    <2>6. Observes'
      BY <2>4 DEF Observes
    <2>7. Claims(p)'
      BY <1>0, <2>1, <2>4, <2>5, <2>6
         DEF Claims, CallsMatch, JobMatches, PutsMatch, RuleStands,
             RecycleObserves, DataPlaneFollows
    <2>8. \A q \in Operators : q # p => Claims(q)'
      BY <1>0, <2>1, <2>4, OthersKept DEF IInv
    <2> QED  BY <2>3, <2>7, <2>8 DEF IInv
  <1>2. CASE job # NoJob
    <2>1. Refused(p) /\ job' = job
      BY <1>2 DEF PostCommand
    <2>2. \A r \in puts : r.owner # p
      BY <1>0 DEF Claims, PutsMatch, VmPoints
    <2> QED  BY <1>0, <2>1, <2>2, FailingKeeps DEF Points
  <1> QED  BY <1>1, <1>2

\* The command of a page that claims the rule is its recycle.
LEMMA ClaimsRecycle ==
    ASSUME NEW p \in Operators, Claims(p), p \in standing, job.owner = p
    PROVE  /\ op[p].at = "recycle" /\ job.cmd \in Recycles
           /\ Wanted(job.cmd) = Target(p) /\ access = Target(p) /\ Observes
  BY DEF Claims, RuleStands, JobMatches, RecycleObserves, VmPoints, CommandAt,
         Recycles, Wanted, Target, RuleActions

\* A command ends; that of a recycle shows the data plane.
LEMMA CommandEndsKeeps ==
    ASSUME IInv, NEW p \in Operators, CommandEnds(p)
    PROVE  IInv'
  <1> DEFINE u == job.unit = "active"
  <1>0. /\ TypeOK /\ Claims(p) /\ job.owner = p /\ job' = NoJob /\ Renewals
        /\ job.phase \in {"ok", "error"}
        /\ op' = [op EXCEPT ![p] = Answered(@, job.phase, u)]
        /\ UNCHANGED <<access, enforced, pooled, fresh, cpu, lock, puts, standing>>
    BY DEF IInv, CommandEnds, process
  <1>1. u \in BOOLEAN /\ job.phase \in Replies
    BY <1>0 DEF Replies
  <1> HIDE DEF u
  <1>2. Gets(p, job.phase, u)
    BY <1>0, <1>1, AnswerGets
  <1>3. op[p].at \in VmPoints /\ job'.owner # p
    BY <1>0, NobodyAssumption DEF Claims, JobMatches, NoJob
  <1>4. p \in standing /\ job.phase = "ok" => enforced = Target(p)
    <2> SUFFICES ASSUME p \in standing, job.phase = "ok"
                 PROVE  enforced = Target(p)
      OBVIOUS
    <2>1. /\ job.cmd \in Recycles /\ Wanted(job.cmd) = Target(p) /\ Observes
      BY <1>0, ClaimsRecycle
    <2>2. VmTypeOK
      BY <1>0 DEF TypeOK, VmTypeOK
    <2> QED  BY <2>1, <2>2, ObservedEnforced
  <1> QED  BY <1>0, <1>2, <1>3, <1>4, AnswerKeeps

\* The page takes the answer it waits for.
LEMMA TakeAnswerKeeps ==
    ASSUME IInv, NEW p \in Operators, TakeAnswer(p)
    PROVE  IInv'
  <1>0. /\ TypeOK /\ Claims(p) /\ op[p].answer # "none" /\ Renewals
        /\ UNCHANGED <<access, enforced, pooled, fresh, cpu, job, puts, standing>>
    BY DEF IInv, TakeAnswer, vmVars
  <1>1. /\ op[p].at \in VmPoints \cup {"ruleStatus"} /\ job.owner # p
        /\ \A r \in puts : r.owner # p
    BY <1>0 DEF Claims, JobMatches, PutsMatch, VmPoints
  <1>2. CASE op[p].answer = "ok"
    <2> DEFINE at == NextCall(op[p].at)
    <2>1. Moves(p, at) /\ lock' \subseteq Operators
      BY <1>0, <1>2, AdvanceMoves DEF TakeAnswer
    <2>2. /\ op[p].at = "checkVm" => at = "get"
          /\ op[p].at \in {"startCpu", "resetCpu"} => at = "ruleStatus"
          /\ op[p].at \in {"recycle", "ruleStatus"} => at = "succeeded"
      BY DEF NextCall
    <2> HIDE DEF at
    <2>3. p \in standing => op[p].at = "recycle" /\ enforced = Target(p)
      BY <1>0, <1>1, <1>2
         DEF Claims, RuleStands, DataPlaneFollows, VmPoints
    <2>4. TypeOK'
      BY <1>0, <2>1, RenewalsTyped DEF TypeOK, Moves
    <2>5. Target(p)' = Target(p)
      BY <2>1 DEF Target, Moves
    <2>6. CallsMatch(p)'
      BY <1>0, <1>1, <2>1, <2>2
         DEF Claims, CallsMatch, Moves, VmPoints, RuleActions
    <2>7. RuleStands(p)' /\ DataPlaneFollows(p)'
      BY <1>0, <2>1, <2>2, <2>3, <2>5
         DEF Claims, RuleStands, DataPlaneFollows, Moves
    <2>8. JobMatches(p)' /\ PutsMatch(p)' /\ RecycleObserves(p)'
      BY <1>0, <1>1, <2>1 DEF JobMatches, PutsMatch, RecycleObserves, Moves
    <2>9. \A q \in Operators : q # p => Claims(q)'
      BY <1>0, <2>1, OthersKept DEF IInv, Moves
    <2> QED  BY <2>4, <2>6, <2>7, <2>8, <2>9 DEF IInv, Claims
  <1>3. CASE op[p].answer # "ok"
    <2>1. Refused(p) \/ Ambiguous(p)
      BY <1>3 DEF TakeAnswer
    <2> QED  BY <1>0, <1>1, <2>1, FailingKeeps DEF Points, VmPoints
  <1> QED  BY <1>2, <1>3

\* Another console uses the VM.
LEMMA OtherCommandKeeps ==
    ASSUME IInv, OtherCommand
    PROVE  IInv'
  <1>0. /\ TypeOK /\ Renewals
        /\ UNCHANGED <<access, enforced, pooled, fresh, cpu, op, lock, puts,
                       standing>>
    BY DEF IInv, OtherCommand, process, pageVars
  <1>1. PICK cmd \in OtherCommands : job' = NewJob(Nobody, cmd)
    BY DEF OtherCommand
  <1>2. job' \in Jobs /\ \A q \in Operators : job'.owner # q
    BY <1>1, OtherAssumption, NobodyAssumption, NewJobTyped
  <1>3. TypeOK'
    BY <1>0, <1>2, RenewalsTyped DEF TypeOK
  <1>4. \A q \in Operators : Claims(q)'
    BY <1>0, <1>2, OthersKept DEF IInv
  <1> QED  BY <1>3, <1>4 DEF IInv

\* What happens on the VM and in the network.
LEMMA OnVmKeeps ==
    ASSUME IInv, OnVm
    PROVE  IInv'
  <1>0. /\ TypeOK /\ VmTypeOK /\ (JobStep \/ Environment) /\ Renewals
        /\ UNCHANGED <<access, op, lock, puts, standing>>
    BY DEF IInv, OnVm, VmNext, pageVars, TypeOK, VmTypeOK
  <1>1. TypeOK'
    BY <1>0, JobStepTypes, EnvironmentTypes, RenewalsTyped DEF TypeOK
  <1>2. ASSUME NEW p \in Operators
        PROVE  Claims(p)'
    <2>1. Claims(p) /\ Target(p)' = Target(p) /\ CommandAt(p)' = CommandAt(p)
      BY <1>0 DEF IInv, Target, CommandAt
    <2>2. CallsMatch(p)' /\ PutsMatch(p)' /\ RuleStands(p)'
      BY <1>0, <2>1 DEF Claims, CallsMatch, PutsMatch, RuleStands
    <2>3. CASE JobStep
      <3>1. /\ enforced' = enforced
            /\ job'.owner = p => job.owner = p /\ job'.cmd = job.cmd
                                 /\ ~JobForgotten
        BY <1>0, <2>3, JobFrame
      <3>2. JobMatches(p)' /\ DataPlaneFollows(p)'
        BY <1>0, <2>1, <3>1 DEF Claims, JobMatches, DataPlaneFollows
      <3>3. RecycleObserves(p)'
        BY <1>0, <2>1, <2>3, <3>1, ClaimsRecycle, ObservesKept
           DEF RecycleObserves
      <3> QED  BY <2>2, <3>2, <3>3 DEF Claims
    <2>4. CASE Environment
      <3>1. job' = job /\ enforced' \in {enforced, access}
        BY <2>4 DEF Environment, Propagate, TrafficConnects, PoolDrains,
                    ApiCrashes, CpuExpires
      <3>2. JobMatches(p)' /\ DataPlaneFollows(p)'
        BY <1>0, <2>1, <3>1
           DEF Claims, JobMatches, RuleStands, DataPlaneFollows
      <3>3. RecycleObserves(p)'
        BY <1>0, <2>1, <2>4, <3>1, ClaimsRecycle, ObservesStands
           DEF RecycleObserves
      <3> QED  BY <2>2, <3>2, <3>3 DEF Claims
    <2> QED  BY <1>0, <2>3, <2>4
  <1> QED  BY <1>1, <1>2 DEF IInv

-----------------------------------------------------------------------------
(* The invariant, and what follows from it.                                *)

\* Nothing runs and nothing is claimed initially.
LEMMA InitKeeps ==
    ASSUME Init
    PROVE  IInv
  <1>1. [action |-> "cpu", at |-> "idle", answer |-> "none", active |-> FALSE]
           \in Ops
    BY DEF Ops, Actions, Injects, Incidents, Ends, Replies
  <1>2. TypeOK
    BY <1>1 DEF Init, VmInit, TypeOK, Access
  <1>3. job.owner = Nobody /\ \A p \in Operators : p # Nobody
    BY NobodyAssumption DEF Init, VmInit, NoJob
  <1>4. \A p \in Operators : Claims(p)
    BY <1>3 DEF Init, Claims, CallsMatch, JobMatches, PutsMatch, RuleStands,
                RecycleObserves, DataPlaneFollows
  <1> QED  BY <1>2, <1>4 DEF IInv

\* The invariant is inductive: one step per action of Next.
LEMMA NextKeeps ==
    ASSUME IInv, [Next]_vars
    PROVE  IInv'
  <1>1. ASSUME NEW p \in Operators,
               Press(p) \/ Page(p) \/ Reconnect(p) \/ Reload(p)
        PROVE  IInv'
    BY <1>1, PressKeeps, GetRuleKeeps, ReadBackKeeps, RuleStatusKeeps,
       RefusePutKeeps, InterruptKeeps, PostCommandKeeps, CommandEndsKeeps,
       TakeAnswerKeeps, ReconnectKeeps, ReloadKeeps DEF Page
  <1>2. CASE UNCHANGED vars
    <2>1. UNCHANGED <<access, enforced, pooled, fresh, cpu, job, op, lock, puts,
                      standing, renewed>>
      BY <1>2 DEF vars, vmVars, pageVars
    <2>2. TypeOK'
      BY <2>1 DEF IInv, TypeOK
    <2>3. \A q \in Operators : Claims(q)'
      BY <2>1, OthersKept DEF IInv
    <2> QED  BY <2>2, <2>3 DEF IInv
  <1> QED  BY <1>1, <1>2, ApplyPutKeeps, OtherConsoleKeeps, OtherCommandKeeps, OnVmKeeps
       DEF Next

\* The invariant holds in every state.
LEMMA InvariantHolds == Spec => []IInv
  <1>1. Init => IInv
    BY InitKeeps
  <1>2. IInv /\ [Next]_vars => IInv'
    BY NextKeeps
  <1> QED  BY <1>1, <1>2, PTL DEF Spec

\* The pages, their PUTs, the VM and the rule have the types that ui.js and
\* azure.js give them, for any set of pages and any use of the buttons.
THEOREM TypeCorrect == Spec => []TypeOK
  <1>1. IInv => TypeOK
    BY DEF IInv
  <1> QED  BY <1>1, InvariantHolds, PTL

\* A PostgreSQL incident the page reports as started is one in the data plane
\* until somebody writes the rule, for any number of pages and whatever
\* interrupted PUTs and abandoned commands do.
THEOREM InjectCorrect == Spec => []InjectHolds
  <1>1. IInv => InjectHolds
    BY DEF IInv, Claims, RuleStands, DataPlaneFollows, TypeOK, InjectHolds,
           Verified, Target
  <1> QED  BY <1>1, InvariantHolds, PTL

\* A PostgreSQL reset the page reports as verified is one for new connections
\* until somebody writes the rule.
THEOREM ResetCorrect == Spec => []ResetHolds
  <1>1. IInv => ResetHolds
    BY DEF IInv, Claims, RuleStands, DataPlaneFollows, TypeOK, ResetHolds,
           Verified, Target
  <1> QED  BY <1>1, InvariantHolds, PTL

-----------------------------------------------------------------------------
(* When a reset releases its page.                                         *)

\* A page has read the rule, and found no incident so far.
RuleSeen(p) == \/ op[p].at = "recycle"
               \/ op[p].at = "ruleStatus" /\ op[p].answer = "ok"

\* faults.py has read the CPU unit for it.
UnitSeen(p) == \/ op[p].at = "ruleStatus"
               \/ op[p].at \in {"recycle", "resetCpu"} /\ op[p].answer = "ok"

\* An incident that is active although a reset has seen it over was begun
\* since.
SeenOver(p) ==
    Resets(p) /\ ~op[p].active =>
        /\ RuleSeen(p) /\ Active("postgresql") => "postgresql" \in renewed[p]
        /\ UnitSeen(p) /\ Active("cpu") => "cpu" \in renewed[p]

Releases == UnitRead /\ \A p \in Operators : SeenOver(p)

\* The history loses nothing while a reset runs, and gains what begins.
LEMMA RenewalsGain ==
    ASSUME TypeOK, Renewals, NEW p \in Operators, Resets(p)'
    PROVE  \A i \in Incidents : Active(i)' =>
              i \in renewed'[p] \/ (Active(i) /\ i \notin renewed[p])
  BY DEF Renewals, TypeOK

\* What a reset has seen, while its operation does not move.
LEMMA SeenOverStays ==
    ASSUME TypeOK, Renewals, NEW p \in Operators, SeenOver(p), op'[p] = op[p]
    PROVE  SeenOver(p)'
  <1>1. /\ Resets(p)' = Resets(p) /\ RuleSeen(p)' = RuleSeen(p)
        /\ UnitSeen(p)' = UnitSeen(p)
    BY DEF Resets, RuleSeen, UnitSeen
  <1>2. "cpu" \in Incidents /\ "postgresql" \in Incidents
    BY DEF Incidents
  <1>3. Resets(p)' => \A i \in Incidents :
           Active(i)' /\ (Active(i) => i \in renewed[p]) => i \in renewed'[p]
    BY RenewalsGain
  <1> HIDE DEF Active
  <1> QED  BY <1>1, <1>2, <1>3 DEF SeenOver

\* A page that goes on, other than to its recycle or its status, has seen
\* nothing; the others keep what they have seen.
LEMMA MovesSeen ==
    ASSUME IInv, Releases, Renewals, NEW p \in Operators, NEW at,
           Moves(p, at), at \notin {"recycle", "ruleStatus"}
    PROVE  \A q \in Operators : SeenOver(q)'
  <1>1. SeenOver(p)'
    BY DEF SeenOver, RuleSeen, UnitSeen, Moves
  <1>2. \A q \in Operators : q # p => SeenOver(q)'
    BY SeenOverStays DEF IInv, Releases, Moves
  <1> QED  BY <1>1, <1>2

\* An error ends the operation.
LEMMA FailingSeen ==
    ASSUME IInv, Releases, Renewals, NEW p \in Operators,
           Refused(p) \/ Ambiguous(p)
    PROVE  \A q \in Operators : SeenOver(q)'
  <1>1. PICK at \in {"failed", "ambiguous"} : Moves(p, at)
    BY RefusedMoves, AmbiguousMoves DEF IInv
  <1> QED  BY <1>1, MovesSeen

\* The steps of a page that keep what faults.py has read.
LEMMA UnitStays ==
    ASSUME Releases, cpu' = cpu,
           \/ job' = job \/ job'.phase # "ok"
           \/ \E p \in Operators : Orphaned(p) /\ TypeOK
    PROVE  UnitRead'
  <1>1. CASE job' = job \/ job'.phase # "ok"
    BY <1>1 DEF Releases, UnitRead
  <1>2. CASE \E p \in Operators : Orphaned(p) /\ TypeOK
    <2>1. job'.phase = job.phase /\ job'.unit = job.unit
      BY <1>2 DEF Orphaned, TypeOK, Jobs, NoJob
    <2> QED  BY <2>1 DEF Releases, UnitRead
  <1> QED  BY <1>1, <1>2

\* A page reads the rule back: the rule of its reset allows access.
LEMMA ReadBackReleases ==
    ASSUME IInv, Releases, NEW p \in Operators, ReadBack(p)
    PROVE  Releases'
  <1>0. TypeOK /\ Claims(p) /\ op[p].at = "readBack" /\ Renewals
        /\ UNCHANGED <<access, cpu, job>>
    BY DEF IInv, ReadBack, vmVars
  <1>1. UnitRead'
    BY <1>0, UnitStays
  <1>2. CASE access = Target(p) /\ Advance(p)
    <2>1. Moves(p, "recycle")
      BY <1>0, <1>2, AdvanceMoves DEF NextCall
    <2>2. Resets(p)' => access' = "Allow"
      BY <1>0, <1>2, <2>1
         DEF Claims, CallsMatch, RuleActions, Resets, Moves, Target, Injects,
             Incidents
    <2>3. SeenOver(p)'
      BY <2>1, <2>2 DEF SeenOver, UnitSeen, Active, Moves
    <2>4. \A q \in Operators : q # p => SeenOver(q)'
      BY <1>0, <2>1, SeenOverStays DEF Releases, Moves
    <2> QED  BY <1>1, <2>3, <2>4 DEF Releases
  <1>3. CASE Refused(p) \/ Ambiguous(p)
    BY <1>0, <1>1, <1>3, FailingSeen DEF Releases
  <1> QED  BY <1>2, <1>3 DEF ReadBack

\* Azure answers the page's question about the rule.
LEMMA RuleStatusReleases ==
    ASSUME IInv, Releases, NEW p \in Operators, RuleStatus(p)
    PROVE  Releases'
  <1>0. TypeOK /\ Claims(p) /\ op[p].at = "ruleStatus" /\ Renewals
        /\ UNCHANGED <<access, cpu, job>>
    BY DEF IInv, RuleStatus, vmVars
  <1>1. UnitRead'
    BY <1>0, UnitStays
  <1> DEFINE deny == access = "Deny"
  <1>2. CASE op' = [op EXCEPT ![p] = Answered(@, "ok", deny)]
    <2>1. deny \in BOOLEAN /\ "ok" \in Replies
      BY DEF Replies
    <2> HIDE DEF deny
    <2>2. Gets(p, "ok", deny)
      BY <1>0, <1>2, <2>1, AnswerGets
    <2>3. ASSUME Resets(p)', ~op'[p].active
          PROVE  /\ ~Active("postgresql")'
                 /\ Active("cpu")' => "cpu" \in renewed'[p]
      <3>1. Resets(p) /\ ~op[p].active /\ ~deny
        BY <2>2, <2>3 DEF Resets, Gets
      <3>2. ~Active("postgresql")' /\ Active("cpu")' = Active("cpu")
        BY <1>0, <3>1 DEF Active, deny
      <3>3. Active("cpu") => "cpu" \in renewed[p]
        BY <1>0, <3>1 DEF Releases, SeenOver, UnitSeen
      <3>4. "cpu" \in Incidents
        BY DEF Incidents
      <3> HIDE DEF Active
      <3> QED  BY <1>0, <2>3, <3>2, <3>3, <3>4, RenewalsGain
    <2>4. SeenOver(p)'
      BY <2>3 DEF SeenOver
    <2>5. \A q \in Operators : q # p => SeenOver(q)'
      BY <1>0, <2>2, SeenOverStays DEF Releases, Gets
    <2> QED  BY <1>1, <2>4, <2>5 DEF Releases
  <1>3. CASE Refused(p)
    BY <1>0, <1>1, <1>3, FailingSeen DEF Releases
  <1> QED  BY <1>2, <1>3 DEF RuleStatus

\* A command ends: the unit it reports as inactive still is.
LEMMA CommandEndsReleases ==
    ASSUME IInv, Releases, NEW p \in Operators, CommandEnds(p)
    PROVE  Releases'
  <1> DEFINE u == job.unit = "active"
  <1>0. /\ TypeOK /\ Claims(p) /\ job.owner = p /\ job' = NoJob /\ Renewals
        /\ job.phase \in {"ok", "error"}
        /\ op' = [op EXCEPT ![p] = Answered(@, job.phase, u)]
        /\ UNCHANGED <<access, cpu>>
    BY DEF IInv, CommandEnds
  <1>1. UnitRead'
    BY <1>0, UnitStays DEF NoJob
  <1>2. u \in BOOLEAN /\ job.phase \in Replies
    BY <1>0 DEF Replies
  <1>3. job.phase = "ok" /\ ~u => cpu = "inactive"
    <2>1. job \in Jobs
      BY <1>0, NobodyAssumption DEF TypeOK, NoJob
    <2> QED  BY <2>1 DEF Releases, UnitRead, Jobs, Units
  <1> HIDE DEF u
  <1>4. Gets(p, job.phase, u)
    BY <1>0, <1>2, AnswerGets
  <1>5. op[p].at \in VmPoints
    BY <1>0 DEF Claims, JobMatches
  <1>6. ASSUME Resets(p)', ~op'[p].active
        PROVE  /\ RuleSeen(p)' /\ Active("postgresql")' =>
                      "postgresql" \in renewed'[p]
               /\ UnitSeen(p)' => ~Active("cpu")'
    <2>1. Resets(p) /\ ~op[p].active /\ ~u
      BY <1>4, <1>6 DEF Resets, Gets
    <2>2. UnitSeen(p)' => job.phase = "ok"
      BY <1>4, <1>5 DEF UnitSeen, Gets, VmPoints
    <2>3. UnitSeen(p)' => ~Active("cpu")'
      BY <1>0, <1>3, <2>1, <2>2 DEF Active
    <2>4. RuleSeen(p)' => RuleSeen(p)
      BY <1>4, <1>5 DEF RuleSeen, Gets, VmPoints
    <2>5. Active("postgresql")' = Active("postgresql")
      BY <1>0 DEF Active
    <2>6. RuleSeen(p) /\ Active("postgresql") => "postgresql" \in renewed[p]
      BY <2>1 DEF Releases, SeenOver
    <2>7. "postgresql" \in Incidents
      BY DEF Incidents
    <2> HIDE DEF Active
    <2> QED  BY <1>0, <1>6, <2>3, <2>4, <2>5, <2>6, <2>7, RenewalsGain
  <1>7. SeenOver(p)'
    BY <1>6 DEF SeenOver
  <1>8. \A q \in Operators : q # p => SeenOver(q)'
    BY <1>0, <1>4, SeenOverStays DEF Releases, Gets
  <1> QED  BY <1>1, <1>7, <1>8 DEF Releases

\* The page takes the answer it waits for: after the CPU reset it has seen the
\* unit.
LEMMA TakeAnswerReleases ==
    ASSUME IInv, Releases, NEW p \in Operators, TakeAnswer(p)
    PROVE  Releases'
  <1>0. /\ TypeOK /\ Claims(p) /\ op[p].answer # "none" /\ Renewals
        /\ UNCHANGED <<access, cpu, job>>
    BY DEF IInv, TakeAnswer, vmVars
  <1>1. UnitRead'
    BY <1>0, UnitStays
  <1>2. CASE op[p].answer = "ok"
    <2> DEFINE at == NextCall(op[p].at)
    <2>1. Moves(p, at)
      BY <1>0, <1>2, AdvanceMoves DEF TakeAnswer
    <2>2. CASE op[p].at \in {"startCpu", "resetCpu"}
      <3>1. at = "ruleStatus"
        BY <2>2 DEF NextCall
      <3> HIDE DEF at
      <3>2. ASSUME Resets(p)', ~op'[p].active
            PROVE  Active("cpu")' => "cpu" \in renewed'[p]
        <4>1. Resets(p) /\ ~op[p].active
          BY <2>1, <2>2, <3>1, <3>2 DEF Resets, Moves, Points, VmPoints
        <4>2. UnitSeen(p)
          BY <1>0, <1>2, <2>2, <4>1
             DEF UnitSeen, Resets, Claims, CallsMatch, Injects, Incidents
        <4>3. Active("cpu") => "cpu" \in renewed[p]
          BY <4>1, <4>2 DEF Releases, SeenOver
        <4>4. "cpu" \in Incidents /\ Active("cpu")' = Active("cpu")
          BY <1>0 DEF Incidents, Active
        <4> HIDE DEF Active
        <4> QED  BY <1>0, <3>2, <4>3, <4>4, RenewalsGain
      <3>3. ~RuleSeen(p)'
        BY <2>1, <3>1 DEF RuleSeen, Moves
      <3>4. SeenOver(p)'
        BY <3>2, <3>3 DEF SeenOver
      <3>5. \A q \in Operators : q # p => SeenOver(q)'
        BY <1>0, <2>1, SeenOverStays DEF Releases, Moves
      <3> QED  BY <1>1, <3>4, <3>5 DEF Releases
    <2>3. CASE op[p].at \notin {"startCpu", "resetCpu"}
      <3>1. op[p].at \in {"checkVm", "recycle", "ruleStatus"}
        BY <1>0, <2>3 DEF Claims, JobMatches, VmPoints
      <3>2. at \notin {"recycle", "ruleStatus"}
        BY <3>1 DEF NextCall
      <3> HIDE DEF at
      <3> QED  BY <1>0, <1>1, <2>1, <3>2, MovesSeen DEF Releases
    <2> QED  BY <2>2, <2>3
  <1>3. CASE op[p].answer # "ok"
    <2>1. Refused(p) \/ Ambiguous(p)
      BY <1>3 DEF TakeAnswer
    <2> QED  BY <1>0, <1>1, <2>1, FailingSeen DEF Releases
  <1> QED  BY <1>2, <1>3

\* A page begins, writes the rule, gives up or is reloaded: it has seen
\* nothing yet, or needs nothing any more.
LEMMA PageReleases ==
    ASSUME IInv, Releases, NEW p \in Operators,
           \/ Press(p) \/ GetRule(p) \/ RefusePut(p) \/ InterruptPut(p)
           \/ PostCommand(p) \/ CommandLost(p) \/ Reconnect(p) \/ Reload(p)
    PROVE  Releases'
  <1>0. TypeOK /\ Claims(p)
    BY DEF IInv
  <1>1. CASE Press(p)
    <2>0. Renewals /\ cpu' = cpu /\ job' = job
      BY <1>1 DEF Press, vmVars
    <2>1. PICK action \in Menu[p] :
             op' = [op EXCEPT ![p] = [action |-> action,
                                      at     |-> FirstCall(action),
                                      answer |-> "none",
                                      active |-> FALSE]]
      BY <1>1 DEF Press
    <2>2. action \in Actions
      BY MenuAssumption
    <2>3. /\ op'[p].at = FirstCall(action) /\ op'[p].answer = "none"
          /\ \A q \in Operators : q # p => op'[q] = op[q]
      BY <1>0, <2>1 DEF TypeOK
    <2>4. FirstCall(action) \in {"checkVm", "get", "resetCpu", "startCpu"}
      BY <2>2 DEF FirstCall, Actions, Injects, Incidents
    <2>5. SeenOver(p)'
      BY <2>3, <2>4 DEF SeenOver, RuleSeen, UnitSeen
    <2>6. \A q \in Operators : q # p => SeenOver(q)'
      BY <1>0, <2>0, <2>3, SeenOverStays DEF Releases
    <2> QED  BY <2>0, <2>5, <2>6, UnitStays DEF Releases
  <1>2. CASE GetRule(p)
    <2>0. Renewals /\ cpu' = cpu /\ job' = job
      BY <1>2 DEF GetRule, vmVars
    <2>1. \/ op' = [op EXCEPT ![p] = Gone(@, "readBack")]
          \/ op' = [op EXCEPT ![p] = Gone(@, "put")]
          \/ Refused(p)
      BY <1>2 DEF GetRule
    <2>2. \/ \E at \in {"readBack", "put"} : Moves(p, at)
          \/ Refused(p)
      BY <1>0, <2>1, GoesTo DEF Points
    <2>3. \A q \in Operators : SeenOver(q)'
      BY <2>0, <2>2, MovesSeen, FailingSeen
    <2> QED  BY <2>0, <2>3, UnitStays DEF Releases
  <1>3. CASE RefusePut(p)
    BY <1>3, UnitStays, FailingSeen DEF RefusePut, vmVars, Releases
  <1>4. CASE InterruptPut(p) \/ CommandLost(p)
    <2>1. Renewals /\ cpu' = cpu /\ Orphaned(p) /\ Ambiguous(p)
      BY <1>4 DEF InterruptPut, CommandLost
    <2> QED  BY <1>0, <2>1, UnitStays, FailingSeen DEF Releases
  <1>5. CASE PostCommand(p)
    <2>0. Renewals /\ cpu' = cpu /\ op[p].at \in VmPoints
      BY <1>5 DEF PostCommand
    <2>1. CASE job = NoJob
      <3>1. op' = op /\ job' = NewJob(p, CommandAt(p))
        BY <1>5, <2>1 DEF PostCommand
      <3>2. job'.phase = "start"
        BY <2>0, <3>1, CallsTyped, NewJobTyped
      <3>3. \A q \in Operators : SeenOver(q)'
        BY <1>0, <2>0, <3>1, SeenOverStays DEF Releases
      <3> QED  BY <2>0, <3>2, <3>3, UnitStays DEF Releases
    <2>2. CASE job # NoJob
      <3>1. Refused(p) /\ job' = job
        BY <1>5, <2>2 DEF PostCommand
      <3> QED  BY <2>0, <3>1, UnitStays, FailingSeen DEF Releases
    <2> QED  BY <2>1, <2>2
  <1>6. CASE Reconnect(p)
    <2>1. Renewals /\ cpu' = cpu /\ job' = job /\ op' = op
      BY <1>6 DEF Reconnect, vmVars
    <2> QED  BY <1>0, <2>1, SeenOverStays, UnitStays DEF Releases
  <1>7. CASE Reload(p)
    <2>1. /\ Renewals /\ cpu' = cpu /\ Orphaned(p)
          /\ op' = [op EXCEPT ![p] = Gone(@, "idle")]
      BY <1>7 DEF Reload
    <2>2. Moves(p, "idle")
      BY <1>0, <2>1, GoesTo DEF Ends
    <2> QED  BY <1>0, <2>1, <2>2, MovesSeen, UnitStays DEF Releases
  <1> QED  BY <1>1, <1>2, <1>3, <1>4, <1>5, <1>6, <1>7

\* Azure applies a PUT: an incident that begins becomes part of the history.
LEMMA ApplyPutReleases ==
    ASSUME IInv, Releases, NEW r \in puts, ApplyPut(r)
    PROVE  Releases'
  <1>0. /\ TypeOK /\ r \in Puts /\ Renewals /\ UNCHANGED <<cpu, job>>
    BY DEF IInv, ApplyPut, vmVars, TypeOK
  <1>1. UnitRead'
    BY <1>0, UnitStays
  <1>2. CASE r.owner = Nobody
    BY <1>0, <1>1, <1>2, SeenOverStays DEF ApplyPut, Releases
  <1>3. CASE r.owner # Nobody
    <2> DEFINE p == r.owner
    <2>1. p \in Operators /\ op[p].at = "put"
      BY <1>0, <1>3 DEF Puts, IInv, Claims, PutsMatch
    <2>2. Advance(p) \/ Ambiguous(p)
      BY <1>3 DEF ApplyPut
    <2> HIDE DEF p
    <2>3. CASE Advance(p)
      <3>1. Moves(p, "readBack")
        BY <1>0, <2>1, <2>3, AdvanceMoves DEF NextCall
      <3> QED  BY <1>0, <1>1, <2>1, <3>1, MovesSeen DEF Releases
    <2>4. CASE Ambiguous(p)
      BY <1>0, <1>1, <2>1, <2>4, FailingSeen DEF Releases
    <2> QED  BY <2>2, <2>3, <2>4
  <1> QED  BY <1>2, <1>3

\* What other consoles, the VM and the network do.
LEMMA OthersRelease ==
    ASSUME IInv, Releases, OtherConsole \/ OtherCommand \/ OnVm
    PROVE  Releases'
  <1>0. TypeOK /\ Renewals /\ op' = op
    BY DEF IInv, OtherConsole, OtherCommand, OnVm, pageVars
  <1>1. \A q \in Operators : SeenOver(q)'
    BY <1>0, SeenOverStays DEF Releases
  <1>2. CASE OtherConsole
    BY <1>1, <1>2, UnitStays DEF OtherConsole, vmVars, Releases
  <1>3. CASE OtherCommand
    <2>1. cpu' = cpu /\ \E cmd \in OtherCommands : job' = NewJob(Nobody, cmd)
      BY <1>3 DEF OtherCommand
    <2>2. job'.phase = "start"
      BY <2>1, OtherAssumption, NewJobTyped
    <2> QED  BY <1>1, <2>1, <2>2, UnitStays DEF Releases
  <1>4. CASE OnVm
    <2>1. VmTypeOK /\ UnitRead /\ (JobStep \/ Environment)
      BY <1>0, <1>4 DEF OnVm, VmNext, TypeOK, VmTypeOK, Releases
    <2> QED  BY <1>1, <2>1, UnitReadKept DEF Releases
  <1> QED  BY <1>2, <1>3, <1>4

\* What the running resets have seen is kept by every step.
LEMMA ReleasesKept ==
    ASSUME IInv, Releases, [Next]_vars
    PROVE  Releases'
  <1>1. CASE UNCHANGED vars
    <2>1. UNCHANGED <<access, cpu, job, op, renewed>>
      BY <1>1 DEF vars, vmVars, pageVars
    <2> QED  BY <2>1 DEF Releases, UnitRead, SeenOver, Resets, RuleSeen,
                         UnitSeen, Active
  <1>2. ASSUME NEW p \in Operators,
               Press(p) \/ Page(p) \/ Reconnect(p) \/ Reload(p)
        PROVE  Releases'
    BY <1>2, PageReleases, ReadBackReleases, RuleStatusReleases,
       CommandEndsReleases, TakeAnswerReleases DEF Page
  <1> QED  BY <1>1, <1>2, ApplyPutReleases, OthersRelease DEF Next

\* Only the answer to its last call makes a reset succeed, and the page is
\* released only if no answer told of an active incident.
LEMMA ReleaseStep ==
    ASSUME IInv, Releases, Next, NEW p \in Operators, Resets(p),
           op'[p].at = "succeeded", p \notin lock'
    PROVE  \A i \in Incidents : Active(i) => i \in renewed[p]
  <1>0. TypeOK /\ op' # op /\ op'[p] # op[p] /\ op[p].at # "succeeded"
    BY DEF IInv, Resets, Points, VmPoints
  <1>1. ASSUME NEW q \in Operators, NEW at, Moves(q, at)
        PROVE  q = p /\ at = "succeeded"
    BY <1>0, <1>1 DEF Moves
  <1>2. ASSUME NEW q \in Operators, Refused(q) \/ Ambiguous(q)
        PROVE  FALSE
    BY <1>0, <1>1, <1>2, RefusedMoves, AmbiguousMoves
  <1>3. ASSUME NEW q \in Operators, NEW answer, NEW active, Gets(q, answer, active)
        PROVE  FALSE
    BY <1>0, <1>3 DEF Gets
  <1>4. ASSUME NEW q \in Operators, op[q].at \in {"put", "readBack"}
        PROVE  ~Advance(q)
    <2> SUFFICES ASSUME Advance(q) PROVE FALSE
      OBVIOUS
    <2>1. Moves(q, NextCall(op[q].at))
      BY <1>0, AdvanceMoves
    <2>2. NextCall(op[q].at) # "succeeded"
      BY <1>4 DEF NextCall
    <2> QED  BY <1>1, <2>1, <2>2
  <1>5. \A q \in Operators : ~Press(q) /\ ~Reconnect(q)
    <2>1. \A q \in Operators : ~Reconnect(q)
      BY <1>0 DEF Reconnect
    <2>2. ASSUME NEW q \in Operators, Press(q) PROVE FALSE
      <3>1. PICK action \in Menu[q] :
               op' = [op EXCEPT ![q] = [action |-> action,
                                        at     |-> FirstCall(action),
                                        answer |-> "none",
                                        active |-> FALSE]]
        BY <2>2 DEF Press
      <3>2. q = p /\ op'[p].at = FirstCall(action)
        BY <1>0, <3>1 DEF TypeOK
      <3>3. op[p].at \in Ends
        BY <2>2, <3>2 DEF Press
      <3> QED  BY <3>3 DEF Resets, Points, VmPoints, Ends
    <2> QED  BY <2>1, <2>2
  <1>6. \A q \in Operators : ~Reload(q)
    <2> SUFFICES ASSUME NEW q \in Operators, Reload(q) PROVE FALSE
      OBVIOUS
    <2>1. Moves(q, "idle")
      BY <1>0, GoesTo DEF Reload, Ends
    <2> QED  BY <1>1, <2>1
  <1>7. \A r \in puts : ~ApplyPut(r)
    <2> SUFFICES ASSUME NEW r \in puts, ApplyPut(r) PROVE FALSE
      OBVIOUS
    <2>1. r \in Puts /\ r.owner # Nobody
      BY <1>0 DEF TypeOK, ApplyPut
    <2>2. r.owner \in Operators /\ op[r.owner].at = "put"
      BY <2>1 DEF Puts, IInv, Claims, PutsMatch
    <2> QED  BY <1>2, <1>4, <2>1, <2>2 DEF ApplyPut
  <1>8. ~OtherConsole /\ ~OtherCommand /\ ~OnVm
    BY <1>0 DEF OtherConsole, OtherCommand, OnVm, pageVars
  <1>9. ASSUME NEW q \in Operators, Page(q)
        PROVE  q = p /\ TakeAnswer(q) /\ Advance(q)
    <2>1. /\ ~RefusePut(q) /\ ~InterruptPut(q) /\ ~CommandLost(q)
          /\ ~PostCommand(q) /\ ~ReadBack(q)
      BY <1>0, <1>2, <1>4
         DEF RefusePut, InterruptPut, CommandLost, PostCommand, ReadBack
    <2>2. ~GetRule(q)
      <3> SUFFICES ASSUME GetRule(q) PROVE FALSE
        OBVIOUS
      <3>1. PICK at \in {"readBack", "put"} : op' = [op EXCEPT ![q] = Gone(@, at)]
        BY <1>2 DEF GetRule
      <3>2. Moves(q, at)
        BY <1>0, <3>1, GoesTo DEF Points
      <3> QED  BY <1>1, <3>2
    <2>3. ~RuleStatus(q)
      <3> SUFFICES ASSUME RuleStatus(q) PROVE FALSE
        OBVIOUS
      <3> DEFINE deny == access = "Deny"
      <3>1. op' = [op EXCEPT ![q] = Answered(@, "ok", deny)]
        BY <1>2 DEF RuleStatus
      <3>2. deny \in BOOLEAN /\ "ok" \in Replies
        BY DEF Replies
      <3> HIDE DEF deny
      <3> QED  BY <1>0, <1>3, <3>1, <3>2, AnswerGets
    <2>4. ~CommandEnds(q)
      <3> SUFFICES ASSUME CommandEnds(q) PROVE FALSE
        OBVIOUS
      <3> DEFINE u == job.unit = "active"
      <3>1. op' = [op EXCEPT ![q] = Answered(@, job.phase, u)]
        BY DEF CommandEnds
      <3>2. u \in BOOLEAN /\ job.phase \in Replies
        BY DEF CommandEnds, Replies
      <3> HIDE DEF u
      <3> QED  BY <1>0, <1>3, <3>1, <3>2, AnswerGets
    <2>5. TakeAnswer(q) /\ Advance(q)
      BY <1>2, <1>9, <2>1, <2>2, <2>3, <2>4 DEF Page, TakeAnswer
    <2> QED  BY <1>0, <1>1, <2>5, AdvanceMoves
  <1>10. TakeAnswer(p) /\ Advance(p)
    BY <1>5, <1>6, <1>7, <1>8, <1>9 DEF Next
  <1>11. /\ NextCall(op[p].at) = "succeeded"
         /\ lock' = Locked(p, "succeeded")
    BY <1>0, <1>1, <1>10, AdvanceMoves
  <1>12. ~op[p].active
    BY <1>11 DEF Locked, Resets
  <1>13. op[p].answer = "ok"
    BY <1>2, <1>10, <1>0, <1>1, <1>11 DEF TakeAnswer
  <1>14. op[p].at \in {"recycle", "ruleStatus"}
    <2>1. op[p].at \in VmPoints \cup {"ruleStatus"}
      BY <1>13 DEF IInv, Claims, JobMatches
    <2> QED  BY <1>11, <2>1 DEF VmPoints, NextCall
  <1>15. RuleSeen(p) /\ UnitSeen(p)
    BY <1>13, <1>14 DEF RuleSeen, UnitSeen
  <1> QED  BY <1>12, <1>15 DEF Releases, SeenOver, Incidents

\* A reset that releases its page leaves no incident that has been running
\* since it was pressed: execute() of ui.js and requiresStatusCheck of
\* executeFault(), for any number of pages and whatever other consoles do
\* between the answers and their use.
THEOREM UnlockCorrect == Spec => UnlockMeansClear
  <1>1. Init => Releases
    BY DEF Init, VmInit, NoJob, Releases, UnitRead, SeenOver, Resets, Points,
           VmPoints
  <1>2. IInv /\ Releases /\ [Next]_vars => Releases'
    BY ReleasesKept
  <1>3. IInv /\ Releases /\ [Next]_vars =>
           [\A p \in Operators :
               Resets(p) /\ op'[p].at = "succeeded" /\ p \notin lock' =>
                   \A i \in Incidents : Active(i) => i \in renewed[p]]_vars
    BY ReleaseStep
  <1> QED  BY <1>1, <1>2, <1>3, InvariantHolds, PTL DEF Spec, UnlockMeansClear
=============================================================================
