------------------------- MODULE AgentContent_proofs -------------------------
(***************************************************************************)
(* Proofs about AgentContent for any number of attempts and of late        *)
(* writes: no schedule is left without its agent, and a reported success   *)
(* is real.                                                                *)
(***************************************************************************)
EXTENDS AgentContent, FunctionTheorems, FiniteSetTheorems, TLAPS

-----------------------------------------------------------------------------
(* The inductive invariant.                                                *)

\* What the running, or last, command wants of its items.
Wanted == IF op.action = "install" THEN "defined" ELSE "absent"

\* The command is at one of its own items, and begins with the first.
NextInPlan ==
    /\ op.next \in 1..Len(Plan)
    /\ op.at = "connectors" => op.next = 1

\* What the current round has written is as wanted.
RoundHolds ==
    ~overtaken =>
        /\ op.at = "write" => \A n \in 1..(op.next - 1) : store[Plan[n]] = Wanted
        /\ op.at = "read"  => \A i \in Content(op.feature) : store[i] = Wanted

\* A given-up write that cannot overtake anything wants what the command wants.
LateMatch ==
    \A w \in late : /\ w.item \in Content(op.feature)
                    /\ w.old \/ w.value = Wanted

\* What has to be written before an item is.
Prepared(i) ==
    IF op.action = "install"
    THEN /\ i = "agent" => store["skill"] # "absent"
         /\ i = "task"  => store["agent"] # "absent"
    ELSE /\ i = "agent" => store["task"] = "absent"
         /\ i = "skill" => store["agent"] = "absent"

\* Such a write, when it is carried out, finds what it needs.
LatePrepared ==
    ~overtaken => \A w \in late : w.old \/ Prepared(w.item)

Parts ==
    /\ IsFiniteSet(late) /\ NextInPlan /\ RoundHolds /\ LateMatch
    /\ LatePrepared /\ NoDanglingSchedule

IInv == TypeOK /\ Parts

-----------------------------------------------------------------------------
(* Lemmas on the operators the actions are built from.                     *)

\* The items of a command, in its order.
LEMMA Plans ==
    ASSUME op.feature \in Features, op.action \in Actions
    PROVE  Plan = IF op.feature = "knowledge" THEN <<"comms", "slo">>
                  ELSE IF op.action = "install" THEN <<"skill", "agent", "task">>
                                                ELSE <<"task", "agent", "skill">>
  BY DEF Plan, InstallOrder, RemoveOrder, Features, Actions

\* The items of a feature.
LEMMA Contents ==
    /\ Content("health") = {"skill", "agent", "task"}
    /\ Content("knowledge") = {"comms", "slo"}
  <1>1. /\ InstallOrder("health") = <<"skill", "agent", "task">>
        /\ InstallOrder("knowledge") = <<"comms", "slo">>
    BY DEF InstallOrder
  <1>2. DOMAIN InstallOrder("health") = {1, 2, 3}
    BY <1>1
  <1>3. DOMAIN InstallOrder("knowledge") = {1, 2}
    BY <1>1
  <1> QED
    BY <1>1, <1>2, <1>3 DEF Content

\* The item a command is at, and what it writes there.
LEMMA CurrentItem ==
    ASSUME TypeOK, NextInPlan
    PROVE  /\ Current \in Writes
           /\ Current.item = Plan[op.next]
           /\ Current.item \in Content(op.feature)
           /\ Current.value = Wanted /\ ~Current.old
  <1>1. op.feature \in Features /\ op.action \in Actions /\ op.next \in 1..3
    BY DEF TypeOK, Ops
  <1>2. Plan[op.next] \in Content(op.feature)
    BY <1>1, Plans, Contents DEF NextInPlan, Features, Actions
  <1>3. Plan[op.next] \in Items
    BY <1>1, <1>2, Contents DEF Features, Items
  <1> QED
    BY <1>2, <1>3 DEF Current, Wanted, Writes, Values

\* A set whose members are made from those of a finite set.
LEMMA ImageBound ==
    ASSUME NEW S, IsFiniteSet(S), NEW T, NEW f \in [S -> T],
           \A t \in T : \E s \in S : f[s] = t
    PROVE  IsFiniteSet(T) /\ Cardinality(T) <= Cardinality(S)
  BY Fun_IsSurj, FS_Surjection

\* Errors and successes move the command on.
LEMMA FailMoves ==
    ASSUME TypeOK, Fail
    PROVE  /\ op' \in Ops
           /\ op'.feature = op.feature /\ op'.action = op.action
           /\ op'.at = "failed" /\ op'.next = op.next
  BY DEF TypeOK, Fail, Ops, Ends

\* A repeated round begins with the first item, or the command fails.
LEMMA RepeatMoves ==
    ASSUME TypeOK, Repeat
    PROVE  /\ op' \in Ops
           /\ op'.feature = op.feature /\ op'.action = op.action
           /\ \/ op'.at = "failed" /\ op'.next = op.next
              \/ op'.at = "write" /\ op'.next = 1
  <1>1. CASE op.attempt = Attempts
    BY <1>1, FailMoves DEF Repeat
  <1>2. CASE op.attempt # Attempts
    <2>1. PICK next \in 1..3 : next = 1
      OBVIOUS
    <2>2. PICK attempt \in 1..Attempts : attempt = op.attempt + 1
      BY <1>2, BoundsAssumption DEF TypeOK, Ops
    <2>3. op' = [op EXCEPT !.at = "write", !.next = next, !.attempt = attempt]
      BY <1>2, <2>1, <2>2 DEF Repeat
    <2> QED
      BY <2>1, <2>3 DEF TypeOK, Ops
  <1> QED
    BY <1>1, <1>2

\* A write moves the command on to the next item, or to the read-back.
LEMMA WrittenMoves ==
    ASSUME TypeOK, NextInPlan, op.at = "write", Written
    PROVE  /\ op' \in Ops
           /\ op'.feature = op.feature /\ op'.action = op.action
           /\ IF op.next = Len(Plan)
              THEN op'.at = "read" /\ op'.next = 1
              ELSE op'.at = "write" /\ op'.next = op.next + 1
  <1>1. Len(Plan) \in 2..3
    BY Plans DEF TypeOK, Ops
  <1>2. op = [op EXCEPT !.attempt = op.attempt] /\ op.attempt \in 1..Attempts
    BY DEF TypeOK, Ops
  <1>3. CASE op.next = Len(Plan)
    <2>1. PICK next \in 1..3 : next = 1
      OBVIOUS
    <2>2. op' = [op EXCEPT !.at = "read", !.next = next, !.attempt = op.attempt]
      BY <1>2, <1>3, <2>1 DEF Written, TypeOK, Ops
    <2> QED
      BY <1>2, <1>3, <2>1, <2>2 DEF TypeOK, Ops
  <1>4. CASE op.next # Len(Plan)
    <2>1. op' = [op EXCEPT !.at = "write", !.next = op.next + 1,
                           !.attempt = op.attempt]
      BY <1>2, <1>4 DEF Written, TypeOK, Ops
    <2>2. op.next + 1 \in 1..3
      <3>1. PICK last \in 2..3 : last = Len(Plan)
        BY <1>1
      <3>2. op.next \in 1..last /\ op.next # last
        BY <1>4, <3>1 DEF NextInPlan
      <3> QED
        BY <3>2
    <2> QED
      BY <1>2, <1>4, <2>1, <2>2 DEF TypeOK, Ops
  <1> QED
    BY <1>3, <1>4

\* The same command has the same plan, and its place in it stays valid.
LEMMA SameCommand ==
    ASSUME TypeOK, op'.feature = op.feature, op'.action = op.action
    PROVE  /\ Plan' = Plan /\ Wanted' = Wanted
           /\ Content(op'.feature) = Content(op.feature)
           /\ /\ op'.next \in {1, op.next} /\ NextInPlan
              /\ op'.at # "connectors"
              => NextInPlan'
  <1>1. Plan' = Plan /\ Wanted' = Wanted
    BY DEF Plan, Wanted
  <1>2. Len(Plan) \in 2..3
    BY Plans DEF TypeOK, Ops
  <1> QED
    BY <1>1, <1>2 DEF NextInPlan

\* Writing an item that is prepared, as the command wants it.
LEMMA WriteItem ==
    ASSUME IInv, op'.feature = op.feature, op'.action = op.action,
           UNCHANGED overtaken, NEW i \in Content(op.feature),
           overtaken \/ Prepared(i),
           store' = [store EXCEPT ![i] = Wanted]
    PROVE  /\ store' \in [Items -> Values]
           /\ NoDanglingSchedule'
           /\ \A j : overtaken \/ (Prepared(j) => Prepared(j)')
           /\ store'[i] = Wanted
           /\ \A j \in Items : store[j] = Wanted => store'[j] = Wanted
  <1>1. i \in Items
    BY Contents DEF IInv, TypeOK, Ops, Features, Items
  <1>2. Wanted \in Values /\ store \in [Items -> Values]
    BY DEF Wanted, Values, IInv, TypeOK
  <1>3. /\ store' \in [Items -> Values] /\ store'[i] = Wanted
        /\ \A j \in Items : j # i => store'[j] = store[j]
    BY <1>1, <1>2
  <1>4. op.action \in {"install", "remove"}
    BY DEF IInv, TypeOK, Ops, Actions
  <1>5. {"skill", "agent", "task"} \subseteq Items
    BY DEF Items
  <1>6. NoDanglingSchedule'
    BY <1>3, <1>4, <1>5
       DEF NoDanglingSchedule, Prepared, Wanted, IInv, Parts
  <1>7. \A j : overtaken \/ (Prepared(j) => Prepared(j)')
    BY <1>3, <1>4, <1>5 DEF Prepared, Wanted
  <1> QED
    BY <1>3, <1>6, <1>7

-----------------------------------------------------------------------------
(* Every action preserves the inductive invariant.                         *)

\* Nothing is installed and nothing runs.
LEMMA InvInit == Init => IInv
  <1> SUFFICES ASSUME Init PROVE IInv
    OBVIOUS
  <1>1. op \in Ops /\ op.next = 1 /\ op.at = "idle"
    BY BoundsAssumption DEF Init, Ops, Features, Actions, Ends
  <1>2. IsFiniteSet(late) /\ Cardinality(late) <= MaxLate
    BY FS_EmptySet, BoundsAssumption DEF Init
  <1>3. Len(Plan) \in 2..3
    BY <1>1, Plans DEF Ops
  <1>4. store \in [Items -> Values] /\ seen = store
    BY DEF Init, Values
  <1>5. NoDanglingSchedule
    BY DEF Init, NoDanglingSchedule, Items
  <1>6. TypeOK
    BY <1>1, <1>2, <1>4 DEF Init, TypeOK
  <1>7. NextInPlan
    BY <1>1, <1>3 DEF NextInPlan
  <1>8. RoundHolds /\ LateMatch /\ LatePrepared
    BY <1>1 DEF Init, RoundHolds, LateMatch, LatePrepared
  <1> QED
    BY <1>2, <1>5, <1>6, <1>7, <1>8 DEF IInv, Parts

\* A round that begins, or is over, has nothing to keep.
LEMMA NoRound ==
    ASSUME op'.at \notin {"read", "write"} \/ (op'.at = "write" /\ op'.next = 1)
    PROVE  RoundHolds'
  <1>1. CASE op'.at \notin {"read", "write"}
    BY <1>1 DEF RoundHolds
  <1>2. CASE op'.at = "write" /\ op'.next = 1
    <2>1. 1..(op'.next - 1) = {}
      BY <1>2
    <2> QED
      BY <1>2, <2>1 DEF RoundHolds
  <1> QED
    BY <1>1, <1>2

\* A step of the command that writes nothing.
LEMMA NothingWritten ==
    ASSUME IInv, op' \in Ops, op'.feature = op.feature, op'.action = op.action,
           op'.next \in {1, op.next}, op'.at # "connectors",
           UNCHANGED <<store, seen, late, overtaken>>, evidence' \in BOOLEAN,
           RoundHolds'
    PROVE  IInv'
  <1>1. TypeOK'
    BY DEF IInv, TypeOK
  <1>2. NextInPlan' /\ Wanted' = Wanted /\ Content(op.feature)' = Content(op.feature)
    BY SameCommand DEF IInv, Parts
  <1>3. LateMatch'
    BY <1>2 DEF IInv, Parts, LateMatch
  <1>4. LatePrepared'
    BY DEF IInv, Parts, LatePrepared, Prepared
  <1>5. NoDanglingSchedule' /\ IsFiniteSet(late)'
    BY DEF IInv, Parts, NoDanglingSchedule
  <1> QED
    BY <1>1, <1>2, <1>3, <1>4, <1>5 DEF IInv, Parts

\* The steps of a command that write nothing.
LEMMA ReadsStep ==
    ASSUME IInv, CheckConnectors \/ WriteRefused \/ ReadBack \/ ReadFails \/ Killed
    PROVE  IInv'
  <1> USE DEF IInv
  <1>1. CASE Fail /\ UNCHANGED <<store, seen, late, evidence, overtaken>>
    BY <1>1, FailMoves, NoRound, NothingWritten DEF TypeOK
  <1>2. CASE Repeat /\ UNCHANGED <<store, seen, late, evidence, overtaken>>
    BY <1>2, RepeatMoves, NoRound, NothingWritten DEF TypeOK
  <1>3. CASE CheckConnectors
    <2>1. CASE op' = [op EXCEPT !.at = "write"]
      <3>1. /\ op' \in Ops
            /\ op'.feature = op.feature /\ op'.action = op.action
            /\ op'.at = "write" /\ op'.next = 1
        BY <1>3, <2>1 DEF CheckConnectors, TypeOK, Ops, Parts, NextInPlan
      <3> QED
        BY <1>3, <3>1, NoRound, NothingWritten DEF CheckConnectors, TypeOK
    <2> QED
      BY <1>1, <1>3, <2>1 DEF CheckConnectors
  <1>4. CASE ReadBack
    <2>1. CASE op' = [op EXCEPT !.at = "succeeded"] /\ evidence' \in BOOLEAN
      <3>1. /\ op' \in Ops
            /\ op'.feature = op.feature /\ op'.action = op.action
            /\ op'.at = "succeeded" /\ op'.next = op.next
        BY <2>1 DEF TypeOK, Ops, Ends
      <3> QED
        BY <1>4, <2>1, <3>1, NoRound, NothingWritten DEF ReadBack
    <2>2. (op.action = "install") \in BOOLEAN
      OBVIOUS
    <2> QED
      BY <1>2, <1>4, <2>1, <2>2 DEF ReadBack
  <1> QED
    BY <1>1, <1>2, <1>3, <1>4 DEF WriteRefused, ReadFails, Killed

\* At a write, the items before it are as wanted: so it is prepared.
LEMMA RoundPrepares ==
    ASSUME IInv, op.at = "write"
    PROVE  overtaken \/ Prepared(Current.item)
  <1> SUFFICES ASSUME ~overtaken PROVE Prepared(Plan[op.next])
    BY CurrentItem DEF IInv, Parts
  <1>1. op.feature \in Features /\ op.action \in Actions /\ op.next \in 1..3
    BY DEF IInv, TypeOK, Ops
  <1>2. \A n \in 1..(op.next - 1) : store[Plan[n]] = Wanted
    BY DEF IInv, Parts, RoundHolds
  <1>3. op.next \in 1..Len(Plan)
    BY DEF IInv, Parts, NextInPlan
  <1>4. CASE op.feature = "knowledge"
    BY <1>1, <1>3, <1>4, Plans DEF Prepared
  <1>5. CASE op.feature = "health" /\ op.action = "install"
    <2>1. Plan = <<"skill", "agent", "task">>
      BY <1>1, <1>5, Plans
    <2>2. op.next > 1 => store["skill"] = "defined"
      BY <1>1, <1>2, <1>5, <2>1 DEF Wanted
    <2>3. op.next > 2 => store["agent"] = "defined"
      BY <1>1, <1>2, <1>5, <2>1 DEF Wanted
    <2> QED
      BY <1>1, <1>5, <2>1, <2>2, <2>3 DEF Prepared
  <1>6. CASE op.feature = "health" /\ op.action = "remove"
    <2>1. Plan = <<"task", "agent", "skill">>
      BY <1>1, <1>6, Plans
    <2>2. op.next > 1 => store["task"] = "absent"
      BY <1>1, <1>2, <1>6, <2>1 DEF Wanted
    <2>3. op.next > 2 => store["agent"] = "absent"
      BY <1>1, <1>2, <1>6, <2>1 DEF Wanted
    <2> QED
      BY <1>1, <1>6, <2>1, <2>2, <2>3 DEF Prepared
  <1> QED
    BY <1>1, <1>4, <1>5, <1>6 DEF Features, Actions

\* Every plan has two or three items.
LEMMA Lengths ==
    ASSUME NEW f \in Features
    PROVE  Len(InstallOrder(f)) \in 2..3 /\ Len(RemoveOrder(f)) \in 2..3
  BY DEF InstallOrder, RemoveOrder

\* The members of a plan are items, all of them the feature's.
LEMMA PlanItems ==
    ASSUME TypeOK
    PROVE  /\ \A n \in 1..Len(Plan) : Plan[n] \in Items
           /\ Content(op.feature) = {Plan[n] : n \in 1..Len(Plan)}
           /\ Content(op.feature) \subseteq Items
  <1>1. op.feature \in Features /\ op.action \in Actions
    BY DEF TypeOK, Ops
  <1>2. CASE op.feature = "knowledge"
    <2>1. Plan = <<"comms", "slo">>
      BY <1>1, <1>2, Plans
    <2>2. 1..Len(Plan) = {1, 2}
      BY <2>1
    <2> QED
      BY <1>2, <2>1, <2>2, Contents DEF Items
  <1>3. CASE op.feature = "health" /\ op.action = "install"
    <2>1. Plan = <<"skill", "agent", "task">>
      BY <1>1, <1>3, Plans
    <2>2. 1..Len(Plan) = {1, 2, 3}
      BY <2>1
    <2> QED
      BY <1>3, <2>1, <2>2, Contents DEF Items
  <1>4. CASE op.feature = "health" /\ op.action = "remove"
    <2>1. Plan = <<"task", "agent", "skill">>
      BY <1>1, <1>4, Plans
    <2>2. 1..Len(Plan) = {1, 2, 3}
      BY <2>1
    <2> QED
      BY <1>4, <2>1, <2>2, Contents DEF Items
  <1> QED
    BY <1>1, <1>2, <1>3, <1>4 DEF Features, Actions

\* A write that is carried out at once, whether or not its answer arrives.
LEMMA WriteStep ==
    ASSUME IInv, op.at = "write",
           store' = [store EXCEPT ![Current.item] = Current.value],
           UNCHANGED <<seen, late, evidence, overtaken>>,
           Written \/ Repeat \/ Fail
    PROVE  IInv'
  <1>1. /\ op' \in Ops
        /\ op'.feature = op.feature /\ op'.action = op.action
    BY WrittenMoves, RepeatMoves, FailMoves DEF IInv, Parts
  <1>2. /\ Current.item \in Content(op.feature) /\ Current.value = Wanted
        /\ Current.item = Plan[op.next]
    BY CurrentItem DEF IInv, Parts
  <1>3. /\ store' \in [Items -> Values]
        /\ NoDanglingSchedule'
        /\ \A j : overtaken \/ (Prepared(j) => Prepared(j)')
        /\ store'[Plan[op.next]] = Wanted
        /\ \A j \in Items : store[j] = Wanted => store'[j] = Wanted
    BY <1>1, <1>2, RoundPrepares, WriteItem
  <1>4. Plan' = Plan /\ Wanted' = Wanted /\ Content(op.feature)' = Content(op.feature)
    BY <1>1, SameCommand DEF IInv
  <1>5. NextInPlan' /\ RoundHolds'
    <2>1. CASE Repeat \/ Fail
      BY <1>1, <2>1, RepeatMoves, FailMoves, NoRound, SameCommand DEF IInv, Parts
    <2>2. CASE Written
      <3>1. IF op.next = Len(Plan) THEN op'.at = "read" /\ op'.next = 1
            ELSE op'.at = "write" /\ op'.next = op.next + 1
        BY <2>2, WrittenMoves DEF IInv, Parts
      <3>2. PICK last \in 2..3 : last = Len(Plan)
        BY Plans DEF IInv, TypeOK, Ops
      <3>3. op.next \in 1..last
        BY <3>2 DEF IInv, Parts, NextInPlan
      <3>4. NextInPlan'
        BY <1>4, <3>1, <3>2, <3>3 DEF NextInPlan
      <3>5. ASSUME ~overtaken, NEW n \in 1..op.next PROVE store'[Plan[n]] = Wanted
        <4>1. Plan[n] \in Items
          BY <3>2, <3>3, PlanItems DEF IInv
        <4>2. CASE n = op.next
          BY <4>2, <1>3
        <4>3. CASE n # op.next
          <5>1. n \in 1..(op.next - 1)
            BY <3>3, <4>3
          <5> QED
            BY <1>3, <3>5, <4>1, <5>1 DEF IInv, Parts, RoundHolds
        <4> QED
          BY <4>2, <4>3
      <3>6. CASE op.next = Len(Plan)
        <4>1. op'.at = "read"
          BY <3>1, <3>6
        <4>2. ~overtaken => \A i \in Content(op.feature) : store'[i] = Wanted
          BY <3>5, <3>6, PlanItems DEF IInv
        <4> QED
          BY <1>1, <1>4, <3>4, <4>1, <4>2 DEF RoundHolds
      <3>7. CASE op.next # Len(Plan)
        <4>1. op'.at = "write" /\ 1..(op'.next - 1) = 1..op.next
          BY <3>1, <3>3, <3>7
        <4> QED
          BY <1>1, <1>4, <3>4, <3>5, <4>1 DEF RoundHolds
      <3> QED
        BY <3>6, <3>7
    <2> QED
      BY <2>1, <2>2
  <1>6. TypeOK'
    BY <1>1, <1>3 DEF IInv, TypeOK
  <1>7. LateMatch' /\ LatePrepared'
    BY <1>1, <1>3, <1>4 DEF IInv, Parts, LateMatch, LatePrepared
  <1>8. IsFiniteSet(late)'
    BY DEF IInv, Parts
  <1> QED
    BY <1>3, <1>5, <1>6, <1>7, <1>8 DEF IInv, Parts

\* A write that is given up and may be carried out later.
LEMMA GiveUpStep ==
    ASSUME IInv, op.at = "write", Repeat \/ Fail,
           Cardinality(late) < MaxLate, late' = late \cup {Current},
           UNCHANGED <<store, seen, evidence, overtaken>>
    PROVE  IInv'
  <1>1. /\ op' \in Ops
        /\ op'.feature = op.feature /\ op'.action = op.action
    BY RepeatMoves, FailMoves DEF IInv
  <1>2. /\ Current \in Writes
        /\ Current.item \in Content(op.feature) /\ Current.value = Wanted
    BY CurrentItem DEF IInv, Parts
  <1>3. Plan' = Plan /\ Wanted' = Wanted /\ Content(op.feature)' = Content(op.feature)
    BY <1>1, SameCommand DEF IInv
  <1>4. NextInPlan' /\ RoundHolds'
    BY <1>1, RepeatMoves, FailMoves, NoRound, SameCommand DEF IInv, Parts
  <1>5. IsFiniteSet(late') /\ Cardinality(late') <= MaxLate
    <2>1. IsFiniteSet(late) /\ Cardinality(late) \in Nat
      BY FS_CardinalityType DEF IInv, Parts
    <2> QED
      BY <2>1, FS_AddElement, BoundsAssumption
  <1>6. TypeOK'
    BY <1>1, <1>2, <1>5 DEF IInv, TypeOK
  <1>7. LateMatch'
    BY <1>1, <1>2, <1>3 DEF IInv, Parts, LateMatch
  <1>8. LatePrepared'
    <2>1. overtaken \/ Prepared(Current.item)
      BY RoundPrepares
    <2>2. \A j : Prepared(j)' <=> Prepared(j)
      BY <1>1 DEF Prepared
    <2> QED
      BY <2>1, <2>2 DEF IInv, Parts, LatePrepared
  <1>9. NoDanglingSchedule'
    BY DEF IInv, Parts, NoDanglingSchedule
  <1> QED
    BY <1>4, <1>5, <1>6, <1>7, <1>8, <1>9 DEF IInv, Parts

\* Whether a given-up write is old depends on what follows it; its item stays.
LEMMA Relabelled ==
    ASSUME IInv, NEW f \in [late -> Writes], late' = {f[w] : w \in late}
    PROVE  /\ late' \subseteq Writes
           /\ IsFiniteSet(late') /\ Cardinality(late') <= MaxLate
  <1>1. IsFiniteSet(late) /\ Cardinality(late) <= MaxLate
    BY DEF IInv, Parts, TypeOK
  <1>2. f \in [late -> late'] /\ \A t \in late' : \E w \in late : f[w] = t
    OBVIOUS
  <1>3. IsFiniteSet(late') /\ Cardinality(late') <= Cardinality(late)
    BY <1>1, <1>2, ImageBound
  <1>4. Cardinality(late) \in Nat /\ Cardinality(late') \in Nat
    BY <1>1, <1>3, FS_CardinalityType
  <1> QED
    BY <1>1, <1>3, <1>4, BoundsAssumption

\* A new command makes the given-up writes of the opposite one old.
LEMMA StartStep ==
    ASSUME IInv, Start
    PROVE  IInv'
  <1>1. PICK a \in Actions :
           /\ op' = [op EXCEPT !.action = a, !.next = 1, !.attempt = 1,
                       !.at = IF op.feature = "health" /\ a = "install"
                              THEN "connectors" ELSE "write"]
           /\ late' = {[w EXCEPT !.old = @ \/
                          a # IF w.value = "absent" THEN "remove" ELSE "install"]
                          : w \in late}
    BY DEF Start
  <1>2. /\ op' \in Ops
        /\ op'.feature = op.feature /\ op'.action = a /\ op'.next = 1
        /\ op'.at \in {"connectors", "write"}
    <2>1. PICK one \in 1..3, attempt \in 1..Attempts : one = 1 /\ attempt = 1
      BY BoundsAssumption
    <2> QED
      BY <1>1, <2>1 DEF IInv, TypeOK, Ops
  <1>3. UNCHANGED <<store, seen, evidence, overtaken>>
    BY DEF Start
  <1> DEFINE f == [w \in late |-> [w EXCEPT !.old = @ \/
                     a # IF w.value = "absent" THEN "remove" ELSE "install"]]
  <1>4. f \in [late -> Writes]
    <2>1. ASSUME NEW w \in late, NEW b \in BOOLEAN
          PROVE  [w EXCEPT !.old = b] \in Writes
      BY DEF IInv, TypeOK, Writes
    <2> QED
      BY <2>1
  <1>5. late' = {f[w] : w \in late}
    BY <1>1
  <1>6. late' \subseteq Writes /\ IsFiniteSet(late') /\ Cardinality(late') <= MaxLate
    BY <1>4, <1>5, Relabelled
  <1>7. TypeOK'
    BY <1>2, <1>3, <1>6 DEF IInv, TypeOK
  <1>8. NextInPlan'
    <2>1. Len(Plan') \in 2..3
      BY <1>2, <1>7, Lengths DEF Plan, TypeOK, Ops
    <2> QED
      BY <1>2, <2>1 DEF NextInPlan
  <1>9. RoundHolds'
    BY <1>2, NoRound
  <1>10. LateMatch' /\ LatePrepared'
    <2>1. ASSUME NEW v \in late'
          PROVE  /\ v.item \in Content(op'.feature)
                 /\ v.old \/ v.value = Wanted'
                 /\ overtaken \/ v.old \/ Prepared(v.item)'
      <3>1. PICK w \in late : v = f[w]
        BY <1>5
      <3> DEFINE follows == w.old \/
                   a # IF w.value = "absent" THEN "remove" ELSE "install"
      <3>2. v = [w EXCEPT !.old = follows]
        BY <3>1
      <3>3. v.item = w.item /\ v.value = w.value /\ (v.old <=> follows)
        <4> HIDE DEF follows
        <4> QED
          BY <3>2 DEF IInv, TypeOK, Writes
      <3>4. /\ w.item \in Content(op.feature)
            /\ w.old \/ w.value = Wanted
            /\ overtaken \/ w.old \/ Prepared(w.item)
        BY DEF IInv, Parts, LateMatch, LatePrepared
      <3>5. ~v.old => ~w.old /\ a = op.action
        BY <3>3, <3>4 DEF Wanted, IInv, TypeOK, Ops, Actions
      <3>6. a = op.action => Wanted' = Wanted /\ (Prepared(w.item) => Prepared(w.item)')
        BY <1>2, <1>3 DEF Wanted, Prepared
      <3>7. ~v.old => w.value = Wanted /\ (overtaken \/ Prepared(w.item))
        BY <3>4, <3>5
      <3>8. v.item \in Content(op'.feature)
        BY <1>2, <3>3, <3>4
      <3>9. ~v.old => v.value = Wanted' /\ (overtaken \/ Prepared(v.item)')
        BY <3>3, <3>5, <3>6, <3>7
      <3> QED
        BY <3>8, <3>9
    <2> QED
      BY <1>3, <2>1 DEF LateMatch, LatePrepared
  <1>11. NoDanglingSchedule'
    BY <1>3 DEF IInv, Parts, NoDanglingSchedule
  <1> QED
    BY <1>6, <1>7, <1>8, <1>9, <1>10, <1>11 DEF IInv, Parts

\* An edited definition makes the given-up writes of the former one old.
LEMMA EditStep ==
    ASSUME IInv, EditDefinition
    PROVE  IInv'
  <1> DEFINE Other(v) == IF v = "defined" THEN "other" ELSE v
  <1>1. /\ ~Running
        /\ store' = [i \in Items |-> Other(store[i])]
        /\ seen' = [i \in Items |-> Other(seen[i])]
        /\ late' = {[w EXCEPT !.value = Other(@),
                              !.old = @ \/ w.value # "absent"] : w \in late}
        /\ UNCHANGED <<op, evidence, overtaken>>
    BY DEF EditDefinition
  <1>2. \A v \in Values : Other(v) \in Values
    BY DEF Values
  <1>3. \A v : Other(v) = "absent" <=> v = "absent"
    OBVIOUS
  <1> HIDE DEF Other
  <1> DEFINE f == [w \in late |-> [w EXCEPT !.value = Other(@),
                                            !.old = @ \/ w.value # "absent"]]
  <1>4. f \in [late -> Writes]
    <2>1. ASSUME NEW w \in late, NEW b \in BOOLEAN
          PROVE  [w EXCEPT !.value = Other(@), !.old = b] \in Writes
      BY <1>2 DEF IInv, TypeOK, Writes
    <2> QED
      BY <2>1
  <1>5. late' = {f[w] : w \in late}
    BY <1>1
  <1>6. late' \subseteq Writes /\ IsFiniteSet(late') /\ Cardinality(late') <= MaxLate
    BY <1>4, <1>5, Relabelled
  <1>7. store' \in [Items -> Values] /\ seen' \in [Items -> Values]
    BY <1>1, <1>2 DEF IInv, TypeOK
  <1>8. TypeOK'
    BY <1>1, <1>6, <1>7 DEF IInv, TypeOK
  <1>9. \A i \in Items : store'[i] = "absent" <=> store[i] = "absent"
    BY <1>1, <1>3
  <1>10. Plan' = Plan /\ Wanted' = Wanted /\ NextInPlan'
    BY <1>1 DEF Plan, Wanted, NextInPlan, IInv, Parts
  <1>11. RoundHolds'
    BY <1>1, NoRound DEF Running, Ends
  <1>12. {"skill", "agent", "task"} \subseteq Items
    BY DEF Items
  <1>13. NoDanglingSchedule'
    BY <1>1, <1>9, <1>12 DEF NoDanglingSchedule, IInv, Parts
  <1>14. \A i : Prepared(i) <=> Prepared(i)'
    BY <1>1, <1>9, <1>12 DEF Prepared
  <1>15. LateMatch' /\ LatePrepared'
    <2>1. ASSUME NEW v \in late'
          PROVE  /\ v.item \in Content(op.feature)
                 /\ v.old \/ v.value = Wanted
                 /\ overtaken \/ v.old \/ Prepared(v.item)
      <3>1. PICK w \in late : v = f[w]
        BY <1>5
      <3> DEFINE follows == w.old \/ w.value # "absent"
      <3>2. v = [w EXCEPT !.value = Other(w.value), !.old = follows]
        BY <3>1
      <3>3. v.item = w.item /\ v.value = Other(w.value) /\ (v.old <=> follows)
        <4> HIDE DEF follows
        <4> QED
          BY <3>2 DEF IInv, TypeOK, Writes
      <3>4. /\ w.item \in Content(op.feature)
            /\ w.old \/ w.value = Wanted
            /\ overtaken \/ w.old \/ Prepared(w.item)
        BY DEF IInv, Parts, LateMatch, LatePrepared
      <3> QED
        BY <1>3, <3>3, <3>4
    <2> QED
      BY <1>1, <1>10, <1>14, <2>1 DEF LateMatch, LatePrepared
  <1> QED
    BY <1>6, <1>8, <1>10, <1>11, <1>13, <1>15 DEF IInv, Parts

\* What the service does by itself.
LEMMA ServiceStep ==
    ASSUME IInv, Service
    PROVE  IInv'
  <1>1. UNCHANGED <<op, evidence>>
    BY DEF Service, BecomesVisible, LateWrite, LateDropped
  <1>2. Plan' = Plan /\ Wanted' = Wanted /\ NextInPlan'
    BY <1>1 DEF Plan, Wanted, NextInPlan, IInv, Parts
  <1>3. CASE \E i \in Items : BecomesVisible(i)
    <2>1. seen' \in [Items -> Values] /\ UNCHANGED <<store, late, overtaken>>
      BY <1>3 DEF BecomesVisible, IInv, TypeOK
    <2>2. TypeOK'
      BY <1>1, <2>1 DEF IInv, TypeOK
    <2>3. RoundHolds' /\ LateMatch' /\ LatePrepared' /\ NoDanglingSchedule'
      BY <1>1, <1>2, <2>1
         DEF IInv, Parts, RoundHolds, LateMatch, LatePrepared, Prepared,
             NoDanglingSchedule
    <2> QED
      BY <1>2, <2>1, <2>2, <2>3 DEF IInv, Parts
  <1>4. ASSUME NEW w \in late, LateWrite(w) \/ LateDropped(w)
        PROVE  IInv'
    <2>1. late' = late \ {w} /\ seen' = seen
      BY <1>4 DEF LateWrite, LateDropped
    <2>2. IsFiniteSet(late') /\ Cardinality(late') <= MaxLate
      <3>1. IsFiniteSet(late) /\ Cardinality(late) \in Nat
        BY FS_CardinalityType DEF IInv, Parts
      <3>2. /\ IsFiniteSet(late \ {w})
            /\ Cardinality(late \ {w}) = Cardinality(late) - 1
        BY <3>1, FS_RemoveElement
      <3>3. Cardinality(late) <= MaxLate
        BY DEF IInv, TypeOK
      <3> QED
        BY <2>1, <3>1, <3>2, <3>3, BoundsAssumption
    <2>3. w \in Writes /\ w.item \in Items /\ w.value \in Values
      BY DEF IInv, TypeOK, Writes
    <2>4. LateMatch'
      BY <1>1, <1>2, <2>1 DEF IInv, Parts, LateMatch
    <2>5. CASE LateDropped(w)
      <3>1. UNCHANGED <<store, overtaken>>
        BY <2>5 DEF LateDropped
      <3>2. RoundHolds' /\ LatePrepared' /\ NoDanglingSchedule'
        BY <1>1, <1>2, <2>1, <3>1
           DEF IInv, Parts, RoundHolds, LatePrepared, Prepared,
               NoDanglingSchedule
      <3>3. TypeOK'
        BY <1>1, <2>1, <2>2, <3>1 DEF IInv, TypeOK
      <3> QED
        BY <1>2, <2>2, <2>4, <3>2, <3>3 DEF IInv, Parts
    <2>6. CASE LateWrite(w) /\ w.old
      <3>1. /\ overtaken' /\ overtaken' \in BOOLEAN
            /\ store' \in [Items -> Values]
        BY <2>3, <2>6 DEF LateWrite, IInv, TypeOK
      <3>2. RoundHolds' /\ LatePrepared' /\ NoDanglingSchedule'
        BY <3>1 DEF RoundHolds, LatePrepared, NoDanglingSchedule
      <3>3. TypeOK'
        BY <1>1, <2>1, <2>2, <3>1 DEF IInv, TypeOK
      <3> QED
        BY <1>2, <2>2, <2>4, <3>2, <3>3 DEF IInv, Parts
    <2>7. CASE LateWrite(w) /\ ~w.old
      <3>1. overtaken' = overtaken
        BY <2>7, Zenon DEF LateWrite, IInv, TypeOK
      <3>2. /\ w.item \in Content(op.feature) /\ w.value = Wanted
            /\ overtaken \/ Prepared(w.item)
        BY <2>7 DEF IInv, Parts, LateMatch, LatePrepared
      <3>3. store' = [store EXCEPT ![w.item] = Wanted]
        BY <2>7, <3>2 DEF LateWrite
      <3>4. /\ store' \in [Items -> Values]
            /\ NoDanglingSchedule'
            /\ \A j : overtaken \/ (Prepared(j) => Prepared(j)')
            /\ \A j \in Items : store[j] = Wanted => store'[j] = Wanted
        BY <1>1, <3>1, <3>2, <3>3, WriteItem
      <3>5. LatePrepared'
        BY <2>1, <3>1, <3>4 DEF LatePrepared, IInv, Parts
      <3>6. RoundHolds'
        <4>1. NextInPlan /\ TypeOK
          BY DEF IInv, Parts
        <4>2. \A n \in 1..(op.next - 1) : Plan[n] \in Items
          <5>1. PICK last \in 2..3 : last = Len(Plan)
            BY <4>1, Plans DEF TypeOK, Ops
          <5>2. op.next \in 1..last
            BY <4>1, <5>1 DEF NextInPlan
          <5> QED
            BY <4>1, <5>1, <5>2, PlanItems
        <4>3. Content(op.feature) \subseteq Items
          BY <4>1, PlanItems
        <4> QED
          BY <1>1, <1>2, <3>1, <3>4, <4>2, <4>3 DEF RoundHolds, IInv, Parts
      <3>7. TypeOK'
        BY <1>1, <2>1, <2>2, <3>1, <3>4 DEF IInv, TypeOK
      <3> QED
        BY <1>2, <2>2, <2>4, <3>4, <3>5, <3>6, <3>7 DEF IInv, Parts
    <2> QED
      BY <1>4, <2>5, <2>6, <2>7
  <1> QED
    BY <1>3, <1>4 DEF Service

\* Nothing changes.
LEMMA StutterStep ==
    ASSUME IInv, UNCHANGED vars
    PROVE  IInv'
  BY DEF vars, IInv, TypeOK, Parts, NextInPlan, RoundHolds, LateMatch,
         LatePrepared, Prepared, NoDanglingSchedule, Wanted, Plan

\* Every step preserves the invariant.
LEMMA InvStep == IInv /\ [Next]_vars => IInv'
  <1> SUFFICES ASSUME IInv, [Next]_vars PROVE IInv'
    OBVIOUS
  <1>1. CASE Write
    BY <1>1, WriteStep DEF Write
  <1>2. CASE WriteInterrupted
    BY <1>2, WriteStep, GiveUpStep DEF WriteInterrupted
  <1>3. CASE CheckConnectors \/ WriteRefused \/ ReadBack \/ ReadFails \/ Killed
    BY <1>3, ReadsStep
  <1>4. CASE Start \/ EditDefinition \/ Service \/ UNCHANGED vars
    BY <1>4, StartStep, EditStep, ServiceStep, StutterStep
  <1> QED
    BY <1>1, <1>2, <1>3, <1>4 DEF Next, Command

\* The inductive invariant holds throughout.
LEMMA InvariantHolds == Spec => []IInv
  BY InvInit, InvStep, PTL DEF Spec

-----------------------------------------------------------------------------
(* The theorems.                                                           *)

\* Type correctness of AgentContent.
THEOREM TypeCorrect == Spec => []TypeOK
  BY InvariantHolds, PTL DEF IInv

\* The schedule never runs an agent that is not there, nor the agent a skill
\* that is not, unless a given-up write overtook a later command.
THEOREM NoDanglingCorrect == Spec => []NoDanglingSchedule
  <1>1. IInv => NoDanglingSchedule
    BY DEF IInv, Parts
  <1> QED
    BY <1>1, InvariantHolds, PTL

\* Only a read-back makes a command succeed.
LEMMA OnlyReadBackSucceeds ==
    ASSUME IInv, Next, Running, op'.at = "succeeded"
    PROVE  op.at = "read" /\ UNCHANGED <<store, overtaken>>
  <1> USE DEF IInv
  <1>1. ~Fail /\ ~Repeat
    BY FailMoves, RepeatMoves
  <1>2. ~(op.at = "write" /\ Written)
    BY WrittenMoves DEF Parts
  <1>3. ~CheckConnectors
    BY <1>1 DEF CheckConnectors, TypeOK, Ops
  <1>4. ~Start /\ ~EditDefinition
    BY DEF Start, EditDefinition
  <1>5. ~Service
    BY DEF Service, BecomesVisible, LateWrite, LateDropped, Running, Ends
  <1>6. ~Write /\ ~WriteRefused /\ ~WriteInterrupted /\ ~ReadFails /\ ~Killed
    BY <1>1, <1>2 DEF Write, WriteRefused, WriteInterrupted, ReadFails, Killed
  <1> QED
    BY <1>3, <1>4, <1>5, <1>6 DEF Next, Command, ReadBack

\* A command that reports success has left every item of its feature as it
\* says, although what it read may have been out of date.
THEOREM SuccessCorrect == Spec => SuccessIsReal
  <1>1. IInv /\ [Next]_vars =>
           [Running /\ op'.at = "succeeded" /\ ~overtaken =>
              \A i \in Content(op.feature) :
                 store[i] = IF op.action = "install" THEN "defined"
                                                     ELSE "absent"]_vars
    <2> SUFFICES ASSUME IInv, Next, Running, op'.at = "succeeded", ~overtaken
                 PROVE  \A i \in Content(op.feature) : store[i] = Wanted
      BY DEF Wanted
    <2> QED
      BY OnlyReadBackSucceeds DEF IInv, Parts, RoundHolds
  <1> QED
    BY <1>1, InvariantHolds, PTL DEF Spec, SuccessIsReal
==============================================================================
