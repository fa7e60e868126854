-------------------------- MODULE SheetSync_proofs --------------------------
(***************************************************************************)
(* The promises of the sync engine for any number of orders, rows, runs    *)
(* and values: IInv of SheetSyncInv is inductive, part by part, and with   *)
(* it no duplicate rows, nobody else's row overwritten, nothing skipped.   *)
(***************************************************************************)
EXTENDS SheetSyncInv, FiniteSetTheorems, WellFoundedInduction, TLAPS

-----------------------------------------------------------------------------
(* First and last rows.                                                    *)

\* Of the intervals that end at the members of a set, one is smallest.
LEMMA FirstExists ==
    ASSUME NEW N \in Nat, NEW S, S \subseteq 1 .. N, S # {}
    PROVE  \E i \in S : \A j \in S : i <= j
<1> DEFINE T == {1 .. k : k \in S}
<1>1. IsWellFoundedOn(StrictSubsetOrdering(1 .. N), FiniteSubsetsOf(1 .. N))
  BY FS_StrictSubsetOrderingWellFounded
<1>2. T \subseteq FiniteSubsetsOf(1 .. N) /\ T # {}
  <2>1. \A k \in S : IsFiniteSet(1 .. k) /\ 1 .. k \subseteq 1 .. N
    BY FS_Interval
  <2> QED
    BY <2>1 DEF FiniteSubsetsOf
<1> HIDE DEF T
<1>3. PICK x \in T : \A y \in T : <<y, x>> \notin StrictSubsetOrdering(1 .. N)
  BY <1>1, <1>2, WFMin, Zenon
<1>4. PICK i \in S : x = 1 .. i
  BY DEF T
<1>5. ASSUME NEW j \in S, ~(i <= j) PROVE FALSE
  <2>1. 1 .. j \in T /\ 1 .. j \subseteq 1 .. i /\ 1 .. i \subseteq 1 .. N
    BY <1>5 DEF T
  <2>2. i \in 1 .. i /\ i \notin 1 .. j
    BY <1>5
  <2>3. <<1 .. j, x>> \in StrictSubsetOrdering(1 .. N)
    <3>1. 1 .. j \in SUBSET (1 .. N) /\ x \in SUBSET (1 .. N)
      BY <1>4, <2>1
    <3>2. 1 .. j \subseteq x /\ 1 .. j # x
      BY <1>4, <2>1, <2>2
    <3> QED
      BY <3>1, <3>2 DEF StrictSubsetOrdering
  <2> QED
    BY <1>3, <2>1, <2>3
<1> QED
  BY <1>5

\* The minimum of a set of rows is one of them.
LEMMA MinRow ==
    ASSUME NEW N \in Nat, NEW S, S \subseteq 1 .. N, S # {}
    PROVE  Min(S) \in S
<1>1. PICK i \in S : \A j \in S : i =< j
  BY FirstExists
<1> QED
  BY <1>1 DEF Min

\* The maximum of a set of rows is one of them, and no row of it is beyond:
\* the first one, counted from the end.
LEMMA MaxRow ==
    ASSUME NEW N \in Nat, NEW S, S \subseteq 0 .. N, S # {}
    PROVE  Max(S) \in S /\ \A i \in S : i <= Max(S)
<1> DEFINE T == {N + 1 - k : k \in S}
<1>1. T \subseteq 1 .. N + 1 /\ T # {} /\ N + 1 \in Nat
  <2>1. \A k \in S : N + 1 - k \in 1 .. N + 1
    OBVIOUS
  <2>2. PICK k \in S : TRUE
    OBVIOUS
  <2>3. N + 1 - k \in T
    BY <2>2
  <2> QED
    BY <2>1, <2>3
<1>2. PICK t \in T : \A u \in T : t <= u
  <2> HIDE DEF T
  <2> QED
    BY <1>1, FirstExists
<1>3. PICK i \in S : t = N + 1 - i
  OBVIOUS
<1>4. \A j \in S : i >= j
  <2> TAKE j \in S
  <2>1. t <= N + 1 - j
    BY <1>2
  <2> QED
    BY <1>3, <2>1
<1>5. Max(S) \in S /\ \A y \in S : Max(S) >= y
  BY <1>4 DEF Max
<1> QED
  BY <1>5

-----------------------------------------------------------------------------
(* Types.                                                                  *)

\* The bounds, one by one.
LEMMA Sizes ==
    /\ MaxVal \in Nat /\ MaxTime \in Nat /\ MaxRows \in Nat
    /\ MaxCrashes \in Nat /\ MaxEdits \in Nat /\ Overlap \in Nat /\ Recent \in Nat
    /\ MaxVal >= 1 /\ MaxTime >= 1 /\ MaxRows >= 1
    /\ NoOrder \notin Orders
  BY SheetAssumption

LEMMA NoRunType == NoRun \in Run
  BY SheetAssumption DEF NoRun, Run, Phases, Modes

LEMMA EndedType == ASSUME NEW r \in Run PROVE Ended(r) \in Run
  BY NoRunType DEF NoRun, Run, Phases, Modes, Ended

LEMMA AfterBatchType ==
    ASSUME NEW r \in Run, NEW b \in SUBSET Orders, NEW left \in SUBSET Orders,
           NEW outcome \in {"failed", "written"}, NEW wrote \in BOOLEAN
    PROVE  AfterBatch(r, b, outcome, left, wrote) \in Run
<1> DEFINE res == [o \in Orders |-> IF o \in b THEN outcome ELSE r.res[o]]
           done == [r EXCEPT !.res = res, !.batch = {}, !.wrote = @ \/ wrote]
<1>1. res \in [Orders -> {"none", "failed", "skipped", "written"}]
  BY DEF Run
<1>2. (r.wrote \/ wrote) \in BOOLEAN
  OBVIOUS
<1>3. done \in Run
  <2> HIDE DEF res
  <2> QED
    BY <1>1, <1>2 DEF Run
<1>4. done.res = res /\ done.wrote = (r.wrote \/ wrote)
  BY DEF Run
<1>5. left # {} => [done EXCEPT !.ph = "write", !.left = left] \in Run
  <2> HIDE DEF done
  <2> QED
    BY <1>3 DEF Run, Phases
<1>6. [NoRun EXCEPT !.ph = "save", !.target = r.target, !.began = r.began,
                    !.end = r.end, !.res = done.res, !.build = r.build,
                    !.wrote = done.wrote] \in Run
  <2> HIDE DEF done, res
  <2> QED
    BY <1>1, <1>2, <1>4, NoRunType DEF Run, Phases, NoRun, Modes
<1> QED
  BY <1>5, <1>6 DEF AfterBatch

\* What a run plans to write fits in the sheet.
LEMMA WrittenType ==
    ASSUME TypeOK, NEW p \in Procs, NEW b \in SUBSET Orders
    PROVE  Written(p, b) \in [1..MaxRows -> SheetRow]
<1>1. run[p] \in Run
  BY DEF TypeOK
<1>2. ASSUME NEW i \in 1..MaxRows, NEW o \in b
      PROVE  [sheet[i] EXCEPT !.key = o, !.val = run[p].val[o]] \in SheetRow
  <2>1. sheet[i] \in SheetRow /\ run[p].val[o] \in 0..MaxVal
    BY <1>1 DEF TypeOK, Run
  <2> QED
    BY <2>1 DEF SheetRow
<1>3. ASSUME NEW i \in 1..MaxRows, \E o \in b : run[p].row[o] = i
      PROVE  (CHOOSE x \in b : run[p].row[x] = i) \in b
  BY <1>3
<1> QED
  BY <1>2, <1>3 DEF Written, TypeOK

LEMMA LinkedToType ==
    ASSUME TypeOK, NEW p \in Procs, NEW S
    PROVE  LinkedTo(p, S) \in [Orders -> 0..MaxVal]
<1>1. run[p].val \in [Orders -> 0..MaxVal]
  BY DEF TypeOK, Run
<1> QED
  BY <1>1 DEF TypeOK, LinkedTo

LEMMA TypeInit == Init => TypeOK
<1> SUFFICES ASSUME Init PROVE TypeOK
  OBVIOUS
<1>1. /\ 0 \in 0..MaxVal /\ 0 \in 0..MaxTime /\ 0 \in 0..MaxCrashes
      /\ 0 \in 0..MaxEdits /\ 1 \in 1..MaxTime
  BY SheetAssumption
<1>2. run \in [Procs -> Run]
  BY NoRunType DEF Init
<1>3. sheet \in [1..MaxRows -> SheetRow]
  BY <1>1 DEF Init, Blank, SheetRow
<1>4. ebay \in [Orders -> [created: 0..MaxTime, modified: 0..MaxTime, val: 0..MaxVal]]
  BY <1>1 DEF Init
<1> QED
  BY <1>1, <1>2, <1>3, <1>4 DEF Init, TypeOK

LEMMA RowOfType ==
    ASSUME TypeOK, NEW o \in Orders
    PROVE  /\ RowOf(o) \in 0..MaxRows
           /\ RowOf(o) = 0 <=> RowsOf(o) = {}
           /\ RowOf(o) # 0 => RowOf(o) \in RowsOf(o)
<1>1. RowsOf(o) \subseteq 1..MaxRows /\ MaxRows \in Nat
  BY SheetAssumption DEF RowsOf
<1>2. RowsOf(o) # {} => Min(RowsOf(o)) \in RowsOf(o)
  BY <1>1, MinRow
<1> QED
  BY <1>1, <1>2 DEF RowOf

\* Nothing is below the last used row.
LEMMA LastUsedType ==
    ASSUME TypeOK
    PROVE  /\ LastUsed \in 0..MaxRows
           /\ \A i \in 1..MaxRows : i > LastUsed => sheet[i] = Blank
<1> DEFINE S == {0} \cup {i \in 1..MaxRows : sheet[i] # Blank}
<1>1. S \subseteq 0..MaxRows /\ S # {} /\ MaxRows \in Nat
  BY SheetAssumption
<1>2. LastUsed = Max(S)
  BY DEF LastUsed
<1> HIDE DEF S
<1>3. Max(S) \in S /\ \A i \in S : i <= Max(S)
  BY <1>1, MaxRow
<1>4. LastUsed \in 0..MaxRows
  BY <1>1, <1>2, <1>3
<1>5. ASSUME NEW i \in 1..MaxRows, i > LastUsed, sheet[i] # Blank PROVE FALSE
  <2>1. i \in S
    BY <1>5 DEF S
  <2> QED
    BY <1>2, <1>3, <1>4, <1>5, <2>1
<1> QED
  BY <1>4, <1>5

\* The step of process p leaves it in r.
Moves(p, r) == run' = [run EXCEPT ![p] = r]

\* A step that only changes one process's run, to a run.
LEMMA TypeOfRun ==
    ASSUME TypeOK, NEW p \in Procs, NEW r \in Run,
           run' = [run EXCEPT ![p] = r], UNCHANGED <<sheet, database, outside>>
    PROVE  TypeOK'
  BY DEF TypeOK, database, outside

\* What a plan is: rows and targets, and the three ways on.
PlanOf(p, plan) ==
    /\ plan \in Run
    /\ plan.target = run[p].target /\ plan.began = run[p].began /\ plan.end = clock
    /\ plan.since /\ plan.mode = "APPEND_UPDATE" /\ plan.batch = {}
    /\ plan.build = Chosen(p) \ Buildable(p)
    /\ plan.left = {o \in Buildable(p) : plan.act[o] \in {"insert", "update"}}
    /\ \A o \in Orders \ Buildable(p) : plan.act[o] = "none" /\ plan.res[o] = "none"
    /\ \A o \in Buildable(p) : /\ plan.act[o] = Classify(o, run[p].mode)
                               /\ plan.val[o] = store[o]
                               /\ plan.res[o] = PlannedOutcome(plan.act[o])
    /\ \A o \in plan.left : plan.act[o] = "update" => plan.row[o] = RowOf(o)
    /\ \A o \in plan.left : plan.act[o] = "insert" => plan.row[o] > LastUsed
    /\ \A a, b \in plan.left :
          plan.act[a] = "insert" /\ plan.act[b] = "insert" /\ a # b
             => plan.row[a] # plan.row[b]
PlanGoesOn(p, plan) ==
    \/ Moves(p, Ended(plan))
    \/ plan.left # {} /\ Moves(p, [plan EXCEPT !.ph = "write"])
    \/ plan.left = {} /\ plan.target = {} /\ Moves(p, [plan EXCEPT !.ph = "advance"])

LEMMA PlanStep ==
    ASSUME TypeOK, NEW p \in Procs, Plan(p)
    PROVE  \E plan : PlanOf(p, plan) /\ PlanGoesOn(p, plan)
<1>1. run[p] \in Run /\ NoRun \in Run
  BY NoRunType DEF TypeOK
<1> DEFINE rows   == Buildable(p)
           act    == [o \in Orders |-> IF o \in rows THEN Classify(o, run[p].mode) ELSE "none"]
           insert == {o \in rows : act[o] = "insert"}
           update == {o \in rows : act[o] = "update"}
           val    == [o \in Orders |-> IF o \in rows THEN store[o] ELSE 0]
           res    == [o \in Orders |-> PlannedOutcome(act[o])]
           build  == Chosen(p) \ rows
<1>2. Chosen(p) \subseteq Orders /\ rows \subseteq Orders
  BY <1>1 DEF Chosen, Buildable, Run
<1>3. act \in [Orders -> {"none", "insert", "update", "skip"}]
  BY DEF Classify
<1>4. val \in [Orders -> 0..MaxVal] /\ res \in [Orders -> {"none", "failed", "skipped", "written"}]
  BY <1>3, SheetAssumption DEF TypeOK, PlannedOutcome
<1>5. insert \subseteq Orders /\ update \subseteq Orders /\ build \subseteq Orders
  BY <1>2
<1> DEFINE row(rank)  == [o \in Orders |-> CASE o \in insert -> LastUsed + rank[o]
                                            [] o \in update -> RowOf(o)
                                            [] OTHER        -> 0]
           plan(rank) == [NoRun EXCEPT
                            !.target = run[p].target, !.began = run[p].began,
                            !.end = clock, !.act = act, !.build = build, !.val = val,
                            !.row = row(rank), !.res = res, !.left = insert \cup update]
           stops == OrdersWithoutKeys # {} \/ ~(confirmed \/ run[p].yes)
<1>6. \E rank \in [insert -> 1..Cardinality(insert)] :
        /\ \A a, b \in insert : a # b => rank[a] # rank[b]
        /\ LastUsed + Cardinality(insert) <= MaxRows
        /\ run' = [run EXCEPT ![p] = AfterPlan(plan(rank), stops)]
  BY Zenon DEF Plan
<1> SUFFICES ASSUME NEW rank \in [insert -> 1..Cardinality(insert)],
                    \A a, b \in insert : a # b => rank[a] # rank[b],
                    LastUsed + Cardinality(insert) <= MaxRows,
                    run' = [run EXCEPT ![p] = AfterPlan(plan(rank), stops)]
             PROVE  \E r : PlanOf(p, r) /\ PlanGoesOn(p, r)
  <2> HIDE DEF stops, plan, insert
  <2> QED
    BY <1>6
<1>7. /\ row(rank) \in [Orders -> 0..MaxRows]
      /\ \A o \in insert : row(rank)[o] > LastUsed
      /\ \A o \in update : row(rank)[o] = RowOf(o)
      /\ \A a, b \in insert : a # b => row(rank)[a] # row(rank)[b]
  <2>1. LastUsed \in Nat /\ Cardinality(insert) \in Nat
    <3> HIDE DEF insert
    <3> QED
      BY <1>5, LastUsedType, FS_Subset, FS_CardinalityType, SheetAssumption
  <2>2. \A o \in Orders : RowOf(o) \in 0..MaxRows
    BY RowOfType
  <2>3. \A o \in insert : rank[o] \in 1..Cardinality(insert)
    BY <1>6
  <2>4. \A o \in insert : LastUsed + rank[o] \in 0..MaxRows
    <3> HIDE DEF insert
    <3> QED
      BY <1>6, <2>1, <2>3, SheetAssumption
  <2>5. \A o \in insert : o \notin update
    OBVIOUS
  <2>6. /\ \A o \in insert : row(rank)[o] = LastUsed + rank[o]
        /\ \A o \in update : row(rank)[o] = RowOf(o)
    <3> HIDE DEF insert, update
    <3> QED
      BY <1>5, <2>5
  <2>7. row(rank) \in [Orders -> 0..MaxRows]
    <3> HIDE DEF insert, update
    <3> QED
      BY <2>2, <2>4, SheetAssumption
  <2>8. \A o \in insert : row(rank)[o] > LastUsed
    <3> HIDE DEF insert, update, row
    <3> QED
      BY <2>1, <2>3, <2>6
  <2>9. \A a, b \in insert : a # b => row(rank)[a] # row(rank)[b]
    <3> HIDE DEF insert, update, row
    <3> QED
      BY <1>6, <2>1, <2>3, <2>6
  <2> QED
    BY <2>6, <2>7, <2>8, <2>9
<1>8. plan(rank) \in Run
  <2>1. /\ run[p].target \in SUBSET Orders /\ run[p].began \in 0..MaxTime
        /\ clock \in 0..MaxTime
    BY <1>1, SheetAssumption DEF TypeOK, Run
  <2> HIDE DEF row, act, val, res, build, insert, update
  <2> QED
    BY <1>1, <1>3, <1>4, <1>5, <1>7, <2>1 DEF Run
<1>9. /\ plan(rank).target = run[p].target /\ plan(rank).began = run[p].began /\ plan(rank).end = clock
      /\ plan(rank).since /\ plan(rank).mode = "APPEND_UPDATE" /\ plan(rank).batch = {}
      /\ plan(rank).build = build /\ plan(rank).left = insert \cup update
      /\ plan(rank).act = act /\ plan(rank).res = res /\ plan(rank).val = val /\ plan(rank).row = row(rank)
  <2> HIDE DEF row, act, val, res, build, insert, update
  <2> QED
    BY DEF NoRun
<1>10. PlanOf(p, plan(rank))
  <2>1. insert \cup update = {o \in rows : act[o] \in {"insert", "update"}}
    OBVIOUS
  <2>2. \A o \in Orders \ rows : act[o] = "none" /\ res[o] = "none"
    BY DEF PlannedOutcome
  <2>3. \A o \in rows : /\ act[o] = Classify(o, run[p].mode) /\ val[o] = store[o]
                        /\ res[o] = PlannedOutcome(act[o])
    BY <1>2
  <2>4. \A o \in insert \cup update :
           /\ act[o] = "update" => o \in update
           /\ act[o] = "insert" => o \in insert
    OBVIOUS
  <2> HIDE DEF row, act, val, res, build, insert, update, plan, rows
  <2>5. plan(rank).build = Chosen(p) \ Buildable(p) /\ rows = Buildable(p)
    BY <1>9 DEF build, rows
  <2>6. plan(rank).left = {o \in Buildable(p) : plan(rank).act[o] \in {"insert", "update"}}
    BY <1>9, <2>1, <2>5
  <2>7. /\ \A o \in Orders \ Buildable(p) : plan(rank).act[o] = "none" /\ plan(rank).res[o] = "none"
        /\ \A o \in Buildable(p) : /\ plan(rank).act[o] = Classify(o, run[p].mode)
                                   /\ plan(rank).val[o] = store[o]
                                   /\ plan(rank).res[o] = PlannedOutcome(plan(rank).act[o])
    BY <1>9, <2>2, <2>3, <2>5
  <2>8. \A o \in insert \cup update : act[o] = "update" => row(rank)[o] = RowOf(o)
    BY <1>7, <2>4
  <2>9. \A o \in insert \cup update : act[o] = "insert" => row(rank)[o] > LastUsed
    BY <1>7, <2>4
  <2>10. \A a, b \in insert \cup update :
           act[a] = "insert" /\ act[b] = "insert" /\ a # b => row(rank)[a] # row(rank)[b]
    BY <1>7, <2>4
  <2>11. /\ \A o \in plan(rank).left : plan(rank).act[o] = "update" => plan(rank).row[o] = RowOf(o)
         /\ \A o \in plan(rank).left : plan(rank).act[o] = "insert" => plan(rank).row[o] > LastUsed
    BY <1>9, <2>8, <2>9, Zenon
  <2>12. \A a, b \in plan(rank).left :
           plan(rank).act[a] = "insert" /\ plan(rank).act[b] = "insert" /\ a # b
             => plan(rank).row[a] # plan(rank).row[b]
    BY <1>9, <2>10, Zenon
  <2> QED
    BY <1>8, <1>9, <2>5, <2>6, <2>7, <2>11, <2>12, Zenon DEF PlanOf
<1>11. PlanGoesOn(p, plan(rank))
  <2> HIDE DEF plan, stops
  <2>1. CASE stops \/ (plan(rank).left = {} /\ plan(rank).target # {})
    BY <2>1 DEF PlanGoesOn, Moves, AfterPlan
  <2>2. CASE ~stops /\ plan(rank).left # {}
    BY <2>2 DEF PlanGoesOn, Moves, AfterPlan
  <2>3. CASE ~stops /\ plan(rank).left = {} /\ plan(rank).target = {}
    BY <2>3 DEF PlanGoesOn, Moves, AfterPlan
  <2> QED
    BY <2>1, <2>2, <2>3
<1> QED
  BY <1>10, <1>11

LEMMA PlanType ==
    ASSUME TypeOK, NEW p \in Procs, Plan(p)
    PROVE  TypeOK'
<1>1. PICK plan : PlanOf(p, plan) /\ PlanGoesOn(p, plan)
  BY PlanStep
<1>2. /\ Ended(plan) \in Run
      /\ [plan EXCEPT !.ph = "write"] \in Run
      /\ [plan EXCEPT !.ph = "advance"] \in Run
  BY <1>1, EndedType DEF PlanOf, Run, Phases
<1>3. \E r \in Run : run' = [run EXCEPT ![p] = r]
  BY <1>1, <1>2 DEF PlanGoesOn, Moves
<1>4. UNCHANGED <<sheet, database, outside>>
  BY DEF Plan
<1> QED
  BY <1>3, <1>4, TypeOfRun

\* Steps of a run that leave the sheet and the links alone, or save links.
LEMMA SmallStepsType ==
    ASSUME TypeOK, NEW p \in Procs,
           AdvanceCursor(p) \/ SaveCursor(p) \/ Abort(p) \/ Finish(p)
    PROVE  TypeOK'
<1>1. run[p] \in Run /\ NoRun \in Run /\ Ended(run[p]) \in Run /\ run[p].end \in 0..MaxTime
  BY NoRunType, EndedType DEF TypeOK, Run
<1>2. CASE AdvanceCursor(p)
  BY <1>1, <1>2 DEF AdvanceCursor, TypeOK, outside
<1>3. CASE SaveCursor(p)
  BY <1>1, <1>3 DEF SaveCursor, TypeOK, outside
<1>4. CASE Abort(p)
  <2>1. run' = [run EXCEPT ![p] = Ended(run[p])]
    BY <1>4 DEF Abort
  <2> QED
    BY <1>1, <1>4, <2>1, TypeOfRun DEF Abort
<1>5. CASE Finish(p)
  <2>1. open' \subseteq Orders \X {"row", "build"}
    BY <1>1, <1>5 DEF Finish, TypeOK, Run
  <2> QED
    BY <1>1, <1>5, <2>1 DEF Finish, TypeOK, outside
<1> QED
  BY <1>2, <1>3, <1>4, <1>5

LEMMA StartType ==
    ASSUME TypeOK, NEW p \in Procs, StartSync(p) \/ StartRetry(p)
    PROVE  TypeOK'
<1>1. clock \in 0..MaxTime /\ RunModes \subseteq Modes
  BY SheetAssumption DEF TypeOK, RunModes, Modes
<1>2. \A since, yes \in BOOLEAN, m \in RunModes :
        [NoRun EXCEPT !.ph = "import", !.since = since, !.yes = yes, !.mode = m,
                      !.began = clock] \in Run
  BY <1>1, NoRunType DEF Run, Phases
<1>3. \A o \in Orders, m \in RunModes :
        [NoRun EXCEPT !.ph = "plan", !.target = {o}, !.yes = TRUE, !.mode = m,
                      !.began = clock] \in Run
  BY <1>1, NoRunType DEF Run, Phases
<1>4. \E r \in Run : run' = [run EXCEPT ![p] = r]
  <2>1. CASE StartSync(p)
    BY <1>2, <2>1 DEF StartSync
  <2>2. CASE StartRetry(p)
    BY <1>3, <2>2 DEF StartRetry
  <2> QED
    BY <2>1, <2>2
<1>5. UNCHANGED <<sheet, database, outside>>
  BY DEF StartSync, StartRetry
<1> QED
  BY <1>4, <1>5, TypeOfRun

LEMMA ImportType ==
    ASSUME TypeOK, NEW p \in Procs, Import(p)
    PROVE  TypeOK'
<1>1. run[p] \in Run
  BY DEF TypeOK
<1>2. run' \in [Procs -> Run]
  BY <1>1 DEF Import, StoredAfter, TypeOK, Run, Phases
<1>3. PICK S \in SUBSET Orders :
        /\ store' = [o \in Orders |-> IF o \in S THEN ebay[o].val ELSE store[o]]
        /\ payload' = payload \cup S
  BY DEF Import, StoredAfter
<1>4. store' \in [Orders -> 0..MaxVal] /\ payload' \subseteq Orders
  BY <1>3 DEF TypeOK
<1> QED
  BY <1>2, <1>4 DEF Import, StoredAfter, TypeOK, outside

LEMMA WriteType ==
    ASSUME TypeOK, NEW p \in Procs, WriteBatch(p) \/ TearBatch(p)
    PROVE  TypeOK'
<1>1. run[p] \in Run
  BY DEF TypeOK
<1>2. \A b \in Batches(p) : b \in SUBSET Orders
  BY <1>1 DEF Batches, Run
<1>3. run' \in [Procs -> Run]
  <2>1. \A b \in Batches(p), ph \in {"record", "torn"} : InBatch(run[p], b, ph) \in Run
    BY <1>1, <1>2 DEF Run, Phases, InBatch
  <2>2. \E b \in Batches(p), ph \in {"record", "torn"} :
          run' = [run EXCEPT ![p] = InBatch(run[p], b, ph)]
    BY DEF WriteBatch, TearBatch
  <2> QED
    BY <2>1, <2>2 DEF TypeOK
<1>4. sheet' \in [1..MaxRows -> SheetRow]
  <2>1. CASE WriteBatch(p)
    BY <1>2, <2>1, WrittenType DEF WriteBatch
  <2>2. CASE TearBatch(p)
    <3>1. PICK b \in Batches(p), o \in run[p].left, keyOnly \in BOOLEAN, done \in SUBSET Orders :
            sheet' = [Written(p, done) EXCEPT ![run[p].row[o]] =
                        IF keyOnly THEN [@ EXCEPT !.key = o, !.val = 0]
                                   ELSE [@ EXCEPT !.val = run[p].val[o]]]
      <4>1. PICK b \in Batches(p), o \in run[p].left, keyOnly \in BOOLEAN :
              \E done \in SUBSET (b \ {o}) :
                sheet' = [Written(p, done) EXCEPT ![run[p].row[o]] =
                            IF keyOnly THEN [@ EXCEPT !.key = o, !.val = 0]
                                       ELSE [@ EXCEPT !.val = run[p].val[o]]]
        BY <2>2 DEF TearBatch
      <4>2. SUBSET (b \ {o}) \subseteq SUBSET Orders
        BY <1>2
      <4> QED
        BY <4>1, <4>2
    <3>2. Written(p, done) \in [1..MaxRows -> SheetRow]
      BY WrittenType
    <3>3. run[p].val[o] \in 0..MaxVal /\ o \in Orders /\ 0 \in 0..MaxVal
      BY <1>1, SheetAssumption DEF Run
    <3>4. \A x \in SheetRow : /\ [x EXCEPT !.key = o, !.val = 0] \in SheetRow
                              /\ [x EXCEPT !.val = run[p].val[o]] \in SheetRow
      BY <3>3 DEF SheetRow
    <3> DEFINE W == Written(p, done)
               i == run[p].row[o]
               x == IF keyOnly THEN [W[i] EXCEPT !.key = o, !.val = 0]
                               ELSE [W[i] EXCEPT !.val = run[p].val[o]]
    <3>5. sheet' = [W EXCEPT ![i] = x]
      BY <3>1
    <3>6. i \in 1..MaxRows => x \in SheetRow
      BY <3>2, <3>4
    <3> HIDE DEF W, i, x
    <3> QED
      BY <3>2, <3>5, <3>6 DEF W
  <2> QED
    BY <2>1, <2>2
<1> QED
  BY <1>3, <1>4 DEF WriteBatch, TearBatch, TypeOK, database, outside

LEMMA RecordType ==
    ASSUME TypeOK, NEW p \in Procs, RecordBatch(p) \/ BatchFails(p) \/ Crash(p)
    PROVE  TypeOK'
<1>1. run[p] \in Run
  BY DEF TypeOK
<1>2. CASE RecordBatch(p)
  <2>1. AfterBatch(run[p], run[p].batch, "written", run[p].left, TRUE) \in Run
    BY <1>1, AfterBatchType DEF Run
  <2>2. link' \in [Orders -> 0..MaxVal]
    BY <1>2, LinkedToType DEF RecordBatch
  <2> QED
    BY <1>2, <2>1, <2>2 DEF RecordBatch, TypeOK, outside
<1>3. CASE BatchFails(p)
  <2>1. PICK b \in SUBSET Orders, stop \in BOOLEAN, wrote \in BOOLEAN :
          /\ \E saved \in SUBSET b : link' = LinkedTo(p, saved)
          /\ failed' = failed \cup b
          /\ run' = [run EXCEPT ![p] = AfterBatch(run[p], b, "failed",
                        IF stop THEN {} ELSE run[p].left \ b, wrote)]
    BY <1>3 DEF BatchFails
  <2>2. (IF stop THEN {} ELSE run[p].left \ b) \in SUBSET Orders
    BY <1>1 DEF Run
  <2>3. AfterBatch(run[p], b, "failed", IF stop THEN {} ELSE run[p].left \ b, wrote) \in Run
    BY <1>1, <2>2, AfterBatchType
  <2>4. link' \in [Orders -> 0..MaxVal]
    BY <2>1, LinkedToType
  <2> QED
    BY <1>3, <2>1, <2>3, <2>4 DEF BatchFails, TypeOK, outside
<1>4. CASE Crash(p)
  <2>1. link' \in [Orders -> 0..MaxVal]
    BY <1>4, LinkedToType DEF Crash
  <2>2. crashes' \in 0..MaxCrashes
    BY <1>4, SheetAssumption DEF Crash, TypeOK
  <2>3. run' \in [Procs -> Run]
    BY <1>4, NoRunType DEF Crash, TypeOK
  <2> QED
    BY <1>4, <2>1, <2>2, <2>3 DEF Crash, TypeOK
<1> QED
  BY <1>2, <1>3, <1>4

LEMMA AroundType ==
    ASSUME TypeOK,
           \/ \E o \in Orders : Sell(o) \/ Modify(o) \/ ClearPayload(o) \/ DropHistory(o)
           \/ Tick \/ Edit
    PROVE  TypeOK'
<1>1. clock \in 0..MaxTime /\ 1 \in 0..MaxVal
  BY SheetAssumption DEF TypeOK
<1>2. ASSUME NEW o \in Orders, Sell(o) PROVE TypeOK'
  BY <1>1, <1>2 DEF Sell, TypeOK, database
<1>3. ASSUME NEW o \in Orders, Modify(o) PROVE TypeOK'
  <2>1. PICK v \in Values : ebay' = [ebay EXCEPT ![o].modified = clock, ![o].val = v]
    BY <1>3 DEF Modify
  <2>2. v \in 0..MaxVal
    BY SheetAssumption DEF Values
  <2>3. ebay' \in [Orders -> [created: 0..MaxTime, modified: 0..MaxTime, val: 0..MaxVal]]
    BY <1>1, <2>1, <2>2 DEF TypeOK
  <2> QED
    BY <1>3, <2>3 DEF Modify, TypeOK, database
<1>4. ASSUME NEW o \in Orders, ClearPayload(o) \/ DropHistory(o) PROVE TypeOK'
  BY <1>4 DEF ClearPayload, DropHistory, TypeOK, outside
<1>5. CASE Tick
  <2>1. clock' \in 1..MaxTime
    BY <1>5, Sizes DEF Tick, TypeOK
  <2> QED
    BY <1>5, <2>1 DEF Tick, TypeOK, database
<1>6. CASE Edit
  <2>1. \A i \in 1..MaxRows : sheet[i] \in SheetRow /\ (i < MaxRows => sheet[i + 1] \in SheetRow)
    BY Sizes DEF TypeOK
  <2>2. Blank \in SheetRow
    BY SheetAssumption DEF Blank, SheetRow
  <2>3. \A x \in SheetRow : [x EXCEPT !.note = TRUE] \in SheetRow /\ [x EXCEPT !.key = NoOrder] \in SheetRow
    BY DEF SheetRow
  <2>4. sheet' \in [1..MaxRows -> SheetRow]
    <3>1. CASE \E d \in 1..MaxRows :
                 sheet' = [i \in 1..MaxRows |-> IF i < d THEN sheet[i]
                                           ELSE IF i < MaxRows THEN sheet[i + 1] ELSE Blank]
      BY <2>1, <2>2, <3>1
    <3>2. CASE \E i, j \in 1..MaxRows : sheet' = [sheet EXCEPT ![i] = sheet[j], ![j] = sheet[i]]
      BY <2>1, <3>2 DEF TypeOK
    <3>3. CASE \E i \in 1..MaxRows : sheet' = [sheet EXCEPT ![i].note = TRUE]
      <4>1. PICK i \in 1..MaxRows : sheet' = [sheet EXCEPT ![i] = [sheet[i] EXCEPT !.note = TRUE]]
        BY <3>3
      <4> QED
        BY <2>1, <2>3, <4>1 DEF TypeOK
    <3>4. CASE \E i \in 1..MaxRows : sheet' = [sheet EXCEPT ![i].key = NoOrder]
      <4>1. PICK i \in 1..MaxRows : sheet' = [sheet EXCEPT ![i] = [sheet[i] EXCEPT !.key = NoOrder]]
        BY <3>4
      <4> QED
        BY <2>1, <2>3, <4>1 DEF TypeOK
    <3> QED
      BY <1>6, <3>1, <3>2, <3>3, <3>4 DEF Edit
  <2>5. edits' \in 0..MaxEdits
    BY <1>6, Sizes DEF Edit, TypeOK
  <2>6. UNCHANGED <<database, clock, ebay, run, crashes>>
    BY <1>6 DEF Edit
  <2> QED
    BY <2>4, <2>5, <2>6 DEF TypeOK, database
<1> QED
  BY <1>2, <1>3, <1>4, <1>5, <1>6

LEMMA TypeStep == TypeOK /\ [Next]_vars => TypeOK'
<1> SUFFICES ASSUME TypeOK, [Next]_vars PROVE TypeOK'
  OBVIOUS
<1>1. ASSUME NEW p \in Procs, RunStep(p) PROVE TypeOK'
  BY <1>1, SmallStepsType, ImportType, WriteType, RecordType, PlanType DEF RunStep
<1>2. ASSUME UNCHANGED vars PROVE TypeOK'
  BY <1>2 DEF vars, TypeOK
<1>3. Syncs \subseteq Procs /\ Retries \subseteq Procs
  BY DEF Procs
<1> QED
  BY <1>1, <1>2, <1>3, StartType, AroundType DEF Next

-----------------------------------------------------------------------------
(* Rows.                                                                   *)

\* Beside a run every process is idle.
LEMMA OthersIdle ==
    ASSUME RowsInv, NEW p \in Procs, run[p].ph # "idle"
    PROVE  \A q \in Procs \ {p} : run[q] = NoRun
  BY DEF RowsInv, OneRun, RunsOK, RunOK

LEMMA NoRunOK == /\ RunOK(NoRun) /\ RowsFree(NoRun) /\ RowsFree(NoRun)'
                 /\ Arrived(NoRun) /\ Arrived(NoRun)'
  BY DEF NoRun, RunOK, Writing, RowsFree, Arrived

LEMMA EndedOK ==
    ASSUME NEW r
    PROVE  RunOK(Ended(r)) /\ RowsFree(Ended(r)) /\ Arrived(Ended(r))
  BY DEF Ended, NoRun, RunOK, Writing, RowsFree, Arrived

\* A step of one process that leaves the sheet alone.
LEMMA RunMoves ==
    ASSUME RowsInv, TypeOK', NEW p \in Procs, NEW r,
           sheet' = sheet, run' = [run EXCEPT ![p] = r],
           RunOK(r), RowsFree(r), Arrived(r),
           r.ph # "idle" => \A q \in Procs \ {p} : run[q].ph = "idle"
    PROVE  RowsInv'
<1>1. \A q \in Procs : run'[q] = IF q = p THEN r ELSE run[q]
  BY DEF RowsInv, SheetInv, TypeOK
<1>2. OneRun'
  BY <1>1 DEF RowsInv, OneRun
<1>3. RunsOK'
  BY <1>1 DEF RowsInv, RunsOK
<1>4. PlannedRowsFree'
  <2>1. \A q \in Procs : RowsFree(run'[q])
    BY <1>1 DEF RowsInv, SheetInv, PlannedRowsFree
  <2> QED
    BY <2>1 DEF PlannedRowsFree, RowsFree, RowsOf
<1>5. BatchArrived'
  <2>1. \A q \in Procs : Arrived(run'[q])
    BY <1>1 DEF RowsInv, BatchArrived
  <2> QED
    BY <2>1 DEF BatchArrived, Arrived
<1>6. Unique'
  BY DEF RowsInv, Unique
<1> QED
  BY <1>2, <1>3, <1>4, <1>5, <1>6 DEF RowsInv, SheetInv

LEMMA RowsInit == Init => RowsInv
<1> SUFFICES ASSUME Init PROVE RowsInv
  OBVIOUS
<1>1. \A p \in Procs : run[p] = NoRun
  BY DEF Init
<1>2. OneRun /\ RunsOK /\ PlannedRowsFree /\ BatchArrived
  BY <1>1, NoRunOK DEF OneRun, RunsOK, PlannedRowsFree, BatchArrived, NoRun
<1>3. Unique
  BY DEF Init, Unique, Blank
<1> QED
  BY <1>2, <1>3, TypeInit DEF RowsInv, SheetInv

LEMMA StartRows ==
    ASSUME Alone, RowsInv, TypeOK', NEW p \in Procs, StartSync(p) \/ StartRetry(p)
    PROVE  RowsInv'
<1>1. \A q \in Procs : run[q].ph = "idle"
  BY DEF StartSync, StartRetry, Quiet, Alone
<1>2. \E r : /\ run' = [run EXCEPT ![p] = r]
             /\ RunOK(r) /\ RowsFree(r) /\ Arrived(r)
  <2>1. CASE StartSync(p)
    <3>1. PICK since, yes \in BOOLEAN, m \in RunModes :
            run' = [run EXCEPT ![p] = [NoRun EXCEPT !.ph = "import", !.since = since,
                                         !.yes = yes, !.mode = m, !.began = clock]]
      BY <2>1 DEF StartSync
    <3> DEFINE r == [NoRun EXCEPT !.ph = "import", !.since = since,
                                  !.yes = yes, !.mode = m, !.began = clock]
    <3>2. RunOK(r) /\ RowsFree(r) /\ Arrived(r)
      BY DEF RunOK, RowsFree, Arrived, NoRun, Writing, RunModes, FullMode
    <3> QED
      BY <3>1, <3>2
  <2>2. CASE StartRetry(p)
    <3>1. PICK o \in Orders, m \in RunModes :
            run' = [run EXCEPT ![p] = [NoRun EXCEPT !.ph = "plan", !.target = {o},
                                         !.yes = TRUE, !.mode = m, !.began = clock]]
      BY <2>2 DEF StartRetry
    <3> DEFINE r == [NoRun EXCEPT !.ph = "plan", !.target = {o}, !.yes = TRUE,
                                  !.mode = m, !.began = clock]
    <3>2. RunOK(r) /\ RowsFree(r) /\ Arrived(r)
      BY DEF RunOK, RowsFree, Arrived, NoRun, Writing, RunModes, FullMode
    <3> QED
      BY <3>1, <3>2
  <2> QED
    BY <2>1, <2>2
<1>3. sheet' = sheet
  BY DEF StartSync, StartRetry
<1> QED
  BY <1>1, <1>2, <1>3, RunMoves

LEMMA ImportRows ==
    ASSUME RowsInv, TypeOK', NEW p \in Procs, Import(p)
    PROVE  RowsInv'
<1> DEFINE r == [run[p] EXCEPT !.ph = "plan"]
<1>1. run' = [run EXCEPT ![p] = r] /\ sheet' = sheet /\ run[p].ph = "import"
  BY DEF Import, StoredAfter
<1>2. run[p] \in Run /\ RunOK(run[p]) /\ RowsFree(run[p])
  BY DEF RowsInv, SheetInv, TypeOK, RunsOK, PlannedRowsFree
<1>3. RunOK(r) /\ RowsFree(r) /\ Arrived(r)
  BY <1>1, <1>2 DEF Run, RunOK, Writing, RowsFree, Arrived
<1>4. \A q \in Procs \ {p} : run[q].ph = "idle"
  BY <1>1 DEF RowsInv, OneRun
<1> HIDE DEF r
<1> QED
  BY <1>1, <1>3, <1>4, RunMoves

\* New rows lie below everything, updates go to the row that was found.
LEMMA PlanRows ==
    ASSUME RowsInv, TypeOK', NEW p \in Procs, Plan(p)
    PROVE  RowsInv'
<1>1. TypeOK /\ Unique /\ run[p].ph = "plan" /\ sheet' = sheet
  BY DEF RowsInv, SheetInv, Plan
<1>2. PICK plan : PlanOf(p, plan) /\ PlanGoesOn(p, plan)
  BY <1>1, PlanStep
<1>3. \A q \in Procs \ {p} : run[q].ph = "idle"
  BY <1>1 DEF RowsInv, OneRun
<1>4. plan \in Run /\ plan.left \subseteq Orders /\ plan.left \subseteq Buildable(p)
  BY <1>2 DEF PlanOf, Run
<1>5. \A o \in plan.left : /\ plan.act[o] \in {"insert", "update"}
                           /\ plan.act[o] = Classify(o, run[p].mode)
                           /\ plan.res[o] = "failed"
  BY <1>2 DEF PlanOf, PlannedOutcome
<1>6. \A o \in plan.left : /\ plan.act[o] = "insert" => RowsOf(o) = {}
                           /\ plan.act[o] = "update" => /\ plan.row[o] \in 1..MaxRows
                                                        /\ sheet[plan.row[o]].key = o
  <2>1. ASSUME NEW o \in plan.left, plan.act[o] = "insert" PROVE RowsOf(o) = {}
    BY <1>1, <1>4, <1>5, <2>1, RowOfType DEF Classify
  <2>2. ASSUME NEW o \in plan.left, plan.act[o] = "update"
        PROVE  plan.row[o] \in 1..MaxRows /\ sheet[plan.row[o]].key = o
    <3>1. RowOf(o) \in RowsOf(o)
      BY <1>1, <1>4, <1>5, <2>2, RowOfType DEF Classify
    <3>2. plan.row[o] = RowOf(o)
      BY <1>2, <2>2 DEF PlanOf
    <3> QED
      BY <3>1, <3>2 DEF RowsOf
  <2> QED
    BY <2>1, <2>2
<1>7. \A o \in plan.left : plan.act[o] = "insert" => /\ plan.row[o] \in 1..MaxRows
                                                     /\ sheet[plan.row[o]] = Blank
  <2>1. ASSUME NEW o \in plan.left, plan.act[o] = "insert"
        PROVE  plan.row[o] \in 1..MaxRows /\ sheet[plan.row[o]] = Blank
    <3>1. plan.row[o] \in 0..MaxRows /\ plan.row[o] > LastUsed
      BY <1>2, <1>4, <2>1 DEF PlanOf, Run
    <3>2. LastUsed \in 0..MaxRows /\ \A i \in 1..MaxRows : i > LastUsed => sheet[i] = Blank
      BY <1>1, LastUsedType
    <3> QED
      BY <3>1, <3>2, Sizes
  <2> QED
    BY <2>1
<1>8. \A a, b \in plan.left : a # b => plan.row[a] # plan.row[b]
  <2>1. ASSUME NEW a \in plan.left, NEW b \in plan.left, a # b,
               plan.row[a] = plan.row[b]
        PROVE  FALSE
    <3>1. CASE plan.act[a] = "insert" /\ plan.act[b] = "insert"
      BY <1>2, <2>1, <3>1 DEF PlanOf
    <3>2. CASE plan.act[a] = "update" /\ plan.act[b] = "update"
      BY <1>6, <2>1, <3>2
    <3>3. CASE plan.act[a] # plan.act[b]
      <4>1. Blank.key = NoOrder /\ a # NoOrder /\ b # NoOrder
        BY <1>4, Sizes DEF Blank
      <4> QED
        BY <1>5, <1>6, <1>7, <2>1, <3>3, <4>1
    <3> QED
      BY <1>5, <3>1, <3>2, <3>3
  <2> QED
    BY <2>1
<1>9. ASSUME plan.left # {}
      PROVE  LET r == [plan EXCEPT !.ph = "write"]
             IN  RunOK(r) /\ RowsFree(r) /\ Arrived(r)
  <2> DEFINE r == [plan EXCEPT !.ph = "write"]
  <2>1. /\ r.ph = "write" /\ r.left = plan.left /\ r.batch = {} /\ r.row = plan.row
        /\ r.act = plan.act /\ r.res = plan.res /\ r.mode = "APPEND_UPDATE"
    BY <1>2, <1>4 DEF PlanOf, Run
  <2> HIDE DEF r
  <2>2. RunOK(r)
    BY <1>5, <1>6, <1>7, <2>1 DEF RunOK, Writing
  <2>3. RowsFree(r)
    BY <1>5, <1>6, <1>7, <1>8, <2>1 DEF RowsFree
  <2> QED
    BY <2>1, <2>2, <2>3 DEF Arrived, r
<1>10. ASSUME plan.left = {}, plan.target = {}
       PROVE  LET r == [plan EXCEPT !.ph = "advance"]
              IN  RunOK(r) /\ RowsFree(r) /\ Arrived(r)
  BY <1>2, <1>4, <1>10 DEF PlanOf, Run, RunOK, Writing, RowsFree, Arrived
<1> QED
  BY <1>1, <1>2, <1>3, <1>9, <1>10, EndedOK, RunMoves DEF PlanGoesOn, Moves

LEMMA SmallStepsRows ==
    ASSUME RowsInv, TypeOK', NEW p \in Procs,
           AdvanceCursor(p) \/ SaveCursor(p) \/ Abort(p) \/ Finish(p) \/ Crash(p)
    PROVE  RowsInv'
<1>1. run[p].ph # "idle" /\ sheet' = sheet
  BY DEF AdvanceCursor, SaveCursor, Abort, Finish, Crash
<1>2. \A q \in Procs \ {p} : run[q].ph = "idle"
  BY <1>1 DEF RowsInv, OneRun
<1>3. run' = [run EXCEPT ![p] = Ended(run[p])] \/ run' = [run EXCEPT ![p] = NoRun]
  BY DEF AdvanceCursor, SaveCursor, Abort, Finish, Crash
<1> QED
  BY <1>1, <1>2, <1>3, EndedOK, NoRunOK, RunMoves

\* After a batch the rows left are those it did not write.
LEMMA AfterBatchOK ==
    ASSUME RowsInv, NEW p \in Procs, run[p].ph # "idle",
           NEW b \in SUBSET Orders, NEW left \in SUBSET run[p].left, left \cap b = {},
           NEW outcome \in {"failed", "written"}, NEW wrote \in BOOLEAN
    PROVE  LET r == AfterBatch(run[p], b, outcome, left, wrote)
           IN  RunOK(r) /\ RowsFree(r) /\ Arrived(r)
<1> DEFINE r == AfterBatch(run[p], b, outcome, left, wrote)
<1> SUFFICES RunOK(r) /\ RowsFree(r) /\ Arrived(r)
  OBVIOUS
<1>1. run[p] \in Run /\ RunOK(run[p]) /\ RowsFree(run[p]) /\ left \subseteq Orders
  BY DEF RowsInv, SheetInv, TypeOK, RunsOK, PlannedRowsFree, Run
<1>2. CASE left = {}
  <2>1. /\ r.ph = "save" /\ r.left = {} /\ r.batch = {} /\ r.mode = "APPEND_UPDATE"
    BY <1>2 DEF AfterBatch, NoRun
  <2> HIDE DEF r
  <2> QED
    BY <2>1 DEF RunOK, Writing, RowsFree, Arrived
<1>3. CASE left # {}
  <2>1. /\ r.ph = "write" /\ r.left = left /\ r.batch = {} /\ r.mode = run[p].mode
        /\ r.act = run[p].act /\ r.row = run[p].row
        /\ r.res = [o \in Orders |-> IF o \in b THEN outcome ELSE run[p].res[o]]
    BY <1>1, <1>3 DEF AfterBatch, Run
  <2> HIDE DEF r
  <2>2. \A o \in left : /\ o \in Writing(run[p]) /\ o \notin b
                        /\ r.res[o] = run[p].res[o]
    BY <1>1, <2>1 DEF Writing
  <2>3. RunOK(r)
    BY <1>1, <2>1, <2>2 DEF RunOK, Writing
  <2>4. RowsFree(r)
    BY <1>1, <2>1, <2>2 DEF RowsFree
  <2> QED
    BY <2>1, <2>3, <2>4 DEF Arrived
<1> QED
  BY <1>2, <1>3

\* What a run keeps over the end of a batch.
LEMMA AfterBatchFields ==
    ASSUME NEW r \in Run, NEW b, NEW outcome, NEW left, NEW wrote
    PROVE  LET s == AfterBatch(r, b, outcome, left, wrote)
           IN  /\ \A o \in Orders : s.res[o] = IF o \in b THEN outcome ELSE r.res[o]
               /\ s.target = r.target /\ s.began = r.began /\ s.end = r.end
               /\ s.build = r.build /\ (r.since => s.since)
               /\ s.left = left /\ s.batch = {}
               /\ left # {} => s.ph = "write" /\ s.val = r.val /\ s.act = r.act
               /\ left = {} => s.ph = "save"
<1>1. CASE left = {}
  BY <1>1 DEF AfterBatch, Run, NoRun
<1>2. CASE left # {}
  BY <1>2 DEF AfterBatch, Run
<1> QED
  BY <1>1, <1>2

LEMMA RecordRows ==
    ASSUME RowsInv, TypeOK', NEW p \in Procs, RecordBatch(p) \/ BatchFails(p)
    PROVE  RowsInv'
<1>1. /\ run[p].ph # "idle" /\ sheet' = sheet
      /\ run[p] \in Run /\ RunOK(run[p])
  BY DEF RecordBatch, BatchFails, RowsInv, SheetInv, TypeOK, RunsOK
<1>2. \A q \in Procs \ {p} : run[q].ph = "idle"
  BY <1>1 DEF RowsInv, OneRun
<1>3. PICK b \in SUBSET Orders, left \in SUBSET run[p].left,
           outcome \in {"failed", "written"}, wrote \in BOOLEAN :
        left \cap b = {} /\ run' = [run EXCEPT ![p] = AfterBatch(run[p], b, outcome, left, wrote)]
  <2>1. CASE RecordBatch(p)
    <3>1. run[p].left \cap run[p].batch = {} /\ run[p].batch \in SUBSET Orders
      BY <1>1 DEF RunOK, Run
    <3>2. run' = [run EXCEPT ![p] = AfterBatch(run[p], run[p].batch, "written", run[p].left, TRUE)]
      BY <2>1 DEF RecordBatch
    <3> QED
      BY <3>1, <3>2
  <2>2. CASE BatchFails(p)
    <3>1. PICK b \in SUBSET Orders, stop \in BOOLEAN, wrote \in BOOLEAN :
            run' = [run EXCEPT ![p] = AfterBatch(run[p], b, "failed",
                                        IF stop THEN {} ELSE run[p].left \ b, wrote)]
      BY <2>2 DEF BatchFails
    <3> QED
      BY <3>1
  <2> QED
    BY <2>1, <2>2
<1>4. LET r == AfterBatch(run[p], b, outcome, left, wrote)
      IN  RunOK(r) /\ RowsFree(r) /\ Arrived(r)
  BY <1>1, <1>3, AfterBatchOK
<1> QED
  BY <1>1, <1>2, <1>3, <1>4, RunMoves

-----------------------------------------------------------------------------
(* The write itself.                                                       *)

\* The rows of batch b, and only these, change: to their order, or, when the
\* key did not arrive, without one of their own; with its cells, or, when
\* nothing but the key arrived, without.
Arrives(p, b) ==
    \A i \in 1..MaxRows : sheet'[i] # sheet[i] =>
        \E o \in b : /\ run[p].row[o] = i /\ sheet'[i].key \in {o, sheet[i].key}
                     /\ \/ sheet'[i].val = run[p].val[o]
                        \/ sheet'[i].val = 0 /\ "torn" \in Faults

\* A batch that is applied is in its rows, and nothing else changed.
LEMMA WrittenRows ==
    ASSUME RowsInv, NEW p \in Procs, NEW b \in SUBSET run[p].left
    PROVE  \A i \in 1..MaxRows :
             /\ (\A o \in b : run[p].row[o] # i) => Written(p, b)[i] = sheet[i]
             /\ \A o \in b : run[p].row[o] = i =>
                   Written(p, b)[i].key = o /\ Written(p, b)[i].val = run[p].val[o]
<1> TAKE i \in 1..MaxRows
<1>1. CASE \A o \in b : run[p].row[o] # i
  BY <1>1 DEF Written
<1>2. ASSUME NEW o \in b, run[p].row[o] = i
      PROVE  Written(p, b)[i].key = o /\ Written(p, b)[i].val = run[p].val[o]
  <2>1. \A x \in b : run[p].row[x] = i => x = o
    BY <1>2 DEF RowsInv, SheetInv, PlannedRowsFree, RowsFree
  <2>2. (CHOOSE x \in b : run[p].row[x] = i) = o
    BY <1>2, <2>1
  <2>3. Written(p, b)[i] = [sheet[i] EXCEPT !.key = o, !.val = run[p].val[o]]
    BY <1>2, <2>2 DEF Written
  <2>4. sheet[i] \in SheetRow
    BY DEF RowsInv, SheetInv, TypeOK
  <2> QED
    BY <2>3, <2>4 DEF SheetRow
<1> QED
  BY <1>1, <1>2

\* Whatever arrives of a batch, no order gets a second row, what is left to
\* write still finds its rows, and no row of another order is touched.
LEMMA ArrivalIsSafe ==
    ASSUME RowsInv, NEW p \in Procs, NEW b \in SUBSET run[p].left, Arrives(p, b)
    PROVE  /\ Unique'
           /\ \A o \in run[p].left \ b :
                 IF run[p].act[o] = "insert"
                 THEN RowsOf(o)' = {} /\ sheet'[run[p].row[o]] = Blank
                 ELSE sheet'[run[p].row[o]].key = o
           /\ \A i \in 1..MaxRows :
                 sheet'[i] # sheet[i] => sheet[i] = Blank \/ sheet[i].key = sheet'[i].key
<1>1. /\ run[p] \in Run /\ b \subseteq Orders /\ RowsFree(run[p]) /\ RunOK(run[p]) /\ Unique
  BY DEF RowsInv, SheetInv, TypeOK, PlannedRowsFree, RunsOK, Run
<1>2. \A o \in run[p].left :
        /\ o \in Orders /\ o # NoOrder /\ run[p].row[o] \in 1..MaxRows
        /\ IF run[p].act[o] = "insert"
           THEN RowsOf(o) = {} /\ sheet[run[p].row[o]] = Blank
           ELSE sheet[run[p].row[o]].key = o
  BY <1>1, Sizes DEF RowsFree, RunOK, Writing, Run
<1>3. \A i \in 1..MaxRows : sheet'[i] # sheet[i] =>
        \E o \in b : /\ run[p].row[o] = i
                     /\ sheet'[i].key = o \/ (sheet[i] = Blank /\ sheet'[i].key = NoOrder)
                     /\ sheet[i] = Blank \/ sheet[i].key = sheet'[i].key
  <2> TAKE i \in 1..MaxRows
  <2> HAVE sheet'[i] # sheet[i]
  <2>1. PICK o \in b : run[p].row[o] = i /\ sheet'[i].key \in {o, sheet[i].key}
    BY DEF Arrives
  <2>2. CASE run[p].act[o] = "insert"
    <3>1. o \in run[p].left /\ run[p].row[o] = i
      BY <2>1
    <3>2. sheet[i] = Blank
      BY <1>2, <2>2, <3>1
    <3>3. Blank.key = NoOrder
      BY DEF Blank
    <3> QED
      BY <2>1, <3>2, <3>3
  <2>3. CASE run[p].act[o] # "insert"
    <3>1. sheet[i].key = o
      BY <1>2, <2>1, <2>3
    <3> QED
      BY <2>1, <3>1
  <2> QED
    BY <2>2, <2>3
\* The key of an order to be written is in its row or nowhere.
<1>4. \A o \in run[p].left, i \in 1..MaxRows :
        /\ sheet[i].key = o => i = run[p].row[o]
        /\ sheet'[i].key = o => i = run[p].row[o]
  <2>1. ASSUME NEW o \in run[p].left, NEW i \in 1..MaxRows, sheet[i].key = o
        PROVE  i = run[p].row[o]
    BY <1>1, <1>2, <2>1 DEF Unique, RowsOf
  <2>2. ASSUME NEW o \in run[p].left, NEW i \in 1..MaxRows, sheet'[i].key = o
        PROVE  i = run[p].row[o]
    BY <1>2, <1>3, <2>1, <2>2
  <2> QED
    BY <2>1, <2>2
<1>5. Unique'
  <2>1. ASSUME NEW i \in 1..MaxRows, NEW j \in 1..MaxRows,
               sheet'[i].key # NoOrder, sheet'[i].key = sheet'[j].key
        PROVE  i = j
    <3>1. CASE sheet'[i].key \in run[p].left
      BY <1>4, <2>1, <3>1
    <3>2. CASE sheet'[i].key \notin run[p].left
      <4>1. sheet'[i].key = sheet[i].key /\ sheet'[j].key = sheet[j].key
        BY <1>3, <2>1, <3>2
      <4> QED
        BY <1>1, <2>1, <4>1 DEF Unique
    <3> QED
      BY <3>1, <3>2
  <2> QED
    BY <2>1 DEF Unique
<1>6. ASSUME NEW o \in run[p].left \ b
      PROVE  IF run[p].act[o] = "insert"
             THEN RowsOf(o)' = {} /\ sheet'[run[p].row[o]] = Blank
             ELSE sheet'[run[p].row[o]].key = o
  <2>1. sheet'[run[p].row[o]] = sheet[run[p].row[o]]
    BY <1>1, <1>2, <1>3 DEF RowsFree
  <2>2. ASSUME run[p].act[o] = "insert", NEW i \in 1..MaxRows, sheet'[i].key = o
        PROVE  FALSE
    BY <1>2, <1>4, <2>1, <2>2 DEF Blank
  <2> QED
    BY <1>2, <2>1, <2>2 DEF RowsOf
<1> QED
  BY <1>3, <1>5, <1>6

LEMMA WriteArrives ==
    ASSUME RowsInv, NEW p \in Procs, WriteBatch(p)
    PROVE  \E b \in SUBSET run[p].left :
             /\ Arrives(p, b)
             /\ run' = [run EXCEPT ![p] = InBatch(run[p], b, "record")]
             /\ \A o \in b : sheet'[run[p].row[o]].key = o /\ sheet'[run[p].row[o]].val = run[p].val[o]
<1>1. PICK b \in Batches(p) : /\ sheet' = Written(p, b)
                              /\ run' = [run EXCEPT ![p] = InBatch(run[p], b, "record")]
  BY DEF WriteBatch
<1>2. b \in SUBSET run[p].left /\ \A o \in b : run[p].row[o] \in 1..MaxRows
  BY <1>1 DEF Batches, RowsInv, RunsOK, RunOK, Writing
<1>3. \A i \in 1..MaxRows :
        /\ (\A o \in b : run[p].row[o] # i) => sheet'[i] = sheet[i]
        /\ \A o \in b : run[p].row[o] = i =>
              sheet'[i].key = o /\ sheet'[i].val = run[p].val[o]
  BY <1>1, <1>2, WrittenRows
<1>4. Arrives(p, b)
  BY <1>3 DEF Arrives
<1>5. \A o \in b : sheet'[run[p].row[o]].key = o /\ sheet'[run[p].row[o]].val = run[p].val[o]
  BY <1>2, <1>3
<1> QED
  BY <1>1, <1>2, <1>4, <1>5

LEMMA TearArrives ==
    ASSUME RowsInv, NEW p \in Procs, TearBatch(p)
    PROVE  \E b \in SUBSET run[p].left :
             Arrives(p, b) /\ run' = [run EXCEPT ![p] = InBatch(run[p], b, "torn")]
<1>1. PICK b \in Batches(p), o \in run[p].left, keyOnly \in BOOLEAN :
        /\ o \in b
        /\ \E done \in SUBSET (b \ {o}) :
             sheet' = [Written(p, done) EXCEPT ![run[p].row[o]] =
                         IF keyOnly THEN [@ EXCEPT !.key = o, !.val = 0]
                                    ELSE [@ EXCEPT !.val = run[p].val[o]]]
        /\ run' = [run EXCEPT ![p] = InBatch(run[p], b, "torn")]
  BY DEF TearBatch
<1>2. PICK done \in SUBSET (b \ {o}) :
        sheet' = [Written(p, done) EXCEPT ![run[p].row[o]] =
                    IF keyOnly THEN [@ EXCEPT !.key = o, !.val = 0]
                               ELSE [@ EXCEPT !.val = run[p].val[o]]]
  BY <1>1
<1>3. b \in SUBSET run[p].left /\ done \in SUBSET run[p].left /\ o \in b
  BY <1>1 DEF Batches
<1>4. TypeOK /\ run[p] \in Run /\ done \in SUBSET Orders
  BY <1>3 DEF RowsInv, SheetInv, TypeOK, Run
<1> DEFINE W == Written(p, done)
           x(i) == IF keyOnly THEN [W[i] EXCEPT !.key = o, !.val = 0]
                              ELSE [W[i] EXCEPT !.val = run[p].val[o]]
<1>5. W \in [1..MaxRows -> SheetRow]
  BY <1>4, WrittenType
<1>6. sheet' = [W EXCEPT ![run[p].row[o]] = x(run[p].row[o])]
  BY <1>2
<1>7. \A i \in 1..MaxRows : x(i).key \in {o, W[i].key} /\ x(i).val \in {0, run[p].val[o]}
  <2> HIDE DEF W
  <2> QED
    BY <1>5 DEF SheetRow
<1>8. \A i \in 1..MaxRows :
        /\ (\A q \in done : run[p].row[q] # i) => W[i] = sheet[i]
        /\ \A q \in done : run[p].row[q] = i => W[i].key = q /\ W[i].val = run[p].val[q]
  BY <1>3, WrittenRows
<1> HIDE DEF W, x
<1>9. \A q \in done : run[p].row[q] # run[p].row[o]
  BY <1>1, <1>3 DEF RowsInv, SheetInv, PlannedRowsFree, RowsFree
<1>10. ASSUME NEW i \in 1..MaxRows, sheet'[i] # sheet[i]
       PROVE  \E q \in b : /\ run[p].row[q] = i /\ sheet'[i].key \in {q, sheet[i].key}
                           /\ \/ sheet'[i].val = run[p].val[q]
                              \/ sheet'[i].val = 0 /\ "torn" \in Faults
  <2>1. CASE i = run[p].row[o]
    <3>1. sheet'[i] = x(i) /\ W[i] = sheet[i] /\ "torn" \in Faults
      BY <1>5, <1>6, <1>8, <1>9, <2>1 DEF TearBatch
    <3> QED
      BY <1>3, <1>7, <2>1, <3>1
  <2>2. CASE i # run[p].row[o]
    <3>1. sheet'[i] = W[i]
      BY <1>5, <1>6, <2>2
    <3>2. PICK q \in done : run[p].row[q] = i /\ W[i].key = q /\ W[i].val = run[p].val[q]
      BY <1>8, <1>10, <3>1
    <3> QED
      BY <1>2, <3>1, <3>2
  <2> QED
    BY <2>1, <2>2
<1> QED
  BY <1>1, <1>3, <1>10 DEF Arrives

LEMMA WriteRows ==
    ASSUME RowsInv, TypeOK', NEW p \in Procs, WriteBatch(p) \/ TearBatch(p)
    PROVE  RowsInv'
<1>1. PICK b \in SUBSET run[p].left, ph \in {"record", "torn"} :
        /\ Arrives(p, b)
        /\ run' = [run EXCEPT ![p] = InBatch(run[p], b, ph)]
        /\ ph = "record" => \A o \in b : /\ sheet'[run[p].row[o]].key = o
                                         /\ sheet'[run[p].row[o]].val = run[p].val[o]
  BY WriteArrives, TearArrives
<1>2. /\ run[p].ph = "write" /\ run[p] \in Run /\ RunOK(run[p]) /\ RowsFree(run[p])
  BY DEF RowsInv, SheetInv, TypeOK, RunsOK, PlannedRowsFree, WriteBatch, TearBatch
<1> DEFINE r == InBatch(run[p], b, ph)
<1>3. /\ r.ph = ph /\ r.batch = b /\ r.left = run[p].left \ b /\ r.row = run[p].row
      /\ r.act = run[p].act /\ r.val = run[p].val /\ r.res = run[p].res
      /\ r.mode = run[p].mode
  BY <1>2 DEF Run, InBatch
<1> HIDE DEF r
<1>4. \A q \in Procs : /\ q = p => run'[q] = r
                       /\ q # p => run'[q] = NoRun
  <2>1. run \in [Procs -> Run]
    BY DEF RowsInv, SheetInv, TypeOK
  <2>2. \A q \in Procs \ {p} : run[q] = NoRun
    BY <1>2, OthersIdle
  <2> QED
    BY <1>1, <2>1, <2>2 DEF r
<1>5. /\ Unique'
      /\ \A o \in r.left : IF r.act[o] = "insert"
                           THEN RowsOf(o)' = {} /\ sheet'[r.row[o]] = Blank
                           ELSE sheet'[r.row[o]].key = o
  BY <1>1, <1>3, ArrivalIsSafe
<1>6. RunOK(r)
  BY <1>1, <1>2, <1>3 DEF RunOK, Writing
<1>7. r.left \cup r.batch = run[p].left /\ run[p].batch = {}
  BY <1>1, <1>2, <1>3 DEF RunOK
<1>8. RunsOK' /\ OneRun'
  BY <1>4, <1>6, NoRunOK DEF RunsOK, OneRun, NoRun
<1>9. PlannedRowsFree'
  <2>1. \A a, c \in r.left \cup r.batch : a # c => r.row[a] # r.row[c]
    BY <1>2, <1>3, <1>7 DEF RowsFree
  <2>2. NoRun.left = {} /\ NoRun.batch = {}
    BY DEF NoRun
  <2> QED
    BY <1>4, <1>5, <2>1, <2>2 DEF PlannedRowsFree, RowsFree
<1>10. BatchArrived'
  <2>1. NoRun.ph = "idle"
    BY DEF NoRun
  <2> QED
    BY <1>1, <1>3, <1>4, <2>1 DEF BatchArrived, Arrived
<1> QED
  BY <1>5, <1>8, <1>9, <1>10 DEF RowsInv, SheetInv

-----------------------------------------------------------------------------
(* The rest, and the invariant.                                            *)

\* A user who sorts rows, deletes one or clears a key makes no duplicates.
LEMMA EditRows ==
    ASSUME Alone, RowsInv, TypeOK', Edit
    PROVE  RowsInv'
<1>1. \A p \in Procs : run[p] = NoRun /\ run'[p] = NoRun
  BY DEF Edit, Alone, Quiet, RowsInv, RunsOK, RunOK
<1>2. OneRun' /\ RunsOK' /\ PlannedRowsFree' /\ BatchArrived'
  BY <1>1, NoRunOK DEF OneRun, RunsOK, PlannedRowsFree, BatchArrived, NoRun
<1>3. Unique /\ sheet \in [1..MaxRows -> SheetRow] /\ MaxRows \in Nat
  BY Sizes DEF RowsInv, SheetInv, TypeOK
<1>4. Unique'
  <2>1. ASSUME NEW d \in 1..MaxRows,
               sheet' = [i \in 1..MaxRows |-> IF i < d THEN sheet[i]
                                           ELSE IF i < MaxRows THEN sheet[i + 1] ELSE Blank]
        PROVE  Unique'
    <3>1. ASSUME NEW i \in 1..MaxRows, NEW j \in 1..MaxRows,
                 sheet'[i].key # NoOrder, sheet'[i].key = sheet'[j].key
          PROVE  i = j
      <4> DEFINE from(k) == IF k < d THEN k ELSE k + 1
      <4>1. ASSUME NEW k \in 1..MaxRows, sheet'[k].key # NoOrder
            PROVE  from(k) \in 1..MaxRows /\ sheet'[k] = sheet[from(k)]
        <5>1. Blank.key = NoOrder
          BY DEF Blank
        <5> QED
          BY <1>3, <2>1, <4>1, <5>1
      <4>2. /\ from(i) \in 1..MaxRows /\ sheet'[i] = sheet[from(i)]
            /\ from(j) \in 1..MaxRows /\ sheet'[j] = sheet[from(j)]
        BY <3>1, <4>1
      <4>3. from(i) = from(j)
        <5> HIDE DEF from
        <5> QED
          BY <1>3, <3>1, <4>2 DEF Unique
      <4> QED
        BY <1>3, <2>1, <4>3
    <3> QED
      BY <3>1 DEF Unique
  <2>2. ASSUME NEW i \in 1..MaxRows, NEW j \in 1..MaxRows,
               sheet' = [sheet EXCEPT ![i] = sheet[j], ![j] = sheet[i]]
        PROVE  Unique'
    BY <1>3, <2>2 DEF Unique
  <2>3. ASSUME NEW i \in 1..MaxRows, sheet' = [sheet EXCEPT ![i].note = TRUE]
        PROVE  Unique'
    <3>1. \A k \in 1..MaxRows : sheet'[k].key = sheet[k].key
      BY <1>3, <2>3 DEF SheetRow
    <3> QED
      BY <1>3, <3>1 DEF Unique
  <2>4. ASSUME NEW i \in 1..MaxRows, sheet' = [sheet EXCEPT ![i].key = NoOrder]
        PROVE  Unique'
    <3>1. \A k \in 1..MaxRows : sheet'[k].key \in {sheet[k].key, NoOrder}
      BY <1>3, <2>4 DEF SheetRow
    <3> QED
      BY <1>3, <3>1 DEF Unique
  <2> QED
    BY <2>1, <2>2, <2>3, <2>4 DEF Edit
<1> QED
  BY <1>2, <1>4 DEF RowsInv, SheetInv

LEMMA RowsStep == Alone /\ RowsInv /\ [Next]_vars => RowsInv'
<1> SUFFICES ASSUME Alone, RowsInv, [Next]_vars PROVE RowsInv'
  OBVIOUS
<1>1. TypeOK'
  BY TypeStep DEF RowsInv, SheetInv
<1>2. ASSUME UNCHANGED <<sheet, run>> PROVE RowsInv'
  BY <1>1, <1>2 DEF RowsInv, SheetInv, OneRun, RunsOK, PlannedRowsFree, RowsFree, RowsOf,
                    Unique, BatchArrived, Arrived
<1>3. ASSUME NEW p \in Procs, RunStep(p) PROVE RowsInv'
  BY <1>1, <1>3, ImportRows, PlanRows, SmallStepsRows, RecordRows, WriteRows DEF RunStep
<1>4. Syncs \subseteq Procs /\ Retries \subseteq Procs
  BY DEF Procs
<1>5. CASE \/ \E o \in Orders : Sell(o) \/ Modify(o) \/ ClearPayload(o) \/ DropHistory(o)
           \/ Tick \/ UNCHANGED vars
  BY <1>2, <1>5 DEF Sell, Modify, ClearPayload, DropHistory, Tick, vars
<1> QED
  BY <1>1, <1>3, <1>4, <1>5, StartRows, EditRows DEF Next

\* The engine's steps keep every row but the one they write, which was empty
\* or the order's own.
LEMMA RowsKeptStep ==
    ASSUME RowsInv, [Next]_vars, edits' = edits
    PROVE  \A i \in 1..MaxRows :
             sheet'[i] # sheet[i] => sheet[i] = Blank \/ sheet[i].key = sheet'[i].key
<1>1. ASSUME NEW p \in Procs, WriteBatch(p) \/ TearBatch(p)
      PROVE  \A i \in 1..MaxRows :
               sheet'[i] # sheet[i] => sheet[i] = Blank \/ sheet[i].key = sheet'[i].key
  <2>1. \E b \in SUBSET run[p].left : Arrives(p, b)
    BY <1>1, WriteArrives, TearArrives
  <2> QED
    BY <2>1, ArrivalIsSafe
<1>2. CASE Edit
  <2>1. edits \in Nat
    BY Sizes DEF RowsInv, SheetInv, TypeOK
  <2> QED
    BY <1>2, <2>1 DEF Edit
<1>3. ASSUME NEW p \in Procs, RunStep(p)
      PROVE  WriteBatch(p) \/ TearBatch(p) \/ sheet' = sheet
  BY <1>3 DEF RunStep, Import, Plan, AdvanceCursor, RecordBatch, BatchFails, SaveCursor,
              Abort, Finish, Crash
<1>4. CASE \/ \E o \in Orders : Sell(o) \/ Modify(o) \/ ClearPayload(o) \/ DropHistory(o)
           \/ \E p \in Syncs : StartSync(p)
           \/ \E p \in Retries : StartRetry(p)
           \/ Tick \/ UNCHANGED vars
  <2>1. sheet' = sheet
    BY <1>4 DEF Sell, Modify, ClearPayload, DropHistory, StartSync, StartRetry, Tick, vars
  <2> QED
    BY <2>1
<1> QED
  BY <1>1, <1>2, <1>3, <1>4 DEF Next

\* A row stays the order's row.
LEMMA RowsStay ==
    ASSUME RowsInv, [Next]_vars, edits' = edits, NEW o \in Orders, RowsOf(o) # {}
    PROVE  RowsOf(o)' # {}
<1>1. PICK i \in 1..MaxRows : sheet[i].key = o
  BY DEF RowsOf
<1>2. sheet[i] # Blank
  BY <1>1, Sizes DEF Blank
<1>3. sheet'[i].key = o
  BY <1>1, <1>2, RowsKeptStep
<1> QED
  BY <1>3 DEF RowsOf

-----------------------------------------------------------------------------
(* A unit that came good has its row.                                      *)

\* What a run starts with.
LEMMA StartMoves ==
    ASSUME NEW p \in Procs, StartSync(p) \/ StartRetry(p)
    PROVE  \E r : /\ Moves(p, r) /\ Writing(r) = {}
                  /\ r.res = NoRun.res /\ r.build = {}
                  /\ r.since \/ "range" \in Faults
                  /\ r.began = clock /\ r.end = 0
                  /\ r.ph = "import" \/ (r.ph = "plan" /\ r.target # {})
<1>1. CASE StartSync(p)
  <2>1. PICK since, yes \in BOOLEAN, m \in RunModes :
          /\ since \/ "range" \in Faults
          /\ run' = [run EXCEPT ![p] = [NoRun EXCEPT !.ph = "import", !.since = since,
                                          !.yes = yes, !.mode = m, !.began = clock]]
    BY <1>1 DEF StartSync
  <2> DEFINE r == [NoRun EXCEPT !.ph = "import", !.since = since, !.yes = yes, !.mode = m,
                                !.began = clock]
  <2>2. /\ Writing(r) = {} /\ r.res = NoRun.res /\ r.build = {} /\ r.since = since
        /\ r.began = clock /\ r.end = 0 /\ r.ph = "import"
    BY DEF NoRun, Writing
  <2> HIDE DEF r
  <2>3. Moves(p, r)
    BY <2>1 DEF Moves, r
  <2> QED
    BY <2>1, <2>2, <2>3
<1>2. CASE StartRetry(p)
  <2>1. PICK o \in Orders, m \in RunModes :
          run' = [run EXCEPT ![p] = [NoRun EXCEPT !.ph = "plan", !.target = {o},
                                       !.yes = TRUE, !.mode = m, !.began = clock]]
    BY <1>2 DEF StartRetry
  <2> DEFINE r == [NoRun EXCEPT !.ph = "plan", !.target = {o}, !.yes = TRUE, !.mode = m,
                                !.began = clock]
  <2>2. /\ Writing(r) = {} /\ r.res = NoRun.res /\ r.build = {} /\ r.since = TRUE
        /\ r.began = clock /\ r.end = 0 /\ r.ph = "plan" /\ r.target # {}
    BY DEF NoRun, Writing
  <2> HIDE DEF r
  <2>3. Moves(p, r)
    BY <2>1 DEF Moves, r
  <2> QED
    BY <2>2, <2>3
<1> QED
  BY <1>1, <1>2

LEMMA GoodStep ==
    ASSUME Alone, FullMode, RowsInv, GoodHasRow, [Next]_vars
    PROVE  GoodHasRow'
<1>1. run \in [Procs -> Run] /\ TypeOK
  BY DEF RowsInv, SheetInv, TypeOK
\* A run whose results stay, or go.
<1>2. ASSUME NEW p \in Procs, NEW r, Moves(p, r), edits' = edits,
             \A o \in Orders : r.res[o] \in {"written", "skipped"} =>
                 r.res[o] = run[p].res[o] \/ RowsOf(o)' # {}
      PROVE  GoodHasRow'
  <2>1. \A q \in Procs : /\ q = p => run'[q] = r
                         /\ q # p => run'[q] = run[q]
    BY <1>1, <1>2 DEF Moves
  <2>2. \A o \in Orders : RowsOf(o) # {} => RowsOf(o)' # {}
    BY <1>2, RowsStay
  <2> QED
    BY <1>2, <2>1, <2>2 DEF GoodHasRow
<1>3. \A o \in Orders : NoRun.res[o] = "none"
  BY DEF NoRun
<1>4. \A r : Ended(r).res = r.res
  BY DEF Ended, NoRun
<1>5. ASSUME NEW p \in Procs, RunStep(p) PROVE GoodHasRow'
  <2>1. edits' = edits /\ run[p] \in Run
    BY <1>1, <1>5 DEF RunStep, Import, Plan, AdvanceCursor, WriteBatch, TearBatch, RecordBatch,
                BatchFails, SaveCursor, Abort, Finish, Crash, outside
  <2>2. CASE Import(p)
    <3>1. Moves(p, [run[p] EXCEPT !.ph = "plan"])
      BY <2>2 DEF Import, Moves
    <3>2. [run[p] EXCEPT !.ph = "plan"].res = run[p].res
      BY <2>1 DEF Run
    <3> QED
      BY <1>2, <2>1, <3>1, <3>2
  <2>3. CASE Plan(p)
    <3>1. PICK plan : PlanOf(p, plan) /\ PlanGoesOn(p, plan)
      BY <1>1, <2>3, PlanStep
    <3>2. \A o \in Orders : plan.res[o] \in {"written", "skipped"} => RowsOf(o)' # {}
      <4>1. ASSUME NEW o \in Orders, plan.res[o] \in {"written", "skipped"}
            PROVE  RowsOf(o) # {}
        <5>1. run[p].mode = "APPEND_UPDATE"
          BY DEF RowsInv, RunsOK, RunOK
        <5>2. o \in Buildable(p)
          BY <3>1, <4>1 DEF PlanOf
        <5>3. Classify(o, run[p].mode) = "skip"
          BY <3>1, <4>1, <5>2 DEF PlanOf, PlannedOutcome, Classify
        <5>4. RowOf(o) # 0
          BY <5>1, <5>3 DEF Classify
        <5> QED
          BY <1>1, <5>4, RowOfType
      <4>2. sheet' = sheet
        BY <2>3 DEF Plan
      <4> QED
        BY <4>1, <4>2 DEF RowsOf
    <3>3. \A ph : [plan EXCEPT !.ph = ph].res = plan.res
      BY <3>1 DEF PlanOf, Run
    <3>4. PICK r : Moves(p, r) /\ r.res = plan.res
      BY <1>4, <3>1, <3>3 DEF PlanGoesOn
    <3> QED
      BY <1>2, <2>1, <3>2, <3>4
  <2>4. CASE AdvanceCursor(p) \/ SaveCursor(p) \/ Abort(p)
    <3>1. Moves(p, Ended(run[p]))
      BY <2>4 DEF AdvanceCursor, SaveCursor, Abort, Moves
    <3> QED
      BY <1>2, <1>4, <2>1, <3>1
  <2>5. CASE Finish(p) \/ Crash(p)
    <3>1. Moves(p, NoRun)
      BY <2>5 DEF Finish, Crash, Moves
    <3> QED
      BY <1>2, <1>3, <2>1, <3>1
  <2>6. CASE WriteBatch(p) \/ TearBatch(p)
    <3>1. \E b, ph : Moves(p, InBatch(run[p], b, ph))
      BY <2>6 DEF WriteBatch, TearBatch, Moves
    <3>2. \A b, ph : InBatch(run[p], b, ph).res = run[p].res
      BY <2>1 DEF Run, InBatch
    <3> QED
      BY <1>2, <2>1, <3>1, <3>2
  <2>8. CASE RecordBatch(p)
    <3>1. PICK wrote \in BOOLEAN :
            Moves(p, AfterBatch(run[p], run[p].batch, "written", run[p].left, wrote))
      BY <2>8 DEF RecordBatch, Moves
    <3>2. \A o \in run[p].batch : RowsOf(o)' # {}
      BY <2>8 DEF RecordBatch, RowsInv, RunsOK, RunOK, Writing, BatchArrived, Arrived, RowsOf
    <3> DEFINE r == AfterBatch(run[p], run[p].batch, "written", run[p].left, wrote)
    <3>3. \A o \in Orders : r.res[o] = IF o \in run[p].batch THEN "written" ELSE run[p].res[o]
      BY <2>1, AfterBatchFields
    <3> HIDE DEF r
    <3>4. \A o \in Orders : r.res[o] \in {"written", "skipped"} =>
            r.res[o] = run[p].res[o] \/ RowsOf(o)' # {}
      BY <3>2, <3>3
    <3>5. Moves(p, r)
      BY <3>1 DEF r
    <3> QED
      BY <1>2, <2>1, <3>4, <3>5
  <2>9. CASE BatchFails(p)
    <3>1. PICK b, left, wrote : Moves(p, AfterBatch(run[p], b, "failed", left, wrote))
      BY <2>9 DEF BatchFails, Moves
    <3> DEFINE r == AfterBatch(run[p], b, "failed", left, wrote)
    <3>2. \A o \in Orders : r.res[o] = IF o \in b THEN "failed" ELSE run[p].res[o]
      BY <2>1, AfterBatchFields
    <3> HIDE DEF r
    <3>3. \A o \in Orders : r.res[o] \in {"written", "skipped"} =>
            r.res[o] = run[p].res[o] \/ RowsOf(o)' # {}
      BY <3>2
    <3>4. Moves(p, r)
      BY <3>1 DEF r
    <3> QED
      BY <1>2, <2>1, <3>3, <3>4
  <2> QED
    BY <1>5, <2>2, <2>3, <2>4, <2>5, <2>6, <2>8, <2>9 DEF RunStep
<1>6. ASSUME NEW p \in Procs, StartSync(p) \/ StartRetry(p) PROVE GoodHasRow'
  <2>1. edits' = edits
    BY <1>6 DEF StartSync, StartRetry, outside
  <2>2. \E r : r.res = NoRun.res /\ Moves(p, r)
    BY <1>6, StartMoves
  <2> QED
    BY <1>2, <1>3, <2>1, <2>2
<1>7. CASE Edit
  <2>1. \A p \in Procs : run'[p] = NoRun
    BY <1>7 DEF Edit, Alone, Quiet, RowsInv, RunsOK, RunOK
  <2> QED
    BY <1>3, <2>1 DEF GoodHasRow
<1>8. CASE \/ \E o \in Orders : Sell(o) \/ Modify(o) \/ ClearPayload(o) \/ DropHistory(o)
           \/ Tick \/ UNCHANGED vars
  <2>1. UNCHANGED <<run, sheet>>
    BY <1>8 DEF Sell, Modify, ClearPayload, DropHistory, Tick, vars
  <2> QED
    BY <2>1 DEF GoodHasRow, RowsOf
<1>9. Syncs \subseteq Procs /\ Retries \subseteq Procs
  BY DEF Procs
<1> QED
  BY <1>5, <1>6, <1>7, <1>8, <1>9 DEF Next

-----------------------------------------------------------------------------
(* Values.                                                                 *)

\* The numbers that are compared.
NumbersOK ==
    /\ clock \in Nat /\ cursor \in Nat
    /\ \A o \in Orders : /\ link[o] \in Nat /\ store[o] \in Nat
                         /\ ebay[o].val \in Nat /\ ebay[o].created \in Nat
                         /\ ebay[o].modified \in Nat
    /\ \A i \in 1..MaxRows : sheet[i].val \in Nat
    /\ \A p \in Procs : /\ run[p].began \in Nat /\ run[p].end \in Nat
                        /\ \A o \in Orders : run[p].val[o] \in Nat

LEMMA Numbers == TypeOK => NumbersOK
<1> SUFFICES ASSUME TypeOK PROVE NumbersOK
  OBVIOUS
<1>1. \A p \in Procs : run[p] \in Run
  BY DEF TypeOK
<1>2. \A i \in 1..MaxRows : sheet[i] \in SheetRow
  BY DEF TypeOK
<1>3. \A o \in Orders : ebay[o] \in [created: 0..MaxTime, modified: 0..MaxTime, val: 0..MaxVal]
  BY DEF TypeOK
<1>4. 0..MaxTime \subseteq Nat /\ 0..MaxVal \subseteq Nat /\ 1..MaxTime \subseteq Nat
  BY Sizes
<1> QED
  BY <1>1, <1>2, <1>3, <1>4 DEF TypeOK, Run, SheetRow, NumbersOK

LEMMA NumbersNext == TypeOK' => NumbersOK'
  BY Numbers, PTL

\* What is planned after the step was planned before, with the same values.
PlansStay ==
    \A q \in Procs : \A o \in Writing(run'[q]) :
        /\ o \in Writing(run[q]) /\ run'[q].val[o] = run[q].val[o]
        /\ run'[q].act[o] = run[q].act[o]

\* A step that leaves links and rows alone and plans nothing.
LEMMA ValuesStay ==
    ASSUME NumbersOK, NumbersOK', ValueInv, PlansStay, link' = link, sheet' = sheet,
           \A o \in Orders : store[o] <= store'[o] /\ store'[o] <= ebay'[o].val,
           \A q \in Procs : Writing(run[q]) \subseteq Orders
    PROVE  ValueInv'
<1>1. \A o \in Orders : /\ link[o] \in Nat /\ store[o] \in Nat
                        /\ store'[o] \in Nat /\ ebay'[o].val \in Nat
  BY DEF NumbersOK
<1>2. LinksBehind'
  BY <1>1 DEF ValueInv, LinksBehind
<1>3. LinksHaveRows'
  BY DEF ValueInv, LinksHaveRows, RowsOf
<1>4. RowsBehind'
  <2>1. \A i \in 1..MaxRows : sheet[i].val \in Nat
    BY DEF NumbersOK
  <2> QED
    BY <1>1, <2>1 DEF ValueInv, RowsBehind
<1>5. \A q \in Procs : PlanBehind(run[q])'
  <2>1. \A q \in Procs, o \in Orders : run[q].val[o] \in Nat
    BY DEF NumbersOK
  <2> QED
    BY <1>1, <2>1 DEF ValueInv, PlanBehind, PlansStay
<1> QED
  BY <1>2, <1>3, <1>4, <1>5 DEF ValueInv

\* Steps after which process p has nothing planned that it had not before.
LEMMA PlansStayOf ==
    ASSUME RowsInv, NEW p \in Procs, NEW r, Moves(p, r),
           \A o \in Writing(r) : /\ o \in Writing(run[p]) /\ r.val[o] = run[p].val[o]
                                 /\ r.act[o] = run[p].act[o]
    PROVE  PlansStay
<1>1. \A q \in Procs : run'[q] = IF q = p THEN r ELSE run[q]
  BY DEF Moves, RowsInv, SheetInv, TypeOK
<1> QED
  BY <1>1 DEF PlansStay

\* Links that a batch saves are those of rows it has written.
LEMMA LinkSaved ==
    ASSUME RowsInv, NumbersOK, NumbersOK', ValueInv, PlansStay,
           NEW p \in Procs, NEW saved \in SUBSET run[p].batch,
           run[p].ph = "record" \/ saved = {},
           link' = LinkedTo(p, saved), UNCHANGED <<sheet, store, ebay>>,
           \A q \in Procs : Writing(run'[q]) \cap saved = {}
    PROVE  ValueInv'
<1>1. \A q \in Procs : Writing(run[q]) \subseteq Orders
  BY DEF RowsInv, SheetInv, TypeOK, Run, Writing
<1>2. /\ \A o \in Orders : /\ link[o] \in Nat /\ store[o] \in Nat /\ link'[o] \in Nat
                           /\ ebay[o].val \in Nat
      /\ \A q \in Procs, o \in Orders : run[q].val[o] \in Nat
      /\ \A i \in 1..MaxRows : sheet[i].val \in Nat
  BY DEF NumbersOK
<1>3. \A o \in Orders : IF o \in saved THEN link'[o] = run[p].val[o] ELSE link'[o] = link[o]
  BY DEF LinkedTo
<1>4. \A o \in saved : /\ o \in Orders /\ run[p].val[o] <= store[o]
                       /\ run[p].row[o] \in 1..MaxRows
                       /\ sheet[run[p].row[o]].key = o
                       /\ sheet[run[p].row[o]].val = run[p].val[o]
  <2>1. saved \subseteq Writing(run[p])
    BY DEF Writing
  <2> QED
    BY <1>1, <2>1 DEF ValueInv, PlanBehind, RowsInv, RunsOK, RunOK, BatchArrived, Arrived
<1>5. LinksBehind'
  BY <1>2, <1>3, <1>4 DEF ValueInv, LinksBehind
<1>6. LinksHaveRows'
  <2>1. \A o \in saved : RowsOf(o) # {}
    BY <1>4 DEF RowsOf
  <2> QED
    BY <1>3, <2>1 DEF ValueInv, LinksHaveRows, RowsOf
<1>7. RowsBehind'
  <2>1. ASSUME NEW i \in 1..MaxRows, NEW o \in Orders, sheet[i].key = o
        PROVE  sheet[i].val <= store[o] /\ (link'[o] <= sheet[i].val \/ link'[o] < store[o])
    <3>1. CASE o \in saved
      <4>1. i = run[p].row[o]
        BY <1>4, <2>1, <3>1, Sizes DEF RowsInv, Unique
      <4> QED
        BY <1>2, <1>3, <1>4, <3>1, <4>1
    <3>2. CASE o \notin saved
      BY <1>3, <2>1, <3>2 DEF ValueInv, RowsBehind
    <3> QED
      BY <3>1, <3>2
  <2> QED
    BY <2>1 DEF RowsBehind
<1>8. \A q \in Procs : PlanBehind(run[q])'
  <2>1. \A q \in Procs : \A o \in Writing(run'[q]) : o \in Orders /\ link'[o] = link[o]
    BY <1>1, <1>3 DEF PlansStay
  <2> QED
    BY <1>2, <2>1 DEF ValueInv, PlanBehind, PlansStay
<1> QED
  BY <1>5, <1>6, <1>7, <1>8 DEF ValueInv

LEMMA WriteValues ==
    ASSUME Rising, RowsInv, ValueInv, [Next]_vars, NumbersOK, NumbersOK',
           NEW p \in Procs, WriteBatch(p) \/ TearBatch(p)
    PROVE  ValueInv'
<1>1. PICK b \in SUBSET run[p].left, ph \in {"record", "torn"} :
        Arrives(p, b) /\ Moves(p, InBatch(run[p], b, ph))
  BY WriteArrives, TearArrives DEF Moves
<1>2. UNCHANGED <<link, store, ebay, edits>> /\ run[p].ph = "write"
  BY DEF WriteBatch, TearBatch, database, outside
<1>3. /\ run[p] \in Run /\ RowsFree(run[p]) /\ run[p].left \subseteq Orders
      /\ run[p].left \subseteq Writing(run[p]) /\ RunOK(run[p])
  BY DEF RowsInv, SheetInv, TypeOK, PlannedRowsFree, Run, Writing, RunsOK
<1>4. PlansStay
  <2> DEFINE r == InBatch(run[p], b, ph)
  <2>1. Writing(r) \subseteq Writing(run[p]) /\ r.val = run[p].val /\ r.act = run[p].act
    BY <1>3 DEF InBatch, Run, Writing
  <2> HIDE DEF r
  <2>2. \A o \in Writing(r) : /\ o \in Writing(run[p]) /\ r.val[o] = run[p].val[o]
                              /\ r.act[o] = run[p].act[o]
    BY <2>1
  <2>3. Moves(p, r)
    BY <1>1 DEF r
  <2> QED
    BY <2>2, <2>3, PlansStayOf
<1>5. /\ \A o \in Orders : link[o] \in Nat /\ store[o] \in Nat
      /\ \A q \in Procs, o \in Orders : run[q].val[o] \in Nat
      /\ \A q \in Procs : Writing(run[q]) \subseteq Orders
  BY DEF NumbersOK, RowsInv, SheetInv, TypeOK, Run, Writing
<1>6. LinksBehind'
  BY <1>2 DEF ValueInv, LinksBehind
<1>7. LinksHaveRows'
  <2>1. ASSUME MaxEdits = 0, NEW o \in Orders, RowsOf(o)' = {} PROVE link'[o] = 0
    <3>1. RowsOf(o) = {}
      BY <1>2, <2>1, RowsStay
    <3> QED
      BY <1>2, <2>1, <3>1 DEF ValueInv, LinksHaveRows
  <2> QED
    BY <2>1 DEF LinksHaveRows
<1>8. RowsBehind'
  <2>1. ASSUME NEW i \in 1..MaxRows, NEW x \in Orders, sheet'[i].key = x, sheet'[i] # sheet[i]
        PROVE  sheet'[i].val <= store[x] /\ (link[x] <= sheet'[i].val \/ link[x] < store[x])
    <3>1. PICK o \in b : /\ run[p].row[o] = i /\ sheet'[i].key \in {o, sheet[i].key}
                         /\ \/ sheet'[i].val = run[p].val[o]
                            \/ sheet'[i].val = 0 /\ "torn" \in Faults
      BY <1>1, <2>1 DEF Arrives
    <3>2. /\ o \in Orders /\ o \in run[p].left /\ o \in Writing(run[p])
          /\ run[p].act[o] \in {"insert", "update"}
      BY <1>3 DEF RunOK
    <3>3. x = o
      <4>1. CASE run[p].act[o] = "insert"
        <5>1. sheet[i] = Blank
          BY <1>3, <3>1, <3>2, <4>1 DEF RowsFree
        <5>2. Blank.key = NoOrder /\ x # NoOrder
          BY Sizes DEF Blank
        <5> QED
          BY <2>1, <3>1, <5>1, <5>2
      <4>2. CASE run[p].act[o] # "insert"
        <5>1. sheet[i].key = o
          BY <1>3, <3>1, <3>2, <4>2 DEF RowsFree
        <5> QED
          BY <2>1, <3>1, <5>1
      <4> QED
        BY <4>1, <4>2
    <3>4. /\ link[o] <= run[p].val[o] /\ run[p].val[o] <= store[o]
          /\ run[p].act[o] = "update" => link[o] < run[p].val[o]
      BY <3>2 DEF ValueInv, PlanBehind
    <3>5. CASE sheet'[i].val = run[p].val[o]
      BY <1>5, <3>2, <3>3, <3>4, <3>5
    <3>6. CASE sheet'[i].val = 0 /\ "torn" \in Faults
      <4>1. run[p].act[o] = "insert" => link[o] = 0
        BY <1>3, <3>2, <3>6 DEF RowsFree, Rising, ValueInv, LinksHaveRows
      <4> QED
        BY <1>5, <3>2, <3>3, <3>4, <3>6, <4>1
    <3> QED
      BY <3>1, <3>5, <3>6
  <2> QED
    BY <1>2, <2>1 DEF ValueInv, RowsBehind
<1>9. \A q \in Procs : PlanBehind(run[q])'
  BY <1>2, <1>4 DEF ValueInv, PlanBehind, PlansStay
<1> QED
  BY <1>6, <1>7, <1>8, <1>9 DEF ValueInv

\* The plan takes its values from the store, and updates only what changed.
LEMMA PlanValues ==
    ASSUME RowsInv, ValueInv, NumbersOK, NEW p \in Procs, Plan(p)
    PROVE  ValueInv'
<1>1. /\ TypeOK /\ UNCHANGED <<link, store, ebay, sheet>>
      /\ \A q \in Procs \ {p} : run[q] = NoRun
  BY OthersIdle DEF Plan, database, outside, RowsInv, SheetInv
<1>2. PICK plan : PlanOf(p, plan) /\ PlanGoesOn(p, plan)
  BY <1>1, PlanStep
<1>3. plan \in Run /\ plan.batch = {} /\ plan.left \subseteq Buildable(p) /\ plan.left \subseteq Orders
  BY <1>2 DEF PlanOf, Run
<1>4. \A o \in plan.left : /\ link[o] <= plan.val[o] /\ plan.val[o] <= store[o]
                           /\ plan.act[o] = "update" => link[o] < plan.val[o]
  <2> TAKE o \in plan.left
  <2>1. plan.val[o] = store[o] /\ plan.act[o] = Classify(o, run[p].mode)
    BY <1>2, <1>3 DEF PlanOf
  <2>2. plan.act[o] = "update" => link[o] # store[o]
    BY <2>1 DEF Classify
  <2>3. o \in Orders /\ link[o] \in Nat /\ store[o] \in Nat /\ link[o] <= store[o]
    BY <1>3 DEF NumbersOK, ValueInv, LinksBehind
  <2> QED
    BY <2>1, <2>2, <2>3
<1>5. PICK r :
        /\ Moves(p, r)
        /\ \/ Writing(r) = {}
           \/ r.val = plan.val /\ r.act = plan.act /\ Writing(r) \subseteq plan.left
  <2>1. Writing(Ended(plan)) = {}
    BY DEF Writing, Ended, NoRun
  <2>2. \A ph : LET r == [plan EXCEPT !.ph = ph]
                IN  r.val = plan.val /\ r.act = plan.act /\ Writing(r) \subseteq plan.left
    BY <1>3 DEF Run, Writing
  <2> QED
    BY <1>2, <2>1, <2>2 DEF PlanGoesOn
<1>6. \A q \in Procs : /\ q = p => run'[q] = r
                       /\ q # p => run'[q] = NoRun
  BY <1>1, <1>5 DEF Moves, TypeOK
<1>7. \A q \in Procs : PlanBehind(run[q])'
  <2>1. Writing(NoRun) = {}
    BY DEF Writing, NoRun
  <2>2. \A o \in Writing(r) : /\ link[o] <= r.val[o] /\ r.val[o] <= store[o]
                              /\ r.act[o] = "update" => link[o] < r.val[o]
    BY <1>4, <1>5
  <2> QED
    BY <1>1, <1>6, <2>1, <2>2 DEF PlanBehind
<1> QED
  BY <1>1, <1>7 DEF ValueInv, LinksBehind, LinksHaveRows, RowsBehind, RowsOf

\* The user may edit the sheet only where a link need not have its row.
LEMMA EditValues ==
    ASSUME Alone, Rising, RowsInv, ValueInv, NumbersOK, Edit
    PROVE  ValueInv'
<1>1. UNCHANGED <<link, store, ebay, run>> /\ MaxEdits # 0
  <2>1. edits \in Nat /\ edits < MaxEdits /\ MaxEdits \in Nat
    BY Sizes DEF Edit, RowsInv, SheetInv, TypeOK
  <2> QED
    BY <2>1 DEF Edit, database
<1>2. sheet \in [1..MaxRows -> SheetRow] /\ MaxRows \in Nat
  BY Sizes DEF RowsInv, SheetInv, TypeOK
<1>3. \A i \in 1..MaxRows : sheet'[i].key # NoOrder =>
        \E j \in 1..MaxRows : sheet'[i].key = sheet[j].key /\ sheet'[i].val = sheet[j].val
  <2>1. ASSUME NEW d \in 1..MaxRows,
               sheet' = [i \in 1..MaxRows |-> IF i < d THEN sheet[i]
                                           ELSE IF i < MaxRows THEN sheet[i + 1] ELSE Blank],
               NEW i \in 1..MaxRows, sheet'[i].key # NoOrder
        PROVE  \E j \in 1..MaxRows : sheet'[i] = sheet[j]
    <3>1. Blank.key = NoOrder
      BY DEF Blank
    <3>2. CASE i < d
      BY <1>2, <2>1, <3>2
    <3>3. CASE ~(i < d)
      <4>1. i + 1 \in 1..MaxRows /\ sheet'[i] = sheet[i + 1]
        BY <1>2, <2>1, <3>1, <3>3
      <4> QED
        BY <4>1
    <3> QED
      BY <3>2, <3>3
  <2>2. ASSUME NEW i \in 1..MaxRows, NEW j \in 1..MaxRows,
               sheet' = [sheet EXCEPT ![i] = sheet[j], ![j] = sheet[i]]
        PROVE  \A k \in 1..MaxRows : \E l \in 1..MaxRows : sheet'[k] = sheet[l]
    BY <1>2, <2>2
  <2>3. ASSUME NEW i \in 1..MaxRows, sheet' = [sheet EXCEPT ![i].note = TRUE]
        PROVE  \A k \in 1..MaxRows : sheet'[k].key = sheet[k].key /\ sheet'[k].val = sheet[k].val
    BY <1>2, <2>3 DEF SheetRow
  <2>4. ASSUME NEW i \in 1..MaxRows, sheet' = [sheet EXCEPT ![i].key = NoOrder]
        PROVE  \A k \in 1..MaxRows : sheet'[k].key # NoOrder =>
                 sheet'[k].key = sheet[k].key /\ sheet'[k].val = sheet[k].val
    BY <1>2, <2>4 DEF SheetRow
  <2> QED
    BY <2>1, <2>2, <2>3, <2>4 DEF Edit
<1>4. RowsBehind'
  BY <1>1, <1>3, Sizes DEF ValueInv, RowsBehind
<1>5. \A q \in Procs : PlanBehind(run[q])'
  BY <1>1 DEF ValueInv, PlanBehind
<1> QED
  BY <1>1, <1>4, <1>5 DEF ValueInv, LinksBehind, LinksHaveRows

LEMMA ValueStep ==
    ASSUME Alone, Rising, RowsInv, ValueInv, [Next]_vars, TypeOK'
    PROVE  ValueInv'
<1>1. NumbersOK /\ NumbersOK' /\ TypeOK
  BY Numbers, NumbersNext DEF RowsInv, SheetInv
<1>2. \A q \in Procs : Writing(run[q]) \subseteq Orders
  BY <1>1 DEF TypeOK, Run, Writing
<1>3. Writing(NoRun) = {} /\ \A r : Writing(Ended(r)) = {}
  BY DEF Writing, Ended, NoRun
<1>4. \A o \in Orders : store[o] <= store[o] /\ store[o] <= ebay[o].val
  BY <1>1 DEF NumbersOK, ValueInv, LinksBehind
<1>5. ASSUME NEW p \in Procs, NEW r, Moves(p, r), Writing(r) = {} PROVE PlansStay
  BY <1>5, PlansStayOf
<1>6. ASSUME NEW p \in Procs, RunStep(p) PROVE ValueInv'
  <2>1. CASE Plan(p)
    BY <1>1, <2>1, PlanValues
  <2>2. CASE WriteBatch(p) \/ TearBatch(p)
    BY <1>1, <2>2, WriteValues
  <2>3. CASE AdvanceCursor(p) \/ SaveCursor(p) \/ Abort(p) \/ Finish(p)
    <3>1. UNCHANGED <<link, sheet, store, ebay>>
      BY <2>3 DEF AdvanceCursor, SaveCursor, Abort, Finish, outside, database
    <3>2. PICK r : Moves(p, r) /\ Writing(r) = {}
      BY <1>3, <2>3 DEF AdvanceCursor, SaveCursor, Abort, Finish, Moves
    <3> QED
      BY <1>1, <1>2, <1>4, <1>5, <3>1, <3>2, ValuesStay
  <2>4. CASE Import(p)
    <3>1. PICK S \in SUBSET Orders :
            store' = [o \in Orders |-> IF o \in S THEN ebay[o].val ELSE store[o]]
      BY <2>4 DEF Import, StoredAfter
    <3>2. \A o \in Orders : store[o] <= store'[o] /\ store'[o] <= ebay[o].val
      BY <1>1, <1>4, <3>1 DEF NumbersOK
    <3>3. UNCHANGED <<link, sheet, ebay>> /\ run[p].ph = "import"
      BY <2>4 DEF Import, outside
    <3>4. Moves(p, [run[p] EXCEPT !.ph = "plan"])
      BY <2>4 DEF Import, Moves
    <3>5. run[p] \in Run /\ run[p].left = {} /\ run[p].batch = {}
      BY <1>1, <3>3 DEF RowsInv, RunsOK, RunOK, TypeOK
    <3>6. Writing([run[p] EXCEPT !.ph = "plan"]) = {}
      BY <3>5 DEF Writing, Run
    <3> QED
      BY <1>1, <1>2, <1>5, <3>2, <3>3, <3>4, <3>6, ValuesStay
  <2>5. CASE RecordBatch(p) \/ BatchFails(p) \/ Crash(p)
    <3>1. UNCHANGED <<sheet, store, ebay>> /\ run[p] \in Run /\ RunOK(run[p])
      BY <1>1, <2>5 DEF RecordBatch, BatchFails, Crash, outside, RowsInv, RunsOK, TypeOK
    <3>2. ASSUME NEW r, NEW saved \in SUBSET run[p].batch, Moves(p, r),
                 link' = LinkedTo(p, saved), run[p].ph = "record" \/ saved = {},
                 \A o \in Writing(r) : /\ o \in Writing(run[p]) /\ r.val[o] = run[p].val[o]
                                       /\ r.act[o] = run[p].act[o],
                 Writing(r) \cap saved = {}
          PROVE  ValueInv'
      <4>1. PlansStay
        BY <3>2, PlansStayOf
      <4>2. \A q \in Procs : Writing(run'[q]) \cap saved = {}
        <5>1. saved # {} => \A q \in Procs \ {p} : run[q] = NoRun
          BY <3>2, OthersIdle
        <5>2. \A q \in Procs : run'[q] = IF q = p THEN r ELSE run[q]
          BY <1>1, <3>2 DEF Moves, TypeOK
        <5> QED
          BY <1>3, <3>2, <5>1, <5>2
      <4> QED
        BY <1>1, <3>1, <3>2, <4>1, <4>2, LinkSaved
    <3>3. ASSUME NEW b, NEW left \in SUBSET run[p].left, NEW outcome, NEW wrote,
                 NEW saved \in SUBSET run[p].batch,
                 Moves(p, AfterBatch(run[p], b, outcome, left, wrote)),
                 link' = LinkedTo(p, saved), run[p].ph = "record" \/ saved = {}
          PROVE  ValueInv'
      <4> DEFINE r == AfterBatch(run[p], b, outcome, left, wrote)
      <4>1. /\ r.left = left /\ r.batch = {}
            /\ left # {} => r.val = run[p].val /\ r.act = run[p].act
        BY <3>1, AfterBatchFields
      <4>2. left \cap saved = {}
        BY <3>1 DEF RunOK
      <4>3. Moves(p, r)
        BY <3>3
      <4> HIDE DEF r
      <4>4. /\ \A o \in Writing(r) : /\ o \in Writing(run[p]) /\ r.val[o] = run[p].val[o]
                                     /\ r.act[o] = run[p].act[o]
            /\ Writing(r) \cap saved = {}
        BY <4>1, <4>2 DEF Writing
      <4> QED
        BY <3>2, <3>3, <4>3, <4>4
    <3>4. CASE RecordBatch(p)
      <4>1. PICK wrote \in BOOLEAN :
              Moves(p, AfterBatch(run[p], run[p].batch, "written", run[p].left, wrote))
        BY <3>4 DEF RecordBatch, Moves
      <4>2. link' = LinkedTo(p, run[p].batch) /\ run[p].ph = "record"
        BY <3>4 DEF RecordBatch
      <4> QED
        BY <3>3, <4>1, <4>2
    <3>5. CASE BatchFails(p)
      <4>1. PICK b \in SUBSET Orders, stop \in BOOLEAN, wrote \in BOOLEAN :
              /\ wrote => run[p].ph = "record"
              /\ FailedBatch(p, b)
              /\ \E saved \in SUBSET b : (saved # {} => wrote) /\ link' = LinkedTo(p, saved)
              /\ run' = [run EXCEPT ![p] = AfterBatch(run[p], b, "failed",
                            IF stop THEN {} ELSE run[p].left \ b, wrote)]
        BY <3>5 DEF BatchFails
      <4>2. PICK saved \in SUBSET b : (saved # {} => wrote) /\ link' = LinkedTo(p, saved)
        BY <4>1
      <4>3. saved \in SUBSET run[p].batch /\ (run[p].ph = "record" \/ saved = {})
        BY <4>1, <4>2 DEF FailedBatch
      <4>4. PICK left \in SUBSET run[p].left :
              Moves(p, AfterBatch(run[p], b, "failed", left, wrote))
        BY <4>1 DEF Moves
      <4> QED
        BY <3>3, <4>2, <4>3, <4>4
    <3>6. CASE Crash(p)
      <4>1. PICK saved \in SUBSET (IF run[p].ph = "record" THEN run[p].batch ELSE {}) :
              link' = LinkedTo(p, saved)
        BY <3>6 DEF Crash
      <4>2. Moves(p, NoRun)
        BY <3>6 DEF Crash, Moves
      <4>3. saved \in SUBSET run[p].batch /\ (run[p].ph = "record" \/ saved = {})
        OBVIOUS
      <4> QED
        BY <1>3, <3>2, <4>1, <4>2, <4>3
    <3> QED
      BY <2>5, <3>4, <3>5, <3>6
  <2> QED
    BY <1>6, <2>1, <2>2, <2>3, <2>4, <2>5 DEF RunStep
<1>7. ASSUME NEW p \in Procs, StartSync(p) \/ StartRetry(p) PROVE ValueInv'
  <2>1. PICK r : Moves(p, r) /\ Writing(r) = {}
    BY <1>7, StartMoves
  <2>2. UNCHANGED <<link, sheet, store, ebay>>
    BY <1>7 DEF StartSync, StartRetry, outside, database
  <2> QED
    BY <1>1, <1>2, <1>4, <1>5, <2>1, <2>2, ValuesStay
<1>8. CASE Edit
  BY <1>1, <1>8, EditValues
<1>9. ASSUME NEW o \in Orders, Modify(o) PROVE ValueInv'
  <2>1. PICK v \in Values : v > ebay[o].val /\ ebay' = [ebay EXCEPT ![o].modified = clock, ![o].val = v]
    BY <1>9 DEF Modify, Rising
  <2>2. UNCHANGED <<link, sheet, store, run>>
    BY <1>9 DEF Modify, database
  <2>3. v \in Nat /\ ebay'[o].val = v /\ \A x \in Orders : x # o => ebay'[x] = ebay[x]
    <3>1. v \in Nat
      BY Sizes DEF Values
    <3>2. ebay' = [ebay EXCEPT ![o] = [ebay[o] EXCEPT !.modified = clock, !.val = v]]
      BY <1>1, <2>1 DEF TypeOK
    <3>3. [ebay[o] EXCEPT !.modified = clock, !.val = v].val = v
      BY <1>1 DEF TypeOK
    <3> QED
      BY <1>1, <3>1, <3>2, <3>3 DEF TypeOK
  <2>4. \A x \in Orders : store[x] <= store'[x] /\ store'[x] <= ebay'[x].val
    <3> TAKE x \in Orders
    <3>1. store[x] \in Nat /\ ebay[x].val \in Nat /\ store[x] <= ebay[x].val /\ store'[x] = store[x]
      BY <1>1, <1>4, <2>2 DEF NumbersOK
    <3>2. CASE x = o
      BY <2>1, <2>3, <3>1, <3>2
    <3>3. CASE x # o
      BY <2>3, <3>1, <3>3
    <3> QED
      BY <3>2, <3>3
  <2>5. PlansStay
    BY <2>2 DEF PlansStay
  <2> QED
    BY <1>1, <1>2, <2>2, <2>4, <2>5, ValuesStay
<1>10. ASSUME NEW o \in Orders, Sell(o) PROVE ValueInv'
  <2>1. UNCHANGED <<link, sheet, store, run>>
    BY <1>10 DEF Sell, database
  <2>2. \A x \in Orders : store[x] <= store'[x] /\ store'[x] <= ebay'[x].val
    <3>1. \A x \in Orders : x # o => ebay'[x] = ebay[x]
      BY <1>1, <1>10 DEF Sell, TypeOK
    <3>2. ebay'[o].val = 1 /\ ebay[o].val = 0
      BY <1>1, <1>10 DEF Sell, TypeOK
    <3> QED
      BY <1>1, <1>4, <2>1, <3>1, <3>2 DEF NumbersOK
  <2>3. PlansStay
    BY <2>1 DEF PlansStay
  <2> QED
    BY <1>1, <1>2, <2>1, <2>2, <2>3, ValuesStay
<1>11. CASE \/ \E o \in Orders : ClearPayload(o) \/ DropHistory(o)
            \/ Tick \/ UNCHANGED vars
  <2>1. UNCHANGED <<link, sheet, store, run, ebay>>
    BY <1>11 DEF ClearPayload, DropHistory, Tick, vars, outside, database
  <2>2. PlansStay
    BY <2>1 DEF PlansStay
  <2> QED
    BY <1>1, <1>2, <1>4, <2>1, <2>2, ValuesStay
<1>12. Syncs \subseteq Procs /\ Retries \subseteq Procs
  BY DEF Procs
<1> QED
  BY <1>6, <1>7, <1>8, <1>9, <1>10, <1>11, <1>12 DEF Next

-----------------------------------------------------------------------------
(* The window.                                                             *)

\* A step of a run neither takes time nor changes what is at eBay, and
\* leaves the process in one of these.
LEMMA RunStepMoves ==
    ASSUME TypeOK, NEW p \in Procs, RunStep(p)
    PROVE  /\ UNCHANGED <<clock, ebay, edits>> /\ run[p].ph # "idle"
           /\ \E r : /\ Moves(p, r)
                     /\ r = NoRun \/ (r.began = run[p].began /\ r.ph # "idle")
                     /\ run[p].since => r.since
                     /\ r.end \in {0, run[p].end, clock}
<1>1. run[p] \in Run
  BY DEF TypeOK
<1>2. /\ NoRun.since /\ NoRun.end = 0
      /\ \A r : Ended(r).began = r.began /\ Ended(r).since /\ Ended(r).end = 0 /\ Ended(r).ph = "finish"
  BY DEF Ended, NoRun
<1>3. UNCHANGED <<clock, ebay, edits>> /\ run[p].ph # "idle"
  BY DEF RunStep, Import, Plan, AdvanceCursor, WriteBatch, TearBatch, RecordBatch, BatchFails,
         SaveCursor, Abort, Finish, Crash, outside
<1>4. CASE AdvanceCursor(p) \/ SaveCursor(p) \/ Abort(p)
  <2>1. Moves(p, Ended(run[p]))
    BY <1>4 DEF AdvanceCursor, SaveCursor, Abort, Moves
  <2> QED
    BY <1>2, <1>3, <2>1
<1>5. CASE Finish(p) \/ Crash(p)
  <2>1. Moves(p, NoRun)
    BY <1>5 DEF Finish, Crash, Moves
  <2> QED
    BY <1>2, <1>3, <2>1
<1>6. CASE Import(p)
  <2> DEFINE r == [run[p] EXCEPT !.ph = "plan"]
  <2>1. r.began = run[p].began /\ r.since = run[p].since /\ r.end = run[p].end /\ r.ph = "plan"
    BY <1>1 DEF Run
  <2>2. Moves(p, r)
    BY <1>6 DEF Import, Moves
  <2> HIDE DEF r
  <2> QED
    BY <1>3, <2>1, <2>2
<1>7. CASE Plan(p)
  <2>1. PICK plan : PlanOf(p, plan) /\ PlanGoesOn(p, plan)
    BY <1>7, PlanStep
  <2>2. \A ph : LET r == [plan EXCEPT !.ph = ph]
                IN  r.began = plan.began /\ r.since = plan.since /\ r.end = plan.end /\ r.ph = ph
    BY <2>1 DEF PlanOf, Run
  <2>3. plan.began = run[p].began /\ plan.since /\ plan.end = clock
    BY <2>1 DEF PlanOf
  <2>4. CASE Moves(p, Ended(plan))
    BY <1>2, <1>3, <2>3, <2>4
  <2>5. ASSUME NEW ph \in {"write", "advance"}, Moves(p, [plan EXCEPT !.ph = ph])
        PROVE  \E r : /\ Moves(p, r) /\ r.began = run[p].began /\ r.ph # "idle"
                      /\ r.since /\ r.end = clock
    <3> DEFINE r == [plan EXCEPT !.ph = ph]
    <3>1. r.began = run[p].began /\ r.ph # "idle" /\ r.since /\ r.end = clock
      BY <2>2, <2>3
    <3> HIDE DEF r
    <3> QED
      BY <2>5, <3>1 DEF r
  <2> QED
    BY <1>3, <2>1, <2>4, <2>5 DEF PlanGoesOn
<1>8. CASE WriteBatch(p) \/ TearBatch(p)
  <2>1. PICK b, ph : Moves(p, InBatch(run[p], b, ph)) /\ (ph = "record" \/ ph = "torn")
    <3>1. CASE WriteBatch(p)
      BY <3>1 DEF WriteBatch, Moves
    <3>2. CASE TearBatch(p)
      BY <3>2 DEF TearBatch, Moves
    <3> QED
      BY <1>8, <3>1, <3>2
  <2> DEFINE r == InBatch(run[p], b, ph)
  <2>2. r.began = run[p].began /\ r.since = run[p].since /\ r.end = run[p].end /\ r.ph = ph
    BY <1>1 DEF Run, InBatch
  <2>3. Moves(p, r)
    BY <2>1
  <2> HIDE DEF r
  <2> QED
    BY <1>3, <2>1, <2>2, <2>3
<1>9. CASE RecordBatch(p) \/ BatchFails(p)
  <2>1. PICK b, outcome, left, wrote : Moves(p, AfterBatch(run[p], b, outcome, left, wrote))
    BY <1>9 DEF RecordBatch, BatchFails, Moves
  <2> DEFINE r == AfterBatch(run[p], b, outcome, left, wrote)
  <2>2. /\ r.began = run[p].began /\ r.end = run[p].end /\ (run[p].since => r.since)
        /\ left # {} => r.ph = "write"
        /\ left = {} => r.ph = "save"
    BY <1>1, AfterBatchFields
  <2>3. Moves(p, r)
    BY <2>1
  <2> HIDE DEF r
  <2> QED
    BY <1>3, <2>2, <2>3
<1> QED
  BY <1>4, <1>5, <1>6, <1>7, <1>8, <1>9 DEF RunStep

LEMMA TimeStep ==
    ASSUME Complete, RowsInv, TimeInv, [Next]_vars, TypeOK'
    PROVE  TimeInv'
<1>1. TypeOK /\ NumbersOK /\ NumbersOK' /\ Overlap \in Nat
  BY Numbers, NumbersNext, Sizes DEF RowsInv, SheetInv
<1>2. ASSUME UNCHANGED <<clock, ebay>>, NEW p \in Procs, NEW r, Moves(p, r), OnTime(r),
             cursor' \in {cursor, run[p].end}
      PROVE  TimeInv'
  <2>1. \A q \in Procs : run'[q] = IF q = p THEN r ELSE run[q]
    BY <1>1, <1>2 DEF Moves, TypeOK
  <2>2. cursor' <= clock
    BY <1>2 DEF TimeInv, OnTime
  <2> QED
    BY <1>2, <2>1, <2>2 DEF TimeInv, OnTime
<1>3. NoRun.since /\ NoRun.end = 0 /\ NoRun.ph = "idle" /\ 0 <= clock
  BY <1>1 DEF NoRun, NumbersOK
<1>4. ASSUME NEW p \in Procs, RunStep(p) PROVE TimeInv'
  <2>1. UNCHANGED <<clock, ebay, edits>> /\ run[p].ph # "idle"
    BY <1>1, <1>4, RunStepMoves
  <2>2. PICK r : /\ Moves(p, r)
                 /\ r = NoRun \/ (r.began = run[p].began /\ r.ph # "idle")
                 /\ run[p].since => r.since
                 /\ r.end \in {0, run[p].end, clock}
    BY <1>1, <1>4, RunStepMoves
  <2>3. OnTime(r)
    BY <1>1, <1>3, <2>1, <2>2 DEF TimeInv, OnTime, NumbersOK
  <2>4. cursor' \in {cursor, run[p].end}
    BY <1>4 DEF RunStep, Import, Plan, AdvanceCursor, WriteBatch, TearBatch, RecordBatch,
                BatchFails, SaveCursor, Abort, Finish, Crash, database
  <2> QED
    BY <1>2, <2>1, <2>2, <2>3, <2>4
<1>5. ASSUME NEW p \in Procs, StartSync(p) \/ StartRetry(p) PROVE TimeInv'
  <2>1. PICK r : Moves(p, r) /\ (r.since \/ "range" \in Faults) /\ r.began = clock /\ r.end = 0
    BY <1>5, StartMoves
  <2>2. OnTime(r)
    BY <1>1, <2>1 DEF OnTime, NumbersOK, Complete
  <2>3. UNCHANGED <<clock, ebay, cursor>>
    BY <1>5 DEF StartSync, StartRetry, outside, database
  <2> QED
    BY <1>2, <2>1, <2>2, <2>3
<1>6. CASE Tick
  <2>1. clock' = clock + 1 /\ UNCHANGED <<cursor, ebay, run>>
    BY <1>6 DEF Tick, database
  <2>2. ASSUME NEW q \in Procs PROVE OnTime(run[q])'
    <3>1. run[q].ph # "idle" => clock < run[q].began + Overlap
      BY <1>6 DEF Tick
    <3> QED
      BY <1>1, <2>1, <3>1 DEF TimeInv, OnTime, NumbersOK
  <2>3. cursor <= clock' /\ \A o \in Orders : ebay[o].modified <= clock'
    BY <1>1, <2>1 DEF TimeInv, NumbersOK
  <2> QED
    BY <2>1, <2>2, <2>3 DEF TimeInv
<1>7. ASSUME NEW o \in Orders, Sell(o) \/ Modify(o) PROVE TimeInv'
  <2>1. UNCHANGED <<clock, cursor, run>>
    BY <1>7 DEF Sell, Modify, database
  <2>2. /\ \A x \in Orders : x # o => ebay'[x] = ebay[x]
        /\ ebay'[o].modified = clock
        /\ ebay'[o].created \in {clock, ebay[o].created}
    <3>1. CASE Sell(o)
      BY <1>1, <3>1 DEF Sell, TypeOK
    <3>2. CASE Modify(o)
      <4>1. PICK v : ebay' = [ebay EXCEPT ![o] = [ebay[o] EXCEPT !.modified = clock, !.val = v]]
        BY <1>1, <3>2 DEF Modify, TypeOK
      <4>2. ebay[o] \in [created: 0..MaxTime, modified: 0..MaxTime, val: 0..MaxVal]
        BY <1>1 DEF TypeOK
      <4> QED
        BY <1>1, <4>1, <4>2 DEF TypeOK
    <3> QED
      BY <1>7, <3>1, <3>2
  <2>3. \A x \in Orders : ebay'[x].created <= ebay'[x].modified /\ ebay'[x].modified <= clock
    <3> TAKE x \in Orders
    <3>1. /\ ebay[x].created \in Nat /\ ebay[x].modified \in Nat /\ clock \in Nat
          /\ ebay[x].created <= ebay[x].modified /\ ebay[x].modified <= clock
      BY <1>1 DEF NumbersOK, TimeInv
    <3> QED
      BY <2>2, <3>1
  <2> QED
    BY <2>1, <2>3 DEF TimeInv, OnTime
<1>8. ASSUME UNCHANGED <<clock, cursor, ebay, run>> PROVE TimeInv'
  BY <1>8 DEF TimeInv, OnTime
<1>9. CASE \/ \E o \in Orders : ClearPayload(o) \/ DropHistory(o)
           \/ Edit \/ UNCHANGED vars
  BY <1>8, <1>9 DEF ClearPayload, DropHistory, Edit, vars, outside, database
<1>10. Syncs \subseteq Procs /\ Retries \subseteq Procs
  BY DEF Procs
<1> QED
  BY <1>4, <1>5, <1>6, <1>7, <1>9, <1>10 DEF Next

\* What keeps an order stays, or its row comes in its place.
LEMMA KeptStays ==
    ASSUME RowsInv, [Next]_vars, edits' = edits, NEW p \in Procs, NEW r, Moves(p, r),
           \A o \in Orders :
             /\ o \in failed => o \in failed' \/ RowsOf(o) # {}
             /\ <<o, "row">> \in open => <<o, "row">> \in open' \/ RowsOf(o) # {}
             /\ <<o, "build">> \in open => <<o, "build">> \in open'
             /\ run[p].res[o] = "failed" =>
                   r.res[o] = "failed" \/ RowsOf(o) # {} \/ <<o, "row">> \in open'
             /\ o \in run[p].build => o \in r.build \/ <<o, "build">> \in open'
    PROVE  \A o \in Orders : Kept(o) => Kept(o)'
<1>1. \A q \in Procs : run'[q] = IF q = p THEN r ELSE run[q]
  BY DEF Moves, RowsInv, SheetInv, TypeOK
<1> TAKE o \in Orders
<1>2. RowsOf(o) # {} => RowsOf(o)' # {}
  BY RowsStay
<1>3. CASE RowsOf(o) # {}
  BY <1>2, <1>3 DEF Kept
<1>4. CASE RowsOf(o) = {} /\ OnRecord(o)
  <2>1. o \in failed' \/ <<o, "row">> \in open' \/ <<o, "build">> \in open'
    BY <1>4 DEF OnRecord
  <2> QED
    BY <2>1 DEF Kept, OnRecord
<1>5. ASSUME RowsOf(o) = {}, NEW q \in Procs, run[q].res[o] = "failed" \/ o \in run[q].build
      PROVE  Kept(o)'
  <2>1. \/ run'[q].res[o] = "failed" \/ o \in run'[q].build
        \/ <<o, "row">> \in open' \/ <<o, "build">> \in open'
    BY <1>1, <1>5
  <2> QED
    BY <2>1 DEF Kept, OnRecord
<1> QED
  BY <1>3, <1>4, <1>5 DEF Kept

\* Beside a run the other processes owe nothing to the window.
LEMMA WindowMoves ==
    ASSUME RowsInv, NEW p \in Procs, run[p].ph # "idle", NEW r, Moves(p, r),
           NothingLost', r.target = {} => Imported(r)' /\ Covered(r)'
    PROVE  WindowInv'
<1>1. \A q \in Procs : /\ q = p => run'[q] = r
                       /\ q # p => run'[q] = NoRun
  <2>1. \A q \in Procs \ {p} : run[q] = NoRun
    BY OthersIdle
  <2> QED
    BY <2>1 DEF Moves, RowsInv, SheetInv, TypeOK
<1>2. NoRun.ph = "idle"
  BY DEF NoRun
<1>3. \A q \in Procs : run'[q].target = {} => Imported(run[q])' /\ Covered(run[q])'
  BY <1>1, <1>2 DEF Imported, Covered
<1> QED
  BY <1>3 DEF WindowInv

\* Steps that keep the window of the run and everything on record.
LEMMA WindowStays ==
    ASSUME RowsInv, TimeInv, WindowInv, [Next]_vars, NEW p \in Procs, run[p].ph # "idle",
           UNCHANGED <<clock, ebay, edits>>, NEW r, Moves(p, r),
           \A o \in Orders : Kept(o) => Kept(o)',
           cursor' = cursor \/ (run[p].target = {} /\ cursor' = run[p].end
                                /\ run[p].ph \in {"advance", "save"}),
           \/ r.ph \in {"idle", "finish"}
           \/ /\ r.ph \in {"write", "record", "torn", "save"} /\ r.target = run[p].target
              /\ run[p].ph \in {"write", "record", "torn"} /\ r.end = run[p].end
    PROVE  WindowInv'
<1>1. NothingLost'
  <2>1. ASSUME NEW o \in Orders, ebay'[o].val # 0, ~Kept(o)' PROVE Pending(o)'
    <3>1. ebay[o].val # 0 /\ ~Kept(o) /\ ebay'[o].created = ebay[o].created
      BY <2>1
    <3>2. CASE cursor' = cursor
      BY <3>1, <3>2 DEF WindowInv, NothingLost, Pending, WindowStart
    <3>3. CASE /\ run[p].target = {} /\ cursor' = run[p].end
               /\ run[p].ph \in {"advance", "save"}
      <4>1. run[p].end # 0 /\ ebay[o].created >= Back(run[p].end, Overlap)
        BY <3>1, <3>3 DEF WindowInv, Covered
      <4> QED
        BY <3>1, <3>3, <4>1 DEF Pending, WindowStart, Back
    <3> QED
      BY <3>2, <3>3
  <2> QED
    BY <2>1 DEF NothingLost
<1>2. r.target = {} => Imported(r)' /\ Covered(r)'
  <2>1. CASE r.ph \in {"idle", "finish"}
    BY <2>1 DEF Imported, Covered
  <2>2. CASE /\ r.ph \in {"write", "record", "torn", "save"} /\ r.target = run[p].target
             /\ run[p].ph \in {"write", "record", "torn"} /\ r.end = run[p].end
    <3>1. ASSUME r.target = {}
          PROVE  /\ r.end # 0
                 /\ \A o \in Orders : ebay[o].val # 0 =>
                       ebay[o].created >= Back(r.end, Overlap) \/ Kept(o)
      BY <2>2, <3>1 DEF WindowInv, Covered
    <3> QED
      BY <2>2, <3>1 DEF Imported, Covered
  <2> QED
    BY <2>1, <2>2
<1> QED
  BY <1>1, <1>2, WindowMoves

\* A complete import stores the whole window.
LEMMA ImportWindow ==
    ASSUME Complete, RowsInv, TimeInv, WindowInv, [Next]_vars, NumbersOK,
           NEW p \in Procs, Import(p)
    PROVE  WindowInv'
<1>1. /\ run[p] \in Run /\ run[p].ph = "import" /\ run[p].since
      /\ UNCHANGED <<cursor, open, failed, sheet, clock, ebay, edits>>
  BY DEF Import, outside, RowsInv, SheetInv, TypeOK, TimeInv, OnTime
<1>2. PICK r : r = [run[p] EXCEPT !.ph = "plan"]
  OBVIOUS
<1>3. /\ Moves(p, r) /\ r.ph = "plan" /\ r.began = run[p].began
      /\ r.res = run[p].res /\ r.build = run[p].build
  BY <1>1, <1>2 DEF Import, Moves, Run
<1>4. \A o \in Orders : Kept(o) => Kept(o)'
  BY <1>1, <1>3, KeptStays
<1>5. NothingLost'
  BY <1>1, <1>4 DEF WindowInv, NothingLost, Pending, WindowStart
<1>6. ASSUME NEW o \in Orders, ebay[o].val # 0, Pending(o) PROVE store'[o] # 0
  <2>1. PICK S : /\ S = {x \in Orders : /\ ebay[x].val # 0
                                        /\ ebay[x].modified >= WindowStart(run[p].since)}
                 /\ store' = [x \in Orders |-> IF x \in S THEN ebay[x].val ELSE store[x]]
    BY DEF Import, StoredAfter, Complete
  <2>2. PICK w \in Nat : w = (IF cursor = 0 THEN 0 ELSE Back(cursor, Overlap))
    BY Sizes DEF Back, NumbersOK
  <2>3. ebay[o].modified >= w
    <3>1. ebay[o].created >= w
      BY <1>6, <2>2 DEF Pending, WindowStart
    <3> QED
      BY <2>2, <3>1 DEF NumbersOK, TimeInv
  <2>4. ebay[o].modified >= WindowStart(run[p].since)
    BY <1>1, <2>2, <2>3 DEF WindowStart
  <2> QED
    BY <1>6, <2>1, <2>4
<1>7. Imported(r)' /\ Covered(r)'
  <2>1. \A o \in Orders : Pending(o)' => Pending(o)
    BY <1>1 DEF Pending, WindowStart
  <2> QED
    BY <1>1, <1>3, <1>6, <2>1 DEF Imported, Covered
<1> QED
  BY <1>1, <1>3, <1>5, <1>7, WindowMoves

\* The plan takes up every stored order of the window; those before it have
\* their row, or are on record.
LEMMA PlanWindow ==
    ASSUME FullMode, RowsInv, TimeInv, WindowInv, [Next]_vars, NumbersOK,
           NEW p \in Procs, Plan(p)
    PROVE  WindowInv'
<1>1. /\ TypeOK /\ run[p] \in Run /\ run[p].ph = "plan" /\ run[p].since /\ RunOK(run[p])
      /\ UNCHANGED <<sheet, database, outside>> /\ clock # 0
  <2>1. TypeOK /\ RunOK(run[p])
    BY DEF RowsInv, SheetInv, RunsOK
  <2>2. run[p] \in Run /\ clock # 0
    BY <2>1, Sizes DEF TypeOK
  <2>3. run[p].ph = "plan" /\ UNCHANGED <<sheet, database, outside>>
    BY DEF Plan
  <2>4. run[p].since
    BY DEF TimeInv, OnTime
  <2> QED
    BY <2>1, <2>2, <2>3, <2>4
<1>2. PICK plan : PlanOf(p, plan) /\ PlanGoesOn(p, plan)
  BY <1>1, PlanStep
<1>3. PICK r : /\ Moves(p, r) /\ r.res = plan.res /\ r.build = plan.build
               /\ \/ r.ph = "finish"
                  \/ r.ph \in {"write", "advance"} /\ r.target = plan.target /\ r.end = plan.end
  <2>1. Ended(plan).res = plan.res /\ Ended(plan).build = plan.build /\ Ended(plan).ph = "finish"
    BY DEF Ended, NoRun
  <2>2. plan \in Run
    BY <1>2 DEF PlanOf
  <2>3. ASSUME NEW ph \in {"write", "advance"}, Moves(p, [plan EXCEPT !.ph = ph])
        PROVE  \E r : /\ Moves(p, r) /\ r.res = plan.res /\ r.build = plan.build
                      /\ r.ph \in {"write", "advance"} /\ r.target = plan.target /\ r.end = plan.end
    <3> DEFINE r == [plan EXCEPT !.ph = ph]
    <3>1. /\ r.res = plan.res /\ r.build = plan.build /\ r.ph = ph
          /\ r.target = plan.target /\ r.end = plan.end
      BY <2>2 DEF Run
    <3> HIDE DEF r
    <3> QED
      BY <2>3, <3>1 DEF r
  <2> QED
    BY <1>2, <2>1, <2>3 DEF PlanGoesOn
<1>4. run[p].build = {} /\ \A o \in Orders : run[p].res[o] = "none"
  BY <1>1 DEF RunOK
<1>5. \A o \in Orders : Kept(o) => Kept(o)'
  BY <1>1, <1>3, <1>4, KeptStays DEF database, outside
<1>6. NothingLost'
  BY <1>1, <1>5 DEF WindowInv, NothingLost, Pending, WindowStart, database, outside
\* An order that is chosen is planned for, or has its row.
<1>7. ASSUME NEW o \in Chosen(p), o \in Orders PROVE Kept(o)'
  <2>1. run'[p] = r /\ sheet' = sheet
    BY <1>1, <1>3 DEF Moves, TypeOK
  <2>2. CASE o \notin Buildable(p)
    <3>1. o \in run'[p].build
      BY <1>2, <1>3, <2>1, <2>2 DEF PlanOf
    <3> QED
      BY <3>1 DEF Kept
  <2>3. CASE o \in Buildable(p) /\ RowOf(o) = 0
    <3>1. plan.act[o] = "insert"
      BY <1>1, <1>2, <2>3 DEF PlanOf, Classify, RunOK
    <3>2. run'[p].res[o] = "failed"
      BY <1>2, <1>3, <2>1, <2>3, <3>1 DEF PlanOf, PlannedOutcome
    <3> QED
      BY <3>2 DEF Kept
  <2>4. CASE RowOf(o) # 0
    <3>1. RowsOf(o) # {}
      BY <1>1, <1>7, <2>4, RowOfType
    <3> QED
      BY <2>1, <3>1 DEF Kept, RowsOf
  <2> QED
    BY <2>2, <2>3, <2>4
<1>8. ASSUME r.target = {}, r.ph # "finish" PROVE Imported(r)' /\ Covered(r)'
  <2>1. run[p].target = {} /\ r.end = clock /\ r.ph \in {"write", "advance"}
    BY <1>2, <1>3, <1>8 DEF PlanOf
  <2>2. ASSUME NEW o \in Orders, ebay[o].val # 0, ~(ebay[o].created >= Back(clock, Overlap))
        PROVE  Kept(o)'
    <3>1. /\ ebay[o].created \in Nat /\ clock \in Nat /\ Overlap \in Nat /\ run[p].began \in Nat
          /\ clock <= run[p].began + Overlap
      BY <1>1, Sizes DEF NumbersOK, TimeInv, OnTime
    <3>2. ebay[o].created < run[p].began
      BY <2>2, <3>1 DEF Back
    <3>3. CASE Kept(o)
      BY <1>5, <3>3
    <3>4. CASE Pending(o)
      <4>1. store[o] # 0
        BY <1>1, <2>1, <2>2, <3>1, <3>2, <3>4 DEF WindowInv, Imported
      <4>2. ebay[o].created >= WindowStart(run[p].since)
        BY <1>1, <3>4 DEF Pending, WindowStart
      <4>3. o \in Chosen(p)
        BY <2>1, <4>1, <4>2 DEF Chosen
      <4> QED
        BY <1>7, <4>3
    <3> QED
      BY <2>2, <3>3, <3>4 DEF WindowInv, NothingLost
  <2> QED
    BY <1>1, <2>1, <2>2 DEF Imported, Covered, outside
<1>9. r.target = {} => Imported(r)' /\ Covered(r)'
  <2>1. CASE r.ph = "finish"
    BY <2>1 DEF Imported, Covered
  <2> QED
    BY <1>8, <2>1
<1> QED
  BY <1>1, <1>3, <1>6, <1>9, WindowMoves

\* Every result of the run goes on record before the run is gone.
LEMMA FinishWindow ==
    ASSUME RowsInv, GoodHasRow, TimeInv, WindowInv, [Next]_vars,
           NEW p \in Procs, Finish(p)
    PROVE  WindowInv'
<1>1. /\ Moves(p, NoRun) /\ NoRun.ph = "idle" /\ run[p].ph # "idle"
      /\ UNCHANGED <<cursor, failed, sheet, clock, ebay, edits>>
  BY DEF Finish, Moves, NoRun, outside
<1>2. \A o \in Orders :
        /\ <<o, "row">> \in open => <<o, "row">> \in open' \/ RowsOf(o) # {}
        /\ <<o, "build">> \in open => <<o, "build">> \in open'
        /\ run[p].res[o] = "failed" => <<o, "row">> \in open'
        /\ o \in run[p].build => <<o, "build">> \in open'
  BY DEF Finish, GoodHasRow
<1>3. \A o \in Orders : Kept(o) => Kept(o)'
  BY <1>1, <1>2, KeptStays
<1> QED
  BY <1>1, <1>3, WindowStays

LEMMA RecordWindow ==
    ASSUME RowsInv, TimeInv, WindowInv, [Next]_vars,
           NEW p \in Procs, RecordBatch(p) \/ BatchFails(p)
    PROVE  WindowInv'
<1>1. /\ run[p] \in Run /\ run[p].ph \in {"write", "record", "torn"}
      /\ UNCHANGED <<cursor, open, sheet, clock, ebay, edits>>
  BY DEF RecordBatch, BatchFails, outside, RowsInv, SheetInv, TypeOK
<1>2. PICK r, b :
        /\ Moves(p, r) /\ r.target = run[p].target /\ r.end = run[p].end /\ r.build = run[p].build
        /\ r.ph \in {"write", "save"}
        /\ \A o \in Orders : o \notin b => r.res[o] = run[p].res[o]
        /\ \/ failed' = failed \cup b /\ \A o \in Orders : o \in b => r.res[o] = "failed"
           \/ failed' = failed \ b /\ \A o \in b : RowsOf(o) # {}
  <2>1. ASSUME NEW b, NEW outcome, NEW left, NEW wrote,
               Moves(p, AfterBatch(run[p], b, outcome, left, wrote)),
               \/ outcome = "failed" /\ failed' = failed \cup b
               \/ failed' = failed \ b /\ \A o \in b : RowsOf(o) # {}
        PROVE  \E r :
                 /\ Moves(p, r) /\ r.target = run[p].target /\ r.end = run[p].end
                 /\ r.build = run[p].build /\ r.ph \in {"write", "save"}
                 /\ \A o \in Orders : o \notin b => r.res[o] = run[p].res[o]
                 /\ \/ failed' = failed \cup b /\ \A o \in Orders : o \in b => r.res[o] = "failed"
                    \/ failed' = failed \ b /\ \A o \in b : RowsOf(o) # {}
    <3> DEFINE r == AfterBatch(run[p], b, outcome, left, wrote)
    <3>1. /\ \A o \in Orders : r.res[o] = IF o \in b THEN outcome ELSE run[p].res[o]
          /\ r.target = run[p].target /\ r.end = run[p].end /\ r.build = run[p].build
          /\ r.ph \in {"write", "save"}
      BY <1>1, AfterBatchFields
    <3>2. Moves(p, r)
      BY <2>1
    <3> HIDE DEF r
    <3> QED
      BY <2>1, <3>1, <3>2
  <2>2. CASE RecordBatch(p)
    <3>1. PICK wrote \in BOOLEAN :
            Moves(p, AfterBatch(run[p], run[p].batch, "written", run[p].left, wrote))
      BY <2>2 DEF RecordBatch, Moves
    <3>2. failed' = failed \ run[p].batch /\ \A o \in run[p].batch : RowsOf(o) # {}
      BY <2>2 DEF RecordBatch, RowsInv, RunsOK, RunOK, Writing, BatchArrived, Arrived, RowsOf
    <3> DEFINE b == run[p].batch
    <3>3. \E r :
            /\ Moves(p, r) /\ r.target = run[p].target /\ r.end = run[p].end
            /\ r.build = run[p].build /\ r.ph \in {"write", "save"}
            /\ \A o \in Orders : o \notin b => r.res[o] = run[p].res[o]
            /\ \/ failed' = failed \cup b /\ \A o \in Orders : o \in b => r.res[o] = "failed"
               \/ failed' = failed \ b /\ \A o \in b : RowsOf(o) # {}
      <4> HIDE DEF b
      <4>1. Moves(p, AfterBatch(run[p], b, "written", run[p].left, wrote))
        BY <3>1 DEF b
      <4>2. failed' = failed \ b /\ \A o \in b : RowsOf(o) # {}
        BY <3>2 DEF b
      <4> QED
        BY <2>1, <4>1, <4>2
    <3> HIDE DEF b
    <3> QED
      BY <3>3
  <2>3. CASE BatchFails(p)
    <3>1. PICK b, left, wrote : /\ failed' = failed \cup b
                                /\ Moves(p, AfterBatch(run[p], b, "failed", left, wrote))
      BY <2>3 DEF BatchFails, Moves
    <3> QED
      BY <2>1, <3>1
  <2> QED
    BY <2>2, <2>3
<1>3. \A o \in Orders : Kept(o) => Kept(o)'
  BY <1>1, <1>2, KeptStays
<1> QED
  BY <1>1, <1>2, <1>3, WindowStays

LEMMA WindowStep ==
    ASSUME Alone, FullMode, Complete, RowsInv, GoodHasRow, TimeInv, WindowInv, [Next]_vars, TypeOK'
    PROVE  WindowInv'
<1>1. TypeOK /\ NumbersOK /\ NumbersOK'
  BY Numbers, NumbersNext DEF RowsInv, SheetInv
<1>2. ASSUME NEW p \in Procs, RunStep(p) PROVE WindowInv'
  <2>1. run[p] \in Run /\ UNCHANGED <<clock, ebay, edits>> /\ run[p].ph # "idle"
    BY <1>1, <1>2, RunStepMoves DEF TypeOK
  <2>2. CASE AdvanceCursor(p) \/ SaveCursor(p) \/ Abort(p)
    <3>1. PICK r : /\ Moves(p, r) /\ r.ph = "finish" /\ r.res = run[p].res /\ r.build = run[p].build
      <4>1. Moves(p, Ended(run[p]))
        BY <2>2 DEF AdvanceCursor, SaveCursor, Abort, Moves
      <4>2. LET r == Ended(run[p])
            IN  r.ph = "finish" /\ r.res = run[p].res /\ r.build = run[p].build
        BY DEF Ended, NoRun
      <4> QED
        BY <4>1, <4>2
    <3>2. UNCHANGED <<open, failed, sheet>>
      BY <2>2 DEF AdvanceCursor, SaveCursor, Abort, database
    <3>3. cursor' = cursor \/ (run[p].target = {} /\ cursor' = run[p].end
                               /\ run[p].ph \in {"advance", "save"})
      BY <2>2 DEF AdvanceCursor, SaveCursor, Abort, database, RowsInv, RunsOK, RunOK
    <3>4. \A o \in Orders : Kept(o) => Kept(o)'
      BY <2>1, <3>1, <3>2, KeptStays
    <3> QED
      BY <2>1, <3>1, <3>3, <3>4, WindowStays
  <2>3. CASE WriteBatch(p) \/ TearBatch(p)
    <3>1. PICK r : /\ Moves(p, r) /\ r.ph \in {"record", "torn"} /\ r.res = run[p].res
                   /\ r.build = run[p].build /\ r.target = run[p].target /\ r.end = run[p].end
      <4>1. PICK b, ph : Moves(p, InBatch(run[p], b, ph)) /\ (ph = "record" \/ ph = "torn")
        <5>1. CASE WriteBatch(p)
          BY <5>1 DEF WriteBatch, Moves
        <5>2. CASE TearBatch(p)
          BY <5>2 DEF TearBatch, Moves
        <5> QED
          BY <2>3, <5>1, <5>2
      <4> DEFINE r == InBatch(run[p], b, ph)
      <4>2. /\ r.ph = ph /\ r.res = run[p].res
            /\ r.build = run[p].build /\ r.target = run[p].target /\ r.end = run[p].end
        BY <2>1 DEF InBatch, Run
      <4>3. Moves(p, r)
        BY <4>1
      <4> HIDE DEF r
      <4> QED
        BY <4>1, <4>2, <4>3
    <3>2. UNCHANGED <<open, failed, cursor>> /\ run[p].ph = "write"
      BY <2>3 DEF WriteBatch, TearBatch, database
    <3>3. \A o \in Orders : Kept(o) => Kept(o)'
      BY <2>1, <3>1, <3>2, KeptStays
    <3> QED
      BY <2>1, <3>1, <3>2, <3>3, WindowStays
  <2>4. CASE Crash(p)
    BY <2>4 DEF Crash, Complete
  <2> QED
    BY <1>1, <1>2, <2>2, <2>3, <2>4, ImportWindow, PlanWindow, FinishWindow, RecordWindow DEF RunStep
<1>3. ASSUME NEW p \in Procs, StartSync(p) \/ StartRetry(p) PROVE WindowInv'
  <2>1. PICK r : /\ Moves(p, r) /\ r.res = NoRun.res /\ r.build = {}
                 /\ r.ph = "import" \/ (r.ph = "plan" /\ r.target # {})
    BY <1>3, StartMoves
  <2>2. UNCHANGED <<sheet, database, outside>> /\ run[p] = NoRun
    BY <1>3 DEF StartSync, StartRetry, RowsInv, RunsOK, RunOK
  <2>3. run[p].build = {} /\ \A o \in Orders : run[p].res[o] = "none"
    BY <2>2 DEF NoRun
  <2>4. \A o \in Orders : Kept(o) => Kept(o)'
    BY <2>1, <2>2, <2>3, KeptStays DEF database, outside
  <2>5. NothingLost'
    BY <2>2, <2>4 DEF WindowInv, NothingLost, Pending, WindowStart, database, outside
  <2>6. \A q \in Procs : run[q] = NoRun
    BY <1>3 DEF StartSync, StartRetry, Alone, Quiet, RowsInv, RunsOK, RunOK
  <2>7. \A q \in Procs : run'[q] = IF q = p THEN r ELSE NoRun
    BY <1>1, <2>1, <2>6 DEF Moves, TypeOK
  <2>8. NoRun.ph = "idle"
    BY DEF NoRun
  <2>9. \A q \in Procs : run'[q].target = {} => Imported(run[q])' /\ Covered(run[q])'
    BY <2>1, <2>7, <2>8 DEF Imported, Covered
  <2> QED
    BY <2>5, <2>9 DEF WindowInv
<1>4. ASSUME UNCHANGED <<run, sheet, open, failed>>
      PROVE  \A o \in Orders : Kept(o)' <=> Kept(o)
  BY <1>4 DEF Kept, OnRecord, RowsOf
<1>5. ASSUME NEW o \in Orders, Sell(o) PROVE WindowInv'
  <2>1. /\ UNCHANGED <<run, sheet, open, failed, cursor, clock, store>>
        /\ ebay'[o].created = clock /\ \A x \in Orders : x # o => ebay'[x] = ebay[x]
    BY <1>1, <1>5 DEF Sell, database, TypeOK
  <2>2. /\ clock \in Nat /\ cursor \in Nat /\ Overlap \in Nat /\ cursor <= clock
        /\ \A q \in Procs : /\ run[q].began \in Nat /\ run[q].end \in Nat /\ run[q].end <= clock
                            /\ run[q].ph # "idle" => run[q].began <= clock
    BY <1>1, Sizes DEF NumbersOK, TimeInv, OnTime
  <2>3. Pending(o)'
    BY <2>1, <2>2 DEF Pending, WindowStart, Back
  <2>4. \A x \in Orders : x # o => (Pending(x)' <=> Pending(x))
    BY <2>1 DEF Pending, WindowStart
  <2>5. NothingLost'
    BY <1>4, <2>1, <2>3, <2>4 DEF WindowInv, NothingLost
  <2>6. ASSUME NEW q \in Procs, run[q].target = {} PROVE Imported(run[q])' /\ Covered(run[q])'
    <3>1. Imported(run[q])'
      BY <2>1, <2>2, <2>4, <2>6 DEF WindowInv, Imported
    <3>2. clock >= Back(run[q].end, Overlap)
      BY <2>2 DEF Back
    <3>3. Covered(run[q])'
      BY <1>4, <2>1, <2>6, <3>2 DEF WindowInv, Covered
    <3> QED
      BY <3>1, <3>3
  <2> QED
    BY <2>1, <2>5, <2>6 DEF WindowInv
<1>6. ASSUME UNCHANGED <<run, sheet, open, failed, cursor, store>>,
             \A o \in Orders : /\ ebay'[o].created = ebay[o].created
                               /\ ebay'[o].val # 0 => ebay[o].val # 0
      PROVE  WindowInv'
  <2>1. \A o \in Orders : Pending(o)' <=> Pending(o)
    BY <1>6 DEF Pending, WindowStart
  <2>2. NothingLost'
    BY <1>4, <1>6, <2>1 DEF WindowInv, NothingLost
  <2>3. ASSUME NEW q \in Procs, run[q].target = {} PROVE Imported(run[q])' /\ Covered(run[q])'
    BY <1>4, <1>6, <2>1, <2>3 DEF WindowInv, Imported, Covered
  <2> QED
    BY <1>6, <2>2, <2>3 DEF WindowInv
<1>7. ASSUME NEW o \in Orders, Modify(o) PROVE WindowInv'
  <2>1. UNCHANGED <<run, sheet, open, failed, cursor, store>> /\ ebay[o].val # 0
    BY <1>7 DEF Modify, database
  <2>2. \A x \in Orders : /\ ebay'[x].created = ebay[x].created
                          /\ ebay'[x].val # 0 => ebay[x].val # 0
    <3>1. PICK v : ebay' = [ebay EXCEPT ![o] = [ebay[o] EXCEPT !.modified = clock, !.val = v]]
      BY <1>1, <1>7 DEF Modify, TypeOK
    <3>2. ebay[o] \in [created: 0..MaxTime, modified: 0..MaxTime, val: 0..MaxVal]
      BY <1>1 DEF TypeOK
    <3> QED
      BY <1>1, <2>1, <3>1, <3>2 DEF TypeOK
  <2> QED
    BY <1>6, <2>1, <2>2
<1>8. CASE \/ \E o \in Orders : ClearPayload(o)
           \/ Tick \/ UNCHANGED vars
  <2>1. UNCHANGED <<run, sheet, open, failed, cursor, store, ebay>>
    BY <1>8 DEF ClearPayload, Tick, vars, outside, database
  <2> QED
    BY <1>6, <2>1
<1>9. CASE Edit \/ \E o \in Orders : DropHistory(o)
  <2>1. edits \in Nat
    BY <1>1, Sizes DEF TypeOK
  <2> QED
    BY <1>9, <2>1 DEF Edit, DropHistory, Complete
<1>10. Syncs \subseteq Procs /\ Retries \subseteq Procs
  BY DEF Procs
<1> QED
  BY <1>2, <1>3, <1>5, <1>7, <1>8, <1>9, <1>10 DEF Next


-----------------------------------------------------------------------------
(* The invariant, and what follows from it.                                *)

LEMMA ValuesInit == Init => GoodHasRow /\ ValueInv
<1> SUFFICES ASSUME Init PROVE GoodHasRow /\ ValueInv
  OBVIOUS
<1>1. \A p \in Procs : run[p] = NoRun
  BY DEF Init
<1>2. GoodHasRow
  BY <1>1 DEF GoodHasRow, NoRun
<1>3. \A p \in Procs : Writing(run[p]) = {}
  BY <1>1 DEF Writing, NoRun
<1>4. \A o \in Orders : ebay[o].val = 0 /\ store[o] = 0 /\ link[o] = 0
  BY DEF Init
<1>5. \A i \in 1..MaxRows : sheet[i].key \notin Orders
  BY SheetAssumption DEF Init, Blank
<1> QED
  BY <1>2, <1>3, <1>4, <1>5
     DEF ValueInv, LinksBehind, LinksHaveRows, RowsBehind, PlanBehind

LEMMA WindowInit == Init => TimeInv /\ WindowInv
<1> SUFFICES ASSUME Init PROVE TimeInv /\ WindowInv
  OBVIOUS
<1>1. \A p \in Procs : run[p].ph = "idle" /\ run[p].since /\ run[p].end = 0
  BY DEF Init, NoRun
<1>2. /\ clock = 1 /\ cursor = 0
      /\ \A o \in Orders : ebay[o].val = 0 /\ ebay[o].created = 0 /\ ebay[o].modified = 0
  BY DEF Init
<1>3. TimeInv
  BY <1>1, <1>2 DEF TimeInv, OnTime
<1> QED
  BY <1>1, <1>2, <1>3 DEF WindowInv, NothingLost, Imported, Covered

LEMMA InvInit == Init => IInv
  BY RowsInit, ValuesInit, WindowInit DEF IInv

LEMMA InvStep == TypeOK' /\ IInv /\ [Next]_vars => IInv'
<1> SUFFICES ASSUME Alone, TypeOK', IInv, [Next]_vars
             PROVE  /\ RowsInv'
                    /\ FullMode => GoodHasRow'
                    /\ Rising => ValueInv'
                    /\ FullMode /\ Complete => TimeInv' /\ WindowInv'
  BY DEF IInv, Alone, FullMode, Rising, Complete
<1>1. RowsInv /\ RowsInv'
  BY RowsStep DEF IInv
<1>2. ASSUME FullMode PROVE GoodHasRow'
  BY <1>1, <1>2, GoodStep DEF IInv
<1>3. ASSUME Rising PROVE ValueInv'
  BY <1>1, <1>3, ValueStep DEF IInv
<1>4. ASSUME FullMode, Complete PROVE TimeInv' /\ WindowInv'
  BY <1>1, <1>4, TimeStep, WindowStep DEF IInv
<1> QED
  BY <1>1, <1>2, <1>3, <1>4

\* Every reachable state of the engine is well typed, whatever goes wrong.
THEOREM TypesKept == Spec => []TypeOK
<1>1. Init => TypeOK
  BY TypeInit
<1>2. TypeOK /\ [Next]_vars => TypeOK'
  BY TypeStep
<1> QED
  BY <1>1, <1>2, PTL DEF Spec

\* The invariant behind the promises of the engine.
THEOREM Inductive == Spec => []IInv
<1>1. Init => IInv
  BY InvInit
<1>2. TypeOK' /\ IInv /\ [Next]_vars => IInv'
  BY InvStep
<1> QED
  BY <1>1, <1>2, TypesKept, PTL DEF Spec

\* What planSync read of the sheet is still so when the write goes out, when
\* nobody writes the sheet beside a run.
THEOREM PlansStayTrue == ASSUME Alone PROVE Spec => []SheetInv
<1>1. IInv => SheetInv
  BY DEF IInv, RowsInv
<1> QED
  BY <1>1, Inductive, PTL

\* "Retries cannot duplicate rows": whatever fails, arrives in part, counts
\* as failed though it was applied, or dies half way, no order gets a second
\* row.
THEOREM NoOrderTwice == ASSUME Alone PROVE Spec => []NoDuplicateRows
<1>1. ASSUME IInv PROVE NoDuplicateRows
  <2>1. ASSUME NEW o \in Orders PROVE Cardinality(RowsOf(o)) <= 1
    <3>1. \A i, j \in RowsOf(o) : i = j
      BY <1>1, SheetAssumption DEF IInv, RowsInv, Unique, RowsOf
    <3>2. CASE RowsOf(o) = {}
      BY <3>2, FS_EmptySet
    <3>3. CASE RowsOf(o) # {}
      <4>1. PICK i : RowsOf(o) = {i}
        BY <3>1, <3>3
      <4>2. Cardinality(RowsOf(o)) = 1
        BY <4>1, FS_Singleton
      <4> QED
        BY <4>2
    <3> QED
      BY <3>2, <3>3
  <2> QED
    BY <2>1 DEF NoDuplicateRows
<1> QED
  BY <1>1, Inductive, PTL

\* The engine writes an order over its own row or over an empty one, never
\* over another order's row or a note.
THEOREM OthersAreKept == ASSUME Alone PROVE Spec => OthersRowsKept
<1>1. IInv /\ [Next]_vars =>
        [edits' = edits => \A i \in 1..MaxRows :
            sheet'[i] # sheet[i] => sheet[i] = Blank \/ sheet[i].key = sheet'[i].key]_vars
  BY RowsKeptStep DEF IInv
<1> QED
  BY <1>1, Inductive, PTL DEF Spec, OthersRowsKept

\* A run that may insert closes a failure of an order only when the order
\* has its row.
THEOREM ClosedHasRow == ASSUME Alone, FullMode PROVE Spec => ClosedOnlyWhenWritten
<1>1. ASSUME IInv, [Next]_vars, run' # run, NEW o \in Orders, <<o, "row">> \in open \ open'
      PROVE  RowsOf(o) # {}
  <2>1. CASE \E p \in Procs : Finish(p)
    BY <1>1, <2>1 DEF Finish, IInv, GoodHasRow
  <2>2. ASSUME NEW p \in Procs, RunStep(p), ~Finish(p) PROVE open' = open
    <3>1. Import(p) => open' = open
      BY DEF Import
    <3>2. Plan(p) => open' = open
      BY DEF Plan, database
    <3>3. WriteBatch(p) => open' = open
      BY DEF WriteBatch, database
    <3>4. TearBatch(p) => open' = open
      BY DEF TearBatch, database
    <3>5. Abort(p) => open' = open
      BY DEF Abort, database
    <3>6. Crash(p) => open' = open
      BY DEF Crash
    <3>7. AdvanceCursor(p) => open' = open
      BY DEF AdvanceCursor
    <3>8. RecordBatch(p) => open' = open
      BY DEF RecordBatch
    <3>9. BatchFails(p) => open' = open
      BY DEF BatchFails
    <3>10. SaveCursor(p) => open' = open
      BY DEF SaveCursor
    <3> QED
      BY <2>2, <3>1, <3>2, <3>3, <3>4, <3>5, <3>6, <3>7, <3>8, <3>9, <3>10 DEF RunStep
  <2>3. ASSUME NEW p, StartSync(p) \/ StartRetry(p) PROVE open' = open
    <3>1. StartSync(p) => open' = open
      BY DEF StartSync, database
    <3>2. StartRetry(p) => open' = open
      BY DEF StartRetry, database
    <3> QED
      BY <2>3, <3>1, <3>2
  <2>4. CASE \/ \E x \in Orders : Sell(x) \/ Modify(x) \/ ClearPayload(x) \/ DropHistory(x)
             \/ Tick \/ Edit \/ UNCHANGED vars
    BY <1>1, <2>4 DEF Sell, Modify, ClearPayload, DropHistory, Tick, Edit, vars, database
  <2> QED
    BY <1>1, <2>1, <2>2, <2>3, <2>4 DEF Next
<1>2. IInv /\ [Next]_vars =>
        [run' # run => \A o \in Orders : <<o, "row">> \in open \ open' => RowsOf(o) # {}]_vars
  BY <1>1
<1> QED
  BY <1>2, Inductive, PTL DEF Spec, ClosedOnlyWhenWritten

\* An order that is skipped as unchanged is unchanged in the sheet.
THEOREM SkippedIsCurrent == ASSUME Alone, Rising PROVE Spec => []SkippedRowsAreCurrent
<1>1. ASSUME IInv PROVE SkippedRowsAreCurrent
  <2>1. TypeOK /\ ValueInv
    BY <1>1 DEF IInv, RowsInv, SheetInv
  <2>2. NumbersOK
    BY <2>1, Numbers
  <2>3. ASSUME NEW o \in Orders, link[o] = store[o], NEW i \in RowsOf(o)
        PROVE  sheet[i].val = store[o]
    <3>1. i \in 1..MaxRows /\ sheet[i].key = o
      BY <2>3 DEF RowsOf
    <3>2. sheet[i].val <= store[o] /\ (link[o] <= sheet[i].val \/ link[o] < store[o])
      BY <2>1, <3>1 DEF ValueInv, RowsBehind
    <3> QED
      BY <2>2, <2>3, <3>1, <3>2 DEF NumbersOK
  <2> QED
    BY <2>3 DEF SkippedRowsAreCurrent
<1> QED
  BY <1>1, Inductive, PTL

\* The cursor never passes an order without a row that is not on record as
\* failed, when imports are complete and runs end within the overlap.
THEOREM NoWindowSkipped ==
    ASSUME Alone, FullMode, Complete PROVE Spec => []NothingSkipped
<1>1. ASSUME IInv PROVE NothingSkipped
  <2>1. ASSUME Quiet, NEW o \in Orders, Kept(o), RowsOf(o) = {} PROVE OnRecord(o)
    <3>1. \A p \in Procs : run[p] = NoRun
      BY <1>1, <2>1 DEF Quiet, IInv, RowsInv, RunsOK, RunOK
    <3> QED
      BY <2>1, <3>1 DEF Kept, NoRun
  <2> QED
    BY <1>1, <2>1 DEF NothingSkipped, IInv, WindowInv, NothingLost
<1> QED
  BY <1>1, Inductive, PTL

=============================================================================
