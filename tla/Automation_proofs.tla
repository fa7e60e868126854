-------------------------- MODULE Automation_proofs --------------------------
(***************************************************************************)
(* The schedule of Automation for any number of workers, any limits and    *)
(* any forms: its types, the bound on attempts, the failure count and the  *)
(* distance between slots.                                                 *)
(***************************************************************************)
EXTENDS Automation, FiniteSetTheorems, WellFoundedInduction, TLAPS

-----------------------------------------------------------------------------
(* The schedule functions.                                                 *)

\* A set of hours has a first one: of the intervals that end at its members,
\* one contains no other.
LEMMA FirstExists ==
    ASSUME NEW N \in Nat, NEW S, S \subseteq 1 .. N, S # {}
    PROVE  \E i \in S : \A j \in S : i <= j
<1> DEFINE T == {1 .. k : k \in S}
<1>1. IsWellFoundedOn(StrictSubsetOrdering(1 .. N), FiniteSubsetsOf(1 .. N))
  BY FS_StrictSubsetOrderingWellFounded
<1>2. T \subseteq FiniteSubsetsOf(1 .. N) /\ T # {}
  <2>1. \A k \in S : IsFiniteSet(1 .. k) /\ 1 .. k \subseteq 1 .. N
    BY FS_Interval
  <2> QED
    BY <2>1 DEF FiniteSubsetsOf
<1> HIDE DEF T
<1>3. PICK x \in T : \A y \in T : <<y, x>> \notin StrictSubsetOrdering(1 .. N)
  BY <1>1, <1>2, WFMin, Zenon
<1>4. PICK i \in S : x = 1 .. i
  BY DEF T
<1>5. ASSUME NEW j \in S, ~(i <= j) PROVE FALSE
  <2>1. 1 .. j \in T /\ 1 .. j \subseteq 1 .. i /\ 1 .. i \subseteq 1 .. N
    BY <1>5 DEF T
  <2>2. i \in 1 .. i /\ i \notin 1 .. j
    BY <1>5
  <2>3. <<1 .. j, x>> \in StrictSubsetOrdering(1 .. N)
    <3>1. 1 .. j \in SUBSET (1 .. N) /\ x \in SUBSET (1 .. N)
      BY <1>4, <2>1
    <3>2. 1 .. j \subseteq x /\ 1 .. j # x
      BY <1>4, <2>1, <2>2
    <3> QED
      BY <3>1, <3>2, Zenon DEF StrictSubsetOrdering
  <2> QED
    BY <1>3, <2>1, <2>3
<1> QED
  BY <1>5

LEMMA NextActiveTimeIsLater ==
    ASSUME NEW t \in Nat, NEW s
    PROVE  NextActiveTime(t, s) \in Nat /\ NextActiveTime(t, s) >= t
<1> USE ScheduleAssumption
<1>1. CASE IsWithinActiveHours(t, s) \/ ActiveSteps(t, s) = {}
  BY <1>1 DEF NextActiveTime
<1>2. CASE ~(IsWithinActiveHours(t, s) \/ ActiveSteps(t, s) = {})
  <2> DEFINE k == FirstOf(ActiveSteps(t, s))
             x == t + k * HourUnits
  <2>1. ActiveSteps(t, s) \subseteq 1 .. 2 * DayHours /\ ActiveSteps(t, s) # {}
    BY <1>2 DEF ActiveSteps
  <2>2. \E i \in ActiveSteps(t, s) : \A j \in ActiveSteps(t, s) : i <= j
    BY <2>1, FirstExists
  <2>3. k \in ActiveSteps(t, s)
    BY <2>2 DEF FirstOf
  <2>4. k \in Nat /\ k >= 1
    BY <2>3 DEF ActiveSteps
  <2>5. NextActiveTime(t, s) = x - (x % HourUnits)
    BY <1>2 DEF NextActiveTime, TopOfHour
  <2> HIDE DEF k
  <2>6. k * HourUnits \in Nat /\ k * HourUnits >= HourUnits
    BY <2>4
  <2>7. x \in Nat /\ x >= t + HourUnits
    BY <2>6
  <2> HIDE DEF x
  <2>8. x % HourUnits \in 0 .. HourUnits - 1
    BY <2>7
  <2> QED
    BY <2>5, <2>7, <2>8
<1> QED
  BY <1>1, <1>2

LEMMA ComputeNextRunTypes ==
    ASSUME NEW s \in Settings(Nat, Nat), NEW last \in Nat \cup {NoTime}, NEW now \in Nat
    PROVE  /\ ComputeNextRun(s, last, now) \in Nat \cup {NoTime}
           /\ s.enabled => ComputeNextRun(s, last, now) \in Nat
           /\ s.enabled /\ last = now => ComputeNextRun(s, last, now) >= now + MinInterval
<1> USE ScheduleAssumption
<1> DEFINE t == IF last = NoTime THEN now
                ELSE Greater(now, last + ClampInterval(s.interval))
<1>1. ClampInterval(s.interval) \in Nat /\ ClampInterval(s.interval) >= MinInterval
  BY DEF Settings, ClampInterval, Lesser, Greater
<1>2. t \in Nat
  BY <1>1 DEF Greater
<1>3. last = now => t >= now + MinInterval
  BY <1>1 DEF Greater
<1>4. ComputeNextRun(s, last, now) = IF ~s.enabled THEN NoTime ELSE NextActiveTime(t, s)
  BY DEF ComputeNextRun
<1> HIDE DEF t
<1> QED
  BY <1>2, <1>3, <1>4, NextActiveTimeIsLater

-----------------------------------------------------------------------------
(* Types.                                                                  *)

LEMMA FormsAreSettings ==
    /\ \A s \in Setting : Of(s) \in Settings(Nat, Nat)
    /\ \A f \in Forms, on \in BOOLEAN : [f EXCEPT !.enabled = on] \in Settings(Nat, Nat)
    /\ \A s \in Setting, on \in BOOLEAN : [Of(s) EXCEPT !.enabled = on] \in Settings(Nat, Nat)
    /\ \A f \in Forms : Blank(f) \in Setting
    /\ NoSnap \in [set: Setting, era: Nat]
<1>1. \A f \in Settings(Nat, Nat), on \in BOOLEAN :
         [f EXCEPT !.enabled = on] \in Settings(Nat, Nat)
  BY DEF Settings
<1>2. \A f \in Forms : Blank(f) \in Setting
  BY DEF Blank, Setting
<1>3. NoSnap \in [set: Setting, era: Nat]
  BY <1>2, AutomationAssumption DEF NoSnap
<1> QED
  BY <1>1, <1>2, <1>3, AutomationAssumption DEF Of, Setting

LEMMA AfterAttemptRows ==
    ASSUME TypeOK, NEW k, NEW limit \in {RetryLimit, ThrowLimit},
           row' = AfterAttempt(k, row[k].attempt, limit)
    PROVE  /\ row' \in [Keys -> Row]
           /\ \A j \in Keys :
                 /\ j # k => row'[j] = row[j]
                 /\ row'[j].ran = row[j].ran /\ row'[j].born = row[j].born
                 /\ row'[j].era = row[j].era
                 /\ j = k => \/ /\ row'[j].status = "QUEUED"
                                /\ row'[j].attempt = row[j].attempt + 1
                                /\ row[j].attempt < limit
                             \/ /\ row'[j].status = "FAILED"
                                /\ row'[j].attempt = row[j].attempt
<1>1. CASE k \in Keys
  <2>1. row[k] \in Row /\ row[k].attempt \in Nat
    BY <1>1 DEF TypeOK, Row
  <2>2. CASE row[k].attempt < limit
    <3> DEFINE r == [row[k] EXCEPT !.status = "QUEUED", !.attempt = row[k].attempt + 1,
                                   !.due = FALSE]
    <3>1. /\ r \in Row /\ r.status = "QUEUED" /\ r.attempt = row[k].attempt + 1
          /\ r.ran = row[k].ran /\ r.born = row[k].born /\ r.era = row[k].era
      <4>1. row[k].attempt + 1 \in Nat
        BY <2>1
      <4> QED
        BY <2>1, <4>1 DEF Row, Statuses
    <3>2. row' = [row EXCEPT ![k] = r]
      BY <2>2 DEF AfterAttempt, TypeOK
    <3> HIDE DEF r
    <3> QED
      BY <1>1, <2>2, <3>1, <3>2 DEF TypeOK
  <2>3. CASE ~(row[k].attempt < limit)
    <3> DEFINE r == [row[k] EXCEPT !.status = "FAILED"]
    <3>1. /\ r \in Row /\ r.status = "FAILED" /\ r.attempt = row[k].attempt
          /\ r.ran = row[k].ran /\ r.born = row[k].born /\ r.era = row[k].era
      BY <2>1 DEF Row, Statuses
    <3>2. row' = [row EXCEPT ![k] = r]
      BY <2>3 DEF AfterAttempt, TypeOK
    <3> HIDE DEF r
    <3> QED
      BY <1>1, <3>1, <3>2 DEF TypeOK
  <2> QED
    BY <2>2, <2>3
<1>2. CASE k \notin Keys
  BY <1>2 DEF AfterAttempt, TypeOK
<1> QED
  BY <1>1, <1>2

LEMMA TypesInit == ASSUME Init PROVE TypeOK
<1>1. NoRow \in Row
  BY DEF NoRow, Row, Statuses
<1> QED
  BY <1>1, FormsAreSettings DEF Init, TypeOK, Pcs, Results

\* Steps that write neither the setting nor a row.
LEMMA TypesWithout ==
    ASSUME TypeOK, NEW w \in Workers,
           \/ StartTick(w) \/ ReadSchedule(w) \/ CheckInFlight(w) \/ EndTick(w)
           \/ ReadForRun(w) \/ Release(w) \/ Crash(w)
    PROVE  TypeOK'
<1> USE FormsAreSettings DEF TypeOK, Pcs, Goto, Forget
<1>1. CASE StartTick(w)
  <2>1. pc' \in [Workers -> Pcs] /\ at' \in [Workers -> Nat]
    BY <1>1 DEF StartTick
  <2> QED
    BY <1>1, <2>1 DEF StartTick
<1>2. CASE ReadSchedule(w)
  <2>4. /\ \/ pc' = [pc EXCEPT ![w] = "check"]
           \/ pc' = [pc EXCEPT ![w] = "claim"]
        /\ at' = at \/ at' = [at EXCEPT ![w] = 0]
    BY <1>2 DEF ReadSchedule
  <2>1. pc' \in [Workers -> Pcs] /\ at' \in [Workers -> Nat]
    BY <2>4
  <2>2. \/ snap' = [snap EXCEPT ![w] = [set |-> setting, era |-> saves]]
        \/ snap' = [snap EXCEPT ![w] = NoSnap]
    BY <1>2 DEF ReadSchedule
  <2>3. snap' \in [Workers -> [set: Setting, era: Nat]]
    BY <2>2
  <2> QED
    BY <1>2, <2>1, <2>3 DEF ReadSchedule
<1>3. CASE CheckInFlight(w)
  <2>1. pc' \in [Workers -> Pcs]
    BY <1>3 DEF CheckInFlight
  <2>4. at' = at \/ at' = [at EXCEPT ![w] = 0]
    BY <1>3 DEF CheckInFlight
  <2>2. snap' = snap \/ snap' = [snap EXCEPT ![w] = NoSnap]
    BY <1>3 DEF CheckInFlight
  <2>3. snap' \in [Workers -> [set: Setting, era: Nat]]
    BY <2>2
  <2> QED
    BY <1>3, <2>1, <2>3, <2>4 DEF CheckInFlight
<1>4. CASE EndTick(w)
  BY <1>4 DEF EndTick
<1>5. CASE ReadForRun(w)
  BY <1>5 DEF ReadForRun
<1>6. CASE Release(w)
  BY <1>6 DEF Release, Results
<1>7. CASE Crash(w)
  BY <1>7 DEF Crash, Results
<1> QED
  BY <1>1, <1>2, <1>3, <1>4, <1>5, <1>6, <1>7

\* Steps that write a row.
LEMMA EnqueueRows ==
    ASSUME TypeOK, NEW w \in Workers, Enqueue(w)
    PROVE  LET k == DedupeKey(Slot(w)) IN
           /\ row' \in [Keys -> Row]
           /\ \A j \in Keys :
                 \/ row'[j] = row[j] /\ (j = k => row[j].status # "ABSENT")
                 \/ /\ j = k /\ row[j].status = "ABSENT" /\ row'[j].status = "QUEUED"
                    /\ row'[j].ran = 0 /\ row'[j].attempt = 1
                    /\ row'[j].born = clock /\ row'[j].era = snap[w].era
<1> DEFINE k == DedupeKey(Slot(w))
           r == [NoRow EXCEPT !.status = "QUEUED", !.due = TRUE,
                              !.born = clock, !.era = snap[w].era]
<1>1. clock \in Nat /\ snap[w].era \in Nat
  BY DEF TypeOK
<1>2. /\ r \in Row /\ r.status = "QUEUED" /\ r.ran = 0 /\ r.attempt = 1
      /\ r.born = clock /\ r.era = snap[w].era
  BY <1>1 DEF NoRow, Row, Statuses
<1>3. row' = IF row[k].status # "ABSENT" THEN row ELSE [row EXCEPT ![k] = r]
  BY DEF Enqueue
<1> HIDE DEF k, r
<1>4. CASE row[k].status # "ABSENT"
  BY <1>3, <1>4 DEF TypeOK, k
<1>5. CASE row[k].status = "ABSENT"
  BY <1>2, <1>3, <1>5 DEF TypeOK, k
<1> QED
  BY <1>4, <1>5

LEMMA TypesRows ==
    ASSUME TypeOK, NEW w \in Workers,
           Enqueue(w) \/ Claim(w) \/ RunEnds(w) \/ ScheduleRetry(w) \/ RunThrows(w)
    PROVE  TypeOK'
<1>1. CASE Enqueue(w)
  BY <1>1, EnqueueRows DEF Enqueue, TypeOK, Goto, Pcs
<1>2. CASE Claim(w)
  <2>1. PICK j \in Keys : /\ row' = [row EXCEPT ![j].status = "RUNNING", ![j].ran = @ + 1]
                          /\ cur' = [cur EXCEPT ![w] = j]
    BY <1>2 DEF Claim
  <2>2. row[j] \in Row /\ row[j].ran + 1 \in Nat
    BY DEF TypeOK, Row
  <2>3. [row[j] EXCEPT !.status = "RUNNING", !.ran = row[j].ran + 1] \in Row
    BY <2>2 DEF Row, Statuses
  <2>4. row' = [row EXCEPT ![j] = [row[j] EXCEPT !.status = "RUNNING", !.ran = row[j].ran + 1]]
    BY <2>1 DEF TypeOK
  <2> QED
    BY <1>2, <2>1, <2>3, <2>4 DEF Claim, TypeOK, Goto, Pcs
<1>3. CASE RunEnds(w)
  <2>1. PICK s \in {"SUCCESS", "FAILED"} : row' = [row EXCEPT ![cur[w]].status = s]
    BY <1>3 DEF RunEnds
  <2>2. row' \in [Keys -> Row]
    <3>1. \A r \in Row : [r EXCEPT !.status = s] \in Row
      BY DEF Row, Statuses
    <3> QED
      BY <2>1, <3>1 DEF TypeOK
  <2>3. PICK r \in {"success", "retryable", "permanent"} : res' = [res EXCEPT ![w] = r]
    BY <1>3 DEF RunEnds
  <2>4. res' \in [Workers -> Results]
    BY <2>3 DEF TypeOK, Results
  <2>5. streak' \in Nat /\ pc' \in [Workers -> Pcs]
    BY <1>3 DEF RunEnds, TypeOK, Goto, Pcs
  <2> QED
    BY <1>3, <2>2, <2>4, <2>5 DEF RunEnds, TypeOK
<1>4. CASE ScheduleRetry(w)
  <2>1. row' = AfterAttempt(cur[w], row[cur[w]].attempt, RetryLimit)
    BY <1>4 DEF ScheduleRetry
  <2>2. row' \in [Keys -> Row]
    BY <2>1, AfterAttemptRows, AutomationAssumption
  <2>3. res' \in [Workers -> Results] /\ streak' \in Nat /\ pc' \in [Workers -> Pcs]
    BY <1>4 DEF ScheduleRetry, TypeOK, Goto, Pcs, Results
  <2> QED
    BY <1>4, <2>2, <2>3 DEF ScheduleRetry, TypeOK
<1>5. CASE RunThrows(w)
  <2>1. row' = AfterAttempt(cur[w], row[cur[w]].attempt, ThrowLimit)
    BY <1>5 DEF RunThrows
  <2>2. row' \in [Keys -> Row]
    BY <2>1, AfterAttemptRows, AutomationAssumption
  <2>3. /\ res' \in [Workers -> Results] /\ streak' \in Nat /\ pc' \in [Workers -> Pcs]
        /\ snap' \in [Workers -> [set: Setting, era: Nat]]
    BY <1>5, FormsAreSettings DEF RunThrows, TypeOK, Goto, Pcs, Results
  <2> QED
    BY <1>5, <2>2, <2>3 DEF RunThrows, TypeOK
<1> QED
  BY <1>1, <1>2, <1>3, <1>4, <1>5

LEMMA TypesDue ==
    ASSUME TypeOK, NEW k \in Keys, RetryDue(k) \/ Reclaim(k) PROVE TypeOK'
<1>1. CASE RetryDue(k)
  <2>1. row' \in [Keys -> Row]
    <3>1. \A x \in Row : [x EXCEPT !.due = TRUE] \in Row
      BY DEF Row
    <3>2. row \in [Keys -> Row] /\ row' = [row EXCEPT ![k].due = TRUE]
      BY <1>1 DEF RetryDue, TypeOK
    <3> QED
      BY <3>1, <3>2
  <2> QED
    BY <1>1, <2>1 DEF RetryDue, TypeOK
<1>2. CASE Reclaim(k)
  <2>1. row' \in [Keys -> Row]
    BY <1>2, AfterAttemptRows, AutomationAssumption DEF Reclaim
  <2>2. streak' \in Nat
    BY <1>2 DEF Reclaim, TypeOK
  <2> QED
    BY <1>2, <2>1, <2>2 DEF Reclaim, TypeOK
<1> QED
  BY <1>1, <1>2

\* What Advance writes is an interval away.
LEMMA AdvanceSets ==
    ASSUME TypeOK, NEW w \in Workers, Advance(w)
    PROVE  /\ setting' \in Setting
           /\ setting'.next \in Nat /\ setting'.next >= at[w] + MinInterval
           /\ setting'.enabled = setting.enabled /\ setting'.failures = setting.failures
<1> DEFINE s == [Of(snap[w].set) EXCEPT !.enabled = TRUE]
           n == ComputeNextRun(s, at[w], at[w])
<1>1. s \in Settings(Nat, Nat) /\ s.enabled /\ at[w] \in Nat
  <2>1. snap[w].set \in Setting /\ at[w] \in Nat
    BY DEF TypeOK
  <2>2. Of(snap[w].set) \in Settings(Nat, Nat)
    BY <2>1, FormsAreSettings
  <2> QED
    BY <2>1, <2>2 DEF Settings
<1> HIDE DEF s
<1>2. n \in Nat /\ n >= at[w] + MinInterval
  BY <1>1, ComputeNextRunTypes
<1>3. setting' = [setting EXCEPT !.next = n]
  BY DEF Advance, s
<1> HIDE DEF n
<1> QED
  BY <1>2, <1>3 DEF TypeOK, Setting

\* What the form writes.
LEMMA SaveSets ==
    ASSUME TypeOK, SaveForm
    PROVE  \E on \in BOOLEAN :
             /\ setting' \in Setting
             /\ setting'.enabled = on
             /\ on => setting'.next \in Nat /\ setting'.failures = 0 /\ streak' = 0
             /\ ~on => setting'.failures = setting.failures /\ streak' = streak
<1>1. PICK f \in Forms, on \in BOOLEAN :
        /\ setting' = [setting EXCEPT
                !.form = f, !.enabled = on, !.paused = FALSE,
                !.next = ComputeNextRun([f EXCEPT !.enabled = on], form.last, clock),
                !.failures = IF on THEN 0 ELSE @]
        /\ streak' = IF on THEN 0 ELSE streak
  BY DEF SaveForm
<1> DEFINE s == [f EXCEPT !.enabled = on]
           n == ComputeNextRun(s, form.last, clock)
<1>2. s \in Settings(Nat, Nat)
  BY FormsAreSettings
<1>3. s.enabled = on
  BY AutomationAssumption DEF Settings
<1>4. form.last \in Nat \cup {NoTime} /\ clock \in Nat
  BY DEF TypeOK
<1>5. n \in Nat \cup {NoTime} /\ (on => n \in Nat)
  <2> HIDE DEF s
  <2> QED
    BY <1>2, <1>3, <1>4, ComputeNextRunTypes
<1>6. setting' = [setting EXCEPT !.form = f, !.enabled = on, !.paused = FALSE,
                                 !.next = n, !.failures = IF on THEN 0 ELSE @]
  BY <1>1
<1> HIDE DEF n
<1>7. setting \in Setting
  BY DEF TypeOK
<1>8. /\ setting' \in Setting
      /\ setting'.enabled = on /\ setting'.next = n
      /\ setting'.failures = IF on THEN 0 ELSE setting.failures
  BY <1>5, <1>6, <1>7 DEF Setting
<1> QED
  BY <1>1, <1>5, <1>8

\* What the bookkeeping writes.
LEMMA RecordSets ==
    ASSUME TypeOK, NEW w \in Workers, Record(w)
    PROVE  /\ setting' \in Setting
           /\ setting'.enabled => setting.enabled /\ setting'.next = setting.next
           /\ setting' # setting => setting' = Recorded(w)
           /\ Recorded(w).failures = IF res[w] = "success" THEN 0 ELSE FailuresAfter(w)
<1>1. setting \in Setting /\ clock \in Nat /\ snap[w].set \in Setting
  BY DEF TypeOK
<1>2. FailuresAfter(w) \in Nat
  BY <1>1 DEF FailuresAfter, Setting
<1>3. /\ Recorded(w) \in Setting
      /\ Recorded(w).enabled => setting.enabled /\ Recorded(w).next = setting.next
      /\ Recorded(w).failures = IF res[w] = "success" THEN 0 ELSE FailuresAfter(w)
  <2> DEFINE n == FailuresAfter(w)
  <2>1. CASE res[w] = "success"
    BY <1>1, <2>1 DEF Recorded, Setting
  <2>2. CASE res[w] # "success" /\ n >= MaxFailures
    <3>1. Recorded(w) = [setting EXCEPT !.last = clock, !.failures = n,
                                 !.enabled = FALSE, !.next = NoTime, !.paused = TRUE]
      BY <2>2 DEF Recorded
    <3> QED
      BY <1>1, <1>2, <2>2, <3>1 DEF Setting
  <2>3. CASE res[w] # "success" /\ ~(n >= MaxFailures)
    <3>1. Recorded(w) = [setting EXCEPT !.last = clock, !.failures = n]
      BY <2>3 DEF Recorded
    <3> QED
      BY <1>1, <1>2, <2>3, <3>1 DEF Setting
  <2> QED
    BY <2>1, <2>2, <2>3
<1>4. setting' \in {Recorded(w), setting}
  BY DEF Record
<1> QED
  BY <1>1, <1>3, <1>4

LEMMA TypesSetting ==
    ASSUME TypeOK, NEW w \in Workers, Advance(w) \/ Record(w) PROVE TypeOK'
<1>1. CASE Advance(w)
  BY <1>1, AdvanceSets, FormsAreSettings DEF Advance, TypeOK, Goto, Forget, Pcs
<1>2. CASE Record(w)
  BY <1>2, RecordSets, FormsAreSettings DEF Record, TypeOK, Goto, Pcs
<1> QED
  BY <1>1, <1>2

LEMMA TypesForm ==
    ASSUME TypeOK, ReadForm \/ SaveForm \/ Tick PROVE TypeOK'
<1>1. CASE ReadForm
  <2>1. setting.last \in Nat \cup {NoTime}
    BY DEF TypeOK, Setting
  <2> QED
    BY <1>1, <2>1 DEF ReadForm, TypeOK
<1>2. CASE SaveForm
  <2>1. setting' \in Setting /\ (streak' = 0 \/ streak' = streak)
    BY <1>2, SaveSets
  <2>2. form' \in [open: BOOLEAN, last: Nat \cup {NoTime}] /\ saves' \in Nat
    <3>1. form' = [open |-> FALSE, last |-> NoTime] /\ saves' = saves + 1
      BY <1>2 DEF SaveForm
    <3> QED
      BY <3>1 DEF TypeOK
  <2>3. UNCHANGED <<clock, row, pc, at, snap, cur, res, crashes>>
    BY <1>2 DEF SaveForm
  <2> QED
    BY <2>1, <2>2, <2>3 DEF TypeOK
<1>3. CASE Tick
  BY <1>3 DEF Tick, TypeOK
<1> QED
  BY <1>1, <1>2, <1>3

LEMMA TypesStep == ASSUME TypeOK, [Next]_vars PROVE TypeOK'
<1>1. CASE UNCHANGED vars
  BY <1>1 DEF vars, TypeOK
<1>2. CASE Next
  BY <1>2, TypesWithout, TypesRows, TypesDue, TypesSetting, TypesForm
     DEF Next, TickStep, RunStep
<1> QED
  BY <1>1, <1>2

-----------------------------------------------------------------------------
(* Attempts.                                                               *)

\* A row that waits has been claimed less often than its attempt says.
AttemptInv ==
    \A k \in Keys : /\ row[k].attempt <= Greater(RetryLimit, ThrowLimit)
                    /\ row[k].ran <= row[k].attempt
                    /\ row[k].status = "QUEUED" => row[k].ran < row[k].attempt

LEMMA AttemptFails ==
    ASSUME TypeOK, AttemptInv, NEW k, NEW limit \in {RetryLimit, ThrowLimit},
           row' = AfterAttempt(k, row[k].attempt, limit)
    PROVE  AttemptInv'
<1>1. limit \in Nat /\ limit <= Greater(RetryLimit, ThrowLimit)
  BY AutomationAssumption DEF Greater
<1>2. \A j \in Keys : row[j].attempt \in Nat /\ row[j].ran \in Nat
  BY DEF TypeOK, Row
<1>3. Greater(RetryLimit, ThrowLimit) \in Nat
  BY AutomationAssumption DEF Greater
<1>4. \A j \in Keys :
         /\ j # k => row'[j] = row[j]
         /\ row'[j].ran = row[j].ran
         /\ j = k => \/ /\ row'[j].status = "QUEUED"
                        /\ row'[j].attempt = row[j].attempt + 1
                        /\ row[j].attempt < limit
                     \/ /\ row'[j].status = "FAILED"
                        /\ row'[j].attempt = row[j].attempt
  BY AfterAttemptRows
<1> QED
  BY <1>1, <1>2, <1>3, <1>4 DEF AttemptInv

LEMMA AttemptStep == ASSUME TypeOK, AttemptInv, [Next]_vars PROVE AttemptInv'
<1>0. \A k \in Keys : row[k] \in Row /\ row[k].attempt \in Nat /\ row[k].ran \in Nat
  BY DEF TypeOK, Row
<1>1. CASE row' = row
  BY <1>1 DEF AttemptInv
<1>2. ASSUME NEW w \in Workers, Enqueue(w) PROVE AttemptInv'
  <2>1. 1 <= Greater(RetryLimit, ThrowLimit)
    BY AutomationAssumption DEF Greater
  <2> QED
    BY <1>2, <2>1, EnqueueRows DEF AttemptInv
<1>3. ASSUME NEW w \in Workers, Claim(w) PROVE AttemptInv'
  <2>1. PICK k \in Keys : /\ row[k].status = "QUEUED"
                          /\ row' = [row EXCEPT ![k].status = "RUNNING", ![k].ran = @ + 1]
    BY <1>3 DEF Claim
  <2>2. /\ row'[k].status = "RUNNING" /\ row'[k].ran = row[k].ran + 1
        /\ row'[k].attempt = row[k].attempt
        /\ \A j \in Keys : j # k => row'[j] = row[j]
    BY <1>0, <2>1 DEF TypeOK, Row
  <2>3. row[k].ran < row[k].attempt /\ row[k].attempt <= Greater(RetryLimit, ThrowLimit)
    BY <2>1 DEF AttemptInv
  <2>4. row'[k].ran <= row'[k].attempt
    BY <1>0, <2>2, <2>3
  <2> QED
    BY <2>2, <2>3, <2>4 DEF AttemptInv
<1>4. ASSUME NEW w \in Workers, RunEnds(w) PROVE AttemptInv'
  <2>1. PICK s \in {"SUCCESS", "FAILED"} : row' = [row EXCEPT ![cur[w]].status = s]
    BY <1>4 DEF RunEnds
  <2>2. \A k \in Keys : /\ row'[k].ran = row[k].ran /\ row'[k].attempt = row[k].attempt
                        /\ row'[k].status \in {row[k].status, s}
    <3>1. \A r \in Row : LET q == [r EXCEPT !.status = s] IN
             q.ran = r.ran /\ q.attempt = r.attempt /\ q.status = s
      BY DEF Row
    <3> QED
      BY <1>0, <2>1, <3>1 DEF TypeOK
  <2> QED
    BY <1>0, <2>1, <2>2 DEF AttemptInv
<1>5. ASSUME NEW w \in Workers, ScheduleRetry(w) PROVE AttemptInv'
  BY <1>5, AttemptFails DEF ScheduleRetry
<1>6. ASSUME NEW w \in Workers, RunThrows(w) PROVE AttemptInv'
  BY <1>6, AttemptFails DEF RunThrows
<1>7. ASSUME NEW k \in Keys, RetryDue(k) PROVE AttemptInv'
  BY <1>0, <1>7 DEF RetryDue, AttemptInv, TypeOK, Row
<1>8. ASSUME NEW k \in Keys, Reclaim(k) PROVE AttemptInv'
  BY <1>8, AttemptFails DEF Reclaim
<1> QED
  BY <1>1, <1>2, <1>3, <1>4, <1>5, <1>6, <1>7, <1>8
     DEF Next, TickStep, RunStep, vars, StartTick, ReadSchedule, CheckInFlight,
         Advance, EndTick, ReadForRun, Record, Release, Crash, ReadForm, SaveForm, Tick

-----------------------------------------------------------------------------
(* Failures.                                                               *)

\* One worker runs at a time, and no save comes in between: what it read of
\* the failures, with the run it has to add, is in the streak already.
FailureInv ==
    /\ \A v, w \in Workers : Runs(v) /\ Runs(w) => v = w
    /\ setting.failures <= streak
    /\ \A w \in Workers :
          /\ pc[w] \in {"run", "retry", "record"} => snap[w].set.failures <= streak
          /\ pc[w] = "retry" => res[w] = "retryable"
          /\ pc[w] = "record" /\ res[w] \notin {"success", "requeued"}
                => snap[w].set.failures < streak

\* A step that leaves the setting and the runs alone, and the streak unless
\* it grows.
LEMMA FailuresAlone ==
    ASSUME TypeOK, TypeOK', FailureInv, streak <= streak',
           setting'.failures = setting.failures,
           \A w \in Workers :
              \/ ~Runs(w)'
              \/ pc'[w] = pc[w] /\ snap'[w] = snap[w] /\ res'[w] = res[w]
    PROVE  FailureInv'
<1>1. \A w \in Workers : Runs(w)' => Runs(w)
  BY DEF Runs
<1>2. \A w \in Workers : snap[w].set.failures \in Nat /\ snap'[w].set.failures \in Nat
  BY DEF TypeOK, Setting
<1>3. setting.failures \in Nat /\ streak \in Nat /\ streak' \in Nat
  BY DEF TypeOK, Setting
<1> QED
  BY <1>1, <1>2, <1>3 DEF FailureInv, Runs

LEMMA FailureStep ==
    ASSUME TypeOK, TypeOK', FailureInv, [Next]_vars,
           "saveInRun" \notin Faults, "lostRecord" \notin Faults
    PROVE  FailureInv'
<1>0. /\ setting.failures \in Nat /\ streak \in Nat
      /\ pc \in [Workers -> Pcs] /\ res \in [Workers -> Results]
      /\ \A w \in Workers : snap[w] \in [set: Setting, era: Nat]
      /\ \A w \in Workers : snap[w].set.failures \in Nat
  BY DEF TypeOK, Setting
<1>1. CASE UNCHANGED vars
  BY <1>0, <1>1, FailuresAlone DEF vars
\* The steps before a run.
<1>2. ASSUME NEW w \in Workers, TickStep(w) \/ Release(w) \/ Crash(w),
             ~Claim(w), ~Advance(w)
      PROVE  FailureInv'
  <2>1. ~Runs(w)'
    BY <1>0, <1>2 DEF TickStep, StartTick, ReadSchedule, CheckInFlight, Enqueue, EndTick,
                      Release, Crash, Goto, Runs
  <2>2. \A v \in Workers : v # w =>
           pc'[v] = pc[v] /\ snap'[v] = snap[v] /\ res'[v] = res[v]
    BY <1>0, <1>2 DEF TickStep, StartTick, ReadSchedule, CheckInFlight, Enqueue, EndTick,
                      Release, Crash, Goto, Forget, TypeOK
  <2>3. UNCHANGED <<setting, streak>>
    BY <1>2 DEF TickStep, StartTick, ReadSchedule, CheckInFlight, Enqueue, EndTick,
                Release, Crash
  <2> QED
    BY <1>0, <2>1, <2>2, <2>3, FailuresAlone
<1>3. ASSUME NEW w \in Workers, Advance(w) PROVE FailureInv'
  <2>1. ~Runs(w)'
    BY <1>0, <1>3 DEF Advance, Goto, Runs
  <2>2. \A v \in Workers : v # w =>
           pc'[v] = pc[v] /\ snap'[v] = snap[v] /\ res'[v] = res[v]
    BY <1>0, <1>3 DEF Advance, Goto, Forget, TypeOK
  <2>3. setting'.failures = setting.failures /\ streak' = streak
    BY <1>3, AdvanceSets DEF Advance
  <2> QED
    BY <1>0, <2>1, <2>2, <2>3, FailuresAlone
<1>4. ASSUME NEW w \in Workers, Claim(w) PROVE FailureInv'
  BY <1>0, <1>4 DEF Claim, Goto, Runs, FailureInv
\* A run.
<1>5. ASSUME NEW w \in Workers, ReadForRun(w) PROVE FailureInv'
  <2>1. /\ pc[w] = "read" /\ pc'[w] = "run" /\ snap'[w].set = setting
        /\ \A v \in Workers : v # w => pc'[v] = pc[v] /\ snap'[v] = snap[v]
        /\ UNCHANGED <<setting, streak, res>>
    BY <1>0, <1>5 DEF ReadForRun, Goto, TypeOK
  <2> QED
    BY <1>0, <2>1 DEF FailureInv, Runs
<1>6. ASSUME NEW w \in Workers, RunEnds(w) PROVE FailureInv'
  <2>1. PICK r \in {"success", "retryable", "permanent"} :
          /\ res' = [res EXCEPT ![w] = r]
          /\ streak' = IF r = "permanent" THEN streak + 1 ELSE streak
          /\ pc' = [pc EXCEPT ![w] = IF r = "retryable" THEN "retry" ELSE "record"]
    BY <1>6 DEF RunEnds, Goto
  <2>2. /\ pc[w] = "run" /\ res'[w] = r
        /\ pc'[w] = IF r = "retryable" THEN "retry" ELSE "record"
        /\ \A v \in Workers : v # w => pc'[v] = pc[v] /\ res'[v] = res[v]
        /\ UNCHANGED <<setting, snap>>
    BY <1>0, <1>6, <2>1 DEF RunEnds
  <2> QED
    BY <1>0, <2>1, <2>2 DEF FailureInv, Runs
<1>7. ASSUME NEW w \in Workers, ScheduleRetry(w) PROVE FailureInv'
  <2>1. /\ pc[w] = "retry" /\ pc'[w] = "record" /\ UNCHANGED <<setting, snap>>
        /\ \/ streak' = streak /\ res'[w] = "requeued"
           \/ streak' = streak + 1 /\ res'[w] = res[w]
        /\ \A v \in Workers : v # w => pc'[v] = pc[v] /\ res'[v] = res[v]
    BY <1>0, <1>7 DEF ScheduleRetry, Goto
  <2> QED
    BY <1>0, <2>1 DEF FailureInv, Runs
<1>8. ASSUME NEW w \in Workers, RunThrows(w) PROVE FailureInv'
  <2>1. /\ pc[w] \in {"run", "retry"}
        /\ pc' = [pc EXCEPT ![w] = "release"]
        /\ res' = [res EXCEPT ![w] = "thrown"]
        /\ snap' = [snap EXCEPT ![w] = NoSnap]
        /\ setting' = setting
        /\ streak' \in {streak, streak + 1}
    BY <1>8 DEF RunThrows, Goto
  <2>2. pc'[w] = "release"
    BY <1>0, <2>1
  <2>3. \A v \in Workers : v # w =>
           pc'[v] = pc[v] /\ snap'[v] = snap[v] /\ res'[v] = res[v]
    BY <1>0, <2>1 DEF TypeOK
  <2> QED
    BY <1>0, <2>1, <2>2, <2>3 DEF FailureInv, Runs
<1>9. ASSUME NEW w \in Workers, Record(w) PROVE FailureInv'
  <2>1. /\ pc[w] = "record" /\ pc'[w] = "release"
        /\ setting' = Recorded(w)
        /\ streak' = IF res[w] = "success" THEN 0 ELSE streak
        /\ \A v \in Workers : v # w => pc'[v] = pc[v]
        /\ res' = res
    BY <1>0, <1>9 DEF Record, Goto
  <2>2. \A v \in Workers : v # w => ~Runs(v)
    BY <2>1 DEF FailureInv, Runs
  <2>3. setting'.failures = IF res[w] = "success" THEN 0 ELSE FailuresAfter(w)
    BY <1>9, <2>1, RecordSets
  <2>4. res[w] # "success" => FailuresAfter(w) <= streak
    BY <1>0, <2>1 DEF FailureInv, FailuresAfter
  <2>5. setting'.failures <= streak'
    BY <2>1, <2>3, <2>4
  <2> QED
    BY <2>1, <2>2, <2>5 DEF FailureInv, Runs
\* The others.
<1>10. ASSUME NEW k \in Keys, RetryDue(k) \/ Reclaim(k) PROVE FailureInv'
  <2>1. UNCHANGED <<setting, pc, snap, res>> /\ streak' \in {streak, streak + 1}
    BY <1>10 DEF RetryDue, Reclaim
  <2> QED
    BY <1>0, <2>1, FailuresAlone
<1>11. CASE ReadForm \/ Tick
  BY <1>0, <1>11, FailuresAlone DEF ReadForm, Tick
<1>12. CASE SaveForm
  <2>1. \A w \in Workers : ~Runs(w)
    BY <1>12 DEF SaveForm
  <2>2. setting'.failures <= streak'
    BY <1>0, <1>12, SaveSets DEF FailureInv
  <2>3. pc' = pc
    BY <1>12 DEF SaveForm
  <2> QED
    BY <2>1, <2>2, <2>3 DEF FailureInv, Runs
<1> QED
  BY <1>1, <1>2, <1>3, <1>4, <1>5, <1>6, <1>7, <1>8, <1>9, <1>10, <1>11, <1>12
     DEF Next, TickStep, RunStep

-----------------------------------------------------------------------------
(* Slots.                                                                  *)

Enqueuing(w) == pc[w] \in {"check", "enqueue"}
Ticking(w)   == pc[w] \in {"list", "check", "enqueue", "advance"}

\* A row for slot n of the form's version e would be created an interval after
\* all others, or has been created.
Apart(n, e) ==
    \A k \in Keys : row[k].status # "ABSENT" /\ row[k].era = e
                       => DedupeKey(n) = k \/ row[k].born + MinInterval <= n

\* A worker that runs has a row.
RunsInv == \A w \in Workers : Runs(w) => /\ cur[w] \in Keys
                                         /\ row[cur[w]].status # "ABSENT"

LEMMA RowsStay ==
    ASSUME TypeOK, [Next]_vars
    PROVE  \A k \in Keys : row[k].status # "ABSENT" => row'[k].status # "ABSENT"
<1>0. \A k \in Keys : row[k] \in Row
  BY DEF TypeOK
<1>1. \A w \in Workers : Enqueue(w) => \A k \in Keys :
         row[k].status # "ABSENT" => row'[k].status # "ABSENT"
  BY EnqueueRows
<1>2. ASSUME NEW w \in Workers, Claim(w) \/ RunEnds(w), NEW k \in Keys,
             row[k].status # "ABSENT"
      PROVE  row'[k].status # "ABSENT"
  <2>1. CASE Claim(w)
    <3>1. PICK j \in Keys : row' = [row EXCEPT ![j].status = "RUNNING",
                                               ![j].ran = @ + 1]
      BY <2>1 DEF Claim
    <3> QED
      BY <1>0, <1>2, <3>1 DEF TypeOK, Row
  <2>2. CASE RunEnds(w)
    <3>1. PICK s \in {"SUCCESS", "FAILED"} : row' = [row EXCEPT ![cur[w]].status = s]
      BY <2>2 DEF RunEnds
    <3> QED
      BY <1>0, <1>2, <3>1 DEF TypeOK, Row
  <2> QED
    BY <1>2, <2>1, <2>2
<1>3. \A w \in Workers : ScheduleRetry(w) \/ RunThrows(w) => \A k \in Keys :
         row[k].status # "ABSENT" => row'[k].status # "ABSENT"
  BY AfterAttemptRows DEF ScheduleRetry, RunThrows
<1>4. \A j \in Keys : Reclaim(j) => \A k \in Keys :
         row[k].status # "ABSENT" => row'[k].status # "ABSENT"
  BY AfterAttemptRows DEF Reclaim
<1>5. \A j \in Keys : RetryDue(j) => \A k \in Keys :
         row[k].status # "ABSENT" => row'[k].status # "ABSENT"
  BY <1>0 DEF RetryDue, TypeOK, Row
<1> QED
  BY <1>1, <1>2, <1>3, <1>4, <1>5
     DEF Next, TickStep, RunStep, vars, StartTick, ReadSchedule, CheckInFlight,
         Advance, EndTick, ReadForRun, Record, Release, Crash, ReadForm, SaveForm, Tick

LEMMA RunsStep == ASSUME TypeOK, RunsInv, [Next]_vars PROVE RunsInv'
<1>0. /\ pc \in [Workers -> Pcs] /\ cur \in [Workers -> Keys \cup {NoKey}]
      /\ \A k \in Keys : row[k].status # "ABSENT" => row'[k].status # "ABSENT"
  BY RowsStay DEF TypeOK
<1>1. CASE UNCHANGED <<pc, cur>>
  BY <1>0, <1>1 DEF RunsInv, Runs
<1>2. ASSUME NEW w \in Workers, TickStep(w) \/ Release(w) \/ Crash(w), ~Claim(w)
      PROVE  RunsInv'
  <2>1. /\ ~Runs(w)'
        /\ \A v \in Workers : v # w => pc'[v] = pc[v] /\ cur'[v] = cur[v]
    BY <1>0, <1>2 DEF TickStep, StartTick, ReadSchedule, CheckInFlight, Enqueue, Advance,
                      EndTick, Release, Crash, Goto, Runs
  <2> QED
    BY <1>0, <2>1 DEF RunsInv, Runs
<1>3. ASSUME NEW w \in Workers, Claim(w) PROVE RunsInv'
  <2>1. PICK k \in Keys : row[k].status = "QUEUED" /\ cur' = [cur EXCEPT ![w] = k]
    BY <1>3 DEF Claim
  <2>2. \A v \in Workers : v # w => pc'[v] = pc[v] /\ cur'[v] = cur[v]
    BY <1>0, <1>3, <2>1 DEF Claim, Goto
  <2> QED
    BY <1>0, <2>1, <2>2 DEF RunsInv, Runs
<1>4. ASSUME NEW w \in Workers, RunStep(w), ~Release(w) PROVE RunsInv'
  <2>1. Runs(w) /\ cur' = cur /\ \A v \in Workers : v # w => pc'[v] = pc[v]
    BY <1>0, <1>4 DEF RunStep, ReadForRun, RunEnds, ScheduleRetry, RunThrows, Record,
                      Goto, Runs
  <2> QED
    BY <1>0, <2>1 DEF RunsInv, Runs
<1> QED
  BY <1>1, <1>2, <1>3, <1>4
     DEF Next, TickStep, RunStep, vars, RetryDue, Reclaim, ReadForm, SaveForm, Tick

\* All workers that enqueue for one version of the form have read the same
\* slot: it was moved since by an interval from now, if it was moved.
SlotInv ==
    /\ \A w \in Workers : Ticking(w) => at[w] = clock
    /\ \A k \in Keys : row[k].born <= clock /\ row[k].era <= saves
    /\ setting.enabled => setting.next \in Nat /\ Apart(setting.next, saves)
    /\ \A w \in Workers : Enqueuing(w) =>
          /\ snap[w].set.next \in Nat /\ snap[w].set.next <= clock
          /\ snap[w].era <= saves
          /\ Apart(snap[w].set.next, snap[w].era)
          /\ snap[w].era = saves /\ setting.enabled =>
                \/ setting.next = snap[w].set.next
                \/ setting.next >= clock + MinInterval
    /\ \A v, w \in Workers : Enqueuing(v) /\ Enqueuing(w) /\ snap[v].era = snap[w].era
                                => snap[v].set.next = snap[w].set.next

\* A step that creates no row, begins no tick and moves no slot.
LEMMA SlotsAlone ==
    ASSUME TypeOK, TypeOK', SlotInv, SlotsAreSpaced, UNCHANGED <<clock, saves>>,
           setting'.enabled => setting.enabled /\ setting'.next = setting.next,
           \A k \in Keys : /\ row'[k].born = row[k].born /\ row'[k].era = row[k].era
                           /\ row'[k].status # "ABSENT" => row[k].status # "ABSENT",
           \A w \in Workers : /\ Enqueuing(w)' => Enqueuing(w) /\ snap'[w] = snap[w]
                              /\ Ticking(w)' => Ticking(w) /\ at'[w] = at[w]
    PROVE  SlotInv' /\ SlotsAreSpaced'
<1>1. \A n, e : Apart(n, e) => Apart(n, e)'
  BY DEF Apart
<1>2. SlotInv'
  BY <1>1 DEF SlotInv
<1>3. SlotsAreSpaced'
  BY DEF SlotsAreSpaced
<1> QED
  BY <1>2, <1>3

LEMMA SlotStep ==
    ASSUME TypeOK, TypeOK', RunsInv, SlotInv, SlotsAreSpaced, [Next]_vars, "stall" \notin Faults
    PROVE  SlotInv' /\ SlotsAreSpaced'
<1>0. /\ clock \in Nat /\ saves \in Nat /\ setting \in Setting
      /\ pc \in [Workers -> Pcs] /\ at \in [Workers -> Nat]
      /\ snap \in [Workers -> [set: Setting, era: Nat]]
      /\ \A k \in Keys : row[k].born \in Nat /\ row[k].era \in Nat
      /\ MinInterval \in Nat \ {0}
  BY ScheduleAssumption DEF TypeOK, Row
<1>1. CASE UNCHANGED vars
  BY <1>1, SlotsAlone DEF vars, Enqueuing, Ticking
\* tick().
<1>2. ASSUME NEW w \in Workers, StartTick(w) PROVE SlotInv' /\ SlotsAreSpaced'
  <2>1. /\ pc'[w] = "list" /\ at'[w] = clock
        /\ \A v \in Workers : v # w => pc'[v] = pc[v] /\ at'[v] = at[v]
        /\ UNCHANGED <<clock, setting, row, snap, saves>>
    BY <1>0, <1>2 DEF StartTick, Goto
  <2>2. SlotInv'
    BY <2>1 DEF SlotInv, Enqueuing, Ticking, Apart
  <2>3. SlotsAreSpaced'
    BY <2>1 DEF SlotsAreSpaced
  <2> QED
    BY <2>2, <2>3
<1>3. ASSUME NEW w \in Workers, ReadSchedule(w) PROVE SlotInv' /\ SlotsAreSpaced'
  <2>0. pc[w] = "list" /\ at[w] = clock /\ UNCHANGED <<clock, setting, row, saves>>
    BY <1>3 DEF ReadSchedule, SlotInv, Ticking
  <2>1. CASE pc'[w] = "check"
    <3>1. /\ setting.enabled /\ IsDue(Of(setting), setting.next, at[w])
          /\ snap' = [snap EXCEPT ![w] = [set |-> setting, era |-> saves]]
          /\ at' = at /\ pc' = [pc EXCEPT ![w] = "check"]
      BY <1>0, <1>3, <2>1 DEF ReadSchedule, Goto
    <3>2. setting.next \in Nat /\ setting.next <= clock /\ Apart(setting.next, saves)
      <4>1. setting.next \in Nat /\ Apart(setting.next, saves)
        BY <3>1 DEF SlotInv
      <4>2. setting.next # NoTime => setting.next <= at[w]
        BY <3>1 DEF IsDue
      <4> QED
        BY <2>0, <4>1, <4>2, ScheduleAssumption
    <3>3. /\ snap'[w].set = setting /\ snap'[w].era = saves
          /\ \A v \in Workers : v # w => pc'[v] = pc[v] /\ snap'[v] = snap[v]
          /\ Ticking(w)
      BY <1>0, <2>0, <3>1 DEF Ticking
    <3>4. \A v \in Workers : Enqueuing(v) /\ snap[v].era = saves
                                => snap[v].set.next = setting.next
      BY <1>0, <3>1, <3>2 DEF SlotInv
    <3>5. SlotInv'
      <4>1. \A v \in Workers : Ticking(v)' => at'[v] = clock'
        BY <2>0, <3>1, <3>3 DEF SlotInv, Ticking
      <4>2. \A v \in Workers : Enqueuing(v)' /\ v # w => Enqueuing(v)
        BY <3>3 DEF Enqueuing
      <4>3. \A n, e : Apart(n, e)' <=> Apart(n, e)
        BY <2>0 DEF Apart
      <4>4. \A v \in Workers : Enqueuing(v)' =>
              /\ snap'[v].set.next \in Nat /\ snap'[v].set.next <= clock'
              /\ snap'[v].era <= saves'
              /\ Apart(snap'[v].set.next, snap'[v].era)
              /\ snap'[v].era = saves' /\ setting'.enabled =>
                    \/ setting'.next = snap'[v].set.next
                    \/ setting'.next >= clock' + MinInterval
        BY <1>0, <2>0, <3>2, <3>3, <4>2 DEF SlotInv
      <4>5. \A u, v \in Workers :
              Enqueuing(u)' /\ Enqueuing(v)' /\ snap'[u].era = snap'[v].era
                 => snap'[u].set.next = snap'[v].set.next
        BY <3>3, <3>4, <4>2 DEF SlotInv
      <4> QED
        BY <2>0, <4>1, <4>3, <4>4, <4>5 DEF SlotInv
    <3>6. SlotsAreSpaced'
      BY <2>0 DEF SlotsAreSpaced
    <3> QED
      BY <3>5, <3>6
  <2>2. CASE pc'[w] # "check"
    <3>1. /\ pc' = [pc EXCEPT ![w] = "claim"]
          /\ \A v \in Workers : v # w => snap'[v] = snap[v] /\ at'[v] = at[v]
      BY <1>0, <1>3, <2>2 DEF ReadSchedule, Goto, Forget
    <3> QED
      BY <1>0, <2>0, <3>1, SlotsAlone DEF Enqueuing, Ticking
  <2> QED
    BY <2>1, <2>2
<1>4. ASSUME NEW w \in Workers, CheckInFlight(w) PROVE SlotInv' /\ SlotsAreSpaced'
  <2>1. /\ pc[w] = "check"
        /\ \/ pc'[w] = "claim"
           \/ pc'[w] = "enqueue" /\ snap' = snap /\ at' = at
        /\ \A v \in Workers : v # w => pc'[v] = pc[v]
        /\ UNCHANGED <<clock, setting, row, saves>>
    BY <1>0, <1>4 DEF CheckInFlight, Goto
  <2>2. \A v \in Workers : v # w => snap'[v] = snap[v] /\ at'[v] = at[v]
    BY <1>0, <1>4 DEF CheckInFlight, Forget
  <2> QED
    BY <2>1, <2>2, SlotsAlone DEF Enqueuing, Ticking
<1>5. ASSUME NEW w \in Workers, Enqueue(w) PROVE SlotInv' /\ SlotsAreSpaced'
  <2> DEFINE n == snap[w].set.next
             e == snap[w].era
             k == DedupeKey(n)
  <2>1. /\ Enqueuing(w) /\ n \in Nat /\ n <= clock /\ e <= saves /\ e \in Nat /\ Apart(n, e)
        /\ e = saves /\ setting.enabled =>
              setting.next = n \/ setting.next >= clock + MinInterval
    BY <1>0, <1>5 DEF Enqueue, SlotInv, Enqueuing
  <2>2. Slot(w) = n
    BY <2>1, ScheduleAssumption DEF Slot
  <2>3. \A j \in Keys :
           \/ row'[j] = row[j] /\ (j = k => row[j].status # "ABSENT")
           \/ /\ j = k /\ row[j].status = "ABSENT"
              /\ row'[j].born = clock /\ row'[j].era = e
    BY <1>5, <2>2, EnqueueRows
  <2>4. /\ UNCHANGED <<clock, setting, at, snap, saves>>
        /\ pc'[w] = "advance"
        /\ \A v \in Workers : v # w => pc'[v] = pc[v]
    BY <1>0, <1>5 DEF Enqueue, Goto
  <2>5. \A m, f : /\ Apart(m, f)
                  /\ f = e => DedupeKey(m) = k \/ clock + MinInterval <= m
                  => Apart(m, f)'
    BY <2>3 DEF Apart
  <2>6. SlotInv'
    <3>1. \A v \in Workers : Ticking(v)' => at'[v] = clock'
      BY <2>1, <2>4 DEF SlotInv, Ticking, Enqueuing
    <3>2. \A j \in Keys : row'[j].born <= clock' /\ row'[j].era <= saves'
      BY <1>0, <2>1, <2>3, <2>4 DEF SlotInv
    <3>3. setting'.enabled => setting'.next \in Nat /\ Apart(setting.next, saves)'
      BY <2>1, <2>4, <2>5 DEF SlotInv
    <3>4. \A v \in Workers : Enqueuing(v)' => Enqueuing(v)
      BY <2>1, <2>4 DEF Enqueuing
    <3>5. \A v \in Workers : Enqueuing(v) => Apart(snap[v].set.next, snap[v].era)'
      BY <2>1, <2>4, <2>5 DEF SlotInv
    <3> QED
      BY <2>4, <3>1, <3>2, <3>3, <3>4, <3>5 DEF SlotInv
  <2>7. SlotsAreSpaced'
    <3>1. \A j \in Keys : row[j].status # "ABSENT" /\ row[j].era = e /\ j # k
                             => row[j].born + MinInterval <= clock
      BY <1>0, <2>1 DEF Apart
    <3> QED
      BY <1>0, <2>3, <3>1 DEF SlotsAreSpaced
  <2> QED
    BY <2>6, <2>7
<1>6. ASSUME NEW w \in Workers, Advance(w) PROVE SlotInv' /\ SlotsAreSpaced'
  <2>1. /\ at[w] = clock /\ ~Enqueuing(w) /\ pc'[w] = "claim"
        /\ \A v \in Workers : v # w => pc'[v] = pc[v] /\ snap'[v] = snap[v] /\ at'[v] = at[v]
        /\ UNCHANGED <<clock, row, saves>>
    BY <1>0, <1>6 DEF Advance, SlotInv, Ticking, Enqueuing, Goto, Forget
  <2>2. setting'.next \in Nat /\ setting'.next >= clock + MinInterval
    BY <1>6, <2>1, AdvanceSets
  <2>3. \A m, f : Apart(m, f)' <=> Apart(m, f)
    BY <2>1 DEF Apart
  <2>4. \A f : Apart(setting'.next, f)
    BY <1>0, <2>2 DEF Apart, SlotInv
  <2>5. \A v \in Workers : /\ Enqueuing(v)' => Enqueuing(v) /\ snap'[v] = snap[v]
                           /\ Ticking(v)' => Ticking(v) /\ at'[v] = at[v]
    BY <2>1 DEF Enqueuing, Ticking
  <2>6. SlotInv'
    BY <2>1, <2>2, <2>3, <2>4, <2>5 DEF SlotInv
  <2>7. SlotsAreSpaced'
    BY <2>1 DEF SlotsAreSpaced
  <2> QED
    BY <2>6, <2>7
<1>7. ASSUME NEW w \in Workers, Claim(w) PROVE SlotInv' /\ SlotsAreSpaced'
  <2>1. PICK j \in Keys : /\ row[j].status = "QUEUED"
                          /\ row' = [row EXCEPT ![j].status = "RUNNING", ![j].ran = @ + 1]
    BY <1>7 DEF Claim
  <2>2. \A k \in Keys : /\ row'[k].born = row[k].born /\ row'[k].era = row[k].era
                        /\ row'[k].status # "ABSENT" => row[k].status # "ABSENT"
    BY <2>1 DEF TypeOK, Row
  <2> QED
    BY <1>0, <1>7, <2>2, SlotsAlone DEF Claim, Goto, Enqueuing, Ticking
<1>8. ASSUME NEW w \in Workers, EndTick(w) PROVE SlotInv' /\ SlotsAreSpaced'
  BY <1>0, <1>8, SlotsAlone DEF EndTick, Goto, Enqueuing, Ticking
\* Runs, and rows that wait.
<1>9. ASSUME NEW w \in Workers, ReadForRun(w) PROVE SlotInv' /\ SlotsAreSpaced'
  <2>1. /\ pc'[w] = "run" /\ UNCHANGED <<clock, setting, row, at, saves>>
        /\ \A v \in Workers : v # w => pc'[v] = pc[v] /\ snap'[v] = snap[v]
    BY <1>0, <1>9 DEF ReadForRun, Goto
  <2> QED
    BY <2>1, SlotsAlone DEF Enqueuing, Ticking
<1>10. ASSUME NEW w \in Workers, RunEnds(w) PROVE SlotInv' /\ SlotsAreSpaced'
  <2>1. PICK s \in {"SUCCESS", "FAILED"} : row' = [row EXCEPT ![cur[w]].status = s]
    BY <1>10 DEF RunEnds
  <2>2. PICK l \in {"retry", "record"} : pc' = [pc EXCEPT ![w] = l]
    BY <1>10 DEF RunEnds, Goto
  <2>3. /\ UNCHANGED <<clock, setting, at, snap, saves>>
        /\ row[cur[w]].status # "ABSENT"
    BY <1>10 DEF RunEnds, RunsInv, Runs
  <2>4. \A k \in Keys : /\ row'[k].born = row[k].born /\ row'[k].era = row[k].era
                        /\ row'[k].status # "ABSENT" => row[k].status # "ABSENT"
    BY <2>1, <2>3 DEF TypeOK, Row
  <2>5. \A v \in Workers : /\ Enqueuing(v)' => Enqueuing(v)
                           /\ Ticking(v)' => Ticking(v)
    BY <1>0, <2>2 DEF Enqueuing, Ticking
  <2> QED
    BY <2>3, <2>4, <2>5, SlotsAlone
<1>11. ASSUME NEW w \in Workers, ScheduleRetry(w) \/ RunThrows(w)
       PROVE  SlotInv' /\ SlotsAreSpaced'
  <2>1. PICK limit \in {RetryLimit, ThrowLimit} :
           row' = AfterAttempt(cur[w], row[cur[w]].attempt, limit)
    BY <1>11 DEF ScheduleRetry, RunThrows
  <2>2. row[cur[w]].status # "ABSENT"
    BY <1>11 DEF ScheduleRetry, RunThrows, RunsInv, Runs
  <2>3. \A k \in Keys : /\ row'[k].born = row[k].born /\ row'[k].era = row[k].era
                        /\ row'[k].status # "ABSENT" => row[k].status # "ABSENT"
    BY <2>1, <2>2, AfterAttemptRows
  <2>4. \A v \in Workers : /\ Enqueuing(v)' => Enqueuing(v) /\ snap'[v] = snap[v]
                           /\ Ticking(v)' => Ticking(v)
    BY <1>0, <1>11 DEF ScheduleRetry, RunThrows, Goto, Enqueuing, Ticking
  <2> QED
    BY <1>11, <2>3, <2>4, SlotsAlone DEF ScheduleRetry, RunThrows
<1>12. ASSUME NEW w \in Workers, Record(w) PROVE SlotInv' /\ SlotsAreSpaced'
  <2>1. /\ pc' = [pc EXCEPT ![w] = "release"] /\ snap' = [snap EXCEPT ![w] = NoSnap]
        /\ UNCHANGED <<clock, row, at, saves>>
    BY <1>12 DEF Record, Goto
  <2>2. \A v \in Workers : /\ Enqueuing(v)' => Enqueuing(v) /\ snap'[v] = snap[v]
                           /\ Ticking(v)' => Ticking(v)
    BY <1>0, <2>1 DEF Enqueuing, Ticking
  <2>3. setting'.enabled => setting.enabled /\ setting'.next = setting.next
    BY <1>12, RecordSets
  <2> QED
    BY <2>1, <2>2, <2>3, SlotsAlone
<1>13. ASSUME NEW w \in Workers, Release(w) \/ Crash(w) PROVE SlotInv' /\ SlotsAreSpaced'
  <2>1. /\ ~Enqueuing(w)' /\ ~Ticking(w)' /\ UNCHANGED <<clock, setting, row, saves>>
        /\ \A v \in Workers : v # w => pc'[v] = pc[v] /\ snap'[v] = snap[v] /\ at'[v] = at[v]
    BY <1>0, <1>13 DEF Release, Crash, Goto, Forget, Enqueuing, Ticking
  <2> QED
    BY <2>1, SlotsAlone DEF Enqueuing, Ticking
<1>14. ASSUME NEW k \in Keys, Reclaim(k) PROVE SlotInv' /\ SlotsAreSpaced'
  <2>1. /\ row' = AfterAttempt(k, row[k].attempt, RetryLimit) /\ row[k].status = "RUNNING"
        /\ UNCHANGED <<clock, setting, pc, at, snap, saves>>
    BY <1>14 DEF Reclaim
  <2>2. \A j \in Keys : /\ row'[j].born = row[j].born /\ row'[j].era = row[j].era
                        /\ row'[j].status # "ABSENT" => row[j].status # "ABSENT"
    BY <2>1, AfterAttemptRows
  <2> QED
    BY <2>1, <2>2, SlotsAlone DEF Enqueuing, Ticking
<1>15. ASSUME NEW k \in Keys, RetryDue(k) PROVE SlotInv' /\ SlotsAreSpaced'
  <2>1. \A j \in Keys : /\ row'[j].born = row[j].born /\ row'[j].era = row[j].era
                        /\ row'[j].status = row[j].status
    BY <1>15 DEF RetryDue, TypeOK, Row
  <2> QED
    BY <1>15, <2>1, SlotsAlone DEF RetryDue, Enqueuing, Ticking
\* The form, and time.
<1>16. CASE ReadForm
  BY <1>16, SlotsAlone DEF ReadForm, Enqueuing, Ticking
<1>17. CASE SaveForm
  <2>1. saves' = saves + 1 /\ UNCHANGED <<clock, row, pc, at, snap>>
    BY <1>17 DEF SaveForm
  <2>2. setting'.enabled => setting'.next \in Nat
    BY <1>17, SaveSets
  <2>3. \A n, e : Apart(n, e)' <=> Apart(n, e)
    BY <2>1 DEF Apart
  <2>4. \A n : Apart(n, saves + 1)
    BY <1>0 DEF Apart, SlotInv
  <2>5. \A v \in Workers : Enqueuing(v) => snap[v].era <= saves + 1 /\ snap[v].era # saves + 1
    BY <1>0 DEF SlotInv
  <2>6. \A k \in Keys : row[k].era <= saves + 1
    BY <1>0 DEF SlotInv
  <2>7. SlotInv'
    BY <2>1, <2>2, <2>3, <2>4, <2>5, <2>6 DEF SlotInv, Enqueuing, Ticking
  <2>8. SlotsAreSpaced'
    BY <2>1 DEF SlotsAreSpaced
  <2> QED
    BY <2>7, <2>8
<1>18. CASE Tick
  <2>1. /\ clock' = clock + 1 /\ UNCHANGED <<setting, row, pc, at, snap, saves>>
        /\ \A v \in Workers : ~Ticking(v) /\ ~Enqueuing(v)
    BY <1>18 DEF Tick, Ticking, Enqueuing
  <2>2. \A n, e : Apart(n, e)' <=> Apart(n, e)
    BY <2>1 DEF Apart
  <2>3. \A k \in Keys : row[k].born <= clock + 1
    BY <1>0 DEF SlotInv
  <2>4. SlotInv'
    BY <2>1, <2>2, <2>3 DEF SlotInv, Enqueuing, Ticking
  <2>5. SlotsAreSpaced'
    BY <2>1 DEF SlotsAreSpaced
  <2> QED
    BY <2>4, <2>5
<1> QED
  BY <1>1, <1>2, <1>3, <1>4, <1>5, <1>6, <1>7, <1>8, <1>9, <1>10, <1>11, <1>12, <1>13,
     <1>14, <1>15, <1>16, <1>17, <1>18 DEF Next, TickStep, RunStep

-----------------------------------------------------------------------------
(* The theorems.                                                           *)

\* The setting, the rows and what the workers hold keep their types: the next
\* run is an instant or null, and no computation of it leaves the naturals.
THEOREM TypesKept == Spec => []TypeOK
<1>1. Init => TypeOK
  BY TypesInit
<1>2. TypeOK /\ [Next]_vars => TypeOK'
  BY TypesStep
<1> QED
  BY <1>1, <1>2, PTL DEF Spec

\* A row is claimed at most as often as the larger of its two limits says,
\* with every fault: each way back into the queue counts the attempt.
THEOREM AttemptsStayBounded == Spec => []AttemptsAreBounded
<1>1. Init => AttemptInv
  <2>1. Greater(RetryLimit, ThrowLimit) >= 1
    BY AutomationAssumption DEF Greater
  <2> QED
    BY <2>1 DEF Init, AttemptInv, NoRow
<1>2. TypeOK /\ AttemptInv /\ [Next]_vars => AttemptInv'
  BY AttemptStep
<1>3. TypeOK /\ AttemptInv => AttemptsAreBounded
  <2> SUFFICES ASSUME TypeOK, AttemptInv, NEW k \in Keys
               PROVE  row[k].ran <= Greater(RetryLimit, ThrowLimit)
    BY DEF AttemptsAreBounded
  <2>1. row[k].ran \in Nat /\ row[k].attempt \in Nat
    BY DEF TypeOK, Row
  <2>2. Greater(RetryLimit, ThrowLimit) \in Nat
    BY AutomationAssumption DEF Greater
  <2> QED
    BY <2>1, <2>2 DEF AttemptInv
<1> QED
  BY <1>1, <1>2, <1>3, TypesKept, PTL DEF Spec

\* The failures on the row never exceed the runs that failed for good since a
\* success or a save, where no form is saved in the middle of a run and no
\* bookkeeping is lost: a schedule is not paused early.
THEOREM FailuresAreReal ==
    ASSUME "saveInRun" \notin Faults, "lostRecord" \notin Faults
    PROVE  Spec => []NeverPausedEarly
<1>1. Init => FailureInv
  BY DEF Init, FailureInv, Runs, Blank
<1>2. TypeOK /\ TypeOK' /\ FailureInv /\ [Next]_vars => FailureInv'
  BY FailureStep
<1>3. FailureInv => NeverPausedEarly
  BY DEF FailureInv, NeverPausedEarly
<1> QED
  BY <1>1, <1>2, <1>3, TypesKept, PTL DEF Spec

\* Rows of one version of the form are an interval apart, however many workers
\* visit a slot and wherever they are killed, as long as no worker takes an
\* interval to enqueue.
THEOREM SlotsStayApart ==
    ASSUME "stall" \notin Faults PROVE Spec => []SlotsAreSpaced
<1>1. Init => RunsInv /\ SlotInv /\ SlotsAreSpaced
  BY DEF Init, RunsInv, Runs, SlotInv, SlotsAreSpaced, Enqueuing, Ticking, NoRow, Blank
<1>2. TypeOK /\ RunsInv /\ [Next]_vars => RunsInv'
  BY RunsStep
<1>3. /\ TypeOK /\ TypeOK' /\ RunsInv /\ SlotInv /\ SlotsAreSpaced /\ [Next]_vars
      => SlotInv' /\ SlotsAreSpaced'
  BY SlotStep
<1> QED
  BY <1>1, <1>2, <1>3, TypesKept, PTL DEF Spec
=============================================================================
