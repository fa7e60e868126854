----------------------------- MODULE Automation -----------------------------
(***************************************************************************)
(* The schedule of one workspace: its AutomationSetting row, the rows that *)
(* enqueueDueSchedules creates from it, the bookkeeping of runClaimedJob   *)
(* (src/lib/jobs/worker.ts) and the settings form                          *)
(* (src/app/api/automation/route.ts).                                      *)
(*                                                                         *)
(* Claims are one step here: that a workspace has one run at a time is     *)
(* what JobQueue is about and what its proofs show.  The setting is read   *)
(* and written in separate statements, by several workers and the form.    *)
(***************************************************************************)
EXTENDS Schedule, FiniteSets

CONSTANTS
    Workers,       \* processes that call tick()
    Forms,         \* what the user may submit: settings of Schedule
    MaxFailures,   \* MAX_CONSECUTIVE_FAILURES
    RetryLimit,    \* AutomationSetting.retryLimit
    ThrowLimit,    \* the 3 attempts after an exception
    Faults,        \* which of AllFaults may occur
    MaxTime, MaxSaves, MaxCrashes,     \* bounds
    NoKey

AllFaults == {
    "stall",       \* time passes while a tick enqueues
    "saveInRun",   \* the form is saved while a run is under way
    "lostRecord"}  \* the bookkeeping after a run is lost

ASSUME AutomationAssumption ==
    /\ Faults \subseteq AllFaults
    /\ MaxFailures \in Nat \ {0}
    /\ RetryLimit \in Nat \ {0} /\ ThrowLimit \in Nat \ {0}
    /\ MaxTime \in Nat /\ MaxSaves \in Nat /\ MaxCrashes \in Nat
    /\ NoKey \notin Nat
    /\ \A f \in Forms : f \in Settings(Nat, Nat)
    /\ Forms # {}

Times == 0 .. MaxTime
Keys  == {DedupeKey(t) : t \in Times}

VARIABLES
    clock,
    setting,    \* the AutomationSetting row
    row,        \* the SyncJob rows, by dedupeKey
    pc,
    at,         \* the now a tick was started with
    snap,       \* the setting as a worker read it
    cur,        \* the row a worker runs
    res,        \* how its run ended
    form,       \* a PUT that has read the row and not written it yet
    streak,     \* runs that failed for good since a success or a save
    saves, crashes

vars == <<clock, setting, row, pc, at, snap, cur, res, form, streak, saves,
          crashes>>

Statuses == {"ABSENT", "QUEUED", "RUNNING", "SUCCESS", "FAILED"}

\* The columns beside those of Schedule: disabledReason, lastRunAt,
\* nextRunAt, consecutiveFailures.
Setting == [form: Forms, enabled: BOOLEAN, paused: BOOLEAN,
            last: Nat \cup {NoTime}, next: Nat \cup {NoTime}, failures: Nat]

\* born and era are for the properties: when the row was created, and after
\* how many saves its worker had read the setting; ran counts its claims.
Row == [status: Statuses, attempt: Nat, due: BOOLEAN, ran: Nat,
        born: Nat, era: Nat]

NoRow == [status |-> "ABSENT", attempt |-> 1, due |-> FALSE, ran |-> 0,
          born |-> 0, era |-> 0]

Pcs == {"idle", "list", "check", "enqueue", "advance", "claim", "read",
        "run", "retry", "record", "release"}

Results == {"none", "success", "retryable", "permanent", "thrown", "requeued"}

TypeOK ==
    /\ clock \in Nat
    /\ setting \in Setting
    /\ row \in [Keys -> Row]
    /\ pc \in [Workers -> Pcs]
    /\ at \in [Workers -> Nat]
    /\ snap \in [Workers -> [set: Setting, era: Nat]]
    /\ cur \in [Workers -> Keys \cup {NoKey}]
    /\ res \in [Workers -> Results]
    /\ form \in [open: BOOLEAN, last: Nat \cup {NoTime}]
    /\ streak \in Nat /\ saves \in Nat /\ crashes \in Nat

\* What the schedule functions read of a setting.
Of(s) == [s.form EXCEPT !.enabled = s.enabled]

Blank(f) == [form |-> f, enabled |-> FALSE, paused |-> FALSE, last |-> NoTime,
             next |-> NoTime, failures |-> 0]

NoSnap == [set |-> Blank(CHOOSE f \in Forms : TRUE), era |-> 0]

\* Registration creates the row with the column defaults: automation off.
Init ==
    /\ clock = 0
    /\ \E f \in Forms : setting = Blank(f)
    /\ snap = [w \in Workers |-> NoSnap]
    /\ row = [k \in Keys |-> NoRow]
    /\ pc = [w \in Workers |-> "idle"]
    /\ at = [w \in Workers |-> 0]
    /\ cur = [w \in Workers |-> NoKey]
    /\ res = [w \in Workers |-> "none"]
    /\ form = [open |-> FALSE, last |-> NoTime]
    /\ streak = 0 /\ saves = 0 /\ crashes = 0

-----------------------------------------------------------------------------
Goto(w, l) == pc' = [pc EXCEPT ![w] = l]

\* A worker drops what it has read.
Forget(w) == /\ at' = [at EXCEPT ![w] = 0]
             /\ snap' = [snap EXCEPT ![w] = NoSnap]

Runs(w)    == pc[w] \in {"read", "run", "retry", "record", "release"}
InFlight   == \E k \in Keys : row[k].status = "RUNNING"

\* Mutant: the attempt is not counted up.
AfterAttemptUncounted(k, n, limit) ==
    [row EXCEPT ![k] =
        IF n < limit
        THEN [@ EXCEPT !.status = "QUEUED", !.due = FALSE]
        ELSE [@ EXCEPT !.status = "FAILED"]]

\* Where a row goes when attempt n of it failed.
AfterAttempt(k, n, limit) ==
    [row EXCEPT ![k] =
        IF n < limit
        THEN [@ EXCEPT !.status = "QUEUED", !.attempt = n + 1, !.due = FALSE]
        ELSE [@ EXCEPT !.status = "FAILED"]]

-----------------------------------------------------------------------------
(* tick(): enqueueDueSchedules.                                            *)

\* now is taken once, before the reclaim.
StartTick(w) ==
    /\ pc[w] = "idle"
    /\ at' = [at EXCEPT ![w] = clock]
    /\ Goto(w, "list")
    /\ UNCHANGED <<clock, setting, row, snap, cur, res, form, streak, saves, crashes>>

\* The findMany, the suspended ones left out, and isDue.
ReadSchedule(w) ==
    /\ pc[w] = "list"
    /\ \/ /\ setting.enabled /\ ~setting.paused
          /\ IsDue(Of(setting), setting.next, at[w])
          /\ snap' = [snap EXCEPT ![w] = [set |-> setting, era |-> saves]]
          /\ Goto(w, "check")
          /\ UNCHANGED at
       \/ /\ \/ ~setting.enabled \/ setting.paused
             \/ ~IsDue(Of(setting), setting.next, at[w])
          /\ Forget(w)
          /\ Goto(w, "claim")
    /\ UNCHANGED <<clock, setting, row, cur, res, form, streak, saves, crashes>>

\* hasRunningJob: no scheduled run on top of one in flight.
CheckInFlight(w) ==
    /\ pc[w] = "check"
    /\ \/ InFlight /\ Forget(w) /\ Goto(w, "claim")
       \/ ~InFlight /\ Goto(w, "enqueue") /\ UNCHANGED <<at, snap>>
    /\ UNCHANGED <<clock, setting, row, cur, res, form, streak, saves, crashes>>

Slot(w) == IF snap[w].set.next = NoTime THEN at[w] ELSE snap[w].set.next

\* Mutant: a slot that already has its row is skipped.
EnqueueOrSkip(w) ==
    /\ pc[w] = "enqueue"
    /\ LET k == DedupeKey(Slot(w))
       IN  \/ /\ row[k].status = "ABSENT"
              /\ row' = [row EXCEPT ![k] =
                        [NoRow EXCEPT !.status = "QUEUED", !.due = TRUE,
                                      !.born = clock, !.era = snap[w].era]]
              /\ Goto(w, "advance")
              /\ UNCHANGED <<at, snap>>
           \/ /\ row[k].status # "ABSENT"
              /\ Forget(w)
              /\ Goto(w, "claim")
              /\ UNCHANGED row
    /\ UNCHANGED <<clock, setting, cur, res, form, streak, saves, crashes>>

\* enqueueJob: a new row unless one has the slot's key, whatever became of it.
Enqueue(w) ==
    /\ pc[w] = "enqueue"
    /\ LET k == DedupeKey(Slot(w))
       IN  row' = IF row[k].status # "ABSENT" THEN row
                  ELSE [row EXCEPT ![k] =
                        [NoRow EXCEPT !.status = "QUEUED", !.due = TRUE,
                                      !.born = clock, !.era = snap[w].era]]
    /\ Goto(w, "advance")
    /\ UNCHANGED <<clock, setting, at, snap, cur, res, form, streak, saves, crashes>>

\* Mutant: the next run is counted from the slot, not from the tick.
AdvanceFromSlot(w) ==
    /\ pc[w] = "advance"
    /\ setting' = [setting EXCEPT !.next =
            ComputeNextRun([Of(snap[w].set) EXCEPT !.enabled = TRUE], Slot(w), at[w])]
    /\ Forget(w)
    /\ Goto(w, "claim")
    /\ UNCHANGED <<clock, row, cur, res, form, streak, saves, crashes>>

\* "Move the cursor forward immediately": nextRunAt and nothing else.
Advance(w) ==
    /\ pc[w] = "advance"
    /\ setting' = [setting EXCEPT !.next =
            ComputeNextRun([Of(snap[w].set) EXCEPT !.enabled = TRUE], at[w], at[w])]
    /\ Forget(w)
    /\ Goto(w, "claim")
    /\ UNCHANGED <<clock, row, cur, res, form, streak, saves, crashes>>

-----------------------------------------------------------------------------
(* tick(): claim and run.                                                  *)

\* claimNextJob, which looks neither at the setting nor at the hour.
Claim(w) ==
    /\ pc[w] = "claim"
    /\ \A v \in Workers : ~Runs(v)
    /\ \E k \in Keys :
        /\ row[k].status = "QUEUED" /\ row[k].due
        /\ row' = [row EXCEPT ![k].status = "RUNNING", ![k].ran = @ + 1]
        /\ cur' = [cur EXCEPT ![w] = k]
    /\ Goto(w, "read")
    /\ UNCHANGED <<clock, setting, at, snap, res, form, streak, saves, crashes>>

\* Nothing to claim, somebody else is running, or maxJobs is reached.
EndTick(w) ==
    /\ pc[w] = "claim"
    /\ Goto(w, "idle")
    /\ UNCHANGED <<clock, setting, row, at, snap, cur, res, form, streak, saves, crashes>>

\* The findUnique at the start of runClaimedJob.
ReadForRun(w) ==
    /\ pc[w] = "read"
    /\ snap' = [snap EXCEPT ![w] = [set |-> setting, era |-> saves]]
    /\ Goto(w, "run")
    /\ UNCHANGED <<clock, setting, row, at, cur, res, form, streak, saves, crashes>>

\* runSheetSync returns: the row has its outcome, and a permanent failure is
\* final.
RunEnds(w) ==
    /\ pc[w] = "run"
    /\ \E r \in {"success", "retryable", "permanent"} :
        /\ res' = [res EXCEPT ![w] = r]
        /\ row' = [row EXCEPT ![cur[w]].status =
                        IF r = "success" THEN "SUCCESS" ELSE "FAILED"]
        /\ streak' = IF r = "permanent" THEN streak + 1 ELSE streak
        /\ Goto(w, IF r = "retryable" THEN "retry" ELSE "record")
    /\ UNCHANGED <<clock, setting, at, snap, cur, form, saves, crashes>>

\* scheduleRetry for RETRYABLE_CODES, by the attempt of the claim.
ScheduleRetry(w) ==
    /\ pc[w] = "retry"
    /\ LET n == row[cur[w]].attempt
       IN  /\ row' = AfterAttempt(cur[w], n, RetryLimit)
           /\ res' = [res EXCEPT ![w] = IF n < RetryLimit THEN "requeued" ELSE @]
           /\ streak' = IF n < RetryLimit THEN streak ELSE streak + 1
    /\ Goto(w, "record")
    /\ UNCHANGED <<clock, setting, at, snap, cur, form, saves, crashes>>

\* An exception: the catch block requeues up to three times, and leaves the
\* setting alone.
RunThrows(w) ==
    /\ pc[w] \in {"run", "retry"}
    /\ row' = AfterAttempt(cur[w], row[cur[w]].attempt, ThrowLimit)
    /\ streak' = IF row[cur[w]].attempt < ThrowLimit THEN streak ELSE streak + 1
    /\ res' = [res EXCEPT ![w] = "thrown"]
    /\ snap' = [snap EXCEPT ![w] = NoSnap]
    /\ Goto(w, "release")
    /\ UNCHANGED <<clock, setting, at, cur, form, saves, crashes>>

\* Mutant: an attempt that will be retried counts as a failure.
FailuresAfterEach(w) == snap[w].set.failures + 1

\* The count is taken from the snapshot made before the run.
FailuresAfter(w) ==
    snap[w].set.failures + (IF res[w] = "requeued" THEN 0 ELSE 1)

\* The columns written after a run. Its error is swallowed.
Recorded(w) ==
    IF res[w] = "success"
    THEN [setting EXCEPT !.last = clock, !.failures = 0]
    ELSE LET n == FailuresAfter(w)
         IN  IF n >= MaxFailures
             THEN [setting EXCEPT !.last = clock, !.failures = n,
                        !.enabled = FALSE, !.next = NoTime, !.paused = TRUE]
             ELSE [setting EXCEPT !.last = clock, !.failures = n]

Record(w) ==
    /\ pc[w] = "record"
    /\ setting' \in {Recorded(w)} \cup
                    (IF "lostRecord" \in Faults THEN {setting} ELSE {})
    /\ streak' = IF res[w] = "success" THEN 0 ELSE streak
    /\ snap' = [snap EXCEPT ![w] = NoSnap]
    /\ Goto(w, "release")
    /\ UNCHANGED <<clock, row, at, cur, res, form, saves, crashes>>

Release(w) ==
    /\ pc[w] = "release"
    /\ cur' = [cur EXCEPT ![w] = NoKey]
    /\ res' = [res EXCEPT ![w] = "none"]
    /\ Goto(w, "claim")
    /\ UNCHANGED <<clock, setting, row, at, snap, form, streak, saves, crashes>>

-----------------------------------------------------------------------------
(* PUT /api/automation.                                                    *)

\* findUnique: the anchor of the next run is read here and used below.
ReadForm ==
    /\ ~form.open /\ saves < MaxSaves
    /\ form' = [open |-> TRUE, last |-> setting.last]
    /\ UNCHANGED <<clock, setting, row, pc, at, snap, cur, res, streak, saves, crashes>>

\* The upsert: clears the suspension, and the streak when it enables.
SaveForm ==
    /\ form.open
    /\ "saveInRun" \in Faults \/ \A w \in Workers : ~Runs(w)
    /\ \E f \in Forms, on \in BOOLEAN :
        /\ setting' = [setting EXCEPT
                !.form = f, !.enabled = on, !.paused = FALSE,
                !.next = ComputeNextRun([f EXCEPT !.enabled = on], form.last, clock),
                !.failures = IF on THEN 0 ELSE @]
        /\ streak' = IF on THEN 0 ELSE streak
    /\ form' = [open |-> FALSE, last |-> NoTime]
    /\ saves' = saves + 1
    /\ UNCHANGED <<clock, row, pc, at, snap, cur, res, crashes>>

-----------------------------------------------------------------------------
(* Time, and killed workers.                                               *)

\* A tick enqueues within less than an interval, unless it stalls; here, at
\* one instant.
Tick ==
    /\ clock < MaxTime
    /\ \/ "stall" \in Faults
       \/ \A w \in Workers : pc[w] \notin {"list", "check", "enqueue", "advance"}
    /\ clock' = clock + 1
    /\ UNCHANGED <<setting, row, pc, at, snap, cur, res, form, streak, saves, crashes>>

\* nextAttemptAt passes.
RetryDue(k) ==
    /\ row[k].status = "QUEUED" /\ ~row[k].due
    /\ row' = [row EXCEPT ![k].due = TRUE]
    /\ UNCHANGED <<clock, setting, pc, at, snap, cur, res, form, streak, saves, crashes>>

\* A kill, or in the enqueueing part a statement that throws, which the loop
\* survives. Between a run's end and its bookkeeping it is a "lostRecord".
Crash(w) ==
    /\ crashes < MaxCrashes
    /\ pc[w] # "idle"
    /\ pc[w] = "record" => "lostRecord" \in Faults
    /\ crashes' = crashes + 1
    /\ cur' = [cur EXCEPT ![w] = NoKey]
    /\ res' = [res EXCEPT ![w] = "none"]
    /\ Forget(w)
    /\ Goto(w, "idle")
    /\ UNCHANGED <<clock, setting, row, form, streak, saves>>

\* reclaimStaleJobs, once the heartbeat of a killed run is old.
Reclaim(k) ==
    /\ row[k].status = "RUNNING"
    /\ \A w \in Workers : cur[w] # k
    /\ row' = AfterAttempt(k, row[k].attempt, RetryLimit)
    /\ streak' = IF row[k].attempt < RetryLimit THEN streak ELSE streak + 1
    /\ UNCHANGED <<clock, setting, pc, at, snap, cur, res, form, saves, crashes>>

-----------------------------------------------------------------------------
TickStep(w) ==
    \/ StartTick(w) \/ ReadSchedule(w) \/ CheckInFlight(w) \/ Enqueue(w)
    \/ Advance(w) \/ Claim(w) \/ EndTick(w)

RunStep(w) ==
    \/ ReadForRun(w) \/ RunEnds(w) \/ ScheduleRetry(w) \/ RunThrows(w)
    \/ Record(w) \/ Release(w)

Next ==
    \/ \E w \in Workers : TickStep(w) \/ RunStep(w) \/ Crash(w)
    \/ \E k \in Keys : RetryDue(k) \/ Reclaim(k)
    \/ ReadForm \/ SaveForm \/ Tick

Spec == Init /\ [][Next]_vars

\* Workers loop and a run ends while their process lives, and a killed run is
\* reclaimed.
Fairness ==
    /\ \A w \in Workers : WF_vars(TickStep(w) \/ RunStep(w))
    /\ \A k \in Keys : WF_vars(Reclaim(k))

FairSpec == Spec /\ Fairness

-----------------------------------------------------------------------------
(* Properties.                                                             *)

\* A schedule is never paused early: the failures on the row are at most the
\* runs that really failed for good since the last success or save, although
\* every writer computes them from a snapshot (runClaimedJob), and "saving
\* the form ... clears a suspension and the failure streak that caused it"
\* (the route).
NeverPausedEarly == setting.failures <= streak

\* A job is claimed at most as often as its attempts allow, whatever mixture
\* of retries, exceptions and lost workers it meets.
AttemptsAreBounded ==
    \A k \in Keys : row[k].ran <= Greater(RetryLimit, ThrowLimit)

\* "Catch up once rather than queuing a backlog": two rows created from the
\* same version of the form are created at least an interval apart, although
\* several workers visit one slot and nextRunAt is written after the row.
SlotsAreSpaced ==
    \A j, k \in Keys :
        /\ j # k /\ row[j].status # "ABSENT" /\ row[k].status # "ABSENT"
        /\ row[j].era = row[k].era /\ row[j].born <= row[k].born
        => row[k].born - row[j].born >= MinInterval

\* A slot that is due on an enabled schedule is dealt with: it does not stay
\* due while its hours last, even if workers die between its two statements.
SlotIsPending ==
    /\ setting.enabled /\ ~setting.paused
    /\ IsDue(Of(setting), setting.next, clock)

DueSlotsAreServed == SlotIsPending ~> ~SlotIsPending

\* "When off, orders only move when you press Sync Now"
\* (src/components/automation/AutomationForm.tsx): no run starts while
\* automation is off.
OffMeansOff ==
    [][\A w \in Workers : pc[w] = "claim" /\ pc'[w] = "read" => setting.enabled]_vars

\* A schedule whose runs keep failing is paused.
FailingIsPaused ==
    streak >= MaxFailures /\ (\A w \in Workers : ~Runs(w)) => ~setting.enabled

=============================================================================
