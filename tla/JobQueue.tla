------------------------------ MODULE JobQueue ------------------------------
(***************************************************************************)
(* The durable job queue (src/lib/jobs/queue.ts), the worker that drains   *)
(* it (src/lib/jobs/worker.ts) and the three HTTP routes that start work   *)
(* beside it: POST /api/sync (Requests), POST /api/sync/orders/[id]/retry  *)
(* (Retries) and POST /api/ebay/import (Imports).                          *)
(*                                                                         *)
(* Every action is one database statement, or one read followed by a       *)
(* decision on it, so that the processes interleave where the code awaits. *)
(* What a run does to the sheet is the module SheetSync; here it is the    *)
(* interval from ClaimJob to FinishRun.                                    *)
(*                                                                         *)
(* Time is abstract.  beat is "stale" once heartbeatAt (or startedAt, when *)
(* the row never had a heartbeat) is past the five minute cut-off, and due *)
(* says that nextAttemptAt is null or past.                                *)
(***************************************************************************)
EXTENDS Naturals, FiniteSets

CONSTANTS
    Users,       \* workspaces
    Jobs,        \* ids of the SyncJob rows that may be created (bound)
    Workers,     \* processes that call tick(): npm run worker, the tick route
    Requests,    \* invocations of POST /api/sync
    Retries,     \* invocations of the retry-one-order route
    Imports,     \* invocations of the import route
    Scheduled,   \* the workspaces whose automation is enabled
    RetryLimit,  \* their AutomationSetting.retryLimit
    DefaultAttempts, \* SyncJob.maxAttempts @default(3); a small run may take 2
    MaxCrashes,  \* how many processes may be killed (bound)
    MayStall,    \* may a live process be suspended past the time-outs?
    NoUser, NoJob

ASSUME QueueAssumption ==
    /\ Scheduled \subseteq Users
    /\ RetryLimit \in Nat \ {0}
    /\ DefaultAttempts \in Nat \ {0}
    /\ MaxCrashes \in Nat
    /\ MayStall \in BOOLEAN
    /\ NoUser \notin Users
    /\ NoJob \notin Jobs
    /\ Workers \cap (Requests \cup Retries \cup Imports) = {}
    /\ Requests \cap (Retries \cup Imports) = {}
    /\ Retries \cap Imports = {}

Claimers == Workers \cup Requests
Procs    == Claimers \cup Retries \cup Imports

VARIABLES
    job,      \* the SyncJob table
    lock,     \* the SyncLock table: at most one row per workspace
    pc,       \* where each process is
    cur,      \* the job row a claimer is claiming or running
    att,      \* the attempt number its candidate snapshot carried
    todo,     \* rows returned by findMany and not yet visited
    left,     \* schedules enqueueDueSchedules has still to visit
    who,      \* the workspace a process is about to create a row for
    own,      \* a row a process created RUNNING by itself, without a claim
    crashes

vars == <<job, lock, pc, cur, att, todo, left, who, own, crashes>>

-----------------------------------------------------------------------------
(* Rows.                                                                   *)

Statuses == {"ABSENT", "QUEUED", "RUNNING", "SUCCESS", "FAILED", "CANCELLED"}
Beats    == {"fresh", "stale"}

Row == [status: Statuses, user: Users \cup {NoUser},
        kind: {"SHEET_SYNC", "IMPORT"}, attempt: Nat, max: Nat,
        beat: Beats, due: BOOLEAN]
LockRow == [job: Jobs \cup {NoJob}, beat: Beats]

NoRow  == [status |-> "ABSENT", user |-> NoUser, kind |-> "SHEET_SYNC",
           attempt |-> 1, max |-> 1, beat |-> "fresh", due |-> FALSE]
NoLock == [job |-> NoJob, beat |-> "fresh"]

QueuedRow(u, max)   == [status |-> "QUEUED", user |-> u,
                        kind |-> "SHEET_SYNC", attempt |-> 1, max |-> max,
                        beat |-> "fresh", due |-> TRUE]
RunningRow(u, kind) == [status |-> "RUNNING", user |-> u, kind |-> kind,
                        attempt |-> 1, max |-> DefaultAttempts,
                        beat |-> "fresh", due |-> TRUE]

\* Mutant: the retry is eligible at once.
RequeuedAtOnce(row, n) ==
    [row EXCEPT !.status = "QUEUED", !.attempt = n + 1, !.beat = "fresh"]

\* Back to the queue as attempt n + 1: heartbeatAt is cleared, and
\* nextAttemptAt lies at least 30 seconds ahead.
Requeued(row, n) == [status |-> "QUEUED", user |-> row.user,
                     kind |-> row.kind, attempt |-> n + 1, max |-> row.max,
                     beat |-> "fresh", due |-> FALSE]

\* Taken off the queue: the claim is also the first heartbeat.
Claimed(row) == [row EXCEPT !.status = "RUNNING", !.beat = "fresh"]

Pcs == {"idle", "reclaim", "unlockReclaimed", "schedule", "enqueue", "scan",
        "claim", "acquire", "steal", "lost", "won", "unclaimed", "create",
        "run", "import", "write", "retry", "threw", "release", "handler",
        "done"}

TypeOK ==
    /\ job \in [Jobs -> Row]
    /\ lock \in [Users -> LockRow]
    /\ pc \in [Procs -> Pcs]
    /\ cur \in [Procs -> Jobs \cup {NoJob}]
    /\ att \in [Procs -> Nat]
    /\ todo \in [Procs -> SUBSET [job: Jobs, attempt: Nat]]
    /\ left \in [Procs -> SUBSET Users]
    /\ who \in [Procs -> Users \cup {NoUser}]
    /\ own \in [Procs -> Jobs \cup {NoJob}]
    /\ crashes \in Nat

Init ==
    /\ job = [j \in Jobs |-> NoRow]
    /\ lock = [u \in Users |-> NoLock]
    /\ pc = [p \in Procs |-> "idle"]
    /\ cur = [p \in Procs |-> NoJob]
    /\ att = [p \in Procs |-> 0]
    /\ todo = [p \in Procs |-> {}]
    /\ left = [p \in Procs |-> {}]
    /\ who = [p \in Procs |-> NoUser]
    /\ own = [p \in Procs |-> NoJob]
    /\ crashes = 0

-----------------------------------------------------------------------------
(* What the code asks of the tables.                                       *)

Stale(j) == job[j].status = "RUNNING" /\ job[j].beat = "stale"

\* hasRunningJob
HasRunning(u) ==
    \E j \in Jobs : /\ job[j].user = u
                    /\ job[j].status = "RUNNING"
                    /\ job[j].beat = "fresh"

\* Mutant: the lock row is deleted by workspace instead of by job.
ReleasedByWorkspace(j) == [lock EXCEPT ![job[j].user] = NoLock]

\* releaseLockForJob: whichever workspace's lock row names the job.
Released(j) == [u \in Users |-> IF lock[u].job = j THEN NoLock ELSE lock[u]]

\* update where id = j: one column of one row.
WithStatus(j, s) == [job EXCEPT ![j].status = s]
WithBeat(j, b)   == [job EXCEPT ![j].beat = b]

Absent == {j \in Jobs : job[j].status = "ABSENT"}

\* Where a claimer goes when it has let its job go.
Idle(p) == IF p \in Workers THEN "idle" ELSE "done"

\* p is inside runSheetSync as the owner of a claimed job.
Running(p) == p \in Claimers /\ pc[p] \in {"run", "import", "write"}

\* p won acquireUserLock for cur[p] and has not yet given the lock back.
Holds(p) ==
    /\ p \in Claimers
    /\ pc[p] \in {"won", "unclaimed", "run", "import", "write", "retry",
                  "threw", "release"}

\* A claimer still has j on a list it read or in a claim it is acting on.
Touches(p, j) ==
    /\ p \in Claimers
    /\ cur[p] = j \/ \E e \in todo[p] : e.job = j

Goto(p, l) == pc' = [pc EXCEPT ![p] = l]

-----------------------------------------------------------------------------
(* tick(), first part: reclaimStaleJobs.                                   *)

\* The findMany, with the attempt count it returns.
ReclaimScan(w) ==
    /\ pc[w] = "idle"
    /\ todo' = [todo EXCEPT ![w] =
            {[job |-> j, attempt |-> job[j].attempt] : j \in {i \in Jobs : Stale(i)}}]
    /\ Goto(w, "reclaim")
    /\ UNCHANGED <<job, lock, cur, att, left, who, own, crashes>>

\* The conditional update that puts one of them back or gives it up. Only
\* the status is checked again, not the heartbeat.
ReclaimOne(w) ==
    /\ pc[w] = "reclaim"
    /\ \E e \in todo[w] :
        /\ todo' = [todo EXCEPT ![w] = @ \ {e}]
        /\ \/ /\ job[e.job].status = "RUNNING"
              /\ job' = [job EXCEPT ![e.job] =
                    IF e.attempt >= @.max THEN [@ EXCEPT !.status = "FAILED"]
                                          ELSE Requeued(@, e.attempt)]
              /\ cur' = [cur EXCEPT ![w] = e.job]
              /\ Goto(w, "unlockReclaimed")
           \/ /\ job[e.job].status # "RUNNING"
              /\ UNCHANGED <<job, cur, pc>>
    /\ UNCHANGED <<lock, att, left, who, own, crashes>>

\* "Free the workspace too"; an error of the delete is swallowed.
UnlockReclaimed(w) ==
    /\ pc[w] = "unlockReclaimed"
    /\ lock' \in {Released(cur[w]), lock}
    /\ cur' = [cur EXCEPT ![w] = NoJob]
    /\ Goto(w, "reclaim")
    /\ UNCHANGED <<job, att, todo, left, who, own, crashes>>

-----------------------------------------------------------------------------
(* tick(), second part: enqueueDueSchedules.                               *)

ListSchedules(w) ==
    /\ pc[w] = "reclaim" /\ todo[w] = {}
    /\ left' = [left EXCEPT ![w] = Scheduled]
    /\ Goto(w, "schedule")
    /\ UNCHANGED <<job, lock, cur, att, todo, who, own, crashes>>

\* One schedule: not due, or a sync is running (skip), or go and enqueue.
VisitSchedule(w) ==
    /\ pc[w] = "schedule"
    /\ \E u \in left[w] :
        /\ left' = [left EXCEPT ![w] = @ \ {u}]
        /\ \/ UNCHANGED <<pc, who>>
           \/ /\ ~HasRunning(u) /\ Absent # {}
              /\ who' = [who EXCEPT ![w] = u]
              /\ Goto(w, "enqueue")
    /\ UNCHANGED <<job, lock, cur, att, todo, own, crashes>>

\* enqueueJob: a new row, or the row that already has the slot's dedupeKey.
EnqueueScheduled(w) ==
    /\ pc[w] = "enqueue" /\ w \in Workers
    /\ \/ \E j \in Absent :
            job' = [job EXCEPT ![j] = QueuedRow(who[w], RetryLimit)]
       \/ UNCHANGED job
    /\ who' = [who EXCEPT ![w] = NoUser]
    /\ Goto(w, "schedule")
    /\ UNCHANGED <<lock, cur, att, todo, left, own, crashes>>

-----------------------------------------------------------------------------
(* tick(), third part: claimNextJob.                                       *)

\* The findMany of candidates (its order and its limit of 10 left out).
ClaimScan(w) ==
    /\ \/ pc[w] = "schedule" /\ left[w] = {}
       \/ pc[w] = "scan"
    /\ todo' = [todo EXCEPT ![w] =
            {[job |-> j, attempt |-> job[j].attempt] :
                j \in {i \in Jobs : job[i].status = "QUEUED" /\ job[i].due}}]
    /\ Goto(w, "claim")
    /\ UNCHANGED <<job, lock, cur, att, left, who, own, crashes>>

\* "The cheap pre-check avoids most contention."
CheckCandidate(w) ==
    /\ pc[w] = "claim"
    /\ \E e \in todo[w] :
        /\ todo' = [todo EXCEPT ![w] = @ \ {e}]
        /\ \/ /\ HasRunning(job[e.job].user)
              /\ UNCHANGED <<pc, cur, att>>
           \/ /\ ~HasRunning(job[e.job].user)
              /\ cur' = [cur EXCEPT ![w] = e.job]
              /\ att' = [att EXCEPT ![w] = e.attempt]
              /\ Goto(w, "acquire")
    /\ UNCHANGED <<job, lock, left, who, own, crashes>>

NothingClaimed(w) ==
    /\ pc[w] = "claim" /\ todo[w] = {}
    /\ Goto(w, "idle")
    /\ UNCHANGED <<job, lock, cur, att, todo, left, who, own, crashes>>

-----------------------------------------------------------------------------
(* claimExclusively, for workers and requests alike.                       *)

\* acquireUserLock's create: the primary key admits one row per workspace.
CreateLock(p) ==
    /\ pc[p] = "acquire"
    /\ LET u == job[cur[p]].user IN
        \/ /\ lock[u].job = NoJob
           /\ lock' = [lock EXCEPT ![u] = [job |-> cur[p], beat |-> "fresh"]]
           /\ Goto(p, "won")
        \/ /\ lock[u].job # NoJob
           /\ Goto(p, "steal")
           /\ UNCHANGED lock
    /\ UNCHANGED <<job, cur, att, todo, left, who, own, crashes>>

\* Mutants: the updateMany without its condition on heartbeatAt, and none.
StealAnyLock(p) ==
    /\ pc[p] = "steal"
    /\ lock' = [lock EXCEPT ![job[cur[p]].user] = [job |-> cur[p], beat |-> "fresh"]]
    /\ Goto(p, "won")
    /\ UNCHANGED <<job, cur, att, todo, left, who, own, crashes>>
StealNoLock(p) ==
    /\ pc[p] = "steal"
    /\ Goto(p, "lost")
    /\ UNCHANGED <<job, lock, cur, att, todo, left, who, own, crashes>>

\* Its updateMany, which evicts a holder that has gone quiet.
StealLock(p) ==
    /\ pc[p] = "steal"
    /\ LET u == job[cur[p]].user IN
        \/ /\ lock[u].job # NoJob /\ lock[u].beat = "stale"
           /\ lock' = [lock EXCEPT ![u] = [job |-> cur[p], beat |-> "fresh"]]
           /\ Goto(p, "won")
        \/ /\ lock[u].job = NoJob \/ lock[u].beat = "fresh"
           /\ Goto(p, "lost")
           /\ UNCHANGED lock
    /\ UNCHANGED <<job, cur, att, todo, left, who, own, crashes>>

\* Mutant: the loser cancels its job even when a worker already runs it.
MarkLostUnchecked(p) ==
    /\ pc[p] = "lost"
    /\ job' = IF p \in Requests THEN WithStatus(cur[p], "CANCELLED") ELSE job
    /\ cur' = [cur EXCEPT ![p] = NoJob]
    /\ att' = [att EXCEPT ![p] = 0]
    /\ Goto(p, IF p \in Workers THEN "claim" ELSE "done")
    /\ UNCHANGED <<lock, todo, left, who, own, crashes>>

\* markLost: a worker leaves the job queued, a request cancels its own.
MarkLost(p) ==
    /\ pc[p] = "lost"
    /\ job' = IF p \in Requests /\ job[cur[p]].status = "QUEUED"
              THEN WithStatus(cur[p], "CANCELLED")
              ELSE job
    /\ cur' = [cur EXCEPT ![p] = NoJob]
    /\ att' = [att EXCEPT ![p] = 0]
    /\ Goto(p, IF p \in Workers THEN "claim" ELSE "done")
    /\ UNCHANGED <<lock, todo, left, who, own, crashes>>

\* Mutant: claimJob as a plain update, without where status = QUEUED.
ClaimJobUnchecked(p) ==
    /\ pc[p] = "won"
    /\ job' = [job EXCEPT ![cur[p]] = Claimed(@)]
    /\ todo' = [todo EXCEPT ![p] = {}]
    /\ Goto(p, "run")
    /\ UNCHANGED <<lock, cur, att, left, who, own, crashes>>

\* claimJob's compare-and-swap on the status; a worker stops looking.
ClaimJob(p) ==
    /\ pc[p] = "won"
    /\ \/ /\ job[cur[p]].status = "QUEUED"
          /\ job' = [job EXCEPT ![cur[p]] = Claimed(@)]
          /\ todo' = [todo EXCEPT ![p] = {}]
          /\ Goto(p, "run")
       \/ /\ job[cur[p]].status # "QUEUED"
          /\ Goto(p, "unclaimed")
          /\ UNCHANGED <<job, todo>>
    /\ UNCHANGED <<lock, cur, att, left, who, own, crashes>>

\* releaseUserLock: delete where userId and jobId; its error is swallowed.
ReleaseUserLock(p) ==
    /\ pc[p] = "unclaimed"
    /\ LET u == job[cur[p]].user IN
        \/ /\ lock[u].job = cur[p]
           /\ lock' = [lock EXCEPT ![u] = NoLock]
        \/ UNCHANGED lock
    /\ cur' = [cur EXCEPT ![p] = NoJob]
    /\ att' = [att EXCEPT ![p] = 0]
    /\ Goto(p, IF p \in Workers THEN "claim" ELSE "done")
    /\ UNCHANGED <<job, todo, left, who, own, crashes>>

-----------------------------------------------------------------------------
(* POST /api/sync up to claimExclusively.                                  *)

CheckManual(r) ==
    /\ pc[r] = "idle"
    /\ \E u \in Users :
        \/ HasRunning(u) /\ Goto(r, "done") /\ UNCHANGED who     \* 409
        \/ /\ ~HasRunning(u) /\ Absent # {}
           /\ who' = [who EXCEPT ![r] = u]
           /\ Goto(r, "enqueue")
    /\ UNCHANGED <<job, lock, cur, att, todo, left, own, crashes>>

\* enqueueJob with maxAttempts 1: from here on a worker can see the row.
EnqueueManual(r) ==
    /\ pc[r] = "enqueue" /\ r \in Requests
    /\ \E j \in Absent :
        /\ job' = [job EXCEPT ![j] = QueuedRow(who[r], 1)]
        /\ cur' = [cur EXCEPT ![r] = j]
    /\ who' = [who EXCEPT ![r] = NoUser]
    /\ Goto(r, "acquire")
    /\ UNCHANGED <<lock, att, todo, left, own, crashes>>

-----------------------------------------------------------------------------
(* A run: runSheetSync as the queue sees it.                               *)

\* importOrders creates a RUNNING row of its own, takes no lock and never
\* heartbeats: inside a run, or straight from the import route.
StartImport(p) ==
    /\ \/ p \in Claimers /\ pc[p] = "run"
       \/ p \in Imports /\ pc[p] = "idle"
    /\ \E j \in Absent, u \in Users :
        /\ p \in Claimers => u = job[cur[p]].user
        /\ job' = [job EXCEPT ![j] = RunningRow(u, "IMPORT")]
        /\ own' = [own EXCEPT ![p] = j]
    /\ Goto(p, "import")
    /\ UNCHANGED <<lock, cur, att, todo, left, who, crashes>>

\* Its unconditional finish, or a throw that leaves the row RUNNING.
EndImport(p) ==
    /\ pc[p] = "import"
    /\ \/ \E o \in {"SUCCESS", "FAILED"} :
            job' = WithStatus(own[p], o)
       \/ UNCHANGED job
    /\ own' = [own EXCEPT ![p] = NoJob]
    /\ Goto(p, IF p \in Claimers THEN "write" ELSE "done")
    /\ UNCHANGED <<lock, cur, att, todo, left, who, crashes>>

\* finish writes the outcome by id, whatever the row holds by then. A later
\* statement of finish may still throw. A worker always passes
\* confirmed: true, so only a request can end CANCELLED; and only a worker
\* looks whether the failure is one to retry.
FinishRun(p) ==
    /\ p \in Claimers /\ pc[p] \in {"run", "write"}
    /\ \E o \in {"SUCCESS", "FAILED", "CANCELLED"} :
        /\ o = "CANCELLED" => p \in Requests
        /\ job' = WithStatus(cur[p], o)
        /\ \/ Goto(p, "release")
           \/ o = "FAILED" /\ p \in Workers /\ Goto(p, "retry")
           \/ Goto(p, "threw")
    /\ UNCHANGED <<lock, cur, att, todo, left, who, own, crashes>>

\* runSheetSync throws before its finish took effect.
RunThrows(p) ==
    /\ p \in Claimers /\ pc[p] \in {"run", "write"}
    /\ Goto(p, "threw")
    /\ UNCHANGED <<job, lock, cur, att, todo, left, who, own, crashes>>

-----------------------------------------------------------------------------
(* How runClaimedJob and the request's execute() end.                      *)

RunLimit(u) == IF u \in Scheduled THEN RetryLimit ELSE 1

\* scheduleRetry, for a retryable failure or from the catch block. It goes
\* by the attempt number of the claim snapshot, not by the row's.
ScheduleRetry(w) ==
    /\ w \in Workers /\ pc[w] \in {"retry", "threw"}
    /\ LET limit == IF pc[w] = "retry" THEN RunLimit(job[cur[w]].user)
                                       ELSE DefaultAttempts
       IN  job' = [job EXCEPT ![cur[w]] =
                    IF att[w] < limit THEN Requeued(@, att[w])
                                      ELSE [@ EXCEPT !.status = "FAILED"]]
    /\ Goto(w, "release")
    /\ UNCHANGED <<lock, cur, att, todo, left, who, own, crashes>>

\* The update inside scheduleRetry fails: into the catch, then out of it.
ScheduleRetryThrows(w) ==
    /\ w \in Workers /\ pc[w] \in {"retry", "threw"}
    /\ Goto(w, IF pc[w] = "retry" THEN "threw" ELSE "release")
    /\ UNCHANGED <<job, lock, cur, att, todo, left, who, own, crashes>>

\* The finally blocks: releaseLockForJob, whose error is swallowed. The
\* worker looks for another job, or its tick has run maxJobs of them.
Release(p) ==
    /\ pc[p] = "release"
    /\ lock' \in {Released(cur[p]), lock}
    /\ cur' = [cur EXCEPT ![p] = NoJob]
    /\ att' = [att EXCEPT ![p] = 0]
    /\ \/ p \in Workers /\ Goto(p, "scan")
       \/ Goto(p, Idle(p))
    /\ UNCHANGED <<job, todo, left, who, own, crashes>>

\* A request that threw: the same finally, then the detached crash handler,
\* or with wait: true nobody.
ReleaseThenHandle(r) ==
    /\ r \in Requests /\ pc[r] = "threw"
    /\ lock' \in {Released(cur[r]), lock}
    /\ \/ Goto(r, "handler") /\ UNCHANGED cur
       \/ Goto(r, "done") /\ cur' = [cur EXCEPT ![r] = NoJob]
    /\ UNCHANGED <<job, att, todo, left, who, own, crashes>>

CrashHandler(r) ==
    /\ pc[r] = "handler"
    /\ job' = WithStatus(cur[r], "FAILED")
    /\ cur' = [cur EXCEPT ![r] = NoJob]
    /\ Goto(r, "done")
    /\ UNCHANGED <<lock, att, todo, left, who, own, crashes>>

-----------------------------------------------------------------------------
(* The retry route: a check, then a run without any claim.                 *)

CheckRetry(q) ==
    /\ q \in Retries /\ pc[q] = "idle"
    /\ \E u \in Users :
        \/ HasRunning(u) /\ Goto(q, "done") /\ UNCHANGED who     \* 409
        \/ /\ ~HasRunning(u) /\ Absent # {}
           /\ who' = [who EXCEPT ![q] = u]
           /\ Goto(q, "create")
    /\ UNCHANGED <<job, lock, cur, att, todo, left, own, crashes>>

\* runSheetSync without a jobId creates its row RUNNING; retryOrder may
\* have refused before that.
StartRetry(q) ==
    /\ pc[q] = "create"
    /\ who' = [who EXCEPT ![q] = NoUser]
    /\ \/ \E j \in Absent :
            /\ job' = [job EXCEPT ![j] = RunningRow(who[q], "SHEET_SYNC")]
            /\ own' = [own EXCEPT ![q] = j]
            /\ Goto(q, "run")
       \/ Goto(q, "done") /\ UNCHANGED <<job, own>>
    /\ UNCHANGED <<lock, cur, att, todo, left, crashes>>

EndRetry(q) ==
    /\ q \in Retries /\ pc[q] = "run"
    /\ \/ \E o \in {"SUCCESS", "FAILED"} :
            job' = WithStatus(own[q], o)
       \/ UNCHANGED job
    /\ own' = [own EXCEPT ![q] = NoJob]
    /\ Goto(q, "done")
    /\ UNCHANGED <<lock, cur, att, todo, left, who, crashes>>

-----------------------------------------------------------------------------
(* Heartbeats, the passage of time, and killed processes.                  *)

\* heartbeat(jobId) from the 30 second interval: the job row, then the lock
\* row; either update may fail and is then ignored.
Beating(p) == \/ Running(p)
              \/ p \in Workers /\ pc[p] \in {"retry", "threw"}

Beat(p) ==
    /\ Beating(p)
    /\ job' \in {job, WithBeat(cur[p], "fresh")}
    /\ lock' \in {lock, [u \in Users |-> IF lock[u].job = cur[p]
                                         THEN [lock[u] EXCEPT !.beat = "fresh"]
                                         ELSE lock[u]]}
    /\ UNCHANGED <<pc, cur, att, todo, left, who, own, crashes>>

\* Five minutes without a heartbeat. Unless processes may stall, nobody is
\* then still in the middle of a claim or a run of this job: a run beats
\* every 30 seconds and the steps of a claim take less than that.
JobLapses(j) ==
    /\ job[j].status = "RUNNING" /\ job[j].beat = "fresh"
    /\ MayStall \/ \A p \in Claimers : ~Touches(p, j)
    /\ job' = WithBeat(j, "stale")
    /\ UNCHANGED <<lock, pc, cur, att, todo, left, who, own, crashes>>

LockLapses(u) ==
    /\ lock[u].job # NoJob /\ lock[u].beat = "fresh"
    /\ MayStall \/ \A p \in Claimers : Holds(p) => cur[p] # lock[u].job
    /\ lock' = [lock EXCEPT ![u].beat = "stale"]
    /\ UNCHANGED <<job, pc, cur, att, todo, left, who, own, crashes>>

\* nextAttemptAt passes, at least 30 seconds after it was set.
RetryDue(j) ==
    /\ job[j].status = "QUEUED" /\ ~job[j].due
    /\ MayStall \/ \A p \in Claimers : ~Touches(p, j)
    /\ job' = [job EXCEPT ![j].due = TRUE]
    /\ UNCHANGED <<lock, pc, cur, att, todo, left, who, own, crashes>>

\* SIGKILL, or the two seconds that scripts/worker.ts leaves a run. A worker
\* is started again; a request is not.
Crash(p) ==
    /\ crashes < MaxCrashes
    /\ pc[p] \notin {"idle", "done"}
    /\ crashes' = crashes + 1
    /\ Goto(p, Idle(p))
    /\ cur' = [cur EXCEPT ![p] = NoJob]
    /\ att' = [att EXCEPT ![p] = 0]
    /\ todo' = [todo EXCEPT ![p] = {}]
    /\ left' = [left EXCEPT ![p] = {}]
    /\ who' = [who EXCEPT ![p] = NoUser]
    /\ own' = [own EXCEPT ![p] = NoJob]
    /\ UNCHANGED <<job, lock>>

-----------------------------------------------------------------------------
(* The system.                                                             *)

ClaimStep(p) ==
    \/ CreateLock(p) \/ StealLock(p) \/ MarkLost(p) \/ ClaimJob(p)
    \/ ReleaseUserLock(p)
    \/ StartImport(p) \/ EndImport(p) \/ FinishRun(p) \/ RunThrows(p)
    \/ Release(p)

TickStep(w) ==
    \/ ReclaimScan(w) \/ ReclaimOne(w) \/ UnlockReclaimed(w)
    \/ ListSchedules(w) \/ VisitSchedule(w) \/ EnqueueScheduled(w)
    \/ ClaimScan(w) \/ CheckCandidate(w) \/ NothingClaimed(w)
    \/ ScheduleRetry(w) \/ ScheduleRetryThrows(w)

RequestStep(r) ==
    \/ CheckManual(r) \/ EnqueueManual(r)
    \/ ReleaseThenHandle(r) \/ CrashHandler(r)

RetryStep(q)  == CheckRetry(q) \/ StartRetry(q) \/ EndRetry(q)
ImportStep(i) == StartImport(i) \/ EndImport(i)

TimeStep ==
    \/ \E j \in Jobs : JobLapses(j) \/ RetryDue(j)
    \/ \E u \in Users : LockLapses(u)

Next ==
    \/ \E p \in Claimers : ClaimStep(p) \/ Beat(p)
    \/ \E w \in Workers : TickStep(w)
    \/ \E r \in Requests : RequestStep(r)
    \/ \E q \in Retries : RetryStep(q)
    \/ \E i \in Imports : ImportStep(i)
    \/ TimeStep
    \/ \E p \in Procs : Crash(p)

Spec == Init /\ [][Next]_vars

\* The worker loop and the request handlers go on while their process
\* lives, and time passes. No request has to arrive.
Fairness ==
    /\ \A w \in Workers : WF_vars(TickStep(w) \/ ClaimStep(w))
    /\ \A r \in Requests :
         WF_vars(pc[r] # "idle" /\ (RequestStep(r) \/ ClaimStep(r)))
    /\ \A q \in Retries : WF_vars(pc[q] # "idle" /\ RetryStep(q))
    /\ \A i \in Imports : WF_vars(pc[i] # "idle" /\ ImportStep(i))
    /\ \A j \in Jobs : WF_vars(JobLapses(j)) /\ WF_vars(RetryDue(j))
    /\ \A u \in Users : WF_vars(LockLapses(u))

FairSpec == Spec /\ Fairness

-----------------------------------------------------------------------------
(* The queue implements Workspace: a ticket waits while its row is QUEUED, *)
(* and runs while a claimer is inside runSheetSync with it.                *)

waitingTickets == {[user |-> job[j].user, job |-> j] :
                    j \in {i \in Jobs : job[i].status = "QUEUED"}}
activeRuns == {[user |-> job[cur[p]].user, job |-> cur[p], by |-> p] :
                    p \in {q \in Claimers : Running(q)}}

W == INSTANCE Workspace WITH Runners <- Claimers,
                             waiting <- waitingTickets,
                             running <- activeRuns

\* Lease, heartbeat, steal, reclaim and retry together keep the promise of
\* one run per workspace, each run started from a queued row.
ImplementsWorkspace == W!WSpec

-----------------------------------------------------------------------------
(* Properties.                                                             *)

\* Two claimed runs never overlap in one workspace: claimExclusively is
\* "genuinely the only run", whoever crashes, loses or is reclaimed.
OneClaimedRun ==
    \A p, q \in Claimers :
        p # q /\ Running(p) /\ Running(q) => job[cur[p]].user # job[cur[q]].user

\* From winning the mutex to giving it back, the workspace's lock row names
\* this claimer's job and is live: neither a steal, nor a reclaim, nor
\* another claimer's release takes it away.
HolderKeepsLock ==
    \A p \in Claimers :
        Holds(p) => lock[job[cur[p]].user] = [job |-> cur[p], beat |-> "fresh"]

\* While a run lasts its row says RUNNING and fresh, so hasRunningJob sees
\* it and reclaimStaleJobs leaves it alone.
RunVisible ==
    \A p \in Claimers : Running(p) =>
        job[cur[p]].status = "RUNNING" /\ job[cur[p]].beat = "fresh"

\* A finished row is opened again, or finished otherwise, only by the process
\* whose run it was, on its way out: no claim, reclaim or cancel touches it.
ReopenedByItsRunner ==
    [][\A j \in Jobs :
          /\ job[j].status \in {"SUCCESS", "FAILED", "CANCELLED"}
          /\ job'[j].status # job[j].status
          => \E p \in Claimers : cur[p] = j /\ pc[p] \in {"retry", "threw", "handler"}]_vars

\* Every row that was queued or running is finished some day: a killed
\* worker cannot wedge a workspace, nor can the lock it left behind.
QueueDrains ==
    \A j \in Jobs : (job[j].status \in {"QUEUED", "RUNNING"})
                      ~> (job[j].status \notin {"QUEUED", "RUNNING"})

\* "cannot produce two writers on the same sheet" (route.ts), all writers
\* counted: claimed runs and retries of one order.
Writes(p, u) == \/ Running(p) /\ job[cur[p]].user = u
                \/ p \in Retries /\ pc[p] = "run" /\ job[own[p]].user = u
OneWriter ==
    \A u \in Users, p, q \in Procs : Writes(p, u) /\ Writes(q, u) => p = q

\* A worker syncs with confirmed: true because "a schedule the user switched
\* on is itself the confirmation".
WorkerRunsAreScheduled ==
    \A w \in Workers : Running(w) => job[cur[w]].user \in Scheduled

\* An import "writes nothing to Google": an IMPORT row is never run as a
\* sheet sync.
ImportsStayImports ==
    \A p \in Claimers : Running(p) => job[cur[p]].kind = "SHEET_SYNC"

\* nextAttemptAt is "when a retry becomes eligible": no row is claimed
\* before.
BackoffKept ==
    [][\A j \in Jobs : job[j].status = "QUEUED" /\ job'[j].status = "RUNNING"
                         => job[j].due]_vars

=============================================================================
