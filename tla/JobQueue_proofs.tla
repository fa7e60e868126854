-------------------------- MODULE JobQueue_proofs --------------------------
(***************************************************************************)
(* What is proved of JobQueue, for every set of workspaces, jobs and       *)
(* processes and every limit:                                              *)
(*   - its typing (TypeOK), for any processes;                             *)
(*   - IInv of JobQueueInv, and with it the mutual exclusion of claimed    *)
(*     runs, when no process stalls past a time-out (~MayStall).  One      *)
(*     lemma per action says that the action keeps QueueInv, with one step *)
(*     per conjunct; ~MayStall is needed only where time passes:           *)
(*     JobLapses, LockLapses and RetryDue;                                 *)
(*   - under the same condition, that every step of the queue begins or    *)
(*     ends a run, submits or withdraws a ticket, or leaves waiting and    *)
(*     running as they are: the queue implements Workspace;                *)
(*   - with no retry route and no import route beside the queue, that a    *)
(*     run's row stays visible, and its finish final.                      *)
(***************************************************************************)
EXTENDS JobQueueInv, TLAPS

-----------------------------------------------------------------------------
(* Typing.                                                                 *)

\* The rows the code writes are rows.
LEMMA RowTypes ==
    /\ NoRow \in Row
    /\ NoLock \in LockRow
    /\ \A u \in Users \cup {NoUser}, n \in Nat : QueuedRow(u, n) \in Row
    /\ \A u \in Users \cup {NoUser}, k \in {"SHEET_SYNC", "IMPORT"} :
          RunningRow(u, k) \in Row
    /\ \A row \in Row, n \in Nat : Requeued(row, n) \in Row
    /\ \A row \in Row, s \in Statuses : [row EXCEPT !.status = s] \in Row
    /\ \A row \in Row, b \in Beats : [row EXCEPT !.beat = b] \in Row
    /\ \A row \in Row : [row EXCEPT !.due = TRUE] \in Row
    /\ \A row \in Row : Claimed(row) \in Row
<1> USE DEF Row, LockRow, Statuses, Beats
<1>1. NoRow \in Row /\ NoLock \in LockRow
  BY DEF NoRow, NoLock
<1>2. \A u \in Users \cup {NoUser}, n \in Nat : QueuedRow(u, n) \in Row
  BY DEF QueuedRow
<1>3. \A u \in Users \cup {NoUser}, k \in {"SHEET_SYNC", "IMPORT"} :
          RunningRow(u, k) \in Row
  BY QueueAssumption DEF RunningRow, QueueAssumption
<1>4. \A row \in Row, n \in Nat : Requeued(row, n) \in Row
  BY DEF Requeued
<1>5. \A row \in Row, s \in Statuses : [row EXCEPT !.status = s] \in Row
  OBVIOUS
<1>6. \A row \in Row, b \in Beats : [row EXCEPT !.beat = b] \in Row
  OBVIOUS
<1>7. \A row \in Row : [row EXCEPT !.due = TRUE] \in Row
  OBVIOUS
<1>8. \A row \in Row : Claimed(row) \in Row
  BY DEF Claimed
<1> QED
  BY <1>1, <1>2, <1>3, <1>4, <1>5, <1>6, <1>7, <1>8

\* Setting one column of one row, or of no row, keeps the table's type.
LEMMA ColumnTypes ==
    ASSUME job \in [Jobs -> Row], NEW j
    PROVE  /\ \A s \in Statuses : WithStatus(j, s) \in [Jobs -> Row]
           /\ \A b \in Beats : WithBeat(j, b) \in [Jobs -> Row]
BY RowTypes DEF WithStatus, WithBeat

LEMMA TypeInit == Init => TypeOK
<1> SUFFICES ASSUME Init PROVE TypeOK
  OBVIOUS
<1>1. job \in [Jobs -> Row] /\ lock \in [Users -> LockRow]
  BY RowTypes DEF Init
<1>2. pc \in [Procs -> Pcs] /\ att \in [Procs -> Nat] /\ crashes \in Nat
  BY DEF Init, Pcs
<1>3. /\ cur \in [Procs -> Jobs \cup {NoJob}]
      /\ who \in [Procs -> Users \cup {NoUser}]
      /\ own \in [Procs -> Jobs \cup {NoJob}]
      /\ todo \in [Procs -> SUBSET [job: Jobs, attempt: Nat]]
      /\ left \in [Procs -> SUBSET Users]
  BY DEF Init
<1> QED
  BY <1>1, <1>2, <1>3 DEF TypeOK

\* The actions of the tick.
LEMMA TypeTick == ASSUME TypeOK, NEW w \in Workers, TickStep(w) PROVE TypeOK'
<1> USE DEF TypeOK, Goto, Procs, Claimers, Pcs
<1>1. CASE ReclaimScan(w)
  BY <1>1 DEF ReclaimScan, Row
<1>2. CASE ReclaimOne(w)
  <2>1. PICK e \in todo[w] :
          /\ todo' = [todo EXCEPT ![w] = @ \ {e}]
          /\ \/ /\ job' = [job EXCEPT ![e.job] =
                       IF e.attempt >= @.max THEN [@ EXCEPT !.status = "FAILED"]
                                             ELSE Requeued(@, e.attempt)]
                /\ cur' = [cur EXCEPT ![w] = e.job]
                /\ Goto(w, "unlockReclaimed")
             \/ UNCHANGED <<job, cur, pc>>
    BY <1>2 DEF ReclaimOne
  <2>2. e.job \in Jobs /\ e.attempt \in Nat
    BY <2>1
  <2>3. job[e.job] \in Row /\ "FAILED" \in Statuses
    BY <2>2 DEF Statuses
  <2>4. /\ Requeued(job[e.job], e.attempt) \in Row
        /\ [job[e.job] EXCEPT !.status = "FAILED"] \in Row
    BY <2>2, <2>3, RowTypes
  <2>5. job' \in [Jobs -> Row]
    BY <2>1, <2>2, <2>4
  <2> QED
    BY <1>2, <2>1, <2>2, <2>5 DEF ReclaimOne
<1>3. CASE UnlockReclaimed(w)
  BY <1>3, RowTypes DEF UnlockReclaimed, Released
<1>4. CASE ListSchedules(w)
  BY <1>4, QueueAssumption DEF ListSchedules, QueueAssumption
<1>5. CASE VisitSchedule(w)
  BY <1>5 DEF VisitSchedule
<1>6. CASE EnqueueScheduled(w)
  <2>1. QueuedRow(who[w], RetryLimit) \in Row
    BY RowTypes, QueueAssumption DEF QueueAssumption
  <2>2. job' \in [Jobs -> Row]
    BY <1>6, <2>1 DEF EnqueueScheduled, Absent
  <2> QED
    BY <1>6, <2>2 DEF EnqueueScheduled
<1>7. CASE ClaimScan(w)
  BY <1>7 DEF ClaimScan, Row
<1>8. CASE CheckCandidate(w)
  BY <1>8 DEF CheckCandidate
<1>9. CASE NothingClaimed(w)
  BY <1>9 DEF NothingClaimed
<1>10. CASE ScheduleRetry(w)
  BY <1>10, RowTypes DEF ScheduleRetry, Statuses
<1>11. CASE ScheduleRetryThrows(w)
  BY <1>11 DEF ScheduleRetryThrows
<1> QED
  BY <1>1, <1>2, <1>3, <1>4, <1>5, <1>6, <1>7, <1>8, <1>9, <1>10, <1>11
     DEF TickStep

\* The actions that workers and requests share.
LEMMA TypeClaim == ASSUME TypeOK, NEW p \in Claimers, ClaimStep(p) PROVE TypeOK'
<1> USE DEF TypeOK, Goto, Procs, Claimers, Pcs
<1>1. CASE CreateLock(p)
  <2>1. [job |-> cur[p], beat |-> "fresh"] \in LockRow
    BY DEF LockRow, Beats
  <2> QED
    BY <1>1, <2>1 DEF CreateLock
<1>2. CASE StealLock(p)
  <2>1. [job |-> cur[p], beat |-> "fresh"] \in LockRow
    BY DEF LockRow, Beats
  <2> QED
    BY <1>2, <2>1 DEF StealLock
<1>3. CASE MarkLost(p)
  <2>1. job' \in [Jobs -> Row]
    BY <1>3, ColumnTypes DEF MarkLost, Statuses
  <2>2. /\ pc' \in [Procs -> Pcs]
        /\ cur' \in [Procs -> Jobs \cup {NoJob}]
        /\ att' \in [Procs -> Nat]
        /\ UNCHANGED <<lock, todo, left, who, own, crashes>>
    BY <1>3 DEF MarkLost
  <2> QED
    BY <2>1, <2>2
<1>4. CASE ClaimJob(p)
  <2>1. job' \in [Jobs -> Row]
    <3>1. \A row \in Row : Claimed(row) \in Row
      BY RowTypes
    <3> QED
      BY <1>4, <3>1 DEF ClaimJob
  <2> QED
    BY <1>4, <2>1 DEF ClaimJob
<1>5. CASE ReleaseUserLock(p)
  BY <1>5, RowTypes DEF ReleaseUserLock
<1>6. CASE StartImport(p)
  <2>1. \A u \in Users : RunningRow(u, "IMPORT") \in Row
    BY RowTypes
  <2> QED
    BY <1>6, <2>1 DEF StartImport, Absent
<1>7. CASE EndImport(p)
  <2>1. job' \in [Jobs -> Row]
    BY <1>7, ColumnTypes DEF EndImport, Statuses
  <2> QED
    BY <1>7, <2>1 DEF EndImport
<1>8. CASE FinishRun(p)
  <2>1. job' \in [Jobs -> Row]
    BY <1>8, ColumnTypes DEF FinishRun, Statuses
  <2> QED
    BY <1>8, <2>1 DEF FinishRun
<1>9. CASE RunThrows(p)
  BY <1>9 DEF RunThrows
<1>10. CASE Release(p)
  BY <1>10, RowTypes DEF Release, Released, Idle
<1> QED
  BY <1>1, <1>2, <1>3, <1>4, <1>5, <1>6, <1>7, <1>8, <1>9, <1>10 DEF ClaimStep

\* The actions of the routes.
LEMMA TypeRoutes ==
    ASSUME TypeOK
    PROVE  /\ \A r \in Requests : RequestStep(r) => TypeOK'
           /\ \A q \in Retries : RetryStep(q) => TypeOK'
           /\ \A i \in Imports : ImportStep(i) => TypeOK'
<1> USE DEF TypeOK, Goto, Procs, Claimers, Pcs
<1>1. ASSUME NEW r \in Requests, RequestStep(r) PROVE TypeOK'
  <2>1. CASE CheckManual(r)
    BY <2>1 DEF CheckManual
  <2>2. CASE EnqueueManual(r)
    <3>1. QueuedRow(who[r], 1) \in Row
      BY RowTypes
    <3> QED
      BY <2>2, <3>1 DEF EnqueueManual, Absent
  <2>3. CASE ReleaseThenHandle(r)
    BY <2>3, RowTypes DEF ReleaseThenHandle, Released
  <2>4. CASE CrashHandler(r)
    BY <2>4, ColumnTypes DEF CrashHandler, Statuses
  <2> QED
    BY <1>1, <2>1, <2>2, <2>3, <2>4 DEF RequestStep
<1>2. ASSUME NEW q \in Retries, RetryStep(q) PROVE TypeOK'
  <2>1. CASE CheckRetry(q)
    BY <2>1 DEF CheckRetry
  <2>2. CASE StartRetry(q)
    <3>1. RunningRow(who[q], "SHEET_SYNC") \in Row
      BY RowTypes
    <3> QED
      BY <2>2, <3>1 DEF StartRetry, Absent
  <2>3. CASE EndRetry(q)
    <3>1. job' \in [Jobs -> Row]
      BY <2>3, ColumnTypes DEF EndRetry, Statuses
    <3> QED
      BY <2>3, <3>1 DEF EndRetry
  <2> QED
    BY <1>2, <2>1, <2>2, <2>3 DEF RetryStep
<1>3. ASSUME NEW i \in Imports, ImportStep(i) PROVE TypeOK'
  <2>1. CASE StartImport(i)
    <3>1. \A u \in Users : RunningRow(u, "IMPORT") \in Row
      BY RowTypes
    <3> QED
      BY <2>1, <3>1 DEF StartImport, Absent
  <2>2. CASE EndImport(i)
    <3>1. job' \in [Jobs -> Row]
      BY <2>2, ColumnTypes DEF EndImport, Statuses
    <3> QED
      BY <2>2, <3>1 DEF EndImport
  <2> QED
    BY <1>3, <2>1, <2>2 DEF ImportStep
<1> QED
  BY <1>1, <1>2, <1>3

\* Heartbeats, time and crashes.
LEMMA TypeEnv ==
    ASSUME TypeOK
    PROVE  /\ \A p \in Claimers : Beat(p) => TypeOK'
           /\ TimeStep => TypeOK'
           /\ \A p \in Procs : Crash(p) => TypeOK'
<1> USE DEF TypeOK, Goto, Procs, Claimers, Pcs
<1>0. \A row \in LockRow, b \in Beats : [row EXCEPT !.beat = b] \in LockRow
  BY DEF LockRow
<1>1. ASSUME NEW p \in Claimers, Beat(p) PROVE TypeOK'
  <2>1. job' \in [Jobs -> Row]
    BY <1>1, ColumnTypes DEF Beat, Beats
  <2>2. \A u \in Users : [lock[u] EXCEPT !.beat = "fresh"] \in LockRow
    BY <1>0 DEF Beats
  <2>3. lock' \in [Users -> LockRow]
    BY <1>1, <2>2 DEF Beat
  <2> QED
    BY <1>1, <2>1, <2>3 DEF Beat
<1>2. ASSUME NEW j \in Jobs, JobLapses(j) PROVE TypeOK'
  BY <1>2, ColumnTypes DEF JobLapses, Beats
<1>3. ASSUME NEW j \in Jobs, RetryDue(j) PROVE TypeOK'
  BY <1>3, RowTypes DEF RetryDue
<1>4. ASSUME NEW u \in Users, LockLapses(u) PROVE TypeOK'
  BY <1>4, <1>0 DEF LockLapses, Beats
<1>5. ASSUME NEW p \in Procs, Crash(p) PROVE TypeOK'
  BY <1>5 DEF Crash, Idle
<1> QED
  BY <1>1, <1>2, <1>3, <1>4, <1>5 DEF TimeStep

LEMMA TypeStep == TypeOK /\ [Next]_vars => TypeOK'
<1> SUFFICES ASSUME TypeOK, [Next]_vars PROVE TypeOK'
  OBVIOUS
<1>1. CASE UNCHANGED vars
  BY <1>1 DEF TypeOK, vars
<1>2. CASE Next
  BY <1>2, TypeTick, TypeClaim, TypeRoutes, TypeEnv DEF Next
<1> QED
  BY <1>1, <1>2

\* Every reachable state of the tables and of the processes is well typed.
THEOREM TypeCorrect == Spec => []TypeOK
BY TypeInit, TypeStep, PTL DEF Spec

-----------------------------------------------------------------------------
(* What the pieces of several actions do.                                  *)

\* What claiming a row, or setting its status, does to its columns.
LEMMA ClaimedFields ==
    \A row \in Row : /\ Claimed(row).user = row.user
                     /\ Claimed(row).status = "RUNNING"
                     /\ Claimed(row).beat = "fresh"
BY DEF Claimed, Row

LEMMA StatusFields ==
    ASSUME TypeOK, NEW j, NEW s
    PROVE  \A i \in Jobs :
              /\ i # j => WithStatus(j, s)[i] = job[i]
              /\ WithStatus(j, s)[i].user = job[i].user
              /\ i = j => WithStatus(j, s)[i].status = s
BY DEF WithStatus, TypeOK, Row

\* What ReclaimOne does with the entry e of the list.
ReclaimedRow(w, e) ==
    /\ e.job \in Jobs
    /\ todo' = [todo EXCEPT ![w] = @ \ {e}]
    /\ \A i \in Jobs : /\ job'[i].user = job[i].user
                       /\ i # e.job => job'[i] = job[i]
    /\ pc[w] = "reclaim"
    /\ \/ UNCHANGED <<job, cur, pc>>
       \/ /\ job[e.job].status = "RUNNING"
          /\ \/ job'[e.job].status = "FAILED"
             \/ job'[e.job].status = "QUEUED" /\ ~job'[e.job].due
          /\ cur' = [cur EXCEPT ![w] = e.job]
          /\ Goto(w, "unlockReclaimed")

LEMMA ReclaimOneEffect ==
    ASSUME TypeOK, NEW w \in Workers, ReclaimOne(w)
    PROVE  \E e \in todo[w] : ReclaimedRow(w, e)
<1> USE DEF TypeOK, Procs, Claimers
<1>1. PICK e \in todo[w] :
        /\ todo' = [todo EXCEPT ![w] = @ \ {e}]
        /\ \/ /\ job[e.job].status = "RUNNING"
              /\ job' = [job EXCEPT ![e.job] =
                    IF e.attempt >= @.max THEN [@ EXCEPT !.status = "FAILED"]
                                          ELSE Requeued(@, e.attempt)]
              /\ cur' = [cur EXCEPT ![w] = e.job]
              /\ Goto(w, "unlockReclaimed")
           \/ UNCHANGED <<job, cur, pc>>
  BY DEF ReclaimOne
<1>2. e.job \in Jobs /\ pc[w] = "reclaim"
  BY <1>1 DEF ReclaimOne
<1>3. \A i \in Jobs : job'[i].user = job[i].user /\ (i # e.job => job'[i] = job[i])
  BY <1>1, <1>2 DEF Requeued, Row
<1>4. CASE UNCHANGED <<job, cur, pc>>
  BY <1>1, <1>2, <1>3, <1>4 DEF ReclaimedRow
<1>5. CASE ~UNCHANGED <<job, cur, pc>>
  <2>1. \/ job'[e.job] = [job[e.job] EXCEPT !.status = "FAILED"]
        \/ job'[e.job] = Requeued(job[e.job], e.attempt)
    BY <1>1, <1>2, <1>5
  <2>2. \/ job'[e.job].status = "FAILED"
        \/ job'[e.job].status = "QUEUED" /\ ~job'[e.job].due
    BY <1>2, <2>1 DEF Requeued, Row
  <2> QED
    BY <1>1, <1>2, <1>3, <1>5, <2>2 DEF ReclaimedRow
<1> QED
  BY <1>4, <1>5

\* p, a holder, keeps its job, and its lock row is left as it is.
Undisturbed(p) ==
    /\ cur'[p] = cur[p]
    /\ job'[cur[p]].user = job[cur[p]].user
    /\ lock'[job[cur[p]].user] = lock[job[cur[p]].user]

\* With no new holder and none disturbed, the locks stay as they must be.
LEMMA LockFrame ==
    ASSUME IInv, \A p \in Claimers : Holds(p)' => Holds(p) /\ Undisturbed(p)
    PROVE  LockInv'
BY DEF IInv, QueueInv, LockInv, HolderKeepsLock, Undisturbed

\* What a holder has in hand.
LEMMA HolderFacts ==
    ASSUME IInv, NEW p \in Claimers, Holds(p)
    PROVE  /\ cur[p] \in Jobs
           /\ job[cur[p]].user \in Users
           /\ lock[job[cur[p]].user].job = cur[p]
           /\ lock[job[cur[p]].user].beat = "fresh"
<1>1. cur[p] \in Jobs
  BY DEF IInv, QueueInv, CurInv, HandPcs, Holds
<1>2. job[cur[p]].user \in Users
  BY <1>1 DEF IInv, QueueInv, RowInv, Touches
<1>3. lock[job[cur[p]].user] = [job |-> cur[p], beat |-> "fresh"]
  BY DEF IInv, QueueInv, LockInv, HolderKeepsLock
<1> QED
  BY <1>1, <1>2, <1>3

-----------------------------------------------------------------------------
(* Every action keeps QueueInv.                                            *)


\* The list holds only rows that nobody alive has in hand.
LEMMA InvReclaimScan ==
    ASSUME IInv, NEW w \in Workers, ReclaimScan(w)
    PROVE  QueueInv'
<1> USE DEF IInv, QueueInv, TypeOK, Goto, Procs, Claimers
<1>1. CurInv'
  BY DEF ReclaimScan, CurInv, HandPcs
<1>2. RowInv'
  BY DEF ReclaimScan, RowInv, Touches, Stale
<1>3. LockInv'
  BY DEF ReclaimScan, LockInv, HolderKeepsLock, Holds
<1>4. AliveInv'
  BY DEF ReclaimScan, AliveInv, Touches, Reclaiming, Stale
<1>5. ReclaimInv'
  BY DEF ReclaimScan, ReclaimInv, AliveInv, Touches, Reclaiming, Stale, CurInv,
       HandPcs
<1>6. RunInv'
  BY DEF ReclaimScan, RunInv, Running
<1> QED
  BY <1>1, <1>2, <1>3, <1>4, <1>5, <1>6

\* The row it puts back is not due while it is in hand.
LEMMA InvReclaimOne ==
    ASSUME IInv, NEW w \in Workers, ReclaimOne(w)
    PROVE  QueueInv'
<1> USE DEF IInv, QueueInv, TypeOK, Goto, Procs, Claimers
<1>1. PICK e \in todo[w] : ReclaimedRow(w, e)
  BY ReclaimOneEffect
<1>2. UNCHANGED <<lock, left, who, own>>
  BY DEF ReclaimOne
<1>3. CurInv'
  BY <1>1, <1>2 DEF CurInv, HandPcs, ReclaimedRow
<1>4. RowInv'
  BY <1>1, <1>2 DEF RowInv, Touches, HandPcs, ReclaimedRow
<1>5. LockInv'
  <2>1. \A q \in Claimers : Holds(q)' => Holds(q) /\ cur'[q] = cur[q]
    BY <1>1 DEF ReclaimedRow, Holds
  <2>2. \A q \in Claimers : Holds(q) => cur[q] \in Jobs
    BY DEF Holds, CurInv, HandPcs
  <2>3. \A q \in Claimers : Holds(q)' => Holds(q) /\ Undisturbed(q)
    BY <1>1, <1>2, <2>1, <2>2 DEF ReclaimedRow, Undisturbed
  <2> QED
    BY <2>3, LockFrame
<1>6. AliveInv'
  BY <1>1 DEF AliveInv, Touches, Reclaiming, Stale, ReclaimedRow
<1>7. ReclaimInv'
  BY <1>1 DEF ReclaimInv, Touches, Reclaiming, ReclaimedRow
<1>8. RunInv'
  BY <1>1 DEF RunInv, Running, CurInv, HandPcs, ReclaimInv, Touches,
       Reclaiming, ReclaimedRow
<1> QED
  BY <1>3, <1>4, <1>5, <1>6, <1>7, <1>8

\* No holder has the reclaimed job, so no holder loses its lock.
LEMMA InvUnlockReclaimed ==
    ASSUME IInv, NEW w \in Workers, UnlockReclaimed(w)
    PROVE  QueueInv'
<1> USE DEF IInv, QueueInv, TypeOK, Goto, Procs, Claimers
<1>1. /\ pc[w] = "unlockReclaimed" /\ Goto(w, "reclaim")
      /\ cur' = [cur EXCEPT ![w] = NoJob]
      /\ lock' \in {Released(cur[w]), lock}
      /\ UNCHANGED <<job, todo, who, own>>
  BY DEF UnlockReclaimed
<1>2. \A p \in Claimers : Holds(p) => cur[p] # cur[w] /\ job[cur[p]].user \in Users
  BY <1>1 DEF RowInv, ReclaimInv, Touches, Reclaiming, Holds, CurInv, HandPcs
<1>3. \A p \in Claimers : Holds(p)' => Holds(p) /\ cur'[p] = cur[p]
  BY <1>1 DEF Holds
<1>4. CurInv'
  BY <1>1, QueueAssumption DEF CurInv, HandPcs
<1>5. RowInv'
  BY <1>1, QueueAssumption DEF RowInv, Touches
<1>6. LockInv'
  BY <1>1, <1>2, <1>3
    DEF LockInv, HolderKeepsLock, CurInv, HandPcs, RowInv, Released
<1>7. AliveInv'
  BY <1>1 DEF AliveInv, Touches, Reclaiming, Stale
<1>8. ReclaimInv'
  BY <1>1, QueueAssumption DEF ReclaimInv, Touches, Reclaiming
<1>9. RunInv'
  BY <1>1 DEF RunInv, Running
<1> QED
  BY <1>4, <1>5, <1>6, <1>7, <1>8, <1>9

\* Its list is done and it holds nothing.
LEMMA InvListSchedules ==
    ASSUME IInv, NEW w \in Workers, ListSchedules(w)
    PROVE  QueueInv'
<1> USE DEF IInv, QueueInv, TypeOK, Goto, Procs, Claimers
<1>1. CurInv'
  BY DEF ListSchedules, CurInv, HandPcs
<1>2. RowInv'
  BY DEF ListSchedules, RowInv, Touches
<1>3. LockInv'
  BY DEF ListSchedules, LockInv, HolderKeepsLock, Holds
<1>4. AliveInv'
  BY DEF ListSchedules, AliveInv, Touches, Reclaiming, Stale, CurInv, HandPcs
<1>5. ReclaimInv'
  BY DEF ListSchedules, ReclaimInv, Touches, Reclaiming, CurInv, HandPcs
<1>6. RunInv'
  BY DEF ListSchedules, RunInv, Running
<1> QED
  BY <1>1, <1>2, <1>3, <1>4, <1>5, <1>6

\* Nothing is in hand.
LEMMA InvVisitSchedule ==
    ASSUME IInv, NEW w \in Workers, VisitSchedule(w)
    PROVE  QueueInv'
<1> USE DEF IInv, QueueInv, TypeOK, Goto, Procs, Claimers
<1>1. CurInv'
  BY DEF VisitSchedule, CurInv, HandPcs
<1>2. RowInv'
  BY DEF VisitSchedule, RowInv, Touches
<1>3. LockInv'
  <2>1. \A q \in Claimers : Holds(q)' => Holds(q) /\ Undisturbed(q)
    BY DEF VisitSchedule, Holds, Undisturbed
  <2> QED
    BY <2>1, LockFrame
<1>4. AliveInv'
  BY DEF VisitSchedule, AliveInv, Touches, Reclaiming, Stale
<1>5. ReclaimInv'
  BY DEF VisitSchedule, ReclaimInv, Touches, Reclaiming
<1>6. RunInv'
  BY DEF VisitSchedule, RunInv, Running
<1> QED
  BY <1>1, <1>2, <1>3, <1>4, <1>5, <1>6

\* The new row was absent.
LEMMA InvEnqueueScheduled ==
    ASSUME IInv, NEW w \in Workers, EnqueueScheduled(w)
    PROVE  QueueInv'
<1> USE DEF IInv, QueueInv, TypeOK, Goto, Procs, Claimers
<1>1. who[w] \in Users
  BY DEF EnqueueScheduled, CurInv
<1>2. \A i \in Jobs : \/ job'[i] = job[i]
                        \/ /\ job[i].status = "ABSENT" /\ job'[i].user = who[w]
                           /\ job'[i].status = "QUEUED"
  BY DEF EnqueueScheduled, QueuedRow, Absent
<1>3. CurInv'
  BY DEF EnqueueScheduled, CurInv, HandPcs
<1>4. RowInv'
  BY <1>2 DEF EnqueueScheduled, RowInv, Touches, CurInv
<1>5. LockInv'
  BY <1>2 DEF EnqueueScheduled, LockInv, HolderKeepsLock, Holds, CurInv,
       HandPcs, RowInv, Touches
<1>6. AliveInv'
  BY <1>2 DEF EnqueueScheduled, AliveInv, Touches, Reclaiming, Stale
<1>7. ReclaimInv'
  BY <1>2 DEF EnqueueScheduled, ReclaimInv, Touches, Reclaiming, RowInv
<1>8. RunInv'
  <2>1. \A q \in Claimers : Running(q)' => Running(q) /\ cur'[q] = cur[q]
    BY DEF EnqueueScheduled, Running
  <2>2. \A q \in Claimers : Running(q) => cur[q] \in Jobs /\ job[cur[q]].status # "ABSENT"
    BY DEF Running, CurInv, HandPcs, RowInv, Touches
  <2>3. \A i \in Jobs : job[i].status # "ABSENT" => job'[i] = job[i]
    BY DEF EnqueueScheduled, Absent
  <2> QED
    BY <2>1, <2>2, <2>3 DEF RunInv
<1> QED
  BY <1>3, <1>4, <1>5, <1>6, <1>7, <1>8

\* It reads rows that are queued and due, so none that is being reclaimed.
LEMMA InvClaimScan ==
    ASSUME IInv, NEW w \in Workers, ClaimScan(w)
    PROVE  QueueInv'
<1> USE DEF IInv, QueueInv, TypeOK, Goto, Procs, Claimers
<1>1. CurInv'
  BY DEF ClaimScan, CurInv, HandPcs
<1>2. RowInv'
  BY DEF ClaimScan, RowInv, Touches
<1>3. LockInv'
  BY DEF ClaimScan, LockInv, HolderKeepsLock, Holds
<1>4. AliveInv'
  BY DEF ClaimScan, AliveInv, Touches, Reclaiming, Stale
<1>5. ReclaimInv'
  BY DEF ClaimScan, ReclaimInv, Touches, Reclaiming
<1>6. RunInv'
  BY DEF ClaimScan, RunInv, Running
<1> QED
  BY <1>1, <1>2, <1>3, <1>4, <1>5, <1>6

\* A candidate goes from the list to the hand.
LEMMA InvCheckCandidate ==
    ASSUME IInv, NEW w \in Workers, CheckCandidate(w)
    PROVE  QueueInv'
<1> USE DEF IInv, QueueInv, TypeOK, Goto, Procs, Claimers
<1>1. CurInv'
  BY DEF CheckCandidate, CurInv, HandPcs
<1>2. RowInv'
  BY DEF CheckCandidate, RowInv, Touches
<1>3. LockInv'
  BY QueueAssumption DEF CheckCandidate, LockInv, HolderKeepsLock, Holds
<1>4. AliveInv'
  BY DEF CheckCandidate, AliveInv, Touches, Reclaiming, Stale
<1>5. ReclaimInv'
  BY DEF CheckCandidate, ReclaimInv, Touches, Reclaiming
<1>6. RunInv'
  BY DEF CheckCandidate, RunInv, Running
<1> QED
  BY <1>1, <1>2, <1>3, <1>4, <1>5, <1>6

\* Nothing is in hand.
LEMMA InvNothingClaimed ==
    ASSUME IInv, NEW w \in Workers, NothingClaimed(w)
    PROVE  QueueInv'
<1> USE DEF IInv, QueueInv, TypeOK, Goto, Procs, Claimers
<1>1. CurInv'
  BY DEF NothingClaimed, CurInv, HandPcs
<1>2. RowInv'
  BY DEF NothingClaimed, RowInv, Touches
<1>3. LockInv'
  BY DEF NothingClaimed, LockInv, HolderKeepsLock, Holds
<1>4. AliveInv'
  BY DEF NothingClaimed, AliveInv, Touches, Reclaiming, Stale
<1>5. ReclaimInv'
  BY DEF NothingClaimed, ReclaimInv, Touches, Reclaiming
<1>6. RunInv'
  BY DEF NothingClaimed, RunInv, Running
<1> QED
  BY <1>1, <1>2, <1>3, <1>4, <1>5, <1>6

\* The holder itself puts its row back, not due.
LEMMA InvScheduleRetry ==
    ASSUME IInv, NEW w \in Workers, ScheduleRetry(w)
    PROVE  QueueInv'
<1> USE DEF IInv, QueueInv, TypeOK, Goto, Procs, Claimers
<1>1. \A i \in Jobs : /\ job'[i].user = job[i].user
                     /\ \/ job'[i] = job[i]
                        \/ /\ i = cur[w]
                           /\ \/ job'[i].status = "FAILED"
                              \/ job'[i].status = "QUEUED" /\ ~job'[i].due
  BY DEF ScheduleRetry, Requeued, Row
<1>2. CurInv'
  BY DEF ScheduleRetry, CurInv, HandPcs
<1>3. RowInv'
  BY <1>1 DEF ScheduleRetry, RowInv, Touches
<1>4. LockInv'
  BY <1>1 DEF ScheduleRetry, LockInv, HolderKeepsLock, Holds, CurInv, HandPcs
<1>5. AliveInv'
  BY <1>1 DEF ScheduleRetry, AliveInv, Touches, Reclaiming, Stale
<1>6. ReclaimInv'
  BY DEF ScheduleRetry, ReclaimInv, Touches, Reclaiming
<1>7. RunInv'
  BY DEF ScheduleRetry, RunInv, Running, LockInv, Holds
<1> QED
  BY <1>2, <1>3, <1>4, <1>5, <1>6, <1>7

\* Only the label moves, inside the holder's part.
LEMMA InvScheduleRetryThrows ==
    ASSUME IInv, NEW w \in Workers, ScheduleRetryThrows(w)
    PROVE  QueueInv'
<1> USE DEF IInv, QueueInv, TypeOK, Goto, Procs, Claimers
<1>1. CurInv'
  BY DEF ScheduleRetryThrows, CurInv, HandPcs
<1>2. RowInv'
  BY DEF ScheduleRetryThrows, RowInv, Touches
<1>3. LockInv'
  <2>1. \A q \in Claimers : Holds(q)' => Holds(q) /\ Undisturbed(q)
    BY DEF ScheduleRetryThrows, Holds, Undisturbed
  <2> QED
    BY <2>1, LockFrame
<1>4. AliveInv'
  BY DEF ScheduleRetryThrows, AliveInv, Touches, Reclaiming, Stale
<1>5. ReclaimInv'
  BY DEF ScheduleRetryThrows, ReclaimInv, Touches, Reclaiming
<1>6. RunInv'
  BY DEF ScheduleRetryThrows, RunInv, Running
<1> QED
  BY <1>1, <1>2, <1>3, <1>4, <1>5, <1>6

\* There was no lock row, so no holder in this workspace.
LEMMA InvCreateLock ==
    ASSUME IInv, NEW p \in Claimers, CreateLock(p)
    PROVE  QueueInv'
<1> USE DEF IInv, QueueInv, TypeOK, Goto, Procs, Claimers
<1>1. CurInv'
  BY DEF CreateLock, CurInv, HandPcs
<1>2. RowInv'
  BY DEF CreateLock, RowInv, Touches
<1>3. LockInv'
  <2>1. cur[p] \in Jobs /\ job[cur[p]].user \in Users
    BY DEF CreateLock, CurInv, HandPcs, RowInv, Touches
  <2>2. \A q \in Claimers : Holds(q) => cur[q] \in Jobs
    BY DEF Holds, CurInv, HandPcs
  <2>3. CASE pc'[p] # "won"
    <3>1. \A q \in Claimers : Holds(q)' => Holds(q) /\ Undisturbed(q)
      BY <2>3 DEF CreateLock, Holds, Undisturbed
    <3> QED
      BY <3>1, LockFrame
  <2>4. CASE pc'[p] = "won"
    <3>1. /\ lock[job[cur[p]].user].job = NoJob
          /\ lock' = [lock EXCEPT ![job[cur[p]].user] = [job |-> cur[p], beat |-> "fresh"]]
          /\ pc' = [pc EXCEPT ![p] = "won"] /\ UNCHANGED <<job, cur>>
      BY <2>4 DEF CreateLock
    <3>2. \A q \in Claimers : Holds(q) => job[cur[q]].user # job[cur[p]].user
      BY <3>1, HolderFacts, QueueAssumption DEF QueueAssumption
    <3>3. \A q \in Claimers : Holds(q)' => Holds(q) \/ q = p
      BY <3>1 DEF Holds
    <3>4. HolderKeepsLock'
      BY <2>1, <3>1, <3>2, <3>3 DEF LockInv, HolderKeepsLock
    <3>5. \A q, r \in Claimers : Holds(q)' /\ Holds(r)' /\ q # r => cur'[q] # cur'[r]
      BY <3>1, <3>2, <3>3 DEF LockInv
    <3> QED
      BY <3>4, <3>5 DEF LockInv
  <2> QED
    BY <2>3, <2>4
<1>4. AliveInv'
  BY DEF CreateLock, AliveInv, Touches, Reclaiming, Stale
<1>5. ReclaimInv'
  BY DEF CreateLock, ReclaimInv, Touches, Reclaiming
<1>6. RunInv'
  BY DEF CreateLock, RunInv, Running
<1> QED
  BY <1>1, <1>2, <1>3, <1>4, <1>5, <1>6

\* A holder's lock row is fresh, so the one stolen was nobody's.
LEMMA InvStealLock ==
    ASSUME IInv, NEW p \in Claimers, StealLock(p)
    PROVE  QueueInv'
<1> USE DEF IInv, QueueInv, TypeOK, Goto, Procs, Claimers
<1>1. CurInv'
  BY DEF StealLock, CurInv, HandPcs
<1>2. RowInv'
  BY DEF StealLock, RowInv, Touches
<1>3. LockInv'
  <2>1. cur[p] \in Jobs /\ job[cur[p]].user \in Users
    BY DEF StealLock, CurInv, HandPcs, RowInv, Touches
  <2>2. \A q \in Claimers : Holds(q) => cur[q] \in Jobs
    BY DEF Holds, CurInv, HandPcs
  <2>3. CASE pc'[p] # "won"
    <3>1. \A q \in Claimers : Holds(q)' => Holds(q) /\ Undisturbed(q)
      BY <2>3 DEF StealLock, Holds, Undisturbed
    <3> QED
      BY <3>1, LockFrame
  <2>4. CASE pc'[p] = "won"
    <3>1. /\ lock[job[cur[p]].user].beat = "stale"
          /\ lock' = [lock EXCEPT ![job[cur[p]].user] = [job |-> cur[p], beat |-> "fresh"]]
          /\ pc' = [pc EXCEPT ![p] = "won"] /\ UNCHANGED <<job, cur>>
      BY <2>4 DEF StealLock
    <3>2. \A q \in Claimers : Holds(q) => job[cur[q]].user # job[cur[p]].user
      BY <3>1, HolderFacts, QueueAssumption DEF QueueAssumption
    <3>3. \A q \in Claimers : Holds(q)' => Holds(q) \/ q = p
      BY <3>1 DEF Holds
    <3>4. HolderKeepsLock'
      BY <2>1, <3>1, <3>2, <3>3 DEF LockInv, HolderKeepsLock
    <3>5. \A q, r \in Claimers : Holds(q)' /\ Holds(r)' /\ q # r => cur'[q] # cur'[r]
      BY <3>1, <3>2, <3>3 DEF LockInv
    <3> QED
      BY <3>4, <3>5 DEF LockInv
  <2> QED
    BY <2>3, <2>4
<1>4. AliveInv'
  BY DEF StealLock, AliveInv, Touches, Reclaiming, Stale
<1>5. ReclaimInv'
  BY DEF StealLock, ReclaimInv, Touches, Reclaiming
<1>6. RunInv'
  BY DEF StealLock, RunInv, Running
<1> QED
  BY <1>1, <1>2, <1>3, <1>4, <1>5, <1>6

\* A request cancels its own row.
LEMMA InvMarkLost ==
    ASSUME IInv, NEW p \in Claimers, MarkLost(p)
    PROVE  QueueInv'
<1> USE DEF IInv, QueueInv, TypeOK, Goto, Procs, Claimers
<1>1. CurInv'
  BY QueueAssumption DEF MarkLost, CurInv, HandPcs
<1>2. RowInv'
  BY QueueAssumption DEF MarkLost, RowInv, Touches, WithStatus
<1>3. LockInv'
  BY QueueAssumption DEF MarkLost, LockInv, HolderKeepsLock, Holds, WithStatus
<1>4. AliveInv'
  BY QueueAssumption
    DEF MarkLost, AliveInv, Touches, Reclaiming, Stale, WithStatus
<1>5. ReclaimInv'
  BY QueueAssumption DEF MarkLost, ReclaimInv, Touches, Reclaiming, WithStatus
<1>6. RunInv'
  BY DEF MarkLost, RunInv, Running, WithStatus
<1> QED
  BY <1>1, <1>2, <1>3, <1>4, <1>5, <1>6

\* The holder claims; its row turns RUNNING and fresh.
LEMMA InvClaimJob ==
    ASSUME IInv, NEW p \in Claimers, ClaimJob(p)
    PROVE  QueueInv'
<1> USE DEF IInv, QueueInv, TypeOK, Goto, Procs, Claimers
<1>1. /\ pc[p] = "won" /\ UNCHANGED <<lock, cur, who, own>>
      /\ \/ /\ job[cur[p]].status = "QUEUED" /\ Goto(p, "run")
            /\ todo' = [todo EXCEPT ![p] = {}]
            /\ job' = [job EXCEPT ![cur[p]] = Claimed(@)]
         \/ /\ job[cur[p]].status # "QUEUED" /\ Goto(p, "unclaimed")
            /\ UNCHANGED <<job, todo>>
  BY DEF ClaimJob
<1>2. \A i \in Jobs :
          \/ job'[i] = job[i]
          \/ /\ i = cur[p] /\ job[i].status = "QUEUED"
             /\ job'[i].user = job[i].user /\ job'[i].status = "RUNNING"
             /\ job'[i].beat = "fresh"
  BY <1>1, ClaimedFields DEF CurInv, HandPcs
<1>3. job[cur[p]].status = "QUEUED" => job'[cur[p]].status = "RUNNING"
  BY <1>1, ClaimedFields DEF CurInv, HandPcs
<1>4. CurInv'
  BY <1>1 DEF CurInv, HandPcs
<1>5. RowInv'
  BY <1>1, <1>2 DEF RowInv, Touches
<1>6. LockInv'
  <2>1. \A q \in Claimers : Holds(q)' => Holds(q) /\ cur'[q] = cur[q]
    BY <1>1 DEF Holds
  <2>2. \A q \in Claimers : Holds(q) => cur[q] \in Jobs
    BY DEF Holds, CurInv, HandPcs
  <2>3. \A i \in Jobs : job'[i].user = job[i].user
    BY <1>2
  <2>4. \A q \in Claimers : Holds(q)' => Holds(q) /\ Undisturbed(q)
    BY <1>1, <2>1, <2>2, <2>3 DEF Undisturbed
  <2> QED
    BY <2>4, LockFrame
<1>7. AliveInv'
  BY <1>1, <1>2 DEF AliveInv, Touches, Reclaiming, Stale
<1>8. ReclaimInv'
  BY <1>1 DEF ReclaimInv, Touches, Reclaiming
<1>9. RunInv'
  BY <1>1, <1>3 DEF RunInv, Running, CurInv, HandPcs
<1> QED
  BY <1>4, <1>5, <1>6, <1>7, <1>8, <1>9

\* A holder deletes its own lock row, and no other holder has its job.
LEMMA InvReleaseUserLock ==
    ASSUME IInv, NEW p \in Claimers, ReleaseUserLock(p)
    PROVE  QueueInv'
<1> USE DEF IInv, QueueInv, TypeOK, Goto, Procs, Claimers
<1>1. /\ Holds(p) /\ ~Holds(p)' /\ UNCHANGED <<job, todo, who, own>>
      /\ cur' = [cur EXCEPT ![p] = NoJob]
      /\ \A q \in Claimers : q # p => pc'[q] = pc[q]
      /\ \A u \in Users : lock[u].job # cur[p] => lock'[u] = lock[u]
  BY DEF ReleaseUserLock, Holds
<1>2. \A q \in Claimers : Holds(q) => job[cur[q]].user \in Users
  BY DEF RowInv, Touches, Holds, CurInv, HandPcs
<1>3. \A q \in Claimers : Holds(q)' => Holds(q) /\ q # p /\ cur'[q] = cur[q] /\ cur[q] # cur[p]
  BY <1>1 DEF Holds, LockInv
<1>4. CurInv'
  BY QueueAssumption DEF ReleaseUserLock, CurInv, HandPcs
<1>5. RowInv'
  BY QueueAssumption DEF ReleaseUserLock, RowInv, Touches
<1>6. LockInv'
  BY QueueAssumption DEF ReleaseUserLock, LockInv, HolderKeepsLock, Holds,
       CurInv, HandPcs, RowInv, Touches
<1>7. AliveInv'
  BY QueueAssumption DEF ReleaseUserLock, AliveInv, Touches, Reclaiming, Stale
<1>8. ReclaimInv'
  BY QueueAssumption DEF ReleaseUserLock, ReclaimInv, Touches, Reclaiming
<1>9. RunInv'
  BY DEF ReleaseUserLock, RunInv, Running
<1> QED
  BY <1>4, <1>5, <1>6, <1>7, <1>8, <1>9

\* The new row was absent.
LEMMA InvStartImport ==
    ASSUME IInv, NEW p \in Claimers \cup Imports, StartImport(p)
    PROVE  QueueInv'
<1> USE DEF IInv, QueueInv, TypeOK, Goto, Procs, Claimers
<1>1. CurInv'
  BY QueueAssumption DEF StartImport, CurInv, HandPcs
<1>2. RowInv'
  BY DEF StartImport, RowInv, Touches, RunningRow
<1>3. LockInv'
  BY QueueAssumption DEF StartImport, LockInv, HolderKeepsLock, Holds, RowInv,
       Touches, Absent
<1>4. AliveInv'
  BY DEF StartImport, AliveInv, Touches, Reclaiming, Stale, RunningRow
<1>5. ReclaimInv'
  BY DEF StartImport, ReclaimInv, Touches, Reclaiming, RunningRow
<1>6. RunInv'
  BY QueueAssumption DEF StartImport, RunInv, Running, RunningRow
<1> QED
  BY <1>1, <1>2, <1>3, <1>4, <1>5, <1>6

\* Only the process's own row changes, to a finished one.
LEMMA InvEndImport ==
    ASSUME IInv, NEW p \in Claimers \cup Imports, EndImport(p)
    PROVE  QueueInv'
<1> USE DEF IInv, QueueInv, TypeOK, Goto, Procs, Claimers
<1>1. \A i \in Jobs : \/ job'[i] = job[i]
                        \/ /\ i = own[p] /\ job'[i].user = job[i].user
                           /\ job'[i].status \in {"SUCCESS", "FAILED"}
  BY StatusFields DEF EndImport
<1>2. CurInv'
  BY DEF EndImport, CurInv, HandPcs
<1>3. RowInv'
  BY <1>1, QueueAssumption DEF EndImport, RowInv, Touches
<1>4. LockInv'
  BY <1>1, QueueAssumption
    DEF EndImport, LockInv, HolderKeepsLock, Holds, CurInv, HandPcs
<1>5. AliveInv'
  BY <1>1 DEF EndImport, AliveInv, Touches, Reclaiming, Stale
<1>6. ReclaimInv'
  BY <1>1 DEF EndImport, ReclaimInv, Touches, Reclaiming
<1>7. RunInv'
  BY <1>1 DEF EndImport, RunInv, Running, CurInv, HandPcs
<1> QED
  BY <1>2, <1>3, <1>4, <1>5, <1>6, <1>7

\* The holder's row is finished.
LEMMA InvFinishRun ==
    ASSUME IInv, NEW p \in Claimers, FinishRun(p)
    PROVE  QueueInv'
<1> USE DEF IInv, QueueInv, TypeOK, Goto, Procs, Claimers
<1>1. CurInv'
  BY DEF FinishRun, CurInv, HandPcs
<1>2. RowInv'
  BY DEF FinishRun, RowInv, Touches, WithStatus
<1>3. LockInv'
  <2>1. \A q \in Claimers : Holds(q)' => Holds(q) /\ Undisturbed(q)
    BY StatusFields DEF FinishRun, Holds, Undisturbed, CurInv, HandPcs
  <2> QED
    BY <2>1, LockFrame
<1>4. AliveInv'
  BY DEF FinishRun, AliveInv, Touches, Reclaiming, Stale, WithStatus
<1>5. ReclaimInv'
  BY DEF FinishRun, ReclaimInv, Touches, Reclaiming, WithStatus
<1>6. RunInv'
  BY DEF FinishRun, RunInv, Running, WithStatus
<1> QED
  BY <1>1, <1>2, <1>3, <1>4, <1>5, <1>6

\* Only the label moves, inside the holder's part.
LEMMA InvRunThrows ==
    ASSUME IInv, NEW p \in Claimers, RunThrows(p)
    PROVE  QueueInv'
<1> USE DEF IInv, QueueInv, TypeOK, Goto, Procs, Claimers
<1>1. CurInv'
  BY DEF RunThrows, CurInv, HandPcs
<1>2. RowInv'
  BY DEF RunThrows, RowInv, Touches
<1>3. LockInv'
  BY DEF RunThrows, LockInv, HolderKeepsLock, Holds, CurInv, RowInv, Touches
<1>4. AliveInv'
  BY DEF RunThrows, AliveInv, Touches, Reclaiming, Stale
<1>5. ReclaimInv'
  BY DEF RunThrows, ReclaimInv, Touches, Reclaiming
<1>6. RunInv'
  BY DEF RunThrows, RunInv, Running
<1> QED
  BY <1>1, <1>2, <1>3, <1>4, <1>5, <1>6

\* A holder deletes lock rows of its own job, which no other holder has.
LEMMA InvRelease ==
    ASSUME IInv, NEW p \in Claimers, Release(p)
    PROVE  QueueInv'
<1> USE DEF IInv, QueueInv, TypeOK, Goto, Procs, Claimers
<1>1. /\ Holds(p) /\ ~Holds(p)' /\ UNCHANGED <<job, todo, who, own>>
      /\ cur' = [cur EXCEPT ![p] = NoJob]
      /\ \A q \in Claimers : q # p => pc'[q] = pc[q]
      /\ lock' \in {Released(cur[p]), lock}
  BY DEF Release, Holds, Idle
<1>2. \A q \in Claimers : Holds(q) => job[cur[q]].user \in Users
  BY DEF RowInv, Touches, Holds, CurInv, HandPcs
<1>3. \A q \in Claimers : Holds(q)' => Holds(q) /\ q # p /\ cur'[q] = cur[q] /\ cur[q] # cur[p]
  BY <1>1 DEF Holds, LockInv
<1>4. CurInv'
  BY QueueAssumption DEF Release, CurInv, HandPcs, Idle
<1>5. RowInv'
  BY QueueAssumption DEF Release, RowInv, Touches
<1>6. LockInv'
  BY <1>1, <1>2, <1>3 DEF LockInv, HolderKeepsLock, CurInv, HandPcs, RowInv,
       Touches, Released, Idle
<1>7. AliveInv'
  BY QueueAssumption DEF Release, AliveInv, Touches, Reclaiming, Stale
<1>8. ReclaimInv'
  BY QueueAssumption DEF Release, ReclaimInv, Touches, Reclaiming, Idle
<1>9. RunInv'
  BY DEF Release, RunInv, Running, Idle
<1> QED
  BY <1>4, <1>5, <1>6, <1>7, <1>8, <1>9

\* Nothing is in hand.
LEMMA InvCheckManual ==
    ASSUME IInv, NEW r \in Requests, CheckManual(r)
    PROVE  QueueInv'
<1> USE DEF IInv, QueueInv, TypeOK, Goto, Procs, Claimers
<1>1. CurInv'
  BY DEF CheckManual, CurInv, HandPcs
<1>2. RowInv'
  BY DEF CheckManual, RowInv, Touches
<1>3. LockInv'
  <2>1. \A q \in Claimers : Holds(q)' => Holds(q) /\ Undisturbed(q)
    BY DEF CheckManual, Holds, Undisturbed
  <2> QED
    BY <2>1, LockFrame
<1>4. AliveInv'
  BY DEF CheckManual, AliveInv, Touches, Reclaiming, Stale
<1>5. ReclaimInv'
  BY DEF CheckManual, ReclaimInv, Touches, Reclaiming
<1>6. RunInv'
  BY DEF CheckManual, RunInv, Running
<1> QED
  BY <1>1, <1>2, <1>3, <1>4, <1>5, <1>6

\* The new row was absent, so in nobody's hands.
LEMMA InvEnqueueManual ==
    ASSUME IInv, NEW r \in Requests, EnqueueManual(r)
    PROVE  QueueInv'
<1> USE DEF IInv, QueueInv, TypeOK, Goto, Procs, Claimers
<1>1. CurInv'
  BY DEF EnqueueManual, CurInv, HandPcs, Absent
<1>2. RowInv'
  BY DEF EnqueueManual, RowInv, Touches, CurInv, QueuedRow
<1>3. LockInv'
  BY DEF EnqueueManual, LockInv, HolderKeepsLock, Holds, CurInv, HandPcs,
       RowInv, Touches, QueuedRow, Absent
<1>4. AliveInv'
  BY DEF EnqueueManual, AliveInv, Touches, Reclaiming, Stale, QueuedRow
<1>5. ReclaimInv'
  BY DEF EnqueueManual, ReclaimInv, Touches, Reclaiming, RowInv, Absent
<1>6. RunInv'
  <2>1. \A q \in Claimers : Running(q)' => Running(q) /\ cur'[q] = cur[q]
    BY DEF EnqueueManual, Running
  <2>2. \A q \in Claimers : Running(q) => cur[q] \in Jobs /\ job[cur[q]].status # "ABSENT"
    BY DEF Running, CurInv, HandPcs, RowInv, Touches
  <2>3. \A i \in Jobs : job[i].status # "ABSENT" => job'[i] = job[i]
    BY DEF EnqueueManual, Absent
  <2> QED
    BY <2>1, <2>2, <2>3 DEF RunInv
<1> QED
  BY <1>1, <1>2, <1>3, <1>4, <1>5, <1>6

\* As Release, but the crash handler may keep the job in hand.
LEMMA InvReleaseThenHandle ==
    ASSUME IInv, NEW p \in Requests, ReleaseThenHandle(p)
    PROVE  QueueInv'
<1> USE DEF IInv, QueueInv, TypeOK, Goto, Procs, Claimers
<1>1. /\ Holds(p) /\ ~Holds(p)' /\ UNCHANGED <<job, todo, who, own>>
      /\ \A q \in Claimers : q # p => pc'[q] = pc[q] /\ cur'[q] = cur[q]
      /\ lock' \in {Released(cur[p]), lock}
  BY DEF ReleaseThenHandle, Holds
<1>2. \A q \in Claimers : Holds(q) => job[cur[q]].user \in Users
  BY DEF RowInv, Touches, Holds, CurInv, HandPcs
<1>3. \A q \in Claimers : Holds(q)' => Holds(q) /\ q # p /\ cur'[q] = cur[q] /\ cur[q] # cur[p]
  BY <1>1 DEF Holds, LockInv
<1>4. CurInv'
  BY QueueAssumption DEF ReleaseThenHandle, CurInv, HandPcs
<1>5. RowInv'
  BY QueueAssumption DEF ReleaseThenHandle, RowInv, Touches
<1>6. LockInv'
  BY QueueAssumption DEF ReleaseThenHandle, LockInv, HolderKeepsLock, Holds,
       CurInv, HandPcs, RowInv, Touches, Released
<1>7. AliveInv'
  BY QueueAssumption DEF ReleaseThenHandle, AliveInv, Touches, Reclaiming, Stale
<1>8. ReclaimInv'
  BY QueueAssumption DEF ReleaseThenHandle, ReclaimInv, Touches, Reclaiming
<1>9. RunInv'
  BY DEF ReleaseThenHandle, RunInv, Running
<1> QED
  BY <1>4, <1>5, <1>6, <1>7, <1>8, <1>9

\* A row in hand becomes FAILED.
LEMMA InvCrashHandler ==
    ASSUME IInv, NEW r \in Requests, CrashHandler(r)
    PROVE  QueueInv'
<1> USE DEF IInv, QueueInv, TypeOK, Goto, Procs, Claimers
<1>1. CurInv'
  BY QueueAssumption DEF CrashHandler, CurInv, HandPcs
<1>2. RowInv'
  BY QueueAssumption DEF CrashHandler, RowInv, Touches, WithStatus
<1>3. LockInv'
  BY QueueAssumption
    DEF CrashHandler, LockInv, HolderKeepsLock, Holds, WithStatus
<1>4. AliveInv'
  BY QueueAssumption
    DEF CrashHandler, AliveInv, Touches, Reclaiming, Stale, WithStatus
<1>5. ReclaimInv'
  BY QueueAssumption
    DEF CrashHandler, ReclaimInv, Touches, Reclaiming, WithStatus
<1>6. RunInv'
  BY DEF CrashHandler, RunInv, Running, WithStatus
<1> QED
  BY <1>1, <1>2, <1>3, <1>4, <1>5, <1>6

\* Nothing is in hand.
LEMMA InvCheckRetry ==
    ASSUME IInv, NEW q \in Retries, CheckRetry(q)
    PROVE  QueueInv'
<1> USE DEF IInv, QueueInv, TypeOK, Goto, Procs, Claimers
<1>1. CurInv'
  BY DEF CheckRetry, CurInv, HandPcs
<1>2. RowInv'
  BY DEF CheckRetry, RowInv, Touches
<1>3. LockInv'
  BY QueueAssumption DEF CheckRetry, LockInv, HolderKeepsLock, Holds
<1>4. AliveInv'
  BY DEF CheckRetry, AliveInv, Touches, Reclaiming, Stale
<1>5. ReclaimInv'
  BY DEF CheckRetry, ReclaimInv, Touches, Reclaiming
<1>6. RunInv'
  BY DEF CheckRetry, RunInv, Running
<1> QED
  BY <1>1, <1>2, <1>3, <1>4, <1>5, <1>6

\* The new row was absent.
LEMMA InvStartRetry ==
    ASSUME IInv, NEW q \in Retries, StartRetry(q)
    PROVE  QueueInv'
<1> USE DEF IInv, QueueInv, TypeOK, Goto, Procs, Claimers
<1>1. CurInv'
  BY QueueAssumption DEF StartRetry, CurInv
<1>2. RowInv'
  BY DEF StartRetry, RowInv, Touches, CurInv, RunningRow
<1>3. LockInv'
  BY QueueAssumption DEF StartRetry, LockInv, HolderKeepsLock, Holds, CurInv,
       HandPcs, RowInv, Touches, Absent
<1>4. AliveInv'
  BY DEF StartRetry, AliveInv, Touches, Reclaiming, Stale, RunningRow
<1>5. ReclaimInv'
  BY DEF StartRetry, ReclaimInv, Touches, Reclaiming, RunningRow
<1>6. RunInv'
  BY QueueAssumption
    DEF StartRetry, RunInv, Running, CurInv, HandPcs, RunningRow
<1> QED
  BY <1>1, <1>2, <1>3, <1>4, <1>5, <1>6

\* Only the process's own row changes, to a finished one.
LEMMA InvEndRetry ==
    ASSUME IInv, NEW q \in Retries, EndRetry(q)
    PROVE  QueueInv'
<1> USE DEF IInv, QueueInv, TypeOK, Goto, Procs, Claimers
<1>1. CurInv'
  BY QueueAssumption DEF EndRetry, CurInv
<1>2. RowInv'
  BY QueueAssumption DEF EndRetry, RowInv, Touches, WithStatus, Row
<1>3. LockInv'
  BY QueueAssumption DEF EndRetry, LockInv, HolderKeepsLock, Holds, CurInv,
       HandPcs, WithStatus, Row
<1>4. AliveInv'
  BY DEF EndRetry, AliveInv, Touches, Reclaiming, Stale, CurInv, WithStatus, Row
<1>5. ReclaimInv'
  BY DEF EndRetry, ReclaimInv, Touches, Reclaiming, WithStatus, Row
<1>6. RunInv'
  BY DEF EndRetry, RunInv, Running, CurInv, HandPcs, WithStatus, Row
<1> QED
  BY <1>1, <1>2, <1>3, <1>4, <1>5, <1>6

\* Heartbeats only freshen.
LEMMA InvBeat ==
    ASSUME IInv, NEW p \in Claimers, Beat(p)
    PROVE  QueueInv'
<1> USE DEF IInv, QueueInv, TypeOK, Goto, Procs, Claimers
<1>1. /\ UNCHANGED <<pc, cur, todo, own>> /\ cur[p] \in Jobs
      /\ \A i \in Jobs : job'[i].user = job[i].user /\ job'[i].status = job[i].status
        /\ job'[i].due = job[i].due
                      /\ (job'[i] = job[i] \/ job'[i].beat = "fresh")
  BY DEF Beat, WithBeat, Row, Beating, Running, CurInv, HandPcs
<1>2. CurInv'
  BY DEF Beat, CurInv
<1>3. RowInv'
  BY <1>1 DEF RowInv, Touches
<1>4. LockInv'
  <2>1. \A q \in Claimers : Holds(q)' => Holds(q) /\ cur'[q] = cur[q] /\ cur[q] \in Jobs
    BY HolderFacts DEF Beat, Holds
  <2>2. \A q \in Claimers : Holds(q) => lock'[job[cur[q]].user] = lock[job[cur[q]].user]
    <3>1. \A row \in LockRow : row.beat = "fresh" => [row EXCEPT !.beat = "fresh"] = row
      BY DEF LockRow
    <3> QED
      BY <3>1, HolderFacts DEF Beat
  <2>3. \A q \in Claimers : Holds(q)' => Holds(q) /\ Undisturbed(q)
    BY <1>1, <2>1, <2>2 DEF Undisturbed
  <2> QED
    BY <2>3, LockFrame
<1>5. AliveInv'
  BY <1>1 DEF AliveInv, Touches, Reclaiming, Stale
<1>6. ReclaimInv'
  BY <1>1 DEF ReclaimInv, Touches, Reclaiming
<1>7. RunInv'
  BY <1>1 DEF RunInv, Running, CurInv, HandPcs
<1> QED
  BY <1>2, <1>3, <1>4, <1>5, <1>6, <1>7

\* No claimer alive touches the row.
LEMMA InvJobLapses ==
    ASSUME IInv, ~MayStall, NEW j \in Jobs, JobLapses(j)
    PROVE  QueueInv'
<1> USE DEF IInv, QueueInv, TypeOK, Goto, Procs, Claimers
<1>1. CurInv'
  BY DEF JobLapses, CurInv
<1>2. RowInv'
  BY DEF JobLapses, RowInv, Touches, WithBeat
<1>3. LockInv'
  BY DEF JobLapses, LockInv, HolderKeepsLock, Holds, WithBeat
<1>4. AliveInv'
  BY DEF JobLapses, AliveInv, Touches, Reclaiming, Stale, WithBeat
<1>5. ReclaimInv'
  BY DEF JobLapses, ReclaimInv, Touches, Reclaiming, WithBeat
<1>6. RunInv'
  BY DEF JobLapses, RunInv, Running, WithBeat
<1> QED
  BY <1>1, <1>2, <1>3, <1>4, <1>5, <1>6

\* No claimer alive touches the row.
LEMMA InvRetryDue ==
    ASSUME IInv, ~MayStall, NEW j \in Jobs, RetryDue(j)
    PROVE  QueueInv'
<1> USE DEF IInv, QueueInv, TypeOK, Goto, Procs, Claimers
<1>1. CurInv'
  BY DEF RetryDue, CurInv
<1>2. RowInv'
  BY DEF RetryDue, RowInv, Touches
<1>3. LockInv'
  BY DEF RetryDue, LockInv, HolderKeepsLock, Holds, HandPcs, RowInv
<1>4. AliveInv'
  BY DEF RetryDue, AliveInv, Touches, Reclaiming, Stale
<1>5. ReclaimInv'
  BY DEF RetryDue, ReclaimInv, Touches, Reclaiming
<1>6. RunInv'
  BY DEF RetryDue, RunInv, Running
<1> QED
  BY <1>1, <1>2, <1>3, <1>4, <1>5, <1>6

\* No claimer alive holds it.
LEMMA InvLockLapses ==
    ASSUME IInv, ~MayStall, NEW u \in Users, LockLapses(u)
    PROVE  QueueInv'
<1> USE DEF IInv, QueueInv, TypeOK, Goto, Procs, Claimers
<1>1. CurInv'
  BY DEF LockLapses, CurInv
<1>2. RowInv'
  BY DEF LockLapses, RowInv, Touches
<1>3. LockInv'
  BY DEF LockLapses, LockInv, HolderKeepsLock, Holds
<1>4. AliveInv'
  BY DEF LockLapses, AliveInv, Touches, Reclaiming, Stale
<1>5. ReclaimInv'
  BY DEF LockLapses, ReclaimInv, Touches, Reclaiming
<1>6. RunInv'
  BY DEF LockLapses, RunInv, Running
<1> QED
  BY <1>1, <1>2, <1>3, <1>4, <1>5, <1>6

\* The process forgets what it had in hand.
LEMMA InvCrash ==
    ASSUME IInv, NEW p \in Procs, Crash(p)
    PROVE  QueueInv'
<1> USE DEF IInv, QueueInv, TypeOK, Goto, Procs, Claimers
<1>1. CurInv'
  BY QueueAssumption DEF Crash, CurInv, HandPcs, Idle
<1>2. RowInv'
  BY QueueAssumption DEF Crash, RowInv, Touches
<1>3. LockInv'
  BY DEF Crash, LockInv, HolderKeepsLock, Holds, HandPcs, Idle
<1>4. AliveInv'
  BY QueueAssumption DEF Crash, AliveInv, Touches, Reclaiming, Stale
<1>5. ReclaimInv'
  BY QueueAssumption DEF Crash, ReclaimInv, Touches, Reclaiming
<1>6. RunInv'
  BY DEF Crash, RunInv, Running, Idle
<1> QED
  BY <1>1, <1>2, <1>3, <1>4, <1>5, <1>6

-----------------------------------------------------------------------------
(* The invariant and what follows from it.                                 *)

LEMMA InvInit == Init => IInv
<1> SUFFICES ASSUME Init PROVE QueueInv
  BY TypeInit DEF IInv
<1> USE DEF Init, Procs, Claimers
<1>1. \A p \in Claimers : pc[p] = "idle" /\ ~Holds(p) /\ ~Running(p) /\ ~Reclaiming(p)
  BY DEF Holds, Running, Reclaiming
<1>2. \A p \in Claimers, j \in Jobs : ~Touches(p, j)
  BY QueueAssumption DEF Touches, QueueAssumption
<1>3. CurInv
  BY QueueAssumption DEF CurInv, HandPcs, QueueAssumption
<1>4. RowInv
  BY <1>2, QueueAssumption DEF RowInv, NoRow, QueueAssumption
<1>5. LockInv /\ AliveInv /\ ReclaimInv /\ RunInv
  BY <1>1, <1>2 DEF LockInv, HolderKeepsLock, AliveInv, ReclaimInv, RunInv
<1> QED
  BY <1>3, <1>4, <1>5 DEF QueueInv

LEMMA InvStep == ASSUME ~MayStall PROVE IInv /\ [Next]_vars => IInv'
<1> SUFFICES ASSUME IInv, [Next]_vars PROVE QueueInv'
  BY TypeStep DEF IInv
<1>1. CASE UNCHANGED vars
  BY <1>1 DEF vars, IInv, QueueInv, CurInv, RowInv, LockInv, AliveInv,
       ReclaimInv, RunInv, HolderKeepsLock, Holds, Running, Touches, Stale,
       Reclaiming
<1>2. ASSUME NEW p \in Claimers, ClaimStep(p) \/ Beat(p) PROVE QueueInv'
  BY <1>2, InvCreateLock, InvStealLock, InvMarkLost, InvClaimJob,
     InvReleaseUserLock, InvStartImport, InvEndImport, InvFinishRun,
     InvRunThrows, InvRelease, InvBeat DEF ClaimStep
<1>3. ASSUME NEW w \in Workers, TickStep(w) PROVE QueueInv'
  BY <1>3, InvReclaimScan, InvReclaimOne, InvUnlockReclaimed,
     InvListSchedules, InvVisitSchedule, InvEnqueueScheduled, InvClaimScan,
     InvCheckCandidate, InvNothingClaimed, InvScheduleRetry,
     InvScheduleRetryThrows DEF TickStep
<1>4. ASSUME NEW r \in Requests, RequestStep(r) PROVE QueueInv'
  BY <1>4, InvCheckManual, InvEnqueueManual, InvReleaseThenHandle,
     InvCrashHandler DEF RequestStep
<1>5. ASSUME NEW q \in Retries, RetryStep(q) PROVE QueueInv'
  BY <1>5, InvCheckRetry, InvStartRetry, InvEndRetry DEF RetryStep
<1>6. ASSUME NEW i \in Imports, ImportStep(i) PROVE QueueInv'
  BY <1>6, InvStartImport, InvEndImport DEF ImportStep
<1>7. CASE TimeStep
  BY <1>7, InvJobLapses, InvRetryDue, InvLockLapses DEF TimeStep
<1>8. ASSUME NEW p \in Procs, Crash(p) PROVE QueueInv'
  BY <1>8, InvCrash
<1> QED
  BY <1>1, <1>2, <1>3, <1>4, <1>5, <1>6, <1>7, <1>8 DEF Next

\* Without stalls, every reachable state satisfies the inductive invariant.
THEOREM Inductive == ASSUME ~MayStall PROVE Spec => []IInv
BY InvInit, InvStep, PTL DEF Spec

\* Who runs holds the lock row of its workspace, and that row names one job.
LEMMA InvExcludes == IInv => OneClaimedRun
<1> SUFFICES ASSUME IInv, NEW p \in Claimers, NEW q \in Claimers, p # q,
                    Running(p), Running(q)
             PROVE  job[cur[p]].user # job[cur[q]].user
  BY DEF OneClaimedRun
<1>1. Holds(p) /\ Holds(q)
  BY DEF Running, Holds
<1>2. cur[p] # cur[q]
  BY <1>1 DEF IInv, QueueInv, LockInv
<1> QED
  BY <1>1, <1>2, HolderFacts

\* claimExclusively: as long as a live process is never suspended past the
\* five minute time-out, no two claimed runs of one workspace overlap.
THEOREM MutualExclusion == ASSUME ~MayStall PROVE Spec => []OneClaimedRun
BY Inductive, InvExcludes, PTL

\* Under the same condition nobody steals, reclaims or releases the lock row
\* of a live holder.
THEOREM LockIsKept == ASSUME ~MayStall PROVE Spec => []HolderKeepsLock
<1>1. IInv => HolderKeepsLock
  BY DEF IInv, QueueInv, LockInv
<1> QED
  BY <1>1, Inductive, PTL

-----------------------------------------------------------------------------
(* The queue implements Workspace.                                         *)

\* The step of Workspace that a step of the queue is.
WorkspaceStep == [W!WNext]_(W!wsvars)

\* Nobody starts, ends or swaps a run, and no row moves to another workspace.
SameRuns ==
    \A p \in Claimers : /\ Running(p)' <=> Running(p)
                        /\ Running(p) => cur'[p] = cur[p]
SameUsers ==
    \A j \in Jobs : job[j].status # "ABSENT" => job'[j].user = job[j].user

LEMMA RunsFrame ==
    ASSUME IInv, SameRuns, SameUsers PROVE activeRuns' = activeRuns
<1>1. \A p \in Claimers : Running(p) => cur[p] \in Jobs /\ job[cur[p]].status # "ABSENT"
  BY DEF IInv, QueueInv, CurInv, HandPcs, RowInv, Touches, Running
<1> QED
  BY <1>1 DEF SameRuns, SameUsers, activeRuns

\* A step that leaves the runs alone, and changes one row at most, submits
\* that row's ticket, withdraws it, or does neither.
LEMMA OneRowStep ==
    ASSUME IInv, IInv', SameRuns, NEW j \in Jobs,
           \A i \in Jobs : i # j => job'[i] = job[i],
           job[j].status # "ABSENT" => job'[j].user = job[j].user
    PROVE  WorkspaceStep
<1> DEFINE t == [user |-> job'[j].user, job |-> j]
<1>1. activeRuns' = activeRuns
  BY RunsFrame DEF SameUsers
<1>2. CASE job'[j].status = "QUEUED" /\ job[j].status # "QUEUED"
  <2>1. t \in W!Tickets
    BY <1>2 DEF W!Tickets, IInv, QueueInv, RowInv
  <2>2. waitingTickets' = waitingTickets \cup {t}
    BY <1>2 DEF waitingTickets
  <2> QED
    BY <1>1, <2>1, <2>2 DEF WorkspaceStep, W!WNext, W!Submit
<1>3. CASE job'[j].status # "QUEUED" /\ job[j].status = "QUEUED"
  <2>1. t \in W!Tickets
    BY <1>3 DEF W!Tickets, IInv, QueueInv, RowInv
  <2>2. waitingTickets' = waitingTickets \ {t}
    BY <1>3 DEF waitingTickets
  <2> QED
    BY <1>1, <2>1, <2>2 DEF WorkspaceStep, W!WNext, W!Withdraw
<1>4. CASE (job'[j].status = "QUEUED") <=> (job[j].status = "QUEUED")
  <2>1. waitingTickets' = waitingTickets
    BY <1>4 DEF waitingTickets
  <2> QED
    BY <1>1, <2>1 DEF WorkspaceStep, W!wsvars
<1> QED
  BY <1>2, <1>3, <1>4

\* A step that leaves the runs and the table alone changes nothing here.
LEMMA QuietStep == ASSUME IInv, SameRuns, UNCHANGED job PROVE WorkspaceStep
BY RunsFrame DEF SameUsers, WorkspaceStep, W!wsvars, waitingTickets

\* The end of p's run, in the queue's terms.
EndsRun(p) ==
    /\ Running(p) /\ ~Running(p)'
    /\ \A q \in Claimers : q # p => (Running(q)' <=> Running(q)) /\ cur'[q] = cur[q]
    /\ \A j \in Jobs : /\ job'[j].user = job[j].user
                       /\ (job'[j].status = "QUEUED") <=> (job[j].status = "QUEUED")

LEMMA EndStep == ASSUME IInv, NEW p \in Claimers, EndsRun(p) PROVE WorkspaceStep
<1> DEFINE r == [user |-> job[cur[p]].user, job |-> cur[p], by |-> p]
<1>1. \A q \in Claimers : Running(q) => Holds(q)
  BY DEF Running, Holds
<1>2. \A q \in Claimers : Running(q) => cur[q] \in Jobs
  BY <1>1, HolderFacts
<1>3. r \in activeRuns
  BY DEF EndsRun, activeRuns
<1>4. r \in W!Runs
  BY <1>1, HolderFacts DEF EndsRun, W!Runs
<1>5. activeRuns' = activeRuns \ {r}
  BY <1>2 DEF EndsRun, activeRuns
<1>6. waitingTickets' = waitingTickets
  BY DEF EndsRun, waitingTickets
<1> QED
  BY <1>3, <1>4, <1>5, <1>6 DEF WorkspaceStep, W!WNext, W!End

LEMMA BeginStep ==
    ASSUME IInv, IInv', NEW p \in Claimers, ClaimJob(p) PROVE WorkspaceStep
<1> USE DEF IInv, TypeOK, Procs
<1> DEFINE r == [user |-> job[cur[p]].user, job |-> cur[p], by |-> p]
           t == [user |-> job[cur[p]].user, job |-> cur[p]]
<1>1. CASE job[cur[p]].status # "QUEUED"
  <2>1. SameRuns
    BY <1>1 DEF ClaimJob, Goto, SameRuns, Running
  <2>2. UNCHANGED job
    BY <1>1 DEF ClaimJob
  <2> QED
    BY <2>1, <2>2, QuietStep
<1>2. CASE job[cur[p]].status = "QUEUED"
  <2>1. /\ pc[p] = "won" /\ UNCHANGED cur
        /\ job[cur[p]].status = "QUEUED"
        /\ job' = [job EXCEPT ![cur[p]] = Claimed(@)]
        /\ pc' = [pc EXCEPT ![p] = "run"]
    BY <1>2 DEF ClaimJob, Goto
  <2>2. Holds(p) /\ ~Running(p) /\ Running(p)'
    BY <2>1 DEF Holds, Running
  <2>3. cur[p] \in Jobs /\ job[cur[p]].user \in Users
    BY <2>2, HolderFacts
  <2>4. /\ \A i \in Jobs : i # cur[p] => job'[i] = job[i]
        /\ job'[cur[p]].user = job[cur[p]].user
        /\ job'[cur[p]].status = "RUNNING"
    BY <2>1, <2>3, ClaimedFields
  <2>5. \A q \in Claimers : Running(q) => /\ q # p /\ cur[q] \in Jobs /\ cur[q] # cur[p]
                                          /\ job[cur[q]].user # job[cur[p]].user
    <3>1. \A q \in Claimers : Running(q) => Holds(q)
      BY DEF Running, Holds
    <3> QED
      BY <2>2, <3>1, HolderFacts DEF QueueInv, LockInv
  <2>6. \A q \in Claimers : q # p => (Running(q)' <=> Running(q))
    BY <2>1 DEF Running
  <2>7. r \in W!Runs /\ t \in waitingTickets
    BY <2>1, <2>3 DEF W!Runs, waitingTickets
  <2>8. \A s \in activeRuns : s.user # r.user /\ s.by # r.by
    BY <2>5 DEF activeRuns
  <2>9. waitingTickets' = waitingTickets \ {t}
    BY <2>1, <2>3, <2>4 DEF waitingTickets
  <2>10. activeRuns' = activeRuns \cup {r}
    BY <2>1, <2>2, <2>4, <2>5, <2>6 DEF activeRuns
  <2>11. W!Begin(r)
    BY <2>7, <2>8, <2>9, <2>10 DEF W!Begin
  <2> QED
    BY <2>7, <2>11 DEF WorkspaceStep, W!WNext
<1> QED
  BY <1>1, <1>2

\* The actions that neither write the job table nor start or end a run.
QuietActions(p) ==
    \/ /\ p \in Claimers
       /\ \/ CreateLock(p) \/ StealLock(p) \/ ReleaseUserLock(p) \/ Release(p)
    \/ /\ p \in Workers
       /\ \/ ReclaimScan(p) \/ UnlockReclaimed(p) \/ ListSchedules(p)
          \/ VisitSchedule(p) \/ ClaimScan(p) \/ CheckCandidate(p)
          \/ NothingClaimed(p) \/ ScheduleRetryThrows(p)
    \/ p \in Requests /\ (CheckManual(p) \/ ReleaseThenHandle(p))
    \/ p \in Retries /\ CheckRetry(p)

LEMMA QuietActionStep ==
    ASSUME IInv, NEW p \in Procs, QuietActions(p) PROVE WorkspaceStep
<1> USE DEF IInv, TypeOK, Goto, SameRuns, Running, Procs, Claimers
<1>0. UNCHANGED job
  BY DEF QuietActions, CreateLock, StealLock, ReleaseUserLock, Release,
         ReclaimScan, UnlockReclaimed, ListSchedules, VisitSchedule, ClaimScan,
         CheckCandidate, NothingClaimed, ScheduleRetryThrows, CheckManual,
         ReleaseThenHandle, CheckRetry
<1>1. CASE p \in Claimers /\ (CreateLock(p) \/ StealLock(p) \/ ReleaseUserLock(p) \/ Release(p))
  <2>1. SameRuns
    BY <1>1 DEF CreateLock, StealLock, ReleaseUserLock, Release, Idle
  <2> QED
    BY <1>0, <2>1, QuietStep
<1>2. CASE p \in Workers /\ (ReclaimScan(p) \/ UnlockReclaimed(p) \/ ListSchedules(p) \/ VisitSchedule(p))
  <2>1. SameRuns
    BY <1>2 DEF ReclaimScan, UnlockReclaimed, ListSchedules, VisitSchedule
  <2> QED
    BY <1>0, <2>1, QuietStep
<1>3. CASE p \in Workers /\ (ClaimScan(p) \/ CheckCandidate(p) \/ NothingClaimed(p) \/ ScheduleRetryThrows(p))
  <2>1. SameRuns
    BY <1>3 DEF ClaimScan, CheckCandidate, NothingClaimed, ScheduleRetryThrows
  <2> QED
    BY <1>0, <2>1, QuietStep
<1>4. CASE p \in Requests /\ (CheckManual(p) \/ ReleaseThenHandle(p))
  <2>1. SameRuns
    BY <1>4, QueueAssumption DEF CheckManual, ReleaseThenHandle, QueueAssumption
  <2> QED
    BY <1>0, <2>1, QuietStep
<1>5. CASE p \in Retries /\ CheckRetry(p)
  <2>1. SameRuns
    BY <1>5, QueueAssumption DEF CheckRetry, QueueAssumption
  <2> QED
    BY <1>0, <2>1, QuietStep
<1> QED
  BY <1>1, <1>2, <1>3, <1>4, <1>5 DEF QuietActions

\* One lemma for each action that writes the job table without starting or
\* ending a run.
LEMMA MapsReclaimOne ==
    ASSUME IInv, IInv', NEW p \in Workers, ReclaimOne(p) PROVE WorkspaceStep
<1> USE DEF IInv, TypeOK, Goto, Procs, Claimers
<1>1. PICK e \in todo[p] : ReclaimedRow(p, e)
  BY ReclaimOneEffect
<1>2. SameRuns
  BY DEF ReclaimOne, SameRuns, Running
<1> QED
  BY <1>1, <1>2, OneRowStep DEF ReclaimedRow

LEMMA MapsEnqueueScheduled ==
    ASSUME IInv, IInv', NEW p \in Workers, EnqueueScheduled(p) PROVE WorkspaceStep
<1> USE DEF IInv, TypeOK, Goto, Procs, Claimers
<1>1. SameRuns
  BY QueueAssumption DEF EnqueueScheduled, SameRuns, Running, QueueAssumption
<1>2. CASE UNCHANGED job
  BY <1>1, <1>2, QuietStep
<1>3. CASE \E j \in Absent : \A i \in Jobs : i # j => job'[i] = job[i]
  BY <1>1, <1>3, OneRowStep DEF Absent
<1> QED
  BY <1>2, <1>3 DEF EnqueueScheduled, Absent

LEMMA MapsScheduleRetry ==
    ASSUME IInv, IInv', NEW p \in Workers, ScheduleRetry(p) PROVE WorkspaceStep
<1> USE DEF IInv, TypeOK, Goto, Procs, Claimers
<1>1. SameRuns
  BY QueueAssumption DEF ScheduleRetry, SameRuns, Running, QueueAssumption
<1>2. CASE UNCHANGED job
  BY <1>1, <1>2, QuietStep
<1>3. CASE cur[p] \in Jobs
  <2>1. /\ \A i \in Jobs : i # cur[p] => job'[i] = job[i]
        /\ job'[cur[p]].user = job[cur[p]].user
    BY <1>3, StatusFields DEF ScheduleRetry, Requeued, WithBeat, Row
  <2> QED
    BY <1>1, <1>3, <2>1, OneRowStep
<1> QED
  BY <1>2, <1>3, StatusFields DEF ScheduleRetry, WithStatus, WithBeat

LEMMA MapsMarkLost ==
    ASSUME IInv, IInv', NEW p \in Claimers, MarkLost(p) PROVE WorkspaceStep
<1> USE DEF IInv, TypeOK, Goto, Procs, Claimers
<1>1. SameRuns
  BY QueueAssumption DEF MarkLost, SameRuns, Running, QueueAssumption
<1>2. CASE UNCHANGED job
  BY <1>1, <1>2, QuietStep
<1>3. CASE cur[p] \in Jobs
  <2>1. /\ \A i \in Jobs : i # cur[p] => job'[i] = job[i]
        /\ job'[cur[p]].user = job[cur[p]].user
    BY <1>3, StatusFields DEF MarkLost, Requeued, WithBeat, Row
  <2> QED
    BY <1>1, <1>3, <2>1, OneRowStep
<1> QED
  BY <1>2, <1>3, StatusFields DEF MarkLost, WithStatus, WithBeat

LEMMA MapsEnqueueManual ==
    ASSUME IInv, IInv', NEW p \in Requests, EnqueueManual(p) PROVE WorkspaceStep
<1> USE DEF IInv, TypeOK, Goto, Procs, Claimers
<1>1. SameRuns
  BY QueueAssumption DEF EnqueueManual, SameRuns, Running, QueueAssumption
<1>2. CASE UNCHANGED job
  BY <1>1, <1>2, QuietStep
<1>3. CASE \E j \in Absent : \A i \in Jobs : i # j => job'[i] = job[i]
  BY <1>1, <1>3, OneRowStep DEF Absent
<1> QED
  BY <1>2, <1>3 DEF EnqueueManual, Absent

LEMMA MapsCrashHandler ==
    ASSUME IInv, IInv', NEW p \in Requests, CrashHandler(p) PROVE WorkspaceStep
<1> USE DEF IInv, TypeOK, Goto, Procs, Claimers
<1>1. SameRuns
  BY QueueAssumption DEF CrashHandler, SameRuns, Running, QueueAssumption
<1>2. CASE UNCHANGED job
  BY <1>1, <1>2, QuietStep
<1>3. CASE cur[p] \in Jobs
  <2>1. /\ \A i \in Jobs : i # cur[p] => job'[i] = job[i]
        /\ job'[cur[p]].user = job[cur[p]].user
    BY <1>3, StatusFields DEF CrashHandler, Requeued, WithBeat, Row
  <2> QED
    BY <1>1, <1>3, <2>1, OneRowStep
<1> QED
  BY <1>2, <1>3, StatusFields DEF CrashHandler, WithStatus, WithBeat

LEMMA MapsStartImport ==
    ASSUME IInv, IInv', NEW p \in Claimers \cup Imports, StartImport(p) PROVE WorkspaceStep
<1> USE DEF IInv, TypeOK, Goto, Procs, Claimers
<1>1. SameRuns
  BY QueueAssumption DEF StartImport, SameRuns, Running, QueueAssumption
<1>2. CASE UNCHANGED job
  BY <1>1, <1>2, QuietStep
<1>3. CASE \E j \in Absent : \A i \in Jobs : i # j => job'[i] = job[i]
  BY <1>1, <1>3, OneRowStep DEF Absent
<1> QED
  BY <1>2, <1>3 DEF StartImport, Absent

LEMMA MapsEndImport ==
    ASSUME IInv, IInv', NEW p \in Claimers \cup Imports, EndImport(p) PROVE WorkspaceStep
<1> USE DEF IInv, TypeOK, Goto, Procs, Claimers
<1>1. SameRuns
  BY QueueAssumption DEF EndImport, SameRuns, Running, QueueAssumption
<1>2. CASE UNCHANGED job
  BY <1>1, <1>2, QuietStep
<1>3. CASE own[p] \in Jobs
  <2>1. /\ \A i \in Jobs : i # own[p] => job'[i] = job[i]
        /\ job'[own[p]].user = job[own[p]].user
    BY <1>3, StatusFields DEF EndImport, Requeued, WithBeat, Row
  <2> QED
    BY <1>1, <1>3, <2>1, OneRowStep
<1> QED
  BY <1>2, <1>3, StatusFields DEF EndImport, WithStatus, WithBeat

LEMMA MapsStartRetry ==
    ASSUME IInv, IInv', NEW p \in Retries, StartRetry(p) PROVE WorkspaceStep
<1> USE DEF IInv, TypeOK, Goto, Procs, Claimers
<1>1. SameRuns
  BY QueueAssumption DEF StartRetry, SameRuns, Running, QueueAssumption
<1>2. CASE UNCHANGED job
  BY <1>1, <1>2, QuietStep
<1>3. CASE \E j \in Absent : \A i \in Jobs : i # j => job'[i] = job[i]
  BY <1>1, <1>3, OneRowStep DEF Absent
<1> QED
  BY <1>2, <1>3 DEF StartRetry, Absent

LEMMA MapsEndRetry ==
    ASSUME IInv, IInv', NEW p \in Retries, EndRetry(p) PROVE WorkspaceStep
<1> USE DEF IInv, TypeOK, Goto, Procs, Claimers
<1>1. SameRuns
  BY QueueAssumption DEF EndRetry, SameRuns, Running, QueueAssumption
<1>2. CASE UNCHANGED job
  BY <1>1, <1>2, QuietStep
<1>3. CASE own[p] \in Jobs
  <2>1. /\ \A i \in Jobs : i # own[p] => job'[i] = job[i]
        /\ job'[own[p]].user = job[own[p]].user
    BY <1>3, StatusFields DEF EndRetry, Requeued, WithBeat, Row
  <2> QED
    BY <1>1, <1>3, <2>1, OneRowStep
<1> QED
  BY <1>2, <1>3, StatusFields DEF EndRetry, WithStatus, WithBeat

LEMMA MapsBeat ==
    ASSUME IInv, IInv', NEW p \in Claimers, Beat(p) PROVE WorkspaceStep
<1> USE DEF IInv, TypeOK, Goto, Procs, Claimers
<1>1. SameRuns
  BY QueueAssumption DEF Beat, SameRuns, Running, QueueAssumption
<1>2. CASE UNCHANGED job
  BY <1>1, <1>2, QuietStep
<1>3. CASE cur[p] \in Jobs
  <2>1. /\ \A i \in Jobs : i # cur[p] => job'[i] = job[i]
        /\ job'[cur[p]].user = job[cur[p]].user
    BY <1>3, StatusFields DEF Beat, Requeued, WithBeat, Row
  <2> QED
    BY <1>1, <1>3, <2>1, OneRowStep
<1> QED
  BY <1>2, <1>3, StatusFields DEF Beat, WithStatus, WithBeat

LEMMA MapsTime == ASSUME IInv, IInv', TimeStep PROVE WorkspaceStep
<1> USE DEF IInv, TypeOK, SameRuns, Running
<1>1. ASSUME NEW j \in Jobs, JobLapses(j) \/ RetryDue(j) PROVE WorkspaceStep
  <2>1. SameRuns /\ \A i \in Jobs : i # j => job'[i] = job[i]
    BY <1>1 DEF JobLapses, RetryDue, WithBeat
  <2>2. job'[j].user = job[j].user
    BY <1>1 DEF JobLapses, RetryDue, WithBeat, Row
  <2> QED
    BY <2>1, <2>2, OneRowStep
<1>2. ASSUME NEW u \in Users, LockLapses(u) PROVE WorkspaceStep
  BY <1>2, QuietStep DEF LockLapses
<1> QED
  BY <1>1, <1>2 DEF TimeStep

LEMMA MapsFinishRun ==
    ASSUME IInv, NEW p \in Claimers, FinishRun(p) \/ RunThrows(p) PROVE WorkspaceStep
<1> USE DEF IInv, TypeOK, Goto, Procs
<1>1. /\ Running(p) /\ ~Running(p)'
      /\ \A q \in Claimers : q # p => (Running(q)' <=> Running(q)) /\ cur'[q] = cur[q]
  BY DEF FinishRun, RunThrows, Running
<1>2. cur[p] \in Jobs /\ job[cur[p]].status # "QUEUED"
  BY <1>1 DEF QueueInv, CurInv, HandPcs, RunInv, Running
<1>3. \A j \in Jobs : /\ job'[j].user = job[j].user
                      /\ (job'[j].status = "QUEUED") <=> (job[j].status = "QUEUED")
  BY <1>2, StatusFields DEF FinishRun, RunThrows
<1> QED
  BY <1>1, <1>3, EndStep DEF EndsRun

LEMMA MapsCrash == ASSUME IInv, NEW p \in Procs, Crash(p) PROVE WorkspaceStep
<1> USE DEF IInv, TypeOK, Goto, Procs, Idle
<1>1. \A q \in Claimers : q # p => (Running(q)' <=> Running(q)) /\ cur'[q] = cur[q]
  BY DEF Crash, Running
<1>2. UNCHANGED job /\ ~Running(p)'
  BY DEF Crash, Running
<1>3. CASE Running(p)
  BY <1>1, <1>2, <1>3, EndStep DEF EndsRun, Running
<1>4. CASE ~Running(p)
  BY <1>1, <1>2, <1>4, QuietStep DEF SameRuns
<1> QED
  BY <1>3, <1>4

\* Every step of the queue is a step of Workspace, or leaves it as it is.
LEMMA StepMaps == IInv /\ IInv' /\ [Next]_vars => WorkspaceStep
<1> SUFFICES ASSUME IInv, IInv', [Next]_vars PROVE WorkspaceStep
  OBVIOUS
<1>1. CASE UNCHANGED vars
  BY <1>1, QuietStep DEF vars, SameRuns, Running
<1>2. ASSUME NEW p \in Claimers, ClaimStep(p) \/ Beat(p) PROVE WorkspaceStep
  BY <1>2, QuietActionStep, MapsMarkLost, BeginStep, MapsStartImport,
     MapsEndImport, MapsFinishRun, MapsBeat DEF ClaimStep, QuietActions, Procs
<1>3. ASSUME NEW w \in Workers, TickStep(w) PROVE WorkspaceStep
  BY <1>3, QuietActionStep, MapsReclaimOne, MapsEnqueueScheduled,
     MapsScheduleRetry DEF TickStep, QuietActions, Procs, Claimers
<1>4. ASSUME NEW r \in Requests, RequestStep(r) PROVE WorkspaceStep
  BY <1>4, QuietActionStep, MapsEnqueueManual, MapsCrashHandler
     DEF RequestStep, QuietActions, Procs, Claimers
<1>5. ASSUME NEW q \in Retries, RetryStep(q) PROVE WorkspaceStep
  BY <1>5, QuietActionStep, MapsStartRetry, MapsEndRetry
     DEF RetryStep, QuietActions, Procs
<1>6. ASSUME NEW i \in Imports, ImportStep(i) PROVE WorkspaceStep
  BY <1>6, MapsStartImport, MapsEndImport DEF ImportStep
<1> QED
  BY <1>1, <1>2, <1>3, <1>4, <1>5, <1>6, MapsTime, MapsCrash DEF Next

LEMMA InitMaps == Init => W!WInit
BY DEF Init, W!WInit, waitingTickets, activeRuns, NoRow, Running, Procs

\* The queue implements Workspace: lease, heartbeat, steal, reclaim and retry
\* together start each run from a queued row, one per workspace at a time.
THEOREM Implements == ASSUME ~MayStall PROVE Spec => ImplementsWorkspace
BY InitMaps, StepMaps, Inductive, PTL
   DEF Spec, ImplementsWorkspace, W!WSpec, WorkspaceStep

-----------------------------------------------------------------------------
(* A run's row is visible: VisibleInv is kept.                             *)

\* A claimer past its claim has a job that nobody else holds.
LEMMA PastFacts ==
    ASSUME IInv, NEW p \in Claimers, Past(p)
    PROVE  /\ Holds(p) /\ ~Reclaiming(p)
           /\ cur[p] \in Jobs /\ job[cur[p]].status # "ABSENT"
           /\ \A q \in Claimers : Holds(q) /\ q # p => cur[q] # cur[p]
<1>1. Holds(p) /\ ~Reclaiming(p)
  BY DEF Past, Holds, Reclaiming
<1>2. cur[p] \in Jobs /\ job[cur[p]].status # "ABSENT"
  BY <1>1, HolderFacts DEF IInv, QueueInv, RowInv, Touches
<1>3. \A q \in Claimers : Holds(q) /\ q # p => cur[q] # cur[p]
  BY <1>1 DEF IInv, QueueInv, LockInv
<1> QED
  BY <1>1, <1>2, <1>3

LEMMA RunningIsPast == \A p \in Claimers : Running(p) => Past(p)
BY DEF Running, Past

\* The row of the import inside a run is no holder's: its workspace is the
\* run's, and the workspace's lock row names the run's job.
LEMMA OwnNotHeld ==
    ASSUME IInv, OwnInv, NEW p \in Claimers, pc[p] = "import",
           NEW q \in Claimers, Holds(q)
    PROVE  own[p] # cur[q]
<1>1. own[p] # cur[p] /\ job[own[p]].user = job[cur[p]].user
  BY DEF OwnInv
<1>2. Holds(p)
  BY DEF Holds
<1>3. CASE q = p
  BY <1>1, <1>3
<1>4. CASE q # p
  <2>1. cur[p] # cur[q]
    BY <1>2, <1>4 DEF IInv, QueueInv, LockInv
  <2>2. job[cur[p]].user # job[cur[q]].user
    BY <1>2, <2>1, HolderFacts
  <2> QED
    BY <1>1, <2>2
<1> QED
  BY <1>3, <1>4

\* What a request that threw, or its crash handler, has in hand.
LEMMA ThrownFacts ==
    ASSUME IInv, NEW r \in Requests, pc[r] \in {"threw", "handler"}
    PROVE  /\ r \in Claimers /\ ~Reclaiming(r)
           /\ cur[r] \in Jobs /\ job[cur[r]].status # "ABSENT"
<1>1. r \in Claimers /\ ~Reclaiming(r) /\ cur[r] \in Jobs
  BY DEF IInv, QueueInv, CurInv, HandPcs, Claimers, Reclaiming
<1> QED
  BY <1>1 DEF IInv, QueueInv, RowInv, Touches

\* Nobody claims a job, starts an import or throws.
SameLabels ==
    \A q \in Claimers :
        /\ Past(q)' => Past(q) /\ cur'[q] = cur[q]
        /\ Running(q)' => Running(q)
        /\ pc'[q] = "import" => pc[q] = "import" /\ own'[q] = own[q]
        /\ q \in Requests /\ pc'[q] \in {"threw", "handler"}
             => pc'[q] = pc[q] /\ cur'[q] = cur[q]

\* The table still shows the runs, and no row that threw is queued.
Undamaged ==
    /\ \A j \in Jobs : job[j].status # "ABSENT" => job'[j].user = job[j].user
    /\ \A q \in Claimers : Running(q)' =>
          job'[cur[q]].status = "RUNNING" /\ job'[cur[q]].beat = "fresh"
    /\ \A r \in Requests : pc'[r] \in {"threw", "handler"} =>
          job'[cur[r]].status # "QUEUED"

LEMMA VisibleFrame ==
    ASSUME IInv, VisibleInv, SameLabels, Undamaged PROVE VisibleInv'
<1> USE DEF VisibleInv, SameLabels, Undamaged
<1>1. RunVisible'
  BY RunningIsPast, PastFacts DEF RunVisible, Running, Past
<1>2. OwnInv'
  <2> SUFFICES ASSUME NEW p \in Claimers, pc'[p] = "import"
               PROVE  /\ own'[p] \in Jobs /\ own'[p] # cur'[p]
                      /\ job'[own'[p]].user = job'[cur'[p]].user
    BY DEF OwnInv
  <2>1. pc[p] = "import" /\ own'[p] = own[p] /\ cur'[p] = cur[p]
    BY DEF Past
  <2>2. own[p] \in Jobs /\ job[own[p]].status # "ABSENT"
    BY <2>1 DEF OwnInv, IInv, QueueInv, RowInv, Procs
  <2>3. cur[p] \in Jobs /\ job[cur[p]].status # "ABSENT"
    BY <2>1, PastFacts DEF Past
  <2> QED
    BY <2>1, <2>2, <2>3 DEF OwnInv
<1>3. HandlerInv'
  <2>1. \A r \in Requests : pc'[r] \in {"threw", "handler"} =>
          /\ pc'[r] = pc[r] /\ cur'[r] = cur[r]
          /\ job'[cur'[r]].status # "QUEUED"
    BY DEF Claimers
  <2>2. \A r \in Requests, p \in Claimers :
          pc'[r] = "handler" /\ Past(p)' => cur'[p] # cur'[r]
    BY <2>1 DEF HandlerInv
  <2> QED
    BY <2>1, <2>2 DEF HandlerInv
<1> QED
  BY <1>1, <1>2, <1>3

\* A step that leaves the table alone damages nothing.
LEMMA UndamagedFrame ==
    ASSUME IInv, VisibleInv, SameLabels, UNCHANGED job PROVE Undamaged
BY DEF VisibleInv, SameLabels, Undamaged, RunVisible, HandlerInv, Claimers

\* A step that writes one row damages nothing if the row is neither that of
\* a run nor one left by a request that threw.
LEMMA OneRowUndamaged ==
    ASSUME IInv, VisibleInv, SameLabels, NEW j,
           \A i \in Jobs : i # j => job'[i] = job[i],
           j \in Jobs /\ job[j].status # "ABSENT" => job'[j].user = job[j].user,
           \A q \in Claimers : Running(q) => cur[q] # j,
           \A r \in Requests : pc[r] \in {"threw", "handler"} =>
               cur[r] # j \/ job'[j].status # "QUEUED"
    PROVE  VisibleInv'
<1>1. \A q \in Claimers : Running(q)' =>
          job'[cur[q]].status = "RUNNING" /\ job'[cur[q]].beat = "fresh"
  BY RunningIsPast, PastFacts DEF SameLabels, VisibleInv, RunVisible
<1>2. \A r \in Requests : pc'[r] \in {"threw", "handler"} =>
          job'[cur[r]].status # "QUEUED"
  BY ThrownFacts DEF SameLabels, VisibleInv, HandlerInv, Claimers
<1>3. Undamaged
  BY <1>1, <1>2 DEF Undamaged
<1> QED
  BY <1>3, VisibleFrame

\* The actions that neither write the table nor claim a job or throw.
LEMMA VisibleCreateLock ==
    ASSUME IInv, VisibleInv, NEW p \in Claimers, CreateLock(p) PROVE VisibleInv'
<1>1. SameLabels
  BY DEF CreateLock, SameLabels, Goto, Past, Running, IInv, TypeOK, Procs
<1> QED
  BY <1>1, UndamagedFrame, VisibleFrame DEF CreateLock

LEMMA VisibleStealLock ==
    ASSUME IInv, VisibleInv, NEW p \in Claimers, StealLock(p) PROVE VisibleInv'
<1>1. SameLabels
  BY DEF StealLock, SameLabels, Goto, Past, Running, IInv, TypeOK, Procs
<1> QED
  BY <1>1, UndamagedFrame, VisibleFrame DEF StealLock

LEMMA VisibleReleaseUserLock ==
    ASSUME IInv, VisibleInv, NEW p \in Claimers, ReleaseUserLock(p)
    PROVE  VisibleInv'
<1>1. SameLabels
  BY DEF ReleaseUserLock, SameLabels, Goto, Past, Running, IInv, TypeOK, Procs
<1> QED
  BY <1>1, UndamagedFrame, VisibleFrame DEF ReleaseUserLock

LEMMA VisibleRelease ==
    ASSUME IInv, VisibleInv, NEW p \in Claimers, Release(p) PROVE VisibleInv'
<1>1. SameLabels
  BY DEF Release, SameLabels, Goto, Past, Running, IInv, TypeOK, Procs, Idle
<1> QED
  BY <1>1, UndamagedFrame, VisibleFrame DEF Release

\* The steps of a tick that only read, or give a lock row back.
LEMMA VisibleReading ==
    ASSUME IInv, VisibleInv, NEW w \in Workers,
           \/ ReclaimScan(w) \/ UnlockReclaimed(w) \/ ListSchedules(w)
           \/ VisitSchedule(w) \/ ClaimScan(w) \/ CheckCandidate(w)
           \/ NothingClaimed(w) \/ ScheduleRetryThrows(w)
    PROVE  VisibleInv'
<1> USE DEF Goto, Past, Running, IInv, TypeOK, Procs, Claimers, SameLabels
<1>0. w \notin Requests
  BY QueueAssumption DEF QueueAssumption
<1>1. ASSUME ReclaimScan(w) PROVE SameLabels /\ UNCHANGED job
  BY <1>1 DEF ReclaimScan
<1>2. ASSUME UnlockReclaimed(w) PROVE SameLabels /\ UNCHANGED job
  BY <1>2 DEF UnlockReclaimed
<1>3. ASSUME ListSchedules(w) PROVE SameLabels /\ UNCHANGED job
  BY <1>3 DEF ListSchedules
<1>4. ASSUME VisitSchedule(w) PROVE SameLabels /\ UNCHANGED job
  BY <1>4 DEF VisitSchedule
<1>5. ASSUME ClaimScan(w) PROVE SameLabels /\ UNCHANGED job
  BY <1>5 DEF ClaimScan
<1>6. ASSUME CheckCandidate(w) PROVE SameLabels /\ UNCHANGED job
  BY <1>6 DEF CheckCandidate
<1>7. ASSUME NothingClaimed(w) PROVE SameLabels /\ UNCHANGED job
  BY <1>7 DEF NothingClaimed
<1>8. ASSUME ScheduleRetryThrows(w) PROVE SameLabels /\ UNCHANGED job
  BY <1>0, <1>8 DEF ScheduleRetryThrows
<1>9. SameLabels /\ UNCHANGED job
  BY <1>1, <1>2, <1>3, <1>4, <1>5, <1>6, <1>7, <1>8
<1> QED
  BY <1>9, UndamagedFrame, VisibleFrame

\* What is reclaimed is in nobody's hands but a reclaimer's.
LEMMA VisibleReclaimOne ==
    ASSUME IInv, VisibleInv, NEW w \in Workers, ReclaimOne(w) PROVE VisibleInv'
<1>1. SameLabels
  BY DEF ReclaimOne, SameLabels, Goto, Past, Running, IInv, TypeOK, Procs, Claimers
<1>2. PICK e \in todo[w] : ReclaimedRow(w, e)
  BY ReclaimOneEffect DEF IInv
<1>3. w \in Claimers /\ Reclaiming(w) /\ Touches(w, e.job) /\ e.job \in Jobs
  BY <1>2 DEF ReclaimedRow, Reclaiming, Touches, Claimers
<1>4. \A q \in Claimers : cur[q] = e.job => Reclaiming(q)
  BY <1>3 DEF Touches, IInv, QueueInv, ReclaimInv
<1>5. \A q \in Claimers : Running(q) => cur[q] # e.job
  BY <1>4, RunningIsPast, PastFacts
<1>6. \A r \in Requests : pc[r] \in {"threw", "handler"} => cur[r] # e.job
  BY <1>4, ThrownFacts
<1> QED
  BY <1>1, <1>2, <1>5, <1>6, OneRowUndamaged DEF ReclaimedRow

\* A new row was absent, so in nobody's hands.
LEMMA VisibleNewRow ==
    ASSUME IInv, VisibleInv, SameLabels, NEW j \in Absent,
           \A i \in Jobs : i # j => job'[i] = job[i]
    PROVE  VisibleInv'
<1>1. j \in Jobs /\ job[j].status = "ABSENT"
  BY DEF Absent
<1>2. \A q \in Claimers : Running(q) => cur[q] # j
  BY <1>1, RunningIsPast, PastFacts
<1>3. \A r \in Requests : pc[r] \in {"threw", "handler"} => cur[r] # j
  BY <1>1, ThrownFacts
<1> QED
  BY <1>1, <1>2, <1>3, OneRowUndamaged

LEMMA VisibleEnqueueScheduled ==
    ASSUME IInv, VisibleInv, NEW w \in Workers, EnqueueScheduled(w)
    PROVE  VisibleInv'
<1>1. SameLabels
  BY DEF EnqueueScheduled, SameLabels, Goto, Past, Running, IInv, TypeOK, Procs,
     Claimers
<1>2. CASE UNCHANGED job
  BY <1>1, <1>2, UndamagedFrame, VisibleFrame
<1>3. CASE \E j \in Absent : \A i \in Jobs : i # j => job'[i] = job[i]
  BY <1>1, <1>3, VisibleNewRow
<1> QED
  BY <1>2, <1>3 DEF EnqueueScheduled, Absent, IInv, TypeOK

LEMMA VisibleEnqueueManual ==
    ASSUME IInv, VisibleInv, NEW r \in Requests, EnqueueManual(r)
    PROVE  VisibleInv'
<1>1. SameLabels
  BY DEF EnqueueManual, SameLabels, Goto, Past, Running, IInv, TypeOK, Procs,
     Claimers
<1>2. \E j \in Absent : \A i \in Jobs : i # j => job'[i] = job[i]
  BY DEF EnqueueManual, Absent, IInv, TypeOK
<1> QED
  BY <1>1, <1>2, VisibleNewRow

LEMMA VisibleCheckManual ==
    ASSUME IInv, VisibleInv, NEW r \in Requests, CheckManual(r) PROVE VisibleInv'
<1>1. SameLabels
  BY DEF CheckManual, SameLabels, Goto, Past, Running, IInv, TypeOK, Procs,
     Claimers
<1> QED
  BY <1>1, UndamagedFrame, VisibleFrame DEF CheckManual

\* Only a row that is QUEUED is cancelled, and no run's row is.
LEMMA VisibleMarkLost ==
    ASSUME IInv, VisibleInv, NEW p \in Claimers, MarkLost(p) PROVE VisibleInv'
<1>1. SameLabels
  BY DEF MarkLost, SameLabels, Goto, Past, Running, IInv, TypeOK, Procs, Claimers
<1>2. CASE UNCHANGED job
  BY <1>1, <1>2, UndamagedFrame, VisibleFrame
<1>3. CASE job[cur[p]].status = "QUEUED" /\ job' = WithStatus(cur[p], "CANCELLED")
  <2>1. \A i \in Jobs : /\ i # cur[p] => job'[i] = job[i]
                        /\ job'[i].user = job[i].user
                        /\ i = cur[p] => job'[i].status # "QUEUED"
    BY <1>3, StatusFields DEF IInv
  <2>2. \A q \in Claimers : Running(q) => cur[q] # cur[p]
    BY <1>3 DEF VisibleInv, RunVisible
  <2>3. \A r \in Requests : pc[r] \in {"threw", "handler"} => cur[r] # cur[p]
    BY <1>3 DEF VisibleInv, HandlerInv
  <2> QED
    BY <1>1, <2>1, <2>2, <2>3, OneRowUndamaged
<1> QED
  BY <1>2, <1>3 DEF MarkLost

\* The holder of the job writes its row on its way out.
LEMMA VisibleScheduleRetry ==
    ASSUME IInv, VisibleInv, NEW w \in Workers, ScheduleRetry(w) PROVE VisibleInv'
<1>1. SameLabels
  BY DEF ScheduleRetry, SameLabels, Goto, Past, Running, IInv, TypeOK, Procs,
     Claimers
<1>2. w \in Claimers /\ Past(w) /\ ~Running(w) /\ w \notin Requests
  BY QueueAssumption DEF ScheduleRetry, Past, Running, Claimers, QueueAssumption
<1>3. cur[w] \in Jobs
  BY <1>2, PastFacts
<1>4. /\ \A i \in Jobs : i # cur[w] => job'[i] = job[i]
      /\ job'[cur[w]].user = job[cur[w]].user
  BY <1>3 DEF ScheduleRetry, Requeued, IInv, TypeOK, Row
<1>5. \A q \in Claimers : Running(q) => cur[q] # cur[w]
  BY <1>2, PastFacts DEF Running, Holds
<1>6. \A r \in Requests : pc[r] \in {"threw", "handler"} => cur[r] # cur[w]
  <2> SUFFICES ASSUME NEW r \in Requests, pc[r] \in {"threw", "handler"}
               PROVE  cur[r] # cur[w]
    OBVIOUS
  <2>1. CASE pc[r] = "threw"
    BY <1>2, <2>1, PastFacts, ThrownFacts DEF Holds
  <2>2. CASE pc[r] = "handler"
    BY <1>2, <2>2 DEF VisibleInv, HandlerInv
  <2> QED
    BY <2>1, <2>2
<1> QED
  BY <1>1, <1>4, <1>5, <1>6, OneRowUndamaged

\* The crash handler writes the row of a run that is over.
LEMMA VisibleCrashHandler ==
    ASSUME IInv, VisibleInv, NEW r \in Requests, CrashHandler(r) PROVE VisibleInv'
<1>1. SameLabels
  BY DEF CrashHandler, SameLabels, Goto, Past, Running, IInv, TypeOK, Procs,
     Claimers
<1>2. pc[r] = "handler" /\ job' = WithStatus(cur[r], "FAILED")
  BY DEF CrashHandler
<1>3. \A i \in Jobs : /\ i # cur[r] => job'[i] = job[i]
                      /\ job'[i].user = job[i].user
                      /\ i = cur[r] => job'[i].status = "FAILED"
  BY <1>2, StatusFields DEF IInv
<1>4. \A q \in Claimers : Running(q) => cur[q] # cur[r]
  BY <1>2, RunningIsPast DEF VisibleInv, HandlerInv
<1>5. \A s \in Requests : pc[s] \in {"threw", "handler"} =>
          cur[s] # cur[r] \/ job'[cur[r]].status # "QUEUED"
  BY <1>2, <1>3, ThrownFacts
<1> QED
  BY <1>1, <1>3, <1>4, <1>5, OneRowUndamaged

\* The claim: the job was QUEUED, so nobody's, and its row is live from now on.
LEMMA VisibleClaimJob ==
    ASSUME IInv, VisibleInv, NEW p \in Claimers, ClaimJob(p) PROVE VisibleInv'
<1> USE DEF IInv, TypeOK, Procs
<1>1. CASE job[cur[p]].status # "QUEUED"
  <2>1. UNCHANGED job /\ SameLabels
    BY <1>1 DEF ClaimJob, SameLabels, Goto, Past, Running
  <2> QED
    BY <2>1, UndamagedFrame, VisibleFrame
<1>2. CASE job[cur[p]].status = "QUEUED"
  <2>1. /\ pc[p] = "won" /\ pc' = [pc EXCEPT ![p] = "run"]
        /\ UNCHANGED <<cur, own>>
        /\ job' = [job EXCEPT ![cur[p]] = Claimed(@)]
    BY <1>2 DEF ClaimJob, Goto
  <2>2. Holds(p) /\ cur[p] \in Jobs
    BY <2>1, HolderFacts DEF Holds
  <2>3. /\ \A i \in Jobs : i # cur[p] => job'[i] = job[i]
        /\ \A i \in Jobs : job'[i].user = job[i].user
        /\ job'[cur[p]].status = "RUNNING" /\ job'[cur[p]].beat = "fresh"
    BY <2>1, <2>2, ClaimedFields
  <2>4. \A q \in Claimers : q # p /\ Past(q) => cur[q] # cur[p]
    BY <2>2, PastFacts
  <2>5. \A q \in Claimers : q # p => pc'[q] = pc[q]
    BY <2>1
  <2>6. \A r \in Requests : pc'[r] \in {"threw", "handler"} =>
           pc'[r] = pc[r] /\ cur[r] # cur[p] /\ cur[r] \in Jobs
    BY <1>2, <2>1, ThrownFacts DEF VisibleInv, HandlerInv, Claimers
  <2>7. RunVisible'
    BY <2>1, <2>3, <2>4, <2>5, RunningIsPast, PastFacts
       DEF VisibleInv, RunVisible, Running
  <2>8. OwnInv'
    BY <2>1, <2>3, <2>5, PastFacts DEF VisibleInv, OwnInv, Past
  <2>9. HandlerInv'
    <3>1. \A r \in Requests : pc'[r] \in {"threw", "handler"} =>
             job'[cur'[r]].status # "QUEUED"
      BY <2>1, <2>3, <2>6 DEF VisibleInv, HandlerInv
    <3>2. \A r \in Requests, q \in Claimers :
             pc'[r] = "handler" /\ Past(q)' => cur'[q] # cur'[r]
      BY <2>1, <2>5, <2>6 DEF VisibleInv, HandlerInv, Past
    <3> QED
      BY <3>1, <3>2 DEF HandlerInv
  <2> QED
    BY <2>7, <2>8, <2>9 DEF VisibleInv
<1> QED
  BY <1>1, <1>2

\* The import's row is a new one.
LEMMA VisibleStartImport ==
    ASSUME IInv, VisibleInv, NEW p \in Claimers, StartImport(p), Imports = {}
    PROVE  VisibleInv'
<1> USE DEF IInv, TypeOK, Procs
<1>1. PICK j \in Absent :
        /\ job' = [job EXCEPT ![j] = RunningRow(job[cur[p]].user, "IMPORT")]
        /\ own' = [own EXCEPT ![p] = j]
        /\ pc[p] = "run" /\ pc' = [pc EXCEPT ![p] = "import"]
        /\ UNCHANGED cur
  BY DEF StartImport, Goto
<1>2. /\ j \in Jobs /\ job[j].status = "ABSENT"
      /\ \A i \in Jobs : i # j => job'[i] = job[i]
      /\ job'[j].user = job[cur[p]].user
  BY <1>1 DEF Absent, RunningRow
<1>3. Past(p) /\ Running(p)
  BY <1>1 DEF Past, Running
<1>4. \A q \in Claimers : (Past(q)' <=> Past(q)) /\ (Running(q)' <=> Running(q))
  BY <1>1 DEF Past, Running
<1>5. \A q \in Claimers : Past(q) => cur[q] \in Jobs /\ cur[q] # j
  BY <1>2, PastFacts
<1>6. \A r \in Requests : pc'[r] \in {"threw", "handler"} =>
         pc'[r] = pc[r] /\ cur[r] \in Jobs /\ cur[r] # j
  BY <1>1, <1>2, ThrownFacts DEF Claimers
<1>7. RunVisible'
  BY <1>1, <1>2, <1>4, <1>5, RunningIsPast DEF VisibleInv, RunVisible
<1>8. OwnInv'
  <2> SUFFICES ASSUME NEW q \in Claimers, pc'[q] = "import"
               PROVE  /\ own'[q] \in Jobs /\ own'[q] # cur[q]
                      /\ job'[own'[q]].user = job'[cur[q]].user
    BY <1>1 DEF OwnInv
  <2>1. Past(q)' /\ Past(q)
    BY <1>4 DEF Past
  <2>2. CASE q = p
    BY <1>1, <1>2, <1>5, <2>1, <2>2
  <2>3. CASE q # p
    <3>1. pc[q] = "import" /\ own'[q] = own[q]
      BY <1>1, <2>3
    <3>2. /\ own[q] \in Jobs /\ own[q] # cur[q]
          /\ job[own[q]].user = job[cur[q]].user
      BY <3>1 DEF VisibleInv, OwnInv
    <3>3. own[q] # j
      BY <1>2, <3>2 DEF QueueInv, RowInv
    <3> QED
      BY <1>2, <1>5, <2>1, <3>1, <3>2, <3>3
  <2> QED
    BY <2>2, <2>3
<1>9. HandlerInv'
  <2>1. \A r \in Requests : pc'[r] \in {"threw", "handler"} =>
             job'[cur'[r]].status # "QUEUED"
    BY <1>1, <1>2, <1>6 DEF VisibleInv, HandlerInv
  <2>2. \A r \in Requests, q \in Claimers :
             pc'[r] = "handler" /\ Past(q)' => cur'[q] # cur'[r]
    BY <1>1, <1>4, <1>6 DEF VisibleInv, HandlerInv
  <2> QED
    BY <2>1, <2>2 DEF HandlerInv
<1> QED
  BY <1>7, <1>8, <1>9 DEF VisibleInv

\* Only the import's row is finished, and that is no run's.
LEMMA VisibleEndImport ==
    ASSUME IInv, VisibleInv, NEW p \in Claimers, EndImport(p) PROVE VisibleInv'
<1>1. SameLabels
  BY DEF EndImport, SameLabels, Goto, Past, Running, IInv, TypeOK, Procs, Claimers
<1>2. CASE UNCHANGED job
  BY <1>1, <1>2, UndamagedFrame, VisibleFrame
<1>3. ASSUME NEW o \in {"SUCCESS", "FAILED"}, job' = WithStatus(own[p], o)
      PROVE  VisibleInv'
  <2>1. \A i \in Jobs : /\ i # own[p] => job'[i] = job[i]
                        /\ job'[i].user = job[i].user
                        /\ i = own[p] => job'[i].status # "QUEUED"
    BY <1>3, StatusFields DEF IInv
  <2>2. \A q \in Claimers : Running(q) => cur[q] # own[p]
    BY RunningIsPast, PastFacts, OwnNotHeld DEF EndImport, VisibleInv
  <2>3. \A r \in Requests : pc[r] \in {"threw", "handler"} =>
           cur[r] # own[p] \/ job'[own[p]].status # "QUEUED"
    BY <2>1, ThrownFacts
  <2> QED
    BY <1>1, <2>1, <2>2, <2>3, OneRowUndamaged
<1> QED
  BY <1>2, <1>3 DEF EndImport

\* A finished run's row is no other run's.
LEMMA VisibleFinishRun ==
    ASSUME IInv, VisibleInv, NEW p \in Claimers, FinishRun(p) \/ RunThrows(p)
    PROVE  VisibleInv'
<1> USE DEF IInv, TypeOK, Procs
<1>1. /\ pc[p] \in {"run", "write"} /\ UNCHANGED <<cur, own>>
      /\ \E l \in {"release", "retry", "threw"} : pc' = [pc EXCEPT ![p] = l]
      /\ \/ UNCHANGED job
         \/ \E o \in {"SUCCESS", "FAILED", "CANCELLED"} : job' = WithStatus(cur[p], o)
  BY DEF FinishRun, RunThrows, Goto
<1>2. Past(p) /\ Running(p) /\ ~Running(p)'
  BY <1>1 DEF Past, Running
<1>3. cur[p] \in Jobs /\ job[cur[p]].status = "RUNNING"
  BY <1>2, PastFacts DEF VisibleInv, RunVisible
<1>4. /\ \A i \in Jobs : i # cur[p] => job'[i] = job[i]
      /\ \A i \in Jobs : job'[i].user = job[i].user
      /\ job'[cur[p]].status # "QUEUED"
  BY <1>1, <1>3, StatusFields
<1>5. \A q \in Claimers : q # p => pc'[q] = pc[q]
  BY <1>1
<1>6. \A q \in Claimers : q # p /\ Past(q) => cur[q] # cur[p] /\ cur[q] \in Jobs
  BY <1>2, PastFacts
<1>7. RunVisible'
  BY <1>1, <1>2, <1>4, <1>5, <1>6, RunningIsPast DEF VisibleInv, RunVisible, Running
<1>8. OwnInv'
  <2>1. \A q \in Claimers : pc'[q] = "import" => q # p /\ pc[q] = "import" /\ Past(q)
    BY <1>1, <1>5 DEF Past
  <2> QED
    BY <1>1, <1>4, <1>6, <2>1 DEF VisibleInv, OwnInv
<1>9. HandlerInv'
  <2>1. ASSUME NEW r \in Requests, pc'[r] \in {"threw", "handler"}
        PROVE  job'[cur'[r]].status # "QUEUED"
    <3>1. CASE r = p
      BY <1>1, <1>4, <3>1
    <3>2. CASE r # p
      BY <1>1, <1>4, <1>5, <2>1, <3>2, ThrownFacts
         DEF VisibleInv, HandlerInv, Claimers
    <3> QED
      BY <3>1, <3>2
  <2>2. ASSUME NEW r \in Requests, NEW q \in Claimers, pc'[r] = "handler", Past(q)'
        PROVE  cur'[q] # cur'[r]
    <3>1. r # p /\ pc[r] = "handler"
      BY <1>1, <1>5, <2>2 DEF Claimers
    <3>2. Past(q)
      BY <1>2, <1>5, <2>2 DEF Past
    <3> QED
      BY <1>1, <3>1, <3>2 DEF VisibleInv, HandlerInv
  <2> QED
    BY <2>1, <2>2 DEF HandlerInv
<1> QED
  BY <1>7, <1>8, <1>9 DEF VisibleInv

\* A request that threw gives its lock back before its handler is called.
LEMMA VisibleReleaseThenHandle ==
    ASSUME IInv, VisibleInv, NEW r \in Requests, ReleaseThenHandle(r)
    PROVE  VisibleInv'
<1> USE DEF IInv, TypeOK, Procs, Claimers
<1>1. /\ pc[r] = "threw" /\ UNCHANGED <<job, own>> /\ ~Running(r) /\ Holds(r)
      /\ \/ pc' = [pc EXCEPT ![r] = "handler"] /\ UNCHANGED cur
         \/ pc' = [pc EXCEPT ![r] = "done"] /\ cur' = [cur EXCEPT ![r] = NoJob]
  BY DEF ReleaseThenHandle, Goto, Running, Holds
<1>2. /\ ~Past(r)' /\ pc'[r] \in {"handler", "done"}
      /\ pc'[r] = "handler" => cur'[r] = cur[r]
  BY <1>1 DEF Past
<1>3. \A q \in Claimers : q # r => pc'[q] = pc[q] /\ cur'[q] = cur[q]
  BY <1>1
<1>4. \A q \in Claimers : Past(q)' => q # r /\ Past(q) /\ cur'[q] = cur[q]
  BY <1>2, <1>3 DEF Past
<1>5. \A q \in Claimers : Past(q)' => cur[q] # cur[r]
  BY <1>1, <1>4, PastFacts
<1>6. RunVisible'
  BY <1>1, <1>4, RunningIsPast DEF VisibleInv, RunVisible, Running, Past
<1>7. OwnInv'
  <2>1. \A q \in Claimers : pc'[q] = "import" => q # r
    BY <1>2
  <2> QED
    BY <1>1, <1>3, <2>1 DEF VisibleInv, OwnInv
<1>8. HandlerInv'
  <2>1. ASSUME NEW s \in Requests, pc'[s] \in {"threw", "handler"}
        PROVE  job'[cur'[s]].status # "QUEUED"
    <3>1. cur'[s] = cur[s] /\ pc[s] \in {"threw", "handler"}
      BY <1>1, <1>2, <1>3, <2>1
    <3> QED
      BY <1>1, <3>1 DEF VisibleInv, HandlerInv
  <2>2. ASSUME NEW s \in Requests, NEW q \in Claimers, pc'[s] = "handler", Past(q)'
        PROVE  cur'[q] # cur'[s]
    <3>1. CASE s = r
      BY <1>2, <1>4, <1>5, <2>2, <3>1
    <3>2. CASE s # r
      BY <1>3, <1>4, <2>2, <3>2 DEF VisibleInv, HandlerInv
    <3> QED
      BY <3>1, <3>2
  <2> QED
    BY <2>1, <2>2 DEF HandlerInv
<1> QED
  BY <1>6, <1>7, <1>8 DEF VisibleInv

\* A heartbeat makes a row fresh and changes no status.
LEMMA VisibleBeat ==
    ASSUME IInv, VisibleInv, NEW p \in Claimers, Beat(p) PROVE VisibleInv'
<1> USE DEF IInv, TypeOK
<1>1. UNCHANGED <<pc, cur, own>>
  BY DEF Beat
<1>2. SameLabels
  BY <1>1 DEF SameLabels, Past, Running
<1>3. \A i \in Jobs :
          /\ job'[i].user = job[i].user /\ job'[i].status = job[i].status
          /\ job[i].beat = "fresh" => job'[i].beat = "fresh"
  BY DEF Beat, WithBeat, Row
<1>4. \A q \in Claimers : Running(q)' =>
          job'[cur[q]].status = "RUNNING" /\ job'[cur[q]].beat = "fresh"
  BY <1>2, <1>3, RunningIsPast, PastFacts DEF SameLabels, VisibleInv, RunVisible
<1>5. \A r \in Requests : pc'[r] \in {"threw", "handler"} =>
          job'[cur[r]].status # "QUEUED"
  BY <1>1, <1>3, ThrownFacts DEF VisibleInv, HandlerInv
<1>6. Undamaged
  BY <1>3, <1>4, <1>5 DEF Undamaged
<1> QED
  BY <1>2, <1>6, VisibleFrame

\* No live claimer touches a row that goes quiet, and a run's row is not
\* waiting for its time.
LEMMA VisibleTime ==
    ASSUME IInv, VisibleInv, ~MayStall, TimeStep PROVE VisibleInv'
<1> USE DEF IInv, TypeOK
<1>1. UNCHANGED <<pc, cur, own>>
  BY DEF TimeStep, JobLapses, RetryDue, LockLapses
<1>2. SameLabels
  BY <1>1 DEF SameLabels, Past, Running
<1>3. ASSUME NEW j \in Jobs, JobLapses(j) \/ RetryDue(j) PROVE VisibleInv'
  <2>1. /\ \A q \in Claimers : ~Touches(q, j)
        /\ \A i \in Jobs : i # j => job'[i] = job[i]
        /\ job'[j].user = job[j].user
    BY <1>3 DEF JobLapses, RetryDue, WithBeat, Row
  <2>2. \A q \in Claimers : cur[q] # j
    BY <2>1 DEF Touches
  <2> QED
    BY <1>2, <2>1, <2>2, OneRowUndamaged DEF Claimers
<1>4. ASSUME NEW u \in Users, LockLapses(u) PROVE VisibleInv'
  BY <1>2, <1>4, UndamagedFrame, VisibleFrame DEF LockLapses
<1> QED
  BY <1>3, <1>4 DEF TimeStep

\* What a killed process leaves behind is no run.
LEMMA VisibleCrash ==
    ASSUME IInv, VisibleInv, NEW p \in Procs, Crash(p) PROVE VisibleInv'
<1>1. SameLabels
  BY DEF Crash, SameLabels, Goto, Idle, Past, Running, IInv, TypeOK, Procs, Claimers
<1> QED
  BY <1>1, UndamagedFrame, VisibleFrame DEF Crash

LEMMA VisibleInit == Init => VisibleInv
BY DEF Init, VisibleInv, RunVisible, OwnInv, HandlerInv, Running, Procs, Claimers

LEMMA VisibleStep ==
    ASSUME ~MayStall, Imports = {}, Retries = {}
    PROVE  IInv /\ VisibleInv /\ [Next]_vars => VisibleInv'
<1> SUFFICES ASSUME IInv, VisibleInv, [Next]_vars PROVE VisibleInv'
  OBVIOUS
<1>1. CASE UNCHANGED vars
  BY <1>1 DEF vars, VisibleInv, RunVisible, OwnInv, HandlerInv, Running, Past
<1>2. ASSUME NEW p \in Claimers, ClaimStep(p) \/ Beat(p) PROVE VisibleInv'
  BY <1>2, VisibleCreateLock, VisibleStealLock, VisibleMarkLost,
     VisibleClaimJob, VisibleReleaseUserLock, VisibleStartImport,
     VisibleEndImport, VisibleFinishRun, VisibleRelease, VisibleBeat
     DEF ClaimStep
<1>3. ASSUME NEW w \in Workers, TickStep(w) PROVE VisibleInv'
  BY <1>3, VisibleReading, VisibleReclaimOne, VisibleEnqueueScheduled,
     VisibleScheduleRetry DEF TickStep
<1>4. ASSUME NEW r \in Requests, RequestStep(r) PROVE VisibleInv'
  BY <1>4, VisibleCheckManual, VisibleEnqueueManual, VisibleReleaseThenHandle,
     VisibleCrashHandler DEF RequestStep
<1>5. CASE TimeStep
  BY <1>5, VisibleTime
<1>6. ASSUME NEW p \in Procs, Crash(p) PROVE VisibleInv'
  BY <1>6, VisibleCrash
<1> QED
  BY <1>1, <1>2, <1>3, <1>4, <1>5, <1>6 DEF Next

\* With nothing running beside the queue, a live run's row says RUNNING and
\* fresh: hasRunningJob sees the run and reclaimStaleJobs leaves it alone.
THEOREM RunsAreVisible ==
    ASSUME ~MayStall, Imports = {}, Retries = {}
    PROVE  Spec => []RunVisible
<1>1. VisibleInv => RunVisible
  BY DEF VisibleInv
<1> QED
  BY <1>1, VisibleInit, VisibleStep, Inductive, PTL DEF Spec

-----------------------------------------------------------------------------
(* A finish is final: OpenInv is kept, so no import writes a finished row. *)

\* Nobody starts an import, no request but a new one has a new job, and
\* nobody reads a new list of rows to reclaim.
SameImports ==
    /\ \A q \in Claimers : pc'[q] = "import" => pc[q] = "import" /\ own'[q] = own[q]
    /\ \A r \in Requests : cur'[r] \in {cur[r], NoJob} \cup Absent
    /\ \A w \in Workers : Reclaiming(w)' => Reclaiming(w) /\ todo'[w] \subseteq todo[w]

KeptRow(i) == /\ job'[i].status = job[i].status
              /\ job'[i].attempt = job[i].attempt /\ job'[i].max = job[i].max

\* The import's row exists.
LEMMA OwnFacts ==
    ASSUME IInv, OwnInv, NEW p \in Claimers, pc[p] = "import"
    PROVE  own[p] \in Jobs \ (Absent \cup {NoJob})
BY QueueAssumption
   DEF OwnInv, IInv, QueueInv, RowInv, Procs, Absent, QueueAssumption

LEMMA OpenFrame ==
    ASSUME IInv, OwnInv, OpenInv, SameImports,
           \A p \in Claimers : pc[p] = "import" => KeptRow(own[p])
    PROVE  OpenInv'
<1> SUFFICES ASSUME NEW p \in Claimers, pc'[p] = "import"
             PROVE  /\ \A r \in Requests : cur'[r] # own'[p]
                    /\ \/ job'[own'[p]].status = "QUEUED"
                       \/ /\ job'[own'[p]].status = "RUNNING"
                          /\ job'[own'[p]].attempt = 1
                          /\ job'[own'[p]].max = DefaultAttempts
                    /\ \A w \in Workers : Reclaiming(w)' =>
                          \A e \in todo'[w] : e.job = own'[p] => e.attempt = 1
  BY DEF OpenInv
<1>1. pc[p] = "import" /\ own'[p] = own[p] /\ KeptRow(own[p])
  BY DEF SameImports
<1>2. own[p] \notin Absent \cup {NoJob}
  BY <1>1, OwnFacts
<1>3. \A r \in Requests : cur'[r] # own[p]
  BY <1>1, <1>2 DEF SameImports, OpenInv
<1>4. \A w \in Workers : Reclaiming(w)' =>
          \A e \in todo'[w] : e.job = own[p] => e.attempt = 1
  BY <1>1 DEF SameImports, OpenInv
<1> QED
  BY <1>1, <1>3, <1>4 DEF OpenInv, KeptRow

\* A step that writes one row leaves the imports alone unless it is theirs.
LEMMA OpenOneRow ==
    ASSUME IInv, OwnInv, OpenInv, SameImports, NEW j,
           \A i \in Jobs : i # j => job'[i] = job[i],
           \A p \in Claimers : pc[p] = "import" => own[p] # j
    PROVE  OpenInv'
<1>1. \A p \in Claimers : pc[p] = "import" => KeptRow(own[p])
  BY OwnFacts DEF KeptRow
<1> QED
  BY <1>1, OpenFrame

LEMMA OpenSameTable ==
    ASSUME IInv, OwnInv, OpenInv, SameImports, UNCHANGED job PROVE OpenInv'
BY OpenFrame DEF KeptRow

\* Two imports inside runs have two rows: their workspaces differ.
LEMMA OwnsDiffer ==
    ASSUME IInv, OwnInv, NEW p \in Claimers, NEW q \in Claimers, p # q,
           pc[p] = "import", pc[q] = "import"
    PROVE  own[p] # own[q]
<1>1. Holds(p) /\ Holds(q)
  BY DEF Holds
<1>2. cur[p] # cur[q]
  BY <1>1 DEF IInv, QueueInv, LockInv
<1>3. job[cur[p]].user # job[cur[q]].user
  BY <1>1, <1>2, HolderFacts
<1> QED
  BY <1>3 DEF OwnInv

LEMMA OpenCreateLock ==
    ASSUME IInv, OwnInv, OpenInv, NEW p \in Claimers, CreateLock(p) PROVE OpenInv'
<1>1. SameImports
  BY DEF CreateLock, SameImports, Goto, Reclaiming, IInv, TypeOK, Procs, Claimers
<1> QED
  BY <1>1, OpenSameTable DEF CreateLock

LEMMA OpenStealLock ==
    ASSUME IInv, OwnInv, OpenInv, NEW p \in Claimers, StealLock(p) PROVE OpenInv'
<1>1. SameImports
  BY DEF StealLock, SameImports, Goto, Reclaiming, IInv, TypeOK, Procs, Claimers
<1> QED
  BY <1>1, OpenSameTable DEF StealLock

\* The request's job is no import's row.
LEMMA OpenMarkLost ==
    ASSUME IInv, OwnInv, OpenInv, NEW p \in Claimers, MarkLost(p) PROVE OpenInv'
<1>1. SameImports
  BY DEF MarkLost, SameImports, Goto, Reclaiming, IInv, TypeOK, Procs, Claimers
<1>2. CASE UNCHANGED job
  BY <1>1, <1>2, OpenSameTable
<1>3. CASE p \in Requests /\ job' = WithStatus(cur[p], "CANCELLED")
  <2>1. \A i \in Jobs : i # cur[p] => job'[i] = job[i]
    BY <1>3, StatusFields DEF IInv
  <2>2. \A q \in Claimers : pc[q] = "import" => own[q] # cur[p]
    BY <1>3 DEF OpenInv
  <2> QED
    BY <1>1, <2>1, <2>2, OpenOneRow
<1> QED
  BY <1>2, <1>3 DEF MarkLost

\* A holder writes its own row, and that is no import's.
LEMMA OpenHolder ==
    ASSUME IInv, OwnInv, OpenInv, SameImports, NEW p \in Claimers, Holds(p),
           \A i \in Jobs : i # cur[p] => job'[i] = job[i]
    PROVE  OpenInv'
BY OwnNotHeld, OpenOneRow

LEMMA OpenClaimJob ==
    ASSUME IInv, OwnInv, OpenInv, NEW p \in Claimers, ClaimJob(p) PROVE OpenInv'
<1>1. SameImports
  BY DEF ClaimJob, SameImports, Goto, Reclaiming, IInv, TypeOK, Procs, Claimers
<1>2. Holds(p) /\ \A i \in Jobs : i # cur[p] => job'[i] = job[i]
  BY DEF ClaimJob, Holds, IInv, TypeOK
<1> QED
  BY <1>1, <1>2, OpenHolder

LEMMA OpenReleaseUserLock ==
    ASSUME IInv, OwnInv, OpenInv, NEW p \in Claimers, ReleaseUserLock(p)
    PROVE  OpenInv'
<1>1. SameImports
  BY DEF ReleaseUserLock, SameImports, Goto, Reclaiming, IInv, TypeOK, Procs, Claimers
<1> QED
  BY <1>1, OpenSameTable DEF ReleaseUserLock

\* The new row is RUNNING at its first attempt, and nobody has seen it.
LEMMA OpenStartImport ==
    ASSUME IInv, OwnInv, OpenInv, NEW p \in Claimers, StartImport(p), Imports = {}
    PROVE  OpenInv'
<1> USE DEF IInv, TypeOK, Procs, Claimers
<1>1. PICK j \in Absent :
        /\ job' = [job EXCEPT ![j] = RunningRow(job[cur[p]].user, "IMPORT")]
        /\ own' = [own EXCEPT ![p] = j]
        /\ pc[p] = "run" /\ pc' = [pc EXCEPT ![p] = "import"]
        /\ UNCHANGED <<cur, todo>>
  BY DEF StartImport, Goto
<1>2. /\ j \in Jobs /\ job[j].status = "ABSENT"
      /\ \A i \in Jobs : i # j => job'[i] = job[i]
      /\ job'[j].status = "RUNNING" /\ job'[j].attempt = 1
      /\ job'[j].max = DefaultAttempts
  BY <1>1 DEF Absent, RunningRow
<1>3. \A q \in Claimers : ~Touches(q, j)
  BY <1>2 DEF QueueInv, RowInv
<1>4. \A w \in Workers : Reclaiming(w)' => Reclaiming(w)
  BY <1>1 DEF Reclaiming
<1> SUFFICES ASSUME NEW q \in Claimers, pc'[q] = "import"
             PROVE  /\ \A r \in Requests : cur[r] # own'[q]
                    /\ \/ job'[own'[q]].status = "QUEUED"
                       \/ /\ job'[own'[q]].status = "RUNNING"
                          /\ job'[own'[q]].attempt = 1
                          /\ job'[own'[q]].max = DefaultAttempts
                    /\ \A w \in Workers : Reclaiming(w)' =>
                          \A e \in todo[w] : e.job = own'[q] => e.attempt = 1
  BY <1>1 DEF OpenInv
<1>5. CASE q = p
  <2>1. own'[q] = j
    BY <1>1, <1>5
  <2> QED
    BY <1>2, <1>3, <2>1 DEF Touches
<1>6. CASE q # p
  <2>1. pc[q] = "import" /\ own'[q] = own[q]
    BY <1>1, <1>6
  <2>2. own[q] \in Jobs /\ own[q] # j
    BY <1>1, <2>1, OwnFacts
  <2>3. /\ \A r \in Requests : cur[r] # own[q]
        /\ \/ job[own[q]].status = "QUEUED"
           \/ /\ job[own[q]].status = "RUNNING"
              /\ job[own[q]].attempt = 1 /\ job[own[q]].max = DefaultAttempts
        /\ \A w \in Workers : Reclaiming(w) =>
              \A e \in todo[w] : e.job = own[q] => e.attempt = 1
    BY <2>1 DEF OpenInv
  <2> QED
    BY <1>2, <1>4, <2>1, <2>2, <2>3
<1> QED
  BY <1>5, <1>6

\* An import that ends writes its own row, not another import's.
LEMMA OpenEndImport ==
    ASSUME IInv, OwnInv, OpenInv, NEW p \in Claimers, EndImport(p) PROVE OpenInv'
<1> USE DEF IInv, TypeOK, Procs, Claimers
<1>1. /\ pc[p] = "import" /\ pc' = [pc EXCEPT ![p] = "write"]
      /\ own' = [own EXCEPT ![p] = NoJob] /\ UNCHANGED <<cur, todo>>
      /\ \/ UNCHANGED job
         \/ \E o \in {"SUCCESS", "FAILED"} : job' = WithStatus(own[p], o)
  BY DEF EndImport, Goto
<1>2. \A i \in Jobs : i # own[p] => job'[i] = job[i]
  BY <1>1, StatusFields
<1> SUFFICES ASSUME NEW q \in Claimers, pc'[q] = "import"
             PROVE  /\ \A r \in Requests : cur[r] # own'[q]
                    /\ \/ job'[own'[q]].status = "QUEUED"
                       \/ /\ job'[own'[q]].status = "RUNNING"
                          /\ job'[own'[q]].attempt = 1
                          /\ job'[own'[q]].max = DefaultAttempts
                    /\ \A w \in Workers : Reclaiming(w)' =>
                          \A e \in todo[w] : e.job = own'[q] => e.attempt = 1
  BY <1>1 DEF OpenInv
<1>3. q # p /\ pc[q] = "import" /\ own'[q] = own[q]
  BY <1>1
<1>4. own[q] \in Jobs /\ own[q] # own[p]
  BY <1>1, <1>3, OwnFacts, OwnsDiffer
<1>5. job'[own[q]] = job[own[q]]
  BY <1>2, <1>4
<1>6. \A w \in Workers : Reclaiming(w)' => Reclaiming(w)
  BY <1>1 DEF Reclaiming
<1> QED
  BY <1>3, <1>5, <1>6 DEF OpenInv

LEMMA OpenFinishRun ==
    ASSUME IInv, OwnInv, OpenInv, NEW p \in Claimers, FinishRun(p) \/ RunThrows(p)
    PROVE  OpenInv'
<1>1. SameImports
  BY DEF FinishRun, RunThrows, SameImports, Goto, Reclaiming, IInv, TypeOK, Procs,
     Claimers
<1>2. Holds(p)
  BY DEF FinishRun, RunThrows, Holds
<1>3. \A i \in Jobs : i # cur[p] => job'[i] = job[i]
  BY StatusFields DEF FinishRun, RunThrows, IInv
<1> QED
  BY <1>1, <1>2, <1>3, OpenHolder

LEMMA OpenRelease ==
    ASSUME IInv, OwnInv, OpenInv, NEW p \in Claimers, Release(p) PROVE OpenInv'
<1>1. SameImports
  BY DEF Release, Idle, SameImports, Goto, Reclaiming, IInv, TypeOK, Procs, Claimers
<1> QED
  BY <1>1, OpenSameTable DEF Release

LEMMA OpenBeat ==
    ASSUME IInv, OwnInv, OpenInv, NEW p \in Claimers, Beat(p) PROVE OpenInv'
<1>1. SameImports
  BY DEF Beat, SameImports, Reclaiming
<1>2. \A i \in Jobs : KeptRow(i)
  <2> USE DEF KeptRow, IInv, TypeOK
  <2>1. CASE UNCHANGED job
    BY <2>1
  <2>2. CASE job' = [job EXCEPT ![cur[p]].beat = "fresh"]
    BY <2>2 DEF Row
  <2> QED
    BY <2>1, <2>2 DEF Beat, WithBeat
<1> QED
  BY <1>1, <1>2, OwnFacts, OpenFrame

\* The sweep reads an import's row at its first attempt.
LEMMA OpenReclaimScan ==
    ASSUME IInv, OwnInv, OpenInv, NEW w \in Workers, ReclaimScan(w) PROVE OpenInv'
<1> USE DEF IInv, TypeOK, Procs, Claimers
<1>1. /\ UNCHANGED <<job, cur, own>> /\ pc' = [pc EXCEPT ![w] = "reclaim"]
      /\ todo' = [todo EXCEPT ![w] =
            {[job |-> j, attempt |-> job[j].attempt] : j \in {i \in Jobs : Stale(i)}}]
  BY DEF ReclaimScan, Goto
<1> SUFFICES ASSUME NEW q \in Claimers, pc'[q] = "import", NEW v \in Workers,
                    Reclaiming(v)', NEW e \in todo'[v], e.job = own[q]
             PROVE  e.attempt = 1
  BY <1>1 DEF OpenInv
<1>2. pc[q] = "import"
  BY <1>1
<1>3. CASE v = w
  <2>1. PICK j \in Jobs : Stale(j) /\ e = [job |-> j, attempt |-> job[j].attempt]
    BY <1>1, <1>3
  <2>2. own[q] = j
    BY <2>1
  <2> QED
    BY <1>2, <2>1, <2>2 DEF OpenInv, Stale
<1>4. CASE v # w
  <2>1. Reclaiming(v) /\ e \in todo[v]
    BY <1>1, <1>4 DEF Reclaiming
  <2> QED
    BY <1>2, <2>1 DEF OpenInv
<1> QED
  BY <1>3, <1>4

\* A reclaimed first attempt has another one to come.
LEMMA OpenReclaimOne ==
    ASSUME IInv, OwnInv, OpenInv, DefaultAttempts >= 2,
           NEW w \in Workers, ReclaimOne(w)
    PROVE  OpenInv'
<1> USE DEF IInv, TypeOK, Procs, Claimers
<1>1. SameImports
  BY QueueAssumption DEF ReclaimOne, SameImports, Goto, Reclaiming, QueueAssumption
<1>2. PICK e \in todo[w] :
        /\ \/ /\ job[e.job].status = "RUNNING"
              /\ job' = [job EXCEPT ![e.job] =
                    IF e.attempt >= @.max THEN [@ EXCEPT !.status = "FAILED"]
                                          ELSE Requeued(@, e.attempt)]
           \/ UNCHANGED job
  BY DEF ReclaimOne
<1>3. e.job \in Jobs /\ Reclaiming(w)
  BY <1>2 DEF ReclaimOne, Reclaiming
<1>4. CASE UNCHANGED job
  BY <1>1, <1>4, OpenSameTable
<1>5. CASE \A p \in Claimers : pc[p] = "import" => own[p] # e.job
  BY <1>1, <1>2, <1>5, OpenOneRow
<1>6. ASSUME NEW p \in Claimers, pc[p] = "import", own[p] = e.job, ~UNCHANGED job
      PROVE  OpenInv'
  <2>1. job[e.job].status = "RUNNING"
    BY <1>2, <1>6
  <2>2. job[e.job].max = DefaultAttempts /\ e.attempt = 1
    BY <1>3, <1>6, <2>1 DEF OpenInv
  <2>3. job' = [job EXCEPT ![e.job] = Requeued(@, 1)]
    BY <1>2, <1>3, <1>6, <2>2, QueueAssumption DEF QueueAssumption
  <2>4. /\ \A i \in Jobs : i # e.job => job'[i] = job[i]
        /\ job'[e.job].status = "QUEUED"
    BY <1>3, <2>3 DEF Requeued
  <2> SUFFICES ASSUME NEW q \in Claimers, pc'[q] = "import"
               PROVE  /\ \A r \in Requests : cur'[r] # own'[q]
                      /\ \/ job'[own'[q]].status = "QUEUED"
                         \/ /\ job'[own'[q]].status = "RUNNING"
                            /\ job'[own'[q]].attempt = 1
                            /\ job'[own'[q]].max = DefaultAttempts
                      /\ \A v \in Workers : Reclaiming(v)' =>
                            \A d \in todo'[v] : d.job = own'[q] => d.attempt = 1
    BY DEF OpenInv
  <2>5. pc[q] = "import" /\ own'[q] = own[q]
    BY <1>1 DEF SameImports
  <2>6. own[q] \in Jobs \ (Absent \cup {NoJob})
    BY <2>5, OwnFacts
  <2>7. \A r \in Requests : cur'[r] # own[q]
    BY <1>1, <2>5, <2>6 DEF SameImports, OpenInv
  <2>8. \A v \in Workers : Reclaiming(v)' =>
            \A d \in todo'[v] : d.job = own[q] => d.attempt = 1
    BY <1>1, <2>5 DEF SameImports, OpenInv
  <2>9. \/ job'[own[q]].status = "QUEUED"
        \/ /\ job'[own[q]].status = "RUNNING"
           /\ job'[own[q]].attempt = 1
           /\ job'[own[q]].max = DefaultAttempts
    BY <2>4, <2>5, <2>6 DEF OpenInv
  <2> QED
    BY <2>5, <2>7, <2>8, <2>9
<1> QED
  BY <1>4, <1>5, <1>6

\* The other steps of a tick that leave the table alone.
LEMMA OpenReading ==
    ASSUME IInv, OwnInv, OpenInv, NEW w \in Workers,
           \/ UnlockReclaimed(w) \/ ListSchedules(w) \/ VisitSchedule(w)
           \/ ClaimScan(w) \/ CheckCandidate(w) \/ NothingClaimed(w)
           \/ ScheduleRetryThrows(w)
    PROVE  OpenInv'
<1> USE DEF Goto, Reclaiming, IInv, TypeOK, Procs, Claimers, SameImports
<1>0. w \notin Requests
  BY QueueAssumption DEF QueueAssumption
<1>1. ASSUME UnlockReclaimed(w) PROVE SameImports /\ UNCHANGED job
  BY <1>0, <1>1 DEF UnlockReclaimed
<1>2. ASSUME ListSchedules(w) PROVE SameImports /\ UNCHANGED job
  BY <1>2 DEF ListSchedules
<1>3. ASSUME VisitSchedule(w) PROVE SameImports /\ UNCHANGED job
  BY <1>3 DEF VisitSchedule
<1>4. ASSUME ClaimScan(w) PROVE SameImports /\ UNCHANGED job
  BY <1>4 DEF ClaimScan
<1>5. ASSUME CheckCandidate(w) PROVE SameImports /\ UNCHANGED job
  BY <1>0, <1>5 DEF CheckCandidate
<1>6. ASSUME NothingClaimed(w) PROVE SameImports /\ UNCHANGED job
  BY <1>6 DEF NothingClaimed
<1>7. ASSUME ScheduleRetryThrows(w) PROVE SameImports /\ UNCHANGED job
  BY <1>7 DEF ScheduleRetryThrows
<1>8. SameImports /\ UNCHANGED job
  BY <1>1, <1>2, <1>3, <1>4, <1>5, <1>6, <1>7
<1> QED
  BY <1>8, OpenSameTable

\* A new row was absent, so no import's.
LEMMA OpenNewRow ==
    ASSUME IInv, OwnInv, OpenInv, SameImports, NEW j \in Absent,
           \A i \in Jobs : i # j => job'[i] = job[i]
    PROVE  OpenInv'
BY OwnFacts, OpenOneRow

LEMMA OpenEnqueueScheduled ==
    ASSUME IInv, OwnInv, OpenInv, NEW w \in Workers, EnqueueScheduled(w)
    PROVE  OpenInv'
<1>1. SameImports
  BY DEF EnqueueScheduled, SameImports, Goto, Reclaiming, IInv, TypeOK, Procs,
     Claimers
<1>2. CASE UNCHANGED job
  BY <1>1, <1>2, OpenSameTable
<1>3. CASE \E j \in Absent : \A i \in Jobs : i # j => job'[i] = job[i]
  BY <1>1, <1>3, OpenNewRow
<1> QED
  BY <1>2, <1>3 DEF EnqueueScheduled, Absent, IInv, TypeOK

LEMMA OpenScheduleRetry ==
    ASSUME IInv, OwnInv, OpenInv, NEW w \in Workers, ScheduleRetry(w) PROVE OpenInv'
<1>1. SameImports
  BY DEF ScheduleRetry, SameImports, Goto, Reclaiming, IInv, TypeOK, Procs, Claimers
<1>2. w \in Claimers /\ Holds(w)
  BY DEF ScheduleRetry, Holds, Claimers
<1>3. \A i \in Jobs : i # cur[w] => job'[i] = job[i]
  BY DEF ScheduleRetry, IInv, TypeOK
<1> QED
  BY <1>1, <1>2, <1>3, OpenHolder

LEMMA OpenRequest ==
    ASSUME IInv, OwnInv, OpenInv, NEW r \in Requests, RequestStep(r)
    PROVE  OpenInv'
<1> USE DEF Goto, Reclaiming, IInv, TypeOK, Procs, Claimers
<1>1. CASE CheckManual(r)
  BY <1>1, OpenSameTable DEF CheckManual, SameImports
<1>2. CASE EnqueueManual(r)
  <2>1. SameImports
    BY <1>2 DEF EnqueueManual, SameImports
  <2>2. \E j \in Absent : \A i \in Jobs : i # j => job'[i] = job[i]
    BY <1>2 DEF EnqueueManual, Absent
  <2> QED
    BY <2>1, <2>2, OpenNewRow
<1>3. CASE ReleaseThenHandle(r)
  BY <1>3, OpenSameTable DEF ReleaseThenHandle, SameImports
<1>4. CASE CrashHandler(r)
  <2>1. SameImports
    BY <1>4 DEF CrashHandler, SameImports
  <2>2. \A i \in Jobs : i # cur[r] => job'[i] = job[i]
    BY <1>4, StatusFields DEF CrashHandler
  <2>3. \A q \in Claimers : pc[q] = "import" => own[q] # cur[r]
    BY DEF OpenInv
  <2> QED
    BY <2>1, <2>2, <2>3, OpenOneRow
<1> QED
  BY <1>1, <1>2, <1>3, <1>4 DEF RequestStep

LEMMA OpenTime ==
    ASSUME IInv, OwnInv, OpenInv, TimeStep PROVE OpenInv'
<1>1. SameImports
  BY DEF TimeStep, JobLapses, RetryDue, LockLapses, SameImports, Reclaiming
<1>2. \A i \in Jobs : KeptRow(i)
  <2>1. ASSUME NEW j \in Jobs, JobLapses(j) PROVE \A i \in Jobs : KeptRow(i)
    BY <2>1 DEF JobLapses, WithBeat, KeptRow, IInv, TypeOK, Row
  <2>2. ASSUME NEW j \in Jobs, RetryDue(j) PROVE \A i \in Jobs : KeptRow(i)
    BY <2>2 DEF RetryDue, KeptRow, IInv, TypeOK, Row
  <2>3. ASSUME NEW u \in Users, LockLapses(u) PROVE \A i \in Jobs : KeptRow(i)
    BY <2>3 DEF LockLapses, KeptRow
  <2> QED
    BY <2>1, <2>2, <2>3 DEF TimeStep
<1> QED
  BY <1>1, <1>2, OwnFacts, OpenFrame

LEMMA OpenCrash ==
    ASSUME IInv, OwnInv, OpenInv, NEW p \in Procs, Crash(p) PROVE OpenInv'
<1>1. SameImports
  BY DEF Crash, Idle, SameImports, Goto, Reclaiming, IInv, TypeOK, Procs, Claimers
<1> QED
  BY <1>1, OpenSameTable DEF Crash

LEMMA OpenInit == Init => OpenInv
BY DEF Init, OpenInv, Procs

LEMMA OpenStep ==
    ASSUME DefaultAttempts >= 2, Imports = {}, Retries = {}
    PROVE  IInv /\ OwnInv /\ OpenInv /\ [Next]_vars => OpenInv'
<1> SUFFICES ASSUME IInv, OwnInv, OpenInv, [Next]_vars PROVE OpenInv'
  OBVIOUS
<1>1. CASE UNCHANGED vars
  BY <1>1 DEF vars, OpenInv, Reclaiming
<1>2. ASSUME NEW p \in Claimers, ClaimStep(p) \/ Beat(p) PROVE OpenInv'
  BY <1>2, OpenCreateLock, OpenStealLock, OpenMarkLost, OpenClaimJob,
     OpenReleaseUserLock, OpenStartImport, OpenEndImport, OpenFinishRun,
     OpenRelease, OpenBeat DEF ClaimStep
<1>3. ASSUME NEW w \in Workers, TickStep(w) PROVE OpenInv'
  BY <1>3, OpenReclaimScan, OpenReclaimOne, OpenReading, OpenEnqueueScheduled,
     OpenScheduleRetry DEF TickStep
<1>4. ASSUME NEW p \in Procs, Crash(p) PROVE OpenInv'
  BY <1>4, OpenCrash
<1> QED
  BY <1>1, <1>2, <1>3, <1>4, OpenRequest, OpenTime DEF Next

\* What ReopenedByItsRunner says of a step.
Finished(j) == job[j].status \in {"SUCCESS", "FAILED", "CANCELLED"}
OnlyItsRunner ==
    \A j \in Jobs : Finished(j) /\ job'[j].status # job[j].status =>
        \E p \in Claimers : cur[p] = j /\ pc[p] \in {"retry", "threw", "handler"}

LEMMA FinishIsFinal ==
    ASSUME IInv, VisibleInv, OpenInv, Imports = {}, Retries = {}, [Next]_vars
    PROVE  OnlyItsRunner
<1> USE DEF Finished, OnlyItsRunner
<1>0. CASE \A i \in Jobs : job'[i].status = job[i].status
  BY <1>0
<1>1. ASSUME NEW j, j \in Jobs => ~Finished(j), \A i \in Jobs : i # j => job'[i] = job[i]
      PROVE  OnlyItsRunner
  BY <1>1
<1>2. ASSUME NEW p \in Claimers, ClaimStep(p) PROVE OnlyItsRunner
  <2>1. CASE MarkLost(p)
    BY <1>0, <1>1, <2>1, StatusFields DEF MarkLost, IInv
  <2>2. CASE ClaimJob(p)
    BY <1>0, <1>1, <2>2 DEF ClaimJob, IInv, TypeOK
  <2>3. CASE StartImport(p)
    BY <1>1, <2>3 DEF StartImport, Absent, IInv, TypeOK
  <2>4. CASE EndImport(p)
    <3>1. ~Finished(own[p])
      BY <1>2, <2>4 DEF EndImport, OpenInv
    <3>2. \A i \in Jobs : i # own[p] => job'[i] = job[i]
      BY <2>4, StatusFields DEF EndImport, IInv
    <3> QED
      BY <1>1, <3>1, <3>2
  <2>5. CASE FinishRun(p)
    <3>1. ~Finished(cur[p])
      BY <2>5 DEF FinishRun, VisibleInv, RunVisible, Running
    <3>2. \A i \in Jobs : i # cur[p] => job'[i] = job[i]
      BY <2>5, StatusFields DEF FinishRun, IInv
    <3> QED
      BY <1>1, <3>1, <3>2
  <2>6. CASE CreateLock(p) \/ StealLock(p) \/ ReleaseUserLock(p)
    BY <1>0, <2>6 DEF CreateLock, StealLock, ReleaseUserLock
  <2>7. CASE RunThrows(p) \/ Release(p)
    BY <1>0, <2>7 DEF RunThrows, Release
  <2> QED
    BY <1>2, <2>1, <2>2, <2>3, <2>4, <2>5, <2>6, <2>7 DEF ClaimStep
<1>3. ASSUME NEW w \in Workers, TickStep(w) PROVE OnlyItsRunner
  <2>1. CASE ReclaimOne(w)
    <3>1. PICK e \in todo[w] : ReclaimedRow(w, e)
      BY <2>1, ReclaimOneEffect DEF IInv
    <3> QED
      BY <1>0, <1>1, <3>1 DEF ReclaimedRow
  <2>2. CASE EnqueueScheduled(w)
    BY <1>0, <1>1, <2>2 DEF EnqueueScheduled, Absent, IInv, TypeOK
  <2>3. CASE ScheduleRetry(w)
    <3>1. \A i \in Jobs : i # cur[w] => job'[i] = job[i]
      BY <2>3 DEF ScheduleRetry, IInv, TypeOK
    <3>2. w \in Claimers /\ pc[w] \in {"retry", "threw"}
      BY <2>3 DEF ScheduleRetry, Claimers
    <3> QED
      BY <3>1, <3>2
  <2>4. CASE \/ ReclaimScan(w) \/ UnlockReclaimed(w) \/ ListSchedules(w)
             \/ VisitSchedule(w)
    BY <1>0, <2>4 DEF ReclaimScan, UnlockReclaimed, ListSchedules, VisitSchedule
  <2>5. CASE \/ ClaimScan(w) \/ CheckCandidate(w) \/ NothingClaimed(w)
             \/ ScheduleRetryThrows(w)
    BY <1>0, <2>5 DEF ClaimScan, CheckCandidate, NothingClaimed, ScheduleRetryThrows
  <2> QED
    BY <1>3, <2>1, <2>2, <2>3, <2>4, <2>5 DEF TickStep
<1>4. ASSUME NEW r \in Requests, RequestStep(r) PROVE OnlyItsRunner
  <2>1. CASE EnqueueManual(r)
    BY <1>1, <2>1 DEF EnqueueManual, Absent, IInv, TypeOK
  <2>2. CASE CrashHandler(r)
    <3>1. \A i \in Jobs : i # cur[r] => job'[i] = job[i]
      BY <2>2, StatusFields DEF CrashHandler, IInv
    <3>2. r \in Claimers /\ pc[r] = "handler"
      BY <2>2 DEF CrashHandler, Claimers
    <3> QED
      BY <3>1, <3>2
  <2>3. CASE CheckManual(r) \/ ReleaseThenHandle(r)
    BY <1>0, <2>3 DEF CheckManual, ReleaseThenHandle
  <2> QED
    BY <1>4, <2>1, <2>2, <2>3 DEF RequestStep
<1>5. ASSUME NEW p \in Claimers, Beat(p) PROVE OnlyItsRunner
  BY <1>0, <1>5 DEF Beat, WithBeat, IInv, TypeOK, Row
<1>6. CASE TimeStep
  <2>1. ASSUME NEW j \in Jobs, JobLapses(j) PROVE OnlyItsRunner
    BY <1>0, <2>1 DEF JobLapses, WithBeat, IInv, TypeOK, Row
  <2>2. ASSUME NEW j \in Jobs, RetryDue(j) PROVE OnlyItsRunner
    BY <1>0, <2>2 DEF RetryDue, IInv, TypeOK, Row
  <2>3. ASSUME NEW u \in Users, LockLapses(u) PROVE OnlyItsRunner
    BY <1>0, <2>3 DEF LockLapses
  <2> QED
    BY <1>6, <2>1, <2>2, <2>3 DEF TimeStep
<1>7. ASSUME NEW p \in Procs, Crash(p) PROVE OnlyItsRunner
  BY <1>0, <1>7 DEF Crash
<1>8. CASE UNCHANGED vars
  BY <1>0, <1>8 DEF vars
<1> QED
  BY <1>2, <1>3, <1>4, <1>5, <1>6, <1>7, <1>8 DEF Next

\* Under the same conditions, and with the second attempt that the default of
\* three leaves a reclaimed row, a finished row is opened again, or finished
\* otherwise, only by the process whose run it was.
THEOREM FinishesAreFinal ==
    ASSUME ~MayStall, Imports = {}, Retries = {}, DefaultAttempts >= 2
    PROVE  Spec => ReopenedByItsRunner
<1>1. VisibleInv => OwnInv
  BY DEF VisibleInv
<1>2. IInv /\ VisibleInv /\ OpenInv /\ [Next]_vars => [OnlyItsRunner]_vars
  BY FinishIsFinal
<1>3. Spec => [][OnlyItsRunner]_vars
  BY <1>1, <1>2, VisibleInit, VisibleStep, OpenInit, OpenStep, Inductive, PTL
     DEF Spec
<1>4. OnlyItsRunner =>
        \A j \in Jobs :
          /\ job[j].status \in {"SUCCESS", "FAILED", "CANCELLED"}
          /\ job'[j].status # job[j].status
          => \E p \in Claimers : cur[p] = j /\ pc[p] \in {"retry", "threw", "handler"}
  BY DEF OnlyItsRunner, Finished
<1> QED
  BY <1>3, <1>4, PTL DEF ReopenedByItsRunner

=============================================================================
