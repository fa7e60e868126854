---------------------------- MODULE JobQueueInv ----------------------------
(***************************************************************************)
(* The inductive invariant behind the mutual exclusion of JobQueue, for    *)
(* processes that do not stall.  TLC checks it on the small instances,     *)
(* JobQueue_proofs proves it inductive for every instance.                 *)
(***************************************************************************)
EXTENDS JobQueue

\* w is inside reclaimStaleJobs; anybody else who touches a job read it
\* QUEUED and due, or created it.
Reclaiming(w) == pc[w] \in {"reclaim", "unlockReclaimed"}

\* Labels at which a claimer has a job in hand.
HandPcs == {"unlockReclaimed", "acquire", "steal", "lost", "won", "unclaimed",
            "run", "import", "write", "retry", "threw", "release", "handler"}

\* A claimer has a job exactly at the labels that use it, and a process
\* that is about to create a row knows for whom.
CurInv ==
    /\ \A p \in Claimers : (pc[p] \in HandPcs) <=> (cur[p] \in Jobs)
    /\ \A p \in Procs : pc[p] \in {"enqueue", "create"} => who[p] \in Users

\* Rows exist, with a workspace, before anybody refers to them.
RowInv ==
    /\ \A j \in Jobs : job[j].status # "ABSENT" => job[j].user \in Users
    /\ \A p \in Claimers, j \in Jobs : Touches(p, j) => job[j].status # "ABSENT"
    /\ \A p \in Procs : own[p] \in Jobs => job[own[p]].status # "ABSENT"

\* A holder's lock row is its own and live, and no two hold for one job.
LockInv ==
    /\ HolderKeepsLock
    /\ \A p, q \in Claimers : Holds(p) /\ Holds(q) /\ p # q => cur[p] # cur[q]

\* Nobody who may go on to claim or run a job sees it as lost.
AliveInv ==
    \A p \in Claimers, j \in Jobs :
        Touches(p, j) /\ ~Reclaiming(p) => ~Stale(j)

\* A job that some worker is reclaiming is in nobody else's hands, and does
\* not become eligible before that worker is through with it.
ReclaimInv ==
    \A w \in Claimers, j \in Jobs : Touches(w, j) /\ Reclaiming(w) =>
        /\ ~(job[j].status = "QUEUED" /\ job[j].due)
        /\ \A p \in Claimers : Touches(p, j) => Reclaiming(p)

\* A job that is being run is not waiting.
RunInv == \A p \in Claimers : Running(p) => job[cur[p]].status # "QUEUED"

QueueInv == CurInv /\ RowInv /\ LockInv /\ AliveInv /\ ReclaimInv /\ RunInv

IInv == TypeOK /\ QueueInv

-----------------------------------------------------------------------------
(* What keeps a run's row visible, and its finish final, when no run goes  *)
(* on outside the queue: without the retry route and the import route.     *)

\* p has claimed its job and not yet given it back.
Past(p) ==
    /\ p \in Claimers
    /\ pc[p] \in {"run", "import", "write", "retry", "threw"}

\* The row an import creates inside a run is another row of its workspace,
\* whose mutex the run holds: nobody can claim it meanwhile.
OwnInv ==
    \A p \in Claimers : pc[p] = "import" =>
        /\ own[p] \in Jobs /\ own[p] # cur[p]
        /\ job[own[p]].user = job[cur[p]].user

\* A request that threw leaves its row to nobody but its crash handler.
HandlerInv ==
    \A r \in Requests :
        /\ pc[r] \in {"threw", "handler"} => job[cur[r]].status # "QUEUED"
        /\ pc[r] = "handler" => \A p \in Claimers : Past(p) => cur[p] # cur[r]

VisibleInv == RunVisible /\ OwnInv /\ HandlerInv

\* Until the import ends, its row is not finished: a sweep that takes it for
\* lost finds it at its first attempt, and no request can cancel it.
OpenInv ==
    \A p \in Claimers : pc[p] = "import" =>
        /\ \A r \in Requests : cur[r] # own[p]
        /\ \/ job[own[p]].status = "QUEUED"
           \/ /\ job[own[p]].status = "RUNNING"
              /\ job[own[p]].attempt = 1 /\ job[own[p]].max = DefaultAttempts
        /\ \A w \in Workers : Reclaiming(w) =>
              \A e \in todo[w] : e.job = own[p] => e.attempt = 1

=============================================================================
