----------------------------- MODULE Workspace -----------------------------
(***************************************************************************)
(* What the queue promises, without locks, heartbeats or time-outs: jobs   *)
(* wait for their workspace, a run takes one waiting job off the queue,    *)
(* and a workspace has at most one run at a time (the promise the schema   *)
(* states for SyncLock).  A run may end at any moment, and a job may wait  *)
(* again after its run ended.                                              *)
(***************************************************************************)
CONSTANTS Users, Jobs, Runners

VARIABLES waiting, running

wsvars == <<waiting, running>>

Tickets == [user: Users, job: Jobs]
Runs    == [user: Users, job: Jobs, by: Runners]

WInit == waiting = {} /\ running = {}

Submit(t) ==
    /\ waiting' = waiting \cup {t}
    /\ UNCHANGED running

Withdraw(t) ==
    /\ waiting' = waiting \ {t}
    /\ UNCHANGED running

Begin(r) ==
    /\ \A s \in running : s.user # r.user /\ s.by # r.by
    /\ [user |-> r.user, job |-> r.job] \in waiting
    /\ waiting' = waiting \ {[user |-> r.user, job |-> r.job]}
    /\ running' = running \cup {r}

End(r) ==
    /\ r \in running
    /\ running' = running \ {r}
    /\ UNCHANGED waiting

WNext ==
    \/ \E t \in Tickets : Submit(t) \/ Withdraw(t)
    \/ \E r \in Runs : Begin(r) \/ End(r)

WSpec == WInit /\ [][WNext]_wsvars

=============================================================================
