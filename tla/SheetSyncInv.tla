---------------------------- MODULE SheetSyncInv ----------------------------
(***************************************************************************)
(* The inductive invariant behind the promises of SheetSync, in parts.     *)
(* Each part comes with the faults it does without: TLC checks on an       *)
(* instance those that apply to it, SheetSync_proofs proves them for every *)
(* instance.                                                               *)
(***************************************************************************)
EXTENDS SheetSync

\* Nobody writes the sheet beside a run.
Alone == {"overlap", "edit"} \cap Faults = {}

\* Every run may insert, and update.
FullMode == "mode" \notin Faults

\* Values only rise; a request that arrives in part, and a user who deletes
\* rows, do not meet in one instance.
Rising == "revert" \notin Faults /\ ("torn" \in Faults => MaxEdits = 0)

\* Every import is complete, every run ends, and what is on record stays.
Complete ==
    /\ {"import", "persist", "range", "crash", "history"} \cap Faults = {}
    /\ MaxEdits = 0

-----------------------------------------------------------------------------
(* The run and its locals.                                                 *)

OneRun == \A p, q \in Procs : run[p].ph # "idle" /\ run[q].ph # "idle" => p = q

\* Rows that a run has still to write, or is writing.
Writing(r) == r.left \cup r.batch

\* Locals are empty where the code has not reached them or has left them.
RunOK(r) ==
    /\ r.ph = "idle" => r = NoRun
    /\ r.ph \in {"import", "plan"} =>
          r.build = {} /\ \A o \in Orders : r.res[o] = "none"
    /\ r.ph \in {"import", "advance"} => r.target = {}
    /\ r.ph # "write" => r.ph \in {"record", "torn"} \/ r.left = {}
    /\ r.ph \notin {"record", "torn"} => r.batch = {}
    /\ r.left \cap r.batch = {}
    /\ \A o \in Writing(r) :
          /\ r.act[o] \in {"insert", "update"} /\ r.res[o] = "failed"
          /\ r.row[o] \in 1..MaxRows
    /\ FullMode => r.mode = "APPEND_UPDATE"
RunsOK == \A p \in Procs : RunOK(run[p])

\* No order is in two rows, and the batch that was applied is in its rows.
Unique == \A i, j \in 1..MaxRows :
             sheet[i].key # NoOrder /\ sheet[i].key = sheet[j].key => i = j
Arrived(r) ==
    r.ph = "record" =>
        \A o \in r.batch : sheet[r.row[o]].key = o /\ sheet[r.row[o]].val = r.val[o]
BatchArrived == \A p \in Procs : Arrived(run[p])

\* SheetInv with what it takes to be inductive.
RowsInv == OneRun /\ RunsOK /\ SheetInv /\ Unique /\ BatchArrived

-----------------------------------------------------------------------------
(* A unit that came good has its row.                                      *)

GoodHasRow ==
    \A p \in Procs, o \in Orders :
        run[p].res[o] \in {"written", "skipped"} => RowsOf(o) # {}

-----------------------------------------------------------------------------
(* Values: link, sheet, plan, store and eBay, in this order.               *)

\* The link is what the sheet was last known to hold, or older.
LinksBehind == \A o \in Orders : link[o] <= store[o] /\ store[o] <= ebay[o].val
LinksHaveRows == MaxEdits = 0 => \A o \in Orders : RowsOf(o) = {} => link[o] = 0
RowsBehind ==
    \A i \in 1..MaxRows, o \in Orders : sheet[i].key = o =>
        /\ sheet[i].val <= store[o]
        /\ link[o] <= sheet[i].val \/ link[o] < store[o]
PlanBehind(r) ==
    \A o \in Writing(r) : /\ link[o] <= r.val[o] /\ r.val[o] <= store[o]
                          /\ r.act[o] = "update" => link[o] < r.val[o]
ValueInv ==
    /\ LinksBehind /\ LinksHaveRows /\ RowsBehind
    /\ \A p \in Procs : PlanBehind(run[p])

-----------------------------------------------------------------------------
(* The window.                                                             *)

\* The order has its row, is on record, or will be when the run ends.
Kept(o) ==
    \/ RowsOf(o) # {} \/ OnRecord(o)
    \/ \E p \in Procs : run[p].res[o] = "failed" \/ o \in run[p].build

OnTime(r) ==
    /\ r.since /\ r.end <= clock
    /\ r.ph # "idle" => r.began <= clock /\ clock <= r.began + Overlap
TimeInv ==
    /\ cursor <= clock
    /\ \A o \in Orders : ebay[o].created <= ebay[o].modified /\ ebay[o].modified <= clock
    /\ \A p \in Procs : OnTime(run[p])

\* An import stored every order of the window but those sold since the run
\* began, and what is before the end of the planned window is kept.
Imported(r) ==
    r.ph = "plan" => \A o \in Orders :
        ebay[o].val # 0 /\ Pending(o) => store[o] # 0 \/ ebay[o].created >= r.began
Covered(r) ==
    r.ph \in {"advance", "write", "record", "torn", "save"} =>
        /\ r.end # 0
        /\ \A o \in Orders :
              ebay[o].val # 0 => ebay[o].created >= Back(r.end, Overlap) \/ Kept(o)
NothingLost == \A o \in Orders : ebay[o].val # 0 => Pending(o) \/ Kept(o)
WindowInv ==
    /\ NothingLost
    /\ \A p \in Procs : run[p].target = {} => Imported(run[p]) /\ Covered(run[p])

IInv ==
    Alone => /\ RowsInv
             /\ FullMode => GoodHasRow
             /\ Rising => ValueInv
             /\ FullMode /\ Complete => TimeInv /\ WindowInv
=============================================================================
