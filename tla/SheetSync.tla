----------------------------- MODULE SheetSync -----------------------------
(***************************************************************************)
(* One workspace's run of the sync engine (src/lib/sync/sheet-sync.ts):    *)
(* import from eBay, plan against the live sheet, write in batches, record *)
(* the outcome of every order, advance the cursor; and retryOrder, which   *)
(* narrows the same run to one order.                                      *)
(*                                                                         *)
(* An order yields one row, keyed by the order id (ROW_MODES.ORDER).  Its  *)
(* contents are a value 1..MaxVal, which stands for the hash of its cells. *)
(* Time is a small counter; Overlap is the hour by which resolveRange      *)
(* starts before the cursor.  A range such as LAST_24H is the last Recent  *)
(* units.  What goes wrong is chosen by the constant Faults:               *)
(*   "import"     the fetch from eBay fails                                *)
(*   "persist"    single orders cannot be stored, or the fetch is cut off  *)
(*   "ambiguous"  a batch is applied and still counts as failed: its answer *)
(*                is lost, or saving its links fails half way              *)
(*   "torn"       a batch needs several requests and a later one fails     *)
(*   "crash"      the process dies (at most MaxCrashes times)              *)
(*   "range"      manual runs with a range other than SINCE_LAST           *)
(*   "mode"       runs with a sync mode other than APPEND_UPDATE            *)
(*   "revert"     an order's cells may return to an earlier value          *)
(*   "retention"  raw payloads of stored orders are cleared                *)
(*   "history"    results of old runs are deleted                          *)
(*   "edit"       the user edits the sheet during a run, too               *)
(*   "overlap"    a retry runs beside a sync (its route takes no lock)     *)
(***************************************************************************)
EXTENDS Naturals, FiniteSets, FiniteSetsExt

CONSTANTS
    Orders,
    Syncs,       \* processes that run a whole sync (worker, POST /api/sync)
    Retries,     \* processes that run retryOrder
    Faults,      \* see above
    MaxVal,      \* how many values an order's cells take (bound)
    MaxTime,     \* the clock's last value (bound)
    MaxRows,     \* rows of the sheet below its header (bound)
    MaxCrashes,  \* bound
    MaxEdits,    \* user edits of the sheet (bound)
    Overlap, Recent,
    BatchSize,   \* BATCH, 50 in the code
    NoOrder

ASSUME SheetAssumption ==
    /\ NoOrder \notin Orders
    /\ Syncs \cap Retries = {}
    /\ {MaxVal, MaxTime, MaxRows, BatchSize} \subseteq Nat \ {0}
    /\ {MaxCrashes, MaxEdits, Overlap, Recent} \subseteq Nat
    /\ IsFiniteSet(Orders)

VARIABLES
    clock,
    ebay,      \* each order at eBay: when created, when modified, its value
    store,     \* ImportedOrder: the value last imported, 0 when there is none
    payload,   \* the stored orders whose rawPayloadJson is still there
    cursor,    \* GoogleSheetConfig.lastSyncedThrough, 0 for null
    confirmed, \* GoogleSheetConfig.bulkSyncConfirmedAt is set
    sheet,     \* the rows below the header
    link,      \* SheetRowLink.valuesHash, 0 when there is no link
    open,      \* unresolved FAILED SyncOrderResults: <<order, "row">> or
               \* <<order, "build">>
    failed,    \* orders whose syncState is FAILED
    run,       \* what each process is doing
    crashes, edits

vars == <<clock, ebay, store, payload, cursor, confirmed, sheet, link,
          open, failed, run, crashes, edits>>
database == <<store, payload, cursor, confirmed, link, open, failed>>
outside  == <<clock, ebay, crashes, edits>>

Procs  == Syncs \cup Retries
Values == 1..MaxVal
Modes  == {"APPEND", "UPDATE", "APPEND_UPDATE"}
Blank  == [key |-> NoOrder, val |-> 0, note |-> FALSE]
SheetRow == [key: Orders \cup {NoOrder}, val: 0..MaxVal, note: BOOLEAN]

\* act and res are what plan.rows and results hold for an order's row; val
\* and row are the planned cells and target row.
NoRun == [ph |-> "idle", target |-> {}, since |-> TRUE, yes |-> FALSE,
          mode |-> "APPEND_UPDATE", began |-> 0, end |-> 0,
          act |-> [o \in Orders |-> "none"], val |-> [o \in Orders |-> 0],
          row |-> [o \in Orders |-> 0], res |-> [o \in Orders |-> "none"],
          build |-> {}, left |-> {}, batch |-> {}, wrote |-> FALSE]
Phases == {"idle", "import", "plan", "advance", "write", "record", "torn", "save",
           "finish"}
Run == [ph: Phases, target: SUBSET Orders, since: BOOLEAN, yes: BOOLEAN,
        mode: Modes, began: 0..MaxTime, end: 0..MaxTime,
        act: [Orders -> {"none", "insert", "update", "skip"}],
        val: [Orders -> 0..MaxVal], row: [Orders -> 0..MaxRows],
        res: [Orders -> {"none", "failed", "skipped", "written"}],
        build: SUBSET Orders, left: SUBSET Orders, batch: SUBSET Orders,
        wrote: BOOLEAN]

TypeOK ==
    /\ clock \in 1..MaxTime
    /\ ebay \in [Orders -> [created: 0..MaxTime, modified: 0..MaxTime, val: 0..MaxVal]]
    /\ store \in [Orders -> 0..MaxVal] /\ payload \subseteq Orders
    /\ cursor \in 0..MaxTime /\ confirmed \in BOOLEAN
    /\ sheet \in [1..MaxRows -> SheetRow]
    /\ link \in [Orders -> 0..MaxVal]
    /\ open \subseteq Orders \X {"row", "build"} /\ failed \subseteq Orders
    /\ run \in [Procs -> Run]
    /\ crashes \in 0..MaxCrashes /\ edits \in 0..MaxEdits

Init ==
    /\ clock = 1 /\ crashes = 0 /\ edits = 0
    /\ ebay = [o \in Orders |-> [created |-> 0, modified |-> 0, val |-> 0]]
    /\ store = [o \in Orders |-> 0] /\ payload = {}
    /\ cursor = 0 /\ confirmed = FALSE
    /\ sheet = [i \in 1..MaxRows |-> Blank]
    /\ link = [o \in Orders |-> 0]
    /\ open = {} /\ failed = {}
    /\ run = [p \in Procs |-> NoRun]

-----------------------------------------------------------------------------
(* What planSync reads out of the sheet.                                   *)

\* readKeyColumn: the first row that holds the key, 0 when none does.
RowsOf(o) == {i \in 1..MaxRows : sheet[i].key = o}
RowOf(o)  == IF RowsOf(o) = {} THEN 0 ELSE Min(RowsOf(o))

LastKeyed == Max({0} \cup {i \in 1..MaxRows : sheet[i].key # NoOrder})
\* Mutant: the end of the data is taken from the key column alone.
LastUsedByKey == LastKeyed

\* readUsedRange, over every known column: notes count.
LastUsed  == Max({0} \cup {i \in 1..MaxRows : sheet[i] # Blank})

\* Order data below the last keyed row, with nothing in the key column.
OrdersWithoutKeys ==
    {i \in LastKeyed + 1 .. MaxRows : sheet[i].key = NoOrder /\ sheet[i].val # 0}

Back(t, n) == IF t > n THEN t - n ELSE 0

\* Mutant: the window starts at the cursor itself.
WindowStartNoOverlap(since) == IF since THEN cursor ELSE Back(clock, Recent)

\* resolveRange's start; its end is the clock.
WindowStart(since) ==
    IF since THEN IF cursor = 0 THEN 0 ELSE Back(cursor, Overlap)
             ELSE Back(clock, Recent)

\* All that finish still needs of a run.
Ended(r) == [NoRun EXCEPT !.ph = "finish", !.began = r.began, !.res = r.res,
                          !.build = r.build]

Quiet == \A p \in Procs : run[p].ph = "idle"

-----------------------------------------------------------------------------
(* Starting a run, and the import.                                         *)

\* The mode of the destination, or of a manual request.
RunModes == IF "mode" \in Faults THEN Modes ELSE {"APPEND_UPDATE"}

\* A whole sync: the queue gives it the workspace for itself.
StartSync(p) ==
    /\ run[p].ph = "idle"
    /\ \A q \in Procs : run[q].ph # "idle" => q \in Retries /\ "overlap" \in Faults
    /\ \E since \in BOOLEAN, yes \in BOOLEAN, m \in RunModes :
        /\ since \/ "range" \in Faults
        /\ run' = [run EXCEPT ![p] = [NoRun EXCEPT !.ph = "import", !.since = since,
                                        !.yes = yes, !.mode = m, !.began = clock]]
    /\ UNCHANGED <<sheet, database, outside>>

\* retryOrder: one stored order, only once the destination is confirmed.
StartRetry(p) ==
    /\ run[p].ph = "idle" /\ confirmed
    /\ Quiet \/ "overlap" \in Faults
    /\ \E o \in Orders, m \in RunModes :
        /\ store[o] # 0
        /\ run' = [run EXCEPT ![p] = [NoRun EXCEPT !.ph = "plan", !.target = {o},
                                        !.yes = TRUE, !.mode = m, !.began = clock]]
    /\ UNCHANGED <<sheet, database, outside>>

\* The store after importOrders persisted the orders of S.
StoredAfter(S) == [o \in Orders |-> IF o \in S THEN ebay[o].val ELSE store[o]]

\* The first part of a run: importOrders by last-modified date. Whether it
\* failed, or stored only a part, changes the job's status and nothing that
\* the run does from here.
Import(p) ==
    /\ run[p].ph = "import"
    /\ run' = [run EXCEPT ![p].ph = "plan"]
    /\ LET fetched == {o \in Orders : /\ ebay[o].val # 0
                                      /\ ebay[o].modified >= WindowStart(run[p].since)}
       IN  \E S \in SUBSET fetched :
            /\ \/ S = fetched
               \/ "persist" \in Faults
               \/ "import" \in Faults /\ S = {}
            /\ store' = StoredAfter(S)
            /\ payload' = payload \cup S
    /\ UNCHANGED <<cursor, confirmed, sheet, link, open, failed, outside>>

-----------------------------------------------------------------------------
(* planSync.                                                               *)

\* buildOrderWhere: by orderDate; a retry names its order instead.
Chosen(p) ==
    IF run[p].target # {} THEN run[p].target
    ELSE {o \in Orders : /\ store[o] # 0
                         /\ ebay[o].created >= WindowStart(run[p].since)}

\* Orders that become a row; the others are build failures, for want of
\* their raw payload.
Buildable(p) == Chosen(p) \cap payload

\* Mutant: an order counts as written once there is a link, without a look
\* at the live sheet.
ClassifyByLink(o, mode) ==
    IF link[o] # 0
    THEN IF mode = "APPEND" \/ link[o] = store[o] THEN "skip" ELSE "update"
    ELSE IF mode = "UPDATE" THEN "skip" ELSE "insert"

Classify(o, mode) ==
    IF RowOf(o) # 0
    THEN IF mode = "APPEND" \/ link[o] = store[o] THEN "skip" ELSE "update"
    ELSE IF mode = "UPDATE" THEN "skip" ELSE "insert"

\* Mutant: optimistic outcomes.
PlannedOutcomeWritten(act) == CASE act = "none" -> "none"
                                [] act = "skip" -> "skipped"
                                [] OTHER        -> "written"

\* plannedOutcome: a row to be written starts as FAILED, not attempted.
PlannedOutcome(act) == CASE act = "none" -> "none"
                         [] act = "skip" -> "skipped"
                         [] OTHER        -> "failed"

\* What becomes of a plan: a blocker or a missing confirmation ends the run,
\* no writable row ends it after the cursor moved, anything else goes on to
\* the writes.
AfterPlan(r, stopped) ==
    IF stopped \/ (r.left = {} /\ r.target # {}) THEN Ended(r)
    ELSE [r EXCEPT !.ph = IF r.left # {} THEN "write" ELSE "advance"]

\* planSync: read the live sheet, classify every order that becomes a row,
\* and place the new ones below everything that is used.
Plan(p) ==
    /\ run[p].ph = "plan"
    /\ LET rows   == Buildable(p)
           act    == [o \in Orders |-> IF o \in rows THEN Classify(o, run[p].mode) ELSE "none"]
           insert == {o \in rows : act[o] = "insert"}
           update == {o \in rows : act[o] = "update"}
       IN  /\ LastUsed + Cardinality(insert) <= MaxRows
           /\ \E rank \in [insert -> 1..Cardinality(insert)] :
               /\ \A a, b \in insert : a # b => rank[a] # rank[b]
               /\ LET plan == [NoRun EXCEPT
                        !.target = run[p].target, !.began = run[p].began,
                        !.end = clock, !.act = act, !.build = Chosen(p) \ rows,
                        !.val = [o \in Orders |-> IF o \in rows THEN store[o] ELSE 0],
                        !.row = [o \in Orders |->
                                   CASE o \in insert -> LastUsed + rank[o]
                                     [] o \in update -> RowOf(o)
                                     [] OTHER        -> 0],
                        !.res = [o \in Orders |-> PlannedOutcome(act[o])],
                        !.left = insert \cup update]
                  IN  run' = [run EXCEPT ![p] = AfterPlan(plan,
                        OrdersWithoutKeys # {} \/ ~(confirmed \/ run[p].yes))]
    /\ UNCHANGED <<sheet, database, outside>>

\* "Nothing to write": the cursor moves all the same, except for a retry.
AdvanceCursor(p) ==
    /\ run[p].ph = "advance"
    /\ cursor' = run[p].end
    /\ run' = [run EXCEPT ![p] = Ended(@)]
    /\ UNCHANGED <<store, payload, confirmed, sheet, link, open, failed, outside>>

-----------------------------------------------------------------------------
(* Writing.                                                                *)

\* writeRows touches the mapped columns only: a note stays.
Written(p, b) ==
    [i \in 1..MaxRows |->
        IF \E o \in b : run[p].row[o] = i
        THEN LET o == CHOOSE x \in b : run[p].row[x] = i
             IN  [sheet[i] EXCEPT !.key = o, !.val = run[p].val[o]]
        ELSE sheet[i]]

\* The next rows of the write loop, in any order.
Batches(p) == {b \in SUBSET run[p].left :
                  Cardinality(b) = Min({BatchSize, Cardinality(run[p].left)})}

\* Batch b is under way.
InBatch(r, b, ph) == [r EXCEPT !.ph = ph, !.batch = b, !.left = @ \ b]

\* The next batch goes out and is applied.
WriteBatch(p) ==
    /\ run[p].ph = "write"
    /\ \E b \in Batches(p) :
        /\ sheet' = Written(p, b)
        /\ run' = [run EXCEPT ![p] = InBatch(@, b, "record")]
    /\ UNCHANGED <<database, outside>>

\* writeRows sends 200 ranges per request, and a row with gaps between its
\* columns is several ranges: some rows arrive, one may arrive without its
\* key or with nothing but its key, and the next request fails.
TearBatch(p) ==
    /\ "torn" \in Faults /\ run[p].ph = "write"
    /\ \E b \in Batches(p), o \in run[p].left, keyOnly \in BOOLEAN :
        /\ o \in b
        /\ \E done \in SUBSET (b \ {o}) :
            sheet' = [Written(p, done) EXCEPT ![run[p].row[o]] =
                        IF keyOnly THEN [@ EXCEPT !.key = o, !.val = 0]
                                   ELSE [@ EXCEPT !.val = run[p].val[o]]]
        /\ run' = [run EXCEPT ![p] = InBatch(@, b, "torn")]
    /\ UNCHANGED <<database, outside>>

\* Batch b came to an end; the loop goes on with the rows left.
AfterBatch(r, b, outcome, left, wrote) ==
    LET done == [r EXCEPT !.res = [o \in Orders |-> IF o \in b THEN outcome ELSE @[o]],
                          !.batch = {}, !.wrote = @ \/ wrote]
    IN  IF left # {} THEN [done EXCEPT !.ph = "write", !.left = left]
        ELSE [NoRun EXCEPT !.ph = "save", !.target = r.target, !.began = r.began,
                           !.end = r.end, !.res = done.res, !.build = r.build,
                           !.wrote = done.wrote]

\* The links after those of S were saved.
LinkedTo(p, S) == [o \in Orders |-> IF o \in S THEN run[p].val[o] ELSE link[o]]

\* Links and syncState of the batch that was applied.
RecordBatch(p) ==
    /\ run[p].ph = "record"
    /\ link' = LinkedTo(p, run[p].batch)
    /\ failed' = failed \ run[p].batch
    /\ run' = [run EXCEPT ![p] = AfterBatch(@, @.batch, "written", @.left, TRUE)]
    /\ UNCHANGED <<store, payload, cursor, confirmed, open, sheet, outside>>

\* The batch that failed: one that was not applied at all, or the one that
\* is under way.
FailedBatch(p, b) ==
    \/ run[p].ph = "write" /\ b \in Batches(p)
    \/ run[p].ph = "torn" /\ b = run[p].batch
    \/ run[p].ph = "record" /\ b = run[p].batch /\ "ambiguous" \in Faults

\* Mutant: the links are saved although the batch failed.
BatchFailsLinked(p) ==
    /\ \E b \in SUBSET Orders :
        /\ FailedBatch(p, b)
        /\ failed' = failed \cup b
        /\ link' = LinkedTo(p, b)
        /\ run' = [run EXCEPT ![p] = AfterBatch(@, b, "failed", @.left \ b, FALSE)]
    /\ UNCHANGED <<store, payload, cursor, confirmed, open, sheet, outside>>

\* The request is refused; or it was applied, in part or as a whole, and
\* then something failed. The rows whose links were saved before that count
\* as inserted or updated, and the whole batch counts as failed. An expired
\* grant stops the loop with rows not attempted.
BatchFails(p) ==
    /\ run[p].ph \in {"write", "torn", "record"}
    /\ \E b \in SUBSET Orders, stop, wrote \in BOOLEAN :
        /\ wrote => run[p].ph = "record"
        /\ FailedBatch(p, b)
        /\ \E saved \in SUBSET b :
            /\ saved # {} => wrote
            /\ link' = LinkedTo(p, saved)
        /\ failed' = failed \cup b
        /\ run' = [run EXCEPT ![p] =
                AfterBatch(@, b, "failed", IF stop THEN {} ELSE @.left \ b, wrote)]
    /\ UNCHANGED <<store, payload, cursor, confirmed, open, sheet, outside>>

\* The cursor moves, and the destination is confirmed, once any row was
\* counted as written; never for a retry.
SaveCursor(p) ==
    /\ run[p].ph = "save"
    /\ IF run[p].wrote /\ run[p].target = {}
       THEN cursor' = run[p].end /\ confirmed' = TRUE
       ELSE UNCHANGED <<cursor, confirmed>>
    /\ run' = [run EXCEPT ![p] = Ended(@)]
    /\ UNCHANGED <<store, payload, open, failed, sheet, link, outside>>

\* An exception before the cursor: runSheetSync's catch still records what
\* the plan and the writes so far say. Also a connection lost after the plan.
Abort(p) ==
    /\ run[p].ph \in {"import", "plan", "advance", "write", "save"}
    /\ run' = [run EXCEPT ![p] = Ended(@)]
    /\ UNCHANGED <<sheet, database, outside>>

\* finish: a result per order; one that did not fail closes its key's
\* earlier failures.
Finish(p) ==
    /\ run[p].ph = "finish"
    /\ LET bad  == {o \in Orders : run[p].res[o] = "failed"}
           good == {o \in Orders : run[p].res[o] \in {"written", "skipped"}}
       IN  open' = (open \ (good \X {"row"})) \cup (bad \X {"row"})
                     \cup (run[p].build \X {"build"})
    /\ run' = [run EXCEPT ![p] = NoRun]
    /\ UNCHANGED <<store, payload, cursor, confirmed, failed, sheet, link, outside>>

-----------------------------------------------------------------------------
(* Around the run.                                                         *)

Crash(p) ==
    /\ "crash" \in Faults /\ crashes < MaxCrashes /\ run[p].ph # "idle"
    /\ crashes' = crashes + 1
    /\ run' = [run EXCEPT ![p] = NoRun]
    /\ \E saved \in SUBSET (IF run[p].ph = "record" THEN run[p].batch ELSE {}) :
            link' = LinkedTo(p, saved)
    /\ UNCHANGED <<sheet, store, payload, cursor, confirmed, open, failed,
                   clock, ebay, edits>>

\* A run is assumed to take less than Overlap, an hour.
Tick ==
    /\ clock < MaxTime
    /\ \A p \in Procs : run[p].ph # "idle" => clock < run[p].began + Overlap
    /\ clock' = clock + 1
    /\ UNCHANGED <<sheet, database, ebay, run, crashes, edits>>

\* A sale, or a change to an order (a shipment, a refund).
Sell(o) ==
    /\ ebay[o].val = 0
    /\ ebay' = [ebay EXCEPT ![o] = [created |-> clock, modified |-> clock, val |-> 1]]
    /\ UNCHANGED <<sheet, database, clock, run, crashes, edits>>

Modify(o) ==
    /\ ebay[o].val # 0
    /\ \E v \in Values \ {ebay[o].val} :
        /\ v > ebay[o].val \/ "revert" \in Faults
        /\ ebay' = [ebay EXCEPT ![o].modified = clock, ![o].val = v]
    /\ UNCHANGED <<sheet, database, clock, run, crashes, edits>>

\* applyRetention on an order that is old enough.
ClearPayload(o) ==
    /\ "retention" \in Faults /\ o \in payload /\ ebay[o].created < clock
    /\ payload' = payload \ {o}
    /\ UNCHANGED <<store, cursor, confirmed, sheet, link, open, failed, run, outside>>

\* ... and on results that are old enough, unresolved or not.
DropHistory(o) ==
    /\ "history" \in Faults
    /\ \E kinds \in {{"row"}, {"build"}, {"row", "build"}} :
        /\ {o} \X kinds \subseteq open
        /\ open' = open \ ({o} \X kinds)
    /\ UNCHANGED <<store, payload, cursor, confirmed, sheet, link, failed, run, outside>>

\* The user: rows move up over a deleted one, two rows swap places (a sort),
\* a note appears, a key cell is cleared.
Edit ==
    /\ edits < MaxEdits
    /\ Quiet \/ "edit" \in Faults
    /\ edits' = edits + 1
    /\ \/ \E d \in 1..MaxRows :
            sheet' = [i \in 1..MaxRows |-> IF i < d THEN sheet[i]
                                           ELSE IF i < MaxRows THEN sheet[i + 1] ELSE Blank]
       \/ \E i, j \in 1..MaxRows : i < j /\
            sheet' = [sheet EXCEPT ![i] = sheet[j], ![j] = sheet[i]]
       \/ \E i \in 1..MaxRows : sheet' = [sheet EXCEPT ![i].note = TRUE]
       \/ \E i \in 1..MaxRows : sheet' = [sheet EXCEPT ![i].key = NoOrder]
    /\ sheet' # sheet
    /\ UNCHANGED <<database, clock, ebay, run, crashes>>

RunStep(p) ==
    \/ Import(p) \/ Plan(p) \/ AdvanceCursor(p) \/ WriteBatch(p)
    \/ TearBatch(p) \/ RecordBatch(p) \/ BatchFails(p) \/ SaveCursor(p) \/ Abort(p)
    \/ Finish(p) \/ Crash(p)

Next ==
    \/ \E p \in Syncs : StartSync(p)
    \/ \E p \in Retries : StartRetry(p)
    \/ \E p \in Procs : RunStep(p)
    \/ \E o \in Orders : Sell(o) \/ Modify(o) \/ ClearPayload(o) \/ DropHistory(o)
    \/ Tick \/ Edit

Spec == Init /\ [][Next]_vars

-----------------------------------------------------------------------------
(* Properties.                                                             *)

\* What planSync read is still so when the write goes out: the targets of
\* planned rows differ, a new order has no row and its target is empty, and
\* an order that is updated is still in its row.
RowsFree(r) ==
    /\ \A a, b \in r.left \cup r.batch : a # b => r.row[a] # r.row[b]
    /\ \A o \in r.left : IF r.act[o] = "insert"
                         THEN RowsOf(o) = {} /\ sheet[r.row[o]] = Blank
                         ELSE sheet[r.row[o]].key = o
PlannedRowsFree == \A p \in Procs : RowsFree(run[p])
SheetInv == TypeOK /\ PlannedRowsFree

\* "Retries cannot duplicate rows": no two rows ever carry the same order,
\* whatever failed, crashed or was reported wrongly before.
NoDuplicateRows == \A o \in Orders : Cardinality(RowsOf(o)) <= 1

\* The engine writes an order over its own row or over an empty one, never
\* over another order's row or over a note.
OthersRowsKept ==
    [][edits' = edits => \A i \in 1..MaxRows :
          sheet'[i] # sheet[i] => sheet[i] = Blank \/ sheet[i].key = sheet'[i].key]_vars

\* "A retried write updates the row it already created": the engine never
\* leaves an order's data in a row without its key, where no later run can
\* find it (and which makes OrdersWithoutKeys refuse every later run).
WrittenRowsAreFound ==
    edits = 0 => \A i \in 1..MaxRows : sheet[i].val # 0 => sheet[i].key # NoOrder

\* SKIP_UNCHANGED, "nothing changed since the last write", never leaves a
\* row that differs: a link that matches the store matches the sheet.
SkippedRowsAreCurrent ==
    Quiet => \A o \in Orders : store[o] # 0 /\ link[o] = store[o] =>
                \A i \in RowsOf(o) : sheet[i].val = store[o]

\* "A unit that came good closes out its earlier failures": a run closes a
\* failure only when the order has its row. (Retention deletes it unseen.)
ClosedOnlyWhenWritten ==
    [][run' # run => \A o \in Orders : <<o, "row">> \in open \ open' => RowsOf(o) # {}]_vars

\* ... and is closed then: an order whose row is current keeps no failure.
GoodUnitIsClosed ==
    Quiet => \A o \in Orders : ~(/\ <<o, "build">> \in open
                                 /\ o \in payload /\ link[o] = store[o]
                                 /\ <<o, "row">> \notin open
                                 /\ o \notin failed)

\* The order is in the next incremental window, or its failure is on record.
Pending(o) == ebay[o].created >= WindowStart(TRUE)
OnRecord(o) == o \in failed \/ <<o, "row">> \in open \/ <<o, "build">> \in open

\* The cursor "can never silently skip a window of orders": an order that
\* has no row is still ahead of the cursor, or is on record as failed.
NothingSkipped ==
    Quiet => \A o \in Orders : ebay[o].val # 0 /\ RowsOf(o) = {} =>
                Pending(o) \/ OnRecord(o)

\* "eBay later supplies one, and the next run updates that same row": a row
\* that the store has outdated is still ahead of the cursor, or on record.
UpdatesReachTheSheet ==
    Quiet => \A o \in Orders : RowsOf(o) # {} /\ store[o] # sheet[RowOf(o)].val =>
                Pending(o) \/ OnRecord(o)

=============================================================================
