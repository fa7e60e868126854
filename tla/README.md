# eBay Orders → Google Sheets: specifications and proofs

The application imports a seller's eBay orders into a database and keeps a
Google Sheet up to date with them. A manual button, a scheduler and retries of
single orders start the same engine, in different processes, against two remote
services that fail, are slow or answer too late, while the seller edits the
sheet and the settings. These modules specify the parts where that is hard,
model-check them on small instances, and prove the promises that do not depend
on data for every instance.

Paths below are relative to the repository (`src/` in `PROJECT.json`).

## 1. The system

| Part | State it keeps | Makes it correct | Module |
| --- | --- | --- | --- |
| Job queue, `src/lib/jobs/queue.ts` | `SyncJob`, `SyncLock` | one claimed run per workspace; a held lock is not lost; nothing is stuck | `JobQueue`, `Workspace` |
| Worker and its tick, `src/lib/jobs/worker.ts` | `AutomationSetting` | each due slot served once and in time; retries end; a schedule is paused for real failures only | `Automation` |
| Schedule functions, `src/lib/jobs/schedule.ts` | – | the next run keeps its interval and its hours | `Schedule` |
| Routes that sync, retry or import, `src/app/api/{sync,ebay}` | – | never two writers | `JobQueue` |
| Sync engine, `src/lib/sync/sheet-sync.ts` | the sheet, `SheetRowLink`, `SyncOrderResult`, cursor, `syncState` | no duplicate rows, nobody else's row overwritten, nothing skipped, the error list is true | `SheetSync`, `RowSync` |
| Filters, rules, transformations, rows, write plan, `src/lib/sync`, `src/lib/transformations.ts`, `src/lib/sheets/write-plan.ts` | – | a row holds what its configuration says | `Texts`, `Filters`, `Rules`, `Rows` |
| Sheet access, `src/lib/google/sheets-write.ts` | – | cells beside the mapped ones are not touched | `Rows`, `RowSync` |
| Order import, `src/lib/ebay/{orders,import-orders}.ts` | `ImportedOrder` | every order of the window is stored or reported | `OrderFetch`, `SheetSync` |
| API clients, `src/lib/{ebay,google}/client.ts`, `src/lib/http/rate-limit.ts` | slots and cool-downs of a process | limits are respected, retries end | `ApiClient` |
| Tokens, `src/lib/{ebay,google}/tokens.ts`, disconnect routes | the connection rows | a disconnected account stays unusable | `Accounts` |
| OAuth, `src/lib/oauth-store.ts` and the callbacks | `OAuthState`, a cookie | a code is spent once, for the user who began | `OAuth` |
| Sessions, `src/lib/{auth,session}.ts` | `Session`, a cookie | signed out is out | `Sessions` |
| Destination and settings routes | `GoogleSheetConfig` and what hangs on it, preferences | what was confirmed was seen | `Destination` |
| Pages that edit, choose, sync and connect | their React state | what a page shows as saved is; its buttons come back | `Editors`, `Picker`, `SyncPanel`, `Popup`, `Setup` |
| Retention, `src/lib/retention.ts` | raw payloads, old results, logs | – | `SheetSync` |
| Account deletion notices, middleware, queries, presentational pages | – | – | not modelled, section 7 |

How they interact: the routes and the worker are separate processes that share
only the database. A claimed run calls the engine; the engine calls the import
(which creates a job row of its own), reads the sheet, writes it and finishes
the job row; the caller then retries or releases. Both remote services are
reached through a client that paces, retries and cools down, with a token that
is refreshed on the way. A browser holds two cookies, of the session and of an
OAuth flow; its tabs hold copies of what the server once sent them. The user
edits the sheet and the settings at any time, eBay changes orders at any time.

What is hard: several processes interleave at every `await`; a lease with a
heartbeat stands in for failure detection; a write to Google may be applied and
reported as failed, or arrive in part; the plan is computed from a sheet that
its user may edit; the cursor, the row links and the outcomes are saved one
after the other; tokens, settings and forms are written back from copies read
earlier; result sets shift while they are paged; a process can die between any
two of these. `PROJECT.json` lists the hazards line by line, with the properties
that catch them.

## 2. Modules

| Module | Content | Extends or uses |
| --- | --- | --- |
| `JobQueue` | the two tables, the worker's tick, the three routes, heartbeats, time-outs, killed processes | |
| `Workspace` | what the queue promises, without locks and time | refined by `JobQueue` |
| `JobQueueInv` | the inductive invariant `IInv` | `JobQueue` |
| `Schedule` | hours, next runs, due, keys of slots | |
| `Automation` | the schedule row under workers, runs and the form | `Schedule` |
| `SheetSync` | runs of the engine: time, cursor, results, faults; one row per order | |
| `SheetSyncInv` | the inductive invariant `IInv` | `SheetSync` |
| `Texts`, `Filters`, `Rules`, `Rows` | values and transformations; which orders; which rules; which cells of which rows | each the one before |
| `RowSync` | runs of the engine at the level of cells | `Rows` |
| `ApiClient` | requests of one connection | |
| `OrderFetch` | an import: pages, storing, shipment lookups | `ApiClient` |
| `Accounts` | one connection: consents, refreshes, disconnects | |
| `Sessions` | accounts, sessions, cookies | |
| `OAuth` | flows, callbacks, whose connection | `Sessions` |
| `Destination` | the server's side of the settings, and the runs | |
| `Editors`, `Picker`, `SyncPanel` | pages over it | `Destination` |
| `Popup` | the consent window | |
| `Setup` | the pages composed over one server | all five |
| `MC*` | instances and symmetries for TLC | |
| `Accounts_proofs`, `Automation_proofs`, `JobQueue_proofs`, `OAuth_proofs`, `OrderFetch_proofs`, `RowSync_proofs`, `Setup_proofs`, `SheetSync_proofs` | theorems, section 4 | the module of the name |

### JobQueue

One action is one database statement, or one read and the decision taken on it.
The label in `pc` is the place between two awaits.

- **Tick**: `ReclaimScan`, `ReclaimOne`, `UnlockReclaimed` are
  `reclaimStaleJobs`; `ListSchedules`, `VisitSchedule`, `EnqueueScheduled` are
  `enqueueDueSchedules`; `ClaimScan`, `CheckCandidate`, `NothingClaimed` are
  `claimNextJob`.
- **Claim**: `CreateLock` and `StealLock` are the two statements of
  `acquireUserLock`, `ClaimJob` the compare-and-swap of `claimJob`, `MarkLost` and
  `ReleaseUserLock` the ways `claimExclusively` loses.
- **Run**: `StartImport`, `EndImport`, `FinishRun`, `RunThrows` are what the
  queue sees of `runSheetSync`; `ScheduleRetry`, `ScheduleRetryThrows`, `Release`
  end `runClaimedJob`; `ReleaseThenHandle` and `CrashHandler` end the request.
- **Routes**: `CheckManual`, `EnqueueManual`; `CheckRetry`, `StartRetry`,
  `EndRetry`; an import is `StartImport` and `EndImport` of a process in `Imports`.
- **Time**: a heartbeat is `fresh` or `stale`; `JobLapses` and `LockLapses` are
  five minutes without one, `RetryDue` is the end of a backoff.
- **Failure**: `Crash` kills any process between any two steps. Errors that the
  code swallows are a choice inside the action that swallows them.

The constant `MayStall` says whether a live process may be suspended past the
time-outs. With `FALSE`, a lease does not lapse while its holder is on the way
from winning it to giving it back: a run beats every 30 seconds, a claim takes
three statements, and the time-out is five minutes. The promise of one run
depends on that and on nothing else about time; known gap G1 shows what
happens without it.

Left out: the order of the candidates and the limit of ten, logs, counters,
phases and messages, and the `AutomationSetting` row, which is `Automation`'s.

### Automation and Schedule

One workspace. A tick is `StartTick` (it takes `now` once), `ReadSchedule`,
`CheckInFlight`, `Enqueue`, `Advance`, then `Claim` or `EndTick`: five awaits in
which another worker, a run or the form may come between. The rows are
identified by the `dedupeKey` of their slot. A claim is one step, because
`JobQueue` is about claims; the bookkeeping of `runClaimedJob` is `ReadForRun`
before the run and `Record` after it, from the copy read before. `ReadForm` and
`SaveForm` are the two statements of `PUT /api/automation`. `Crash`, `Reclaim`,
`RunThrows` and `RetryDue` are the ways in which a row gets another attempt.
`streak` counts the runs that really failed for good, which no column does.

`Faults` names what the code does not survive: a tick that stalls between its
statements, a form saved during a run, bookkeeping that is lost. Section 6 says
which promise each of them breaks. A time zone is an offset, and a day of a
small instance has four hours.

### SheetSync and RowSync

Two views of one engine. `SheetSync` has the time, the cursor, the results and
the errors, and one value per order that stands for the hash of its cells;
`run[p]` holds what the locals of `runSheetSync` hold.

- `Import` is `importOrders` with the window of `resolveRange`; `Plan` is
  `planSync` followed by the early returns; `Classify`, `LastUsed`, `RowOf`,
  `OrdersWithoutKeys` are its parts.
- `WriteBatch`, `TearBatch`, `RecordBatch`, `BatchFails` are an iteration of the
  write loop; `SaveCursor`, `Abort`, `Finish` the rest of the run.
- `StartRetry` is `retryOrder`: the same run with a target.
- Around it: `Sell`, `Modify` (eBay), `Edit` (the user), `ClearPayload`
  and `DropHistory` (retention: payloads, and old results with their errors),
  `Tick`, `Crash`.

`RowSync` has the cells. `Texts` has the transformations of the registry over
sequences of words, `Filters` what an order is in the database and which orders a
filter admits, `Rules` the loop of `evaluateRules`, a recursive function of the
rules that have had their turn, beside the resolution order that its comment
promises, `Rows` the contexts, keys and cells of an order, the write plan and the
ranges of a request. A header is a text, as mappings, key and rules spell it:
`columnOf` trims it and compares it in lower case, while the overrides of a row are
kept by the trimmed spelling (`Override`), as the Map in `evaluateRules` does, and
looked up in lower case only when the cells are written. `StartRun` is the plan (key
column, used range, classification, targets, blockers), `SendChunk` and `ChunkFails`
are one `values.batchUpdate` of `writeRows`, which may be applied and fail,
`RecordLinks` the links, `EndRun` the end. Between runs `Configure` changes the
configuration, `TypeOrErase` and `SwapRows` the sheet. The plan, the batch and the
request are sets whose members know their place in the code's arrays (`at`, compared
with `Before`).

Assumed in both: Google is connected when the plan is made, and the reads of one
plan see one state. Assumed in `SheetSync`: a run takes less than the overlap of
an hour, and keys of orders differ. An order's age is never beyond the 30 days
of a first run. The status PARTIAL is left out.

### ApiClient and OrderFetch

A request takes a `Token`, waits for its `Turn` behind the caller ahead of it,
leaves after its gap (`Send`), and is answered: success, refusal with a wait,
failure for now, failure for good. `Answers` and `EbayCode`/`GoogleCode` sort
the statuses as the two clients do. `StartCooldown` and `Again` are the retry
loop. `OrderFetch` drives it with an import: `TakePage` merges a page and decides
whether to go on, eBay's list shifts under it (`Appears`, `Leaves`), then orders
are stored one by one and shipments looked up within the budget. Subsequences are a
recursive function, `Kept`, so that the proofs can look into them.

### Accounts

A grant is what the provider makes of one consent; tokens are named by their
grant, so that mixed tokens can be told. The row is read (`Read`), and then used
or refreshed from that copy; `Join` is `inFlightRefreshes` of one process. The
disconnect route revokes and clears in two steps, and a callback looks for a row
before it stores one. Lifetimes are flags. Whether a refresh brings a new refresh token
is the fault `rotated`: the code would store it, and says that neither provider sends one.

### Sessions and OAuth

Rows of `Session` and `OAuthState` are never reused; a token is the number of
its row. `RequestArrives`, the lookup, the sliding renewal and the work of a
request are separate steps, and so are those of a callback: find, the three
refusals, claim, exchange, store, discard. Sign-out deletes a row and clears a
cookie. Sweeps, expiry, lost cookies and reloads are actions of their own.

### Destination, its pages, and Setup

`Destination` holds what a workspace's settings are on the server, for each
place they may hang on: a spreadsheet, or the workspace. A list is a set of
marks, which is what the properties tell apart. `Editors` is one machine for
eight pages, because all of them load, copy, send the copy and are rendered
again over the same hook; the pages differ in which inputs are disabled while a
request is under way, in how the answer is acknowledged, and in what the route
does (replace a list, add suggestions, apply a saved configuration). `Picker`
numbers the requests of the spreadsheet list and does not number those of the
worksheets, as the code. `SyncPanel` previews, confirms, starts and polls.
`Popup` is the window of the consent.

## 3. Runs

| Run | Instance | Question |
| --- | --- | --- |
| `queue` | 1 workspace, 2 rows, 2 workers, 1 request, 1 kill, 2 attempts | Does the claim protocol keep its promise? `OneClaimedRun`, `HolderKeepsLock`, `RunVisible`, `ReopenedByItsRunner`, the inductive `IInv`, and the refinement `ImplementsWorkspace` |
| `drain` | 1 worker, 1 retry, 1 import, 2 rows, 1 kill | Does every row end, under fairness? `QueueDrains` |
| `automation` | 2 workers, 2 forms (one with hours around midnight), 1 save, 1 kill, a day of 4 hours | Are failures counted once (`NeverPausedEarly`), attempts bounded (`AttemptsAreBounded`), slots apart (`SlotsAreSpaced`) and served (`DueSlotsAreServed`)? |
| `sheet` | 2 orders, 2 values, 3 rows, batches of 1, failing imports, ambiguous batches, 1 kill, 1 edit between runs, retries | `SheetInv` (what the plan read still holds at the write), `NoDuplicateRows`, `OthersRowsKept`, `SkippedRowsAreCurrent`, `ClosedOnlyWhenWritten` |
| `window` | 2 orders, 3 clock values, ambiguous and torn batches, cleared payloads, retries | `NothingSkipped`: can the cursor pass an order? |
| `rows` | 2 orders of up to 2 items, 4 columns, 3 rows, 3 configurations, batches of 2, chunks of 2, 2 runs, 3 changes, 1 edit | `OtherCellsKept`, `NoDuplicateKeys`, `ModeRespected`, `RowsFollowRules` |
| `fetch` | 4 orders, one unusable, one shipped, pages of 2, one shift, an importer and another caller, 2 attempts | `FetchComplete`, `SuccessIsComplete`, `HammeringIsBounded`, `RequestsAreSpaced`, `ImportEnds` |
| `accounts` | Google, 2 consents, 2 requests, 2 processes, 1 disconnect | `RefreshesCollapse`, `DisconnectPrevails`, and that two states a late refresh leaves heal: `WrongExpiryHeals`, `MixedTokensHeal` |
| `web` | 2 users in 1 browser, 2 sessions, 2 requests, 2 callbacks, 1 flow | `SignedOutIsOut`, `SpentOnce`, `ConnectionsBelong` |
| `setup` | 2 spreadsheets, 1 tab, 8 kinds of settings, 2 runs, 2 list requests | `OnlyWrittenIsConfirmed`, `ShownIsPreviewed`, `CleanMeansTold`, `PickedTabExists`, `ListIsLatest`, `PanelRecovers`, `ButtonComesBack` |
| `unconfirmed` | a worker and a request, no schedule | violated: `WorkerRunsAreScheduled` |
| `import_failed` | failing imports | violated: `NothingSkipped` |

**What they show.** That a lease with a heartbeat, a compare-and-swap and a
delayed retry are together enough for one run at a time, and none of them alone
(each has a mutant). That a schedule counts failures right although every writer
computes them from a copy, provided the form stays out of runs. That planning
against the live sheet makes ambiguous and torn writes, kills and edits between
runs harmless to other rows, in order mode and in line item mode, for keys that a
transformation or Google itself changes on the way. That a walk by offset finds
everything or says it did not, except in the two cases of section 6. That a late
refresh after a disconnect or a second consent leaves nothing that lasts. That
the pages are right about what was saved and confirmed even when a destination
is selected elsewhere in the middle of a save, a preview or a run.

**Bounds.** Every workspace has its own lock row and its own job rows and no
statement joins two of them, so one workspace shows the protocol; the proofs
cover several. Two rows and three claimers are what a race for one lock needs
besides the row that is being reclaimed; two attempts distinguish a requeue from
giving up. `Absent` rows run out, and then nothing new is enqueued: this bounds
how many jobs arrive, not what happens to them.

- `Automation`: an interval of two and four instants let one slot pass and the
  next come; a window of two of four hours, and one of two hours around midnight, are
  entered and left; two attempts,
  two failures to a pause, one save and one kill put every writer of the
  schedule row next to every other. The theorems have no such bounds.
- `SheetSync`: two orders are enough for one to be overwritten by the other or to
  be left over when a batch stops the loop, three rows for two orders and a note,
  two values for a row that is out of date, three clock values for a cursor that
  is more than one overlap past an order.
- `RowSync`: the three configurations of `MCRowSync` differ in the rows per order,
  the key, the mode, the rules, the mapping sets and the filter; the user's column
  lies between mapped ones, so that the ranges of a row have a gap; an item without
  an id, a cancelled order, two rules on one column, three that spell a column in
  two cases, and keys with blanks are in the data. `MaxChanges` counts imports and
  changed configurations together. `RowTable` tabulates `RowsOfOrder`, so that TLC
  builds a row once; an assumption checks the table against the definition.
- `OrderFetch`: a list of three orders over pages of two, so that a shift moves an
  order across the end of a page; a wait longer than the cap; both limits of
  `fetchOrders` and a budget of one lookup are met. Shifts during a walk are one:
  each concerns the one boundary a page has.
- `Accounts`: the second consent is what a refresh of the first may overwrite.
- `OAuth`: one flow, two callbacks and two users show every race for a code.
  Two flows do not finish in the time a run has; the theorems cover any number.
- `Setup`: a behaviour shows the pages of one `scene`, since pages of two scenes
  share only the destination, the mapping and the schedule, which are changed by
  others in every scene (`SelectedElsewhere`, `Pauses`, the mapping a run finds).
  One request of a page is under way at a time (`MaxPending`). One tab, because
  what another tab does to it is what `SelectedElsewhere` and a run do.
- The inductive invariant of `SheetSync` is not among the properties of its runs; it
  holds on both instances (`INVARIANT IInv`), `window` being the one that meets its
  last part, which needs complete imports.

**RunVisible and ReopenedByItsRunner** hold in `queue`, where no import runs
beside the claimers. A standalone import whose row was reclaimed (gap G3) ends
by writing its outcome into a row that may by then be somebody's run.

**Deadlock** is not checked where a bounded instance really comes to an end: time,
rows, runs, sessions or consents are used up and everybody is idle. It is checked
in `queue`, `drain`, `fetch` and `setup`.

**Fairness.** No run assumes that a user clicks, that requests arrive, or that
a statement succeeds rather than fails.

- `JobQueue`, `Automation`: workers loop and requests run to their end while
  their process lives; time passes; a killed run is reclaimed by a later tick. A
  killed worker is restarted (`npm run worker` under a supervisor, or the next
  call of the tick route); a killed request is not.
- `OrderFetch`: timers fire, answers or time-outs come (every request has one),
  and the import goes on.
- `Accounts`: hours pass, callbacks and disconnects finish, every request that
  needs a token is eventually made and proceeds, and refreshes are answered by the
  provider infinitely often if asked infinitely often (`SF`: a provider that never
  answers again heals nothing, and the properties are about what is left behind
  once it does).
- `Setup`: a run that is under way goes on, requests are answered or fail, a page
  that asked to be rendered again is, and the timers of the poll and of the popup
  watch fire.

**Mutants.** For each property `PROJECT.json` names a changed definition that
breaks it, each a mistake this code could have: a steal without the age test, a
claim without `status = QUEUED`, a window without its overlap, the end of the
data taken from the key column alone, the next run counted from the slot, ranges
written across the user's column, a key compared with its blanks, a place in the
queue not recorded, a sliding renewal that inserts, a code claimed whatever its
row says, the tokens cleared but for the refresh token, a baseline taken from
the screen instead of from what was sent.

## 4. Proofs

All theorems are checked by TLAPS for every value of the constants that satisfies
the module's assumption; the bounds (`MaxTime`, `MaxFlows`, ...) are any numbers.

**The queue** (`JobQueue_proofs`).

- `TypeCorrect`: `Spec => []TypeOK`.
- `Inductive`: `~MayStall => (Spec => []IInv)`.
- `MutualExclusion`: `~MayStall => (Spec => []OneClaimedRun)`.
- `LockIsKept`: `~MayStall => (Spec => []HolderKeepsLock)`.
- `Implements`: `~MayStall => (Spec => ImplementsWorkspace)`.
- `RunsAreVisible`: `RunVisible`, and `FinishesAreFinal`: `ReopenedByItsRunner`,
  from `~MayStall` and nothing beside the claimers (`Imports = Retries = {}`), the
  second with `DefaultAttempts >= 2` (the code's default is 3).

Mutual exclusion follows from "the lock row of my workspace names my job", since
there is one lock row. That is stable only if nobody else deletes or takes the
row. Three others could: a thief (then the lock must be stale), a reclaimer (then
my job must be stale when it is scanned, and still in its hands when the lock is
deleted), and a claimer that releases the same job. `IInv` therefore says,
besides types and which labels hold a job: `LockInv`, a holder's lock is its own
and live, and no two hold one job; `AliveInv`, a job in the hands of someone who
may still claim or run it is not stale, so no scan picks it up; `ReclaimInv`, a
job on a reclaimer's list is not eligible, and nobody but reclaimers has it in
hand, which is why the retry of a reclaimed row is delayed; `RunInv`, a running
job is not waiting. There is one lemma per action; `LockFrame` and `Undisturbed`
carry the conjuncts an action cannot disturb. `~MayStall` is used in the three
actions of time and nowhere else. The refinement maps a waiting ticket to a
QUEUED row and a run to a claimer inside the engine; `ClaimJob` is the only begin.

`VisibleInv` adds what else could write the row of a live run: the import inside
it, whose row is another one of the same workspace (`OwnInv`), and the crash
handler of a request, whose row nobody else has claimed (`HandlerInv`). `OpenInv`
says that this import's row is not finished before the import ends: a sweep that
takes it for lost finds it at its first attempt and requeues it, which is why
two attempts are needed. Imports and retries are excluded because the code breaks
both promises there (G3, G14): a standalone import keeps no row fresh, so it is
reclaimed and run as a sheet sync; a retry runs without a claim or a heartbeat.

**The engine** (`SheetSync_proofs`).

- `TypesKept`, and `Inductive`: `Spec => []IInv`, without any hypothesis, since each
  part of `IInv` names the faults it does without.
- `PlansStayTrue` (`SheetInv`), `NoOrderTwice` (`NoDuplicateRows`) and `OthersAreKept`
  (`OthersRowsKept`) from `Alone`: no run overlaps a retry and no user edits between
  plan and write. Lost answers, torn requests, kills, failing imports and edits
  between runs are all allowed.
- `ClosedHasRow` (`ClosedOnlyWhenWritten`) from `Alone` and `FullMode`.
- `SkippedIsCurrent` (`SkippedRowsAreCurrent`) from `Alone` and `Rising`: a value does
  not return to an earlier one.
- `NoWindowSkipped` (`NothingSkipped`) from `Alone`, `FullMode` and `Complete`: no
  import, persist or range fault, no kill, no history deleted. Every hypothesis is a
  gap of section 6 when it is dropped (G4 to G11, G29).

`RowsInv` says that one run is under way, what its locals hold in each phase,
that the plan is still true of the sheet (`SheetInv`), that no order is in two
rows, and that an applied batch is where it should be: the plan's claim about
row numbers is stable only with the last two, because a planned insert goes
below everything, and `LastUsed` and `RowOf` are defined by choice. Their
existence and uniqueness come from well-founded induction on finite sets of row
numbers. `ValueInv` orders five copies of an order's value (link, sheet, plan,
store, eBay): a hash that is equal to the store's cannot then be older than the
sheet. `WindowInv` says that an order before the cursor's overlap has a row, is
on record, or will be when the run ends; `TimeInv` has the clock readings behind
it.

**The schedule** (`Automation_proofs`): `TypesKept`, `AttemptsStayBounded`,
`FailuresAreReal` (from `saveInRun` and `lostRecord` not in `Faults`) and
`SlotsStayApart` (from `stall` not in `Faults`).

- Attempts: `AttemptInv` says that a row has been claimed at most as often as its
  attempt number says, and less often while it waits; a requeue raises the number
  by one and only below the limit of whoever requeues.
- Failures: `FailureInv` says that at most one worker runs, that its copy of the
  count is at most `streak`, and strictly below it once the run has failed for
  good and is not yet recorded. The fault `saveInRun` resets the streak under such
  a copy, and `lostRecord` lets a success end the streak and leave the count.
- Slots: `SlotInv` says that everybody who is about to enqueue has read the same
  slot for one version of the form, that this slot is in the past, that the row's
  own slot is either the same or an interval ahead of now, and that every row of
  that version was created an interval before the slot, unless it is the slot's
  own (`Apart`). It rests on `ComputeNextRun` being at least `MinInterval` ahead, which
  is proved from its definition; that active hours contain a next one needs the
  first element of a finite set of hours, which `FirstExists` takes from
  well-founded induction on finite sets.

**Sign-in and connecting** (`OAuth_proofs`): `TypesKept`, `CodesAreSpentOnce`,
`ConnectionsGoHome`, `SignOutIsFinal` (from `deleteFails` not in
`SessionFaults`). `FlowInv` says that the row of a flow whose code is being
offered is consumed or gone, that one callback at most is about to offer it,
that it has not been offered before, and that callbacks carry the user of their
row. The deletion of expired rows is what makes it more than a compare-and-swap:
`GONE` is as final as `CONSUMED`. `OutInv` says that a session ended by a
finished sign-out has no row and never has one again, although a renewal that
read the row before writes after it (it updates and does not insert).

**The cells of the sheet** (`RowSync_proofs`): `TypesAreKept`, `ModeIsRespected`,
`RulesAreFollowed`, `NoKeyTwice`, `OthersCellsAreKept`, `RangesAreWhole`,
`LinksAreShown`, for any orders, configurations, batch and request sizes, and any
sequence of runs, failed or half applied requests, crashes, saves and edits.

- `RunInv`: the target of an appended row was blank when the plan was read
  and that of an updated one was not, whatever is on its way is a part of a planned
  row, and a row nothing was planned for is as it was. That the rows below
  `NextRow` are blank is what `readUsedRange` is for; the mode follows, without a word
  about the data.
- `KeyInv`: the property is not inductive while a run is under way, since nothing
  in it says where the keys still to be written may already be. `KeysFit` says that a
  key is planned once, and that if it is in the sheet it is where it was
  planned. `RangesInOrder` says that the ranges under way are finitely many, each with
  its place in the array of `writeRows`: of those with a value for one cell there is
  a last one, whose value stays.
- `OwnerInv`: a row of the sheet with a key holds an order that may have that key, the
  plan's targets differ, and what a target shows in the key column is nothing or
  the planned key.
- `LinkInv` (for `LinksAreShown`) says where a batch stands while its requests go
  out one by one: the last cell of a row for a column is in the sheet and no range
  under way has that cell, or it is in a range under way that no later one
  overwrites (`Delivery`). It needs that the rows of a plan are those the
  configuration builds (`PlanBuilt`) and that their targets differ
  (`TargetsApart`), and no hypothesis about the data. A failed request takes its batch
  with it, so `recordLinks` sees only batches with no range left to send. The user
  edits between runs here, so this is about what the run itself leaves.
- `RangesAreWhole` is about `buildRowRanges`: the cells are sorted by column, a new
  range begins where the next column does not follow, and a column mapped twice does
  not get two values in one range (it begins another), which would shift every value
  after it by a column.
- `RulesAreFollowed` (`RowsFollowRules`): of the turns of the loop after which the
  outcome so far is not what it should be for those rules, one would be first
  (`TurnInduction`), and `RuleTurn` keeps it. There is one override for each spelling
  of a column, with the value of its last setter, and the mapping set is the last that
  matched. `RowResolved` carries it to the cells of a row, where the last override
  that names the column is left: the last rule of one spelling, which is the last rule
  of the column when all rules spell it alike (else G30). That the
  rules, mappings and rows of an order are sequences, and that the rules pass
  `validateRule`, is in `RowSyncAssumption`.

The hypotheses are about data: `OneKeyColumn` (all configurations have one key
column, which one of them maps: the plan looks for keys in the active configuration's
column only), `KeysAreShown`
(a key cell comes back from the sheet as the key) and `KeysKeepApart`. `MCRowSync`
assumes them of its data (`ShopAssumption`), so TLC evaluates them.
A key that comes back as another one (`zero7`, shown as `7`) would be appended again.

**Pacing** (`OrderFetch_proofs`): `ClientTypesKept`, `RequestsKeepTheirGap`.
`QueueInv` says that the waiting requests form one chain that ends at `tail`, no
two behind the same one; `GapInv`, that whoever waits out the gap is at its head,
so that nobody moves `lastStartedAt` under it, and that what it has left and what
has passed make up the interval.

**Imports** (`OrderFetch_proofs`): `HammeringStaysBounded`, `FetchIsComplete`,
`SuccessMeansComplete`, for any callers, orders, page sizes, limits and late
insertions.

- Hammering: `HammerInv` counts the pairs of a caller and an attempt that may still
  go out without passing the gate again. Requests sent during a cool-down and
  those pairs are together fewer than all pairs: every send spends one, and the
  attempt that was refused is spent already.
- The walk: `FoundInv` says that what was in the result set at the start is still
  in it, and that what lies before the offset has been collected: an order that is
  indexed late pushes others towards the end, never across the offset towards the
  beginning. (An order that leaves does: G21.) That the subsequence `Kept(s, T)`
  exists and holds the members of `T` is proved by induction on finite sets.
- The outcome: `LookupInv` says that shipments read and those still to be read are
  all that are due, unless an error has been counted.

**Refreshes** (`Accounts_proofs`): `TypesKept`, `OneRefreshAtATime`. The property
is inductive with `RequestInv`: whatever a request is doing, it knows its process
and its row, and it saves a token only when it has one.

**The settings pages** (`Setup_proofs`): `SetupTypesKept`, `ConfirmedMeansWritten`,
`FirstWritesWereShown`, `CleanListsWereTold`, `SavedTabsExist`, `ListsAreLatest`, for
any number of tabs, books, runs and requests. `SetupInv` consists of `ToldInv`
(what is in an editor's baseline, in a request or in an answer under way is
something the server said), `PickInv` (the worksheets on the page belong to the
selected book, and the number of the list request tells an old answer),
`FlagInv` (the flag of a request that a page sent stands for the book it showed) and
`PanelInv` (what a panel knows and sends is `Vouched` for: a preview of that book
was shown, or it was written to). Between a panel's
preview and its run another tab may select another destination; the property is
about runs whose destination is still the one shown, and G24 is the other case.

Only model-checked: liveness (`QueueDrains`, `DueSlotsAreServed`,
`DisconnectPrevails`, `WrongExpiryHeals`, `MixedTokensHeal`, `ImportEnds`,
`PanelRecovers`, `ButtonComesBack`), which is out of the prover's reach with its
fairness. What the transformations, the text functions and the filters of order
contexts return is evaluated on the data of `MCRowSync` only. The loops over rules, mappings
and overrides are recursive functions; that such a function exists is proved for
each of them, by the same argument about a first failure, since the induction
theorems of the library cannot be used. `LinksAreShown` and `RangesAreWhole` have no
run of their own; they hold on the instance of `rows`.

## 5. Disagreements with a run

- `unconfirmed`: a worker that sees a manual request's row before the request
  claims it runs it as confirmed, although no schedule was switched on
  (`worker.ts:191-195`, "A schedule the user switched on is itself the
  confirmation").
- `import_failed`: the run continues after a failed import and moves the cursor
  (`README.md:614-616`, a failure "can never silently skip a window of orders").

## 6. Known gaps of the code

Found with the models: the property is in the module, and TLC violates it on the
instance (faults by name, and what differs from the run of the module).

| | Property | Instance | What happens |
| --- | --- | --- | --- |
| G1 | `OneClaimedRun` | two workers, `MayStall` | a suspended holder resumes as a second writer |
| G2 | `BackoffKept` | two workers, 1 row | a candidate read before it was run and requeued is claimed at once |
| G3 | `ImportsStayImports` | a worker and an import | a long import is reclaimed and run as a sheet sync |
| G4 | `NothingSkipped` | `"persist"`, 4 clock values | orders that could not be stored are passed |
| G5 | `NothingSkipped` | `"range"`, 4 clock values | a short manual range moves the cursor |
| G6 | `NothingSkipped` | `"crash"`, 3 orders | a kill between cursor and finish |
| G7 | `UpdatesReachTheSheet` | no fault, 2 values, 4 clock values | an old order's update is stored, not planned |
| G8 | `SkippedRowsAreCurrent` | `"revert"` with `"crash"` or `"torn"`; or `"torn"` and one edit | a value returns and its hash matches, though the sheet holds the one between; or a row deleted by the user is inserted again in part, under the old hash |
| G9 | `OthersRowsKept` | `"edit"` | the user moves rows between plan and write |
| G10 | `ClosedOnlyWhenWritten` | `"mode"`, `"ambiguous"` | an update-only run closes a new order's failure |
| G11 | `NoDuplicateRows` | `"overlap"`, 3 orders, 4 rows | a retry beside a sync appends twice |
| G12 | `GoodUnitIsClosed` | `"retention"` | a build failure is never closed |
| G13 | `WrittenRowsAreFound` | `"torn"` | a row is left without its key and blocks later runs |
| G14 | `OneWriter` (`JobQueue`) | a worker and a retry | the retry route asks whether a job runs and then writes without the mutex it names (`retry/route.ts:30-32`) |
| G15 | `OffMeansOff` (`Automation`) | `automation`, 2 saves | a claim does not look at the setting: a row enqueued before automation was switched off still runs |
| G16 | `FailingIsPaused` | `automation` | exceptions and lost workers fail for good without being counted |
| G17 | `NeverPausedEarly` | `"saveInRun"`, 2 saves; or `"lostRecord"` | the bookkeeping of a run writes its old count over a form saved meanwhile, and pauses it again; or a success is not recorded and ends no streak |
| G18 | `SlotsAreSpaced` | `"stall"` | a tick that stalls after reading a slot creates its row late, and the next slot is counted from its start |
| G19 | `DisconnectedStays` (`Accounts`) | `accounts` | a refresh that answers late marks a disconnected row CONNECTED |
| G20 | `TruncationReported` (`OrderFetch`) | limits of 1 | a walk that ends at exactly `maxOrders` is not reported as truncated |
| G21 | `FetchCompleteWhateverLeaves` | one shift | an order that leaves the window moves another past the offset |
| G22 | `ReloadIsRecognised` (`OAuth`) | `web` | a callback reloaded after success is told its state was never issued |
| G23 | `SignedOutIsOut` (`Sessions`) | `"deleteFails"` | an error of the deletion is swallowed, and the copied token goes on working |
| G24 | `FirstWriteIsPreviewed` (`Destination`) | `setup` | the confirmation is not tied to a destination: a run confirmed for one writes to another selected meanwhile (`schema.prisma:321-322`) |
| G25 | `WrittenAsPreviewed` | `setup` | a preview is not cleared when the options change, and "Confirm and sync" sends the new ones |
| G26 | `CleanMeansStored` (`Editors`) | `setup` | after automatic mapping, or a schedule paused by the worker, the page shows its old copy as saved, and the next save writes it back; "tick … and save to resume" is then wrong (`automation/page.tsx:57-60`) |
| G27 | `NoColumnTwice` | two tabs on the mapping page | two automatic mappings add one column twice |
| G28 | `OnlyMappedColumns` (`RowSync`) | `rows` | a SET_VALUE rule or a mapping set writes columns that are not mapped (`README.md:446-450`, `write-plan.ts:13-14`) |
| G29 | `NothingSkipped` | `"retention"`, `"history"` | an order whose row could not be built is on record only in the results of its run; when those are deleted after their term, nothing names it |
| G30 | `LaterRuleWins` (`RowSync`) | `rows` | rules on `Sum`, `sum` and `Sum` leave the value of the second: overrides are kept by spelling (`rules.ts:202`), a spelling keeps the place of its first rule, and columns are found in lower case (`sheet-sync.ts:649`), though "a later rule wins on the same column" (`rules.ts:163`) |
| G31 | `DisconnectPrevails` (`Accounts`) | `"rotated"` | a refresh that answers after the disconnect with a new refresh token stores that too; the comments say that neither provider rotates it (`google/tokens.ts:170`, `ebay/tokens.ts:182`) |

Read beside the models, and not stated as a property:

- **Rows.** Alternate mapping sets are not checked for duplicate targets, and in a set
  that names a column twice a rule replaces the first value only. A lossy
  transformation, a SET_VALUE on the key column or a changed key source lets an
  order of another window take over a row; switching the row mode changes the
  keys and leaves the old rows. In order mode `lineItem.*` is the first item. The
  number and currency formats make 0 of a missing value, so the fallback never
  applies, and `less_than` holds for an empty value. Keys are written as typed by
  a user and read as formatted (`007` becomes `7`). The header row is not read
  again before the write, so a column inserted meanwhile shifts the targets.
- **Plan.** Without a live connection the plan uses the stored row numbers, and a
  reconnect before the write makes them targets. In line item mode an order counts
  as synced once one of its batches is. Errors are closed by key, over all
  workspaces. An update-only run moves the cursor past new orders. A run with
  nothing to write does not set `bulkSyncConfirmedAt`.
- **Schedule.** The next active hour is found in whole UTC hours, so that half-hour
  zones start late; the advance of a tick overwrites the next run of a form saved
  meanwhile; retries run outside the active hours. A worker killed between a run's
  `FAILED` and the requeue of its retry loses the retry.
- **Connections.** Two first consents make two active rows, and a disconnect clears
  one. A late identity update names an account on a disconnected row. A joiner of
  a refresh may get the token of the previous account. A 401 never refreshes, and
  an error of a refresh leaves the retry loop. Requests already queued and their
  retries ignore a cool-down, and a parallel success clears it. An import that was
  cut off ends as SUCCESS; shipments beyond the budget are not read later; two
  imports may store an older version over a newer. "Defaults to now" of `createdTo`
  is an open end.
- **Sessions.** Renewal moves the row's expiry and not the cookie's. A login that
  verifies an old password beside `set-password` keeps its session. A sign-in
  leaves the browser's previous session alive. The drop of an expired session
  racing a renewal signs an active user out; that of an expired state racing its
  claim makes "Nothing was changed" false. A second consent in another tab takes
  the state cookie.
- **Pages.** `PUT /api/settings` writes its keys one after another, and the stored
  sync preferences are read by nothing. Saves go to whichever destination is
  active. Two selections at READ COMMITTED may leave two active rows. A deleted
  saved configuration stays named in rules. A late worksheet answer leaves the
  picker unable to save; a late message of an abandoned consent stops the watch
  of the next window. After "Lost track" the confirm button stays hidden. Unknown
  filter tokens are dropped, and a list of nothing else restricts nothing.

## 7. Not modelled

- Account deletion notices: the route answers a challenge and acknowledges; it
  keeps no state.
- The middleware's request limiter and origin check: one request is one synchronous
  step. The health, test and query routes, the call log and the health columns that are written beside requests.
- Pages that only show data, the buttons of the dashboard and of the import panel.
- Request building, response parsing, encryption, passwords, locales, padding and
  the display types of columns.
- The order and the limit of ten of the claim's candidates; the plan without a
  connection.

## 8. Plan

Done: the queue, the engine in two views, imports and clients, tokens, OAuth and
sessions, the schedule, destinations and the pages over them; proofs for all of
them.

Next:

1. The claim's limit of ten with several workspaces; the plan from row links.
2. Line item mode with results and cursor: which items of an order are on record.

## 9. Running the checks

    tlc -workers 2 -config queue.cfg MCJobQueue.tla
    tlc -workers 2 -config rows.cfg MCRowSync.tla
    tlapm Automation_proofs.tla

The other runs are in `PROJECT.json`, each with its module and configuration.
