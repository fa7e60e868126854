------------------------------- MODULE RowSync -------------------------------
(***************************************************************************)
(* Runs of the sync engine at the level of cells: planSync and the write   *)
(* loop of src/lib/sync/sheet-sync.ts over the rows of module Rows, with   *)
(* several rows per order, changing configurations, requests that carry a  *)
(* part of a row, and a user who edits the sheet between two runs.         *)
(*                                                                         *)
(* SheetSync has the time, the cursor and the results of the same engine,  *)
(* with one value for the cells of an order; here the window of a run is   *)
(* any set of orders and a run is one of the workspace's jobs at a time.   *)
(* Google stays connected, and the headers are those of the sheet.         *)
(***************************************************************************)
EXTENDS Rows

CONSTANTS
    OrderList,    \* the orders, by orderDate
    Contents,     \* order -> what may be stored of it: [payload, tracking]
    Configs,      \* configurations a user may save
    DefaultMarket,
    MaxRows,      \* rows of the sheet below its header (bound)
    MaxRuns, MaxChanges, MaxEdits,  \* bounds
    BatchSize,    \* BATCH, 50 in the code
    ChunkSize,    \* ranges per request, 200 in the code
    RowTable      \* the rows of module Rows, tabulated: config, order, content

ASSUME RowSyncAssumption ==
    /\ OrderList \in Seq(Range(OrderList)) /\ IsInjective(OrderList)
    /\ {MaxRows, BatchSize, ChunkSize} \subseteq Nat \ {0}
    /\ {MaxRuns, MaxChanges, MaxEdits} \subseteq Nat
    /\ Contents \in [Range(OrderList) -> SUBSET UNION Range(Contents)]
    /\ RowTable = [k \in Configs |-> [o \in Range(OrderList) |->
                      [content \in Contents[o] |-> RowsOfOrder(k, o, content)]]]
    /\ \A k \in Configs, o \in Range(OrderList) : \A content \in Contents[o] :
          RowTable[k][o][content] \in Seq(Range(RowTable[k][o][content]))
    /\ \A k \in Configs :
          /\ k.mappings \in Seq(Range(k.mappings)) /\ k.rules \in Seq(Range(k.rules))
          /\ \A s \in DOMAIN k.sets : k.sets[s] \in Seq(Range(k.sets[s]))
          /\ \A rule \in Range(k.rules) : ValidRule(rule)

VARIABLES
    store,    \* ImportedOrder with its line items, None for no such order
    config,   \* the active destination with its mappings, rules and filter
    sheet,    \* the cells below the header
    link,     \* SheetRowLink: dedupeKey -> valuesHash
    owner,    \* history: whose order the engine last wrote into each row
    run,      \* the run under way
    runs, changes, edits

vars == <<store, config, sheet, link, owner, run, runs, changes, edits>>

Orders  == Range(OrderList)
RowNums == 1 .. MaxRows
BlankRow == [c \in Columns |-> Empty]
Modes == {"APPEND", "UPDATE", "APPEND_UPDATE"}
NoRun == [phase |-> "idle", mode |-> "APPEND_UPDATE", before |-> <<>>,
          owned |-> <<>>, plan |-> {}, left |-> {}, batch |-> {}, ranges |-> {}]

Init ==
    /\ store = [o \in Orders |-> None]
    /\ config \in Configs
    /\ sheet = [r \in RowNums |-> BlankRow]
    /\ link = <<>>
    /\ owner = [r \in RowNums |-> None]
    /\ run = NoRun
    /\ runs = 0 /\ changes = 0 /\ edits = 0

-----------------------------------------------------------------------------
(* Reading the sheet.                                                      *)

\* What Google shows for a typed value: USER_ENTERED, then FORMATTED_VALUE.
ShownForm == [zero7 |-> "7"]
Shown(t) == Convert(t, ShownForm)

\* Mutant: cells are compared with what surrounds the key.
KeyInUntrimmed(r) == sheet[r][columnOf(config.key)]

KeyIn(r) == Trim(sheet[r][columnOf(config.key)])

KeyedRows == {r \in RowNums : KeyIn(r) # Empty}
\* readKeyColumn: the first row of a key.
RowOfKey(key) == LET rows == {r \in KeyedRows : KeyIn(r) = key}
                 IN  IF rows = {} THEN 0 ELSE CHOOSE r \in rows : \A s \in rows : r <= s

Highest(rows) == IF rows = {} THEN 0 ELSE LastOf(rows)
\* readUsedRange, over all the columns that are known.
UsedRows == {r \in RowNums : \E c \in Columns : Trim(sheet[r][c]) # Empty}

OrdersWithoutKeys ==
    {r \in UsedRows : /\ r > Highest(KeyedRows)
                      /\ \E c \in WritePlan(config.mappings).mapped \ {columnOf(config.key)} :
                            Trim(sheet[r][c]) # Empty}

-----------------------------------------------------------------------------
(* planSync.                                                               *)

\* The order of two places, <<order, row>> in a plan and <<order, row,
\* column, cell>> in a request.
Before(a, b) ==
    \E n \in DOMAIN a : a[n] < b[n] /\ \A m \in 1 .. n - 1 : a[m] = b[m]

Built(o) == RowTable[config][o][store[o]]
PlannedRow(i, j) ==
    LET row == Built(OrderList[i])[j]
    IN  [at |-> <<i, j>>, key |-> row.key, order |-> OrderList[i], cells |-> row.cells]
\* The rows of the orders in W, but for those that a rule leaves out.
PlannedRows(W) ==
    UNION {{PlannedRow(i, j) : j \in {x \in DOMAIN Built(OrderList[i]) :
                                        Built(OrderList[i])[x].include}} :
              i \in {x \in DOMAIN OrderList : OrderList[x] \in W}}

\* Mutant: keys are not compared within the plan.
CollisionsAllowed(rows) == FALSE

CollidingKeys(rows) == \E a, b \in rows : a # b /\ a.key = b.key

Blocked(rows) ==
    \/ ~WritePlan(config.mappings).safe
    \/ columnOf(config.key) = 0
    \/ columnOf(config.key) \notin WritePlan(config.mappings).mapped
    \/ \E row \in rows : row.key = Empty
    \/ CollidingKeys(rows)
    \/ OrdersWithoutKeys # {}

\* Mutant: rows below the last key are as good as free.
NextRowByKey == Highest(KeyedRows) + 1
NextRow == Highest(KeyedRows \cup UsedRows) + 1

Hash(row) == ByColumn(row.cells)
Unchanged(row) == row.key \in DOMAIN link /\ link[row.key] = Hash(row)

\* Mutant: the mode is not looked at.
ActionAnyMode(row, mode) ==
    IF RowOfKey(row.key) # 0 THEN IF Unchanged(row) THEN "SKIP_UNCHANGED" ELSE "UPDATE"
    ELSE "INSERT"

ActionOf(row, mode) ==
    IF RowOfKey(row.key) # 0
    THEN IF mode = "APPEND" THEN "SKIP_MODE"
         ELSE IF Unchanged(row) THEN "SKIP_UNCHANGED" ELSE "UPDATE"
    ELSE IF mode = "UPDATE" THEN "SKIP_MODE" ELSE "INSERT"

\* An existing row is written where its key is; new rows go below the data, in
\* the order of the plan.
TargetOf(row, rows, mode) ==
    IF ActionOf(row, mode) = "UPDATE" THEN RowOfKey(row.key)
    ELSE NextRow + Cardinality({x \in rows : ActionOf(x, mode) = "INSERT" /\ Before(x.at, row.at)})
WithTarget(row, r) ==
    [at |-> row.at, key |-> row.key, order |-> row.order, cells |-> row.cells, target |-> r]
Writable(rows, mode) ==
    {WithTarget(row, TargetOf(row, rows, mode)) :
        row \in {x \in rows : ActionOf(x, mode) \in {"INSERT", "UPDATE"}}}

\* A window of stored orders that pass the filter, or one order by name.
StartRun(W, targeted) ==
    /\ run.phase = "idle" /\ runs < MaxRuns
    /\ \A o \in W : store[o] # None
    /\ IF targeted THEN Cardinality(W) = 1
       ELSE \A o \in W : InFilter(Normalized(store[o].payload, DefaultMarket), config.filter)
    /\ \E rows \in {PlannedRows(W)} : \E mode \in config.modes : \E todo \in {Writable(rows, mode)} :
            /\ ~Blocked(rows) /\ todo # {}
            /\ \A row \in todo : row.target \in RowNums
            /\ run' = [NoRun EXCEPT !.phase = "batch", !.mode = mode, !.before = sheet,
                                    !.owned = owner, !.plan = todo, !.left = todo]
    /\ runs' = runs + 1
    /\ UNCHANGED <<store, config, sheet, link, owner, changes, edits>>

-----------------------------------------------------------------------------
(* The write loop.                                                         *)

\* The first n of S, as the only member: slice(offset, offset + n).
FirstOf(S, n) ==
    {T \in SUBSET S : /\ Cardinality(T) = (IF n < Cardinality(S) THEN n ELSE Cardinality(S))
                      /\ \A a \in T, b \in S \ T : Before(a.at, b.at)}

\* The ranges of a batch, each with the row it belongs to.
RangesOf(rows) ==
    UNION {{[at |-> row.at \o part.at, target |-> row.target, order |-> row.order,
             cells |-> part.cells] : part \in buildRowRanges(row.cells)} : row \in rows}

NextBatch ==
    /\ run.phase = "batch" /\ run.left # {}
    /\ \E rows \in FirstOf(run.left, BatchSize) :
          run' = [run EXCEPT !.phase = "send", !.batch = rows, !.ranges = RangesOf(rows),
                             !.left = @ \ rows]
    /\ UNCHANGED <<store, config, sheet, link, owner, runs, changes, edits>>

\* values:batchUpdate applies the ranges of one request in their order: the
\* last value for a cell stays.
Sent(ranges, r, c) ==
    {g \in ranges : g.target = r /\ \E x \in g.cells : x.column = c}
LastSent(ranges, r, c) ==
    LET sent == Sent(ranges, r, c)
        last == CHOOSE g \in sent : \A h \in sent : ~Before(g.at, h.at)
    IN  CHOOSE x \in last.cells : x.column = c
Applied(ranges) ==
    /\ sheet' = [r \in RowNums |-> [c \in Columns |->
                    IF Sent(ranges, r, c) = {} THEN sheet[r][c]
                    ELSE Shown(LastSent(ranges, r, c).value)]]
    /\ owner' = [r \in RowNums |->
                    IF \E g \in ranges : g.target = r
                    THEN (CHOOSE g \in ranges : g.target = r).order ELSE owner[r]]

SendChunk ==
    /\ run.phase = "send" /\ run.ranges # {}
    /\ \E chunk \in FirstOf(run.ranges, ChunkSize) :
          Applied(chunk) /\ run' = [run EXCEPT !.ranges = @ \ chunk]
    /\ UNCHANGED <<store, config, link, runs, changes, edits>>

\* A request that fails, applied or not, takes its batch with it; some
\* errors end the loop.
ChunkFails ==
    /\ run.phase = "send" /\ run.ranges # {}
    /\ \/ \E chunk \in FirstOf(run.ranges, ChunkSize) : Applied(chunk)
       \/ UNCHANGED <<sheet, owner>>
    /\ \E stop \in BOOLEAN :
        run' = [run EXCEPT !.phase = "batch", !.batch = {}, !.ranges = {},
                           !.left = IF stop THEN {} ELSE @]
    /\ UNCHANGED <<store, config, link, runs, changes, edits>>

\* The links of some rows.
Linked(rows) ==
    [key \in DOMAIN link \cup {row.key : row \in rows} |->
        IF \E row \in rows : row.key = key
        THEN Hash(CHOOSE row \in rows : row.key = key) ELSE link[key]]

\* All of the batch is in the sheet; a database error may still stop the
\* links part way.
RecordLinks ==
    /\ run.phase = "send" /\ run.ranges = {}
    /\ \E n \in 0 .. Cardinality(run.batch) : \E rows \in FirstOf(run.batch, n) :
          link' = Linked(rows)
    /\ run' = [run EXCEPT !.phase = "batch", !.batch = {}]
    /\ UNCHANGED <<store, config, sheet, owner, runs, changes, edits>>

\* The loop is through, or the process dies at any point of it.
EndRun ==
    /\ run.phase # "idle"
    /\ run' = NoRun
    /\ UNCHANGED <<store, config, sheet, link, owner, runs, changes, edits>>

-----------------------------------------------------------------------------
(* Between runs: imports, configuration, the user's edits.                 *)

Idle == run.phase = "idle"

\* An import stores an order, or a newer version of it.
Import(o, content) ==
    /\ Idle /\ changes < MaxChanges
    /\ store[o] # content /\ content \in Contents[o]
    /\ store' = [store EXCEPT ![o] = content]
    /\ changes' = changes + 1
    /\ UNCHANGED <<config, sheet, link, owner, run, runs, edits>>

Configure(c) ==
    /\ Idle /\ changes < MaxChanges /\ c # config
    /\ config' = c
    /\ changes' = changes + 1
    /\ UNCHANGED <<store, sheet, link, owner, run, runs, edits>>

UserEdit == Idle /\ edits < MaxEdits /\ edits' = edits + 1

\* The user types into a cell that no configuration mentions, or erases one.
TypeOrErase(r, c, t) ==
    /\ UserEdit
    /\ t # Empty => c \notin UNION {WritePlan(k.mappings).mapped : k \in Configs}
    /\ sheet' = [sheet EXCEPT ![r][c] = t]
    /\ UNCHANGED <<store, config, link, owner, run, runs, changes>>

\* Sorting the sheet moves rows with all they hold.
SwapRows(r, s) ==
    /\ UserEdit /\ r < s
    /\ sheet' = [sheet EXCEPT ![r] = sheet[s], ![s] = sheet[r]]
    /\ owner' = [owner EXCEPT ![r] = owner[s], ![s] = owner[r]]
    /\ UNCHANGED <<store, config, link, run, runs, changes>>

Next ==
    \/ \E W \in SUBSET Orders, targeted \in BOOLEAN : StartRun(W, targeted)
    \/ NextBatch \/ SendChunk \/ ChunkFails \/ RecordLinks \/ EndRun
    \/ \E o \in Orders : \E content \in Contents[o] : Import(o, content)
    \/ \E c \in Configs : Configure(c)
    \/ \E r \in RowNums, c \in Columns, t \in {Empty, <<"typed">>} : TypeOrErase(r, c, t)
    \/ \E r, s \in RowNums : SwapRows(r, s)

Spec == Init /\ [][Next]_vars

-----------------------------------------------------------------------------
(* Properties.                                                             *)

Kept(r, c) == sheet[r][c] = run.before[r][c]

\* Nothing to see in it.
Unused(row) == \A c \in Columns : Trim(row[c]) = Empty

\* The columns a configuration names anywhere: mappings, mapping sets and
\* rules.
NamedColumns(k) ==
    ({columnOf(m.column) : m \in Range(k.mappings)}
     \cup (UNION {{columnOf(m.column) : m \in Range(k.sets[s])} : s \in DOMAIN k.sets})
     \cup {columnOf(rule.column) : rule \in Range(k.rules)}) \ {0}

\* The rows a configuration may make of an order.
RowsFor(k, o) ==
    UNION {{row \in Range(RowTable[k][o][content]) : row.include} : content \in Contents[o]}

\* What the properties ask of the data, for a shop as it is usually set up:
\* all configurations have one key column and it is one they map, a key cell
\* comes back from the sheet as the key, and rows of two orders never share
\* a key.
OneKeyColumn ==
    \E c \in Columns : /\ \A k \in Configs : columnOf(k.key) = c
                       /\ \E k \in Configs : c \in WritePlan(k.mappings).mapped
KeysAreShown ==
    \A k \in Configs, o \in Orders : \A row \in RowsFor(k, o) : \A x \in Range(row.cells) :
        x.column = columnOf(k.key) => Trim(Shown(x.value)) = row.key
KeysKeepApart ==
    \A k, l \in Configs, o, p \in Orders : \A a \in RowsFor(k, o), b \in RowsFor(l, p) :
        a.key = b.key /\ a.key # Empty => o = p

\* However a run ends, and whatever requests of it arrived: it changed
\* nothing but cells of configured columns, and those only in rows that
\* were blank when it was planned or hold the very order it writes there.
\* Sorting and notes of the user between runs do not make it write into
\* somebody else's row. (planSync's target rows, buildRowRanges.)
OtherCellsKept ==
    ~Idle => \A r \in RowNums, c \in Columns :
        \/ Kept(r, c)
        \/ /\ c \in NamedColumns(config)
           /\ \E row \in run.plan :
                /\ row.target = r
                /\ Unused(run.before[r]) \/ run.owned[r] = row.order

\* No key is in two rows, after any sequence of runs, failed requests,
\* crashes, configurations and edits: what a run did not record it finds in
\* the sheet, and a key shown without what surrounded it is still that key.
NoDuplicateKeys ==
    \A r, s \in KeyedRows : KeyIn(r) = KeyIn(s) => r = s

\* A run that may only append changes no row that held anything, and one
\* that may only update fills no blank row.
ModeRespected ==
    ~Idle => /\ run.mode = "APPEND" =>
                    \A r \in RowNums : Unused(run.before[r]) \/ sheet[r] = run.before[r]
             /\ run.mode = "UPDATE" =>
                    \A r \in RowNums : Unused(run.before[r]) => sheet[r] = run.before[r]

\* Of the rules in S, those for column c.
RulesFor(rules, S, c) == {i \in S : columnOf(rules[i].column) = c}
NamedOnce(mappings, c) ==
    \A i, j \in DOMAIN mappings :
        columnOf(mappings[i].column) = c /\ columnOf(mappings[j].column) = c => i = j

\* Every row that is built follows the rules in what is written of it: any
\* exclusion wins, whitelists are OR-ed, the last matching mapping set is
\* taken, and cells are written in its columns and in those that rules set.
\* In a column that rules set stands the value of a rule, never the one of
\* the mapping (unless the set names the column twice), and that rule is the
\* last of those that spell the column as it does: with one spelling, the
\* last rule. (evaluateRules, and planSync's use of it.)
RowsFollowRules ==
    \A o \in Orders : store[o] # None => \A row \in Range(Built(o)) :
        LET rules   == config.rules
            setters == Fires(rules, row.at, "SET_VALUE")
            chosen  == MappingsFor(config, PromisedSet(rules, row.at))
        IN  /\ row.include <=> PromisedInclude(rules, row.at)
            /\ row.include =>
                /\ {x.column : x \in Range(row.cells)} =
                      {columnOf(m.column) : m \in Range(chosen)}
                      \cup {c \in Columns : RulesFor(rules, setters, c) # {}}
                /\ \A c \in Columns : RulesFor(rules, setters, c) # {} =>
                     \E i \in LastSpelled(rules, RulesFor(rules, setters, c)) :
                        /\ [column |-> c, value |-> rules[i].value] \in Range(row.cells)
                        /\ NamedOnce(chosen, c) =>
                             \A x \in Range(row.cells) :
                                x.column = c => x.value = rules[i].value

\* "A later rule wins on the same column", as the comment on evaluateRules
\* says. It does not when the rules spell the column in different cases: the
\* Map of overrides tells the spellings apart, an entry keeps the place of
\* its first rule, and planSync lets the last entry of a column win.
LaterRuleWins ==
    \A o \in Orders : store[o] # None => \A row \in Range(Built(o)) : row.include =>
        LET setters == Fires(config.rules, row.at, "SET_VALUE")
        IN  \A c \in Columns : RulesFor(config.rules, setters, c) # {} =>
                \E x \in Range(row.cells) :
                    /\ x.column = c
                    /\ x.value = config.rules[LastOf(RulesFor(config.rules, setters, c))].value

\* The engine writes mapped columns only. It does not: a SET_VALUE rule
\* adds a cell for any column, and a mapping set brings columns of its own.
OnlyMappedColumns ==
    ~Idle => \A r \in RowNums, c \in Columns \ WritePlan(config.mappings).mapped : Kept(r, c)
=============================================================================
