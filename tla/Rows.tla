-------------------------------- MODULE Rows --------------------------------
(***************************************************************************)
(* How an order becomes rows, and which cells of the sheet they go to:     *)
(* src/lib/sync/build-row.ts, src/lib/sheets/write-plan.ts, the building  *)
(* part of planSync in src/lib/sync/sheet-sync.ts, and the ranges of       *)
(* src/lib/google/sheets-write.ts.                                         *)
(*                                                                         *)
(* A mapping is [column, source, trans, args, fallback, static, enabled],  *)
(* a mapping list is in position order, and column is the text of a header *)
(* as it was saved.  Headers are looked up trimmed and in lower case.      *)
(* Columns and rows count from 1, and 0 stands for no such column or row.  *)
(***************************************************************************)
EXTENDS Rules, Functions

CONSTANT Headers      \* GoogleSheetColumn in sheet order: texts

ASSUME HeadersAssumption == Headers \in Seq(Seq(STRING))

Columns == DOMAIN Headers

\* columnByHeader: the last of the columns of one name.
HeaderKeys == [c \in Columns |-> Lower(Trim(Headers[c]))]
columnByHeader(key) ==
    LET named == {c \in Columns : HeaderKeys[c] = key}
    IN  IF named = {} THEN 0 ELSE LastOf(named)

\* The column that a mapping, the key or a rule names; a blank names none.
columnOf(header) ==
    IF Trim(header) = Empty THEN 0 ELSE columnByHeader(Lower(Trim(header)))

-----------------------------------------------------------------------------
(* buildRowContext and expandOrderToRows.                                  *)

TextOrNull(t) == IF t = None THEN Null ELSE Text(t)
SumOf(numbers) == FoldLeft(LAMBDA a, b : a + b, 0, numbers)

\* Item i of the payload, 0 for an order without items.
dedupeKey(p, i, perLineItem) ==
    IF ~perLineItem THEN p.orderId
    ELSE p.orderId \o <<"::">> \o (IF p.items[i].id = None THEN Numeral(i) ELSE p.items[i].id)

buildRowContext(p, i, perLineItem) ==
    LET skus   == SelectSeq([j \in DOMAIN p.items |-> SkuText(p.items[j].sku)],
                            LAMBDA t : t # Empty)
        qty    == [j \in DOMAIN p.items |-> p.items[j].qty]
        key    == dedupeKey(p, i, perLineItem)
    IN  [item |-> i,
         sku  |-> IF i = 0 THEN None ELSE p.items[i].sku,
         at   |-> [path \in {"order.orderId", "order.paymentStatus", "order.fulfillmentStatus",
                             "order.total", "order.currency", "order.tracking", "order.creationDate", "lineItem.sku",
                             "lineItem.title", "lineItem.quantity", "computed.itemCount",
                             "computed.totalQuantity", "computed.skuList", "computed.skus",
                             "computed.lineItemNumber", "computed.rowKey"} |->
            CASE path = "order.orderId"           -> Text(p.orderId)
              [] path = "order.paymentStatus"     -> Text(<<p.payment>>)
              [] path = "order.fulfillmentStatus" -> Text(<<p.fulfillment>>)
              [] path = "order.total"             -> Number(p.total)
              [] path = "order.currency"          -> Text(p.currency)
              [] path = "order.tracking"          -> TextOrNull(p.tracking)
              [] path = "order.creationDate"      -> Text(<<p.created>>)
              [] path = "lineItem.sku"            -> IF i = 0 THEN Null ELSE TextOrNull(p.items[i].sku)
              [] path = "lineItem.title"          -> IF i = 0 THEN Null ELSE Text(p.items[i].title)
              [] path = "lineItem.quantity"       -> IF i = 0 THEN Null ELSE Number(p.items[i].qty)
              [] path = "computed.itemCount"      -> Number(Len(p.items))
              [] path = "computed.totalQuantity"  -> Number(SumOf(qty))
              [] path = "computed.skuList"        -> Text(Join(skus, <<", ">>))
              [] path = "computed.skus"           -> List(skus)
              [] path = "computed.lineItemNumber" -> Number(IF i = 0 THEN 1 ELSE i)
              [] path = "computed.rowKey"         -> Text(key)]]

\* One row per order, or one per item; an order without items is one row.
expandOrderToRows(p, perLineItem) ==
    IF ~perLineItem \/ p.items = <<>>
    THEN <<buildRowContext(p, IF p.items = <<>> THEN 0 ELSE 1, FALSE)>>
    ELSE [i \in DOMAIN p.items |-> buildRowContext(p, i, TRUE)]

SourceValue(m, row) == IF m.source = "static" THEN Text(m.static) ELSE row.at[m.source]
OrFallback(text, m) == IF text = Empty THEN m.fallback ELSE text
resolveCell(m, row) ==
    OrFallback(applyTransformation(m.trans, SourceValue(m, row), m.args, row.at), m)

-----------------------------------------------------------------------------
(* buildWritePlan, and the compiled mappings.                              *)

Enabled(mappings) == SelectSeq(mappings, LAMBDA m : m.enabled /\ Trim(m.column) # Empty)
MaxNewColumns == 5

WritePlan(mappings) ==
    LET enabled == Enabled(mappings)
        targets == [i \in DOMAIN enabled |-> Trim(enabled[i].column)]
        keys    == [i \in DOMAIN enabled |-> Lower(targets[i])]
        mapped  == {columnOf(h) : h \in Range(targets)} \ {0}
        create  == {h \in Range(targets) : columnOf(h) = 0}
    IN  [mapped      |-> mapped,
         wouldCreate |-> create,
         untouched   |-> {c \in Columns : /\ Trim(Headers[c]) # Empty
                                       /\ columnOf(Headers[c]) \notin mapped},
         safe        |-> /\ enabled # <<>>
                         /\ IsInjective(keys)
                         /\ Cardinality(create) <= MaxNewColumns]

\* A mapping whose column the sheet does not have writes nothing.
Compiles(m) == m.enabled /\ columnOf(m.column) # 0
compileMappings(mappings) ==
    LET upTo[n \in 0 .. Len(mappings)] ==
          IF n = 0 THEN <<>>
          ELSE IF Compiles(mappings[n]) THEN Append(upTo[n - 1], mappings[n]) ELSE upTo[n - 1]
    IN  upTo[Len(mappings)]

-----------------------------------------------------------------------------
(* The cells of a row.                                                     *)

\* Rule values go into the first cell of their column, or into a new one.
SetCell(cells, column, value) ==
    LET own == {i \in DOMAIN cells : cells[i].column = column}
    IN  IF own = {} THEN Append(cells, [column |-> column, value |-> value])
        ELSE [cells EXCEPT ![CHOOSE i \in own : \A j \in own : i <= j].value = value]

MappedCells(mappings, row) ==
    [i \in DOMAIN mappings |->
        [column |-> columnOf(mappings[i].column), value |-> resolveCell(mappings[i], row)]]
Overridden(cells, overrides) ==
    LET done[n \in 0 .. Len(overrides)] ==
          IF n = 0 THEN cells
          ELSE IF columnByHeader(Lower(overrides[n].column)) = 0 THEN done[n - 1]
          ELSE SetCell(done[n - 1], columnByHeader(Lower(overrides[n].column)),
                       overrides[n].value)
    IN  done[Len(overrides)]

\* What the key column will hold, "" when nothing is written there.
KeyOf(cells, keyColumn) ==
    LET own == SelectSeq(cells, LAMBDA x : x.column = keyColumn)
    IN  IF own = <<>> THEN Empty ELSE Trim(own[1].value)

\* What is hashed: the cells by column, those of one column in their order.
ByColumn(cells) == [c \in Columns |-> SelectSeq(cells, LAMBDA x : x.column = c)]

\* Cell i comes before cell j when a row is sorted.
Prior(cells, i, j) ==
    cells[i].column < cells[j].column \/ (cells[i].column = cells[j].column /\ i < j)
\* Cell i does not follow the one before it without a gap.
Begins(cells, i) ==
    \A j \in DOMAIN cells : cells[j].column + 1 = cells[i].column =>
        \E m \in DOMAIN cells : Prior(cells, j, m) /\ Prior(cells, m, i)

\* Mutant: one range from the first cell to the last.
RangesAcrossGaps(cells) ==
    LET own(c) == {i \in DOMAIN cells : cells[i].column = c}
        used   == {cells[i].column : i \in DOMAIN cells}
        span   == {c \in Columns : \E a, b \in used : a <= c /\ c <= b}
    IN  {[at |-> <<1, 1>>,
          cells |-> {[column |-> c, value |-> IF own(c) = {} THEN Empty
                                              ELSE cells[LastOf(own(c))].value] : c \in span}]}

\* Maximal runs of adjacent columns, each with its place in the row.
buildRowRanges(cells) ==
    {[at |-> <<cells[i].column, i>>,
      cells |-> {cells[j] : j \in
          {x \in DOMAIN cells : /\ ~Prior(cells, x, i)
                                /\ ~\E m \in DOMAIN cells : /\ Begins(cells, m)
                                                            /\ Prior(cells, i, m)
                                                            /\ ~Prior(cells, x, m)}}] :
        i \in {x \in DOMAIN cells : Begins(cells, x)}}

-----------------------------------------------------------------------------
(* The rows of one order under a configuration [mappings, sets, rules,     *)
(* filter, perLineItem, key].  order is a stored order, [payload,          *)
(* tracking]: the shipment lookup fills the second.                        *)

WithShipment(order) ==
    IF order.payload.tracking # None \/ order.tracking = None THEN order.payload
    ELSE [order.payload EXCEPT !.tracking = order.tracking]

\* A saved mapping set that is gone leaves the default mappings.
MappingsFor(config, set) ==
    compileMappings(IF set # None /\ set \in DOMAIN config.sets THEN config.sets[set]
                    ELSE config.mappings)

RowWith(config, o, row, outcome, cells) ==
    [order |-> o, at |-> row.at, include |-> outcome.include, cells |-> cells,
     key |-> KeyOf(cells, columnOf(config.key))]

BuiltRow(config, o, row, outcome) ==
    RowWith(config, o, row, outcome,
            Overridden(MappedCells(MappingsFor(config, outcome.set), row), outcome.overrides))

\* With the rows that a rule leaves out, which planSync drops at once.
RowsOfPayload(config, o, p) ==
    LET rows == SelectSeq(expandOrderToRows(p, config.perLineItem),
                          LAMBDA r : config.perLineItem => skuMatches(r.sku, config.filter))
    IN  IF ~config.perLineItem /\ ~orderMatchesSkuFilter(p.items, config.filter) THEN <<>>
        ELSE [i \in DOMAIN rows |->
                BuiltRow(config, o, rows[i], EvaluateRules(config.rules, rows[i].at))]
RowsOfOrder(config, o, order) == RowsOfPayload(config, o, WithShipment(order))
=============================================================================
