------------------------------ MODULE Filters ------------------------------
(***************************************************************************)
(* What an imported order becomes in the database                          *)
(* (src/lib/ebay/normalize.ts) and which orders a sync looks at            *)
(* (src/lib/sync/filters.ts).                                              *)
(*                                                                         *)
(* A payload is a record with the members orderId, market, payment,        *)
(* fulfillment, cancel, total, currency, created, tracking and items, a    *)
(* sequence of [id, sku, title, qty].  A member eBay left out is None.     *)
(* The lists of a filter are the sets of their tokens.                     *)
(***************************************************************************)
EXTENDS Texts, FiniteSets

CONSTANT None

-----------------------------------------------------------------------------
(* normalizeOrder.                                                         *)

deriveOrderStatus(p) ==
    CASE p.cancel = "CANCELED"           -> "CANCELLED"
      [] p.payment = "FULLY_REFUNDED"    -> "REFUNDED"
      [] p.fulfillment = "FULFILLED"     -> "COMPLETED"
      [] OTHER                           -> "ACTIVE"

\* The columns of ImportedOrder that a filter reads.  The marketplace of
\* the connection stands in for one that is not in the payload.
Normalized(p, defaultMarket) ==
    [orderStatus       |-> deriveOrderStatus(p),
     paymentStatus     |-> p.payment,
     fulfillmentStatus |-> p.fulfillment,
     marketplaceId     |-> IF p.market = None THEN defaultMarket ELSE p.market]

-----------------------------------------------------------------------------
(* buildOrderWhere, without its dates.                                     *)

OrderStates == [PAID             |-> [column |-> "paymentStatus", in |-> {"PAID"}],
                AWAITING_PAYMENT |-> [column |-> "paymentStatus", in |-> {"PENDING", "FAILED"}],
                SHIPPED          |-> [column |-> "fulfillmentStatus", in |-> {"FULFILLED"}],
                COMPLETED        |-> [column |-> "orderStatus", in |-> {"COMPLETED"}],
                CANCELLED        |-> [column |-> "orderStatus", in |-> {"CANCELLED", "REFUNDED"}]]

\* A status eBay never reported counts as unfulfilled.
FulfillmentStates ==
    [UNFULFILLED         |-> [column |-> "fulfillmentStatus", in |-> {"NOT_STARTED", None}],
     PARTIALLY_FULFILLED |-> [column |-> "fulfillmentStatus", in |-> {"IN_PROGRESS"}],
     FULFILLED           |-> [column |-> "fulfillmentStatus", in |-> {"FULFILLED"}]]

\* The tokens somebody knows are OR-ed; none of those is no restriction.
AnyOf(tokens, conditions, columns) ==
    LET known == tokens \cap DOMAIN conditions
    IN  known = {} \/ \E k \in known : columns[conditions[k].column] \in conditions[k].in

InFilter(columns, f) ==
    /\ AnyOf(f.orderStates, OrderStates, columns)
    /\ AnyOf(f.fulfillmentStates, FulfillmentStates, columns)
    /\ f.marketplaces # {} => columns.marketplaceId \in f.marketplaces

NoFilter == [orderStates |-> {}, fulfillmentStates |-> {}, marketplaces |-> {},
             skuMode |-> "ALL", skuValues |-> {}, skuCaseSensitive |-> FALSE]

-----------------------------------------------------------------------------
(* The SKU filter.                                                         *)

Unrestricted(f) == f.skuMode = "ALL" \/ f.skuValues = {}

SkuText(sku) == IF sku = None THEN Empty ELSE sku

\* A missing SKU is the empty one: dropped by INCLUDE, kept by EXCLUDE.
skuMatches(sku, f) ==
    LET normalise(t) == IF f.skuCaseSensitive THEN t ELSE Lower(t)
        candidate == normalise(SkuText(sku))
        values    == {normalise(t) : t \in f.skuValues}
    IN  \/ Unrestricted(f)
        \/ CASE f.skuMode = "INCLUDE"     -> candidate \in values
             [] f.skuMode = "EXCLUDE"     -> candidate \notin values
             [] f.skuMode = "CONTAINS"    -> \E t \in values : Has(candidate, t)
             [] f.skuMode = "STARTS_WITH" -> \E t \in values : IsPrefix(t, candidate)
             [] f.skuMode = "ENDS_WITH"   -> \E t \in values : IsSuffix(t, candidate)
             [] OTHER                     -> TRUE

\* One row per order: any of its items is enough, for EXCLUDE as well.
orderMatchesSkuFilter(items, f) ==
    \/ Unrestricted(f)
    \/ items = <<>> /\ skuMatches(None, f)
    \/ \E i \in DOMAIN items : skuMatches(items[i].sku, f)
=============================================================================
