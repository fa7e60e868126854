----------------------------- MODULE MCRowSync -----------------------------
(***************************************************************************)
(* A small shop for RowSync: an order of two items, one of them without an *)
(* item id, and an order of one item that later is cancelled; a sheet with *)
(* a column of the user's between the mapped ones; and configurations that *)
(* differ in the rows per order, the key, the mode, the rules, the mapping *)
(* sets and the filters.                                                   *)
(***************************************************************************)
EXTENDS RowSync

CONSTANTS o1, o2

MCHeaders == <<<<"id">>, <<"note">>, <<"sku">>, <<"Sum">>>>
MCOrderList == <<o1, o2>>

Item(id, sku, title, qty) == [id |-> id, sku |-> sku, title |-> title, qty |-> qty]
Payload(id, market, payment, fulfillment, cancel, items) ==
    [orderId |-> id, market |-> market, payment |-> payment, fulfillment |-> fulfillment,
     cancel |-> cancel, total |-> 125, currency |-> <<"EUR">>, created |-> "mon9h",
     tracking |-> None, items |-> items]

TwoItems == <<Item(<<"i1">>, <<"ABC">>, <<"Abc", "&amp;", "newline", "Yes">>, 2),
              Item(None, <<"zero7">>, <<"paid">>, 1)>>
OneItem  == <<Item(<<"i3">>, None, <<"emoji", " ", "abc">>, 1)>>

MCContents ==
    (o1 :> {[payload |-> Payload(<<"A">>, "US", "PAID", "NOT_STARTED", "NONE", TwoItems),
             tracking |-> None],
            [payload |-> Payload(<<"A">>, "US", "PAID", "FULFILLED", "NONE", TwoItems),
             tracking |-> <<"track">>]}) @@
    (o2 :> {[payload |-> Payload(<<"B">>, None, "PENDING", "NOT_STARTED", "NONE", OneItem),
             tracking |-> None],
            [payload |-> Payload(<<"B">>, None, "FULLY_REFUNDED", "NOT_STARTED", "CANCELED", <<>>),
             tracking |-> None]})

NoArgs == <<>>
Map(column, source, trans, args) ==
    [column |-> column, source |-> source, trans |-> trans, args |-> args,
     fallback |-> <<"n/a">>, static |-> <<"fixed">>, enabled |-> TRUE]
Rule(match, conditions, action, column, value, set) ==
    [enabled |-> TRUE, match |-> match, conditions |-> conditions, action |-> action,
     column |-> column, value |-> value, set |-> set]
Cond(field, operator, value) == [field |-> field, operator |-> operator, value |-> value]

IsPaid     == Cond("order.paymentStatus", "equals", <<"paid">>)
IsShipped  == Cond("order.tracking", "is_not_empty", Empty)
HasSku     == Cond("lineItem.sku", "is_not_empty", Empty)
IsBig      == Cond("order.total", "greater_than", <<"100">>)

\* One row per order; two rules set the same column, one an unmapped one.
PerOrder ==
    [mappings |-> <<Map(<<"id">>, "order.orderId", "none", NoArgs),
                    Map(<<"sku">>, "computed.skus", "join_list", [separator |-> <<"/">>]),
                    Map(<<"sum">>, "order.total", "currency", NoArgs)>>,
     sets |-> <<>>, filter |-> NoFilter, perLineItem |-> FALSE, key |-> <<"id">>,
     modes |-> {"APPEND_UPDATE"},
     rules |-> <<Rule("ALL", {IsPaid, IsBig}, "SET_VALUE", <<"sum">>, <<"big">>, None),
                 Rule("ANY", {IsShipped}, "SET_VALUE", <<"sum">>, <<"sent">>, None),
                 Rule("ANY", {IsShipped}, "SET_VALUE", <<"note">>, <<"sent">>, None)>>]

\* One row per item, keyed by the row key with a blank after it; items
\* without a SKU are left out and shipped ones use another mapping set.
PerItem ==
    [mappings |-> <<Map(<<"id">>, "computed.rowKey", "suffix", [text |-> Space]),
                    Map(<<"sku">>, "lineItem.sku", "lowercase", NoArgs),
                    Map(<<"sum">>, "lineItem.title", "text_cleanup", NoArgs)>>,
     sets |-> [brief |-> <<Map(<<"id">>, "computed.rowKey", "trim", NoArgs),
                           Map(<<"sku">>, "order.tracking", "prefix", [text |-> <<"DHL">>])>>],
     filter |-> [NoFilter EXCEPT !.marketplaces = {"US", "DE"}, !.orderStates = {"PAID", "CANCELLED"}],
     perLineItem |-> TRUE, key |-> <<"id">>, modes |-> Modes,
     rules |-> <<Rule("ALL", {IsShipped}, "USE_MAPPING_SET", Empty, Empty, "brief"),
                 Rule("ALL", {Cond("computed.itemCount", "less_than", <<"1">>)}, "EXCLUDE",
                      Empty, Empty, None)>>]

\* One row per item with the order id as the key, and a SKU filter; headers
\* are spelled in other cases, and three rules spell one of them in two.
SameKey ==
    [mappings |-> <<Map(<<"Id">>, "order.orderId", "none", NoArgs),
                    Map(<<"Sku">>, "lineItem.sku", "default_if_empty", [value |-> <<"none">>]),
                    Map(<<"sum">>, "lineItem.quantity", "number_format", [decimals |-> 0])>>,
     sets |-> <<>>, perLineItem |-> TRUE, key |-> <<"Id">>, modes |-> {"APPEND_UPDATE"},
     filter |-> [NoFilter EXCEPT !.skuMode = "EXCLUDE", !.skuValues = {<<"zero">>}],
     rules |-> <<Rule("ANY", {HasSku}, "INCLUDE_ONLY", Empty, Empty, None),
                 Rule("ANY", {IsShipped}, "SET_VALUE", <<"Sum">>, <<"one">>, None),
                 Rule("ANY", {IsShipped}, "SET_VALUE", <<" ", "sum">>, <<"two">>, None),
                 Rule("ANY", {IsShipped}, "SET_VALUE", <<"Sum", " ">>, <<"three">>, None)>>]

MCConfigs == {PerOrder, PerItem, SameKey}
MCRowTable ==
    [k \in MCConfigs |-> [o \in {o1, o2} |->
        [content \in MCContents[o] |-> RowsOfOrder(k, o, content)]]]

\* The table has what an import may store. (TLC also puts these records into
\* their normal form here, before its workers share them.)
ASSUME TableAssumption ==
    \A k \in Configs, o \in Orders :
        \A content \in Contents[o] : content \in DOMAIN RowTable[k][o]

\* The shop is one of those the theorems are about.
ASSUME ShopAssumption ==
    OneKeyColumn /\ KeysAreShown /\ KeysKeepApart
=============================================================================
