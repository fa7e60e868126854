----------------------------- MODULE OrderFetch -----------------------------
(***************************************************************************)
(* An import: the page walk of fetchOrders (src/lib/ebay/orders.ts), the   *)
(* storing of what it found and the shipment lookups of importOrders       *)
(* (src/lib/ebay/import-orders.ts), each request of which goes through     *)
(* ApiClient beside the requests of other callers.                         *)
(*                                                                         *)
(* The result set is eBay's list of orders for the window.  It may shift   *)
(* while it is read a page at a time.                                      *)
(***************************************************************************)
EXTENDS ApiClient, Sequences, SequencesExt

CONSTANTS
    Importer,     \* the caller that imports; the others make one request
    Orders,       \* eBay's orders
    Unusable,     \* those that normalizeOrder gives up
    Shipped,      \* those that have shipments to read
    InitialLists, \* the result sets a walk may begin with
    PageSize, MaxPages,
    Limits,       \* the maxOrders a caller may ask for; 0: none
    Budget,       \* DEFAULT_FULFILLMENT_BUDGET
    Shifts        \* bound: how often the set shifts during a walk

ASSUME OrderFetchAssumption ==
    /\ Importer \in Callers
    /\ Unusable \subseteq Orders /\ Shipped \subseteq Orders
    /\ PageSize \in Nat \ {0} /\ MaxPages \in Nat \ {0}
    /\ InitialLists \subseteq Seq(Orders) /\ \A s \in InitialLists : IsInjective(s)
    /\ Limits \subseteq Nat /\ Budget \in Nat /\ Shifts \in Nat

VARIABLES
    list,      \* the result set, in eBay's order
    shifts,    \* how often it has shifted
    walk,      \* the import
    stored     \* the orders it has stored

importVars == <<list, shifts, walk, stored>>
vars == <<clientVars, importVars>>

Totals == 0 .. Cardinality(Orders)

\* limit: maxOrders; pages, offset, total, truncated: as in fetchOrders, total
\* -1 while eBay reports none; ships: the shipped orders still to look up;
\* errors: whether any were counted.  For the properties, there: the orders
\* that were in the set when the walk began; left: whether one left it since;
\* read: the orders whose shipments were read.
Walk == [pc: {"idle", "page", "store", "ships", "done"},
         limit: Limits, pages: 0 .. MaxPages, offset: Nat,
         got: Seq(Orders), total: Totals \cup {-1}, truncated: BOOLEAN,
         there: SUBSET Orders, left: BOOLEAN, read: SUBSET Orders,
         ships: Seq(Orders), errors: BOOLEAN,
         status: {"NONE", "SUCCESS", "PARTIAL", "FAILED"}]

NoWalk == [pc |-> "idle", limit |-> 0, pages |-> 0, offset |-> 0, got |-> <<>>,
           total |-> 0 - 1, truncated |-> FALSE, there |-> {}, left |-> FALSE,
           read |-> {}, ships |-> <<>>, errors |-> FALSE, status |-> "NONE"]

TypeOK ==
    /\ ClientTypeOK
    /\ list \in Seq(Orders) /\ shifts \in 0 .. Shifts
    /\ walk \in Walk
    /\ stored \subseteq Orders

Init ==
    /\ ClientInit
    /\ list \in InitialLists
    /\ shifts = 0
    /\ walk = NoWalk
    /\ stored = {}

-----------------------------------------------------------------------------
(* eBay.                                                                   *)

\* An order that belongs to the window is indexed late, anywhere in the set.
Appears ==
    /\ walk.pc = "page" /\ shifts < Shifts
    /\ \E o \in Orders \ ToSet(list), i \in 1 .. Len(list) + 1 :
          list' = InsertAt(list, i, o)
    /\ shifts' = shifts + 1
    /\ UNCHANGED <<clientVars, walk, stored>>

\* An order is modified: its date is now past the end of the window.
Leaves ==
    /\ walk.pc = "page" /\ shifts < Shifts
    /\ \E i \in 1 .. Len(list) :
          /\ list' = RemoveAt(list, i)
          /\ walk' = [walk EXCEPT !.there = @ \ {list[i]}, !.left = TRUE]
    /\ shifts' = shifts + 1
    /\ UNCHANGED <<clientVars, stored>>

-----------------------------------------------------------------------------
(* fetchOrders.                                                            *)

StartWalk ==
    /\ walk.pc = "idle"
    /\ \E n \in Limits :
          walk' = [NoWalk EXCEPT !.pc = "page", !.limit = n,
                                 !.there = ToSet(list) \ Unusable]
    /\ UNCHANGED <<clientVars, list, shifts, stored>>

Page(s, offset) == SubSeq(s, offset + 1, Least(offset + PageSize, Len(s)))

\* The orders of s that are in T, in their order: SelectSeq, written as a
\* function so that it can be reasoned about.
Kept(s, T) ==
    LET upTo[i \in 0 .. Len(s)] ==
          IF i = 0 THEN <<>>
          ELSE IF s[i] \in T THEN Append(upTo[i - 1], s[i]) ELSE upTo[i - 1]
    IN  upTo[Len(s)]

\* What a page adds: no order twice, none without an id.
Merged(got, page) == got \o Kept(page, Orders \ (ToSet(got) \cup Unusable))

\* Mutant: a page with an order that was seen before counts as a short one.
ShortIfRepeated(got, page) ==
    Len(Merged(got, page)) < Len(got) + PageSize

\* A short page means the end of the set.
Short(got, page) == Len(page) < PageSize

\* Whether orders that were collected are dropped for maxOrders.
Cut(got, limit) == Len(got) > limit

\* eBay reports the size of the set with every page, or with none.
Reported == (IF walk.pages = 0 \/ walk.total >= 0 THEN {Len(list)} ELSE {})
            \cup (IF walk.total < 0 THEN {walk.total} ELSE {})

\* The page that a request brought is taken in, and the walk goes on or ends.
TakePage ==
    /\ walk.pc = "page" /\ rq[Importer].pc = "ok"
    /\ \E total \in Reported :
          LET page  == Page(list, walk.offset)
              got   == Merged(walk.got, page)
              next  == walk.offset + PageSize
              full  == walk.limit > 0 /\ Len(got) >= walk.limit
              ended == \/ Short(walk.got, page)
                       \/ total >= 0 /\ next >= total
              spent == walk.pages + 1 >= MaxPages
          IN  walk' = [walk EXCEPT
                 !.pages = @ + 1,
                 !.total = total,
                 !.got   = IF full THEN SubSeq(got, 1, Least(Len(got), walk.limit))
                                   ELSE got,
                 !.truncated = IF full THEN Cut(got, walk.limit)
                                       ELSE ~ended /\ spent,
                 !.offset = IF full \/ ended THEN @ ELSE next,
                 !.pc     = IF full \/ ended \/ spent THEN "store" ELSE "page"]
    /\ Take(Importer)
    /\ UNCHANGED <<list, shifts, stored>>

\* A page that cannot be had, or is no object, ends the import; what was
\* collected is dropped.
LosePage ==
    /\ walk.pc = "page" /\ rq[Importer].pc \in {"ok", "failed"}
    /\ walk' = [walk EXCEPT !.pc = "done", !.status = "FAILED"]
    /\ Take(Importer)
    /\ UNCHANGED <<list, shifts, stored>>

-----------------------------------------------------------------------------
(* importOrders, after the walk.                                           *)

\* Every order that was fetched is stored, or counted as an error; the first
\* Budget of the shipped ones that were stored are looked up.
StoreAll ==
    /\ walk.pc = "store"
    /\ \E bad \in SUBSET ToSet(walk.got) :
          LET good  == Kept(walk.got, Orders \ bad)
              ships == Kept(good, Shipped)
          IN  /\ stored' = ToSet(good)
              /\ walk' = [NoWalk EXCEPT
                    !.pc = "ships", !.got = walk.got, !.errors = bad # {},
                    !.ships = SubSeq(ships, 1, Least(Len(ships), Budget))]
    /\ UNCHANGED <<clientVars, list, shifts>>

\* The next lookup, made when there is one left.
Lookup ==
    /\ walk.pc = "ships" /\ walk.ships # <<>> /\ rq[Importer].pc = "ok"
    /\ walk' = [walk EXCEPT !.ships = Tail(@), !.read = @ \cup {Head(walk.ships)}]
    /\ Take(Importer)
    /\ UNCHANGED <<list, shifts, stored>>

\* Mutant: an order whose shipments could not be read is not counted.
LookupLostUncounted ==
    /\ walk.pc = "ships" /\ walk.ships # <<>> /\ rq[Importer].pc = "failed"
    /\ \E rest \in {Tail(walk.ships), <<>>} :
          walk' = [walk EXCEPT !.ships = rest]
    /\ Take(Importer)
    /\ UNCHANGED <<list, shifts, stored>>

\* One that fails is an error, and a rate limit ends the lookups.
LookupLost ==
    /\ walk.pc = "ships" /\ walk.ships # <<>> /\ rq[Importer].pc = "failed"
    /\ \E rest \in {Tail(walk.ships), <<>>} :
          walk' = [walk EXCEPT !.ships = rest, !.errors = TRUE]
    /\ Take(Importer)
    /\ UNCHANGED <<list, shifts, stored>>

FinishImport ==
    /\ walk.pc = "ships" /\ walk.ships = <<>>
    /\ walk' = [walk EXCEPT !.pc = "done",
                            !.status = IF walk.errors THEN "PARTIAL" ELSE "SUCCESS"]
    /\ UNCHANGED <<clientVars, list, shifts, stored>>

\* The importer's next request, when the import wants one.
Asks == walk.pc = "page" \/ (walk.pc = "ships" /\ walk.ships # <<>>)

ClientStep ==
    /\ \/ \E p \in Callers : Goes(p)
       \/ Asks /\ Begin(Importer)
       \/ \E p \in Callers \ {Importer} : Begin(p) \/ Take(p)
       \/ Tick
    /\ UNCHANGED importVars

ImportStep == \/ StartWalk \/ TakePage \/ LosePage
              \/ StoreAll \/ Lookup \/ LookupLost \/ FinishImport

Next == ClientStep \/ ImportStep \/ Appears \/ Leaves

Spec == Init /\ [][Next]_vars

\* Time passes, requests are answered or time out, handlers run on.
Fairness ==
    /\ WF_vars(Tick /\ UNCHANGED importVars)
    /\ \A p \in Callers : WF_vars(Goes(p) /\ UNCHANGED importVars)
    /\ WF_vars(ImportStep \/ (Asks /\ Begin(Importer) /\ UNCHANGED importVars))

FairSpec == Spec /\ Fairness

-----------------------------------------------------------------------------
(* Properties.                                                             *)

\* "truncated: True when a guard stopped the walk before eBay ran out of
\* pages" (src/lib/ebay/orders.ts:58): otherwise the walk has found every
\* order that can be imported, also when orders that are indexed late push
\* others from one page to the next.  Violated by the walk that ends at
\* exactly maxOrders orders.
TruncationReported ==
    walk.pc = "store" /\ ~walk.left /\ ~walk.truncated
       => walk.there \subseteq ToSet(walk.got)

\* The same but for that case.
FetchComplete ==
    (walk.limit = 0 \/ Len(walk.got) # walk.limit) => TruncationReported

\* Does not hold: an order that leaves the set moves the others up, and the
\* first of the next page is never read.
FetchCompleteWhateverLeaves ==
    walk.pc = "store" /\ walk.limit = 0 /\ ~walk.truncated
       => walk.there \subseteq ToSet(walk.got)

\* An import that reports SUCCESS stored every order it fetched and read the
\* shipments of as many of them as the budget allows.
SuccessIsComplete ==
    walk.status = "SUCCESS" =>
       LET ships == Kept(walk.got, Shipped) IN
       /\ stored = ToSet(walk.got)
       /\ walk.read = ToSet(SubSeq(ships, 1, Least(Len(ships), Budget)))

\* Retries are counted, the queue of requests moves on and the pages of a
\* walk are bounded: an import ends, whatever eBay answers.
ImportEnds == walk.pc = "page" ~> walk.pc = "done"
=============================================================================
