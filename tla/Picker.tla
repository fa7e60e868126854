------------------------------- MODULE Picker -------------------------------
(***************************************************************************)
(* SpreadsheetPicker: a list of books to search, the worksheets of the one *)
(* that is chosen, and the button that makes it the destination.  Answers  *)
(* may arrive in any order.  A book is searched for by asking again, and a *)
(* book has one worksheet that is called like it.                          *)
(***************************************************************************)
EXTENDS Destination, FiniteSets

CONSTANTS
    PickTabs,   \* the tabs that open this page
    MaxAsks     \* bound: list requests, and worksheet requests under way

ASSUME PickerAssumption == MaxAsks \in Nat \ {0}

VARIABLE picker

Asks == 1 .. MaxAsks

\* lists: list requests under way; latest: listRequestId; shown: the request
\* whose answer is on the page; loads: worksheet requests under way;
\* worksheetsFor: whose worksheets were listed last; title: the worksheet
\* selected, by its book.
Page == [open: BOOLEAN, lists: SUBSET Asks, latest: 0 .. MaxAsks,
         shown: 0 .. MaxAsks, loading: BOOLEAN,
         selected: Books \cup {None}, loads: SUBSET (Asks \X Books),
         worksheetsFor: Books \cup {None}, title: Books \cup {None},
         pending: {"no", "sent", "reading", "switching"}, wanted: Books \cup {None}]

NoPage == [open |-> FALSE, lists |-> {}, latest |-> 0, shown |-> 0,
           loading |-> FALSE, selected |-> None, loads |-> {},
           worksheetsFor |-> None, title |-> None, pending |-> "no", wanted |-> None]

PickerTypeOK == picker \in [PickTabs -> Page]
PickerInit == picker = [t \in PickTabs |-> NoPage]

Show(t, p) == picker' = [picker EXCEPT ![t] = p]

-----------------------------------------------------------------------------
(* The list.                                                               *)

\* Another answer is awaited from here on.
AskedList(p) ==
    [p EXCEPT !.latest = @ + 1, !.lists = @ \cup {p.latest + 1}, !.loading = TRUE]

LoadSpreadsheets(t) ==
    LET p == picker[t] IN
    /\ p.open /\ p.latest < MaxAsks
    /\ Show(t, AskedList(p))
    /\ UNCHANGED serverVars

\* Mutant: every answer is shown.
CurrentAny(p, n) == TRUE

\* "A stale response must not overwrite a newer one."
Current(p, n) == n = p.latest

ListAnswers(t, n) ==
    LET p == picker[t] IN
    /\ n \in p.lists
    /\ Show(t, IF Current(p, n)
               THEN [p EXCEPT !.lists = @ \ {n}, !.loading = FALSE, !.shown = n]
               ELSE [p EXCEPT !.lists = @ \ {n}])
    /\ UNCHANGED serverVars

-----------------------------------------------------------------------------
(* The worksheets.                                                         *)

FreeAsks(p) == {n \in Asks : \A b \in Books : <<n, b>> \notin p.loads}

LoadWorksheets(p, b) ==
    {[p EXCEPT !.loads = @ \cup {<<n, b>>}] : n \in FreeAsks(p)}

OpenPicker(t) ==
    LET p == AskedList([NoPage EXCEPT !.open = TRUE, !.selected = active, !.title = active])
    IN
    /\ ~picker[t].open
    /\ IF active = None THEN Show(t, p)
       ELSE \E q \in LoadWorksheets(p, active) : Show(t, q)
    /\ UNCHANGED serverVars

ChooseSpreadsheet(t, b) ==
    /\ picker[t].open
    /\ \E q \in LoadWorksheets([picker[t] EXCEPT !.selected = b, !.title = None], b) :
          Show(t, q)
    /\ UNCHANGED serverVars

\* A title that the new list has is kept, otherwise its first is taken.  After
\* a failure there is nothing to select.
WorksheetsAnswer(t, n, b) ==
    LET p == [picker[t] EXCEPT !.loads = @ \ {<<n, b>>}] IN
    /\ <<n, b>> \in picker[t].loads
    /\ \/ Show(t, [p EXCEPT !.worksheetsFor = b, !.title = b])
       \/ Show(t, p)
    /\ UNCHANGED serverVars

-----------------------------------------------------------------------------
(* Saving.                                                                 *)

\* Mutant: without worksheetsFor === selectedId.
CanSaveAnyway(p) == p.open /\ p.selected # None /\ p.title # None /\ p.pending = "no"

CanSave(p) ==
    /\ p.open /\ p.selected # None /\ p.title # None
    /\ p.worksheetsFor = p.selected
    /\ p.pending = "no"

ClickSelect(t) ==
    /\ CanSave(picker[t])
    /\ Show(t, [picker[t] EXCEPT !.pending = "sent", !.wanted = picker[t].selected])
    /\ UNCHANGED serverVars

\* POST /api/sheet-config: the connection, the header row from Google, the
\* switch and the columns; each may fail.
ReadHeaders(t) ==
    /\ picker[t].pending = "sent"
    /\ \E next \in {"switching", "no"} : Show(t, [picker[t] EXCEPT !.pending = next])
    /\ UNCHANGED serverVars

Switch(t) ==
    /\ picker[t].pending = "switching"
    /\ Show(t, [picker[t] EXCEPT !.pending = "no", !.wanted = None])
    /\ Select(picker[t].wanted)

\* The page rendered again has a new currentSpreadsheetId, whose worksheets
\* are loaded whatever is selected.
PickerRefreshed(t) ==
    /\ picker[t].open /\ active # None /\ picker[t].pending = "no"
    /\ \E q \in LoadWorksheets(picker[t], active) : Show(t, q)
    /\ UNCHANGED serverVars

ClosePicker(t) ==
    /\ picker[t].open /\ picker[t].pending = "no"
    /\ Show(t, NoPage)
    /\ UNCHANGED serverVars

PickerServes(t) ==
    \/ \E n \in Asks : ListAnswers(t, n)
    \/ \E n \in Asks, b \in Books : WorksheetsAnswer(t, n, b)
    \/ ReadHeaders(t) \/ Switch(t)

PickerStep(t) ==
    \/ OpenPicker(t) \/ LoadSpreadsheets(t) \/ ClickSelect(t)
    \/ PickerRefreshed(t) \/ ClosePicker(t) \/ PickerServes(t)
    \/ \E b \in Books : ChooseSpreadsheet(t, b)

-----------------------------------------------------------------------------
(* Properties.                                                             *)

\* What can be saved is a worksheet of the book that is selected, in whatever
\* order the answers for earlier choices arrive.
PickedTabExists ==
    \A t \in PickTabs : CanSave(picker[t]) => picker[t].title = picker[t].selected

\* A list that is not loading answers the last question.
ListIsLatest ==
    \A t \in PickTabs :
        picker[t].open /\ ~picker[t].loading => picker[t].shown = picker[t].latest
=============================================================================
