------------------------------ MODULE Editors ------------------------------
(***************************************************************************)
(* The pages on which lists and forms are edited: MappingEditor with       *)
(* SavedConfigurations beside it, RulesEditor, FilterForm,                 *)
(* SheetOptionsForm, AutomationForm and the three PreferenceForms, over    *)
(* useApiAction, and the routes they call.  A page loads what is stored,   *)
(* keeps a copy, sends the whole copy, and is rendered again afterwards,   *)
(* which renews its props but not the copy.                                *)
(***************************************************************************)
EXTENDS Destination

CONSTANTS
    EditTabs,   \* the tabs that open these pages
    MaxPending  \* bound: requests of a page under way

VARIABLES
    editor,     \* the editor on a tab's page
    side        \* SavedConfigurations, which has a useApiAction of its own

editorVars == <<editor, side>>

Lists == {"mapping", "rules"}
Calls == {"none", "save", "automap"}
Stages == {"idle", "sent", "write", "ok", "failed"}

\* props: the initial rows of the last render; told: everything the server
\* has sent to or accepted from this page; stale: router.refresh is under way.
Editor == [kind: Kinds \cup {None}, props: Rows, rows: Rows, baseline: Rows,
           call: Calls, pc: Stages, sent: Rows, at: Places,
           found: Rows, stale: BOOLEAN, told: SUBSET Rows]

Closed == [kind |-> None, props |-> {}, rows |-> {}, baseline |-> {},
           call |-> "none", pc |-> "idle", sent |-> {}, at |-> None,
           found |-> {}, stale |-> FALSE, told |-> {}]

Side == [call: {"none", "keep", "apply", "delete"}, pc: Stages,
         at: Places, rows: Rows]

Quiet == [call |-> "none", pc |-> "idle", at |-> None, rows |-> {}]

EditorTypeOK ==
    /\ editor \in [EditTabs -> Editor]
    /\ side \in [EditTabs -> Side]

EditorInit ==
    /\ editor = [t \in EditTabs |-> Closed]
    /\ side = [t \in EditTabs |-> Quiet]

Set(t, e) == editor' = [editor EXCEPT ![t] = e]
Pending(t) == editor[t].pc # "idle"
IsList(t) == editor[t].kind \in Lists
MayAsk(t) == MaxPending > 1 \/ (~Pending(t) /\ side[t].pc = "idle")
Dirty(t) == editor[t].rows # editor[t].baseline

-----------------------------------------------------------------------------
(* The page.                                                               *)

\* What the page of that list or form loads.
PageData(k) == stored[k][Place(k)]

OpenEditor(t, k) ==
    LET now == PageData(k) IN
    /\ editor[t].kind = None /\ Placed(k)
    /\ Set(t, [Closed EXCEPT !.kind = k, !.props = now, !.rows = now,
                             !.baseline = now, !.told = {now}])
    /\ UNCHANGED <<serverVars, side>>

\* What was sent is served all the same; nobody reads the answer.
CloseEditor(t) ==
    /\ editor[t].kind # None
    /\ editor[t].pc \in {"idle", "ok", "failed"} /\ side[t].pc \in {"idle", "ok", "failed"}
    /\ Set(t, Closed) /\ side' = [side EXCEPT ![t] = Quiet]
    /\ UNCHANGED serverVars

\* A row is changed, moved, added or removed.
Retyped(t) ==
    /\ \E rows \in Rows \ {editor[t].rows} :
          Set(t, [editor[t] EXCEPT !.rows = rows])
    /\ UNCHANGED <<serverVars, side>>

\* The inputs of the lists stay enabled while a request is under way.
TypeMapping(t) == editor[t].kind = "mapping" /\ Retyped(t)
TypeRules(t)   == editor[t].kind = "rules" /\ Retyped(t)
TypeOptions(t) == editor[t].kind = "options" /\ Retyped(t)
TypeFilters(t) == editor[t].kind = "filters" /\ ~Pending(t) /\ Retyped(t)
TypeAutomation(t)  == editor[t].kind = "automation" /\ Retyped(t)
TypeProfile(t)     == editor[t].kind = "profile" /\ Retyped(t)
TypePreferences(t) == editor[t].kind = "preferences" /\ Retyped(t)
TypeSecurity(t)    == editor[t].kind = "security" /\ Retyped(t)

\* Back to the props of the last render.
Discard(t) ==
    /\ IsList(t) /\ Dirty(t) /\ ~Pending(t)
    /\ Set(t, [editor[t] EXCEPT !.rows = editor[t].props,
                                   !.baseline = editor[t].props])
    /\ UNCHANGED <<serverVars, side>>

Sent(t) ==
    /\ ~Pending(t) /\ MayAsk(t)
    /\ Set(t, [editor[t] EXCEPT !.call = "save", !.pc = "sent", !.sent = editor[t].rows])
    /\ UNCHANGED <<serverVars, side>>

SaveMapping(t) == editor[t].kind = "mapping" /\ Dirty(t) /\ Sent(t)
SaveRules(t)   == editor[t].kind = "rules" /\ Dirty(t) /\ Sent(t)
SaveOptions(t) == editor[t].kind = "options" /\ Sent(t)
SaveFilters(t) == editor[t].kind = "filters" /\ Sent(t)
SaveAutomation(t)  == editor[t].kind = "automation" /\ Sent(t)
SaveProfile(t)     == editor[t].kind = "profile" /\ Sent(t)
SavePreferences(t) == editor[t].kind = "preferences" /\ Sent(t)
SaveSecurity(t)    == editor[t].kind = "security" /\ Sent(t)

ClickAutoMap(t) ==
    /\ editor[t].kind = "mapping" /\ ~Pending(t) /\ MayAsk(t)
    /\ Set(t, [editor[t] EXCEPT !.call = "automap", !.pc = "sent"])
    /\ UNCHANGED <<serverVars, side>>

-----------------------------------------------------------------------------
(* The routes: what is read first, then the transaction.                   *)

Reach(t) ==
    LET e == editor[t] IN
    /\ e.pc = "sent"
    /\ \/ /\ Placed(e.kind) /\ ~(e.call = "save" /\ "bad" \in e.sent)
          /\ Set(t, [e EXCEPT !.pc = "write", !.at = Place(e.kind),
                              !.found = IF e.call = "automap" THEN PageData(e.kind) ELSE {}])
       \/ /\ ~Placed(e.kind) \/ (e.call = "save" /\ "bad" \in e.sent)
          /\ Set(t, [e EXCEPT !.pc = "failed"])
    /\ UNCHANGED <<serverVars, side>>

\* PUT replaces the list.
Replaced(k, b, rows) == [stored EXCEPT ![k][b] = rows]

\* The suggestions for columns that had no row when they were looked up are
\* added: a second row if there is one by now.
WithSuggestions(b, found) ==
    LET new == {"a"} \ found IN
    [stored EXCEPT !["mapping"][b] =
        @ \cup new \cup (IF new \cap @ # {} THEN {"bad"} ELSE {})]

Served(e, pc) == [e EXCEPT !.pc = pc, !.at = None, !.found = {}]

\* A failure after the commit is an answer that got lost.
Commit(t, rows) ==
    /\ editor[t].pc = "write"
    /\ \/ /\ stored' = rows
          /\ \E pc \in {"ok", "failed"} : Set(t, Served(editor[t], pc))
       \/ Set(t, Served(editor[t], "failed")) /\ UNCHANGED stored
    /\ UNCHANGED <<active, confirmed, saved, run, written, seen, side>>

Saves(t, k) == editor[t].kind = k /\ editor[t].call = "save"

PutMappings(t) ==
    Saves(t, "mapping") /\ Commit(t, Replaced("mapping", editor[t].at, editor[t].sent))
PutRules(t) ==
    Saves(t, "rules") /\ Commit(t, Replaced("rules", editor[t].at, editor[t].sent))
PutFilters(t) ==
    Saves(t, "filters") /\ Commit(t, Replaced("filters", editor[t].at, editor[t].sent))
PatchOptions(t) ==
    Saves(t, "options") /\ Commit(t, Replaced("options", editor[t].at, editor[t].sent))
PutAutomation(t) ==
    Saves(t, "automation") /\ Commit(t, Replaced("automation", editor[t].at, editor[t].sent))

\* The columns of User or the keys of UserPreference that were sent, one after
\* another; what differs is one of them.
PutSettings(t) ==
    \E k \in {"profile", "preferences", "security"} \cap Kinds :
        Saves(t, k) /\ Commit(t, Replaced(k, editor[t].at, editor[t].sent))

PostMappings(t) ==
    /\ editor[t].call = "automap"
    /\ Commit(t, WithSuggestions(editor[t].at, editor[t].found))

\* Mutant: the baseline is what the page shows when the answer arrives.
AcknowledgedLate(e) == e.rows

\* The baseline of a saved list is what was sent.
Acknowledged(e) == e.sent

\* The answer, or its loss, which looks like a failure.
TakeAnswer(t) ==
    LET e == [editor[t] EXCEPT !.pc = "idle", !.call = "none", !.sent = {}] IN
    /\ editor[t].pc \in {"ok", "failed"}
    /\ Set(t, IF editor[t].pc = "failed" THEN e
              ELSE IF editor[t].call = "automap" THEN [e EXCEPT !.stale = TRUE]
              ELSE [e EXCEPT !.stale = TRUE, !.told = @ \cup {editor[t].sent},
                             !.baseline = Acknowledged(editor[t])])
    /\ UNCHANGED <<serverVars, side>>

\* The server components are rendered again; useState keeps its value.
Refreshed(t) ==
    LET e == editor[t]  now == PageData(e.kind) IN
    /\ e.stale /\ Placed(e.kind)
    /\ Set(t, [e EXCEPT !.stale = FALSE, !.props = now, !.told = @ \cup {now}])
    /\ UNCHANGED <<serverVars, side>>

-----------------------------------------------------------------------------
(* Saved configurations: keep the current set, apply it, delete it.        *)

ClickSide(t, call) ==
    /\ editor[t].kind = "mapping" /\ side[t].pc = "idle" /\ MayAsk(t)
    /\ call \in {"apply", "delete"} => saved # None
    /\ side' = [side EXCEPT ![t] = [Quiet EXCEPT !.call = call, !.pc = "sent"]]
    /\ UNCHANGED <<serverVars, editor>>

ReachSide(t) ==
    LET s == side[t]
        refused == (s.call # "delete" /\ active = None)
                   \/ (s.call # "keep" /\ saved = None)
    IN
    /\ s.pc = "sent"
    /\ side' = [side EXCEPT ![t] =
         IF refused THEN [s EXCEPT !.pc = "failed"]
         ELSE [s EXCEPT !.pc = "write", !.at = active,
                        !.rows = CASE s.call = "keep" -> stored["mapping"][active]
                                   [] s.call = "apply" -> saved
                                   [] OTHER -> {}]]
    /\ UNCHANGED <<serverVars, editor>>

CommitSide(t) ==
    LET s == side[t] IN
    /\ s.pc = "write"
    /\ saved' = CASE s.call = "keep" -> s.rows
                  [] s.call = "apply" -> saved
                  [] OTHER -> None
    /\ stored' = IF s.call = "apply" THEN Replaced("mapping", s.at, s.rows) ELSE stored
    /\ \E pc \in {"ok", "failed"} : side' = [side EXCEPT ![t] = [Quiet EXCEPT !.pc = pc]]
    /\ UNCHANGED <<active, confirmed, run, written, seen, editor>>

AnswerSide(t) ==
    /\ side[t].pc \in {"ok", "failed"}
    /\ side' = [side EXCEPT ![t] = Quiet]
    /\ editor' = [editor EXCEPT ![t].stale = @ \/ side[t].pc = "ok"]
    /\ UNCHANGED serverVars

EditorServes(t) == Reach(t) \/ PutMappings(t) \/ PutRules(t) \/ PutFilters(t)
                   \/ PatchOptions(t) \/ PutAutomation(t) \/ PutSettings(t)
                   \/ PostMappings(t) \/ TakeAnswer(t) \/ Refreshed(t)
                   \/ ReachSide(t) \/ CommitSide(t) \/ AnswerSide(t)

\* k: the page that is opened.
EditorStep(t, k) ==
    \/ OpenEditor(t, k)
    \/ \E call \in {"keep", "apply", "delete"} : ClickSide(t, call)
    \/ CloseEditor(t) \/ TypeMapping(t) \/ TypeRules(t) \/ TypeFilters(t)
    \/ TypeOptions(t) \/ TypeAutomation(t) \/ TypeProfile(t)
    \/ TypePreferences(t) \/ TypeSecurity(t) \/ Discard(t) \/ ClickAutoMap(t)
    \/ SaveMapping(t) \/ SaveRules(t) \/ SaveFilters(t) \/ SaveOptions(t)
    \/ SaveAutomation(t) \/ SaveProfile(t) \/ SavePreferences(t) \/ SaveSecurity(t)
    \/ EditorServes(t)

-----------------------------------------------------------------------------
(* Properties.                                                             *)

\* A list without the badge "Unsaved changes" shows what the server has sent
\* or accepted: nothing typed while a save was under way counts as saved.
CleanMeansTold ==
    \A t \in EditTabs : IsList(t) /\ ~Dirty(t) => editor[t].rows \in editor[t].told

\* Does not hold: "Each column can only be mapped once" (PUT /api/mappings).
\* Two automatic mappings look up what exists before either adds its rows.
NoColumnTwice == \A b \in Books : "bad" \notin stored["mapping"][b]

\* Does not hold, with one tab and nobody else: the editor is told of the
\* suggestions ("Review and save") and goes on showing its own rows, and the
\* next save deletes what was added.  The form of the automation likewise:
\* its box stays ticked when the worker has turned the schedule off, and the
\* next save of any other field turns it on again.
CleanMeansStored ==
    \A t \in EditTabs :
        editor[t].kind # None /\ ~Dirty(t) /\ ~Pending(t) /\ ~editor[t].stale
        /\ side[t].pc = "idle"
          => editor[t].rows = PageData(editor[t].kind)
=============================================================================
