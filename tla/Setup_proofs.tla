---------------------------- MODULE Setup_proofs ----------------------------
(***************************************************************************)
(* The pages over the state they share, for any number of tabs, books and  *)
(* runs: what a page shows and what the server has, though other tabs, the *)
(* worker and late answers change either meanwhile.                        *)
(***************************************************************************)
EXTENDS Setup, TLAPS

-----------------------------------------------------------------------------
(* The lists and forms.                                                    *)

\* The baseline of a page that is open, and the rows it falls back to, have
\* been sent or accepted by the server; one that is closed waits for nothing.
Told(e) == e.kind # None /\ e.baseline \in e.told /\ e.props \in e.told

ToldInv ==
    \A t \in EditTabs :
        \/ Told(editor[t])
        \/ /\ editor[t].kind = None /\ editor[t].pc = "idle" /\ ~editor[t].stale
           /\ side[t].pc = "idle"

EditInv == EditorTypeOK /\ ToldInv

LEMMA PlaceTypes ==
    ASSUME ServerTypeOK, NEW k \in Kinds
    PROVE  Place(k) \in Places /\ PageData(k) \in Rows
BY DEF ServerTypeOK, Place, Places, PageData

LEMMA AtWork ==
    ASSUME EditInv, NEW t \in EditTabs,
           editor[t].kind # None \/ editor[t].pc # "idle" \/ editor[t].stale
              \/ side[t].pc # "idle"
    PROVE  editor[t] \in Editor /\ Told(editor[t]) /\ editor[t].kind \in Kinds
<1>1. editor[t] \in Editor /\ Told(editor[t])
  BY DEF EditInv, EditorTypeOK, ToldInv, Told
<1> QED
  BY <1>1 DEF Editor, Told

LEMMA EditorSet ==
    ASSUME EditInv, NEW t \in EditTabs, NEW e \in Editor, Told(e), Set(t, e),
           side' = side
    PROVE  EditInv'
BY DEF EditInv, EditorTypeOK, ToldInv, Told, Set

\* The page changes its rows, or drops or sends them.
LEMMA RetypedInv ==
    ASSUME EditInv, NEW t \in EditTabs, editor[t].kind # None, Retyped(t)
    PROVE  EditInv'
<1>1. PICK rows \in Rows : Set(t, [editor[t] EXCEPT !.rows = rows]) /\ side' = side
  BY DEF Retyped
<1> DEFINE e == [editor[t] EXCEPT !.rows = rows]
<1>2. e \in Editor /\ Told(e)
  BY AtWork DEF Editor, Told
<1> QED
  BY <1>1, <1>2, EditorSet

LEMMA SentInv ==
    ASSUME EditInv, NEW t \in EditTabs, editor[t].kind # None, Sent(t)
    PROVE  EditInv'
<1> DEFINE e == [editor[t] EXCEPT !.call = "save", !.pc = "sent",
                                  !.sent = editor[t].rows]
<1>1. e \in Editor /\ Told(e)
  BY AtWork DEF Editor, Told, Calls, Stages
<1> QED
  BY <1>1, EditorSet DEF Sent

LEMMA DiscardInv ==
    ASSUME EditInv, NEW t \in EditTabs, editor[t].kind # None, Discard(t)
    PROVE  EditInv'
<1> DEFINE e == [editor[t] EXCEPT !.rows = editor[t].props,
                                  !.baseline = editor[t].props]
<1>1. e \in Editor /\ Told(e)
  BY AtWork DEF Editor, Told
<1> QED
  BY <1>1, EditorSet DEF Discard

LEMMA ClickAutoMapInv ==
    ASSUME EditInv, NEW t \in EditTabs, editor[t].kind # None, ClickAutoMap(t)
    PROVE  EditInv'
<1> DEFINE e == [editor[t] EXCEPT !.call = "automap", !.pc = "sent"]
<1>1. e \in Editor /\ Told(e)
  BY AtWork DEF Editor, Told, Calls, Stages
<1> QED
  BY <1>1, EditorSet DEF ClickAutoMap

LEMMA OpenEditorInv ==
    ASSUME ServerTypeOK, EditInv, NEW t \in EditTabs, NEW k \in Kinds, OpenEditor(t, k)
    PROVE  EditInv'
<1> DEFINE now == PageData(k)
           e == [Closed EXCEPT !.kind = k, !.props = now, !.rows = now,
                               !.baseline = now, !.told = {now}]
<1>1. now \in Rows /\ k # None
  BY PlaceTypes, DestinationAssumption
<1> HIDE DEF now
<1>2. e \in Editor /\ Told(e)
  BY <1>1 DEF Closed, Editor, Told, Calls, Stages, Rows, Places
<1> QED
  BY <1>2, EditorSet DEF OpenEditor, now

LEMMA CloseEditorInv ==
    ASSUME EditInv, NEW t \in EditTabs, CloseEditor(t) PROVE EditInv'
<1>1. /\ Closed \in Editor /\ Closed.kind = None /\ Closed.pc = "idle"
      /\ ~Closed.stale /\ Quiet \in Side /\ Quiet.pc = "idle"
  BY DEF Closed, Quiet, Editor, Side, Calls, Stages, Rows, Places
<1> QED
  BY <1>1 DEF CloseEditor, Set, EditInv, EditorTypeOK, ToldInv, Told

\* The routes: a save may be refused, lost before the commit or after it.
LEMMA ReachInv ==
    ASSUME ServerTypeOK, EditInv, NEW t \in EditTabs, Reach(t)
    PROVE  EditInv'
<1> DEFINE e == editor[t]
           at == Place(e.kind)
           found == IF e.call = "automap" THEN PageData(e.kind) ELSE {}
           passed == [e EXCEPT !.pc = "write", !.at = at, !.found = found]
           refused == [e EXCEPT !.pc = "failed"]
<1>1. e \in Editor /\ Told(e) /\ e.kind \in Kinds
  BY AtWork DEF Reach
<1>2. at \in Places /\ found \in Rows
  BY <1>1, PlaceTypes DEF Rows
<1>3. Set(t, passed) \/ Set(t, refused)
  BY DEF Reach
<1>4. side' = side
  BY DEF Reach
<1> HIDE DEF e, at, found
<1>5. /\ passed \in Editor /\ Told(passed)
      /\ refused \in Editor /\ Told(refused)
  BY <1>1, <1>2 DEF Editor, Told, Stages
<1> QED
  BY <1>3, <1>4, <1>5, EditorSet

LEMMA CommitInv ==
    ASSUME EditInv, NEW t \in EditTabs, NEW rows, Commit(t, rows)
    PROVE  EditInv'
<1>1. editor[t] \in Editor /\ Told(editor[t])
  BY AtWork DEF Commit
<1>2. ASSUME NEW pc \in {"ok", "failed"}
      PROVE  Served(editor[t], pc) \in Editor /\ Told(Served(editor[t], pc))
  BY <1>1 DEF Served, Editor, Told, Stages, Places, Rows
<1>3. \E pc \in {"ok", "failed"} : Set(t, Served(editor[t], pc))
  BY DEF Commit
<1> QED
  BY <1>2, <1>3, EditorSet DEF Commit

LEMMA TakeAnswerInv ==
    ASSUME EditInv, NEW t \in EditTabs, TakeAnswer(t) PROVE EditInv'
<1> DEFINE e == [editor[t] EXCEPT !.pc = "idle", !.call = "none", !.sent = {}]
           added == [e EXCEPT !.stale = TRUE]
           kept == [e EXCEPT !.stale = TRUE, !.told = @ \cup {editor[t].sent},
                             !.baseline = Acknowledged(editor[t])]
<1>1. editor[t] \in Editor /\ Told(editor[t])
  BY AtWork DEF TakeAnswer
<1>2. e \in Editor /\ Told(e)
  BY <1>1 DEF Editor, Told, Calls, Stages, Rows
<1>3. added \in Editor /\ Told(added)
  BY <1>1 DEF Editor, Told, Calls, Stages, Rows
<1>4. kept \in Editor /\ Told(kept)
  BY <1>1 DEF Editor, Told, Calls, Stages, Rows, Acknowledged
<1>5. Set(t, e) \/ Set(t, added) \/ Set(t, kept)
  BY DEF TakeAnswer
<1>6. side' = side
  BY DEF TakeAnswer
<1> HIDE DEF e, added, kept
<1> QED
  BY <1>2, <1>3, <1>4, <1>5, <1>6, EditorSet

LEMMA RefreshedInv ==
    ASSUME ServerTypeOK, EditInv, NEW t \in EditTabs, Refreshed(t)
    PROVE  EditInv'
<1> DEFINE now == PageData(editor[t].kind)
           e == [editor[t] EXCEPT !.stale = FALSE, !.props = now, !.told = @ \cup {now}]
<1>1. editor[t] \in Editor /\ Told(editor[t]) /\ editor[t].kind \in Kinds
  BY AtWork DEF Refreshed
<1>2. now \in Rows
  BY <1>1, PlaceTypes
<1> HIDE DEF now
<1>3. e \in Editor /\ Told(e)
  BY <1>1, <1>2 DEF Editor, Told
<1> QED
  BY <1>3, EditorSet DEF Refreshed, now

\* SavedConfigurations.
LEMMA SideSet ==
    ASSUME EditInv, NEW t \in EditTabs, NEW s \in Side,
           editor[t].kind # None, editor' = editor, side' = [side EXCEPT ![t] = s]
    PROVE  EditInv'
BY AtWork DEF EditInv, EditorTypeOK, ToldInv, Told

LEMMA ClickSideInv ==
    ASSUME EditInv, NEW t \in EditTabs, NEW call \in {"keep", "apply", "delete"},
           ClickSide(t, call)
    PROVE  EditInv'
<1> DEFINE s == [Quiet EXCEPT !.call = call, !.pc = "sent"]
<1>1. s \in Side
  BY DEF Side, Quiet, Stages, Places, Rows
<1>2. editor[t].kind # None
  BY DestinationAssumption DEF ClickSide, OfDestination
<1> QED
  BY <1>1, <1>2, SideSet DEF ClickSide

LEMMA ReachSideInv ==
    ASSUME ServerTypeOK, EditInv, NEW t \in EditTabs, ReachSide(t)
    PROVE  EditInv'
<1> DEFINE s == side[t]
           rows == CASE s.call = "keep" -> stored["mapping"][active]
                     [] s.call = "apply" -> saved
                     [] OTHER -> {}
           refused == (s.call # "delete" /\ active = None)
                      \/ (s.call # "keep" /\ saved = None)
           lost == [s EXCEPT !.pc = "failed"]
           passed == [s EXCEPT !.pc = "write", !.at = active, !.rows = rows]
<1>1. s \in Side /\ editor[t].kind # None /\ side' = [side EXCEPT ![t] =
                 IF refused THEN lost ELSE passed]
  BY AtWork DEF ReachSide, EditInv, EditorTypeOK, Told
<1>2. lost \in Side
  BY <1>1 DEF Side, Stages
<1>3. ASSUME ~refused PROVE passed \in Side
  <2>1. active \in Places /\ rows \in Rows
    <3>1. stored["mapping"][active] \in Rows /\ saved \in Rows \cup {None}
          /\ active \in Places
      BY DestinationAssumption DEF ServerTypeOK, Places
    <3>2. s.call = "apply" => saved \in Rows
      BY <1>3, <3>1
    <3> QED
      BY <3>1, <3>2 DEF Rows
  <2> HIDE DEF rows, s
  <2> QED
    BY <1>1, <2>1 DEF Side, Stages
<1> HIDE DEF s, lost, passed, refused
<1> QED
  BY <1>1, <1>2, <1>3, SideSet DEF ReachSide

LEMMA CommitSideInv ==
    ASSUME ServerTypeOK, EditInv, NEW t \in EditTabs, CommitSide(t)
    PROVE  EditInv'
<1>1. PICK pc \in {"ok", "failed"} : side' = [side EXCEPT ![t] = [Quiet EXCEPT !.pc = pc]]
  BY DEF CommitSide
<1>2. [Quiet EXCEPT !.pc = pc] \in Side
  BY DEF Quiet, Side, Stages, Places, Rows
<1>3. editor[t].kind # None /\ editor' = editor
  BY AtWork DEF CommitSide, Told
<1> QED
  BY <1>1, <1>2, <1>3, SideSet

LEMMA AnswerSideInv ==
    ASSUME EditInv, NEW t \in EditTabs, AnswerSide(t) PROVE EditInv'
<1> DEFINE e == [editor[t] EXCEPT !.stale = @ \/ side[t].pc = "ok"]
<1>1. editor[t] \in Editor /\ Told(editor[t])
  BY AtWork DEF AnswerSide
<1>2. e \in Editor /\ Told(e)
  BY <1>1 DEF Editor, Told
<1>3. Quiet \in Side /\ editor' = [editor EXCEPT ![t] = e]
  BY DEF AnswerSide, Quiet, Side, Stages, Places, Rows
<1> HIDE DEF e
<1> QED
  BY <1>2, <1>3 DEF AnswerSide, EditInv, EditorTypeOK, ToldInv, Told

LEMMA EditorStepInv ==
    ASSUME ServerTypeOK, EditInv, NEW t \in EditTabs, NEW k \in Kinds, EditorStep(t, k)
    PROVE  EditInv'
<1> USE DestinationAssumption DEF OfDestination, OfWorkspace
<1>1. CASE \/ TypeMapping(t) \/ TypeRules(t) \/ TypeFilters(t) \/ TypeOptions(t)
           \/ TypeAutomation(t) \/ TypeProfile(t) \/ TypePreferences(t)
           \/ TypeSecurity(t)
  BY <1>1, RetypedInv
     DEF TypeMapping, TypeRules, TypeFilters, TypeOptions, TypeAutomation,
         TypeProfile, TypePreferences, TypeSecurity
<1>2. CASE \/ SaveMapping(t) \/ SaveRules(t) \/ SaveFilters(t) \/ SaveOptions(t)
           \/ SaveAutomation(t) \/ SaveProfile(t) \/ SavePreferences(t)
           \/ SaveSecurity(t)
  BY <1>2, SentInv
     DEF SaveMapping, SaveRules, SaveFilters, SaveOptions, SaveAutomation,
         SaveProfile, SavePreferences, SaveSecurity
<1>3. CASE Discard(t) \/ ClickAutoMap(t)
  BY <1>3, DiscardInv, ClickAutoMapInv DEF Discard, ClickAutoMap, IsList, Lists
<1>4. CASE \/ PutMappings(t) \/ PutRules(t) \/ PutFilters(t) \/ PatchOptions(t)
           \/ PutAutomation(t) \/ PutSettings(t) \/ PostMappings(t)
  BY <1>4, CommitInv
     DEF PutMappings, PutRules, PutFilters, PatchOptions, PutAutomation,
         PutSettings, PostMappings
<1>5. CASE \E call \in {"keep", "apply", "delete"} : ClickSide(t, call)
  BY <1>5, ClickSideInv
<1> QED
  BY <1>1, <1>2, <1>3, <1>4, <1>5, OpenEditorInv, CloseEditorInv, ReachInv,
     TakeAnswerInv, RefreshedInv, ReachSideInv, CommitSideInv, AnswerSideInv
     DEF EditorStep, EditorServes

-----------------------------------------------------------------------------
(* The types of what the server keeps.                                     *)

LEMMA ReplacedTypes ==
    ASSUME ServerTypeOK, NEW k \in Kinds, NEW b \in Places, NEW rows \in Rows
    PROVE  Replaced(k, b, rows) \in [Kinds -> [Places -> Rows]]
BY DEF ServerTypeOK, Replaced

LEMMA SuggestionTypes ==
    ASSUME ServerTypeOK, NEW b \in Places, NEW found \in Rows
    PROVE  WithSuggestions(b, found) \in [Kinds -> [Places -> Rows]]
<1> DEFINE old == stored["mapping"][b]
           new == {"a"} \ found
           rows == old \cup new \cup (IF new \cap old # {} THEN {"bad"} ELSE {})
<1>1. old \in Rows
  BY DestinationAssumption DEF ServerTypeOK
<1>2. rows \in Rows
  <2>1. new = {} \/ new = {"a"}
    OBVIOUS
  <2>2. old = {} \/ old = {"a"} \/ old = {"a", "bad"}
    BY <1>1 DEF Rows
  <2> HIDE DEF old, new
  <2>3. CASE old = {}
    BY <2>1, <2>3 DEF Rows
  <2>4. CASE old = {"a"} /\ new = {}
    BY <2>4 DEF Rows
  <2>5. CASE old = {"a"} /\ new = {"a"}
    <3>1. rows = {"a", "bad"}
      BY <2>5
    <3> QED
      BY <3>1 DEF Rows
  <2>6. CASE old = {"a", "bad"}
    <3>1. rows = {"a", "bad"}
      BY <2>1, <2>6
    <3> QED
      BY <3>1 DEF Rows
  <2> QED
    BY <2>1, <2>2, <2>3, <2>4, <2>5, <2>6
<1>3. WithSuggestions(b, found) = [stored EXCEPT !["mapping"][b] = rows]
  BY DEF WithSuggestions
<1> HIDE DEF rows
<1> QED
  BY <1>2, <1>3, DestinationAssumption DEF ServerTypeOK

LEMMA CommitTypes ==
    ASSUME ServerTypeOK, NEW t \in EditTabs,
           NEW rows \in [Kinds -> [Places -> Rows]], Commit(t, rows)
    PROVE  ServerTypeOK'
BY DEF Commit, ServerTypeOK

LEMMA EditorServerTypes ==
    ASSUME ServerTypeOK, EditInv, NEW t \in EditTabs, NEW k \in Kinds, EditorStep(t, k)
    PROVE  ServerTypeOK'
<1>1. CASE UNCHANGED serverVars
  BY <1>1 DEF serverVars, ServerTypeOK
<1>2. CASE \/ PutMappings(t) \/ PutRules(t) \/ PutFilters(t) \/ PatchOptions(t)
           \/ PutAutomation(t) \/ PutSettings(t)
  <2>1. PICK j : Saves(t, j) /\ Commit(t, Replaced(j, editor[t].at, editor[t].sent))
    BY <1>2 DEF PutMappings, PutRules, PutFilters, PatchOptions, PutAutomation,
                PutSettings
  <2>2. editor[t] \in Editor /\ editor[t].kind \in Kinds /\ editor[t].kind = j
    BY <2>1, AtWork DEF Commit, Saves
  <2>3. editor[t].at \in Places /\ editor[t].sent \in Rows
    BY <2>2 DEF Editor
  <2> QED
    BY <2>1, <2>2, <2>3, ReplacedTypes, CommitTypes
<1>3. CASE PostMappings(t)
  <2>1. editor[t] \in Editor
    BY DEF EditInv, EditorTypeOK
  <2>2. editor[t].at \in Places /\ editor[t].found \in Rows
    BY <2>1 DEF Editor
  <2> QED
    BY <1>3, <2>2, SuggestionTypes, CommitTypes DEF PostMappings
<1>4. CASE CommitSide(t)
  <2> DEFINE s == side[t]
  <2>1. s \in Side
    BY DEF EditInv, EditorTypeOK
  <2>2. s.rows \in Rows /\ s.at \in Places
    BY <2>1 DEF Side
  <2>3. Replaced("mapping", s.at, s.rows) \in [Kinds -> [Places -> Rows]]
    BY <2>2, ReplacedTypes, DestinationAssumption
  <2> HIDE DEF s
  <2>4. saved' \in Rows \cup {None}
    BY <1>4, <2>2 DEF CommitSide, ServerTypeOK, s
  <2>5. stored' \in [Kinds -> [Places -> Rows]]
    BY <1>4, <2>3 DEF CommitSide, ServerTypeOK, s
  <2> QED
    BY <1>4, <2>4, <2>5 DEF CommitSide, ServerTypeOK
<1> QED
  <2>1. \/ UNCHANGED serverVars
        \/ PutMappings(t) \/ PutRules(t) \/ PutFilters(t) \/ PatchOptions(t)
        \/ PutAutomation(t) \/ PutSettings(t) \/ PostMappings(t) \/ CommitSide(t)
    BY DEF EditorStep, EditorServes, OpenEditor, CloseEditor, ClickSide, Retyped,
           TypeMapping, TypeRules, TypeFilters, TypeOptions, TypeAutomation,
           TypeProfile, TypePreferences, TypeSecurity, Discard, ClickAutoMap,
           Sent, SaveMapping, SaveRules, SaveFilters, SaveOptions, SaveAutomation,
           SaveProfile, SavePreferences, SaveSecurity, Reach, TakeAnswer,
           Refreshed, ReachSide, AnswerSide
  <2> QED
    BY <1>1, <1>2, <1>3, <1>4, <2>1

-----------------------------------------------------------------------------
(* The picker.                                                             *)

\* Worksheets that were listed for the book that is selected are its own.
PickInv ==
    /\ PickerTypeOK
    /\ \A t \in PickTabs : LET p == picker[t] IN
          /\ p.title # None /\ p.selected # None /\ p.worksheetsFor = p.selected
                => p.title = p.selected
          /\ p.open /\ ~p.loading => p.shown = p.latest

LEMMA PickerSet ==
    ASSUME PickInv, NEW t \in PickTabs, NEW p \in Page, Show(t, p),
           p.title # None /\ p.selected # None /\ p.worksheetsFor = p.selected
              => p.title = p.selected,
           p.open /\ ~p.loading => p.shown = p.latest
    PROVE  PickInv'
BY DEF PickInv, PickerTypeOK, Show

LEMMA LoadsKept ==
    ASSUME NEW p \in Page, NEW b \in Books, NEW q \in LoadWorksheets(p, b)
    PROVE  /\ q \in Page /\ q.title = p.title /\ q.selected = p.selected
           /\ q.worksheetsFor = p.worksheetsFor /\ q.open = p.open
           /\ q.loading = p.loading /\ q.shown = p.shown /\ q.latest = p.latest
<1>1. PICK n \in Asks : q = [p EXCEPT !.loads = @ \cup {<<n, b>>}]
  BY DEF LoadWorksheets, FreeAsks
<1> QED
  BY <1>1 DEF Page

LEMMA AskedTypes ==
    ASSUME NEW p \in Page, p.latest < MaxAsks
    PROVE  /\ AskedList(p) \in Page /\ AskedList(p).loading
           /\ AskedList(p).title = p.title /\ AskedList(p).selected = p.selected
           /\ AskedList(p).worksheetsFor = p.worksheetsFor
<1>1. p.latest + 1 \in 0 .. MaxAsks /\ p.latest + 1 \in Asks
  BY PickerAssumption DEF Page, Asks
<1> QED
  BY <1>1 DEF AskedList, Page

LEMMA OpenPickerInv ==
    ASSUME ServerTypeOK, PickInv, NEW t \in PickTabs, OpenPicker(t) PROVE PickInv'
<1> DEFINE o == [NoPage EXCEPT !.open = TRUE, !.selected = active, !.title = active]
           p == AskedList(o)
<1>1. o \in Page /\ o.latest = 0 /\ o.title = o.selected
  <2>1. NoPage \in Page /\ NoPage.latest = 0
    <3>1. 0 \in 0 .. MaxAsks
      BY PickerAssumption
    <3> QED
      BY <3>1 DEF NoPage, Page
  <2>2. active \in Books \cup {None}
    BY DEF ServerTypeOK
  <2> QED
    BY <2>1, <2>2 DEF Page
<1> HIDE DEF o
<1>2. /\ p \in Page /\ p.loading /\ p.title = p.selected
  BY <1>1, AskedTypes, PickerAssumption
<1>3. active \in Books \cup {None}
  BY DEF ServerTypeOK
<1>4. Show(t, p) \/ (active \in Books /\ \E q \in LoadWorksheets(p, active) : Show(t, q))
  BY <1>3 DEF OpenPicker, o
<1> HIDE DEF p
<1> QED
  BY <1>2, <1>4, LoadsKept, PickerSet

LEMMA PickerStepInv ==
    ASSUME ServerTypeOK, PickInv, NEW t \in PickTabs, PickerStep(t) PROVE PickInv'
<1>0. /\ picker[t] \in Page
      /\ picker[t].title # None /\ picker[t].selected # None
         /\ picker[t].worksheetsFor = picker[t].selected
            => picker[t].title = picker[t].selected
      /\ picker[t].open /\ ~picker[t].loading => picker[t].shown = picker[t].latest
  BY DEF PickInv, PickerTypeOK
<1>1. CASE OpenPicker(t)
  BY <1>1, OpenPickerInv
<1>2. CASE LoadSpreadsheets(t)
  BY <1>0, <1>2, AskedTypes, PickerSet DEF LoadSpreadsheets
<1>3. CASE ClickSelect(t)
  <2> DEFINE p == [picker[t] EXCEPT !.pending = "sent", !.wanted = picker[t].selected]
  <2>1. /\ p \in Page /\ p.title = picker[t].title /\ p.selected = picker[t].selected
        /\ p.worksheetsFor = picker[t].worksheetsFor /\ p.open = picker[t].open
        /\ p.loading = picker[t].loading /\ p.shown = picker[t].shown
        /\ p.latest = picker[t].latest
    BY <1>0 DEF Page
  <2>2. Show(t, p)
    BY <1>3 DEF ClickSelect
  <2> HIDE DEF p
  <2> QED
    BY <1>0, <2>1, <2>2, PickerSet
<1>4. CASE PickerRefreshed(t)
  <2>1. active \in Books
    BY <1>4 DEF PickerRefreshed, ServerTypeOK
  <2>2. PICK q \in LoadWorksheets(picker[t], active) : Show(t, q)
    BY <1>4 DEF PickerRefreshed
  <2> QED
    BY <1>0, <2>1, <2>2, LoadsKept, PickerSet
<1>5. CASE ClosePicker(t)
  <2>1. NoPage \in Page /\ NoPage.title = None /\ ~NoPage.open
    BY PickerAssumption DEF NoPage, Page, Asks
  <2> QED
    BY <1>5, <2>1, PickerSet DEF ClosePicker
<1>6. CASE \E n \in Asks : ListAnswers(t, n)
  <2>1. PICK n \in Asks : ListAnswers(t, n)
    BY <1>6
  <2> DEFINE p == [picker[t] EXCEPT !.lists = @ \ {n}, !.loading = FALSE, !.shown = n]
             q == [picker[t] EXCEPT !.lists = @ \ {n}]
  <2>2. (n = picker[t].latest /\ Show(t, p)) \/ Show(t, q)
    BY <2>1 DEF ListAnswers, Current
  <2>3. CASE n = picker[t].latest /\ Show(t, p)
    <3>1. /\ p \in Page /\ p.title = picker[t].title
          /\ p.selected = picker[t].selected /\ p.shown = n /\ p.latest = picker[t].latest
          /\ p.worksheetsFor = picker[t].worksheetsFor
      BY <1>0, <2>3 DEF Page
    <3> HIDE DEF p
    <3> QED
      BY <1>0, <2>3, <3>1, PickerSet
  <2>4. CASE Show(t, q)
    <3>1. /\ q \in Page /\ q.title = picker[t].title
          /\ q.selected = picker[t].selected /\ q.shown = picker[t].shown
          /\ q.latest = picker[t].latest /\ q.open = picker[t].open
          /\ q.loading = picker[t].loading
          /\ q.worksheetsFor = picker[t].worksheetsFor
      BY <1>0 DEF Page
    <3> HIDE DEF q
    <3> QED
      BY <1>0, <2>4, <3>1, PickerSet
  <2> QED
    BY <2>2, <2>3, <2>4
<1>7. CASE \E n \in Asks, b \in Books : WorksheetsAnswer(t, n, b)
  <2>1. PICK n \in Asks, b \in Books : WorksheetsAnswer(t, n, b)
    BY <1>7
  <2> DEFINE p == [picker[t] EXCEPT !.loads = @ \ {<<n, b>>}]
             q == [p EXCEPT !.worksheetsFor = b, !.title = b]
  <2>2. /\ p \in Page /\ p.title = picker[t].title
        /\ p.selected = picker[t].selected /\ p.shown = picker[t].shown
        /\ p.latest = picker[t].latest /\ p.open = picker[t].open
        /\ p.loading = picker[t].loading /\ p.worksheetsFor = picker[t].worksheetsFor
    BY <1>0 DEF Page
  <2>3. Show(t, q) \/ Show(t, p)
    BY <2>1 DEF WorksheetsAnswer
  <2> HIDE DEF p
  <2>4. /\ q \in Page /\ q.title = b /\ q.worksheetsFor = b
        /\ q.selected = p.selected /\ q.shown = p.shown
        /\ q.latest = p.latest /\ q.open = p.open /\ q.loading = p.loading
    BY <2>2 DEF Page
  <2> HIDE DEF q
  <2> QED
    BY <1>0, <2>2, <2>3, <2>4, PickerSet
<1>8. CASE ReadHeaders(t)
  <2>1. PICK next \in {"switching", "no"} : Show(t, [picker[t] EXCEPT !.pending = next])
    BY <1>8 DEF ReadHeaders
  <2> DEFINE p == [picker[t] EXCEPT !.pending = next]
  <2>2. /\ p \in Page /\ p.title = picker[t].title
        /\ p.selected = picker[t].selected /\ p.shown = picker[t].shown
        /\ p.latest = picker[t].latest /\ p.open = picker[t].open
        /\ p.loading = picker[t].loading /\ p.worksheetsFor = picker[t].worksheetsFor
    BY <1>0 DEF Page
  <2> HIDE DEF p
  <2>3. Show(t, p)
    BY <2>1 DEF p
  <2> QED
    BY <1>0, <2>2, <2>3, PickerSet
<1>9. CASE Switch(t)
  <2> DEFINE p == [picker[t] EXCEPT !.pending = "no", !.wanted = None]
  <2>1. /\ p \in Page /\ p.title = picker[t].title
        /\ p.selected = picker[t].selected /\ p.shown = picker[t].shown
        /\ p.latest = picker[t].latest /\ p.open = picker[t].open
        /\ p.loading = picker[t].loading /\ p.worksheetsFor = picker[t].worksheetsFor
    BY <1>0 DEF Page
  <2>2. Show(t, p)
    BY <1>9 DEF Switch
  <2> HIDE DEF p
  <2> QED
    BY <1>0, <2>1, <2>2, PickerSet
<1>10. CASE \E b \in Books : ChooseSpreadsheet(t, b)
  <2>1. PICK b \in Books : ChooseSpreadsheet(t, b)
    BY <1>10
  <2> DEFINE p == [picker[t] EXCEPT !.selected = b, !.title = None]
  <2>2. /\ p \in Page /\ p.title = None /\ p.shown = picker[t].shown
        /\ p.latest = picker[t].latest /\ p.open = picker[t].open
        /\ p.loading = picker[t].loading
    BY <1>0 DEF Page
  <2>3. \E q \in LoadWorksheets(p, b) : Show(t, q)
    BY <2>1 DEF ChooseSpreadsheet
  <2> HIDE DEF p
  <2> QED
    BY <1>0, <2>2, <2>3, LoadsKept, PickerSet
<1> QED
  BY <1>1, <1>2, <1>3, <1>4, <1>5, <1>6, <1>7, <1>8, <1>9, <1>10
     DEF PickerStep, PickerServes

-----------------------------------------------------------------------------
(* Runs, and the page that starts them.                                    *)

\* A first run to b is nothing that a page may not start: its preview was
\* shown, or it is no first run.
Vouched(b) == Previewed(b) \/ b \in written

\* The flag of a request that a page sent stands for the book it showed.
FlagInv ==
    \A r \in Runs :
        /\ run[r].pc = "import" /\ run[r].confirmed /\ run[r].shown # None
              => Vouched(run[r].shown)
        /\ run[r].pc = "write" => run[r].book \in Books

\* What the page has of the server: a preview that asks for no confirmation
\* is of a book that was written to, and so is a destination known as
\* confirmed.
PanelInv ==
    \A t \in PanelTabs :
        /\ panel[t].preview # None => /\ Previewed(panel[t].preview)
                                      /\ panel[t].required \/ panel[t].preview \in written
        /\ panel[t].known => panel[t].dest \in written
        /\ panel[t].busy = "start" /\ panel[t].confirmed => Vouched(panel[t].shown)

SetupInv ==
    /\ ServerTypeOK /\ EditInv /\ PickInv
    /\ PanelTypeOK /\ PanelInv /\ FlagInv
    /\ OnlyWrittenIsConfirmed /\ ShownIsPreviewed

\* The same of the previews and the books of another state.
PreviewedIn(b, s) == \E o \in Options : <<b, o>> \in s
VouchedIn(b, s, w) == PreviewedIn(b, s) \/ b \in w

LEMMA VouchedIs ==
    /\ \A b : Previewed(b) = PreviewedIn(b, seen)
    /\ \A b : Vouched(b) = VouchedIn(b, seen, written)
BY DEF Vouched, Previewed, PreviewedIn, VouchedIn

\* What was shown and what was written to stays so.
LEMMA VouchedOn ==
    ASSUME NEW s, NEW w, NEW s2, NEW w2, s \subseteq s2, w \subseteq w2, NEW b
    PROVE  /\ PreviewedIn(b, s) => PreviewedIn(b, s2)
           /\ VouchedIn(b, s, w) => VouchedIn(b, s2, w2)
BY DEF VouchedIn, PreviewedIn

\* What the panel of one page may be.
PanelSound(p, s, w) ==
    /\ p.preview # None => PreviewedIn(p.preview, s) /\ (p.required \/ p.preview \in w)
    /\ p.known => p.dest \in w
    /\ p.busy = "start" /\ p.confirmed => VouchedIn(p.shown, s, w)

LEMMA PanelInvIs == PanelInv = \A t \in PanelTabs : PanelSound(panel[t], seen, written)
BY DEF PanelInv, PanelSound, Vouched, Previewed, VouchedIn, PreviewedIn

LEMMA PanelSoundOn ==
    ASSUME NEW p, NEW s, NEW w, NEW s2, NEW w2, s \subseteq s2, w \subseteq w2,
           PanelSound(p, s, w)
    PROVE  PanelSound(p, s2, w2)
BY VouchedOn DEF PanelSound

\* The pages but for one keep their hold on what was seen and written.
LEMMA PanelSet ==
    ASSUME PanelTypeOK, PanelInv, NEW t \in PanelTabs, NEW p \in Panel, Put(t, p),
           seen \subseteq seen', written \subseteq written',
           PanelSound(p, seen', written')
    PROVE  PanelTypeOK' /\ PanelInv'
<1>1. PanelTypeOK' /\ panel'[t] = p
      /\ \A u \in PanelTabs : u # t => panel'[u] = panel[u]
  BY DEF PanelTypeOK, Put
<1>2. \A u \in PanelTabs : PanelSound(panel[u], seen', written')
  BY PanelInvIs, PanelSoundOn
<1>3. \A u \in PanelTabs : PanelSound(panel'[u], seen', written')
  BY <1>1, <1>2
<1>4. PanelInv' = \A u \in PanelTabs : PanelSound(panel'[u], seen', written')
  BY DEF PanelInv, PanelSound, Vouched, Previewed, VouchedIn, PreviewedIn
<1> QED
  BY <1>1, <1>3, <1>4

LEMMA PanelsOn ==
    ASSUME PanelTypeOK, PanelInv, panel' = panel,
           seen \subseteq seen', written \subseteq written'
    PROVE  PanelTypeOK' /\ PanelInv'
<1>1. \A u \in PanelTabs : PanelSound(panel[u], seen', written')
  BY PanelInvIs, PanelSoundOn
<1>2. PanelInv' = \A u \in PanelTabs : PanelSound(panel'[u], seen', written')
  BY DEF PanelInv, PanelSound, Vouched, Previewed, VouchedIn, PreviewedIn
<1> QED
  BY <1>1, <1>2 DEF PanelTypeOK

\* Another preview changes nothing for the runs.
LEMMA RunsOn ==
    ASSUME FlagInv, OnlyWrittenIsConfirmed, ShownIsPreviewed,
           UNCHANGED <<confirmed, run, written>>, seen \subseteq seen'
    PROVE  FlagInv' /\ OnlyWrittenIsConfirmed' /\ ShownIsPreviewed'
BY DEF FlagInv, OnlyWrittenIsConfirmed, ShownIsPreviewed, Vouched, Previewed

\* The part of the invariant that runs and panels share.
RunsInv == FlagInv /\ OnlyWrittenIsConfirmed /\ ShownIsPreviewed

LEMMA PanelOnly ==
    ASSUME SetupInv, NEW t \in PanelTabs, NEW p \in Panel, Put(t, p),
           PanelSound(p, seen, written), UNCHANGED serverVars
    PROVE  ServerTypeOK' /\ PanelTypeOK' /\ PanelInv' /\ RunsInv'
<1>1. UNCHANGED <<active, confirmed, stored, saved, run, written, seen>>
  BY DEF serverVars
<1>2. PanelTypeOK' /\ PanelInv'
  BY <1>1, PanelSet DEF SetupInv
<1> QED
  BY <1>1, <1>2, RunsOn DEF SetupInv, RunsInv, ServerTypeOK

\* What the page is told of the destination that is active.
LEMMA ConfirmedIsWritten == ASSUME SetupInv, IsConfirmed PROVE active \in written
BY DEF SetupInv, IsConfirmed, OnlyWrittenIsConfirmed, ServerTypeOK

LEMMA NoPanelTypes ==
    /\ NoPanel \in Panel /\ NoPanel.preview = None /\ NoPanel.busy = "no"
    /\ ~NoPanel.known
BY DEF NoPanel, Panel, Options

LEMMA PanelOf ==
    ASSUME SetupInv, NEW t \in PanelTabs
    PROVE  panel[t] \in Panel /\ PanelSound(panel[t], seen, written)
BY PanelInvIs DEF SetupInv, PanelTypeOK

LEMMA OpenPanelInv ==
    ASSUME SetupInv, NEW t \in PanelTabs, OpenPanel(t)
    PROVE  ServerTypeOK' /\ PanelTypeOK' /\ PanelInv' /\ RunsInv'
<1> DEFINE p == [NoPanel EXCEPT !.open = TRUE, !.dest = active, !.known = IsConfirmed]
<1>1. active \in Books \cup {None} /\ IsConfirmed \in BOOLEAN
  BY DEF SetupInv, ServerTypeOK, IsConfirmed
<1>2. /\ p \in Panel /\ p.preview = None /\ p.busy = "no"
      /\ p.known = IsConfirmed /\ p.dest = active
  BY <1>1, NoPanelTypes DEF Panel
<1>3. Put(t, p) /\ UNCHANGED serverVars
  BY DEF OpenPanel
<1> HIDE DEF p
<1>4. PanelSound(p, seen, written)
  BY <1>2, ConfirmedIsWritten DEF PanelSound
<1> QED
  BY <1>2, <1>3, <1>4, PanelOnly

LEMMA RefreshPanelInv ==
    ASSUME SetupInv, NEW t \in PanelTabs, RefreshPanel(t)
    PROVE  ServerTypeOK' /\ PanelTypeOK' /\ PanelInv' /\ RunsInv'
<1> DEFINE p == [panel[t] EXCEPT !.stale = FALSE, !.dest = active, !.known = IsConfirmed]
<1>1. active \in Books \cup {None} /\ IsConfirmed \in BOOLEAN
  BY DEF SetupInv, ServerTypeOK, IsConfirmed
<1>2. /\ p \in Panel /\ p.preview = panel[t].preview /\ p.busy = panel[t].busy
      /\ p.known = IsConfirmed /\ p.dest = active /\ p.required = panel[t].required
      /\ p.confirmed = panel[t].confirmed /\ p.shown = panel[t].shown
  BY <1>1, PanelOf DEF Panel
<1>3. Put(t, p) /\ UNCHANGED serverVars
  BY DEF RefreshPanel
<1> HIDE DEF p
<1>4. PanelSound(p, seen, written)
  BY <1>2, ConfirmedIsWritten, PanelOf DEF PanelSound
<1> QED
  BY <1>2, <1>3, <1>4, PanelOnly

\* The clicks, the poll and the end of a page.
LEMMA PanelClicksInv ==
    ASSUME SetupInv, NEW t \in PanelTabs,
           ClosePanel(t) \/ ChangeOptions(t) \/ ClickPreview(t) \/ Poll(t) \/ PollFails(t)
    PROVE  ServerTypeOK' /\ PanelTypeOK' /\ PanelInv' /\ RunsInv'
<1> SUFFICES \E p \in Panel : /\ Put(t, p) /\ PanelSound(p, seen, written)
                              /\ UNCHANGED serverVars
  BY PanelOnly
<1> USE PanelOf
<1>1. CASE ClosePanel(t)
  <2>1. PanelSound(NoPanel, seen, written)
    BY NoPanelTypes DEF PanelSound
  <2> QED
    BY <1>1, <2>1, NoPanelTypes DEF ClosePanel
<1>2. CASE ChangeOptions(t)
  <2>1. PICK o \in Options : Put(t, [panel[t] EXCEPT !.opts = o])
    BY <1>2 DEF ChangeOptions
  <2> DEFINE p == [panel[t] EXCEPT !.opts = o]
  <2>2. p \in Panel /\ PanelSound(p, seen, written)
    BY DEF Panel, PanelSound
  <2> QED
    BY <1>2, <2>1, <2>2 DEF ChangeOptions
<1>3. CASE ClickPreview(t)
  <2> DEFINE p == [panel[t] EXCEPT !.busy = "preview", !.job = None, !.jobShown = FALSE]
  <2>1. p \in Panel /\ PanelSound(p, seen, written)
    BY DEF Panel, PanelSound
  <2> QED
    BY <1>3, <2>1 DEF ClickPreview
<1>4. CASE Poll(t)
  <2> DEFINE p == panel[t]
             over == [Without(p) EXCEPT !.busy = "no", !.jobShown = TRUE, !.stale = TRUE]
             on == [p EXCEPT !.jobShown = TRUE]
  <2>1. over \in Panel /\ PanelSound(over, seen, written)
    BY DEF Panel, PanelSound, Without
  <2>2. on \in Panel /\ PanelSound(on, seen, written)
    BY DEF Panel, PanelSound
  <2>3. (Put(t, over) \/ Put(t, on)) /\ UNCHANGED serverVars
    BY <1>4 DEF Poll
  <2> QED
    BY <2>1, <2>2, <2>3
<1>5. CASE PollFails(t)
  <2>1. GaveUp(panel[t]) \in Panel /\ PanelSound(GaveUp(panel[t]), seen, written)
    BY DEF Panel, PanelSound, GaveUp
  <2> QED
    BY <1>5, <2>1 DEF PollFails
<1> QED
  BY <1>1, <1>2, <1>3, <1>4, <1>5

\* The start of a run: the flag goes with a book that was shown, or that was
\* known as confirmed.
LEMMA RunSyncInv ==
    ASSUME SetupInv, NEW t \in PanelTabs, ClickSync(t) \/ ClickConfirm(t)
    PROVE  ServerTypeOK' /\ PanelTypeOK' /\ PanelInv' /\ RunsInv'
<1> DEFINE q == panel[t]
           shown == IF q.preview # None THEN q.preview ELSE q.dest
           p(flag) == [q EXCEPT !.busy = "start", !.confirmed = flag, !.shown = shown]
<1>1. q \in Panel /\ PanelSound(q, seen, written)
  BY PanelOf
<1>2. PICK flag \in BOOLEAN :
         /\ Put(t, p(flag)) /\ UNCHANGED serverVars
         /\ flag => q.preview # None \/ q.known
  BY <1>1 DEF ClickSync, ClickConfirm, RunSync, NeedsConfirmation, Panel
<1>3. flag => VouchedIn(shown, seen, written)
  BY <1>1, <1>2 DEF PanelSound, VouchedIn
<1>4. shown \in Books \cup {None}
  BY <1>1 DEF Panel
<1> HIDE DEF q, shown
<1>5. /\ p(flag) \in Panel /\ p(flag).preview = q.preview /\ p(flag).known = q.known
      /\ p(flag).required = q.required /\ p(flag).dest = q.dest
      /\ p(flag).confirmed = flag /\ p(flag).shown = shown
  BY <1>1, <1>4 DEF Panel
<1> HIDE DEF p
<1>6. PanelSound(p(flag), seen, written)
  BY <1>1, <1>3, <1>5 DEF PanelSound
<1> QED
  BY <1>2, <1>5, <1>6, PanelOnly

\* A preview: from then on its book has been previewed.
LEMMA PreviewAnswersInv ==
    ASSUME SetupInv, NEW t \in PanelTabs, PreviewAnswers(t)
    PROVE  ServerTypeOK' /\ PanelTypeOK' /\ PanelInv' /\ RunsInv'
<1> DEFINE p == [Without(panel[t]) EXCEPT !.busy = "no"]
           required == ~confirmed[active]
           blocked == "a" \notin stored["mapping"][active]
           q == [p EXCEPT !.preview = active, !.required = required, !.blocked = blocked]
<1>1. /\ p \in Panel /\ p.preview = None /\ p.busy = "no"
      /\ p.known => p.dest \in written
  BY PanelOf DEF Without, Panel, PanelSound
<1>2. /\ active \in Books \cup {None} /\ confirmed \in [Books -> BOOLEAN]
      /\ seen \subseteq Books \X Options /\ panel[t].opts \in Options
  BY PanelOf DEF SetupInv, ServerTypeOK, Panel
<1>3. UNCHANGED <<active, confirmed, stored, saved, run, written>>
  BY DEF PreviewAnswers
<1>4. CASE Put(t, p) /\ seen' = seen
  <2>1. PanelSound(p, seen, written)
    BY <1>1 DEF PanelSound
  <2> QED
    BY <1>1, <1>3, <1>4, <2>1, PanelOnly DEF serverVars
<1>5. CASE active # None /\ Put(t, q) /\ seen' = seen \cup {<<active, panel[t].opts>>}
  <2>0. required \in BOOLEAN /\ blocked \in BOOLEAN
    OBVIOUS
  <2> HIDE DEF p, required, blocked
  <2>1. /\ q \in Panel /\ q.preview = active /\ q.busy = "no"
        /\ q.required = required /\ q.known = p.known /\ q.dest = p.dest
    BY <1>1, <1>2, <1>5, <2>0 DEF Panel
  <2> HIDE DEF q
  <2>2. PreviewedIn(active, seen')
    BY <1>2, <1>5 DEF PreviewedIn
  <2>3. confirmed[active] => active \in written
    BY <1>2, <1>5 DEF SetupInv, OnlyWrittenIsConfirmed
  <2>4. PanelSound(q, seen', written')
    BY <1>1, <1>3, <2>1, <2>2, <2>3 DEF PanelSound, required
  <2>5. PanelTypeOK' /\ PanelInv'
    BY <1>3, <1>5, <2>1, <2>4, PanelSet DEF SetupInv
  <2>6. RunsInv'
    BY <1>3, <1>5, RunsOn DEF SetupInv, RunsInv
  <2>7. ServerTypeOK'
    <3>1. seen' \subseteq Books \X Options
      BY <1>2, <1>5
    <3> QED
      BY <1>3, <3>1 DEF SetupInv, ServerTypeOK
  <2> QED
    BY <2>5, <2>6, <2>7
<1> QED
  BY <1>4, <1>5 DEF PreviewAnswers

-----------------------------------------------------------------------------
(* The runs.                                                               *)

LEMMA StartedTypes ==
    ASSUME run \in [Runs -> Run], NEW r \in Runs, NEW flag \in BOOLEAN,
           NEW book \in Books \cup {None}, NEW opts \in Options
    PROVE  /\ Started(r, flag, book, opts) \in [Runs -> Run]
           /\ Started(r, flag, book, opts)[r].pc = "import"
           /\ Started(r, flag, book, opts)[r].confirmed = flag
           /\ Started(r, flag, book, opts)[r].shown = book
           /\ \A s \in Runs : s # r => Started(r, flag, book, opts)[s] = run[s]
<1> DEFINE n == [NoRun EXCEPT !.pc = "import", !.confirmed = flag,
                              !.shown = book, !.opts = opts]
<1>1. /\ n \in Run /\ n.pc = "import" /\ n.confirmed = flag /\ n.shown = book
  BY DEF NoRun, Run, Options
<1>2. Started(r, flag, book, opts) = [run EXCEPT ![r] = n]
  BY DEF Started
<1> HIDE DEF n
<1> QED
  BY <1>1, <1>2

\* A run that begins with a flag that somebody vouches for.
LEMMA StartedInv ==
    ASSUME SetupInv, NEW r \in Runs, NEW flag \in BOOLEAN,
           NEW book \in Books \cup {None}, NEW opts \in Options,
           flag /\ book # None => VouchedIn(book, seen, written),
           run' = Started(r, flag, book, opts),
           UNCHANGED <<active, confirmed, stored, saved, written, seen>>
    PROVE  ServerTypeOK' /\ RunsInv'
<1>1. run \in [Runs -> Run]
  BY DEF SetupInv, ServerTypeOK
<1>2. /\ run' \in [Runs -> Run] /\ run'[r].pc = "import"
      /\ run'[r].confirmed = flag /\ run'[r].shown = book
      /\ \A s \in Runs : s # r => run'[s] = run[s]
  BY <1>1, StartedTypes
<1>3. ServerTypeOK'
  BY <1>2 DEF SetupInv, ServerTypeOK
<1>4. FlagInv' /\ ShownIsPreviewed'
  BY <1>2 DEF SetupInv, FlagInv, ShownIsPreviewed, Vouched, Previewed, VouchedIn,
              PreviewedIn
<1> QED
  BY <1>3, <1>4 DEF SetupInv, RunsInv, OnlyWrittenIsConfirmed

LEMMA EndedTypes ==
    ASSUME run \in [Runs -> Run], NEW r \in Runs, Ended(r)
    PROVE  /\ run' \in [Runs -> Run] /\ run'[r].pc = "done"
           /\ \A s \in Runs : s # r => run'[s] = run[s]
<1> DEFINE n == [NoRun EXCEPT !.pc = "done"]
<1>1. n \in Run /\ n.pc = "done"
  BY DEF NoRun, Run, Options
<1>2. run' = [run EXCEPT ![r] = n]
  BY DEF Ended
<1> HIDE DEF n
<1> QED
  BY <1>1, <1>2

\* A run goes on to write for the book that is active, if that one was
\* written to before or the flag allows it.
LEMMA PlanInv ==
    ASSUME SetupInv, NEW r \in Runs, Plan(r)
    PROVE  ServerTypeOK' /\ RunsInv'
<1>1. /\ run \in [Runs -> Run] /\ active \in Books \cup {None}
      /\ UNCHANGED <<active, confirmed, stored, saved, written, seen>>
      /\ run[r].pc = "import" /\ FlagInv
  BY DEF SetupInv, ServerTypeOK, Plan
<1>2. CASE Ended(r)
  <2>1. /\ run' \in [Runs -> Run] /\ run'[r].pc = "done"
        /\ \A s \in Runs : s # r => run'[s] = run[s]
    BY <1>1, <1>2, EndedTypes
  <2>2. ServerTypeOK'
    BY <1>1, <2>1 DEF SetupInv, ServerTypeOK
  <2>3. FlagInv' /\ ShownIsPreviewed'
    BY <1>1, <2>1 DEF SetupInv, FlagInv, ShownIsPreviewed, Vouched, Previewed
  <2> QED
    BY <1>1, <2>2, <2>3 DEF SetupInv, RunsInv, OnlyWrittenIsConfirmed
<1>3. CASE /\ active # None /\ (confirmed[active] \/ run[r].confirmed)
           /\ run' = [run EXCEPT ![r].pc = "write", ![r].book = active,
                                 ![r].confirmed = FALSE]
  <2>1. /\ run' \in [Runs -> Run] /\ run'[r].pc = "write" /\ run'[r].book = active
        /\ run'[r].shown = run[r].shown
        /\ \A s \in Runs : s # r => run'[s] = run[s]
    BY <1>1, <1>3 DEF Run
  <2>2. active \in Books
    BY <1>1, <1>3
  <2>3. confirmed[active] => active \in written
    BY <2>2 DEF SetupInv, OnlyWrittenIsConfirmed
  <2>4. run[r].shown = active => Vouched(active)
    BY <1>1, <1>3, <2>3 DEF FlagInv, Vouched
  <2>5. ServerTypeOK'
    BY <1>1, <2>1 DEF SetupInv, ServerTypeOK
  <2>6. FlagInv' /\ ShownIsPreviewed'
    BY <1>1, <2>1, <2>2, <2>4
       DEF SetupInv, FlagInv, ShownIsPreviewed, Vouched, Previewed
  <2> QED
    BY <1>1, <2>5, <2>6 DEF SetupInv, RunsInv, OnlyWrittenIsConfirmed
<1> QED
  BY <1>2, <1>3 DEF Plan

\* The book that is confirmed is the one that was written to.
LEMMA WriteRowsInv ==
    ASSUME SetupInv, NEW r \in Runs, WriteRows(r)
    PROVE  ServerTypeOK' /\ RunsInv' /\ written \subseteq written'
<1>1. /\ run \in [Runs -> Run] /\ confirmed \in [Books -> BOOLEAN]
      /\ UNCHANGED <<active, stored, saved, seen>> /\ Ended(r)
      /\ run[r].pc = "write" /\ FlagInv /\ written \subseteq Books
  BY DEF SetupInv, ServerTypeOK, WriteRows
<1>2. run[r].book \in Books
  BY <1>1 DEF FlagInv
<1>3. /\ run' \in [Runs -> Run] /\ run'[r].pc = "done"
      /\ \A s \in Runs : s # r => run'[s] = run[s]
  BY <1>1, EndedTypes
<1>4. /\ written \subseteq written' /\ written' \subseteq Books
      /\ \/ confirmed' = confirmed
         \/ /\ written' = written \cup {run[r].book}
            /\ confirmed' = [confirmed EXCEPT ![run[r].book] = TRUE]
  BY <1>1, <1>2 DEF WriteRows, ConfirmedBy
<1>5. ServerTypeOK'
  <2>1. confirmed' \in [Books -> BOOLEAN]
    BY <1>1, <1>2, <1>4
  <2> QED
    BY <1>1, <1>3, <1>4, <2>1 DEF SetupInv, ServerTypeOK
<1>6. OnlyWrittenIsConfirmed'
  BY <1>1, <1>2, <1>4 DEF SetupInv, OnlyWrittenIsConfirmed
<1>7. FlagInv' /\ ShownIsPreviewed'
  BY <1>1, <1>3, <1>4 DEF SetupInv, FlagInv, ShownIsPreviewed, Vouched, Previewed
<1> QED
  BY <1>4, <1>5, <1>6, <1>7 DEF SetupInv, RunsInv

\* POST /api/sync: the run is given the flag of the request and the book that
\* the page showed.
LEMMA StartAnswersInv ==
    ASSUME SetupInv, NEW t \in PanelTabs, StartAnswers(t)
    PROVE  ServerTypeOK' /\ PanelTypeOK' /\ PanelInv' /\ RunsInv'
<1> DEFINE p == [panel[t] EXCEPT !.confirmed = FALSE, !.shown = None]
           off == [p EXCEPT !.busy = "no"]
           on(r) == [p EXCEPT !.busy = "poll", !.job = r]
<1>1. panel[t] \in Panel /\ PanelSound(panel[t], seen, written)
      /\ panel[t].busy = "start"
  BY PanelOf DEF StartAnswers
<1>2. UNCHANGED <<active, confirmed, stored, saved, written, seen>>
  BY DEF StartAnswers
<1>3. off \in Panel /\ PanelSound(off, seen, written)
  BY <1>1 DEF Panel, PanelSound
<1>4. \A r \in Runs : on(r) \in Panel /\ PanelSound(on(r), seen, written)
  BY <1>1 DEF Panel, PanelSound
<1>5. CASE run' = run /\ Put(t, off)
  <2> HIDE DEF off
  <2> QED
    BY <1>2, <1>3, <1>5, PanelOnly DEF serverVars
<1>6. CASE \E r \in Fresh :
             /\ run' = Started(r, panel[t].confirmed, panel[t].shown, panel[t].opts)
             /\ Put(t, on(r)) \/ Put(t, off)
  <2>1. PICK r \in Runs :
             /\ run' = Started(r, panel[t].confirmed, panel[t].shown, panel[t].opts)
             /\ Put(t, on(r)) \/ Put(t, off)
    BY <1>6 DEF Fresh
  <2>2. /\ panel[t].confirmed \in BOOLEAN /\ panel[t].shown \in Books \cup {None}
        /\ panel[t].opts \in Options
        /\ panel[t].confirmed => VouchedIn(panel[t].shown, seen, written)
    BY <1>1 DEF Panel, PanelSound
  <2>3. ServerTypeOK' /\ RunsInv'
    BY <1>2, <2>1, <2>2, StartedInv
  <2> HIDE DEF on, off
  <2>4. PanelTypeOK' /\ PanelInv'
    BY <1>2, <1>3, <1>4, <2>1, PanelSet DEF SetupInv
  <2> QED
    BY <2>3, <2>4
<1> QED
  BY <1>5, <1>6 DEF StartAnswers

LEMMA PanelStepInv ==
    ASSUME SetupInv, NEW t \in PanelTabs, PanelStep(t)
    PROVE  ServerTypeOK' /\ PanelTypeOK' /\ PanelInv' /\ RunsInv'
BY OpenPanelInv, RefreshPanelInv, PanelClicksInv, RunSyncInv, PreviewAnswersInv,
   StartAnswersInv DEF PanelStep, PanelServes

-----------------------------------------------------------------------------
(* All of it.                                                              *)

\* A step elsewhere that the runs and the panels have no part in.
LEMMA RunsUntouched ==
    ASSUME SetupInv, UNCHANGED <<confirmed, run, written, seen, panel>>
    PROVE  PanelTypeOK' /\ PanelInv' /\ RunsInv'
BY PanelsOn, RunsOn DEF SetupInv, RunsInv

LEMMA PagesUntouched ==
    /\ EditInv /\ UNCHANGED editorVars => EditInv'
    /\ PickInv /\ UNCHANGED picker => PickInv'
    /\ PanelTypeOK /\ PanelInv /\ panel' = panel
          /\ seen \subseteq seen' /\ written \subseteq written' => PanelTypeOK' /\ PanelInv'
<1>1. EditInv /\ UNCHANGED editorVars => EditInv'
  BY DEF EditInv, EditorTypeOK, ToldInv, Told, editorVars
<1>2. PickInv /\ UNCHANGED picker => PickInv'
  BY DEF PickInv, PickerTypeOK
<1> QED
  BY <1>1, <1>2, PanelsOn

LEMMA SetupInit == ASSUME Init PROVE SetupInv
<1>1. PICK kept \in {{}, {"a"}} : ServerInit(kept)
  BY DEF Init
<1>2. ServerTypeOK
  <2>1. NoRun \in Run
    BY DEF NoRun, Run, Options
  <2>2. kept \in Rows
    BY DEF Rows
  <2> QED
    BY <1>1, <2>1, <2>2 DEF ServerInit, ServerTypeOK
<1>3. EditInv
  <2>1. /\ Closed \in Editor /\ Closed.kind = None /\ Closed.pc = "idle"
        /\ ~Closed.stale /\ Quiet \in Side /\ Quiet.pc = "idle"
    BY DEF Closed, Quiet, Editor, Side, Calls, Stages, Rows, Places
  <2> QED
    BY <2>1 DEF Init, EditorInit, EditInv, EditorTypeOK, ToldInv
<1>4. PickInv
  <2>1. NoPage \in Page /\ NoPage.title = None /\ ~NoPage.open
    BY PickerAssumption DEF NoPage, Page, Asks
  <2> QED
    BY <2>1 DEF Init, PickerInit, PickInv, PickerTypeOK
<1>5. PanelTypeOK /\ PanelInv
  BY NoPanelTypes DEF Init, PanelInit, PanelTypeOK, PanelInv
<1>6. FlagInv /\ ShownIsPreviewed /\ OnlyWrittenIsConfirmed
  BY <1>1 DEF ServerInit, FlagInv, ShownIsPreviewed, OnlyWrittenIsConfirmed, NoRun
<1> QED
  BY <1>2, <1>3, <1>4, <1>5, <1>6 DEF SetupInv

LEMMA SetupStep == ASSUME SetupInv, [Next]_vars PROVE SetupInv'
<1> SUFFICES /\ ServerTypeOK' /\ EditInv' /\ PickInv'
             /\ PanelTypeOK' /\ PanelInv' /\ RunsInv'
  BY DEF SetupInv, RunsInv
<1>0. /\ ServerTypeOK /\ EditInv /\ PickInv /\ PanelTypeOK /\ PanelInv
      /\ FlagInv /\ OnlyWrittenIsConfirmed /\ ShownIsPreviewed
  BY DEF SetupInv
<1>1. ASSUME UNCHANGED serverVars, panel' = panel
      PROVE  ServerTypeOK' /\ PanelTypeOK' /\ PanelInv' /\ RunsInv'
  BY <1>0, <1>1, RunsUntouched DEF serverVars, ServerTypeOK
<1>2. CASE UNCHANGED vars
  BY <1>0, <1>1, <1>2, PagesUntouched DEF vars, pageVars
<1>3. CASE SelectedElsewhere
  <2>1. PICK b \in Books : Select(b) /\ UNCHANGED pageVars
    BY <1>3 DEF SelectedElsewhere
  <2>2. ServerTypeOK' /\ UNCHANGED <<confirmed, run, written, seen, panel>>
    BY <1>0, <2>1 DEF Select, ServerTypeOK, pageVars
  <2> QED
    BY <1>0, <2>1, <2>2, RunsUntouched, PagesUntouched DEF pageVars
<1>4. CASE Works
  <2>1. UNCHANGED pageVars
    BY <1>4 DEF Works
  <2>2. ServerTypeOK' /\ RunsInv' /\ seen \subseteq seen' /\ written \subseteq written'
    <3>1. CASE StartScheduled
      <4>1. PICK r \in Runs : run' = Started(r, TRUE, None, "default")
        BY <3>1 DEF StartScheduled, Fresh
      <4>2. UNCHANGED <<active, confirmed, stored, saved, written, seen>>
            /\ "default" \in Options
        BY <3>1 DEF StartScheduled, Options
      <4> QED
        BY <4>1, <4>2, StartedInv
    <3>2. CASE \E r \in Runs : RunStep(r)
      <4>1. PICK r \in Runs : Plan(r) \/ WriteRows(r)
        BY <3>2 DEF RunStep
      <4>2. CASE Plan(r)
        BY <4>2, PlanInv DEF Plan
      <4>3. CASE WriteRows(r)
        BY <4>3, WriteRowsInv DEF WriteRows
      <4> QED
        BY <4>1, <4>2, <4>3
    <3> QED
      BY <1>4, <3>1, <3>2 DEF Works
  <2> QED
    BY <1>0, <2>1, <2>2, PagesUntouched DEF pageVars
<1>5. CASE Pauses
  <2>1. stored' = [stored EXCEPT !["automation"][None] = {}]
        /\ UNCHANGED <<active, confirmed, saved, run, written, seen>>
        /\ UNCHANGED pageVars
    BY <1>5 DEF Pauses, Paused
  <2>2. ServerTypeOK'
    <3>1. {} \in Rows /\ None \in Places /\ "automation" \in Kinds
      BY DestinationAssumption DEF Rows, Places
    <3>2. stored' \in [Kinds -> [Places -> Rows]]
      BY <1>0, <2>1, <3>1 DEF ServerTypeOK
    <3> QED
      BY <1>0, <2>1, <3>2 DEF ServerTypeOK
  <2> QED
    BY <1>0, <2>1, <2>2, RunsUntouched, PagesUntouched DEF pageVars
<1>6. ASSUME NEW t \in Tabs, OnEditor(t)
      PROVE  /\ ServerTypeOK' /\ EditInv' /\ PickInv'
             /\ PanelTypeOK' /\ PanelInv' /\ RunsInv'
  <2>1. t \in EditTabs /\ scene \in Kinds /\ EditorStep(t, scene)
        /\ UNCHANGED <<picker, panel>>
    BY <1>6 DEF OnEditor
  <2>2. UNCHANGED <<confirmed, run, written, seen>>
    BY <2>1
       DEF serverVars, EditorStep, EditorServes, OpenEditor, CloseEditor, ClickSide,
           Retyped, TypeMapping, TypeRules, TypeFilters, TypeOptions, TypeAutomation,
           TypeProfile, TypePreferences, TypeSecurity, Discard, ClickAutoMap,
           Sent, SaveMapping, SaveRules, SaveFilters, SaveOptions, SaveAutomation,
           SaveProfile, SavePreferences, SaveSecurity, Reach, TakeAnswer,
           Refreshed, ReachSide, AnswerSide, Commit, PutMappings, PutRules,
           PutFilters, PatchOptions, PutAutomation, PutSettings, PostMappings,
           CommitSide
  <2> QED
    BY <1>0, <2>1, <2>2, EditorStepInv, EditorServerTypes, RunsUntouched,
       PagesUntouched
<1>7. ASSUME NEW t \in Tabs, OnPicker(t)
      PROVE  /\ ServerTypeOK' /\ EditInv' /\ PickInv'
             /\ PanelTypeOK' /\ PanelInv' /\ RunsInv'
  <2>1. t \in PickTabs /\ PickerStep(t) /\ UNCHANGED <<editorVars, panel>>
    BY <1>7 DEF OnPicker
  <2>2. UNCHANGED serverVars \/ Switch(t)
    BY <2>1
       DEF PickerStep, PickerServes, OpenPicker, LoadSpreadsheets, ClickSelect,
           PickerRefreshed, ClosePicker, ListAnswers, WorksheetsAnswer, ReadHeaders,
           ChooseSpreadsheet
  <2>3. CASE Switch(t)
    <3>1. picker[t].wanted \in Books \cup {None} /\ Select(picker[t].wanted)
      BY <1>0, <2>1, <2>3 DEF Switch, PickInv, PickerTypeOK, Page
    <3>2. ServerTypeOK' /\ UNCHANGED <<confirmed, run, written, seen, panel>>
      BY <1>0, <2>1, <3>1 DEF Select, ServerTypeOK
    <3> QED
      BY <1>0, <2>1, <3>2, PickerStepInv, RunsUntouched, PagesUntouched
  <2> QED
    BY <1>0, <1>1, <2>1, <2>2, <2>3, PickerStepInv, PagesUntouched
<1>8. ASSUME NEW t \in Tabs, OnPanel(t)
      PROVE  /\ ServerTypeOK' /\ EditInv' /\ PickInv'
             /\ PanelTypeOK' /\ PanelInv' /\ RunsInv'
  BY <1>0, <1>8, PanelStepInv, PagesUntouched DEF OnPanel
<1>9. ASSUME NEW t \in Tabs, OnConnections(t)
      PROVE  /\ ServerTypeOK' /\ EditInv' /\ PickInv'
             /\ PanelTypeOK' /\ PanelInv' /\ RunsInv'
  BY <1>0, <1>1, <1>9, PagesUntouched DEF OnConnections
<1> QED
  BY <1>2, <1>3, <1>4, <1>5, <1>6, <1>7, <1>8, <1>9 DEF Next

LEMMA SetupInvariance == Spec => []SetupInv
<1>1. Init => SetupInv
  BY SetupInit
<1>2. SetupInv /\ [Next]_vars => SetupInv'
  BY SetupStep
<1> QED
  BY <1>1, <1>2, PTL DEF Spec

\* A destination counts as confirmed (bulkSyncConfirmedAt) only when a run has
\* written to it, although another may be selected while the run goes on.
THEOREM ConfirmedMeansWritten == Spec => []OnlyWrittenIsConfirmed
<1>1. SetupInv => OnlyWrittenIsConfirmed
  BY DEF SetupInv
<1> QED
  BY <1>1, SetupInvariance, PTL

\* A run that a page started writes for the first time only to a book of which
\* a preview was shown, if the page's destination is still the active one:
\* the flag of POST /api/sync stands for the preview or an earlier run.
THEOREM FirstWritesWereShown == Spec => []ShownIsPreviewed
<1>1. SetupInv => ShownIsPreviewed
  BY DEF SetupInv
<1> QED
  BY <1>1, SetupInvariance, PTL

\* A list without the badge "Unsaved changes" shows rows that the server has
\* sent or accepted, whatever was typed while a save was under way.
THEOREM CleanListsWereTold == Spec => []CleanMeansTold
<1>1. SetupInv => CleanMeansTold
  <2> SUFFICES ASSUME SetupInv, NEW t \in EditTabs, IsList(t), ~Dirty(t)
               PROVE  editor[t].rows \in editor[t].told
    BY DEF CleanMeansTold
  <2>1. editor[t].kind # None
    BY DestinationAssumption DEF IsList, Lists, OfDestination
  <2> QED
    BY <2>1, AtWork DEF SetupInv, Told, Dirty
<1> QED
  BY <1>1, SetupInvariance, PTL

\* The worksheet that SpreadsheetPicker may save is one of the book selected,
\* in whatever order the answers for earlier choices arrive.
THEOREM SavedTabsExist == Spec => []PickedTabExists
<1>1. SetupInv => PickedTabExists
  BY DEF SetupInv, PickInv, PickedTabExists, CanSave
<1> QED
  BY <1>1, SetupInvariance, PTL

\* The list of books that is on the page answers the last question asked.
THEOREM ListsAreLatest == Spec => []ListIsLatest
<1>1. SetupInv => ListIsLatest
  BY DEF SetupInv, PickInv, ListIsLatest
<1> QED
  BY <1>1, SetupInvariance, PTL

\* The connection panel has a state of its own.
LEMMA PopupTypes ==
    ASSUME PopupTypeOK, NEW t \in PopupTabs, PopupStep(t) PROVE PopupTypeOK'
<1>1. consent[t] \in Consent /\ NoConsent \in Consent
  BY DEF PopupTypeOK, Consent, NoConsent
<1>2. PICK c \in Consent : Turn(t, c)
  <2>1. CASE OpenConnections(t) \/ LeaveConnections(t) \/ StartOauth(t)
    BY <1>1, <2>1 DEF OpenConnections, LeaveConnections, StartOauth, Consent
  <2>2. CASE Reports(t)
    <3>1. PICK sent \in BOOLEAN :
             Turn(t, [consent[t] EXCEPT !.window = "back", !.mail = @ \/ sent])
      BY <2>2 DEF Reports
    <3>2. [consent[t] EXCEPT !.window = "back", !.mail = @ \/ sent] \in Consent
      BY <1>1 DEF Consent
    <3> QED
      BY <3>1, <3>2
  <2>3. CASE WindowCloses(t)
    BY <1>1, <2>3 DEF WindowCloses, Consent
  <2>4. CASE PopupServes(t)
    BY <1>1, <2>4 DEF PopupServes, OnMessage, PollClosed, Released, Consent
  <2> QED
    BY <2>1, <2>2, <2>3, <2>4 DEF PopupStep
<1> QED
  BY <1>2 DEF Turn, PopupTypeOK

\* What the server keeps and what the pages hold stays well typed, whatever is
\* edited, selected, started or lost.
THEOREM SetupTypesKept == Spec => []TypeOK
<1>1. Init => PopupTypeOK
  BY DEF Init, PopupInit, PopupTypeOK, Consent, NoConsent
<1>2. PopupTypeOK /\ [Next]_vars => PopupTypeOK'
  <2> SUFFICES ASSUME PopupTypeOK, [Next]_vars PROVE PopupTypeOK'
    OBVIOUS
  <2>1. CASE consent' = consent
    BY <2>1 DEF PopupTypeOK
  <2>2. consent' = consent \/ \E t \in Tabs : OnConnections(t)
    BY DEF Next, SelectedElsewhere, Works, Pauses, OnEditor, OnPicker, OnPanel,
           vars, pageVars
  <2> QED
    BY <2>1, <2>2, PopupTypes DEF OnConnections
<1>3. SetupInv /\ PopupTypeOK => TypeOK
  BY DEF SetupInv, EditInv, PickInv, TypeOK
<1> QED
  BY <1>1, <1>2, <1>3, SetupInvariance, PTL DEF Spec
=============================================================================
