------------------------------- MODULE Setup -------------------------------
(***************************************************************************)
(* The pages of one workspace in several tabs over the state they share:   *)
(* the editors, the picker of the destination, the sync panel and the      *)
(* connection panel, beside the runs.  A tab shows one page.               *)
(*                                                                         *)
(* Bound: a behaviour visits the pages of one scene, since pages of        *)
(* different scenes share nothing but the destination, which may be        *)
(* selected anew in every scene, the mapping, of which a run finds what    *)
(* was stored before, and the schedule, which a run may turn off.          *)
(***************************************************************************)
EXTENDS Editors, Picker, SyncPanel, Popup

VARIABLE scene      \* which pages are visited

pageVars == <<editorVars, picker, panel, consent, scene>>
vars == <<serverVars, pageVars>>

TypeOK == ServerTypeOK /\ EditorTypeOK /\ PickerTypeOK /\ PanelTypeOK /\ PopupTypeOK

Init ==
    /\ EditorInit /\ PickerInit /\ PanelInit /\ PopupInit
    /\ scene \in Kinds \cup {"connections", "runs"}
    /\ \E kept \in IF scene = "runs" THEN {{}, {"a"}} ELSE {{}} : ServerInit(kept)

Edits(t)    == t \in EditTabs  /\ editor[t].kind # None
Picks(t)    == t \in PickTabs  /\ picker[t].open
Watches(t)  == t \in PanelTabs /\ panel[t].open
Connects(t) == t \in PopupTabs /\ consent[t].open

OnEditor(t) ==
    /\ scene \in Kinds /\ t \in EditTabs /\ ~(Picks(t) \/ Watches(t) \/ Connects(t))
    /\ EditorStep(t, scene) /\ UNCHANGED <<picker, panel, consent, scene>>

OnPicker(t) ==
    /\ scene = "connections" /\ t \in PickTabs /\ ~(Edits(t) \/ Watches(t) \/ Connects(t))
    /\ PickerStep(t) /\ UNCHANGED <<editorVars, panel, consent, scene>>

OnPanel(t) ==
    /\ scene = "runs" /\ t \in PanelTabs /\ ~(Edits(t) \/ Picks(t) \/ Connects(t))
    /\ PanelStep(t) /\ UNCHANGED <<editorVars, picker, consent, scene>>

OnConnections(t) ==
    /\ scene = "connections" /\ t \in PopupTabs /\ ~(Edits(t) \/ Picks(t) \/ Watches(t))
    /\ PopupStep(t) /\ UNCHANGED <<serverVars, editorVars, picker, panel, scene>>

Pauses == /\ scene = "automation" /\ Paused
          /\ UNCHANGED pageVars

Works == /\ scene = "runs"
         /\ StartScheduled \/ \E r \in Runs : RunStep(r)
         /\ UNCHANGED pageVars

\* In a tab or on a device of which nothing else is followed here.
SelectedElsewhere == /\ \E b \in Books \ {active} : Select(b)
                     /\ UNCHANGED pageVars

Next ==
    \/ SelectedElsewhere
    \/ Works
    \/ Pauses
    \/ \E t \in Tabs : OnEditor(t) \/ OnPicker(t) \/ OnPanel(t) \/ OnConnections(t)

Spec == Init /\ [][Next]_vars

\* The worker goes on with a run it has, requests are answered, a page that
\* is to be rendered again is, and the timers of a page fire.  Nobody has to
\* click, and no request has to fail.
FairSpec ==
    /\ Spec
    /\ \A r \in Runs : WF_vars(RunStep(r) /\ UNCHANGED pageVars)
    /\ \A t \in PanelTabs :
          WF_vars(PanelServes(t) /\ UNCHANGED <<editorVars, picker, consent, scene>>)
    /\ \A t \in PopupTabs :
          WF_vars(PopupServes(t) /\ UNCHANGED <<serverVars, editorVars, picker, panel, scene>>)
=============================================================================
