----------------------------- MODULE SyncPanel -----------------------------
(***************************************************************************)
(* SyncNowPanel on the dashboard: options, a preview, the confirmation of  *)
(* the first bulk sync, the start of a run and the poll that follows it.   *)
(* A request and its answer are one step: the buttons are disabled until   *)
(* then, and the server may change before or after.                        *)
(***************************************************************************)
EXTENDS Destination

CONSTANT PanelTabs  \* the tabs that open this page

VARIABLE panel

\* dest, known: the props (hasDestination, alreadyConfirmed); preview: the
\* book of the preview on the page; shown: the book on the page at the click;
\* job: the run that is polled.
Panel == [open: BOOLEAN, dest: Books \cup {None}, known: BOOLEAN,
          opts: Options, preview: Books \cup {None}, required: BOOLEAN, blocked: BOOLEAN,
          busy: {"no", "preview", "start", "poll"}, confirmed: BOOLEAN,
          shown: Books \cup {None},
          job: Runs \cup {None}, jobShown: BOOLEAN, stale: BOOLEAN]

NoPanel == [open |-> FALSE, dest |-> None, known |-> FALSE,
            opts |-> "default", preview |-> None, required |-> FALSE, blocked |-> FALSE,
            busy |-> "no", confirmed |-> FALSE, shown |-> None,
            job |-> None, jobShown |-> FALSE, stale |-> FALSE]

PanelTypeOK == panel \in [PanelTabs -> Panel]
PanelInit == panel = [t \in PanelTabs |-> NoPanel]

Put(t, p) == panel' = [panel EXCEPT ![t] = p]
Without(p) == [p EXCEPT !.preview = None, !.required = FALSE, !.blocked = FALSE]
IsConfirmed == active # None /\ confirmed[active]

-----------------------------------------------------------------------------
(* The page.                                                               *)

OpenPanel(t) ==
    /\ ~panel[t].open
    /\ Put(t, [NoPanel EXCEPT !.open = TRUE, !.dest = active, !.known = IsConfirmed])
    /\ UNCHANGED serverVars

\* The poll ends with the page.
ClosePanel(t) ==
    /\ panel[t].open /\ panel[t].busy \in {"no", "poll"}
    /\ Put(t, NoPanel)
    /\ UNCHANGED serverVars

RefreshPanel(t) ==
    /\ panel[t].stale
    /\ Put(t, [panel[t] EXCEPT !.stale = FALSE, !.dest = active, !.known = IsConfirmed])
    /\ UNCHANGED serverVars

-----------------------------------------------------------------------------
(* The options and the preview, which stays when they are changed.         *)

ChangeOptions(t) ==
    /\ panel[t].open /\ panel[t].busy = "no"
    /\ \E o \in Options \ {panel[t].opts} : Put(t, [panel[t] EXCEPT !.opts = o])
    /\ UNCHANGED serverVars

ClickPreview(t) ==
    /\ panel[t].dest # None /\ panel[t].busy = "no"
    /\ Put(t, [panel[t] EXCEPT !.busy = "preview", !.job = None, !.jobShown = FALSE])
    /\ UNCHANGED serverVars

\* The plan of the destination that is active now, or a failure.
PreviewAnswers(t) ==
    LET p == [Without(panel[t]) EXCEPT !.busy = "no"] IN
    /\ panel[t].busy = "preview"
    /\ \/ Put(t, p) /\ UNCHANGED seen
       \/ /\ active # None
          /\ Put(t, [p EXCEPT !.preview = active, !.required = ~confirmed[active],
                              !.blocked = "a" \notin stored["mapping"][active]])
          /\ seen' = seen \cup {<<active, panel[t].opts>>}
    /\ UNCHANGED <<active, confirmed, stored, saved, run, written>>

-----------------------------------------------------------------------------
(* The run.                                                                *)

\* Mutant: only a preview asks.
NeedsWhenPreviewed(p) == p.preview # None /\ p.required

\* What the preview found, or what the page knew when it was rendered.
NeedsConfirmation(p) == IF p.preview # None THEN p.required ELSE ~p.known

RunSync(t, flag) ==
    /\ panel[t].busy = "no"
    /\ Put(t, [panel[t] EXCEPT !.busy = "start", !.confirmed = flag,
                  !.shown = IF panel[t].preview # None THEN panel[t].preview
                                                       ELSE panel[t].dest])
    /\ UNCHANGED serverVars

ClickSync(t) ==
    /\ panel[t].dest # None /\ ~panel[t].blocked
    /\ NeedsConfirmation(panel[t]) => panel[t].preview # None
    /\ RunSync(t, ~NeedsConfirmation(panel[t]))

\* "Confirm and sync" stands below a preview that is shown.
ClickConfirm(t) ==
    /\ panel[t].preview # None /\ ~panel[t].jobShown
    /\ panel[t].required /\ ~panel[t].blocked
    /\ RunSync(t, TRUE)

\* POST /api/sync starts the run, or finds no destination or another run;
\* its answer may be lost.
StartAnswers(t) ==
    LET p == [panel[t] EXCEPT !.confirmed = FALSE, !.shown = None] IN
    /\ panel[t].busy = "start"
    /\ \/ /\ active # None /\ Running = {}
          /\ \E r \in Fresh :
                /\ run' = Started(r, panel[t].confirmed, panel[t].shown, panel[t].opts)
                /\ \/ Put(t, [p EXCEPT !.busy = "poll", !.job = r])
                   \/ Put(t, [p EXCEPT !.busy = "no"])
       \/ UNCHANGED run /\ Put(t, [p EXCEPT !.busy = "no"])
    /\ UNCHANGED <<active, confirmed, stored, saved, written, seen>>

Poll(t) ==
    LET p == panel[t] IN
    /\ p.busy = "poll" /\ p.job # None
    /\ Put(t, IF Done(p.job)
              THEN [Without(p) EXCEPT !.busy = "no", !.jobShown = TRUE, !.stale = TRUE]
              ELSE [p EXCEPT !.jobShown = TRUE])
    /\ UNCHANGED serverVars

\* Mutant: the panel stays busy.
GaveUpSilently(p) == [p EXCEPT !.job = None]

\* "Lost track of the sync job."
GaveUp(p) == [p EXCEPT !.job = None, !.busy = "no"]

PollFails(t) ==
    /\ panel[t].busy = "poll" /\ panel[t].job # None
    /\ Put(t, GaveUp(panel[t]))
    /\ UNCHANGED serverVars

PanelServes(t) == PreviewAnswers(t) \/ StartAnswers(t) \/ Poll(t) \/ RefreshPanel(t)

PanelStep(t) ==
    \/ OpenPanel(t) \/ ClosePanel(t) \/ ChangeOptions(t) \/ ClickPreview(t)
    \/ ClickSync(t) \/ ClickConfirm(t) \/ PollFails(t) \/ PanelServes(t)

-----------------------------------------------------------------------------
(* Properties.                                                             *)

\* The buttons come back, whether the run ends, cannot start, or its answers
\* get lost.
PanelRecovers ==
    \A t \in PanelTabs : panel[t].busy # "no" ~> panel[t].busy = "no"
=============================================================================
