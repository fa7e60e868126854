------------------------------- MODULE Popup -------------------------------
(***************************************************************************)
(* EbayConnectionPanel and OauthPopupCloser: the consent runs in a window  *)
(* of its own, which reports to the page and closes, or is closed by hand, *)
(* or was blocked.                                                         *)
(***************************************************************************)
EXTENDS Naturals

CONSTANT PopupTabs  \* the tabs that open this page

VARIABLE consent

\* navigating: the button waits; window: the popup; watched: popupRef is set;
\* mail: a message on its way.
Consent == [open: BOOLEAN, navigating: BOOLEAN, watched: BOOLEAN,
            window: {"none", "consent", "back", "closed"}, mail: BOOLEAN]

NoConsent == [open |-> FALSE, navigating |-> FALSE, watched |-> FALSE,
              window |-> "none", mail |-> FALSE]

PopupTypeOK == consent \in [PopupTabs -> Consent]
PopupInit == consent = [t \in PopupTabs |-> NoConsent]

Turn(t, c) == consent' = [consent EXCEPT ![t] = c]

OpenConnections(t) ==
    /\ ~consent[t].open
    /\ Turn(t, [NoConsent EXCEPT !.open = TRUE])

LeaveConnections(t) ==
    /\ consent[t].open
    /\ Turn(t, NoConsent)

\* A window of that name that is still there is used again.  Without a popup
\* the tab itself goes to the provider.
StartOauth(t) ==
    /\ consent[t].open /\ ~consent[t].navigating
    /\ \/ Turn(t, [consent[t] EXCEPT !.navigating = TRUE, !.watched = TRUE,
                                     !.window = "consent"])
       \/ Turn(t, NoConsent)

\* The provider sends the popup back; the message may not be deliverable.
Reports(t) ==
    /\ consent[t].window = "consent"
    /\ \E sent \in BOOLEAN :
          Turn(t, [consent[t] EXCEPT !.window = "back", !.mail = @ \/ sent])

\* By itself once it is back, unless the browser refuses; by hand any time.
WindowCloses(t) ==
    /\ consent[t].window \in {"consent", "back"}
    /\ Turn(t, [consent[t] EXCEPT !.window = "closed"])

\* setNavigating(false), popupRef.current = null
Released(c) == [c EXCEPT !.navigating = FALSE, !.watched = FALSE]

OnMessage(t) ==
    /\ consent[t].mail
    /\ Turn(t, [Released(consent[t]) EXCEPT !.mail = FALSE])

\* Mutant: without the poll.
SeesCloseNever(c) == FALSE

\* popupRef.current?.closed
SeesClose(c) == c.watched /\ c.window = "closed"

PollClosed(t) ==
    /\ SeesClose(consent[t])
    /\ Turn(t, Released(consent[t]))

PopupServes(t) == OnMessage(t) \/ PollClosed(t)

PopupStep(t) ==
    \/ OpenConnections(t) \/ LeaveConnections(t) \/ StartOauth(t)
    \/ Reports(t) \/ WindowCloses(t) \/ PopupServes(t)

-----------------------------------------------------------------------------
(* Properties.                                                             *)

\* "Without the poll the button would stay stuck": it comes back when the
\* seller closes the window by hand or its message is lost.
ButtonComesBack ==
    \A t \in PopupTabs :
        consent[t].navigating /\ consent[t].window = "closed" ~> ~consent[t].navigating
=============================================================================
