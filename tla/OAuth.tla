------------------------------- MODULE OAuth -------------------------------
(***************************************************************************)
(* Connecting an account: the start routes, the OAuthState rows of         *)
(* src/lib/oauth-store.ts and the callback routes under src/app/api/auth,  *)
(* for one of the two providers (rows of the other are told apart by their *)
(* provider column).  A flow is a state and the authorization code that    *)
(* the provider returns with it.  Who is signed in is module Sessions;     *)
(* what is done with a connection afterwards, Accounts.                    *)
(***************************************************************************)
EXTENDS Sessions

CONSTANTS
    Callbacks,    \* callback requests under way
    MaxFlows      \* bound: flows ever started

Flows == 1 .. MaxFlows

VARIABLES
    flow,         \* the OAuthState rows
    stateCookie,  \* the state cookie, by browser
    call,         \* the callbacks
    conn,         \* the flow whose tokens a workspace holds
    offers        \* how often a code was offered to the provider

oauthVars == <<flow, stateCookie, call, conn, offers>>
vars == <<sessionVars, oauthVars>>

Flow == [status: {"ABSENT", "ISSUED", "CONSUMED", "GONE"},
         user: Users \cup {None}, expired: BOOLEAN]

NoFlow == [status |-> "ABSENT", user |-> None, expired |-> FALSE]

CallPcs == {"idle", "find", "drop", "claim", "exchange", "store", "discard"}

Call == [pc: CallPcs, at: Browsers \cup {None}, flow: Flows \cup {None},
         user: Users \cup {None}]

IdleCall == [pc |-> "idle", at |-> None, flow |-> None, user |-> None]

TypeOK ==
    /\ SessionTypeOK
    /\ flow \in [Flows -> Flow]
    /\ stateCookie \in [Browsers -> Flows \cup {None}]
    /\ call \in [Callbacks -> Call]
    /\ conn \in [Users -> Flows \cup {None}]
    /\ offers \in [Flows -> Nat]

Init ==
    /\ SessionInit
    /\ flow = [f \in Flows |-> NoFlow]
    /\ stateCookie = [b \in Browsers |-> None]
    /\ call = [c \in Callbacks |-> IdleCall]
    /\ conn = [u \in Users |-> None]
    /\ offers = [f \in Flows |-> 0]

Started == {f \in Flows : flow[f].status # "ABSENT"}
Exists(f) == flow[f].status \in {"ISSUED", "CONSUMED"}

\* The user is kept for a property.
Deleted(fs) == [f \in Flows |->
                  IF f \in fs THEN [flow[f] EXCEPT !.status = "GONE", !.expired = FALSE]
                  ELSE flow[f]]

-----------------------------------------------------------------------------
\* The start route: issueOAuthState for the user of the request, its sweep,
\* whose error is swallowed, and the cookie.
IssueState(h) ==
    /\ web[h].pc = "go" /\ web[h].kind = "start"
    /\ \E f \in Flows \ Started :
        /\ \A g \in Flows \ Started : f <= g
        /\ \E gone \in {{}, {g \in Flows : flow[g].expired}} :
              flow' = [Deleted(gone) EXCEPT ![f] =
                         [NoFlow EXCEPT !.status = "ISSUED", !.user = web[h].user]]
        /\ stateCookie' = [stateCookie EXCEPT ![web[h].at] = f]
    /\ web' = [web EXCEPT ![h] = IdleWeb]
    /\ UNCHANGED <<account, session, cookie, ended, call, conn, offers>>

\* expiresAt passes; the cookie has the same lifetime.
StateExpires(f) ==
    /\ Exists(f)
    /\ flow' = [flow EXCEPT ![f].expired = TRUE]
    /\ stateCookie' = [b \in Browsers |->
                         IF stateCookie[b] = f THEN None ELSE stateCookie[b]]
    /\ UNCHANGED <<sessionVars, call, conn, offers>>

-----------------------------------------------------------------------------
(* The callback route.  Every answer deletes the state cookie.             *)

Answer(c) ==
    /\ call' = [call EXCEPT ![c] = IdleCall]
    /\ stateCookie' = [stateCookie EXCEPT ![call[c].at] = None]

\* The provider sends the browser back, which may load the address again. A
\* cookie that is there has to agree.
OpenCallback(c, f, b) ==
    /\ call[c].pc = "idle" /\ f \in Started
    /\ \/ /\ stateCookie[b] \in {f, None}
          /\ call' = [call EXCEPT ![c] = [IdleCall EXCEPT !.pc = "find", !.at = b,
                                                         !.flow = f]]
          /\ UNCHANGED stateCookie
       \/ /\ stateCookie[b] \notin {f, None}
          /\ stateCookie' = [stateCookie EXCEPT ![b] = None]
          /\ UNCHANGED call
    /\ UNCHANGED <<sessionVars, flow, conn, offers>>

\* consumeOAuthState: findUnique, and the refusals UNKNOWN and ALREADY_USED.
FindState(c) ==
    LET f == flow[call[c].flow] IN
    /\ call[c].pc = "find"
    /\ \/ /\ f.status = "ISSUED"
          /\ call' = [call EXCEPT ![c].pc = IF f.expired THEN "drop" ELSE "claim",
                                  ![c].user = f.user]
          /\ UNCHANGED stateCookie
       \/ f.status # "ISSUED" /\ Answer(c)
    /\ UNCHANGED <<sessionVars, flow, conn, offers>>

\* EXPIRED: the row is deleted by its id, whatever it has become.
DropState(c) ==
    /\ call[c].pc = "drop"
    /\ flow' \in {Deleted({call[c].flow}), flow}
    /\ Answer(c)
    /\ UNCHANGED <<sessionVars, conn, offers>>

\* Mutant: the update does not ask for consumedAt.
ClaimableAgain(f) == Exists(f)

\* The rows that the guarded update may mark.
Claimable(f) == flow[f].status = "ISSUED"

Claim(c) ==
    LET f == call[c].flow IN
    /\ call[c].pc = "claim"
    /\ \/ /\ Claimable(f)
          /\ flow' = [flow EXCEPT ![f].status = "CONSUMED"]
          /\ call' = [call EXCEPT ![c].pc = "exchange"]
          /\ UNCHANGED stateCookie
       \/ ~Claimable(f) /\ Answer(c) /\ UNCHANGED flow
    /\ UNCHANGED <<sessionVars, conn, offers>>

\* exchangeCodeForTokens, which the provider may refuse, or whose grant lacks
\* a scope.
Exchange(c) ==
    /\ call[c].pc = "exchange"
    /\ offers' = [offers EXCEPT ![call[c].flow] = @ + 1]
    /\ \E next \in {"store", "discard"} : call' = [call EXCEPT ![c].pc = next]
    /\ UNCHANGED <<sessionVars, flow, stateCookie, conn>>

\* Mutant: the workspace of whoever is signed in by now.
RecipientSignedIn(c) ==
    LET t == cookie[call[c].at]
    IN  IF t # None /\ session[t].status = "LIVE" THEN session[t].user
                                                  ELSE call[c].user

\* "The workspace that started the flow": claim.userId.
Recipient(c) == call[c].user

StoreConnection(c) ==
    /\ call[c].pc = "store"
    /\ conn' = [conn EXCEPT ![Recipient(c)] = call[c].flow]
    /\ call' = [call EXCEPT ![c].pc = "discard"]
    /\ UNCHANGED <<sessionVars, flow, stateCookie, offers>>

\* discardOAuthState, whose error is swallowed, and the answer.
Discard(c) ==
    /\ call[c].pc = "discard"
    /\ flow' \in {Deleted({call[c].flow}), flow}
    /\ Answer(c)
    /\ UNCHANGED <<sessionVars, conn, offers>>

\* The process is killed or the browser goes away.
Dies(c) ==
    /\ call[c].pc # "idle"
    /\ call' = [call EXCEPT ![c] = IdleCall]
    /\ UNCHANGED <<sessionVars, flow, stateCookie, conn, offers>>

Next ==
    \/ SessionStep /\ UNCHANGED oauthVars
    \/ \E h \in Handlers : IssueState(h)
    \/ \E f \in Flows : StateExpires(f)
    \/ \E c \in Callbacks :
          \/ \E f \in Flows, b \in Browsers : OpenCallback(c, f, b)
          \/ FindState(c) \/ DropState(c) \/ Claim(c) \/ Exchange(c)
          \/ StoreConnection(c) \/ Discard(c) \/ Dies(c)

Spec == Init /\ [][Next]_vars

-----------------------------------------------------------------------------
(* Properties.                                                             *)

\* "Two callbacks racing the same state cannot both win and spend the
\* authorization code twice" (consumeOAuthState), although expired and used
\* rows are deleted by other requests in between.
SpentOnce == \A f \in Flows : offers[f] <= 1

\* A connection is stored in the workspace of the user who started the flow,
\* whoever is signed in to the browser when the provider sends it back.
ConnectionsBelong ==
    \A u \in Users : conn[u] # None => flow[conn[u]].user = u

\* Does not hold: the row is gone once the connection is stored, and a
\* reloaded callback is told "not one this application started".
\* ("If you refreshed the page after connecting, the connection is probably
\* already saved", describeStateRejection.)
ReloadIsRecognised ==
    [][\A c \in Callbacks :
          call[c].pc = "find" /\ call'[c].pc = "idle" /\ flow[call[c].flow].status = "GONE"
             => \A u \in Users : conn[u] # call[c].flow]_vars
=============================================================================
