---------------------------- MODULE OAuth_proofs ----------------------------
(***************************************************************************)
(* What OAuth and Sessions keep for any number of users, browsers,         *)
(* requests, sessions and flows: an authorization code is spent at most    *)
(* once, a connection lands in the workspace that asked for it, and a      *)
(* token that was signed out stays so.                                     *)
(***************************************************************************)
EXTENDS OAuth, TLAPS

-----------------------------------------------------------------------------
(* The inductive invariants.                                               *)

\* A request has a token while it needs one; a sign-out everywhere keeps the
\* token of a row that was created.
WebInv ==
    \A h \in Handlers :
       /\ web[h].pc = "find" => web[h].token \in Tokens
       /\ web[h].pc # "idle" /\ web[h].kind = "everywhere" => web[h].token \in Issued
       /\ web[h].pc = "destroy" => web[h].kind = "everywhere"

\* A row whose sign-out was answered is gone for good; a request that began
\* after that has its token among those, and only looks it up or signs out.
OutInv ==
    /\ \A t \in ended : session[t].status = "GONE"
    /\ \A h \in Handlers : web[h].late => \/ web[h].pc = "find" /\ web[h].token \in ended
                                          \/ web[h].pc = "destroy"

\* Callbacks that have claimed their flow, and those about to offer its code.
Winners   == {c \in Callbacks : call[c].pc \in {"exchange", "store", "discard"}}
Exchanges == {c \in Callbacks : call[c].pc = "exchange"}

\* A flow is claimed by one callback, before its code is offered, and never
\* again; the claim carries the user of the row.
FlowInv ==
    /\ \A c \in Callbacks : call[c].pc # "idle" => call[c].flow \in Started
    /\ \A c \in Callbacks : call[c].pc \notin {"idle", "find"}
                               => call[c].user = flow[call[c].flow].user
    /\ \A c \in Winners : flow[call[c].flow].status \in {"CONSUMED", "GONE"}
    /\ \A c, d \in Exchanges : call[c].flow = call[d].flow => c = d
    /\ \A c \in Exchanges : offers[call[c].flow] = 0
    /\ \A f \in Flows : /\ offers[f] <= 1
                        /\ offers[f] # 0 => flow[f].status \in {"CONSUMED", "GONE"}
    /\ \A u \in Users : conn[u] # None => conn[u] \in Started /\ flow[conn[u]].user = u

IInv == TypeOK /\ WebInv /\ FlowInv

-----------------------------------------------------------------------------
(* Sessions.                                                               *)

LEMMA NoneIsNoToken == None \notin Tokens /\ None \notin Flows /\ None \notin Users
BY SessionsAssumption DEF Tokens, Flows

\* What deleting rows does.
LEMMA WithoutRows ==
    ASSUME SessionTypeOK, NEW ts
    PROVE  /\ Without(ts) \in [Tokens -> Session]
           /\ \A t \in Tokens : Without(ts)[t] =
                 IF t \in ts THEN [NoSession EXCEPT !.status = "GONE"] ELSE session[t]
BY SessionsAssumption DEF Without, NoSession, Session, SessionTypeOK

\* Every step of Sessions keeps its types.
LEMMA SessionTypes ==
    ASSUME SessionTypeOK, WebInv, SessionStep PROVE SessionTypeOK'
<1> USE SessionsAssumption DEF SessionTypeOK
<1>0. IdleWeb \in Web /\ Life \in 0 .. Life
  BY DEF IdleWeb, Web, WebPcs, Kinds
<1>1. ASSUME NEW b \in Browsers, NEW u \in Users, CreateSession(b, u)
      PROVE  /\ session' \in [Tokens -> Session]
             /\ cookie' \in [Browsers -> Tokens \cup {None}]
             /\ web' \in [Handlers -> Web] /\ ended' \subseteq Tokens
  BY <1>0, <1>1, WithoutRows DEF CreateSession, Session, Issued
<1>2. ASSUME NEW b \in Browsers, NEW u \in Users, Login(b, u) \/ Register(b, u)
      PROVE  SessionTypeOK'
  BY <1>1, <1>2 DEF Login, Register
<1>3. ASSUME NEW b \in Browsers, NEW t \in Tokens \cup {None}, DestroySession(b, t)
      PROVE  /\ account' \subseteq Users
             /\ session' \in [Tokens -> Session]
             /\ cookie' \in [Browsers -> Tokens \cup {None}]
  BY <1>3, WithoutRows DEF DestroySession
<1>4. ASSUME NEW b \in Browsers, NEW t \in Tokens, Logout(b, t) PROVE SessionTypeOK'
  BY <1>3, <1>4 DEF Logout, DestroySession
<1>5. ASSUME NEW h \in Handlers, NEW b \in Browsers, NEW t \in Tokens,
             NEW kind \in Kinds \ {"none"}, Present(h, b, t, kind)
      PROVE  SessionTypeOK'
  <2>1. (t \in ended) \in BOOLEAN
    OBVIOUS
  <2>2. [pc |-> "find", kind |-> kind, at |-> b, token |-> t, user |-> None,
         late |-> t \in ended] \in Web
    BY <2>1, Zenon DEF Web, WebPcs
  <2>3. web'[h] \in Web /\ \A g \in Handlers : g # h => web'[g] = web[g]
    BY <1>5, <2>2 DEF Present, IdleWeb
  <2> QED
    BY <1>5, <2>3 DEF Present
<1>6. ASSUME NEW h \in Handlers, Find(h) PROVE SessionTypeOK'
  <2>1. web[h] \in Web /\ web[h].token \in Tokens
    BY <1>6 DEF WebInv, Find
  <2>2. session[web[h].token].user \in Users \cup {None}
    BY <2>1 DEF Session
  <2>4. /\ Unresolved(web[h]) \in Web
        /\ \A u \in Users \cup {None} : Resolved(web[h], u) \in Web
        /\ [web[h] EXCEPT !.pc = "drop"] \in Web
        /\ \A u \in Users \cup {None} : [web[h] EXCEPT !.pc = "slide", !.user = u] \in Web
    <3>1. Unresolved(web[h]) \in Web
      BY <1>0, <2>1 DEF Web, WebPcs, Unresolved
    <3>2. \A u \in Users \cup {None} : Resolved(web[h], u) \in Web
      BY <2>1 DEF Web, WebPcs, Resolved
    <3>3. [web[h] EXCEPT !.pc = "drop"] \in Web
      BY <2>1 DEF Web, WebPcs
    <3>4. \A u \in Users \cup {None} : [web[h] EXCEPT !.pc = "slide", !.user = u] \in Web
      BY <2>1 DEF Web, WebPcs
    <3> QED
      BY <3>1, <3>2, <3>3, <3>4
  <2>3. web'[h] \in Web /\ \A g \in Handlers : g # h => web'[g] = web[g]
    BY <1>6, <2>2, <2>4 DEF Find
  <2> QED
    BY <1>6, <2>3 DEF Find
<1>7. ASSUME NEW h \in Handlers, Drop(h) PROVE SessionTypeOK'
  <2>1. Unresolved(web[h]) \in Web
    BY <1>0 DEF Unresolved, Web, WebPcs
  <2>2. session' \in [Tokens -> Session]
    BY <1>7, WithoutRows DEF Drop
  <2>3. web' \in [Handlers -> Web]
    BY <1>7, <2>1 DEF Drop
  <2> QED
    BY <1>7, <2>2, <2>3 DEF Drop
<1>8. ASSUME NEW h \in Handlers, Slide(h) PROVE SessionTypeOK'
  <2>1. Resolved(web[h], web[h].user) \in Web
    BY DEF Resolved, Web, WebPcs
  <2>2. \A s \in Session : Renewed(s) \in Session
    BY <1>0 DEF Renewed, Session
  <2> QED
    BY <1>8, <2>1, <2>2 DEF Slide
<1>9. ASSUME NEW h \in Handlers, DestroyAll(h) PROVE SessionTypeOK'
  <2>1. OwnedBy(web[h].user) \subseteq Tokens
    BY DEF OwnedBy
  <2> QED
    <3>1. session' \in [Tokens -> Session] /\ ended' \subseteq Tokens
      BY <1>9, <2>1, WithoutRows DEF DestroyAll
    <3>2. [web[h] EXCEPT !.pc = "destroy", !.user = None] \in Web
      BY DEF Web, WebPcs
    <3>3. web' \in [Handlers -> Web]
      BY <1>9, <3>2 DEF DestroyAll
    <3> QED
      BY <1>9, <3>1, <3>3 DEF DestroyAll
<1>10. ASSUME NEW h \in Handlers, EndEverywhere(h) PROVE SessionTypeOK'
  <2>1. web[h].token \in Tokens /\ web[h].at \in Browsers \cup {None}
    BY <1>10 DEF EndEverywhere, WebInv, Issued, Web
  <2>2. /\ account' \subseteq Users
        /\ session' \in [Tokens -> Session]
        /\ cookie' \in [Browsers -> Tokens \cup {None}]
        /\ ended' \subseteq Tokens
    <3>1. session' = Without({web[h].token}) \/ session' = session
      BY <1>10 DEF EndEverywhere, DestroySession
    <3>2. session' \in [Tokens -> Session]
      BY <3>1, WithoutRows
    <3> QED
      BY <1>10, <2>1, <3>2 DEF EndEverywhere, DestroySession
  <2> QED
    BY <1>0, <1>10, <2>2 DEF EndEverywhere
<1>11. ASSUME NEW u \in Users, SetPassword(u) PROVE SessionTypeOK'
  BY <1>11, WithoutRows DEF SetPassword, OwnedBy
<1>12. ASSUME Day PROVE SessionTypeOK'
  <2>1. \A s \in Session : [s EXCEPT !.left = Less(@)] \in Session
    BY DEF Session, Less
  <2> QED
    BY <1>12, <2>1 DEF Day
<1> QED
  BY <1>2, <1>4, <1>5, <1>6, <1>7, <1>8, <1>9, <1>10, <1>11, <1>12 DEF SessionStep

\* Rows that were created do not become free again.
LEMMA RowsStay ==
    ASSUME SessionTypeOK, WebInv, SessionStep
    PROVE  \A t \in Issued : session'[t].status # "ABSENT"
<1> USE SessionsAssumption DEF SessionTypeOK
<1>1. \A b \in Browsers, u \in Users :
         CreateSession(b, u) => \A t \in Issued : session'[t].status # "ABSENT"
  BY WithoutRows DEF CreateSession, Issued, NoSession
<1>2. \A b \in Browsers, t \in Tokens :
         DestroySession(b, t) => \A s \in Issued : session'[s].status # "ABSENT"
  BY WithoutRows DEF DestroySession, Issued, NoSession
<1>3. \A h \in Handlers :
         EndEverywhere(h) => \A s \in Issued : session'[s].status # "ABSENT"
  BY WithoutRows DEF EndEverywhere, DestroySession, Issued, NoSession
<1>4. \A h \in Handlers : Find(h) => \A s \in Issued : session'[s].status # "ABSENT"
  BY DEF Find, Issued
<1>5. \A h \in Handlers : Drop(h) \/ DestroyAll(h) =>
                             \A s \in Issued : session'[s].status # "ABSENT"
  BY WithoutRows DEF Drop, DestroyAll, Issued, NoSession
<1>6. \A h \in Handlers : Slide(h) => \A s \in Issued : session'[s].status # "ABSENT"
  BY DEF Slide, Renewed, Issued, Session
<1>7. \A u \in Users : SetPassword(u) => \A s \in Issued : session'[s].status # "ABSENT"
  BY WithoutRows DEF SetPassword, Issued, NoSession
<1>8. Day => \A s \in Issued : session'[s].status # "ABSENT"
  BY DEF Day, Issued, Session
<1>9. \A h \in Handlers, b \in Browsers, t \in Tokens, kind \in Kinds \ {"none"} :
         Present(h, b, t, kind) => \A s \in Issued : session'[s].status # "ABSENT"
  BY DEF Present, Issued
<1> QED
  BY <1>1, <1>2, <1>3, <1>4, <1>5, <1>6, <1>7, <1>8, <1>9
     DEF SessionStep, Login, Register, Logout

LEMMA WebInvStep ==
    ASSUME SessionTypeOK, WebInv, SessionStep PROVE WebInv'
<1> USE SessionsAssumption, RowsStay DEF SessionTypeOK
<1>0. \A h \in Handlers : web[h] \in Web
  OBVIOUS
<1>1. CASE UNCHANGED web
  BY <1>1 DEF WebInv, Issued
<1>2. ASSUME NEW h \in Handlers, NEW b \in Browsers, NEW t \in Tokens,
             NEW kind \in Kinds \ {"none"}, Present(h, b, t, kind)
      PROVE  WebInv'
  BY <1>2 DEF Present, IdleWeb, WebInv, Issued
<1>3. ASSUME NEW h \in Handlers, Find(h) PROVE WebInv'
  BY <1>0, <1>3 DEF Find, WebInv, Unresolved, Resolved, IdleWeb, Issued, Web
<1>4. ASSUME NEW h \in Handlers, Drop(h) PROVE WebInv'
  BY <1>0, <1>4 DEF Drop, WebInv, Unresolved, IdleWeb, Issued, Web
<1>5. ASSUME NEW h \in Handlers, Slide(h) PROVE WebInv'
  BY <1>0, <1>5 DEF Slide, WebInv, Resolved, Issued, Web
<1>6. ASSUME NEW h \in Handlers, DestroyAll(h) PROVE WebInv'
  BY <1>0, <1>6 DEF DestroyAll, WebInv, Issued, Web
<1>7. ASSUME NEW h \in Handlers, EndEverywhere(h) PROVE WebInv'
  BY <1>0, <1>7 DEF EndEverywhere, WebInv, Issued, IdleWeb
<1> QED
  BY <1>1, <1>2, <1>3, <1>4, <1>5, <1>6, <1>7
     DEF SessionStep, Login, Register, CreateSession, Logout, SetPassword, Day

\* What a step that ends sessions or leaves them has to do to keep OutInv:
\* rows that are gone stay so, and what is ended goes.
LEMMA RowsOnlyGo ==
    ASSUME SessionTypeOK, OutInv, web' = web, ended \subseteq ended',
           \A t \in Tokens : session[t].status = "GONE" => session'[t].status = "GONE",
           \A t \in ended' \ ended : session'[t].status = "GONE"
    PROVE  OutInv'
BY DEF OutInv, SessionTypeOK, Issued

\* Where the row of a sign-out is always deleted, OutInv is kept.
LEMMA OutInvStep ==
    ASSUME SessionTypeOK, WebInv, OutInv, SessionStep, "deleteFails" \notin SessionFaults
    PROVE  OutInv'
<1> USE SessionsAssumption DEF SessionTypeOK
<1>2. ASSUME NEW b \in Browsers, NEW u \in Users, CreateSession(b, u)
      PROVE  OutInv'
  <2>1. PICK t \in Tokens \ Issued, gone \in {{}, Expired} :
            session' = [Without(gone) EXCEPT ![t] =
                            [status |-> "LIVE", user |-> u, left |-> Life]]
    BY <1>2 DEF CreateSession
  <2>2. \A s \in Tokens : session[s].status = "GONE" => session'[s].status = "GONE"
    BY <2>1, WithoutRows DEF Issued, NoSession
  <2> QED
    BY <1>2, <2>2, RowsOnlyGo DEF CreateSession
<1>4. ASSUME NEW b \in Browsers, NEW t \in Tokens, DestroySession(b, t)
      PROVE  /\ ended' = ended \cup {t}
             /\ \A s \in Tokens : session[s].status = "GONE" => session'[s].status = "GONE"
             /\ session'[t].status = "GONE"
  BY <1>4, WithoutRows DEF DestroySession, Issued, NoSession
<1>5. ASSUME NEW b \in Browsers, NEW t \in Tokens, Logout(b, t) PROVE OutInv'
  BY <1>4, <1>5, RowsOnlyGo DEF Logout
<1>6. ASSUME NEW h \in Handlers, NEW b \in Browsers, NEW t \in Tokens,
             NEW kind \in Kinds \ {"none"}, Present(h, b, t, kind)
      PROVE  OutInv'
  BY <1>6 DEF Present, IdleWeb, OutInv, Issued
<1>7. ASSUME NEW h \in Handlers, Find(h) PROVE OutInv'
  <2>1. web[h].token \in Tokens /\ web[h].pc = "find"
    BY <1>7 DEF WebInv, Find
  <2>2. web[h].late => session[web[h].token].status # "LIVE"
    BY <2>1 DEF OutInv
  <2> QED
    BY <1>7, <2>1, <2>2 DEF Find, OutInv, Unresolved, Resolved, IdleWeb, Issued, Web
<1>8. ASSUME NEW h \in Handlers, Drop(h) PROVE OutInv'
  BY <1>8, WithoutRows DEF Drop, OutInv, Unresolved, IdleWeb, Issued, Web, NoSession
<1>9. ASSUME NEW h \in Handlers, Slide(h) PROVE OutInv'
  BY <1>9 DEF Slide, OutInv, Resolved, Renewed, Issued, Web, Session
<1>10. ASSUME NEW h \in Handlers, DestroyAll(h) PROVE OutInv'
  BY <1>10, WithoutRows DEF DestroyAll, OutInv, Issued, Web, NoSession, OwnedBy
<1>11. ASSUME NEW h \in Handlers, EndEverywhere(h) PROVE OutInv'
  <2>1. web[h].token \in Tokens
    BY <1>11 DEF EndEverywhere, WebInv, Issued
  <2> QED
    BY <1>11, <2>1, WithoutRows
       DEF EndEverywhere, DestroySession, OutInv, Issued, IdleWeb, NoSession
<1>12. ASSUME NEW u \in Users, SetPassword(u) PROVE OutInv'
  BY <1>12, WithoutRows, RowsOnlyGo DEF SetPassword, OwnedBy, NoSession, Issued
<1>13. ASSUME Day PROVE OutInv'
  BY <1>13, RowsOnlyGo DEF Day, Session, Issued
<1> QED
  BY <1>2, <1>5, <1>6, <1>7, <1>8, <1>9, <1>10, <1>11, <1>12, <1>13
     DEF SessionStep, Login, Register

-----------------------------------------------------------------------------
(* OAuth.                                                                  *)

FlowTypeOK ==
    /\ flow \in [Flows -> Flow]
    /\ stateCookie \in [Browsers -> Flows \cup {None}]
    /\ call \in [Callbacks -> Call]
    /\ conn \in [Users -> Flows \cup {None}]
    /\ offers \in [Flows -> Nat]

LEMMA DeletedRows ==
    ASSUME FlowTypeOK, NEW fs
    PROVE  /\ Deleted(fs) \in [Flows -> Flow]
           /\ \A f \in Flows : /\ Deleted(fs)[f].user = flow[f].user
                               /\ Deleted(fs)[f].status =
                                     IF f \in fs THEN "GONE" ELSE flow[f].status
BY DEF FlowTypeOK, Deleted, Flow

LEMMA AnswerTypes ==
    ASSUME FlowTypeOK, NEW c \in Callbacks, Answer(c)
    PROVE  /\ call' \in [Callbacks -> Call]
           /\ stateCookie' \in [Browsers -> Flows \cup {None}]
BY DEF FlowTypeOK, Answer, IdleCall, Call, CallPcs

CallbackStep(c) ==
    \/ \E f \in Flows, b \in Browsers : OpenCallback(c, f, b)
    \/ FindState(c) \/ DropState(c) \/ Claim(c) \/ Exchange(c)
    \/ StoreConnection(c) \/ Discard(c) \/ Dies(c)

\* The steps of a callback leave the sessions alone.
LEMMA CallbackTypes ==
    ASSUME FlowTypeOK, FlowInv, NEW c \in Callbacks, CallbackStep(c)
    PROVE  FlowTypeOK' /\ UNCHANGED sessionVars
<1> USE DEF FlowTypeOK
<1>0. call[c] \in Call /\ (call[c].pc # "idle" => call[c].flow \in Flows)
  BY DEF FlowInv, Started
<1>1. ASSUME NEW f \in Flows, NEW b \in Browsers, OpenCallback(c, f, b)
      PROVE  FlowTypeOK' /\ UNCHANGED sessionVars
  <2>1. [IdleCall EXCEPT !.pc = "find", !.at = b, !.flow = f] \in Call
    BY DEF IdleCall, Call, CallPcs
  <2>2. call' \in [Callbacks -> Call]
    BY <1>1, <2>1 DEF OpenCallback
  <2>3. stateCookie' \in [Browsers -> Flows \cup {None}]
    BY <1>1 DEF OpenCallback
  <2> QED
    BY <1>1, <2>2, <2>3 DEF OpenCallback
<1>2. CASE FindState(c)
  <2>1. flow[call[c].flow].user \in Users \cup {None}
    BY <1>0, <1>2 DEF FindState, Flow
  <2> QED
    BY <1>0, <1>2, <2>1, AnswerTypes DEF FindState, Call, CallPcs
<1>3. CASE DropState(c)
  BY <1>3, AnswerTypes, DeletedRows DEF DropState
<1>4. CASE Claim(c)
  <2>1. CASE Claimable(call[c].flow)
    <3>1. flow' \in [Flows -> Flow]
      <4>1. flow' = [flow EXCEPT ![call[c].flow].status = "CONSUMED"]
        BY <1>4, <2>1 DEF Claim
      <4>2. \A x \in Flow : [x EXCEPT !.status = "CONSUMED"] \in Flow
        BY DEF Flow
      <4> QED
        BY <4>1, <4>2
    <3>2. [call[c] EXCEPT !.pc = "exchange"] \in Call
      BY <1>0 DEF Call, CallPcs
    <3> QED
      BY <1>4, <2>1, <3>1, <3>2 DEF Claim
  <2> QED
    BY <1>4, <2>1, AnswerTypes DEF Claim
<1>5. CASE Exchange(c)
  BY <1>0, <1>5 DEF Exchange, Call, CallPcs
<1>6. CASE StoreConnection(c)
  BY <1>0, <1>6 DEF StoreConnection, Call, CallPcs
<1>7. CASE Discard(c)
  BY <1>7, AnswerTypes, DeletedRows DEF Discard
<1>8. CASE Dies(c)
  BY <1>8 DEF Dies, IdleCall, Call, CallPcs
<1> QED
  BY <1>1, <1>2, <1>3, <1>4, <1>5, <1>6, <1>7, <1>8 DEF CallbackStep

\* Rows keep their user, and are neither created nor reissued.
RowsKept ==
    \A f \in Flows :
       /\ flow'[f].user = flow[f].user
       /\ flow[f].status # "ABSENT" => flow'[f].status # "ABSENT"
       /\ flow[f].status \in {"CONSUMED", "GONE"} => flow'[f].status \in {"CONSUMED", "GONE"}

LEMMA CallEnds ==
    ASSUME FlowTypeOK, FlowInv, NEW c \in Callbacks, RowsKept,
           call' = [call EXCEPT ![c] = IdleCall], offers' = offers, conn' = conn
    PROVE  FlowInv'
<1> USE NoneIsNoToken
<1>1. call'[c].pc = "idle" /\ \A d \in Callbacks : d # c => call'[d] = call[d]
  BY DEF IdleCall, FlowTypeOK
<1>2. Winners' \subseteq Winners /\ Exchanges' \subseteq Exchanges /\ Started \subseteq Started'
  BY <1>1 DEF Winners, Exchanges, Started, RowsKept
<1> QED
  BY <1>1, <1>2 DEF FlowInv, FlowTypeOK, RowsKept, Winners, Exchanges, Started

\* The call goes on as d, with the flow and the user it has.
LEMMA CallGoesOn ==
    ASSUME FlowTypeOK, FlowInv, NEW c \in Callbacks, NEW d, RowsKept,
           call' = [call EXCEPT ![c] = d], offers' = offers, conn' = conn,
           d.flow \in Started,
           d.pc # "find" => d.user = flow[d.flow].user,
           d.pc \notin {"exchange", "store", "discard"}
    PROVE  FlowInv'
<1> USE NoneIsNoToken
<1>1. call'[c] = d /\ \A e \in Callbacks : e # c => call'[e] = call[e]
  BY DEF FlowTypeOK
<1>2. Winners' \subseteq Winners /\ Exchanges' \subseteq Exchanges /\ Started \subseteq Started'
  BY <1>1 DEF Winners, Exchanges, Started, RowsKept
<1> QED
  BY <1>1, <1>2 DEF FlowInv, FlowTypeOK, RowsKept, Winners, Exchanges, Started

LEMMA CallbackInv ==
    ASSUME FlowTypeOK, FlowInv, NEW c \in Callbacks, CallbackStep(c)
    PROVE  FlowInv'
<1> USE NoneIsNoToken DEF FlowTypeOK
<1>0. call[c] \in Call /\ (call[c].pc # "idle" => call[c].flow \in Started)
  BY DEF FlowInv
<1>1. ASSUME NEW f \in Flows, NEW b \in Browsers, OpenCallback(c, f, b)
      PROVE  FlowInv'
  <2>1. CASE UNCHANGED call
    BY <1>1, <2>1 DEF OpenCallback, FlowInv, Winners, Exchanges, Started
  <2>2. CASE call' = [call EXCEPT ![c] = [IdleCall EXCEPT !.pc = "find", !.at = b,
                                                         !.flow = f]]
    <3> DEFINE d == [IdleCall EXCEPT !.pc = "find", !.at = b, !.flow = f]
    <3>1. d.pc = "find" /\ d.flow = f
      BY DEF IdleCall
    <3>2. RowsKept /\ offers' = offers /\ conn' = conn /\ f \in Started
      BY <1>1 DEF OpenCallback, RowsKept
    <3>3. call' = [call EXCEPT ![c] = d]
      BY <2>2
    <3> HIDE DEF d
    <3> QED
      BY <3>1, <3>2, <3>3, CallGoesOn
  <2> QED
    BY <1>1, <2>1, <2>2 DEF OpenCallback
<1>2. CASE FindState(c)
  <2>1. CASE Answer(c)
    BY <1>2, <2>1, CallEnds DEF FindState, Answer, RowsKept
  <2>2. CASE ~Answer(c)
    <3> DEFINE d == [call[c] EXCEPT
                       !.pc = IF flow[call[c].flow].expired THEN "drop" ELSE "claim",
                       !.user = flow[call[c].flow].user]
    <3>1. /\ d.pc \in {"drop", "claim"} /\ d.flow = call[c].flow
          /\ d.user = flow[d.flow].user
      BY <1>0 DEF Call
    <3>2. /\ RowsKept /\ offers' = offers /\ conn' = conn
          /\ call[c].flow \in Started
      BY <1>0, <1>2 DEF FindState, RowsKept
    <3>3. call' = [call EXCEPT ![c] = d]
      BY <1>2, <2>2 DEF FindState
    <3> HIDE DEF d
    <3> QED
      BY <3>1, <3>2, <3>3, CallGoesOn
  <2> QED
    BY <2>1, <2>2
<1>3. CASE DropState(c)
  <2>1. RowsKept
    BY <1>0, <1>3, DeletedRows DEF DropState, RowsKept, Started
  <2> QED
    BY <1>3, <2>1, CallEnds DEF DropState, Answer
<1>4. CASE Claim(c)
  <2>1. CASE Claimable(call[c].flow)
    <3>1. call[c].flow \in Flows /\ flow[call[c].flow].status = "ISSUED"
      BY <1>0, <1>4, <2>1 DEF Claim, Claimable, Started
    <3>2. \A d \in Winners : call[d].flow # call[c].flow
      BY <3>1 DEF FlowInv
    <3>3. /\ call'[c].pc = "exchange" /\ call'[c].flow = call[c].flow
          /\ call'[c].user = call[c].user
          /\ \A d \in Callbacks : d # c => call'[d] = call[d]
      BY <1>0, <1>4, <2>1 DEF Claim, Call
    <3>4. /\ flow'[call[c].flow].status = "CONSUMED" /\ offers[call[c].flow] = 0
          /\ \A f \in Flows : /\ flow'[f].user = flow[f].user
                              /\ f # call[c].flow => flow'[f] = flow[f]
      <4>1. /\ flow' = [flow EXCEPT ![call[c].flow].status = "CONSUMED"]
            /\ flow[call[c].flow].status = "ISSUED"
        BY <1>4, <2>1 DEF Claim, Claimable
      <4>2. flow[call[c].flow] \in Flow /\ call[c].flow \in Flows
        BY <3>1
      <4>3. \A f \in Flows : /\ flow'[f].user = flow[f].user
                             /\ f # call[c].flow => flow'[f] = flow[f]
        BY <4>1, <4>2 DEF Flow
      <4>4. flow'[call[c].flow].status = "CONSUMED"
        BY <4>1, <4>2 DEF Flow
      <4>5. offers[call[c].flow] = 0
        BY <4>1, <4>2 DEF FlowInv
      <4> QED
        BY <4>3, <4>4, <4>5
    <3>5. Winners' = Winners \cup {c} /\ Exchanges' = Exchanges \cup {c} /\ Started' = Started
      BY <3>1, <3>3, <3>4 DEF Winners, Exchanges, Started
    <3>6. c \notin Winners /\ Exchanges \subseteq Winners /\ call[c].pc = "claim"
      BY <1>4 DEF Claim, Winners, Exchanges
    <3>7. \A d, e \in Exchanges' : call'[d].flow = call'[e].flow => d = e
      BY <3>2, <3>3, <3>5, <3>6 DEF FlowInv, Winners, Exchanges
    <3>8. \A d \in Winners' : flow'[call'[d].flow].status \in {"CONSUMED", "GONE"}
      BY <3>2, <3>3, <3>4, <3>5, <3>6, <1>0 DEF FlowInv, Winners, Started
    <3>9. /\ \A d \in Callbacks : call'[d].pc # "idle" => call'[d].flow \in Started'
          /\ \A d \in Callbacks : call'[d].pc \notin {"idle", "find"}
                => call'[d].user = flow'[call'[d].flow].user
      BY <3>1, <3>3, <3>4, <3>5, <3>6 DEF FlowInv, Started
    <3>10. offers' = offers /\ conn' = conn
      BY <1>4 DEF Claim
    <3>11. \A d \in Exchanges' : offers'[call'[d].flow] = 0
      BY <3>3, <3>4, <3>5, <3>10 DEF FlowInv, Exchanges
    <3>12. \A f \in Flows : /\ offers'[f] <= 1
                            /\ offers'[f] # 0 => flow'[f].status \in {"CONSUMED", "GONE"}
      BY <3>4, <3>10 DEF FlowInv
    <3>13. \A u \in Users : conn'[u] # None
              => conn'[u] \in Started' /\ flow'[conn'[u]].user = u
      BY <3>4, <3>5, <3>10 DEF FlowInv, Started
    <3> QED
      BY <3>7, <3>8, <3>9, <3>11, <3>12, <3>13 DEF FlowInv
  <2>2. CASE ~Claimable(call[c].flow)
    BY <1>4, <2>2, CallEnds DEF Claim, Answer, RowsKept
  <2> QED
    BY <2>1, <2>2
<1>5. CASE Exchange(c)
  BY <1>0, <1>5 DEF Exchange, Call, FlowInv, Winners, Exchanges, Started
<1>6. CASE StoreConnection(c)
  BY <1>0, <1>6 DEF StoreConnection, Recipient, Call, FlowInv, Winners, Exchanges, Started
<1>7. CASE Discard(c)
  <2>1. RowsKept
    BY <1>0, <1>7, DeletedRows DEF Discard, RowsKept, Started
  <2> QED
    BY <1>7, <2>1, CallEnds DEF Discard, Answer
<1>8. CASE Dies(c)
  BY <1>8, CallEnds DEF Dies, RowsKept
<1> QED
  BY <1>1, <1>2, <1>3, <1>4, <1>5, <1>6, <1>7, <1>8 DEF CallbackStep

\* The start route takes a request that was resolved.
LEMMA IssueInv ==
    ASSUME IInv, NEW h \in Handlers, IssueState(h)
    PROVE  IInv'
<1> USE NoneIsNoToken
<1>1. FlowTypeOK
  BY DEF IInv, TypeOK, FlowTypeOK
<1>2. web[h] \in Web
  BY DEF IInv, TypeOK, SessionTypeOK
<1>3. PICK f \in Flows \ Started, gone \in {{}, {g \in Flows : flow[g].expired}} :
        /\ flow' = [Deleted(gone) EXCEPT ![f] =
                         [NoFlow EXCEPT !.status = "ISSUED", !.user = web[h].user]]
        /\ stateCookie' = [stateCookie EXCEPT ![web[h].at] = f]
  BY DEF IssueState
<1>4. /\ flow' \in [Flows -> Flow]
      /\ flow'[f].status = "ISSUED"
      /\ \A g \in Started : /\ flow'[g].user = flow[g].user
                            /\ flow'[g].status \in {flow[g].status, "GONE"}
  <2>1. [NoFlow EXCEPT !.status = "ISSUED", !.user = web[h].user] \in Flow
    BY <1>2 DEF NoFlow, Flow, Web
  <2>2. [NoFlow EXCEPT !.status = "ISSUED", !.user = web[h].user].status = "ISSUED"
    BY DEF NoFlow
  <2> QED
    BY <1>1, <1>3, <2>1, <2>2, DeletedRows DEF Started
<1>5. SessionTypeOK' /\ WebInv'
  <2>1. IdleWeb \in Web
    BY DEF IdleWeb, Web, WebPcs, Kinds
  <2> QED
    BY <2>1 DEF IssueState, IInv, TypeOK, SessionTypeOK, WebInv, IdleWeb, Issued
<1>6. FlowTypeOK'
  BY <1>1, <1>3, <1>4 DEF FlowTypeOK, IssueState
<1>7. FlowInv'
  BY <1>1, <1>4 DEF IInv, FlowInv, FlowTypeOK, Started, Winners, Exchanges, IssueState, Flow
<1> QED
  BY <1>5, <1>6, <1>7 DEF IInv, TypeOK, FlowTypeOK

LEMMA ExpireInv ==
    ASSUME IInv, NEW f \in Flows, StateExpires(f)
    PROVE  IInv'
<1>1. /\ flow' \in [Flows -> Flow]
      /\ \A g \in Flows : flow'[g].status = flow[g].status /\ flow'[g].user = flow[g].user
  BY DEF StateExpires, IInv, TypeOK, Flow
<1>2. TypeOK'
  BY <1>1 DEF StateExpires, IInv, TypeOK, sessionVars, SessionTypeOK
<1>3. WebInv'
  BY DEF StateExpires, IInv, sessionVars, WebInv, Issued
<1>4. FlowInv'
  BY <1>1 DEF StateExpires, IInv, TypeOK, FlowInv, Started, Winners, Exchanges
<1> QED
  BY <1>2, <1>3, <1>4 DEF IInv

LEMMA IInvInit == ASSUME Init PROVE IInv
<1> USE SessionsAssumption, NoneIsNoToken DEF Init, SessionInit
<1>1. NoSession \in Session /\ IdleWeb \in Web /\ NoFlow \in Flow /\ IdleCall \in Call
  BY DEF NoSession, Session, IdleWeb, Web, WebPcs, Kinds, NoFlow, Flow, IdleCall, Call, CallPcs
<1>2. TypeOK
  BY <1>1 DEF TypeOK, SessionTypeOK
<1>3. WebInv
  BY DEF WebInv, IdleWeb
<1>4. FlowInv
  BY DEF FlowInv, Winners, Exchanges, IdleCall, NoFlow
<1> QED
  BY <1>2, <1>3, <1>4 DEF IInv

LEMMA IInvStep == ASSUME IInv, [Next]_vars PROVE IInv'
<1>0. SessionTypeOK /\ FlowTypeOK /\ WebInv /\ FlowInv
  BY DEF IInv, TypeOK, FlowTypeOK
<1>1. CASE SessionStep /\ UNCHANGED oauthVars
  <2>1. SessionTypeOK' /\ WebInv'
    BY <1>0, <1>1, SessionTypes, WebInvStep
  <2>2. FlowTypeOK' /\ FlowInv'
    BY <1>0, <1>1 DEF oauthVars, FlowTypeOK, FlowInv, Winners, Exchanges, Started
  <2> QED
    BY <2>1, <2>2 DEF IInv, TypeOK, FlowTypeOK
<1>2. ASSUME NEW h \in Handlers, IssueState(h) PROVE IInv'
  BY <1>2, IssueInv
<1>3. ASSUME NEW f \in Flows, StateExpires(f) PROVE IInv'
  BY <1>3, ExpireInv
<1>4. ASSUME NEW c \in Callbacks, CallbackStep(c) PROVE IInv'
  <2>1. FlowTypeOK' /\ FlowInv' /\ UNCHANGED sessionVars
    BY <1>0, <1>4, CallbackTypes, CallbackInv
  <2>2. SessionTypeOK' /\ WebInv'
    BY <1>0, <2>1 DEF sessionVars, SessionTypeOK, WebInv, Issued
  <2> QED
    BY <2>1, <2>2 DEF IInv, TypeOK, FlowTypeOK
<1>5. CASE UNCHANGED vars
  <2>1. SessionTypeOK' /\ WebInv'
    BY <1>0, <1>5 DEF vars, sessionVars, SessionTypeOK, WebInv, Issued
  <2>2. FlowTypeOK' /\ FlowInv'
    BY <1>0, <1>5 DEF vars, oauthVars, FlowTypeOK, FlowInv, Winners, Exchanges, Started
  <2> QED
    BY <2>1, <2>2 DEF IInv, TypeOK, FlowTypeOK
<1> QED
  BY <1>1, <1>2, <1>3, <1>4, <1>5 DEF Next, CallbackStep

\* A step outside Sessions ends no request's resolution.
LEMMA OutInvNext ==
    ASSUME IInv, OutInv, [Next]_vars, "deleteFails" \notin SessionFaults
    PROVE  OutInv'
<1>0. SessionTypeOK /\ FlowTypeOK /\ WebInv /\ FlowInv
  BY DEF IInv, TypeOK, FlowTypeOK
<1>1. CASE SessionStep
  BY <1>0, <1>1, OutInvStep
<1>2. ASSUME NEW h \in Handlers, IssueState(h) PROVE OutInv'
  BY <1>0, <1>2 DEF IssueState, OutInv, SessionTypeOK, IdleWeb
<1>3. ASSUME NEW f \in Flows, StateExpires(f) PROVE OutInv'
  BY <1>3 DEF StateExpires, sessionVars, OutInv
<1>4. ASSUME NEW c \in Callbacks, CallbackStep(c) PROVE OutInv'
  BY <1>0, <1>4, CallbackTypes DEF sessionVars, OutInv
<1>5. CASE UNCHANGED vars
  BY <1>5 DEF vars, sessionVars, OutInv
<1> QED
  BY <1>1, <1>2, <1>3, <1>4, <1>5 DEF Next, CallbackStep

-----------------------------------------------------------------------------
(* The theorems.                                                           *)

LEMMA Invariance == Spec => []IInv
<1>1. Init => IInv
  BY IInvInit
<1>2. IInv /\ [Next]_vars => IInv'
  BY IInvStep
<1> QED
  BY <1>1, <1>2, PTL DEF Spec

\* The variables of Sessions and OAuth keep their types: no request, callback
\* or sweep leaves a row, a cookie or a count outside its type.
THEOREM TypesKept == Spec => []TypeOK
<1>1. IInv => TypeOK
  BY DEF IInv
<1> QED
  BY <1>1, Invariance, PTL

\* However many callbacks race one state, and whatever is swept or expires in
\* between, its authorization code is offered to the provider at most once:
\* the guarded update of consumeOAuthState has one winner.
THEOREM CodesAreSpentOnce == Spec => []SpentOnce
<1>1. IInv => SpentOnce
  BY DEF IInv, FlowInv, SpentOnce
<1> QED
  BY <1>1, Invariance, PTL

\* The callback stores the tokens in the workspace of the user who started
\* the flow, however the browser's session changed meanwhile.
THEOREM ConnectionsGoHome == Spec => []ConnectionsBelong
<1>1. IInv => ConnectionsBelong
  BY DEF IInv, FlowInv, ConnectionsBelong
<1> QED
  BY <1>1, Invariance, PTL

\* Where the delete of a sign-out succeeds, no request that began after the
\* sign-out was answered is resolved, also when another was just extending
\* the session: the slide updates a row and never brings one back.
THEOREM SignOutIsFinal ==
    ASSUME "deleteFails" \notin SessionFaults PROVE Spec => []SignedOutIsOut
<1>1. Init => OutInv
  BY DEF Init, SessionInit, OutInv, IdleWeb
<1>2. IInv /\ OutInv /\ [Next]_vars => OutInv'
  BY OutInvNext
<1>3. OutInv => SignedOutIsOut
  BY DEF OutInv, SignedOutIsOut
<1> QED
  BY <1>1, <1>2, <1>3, Invariance, PTL DEF Spec
=============================================================================
