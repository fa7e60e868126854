------------------------------ MODULE Sessions ------------------------------
(***************************************************************************)
(* Sign-in: the Session rows of src/lib/auth.ts, the routes under          *)
(* src/app/api/auth that create and end them, the request that resolves    *)
(* one (src/lib/session.ts, behind the cookie test of src/middleware.ts)   *)
(* and scripts/set-password.ts.  Passwords are known or not; a token is    *)
(* the number of its row.                                                  *)
(*                                                                         *)
(* In development a request without a session is the first user's; here    *)
(* it is refused, as in production.                                        *)
(***************************************************************************)
EXTENDS Naturals

CONSTANTS
    Users,
    Browsers,
    Handlers,      \* requests under way
    Life,          \* SESSION_TTL_DAYS
    MaxSessions,   \* bound: sessions ever created
    SessionFaults, \* "deleteFails": the row of a sign-out is not deleted
    None

Tokens == 1 .. MaxSessions

ASSUME SessionsAssumption ==
    /\ Life \in Nat \ {0} /\ MaxSessions \in Nat
    /\ SessionFaults \subseteq {"deleteFails"}
    /\ None \notin Nat /\ None \notin Users

VARIABLES
    account,   \* users with an account
    session,   \* the Session rows
    cookie,    \* SESSION_COOKIE, by browser
    web,       \* the requests
    ended      \* tokens that a finished sign-out has ended

sessionVars == <<account, session, cookie, web, ended>>

\* left: days to expiresAt, less than Life when lastActiveAt is not recent.
Session == [status: {"ABSENT", "LIVE", "GONE"}, user: Users \cup {None},
            left: 0 .. Life]

NoSession == [status |-> "ABSENT", user |-> None, left |-> 0]

Kinds == {"none", "start", "everywhere"}
WebPcs == {"idle", "find", "drop", "slide", "go", "destroy"}

\* late: the token had been ended when the request began.
Web == [pc: WebPcs, kind: Kinds, at: Browsers \cup {None},
        token: Tokens \cup {None}, user: Users \cup {None}, late: BOOLEAN]

IdleWeb == [pc |-> "idle", kind |-> "none", at |-> None, token |-> None,
            user |-> None, late |-> FALSE]

SessionTypeOK ==
    /\ account \subseteq Users
    /\ session \in [Tokens -> Session]
    /\ cookie \in [Browsers -> Tokens \cup {None}]
    /\ web \in [Handlers -> Web]
    /\ ended \subseteq Tokens

SessionInit ==
    /\ account = {}
    /\ session = [t \in Tokens |-> NoSession]
    /\ cookie = [b \in Browsers |-> None]
    /\ web = [h \in Handlers |-> IdleWeb]
    /\ ended = {}

Issued  == {t \in Tokens : session[t].status # "ABSENT"}
OwnedBy(u) == {t \in Tokens : session[t].status = "LIVE" /\ session[t].user = u}

Without(ts) == [t \in Tokens |->
                  IF t \in ts THEN [NoSession EXCEPT !.status = "GONE"] ELSE session[t]]

-----------------------------------------------------------------------------
(* Signing in.                                                             *)

Expired == {t \in Tokens : session[t].status = "LIVE" /\ session[t].left = 0}

\* createSession with its sweep, whose error is swallowed, and the cookie of
\* the answer.
CreateSession(b, u) ==
    /\ \E t \in Tokens \ Issued :
        /\ \A s \in Tokens \ Issued : t <= s
        /\ \E gone \in {{}, Expired} :
              session' = [Without(gone) EXCEPT ![t] =
                            [status |-> "LIVE", user |-> u, left |-> Life]]
        /\ cookie' = [cookie EXCEPT ![b] = t]
    /\ UNCHANGED <<web, ended>>

\* The password is verified first.
Login(b, u) == u \in account /\ CreateSession(b, u) /\ UNCHANGED account

\* The address is unique; a second account with it is refused.
Register(b, u) ==
    u \notin account /\ CreateSession(b, u) /\ account' = account \cup {u}

-----------------------------------------------------------------------------
(* Requests with a session.                                                *)

\* Whoever holds the token may present it, also from a copy of the cookie.
Present(h, b, t, kind) ==
    /\ web[h].pc = "idle" /\ t \in Issued
    /\ web' = [web EXCEPT ![h] =
                 [IdleWeb EXCEPT !.pc = "find", !.kind = kind, !.at = b,
                                 !.token = t, !.late = t \in ended]]
    /\ UNCHANGED <<account, session, cookie, ended>>

\* An unresolved request is refused, and a sign-out goes on.
Unresolved(w) == IF w.kind = "everywhere" THEN [w EXCEPT !.pc = "destroy"]
                                          ELSE IdleWeb

\* A page has no more use for the token.
Resolved(w, u) == [w EXCEPT !.pc = "go", !.user = u,
                            !.token = IF w.kind = "start" THEN None ELSE @]

\* resolveSession: findUnique and what is decided on it.
Find(h) ==
    LET s == session[web[h].token] IN
    /\ web[h].pc = "find"
    /\ web' = [web EXCEPT ![h] =
         IF s.status # "LIVE" THEN Unresolved(@)
         ELSE IF s.left = 0 THEN [@ EXCEPT !.pc = "drop"]
         ELSE IF s.left < Life THEN [@ EXCEPT !.pc = "slide", !.user = s.user]
         ELSE Resolved(@, s.user)]
    /\ UNCHANGED <<account, session, cookie, ended>>

\* An expired row is deleted on sight, or not: the error is swallowed.
Drop(h) ==
    /\ web[h].pc = "drop"
    /\ session' \in {Without({web[h].token}), session}
    /\ web' = [web EXCEPT ![h] = Unresolved(@)]
    /\ UNCHANGED <<account, cookie, ended>>

Renewed(s) == [s EXCEPT !.left = Life]

\* Mutant: an upsert.
SlideUpserts(h) ==
    /\ web[h].pc = "slide"
    /\ session' = [session EXCEPT ![web[h].token] =
                        [Renewed(@) EXCEPT !.status = "LIVE"]]
    /\ web' = [web EXCEPT ![h] = Resolved(@, @.user)]
    /\ UNCHANGED <<account, cookie, ended>>

\* The update by id, which finds nothing when the row is gone.
Slide(h) ==
    /\ web[h].pc = "slide"
    /\ session' = [session EXCEPT ![web[h].token] =
                     IF @.status = "LIVE" THEN Renewed(@) ELSE @]
    /\ web' = [web EXCEPT ![h] = Resolved(@, @.user)]
    /\ UNCHANGED <<account, cookie, ended>>

-----------------------------------------------------------------------------
(* Signing out.                                                            *)

DestroyAll(h) ==
    /\ web[h].pc = "go" /\ web[h].kind = "everywhere"
    /\ session' = Without(OwnedBy(web[h].user))
    /\ ended' = ended \cup OwnedBy(web[h].user)
    /\ web' = [web EXCEPT ![h].pc = "destroy", ![h].user = None]
    /\ UNCHANGED <<account, cookie>>

\* destroySession, whose error is swallowed, and the answer, which takes the
\* cookie of the browser.
DestroySession(b, t) ==
    /\ session' \in {Without({t})} \cup
                    (IF "deleteFails" \in SessionFaults THEN {session} ELSE {})
    /\ ended' = ended \cup {t}
    /\ cookie' = [cookie EXCEPT ![b] = None]
    /\ UNCHANGED account

Logout(b, t) == t \in Issued /\ DestroySession(b, t) /\ UNCHANGED web

EndEverywhere(h) ==
    /\ web[h].pc = "destroy"
    /\ DestroySession(web[h].at, web[h].token)
    /\ web' = [web EXCEPT ![h] = IdleWeb]

\* scripts/set-password.ts: the new hash, then every session of the user.
SetPassword(u) ==
    /\ u \in account /\ OwnedBy(u) # {}
    /\ session' = Without(OwnedBy(u))
    /\ ended' = ended \cup OwnedBy(u)
    /\ UNCHANGED <<account, cookie, web>>

-----------------------------------------------------------------------------
Less(n) == IF n > 0 THEN n - 1 ELSE 0

Day ==
    /\ session' = [t \in Tokens |->
                     IF session[t].status = "LIVE"
                     THEN [session[t] EXCEPT !.left = Less(@)]
                     ELSE session[t]]
    /\ UNCHANGED <<account, cookie, web, ended>>

SessionStep ==
    \/ \E b \in Browsers, u \in Users : Login(b, u) \/ Register(b, u)
    \/ \E b \in Browsers, t \in Tokens : Logout(b, t)
    \/ \E h \in Handlers, b \in Browsers, t \in Tokens :
          \E kind \in Kinds \ {"none"} : Present(h, b, t, kind)
    \/ \E h \in Handlers : \/ Find(h) \/ Drop(h) \/ Slide(h)
                           \/ DestroyAll(h) \/ EndEverywhere(h)
    \/ \E u \in Users : SetPassword(u)
    \/ Day

-----------------------------------------------------------------------------
(* Properties.                                                             *)

\* "A token that was copied before sign-out has to stop working" (the logout
\* route): a request that begins after the sign-out was answered is refused,
\* also when another request was extending the session at the time.
SignedOutIsOut ==
    \A h \in Handlers : web[h].late => web[h].pc \notin {"slide", "go"}
=============================================================================
