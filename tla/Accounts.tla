------------------------------ MODULE Accounts ------------------------------
(***************************************************************************)
(* The connection of one workspace to eBay or Google: what the callback    *)
(* routes store (src/app/api/auth), how requests obtain an access token    *)
(* (src/lib/ebay/tokens.ts, src/lib/google/tokens.ts) and what the         *)
(* disconnect routes do (src/app/api/connections).  How a callback comes   *)
(* to be accepted is module OAuth.                                         *)
(*                                                                         *)
(* A grant is what the provider makes of one consent; it also names the    *)
(* callback that stores it and the row that callback may create.           *)
(* Lifetimes are flags, cleared for every copy of a token at once.         *)
(***************************************************************************)
EXTENDS Naturals

CONSTANTS
    Provider,        \* "EBAY" or "GOOGLE": their code differs in two places
    MaxGrants,       \* bound: the consents
    Requests,        \* requests that need a token
    Instances,       \* processes, each with its inFlightRefreshes
    Faults,          \* which of AllFaults may occur
    MaxDisconnects,  \* bound
    None

AllFaults == {
    "twins",      \* two callbacks find no row and create one each
    "omitted",    \* Google sends no refresh token with a grant
    "rotated"}    \* a refresh is answered with a new refresh token as well

ASSUME AccountsAssumption ==
    /\ Provider \in {"EBAY", "GOOGLE"}
    /\ Faults \subseteq AllFaults
    /\ MaxGrants \in Nat /\ MaxDisconnects \in Nat
    /\ None \notin Nat /\ None \notin Requests /\ None \notin Instances

Grants == 1 .. MaxGrants
Grant  == Grants \cup {None}

VARIABLES
    live,        \* at the provider: the grants in force
    row,         \* the connection rows, by the grant whose callback made them
    cb,          \* the callbacks, by grant
    rq,          \* the requests
    dc,          \* a disconnect
    inFlight,    \* inFlightRefreshes, by process and connection
    gone,        \* the user disconnected and did not connect again
    disconnects

vars == <<live, row, cb, rq, dc, inFlight, gone, disconnects>>

\* The grants whose tokens are stored; fresh: tokenExpiresAt is further away
\* than the skew.  The account's name, which is only shown, is left out.
Conn == [status: {"ABSENT", "CONNECTED", "EXPIRED", "DISCONNECTED"},
         access: Grant, refresh: Grant, fresh: BOOLEAN]

\* What a request still needs of the row it read: a fresh token, and the
\* refresh token.
Snap == [access: Grant, refresh: Grant]

NoConn == [status |-> "ABSENT", access |-> None, refresh |-> None,
           fresh |-> FALSE]
NoSnap == [access |-> None, refresh |-> None]
IdleRq == [pc |-> "idle", at |-> None, conn |-> None, snap |-> NoSnap]
IdleDc == [pc |-> "idle", conn |-> None, token |-> None]

CbPcs == {"new", "look", "store", "done"}
RqPcs == {"idle", "get", "wait", "refresh", "mark", "save", "settle"}

TypeOK ==
    /\ live \subseteq Grants
    /\ row \in [Grants -> Conn]
    /\ cb \in [Grants -> [pc: CbPcs, conn: Grant]]
    /\ rq \in [Requests -> [pc: RqPcs, at: Instances \cup {None}, conn: Grant,
                            snap: Snap]]
    /\ dc \in [pc: {"idle", "revoke", "clear"}, conn: Grant, token: Grant]
    /\ inFlight \in [Instances -> [Grants -> Requests \cup {None}]]
    /\ gone \in BOOLEAN
    /\ disconnects \in Nat

Init ==
    /\ live = {}
    /\ row = [g \in Grants |-> NoConn]
    /\ cb = [g \in Grants |-> [pc |-> "new", conn |-> None]]
    /\ rq = [r \in Requests |-> IdleRq]
    /\ dc = IdleDc
    /\ inFlight = [i \in Instances |-> [g \in Grants |-> None]]
    /\ gone = FALSE
    /\ disconnects = 0

Conns == {c \in Grants : row[c].status # "ABSENT"}

\* findFirst: any row when there are two.
Found == IF Conns = {} THEN {None} ELSE Conns

-----------------------------------------------------------------------------
(* The callback routes, once the state is consumed.                        *)

\* exchangeCodeForTokens.  A failed exchange, and a Google grant without the
\* scopes that are needed, stores nothing; the provider may have made the
\* grant all the same.
Exchange(g) ==
    /\ cb[g].pc = "new"
    /\ \A h \in Grants : h < g => cb[h].pc # "new"
    /\ \/ /\ live' = live \cup {g}
          /\ cb' = [cb EXCEPT ![g].pc = "look"]
       \/ /\ live' \in {live, live \cup {g}}
          /\ cb' = [cb EXCEPT ![g].pc = "done"]
    /\ UNCHANGED <<row, rq, dc, inFlight, gone, disconnects>>

Look(g) ==
    /\ cb[g].pc = "look"
    /\ "twins" \notin Faults => \A h \in Grants : cb[h].pc # "store"
    /\ \E c \in Found : cb' = [cb EXCEPT ![g] = [pc |-> "store", conn |-> c]]
    /\ UNCHANGED <<live, row, rq, dc, inFlight, gone, disconnects>>

\* The refresh token that the payload leaves in the row: eBay's writes the
\* one it got or null, Google's keeps the stored one when none was sent.
StoredRefresh(g, old) ==
    {g} \cup (IF Provider = "GOOGLE" /\ "omitted" \in Faults THEN {old} ELSE {})

\* The update or the create.
Store(g) ==
    LET c == IF cb[g].conn = None THEN g ELSE cb[g].conn
    IN  /\ cb[g].pc = "store"
        /\ \E t \in StoredRefresh(g, row[c].refresh) :
              row' = [row EXCEPT ![c] = [status |-> "CONNECTED", access |-> g,
                                         refresh |-> t, fresh |-> TRUE]]
        /\ cb' = [cb EXCEPT ![g] = [pc |-> "done", conn |-> None]]
        /\ gone' = FALSE
        /\ UNCHANGED <<live, rq, dc, inFlight, disconnects>>

-----------------------------------------------------------------------------
(* A request that needs a token: requireLiveConnection and                 *)
(* getValidAccessToken.                                                    *)

\* Mutant: a stored access token is used however old it is.
SnapUnaged(x) == [access |-> x.access, refresh |-> x.refresh]

SnapOf(x) == [access |-> IF x.fresh THEN x.access ELSE None,
              refresh |-> x.refresh]

\* Mutant: a row that says EXPIRED is turned away.
ServedConnected == {"CONNECTED"}

\* Everything but a disconnected row is tried.
Served == {"CONNECTED", "EXPIRED"}

\* The row is read, and may change before it is used.
Read(r, i, c) ==
    /\ rq[r].pc = "idle"
    /\ row[c].status \in Served
    /\ rq' = [rq EXCEPT ![r] = [pc |-> "get", at |-> i, conn |-> c,
                                snap |-> SnapOf(row[c])]]
    /\ UNCHANGED <<live, row, cb, dc, inFlight, gone, disconnects>>

\* The stored token is good for longer than the skew.
UseStored(r) ==
    /\ rq[r].pc = "get" /\ rq[r].snap.access # None
    /\ rq' = [rq EXCEPT ![r] = IdleRq]
    /\ UNCHANGED <<live, row, cb, dc, inFlight, gone, disconnects>>

\* Mutant: refreshes are not collapsed.
InFlightIgnored(r) == None

\* The refresh of the same connection that this process has on its way.
InFlightOf(r) == inFlight[rq[r].at][rq[r].conn]

Join(r) ==
    /\ rq[r].pc = "get" /\ rq[r].snap.access = None
    /\ InFlightOf(r) # None
    /\ rq' = [rq EXCEPT ![r].pc = "wait", ![r].snap = NoSnap]
    /\ UNCHANGED <<live, row, cb, dc, inFlight, gone, disconnects>>

\* performRefresh up to its first await, and the entry of its promise.
BeginRefresh(r) ==
    LET q == rq[r] IN
    /\ q.pc = "get" /\ q.snap.access = None
    /\ InFlightOf(r) = None
    /\ inFlight' = [inFlight EXCEPT ![q.at][q.conn] = r]
    /\ rq' = [rq EXCEPT ![r].pc =
                IF q.snap.refresh = None THEN "mark" ELSE "refresh"]
    /\ UNCHANGED <<live, row, cb, dc, gone, disconnects>>

\* refreshAccessToken answers with a token, kept in snap.access, or with
\* AUTH_EXPIRED.
RefreshAnswers(r) ==
    LET g == rq[r].snap.refresh IN
    /\ rq[r].pc = "refresh"
    /\ rq' = [rq EXCEPT ![r].pc = IF g \in live THEN "save" ELSE "mark",
                        ![r].snap = IF g \in live
                                    THEN [access |-> g, refresh |-> None]
                                    ELSE NoSnap]
    /\ UNCHANGED <<live, row, cb, dc, inFlight, gone, disconnects>>

\* Or it fails with an error that says nothing about the grant.
RefreshFails(r) ==
    /\ rq[r].pc = "refresh"
    /\ rq' = [rq EXCEPT ![r].pc = "settle", ![r].snap = NoSnap]
    /\ UNCHANGED <<live, row, cb, dc, inFlight, gone, disconnects>>

\* What the update of a refresh leaves of the refresh token: it is written
\* when the answer has one.
KeptRefresh(old, sent) == {old} \cup (IF "rotated" \in Faults THEN {sent} ELSE {})

\* The update by id, whatever the row holds by now.  fresh unless the token's
\* lifetime passed since it was issued.
Save(r) ==
    LET q == rq[r] IN
    /\ q.pc = "save"
    /\ \E t \in KeptRefresh(row[q.conn].refresh, q.snap.access) :
          row' = [row EXCEPT ![q.conn] =
                    [@ EXCEPT !.access = q.snap.access, !.refresh = t, !.fresh = TRUE,
                              !.status = "CONNECTED"]]
    /\ rq' = [rq EXCEPT ![r].pc = "settle", ![r].snap = NoSnap]
    /\ UNCHANGED <<live, cb, dc, inFlight, gone, disconnects>>

\* markReconnectRequired, by id as well.
MarkReconnectRequired(r) ==
    /\ rq[r].pc = "mark"
    /\ row' = [row EXCEPT ![rq[r].conn].status = "EXPIRED"]
    /\ rq' = [rq EXCEPT ![r].pc = "settle", ![r].snap = NoSnap]
    /\ UNCHANGED <<live, cb, dc, inFlight, gone, disconnects>>

\* Whoever awaits the promise of r.
Joined(r) == {p \in Requests : /\ rq[p].pc = "wait"
                               /\ rq[p].at = rq[r].at
                               /\ rq[p].conn = rq[r].conn}

\* The promise settles: its entry goes and everyone who awaits it goes on.
Settle(r) ==
    LET q == rq[r] IN
    /\ q.pc = "settle"
    /\ inFlight' = [inFlight EXCEPT ![q.at][q.conn] = None]
    /\ rq' = [p \in Requests |-> IF p \in Joined(r) \cup {r} THEN IdleRq ELSE rq[p]]
    /\ UNCHANGED <<live, row, cb, dc, gone, disconnects>>

-----------------------------------------------------------------------------
(* The disconnect routes, and the world.                                   *)

\* Google's tokens are revoked first: the refresh token, or the other.
Disconnect(c) ==
    /\ dc.pc = "idle"
    /\ disconnects < MaxDisconnects
    /\ c \in Conns
    /\ dc' = [pc |-> IF Provider = "GOOGLE" THEN "revoke" ELSE "clear",
              conn |-> c,
              token |-> IF row[c].refresh # None THEN row[c].refresh
                                                 ELSE row[c].access]
    /\ disconnects' = disconnects + 1
    /\ UNCHANGED <<live, row, cb, rq, inFlight, gone>>

\* Best effort: the tokens go either way.
RevokeToken ==
    /\ dc.pc = "revoke"
    /\ live' \in {live, live \ {dc.token}}
    /\ dc' = [dc EXCEPT !.pc = "clear"]
    /\ UNCHANGED <<row, cb, rq, inFlight, gone, disconnects>>

\* Mutant: the refresh token stays.
ClearedButRefresh(x) == [NoConn EXCEPT !.status = "DISCONNECTED", !.refresh = x.refresh]

Cleared(x) == [NoConn EXCEPT !.status = "DISCONNECTED"]

ClearTokens ==
    /\ dc.pc = "clear"
    /\ row' = [row EXCEPT ![dc.conn] = Cleared(@)]
    /\ dc' = IdleDc
    /\ gone' = TRUE
    /\ UNCHANGED <<live, cb, rq, inFlight, disconnects>>

\* The lifetime of an access token passes, for every copy of one; it counts
\* from the moment a token is stored.
HourPasses ==
    /\ row' = [c \in Grants |-> [row[c] EXCEPT !.fresh = FALSE]]
    /\ rq' = [r \in Requests |-> IF rq[r].pc = "save" THEN rq[r]
                                ELSE [rq[r] EXCEPT !.snap.access = None]]
    /\ UNCHANGED <<live, cb, dc, inFlight, gone, disconnects>>

\* A grant ends at the provider: revoked by its owner, or too old.
GrantEnds(g) ==
    /\ g \in live
    /\ live' = live \ {g}
    /\ UNCHANGED <<row, cb, rq, dc, inFlight, gone, disconnects>>

Proceeds(r) == \/ UseStored(r) \/ Join(r) \/ BeginRefresh(r)
               \/ RefreshAnswers(r) \/ RefreshFails(r)
               \/ Save(r) \/ MarkReconnectRequired(r) \/ Settle(r)

Next ==
    \/ \E g \in Grants : \/ Exchange(g) \/ Look(g) \/ Store(g)
                        \/ GrantEnds(g)
    \/ \E r \in Requests, i \in Instances, c \in Grants : Read(r, i, c)
    \/ \E r \in Requests : Proceeds(r)
    \/ \E c \in Grants : Disconnect(c)
    \/ RevokeToken \/ ClearTokens
    \/ HourPasses

Spec == Init /\ [][Next]_vars

\* Handlers run to their end; time passes; an account that is connected is
\* used again and again (the worker and the pages do), and a provider that is
\* asked again and again answers.
Fairness ==
    /\ WF_vars(HourPasses)
    /\ WF_vars(\E g \in Grants : Look(g) \/ Store(g))
    /\ \A r \in Requests :
          /\ WF_vars(\/ \E i \in Instances, c \in Grants : Read(r, i, c)
                     \/ Proceeds(r))
          /\ SF_vars(RefreshAnswers(r))
    /\ WF_vars(RevokeToken \/ ClearTokens)

FairSpec == Spec /\ Fairness

-----------------------------------------------------------------------------
(* Properties.                                                             *)

Refreshing(r, i, c) == /\ rq[r].at = i /\ rq[r].conn = c
                       /\ rq[r].pc \in {"refresh", "mark", "save", "settle"}

\* Within a process a connection is refreshed by one request at a time, its
\* promise is the one on record, and nobody waits for a promise that has
\* settled: the finally of one refresh never takes away another's entry.
RefreshesCollapse ==
    \A i \in Instances, c \in Grants :
       /\ \A r \in Requests : Refreshing(r, i, c) <=> inFlight[i][c] = r
       /\ \A r \in Requests :
             rq[r].pc = "wait" /\ rq[r].at = i /\ rq[r].conn = c
                => inFlight[i][c] # None

\* Whether a request could get hold of a working token.
Usable == \E c \in Grants : \/ row[c].access # None /\ row[c].fresh
                            \/ row[c].refresh # None

\* A refresh that was on its way when the user disconnected stores its token
\* all the same and shows the row as connected.  It cannot last: the refresh
\* token is gone, and from some point on nothing of the account is usable.
\* With "rotated" it would last, since the answer then brings it back.
DisconnectPrevails == <>[](gone => ~Usable)

\* A row that a late refresh of an earlier grant left as EXPIRED, while the
\* grant it now holds is in force, becomes CONNECTED without another consent.
WrongExpiryHeals ==
    \A c \in Grants :
       (row[c].status = "EXPIRED" /\ row[c].refresh \in live)
          ~> (row[c].status # "EXPIRED" \/ row[c].refresh \notin live)

\* A late refresh can also leave the access token of an earlier account
\* beside the refresh token of the present one: requests then read another
\* account's data.  It ends when the account is used, unless the grant does.
MixedTokensHeal ==
    \A c \in Grants :
       (row[c].access # row[c].refresh)
          ~> (row[c].access = row[c].refresh \/ row[c].refresh \notin live)

\* Does not hold: what the disconnect route says it did.
DisconnectedStays ==
    [][\A c \in Grants :
          row[c].status = "DISCONNECTED" /\ row'[c].status # "DISCONNECTED"
          => \E g \in Grants : cb[g].pc = "store" /\ cb'[g].pc = "done"]_vars
=============================================================================
