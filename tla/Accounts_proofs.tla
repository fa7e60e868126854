--------------------------- MODULE Accounts_proofs ---------------------------
(***************************************************************************)
(* Accounts for any number of consents, requests and processes: its types, *)
(* and the single refresh per process and connection.                      *)
(***************************************************************************)
EXTENDS Accounts, TLAPS

-----------------------------------------------------------------------------
\* A request that is under way has a process and a connection; one that
\* refreshes is the one on record, and only then; whoever waits, waits for a
\* promise that is there.  A token that is about to be stored was issued.
RequestInv ==
    /\ \A r \in Requests :
          rq[r].pc # "idle" => rq[r].at \in Instances /\ rq[r].conn \in Grants
    /\ \A r \in Requests : rq[r].pc = "save" => rq[r].snap.access \in Grants
    /\ dc.pc # "idle" => dc.conn \in Grants

IInv == TypeOK /\ RequestInv /\ RefreshesCollapse

RqType == [pc: RqPcs, at: Instances \cup {None}, conn: Grant, snap: Snap]

LEMMA NoneIsNoOne ==
    None \notin Grants /\ None \notin Requests /\ None \notin Instances
BY AccountsAssumption DEF Grants

LEMMA IInvInit == ASSUME Init PROVE IInv
<1> USE NoneIsNoOne, AccountsAssumption
<1>1. NoConn \in Conn /\ IdleRq \in RqType /\ IdleDc.pc = "idle"
  BY DEF NoConn, Conn, Grant, IdleRq, RqType, RqPcs, NoSnap, Snap, IdleDc
<1>2. TypeOK
  BY <1>1 DEF Init, TypeOK, RqType, CbPcs, IdleDc, Grant
<1>3. RequestInv
  BY DEF Init, RequestInv, IdleRq, IdleDc
<1>4. RefreshesCollapse
  BY DEF Init, RefreshesCollapse, Refreshing, IdleRq
<1> QED
  BY <1>2, <1>3, <1>4 DEF IInv

-----------------------------------------------------------------------------
(* Steps that leave the requests alone.                                    *)

LEMMA RequestsAlone ==
    ASSUME RequestInv, RefreshesCollapse, UNCHANGED <<rq, inFlight>>,
           dc'.pc # "idle" => dc'.conn \in Grants
    PROVE  RequestInv' /\ RefreshesCollapse'
BY DEF RequestInv, RefreshesCollapse, Refreshing

LEMMA CallbackKeeps ==
    ASSUME IInv, NEW g \in Grants, Exchange(g) \/ Look(g) \/ Store(g) \/ GrantEnds(g)
    PROVE  IInv'
<1> USE NoneIsNoOne DEF IInv
<1>1. dc' = dc /\ UNCHANGED <<rq, inFlight, disconnects>>
  BY DEF Exchange, Look, Store, GrantEnds
<1>2. RequestInv' /\ RefreshesCollapse'
  BY <1>1, RequestsAlone DEF RequestInv
<1>3. CASE Exchange(g)
  <2>1. live' \subseteq Grants
    BY <1>3 DEF Exchange, TypeOK
  <2>2. cb' \in [Grants -> [pc: CbPcs, conn: Grant]]
    <3>1. PICK pc \in {"look", "done"} : cb' = [cb EXCEPT ![g].pc = pc]
      BY <1>3 DEF Exchange
    <3> QED
      BY <3>1 DEF TypeOK, CbPcs
  <2>3. UNCHANGED <<row, gone>>
    BY <1>3 DEF Exchange
  <2> QED
    BY <1>1, <1>2, <2>1, <2>2, <2>3 DEF TypeOK
<1>4. CASE Look(g)
  BY <1>1, <1>2, <1>4 DEF Look, TypeOK, CbPcs, Found, Conns, Grant
<1>5. CASE Store(g)
  <2> DEFINE c == IF cb[g].conn = None THEN g ELSE cb[g].conn
  <2>1. c \in Grants
    BY DEF TypeOK, Grant
  <2>2. PICK t \in StoredRefresh(g, row[c].refresh) :
            row' = [row EXCEPT ![c] = [status |-> "CONNECTED", access |-> g,
                                       refresh |-> t, fresh |-> TRUE]]
    BY <1>5 DEF Store
  <2>3. t \in Grant
    BY <2>1 DEF StoredRefresh, TypeOK, Conn, Grant
  <2>4. row' \in [Grants -> Conn]
    BY <2>1, <2>2, <2>3 DEF TypeOK, Conn, Grant
  <2>5. cb' \in [Grants -> [pc: CbPcs, conn: Grant]] /\ gone' \in BOOLEAN /\ live' = live
    BY <1>5 DEF Store, TypeOK, CbPcs, Grant
  <2> QED
    BY <1>1, <1>2, <2>4, <2>5 DEF TypeOK
<1>6. CASE GrantEnds(g)
  BY <1>1, <1>2, <1>6 DEF GrantEnds, TypeOK
<1> QED
  BY <1>3, <1>4, <1>5, <1>6

LEMMA DisconnectKeeps ==
    ASSUME IInv, (\E c \in Grants : Disconnect(c)) \/ RevokeToken \/ ClearTokens
    PROVE  IInv'
<1> USE NoneIsNoOne DEF IInv
<1>1. UNCHANGED <<cb, rq, inFlight>>
  BY DEF Disconnect, RevokeToken, ClearTokens
<1>2. ASSUME NEW c \in Grants, Disconnect(c) PROVE IInv'
  <2>1. /\ dc'.pc \in {"revoke", "clear"} /\ dc'.conn = c /\ dc'.token \in Grant
        /\ dc' \in [pc: {"idle", "revoke", "clear"}, conn: Grant, token: Grant]
    BY <1>2 DEF Disconnect, TypeOK, Conn, Grant
  <2>2. RequestInv' /\ RefreshesCollapse'
    BY <1>1, <2>1, RequestsAlone
  <2> QED
    BY <1>1, <1>2, <2>1, <2>2 DEF Disconnect, TypeOK
<1>3. CASE RevokeToken
  <2>1. /\ dc'.pc = "clear" /\ dc'.conn = dc.conn /\ dc.conn \in Grants
        /\ dc' \in [pc: {"idle", "revoke", "clear"}, conn: Grant, token: Grant]
    BY <1>3 DEF RevokeToken, TypeOK, RequestInv
  <2>2. RequestInv' /\ RefreshesCollapse'
    BY <1>1, <2>1, RequestsAlone
  <2> QED
    BY <1>1, <1>3, <2>1, <2>2 DEF RevokeToken, TypeOK
<1>4. CASE ClearTokens
  <2>1. NoConn.refresh \in Grant /\ Cleared(row[dc.conn]) \in Conn
    BY DEF Cleared, NoConn, Conn, Grant
  <2>2. /\ dc'.pc = "idle"
        /\ dc' \in [pc: {"idle", "revoke", "clear"}, conn: Grant, token: Grant]
    BY <1>4 DEF ClearTokens, IdleDc, Grant
  <2>3. RequestInv' /\ RefreshesCollapse'
    BY <1>1, <2>2, RequestsAlone
  <2> QED
    BY <1>1, <1>4, <2>1, <2>2, <2>3 DEF ClearTokens, TypeOK
<1> QED
  BY <1>2, <1>3, <1>4

-----------------------------------------------------------------------------
(* Steps of a request.                                                     *)

\* A request goes on as q, in a place that says the same of refreshing and
\* waiting as the one it leaves.
LEMMA GoesOn ==
    ASSUME IInv, NEW r \in Requests, NEW q \in RqType,
           rq' = [rq EXCEPT ![r] = q], UNCHANGED <<inFlight, dc>>,
           q.pc # "idle" => q.at \in Instances /\ q.conn \in Grants,
           q.pc = "save" => q.snap.access \in Grants,
           q.pc # "wait", rq[r].pc # "wait",
           \/ /\ {q.pc, rq[r].pc} \subseteq {"refresh", "mark", "save", "settle"}
              /\ q.at = rq[r].at /\ q.conn = rq[r].conn
           \/ {q.pc, rq[r].pc} \cap {"refresh", "mark", "save", "settle"} = {}
    PROVE  /\ rq' \in [Requests -> RqType]
           /\ RequestInv' /\ RefreshesCollapse'
<1> USE DEF IInv
<1>1. rq'[r] = q /\ \A p \in Requests : p # r => rq'[p] = rq[p]
  BY DEF TypeOK
<1>2. \A p \in Requests, i \in Instances, c \in Grants :
         Refreshing(p, i, c)' <=> Refreshing(p, i, c)
  BY <1>1 DEF Refreshing
<1>3. RefreshesCollapse'
  BY <1>1, <1>2 DEF RefreshesCollapse
<1> QED
  BY <1>1, <1>3 DEF RequestInv, TypeOK, RqType

\* What such a step may write beside the requests.
LEMMA RestTypes ==
    ASSUME IInv, rq' \in [Requests -> RqType],
           UNCHANGED <<live, cb, dc, gone, disconnects>>, row' \in [Grants -> Conn],
           inFlight' \in [Instances -> [Grants -> Requests \cup {None}]]
    PROVE  TypeOK'
BY DEF IInv, TypeOK, RqType

LEMMA ReadKeeps ==
    ASSUME IInv, NEW r \in Requests, NEW i \in Instances, NEW c \in Grants, Read(r, i, c)
    PROVE  IInv'
<1> DEFINE q == [pc |-> "get", at |-> i, conn |-> c, snap |-> SnapOf(row[c])]
<1>1. SnapOf(row[c]) \in Snap
  BY DEF SnapOf, Snap, IInv, TypeOK, Conn, Grant
<1>2. q \in RqType /\ q.pc = "get" /\ q.at = i /\ q.conn = c
  BY <1>1 DEF RqType, RqPcs, Grant
<1>3. rq' = [rq EXCEPT ![r] = q] /\ rq[r].pc = "idle"
  BY DEF Read
<1> HIDE DEF q
<1>4. rq' \in [Requests -> RqType] /\ RequestInv' /\ RefreshesCollapse'
  BY <1>2, <1>3, GoesOn DEF Read
<1> QED
  BY <1>4, RestTypes DEF Read, IInv, TypeOK

LEMMA SimpleSteps ==
    ASSUME IInv, NEW r \in Requests,
           UseStored(r) \/ RefreshAnswers(r) \/ RefreshFails(r) \/ Save(r)
              \/ MarkReconnectRequired(r)
    PROVE  IInv'
<1> USE NoneIsNoOne
<1>0. rq[r] \in RqType /\ NoSnap \in Snap /\ IdleRq \in RqType /\ IdleRq.pc = "idle"
  BY DEF IInv, TypeOK, RqType, NoSnap, Snap, Grant, IdleRq, RqPcs
<1>1. rq[r].pc # "idle" => rq[r].at \in Instances /\ rq[r].conn \in Grants
  BY DEF IInv, RequestInv
<1>2. CASE UseStored(r)
  <2>1. rq' \in [Requests -> RqType] /\ RequestInv' /\ RefreshesCollapse'
    BY <1>0, <1>2, GoesOn DEF UseStored
  <2> QED
    BY <1>2, <2>1, RestTypes DEF UseStored, IInv, TypeOK
<1>3. CASE RefreshAnswers(r)
  <2> DEFINE g == rq[r].snap.refresh
             q == [rq[r] EXCEPT !.pc = IF g \in live THEN "save" ELSE "mark",
                                !.snap = IF g \in live
                                         THEN [access |-> g, refresh |-> None]
                                         ELSE NoSnap]
  <2>1. g \in live => g \in Grants
    BY DEF IInv, TypeOK
  <2>2. /\ q \in RqType /\ q.pc \in {"save", "mark"}
        /\ q.at = rq[r].at /\ q.conn = rq[r].conn
        /\ q.pc = "save" => q.snap.access \in Grants
    BY <1>0, <2>1 DEF RqType, RqPcs, Snap, Grant
  <2>3. rq' = [rq EXCEPT ![r] = q] /\ rq[r].pc = "refresh"
    BY <1>3 DEF RefreshAnswers, IInv, TypeOK
  <2> HIDE DEF q
  <2>4. rq' \in [Requests -> RqType] /\ RequestInv' /\ RefreshesCollapse'
    BY <1>1, <1>3, <2>2, <2>3, GoesOn DEF RefreshAnswers
  <2> QED
    BY <1>3, <2>4, RestTypes DEF RefreshAnswers, IInv, TypeOK
<1>4. CASE RefreshFails(r) \/ Save(r) \/ MarkReconnectRequired(r)
  <2> DEFINE q == [rq[r] EXCEPT !.pc = "settle", !.snap = NoSnap]
  <2>1. /\ q \in RqType /\ q.pc = "settle"
        /\ q.at = rq[r].at /\ q.conn = rq[r].conn
    BY <1>0 DEF RqType, RqPcs
  <2>2. rq' = [rq EXCEPT ![r] = q] /\ rq[r].pc \in {"refresh", "save", "mark"}
    BY <1>4 DEF RefreshFails, Save, MarkReconnectRequired, IInv, TypeOK
  <2>3. UNCHANGED <<live, cb, dc, inFlight, gone, disconnects>>
    BY <1>4 DEF RefreshFails, Save, MarkReconnectRequired
  <2> HIDE DEF q
  <2>4. rq' \in [Requests -> RqType] /\ RequestInv' /\ RefreshesCollapse'
    BY <1>1, <2>1, <2>2, <2>3, GoesOn
  <2>5. row' \in [Grants -> Conn]
    <3>1. CASE RefreshFails(r)
      BY <3>1 DEF RefreshFails, IInv, TypeOK
    <3>2. CASE Save(r)
      <4>1. rq[r].conn \in Grants /\ rq[r].snap.access \in Grant
        BY <3>2 DEF Save, IInv, RequestInv, Grant
      <4>2. PICK t \in KeptRefresh(row[rq[r].conn].refresh, rq[r].snap.access) :
               row' = [row EXCEPT ![rq[r].conn] =
                         [@ EXCEPT !.access = rq[r].snap.access, !.refresh = t,
                                   !.fresh = TRUE, !.status = "CONNECTED"]]
        BY <3>2 DEF Save
      <4>3. row[rq[r].conn] \in Conn
        BY <4>1 DEF IInv, TypeOK
      <4>4. t \in Grant
        BY <4>1, <4>3 DEF KeptRefresh, Conn
      <4>5. [row[rq[r].conn] EXCEPT !.access = rq[r].snap.access, !.refresh = t,
                                    !.fresh = TRUE, !.status = "CONNECTED"] \in Conn
        BY <4>1, <4>3, <4>4 DEF Conn
      <4> QED
        BY <4>1, <4>2, <4>5 DEF IInv, TypeOK
    <3>3. CASE MarkReconnectRequired(r)
      <4>1. rq[r].conn \in Grants
        BY <3>3 DEF MarkReconnectRequired, IInv, RequestInv
      <4>2. [row[rq[r].conn] EXCEPT !.status = "EXPIRED"] \in Conn
        BY <4>1 DEF IInv, TypeOK, Conn
      <4> QED
        BY <3>3, <4>1, <4>2 DEF MarkReconnectRequired, IInv, TypeOK
    <3> QED
      BY <1>4, <3>1, <3>2, <3>3
  <2> QED
    BY <2>3, <2>4, <2>5, RestTypes DEF IInv, TypeOK
<1> QED
  BY <1>2, <1>3, <1>4

\* Who joins leaves the record as it is; who begins is put on it, and nobody
\* was; who settles takes the entry that is its own, and everybody who waits
\* for it along.
LEMMA JoinKeeps == ASSUME IInv, NEW r \in Requests, Join(r) PROVE IInv'
<1>1. /\ rq'[r].pc = "wait" /\ rq'[r].at = rq[r].at /\ rq'[r].conn = rq[r].conn
      /\ rq' \in [Requests -> RqType]
      /\ \A p \in Requests : p # r => rq'[p] = rq[p]
  <2>1. [rq[r] EXCEPT !.pc = "wait", !.snap = NoSnap] \in RqType
    <3>1. rq[r] \in RqType /\ NoSnap \in Snap
      BY DEF IInv, TypeOK, RqType, NoSnap, Snap, Grant
    <3> QED
      BY <3>1 DEF RqType, RqPcs
  <2>2. rq' = [rq EXCEPT ![r] = [rq[r] EXCEPT !.pc = "wait", !.snap = NoSnap]]
    BY DEF Join, IInv, TypeOK
  <2>3. rq \in [Requests -> RqType]
    BY DEF IInv, TypeOK, RqType
  <2> QED
    BY <2>1, <2>2, <2>3 DEF RqType
<1>2. RequestInv'
  BY <1>1 DEF Join, IInv, RequestInv
<1>3. RefreshesCollapse'
  BY <1>1 DEF Join, InFlightOf, IInv, RefreshesCollapse, Refreshing
<1> QED
  BY <1>1, <1>2, <1>3, RestTypes DEF Join, IInv, TypeOK

LEMMA BeginKeeps == ASSUME IInv, NEW r \in Requests, BeginRefresh(r) PROVE IInv'
<1> USE NoneIsNoOne
<1> DEFINE i == rq[r].at
           c == rq[r].conn
<1>1. i \in Instances /\ c \in Grants /\ inFlight[i][c] = None
  BY DEF BeginRefresh, InFlightOf, IInv, RequestInv
<1>2. /\ rq'[r].pc \in {"mark", "refresh"} /\ rq'[r].at = i /\ rq'[r].conn = c
      /\ rq' \in [Requests -> RqType] /\ rq[r].pc = "get"
      /\ \A p \in Requests : p # r => rq'[p] = rq[p]
  BY DEF BeginRefresh, IInv, TypeOK, RqType, RqPcs
<1>3. /\ inFlight' \in [Instances -> [Grants -> Requests \cup {None}]]
      /\ inFlight'[i][c] = r
      /\ \A j \in Instances, d \in Grants :
            j # i \/ d # c => inFlight'[j][d] = inFlight[j][d]
  BY <1>1 DEF BeginRefresh, IInv, TypeOK
<1>4. RequestInv'
  BY <1>1, <1>2 DEF BeginRefresh, IInv, RequestInv
<1> HIDE DEF i, c
<1>5. \A p \in Requests : ~Refreshing(p, i, c)
  BY <1>1 DEF IInv, RefreshesCollapse
<1>6. \A j \in Instances, d \in Grants, p \in Requests :
         Refreshing(p, j, d)' <=> IF p = r THEN j = i /\ d = c ELSE Refreshing(p, j, d)
  BY <1>2 DEF Refreshing
<1>7. \A j \in Instances, d \in Grants, p \in Requests :
         Refreshing(p, j, d)' <=> inFlight'[j][d] = p
  <2>1. \A j \in Instances, d \in Grants : ~Refreshing(r, j, d)
    BY <1>2 DEF Refreshing
  <2> QED
    BY <1>3, <1>5, <1>6, <2>1 DEF IInv, RefreshesCollapse
<1>8. RefreshesCollapse'
  BY <1>2, <1>3, <1>7 DEF IInv, RefreshesCollapse
<1> QED
  BY <1>2, <1>3, <1>4, <1>8, RestTypes DEF BeginRefresh, IInv, TypeOK

LEMMA SettleKeeps == ASSUME IInv, NEW r \in Requests, Settle(r) PROVE IInv'
<1> USE NoneIsNoOne
<1> DEFINE i == rq[r].at
           c == rq[r].conn
<1>1. i \in Instances /\ c \in Grants /\ Refreshing(r, i, c) /\ inFlight[i][c] = r
  BY DEF Settle, IInv, RequestInv, RefreshesCollapse, Refreshing
<1>2. /\ \A p \in Requests : rq'[p] = IF p \in Joined(r) \cup {r} THEN IdleRq ELSE rq[p]
      /\ rq' \in [Requests -> RqType]
  <2>1. IdleRq \in RqType
    BY DEF IdleRq, RqType, RqPcs, NoSnap, Snap, Grant
  <2> QED
    BY <2>1 DEF Settle, IInv, TypeOK, RqType
<1>3. /\ inFlight' \in [Instances -> [Grants -> Requests \cup {None}]]
      /\ inFlight'[i][c] = None
      /\ \A j \in Instances, d \in Grants :
            j # i \/ d # c => inFlight'[j][d] = inFlight[j][d]
  BY <1>1 DEF Settle, IInv, TypeOK
<1>4. RequestInv'
  BY <1>2 DEF Settle, IInv, RequestInv, IdleRq
<1>5. \A p \in Requests : p \in Joined(r) <=> rq[p].pc = "wait" /\ rq[p].at = i /\ rq[p].conn = c
  BY DEF Joined
<1> HIDE DEF i, c
<1>6. \A j \in Instances, d \in Grants, p \in Requests :
         Refreshing(p, j, d)' <=> Refreshing(p, j, d) /\ p # r
  BY <1>2, <1>5 DEF Refreshing, IdleRq
<1>7. \A j \in Instances, d \in Grants, p \in Requests :
         Refreshing(p, j, d)' <=> inFlight'[j][d] = p
  <2>1. \A j \in Instances, d \in Grants : Refreshing(r, j, d) => j = i /\ d = c
    BY <1>1 DEF Refreshing
  <2> QED
    BY <1>1, <1>3, <1>6, <2>1 DEF IInv, RefreshesCollapse
<1>8. \A j \in Instances, d \in Grants, p \in Requests :
         rq'[p].pc = "wait" /\ rq'[p].at = j /\ rq'[p].conn = d => inFlight'[j][d] # None
  BY <1>2, <1>3, <1>5 DEF IInv, RefreshesCollapse, IdleRq
<1>9. RefreshesCollapse'
  BY <1>7, <1>8 DEF RefreshesCollapse
<1> QED
  BY <1>2, <1>3, <1>4, <1>9, RestTypes DEF Settle, IInv, TypeOK

LEMMA HourKeeps == ASSUME IInv, HourPasses PROVE IInv'
<1> USE NoneIsNoOne DEF IInv
<1>0. /\ row \in [Grants -> Conn] /\ rq \in [Requests -> RqType]
      /\ row' = [c \in Grants |-> [row[c] EXCEPT !.fresh = FALSE]]
      /\ rq' = [r \in Requests |-> IF rq[r].pc = "save" THEN rq[r]
                                  ELSE [rq[r] EXCEPT !.snap.access = None]]
  BY DEF HourPasses, TypeOK, RqType
<1> HIDE DEF IInv
<1>1. row' \in [Grants -> Conn]
  <2>1. \A x \in Conn : [x EXCEPT !.fresh = FALSE] \in Conn
    BY DEF Conn
  <2> QED
    BY <1>0, <2>1
<1>2. \A r \in Requests :
         /\ rq'[r] \in RqType
         /\ rq'[r].pc = rq[r].pc /\ rq'[r].at = rq[r].at /\ rq'[r].conn = rq[r].conn
         /\ rq[r].pc = "save" => rq'[r] = rq[r]
  <2>1. \A x \in RqType :
           LET y == [x EXCEPT !.snap.access = None] IN
           y \in RqType /\ y.pc = x.pc /\ y.at = x.at /\ y.conn = x.conn
    BY DEF RqType, Snap, Grant
  <2> QED
    BY <1>0, <2>1
<1> USE DEF IInv
<1>3. rq' \in [Requests -> RqType]
  BY <1>2 DEF HourPasses
<1>4. RequestInv' /\ RefreshesCollapse'
  BY <1>2 DEF HourPasses, RequestInv, RefreshesCollapse, Refreshing
<1> QED
  BY <1>1, <1>3, <1>4, RestTypes DEF HourPasses, TypeOK

-----------------------------------------------------------------------------
LEMMA IInvStep == ASSUME IInv, [Next]_vars PROVE IInv'
<1>1. CASE UNCHANGED vars
  BY <1>1 DEF vars, IInv, TypeOK, RequestInv, RefreshesCollapse, Refreshing
<1>2. CASE Next
  BY <1>2, CallbackKeeps, ReadKeeps, SimpleSteps, JoinKeeps, BeginKeeps,
     SettleKeeps, DisconnectKeeps, HourKeeps DEF Next, Proceeds
<1> QED
  BY <1>1, <1>2

LEMMA Invariance == Spec => []IInv
<1>1. Init => IInv
  BY IInvInit
<1>2. IInv /\ [Next]_vars => IInv'
  BY IInvStep
<1> QED
  BY <1>1, <1>2, PTL DEF Spec

\* The connection rows and everything that is on its way to them keep their
\* types, with every fault, for both providers.
THEOREM TypesKept == Spec => []TypeOK
<1>1. IInv => TypeOK
  BY DEF IInv
<1> QED
  BY <1>1, Invariance, PTL

\* inFlightRefreshes holds exactly the refresh that runs, in every process
\* and for every connection: one at a time, and nobody awaits a settled one.
THEOREM OneRefreshAtATime == Spec => []RefreshesCollapse
<1>1. IInv => RefreshesCollapse
  BY DEF IInv
<1> QED
  BY <1>1, Invariance, PTL
=============================================================================
