-------------------------- MODULE OrderFetch_proofs --------------------------
(***************************************************************************)
(* The pacing of ApiClient, for any number of callers and any gap: the     *)
(* queue of acquireSlot lets one request out at a time, each a whole gap   *)
(* after the one before it, and a cool-down leaves a bounded number of     *)
(* requests to be sent.                                                    *)
(*                                                                         *)
(* Then the import, for any result set, page size, budget and number of    *)
(* orders that are indexed late: the walk finds what it does not say it    *)
(* cut short, and SUCCESS means that all of it was stored and looked up.   *)
(***************************************************************************)
EXTENDS OrderFetch, FiniteSetTheorems, SequenceTheorems, WellFoundedInduction,
        TLAPS

-----------------------------------------------------------------------------
(* The inductive invariant.                                                *)

Line == {p \in Callers : rq[p].pc \in {"turn", "gap"}}

\* Callers that wait form a queue: each is behind another that waits, no two
\* behind the same, none behind the tail, and one at most is behind nobody.
\* That there is no cycle in it does not matter: nobody in one is ever sent.
QueueInv ==
    /\ \A p \in Callers \ Line : rq[p].after = NoCaller
    /\ \A p \in Line : rq[p].after \in Line \cup {NoCaller}
    /\ \A p, q \in Line : rq[p].after = rq[q].after => p = q
    /\ tail \in Line \cup {NoCaller}
    /\ \A p \in Line : rq[p].after # tail

\* Who waits out the gap is at the head of the queue, so that lastStartedAt is
\* not moved meanwhile; what is left and what has passed make up the gap.
GapInv ==
    \A p \in Callers : rq[p].pc = "gap" => /\ rq[p].after = NoCaller
                                           /\ rq[p].left + since >= MinInterval

PaceInv == ClientTypeOK /\ QueueInv /\ GapInv

-----------------------------------------------------------------------------
LEMMA LineIsOfCallers == Line \subseteq Callers
BY DEF Line

LEMMA PaceInit == ASSUME ClientInit PROVE PaceInv
BY ApiClientAssumption
   DEF ClientInit, PaceInv, ClientTypeOK, QueueInv, GapInv, Line, Idle,
       Request, Pcs

\* A request that neither waits nor begins to changes as it likes.
LEMMA OffTheQueue ==
    ASSUME PaceInv, NEW p \in Callers, NEW r \in Request, p \notin Line,
           r.pc \notin {"turn", "gap"}, r.after = NoCaller,
           rq' = [rq EXCEPT ![p] = r], UNCHANGED <<since, tail>>,
           cooldown' \in Nat, during' \in Nat
    PROVE  PaceInv'
<1> USE ApiClientAssumption DEF PaceInv, ClientTypeOK
<1>1. rq'[p] = r /\ \A q \in Callers : q # p => rq'[q] = rq[q]
  OBVIOUS
<1>2. Line' = Line
  BY <1>1 DEF Line
<1>3. \A q \in Callers : rq'[q].after = rq[q].after
  BY <1>1 DEF QueueInv
<1>4. ClientTypeOK'
  BY <1>1
<1>5. QueueInv'
  BY <1>2, <1>3 DEF QueueInv
<1>6. GapInv'
  BY <1>1, <1>3 DEF GapInv
<1> QED
  BY <1>4, <1>5, <1>6

LEMMA RetriedTypes ==
    ASSUME NEW q \in Request, NEW wait \in Nat
    PROVE  /\ Retried(q, wait) \in Request
           /\ Retried(q, wait).pc \in {"backoff", "failed"}
           /\ Retried(q, wait).after = q.after
<1>1. BackoffDelay(q.attempt, wait) \in Nat
  BY ApiClientAssumption DEF BackoffDelay, Least, Request
<1> QED
  <2>1. CASE q.attempt < MaxAttempts
    <3>1. q.attempt + 1 \in 1 .. MaxAttempts
      BY <2>1, ApiClientAssumption DEF Request
    <3> QED
      BY <1>1, <2>1, <3>1 DEF Retried, Request, Pcs
  <2>2. CASE ~(q.attempt < MaxAttempts)
    BY <2>2 DEF Retried, Request, Pcs
  <2> QED
    BY <2>1, <2>2

\* The steps of a request that is not in the queue.
Outside(p) ==
    \/ Begin(p) \/ Take(p) \/ Succeeds(p) \/ FailsForNow(p) \/ FailsForGood(p)
    \/ Refused(p) \/ StartCooldown(p) \/ Again(p)

LEMMA OutsideInv ==
    ASSUME PaceInv, NEW p \in Callers, Outside(p)
    PROVE  PaceInv'
<1> USE ApiClientAssumption
<1>0. /\ rq[p] \in Request /\ cooldown \in Nat /\ during \in Nat
      /\ rq[p].pc \notin {"turn", "gap"} => p \notin Line /\ rq[p].after = NoCaller
  BY DEF PaceInv, ClientTypeOK, QueueInv, Line
<1>1. CASE Begin(p)
  <2> DEFINE r == [rq[p] EXCEPT !.pc = IF GateOpen THEN "token" ELSE "failed"]
  <2>1. r \in Request /\ r.pc \notin {"turn", "gap"} /\ r.after = rq[p].after
    BY <1>0 DEF Request, Pcs
  <2>2. rq' = [rq EXCEPT ![p] = r] /\ p \notin Line /\ rq[p].after = NoCaller
    BY <1>0, <1>1 DEF Begin
  <2> HIDE DEF r
  <2> QED
    BY <1>0, <1>1, <2>1, <2>2, OffTheQueue DEF Begin
<1>2. CASE Take(p)
  <2>1. Idle \in Request /\ Idle.pc = "idle" /\ Idle.after = NoCaller
    BY DEF Idle, Request, Pcs
  <2> QED
    BY <1>0, <1>2, <2>1, OffTheQueue DEF Take
<1>3. CASE Succeeds(p) \/ FailsForGood(p) \/ Again(p)
  <2>1. PICK pc \in {"ok", "failed", "token"} : rq' = [rq EXCEPT ![p].pc = pc]
    BY <1>3 DEF Succeeds, FailsForGood, Again
  <2> DEFINE r == [rq[p] EXCEPT !.pc = pc]
  <2>2. r \in Request /\ r.pc \notin {"turn", "gap"} /\ r.after = rq[p].after
    BY <1>0 DEF Request, Pcs
  <2>3. rq' = [rq EXCEPT ![p] = r] /\ p \notin Line /\ rq[p].after = NoCaller
    BY <1>0, <1>3, <2>1 DEF Succeeds, FailsForGood, Again
  <2>4. UNCHANGED <<since, tail>> /\ cooldown' \in Nat /\ during' \in Nat
    BY <1>0, <1>3 DEF Succeeds, FailsForGood, Again
  <2> HIDE DEF r
  <2> QED
    BY <2>2, <2>3, <2>4, OffTheQueue
<1>4. CASE FailsForNow(p)
  <2>1. PICK wait \in Nat : rq' = [rq EXCEPT ![p] = Retried(rq[p], wait)]
    BY <1>0, <1>4 DEF FailsForNow, PaceInv, ClientTypeOK
  <2> QED
    BY <1>0, <1>4, <2>1, RetriedTypes, OffTheQueue DEF FailsForNow
<1>5. CASE Refused(p)
  <2>1. PICK wait \in Waits :
            rq' = [rq EXCEPT ![p] = [rq[p] EXCEPT !.pc = "refused", !.left = wait]]
    BY <1>0, <1>5 DEF Refused, PaceInv, ClientTypeOK
  <2> DEFINE r == [rq[p] EXCEPT !.pc = "refused", !.left = wait]
  <2>2. r \in Request /\ r.pc \notin {"turn", "gap"} /\ r.after = rq[p].after
    BY <1>0 DEF Request, Pcs
  <2>3. rq' = [rq EXCEPT ![p] = r]
    BY <2>1
  <2> HIDE DEF r
  <2> QED
    BY <1>0, <1>5, <2>2, <2>3, OffTheQueue DEF Refused
<1>6. CASE StartCooldown(p)
  <2> DEFINE q == [rq[p] EXCEPT !.left = 0]
  <2>1. q \in Request /\ q.after = rq[p].after /\ rq[p].left \in Nat
    BY <1>0 DEF Request
  <2>2. rq' = [rq EXCEPT ![p] = Retried(q, rq[p].left)]
    BY <1>6 DEF StartCooldown, PaceInv, ClientTypeOK
  <2>3. cooldown' \in Nat /\ during' \in Nat
    BY <1>6, <2>1 DEF StartCooldown, Most
  <2> HIDE DEF q
  <2> QED
    BY <1>0, <1>6, <2>1, <2>2, <2>3, RetriedTypes, OffTheQueue DEF StartCooldown
<1> QED
  BY <1>1, <1>2, <1>3, <1>4, <1>5, <1>6 DEF Outside

\* A place in the queue: behind the tail, which nobody else is behind.
LEMMA TokenInv == ASSUME PaceInv, NEW p \in Callers, Token(p) PROVE PaceInv'
<1> USE ApiClientAssumption, LineIsOfCallers DEF PaceInv, ClientTypeOK
<1>1. rq[p] \in Request /\ p \notin Line /\ rq[p].after = NoCaller
  BY DEF Token, QueueInv, Line
<1>2. CASE tail' = p /\ rq' = [rq EXCEPT ![p].pc = "turn", ![p].after = tail]
  <2>1. /\ rq'[p].pc = "turn" /\ rq'[p].after = tail /\ rq'[p] \in Request
        /\ \A q \in Callers : q # p => rq'[q] = rq[q]
    BY <1>1, <1>2 DEF Request, Pcs
  <2>2. Line' = Line \cup {p}
    BY <2>1 DEF Line
  <2>3. tail # p /\ \A q \in Line : rq[q].after # p
    BY <1>1 DEF QueueInv
  <2>5. ClientTypeOK'
    BY <1>2, <2>1 DEF Token
  <2>4. QueueInv'
    <3>1. \A q \in (Callers \ Line)' : rq'[q].after = NoCaller
      BY <2>1, <2>2 DEF QueueInv
    <3>2. \A q \in Line' : rq'[q].after \in Line' \cup {NoCaller}
      BY <1>1, <2>1, <2>2 DEF QueueInv
    <3>3. \A q, r \in Line' : rq'[q].after = rq'[r].after => q = r
      BY <1>1, <2>1, <2>2 DEF QueueInv
    <3>4. tail' \in Line' /\ \A q \in Line' : rq'[q].after # tail'
      BY <1>1, <1>2, <2>1, <2>2, <2>3
    <3> QED
      BY <3>1, <3>2, <3>3, <3>4 DEF QueueInv
  <2>6. GapInv'
    BY <2>1 DEF GapInv, Token
  <2> QED
    BY <2>4, <2>5, <2>6
<1>3. CASE tail' = tail /\ rq' = [rq EXCEPT ![p].pc = "failed"]
  <2> DEFINE r == [rq[p] EXCEPT !.pc = "failed"]
  <2>1. r \in Request /\ r.pc \notin {"turn", "gap"} /\ r.after = NoCaller
    BY <1>1 DEF Request, Pcs
  <2>2. rq' = [rq EXCEPT ![p] = r] /\ UNCHANGED <<since, tail, cooldown, during>>
    BY <1>3 DEF Token
  <2> HIDE DEF r
  <2> QED
    BY <1>1, <2>1, <2>2, OffTheQueue
<1> QED
  BY <1>2, <1>3 DEF Token

LEMMA TurnInv == ASSUME PaceInv, NEW p \in Callers, Turn(p) PROVE PaceInv'
<1> USE ApiClientAssumption, LineIsOfCallers DEF PaceInv, ClientTypeOK
<1>1. /\ rq'[p].pc = "gap" /\ rq'[p].after = NoCaller /\ rq'[p] \in Request
      /\ rq'[p].left = MinInterval - since
      /\ \A q \in Callers : q # p => rq'[q] = rq[q]
  <2>1. MinInterval - since \in Nat
    OBVIOUS
  <2>2. [rq[p] EXCEPT !.pc = "gap", !.left = MinInterval - since] \in Request
    BY <2>1 DEF Request, Pcs
  <2> QED
    BY <2>2 DEF Turn, Request
<1>2. Line' = Line /\ \A q \in Callers : rq'[q].after = rq[q].after
  BY <1>1 DEF Line, Turn
<1>3. ClientTypeOK'
  BY <1>1 DEF Turn
<1>4. QueueInv'
  BY <1>2 DEF Turn, QueueInv
<1>5. GapInv'
  BY <1>1 DEF Turn, GapInv
<1> QED
  BY <1>3, <1>4, <1>5

\* The head leaves; whoever is behind it becomes the head.
LEMMA SendInv == ASSUME PaceInv, NEW p \in Callers, Send(p) PROVE PaceInv'
<1> USE ApiClientAssumption, LineIsOfCallers DEF PaceInv, ClientTypeOK
<1>1. p \in Line /\ rq[p].after = NoCaller /\ rq[p] \in Request
  BY DEF Send, GapInv, Line
<1>2. /\ rq'[p].pc = "sent" /\ rq'[p].after = NoCaller /\ rq' \in [Callers -> Request]
      /\ \A q \in Callers : q # p =>
            /\ rq'[q].pc = rq[q].pc /\ rq'[q].left = rq[q].left
            /\ rq'[q].after = IF rq[q].after = p THEN NoCaller ELSE rq[q].after
  <2>1. \A x \in Request :
           LET s == [x EXCEPT !.pc = "sent"]  n == [x EXCEPT !.after = NoCaller] IN
           /\ s \in Request /\ s.pc = "sent" /\ s.after = x.after
           /\ n \in Request /\ n.pc = x.pc /\ n.left = x.left /\ n.after = NoCaller
    BY DEF Request, Pcs
  <2>2. /\ rq \in [Callers -> Request]
        /\ rq' = [q \in Callers |->
                    IF q = p THEN [rq[p] EXCEPT !.pc = "sent"]
                    ELSE IF rq[q].after = p THEN [rq[q] EXCEPT !.after = NoCaller]
                    ELSE rq[q]]
    BY DEF Send
  <2>3. \A q \in Callers :
           rq'[q] = IF q = p THEN [rq[p] EXCEPT !.pc = "sent"]
                    ELSE IF rq[q].after = p THEN [rq[q] EXCEPT !.after = NoCaller]
                    ELSE rq[q]
    BY <2>2
  <2>4. \A q \in Callers : rq'[q] \in Request
    BY <2>1, <2>2, <2>3
  <2>5. rq' \in [Callers -> Request]
    BY <2>2, <2>4
  <2> QED
    BY <1>1, <2>1, <2>2, <2>3, <2>5
<1>3. Line' = Line \ {p}
  BY <1>2 DEF Line
<1>4. ClientTypeOK'
  BY <1>2 DEF Send
<1>5. \A q \in Line : rq[q].after = NoCaller => q = p
  BY <1>1 DEF QueueInv
<1>6. QueueInv'
  <2>1. \A q \in (Callers \ Line)' : rq'[q].after = NoCaller
    BY <1>2, <1>3 DEF QueueInv
  <2>2. \A q \in Line' : rq'[q].after \in Line' \cup {NoCaller}
    BY <1>2, <1>3 DEF QueueInv
  <2>3. \A q, r \in Line' : rq'[q].after = rq'[r].after => q = r
    BY <1>2, <1>3, <1>5 DEF QueueInv
  <2>4. tail \in Line
    BY <1>1 DEF QueueInv
  <2>5. CASE tail = p
    <3>1. tail' = NoCaller /\ \A q \in Line' : rq'[q].after # NoCaller
      BY <1>2, <1>3, <1>5, <2>5 DEF Send, QueueInv
    <3> QED
      BY <2>1, <2>2, <2>3, <3>1 DEF QueueInv
  <2>6. CASE tail # p
    <3>1. tail' = tail /\ tail \in Line' /\ \A q \in Line' : rq'[q].after # tail
      BY <1>2, <1>3, <2>4, <2>6 DEF Send, QueueInv, Line
    <3> QED
      BY <2>1, <2>2, <2>3, <3>1 DEF QueueInv
  <2> QED
    BY <2>5, <2>6
<1>7. GapInv'
  BY <1>2, <1>5 DEF GapInv, Line
<1> QED
  BY <1>4, <1>6, <1>7

LEMMA TickInv == ASSUME PaceInv, Tick PROVE PaceInv'
<1> USE ApiClientAssumption DEF PaceInv, ClientTypeOK
<1>1. \A n \in Nat : Less(n) \in Nat
  BY DEF Less
<1>2. \A q \in Callers :
         /\ rq'[q] \in Request
         /\ rq'[q].pc = rq[q].pc /\ rq'[q].after = rq[q].after
         /\ rq[q].pc = "gap" => rq'[q].left = Less(rq[q].left)
  BY <1>1 DEF Tick, Request
<1>3. /\ rq' \in [Callers -> Request] /\ cooldown' \in Nat /\ during' \in Nat
      /\ since' \in 0 .. MinInterval
  BY <1>1, <1>2 DEF Tick, Least
<1>4. QueueInv'
  BY <1>2 DEF Tick, QueueInv, Line
<1>5. ASSUME NEW q \in Callers, rq[q].pc = "gap"
      PROVE  rq'[q].left + since' >= MinInterval
  <2>1. rq[q].left \in Nat /\ rq[q].left + since >= MinInterval
    BY <1>5 DEF GapInv, Request
  <2>2. since' = Least(since + 1, MinInterval) /\ rq'[q].left = Less(rq[q].left)
    BY <1>2, <1>5 DEF Tick
  <2> QED
    BY <2>1, <2>2 DEF Less, Least
<1>6. GapInv'
  BY <1>2, <1>5 DEF GapInv
<1> QED
  BY <1>3, <1>4, <1>6 DEF Tick

-----------------------------------------------------------------------------
(* The steps of an import are those of the client, or leave it alone.      *)

LEMMA ImportIsClient ==
    ASSUME Next
    PROVE  \/ \E p \in Callers : Outside(p) \/ Token(p) \/ Turn(p) \/ Send(p)
           \/ Tick \/ UNCHANGED clientVars
<1> USE OrderFetchAssumption
<1>1. CASE ClientStep
  BY <1>1 DEF ClientStep, Goes, Outside
<1>2. CASE ImportStep
  <2>1. CASE StartWalk \/ StoreAll \/ FinishImport
    BY <2>1 DEF StartWalk, StoreAll, FinishImport
  <2>2. CASE TakePage \/ LosePage
    BY <2>2 DEF TakePage, LosePage, Outside
  <2>3. CASE Lookup \/ LookupLost
    BY <2>3 DEF Lookup, LookupLost, Outside
  <2> QED
    BY <1>2, <2>1, <2>2, <2>3 DEF ImportStep
<1>3. CASE Appears \/ Leaves
  BY <1>3 DEF Appears, Leaves
<1> QED
  BY <1>1, <1>2, <1>3 DEF Next

LEMMA PaceStep == ASSUME PaceInv, [Next]_vars PROVE PaceInv'
<1>1. CASE UNCHANGED clientVars
  BY <1>1 DEF clientVars, PaceInv, ClientTypeOK, QueueInv, GapInv, Line
<1>2. CASE Next
  BY <1>1, <1>2, ImportIsClient, OutsideInv, TokenInv, TurnInv, SendInv, TickInv
<1> QED
  BY <1>1, <1>2 DEF vars

\* Only Send lets a request out.
LEMMA SentAfterTheGap ==
    ASSUME PaceInv, [Next]_vars, NEW p \in Callers,
           rq[p].pc = "gap", rq'[p].pc = "sent"
    PROVE  since = MinInterval
<1> USE ApiClientAssumption DEF PaceInv, ClientTypeOK
<1>1. \A q \in Callers : Send(q) /\ q # p => rq'[p].pc = "gap"
  BY DEF Send, Request
<1>2. \A q \in Callers : ~Outside(q) /\ ~Token(q) /\ ~Turn(q)
  <2>1. \A q \in Callers : Begin(q) \/ Take(q) => rq'[p].pc # "sent"
    BY DEF Begin, Take, Idle, Request
  <2>2. \A q \in Callers : Succeeds(q) \/ FailsForGood(q) \/ Again(q) => rq'[p].pc # "sent"
    BY DEF Succeeds, FailsForGood, Again, Request
  <2>3. \A q \in Callers : Refused(q) \/ Token(q) \/ Turn(q) => rq'[p].pc # "sent"
    BY DEF Refused, Token, Turn, Request
  <2>4. \A q \in Callers : FailsForNow(q) \/ StartCooldown(q) => rq'[p].pc # "sent"
    BY DEF FailsForNow, StartCooldown, Retried, Request
  <2> QED
    BY <2>1, <2>2, <2>3, <2>4 DEF Outside
<1>3. ~Tick
  BY DEF Tick, Request
<1>4. PICK q \in Callers : Send(q)
  BY <1>2, <1>3, ImportIsClient DEF vars, clientVars
<1>5. rq[p].left = 0
  BY <1>1, <1>4 DEF Send
<1> QED
  BY <1>5 DEF GapInv

-----------------------------------------------------------------------------
(* The theorems.                                                           *)

LEMMA PaceInvariance == Spec => []PaceInv
<1>1. Init => PaceInv
  BY PaceInit DEF Init
<1>2. PaceInv /\ [Next]_vars => PaceInv'
  BY PaceStep
<1> QED
  BY <1>1, <1>2, PTL DEF Spec

\* The client's variables keep their types, whatever the import beside it and
\* the answers do: no attempt is numbered past MaxAttempts, no delay is
\* negative, and the gap that has passed is never counted past its length.
THEOREM ClientTypesKept == Spec => []ClientTypeOK
<1>1. PaceInv => ClientTypeOK
  BY DEF PaceInv
<1> QED
  BY <1>1, PaceInvariance, PTL

\* Two requests of a connection are MinInterval apart, however many callers
\* queue in acquireSlot and however long each of them waits for its token.
THEOREM RequestsKeepTheirGap == Spec => RequestsAreSpaced
<1>1. PaceInv /\ [Next]_vars =>
         [\A p \in Callers : rq[p].pc = "gap" /\ rq'[p].pc = "sent"
                               => since = MinInterval]_clientVars
  BY SentAfterTheGap
<1> QED
  BY <1>1, PaceInvariance, PTL DEF Spec, RequestsAreSpaced

-----------------------------------------------------------------------------
(* What a cool-down leaves to be sent.                                     *)

\* The n-th attempt of p may still go out without passing the gate again.
Owed(p, n) ==
    \/ rq[p].pc \in {"token", "turn", "gap", "backoff"} /\ n >= rq[p].attempt
    \/ rq[p].pc \in {"sent", "refused"} /\ n > rq[p].attempt

Places == Callers \X (1 .. MaxAttempts)
Rest   == {c \in Places : Owed(c[1], c[2])}

\* Each request sent in a cool-down was owed when it began, and the attempt
\* that was refused is not owed any more.
HammerInv ==
    /\ cooldown = 0 => during = 0
    /\ cooldown > 0 => during + Cardinality(Rest) < Cardinality(Places)

LEMMA PlacesFinite ==
    /\ IsFiniteSet(Places)
    /\ Cardinality(Places) = Cardinality(Callers) * MaxAttempts
    /\ Cardinality(Places) \in Nat
<1>1. IsFiniteSet(1 .. MaxAttempts) /\ Cardinality(1 .. MaxAttempts) = MaxAttempts
  BY FS_Interval, ApiClientAssumption DEF ApiClientAssumption
<1>2. /\ IsFiniteSet(Places)
      /\ Cardinality(Places) = Cardinality(Callers) * MaxAttempts
  BY <1>1, FS_Product, ApiClientAssumption DEF Places, ApiClientAssumption
<1> QED
  BY <1>2, FS_CardinalityType

LEMMA PartOfPlaces ==
    ASSUME NEW R, R \subseteq Places
    PROVE  /\ IsFiniteSet(R) /\ Cardinality(R) \in Nat
           /\ R # Places => Cardinality(R) < Cardinality(Places)
<1>1. /\ IsFiniteSet(R) /\ Cardinality(R) <= Cardinality(Places)
      /\ Cardinality(R) = Cardinality(Places) => R = Places
  BY PlacesFinite, FS_Subset
<1>2. Cardinality(R) \in Nat
  BY <1>1, FS_CardinalityType
<1> QED
  BY <1>1, <1>2, PlacesFinite

\* p alone moves, and owes nothing it did not owe.
LEMMA RestShrinks ==
    ASSUME NEW p \in Callers, \A n \in 1 .. MaxAttempts : Owed(p, n)' => Owed(p, n),
           \A q \in Callers : q # p =>
              rq'[q].pc = rq[q].pc /\ rq'[q].attempt = rq[q].attempt
    PROVE  Rest' \subseteq Rest
BY DEF Rest, Places, Owed

\* Nothing is sent and no cool-down begins.
LEMMA NothingSent ==
    ASSUME PaceInv, HammerInv, Rest' \subseteq Rest,
           \/ cooldown' = 0 /\ during' = 0
           \/ UNCHANGED <<cooldown, during>>
           \/ cooldown > 0 /\ cooldown' > 0 /\ during' = during
    PROVE  HammerInv'
<1>1. CASE cooldown' = 0 /\ during' = 0
  BY <1>1 DEF HammerInv
<1>2. CASE cooldown > 0 /\ cooldown' > 0 /\ during' = during
  <2>1. Rest \subseteq Places /\ Rest' \subseteq Places
    BY DEF Rest, Places
  <2>2. /\ IsFiniteSet(Rest) /\ Cardinality(Rest) \in Nat
        /\ Cardinality(Rest') \in Nat
    BY <2>1, PartOfPlaces
  <2>3. Cardinality(Rest') <= Cardinality(Rest)
    BY <2>2, FS_Subset
  <2>4. during \in Nat /\ during + Cardinality(Rest) < Cardinality(Places)
    BY <1>2 DEF HammerInv, PaceInv, ClientTypeOK
  <2>5. during + Cardinality(Rest') < Cardinality(Places)
    BY <2>2, <2>3, <2>4, PlacesFinite
  <2>6. Places' = Places
    BY DEF Places
  <2> QED
    BY <1>2, <2>5, <2>6 DEF HammerInv
<1>3. CASE UNCHANGED <<cooldown, during>>
  <2>1. cooldown = 0 \/ cooldown > 0
    BY DEF PaceInv, ClientTypeOK
  <2> QED
    BY <1>1, <1>2, <1>3, <2>1 DEF HammerInv
<1> QED
  BY <1>1, <1>2, <1>3

\* The steps outside the queue: none of them sends.
LEMMA HammerOutside ==
    ASSUME PaceInv, HammerInv, NEW p \in Callers, Outside(p)
    PROVE  HammerInv'
<1> USE ApiClientAssumption
<1>0. rq \in [Callers -> Request] /\ rq[p] \in Request /\ rq[p].attempt \in Nat
  BY DEF PaceInv, ClientTypeOK, Request
<1>1. CASE Begin(p)
  <2>1. cooldown > 0 => \A n \in 1 .. MaxAttempts : Owed(p, n)' => Owed(p, n)
    BY <1>0, <1>1 DEF Begin, GateOpen, Owed, Request
  <2>2. CASE cooldown > 0
    <3>1. Rest' \subseteq Rest
      BY <1>0, <1>1, <2>1, <2>2, RestShrinks DEF Begin
    <3> QED
      BY <1>1, <3>1, NothingSent DEF Begin
  <2>3. CASE cooldown = 0
    BY <1>1, <2>3 DEF Begin, HammerInv
  <2> QED
    BY <2>2, <2>3 DEF PaceInv, ClientTypeOK
<1>2. CASE Take(p)
  <2>1. Rest' \subseteq Rest
    BY <1>0, <1>2, RestShrinks DEF Take, Owed, Idle
  <2> QED
    BY <1>2, <2>1, NothingSent DEF Take
<1>3. CASE Succeeds(p)
  BY <1>3 DEF Succeeds, HammerInv
<1>4. CASE FailsForGood(p)
  <2>1. Rest' \subseteq Rest
    BY <1>0, <1>4, RestShrinks DEF FailsForGood, Owed, Request
  <2> QED
    BY <1>4, <2>1, NothingSent DEF FailsForGood
<1>5. CASE Again(p)
  <2>1. Rest' \subseteq Rest
    BY <1>0, <1>5, RestShrinks DEF Again, Owed, Request
  <2> QED
    BY <1>5, <2>1, NothingSent DEF Again
<1>6. CASE Refused(p)
  <2>1. Rest' \subseteq Rest
    BY <1>0, <1>6, RestShrinks DEF Refused, Owed, Request
  <2> QED
    BY <1>6, <2>1, NothingSent DEF Refused
<1>7. CASE FailsForNow(p)
  <2>1. PICK wait \in Nat : rq' = [rq EXCEPT ![p] = Retried(rq[p], wait)]
    BY <1>0, <1>7 DEF FailsForNow
  <2>2. rq[p].pc = "sent"
    BY <1>7 DEF FailsForNow
  <2>3. /\ rq'[p].pc \in {"backoff", "failed"}
        /\ rq'[p].pc = "backoff" => rq'[p].attempt = rq[p].attempt + 1
        /\ \A q \in Callers : q # p => rq'[q] = rq[q]
    BY <1>0, <2>1 DEF Retried, Request
  <2>4. Rest' \subseteq Rest
    BY <1>0, <2>2, <2>3, RestShrinks DEF Owed
  <2> QED
    BY <1>7, <2>4, NothingSent DEF FailsForNow
<1>8. CASE StartCooldown(p)
  <2>1. cooldown' > 0 /\ during' = 0
    BY <1>0, <1>8 DEF StartCooldown, Most, Request
  <2>2. rq[p].pc = "refused"
    BY <1>8 DEF StartCooldown
  <2>3. /\ rq'[p].pc \in {"backoff", "failed"}
        /\ rq'[p].pc = "backoff" => rq'[p].attempt = rq[p].attempt + 1
    BY <1>0, <1>8 DEF StartCooldown, Retried, Request
  <2>4. rq[p].attempt >= 1
    BY <1>0 DEF Request
  <2>5. <<p, 1>> \notin Rest'
    BY <1>0, <2>3, <2>4 DEF Rest, Owed
  <2>6. <<p, 1>> \in Places /\ Rest' \subseteq Places
    BY DEF Places, Rest
  <2>7. Cardinality(Rest') < Cardinality(Places) /\ Cardinality(Rest') \in Nat
    BY <2>5, <2>6, PartOfPlaces
  <2>8. Places' = Places
    BY DEF Places
  <2> QED
    BY <2>1, <2>7, <2>8 DEF HammerInv
<1> QED
  BY <1>1, <1>2, <1>3, <1>4, <1>5, <1>6, <1>7, <1>8 DEF Outside

LEMMA HammerQueued ==
    ASSUME PaceInv, HammerInv, NEW p \in Callers, Token(p) \/ Turn(p)
    PROVE  HammerInv'
<1>0. rq \in [Callers -> Request] /\ rq[p] \in Request
  BY DEF PaceInv, ClientTypeOK
<1>1. \A n \in 1 .. MaxAttempts : Owed(p, n)' => Owed(p, n)
  BY <1>0 DEF Token, Turn, Owed, Request
<1>2. Rest' \subseteq Rest
  BY <1>0, <1>1, RestShrinks DEF Token, Turn
<1> QED
  BY <1>2, NothingSent DEF Token, Turn

\* A request that goes out in a cool-down was owed, and is not any more.
LEMMA HammerSend ==
    ASSUME PaceInv, HammerInv, NEW p \in Callers, Send(p) PROVE HammerInv'
<1> USE ApiClientAssumption DEF PaceInv, ClientTypeOK
<1>0. /\ rq \in [Callers -> Request] /\ rq[p] \in Request
      /\ rq[p].attempt \in 1 .. MaxAttempts /\ rq[p].pc = "gap"
  BY DEF Send, Request
<1>1. /\ rq'[p].pc = "sent" /\ rq'[p].attempt = rq[p].attempt
      /\ \A q \in Callers : q # p =>
            rq'[q].pc = rq[q].pc /\ rq'[q].attempt = rq[q].attempt
  BY DEF Send, Request
<1>2. CASE cooldown = 0
  BY <1>2 DEF Send, HammerInv
<1>3. CASE cooldown > 0
  <2> DEFINE c == <<p, rq[p].attempt>>
  <2>1. c \in Rest /\ c \notin Rest'
    BY <1>0, <1>1 DEF Rest, Places, Owed
  <2>2. \A n \in 1 .. MaxAttempts : Owed(p, n)' => Owed(p, n)
    BY <1>0, <1>1 DEF Owed
  <2>3. Rest' \subseteq Rest \ {c}
    BY <1>1, <2>1, <2>2, RestShrinks
  <2>4. Rest \subseteq Places /\ Rest' \subseteq Places
    BY DEF Rest, Places
  <2> HIDE DEF c
  <2>5. /\ IsFiniteSet(Rest) /\ Cardinality(Rest) \in Nat
        /\ Cardinality(Rest') \in Nat
    BY <2>4, PartOfPlaces
  <2>6. IsFiniteSet(Rest \ {c}) /\ Cardinality(Rest \ {c}) = Cardinality(Rest) - 1
    BY <2>1, <2>5, FS_RemoveElement
  <2>7. Cardinality(Rest') <= Cardinality(Rest) - 1
    BY <2>3, <2>6, FS_Subset
  <2>8. during + Cardinality(Rest) < Cardinality(Places)
    BY <1>3 DEF HammerInv
  <2>9. during + 1 + Cardinality(Rest') < Cardinality(Places)
    BY <2>5, <2>7, <2>8, PlacesFinite
  <2>10. cooldown' = cooldown /\ during' = during + 1 /\ Places' = Places
    BY <1>3 DEF Send, Places
  <2> QED
    BY <1>3, <2>9, <2>10 DEF HammerInv
<1> QED
  BY <1>2, <1>3

LEMMA HammerTick == ASSUME PaceInv, HammerInv, Tick PROVE HammerInv'
<1>1. \A q \in Callers : rq'[q].pc = rq[q].pc /\ rq'[q].attempt = rq[q].attempt
  BY DEF Tick, PaceInv, ClientTypeOK, Request
<1>2. Rest' \subseteq Rest
  BY <1>1 DEF Rest, Places, Owed
<1>3. \/ cooldown' = 0 /\ during' = 0
      \/ cooldown > 0 /\ cooldown' > 0 /\ during' = during
  BY DEF Tick, Less, PaceInv, ClientTypeOK
<1> QED
  BY <1>2, <1>3, NothingSent

LEMMA HammerStep == ASSUME PaceInv, HammerInv, [Next]_vars PROVE HammerInv'
<1>1. CASE UNCHANGED clientVars
  BY <1>1 DEF clientVars, HammerInv, Rest, Places, Owed
<1>2. CASE Next
  BY <1>1, <1>2, ImportIsClient, HammerOutside, HammerQueued, HammerSend, HammerTick
<1> QED
  BY <1>1, <1>2 DEF vars

\* However long a cool-down lasts, fewer requests go out in it than there are
\* callers times attempts: who comes new is refused at the gate, and each
\* request that was under way spends its attempts once.
THEOREM HammeringStaysBounded == Spec => []HammeringIsBounded
<1>1. Init => HammerInv
  BY ApiClientAssumption DEF Init, ClientInit, HammerInv
<1>2. PaceInv /\ HammerInv => HammeringIsBounded
  <2>1. ASSUME PaceInv, HammerInv PROVE during < Cardinality(Places)
    <3>1. CASE cooldown = 0
      <4>1. <<Importer, 1>> \in Places
        BY ApiClientAssumption, OrderFetchAssumption
           DEF Places, ApiClientAssumption, OrderFetchAssumption
      <4>2. Cardinality({}) < Cardinality(Places)
        BY <4>1, PartOfPlaces
      <4> QED
        BY <2>1, <3>1, <4>2, FS_EmptySet DEF HammerInv
    <3>2. CASE cooldown > 0
      <4>1. Rest \subseteq Places
        BY DEF Rest
      <4>2. Cardinality(Rest) \in Nat
        BY <4>1, PartOfPlaces
      <4> QED
        BY <2>1, <3>2, <4>2, PlacesFinite DEF HammerInv, PaceInv, ClientTypeOK
    <3> QED
      BY <2>1, <3>1, <3>2 DEF PaceInv, ClientTypeOK
  <2> QED
    BY <2>1, PlacesFinite DEF HammeringIsBounded
<1> QED
  BY <1>1, <1>2, HammerStep, PaceInvariance, PTL DEF Spec

-----------------------------------------------------------------------------
(* Kept, a recursive function: it exists, and what it returns.             *)

\* Induction on the members of a set.
LEMMA SetInduction ==
    ASSUME NEW S, 0 \in S, \A n \in Nat : n \in S => n + 1 \in S
    PROVE  Nat \subseteq S
<1> SUFFICES ASSUME Nat \ S # {} PROVE FALSE
  OBVIOUS
<1> DEFINE R == OpToRel(<, Nat)
<1>1. PICK x \in Nat \ S : \A y \in Nat \ S : ~ (<<y, x>> \in R)
  <2>1. IsWellFoundedOn(R, Nat) /\ Nat \ S \subseteq Nat
    BY NatLessThanWellFounded
  <2> HIDE DEF R
  <2> QED
    BY <2>1, WFMin, Zenon
<1>2. \A y \in Nat : y < x => <<y, x>> \in R
  BY DEF OpToRel
<1> HIDE DEF R
<1>3. x # 0 /\ x - 1 \in Nat /\ x - 1 < x /\ x - 1 + 1 = x
  OBVIOUS
<1> QED
  BY <1>1, <1>2, <1>3

\* What Kept builds, one order at a time.
More(s, T, g, i) == IF i = 0 THEN <<>>
                    ELSE IF s[i] \in T THEN Append(g[i - 1], s[i]) ELSE g[i - 1]

KeptSoFar(s, T, g) == g = [i \in 0 .. Len(s) |-> More(s, T, g, i)]

LEMMA KeptExists ==
    ASSUME NEW S, NEW s \in Seq(S), NEW T
    PROVE  \E g : KeptSoFar(s, T, g)
<1> DEFINE Upto(n) == n <= Len(s) =>
              \E g : /\ DOMAIN g = 0 .. n
                     /\ \A i \in 0 .. n : g[i] = More(s, T, g, i)
           Good == {n \in Nat : Upto(n)}
<1>1. 0 \in Good
  <2> DEFINE g == [i \in 0 .. 0 |-> <<>>]
  <2>1. DOMAIN g = 0 .. 0 /\ \A i \in 0 .. 0 : g[i] = More(s, T, g, i)
    BY DEF More
  <2> QED
    BY <2>1
<1>2. ASSUME NEW n \in Nat, n \in Good PROVE n + 1 \in Good
  <2> SUFFICES ASSUME n + 1 <= Len(s) PROVE Upto(n + 1)
    OBVIOUS
  <2>1. PICK g : DOMAIN g = 0 .. n /\ \A i \in 0 .. n : g[i] = More(s, T, g, i)
    BY <1>2
  <2> DEFINE h == [i \in 0 .. n + 1 |-> IF i <= n THEN g[i] ELSE More(s, T, g, n + 1)]
  <2>2. DOMAIN h = 0 .. n + 1 /\ (\A i \in 0 .. n : h[i] = g[i])
        /\ h[n + 1] = More(s, T, g, n + 1)
    OBVIOUS
  <2> HIDE DEF h
  <2>3. ASSUME NEW i \in 0 .. n + 1 PROVE h[i] = More(s, T, h, i)
    <3>1. i = 0 \/ (i - 1 \in 0 .. n /\ h[i - 1] = g[i - 1])
      BY <2>2
    <3>2. More(s, T, h, i) = More(s, T, g, i)
      BY <3>1 DEF More
    <3>3. i \in 0 .. n \/ i = n + 1
      OBVIOUS
    <3> QED
      BY <2>1, <2>2, <3>2, <3>3
  <2> QED
    BY <2>2, <2>3
<1>3. Len(s) \in Good
  <2> HIDE DEF Good
  <2> QED
    BY <1>1, <1>2, SetInduction
<1>4. PICK g : DOMAIN g = 0 .. Len(s)
               /\ \A i \in 0 .. Len(s) : g[i] = More(s, T, g, i)
  BY <1>3
<1> QED
  BY <1>4 DEF KeptSoFar

LEMMA KeptUnfolds ==
    ASSUME NEW S, NEW s \in Seq(S), NEW T
    PROVE  \E g : /\ Kept(s, T) = g[Len(s)]
                  /\ \A i \in 0 .. Len(s) : g[i] = More(s, T, g, i)
<1>1. \E g : g = [i \in 0 .. Len(s) |->
                    IF i = 0 THEN <<>>
                    ELSE IF s[i] \in T THEN Append(g[i - 1], s[i]) ELSE g[i - 1]]
  BY KeptExists DEF KeptSoFar, More
<1> DEFINE f == CHOOSE g : g = [i \in 0 .. Len(s) |->
                    IF i = 0 THEN <<>>
                    ELSE IF s[i] \in T THEN Append(g[i - 1], s[i]) ELSE g[i - 1]]
<1>2. Kept(s, T) = f[Len(s)]
  BY DEF Kept
<1>3. f = [i \in 0 .. Len(s) |->
                    IF i = 0 THEN <<>>
                    ELSE IF s[i] \in T THEN Append(f[i - 1], s[i]) ELSE f[i - 1]]
  BY <1>1
<1> HIDE DEF f
<1>4. \A i \in 0 .. Len(s) : f[i] = More(s, T, f, i)
  BY <1>3 DEF More
<1> QED
  BY <1>2, <1>4

LEMMA AppendElements ==
    ASSUME NEW S, NEW s \in Seq(S), NEW e \in S
    PROVE  ToSet(Append(s, e)) = ToSet(s) \cup {e}
<1>1. /\ Append(s, e) \in Seq(S) /\ Len(Append(s, e)) = Len(s) + 1
      /\ \A i \in 1 .. Len(s) : Append(s, e)[i] = s[i]
      /\ Append(s, e)[Len(s) + 1] = e
  BY AppendProperties
<1>2. \A i : i \in 1 .. Len(s) + 1 <=> i \in 1 .. Len(s) \/ i = Len(s) + 1
  OBVIOUS
<1>3. DOMAIN Append(s, e) = 1 .. Len(s) + 1 /\ DOMAIN s = 1 .. Len(s)
  BY <1>1
<1> QED
  BY <1>1, <1>2, <1>3 DEF ToSet

\* Kept returns a sequence of the orders of s that are in T, all of them.
LEMMA KeptProperties ==
    ASSUME NEW S, NEW s \in Seq(S), NEW T
    PROVE  Kept(s, T) \in Seq(S) /\ ToSet(Kept(s, T)) = ToSet(s) \cap T
<1>1. PICK g : /\ Kept(s, T) = g[Len(s)]
               /\ \A i \in 0 .. Len(s) : g[i] = More(s, T, g, i)
  BY KeptUnfolds
<1> DEFINE Good == {n \in Nat : n <= Len(s) =>
                       /\ g[n] \in Seq(S)
                       /\ ToSet(g[n]) = {s[i] : i \in 1 .. n} \cap T}
<1>2. 0 \in Good
  <2>1. g[0] = <<>>
    BY <1>1 DEF More
  <2>2. <<>> \in Seq(S) /\ ToSet(<<>>) = {}
    BY DEF ToSet
  <2>3. {s[i] : i \in 1 .. 0} = {}
    OBVIOUS
  <2> QED
    BY <2>1, <2>2, <2>3
<1>3. ASSUME NEW n \in Nat, n \in Good PROVE n + 1 \in Good
  <2> SUFFICES ASSUME n + 1 <= Len(s)
               PROVE  /\ g[n + 1] \in Seq(S)
                      /\ ToSet(g[n + 1]) = {s[i] : i \in 1 .. n + 1} \cap T
    OBVIOUS
  <2>0. g[n + 1] = IF s[n + 1] \in T THEN Append(g[n], s[n + 1]) ELSE g[n]
    <3>1. n + 1 \in 0 .. Len(s) /\ n + 1 # 0 /\ n + 1 - 1 = n
      OBVIOUS
    <3> QED
      BY <1>1, <3>1 DEF More
  <2>1. /\ g[n] \in Seq(S) /\ ToSet(g[n]) = {s[i] : i \in 1 .. n} \cap T
        /\ s[n + 1] \in S
    BY <1>3
  <2>2. {s[i] : i \in 1 .. n + 1} = {s[i] : i \in 1 .. n} \cup {s[n + 1]}
    <3>1. \A i : i \in 1 .. n + 1 <=> i \in 1 .. n \/ i = n + 1
      OBVIOUS
    <3> QED
      BY <3>1
  <2>3. CASE s[n + 1] \in T
    <3>1. g[n + 1] = Append(g[n], s[n + 1])
      BY <2>0, <2>3
    <3>2. ToSet(Append(g[n], s[n + 1])) = ToSet(g[n]) \cup {s[n + 1]}
      BY <2>1, AppendElements
    <3> QED
      BY <2>1, <2>2, <2>3, <3>1, <3>2
  <2>4. CASE s[n + 1] \notin T
    <3>1. g[n + 1] = g[n]
      BY <2>0, <2>4
    <3> QED
      BY <2>1, <2>2, <2>4, <3>1
  <2> QED
    BY <2>3, <2>4
<1>4. Len(s) \in Good
  <2> HIDE DEF Good
  <2> QED
    BY <1>2, <1>3, SetInduction
<1>5. ToSet(s) = {s[i] : i \in 1 .. Len(s)} /\ Len(s) \in Nat
  BY DEF ToSet
<1> QED
  BY <1>1, <1>4, <1>5

\* Nothing is left out of a sequence that is wanted whole.
LEMMA KeptWhole ==
    ASSUME NEW S, NEW s \in Seq(S), NEW T, ToSet(s) \subseteq T
    PROVE  Kept(s, T) = s
<1>1. PICK g : /\ Kept(s, T) = g[Len(s)]
               /\ \A i \in 0 .. Len(s) : g[i] = More(s, T, g, i)
  BY KeptUnfolds
<1> DEFINE Good == {n \in Nat : n <= Len(s) => g[n] = SubSeq(s, 1, n)}
<1>2. 0 \in Good
  <2>1. g[0] = <<>>
    BY <1>1 DEF More
  <2>2. SubSeq(s, 1, 0) = <<>>
    BY SubSeqEmpty
  <2> QED
    BY <2>1, <2>2
<1>3. ASSUME NEW n \in Nat, n \in Good PROVE n + 1 \in Good
  <2> SUFFICES ASSUME n + 1 <= Len(s) PROVE g[n + 1] = SubSeq(s, 1, n + 1)
    OBVIOUS
  <2>0. g[n + 1] = IF s[n + 1] \in T THEN Append(g[n], s[n + 1]) ELSE g[n]
    <3>1. n + 1 \in 0 .. Len(s) /\ n + 1 # 0 /\ n + 1 - 1 = n
      OBVIOUS
    <3> QED
      BY <1>1, <3>1 DEF More
  <2>1. g[n + 1] = Append(SubSeq(s, 1, n), s[n + 1])
    <3>1. s[n + 1] \in T
      BY DEF ToSet
    <3>2. g[n] = SubSeq(s, 1, n)
      BY <1>3
    <3> QED
      BY <2>0, <3>1, <3>2
  <2>2. SubSeq(s, 1, n + 1) = Append(SubSeq(s, 1, n), s[n + 1])
    BY Z3T(30)
  <2> QED
    BY <2>1, <2>2
<1>4. Len(s) \in Good
  <2> HIDE DEF Good
  <2> QED
    BY <1>2, <1>3, SetInduction
<1> QED
  BY <1>1, <1>4, SubSeqFull

-----------------------------------------------------------------------------
(* The walk of an import and what it stores.                               *)

\* Types, as far as the proofs need them.
AnyWalk ==
    [pc: {"idle", "page", "store", "ships", "done"},
     limit: Nat, pages: Nat, offset: Nat, got: Seq(Orders),
     total: Nat \cup {-1}, truncated: BOOLEAN,
     there: SUBSET Orders, left: BOOLEAN, read: SUBSET Orders,
     ships: Seq(Orders), errors: BOOLEAN,
     status: {"NONE", "SUCCESS", "PARTIAL", "FAILED"}]

ImportTypes ==
    list \in Seq(Orders) /\ stored \subseteq Orders /\ walk \in AnyWalk

\* While no order leaves the set, those that were there are still in it, and
\* the ones before the offset have been collected.
FoundInv ==
    walk.pc = "page" /\ ~walk.left =>
       /\ walk.there \subseteq ToSet(list) \ Unusable
       /\ \A i \in 1 .. Len(list) :
             i <= walk.offset /\ list[i] \in walk.there => list[i] \in ToSet(walk.got)

\* The orders whose shipments are to be read.
Due == LET ships == Kept(walk.got, Shipped) IN
       ToSet(SubSeq(ships, 1, Least(Len(ships), Budget)))

\* Without an error, what was read and what is left to read are all of them.
LookupInv ==
    /\ walk.status # "NONE" => walk.pc = "done"
    /\ walk.pc = "ships" /\ ~walk.errors =>
          stored = ToSet(walk.got) /\ walk.read \cup ToSet(walk.ships) = Due

ImportInv ==
    /\ ImportTypes /\ FoundInv /\ LookupInv
    /\ FetchComplete /\ SuccessIsComplete

LEMMA ElementsAreOfTheSet ==
    ASSUME NEW S, NEW s \in Seq(S)
    PROVE  ToSet(s) \subseteq S /\ \A i \in 1 .. Len(s) : s[i] \in ToSet(s)
BY DEF ToSet

LEMMA ConcatElements ==
    ASSUME NEW S, NEW s \in Seq(S), NEW t \in Seq(S)
    PROVE  s \o t \in Seq(S) /\ ToSet(s \o t) = ToSet(s) \cup ToSet(t)
<1>1. /\ s \o t \in Seq(S) /\ Len(s \o t) = Len(s) + Len(t)
      /\ \A i \in 1 .. Len(s) + Len(t) :
            (s \o t)[i] = IF i <= Len(s) THEN s[i] ELSE t[i - Len(s)]
  BY ConcatProperties
<1>2. ASSUME NEW x \in ToSet(s \o t) PROVE x \in ToSet(s) \cup ToSet(t)
  <2>1. PICK i \in 1 .. Len(s) + Len(t) : x = (s \o t)[i]
    BY <1>1 DEF ToSet
  <2>2. i \in 1 .. Len(s) \/ i - Len(s) \in 1 .. Len(t)
    OBVIOUS
  <2> QED
    BY <1>1, <2>1, <2>2 DEF ToSet
<1>3. ASSUME NEW x \in ToSet(s) PROVE x \in ToSet(s \o t)
  <2>1. PICK i \in 1 .. Len(s) : x = s[i]
    BY DEF ToSet
  <2>2. i \in 1 .. Len(s \o t) /\ (s \o t)[i] = x
    BY <1>1, <2>1
  <2> QED
    BY <1>1, <2>2 DEF ToSet
<1>4. ASSUME NEW x \in ToSet(t) PROVE x \in ToSet(s \o t)
  <2>1. PICK i \in 1 .. Len(t) : x = t[i]
    BY DEF ToSet
  <2>2. Len(s) + i \in 1 .. Len(s \o t) /\ (s \o t)[Len(s) + i] = x
    BY <1>1, <2>1
  <2> QED
    BY <1>1, <2>2 DEF ToSet
<1> QED
  BY <1>1, <1>2, <1>3, <1>4

LEMMA SegmentElements ==
    ASSUME NEW S, NEW s \in Seq(S), NEW m \in Nat \ {0}, NEW n \in Nat, n <= Len(s)
    PROVE  /\ SubSeq(s, m, n) \in Seq(S)
           /\ Len(SubSeq(s, m, n)) = IF m <= n THEN n - m + 1 ELSE 0
           /\ \A i \in m .. n : s[i] \in ToSet(SubSeq(s, m, n))
<1>1. /\ SubSeq(s, m, n) \in Seq(S)
      /\ Len(SubSeq(s, m, n)) = IF m <= n THEN n - m + 1 ELSE 0
      /\ \A i \in 1 .. n - m + 1 : SubSeq(s, m, n)[i] = s[m + i - 1]
  <2>1. m \in Int /\ n \in Int /\ \A i \in m .. n : s[i] \in S
    OBVIOUS
  <2> QED
    BY <2>1, SubSeqProperties
<1>2. ASSUME NEW i \in m .. n PROVE s[i] \in ToSet(SubSeq(s, m, n))
  <2>1. /\ i - m + 1 \in 1 .. n - m + 1 /\ m + (i - m + 1) - 1 = i
        /\ m <= n
    OBVIOUS
  <2>2. SubSeq(s, m, n)[i - m + 1] = s[i] /\ Len(SubSeq(s, m, n)) = n - m + 1
    BY <1>1, <2>1
  <2> QED
    BY <1>1, <2>1, <2>2, ElementsAreOfTheSet
<1> QED
  BY <1>1, <1>2

LEMMA HeadTailElements ==
    ASSUME NEW S, NEW s \in Seq(S), s # <<>>
    PROVE  /\ Head(s) \in S /\ Tail(s) \in Seq(S)
           /\ ToSet(s) = {Head(s)} \cup ToSet(Tail(s))
<1>1. /\ Head(s) \in S /\ Tail(s) \in Seq(S) /\ Len(Tail(s)) = Len(s) - 1
      /\ \A i \in 1 .. Len(Tail(s)) : Tail(s)[i] = s[i + 1]
  BY HeadTailProperties
<1>2. Head(s) = s[1] /\ Len(s) >= 1
  OBVIOUS
<1>3. ASSUME NEW x \in ToSet(s) PROVE x \in {Head(s)} \cup ToSet(Tail(s))
  <2>1. PICK i \in 1 .. Len(s) : x = s[i]
    BY DEF ToSet
  <2>2. i = 1 \/ (i - 1 \in 1 .. Len(Tail(s)) /\ Tail(s)[i - 1] = s[i])
    BY <1>1
  <2> QED
    BY <1>1, <1>2, <2>1, <2>2, ElementsAreOfTheSet
<1>4. ASSUME NEW x \in ToSet(Tail(s)) PROVE x \in ToSet(s)
  <2>1. PICK i \in 1 .. Len(Tail(s)) : x = Tail(s)[i]
    BY <1>1 DEF ToSet
  <2>2. i + 1 \in 1 .. Len(s) /\ s[i + 1] = x
    BY <1>1, <2>1
  <2> QED
    BY <2>2 DEF ToSet
<1> QED
  BY <1>1, <1>2, <1>3, <1>4 DEF ToSet

\* t is s with e put in at i: the place of every order.
HasIn(t, s, i, e) ==
    /\ t \in Seq(Orders) /\ Len(t) = Len(s) + 1
    /\ \A j \in 1 .. Len(s) + 1 :
          t[j] = IF j < i THEN s[j] ELSE IF j = i THEN e ELSE s[j - 1]

LEMMA InsertElements ==
    ASSUME NEW s \in Seq(Orders), NEW i \in 1 .. Len(s) + 1, NEW e \in Orders
    PROVE  HasIn(InsertAt(s, i, e), s, i, e)
<1> DEFINE a == SubSeq(s, 1, i - 1)
           b == SubSeq(s, i, Len(s))
<1>1. /\ a \in Seq(Orders) /\ Len(a) = i - 1
      /\ \A j \in 1 .. i - 1 : a[j] = s[j]
  <2>1. 1 \in Int /\ i - 1 \in Int /\ \A j \in 1 .. i - 1 : s[j] \in Orders
    OBVIOUS
  <2>2. /\ a \in Seq(Orders) /\ Len(a) = IF 1 <= i - 1 THEN (i - 1) - 1 + 1 ELSE 0
        /\ \A j \in 1 .. (i - 1) - 1 + 1 : a[j] = s[1 + j - 1]
    BY <2>1, SubSeqProperties
  <2> QED
    BY <2>2
<1>2. /\ b \in Seq(Orders) /\ Len(b) = Len(s) - i + 1
      /\ \A j \in 1 .. Len(s) - i + 1 : b[j] = s[i + j - 1]
  <2>1. i \in Int /\ Len(s) \in Int /\ \A j \in i .. Len(s) : s[j] \in Orders
    OBVIOUS
  <2>2. /\ b \in Seq(Orders) /\ Len(b) = IF i <= Len(s) THEN Len(s) - i + 1 ELSE 0
        /\ \A j \in 1 .. Len(s) - i + 1 : b[j] = s[i + j - 1]
    BY <2>1, SubSeqProperties
  <2> QED
    BY <2>2
<1> HIDE DEF a, b
<1>3. <<e>> \in Seq(Orders) /\ Len(<<e>>) = 1 /\ <<e>>[1] = e
  OBVIOUS
<1> DEFINE c == a \o <<e>>
<1>4. /\ c \in Seq(Orders) /\ Len(c) = i
      /\ \A j \in 1 .. i : c[j] = IF j < i THEN s[j] ELSE e
  <2>1. /\ c \in Seq(Orders) /\ Len(c) = Len(a) + 1
        /\ \A j \in 1 .. Len(a) + 1 :
              c[j] = IF j <= Len(a) THEN a[j] ELSE <<e>>[j - Len(a)]
    BY <1>1, <1>3, ConcatProperties
  <2> HIDE DEF c
  <2>2. ASSUME NEW j \in 1 .. i PROVE c[j] = IF j < i THEN s[j] ELSE e
    BY <1>1, <1>3, <2>1
  <2> QED
    BY <1>1, <2>1, <2>2
<1> HIDE DEF c
<1> DEFINE t == c \o b
<1>5. /\ t \in Seq(Orders) /\ Len(t) = Len(c) + Len(b)
      /\ \A j \in 1 .. Len(c) + Len(b) :
            t[j] = IF j <= Len(c) THEN c[j] ELSE b[j - Len(c)]
  BY <1>2, <1>4, ConcatProperties
<1> HIDE DEF t
<1>6. InsertAt(s, i, e) = t
  BY DEF InsertAt, a, b, c, t
<1>7. Len(t) = Len(s) + 1
  BY <1>2, <1>4, <1>5
<1>8. ASSUME NEW j \in 1 .. Len(s) + 1
      PROVE  t[j] = IF j < i THEN s[j] ELSE IF j = i THEN e ELSE s[j - 1]
  <2>1. CASE j <= i
    BY <1>2, <1>4, <1>5, <2>1
  <2>2. CASE j > i
    <3>1. j - i \in 1 .. Len(s) - i + 1 /\ i + (j - i) - 1 = j - 1
      BY <2>2
    <3>2. b[j - i] = s[j - 1]
      BY <1>2, <3>1
    <3>3. t[j] = b[j - i]
      BY <1>2, <1>4, <1>5, <2>2
    <3> QED
      BY <2>2, <3>2, <3>3
  <2> QED
    BY <2>1, <2>2
<1> QED
  BY <1>5, <1>6, <1>7, <1>8 DEF HasIn

LEMMA RemoveTypes ==
    ASSUME NEW S, NEW s \in Seq(S), NEW i \in 1 .. Len(s)
    PROVE  RemoveAt(s, i) \in Seq(S)
<1>1. i - 1 \in Nat /\ i + 1 \in Nat \ {0} /\ i - 1 <= Len(s)
  OBVIOUS
<1>2. SubSeq(s, 1, i - 1) \in Seq(S) /\ SubSeq(s, i + 1, Len(s)) \in Seq(S)
  BY <1>1, SegmentElements
<1> QED
  BY <1>2, ConcatProperties DEF RemoveAt

\* What a page brings, and what is kept of it.
LEMMA PageElements ==
    ASSUME NEW s \in Seq(Orders), NEW offset \in Nat
    PROVE  /\ Page(s, offset) \in Seq(Orders)
           /\ Len(Page(s, offset)) < PageSize => Len(s) < offset + PageSize
           /\ \A i \in 1 .. Len(s) : i > offset /\ i <= offset + PageSize
                                        => s[i] \in ToSet(Page(s, offset))
<1> DEFINE n == Least(offset + PageSize, Len(s))
<1>1. /\ n \in Nat /\ n <= Len(s) /\ offset + 1 \in Nat \ {0} /\ PageSize \in Nat \ {0}
      /\ n = offset + PageSize \/ (n = Len(s) /\ Len(s) < offset + PageSize)
  <2>1. Len(s) \in Nat /\ PageSize \in Nat \ {0}
    BY OrderFetchAssumption
  <2> QED
    BY <2>1 DEF Least
<1>2. Page(s, offset) = SubSeq(s, offset + 1, n)
  BY DEF Page
<1>3. ASSUME NEW i \in 1 .. Len(s), i > offset, i <= offset + PageSize
      PROVE  i \in offset + 1 .. n
  BY <1>1, <1>3
<1> HIDE DEF n
<1>4. /\ SubSeq(s, offset + 1, n) \in Seq(Orders)
      /\ Len(SubSeq(s, offset + 1, n)) =
            IF offset + 1 <= n THEN n - (offset + 1) + 1 ELSE 0
      /\ \A i \in offset + 1 .. n : s[i] \in ToSet(SubSeq(s, offset + 1, n))
  BY <1>1, SegmentElements
<1> QED
  BY <1>1, <1>2, <1>3, <1>4

LEMMA MergedElements ==
    ASSUME NEW got \in Seq(Orders), NEW page \in Seq(Orders)
    PROVE  /\ Merged(got, page) \in Seq(Orders)
           /\ ToSet(Merged(got, page)) = ToSet(got) \cup (ToSet(page) \ Unusable)
<1> DEFINE T == Orders \ (ToSet(got) \cup Unusable)
<1>1. Kept(page, T) \in Seq(Orders) /\ ToSet(Kept(page, T)) = ToSet(page) \cap T
  BY KeptProperties
<1> DEFINE new == Kept(page, T)
<1> HIDE DEF new
<1>2. new \in Seq(Orders) /\ ToSet(new) = ToSet(page) \cap T
  BY <1>1 DEF new
<1>4. /\ got \o new \in Seq(Orders)
      /\ ToSet(got \o new) = ToSet(got) \cup ToSet(new)
  BY <1>2, ConcatElements
<1>3. ToSet(page) \subseteq Orders
  BY ElementsAreOfTheSet
<1> QED
  BY <1>2, <1>3, <1>4 DEF Merged, new

LEMMA NoWalkTypes == NoWalk \in AnyWalk
<1>1. 0 - 1 \in Nat \cup {-1} /\ <<>> \in Seq(Orders)
  OBVIOUS
<1> QED
  BY <1>1 DEF NoWalk, AnyWalk

LEMMA ImportInit == ASSUME Init PROVE ImportInv
<1>1. list \in Seq(Orders)
  BY OrderFetchAssumption DEF Init
<1> QED
  BY <1>1, NoWalkTypes DEF Init, NoWalk, ImportInv, ImportTypes, FoundInv, LookupInv,
              FetchComplete, TruncationReported, SuccessIsComplete

\* A request or the clock: the import stays as it is.
LEMMA ImportUntouched ==
    ASSUME ImportInv, UNCHANGED importVars PROVE ImportInv'
<1> SUFFICES list' = list /\ walk' = walk /\ stored' = stored
  BY DEF ImportInv, ImportTypes, FoundInv, LookupInv, Due, FetchComplete,
         TruncationReported, SuccessIsComplete
<1> QED
  BY DEF importVars

LEMMA AppearsInv == ASSUME ImportInv, Appears PROVE ImportInv'
<1>1. PICK o \in Orders \ ToSet(list), i \in 1 .. Len(list) + 1 :
              list' = InsertAt(list, i, o)
  BY DEF Appears
<1>2. list \in Seq(Orders) /\ walk' = walk /\ stored' = stored /\ walk.pc = "page"
  BY DEF Appears, ImportInv, ImportTypes, AnyWalk
<1>3. /\ list' \in Seq(Orders) /\ Len(list') = Len(list) + 1
      /\ \A j \in 1 .. Len(list) + 1 :
            list'[j] = IF j < i THEN list[j] ELSE IF j = i THEN o ELSE list[j - 1]
  <2>1. list \in Seq(Orders) /\ o \in Orders
    BY <1>2
  <2>2. HasIn(list', list, i, o)
    BY <1>1, <2>1, InsertElements
  <2> QED
    BY <2>2 DEF HasIn
<1>4. ToSet(list) \subseteq ToSet(list')
  <2> SUFFICES ASSUME NEW j \in 1 .. Len(list) PROVE list[j] \in ToSet(list')
    BY <1>2 DEF ToSet
  <2>1. CASE j < i
    <3>1. j \in 1 .. Len(list) + 1 /\ list'[j] = list[j]
      BY <1>2, <1>3, <2>1
    <3> QED
      BY <1>3, <3>1, ElementsAreOfTheSet
  <2>2. CASE j >= i
    <3>1. j + 1 \in 1 .. Len(list) + 1 /\ list'[j + 1] = list[j]
      BY <1>2, <1>3, <2>2
    <3> QED
      BY <1>3, <3>1, ElementsAreOfTheSet
  <2> QED
    BY <2>1, <2>2
<1>5. FoundInv'
  <2> SUFFICES ASSUME ~walk.left
               PROVE  /\ walk.there \subseteq ToSet(list') \ Unusable
                      /\ \A j \in 1 .. Len(list') :
                            j <= walk.offset /\ list'[j] \in walk.there
                               => list'[j] \in ToSet(walk.got)
    BY <1>2 DEF FoundInv
  <2>1. /\ walk.there \subseteq ToSet(list) \ Unusable
        /\ \A j \in 1 .. Len(list) :
              j <= walk.offset /\ list[j] \in walk.there => list[j] \in ToSet(walk.got)
    BY <1>2 DEF ImportInv, FoundInv
  <2>2. walk.offset \in Nat
    BY DEF ImportInv, ImportTypes, AnyWalk
  <2>3. ASSUME NEW j \in 1 .. Len(list'), j <= walk.offset, list'[j] \in walk.there
        PROVE  list'[j] \in ToSet(walk.got)
    <3>1. j # i
      BY <1>1, <1>3, <2>1, <2>3
    <3>2. CASE j < i
      BY <1>2, <1>3, <2>1, <2>3, <3>2
    <3>3. CASE j > i
      <4>1. j - 1 \in 1 .. Len(list) /\ list'[j] = list[j - 1] /\ j - 1 <= walk.offset
        BY <1>2, <1>3, <2>2, <2>3, <3>3
      <4> QED
        BY <2>1, <2>3, <4>1
    <3> QED
      BY <3>1, <3>2, <3>3
  <2> QED
    BY <1>4, <2>1, <2>3
<1> QED
  BY <1>2, <1>3, <1>5
     DEF ImportInv, ImportTypes, LookupInv, Due, FetchComplete,
         TruncationReported, SuccessIsComplete

LEMMA LeavesInv == ASSUME ImportInv, Leaves PROVE ImportInv'
<1>1. PICK i \in 1 .. Len(list) :
            /\ list' = RemoveAt(list, i)
            /\ walk' = [walk EXCEPT !.there = @ \ {list[i]}, !.left = TRUE]
  BY DEF Leaves
<1>2. ImportTypes /\ stored' = stored /\ walk.pc = "page" /\ LookupInv
  BY DEF Leaves, ImportInv
<1>3. list' \in Seq(Orders)
  BY <1>1, <1>2, RemoveTypes DEF ImportTypes, AnyWalk
<1>4. ImportTypes'
  BY <1>1, <1>2, <1>3 DEF ImportTypes, AnyWalk
<1>5. /\ walk'.pc = "page" /\ walk'.left /\ walk'.status = walk.status
  BY <1>1, <1>2 DEF ImportTypes, AnyWalk
<1>6. walk.status = "NONE"
  BY <1>2 DEF LookupInv, ImportTypes, AnyWalk
<1> QED
  BY <1>4, <1>5, <1>6
     DEF ImportInv, FoundInv, LookupInv, FetchComplete, TruncationReported,
         SuccessIsComplete

LEMMA StartWalkInv == ASSUME ImportInv, StartWalk PROVE ImportInv'
<1>1. PICK n \in Limits :
         walk' = [NoWalk EXCEPT !.pc = "page", !.limit = n,
                                !.there = ToSet(list) \ Unusable]
  BY DEF StartWalk
<1>2. ImportTypes /\ UNCHANGED <<list, stored>>
  BY DEF StartWalk, ImportInv
<1>3. ToSet(list) \subseteq Orders /\ n \in Nat
  BY <1>2, ElementsAreOfTheSet, OrderFetchAssumption DEF ImportTypes, AnyWalk
<1>4. ImportTypes'
  BY <1>1, <1>2, <1>3, NoWalkTypes DEF ImportTypes, AnyWalk
<1>5. /\ walk'.pc = "page" /\ walk'.offset = 0 /\ walk'.status = "NONE"
      /\ walk'.there = ToSet(list) \ Unusable
  BY <1>1 DEF NoWalk
<1>6. FoundInv'
  BY <1>2, <1>5 DEF FoundInv, ImportTypes, AnyWalk
<1> QED
  BY <1>4, <1>5, <1>6
     DEF ImportInv, LookupInv, FetchComplete, TruncationReported, SuccessIsComplete

LEMMA LosePageInv == ASSUME ImportInv, LosePage PROVE ImportInv'
<1>1. /\ ImportTypes /\ UNCHANGED <<list, stored>>
      /\ walk' = [walk EXCEPT !.pc = "done", !.status = "FAILED"]
  BY DEF LosePage, ImportInv
<1>2. walk'.pc = "done" /\ walk'.status = "FAILED" /\ ImportTypes'
  BY <1>1 DEF ImportTypes, AnyWalk
<1> QED
  BY <1>2 DEF ImportInv, FoundInv, LookupInv, FetchComplete, TruncationReported,
              SuccessIsComplete

LEMMA StoreAllInv == ASSUME ImportInv, StoreAll PROVE ImportInv'
<1> DEFINE good(bad) == Kept(walk.got, Orders \ bad)
           ships(bad) == Kept(good(bad), Shipped)
<1>1. PICK bad \in SUBSET ToSet(walk.got) :
         /\ stored' = ToSet(good(bad))
         /\ walk' = [NoWalk EXCEPT
               !.pc = "ships", !.got = walk.got, !.errors = (bad # {}),
               !.ships = SubSeq(ships(bad), 1, Least(Len(ships(bad)), Budget))]
  BY DEF StoreAll
<1>2. ImportTypes /\ list' = list /\ walk.got \in Seq(Orders)
  BY DEF StoreAll, ImportInv, ImportTypes, AnyWalk
<1>3. /\ good(bad) \in Seq(Orders) /\ ToSet(good(bad)) \subseteq Orders
      /\ ships(bad) \in Seq(Orders)
  BY <1>2, KeptProperties, ElementsAreOfTheSet
<1> HIDE DEF good, ships
<1>4. SubSeq(ships(bad), 1, Least(Len(ships(bad)), Budget)) \in Seq(Orders)
  <2>1. Least(Len(ships(bad)), Budget) \in Nat
        /\ Least(Len(ships(bad)), Budget) <= Len(ships(bad))
    BY <1>3, OrderFetchAssumption DEF Least
  <2> QED
    BY <1>3, <2>1, SegmentElements
<1>5. ImportTypes'
  BY <1>1, <1>2, <1>3, <1>4, NoWalkTypes DEF ImportTypes, AnyWalk
<1>6. /\ walk'.pc = "ships" /\ walk'.status = "NONE" /\ walk'.got = walk.got
      /\ walk'.errors = (bad # {}) /\ walk'.read = {}
      /\ walk'.ships = SubSeq(ships(bad), 1, Least(Len(ships(bad)), Budget))
  BY <1>1 DEF NoWalk
<1>7. ASSUME bad = {} PROVE stored' = ToSet(walk'.got) /\ ToSet(walk'.ships) = Due'
  <2>1. good(bad) = walk.got
    <3>1. ToSet(walk.got) \subseteq Orders \ bad
      BY <1>2, <1>7, ElementsAreOfTheSet
    <3> QED
      BY <1>2, <3>1, KeptWhole DEF good
  <2>2. ships(bad) = Kept(walk.got, Shipped)
    BY <2>1 DEF ships
  <2> QED
    BY <1>1, <1>6, <2>1, <2>2 DEF Due
<1>8. LookupInv'
  BY <1>6, <1>7 DEF LookupInv
<1> QED
  BY <1>5, <1>6, <1>8
     DEF ImportInv, FoundInv, FetchComplete, TruncationReported, SuccessIsComplete

LEMMA LookupStep == ASSUME ImportInv, Lookup PROVE ImportInv'
<1>1. /\ ImportTypes /\ UNCHANGED <<list, stored>> /\ LookupInv
      /\ walk.pc = "ships" /\ walk.ships # <<>>
      /\ walk' = [walk EXCEPT !.ships = Tail(@), !.read = @ \cup {Head(walk.ships)}]
  BY DEF Lookup, ImportInv
<1>2. /\ Head(walk.ships) \in Orders /\ Tail(walk.ships) \in Seq(Orders)
      /\ ToSet(walk.ships) = {Head(walk.ships)} \cup ToSet(Tail(walk.ships))
  BY <1>1, HeadTailElements DEF ImportTypes, AnyWalk
<1>3. ImportTypes'
  BY <1>1, <1>2 DEF ImportTypes, AnyWalk
<1>4. /\ walk'.pc = "ships" /\ walk'.status = walk.status /\ walk'.got = walk.got
      /\ walk'.errors = walk.errors /\ walk'.ships = Tail(walk.ships)
      /\ walk'.read = walk.read \cup {Head(walk.ships)}
  BY <1>1 DEF ImportTypes, AnyWalk
<1>5. walk'.status = "NONE" /\ Due' = Due
  BY <1>1, <1>4 DEF LookupInv, Due
<1>6. LookupInv'
  BY <1>1, <1>2, <1>4, <1>5 DEF LookupInv
<1> QED
  BY <1>3, <1>4, <1>5, <1>6
     DEF ImportInv, FoundInv, FetchComplete, TruncationReported, SuccessIsComplete

LEMMA LookupLostInv == ASSUME ImportInv, LookupLost PROVE ImportInv'
<1>1. PICK rest \in {Tail(walk.ships), <<>>} :
         walk' = [walk EXCEPT !.ships = rest, !.errors = TRUE]
  BY DEF LookupLost
<1>2. /\ ImportTypes /\ UNCHANGED <<list, stored>> /\ LookupInv
      /\ walk.pc = "ships" /\ walk.ships # <<>>
  BY DEF LookupLost, ImportInv
<1>3. rest \in Seq(Orders)
  <2>1. walk.ships \in Seq(Orders) /\ <<>> \in Seq(Orders)
    BY <1>2 DEF ImportTypes, AnyWalk
  <2>2. Tail(walk.ships) \in Seq(Orders)
    BY <1>2, <2>1, HeadTailElements
  <2> QED
    BY <2>1, <2>2
<1>4. ImportTypes'
  BY <1>1, <1>2, <1>3 DEF ImportTypes, AnyWalk
<1>5. walk'.pc = "ships" /\ walk'.status = walk.status /\ walk'.errors
  BY <1>1, <1>2 DEF ImportTypes, AnyWalk
<1>6. walk'.status = "NONE"
  BY <1>2, <1>5 DEF LookupInv
<1> QED
  BY <1>4, <1>5, <1>6
     DEF ImportInv, FoundInv, LookupInv, FetchComplete, TruncationReported,
         SuccessIsComplete

LEMMA FinishImportInv == ASSUME ImportInv, FinishImport PROVE ImportInv'
<1>1. /\ ImportTypes /\ UNCHANGED <<list, stored>> /\ LookupInv
      /\ walk.pc = "ships" /\ walk.ships = <<>>
      /\ walk' = [walk EXCEPT !.pc = "done",
                     !.status = IF walk.errors THEN "PARTIAL" ELSE "SUCCESS"]
  BY DEF FinishImport, ImportInv
<1>2. ImportTypes'
  BY <1>1 DEF ImportTypes, AnyWalk
<1>3. /\ walk'.pc = "done" /\ walk'.got = walk.got /\ walk'.read = walk.read
      /\ walk'.status = IF walk.errors THEN "PARTIAL" ELSE "SUCCESS"
  BY <1>1 DEF ImportTypes, AnyWalk
<1>4. ToSet(walk.ships) = {}
  BY <1>1 DEF ToSet
<1>5. SuccessIsComplete'
  <2> SUFFICES ASSUME ~walk.errors
               PROVE  stored' = ToSet(walk'.got) /\ walk'.read = Due'
    BY <1>3 DEF SuccessIsComplete, Due
  <2>1. stored = ToSet(walk.got) /\ walk.read = Due
    BY <1>1, <1>4 DEF LookupInv
  <2>2. Due' = Due
    BY <1>3 DEF Due
  <2> QED
    BY <1>1, <1>3, <2>1, <2>2
<1> QED
  BY <1>2, <1>3, <1>5
     DEF ImportInv, FoundInv, LookupInv, FetchComplete, TruncationReported

\* The heart of it: what is before the new offset has been collected, and a
\* walk that ends without saying that it was cut short has been through it all.
LEMMA TakePageInv == ASSUME ImportInv, TakePage PROVE ImportInv'
<1> DEFINE page  == Page(list, walk.offset)
           got   == Merged(walk.got, page)
           next  == walk.offset + PageSize
           full  == walk.limit > 0 /\ Len(got) >= walk.limit
           spent == walk.pages + 1 >= MaxPages
           ended(total) == Short(walk.got, page) \/ (total >= 0 /\ next >= total)
<1>1. PICK total \in Reported :
         walk' = [walk EXCEPT
            !.pages = @ + 1,
            !.total = total,
            !.got   = IF full THEN SubSeq(got, 1, Least(Len(got), walk.limit))
                              ELSE got,
            !.truncated = IF full THEN Cut(got, walk.limit)
                                  ELSE ~ended(total) /\ spent,
            !.offset = IF full \/ ended(total) THEN @ ELSE next,
            !.pc     = IF full \/ ended(total) \/ spent THEN "store" ELSE "page"]
  BY DEF TakePage
<1>2. /\ ImportTypes /\ UNCHANGED <<list, stored>> /\ walk.pc = "page"
      /\ walk.status = "NONE" /\ FoundInv
  BY DEF TakePage, ImportInv, LookupInv, ImportTypes, AnyWalk
<1>3. /\ list \in Seq(Orders) /\ walk \in AnyWalk /\ walk.got \in Seq(Orders)
      /\ walk.offset \in Nat /\ walk.limit \in Nat /\ walk.pages \in Nat
      /\ walk.total \in Nat \cup {-1} /\ walk.there \subseteq Orders
      /\ PageSize \in Nat \ {0} /\ Len(list) \in Nat
  BY <1>2, OrderFetchAssumption DEF ImportTypes, AnyWalk
<1>4. /\ page \in Seq(Orders)
      /\ Len(page) < PageSize => Len(list) < next
      /\ \A i \in 1 .. Len(list) : i > walk.offset /\ i <= next
                                      => list[i] \in ToSet(page)
  BY <1>3, PageElements
<1>5. /\ got \in Seq(Orders)
      /\ ToSet(got) = ToSet(walk.got) \cup (ToSet(page) \ Unusable)
  BY <1>3, <1>4, MergedElements
<1>6. total \in Nat \cup {-1} /\ (total >= 0 => total = Len(list))
  BY <1>3 DEF Reported
<1>7. ended(total) => Len(list) <= next
  BY <1>3, <1>4, <1>6 DEF Short
<1>8. ASSUME ~walk.left
      PROVE  /\ walk.there \subseteq ToSet(list) \ Unusable
             /\ \A i \in 1 .. Len(list) :
                   i <= next /\ list[i] \in walk.there => list[i] \in ToSet(got)
  <2>1. /\ walk.there \subseteq ToSet(list) \ Unusable
        /\ \A i \in 1 .. Len(list) :
              i <= walk.offset /\ list[i] \in walk.there => list[i] \in ToSet(walk.got)
    BY <1>2, <1>8 DEF FoundInv
  <2>2. ASSUME NEW i \in 1 .. Len(list), i <= next, list[i] \in walk.there
        PROVE  list[i] \in ToSet(got)
    <3>1. CASE i <= walk.offset
      BY <1>5, <2>1, <2>2, <3>1
    <3>2. CASE i > walk.offset
      BY <1>4, <1>5, <2>1, <2>2, <3>2
    <3> QED
      BY <1>3, <3>1, <3>2
  <2> QED
    BY <2>1, <2>2
<1>9. ASSUME ~walk.left, Len(list) <= next PROVE walk.there \subseteq ToSet(got)
  <2> SUFFICES ASSUME NEW o \in walk.there PROVE o \in ToSet(got)
    OBVIOUS
  <2>1. PICK i \in 1 .. Len(list) : o = list[i]
    BY <1>3, <1>8, <1>9 DEF ToSet
  <2>2. i <= next
    BY <1>3, <1>9
  <2> QED
    BY <1>8, <1>9, <2>1, <2>2
<1> HIDE DEF page, got, full, spent, ended
<1>10. Len(got) \in Nat /\ SubSeq(got, 1, Least(Len(got), walk.limit)) \in Seq(Orders)
  <2>1. Least(Len(got), walk.limit) \in Nat /\ Least(Len(got), walk.limit) <= Len(got)
    BY <1>3, <1>5 DEF Least
  <2> QED
    BY <1>5, <2>1, SegmentElements
<1>11. /\ walk'.pc = IF full \/ ended(total) \/ spent THEN "store" ELSE "page"
       /\ walk'.status = "NONE" /\ walk'.left = walk.left
       /\ walk'.there = walk.there /\ walk'.limit = walk.limit
       /\ walk'.offset = IF full \/ ended(total) THEN walk.offset ELSE next
       /\ walk'.got = IF full THEN SubSeq(got, 1, Least(Len(got), walk.limit)) ELSE got
       /\ walk'.truncated = IF full THEN Cut(got, walk.limit)
                                    ELSE ~ended(total) /\ spent
  BY <1>1, <1>2, <1>3 DEF AnyWalk
<1>12. ImportTypes'
  <2>1. Cut(got, walk.limit) \in BOOLEAN /\ (~ended(total) /\ spent) \in BOOLEAN
    BY DEF Cut
  <2>2. walk.pages + 1 \in Nat /\ next \in Nat
    BY <1>3
  <2> QED
    BY <1>1, <1>2, <1>3, <1>5, <1>6, <1>10, <2>1, <2>2 DEF ImportTypes, AnyWalk
<1>13. FoundInv'
  BY <1>2, <1>8, <1>11 DEF FoundInv
<1>14. FetchComplete'
  <2> SUFFICES ASSUME walk'.pc = "store", ~walk.left, ~walk'.truncated,
                      walk.limit = 0 \/ Len(walk'.got) # walk.limit
               PROVE  walk.there \subseteq ToSet(walk'.got)
    BY <1>11 DEF FetchComplete, TruncationReported
  <2>1. ~full
    <3> SUFFICES ASSUME full PROVE FALSE
      OBVIOUS
    <3>1. walk.limit > 0 /\ Len(got) = walk.limit
      <4>1. ~Cut(got, walk.limit)
        BY <1>11
      <4>2. walk.limit > 0 /\ Len(got) >= walk.limit
        BY DEF full
      <4> QED
        BY <1>3, <1>10, <4>1, <4>2 DEF Cut
    <3>2. walk'.got = SubSeq(got, 1, walk.limit)
      BY <1>3, <1>11, <3>1 DEF Least
    <3>3. Len(walk'.got) = walk.limit
      BY <1>3, <1>5, <3>1, <3>2, SegmentElements
    <3> QED
      BY <1>3, <3>1, <3>3
  <2>2. ended(total)
    BY <1>11, <2>1
  <2> QED
    BY <1>7, <1>9, <1>11, <2>1, <2>2
<1>15. LookupInv' /\ SuccessIsComplete'
  BY <1>11 DEF LookupInv, SuccessIsComplete
<1> QED
  BY <1>12, <1>13, <1>14, <1>15 DEF ImportInv

LEMMA ImportInvStep == ASSUME ImportInv, [Next]_vars PROVE ImportInv'
<1>1. CASE UNCHANGED vars
  BY <1>1, ImportUntouched DEF vars
<1>2. CASE ClientStep
  BY <1>2, ImportUntouched DEF ClientStep
<1>3. CASE ImportStep
  BY <1>3, StartWalkInv, TakePageInv, LosePageInv, StoreAllInv, LookupStep,
     LookupLostInv, FinishImportInv DEF ImportStep
<1> QED
  BY <1>1, <1>2, <1>3, AppearsInv, LeavesInv DEF Next

LEMMA ImportInvariance == Spec => []ImportInv
<1>1. Init => ImportInv
  BY ImportInit
<1>2. ImportInv /\ [Next]_vars => ImportInv'
  BY ImportInvStep
<1> QED
  BY <1>1, <1>2, PTL DEF Spec

\* A walk that does not say that it was cut short has found every order that
\* was in the set when it began, however many are indexed late while it runs:
\* fetchOrders goes on until a page is short or the offset is past the total.
THEOREM FetchIsComplete == Spec => []FetchComplete
<1>1. ImportInv => FetchComplete
  BY DEF ImportInv
<1> QED
  BY <1>1, ImportInvariance, PTL

\* An import that says SUCCESS stored all it fetched and read the shipments
\* that importOrders owes: whatever was lost on the way was counted.
THEOREM SuccessMeansComplete == Spec => []SuccessIsComplete
<1>1. ImportInv => SuccessIsComplete
  BY DEF ImportInv
<1> QED
  BY <1>1, ImportInvariance, PTL
=============================================================================
