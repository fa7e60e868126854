----------------------------- MODULE ApiClient -----------------------------
(***************************************************************************)
(* Requests of one process for one connection: ebayRequest and             *)
(* googleRequest (src/lib/ebay/client.ts, src/lib/google/client.ts, which  *)
(* differ in how they sort the answers) with the pacing, the cool-down and *)
(* the backoff of src/lib/http/rate-limit.ts.                              *)
(*                                                                         *)
(* Time is what is left of each delay; Tick lets one unit pass.  The call  *)
(* log and the health columns of the connection are written beside all of  *)
(* this and read by pages only; they are left out.                         *)
(***************************************************************************)
EXTENDS Naturals, FiniteSets

CONSTANTS
    Callers,        \* code that makes one request after another
    MaxAttempts,    \* maxAttempts()
    MinInterval,    \* the gap between two requests
    DefaultWait,    \* the cool-down when the answer names none
    Waits,          \* what a Retry-After may ask for; 0: no header
    WaitCap,        \* the longest backoff a Retry-After is given
    Base,           \* the backoff without one, by attempt
    NoCaller

ASSUME ApiClientAssumption ==
    /\ MaxAttempts \in Nat \ {0} /\ MinInterval \in Nat
    /\ DefaultWait \in Nat \ {0} /\ WaitCap \in Nat \ {0}
    /\ Waits \subseteq Nat
    /\ Base \in [1 .. MaxAttempts -> Nat]
    /\ NoCaller \notin Callers /\ IsFiniteSet(Callers)

VARIABLES
    cooldown,   \* what is left of the connection's cool-down
    since,      \* since lastStartedAt, as far as it matters
    tail,       \* the last caller to have taken a place in the queue
    rq,         \* the requests
    during      \* requests sent in the present cool-down (for a property)

clientVars == <<cooldown, since, tail, rq, during>>

Pcs == {"idle", "token", "turn", "gap", "sent", "refused", "backoff",
        "ok", "failed"}

Request == [pc: Pcs, attempt: 1 .. MaxAttempts, left: Nat,
            after: Callers \cup {NoCaller}]

Idle == [pc |-> "idle", attempt |-> 1, left |-> 0, after |-> NoCaller]

ClientTypeOK ==
    /\ cooldown \in Nat /\ since \in 0 .. MinInterval
    /\ tail \in Callers \cup {NoCaller}
    /\ rq \in [Callers -> Request]
    /\ during \in Nat

ClientInit ==
    /\ cooldown = 0
    /\ since = MinInterval
    /\ tail = NoCaller
    /\ rq = [p \in Callers |-> Idle]
    /\ during = 0

-----------------------------------------------------------------------------
(* Answers with an error status, and the code that each is given.          *)

\* reason: what Google names beside a 403.
Answers == [of: {"ebay", "google"}, status: {400, 401, 403, 404, 429, 500},
            reason: {"other", "quota", "scope"}]

EbayCode(a) ==
    CASE a.status = 401  -> "AUTH_EXPIRED"
      [] a.status = 403  -> "PERMISSION_DENIED"
      [] a.status = 429  -> "RATE_LIMITED"
      [] a.status >= 500 -> "SERVER_ERROR"
      [] OTHER           -> "BAD_REQUEST"

GoogleCode(a) ==
    CASE a.status = 403 /\ a.reason = "quota" -> "RATE_LIMITED"
      [] a.status = 403 /\ a.reason = "scope" -> "INSUFFICIENT_SCOPE"
      [] a.status = 404                       -> "NOT_FOUND"
      [] OTHER                                -> EbayCode(a)

\* The codes that an attempt may end with.
ErrorCodes == {IF a.of = "ebay" THEN EbayCode(a) ELSE GoogleCode(a) : a \in Answers}
              \cup {"NETWORK_ERROR", "INVALID_RESPONSE"}

Retryable(code) == code \in {"RATE_LIMITED", "SERVER_ERROR", "NETWORK_ERROR"}

-----------------------------------------------------------------------------
Least(a, b) == IF a < b THEN a ELSE b
Most(a, b)  == IF a < b THEN b ELSE a

\* backoffDelayMs; the jitter is the delay of the step that follows.
BackoffDelay(n, wait) == IF wait > 0 THEN Least(wait, WaitCap) ELSE Base[n]

-----------------------------------------------------------------------------
\* Mutant: the cool-down is not looked at.
GateOpenAlways == TRUE

GateOpen == cooldown = 0

\* A request begins, or is refused without being sent.
Begin(p) ==
    /\ rq[p].pc = "idle"
    /\ rq' = [rq EXCEPT ![p].pc = IF GateOpen THEN "token" ELSE "failed"]
    /\ UNCHANGED <<cooldown, since, tail, during>>

\* Mutant: the place in the queue is taken and not recorded.
TokenUnchained(p) ==
    /\ rq[p].pc = "token"
    /\ \/ rq' = [rq EXCEPT ![p].pc = "turn", ![p].after = tail]
       \/ rq' = [rq EXCEPT ![p].pc = "failed"]
    /\ UNCHANGED <<cooldown, since, tail, during>>

\* getValidAccessToken, again for every attempt, which throws past the retry
\* loop; then acquireSlot queues behind the present tail.
Token(p) ==
    /\ rq[p].pc = "token"
    /\ \/ /\ rq' = [rq EXCEPT ![p].pc = "turn", ![p].after = tail]
          /\ tail' = p
       \/ /\ rq' = [rq EXCEPT ![p].pc = "failed"]
          /\ tail' = tail
    /\ UNCHANGED <<cooldown, since, during>>

\* Whoever it queued behind is off: it waits out what is left of the gap.
Turn(p) ==
    /\ rq[p].pc = "turn" /\ rq[p].after = NoCaller
    /\ rq' = [rq EXCEPT ![p].pc = "gap", ![p].left = MinInterval - since]
    /\ UNCHANGED <<cooldown, since, tail, during>>

\* lastStartedAt is set and the request goes out.
Send(p) ==
    /\ rq[p].pc = "gap" /\ rq[p].left = 0
    /\ rq' = [q \in Callers |->
                IF q = p THEN [rq[p] EXCEPT !.pc = "sent"]
                ELSE IF rq[q].after = p THEN [rq[q] EXCEPT !.after = NoCaller]
                ELSE rq[q]]
    /\ tail' = IF tail = p THEN NoCaller ELSE tail
    /\ since' = 0
    /\ during' = IF cooldown > 0 THEN during + 1 ELSE 0
    /\ UNCHANGED cooldown

\* Mutant: the same attempt again, as often as it takes.
RetriedUncounted(q, wait) ==
    [q EXCEPT !.pc = "backoff", !.left = BackoffDelay(q.attempt, wait)]

\* Where a request goes after an error that may be retried.
Retried(q, wait) ==
    IF q.attempt < MaxAttempts
    THEN [q EXCEPT !.pc = "backoff", !.left = BackoffDelay(q.attempt, wait),
                   !.attempt = @ + 1]
    ELSE [q EXCEPT !.pc = "failed"]

\* A success clears the cool-down, whoever started it.
Succeeds(p) ==
    /\ rq[p].pc = "sent"
    /\ rq' = [rq EXCEPT ![p].pc = "ok"]
    /\ cooldown' = 0
    /\ during' = 0
    /\ UNCHANGED <<since, tail>>

\* A network error or a time-out, without an answer that could ask to wait,
\* or a 5xx, which may.
FailsForNow(p) ==
    /\ rq[p].pc = "sent"
    /\ \E code \in ErrorCodes \ {"RATE_LIMITED"} :
          /\ Retryable(code)
          /\ \E wait \in IF code = "NETWORK_ERROR" THEN {0} ELSE Waits :
                rq' = [rq EXCEPT ![p] = Retried(@, wait)]
    /\ UNCHANGED <<cooldown, since, tail, during>>

\* Any other status, or a body that is not JSON.
FailsForGood(p) ==
    /\ rq[p].pc = "sent"
    /\ \E code \in ErrorCodes : ~Retryable(code)
    /\ rq' = [rq EXCEPT ![p].pc = "failed"]
    /\ UNCHANGED <<cooldown, since, tail, during>>

\* A 429, or Google's 403 for a quota, is logged first.
Refused(p) ==
    /\ rq[p].pc = "sent" /\ "RATE_LIMITED" \in ErrorCodes
    /\ \E wait \in Waits :
          rq' = [rq EXCEPT ![p].pc = "refused", ![p].left = wait]
    /\ UNCHANGED <<cooldown, since, tail, during>>

\* startCooldown, and the backoff.
StartCooldown(p) ==
    LET wait == rq[p].left IN
    /\ rq[p].pc = "refused"
    /\ cooldown' = Most(1, IF wait = 0 THEN DefaultWait ELSE wait)
    /\ during' = 0
    /\ rq' = [rq EXCEPT ![p] = Retried([@ EXCEPT !.left = 0], wait)]
    /\ UNCHANGED <<since, tail>>

\* The next attempt reads the connection again; the cool-down is not asked.
Again(p) ==
    /\ rq[p].pc = "backoff" /\ rq[p].left = 0
    /\ rq' = [rq EXCEPT ![p].pc = "token"]
    /\ UNCHANGED <<cooldown, since, tail, during>>

\* The caller takes the answer.
Take(p) ==
    /\ rq[p].pc \in {"ok", "failed"}
    /\ rq' = [rq EXCEPT ![p] = Idle]
    /\ UNCHANGED <<cooldown, since, tail, during>>

Less(n) == IF n > 0 THEN n - 1 ELSE 0

Tick ==
    /\ cooldown' = Less(cooldown)
    /\ since' = Least(since + 1, MinInterval)
    /\ rq' = [p \in Callers |->
                IF rq[p].pc \in {"gap", "backoff"}
                THEN [rq[p] EXCEPT !.left = Less(@)] ELSE rq[p]]
    /\ during' = IF cooldown' = 0 THEN 0 ELSE during
    /\ UNCHANGED tail

\* The steps a request takes once it has begun.
Goes(p) == \/ Token(p) \/ Turn(p) \/ Send(p)
           \/ Succeeds(p) \/ FailsForNow(p) \/ FailsForGood(p) \/ Refused(p)
           \/ StartCooldown(p) \/ Again(p)

-----------------------------------------------------------------------------
(* Properties.                                                             *)

\* Requests of a connection leave at least MinInterval apart, although each
\* computes its delay from lastStartedAt before the one ahead of it has left:
\* acquireSlot chains them.
RequestsAreSpaced ==
    [][\A p \in Callers : rq[p].pc = "gap" /\ rq'[p].pc = "sent"
                            => since = MinInterval]_clientVars

\* While a cool-down runs, what still goes out are attempts of requests that
\* had passed the gate before it, and they are few: retries do not look at
\* the cool-down again, and wait no longer than WaitCap.
HammeringIsBounded == during < Cardinality(Callers) * MaxAttempts
=============================================================================
