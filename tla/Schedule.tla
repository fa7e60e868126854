------------------------------ MODULE Schedule ------------------------------
(***************************************************************************)
(* When the next automatic run happens: the pure functions of              *)
(* src/lib/jobs/schedule.ts.  Instants are natural numbers; HourUnits of   *)
(* them make an hour and MinuteUnits a minute.  A timezone is its offset,  *)
(* so that half-hour zones exist when HourUnits is even.                   *)
(***************************************************************************)
EXTENDS Integers

CONSTANTS
    HourUnits,     \* instants per hour
    MinuteUnits,   \* instants per minute
    DayHours,      \* hours per day (24; a small instance may take fewer)
    MinInterval,   \* MIN_INTERVAL_MINUTES and
    MaxInterval,   \* MAX_INTERVAL_MINUTES, in instants
    NoTime         \* null: no instant, or no hour

ASSUME ScheduleAssumption ==
    /\ HourUnits \in Nat \ {0} /\ MinuteUnits \in Nat \ {0}
    /\ DayHours \in Nat \ {0}
    /\ MinInterval \in Nat \ {0} /\ MaxInterval \in Nat
    /\ MinInterval <= MaxInterval
    /\ NoTime \notin Int

Hours == 0 .. DayHours - 1

\* The part of AutomationSetting that scheduling reads.
Settings(intervals, zones) ==
    [enabled: BOOLEAN, interval: intervals, tz: zones,
     from: Hours \cup {NoTime}, to: Hours \cup {NoTime}]

-----------------------------------------------------------------------------
Lesser(a, b)  == IF a < b THEN a ELSE b
Greater(a, b) == IF a > b THEN a ELSE b

ClampInterval(i) == Lesser(MaxInterval, Greater(MinInterval, i))

HourInTimezone(t, tz) == ((t + tz) \div HourUnits) % DayHours

\* No window, a window of width zero, a plain one, or one around midnight.
\* Both of its ends belong to it.
IsWithinActiveHours(t, s) ==
    LET hour == HourInTimezone(t, s.tz)
    IN  s.from # NoTime /\ s.to # NoTime /\ s.from # s.to =>
            IF s.from < s.to THEN hour >= s.from /\ hour <= s.to
                             ELSE hour >= s.from \/ hour <= s.to

TopOfHour(t) == t - (t % HourUnits)

\* The steps of the loop, an hour each, that land inside the window.
ActiveSteps(t, s) ==
    {k \in 1 .. 2 * DayHours : IsWithinActiveHours(t + k * HourUnits, s)}

FirstOf(steps) == CHOOSE k \in steps : \A i \in steps : k <= i

\* Mutant: an hour too far when the minute hand is past the full hour.
NextActiveTimeLate(t, s) ==
    IF IsWithinActiveHours(t, s) \/ ActiveSteps(t, s) = {}
    THEN t
    ELSE t + FirstOf(ActiveSteps(t, s)) * HourUnits

NextActiveTime(t, s) ==
    IF IsWithinActiveHours(t, s) \/ ActiveSteps(t, s) = {}
    THEN t
    ELSE TopOfHour(t + FirstOf(ActiveSteps(t, s)) * HourUnits)

\* Mutant: missed slots are made up for one by one.
ComputeNextRunBacklog(s, lastRun, now) ==
    IF ~s.enabled THEN NoTime
    ELSE NextActiveTime(IF lastRun = NoTime THEN now
                        ELSE lastRun + ClampInterval(s.interval), s)

\* One interval after the last attempt, now if there was none, and never in
\* the past; null when automation is off.
ComputeNextRun(s, lastRun, now) ==
    IF ~s.enabled THEN NoTime
    ELSE NextActiveTime(
            IF lastRun = NoTime THEN now
            ELSE Greater(now, lastRun + ClampInterval(s.interval)), s)

IsDue(s, next, now) ==
    /\ s.enabled
    /\ IsWithinActiveHours(now, s)
    /\ next # NoTime => next <= now

\* scheduleDedupeKey without the user: the minute of the slot.
DedupeKey(slot) == slot \div MinuteUnits

\* retryDelayMs: exponential from at least five seconds, or what the server
\* asked for, and at most an hour.
RetryDelay(attempt, base, retryAfter, least, hour) ==
    Lesser(hour, IF retryAfter > 0 THEN retryAfter
                 ELSE Greater(least, base) * 2 ^ Greater(0, attempt - 1))

=============================================================================
