--------------------------- MODULE CircuitBreaker ---------------------------
(***************************************************************************)
(* The circuit breaker of one channel and the goroutines that share it.    *)
(* Every method holds the mutex, so one method call is one step; the time  *)
(* between Allow and the Record call of the same goroutine is what the     *)
(* mutex does not cover.  Time is counted in abstract units.               *)
(* The successes field is written and never read; it is left out.          *)
(***************************************************************************)
EXTENDS Naturals

CONSTANTS
    Callers,        \* the worker goroutines of the channel
    MinSamples,     \* minSamples (10)
    Timeout,        \* timeout (30 s)
    Window,         \* window (60 s)
    CallBound,      \* longest time from Allow to the Record call
    LimiterFails,   \* whether limiter.Wait may return an error
    MaxTime,        \* bound: how long time runs
    MaxTotal        \* bound: no call is let through once a window counts so many

ASSUME SamplesAssumption == MinSamples \in Nat \ {0}
ASSUME TimesAssumption   == Timeout \in Nat /\ Window \in Nat /\ CallBound \in Nat
\* The limiter waits up to 5 s and the HTTP client up to 5 s; the breaker stays
\* open for 30 s.
ASSUME BoundAssumption   == CallBound <= Timeout
ASSUME LimiterAssumption == LimiterFails \in BOOLEAN
ASSUME MaxAssumption     == MaxTime \in Nat /\ MaxTotal \in Nat

VARIABLES
    now,
    state, failures, total, lastFailure, windowStart,   \* the struct
    at,             \* where a goroutine is: "out", in a "call", in the "probe"
    since           \* when Allow let it through

breakerVars == <<state, failures, total, lastFailure, windowStart>>
vars == <<now, breakerVars, at, since>>

\* Between an Allow that let c through and its Record call.
InFlight(c) == at[c] # "out"

TypeOK ==
    /\ now \in 0..MaxTime
    /\ state \in {"closed", "open", "half-open"}
    /\ total \in Nat
    /\ failures \in 0..total
    /\ lastFailure \in 0..now
    /\ windowStart \in 0..now
    /\ at \in [Callers -> {"out", "call", "probe"}]
    /\ since \in [Callers -> 0..now]

Init ==
    /\ now = 0
    /\ state = "closed"
    /\ failures = 0 /\ total = 0
    /\ lastFailure = 0      \* the zero time; read only when open
    /\ windowStart = 0
    /\ at = [c \in Callers |-> "out"]
    /\ since = [c \in Callers |-> 0]

-----------------------------------------------------------------------------
\* No call takes longer than CallBound.
Tick ==
    /\ now < MaxTime
    /\ \A c \in Callers : InFlight(c) => now < since[c] + CallBound
    /\ now' = now + 1
    /\ UNCHANGED <<breakerVars, at, since>>

\* Mutant: the window never ends.
ResetNever == UNCHANGED <<failures, total, windowStart>>

\* Mutant: reset() forgets the failures.
ResetTotalOnly ==
    IF now > windowStart + Window
    THEN total' = 0 /\ windowStart' = now /\ UNCHANGED failures
    ELSE UNCHANGED <<failures, total, windowStart>>

resetWindowIfExpired ==
    IF now > windowStart + Window
    THEN failures' = 0 /\ total' = 0 /\ windowStart' = now
    ELSE UNCHANGED <<failures, total, windowStart>>

Enter(c, where) ==
    /\ at' = [at EXCEPT ![c] = where]
    /\ since' = [since EXCEPT ![c] = now]

\* The lets-through cases of Allow.
AllowClosed(c) ==
    /\ ~InFlight(c)
    /\ state = "closed"
    /\ resetWindowIfExpired
    /\ total' < MaxTotal
    /\ Enter(c, "call")
    /\ UNCHANGED <<now, state, lastFailure>>

\* Mutants: half-open lets everybody through; the timeout runs from the start
\* of the window.
CoolDownOverHalfOpen == state = "half-open" \/ (state = "open" /\ now > lastFailure + Timeout)
CoolDownFromWindow == state = "open" /\ now > windowStart + Timeout

\* Open, and the last failure is longer ago than the timeout.
CoolDownOver == state = "open" /\ now > lastFailure + Timeout

AllowProbe(c) ==
    /\ ~InFlight(c)
    /\ CoolDownOver
    /\ resetWindowIfExpired
    /\ total' < MaxTotal
    /\ state' = "half-open"
    /\ Enter(c, "probe")
    /\ UNCHANGED <<now, lastFailure>>

\* Allow returns false; the window is renewed all the same.
Refuse(c) ==
    /\ ~InFlight(c)
    /\ state # "closed" /\ ~CoolDownOver
    /\ resetWindowIfExpired
    /\ UNCHANGED <<now, state, lastFailure, at, since>>

Leave(c) ==
    /\ at' = [at EXCEPT ![c] = "out"]
    /\ since' = [since EXCEPT ![c] = 0]

RecordSuccess(c) ==
    /\ InFlight(c)
    /\ IF state = "half-open"
       THEN state' = "closed" /\ failures' = 0 /\ total' = 0 /\ windowStart' = now
       ELSE total' = total + 1 /\ UNCHANGED <<state, failures, windowStart>>
    /\ Leave(c)
    /\ UNCHANGED <<now, lastFailure>>

\* failures/total > 0.5 over at least minSamples outcomes.
Trips == total' >= MinSamples /\ 2 * failures' > total'

RecordFailure(c) ==
    /\ InFlight(c)
    /\ failures' = failures + 1
    /\ total' = total + 1
    /\ lastFailure' = now
    /\ state' = IF state = "half-open" \/ (state = "closed" /\ Trips) THEN "open" ELSE state
    /\ Leave(c)
    /\ UNCHANGED <<now, windowStart>>

\* limiter.Wait fails: Process returns without telling the breaker.
Abandon(c) ==
    /\ InFlight(c)
    /\ LimiterFails
    /\ Leave(c)
    /\ UNCHANGED <<now, breakerVars>>

Return(c) == RecordSuccess(c) \/ RecordFailure(c) \/ Abandon(c)

Next ==
    \/ Tick
    \/ \E c \in Callers : AllowClosed(c) \/ AllowProbe(c) \/ Refuse(c) \/ Return(c)

Spec == Init /\ [][Next]_vars

\* A call that was let through returns; time goes on.
FairSpec == Spec /\ WF_vars(Tick) /\ \A c \in Callers : WF_vars(Return(c))

-----------------------------------------------------------------------------
\* While half-open, one call is in flight at most: the one that tests the
\* provider.  Calls let through before the trip have all returned by then.
SingleProbe ==
    state = "half-open" => \A c, d \in Callers : InFlight(c) /\ InFlight(d) => c = d

\* Only the outcome of the test call closes the breaker again: never a late
\* answer to a call made before the trip.
RecoveredByProbe ==
    [][state = "half-open" /\ state' = "closed" =>
          \E c \in Callers : at[c] = "probe" /\ at'[c] = "out"]_vars

\* The breaker trips on outcomes of the last window only, up to the duration
\* of one call: a stale window is not added to.
TripEvidenceRecent ==
    [][state = "closed" /\ state' = "open" => now <= windowStart + Window + CallBound]_vars

\* README.md: "Open for 30s, then half-open test."  The test ends.
HalfOpenResolves == state = "half-open" ~> state # "half-open"

\* The inductive invariant.  A call in flight is younger than CallBound and was
\* let through in the current window, or the one before it was renewed; when
\* open, it was let through no later than the last failure, hence returns before
\* the timeout; a probe is in flight only when half-open, and alone.
BreakerInv ==
    /\ \A c \in Callers : InFlight(c) => now <= since[c] + CallBound /\ since[c] <= windowStart + Window
    /\ \A c \in Callers : state = "open" /\ InFlight(c) => since[c] <= lastFailure
    /\ \A c \in Callers : state = "half-open" /\ InFlight(c) => at[c] = "probe"
    /\ \A c \in Callers : at[c] = "probe" => state = "half-open"
    /\ SingleProbe
=============================================================================
