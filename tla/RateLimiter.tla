----------------------------- MODULE RateLimiter ----------------------------
(***************************************************************************)
(* The token bucket of one channel, kept in Redis and shared by the        *)
(* channel's goroutines.  Each reads its own clock, then sends the script; *)
(* the script runs atomically in Redis, later and in any order, with the   *)
(* time that was read.  Tokens are counted in units of 1/Second token, so  *)
(* that the script's fractions are integers: elapsed * Rate units come in, *)
(* a call costs Second units, the bucket holds Rate * Second.              *)
(***************************************************************************)
EXTENDS Integers, Sequences, FiniteSetsExt

CONSTANTS
    Callers,        \* goroutines that call Wait
    Rate,           \* RATE_LIMIT
    Second,         \* ticks per second
    Delay,          \* longest time, in ticks, from reading the clock to the script
    Deadline,       \* ticks Wait tries for (5 s)
    RedisFails,     \* whether a script call may return an error
    MaxClock,       \* bound: how long time runs
    MaxGrants       \* bound: how many calls are granted

ASSUME RateAssumption  == Rate \in Nat \ {0} /\ Second \in Nat \ {0}
ASSUME DelayAssumption == Delay \in Nat /\ 2 * Delay <= Second
ASSUME WaitAssumption  == Deadline \in Nat /\ RedisFails \in BOOLEAN
ASSUME LimitAssumption == MaxClock \in Nat /\ MaxGrants \in Nat

VARIABLES
    clock,
    tokens, last, expires,  \* the hash in Redis; absent once clock >= expires
    pc,             \* "idle", "asking" (clock read, script not run), "denied"
    asked,          \* asked[c]: the time c read
    began,          \* began[c]: when c entered Wait
    log             \* history: when each grant was given by the script

vars == <<clock, tokens, last, expires, pc, asked, began, log>>

Capacity == Rate * Second

TypeOK ==
    /\ clock \in 0..MaxClock
    /\ tokens \in (-(Rate * Delay))..Capacity
    /\ last \in 0..clock
    /\ expires \in 0..(clock + 2 * Second)
    /\ pc \in [Callers -> {"idle", "asking", "denied"}]
    /\ asked \in [Callers -> 0..clock]
    /\ began \in [Callers -> 0..clock]
    /\ log \in Seq(0..clock)

Init ==
    /\ clock = 0
    /\ tokens = 0 /\ last = 0 /\ expires = 0
    /\ pc = [c \in Callers |-> "idle"]
    /\ asked = [c \in Callers |-> 0]
    /\ began = [c \in Callers |-> 0]
    /\ log = <<>>

-----------------------------------------------------------------------------
\* Time passes: the script runs at most Delay after the clock was read, and a
\* goroutine that was denied does not oversleep its deadline.
Tick ==
    /\ clock < MaxClock
    /\ \A c \in Callers : pc[c] = "asking" => clock < asked[c] + Delay
    /\ \A c \in Callers : pc[c] = "denied" => clock < began[c] + Deadline
    /\ clock' = clock + 1
    /\ UNCHANGED <<tokens, last, expires, pc, asked, began, log>>

Ask(c) ==
    /\ pc' = [pc EXCEPT ![c] = "asking"]
    /\ asked' = [asked EXCEPT ![c] = clock]

\* Wait, up to the first script call.
Wait(c) ==
    /\ pc[c] = "idle"
    /\ Ask(c)
    /\ began' = [began EXCEPT ![c] = clock]
    /\ UNCHANGED <<clock, tokens, last, expires, log>>

\* Mutant: the select does not look at the deadline.
AskAgainForever(c) ==
    /\ pc[c] = "denied"
    /\ Ask(c)
    /\ UNCHANGED <<clock, tokens, last, expires, began, log>>

\* Ten milliseconds after a denial; the deadline has not passed.
AskAgain(c) ==
    /\ pc[c] = "denied"
    /\ clock < began[c] + Deadline
    /\ Ask(c)
    /\ UNCHANGED <<clock, tokens, last, expires, began, log>>

Return(c) ==
    /\ pc' = [pc EXCEPT ![c] = "idle"]
    /\ asked' = [asked EXCEPT ![c] = 0]
    /\ began' = [began EXCEPT ![c] = 0]

\* Wait returns an error: five seconds are over.
TimesOut(c) ==
    /\ pc[c] = "denied"
    /\ clock >= began[c] + Deadline
    /\ Return(c)
    /\ UNCHANGED <<clock, tokens, last, expires, log>>

\* Wait returns an error: the worker's context is cancelled.
Interrupted(c) ==
    /\ pc[c] = "denied"
    /\ Return(c)
    /\ UNCHANGED <<clock, tokens, last, expires, log>>

\* The script call fails: Wait returns nil without a token.
FailOpen(c) ==
    /\ RedisFails
    /\ pc[c] = "asking"
    /\ Return(c)
    /\ UNCHANGED <<clock, tokens, last, expires, log>>

-----------------------------------------------------------------------------
(* The script *)

Exists == clock < expires

\* Mutant: the bucket is not capped.
RefilledUncapped(t) == IF Exists THEN tokens + (t - last) * Rate ELSE Capacity

\* Mutant: a call that comes out of order refills as if it came in order.
RefilledForward(t) ==
    IF Exists THEN Min({Capacity, tokens + (IF t > last THEN t - last ELSE last - t) * Rate})
              ELSE Capacity

\* The tokens when the script is called with time t; elapsed may be negative.
Refilled(t) == IF Exists THEN Min({Capacity, tokens + (t - last) * Rate}) ELSE Capacity

\* Both branches write tokens and last and renew the expiry.
Save(c, left) ==
    /\ tokens' = left
    /\ last' = asked[c]
    /\ expires' = clock + 2 * Second

Grant(c) ==
    /\ pc[c] = "asking"
    /\ Len(log) < MaxGrants
    /\ Refilled(asked[c]) >= Second
    /\ Save(c, Refilled(asked[c]) - Second)
    /\ log' = Append(log, clock)
    /\ Return(c)
    /\ UNCHANGED clock

Deny(c) ==
    /\ pc[c] = "asking"
    /\ Refilled(asked[c]) < Second
    /\ Save(c, Refilled(asked[c]))
    /\ pc' = [pc EXCEPT ![c] = "denied"]
    /\ UNCHANGED <<clock, asked, began, log>>

Next ==
    \/ Tick
    \/ \E c \in Callers : Wait(c) \/ AskAgain(c) \/ TimesOut(c) \/ Interrupted(c) \/ FailOpen(c)
                            \/ Grant(c) \/ Deny(c)

Spec == Init /\ [][Next]_vars

-----------------------------------------------------------------------------
\* Over any stretch of time the script grants at most one bucket plus what
\* comes in meanwhile, however the calls are delayed and reordered, and whether
\* or not the key expires in between.
BurstBound ==
    \A i, j \in 1..Len(log) : i <= j =>
        (j - i + 1) * Second <= Capacity + Rate * (log[j] - log[i] + Delay)

\* Wait gives its answer within the deadline and one script call: the circuit
\* breaker relies on a bounded time between Allow and the outcome.
WaitBounded ==
    \A c \in Callers : pc[c] # "idle" => clock <= began[c] + Deadline + Delay

-----------------------------------------------------------------------------
(* The inductive invariant behind BurstBound and WaitBounded *)

\* What the hash says of the bucket, taken back to time 0: time leaves it as it
\* is, a grant lowers it by the cost of a call, a full bucket lowers it further.
Level == tokens - Rate * last

\* The last time the script ran.
Saved == expires - 2 * Second

\* A script runs within Delay of its reading of the clock, which is within the
\* deadline.
TimeInv ==
    /\ \A c \in Callers : pc[c] = "asking" => clock <= asked[c] + Delay /\ asked[c] <= began[c] + Deadline
    /\ WaitBounded

\* The bucket was not below 0 when the script last ran.
LevelInv ==
    IF expires = 0 THEN log = <<>>
                   ELSE Saved \in 0..clock /\ last <= Saved /\ 0 <= Level + Rate * Saved

\* Everything granted since grant i has been taken from a bucket that was at most
\* full then.
SpentInv ==
    \A i \in 1..Len(log) : Level + (Len(log) - i + 1) * Second <= Capacity + Rate * (Delay - log[i])

RateInv == TimeInv /\ LevelInv /\ SpentInv /\ BurstBound
=============================================================================
