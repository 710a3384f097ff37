--------------------------- MODULE RateLimiterProofs ---------------------------
(* What the token bucket grants, for every rate, delay and number of callers. *)
EXTENDS RateLimiter, SequenceTheorems, TLAPS

USE RateAssumption, DelayAssumption, WaitAssumption, LimitAssumption

-----------------------------------------------------------------------------
(* Arithmetic *)

LEMMA MulMonotone == \A r \in Nat, a, b \in Int : a <= b => r * a <= r * b
  OBVIOUS

LEMMA Distributes ==
  \A r, a, b \in Int : r * (a + b) = r * a + r * b /\ r * (a - b) = r * a - r * b /\ a * r = r * a
  OBVIOUS

LEMMA MinOfTwo == ASSUME NEW a \in Int, NEW b \in Int PROVE Min({a, b}) = IF a <= b THEN a ELSE b
  BY DEF Min

LEMMA SeqWiden == ASSUME NEW S, NEW T, S \subseteq T PROVE \A s \in Seq(S) : s \in Seq(T)
<1> SUFFICES ASSUME NEW s \in Seq(S) PROVE s \in Seq(T)
  OBVIOUS
<1>1. Len(s) \in Nat /\ s \in [1..Len(s) -> S]
  OBVIOUS
<1>2. s \in [1..Len(s) -> T]
  BY <1>1
<1> QED BY <1>1, <1>2, SeqDef

\* The bucket when the script is called with time t, from what was saved at time s:
\* it makes up for the calls that came out of order, and once the key has expired
\* it would be full.
LEMMA Refills ==
  ASSUME NEW R \in Nat, NEW S \in Nat, NEW D \in Nat, 2 * D <= S,
         NEW k \in Int, NEW l \in Int, NEW s \in Int, NEW t \in Int, NEW n \in Int,
         0 <= (k - R * l) + R * s, s <= n, t <= n, n <= t + D
  PROVE  /\ k + (t - l) * R = (k - R * l) + R * t
         /\ 0 <= (k - R * l) + R * n
         /\ -(R * D) <= (k - R * l) + R * t
         /\ s + 2 * S <= n => R * S <= (k - R * l) + R * t
<1>1. (t - l) * R = R * t - R * l
  BY Distributes
<1>2. R * s <= R * n
  BY MulMonotone
<1>3. R * n <= R * t + R * D
  <2>1. R * n <= R * (t + D)
    BY MulMonotone
  <2> QED BY <2>1, Distributes
<1>4. s + 2 * S <= n => R * S <= R * t - R * s
  <2>1. s + 2 * S <= n => S <= t - s
    OBVIOUS
  <2>2. s + 2 * S <= n => R * S <= R * (t - s)
    BY <2>1, MulMonotone
  <2> QED BY <2>2, Distributes
<1>5. R * l \in Int /\ R * s \in Int /\ R * n \in Int /\ R * t \in Int /\ R * D \in Int /\ R * S \in Int
  OBVIOUS
<1> QED BY <1>1, <1>2, <1>3, <1>4, <1>5

-----------------------------------------------------------------------------
(* The script *)

LEMMA CapacityTyped == Capacity \in Nat /\ Rate * Delay \in Nat /\ Rate * Second \in Nat /\ Capacity = Rate * Second
  BY DEF Capacity

\* What a call finds in the bucket.
LEMMA RefilledBounds ==
  ASSUME TypeOK, TimeInv, LevelInv, NEW c \in Callers, pc[c] = "asking"
  PROVE  /\ Refilled(asked[c]) \in Int
         /\ Refilled(asked[c]) <= Capacity
         /\ -(Rate * Delay) <= Refilled(asked[c])
         /\ 0 <= Refilled(asked[c]) - Rate * asked[c] + Rate * clock
         /\ expires # 0 => Refilled(asked[c]) - Rate * asked[c] <= Level
<1>1. /\ asked[c] \in Int /\ clock \in Int /\ tokens \in Int /\ last \in Int /\ expires \in Int
      /\ asked[c] <= clock /\ clock <= asked[c] + Delay /\ 0 <= expires /\ 0 <= clock
  BY CapacityTyped DEF TypeOK, TimeInv
<1> SUFFICES ASSUME NEW t \in Int, NEW n \in Int, t <= n, n <= t + Delay, 0 <= n,
                    t = asked[c], n = clock
             PROVE  /\ Refilled(t) \in Int
                    /\ Refilled(t) <= Capacity
                    /\ -(Rate * Delay) <= Refilled(t)
                    /\ 0 <= Refilled(t) - Rate * t + Rate * n
                    /\ expires # 0 => Refilled(t) - Rate * t <= Level
  BY <1>1
<1>2. /\ Rate * t \in Int /\ Rate * n \in Int /\ Rate * t <= Rate * n /\ Rate * last \in Int
      /\ Rate * Delay \in Nat /\ Capacity \in Nat /\ Rate * Second = Capacity
  BY <1>1, MulMonotone, CapacityTyped
<1>3. CASE expires = 0
  <2>1. Refilled(t) = Capacity
    BY <1>3 DEF Refilled, Exists
  <2> QED BY <1>2, <1>3, <2>1
<1>4. CASE expires # 0
  <2>1. /\ Saved \in Int /\ Saved <= n /\ 0 <= (tokens - Rate * last) + Rate * Saved /\ expires = Saved + 2 * Second
    BY <1>1, <1>4 DEF LevelInv, Level, Saved
  <2>2. /\ tokens + (t - last) * Rate = (tokens - Rate * last) + Rate * t
        /\ 0 <= (tokens - Rate * last) + Rate * n
        /\ -(Rate * Delay) <= (tokens - Rate * last) + Rate * t
        /\ Saved + 2 * Second <= n => Rate * Second <= (tokens - Rate * last) + Rate * t
    BY <1>1, <2>1, Refills
  <2> SUFFICES ASSUME NEW v \in Int, v = tokens - Rate * last,
                      tokens + (t - last) * Rate = v + Rate * t,
                      0 <= v + Rate * n, -(Rate * Delay) <= v + Rate * t,
                      expires <= n => Capacity <= v + Rate * t
               PROVE  /\ Refilled(t) \in Int
                      /\ Refilled(t) <= Capacity
                      /\ -(Rate * Delay) <= Refilled(t)
                      /\ 0 <= Refilled(t) - Rate * t + Rate * n
                      /\ Refilled(t) - Rate * t <= v
    BY <1>1, <1>2, <2>1, <2>2 DEF Level
  <2>3. CASE Exists
    <3>1. Refilled(t) = IF Capacity <= v + Rate * t THEN Capacity ELSE v + Rate * t
      BY <1>2, <2>3, MinOfTwo DEF Refilled
    <3> QED BY <1>2, <3>1
  <2>4. CASE ~Exists
    <3>1. Refilled(t) = Capacity /\ Capacity <= v + Rate * t
      BY <1>1, <2>4 DEF Refilled, Exists
    <3> QED BY <1>2, <3>1
  <2> QED BY <2>3, <2>4
<1> QED BY <1>3, <1>4

-----------------------------------------------------------------------------
(* Every step keeps the invariant *)

\* The steps of one caller that do not run the script to its end.
Local(c) == Wait(c) \/ AskAgain(c) \/ TimesOut(c) \/ Interrupted(c) \/ FailOpen(c)

LEMMA LocalFrame ==
  ASSUME NEW c \in Callers, Local(c) PROVE UNCHANGED <<clock, tokens, last, expires, log>>
  BY DEF Local, Wait, AskAgain, TimesOut, Interrupted, FailOpen

LEMMA RateTypeStep == ASSUME TypeOK, TimeInv, LevelInv, [Next]_vars PROVE TypeOK'
<1>1. CASE Tick
  <2>1. clock' \in 0..MaxClock /\ clock' = clock + 1 /\ clock \in Nat /\ Second \in Nat
    BY <1>1 DEF Tick, TypeOK
  <2>2. /\ 0..clock \subseteq 0..clock' /\ 0..(clock + 2 * Second) \subseteq 0..(clock' + 2 * Second)
    BY <2>1
  <2>3. log' \in Seq(0..clock')
    BY <1>1, <2>2, SeqWiden DEF Tick, TypeOK
  <2> QED BY <1>1, <2>1, <2>2, <2>3 DEF Tick, TypeOK
<1>2. ASSUME NEW c \in Callers, Local(c) PROVE TypeOK'
  <2>1. clock \in 0..clock /\ 0 \in 0..clock
    BY DEF TypeOK
  <2> QED BY <1>2, <2>1 DEF TypeOK, Local, Wait, AskAgain, TimesOut, Interrupted, FailOpen, Ask, Return
<1>3. ASSUME NEW c \in Callers, Grant(c) \/ Deny(c) PROVE TypeOK'
  <2>1. /\ Refilled(asked[c]) \in Int /\ Refilled(asked[c]) <= Capacity /\ -(Rate * Delay) <= Refilled(asked[c])
    BY <1>3, RefilledBounds DEF Grant, Deny
  <2>2. tokens' \in (-(Rate * Delay))..Capacity
    <3>1. Capacity \in Nat /\ Rate * Delay \in Nat
      BY CapacityTyped
    <3>2. \/ tokens' = Refilled(asked[c])
          \/ tokens' = Refilled(asked[c]) - Second /\ Second <= Refilled(asked[c])
      BY <1>3 DEF Grant, Deny, Save
    <3> QED BY <2>1, <3>1, <3>2
  <2>3. last' \in 0..clock /\ expires' \in 0..(clock + 2 * Second) /\ clock' = clock
    BY <1>3 DEF Grant, Deny, Save, TypeOK
  <2>4. log' \in Seq(0..clock)
    <3>1. clock \in 0..clock /\ log \in Seq(0..clock)
      BY DEF TypeOK
    <3>2. Append(log, clock) \in Seq(0..clock)
      BY <3>1
    <3> QED BY <1>3, <3>1, <3>2 DEF Grant, Deny
  <2>5. 0 \in 0..clock
    BY DEF TypeOK
  <2>6. /\ pc' \in [Callers -> {"idle", "asking", "denied"}]
        /\ asked' \in [Callers -> 0..clock] /\ began' \in [Callers -> 0..clock]
    BY <1>3, <2>5 DEF Grant, Deny, Return, TypeOK
  <2> QED BY <2>2, <2>3, <2>4, <2>6 DEF TypeOK
<1>4. CASE UNCHANGED vars
  BY <1>4 DEF TypeOK, vars
<1> QED BY <1>1, <1>2, <1>3, <1>4 DEF Next, Local

LEMMA TimeStep == ASSUME TypeOK, TimeInv, [Next]_vars PROVE TimeInv'
<1> SUFFICES ASSUME NEW d \in Callers
             PROVE  /\ pc'[d] = "asking" => clock' <= asked'[d] + Delay /\ asked'[d] <= began'[d] + Deadline
                    /\ pc'[d] # "idle" => clock' <= began'[d] + Deadline + Delay
  BY DEF TimeInv, WaitBounded
<1>1. /\ clock \in Nat /\ asked[d] \in Nat /\ began[d] \in Nat /\ Delay \in Nat /\ Deadline \in Nat
      /\ pc[d] \in {"idle", "asking", "denied"}
      /\ pc[d] = "asking" => clock <= asked[d] + Delay /\ asked[d] <= began[d] + Deadline
      /\ pc[d] # "idle" => clock <= began[d] + Deadline + Delay
  BY DEF TypeOK, TimeInv, WaitBounded
<1>2. CASE Tick
  <2>1. /\ clock' = clock + 1 /\ UNCHANGED <<pc, asked, began>>
        /\ pc[d] = "asking" => clock < asked[d] + Delay
        /\ pc[d] = "denied" => clock < began[d] + Deadline
    BY <1>2 DEF Tick
  <2> QED BY <1>1, <2>1
<1>3. ASSUME NEW c \in Callers, Local(c) PROVE 
                    /\ pc'[d] = "asking" => clock' <= asked'[d] + Delay /\ asked'[d] <= began'[d] + Deadline
                    /\ pc'[d] # "idle" => clock' <= began'[d] + Deadline + Delay
  BY <1>1, <1>3, SMTT(60) DEF TypeOK, Local, Wait, AskAgain, TimesOut, Interrupted, FailOpen, Ask, Return
<1>4. ASSUME NEW c \in Callers, Grant(c) \/ Deny(c) PROVE 
                    /\ pc'[d] = "asking" => clock' <= asked'[d] + Delay /\ asked'[d] <= began'[d] + Deadline
                    /\ pc'[d] # "idle" => clock' <= began'[d] + Deadline + Delay
  BY <1>1, <1>4 DEF TypeOK, Grant, Deny, Return
<1>5. CASE UNCHANGED vars
  BY <1>1, <1>5 DEF vars
<1> QED BY <1>2, <1>3, <1>4, <1>5 DEF Next, Local

LEMMA LevelStep == ASSUME TypeOK, TimeInv, LevelInv, [Next]_vars PROVE LevelInv'
<1>1. CASE Tick
  <2>1. clock \in Nat /\ clock' = clock + 1 /\ expires \in Int /\ UNCHANGED <<tokens, last, expires, log>>
    BY <1>1 DEF Tick, TypeOK
  <2>2. Saved' = Saved /\ Level' = Level /\ Saved \in Int
    BY <2>1 DEF Saved, Level
  <2>3. Saved \in 0..clock => Saved \in 0..clock'
    BY <2>1
  <2> QED BY <2>1, <2>2, <2>3 DEF LevelInv
<1>2. ASSUME NEW c \in Callers, Local(c) PROVE LevelInv'
  BY <1>2, LocalFrame DEF LevelInv, Saved, Level
<1>3. ASSUME NEW c \in Callers, Grant(c) \/ Deny(c) PROVE LevelInv'
  <2>1. /\ Refilled(asked[c]) \in Int /\ 0 <= Refilled(asked[c]) - Rate * asked[c] + Rate * clock
    BY <1>3, RefilledBounds DEF Grant, Deny
  <2>2. /\ last' = asked[c] /\ expires' = clock + 2 * Second /\ clock' = clock
        /\ \/ tokens' = Refilled(asked[c])
           \/ tokens' = Refilled(asked[c]) - Second /\ Second <= Refilled(asked[c])
    BY <1>3 DEF Grant, Deny, Save
  <2>3. clock \in Nat /\ asked[c] \in Nat /\ asked[c] <= clock
    BY DEF TypeOK
  <2>4. Saved' = clock /\ expires' # 0
    BY <2>2, <2>3 DEF Saved
  <2>5. 0 <= Level' + Rate * clock
    <3> SUFFICES ASSUME NEW t \in Nat, NEW n \in Nat, NEW x \in Int, NEW y \in Int, t <= n,
                        0 <= x - Rate * t + Rate * n, y = x \/ (y = x - Second /\ Second <= x)
                 PROVE  0 <= (y - Rate * t) + Rate * n
      BY <2>1, <2>2, <2>3 DEF Level
    <3>1. Rate * t <= Rate * n
      BY MulMonotone
    <3> QED BY <3>1
  <2> QED BY <2>2, <2>3, <2>4, <2>5 DEF LevelInv
<1>4. CASE UNCHANGED vars
  BY <1>4 DEF LevelInv, Saved, Level, vars
<1> QED BY <1>1, <1>2, <1>3, <1>4 DEF Next, Local

\* A run of the script lowers the level by what it grants, at least.
LEMMA LevelFalls ==
  ASSUME TypeOK, TimeInv, LevelInv, NEW c \in Callers, Grant(c) \/ Deny(c)
  PROVE  /\ Level \in Int /\ Level' \in Int
         /\ Grant(c) => /\ expires # 0 => Level' + Second <= Level
                        /\ Level' + Second <= Capacity + Rate * (Delay - clock)
                        /\ -(Rate * clock) <= Level'
         /\ Deny(c) /\ expires # 0 => Level' <= Level
<1>1. /\ Refilled(asked[c]) \in Int /\ Refilled(asked[c]) <= Capacity
      /\ expires # 0 => Refilled(asked[c]) - Rate * asked[c] <= Level
  BY RefilledBounds DEF Grant, Deny
<1>2. /\ last' = asked[c]
      /\ Deny(c) => tokens' = Refilled(asked[c])
      /\ Grant(c) => tokens' = Refilled(asked[c]) - Second /\ Second <= Refilled(asked[c])
  BY DEF Grant, Deny, Save
<1>3. /\ clock \in Nat /\ asked[c] \in Nat /\ asked[c] <= clock /\ clock <= asked[c] + Delay /\ Delay \in Nat
      /\ tokens \in Int /\ last \in Int /\ Capacity \in Nat /\ Second \in Nat
  BY CapacityTyped DEF TypeOK, TimeInv, Grant, Deny
<1>4. Level \in Int
  BY <1>3 DEF Level
<1>5. Level' = tokens' - Rate * asked[c]
  BY <1>2 DEF Level
<1> SUFFICES ASSUME NEW t \in Nat, NEW n \in Nat, NEW v \in Int, NEW x \in Int, NEW y, NEW e \in BOOLEAN,
                    t <= n, n <= t + Delay, x <= Capacity, e => x - Rate * t <= v
             PROVE  /\ y = x => y - Rate * t \in Int /\ (e => y - Rate * t <= v)
                    /\ y = x - Second /\ Second <= x =>
                          /\ y - Rate * t \in Int
                          /\ e => (y - Rate * t) + Second <= v
                          /\ (y - Rate * t) + Second <= Capacity + Rate * (Delay - n)
                          /\ -(Rate * n) <= y - Rate * t
  <2> DEFINE e == expires # 0
  <2>1. e \in BOOLEAN /\ (e => Refilled(asked[c]) - Rate * asked[c] <= Level)
    BY <1>1
  <2> QED BY <1>1, <1>2, <1>3, <1>4, <1>5, <2>1
<1>6. /\ Rate * t \in Int /\ Rate * n \in Int /\ Rate * Delay \in Int /\ Rate * t <= Rate * n
      /\ Rate * n <= Rate * t + Rate * Delay
  <2>1. Rate * n <= Rate * (t + Delay) /\ Rate * t <= Rate * n
    BY MulMonotone
  <2> QED BY <2>1, Distributes
<1>7. Rate * (Delay - n) = Rate * Delay - Rate * n
  BY Distributes
<1> QED BY <1>3, <1>6, <1>7

LEMMA SpentStep == ASSUME TypeOK, TimeInv, LevelInv, SpentInv, [Next]_vars PROVE SpentInv'
<1>1. ASSUME UNCHANGED <<tokens, last, log>> PROVE SpentInv'
  BY <1>1 DEF SpentInv, Level
<1>2. ASSUME NEW c \in Callers, Deny(c) PROVE SpentInv'
  <2>1. log' = log /\ Level \in Int /\ Level' \in Int /\ (expires # 0 => Level' <= Level)
    BY <1>2, LevelFalls DEF Deny
  <2> SUFFICES ASSUME NEW i \in 1..Len(log)
               PROVE  Level' + (Len(log) - i + 1) * Second <= Capacity + Rate * (Delay - log[i])
    BY <2>1 DEF SpentInv
  <2>2. Level + (Len(log) - i + 1) * Second <= Capacity + Rate * (Delay - log[i])
    BY DEF SpentInv
  <2>3. Len(log) \in Nat /\ log[i] \in Nat /\ expires # 0
    BY DEF TypeOK, LevelInv
  <2>4. (Len(log) - i + 1) * Second \in Int /\ Capacity + Rate * (Delay - log[i]) \in Int
    BY <2>3, CapacityTyped
  <2> QED BY <2>1, <2>2, <2>3, <2>4
<1>3. ASSUME NEW c \in Callers, Grant(c) PROVE SpentInv'
  <2>1. /\ log' = Append(log, clock) /\ Level \in Int /\ Level' \in Int /\ (expires # 0 => Level' + Second <= Level)
        /\ Level' + Second <= Capacity + Rate * (Delay - clock)
    BY <1>3, LevelFalls DEF Grant
  <2>2. log \in Seq(0..clock) /\ clock \in 0..clock /\ Len(log) \in Nat
    BY DEF TypeOK
  <2>3. /\ Len(log') = Len(log) + 1 /\ log'[Len(log) + 1] = clock
        /\ \A i \in 1..Len(log) : log'[i] = log[i]
    BY <2>1, <2>2
  <2> SUFFICES ASSUME NEW i \in 1..(Len(log) + 1)
               PROVE  Level' + (Len(log) + 1 - i + 1) * Second <= Capacity + Rate * (Delay - log'[i])
    BY <2>3 DEF SpentInv
  <2>4. CASE i = Len(log) + 1
    <3>1. (Len(log) + 1 - i + 1) * Second = Second
      BY <2>2, <2>4
    <3> QED BY <2>1, <2>3, <2>4, <3>1
  <2>5. CASE i \in 1..Len(log)
    <3>1. Level + (Len(log) - i + 1) * Second <= Capacity + Rate * (Delay - log[i])
      BY <2>5 DEF SpentInv
    <3>2. log[i] \in Nat /\ expires # 0 /\ i \in Nat
      BY <2>2, <2>5 DEF LevelInv
    <3>3. (Len(log) + 1 - i + 1) * Second = (Len(log) - i + 1) * Second + Second
      BY <2>2, <3>2
    <3>4. (Len(log) - i + 1) * Second \in Int /\ Capacity + Rate * (Delay - log[i]) \in Int
      BY <2>2, <3>2, CapacityTyped
    <3>5. Level' + Second <= Level /\ Second \in Nat
      BY <2>1, <3>2
    <3> SUFFICES ASSUME NEW v \in Int, NEW w \in Int, NEW g \in Int, NEW b \in Int, v + g <= b, w + Second <= v
                 PROVE  w + (g + Second) <= b
      BY <2>1, <2>3, <2>5, <3>1, <3>3, <3>4, <3>5
    <3> QED BY <3>5
  <2> QED BY <2>2, <2>4, <2>5
<1> QED BY <1>1, <1>2, <1>3, LocalFrame DEF Next, Local, Tick, vars

LEMMA BurstStep == ASSUME TypeOK, TimeInv, LevelInv, SpentInv, BurstBound, [Next]_vars PROVE BurstBound'
<1>1. ASSUME UNCHANGED log PROVE BurstBound'
  BY <1>1 DEF BurstBound
<1>2. ASSUME NEW c \in Callers, Grant(c) PROVE BurstBound'
  <2>1. log' = Append(log, clock) /\ Level' \in Int /\ -(Rate * clock) <= Level'
    BY <1>2, LevelFalls DEF Grant
  <2>2. log \in Seq(0..clock) /\ clock \in 0..clock /\ clock \in Nat /\ Len(log) \in Nat
    BY DEF TypeOK
  <2>3. /\ Len(log') = Len(log) + 1 /\ log'[Len(log) + 1] = clock
        /\ \A i \in 1..Len(log) : log'[i] = log[i]
        /\ \A i \in 1..(Len(log) + 1) : log'[i] \in Nat
    BY <2>1, <2>2
  <2>4. SpentInv'
    BY SpentStep
  <2> SUFFICES ASSUME NEW i \in 1..(Len(log) + 1), NEW j \in 1..(Len(log) + 1), i <= j
               PROVE  (j - i + 1) * Second <= Capacity + Rate * (log'[j] - log'[i] + Delay)
    BY <2>3 DEF BurstBound
  <2>5. CASE j = Len(log) + 1
    <3>1. Level' + (j - i + 1) * Second <= Capacity + Rate * (Delay - log'[i])
      BY <2>3, <2>4, <2>5 DEF SpentInv
    <3> SUFFICES ASSUME NEW v \in Int, NEW g \in Int, NEW a \in Nat, NEW n \in Nat,
                        v + g <= Capacity + Rate * (Delay - a), -(Rate * n) <= v
                 PROVE  g <= Capacity + Rate * (n - a + Delay)
      <4>1. (j - i + 1) * Second \in Int
        OBVIOUS
      <4> QED BY <2>1, <2>2, <2>3, <2>5, <3>1, <4>1
    <3>2. Rate * (Delay - a) = Rate * Delay - Rate * a /\ Rate * (n - a + Delay) = Rate * n - Rate * a + Rate * Delay
      BY Distributes
    <3>3. Rate * Delay \in Int /\ Rate * a \in Int /\ Rate * n \in Int /\ Capacity \in Int
      BY CapacityTyped
    <3> QED BY <3>2, <3>3
  <2>6. CASE j # Len(log) + 1
    <3>1. i \in 1..Len(log) /\ j \in 1..Len(log)
      BY <2>2, <2>6
    <3> QED BY <2>3, <3>1 DEF BurstBound
  <2> QED BY <2>5, <2>6
<1> QED BY <1>1, <1>2, LocalFrame DEF Next, Local, Tick, Deny, vars

-----------------------------------------------------------------------------
LEMMA RateCorrect == Spec => [](TypeOK /\ RateInv)
<1>1. Init => TypeOK /\ RateInv
  <2>1. Init => TypeOK
    <3>1. Capacity \in Nat /\ Rate * Delay \in Nat
      BY CapacityTyped
    <3>2. 0 \in (-(Rate * Delay))..Capacity
      BY <3>1
    <3>3. <<>> \in Seq(0..0)
      OBVIOUS
    <3> QED BY <3>2, <3>3 DEF Init, TypeOK
  <2>2. Init => TimeInv /\ LevelInv /\ SpentInv /\ BurstBound
    BY DEF Init, TimeInv, WaitBounded, LevelInv, SpentInv, BurstBound
  <2> QED BY <2>1, <2>2 DEF RateInv
<1>2. TypeOK /\ RateInv /\ [Next]_vars => (TypeOK /\ RateInv)'
  BY RateTypeStep, TimeStep, LevelStep, SpentStep, BurstStep DEF RateInv
<1> QED BY <1>1, <1>2, PTL DEF Spec

\* Every variable keeps its type: scripts that run out of order take the bucket at
\* most Rate * Delay below empty, and it never holds more than its capacity.
THEOREM BucketTyped == Spec => []TypeOK
  BY RateCorrect, PTL

\* From grant i to grant j the script gives out at most a full bucket and what
\* comes in meanwhile, for any rate, delays up to half a second, any order of the
\* calls and although the key expires.
THEOREM RateKept == Spec => []BurstBound
<1>1. RateInv => BurstBound
  BY DEF RateInv
<1> QED BY <1>1, RateCorrect, PTL

\* Wait answers within its deadline and the delay of one script call.
THEOREM WaitEnds == Spec => []WaitBounded
<1>1. RateInv => WaitBounded
  BY DEF RateInv, TimeInv
<1> QED BY <1>1, RateCorrect, PTL
=============================================================================
