------------------------ MODULE CircuitBreakerProofs ------------------------
(* Proofs about the circuit breaker, for any number of goroutines and any     *)
(* times with CallBound <= Timeout.                                           *)
EXTENDS CircuitBreaker, TLAPS

USE SamplesAssumption, TimesAssumption, BoundAssumption, MaxAssumption

LEMMA BreakerInit == Init => TypeOK /\ BreakerInv
  BY DEF Init, TypeOK, BreakerInv, InFlight, SingleProbe

LEMMA BreakerTick == ASSUME TypeOK, BreakerInv, Tick PROVE TypeOK' /\ BreakerInv'
<1>1. TypeOK'
  BY DEF Tick, TypeOK, breakerVars
<1>2. BreakerInv'
  BY DEF Tick, TypeOK, BreakerInv, InFlight, SingleProbe, breakerVars
<1> QED BY <1>1, <1>2

\* The window as Allow leaves it has not expired.
LEMMA WindowRenewed ==
  ASSUME TypeOK, resetWindowIfExpired
  PROVE  /\ total' \in Nat /\ failures' \in 0..total' /\ windowStart' \in 0..now
         /\ windowStart <= windowStart' /\ now <= windowStart' + Window
  BY DEF TypeOK, resetWindowIfExpired

LEMMA BreakerAllowClosed ==
  ASSUME TypeOK, BreakerInv, NEW c \in Callers, AllowClosed(c)
  PROVE  TypeOK' /\ BreakerInv'
<1>1. TypeOK'
  BY WindowRenewed DEF AllowClosed, Enter, TypeOK
<1>2. BreakerInv'
  BY WindowRenewed DEF AllowClosed, Enter, TypeOK, BreakerInv, InFlight, SingleProbe
<1> QED BY <1>1, <1>2

LEMMA BreakerAllowProbe ==
  ASSUME TypeOK, BreakerInv, NEW c \in Callers, AllowProbe(c)
  PROVE  TypeOK' /\ BreakerInv'
<1>1. TypeOK'
  BY WindowRenewed DEF AllowProbe, Enter, TypeOK
<1>2. \A d \in Callers : ~InFlight(d)
  BY DEF AllowProbe, CoolDownOver, TypeOK, BreakerInv
<1>3. BreakerInv'
  BY <1>2, WindowRenewed DEF AllowProbe, Enter, TypeOK, BreakerInv, InFlight, SingleProbe
<1> QED BY <1>1, <1>3

LEMMA BreakerRefuse ==
  ASSUME TypeOK, BreakerInv, NEW c \in Callers, Refuse(c)
  PROVE  TypeOK' /\ BreakerInv'
<1>1. TypeOK'
  BY WindowRenewed DEF Refuse, TypeOK
<1>2. BreakerInv'
  BY WindowRenewed DEF Refuse, TypeOK, BreakerInv, InFlight, SingleProbe
<1> QED BY <1>1, <1>2

LEMMA BreakerSuccess ==
  ASSUME TypeOK, BreakerInv, NEW c \in Callers, RecordSuccess(c)
  PROVE  TypeOK' /\ BreakerInv'
<1>1. TypeOK'
  BY DEF RecordSuccess, Leave, TypeOK
<1>2. BreakerInv'
  BY DEF RecordSuccess, Leave, TypeOK, BreakerInv, InFlight, SingleProbe
<1> QED BY <1>1, <1>2

LEMMA BreakerFailure ==
  ASSUME TypeOK, BreakerInv, NEW c \in Callers, RecordFailure(c)
  PROVE  TypeOK' /\ BreakerInv'
<1>1. TypeOK'
  BY DEF RecordFailure, Leave, TypeOK
<1>2. BreakerInv'
  BY DEF RecordFailure, Leave, TypeOK, BreakerInv, InFlight, SingleProbe
<1> QED BY <1>1, <1>2

LEMMA BreakerAbandon ==
  ASSUME TypeOK, BreakerInv, NEW c \in Callers, Abandon(c)
  PROVE  TypeOK' /\ BreakerInv'
<1>1. TypeOK'
  BY DEF Abandon, Leave, TypeOK, breakerVars
<1>2. BreakerInv'
  BY DEF Abandon, Leave, TypeOK, BreakerInv, InFlight, SingleProbe, breakerVars
<1> QED BY <1>1, <1>2

\* The breaker's types and the inductive invariant hold in every state.
THEOREM BreakerCorrect == Spec => [](TypeOK /\ BreakerInv)
<1>1. ASSUME TypeOK, BreakerInv, UNCHANGED vars PROVE TypeOK' /\ BreakerInv'
  BY <1>1 DEF TypeOK, BreakerInv, InFlight, SingleProbe, vars, breakerVars
<1>2. TypeOK /\ BreakerInv /\ [Next]_vars => TypeOK' /\ BreakerInv'
  BY <1>1, BreakerTick, BreakerAllowClosed, BreakerAllowProbe, BreakerRefuse, BreakerSuccess, BreakerFailure,
     BreakerAbandon DEF Next, Return
<1> QED BY BreakerInit, <1>2, PTL DEF Spec

\* The breaker's fields and the clock keep their types, and its counters stay
\* within what the window and the calls in flight allow.
THEOREM BreakerTyped == Spec => []TypeOK
  BY BreakerCorrect, PTL

\* While half-open, one call is in flight at most.
THEOREM OneProbe == Spec => []SingleProbe
<1>1. BreakerInv => SingleProbe
  BY DEF BreakerInv
<1> QED BY <1>1, BreakerCorrect, PTL

\* The breaker closes again only on the outcome of the test call.
THEOREM ProbeDecides == Spec => RecoveredByProbe
<1>1. ASSUME TypeOK, BreakerInv, [Next]_vars
      PROVE  [state = "half-open" /\ state' = "closed" =>
                 \E c \in Callers : at[c] = "probe" /\ at'[c] = "out"]_vars
  <2>1. SUFFICES ASSUME Next, state = "half-open", state' = "closed"
                 PROVE  \E c \in Callers : at[c] = "probe" /\ at'[c] = "out"
    BY <1>1
  <2>2. PICK c \in Callers : RecordSuccess(c)
    BY <2>1 DEF Next, Tick, AllowClosed, AllowProbe, Refuse, Return, RecordFailure, Abandon, breakerVars
  <2> QED BY <1>1, <2>1, <2>2 DEF TypeOK, BreakerInv, RecordSuccess, Leave
<1> QED BY <1>1, BreakerCorrect, PTL DEF Spec, RecoveredByProbe

\* The breaker trips on outcomes of the last window only.
THEOREM TripsOnRecent == Spec => TripEvidenceRecent
<1>1. ASSUME TypeOK, BreakerInv, [Next]_vars
      PROVE  [state = "closed" /\ state' = "open" => now <= windowStart + Window + CallBound]_vars
  <2>1. SUFFICES ASSUME Next, state = "closed", state' = "open"
                 PROVE  now <= windowStart + Window + CallBound
    BY <1>1
  <2>2. PICK c \in Callers : RecordFailure(c)
    BY <2>1 DEF Next, Tick, AllowClosed, AllowProbe, Refuse, Return, RecordSuccess, Abandon, breakerVars
  <2> QED BY <1>1, <2>2 DEF TypeOK, BreakerInv, RecordFailure
<1> QED BY <1>1, BreakerCorrect, PTL DEF Spec, TripEvidenceRecent
=============================================================================
