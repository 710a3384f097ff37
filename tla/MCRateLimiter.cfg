SPECIFICATION Spec
CONSTANTS
    Callers = {c1, c2}
    Rate = 2
    Second = 2
    Delay = 1
    Deadline = 3
    RedisFails = TRUE
    MaxClock = 7
    MaxGrants = 6
CHECK_DEADLOCK FALSE
INVARIANTS TypeOK BurstBound WaitBounded
