SPECIFICATION Spec
CONSTANTS
    Notifications = {n1}
    Workers = {w1, w2}
    Clients = {c1}
    MaxRetries = 1
    PollLimit = 1
    MaxCopies = 2
    MaxFaults = 2
    Faults = {"crash", "sigterm", "mqLost", "publishErr", "lostPublish", "db", "replyLost", "badURL"}
    None = None
SYMMETRY Symmetry
VIEW WithoutFeed
CHECK_DEADLOCK FALSE
INVARIANTS TypeOK SingleHandler RetryBound NoOrphan AckedMeansAccepted DuplicatesExplained RetryBudget
