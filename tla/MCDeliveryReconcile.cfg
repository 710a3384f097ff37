SPECIFICATION FairSpec
CONSTANTS
    Notifications = {n1}
    Workers = {w1}
    Clients = {c1}
    MaxRetries = 1
    PollLimit = 1
    MaxCopies = 1
    MaxFaults = 1
    Faults = {"publishErr"}
    None = None
CHECK_DEADLOCK FALSE
PROPERTIES PendingIsReconciled
