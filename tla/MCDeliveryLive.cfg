SPECIFICATION FairSpec
CONSTANTS
    Notifications = {n1}
    Workers = {w1}
    Clients = {c1}
    MaxRetries = 1
    PollLimit = 1
    MaxCopies = 2
    MaxFaults = 1
    Faults = {"crash", "sigterm", "publishErr", "lostPublish", "db", "replyLost", "badURL"}
    None = None
CHECK_DEADLOCK FALSE
PROPERTIES QueuedIsSettled DueIsPublished ImplementsAtLeastOnce
