SPECIFICATION FairSpec
CONSTANTS
    QueueOrder <- Order
    Clients = {c1}
    Scheduler = Scheduler
    ThresholdLow = 0
    ThresholdNormal = 1
    ThresholdHigh = 2
    Prefetch = 1
    MaxBatch = 2
    MaxArrivals = 4
    MaxFaults = 1
CHECK_DEADLOCK FALSE
INVARIANTS TypeOK
PROPERTIES AdmissionBound DepthRecovers
