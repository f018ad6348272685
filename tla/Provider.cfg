SPECIFICATION FairSpec
CONSTANTS
    LeaseId = {l1, l2, l3}
    Task = {t1, t2}
    Helper = {h1}
    Capacity = 1
INVARIANTS OnlyDroppedRevoked LeasesAccountedFor WorkerOutlivesGuards
PROPERTIES SentLeasesHandled WorkerStops
CHECK_DEADLOCK FALSE
