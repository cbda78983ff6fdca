SPECIFICATION FairSpec
CONSTANTS
    Consumers = {c1, c2}
    Partitions = {p1, p2}
    LogEnd = 2
    MaxFaults = 2
    Nobody = Nobody
    NoMessage = NoMessage
INVARIANTS TypeOK NoEventAckedUnprocessed OwnerSkipsNothing
PROPERTIES AckedNeverRefetched RefinesAtLeastOnce EventuallyDrained
CHECK_DEADLOCK FALSE
