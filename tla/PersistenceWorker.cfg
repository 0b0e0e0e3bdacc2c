SPECIFICATION FairSpec
CONSTANTS
    Capacity = 2
    SnapshotInterval = 2
    SnapshotOnClose = TRUE
    Recovered = 1
    MaxEvents = 4
INVARIANTS
    TypeOK
    CapacityRespected
    TicketsTellTruth
    FilesAgree
PROPERTIES
    LogSpec
    EveryTicketSettles
    OwnerReturns
