SPECIFICATION Spec
CONSTANTS
    Event = {e1, e2}
    None = None
    SnapshotInterval = 2
    DurableCreate = TRUE
    MaxRecords = 4
INVARIANTS
    TypeOK
    RecoveryIsFaithful
PROPERTIES
    NothingBehindTornRecord
    LogSpec
