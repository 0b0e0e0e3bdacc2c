SPECIFICATION Spec
CONSTANTS
    Ann = Ann
    Bob = Bob
    Cid = Cid
    P1 = P1
    P2 = P2
    Nobody = Nobody
    Zone = 3600
    Hunters <- MCIdentityNames
    Persons <- MCPersons
    Starts <- MCStarts
    Commands <- MCCommands
    Limits <- MCLimits
    ChannelLimit <- MCChannelLimit
    Targeted <- MCTargeted
    Queries <- MCQueries
    Waits <- MCWaits
    MaxSteps = 4
INVARIANT WindowsFit
CHECK_DEADLOCK FALSE
