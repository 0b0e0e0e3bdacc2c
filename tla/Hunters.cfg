SPECIFICATION Spec
CONSTANTS
    Ann = Ann
    Bob = Bob
    Nobody = Nobody
    Zone = 3600
    Hunters <- MCHuntersSet
    Starts <- MCStarts
    Waits <- MCWaits
    Orders <- MCOrders
    Finds <- MCFinds
    Deadlines <- MCDeadlines
    Corrections <- MCCorrections
    MaxSteps = 3
INVARIANTS
    StatesAreSound
    ProfilesAreSound
    NuisancesAreWarded
PROPERTIES
    PurchaseTakesItsPrice
    ConfiscationHolds
CHECK_DEADLOCK FALSE
