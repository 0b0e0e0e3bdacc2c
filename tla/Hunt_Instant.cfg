SPECIFICATION Spec
CONSTANTS
    DayLength = 3
    Lifetime = 2
    BreadDelay = 1
    BreadLife = 2
    CallDelay = 1
    MaximumLateness = 1
    PlanSize = 2
    MaxBread = 1
    Capacity = 1
    FirstPlans <- NewOrLegacy
    MaxNow = 4
    MaxOrders = 2
    MaxCrashes = 1
INVARIANTS
    NothingRaises
