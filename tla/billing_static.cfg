SPECIFICATION FairSpec
CONSTANTS
    prod = prod
    ram = ram
    backup = backup
    Product = prod
    Resources <- MCResources
    Addons <- MCAddons
    PlanKind = "STATIC"
    Kind <- AllPrepaid
    Period <- Periods
    Price <- UnitPrice
    OnStates <- WhenRunning
    Except <- NotExcept
    Created = 1
    InstCreated = 0
    MaxTime = 5
    MaxFunds = 5
    MaxChanges = 2
INVARIANTS
    TypeOK
    PaidExactly
    ManualHold
PROPERTIES
    NoOverdraft
    PaidAhead
    SellsTime
    StopsWhenUnpaid
    RunsWhenPaid
