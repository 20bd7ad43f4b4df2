SPECIFICATION Spec
CONSTANTS
    prod = prod
    ram = ram
    backup = backup
    Product = prod
    Resources <- MCResources
    Addons <- MCAddons
    PlanKind = "DYNAMIC"
    Kind <- RamPostpaid
    Period <- MixedPeriods
    Price <- UnitPrice
    OnStates <- WhenRunning
    Except <- NotExcept
    Created = 1
    InstCreated = 0
    MaxTime = 5
    MaxFunds = 2
    MaxChanges = 2
INVARIANTS
    NoDoubleCharge
    PaidOnce
