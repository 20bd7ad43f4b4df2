SPECIFICATION Spec
CONSTANTS
    prod = prod
    ram = ram
    backup = backup
    Product = prod
    Resources <- NoItems
    Addons <- MCAddons
    PlanKind = "STATIC"
    Kind <- AllPostpaid
    Period <- Periods
    Price <- UnitPrice
    OnStates <- WhenRunning
    Except <- NotExcept
    Created = 1
    InstCreated = 0
    MaxTime = 5
    MaxFunds = 5
    MaxChanges = 0
INVARIANTS
    PostpaidAddonOnce
