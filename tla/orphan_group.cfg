SPECIFICATION FairSpec
CONSTANTS
    Instances = {1, 2}
    Needs <- SmallNeeds
    Requests = {r1, r2}
    MaxFailures = 3
    MaxCrashes = 1
INVARIANTS
    MovedWhole
    OnlyIfOK

    
