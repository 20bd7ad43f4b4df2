SPECIFICATION FairSpec
CONSTANTS
    Instances = {1, 2}
    Options <- TwoOptions
    Goroutines = {g1}
    None = None
    MaxTime = 2
    MaxChanges = 1
    MaxStarts = 1
    MaxFaults = 1
INVARIANTS
    TypeOK
    
    

    
CHECK_DEADLOCK FALSE
