SPECIFICATION Spec
CONSTANTS
    Instances = {i1}
    Requests = {r1, r2}
    MaxVMs = 2
    MaxFailures = 1
    MaxCrashes = 1
    MaxDowns = 1

    
PROPERTIES
    OnlyDeleted
SYMMETRY Symmetry
CONSTRAINT FailureOrCrash
