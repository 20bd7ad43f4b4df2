SPECIFICATION FairSpec
CONSTANTS
    Instances = {i1}
    Requests = {r1}
    MaxVMs = 2
    MaxFailures = 1
    MaxCrashes = 1
    MaxDowns = 1
PROPERTIES
    DeletedGoes
    LiveRuns
