SPECIFICATION FairSpec
CONSTANTS
    Requests = {r1, r2}
    MaxRuns = 2
    MaxFailures = 1
INVARIANTS
    TypeOK
    PlaybookOnStoppedVM
PROPERTIES
    NeverBlockedForGood
    RunsAgain
