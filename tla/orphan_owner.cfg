SPECIFICATION FairSpec
CONSTANTS
    Instances = {1, 2}
    Needs <- SmallNeeds
    Requests = {r1}
    MaxFailures = 1
    MaxCrashes = 0
PROPERTIES
    OwnershipFollows
