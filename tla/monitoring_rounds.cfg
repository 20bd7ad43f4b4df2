SPECIFICATION FairSpec
CONSTANTS
    Groups = {g1}
    Scheduled = {s1, s2}
    Unscheduled = {u1}
    Instances = {i1, i2}
    MaxDue = 2
    MaxBalance = 2
    MaxFailures = 1
INVARIANTS
    MarksAreFresh
    GroupBudget
PROPERTIES
    EveryGroupBilled
