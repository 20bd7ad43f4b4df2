SPECIFICATION SpecEither
CONSTANTS
    Groups = {"g1"}
    Vlans = {7}
    MaxNeed = 2
    MaxDowns = 1
    MaxNets = 4
    MaxFailures = 1
    MaxCrashes = 1
INVARIANTS
    VlansDistinct
    OnePrivateNet
    PublicWithinNeed
PROPERTIES
    GroupGetsAddresses
