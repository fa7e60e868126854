SPECIFICATION FairSpec
CONSTANTS
    r1 = r1
    r2 = r2
    i1 = i1
    i2 = i2
    None = None
    Provider = "GOOGLE"
    MaxGrants = 2
    Requests = {r1, r2}
    Instances = {i1, i2}
    Faults = {}
    MaxDisconnects = 1
INVARIANTS RefreshesCollapse
PROPERTIES DisconnectPrevails WrongExpiryHeals MixedTokensHeal
CHECK_DEADLOCK FALSE
