SPECIFICATION Spec
CONSTANTS
    c1 = c1
    c2 = c2
    c3 = c3
    o1 = o1
    o2 = o2
    o3 = o3
    Client = {c1, c2, c3}
    Owner = {o1, o2, o3}
    ownerOf <- MCUniqueOwner
    Named = {}
    NoOwner = NoOwner
    TTL = 3
INVARIANTS
    MutualExclusion
    HoldBacked
PROPERTIES
    OnlyOwnerReleases
    LockRecovered
