SPECIFICATION Spec
CONSTANTS
    auth = auth
    billing = billing
    a1 = a1
    a2 = a2
    b1 = b1
    d1 = d1
    v1 = v1
    v2 = v2
    Modules = {a1, b1}
    Tags = {v1, v2}
    LogicalPaths = {auth, billing}
    TagOf <- MCTagOf
    PathOf <- MCPathOf
    Defaults <- MCDefaults
    Rank <- MCRank
    Leaf = leaf
    None = none
INVARIANT
    RoutesToMounted
CHECK_DEADLOCK FALSE
