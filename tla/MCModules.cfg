SPECIFICATION Spec
CONSTANTS
    k1 = k1
    k2 = k2
    k3 = k3
    first = first
    second = second
    Packages = {k1, k2, k3}
    MountPath <- MCMountPath
    Calls = {first, second}
    Items <- MCItems
    Concurrency <- MCConcurrency
    Strict = {first, second}
    Removable = {k1}
    None = none
    MaxStuck = 1
INVARIANTS
    RollbackLeavesNothing
    CollisionsOverlap
    TrackedIsLive
PROPERTY
    CallsEnd
CHECK_DEADLOCK FALSE
