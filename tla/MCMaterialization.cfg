SPECIFICATION Spec
CONSTANTS
    Folders = {f1, f2, f3}
    Containers = {c1}
    Loads = {l1, l2}
    Callers = {a}
    Mode = "lazy"
    Tracking = TRUE
    Edits = {"setImpl", "reload", "invalidate", "delete"}
    MaxFailures = 1
    NoWrapper = NoWrapper
    NoPromise = NoPromise
    Settled = Settled
INVARIANTS
    TypeOK
    NoDeadPromise
    OneLoadAtATime
    CountsUnloaded
PROPERTIES
    NoEarlyAnswer
SYMMETRY Symmetry
CHECK_DEADLOCK FALSE
