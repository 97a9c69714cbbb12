SPECIFICATION FairSpec
CONSTANTS
    Folders = {f1, f2, f3}
    Containers = {c1}
    Loads = {l1, l2}
    Callers = {a, b}
    Mode = "lazy"
    Tracking = TRUE
    Edits = {}
    MaxFailures = 1
    NoWrapper = NoWrapper
    NoPromise = NoPromise
    Settled = Settled
PROPERTIES
    EarlyWaiterAnswered
CHECK_DEADLOCK FALSE
