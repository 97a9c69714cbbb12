SPECIFICATION CallsSpec
CONSTANTS
    here = here
    all = all
    Defs <- MCDefs
    Paths = {here}
    Patterns = {all}
    Covers <- MCCovers
    Names = {}
    NoName = noname
    Every = every
    Calls = {c1, c2}
    PathOf <- MCPathOf
    SuppressErrors = FALSE
    MaxChanges = 2
    MaxReloads = 1
INVARIANTS
    AlwaysOnceAndLast
    FailureReported
CHECK_DEADLOCK FALSE
