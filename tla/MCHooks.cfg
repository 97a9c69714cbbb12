SPECIFICATION Spec
CONSTANTS
    here = here
    there = there
    wide = wide
    exact = exact
    Defs <- MCDefs
    Paths = {here, there}
    Patterns = {wide, exact}
    Covers <- MCCovers
    Names = {mine}
    NoName = noname
    Every = every
    MaxChanges = 4
    MaxReloads = 1
INVARIANTS
    IndexesAgree
    ReloadKeepsHooks
    FiringOrder
CHECK_DEADLOCK FALSE
