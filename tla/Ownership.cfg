SPECIFICATION Spec
CONSTANTS
    Modules = {m1, m2, m3}
    Paths = {p1, p2}
INVARIANTS
    TypeOK
    NoDuplicateOwner
    IndexesAgree
    UnregisteredOwnsNothing
PROPERTIES
    FallbackOrderKept
    RegistrySpec
