SPECIFICATION Spec
CONSTANTS
    base = base
    auth = auth
    oauth = oauth
    billing = billing
    Modules = {base, auth, oauth}
    Base = base
    Nobody = Nobody
    Names <- MCNames
    At <- MCAt
    Exports <- MCExports
INVARIANTS
    TypeOK
    ServedIsOwned
    OwnedAsAWhole
    NoOrphanCache
PROPERTIES
    RemovedIsGone
    RootRemovalSpares
