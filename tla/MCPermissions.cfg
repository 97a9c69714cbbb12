SPECIFICATION Spec
CONSTANTS
    host = host
    staff = staff
    plugin = plugin
    Always = Always
    NoModule = NoModule
    Builtin = Builtin
    Pairs <- MCPairs
    SameFile = {}
    ControlPairs <- MCControl
    Contexts <- MCContexts
    HookTypes = {"before"}
    HostRules <- MCHostRules
    ConfigRules <- MCConfig
    BuiltinRules <- MCBuiltin
    Shorthand <- MCShorthand
    DefaultAllow = TRUE
    EnabledAtLoad = TRUE
    Modules = {plugin}
    MaxId = 6
    MaxHistory = 2
    MaxReloads = 1
INVARIANTS
    TypeOK
    AnswersCurrent
    SealOutlivesReload
    ReloadRestoresRules
    RemovedIdsStayGone
PROPERTIES
    SealedPolicyFrozen
