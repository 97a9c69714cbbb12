SPECIFICATION Spec
CONSTANTS
    host = host
    staff = staff
    plugin = plugin
    Always = Always
    NoModule = NoModule
    Builtin = Builtin
    Pairs <- MCPairs
    SameFile = {}
    ControlPairs <- MCControl
    Contexts <- MCContexts
    HookTypes = {"before"}
    HostRules <- MCHostRules
    ConfigRules <- MCConfig
    BuiltinRules <- MCBuiltin
    Shorthand <- MCShorthand
    DefaultAllow = TRUE
    EnabledAtLoad = TRUE
    Modules = {}
    MaxId = 8
    MaxHistory = 1
    MaxReloads = 2
INVARIANTS
    RulesOutliveReloads
