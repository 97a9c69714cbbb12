--------------------------- MODULE MCPermissions ---------------------------
(* Two callers of one target, and a call of the control surface.  The host *)
(* may allow what the configuration denies, on a condition or without one; *)
(* a component brings a rule of its own along.                             *)
EXTENDS Permissions

CONSTANTS host, staff, plugin

MCPairs == {"web::db", "web::control"}
MCControl == {"web::control"}
MCContexts == {host, staff}

Rule(match, weight, effect, cond, gates) ==
    [match |-> match, weight |-> weight, effect |-> effect, cond |-> cond, gates |-> gates]

DenyDb == Rule({"web::db"}, 2, "deny", Always, "call")
DenyControl == Rule({"web::control"}, 2, "deny", Always, "call")
AllowAll == Rule({"web::db", "web::control"}, 2, "allow", Always, "call")
AllowStaff == Rule({"web::db"}, 4, "allow", staff, "call")
DenyHook == Rule({"web::db"}, 2, "deny", Always, "before")

MCHostRules == {AllowAll, AllowStaff, DenyHook}
MCConfig == <<DenyDb>>
MCBuiltin == <<DenyControl>>
MCShorthand == [m \in Modules |-> <<Rule({"web::db"}, 3, "deny", Always, "call")>>]
=============================================================================
