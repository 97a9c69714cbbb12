---------------------------- MODULE Permissions ----------------------------
(***************************************************************************)
(* The PermissionManager of slothlet                                       *)
(* (src/src/lib/handlers/permission-manager.mjs) and what a full reload    *)
(* (src/src/slothlet.mjs) makes of it: rules are registered by the         *)
(* configuration, by api.add({permissions}) and by                         *)
(* slothlet.permissions.addRule(), decisions are cached, the policy can be *)
(* sealed, and a reload builds a new manager and replays the operation     *)
(* history on it, while the host goes on calling.                          *)
(*                                                                         *)
(* A pattern is the set of caller/target pairs that it matches and its     *)
(* specificity.  Rules are kept by id; `at` stands for registeredAt with   *)
(* the insertion order of the Map, which decides between rules registered  *)
(* in the same millisecond (the clock does not go back).  One full reload  *)
(* runs at a time.  Only the last synchronous part of api.add() matters    *)
(* here: it records the operation and registers the shorthand rules.       *)
(***************************************************************************)
EXTENDS Naturals, Sequences

CONSTANTS
    Pairs,          \* callerPath::targetPath
    SameFile,       \* pairs whose caller and target share a source file
    ControlPairs,   \* pairs with a target slothlet.permissions.control.**
    Contexts,       \* contexts a call runs in
    Always,         \* the condition of a rule without one
    HookTypes,      \* "before", "after", ...
    HostRules,      \* what the host may pass to addRule()
    ConfigRules,    \* sequence: config.permissions.rules
    BuiltinRules,   \* sequence: what the constructor adds after them
    Modules,        \* components the host may add
    Shorthand,      \* Shorthand[m]: rules of the `permissions` option, in order
    NoModule, Builtin,  \* owners of a rule that no module owns
    DefaultAllow,   \* defaultPolicy = "allow"
    EnabledAtLoad,  \* config.permissions.enabled
    MaxId,          \* bound: rules registered with a fresh id
    MaxHistory,     \* bound: operations recorded and not yet replayed
    MaxReloads      \* bound: full reloads

Rules ==
    [match : SUBSET Pairs, weight : 2..6, effect : {"allow", "deny"},
     cond : Contexts \cup {Always},
     gates : HookTypes \cup {"call", "hook"}]

Owners == Modules \cup {NoModule, Builtin}

ASSUME RulesAssumption ==
    /\ HostRules \subseteq Rules
    /\ ConfigRules \in Seq(Rules) /\ BuiltinRules \in Seq(Rules)
    /\ Shorthand \in [Modules -> Seq(Rules)]

\* "__builtin__" is the ID of no component, and not the null of no owner.
ASSUME OwnersAssumption == Builtin \notin Modules /\ Builtin # NoModule

ASSUME ContextsAssumption == Contexts # {} /\ Always \notin Contexts

ASSUME PolicyAssumption ==
    DefaultAllow \in BOOLEAN /\ EnabledAtLoad \in BOOLEAN

ASSUME BoundsAssumption ==
    MaxId \in Nat /\ MaxHistory \in Nat /\ MaxReloads \in Nat

VARIABLES
    rules,      \* rules[id], with `at` its place in the order of registration
    enabled, sealed,
    cache,      \* cache[pair]: the decision remembered
    nextId,     \* ruleIdCounter, of the JavaScript module: no reload resets it
    clock,      \* registrations so far
    history,    \* operationHistory of the ApiManager, as far as rules go
    reload      \* the full reload that runs

\* What the host may expect, kept for the properties only.
VARIABLES
    registered, \* rules it added by addRule() and has not removed
    gone,       \* rules it removed
    sealedOnce,
    clean,      \* no reload failed to load, and the host changed nothing during one
    reloads

policy == <<rules, enabled, sealed, cache, nextId, clock>>
expected == <<registered, gone, sealedOnce>>
vars == <<policy, history, reload, expected, clean, reloads>>

-----------------------------------------------------------------------------
(* Decisions.                                                              *)

Empty == [x \in {} |-> x]
Put(f, x, y) == [z \in DOMAIN f \cup {x} |-> IF z = x THEN y ELSE f[z]]
Without(f, x) == [z \in DOMAIN f \ {x} |-> f[z]]

Holds(cond, c) == cond = Always \/ cond = c

\* A rule for one type of hook is more specific than one for every type.
Weight(r) == IF r.gates \in {"call", "hook"} THEN r.weight ELSE r.weight + 1

\* The winner: most specific first, then registered last.
Beats(e, f) ==
    \/ Weight(e.rule) > Weight(f.rule)
    \/ Weight(e.rule) = Weight(f.rule) /\ e.at >= f.at
Winner(ids) == rules[CHOOSE i \in ids : \A j \in ids : Beats(rules[i], rules[j])]

\* Rules for the interception of a path never gate a call to it.
CallMatches(p) == {i \in DOMAIN rules : rules[i].rule.gates = "call" /\ p \in rules[i].rule.match}
HookMatches(p, t) == {i \in DOMAIN rules : rules[i].rule.gates \in {"hook", t} /\ p \in rules[i].rule.match}
Conditioned(ids, c) == {i \in ids : Holds(rules[i].rule.cond, c)}
\* Wrong on purpose: every decision is remembered.
NeverConditional(p) == FALSE

HasConditional(p) == \E i \in CallMatches(p) : rules[i].rule.cond # Always

Evaluate(p, c) ==
    LET ids == Conditioned(CallMatches(p), c)
    IN  IF ids = {} THEN DefaultAllow
        ELSE Winner(ids).rule.effect = "allow"

\* The rules are consulted: not while disabled, unless the target is the
\* control surface itself, and never for a call within one file.
Consulted(p) == (enabled \/ p \in ControlPairs) /\ p \notin SameFile

ResolveAccess(p, c, useCache) ==
    IF ~Consulted(p) THEN TRUE
    ELSE IF useCache /\ p \in DOMAIN cache THEN cache[p]
    ELSE Evaluate(p, c)

\* A rule for the hook decides; without one the decision for a call does.
ResolveHookAccess(p, t, c, useCache) ==
    LET ids == Conditioned(HookMatches(p, t), c)
    IN  IF ids = {} THEN ResolveAccess(p, c, useCache)
        ELSE Winner(ids).rule.effect = "allow"

-----------------------------------------------------------------------------
(* Registration.                                                           *)

Owned(rs, o) == [i \in DOMAIN rs |-> [rule |-> rs[i], owner |-> o]]

\* Wrong on purpose: the counter is not moved on.
RegisterUncounted(kept, entries) ==
    /\ rules' = [i \in DOMAIN kept \cup (nextId + 1 .. nextId + Len(entries)) |->
                    IF i > nextId
                    THEN [rule |-> entries[i - nextId].rule,
                          owner |-> entries[i - nextId].owner,
                          at |-> clock + (i - nextId)]
                    ELSE kept[i]]
    /\ nextId' = nextId
    /\ clock' = clock + Len(entries)

\* addRule() of each entry, in order, with ids of its own.
Register(kept, entries) ==
    /\ rules' = [i \in DOMAIN kept \cup (nextId + 1 .. nextId + Len(entries)) |->
                    IF i > nextId
                    THEN [rule |-> entries[i - nextId].rule,
                          owner |-> entries[i - nextId].owner,
                          at |-> clock + (i - nextId)]
                    ELSE kept[i]]
    /\ nextId' = nextId + Len(entries)
    /\ clock' = clock + Len(entries)

Added(id, r) == [op |-> "addRule", id |-> id, rule |-> r]
Removed(id) == [op |-> "removeRule", id |-> id]
Mounted(m) == [op |-> "add", component |-> m]

Idle == [phase |-> "idle", todo |-> <<>>, wasSealed |-> FALSE, gap |-> TRUE]

Init ==
    /\ rules = [i \in 1 .. Len(ConfigRules) + Len(BuiltinRules) |->
                  [rule |-> (ConfigRules \o BuiltinRules)[i],
                   owner |-> IF i <= Len(ConfigRules) THEN NoModule ELSE Builtin,
                   at |-> i]]
    /\ enabled = EnabledAtLoad /\ sealed = FALSE /\ cache = Empty
    /\ nextId = Len(ConfigRules) + Len(BuiltinRules)
    /\ clock = Len(ConfigRules) + Len(BuiltinRules)
    /\ history = <<>> /\ reload = Idle
    /\ registered = {} /\ gone = {} /\ sealedOnce = FALSE
    /\ clean = TRUE /\ reloads = 0

-----------------------------------------------------------------------------
(* The host.                                                               *)

\* The replay gives way to other code only while it awaits an api.add().
HostRuns ==
    \/ reload.phase # "replaying"
    \/ reload.gap
    \/ reload.todo # <<>> /\ Head(reload.todo).op = "add"

\* A host that changes the policy or the history during a reload.
Mark == clean' = (clean /\ reload.phase = "idle")

Record(op) == Len(history) < MaxHistory /\ history' = Append(history, op)

AddRule(r) ==
    /\ HostRuns /\ ~sealed /\ nextId < MaxId
    /\ Register(rules, Owned(<<r>>, NoModule))
    /\ cache' = Empty
    /\ Record(Added(nextId + 1, r))
    /\ registered' = registered \cup {[id |-> nextId + 1, rule |-> r]}
    /\ Mark
    /\ UNCHANGED <<enabled, sealed, reload, gone, sealedOnce, reloads>>

\* Wrong on purpose: the removal is not recorded.
RemoveRuleUnrecorded(id, caller) ==
    /\ HostRuns /\ ~sealed /\ id \in DOMAIN rules
    /\ ~(caller # NoModule /\ caller = rules[id].owner)
    /\ rules' = Without(rules, id)
    /\ cache' = Empty
    /\ registered' = {e \in registered : e.id # id}
    /\ gone' = gone \cup {[id |-> id, rule |-> rules[id].rule]}
    /\ Mark
    /\ UNCHANGED <<enabled, sealed, nextId, clock, history, reload, sealedOnce, reloads>>

\* A module cannot remove a rule it owns.
RemoveRule(id, caller) ==
    /\ HostRuns /\ ~sealed /\ id \in DOMAIN rules
    /\ ~(caller # NoModule /\ caller = rules[id].owner)
    /\ rules' = Without(rules, id)
    /\ cache' = Empty
    /\ Record(Removed(id))
    /\ registered' = {e \in registered : e.id # id}
    /\ gone' = gone \cup {[id |-> id, rule |-> rules[id].rule]}
    /\ Mark
    /\ UNCHANGED <<enabled, sealed, nextId, clock, reload, sealedOnce, reloads>>

\* Wrong on purpose: the shorthand rules get past the seal.
AddComponentPastSeal(m) ==
    /\ HostRuns /\ nextId + Len(Shorthand[m]) <= MaxId
    /\ Record(Mounted(m))
    /\ Register(rules, Owned(Shorthand[m], m))
    /\ cache' = Empty
    /\ Mark
    /\ UNCHANGED <<enabled, sealed, reload, expected, reloads>>

\* api.add() records the operation before it registers the shorthand rules;
\* a sealed manager refuses the first of them, and the call fails there.
AddComponent(m) ==
    /\ HostRuns /\ nextId + Len(Shorthand[m]) <= MaxId
    /\ Record(Mounted(m))
    /\ \/ /\ ~sealed
          /\ Register(rules, Owned(Shorthand[m], m))
          /\ cache' = IF Shorthand[m] = <<>> THEN cache ELSE Empty
       \/ sealed /\ UNCHANGED <<rules, nextId, clock, cache>>
    /\ Mark
    /\ UNCHANGED <<enabled, sealed, reload, expected, reloads>>

SetEnabled(value) ==
    /\ HostRuns /\ ~sealed
    /\ enabled' = value
    /\ cache' = Empty
    /\ Mark
    /\ UNCHANGED <<rules, sealed, nextId, clock, history, reload, expected, reloads>>

Seal ==
    /\ HostRuns
    /\ sealed' = TRUE /\ sealedOnce' = TRUE
    /\ Mark
    /\ UNCHANGED <<rules, enabled, cache, nextId, clock, history, reload, registered, gone, reloads>>

\* A decision for a call, or for a hook that no rule for hooks decides, is
\* remembered unless a rule that matches the pair has a condition.
Ask(p, c) ==
    /\ HostRuns /\ Consulted(p)
    /\ p \notin DOMAIN cache /\ ~HasConditional(p)
    /\ cache' = Put(cache, p, Evaluate(p, c))
    /\ UNCHANGED <<rules, enabled, sealed, nextId, clock, history, reload, expected, clean, reloads>>

-----------------------------------------------------------------------------
(* A full reload.                                                          *)

\* reload() copies the history, then awaits the clearing of module caches.
ReloadStart ==
    /\ reload.phase = "idle" /\ reloads < MaxReloads
    /\ reload' = [Idle EXCEPT !.phase = "clearing", !.todo = history]
    /\ reloads' = reloads + 1
    /\ UNCHANGED <<policy, history, expected, clean>>

\* It notes the seal and calls load(), which replaces the handlers one after
\* the other and awaits the import of each: the ApiManager first.
ReloadLoad ==
    /\ reload.phase = "clearing"
    /\ reload' = [reload EXCEPT !.phase = "loading", !.wasSealed = sealed]
    /\ UNCHANGED <<policy, history, expected, clean, reloads>>

ReplaceApiManager ==
    /\ reload.phase = "loading"
    /\ reload' = [reload EXCEPT !.phase = "replacing"]
    /\ history' = <<>>
    /\ UNCHANGED <<policy, expected, clean, reloads>>

\* The constructor: rules of the configuration, then the built-in ones.
ReplacePermissionManager ==
    /\ reload.phase = "replacing"
    /\ reload' = [reload EXCEPT !.phase = "building"]
    /\ Register(Empty, Owned(ConfigRules, NoModule) \o Owned(BuiltinRules, Builtin))
    /\ enabled' = EnabledAtLoad /\ sealed' = FALSE /\ cache' = Empty
    /\ UNCHANGED <<history, expected, clean, reloads>>

\* buildAPI() fails: reload() rejects where it stands.
BuildFails ==
    /\ reload.phase = "building"
    /\ reload' = Idle /\ clean' = FALSE
    /\ UNCHANGED <<policy, history, expected, reloads>>

\* Wrong on purpose: the seal is put back before the replay.
BuildDoneSealed ==
    /\ reload.phase = "building"
    /\ sealed' = (sealed \/ reload.wasSealed)
    /\ reload' = [reload EXCEPT !.phase = "replaying"]
    /\ UNCHANGED <<rules, enabled, cache, nextId, clock, history, expected, clean, reloads>>

BuildDone ==
    /\ reload.phase = "building"
    /\ reload' = [reload EXCEPT !.phase = "replaying"]
    /\ UNCHANGED <<policy, history, expected, clean, reloads>>

Replaying(op) ==
    reload.phase = "replaying" /\ reload.todo # <<>> /\ Head(reload.todo).op = op

Advance(gap) == reload' = [reload EXCEPT !.todo = Tail(reload.todo), !.gap = gap]

\* addApiComponent({recordHistory: false}), with rules under fresh ids.
ReplayAdd ==
    /\ Replaying("add")
    /\ LET m == Head(reload.todo).component
       IN  /\ ~sealed \/ Shorthand[m] = <<>>
           /\ Register(rules, Owned(Shorthand[m], m))
           /\ cache' = IF Shorthand[m] = <<>> THEN cache ELSE Empty
    /\ Advance(TRUE)
    /\ UNCHANGED <<enabled, sealed, history, expected, clean, reloads>>

\* The rule is put back under the id it had.
ReplayAddRule ==
    /\ Replaying("addRule") /\ ~sealed
    /\ LET op == Head(reload.todo)
       IN  rules' = Put(rules, op.id, [rule |-> op.rule, owner |-> NoModule, at |-> clock + 1])
    /\ clock' = clock + 1
    /\ cache' = Empty
    /\ Advance(FALSE)
    /\ UNCHANGED <<enabled, sealed, nextId, history, expected, clean, reloads>>

ReplayRemoveRule ==
    /\ Replaying("removeRule") /\ ~sealed
    /\ LET id == Head(reload.todo).id
       IN  /\ rules' = Without(rules, id)
           /\ cache' = IF id \in DOMAIN rules THEN Empty ELSE cache
    /\ Advance(FALSE)
    /\ UNCHANGED <<enabled, sealed, nextId, clock, history, expected, clean, reloads>>

\* The new manager is sealed: the replay of a rule throws.  Only the host can
\* have sealed it, since ReloadEnd puts the seal back after the replay.
ReplayRefused ==
    /\ reload.phase = "replaying" /\ reload.todo # <<>> /\ sealed
    /\ \/ Head(reload.todo).op # "add"
       \/ Head(reload.todo).op = "add" /\ Shorthand[Head(reload.todo).component] # <<>>
    /\ reload' = Idle
    /\ UNCHANGED <<policy, history, expected, clean, reloads>>

\* Wrong on purpose: the new manager stays unsealed.
ReloadEndUnsealed ==
    /\ reload.phase = "replaying" /\ reload.todo = <<>>
    /\ reload' = Idle
    /\ UNCHANGED <<rules, enabled, sealed, cache, nextId, clock, history, expected, clean, reloads>>

ReloadEnd ==
    /\ reload.phase = "replaying" /\ reload.todo = <<>>
    /\ sealed' = (sealed \/ reload.wasSealed)
    /\ reload' = Idle
    /\ UNCHANGED <<rules, enabled, cache, nextId, clock, history, expected, clean, reloads>>

Reload ==
    \/ ReloadStart \/ ReloadLoad \/ ReplaceApiManager \/ ReplacePermissionManager
    \/ BuildFails \/ BuildDone
    \/ ReplayAdd \/ ReplayAddRule \/ ReplayRemoveRule \/ ReplayRefused \/ ReloadEnd

Host ==
    \/ \E r \in HostRules : AddRule(r)
    \/ \E id \in DOMAIN rules, caller \in Modules \cup {NoModule} : RemoveRule(id, caller)
    \/ \E m \in Modules : AddComponent(m)
    \/ \E value \in BOOLEAN : SetEnabled(value)
    \/ Seal
    \/ \E p \in Pairs, c \in Contexts : Ask(p, c)

Next == Host \/ Reload

Spec == Init /\ [][Next]_vars

-----------------------------------------------------------------------------
Entries == [rule : Rules, owner : Owners, at : Nat]

Operations ==
    [op : {"addRule"}, id : Nat, rule : HostRules]
        \cup [op : {"removeRule"}, id : Nat]
        \cup [op : {"add"}, component : Modules]

Phases == {"idle", "clearing", "loading", "replacing", "building", "replaying"}

\* What each variable holds.
TypeOK ==
    /\ rules \in [DOMAIN rules -> Entries] /\ DOMAIN rules \subseteq 1 .. nextId
    /\ enabled \in BOOLEAN /\ sealed \in BOOLEAN
    /\ cache \in [DOMAIN cache -> BOOLEAN] /\ DOMAIN cache \subseteq Pairs
    /\ nextId \in Nat /\ clock \in Nat
    /\ history \in Seq(Operations)
    /\ reload \in [phase : Phases, todo : Seq(Operations), wasSealed : BOOLEAN, gap : BOOLEAN]
    /\ registered \subseteq [id : Nat, rule : HostRules]
    /\ gone \subseteq [id : Nat, rule : Rules]
    /\ sealedOnce \in BOOLEAN /\ clean \in BOOLEAN /\ reloads \in Nat

\* A check of a call or of a hook gives, in every context, the same answer
\* with the cache of decisions as without: clearCache() is called wherever
\* the rules change, and no decision that depends on the context is kept.
AnswersCurrent ==
    \A p \in Pairs, c \in Contexts :
        /\ ResolveAccess(p, c, TRUE) = ResolveAccess(p, c, FALSE)
        /\ \A t \in HookTypes : ResolveHookAccess(p, t, c, TRUE) = ResolveHookAccess(p, t, c, FALSE)

\* A rule that a reload has still to put back under its old id does not
\* overwrite another in the Map: no rule of the new manager has that id,
\* whatever the host registers in the meantime.
PendingIdsFree ==
    reload.phase \in {"building", "replaying"} =>
        \A k \in DOMAIN reload.todo :
            reload.todo[k].op = "addRule" => reload.todo[k].id \notin DOMAIN rules

\* seal() outlives full reloads: the new manager is sealed again after the
\* replay, unless the reload failed or the host interfered with it.
SealOutlivesReload ==
    clean /\ reload.phase = "idle" /\ sealedOnce => sealed

\* The first full reload puts back every rule that addRule() registered,
\* under its id, after those of the constructor and in the old order: also
\* when the old manager was sealed, since the seal comes after the replay.
ReloadRestoresRules ==
    clean /\ reload.phase = "idle" /\ reloads <= 1 =>
        \A e \in registered :
            /\ e.id \in DOMAIN rules /\ rules[e.id].rule = e.rule
            /\ \A i \in DOMAIN rules : rules[i].owner = Builtin => rules[i].at < rules[e.id].at
            /\ \A f \in registered : f.id < e.id => rules[f.id].at < rules[e.id].at

\* No rule comes back under an id that removeRule() has removed, after any
\* number of full reloads.
RemovedIdsStayGone ==
    clean /\ reload.phase = "idle" => \A e \in gone : e.id \notin DOMAIN rules

\* The policy does not change while it is sealed: not by an api.add() that
\* the manager refuses half way, nor by a replay.
SealedPolicyFrozen ==
    [][sealed /\ sealed' => rules' = rules /\ enabled' = enabled]_vars

\* What docs/RELOAD.md says of runtime operations, without a limit on the
\* number of reloads.
RulesOutliveReloads ==
    clean /\ reload.phase = "idle" =>
        \A e \in registered : e.id \in DOMAIN rules /\ rules[e.id].rule = e.rule

\* What docs/PERMISSIONS.md says of the replay of removeRule(): a rule that
\* the host removed, and registered no equal of, is not in force.
RemovedRulesStayGone ==
    clean /\ reload.phase = "idle" =>
        \A e \in gone, i \in DOMAIN rules :
            rules[i].rule = e.rule => [id |-> i, rule |-> e.rule] \in registered
=============================================================================
