# slothlet: TLA+ verification project

slothlet turns a directory of modules into one live API object: folders become
namespaces, exports become functions, and at run time components are added to the
tree, removed from it, reloaded, and loaded lazily when somebody first touches them.
Several records of the same tree are kept side by side (the tree itself, the ownership
registry, the caches for reload, a counter of what is not loaded yet), almost every
operation awaits something in the middle, and the hard question is always the same:
*do the records still agree when operations interleave, fail half-way, or come back in
an order nobody expected?* That is what these specifications are about.

Paths below are relative to the repository; the library is `src/src/`.

## 1. Inventory

Each component with its state, its operations, its partners, what is hard about it and
what makes it correct. "Partly" and "modelled" name the modules.

**Ownership registry** (`lib/handlers/ownership.mjs`), *modelled: `Ownership`,
`OwnershipRegistry`*. State: `moduleToPath`, `pathToModule` (a stack of owners per path),
`_unregisteredModules`, `_moduleEndpoints`. Operations: `register`, `registerSubtree`,
`removePath`, `unregister`, `setModuleEndpoint`, `clear`, `exportState`/`importState`.
Called from the event handlers of the facade on every `impl:created`/`impl:changed`, and
from the API manager. Hard: the relation is kept twice; registrations of lazily loaded
wrappers arrive after the module was removed. Correct when the two indexes agree, stacks
have no duplicates and keep their order, and a removed module stays out.

**API manager** (`lib/handlers/api-manager.mjs`, `api-cache-manager.mjs`), *partly:
`ApiManager`, and under versions `Versions`*. State: the trees `api` and `boundApi` (the
second passes through to the first), the cache entries, the recorded endpoints,
`addHistory`/`operationHistory`. Operations: `addApiComponent` in six collision modes,
`removeApiComponent` by moduleID or path, `reloadApiComponent`, `setOwnedProperty`. Hard:
`add()` awaits the build, and other adds and removals run meanwhile; a component is mounted
over another, or fails between the first and the second of two assignments; removals delete
subtrees that several components share. Correct when what is served is owned, removals take
what they should and no more, and no cache entry survives its component.

**Reload of a component** (`api-manager.mjs:2728-3477`), *partly: its effect on one lazy
folder is in `Materialization`*. A fresh tree is built and merged into
the live one; cached entries are chosen by path overlap. Hard: which entries, in which
order, and what a caller holding a reference sees.

**Lazy materialization** (`lib/handlers/unified-wrapper.mjs`, `materialize-manager.mjs`,
`slothlet.mjs:430-500`), *partly: `Materialization`*. State per wrapper: `impl`,
`materializeFunc`, `materialized`, `invalid`, `inFlight`, `materializationPromise`, its
children; globally the counter of unloaded wrappers, the completion flag, the queue of
`wait()` callers, the scheduled background loads. Operations: construction,
`___materialize`, `___setImpl`, `___resetLazy`, `___invalidate`, `deletePath`, reload,
`wait()`. Hard: every load awaits I/O, and everything else may write the wrapper
meanwhile; loads nest, fail and are retried. Correct when nobody joins a dead load, a
folder is loaded once at a time, and the counter and `wait()` tell the truth.

**Wrapper proxies** (`unified-wrapper.mjs`), *partly: `Materialization` for the state behind
them, `HookedCalls` for the trap that calls a function*. A call runs before hooks, the
function, after hooks, error hooks and always hooks, some of them when a promise settles.
Hard: an error passes through several calls, hooks are switched off or replaced meanwhile,
the function may not be loaded yet. Correct when the always hooks run once and each error
is reported. The other traps (waiting proxies, class instances, inspection) carry no state
of their own.

**Slothlet facade** (`slothlet.mjs`), *partly, through `Materialization`, `ApiManager`,
`Permissions` and `Hooks`* (the last two have the steps of a full reload). `load`, `reload`
with the replay of the operation history, `shutdown` with a drain of loads in flight. Hard:
handlers are replaced while calls run, replayed operations are resolved against a rebuilt
registry.

**Call context** (`lib/handlers/context-async.mjs`, `context-live.mjs`, `lib/runtime/*`,
the context helpers), *partly: `LiveContext`*. The AsyncLocalStorage manager gives each
flow a store of its own. The live manager has one current instance and one store per
instance; calls that return promises are kept in a set of suspended calls, and the store
is restored when they settle. Hard: calls settle out of order, and each restores what it
found when it began. Correct when a call, resumed after an `await`, finds its own identity
or is told that it cannot be determined.

**Permissions** (`permission-manager.mjs`, `trusted-root.mjs`), *partly: `Permissions`*.
State: rules by id with their owners and `registeredAt`, the switch, the seal, a cache of
decisions per caller and target, a counter of ids that belongs to the JavaScript module and
not to the manager. Operations: `addRule`, `removeRule`, `enable`/`disable`, `seal`,
`checkAccess`, the shorthand rules of `api.add({permissions})`, and a full reload, which
makes a new manager and replays the history on it. Hard: four sources of rules, decisions
that must be forgotten in time, ids that must survive a reload. Correct when a cached
decision is the one the rules of now would give, the replay puts back what was there and
overwrites nothing, and a seal outlives a reload.

**Hooks** (`hook-manager.mjs`), *partly: `Hooks`, `HookedCalls`*. State: hooks by id, and
in groups by type, subset and pattern; switches, a path filter, a counter of ids.
Operations: `on`, `remove` by id or filter, `enable`/`disable`, the pattern filters,
`exportHooks`/`importHooks` around a full reload. Hard: every operation writes two indexes,
and a reload builds a new manager while the host goes on using the old one. Correct when
the indexes agree, a reload loses no hook, and hooks fire in their order.

**Versions** (`version-manager.mjs`), *partly: `Versions`*. State: versions per logical path
in order of registration, one reverse entry per module, one dispatcher per logical path.
Called by `add()` and `remove()` of the API manager. Hard: a version is mounted, owned,
registered and routed to by four records, and removals delete from the tree long after they
have left the registries. Correct when the dispatcher is mounted exactly while some version
is, routes to a version that is mounted, and a removal unregisters what it removed.

**Module manager** (`module-manager.mjs` and the discovery helpers), *partly: `Modules`*.
State: the map of mounted packages, and the pool of a call. `addModules()` mounts with a
bounded number of workers and three failure policies, `removeModule()` removes by name.
Hard: the check for a collision precedes an await, workers go on after the first failure,
removals fail. Correct when a rollback is complete, collisions come of overlaps only, and
what is mounted can be removed by name.

**Lifecycle events** (`lifecycle.mjs`), *not modelled as a component*: a set of
subscribers; the handlers that matter are folded into the actions that emit.

**Metadata** (`metadata.mjs`), *not modelled*: last-writer-wins maps that decide nothing.

**API builder, loader, TypeScript** (`lib/builders/*`, `lib/processors/*`), *not modelled*:
functions from a directory to a tree, tested rule by rule, and file I/O. What they announce
(a folder met, a wrapper made) is an input of the models.

**Configuration, names, errors, translations**, *not modelled*: pure functions.

## 2. The modules

    OwnershipRegistry   one history of owners per path: what the API manager relies on
      ^ implemented by Ownership (two indexes)         - OwnershipProofs
      ^ used by        ApiManager (tree + registry)    - ApiManagerProofs, MCApiManager
    Materialization     wrappers, loads, counter       - MaterializationProofs, MCMaterialization
    Permissions         rules, cache, seal, reload     - PermissionsProofs, MCPermissions
    LiveContext         stores, suspended calls, stack - LiveContextProofs, MCLiveContext
    Hooks               two indexes, reload            - HooksProofs, MCHooks
      ^ extended by    HookedCalls (calls in flight)   - HooksProofs, MCHookedCalls
    Versions            registry of versions, over OwnershipRegistry - VersionsProofs, MCVersions
    Modules             pool of workers, removals      - ModulesProofs, MCModules

The two halves meet in OwnershipRegistry: `Ownership` shows, by model checking and by
proof, that the code's two indexes implement it, and `ApiManager` is written on top of
it. A property of `ApiManager` therefore holds of the API manager over the real registry;
the same goes for `Versions`. `HookedCalls` composes the calls of the wrapper proxies with
the hook manager and its reload.

### Ownership

A `Map` is a function whose domain is the keys present (`Put`, `Delete`); a stack keeps
the moduleIDs, not values, files and timestamps. Every method that writes is an action.
The part of `register()` that refuses (an unregistered module, `skip`/`warn`/`error`)
changes nothing and is a disabled step. `RegisterSubtree` takes the whole set of paths
that are found below a value in one step, because the recursion never awaits.
`ImportState` puts back a state that was exported just before: `exportState()` returns the
live stack arrays, so a state kept across other operations would change with them.

### Materialization

An action is what runs between two turns of the event loop. `___materialize()` is cut at
its one await, of the `materializeFunc`: `Access` and `Background` run the part before
(`Start`), `LoadReturns`/`LoadFails` the part after, `Discover` makes the wrapper of a
nested folder in between. A reload is cut where it awaits `buildAPI()`: `BuildFresh`, then
`Restore`. The contents of a file are a version number, 1 at first and 2 for whatever a
reload reads; 0 stands for null, or for no `materializeFunc`.

| in the code | in the model |
| --- | --- |
| `____slothletInternal.impl`, `.materializeFunc` | `wrapper[w].impl`, `.version` |
| `.state.materialized/.inFlight`, `.invalid`, `.materializationPromise` | same names; a load, `NoPromise`, or `Settled` for a promise that was stored after its body had ended |
| child wrappers as own properties | `wrapper[w].children` |
| `_unmaterializedLazyCount`, `_materializationComplete`, `_materializationWaiters` | `unmaterialized`, `complete`, `waiting` |
| the `setImmediate` of the constructor | `queued` |

Left out: members that are not folders (a load that returns has them all), proxies,
collision merges of lazy wrappers, a collision slot that is completed during its build,
folders found by a load that fails (they stay counted, and unreachable, as in the code).
Bounds: `Folders`, `Containers`, `Loads`, `Callers` (sizes), `MaxFailures`, `Edits` (which
edits are tried), and each wrapper is edited at most once (`edited`).

### ApiManager

A path is a sequence of names. A container is in the tree exactly while a function below
it is, because `deletePath()` prunes what it empties; so the tree is one function,
`serves`, from the path of a function to the component whose function is there. `api` and
`boundApi` are one tree, but `add()` assigns twice, and `Throws` looks at the tree after
the first assignment.

`add()` is cut at its awaits. `Build` begins `await buildAPI()`, which scans the folder and
imports all its files; until that is over the registry has not heard of the component, a
removal by moduleID finds nothing and returns false, and the `add()` goes on unimpaired.
`BuildFails` is an import that fails, which it can only before the first wrapper. Then the
wrappers are made one after the other with an await between them (`BuildWrapper`): each
emits `impl:created`, and the facade's handler registers its path at once. `unbuilt` has the
functions still without a wrapper. `Mount` and `MountThrows` are the part after
`buildAPI()`, to the return and to the throw. `RemoveModule` is
`removeApiComponent(moduleID)` and `RemovePath` the branch of a path with a single owner.

Assumptions, named in the module: `ModulesAssumption` (components are flat folders with
something in them, one function to a file, and only the base module is mounted at the root)
and `ShapeAssumption` (a function is never also a container). Beyond these the model
supposes eager mode, containers that are not callable, `api.collision` at its default, and
moduleIDs that are neither paths nor prefixes of each other. `merge-replace` places what
`merge` does, and `warn` what `skip` does, so four collision modes are enough. Bounds:
`NothingToPutBack` (a removal whose fallback would put a live value back is not taken: that
branch re-enters `___setImpl` with the wrapper itself) and `AddIsOver` (a single path is not
removed while its owner is being built). The awaits inside a removal and inside the second
half of an `add()` are on promises that are already settled; the model takes each half as
one step.

### Permissions

A pattern is what it does: the set of caller/target pairs that it matches, and its
specificity (`weight`). A rule's place in the order of registration, `at`, stands for
`registeredAt` with the insertion order of the `Map`, which decides between rules of the
same millisecond; the clock is taken not to go back. `Evaluate` is the evaluation of a call,
`ResolveHookAccess` that of a hook, in which a rule for one type of hook outweighs one for
all types and, without any, the decision for the call stands. `Ask` is a check that fills
the cache; a check that does not fill it changes nothing.

| in the code | in the model |
| --- | --- |
| `#rules`, `#enabled`, `#sealed`, `#resolvedCache` of the manager | `rules`, `enabled`, `sealed`, `cache` |
| `ruleIdCounter` of the JavaScript module | `nextId` |
| `operationHistory` of the API manager, as far as rules go | `history` |
| the locals of `reload()`: the copied history, `wasSealed` | `reload` |
| what the host may expect, in no code | `registered`, `gone`, `sealedOnce`, `clean`, `reloads` |

A full reload is cut at its awaits: `ReloadStart` copies the history, `ReloadLoad` notes the
seal, `ReplaceApiManager` and `ReplacePermissionManager` are the two constructors (the
loader of the handlers awaits an import before each), `BuildDone`/`BuildFails` end
`buildAPI()`, then comes one step per operation of the history, and `ReloadEnd` puts the seal
back. The replay awaits only at `api.add()`, so the host runs between two operations
exactly when one of them is an add (`HostRuns`); everywhere else in the reload it always
does. `ReplayRefused` is a replayed rule that meets a seal set meanwhile.

Left out: overlapping reloads; the awaits before the end of an `api.add()` (its first parts
touch no rule); removals of components in the history, which remove no rule; the switch
for property reads, audit events, introspection. Bounds: `MaxId`, `MaxHistory`,
`MaxReloads`. `clean` is false once a reload has failed or the host has changed the policy
during one: then some of what a reload promises cannot be expected.

### LiveContext

An activity is a call of a module function or the callback of a `run()`. The model has the
JavaScript stack (`stack`), because the identity that enforcement reads is taken from it:
`Identity` is `getCallerIdentity()`, `FromStack` the walk over the frames, in which a frame
is the function it runs and the file that is in. Between two turns the stack is empty;
`Resume` puts an activity that was parked at an await alone on it. What an activity waits
for is left open, so it may come back at any time, more often than any program would.

| in the code | in the model |
| --- | --- |
| `currentInstanceID`; `currentWrapper`, `callerWrapper` of a store | `current`; `store[s].cur`, `.caller` |
| `instances.has(id)` | `store[s].live`: a deleted store keeps its fields, which closures still write |
| `__suspendedCalls` | `suspended` |
| the closure of `restore()`, the locals of `run()` | `saved` |
| in no code | `owner`, `order`, `nested` |

Left out: the AsyncLocalStorage manager, whose isolation is that of Node.js; a second
instance; waiting proxies with a captured identity; pinned listeners; the data of a context;
the reparenting of scopes by a reload. Bound: `MaxDepth`; each activity begins once.

### Hooks and HookedCalls

A manager is a record with both indexes: `hooks` in the order of the `Map`, and `groups` per
type and subset, in the order in which the keys were made. `mgr` has one manager per load,
because a call that began on an old one keeps it. `Export`, `NewManager` and `Import` are
the parts of `reload()` around `load()`, which suspends, so the host changes the old manager
after the export and the new one before the import; `clean` is false when it did, or when
`load()` failed. Every removal and every choice by a filter is a `Kept`: the entries of a
sequence at some positions, in their order (`Array.filter`, `splice`). Generated ids are
numbers, chosen ones model values; only the order of the priorities matters, so there are
two. Bounds: `MaxChanges`, `MaxReloads`.

`HookedCalls` extends it with calls. A step is what a call does between two turns: up to the
return of a synchronous function, up to the promise of an asynchronous one, and each end of
the promise. `log` has the phases in order; `marked` and `wrapped` are what is known of an
error (`ERROR_HOOK_PROCESSED`, and the `SlothletError` that `runInContext` makes around what
a synchronous function threw). A handler goes on, answers, or throws; which, is open.
A rejection is with an error of its own or with one that another call has failed with.

Left out: permissions of hooks, pinning, what handlers do to arguments and results, always
hooks that throw (the error hooks run after them, `hook-manager.mjs:831-841`), and
`suppressErrors`, which has its branches in the model and is off in the run; the theorems
are for both.

### Versions

`versions` is the registry with its `Map` in order, `versioned` the keys of the reverse
lookup, `dispatchers` those of the dispatchers, `routed` the logical paths that have one in
the tree, `mounted` the versions in the tree; owners are those of `OwnershipRegistry`. An
`add()` is cut at `buildAPI()` (`Build`, then `AddVersion` or, if the tag was taken
meanwhile, `AddDuplicate`, which rolls back). The step `Build` is the moment at which the
one wrapper of the version is made and registers; before it nothing has changed. A removal
leaves the registries at once and deletes from the tree afterwards: `removing` has what it
still has to delete (`Delete`), and a removal by path unregisters the version only then
(`AfterDelete`). `teardownDispatcher()` does not await its deletions: `tearing` counts them.

`late`, `raced` and `byPath` name the cases in which the code makes no promise: a module
mounted although it was removed while it was built, or while an earlier removal at its path
was deleting; a version registered while the dispatcher was being torn down; a path removed
on its own, whose function keeps its owner. Left out: discriminators other than `"version"`,
the traps of the dispatcher, version metadata, reloads, unversioned components at the same
path. Bounds: `Modules`, `Tags`; a path is removed by path only while it has one owner.

### Modules

`worker[c][w]` is the item a worker has and how far it is: `Start` is the check for a
collision, made before `api.add()` is awaited; `Add` the moment at which the component is in
the tree and in `addHistory`; `Record` the entry in `#mounted`; `Mounted` the end. `Fail` is
the collision or a rejected `add()`. `queue` is what `#rollback()` has still to remove; each
removal may fail (`Remains`). One worker in the parallel form behaves as the serial form,
so `#mountSerial` has no actions of its own. Left out: discovery and names that cannot be
resolved (over before anything is mounted), and lists with two versions of one package.
Bounds: `MaxStuck`, `Removable`.

## 3. Runs

| run | instance | distinct states | shows |
| --- | --- | --- | --- |
| `ownership` | 3 modules, 2 paths | 9,288 | indexes agree, order kept, late registrations refused, refinement of `OwnershipRegistry` |
| `materialization` | 3 folders, 1 container, 2 loads, 1 caller, all edits, 1 failure | 773,841, with symmetry | no dead promise, one load at a time, counter, no early answer |
| `materialization_waiters` | as above, 2 callers, no edits, fairness | 143,761 | every early caller of `wait()` is answered |
| `api_manager` | base, auth and oauth at one path | 186,987 | served is owned, as a whole or not at all, removal is complete, root removal spares others, caches |
| `permissions` | 2 pairs, 2 contexts, 3 rules of the host, 1 component, 6 ids, 2 operations, 1 reload | 913,104 | cache transparent, seal and rules through a reload, sealed policy frozen |
| `permissions_reload_twice` | no component, 1 operation, 2 reloads | small | disagreement 1 below |
| `live_context` | 4 calls of 2 files, 1 scope, depth 3 | 1,506,000 | what the shared fields name, and whom a call is taken for |
| `hooks` | 3 hooks, 2 patterns, 2 paths, 1 chosen id, 4 changes, 1 reload | 238,601 | indexes agree, reload keeps hooks, order of firing |
| `hooked_calls` | 2 hooks, 2 calls, 2 changes, 1 reload | 165,336 | always hooks once and last, errors reported once |
| `versions` | 2 tags and 3 modules of one logical path | 381,027 | registry and dispatchers agree, routes to what is mounted, removal is complete, defaults |
| `versions_peers` | 1 tag of 2 logical paths | small | disagreement 2 below |
| `modules` | 2 calls, 3 packages, 2 workers, 3 modes, 1 failed removal, fairness | 245,802 | rollback complete, collisions overlap, what is mounted is listed, calls end |

Why the bounds are enough. *Ownership*: the stack operations distinguish the module, one
above and one below it, hence three; two paths are needed for an index that has lost one
path and kept another. *Materialization*: three folders give a load, a folder it finds,
and a second build of either; two simultaneous loads are what a reset can bring about on
one wrapper, and also two loads of different folders; an edit of each wrapper once already
meets every state a load can be in; one failure is followed by any number of retries.
*ApiManager*: the instance of the run has two components that share a path and one
function; the second has another besides, so that a removal can come between two wrappers
of one `add()`. The base module is in the namespace above and at the root. The peers instance
and one with a component mounted beneath another were also checked by hand for all six
properties; they add no behaviour that the run lacks except the finding.

*Permissions*: a rule with a condition and one without that disagree with the configuration,
a rule for hooks, a component whose rule outweighs the configuration, and the target of the
control surface, which is consulted while the switch is off, reach every branch of the
evaluation; a history of two gives every pair of add, rule and removal, in both orders, of
which the replay depends. A second reload of a replayed history meets an empty one, which
is the finding; the proofs are for any number.

*LiveContext*: three functions of one file and one of another give each outcome of the walk
over the stack (one candidate, several of one file, none); a depth of three has an innermost
call, its caller, and a frame above both; the one scope may be around, between or beneath
them. *Hooks*: two patterns that overlap, two priorities, two subsets; four changes make a
group with two hooks and empty one again. *HookedCalls*: two calls are enough for an error to
pass from one to the other. *Versions*: two tags that differ in rank and default, and a third
module for a tag that is taken; a second logical path is in `versions_peers`. *Modules*: the
two calls share a package, two packages share a path, and the parallel call has an item that
is taken up only after the first two.

`CHECK_DEADLOCK FALSE` stands where the system may stop: when every wrapper is made, loaded
and edited; when every activity, call or list of packages is over; when the host has made
the changes that the bound allows; when every version was added and removed.

**Fairness.** `materialization_waiters`: weak fairness of the end of each load
(`LoadReturns \/ LoadFails`) and of each background load. The first says that an `import()`
of a file settles; the second that Node.js runs a `setImmediate` callback. `modules`: weak
fairness of the steps of each call, that is, `api.add()` and `api.remove()` settle, with
success or without. No fairness is assumed of users: nobody has to add, call, wait or remove.

## 4. Properties

`Ownership`: `NoDuplicateOwner` (a removal splices one entry, so a duplicate would
survive), `IndexesAgree` (`unregister` finds through one index what it deletes in the
other), `UnregisteredOwnsNothing` (the guard against late registrations),
`FallbackOrderKept` (no step swaps two owners), `RegistrySpec` (the refinement).

`Materialization`: `NoDeadPromise` (whoever joins a load joins one that will settle,
although resets, removals and failures write the same fields behind its back),
`OneLoadAtATime`, `CountsUnloaded` and `NoEarlyAnswer` (until the first edit),
`EarlyWaiterAnswered` (liveness). Stated, refuted, and in no run: `NobodyWaitsWhenLoaded` and
`ServesCurrentSource` (section 5).

`ApiManager`: `ServedIsOwned` (a removal finds components by ownership alone, so an unowned
function could never be removed), `OwnedAsAWhole` (nor could a part of a component, where
the removal came between two of its wrappers), `RemovedIsGone`, `RootRemovalSpares` (what
the code means by the search for foreign descendants), `NoOrphanCache` (an entry left behind
is rebuilt by the next reload of that path); refuted, in no run, `RemovalSpares` and
`ErrorMeansCollision`. Two of them name exceptions that the code really has. A component
removed *while its add() is building*, after the first of its wrappers, is mounted
nevertheless, unowned, so `ServedIsOwned` excludes unregistered modules; of these
`OwnedAsAWhole` still says that nothing is owned in part. And a `replace` at a path above an
endpoint removes it without a sweep, so `NoOrphanCache` speaks of components with nothing
mounted above them.

`Permissions`: `AnswersCurrent` (with the cache and without it, every check gives the same
answer in every context), `SealOutlivesReload`, `ReloadRestoresRules` (all of them, behind
those of the constructor and in the old order, which decides between equals; a seal put back
before the replay would refuse them, and violate it), `RemovedIdsStayGone`,
`SealedPolicyFrozen` (an action property: not even an `api.add()` that the manager refuses
half way; it is about single steps between sealed states, and a rule that was refused comes
into force at the next reload, when the history that has it is replayed on a manager not
sealed yet); proved and in no run, `PendingIdsFree` (a rule put back under its old id
overwrites none, whatever the host registers in the gaps of the replay); refuted,
`RulesOutliveReloads` and, in no run, `RemovedRulesStayGone`.

`LiveContext`: `FieldsNameYoungest` (as long as activities settle in the reverse of their
order, the fields name the youngest that has not settled: what the save and restore of each
call amount to), `ResumedIsItself` (a call that comes back while another one is suspended is
taken for itself, in *every* order: the stack is what decides), `YoungestIsNobodyElse` (no
module is taken for another one or for the host). The last one names its exception: the walk
goes on past the frame of the call that executes, so a caller further out whose file-mate is
suspended decides for it.

`Hooks`: `IndexesAgree` (the same hooks, each in the one group of its pattern, in the same
order), `ReloadKeepsHooks` (ids, switches and order of the hooks there are; not that the
next id is free, see 9 in section 5), `FiringOrder` (exactly the hooks that the host may
expect, by subset, priority and registration). `HookedCalls`: `AlwaysOnceAndLast` (the last
phase of the call), `FailureReported` (what a synchronous function throws goes through the
error hooks of every call it passes; any other error through those of one).

`Versions`: `RegistryAgrees`, `RoutesToMounted` (whoever asks, `Resolve` gives a version
that is in the tree, but for what `late` and `raced` name), `RemovedIsUnmounted`,
`DefaultIsKept` (an action property).

`Modules`: `RollbackLeavesNothing` (also of what other workers finish after the failure),
`CollisionsOverlap` (the exact promise of a check before an await), `TrackedIsLive` (what is
mounted can be removed by name, unless the package was asked for again before it was gone),
`CallsEnd` (liveness).

Each property of a passing run has a mutant: a definition named "Wrong on purpose" beside
the one it changes, which makes the run fail.

## 5. What disagrees with the documentation

With a run that shows it:

1. **`permissions_reload_twice`.** `reload()` replays on a new API manager and records
   nothing while it does (`slothlet.mjs:925`, `:938`). The first full reload restores what
   was added at run time; the second finds an empty history and loses it. "Restoring all
   runtime additions" (`docs/RELOAD.md:292`) holds once.
2. **`versions_peers`.** The namespace `v1` belongs to the module that needed it first. When
   that one is unregistered the namespace is deleted (`api-manager.mjs:2469`), and with it v1
   of every other logical path. They stay registered, and their dispatchers go on choosing
   them: "Valid version tag | Route to that version" (`docs/VERSIONING.md:187`).

Seen in the models, each as an invariant or action property that is defined there and that
TLC refutes when a configuration names it; no run is kept for them:

3. `Materialization!NobodyWaitsWhenLoaded`, lazy mode. `_materializationComplete` is never set
   back. A folder added after the first completion and a caller that waits for it: it is
   queued, and `_onWrapperMaterialized` (`slothlet.mjs:466`) does not answer the queue again
   (`materialize-manager.mjs:101`).
4. The same, `Mode = "eager"`. `___setImpl` counts down where nothing was counted up. An
   `api.add()` below a missing path makes the counter -1, and `wait()` never returns, although
   everything is loaded (`materialize-manager.mjs:100`).
5. `Materialization!ServesCurrentSource`. A load under way during a reload returns afterwards,
   finds `impl` null because of the reset, applies the *old* source and marks the wrapper
   materialized (`docs/RELOAD.md:223`).
6. `ApiManager!RemovalSpares`. `add("plugins.auth")`, `add("plugins.billing")`, `remove("auth")`:
   `plugins` belongs to whoever needed it first, so it is deleted, billing with it
   (`docs/RELOAD.md:316`). It is the cause of 2 as well. `MCApart` of `MCApiManager` is the
   instance.
7. `ApiManager!ErrorMeansCollision`. `collisionMode: "error"` at a free path throws, because
   the second of two assignments finds the result of the first (`api-manager.mjs:979`).
8. `Permissions!RemovedRulesStayGone`. A rule of the configuration that was removed comes back
   at a reload under a new id, and the replayed removal names the old one
   (`slothlet.mjs:949`, `docs/PERMISSIONS.md:551`).
9. `Hooks!GeneratedIdsFree`. After a reload the counter is 0 while the imported hooks have the
   old ids, so `on()` without an id fails until the counter has passed them
   (`hook-manager.mjs:1001`, "Generate a unique hook ID").
10. `HookedCalls!ErrorHooksReceiveErrors`. A call that rejects with an error that a call it
    awaited has reported already runs no error hook (`docs/HOOKS.md:76`). An after hook that
    throws at the end of a promise is reported twice, and a call that finds its wrapper
    loading runs its always hooks before its function (`docs/HOOKS.md:225`).
11. `LiveContext!SoleSuspendedHasField`, the comment at `context-live.mjs:88`: a synchronous
    call that starts an asynchronous one and does not await it restores the field when it
    returns, so the one suspended call does not find itself in it.
12. `Versions!LogicalRemovalSpares`. `remove("auth")` takes the newest version rather than the
    dispatcher (`docs/VERSIONING.md:411`).

Of `Modules`: the collision check compares the path with its version prefix to the path
without one that `addHistory` records, so for versioned items it never fires; and two adds
that overlap pass it both, which `docs/MODULE-DISCOVERY.md:167` does not say.

## 6. Proofs

All theorems hold for every value of the constants, finite or not, under the named
assumptions, and are checked to the last leaf.

**OwnershipProofs.** `TypeOK`, `NoDuplicateOwner`, `IndexesAgree` and
`UnregisteredOwnsNothing` are inductive only *together* (`Inv`): unregistering walks
`moduleToPath` and removes the module wherever that says, which empties every stack only
because the indexes agree; and a splice removes the module entirely only because there are
no duplicates. One lemma per operation states its effect on both indexes
(`RecordOwnerEffect`, `RemovePathEffect`, `UnregisterEffect`), and everything else is
derived from these effects: `TypeCorrect`, `NoDuplicateAlways`, `IndexesAlwaysAgree`,
`UnregisteredStaysOut`, `OrderAlwaysKept` (an action property), and `RegistryImplemented`,
in which a registration is a `Claim`, a removal by path a `Release`, an unregistration a
`Retire`, `clear()` a `Reset`, an import a `Pardon`.

**MaterializationProofs.** `NoDeadPromise` is strengthened by `LoadsAreMade` (a load is of
a wrapper that exists) and `LoadsAreKept` (the load of a wrapper nobody edited is the one
its promise names). With both, the cleanup of an old load that overwrites the promise of a
newer one, which the code allows after a reset, is seen to be harmless to `NoDeadPromise`.
`TypeCorrect`, `PromisesLive`, `LoadedOnce`. For the counter, `CountInv` adds that until a
wrapper is edited a load under way is that of a wrapper not loaded yet, so its end takes one
from both sides of `CountsUnloaded`, a cardinality; in eager mode nothing is ever unloaded.
`CounterIsRight`, and from it the action property `NobodyAnsweredEarly`.

**ApiManagerProofs.** `IInv` is `TypeOK`, `ServedIsOwned` and `NoOrphanCache` with
`Stacks` (no duplicates), `OwnsItsOwn` (a module owns only what it exports, containers
included, and the namespaces above its mount point), `BuiltIsOwned` (a component being added
that was not unregistered owns every function whose wrapper is made) and
`RetiredOwnsNothing`. `OwnsItsOwn` keeps a removal inside the subtree it may touch;
`BuiltIsOwned` is why a mounted component was registered before it was mounted, and with
`RetiredOwnsNothing` and `ServedIsOwned` it leaves only the two cases of `OwnedAsAWhole`
(`WholeFromParts`). `TypeCorrect`, `ServedAlwaysOwned`, `NeverOwnedInPart`,
`CachesNeverOrphaned`; from `IInv`, the action properties
`RemovedAlwaysGone` and `RootRemovalAlwaysSpares`. The geometry of paths (prefixes compare,
the common prefix of a set leads to each member, functions are never containers) and the
splicing of stacks are lemmas cited by name.

**PermissionsProofs.** `IInv` is `TypeOK` with five parts. `IdsInv`: an id that the history,
the replay or the host still names was issued by the counter and is put back once at most,
so a fresh id never meets a pending one. `CacheInv`: a remembered decision is that of the
rules of now, in every context, because none of the rules that match has a condition.
`SealInv`: during an undisturbed reload the noted seal, and before the new manager the seal
itself, is what the host set, and the new manager stays unsealed until the replay is over,
so that it refuses a replayed rule only where somebody interfered. `GoneInv`: a removal that
the host has made is still in the history or the replay, behind any operation that would put
its rule back. `RestoreInv`: through the first undisturbed reload a registered rule is in
the manager or still to be put back, rules come back in the order of their ids, and what is
still to come has a higher id than all that is back (`PartlyBack`); the history may be
replayed because no removal in it names a rule that is still registered. `OwnersAssumption`
says that the manager's own rules belong to no component. `Types`, `CacheIsTransparent`,
`ReplayOverwritesNothing`, `SealIsKept`, `RemovedIdsAreNotReused`,
`FirstReloadRestoresRules`, and the action property `SealFreezesPolicy`.

**LiveContextProofs.** `IInv` is `TypeOK` with `ChainInv`: while activities settle in reverse
order, each of those in `order` saved what the one before it had put there (`SavedInv`), a
scope has a store that none of the earlier ones uses (`OwnStores`), and at every place where
a scope began, or at the end, the store is as the one before left it (`FieldsInv`). Restoring
the youngest one then gives back the state of the one beneath, which `FieldsNameYoungest`
alone does not say. `TypeCorrect`, `FieldsAlwaysNameYoungest`, `ResumedAlwaysItself` (from
`TypeOK` and the walk over the stack alone: it needs no order), `YoungestNeverSomebodyElse`.

**VersionsProofs.** `IInv` is `TypeOK`, `Stacks` (no duplicate owners, for the registry) and
`Agrees`, which is `RegistryAgrees` by members of the sequences instead of places; lemmas say
what appending and removing an entry do to each part. `TypeCorrect`, `RegistryAlwaysAgrees`,
`DefaultAlwaysKept` (an action property: an explicit default that is first stays first under
every step, `NextKeepsDefault`). `Held` says who owns what: an owner of anything owns its own
function, and its version is being built, registered, or was removed by path (`OwnersKnown`); a
registered version owns its mount (`VersionedOwn`). So a removal that takes the last owner of a
function deletes its mount, and `RemovedIsAlwaysUnmounted` follows from `Covered`. For
`RoutesAlwaysToMounted`, `Standing` says that nothing on its way takes out a registered
version. That one assumes `OnePath`, that no two logical paths have a version of one tag:
without it the property is false, as `versions_peers` shows.

**ModulesProofs.** `PoolInv` says what a worker that is not away has, `RollbackInv` that every
live mount has a place on its way from a worker through `mounted` and `queue` to its removal,
so none is lost between them; `SharedInv` extends `CollisionsOverlap` to adds under way.
`Tracking` follows a mount from its worker to the list and out of it again: it is live and
listed, or a worker has added it, or a removal or a rollback has taken it away and is about to
forget it. That needs `Sole`: a package never asked for again has one mount at a time.
`TypeCorrect`, `RollbackAlwaysLeavesNothing`, `CollisionsAlwaysOverlap`, `TrackedIsAlwaysLive`.

**HooksProofs**, about `Hooks` and `HookedCalls`. `KeptFacts` says what a filtered sequence is:
all that is kept, nothing else, in the old order. With it `Agree`, the agreement of both
indexes, is preserved by each operation on a manager (`AddAgrees`, `DropAgrees`,
`DropAllAgrees`, `SwitchAgrees`, `ImportedAgrees`). `HooksInv` has it of every manager
(`Registered`), and `Expected`: as long as nothing interferes, the hooks that the host may
expect are those of the manager or, while that one is replaced, those that were exported.
`FiringOrder` is derived along `getHooksForPath()`: a group (`GroupFires`), the groups of a
subset (`SlotFires`), the sort (`SortedFires`), the subsets (`TypeFires`), each with what
`FlattenSeq` does to order (`Flattened`). `HookTypes`, `IndexesAlwaysAgree`,
`ReloadAlwaysKeepsHooks`, `AlwaysFiresInOrder`. Calls only read the manager, so the composed
specification implements that of the manager (`CallsImplementHooks`). `CallsInv` adds
`CallsShaped`, the few sequences of hooks that a call may have run, given its state and what
became of its error, and `Errors`: a marked error was told by exactly one call, and a call that
has not ended has failed nobody. `CallTypes`, `AlwaysHooksRunOnce`, `FailuresReported`. Two
assumptions are about the model only: the bounds are numbers (`BoundsAssumption`), and no call
is called "none" (`CallsAssumption`).

Two functions are recursive, the import (`Imported`) and the library's `FlattenSeq`. The
library's induction theorems cannot be instantiated by the provers; instead the places where
the claim fails would have a least element (`Smallest`), and the step before it contradicts
that.

All safety properties that the passing runs check are proved. Only model-checked:
`EarlyWaiterAnswered` and `CallsEnd`, because liveness under fairness is out of the prover's
reach, and the two violations, which are counterexamples.

## 7. Not modelled, and the plan

Not modelled: shutdown and its drain; the replay of components by a full reload, and which
cached entries a reload rebuilds (both decided by prefixes of strings and by the contents of
rebuilt trees); removals that put a live value of an earlier owner back, where the result
depends on the identities of proxies; metadata; the API builder, whose rules are functions
of a directory; and what section 1 lists as pure functions or I/O. Of the 86,000 lines of
the repository most are tests of these, tools, translations and generated documentation,
which have no state to check.

Next, most important first:

1. The replay of components: a full reload as load, import and replay of the operation
   history, composed with `ApiManager`, and the drain at shutdown.
2. Removals that restore an earlier owner with `___setImpl`, and the owners that a call with
   four arguments registers (`unified-wrapper.mjs:1642`).
3. Theorems: which of the races that `RoutesToMounted` excepts heal by themselves, and a
   refinement of the module manager by an abstract list of mounts.

`RECURSIVE` operators are used in none of the modules, so all can be proved about.
