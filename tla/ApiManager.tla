----------------------------- MODULE ApiManager -----------------------------
(***************************************************************************)
(* The ApiManager of slothlet (src/src/lib/handlers/api-manager.mjs):      *)
(* components are added to the live API tree and removed from it while the *)
(* ownership registry records who wrote which path.  An add() first loads  *)
(* the files of the component, then makes one wrapper after the other, each*)
(* of which registers its path, and mounts the whole in the end; the adds  *)
(* of several components and the removals interleave between these steps.  *)
(*                                                                         *)
(* A path is a sequence of names.  A container is in the tree exactly when *)
(* a function below it is (deletePath() prunes what it empties), so the    *)
(* tree is the map from the path of a function to the component serving    *)
(* it.  The registry is that of OwnershipRegistry, which Ownership         *)
(* implements.  Eager mode, the default configuration api.collision =      *)
(* "merge" with the mode of each add() given by the caller, moduleIDs that *)
(* are not also paths.                                                     *)
(***************************************************************************)
EXTENDS Naturals, Sequences, SequencesExt

CONSTANTS
    Names,      \* what the segments of a path are
    Modules,    \* moduleIDs, that of the base module included
    Base,       \* the base module, loaded from config.dir
    Nobody,
    At,         \* At[m]: the path m is mounted at; <<>> for the base module
    Exports     \* Exports[m]: its functions, by their paths below At[m]

Components == Modules \ {Base}

\* "merge-replace" mounts what "merge" does, "warn" what "skip" does.
CollisionModes == {"merge", "replace", "skip", "error"}

\* The paths on the way to p, p included.
UpTo(p) == Prefixes(p) \ {<<>>}
Below(p, q) == IsStrictPrefix(q, p)

Leaves(m) == {At[m] \o e : e \in Exports[m]}
LeafPaths == UNION {Leaves(m) : m \in Modules}
AllPaths == UNION {UpTo(l) : l \in LeafPaths}

\* The functions of m and the containers it brings along.
Footprint(m) ==
    {p \in UNION {UpTo(l) : l \in Leaves(m)} : Len(p) >= Len(At[m])}

\* The namespaces above its mount point.
Ancestors(m) == UpTo(At[m]) \ {At[m]}

\* Components are flat folders with something in them, one function to a
\* file; only the base module is mounted at the root.
ASSUME ModulesAssumption ==
    /\ Base \in Modules
    /\ Nobody \notin Modules
    /\ At[Base] = <<>>
    /\ \A m \in Components : At[m] # <<>> /\ \A e \in Exports[m] : Len(e) = 1
    /\ \A m \in Modules :
          /\ At[m] \in Seq(Names)
          /\ Exports[m] # {} /\ Exports[m] \subseteq Seq(Names) \ {<<>>}

\* A function is never also a container.
ASSUME ShapeAssumption == \A l \in LeafPaths, p \in AllPaths : ~Below(p, l)

VARIABLES
    owners, retired,    \* the ownership registry
    serves,             \* serves[l]: the component whose function is at l
    building,           \* components whose add() awaits buildAPI()
    unbuilt,            \* unbuilt[m]: its functions that have no wrapper yet
    cached,             \* components with an entry in apiCacheManager
    endpoints           \* components with a recorded mount endpoint

vars == <<owners, retired, serves, building, unbuilt, cached, endpoints>>

Registry == INSTANCE OwnershipRegistry WITH Paths <- AllPaths

-----------------------------------------------------------------------------
(* Reading the tree and the registry.                                      *)

\* getValueAtPath(p) finds something in a tree that serves as tree does.
ResolvesIn(tree, p) == \E l \in LeafPaths : IsPrefix(p, l) /\ tree[l] # Nobody
Present(p) == ResolvesIn(serves, p)

Owned(m) == {p \in AllPaths : m \in ToSet(owners[p])}
CurrentOwner(stacks, p) == Last(stacks[p])

\* Wrong on purpose: the moduleID is not passed on.
RegisterUnnamed(m, ps) ==
    /\ owners' = [p \in AllPaths |-> IF p \in ps THEN Append(owners[p], Nobody) ELSE owners[p]]
    /\ UNCHANGED retired

\* Wrong on purpose: a registration that comes after unregister() is taken.
RegisterLate(m, ps) ==
    /\ owners' = [p \in AllPaths |->
                    IF p \in ps /\ m \notin ToSet(owners[p]) THEN Append(owners[p], m) ELSE owners[p]]
    /\ UNCHANGED retired

\* register() in a mode that overrides, ignored for an unregistered module.
Register(m, ps) ==
    \/ Registry!Claim(m, ps)
    \/ m \in retired /\ UNCHANGED <<owners, retired>>

\* deletePath() of each path of cut: what is below goes too.
Without(cut) ==
    [l \in LeafPaths |-> IF \E p \in cut : IsPrefix(p, l) THEN Nobody ELSE serves[l]]

\* Wrong on purpose: only the cache of the module being removed is dropped.
SweptNothing(caches, tree) == caches

\* #sweepOrphanedCaches(): an entry stays while its endpoint resolves.
Swept(caches, tree) == {m \in caches : m = Base \/ ResolvesIn(tree, At[m])}

-----------------------------------------------------------------------------
\* load() is over: the base module owns and serves everything it exports.
Init ==
    /\ owners = [p \in AllPaths |-> IF p \in Footprint(Base) THEN <<Base>> ELSE <<>>]
    /\ retired = {}
    /\ serves = [l \in LeafPaths |-> IF l \in Leaves(Base) THEN Base ELSE Nobody]
    /\ building = {}
    /\ unbuilt = [m \in Components |-> {}]
    /\ cached = {Base}
    /\ endpoints = {Base}

\* add() up to the await of buildAPI(), which scans the folder and imports its
\* files: the registry has not heard of the component yet.
Build(m) ==
    /\ m \notin building
    /\ building' = building \cup {m}
    /\ unbuilt' = [unbuilt EXCEPT ![m] = Leaves(m)]
    /\ UNCHANGED <<owners, retired, serves, cached, endpoints>>

\* The import of a file fails, before any wrapper is made: add() rejects.
BuildFails(m) ==
    /\ m \in building /\ unbuilt[m] = Leaves(m)
    /\ building' = building \ {m}
    /\ unbuilt' = [unbuilt EXCEPT ![m] = {}]
    /\ UNCHANGED <<owners, retired, serves, cached, endpoints>>

\* Wrong on purpose: what is built is not registered before it is mounted.
BuildWrapperSilently(m, l) ==
    /\ m \in building /\ l \in unbuilt[m]
    /\ unbuilt' = [unbuilt EXCEPT ![m] = @ \ {l}]
    /\ UNCHANGED <<owners, retired, serves, building, cached, endpoints>>

\* The wrapper of the function at l is made: it emits impl:created, and the
\* handler registers its path.  Another await follows.
BuildWrapper(m, l) ==
    /\ m \in building /\ l \in unbuilt[m]
    /\ unbuilt' = [unbuilt EXCEPT ![m] = @ \ {l}]
    /\ Register(m, {l})
    /\ UNCHANGED <<serves, building, cached, endpoints>>

\* setValueAtPath() of the container of m in the two trees, which are one:
\* the second call sees what the first one did.
Assigned(m, mode) ==
    [l \in LeafPaths |->
        CASE ~Present(At[m]) \/ mode = "replace" ->
                 IF l \in Leaves(m) THEN m
                 ELSE IF IsPrefix(At[m], l) THEN Nobody ELSE serves[l]
          [] Present(At[m]) /\ mode = "merge" ->
                 IF l \in Leaves(m) /\ serves[l] = Nobody THEN m ELSE serves[l]
          [] OTHER -> serves[l]]

\* ensureParentPath() creates the missing namespaces, which are registered
\* for the component that happens to need them first.
NewNamespaces(m) == {p \in Ancestors(m) : ~Present(p)}

\* In "error" mode the first setValueAtPath() throws at a path that is taken,
\* the second one at a path that the first one has filled.
Throws(m, mode) ==
    mode = "error" /\ (Present(At[m]) \/ ResolvesIn(Assigned(m, mode), At[m]))

\* The rest of add(), when setValueAtPath() returns: it is not looked at
\* whether anything was assigned ("skip", "warn") before the component
\* becomes an owner of all it exports and its endpoint is recorded.
Mount(m, mode) ==
    /\ m \in building /\ unbuilt[m] = {}
    /\ ~Throws(m, mode)
    /\ building' = building \ {m}
    /\ cached' = cached \cup {m}
    /\ serves' = Assigned(m, mode)
    /\ Register(m, NewNamespaces(m) \cup Footprint(m))
    /\ endpoints' = endpoints \cup {m}
    /\ UNCHANGED unbuilt

\* The rest of add() when setValueAtPath() throws: nothing done so far is
\* undone.
MountThrows(m, mode) ==
    /\ m \in building /\ unbuilt[m] = {}
    /\ Throws(m, mode)
    /\ building' = building \ {m}
    /\ cached' = cached \cup {m}
    /\ serves' = Assigned(m, mode)
    /\ Register(m, NewNamespaces(m) \cup {At[m]})
    /\ UNCHANGED <<unbuilt, endpoints>>

\* The base module, and a module without a recorded endpoint.
IsRootMount(m) == m = Base \/ m \notin endpoints

\* Some path of ps below p still has an owner.
StillOwnedBelow(stacks, p, ps) == \E q \in ps : Below(q, p) /\ stacks[q] # <<>>

\* Wrong on purpose: a root mount is treated like any other.
PathsToDeleteOwnOnly(m, stacks) ==
    {p \in Owned(m) : stacks[p] = <<>> /\ ~StillOwnedBelow(stacks, p, Owned(m))}

\* pathsToDelete: what m alone owned, except the containers of paths that
\* others own.  The whole registry is searched for such paths when m is a
\* root mount, and the paths of m otherwise.
PathsToDelete(m, stacks) ==
    {p \in Owned(m) :
        /\ stacks[p] = <<>>
        /\ ~StillOwnedBelow(stacks, p, IF IsRootMount(m) THEN AllPaths ELSE Owned(m))}

\* Wrong on purpose: the base module is not taken apart path by path.
MountRootOnly(m, stacks) ==
    IF PathsToDelete(m, stacks) = {} THEN {}
    ELSE {LongestCommonPrefix(PathsToDelete(m, stacks))} \ {<<>>}

\* What is deleted: those paths and, if there are any, the mount root.  The
\* mount root of a root mount is what its paths have in common, and is kept
\* for the sake of others; that of any other module is not.
Cut(m, stacks) ==
    LET doomed == PathsToDelete(m, stacks)
        root == IF IsRootMount(m) THEN LongestCommonPrefix(doomed) ELSE At[m]
        kept == IsRootMount(m) /\ StillOwnedBelow(stacks, root, AllPaths)
    IN  IF doomed = {} \/ root = <<>> \/ kept THEN doomed ELSE doomed \cup {root}

\* The bound of this model: no path that falls back to an earlier owner is
\* in the tree when its value would be put back.  (The value of a mere
\* namespace is empty and changes nothing.)
NothingToPutBack(m) ==
    \A p \in Owned(m) :
        owners'[p] # <<>> /\ p \in Footprint(CurrentOwner(owners', p)) =>
            ~ResolvesIn(serves', p)

\* removeApiComponent(moduleID).  A module that owns nothing is not found, and
\* the call returns false.
RemoveModule(m) ==
    /\ Registry!Retire(m)
    /\ serves' = Without(Cut(m, owners'))
    /\ cached' = Swept(cached \ {m}, serves')
    /\ endpoints' = endpoints \ {m}
    /\ NothingToPutBack(m)
    /\ UNCHANGED <<building, unbuilt>>

\* The bound of this model: a path is removed when its owner is not being
\* added.
AddIsOver(p) == CurrentOwner(owners, p) \notin building

\* removeApiComponent(apiPath) of a path with one owner: the owner gives up
\* that path alone, and everything below it leaves the tree.
RemovePath(p) ==
    /\ Len(owners[p]) = 1
    /\ AddIsOver(p)
    /\ Registry!Release(CurrentOwner(owners, p), p)
    /\ serves' = Without({p})
    /\ cached' = Swept(cached, serves')
    /\ UNCHANGED <<building, unbuilt, endpoints>>

Next ==
    \/ \E m \in Components : Build(m)
    \/ \E m \in Components : BuildFails(m)
    \/ \E m \in Components, l \in LeafPaths : BuildWrapper(m, l)
    \/ \E m \in Components, mode \in CollisionModes : Mount(m, mode)
    \/ \E m \in Components, mode \in CollisionModes : MountThrows(m, mode)
    \/ \E m \in Modules : RemoveModule(m)
    \/ \E p \in AllPaths : RemovePath(p)

Spec == Init /\ [][Next]_vars

-----------------------------------------------------------------------------
(* Properties.                                                             *)

\* The stacks hold moduleIDs, the tree serves functions that exist.
TypeOK ==
    /\ owners \in [AllPaths -> Seq(Modules)]
    /\ retired \subseteq Modules
    /\ serves \in [LeafPaths -> Modules \cup {Nobody}]
    /\ building \subseteq Components
    /\ unbuilt \in [Components -> SUBSET LeafPaths]
    /\ \A m \in Components : unbuilt[m] \subseteq Leaves(m)
    /\ cached \subseteq Modules
    /\ endpoints \subseteq Modules

\* A function in the tree is served by one of the owners of its path, so a
\* removal by moduleID finds it.  The exception is a component that was
\* removed while its add() was still building, after its first wrapper, or
\* added again afterwards: it is mounted although the registry refuses it.
ServedIsOwned ==
    \A l \in LeafPaths :
        serves[l] \notin {Nobody} \cup retired => serves[l] \in ToSet(owners[l])

\* Also where a removal came between two wrappers, and the first had been
\* registered and the second not: what is mounted of a component in the end it
\* owns as a whole or not at all, so that no removal by moduleID finds a part
\* of it only (the guard of register() against unregistered modules).
OwnedAsAWhole ==
    \A m \in Modules :
        LET served == {l \in LeafPaths : serves[l] = m}
        IN  served \subseteq Owned(m) \/ served \cap Owned(m) = {}

\* No component is mounted above that of m.
Topmost(m) == \A n \in Components : ~Below(At[m], At[n])

\* No cache entry outlives the component's endpoint, whoever removed it from
\* the tree: #sweepOrphanedCaches() finds components that went along with
\* another one.  (A "replace" at a path above an endpoint takes it out of the
\* tree without a sweep; the entry stays until the next removal.)
NoOrphanCache == \A m \in cached \ {Base} : Topmost(m) => Present(At[m])

\* When a module is removed, no function stays that it serves.
RemovedIsGone ==
    [][\A m \in retired' \ retired : \A l \in LeafPaths : serves'[l] # m]_vars

\* The removal spares the functions of components that were not removed.
Spares == \A l \in LeafPaths : serves[l] \notin {Nobody} \cup retired' => serves'[l] = serves[l]

\* The removal of the base module, or of what a rejected add() has left,
\* takes nothing away that another component has put beneath its containers.
RootRemovalSpares ==
    [][\A m \in retired' \ retired : IsRootMount(m) => Spares]_vars

\* The same of every removal by moduleID: what the code says of siblings and
\* the documentation of components at peer namespaces.
RemovalSpares == [][retired' # retired => Spares]_vars

\* add() in "error" mode throws on a collision.
ErrorMeansCollision == 
    [][\A m \in Components :
        (\E mode \in CollisionModes : MountThrows(m, mode)) => Present(At[m])]_vars
=============================================================================
