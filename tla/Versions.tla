------------------------------ MODULE Versions ------------------------------
(***************************************************************************)
(* Versioned components of slothlet: the VersionManager                    *)
(* (src/src/lib/handlers/version-manager.mjs) under the add() and remove() *)
(* of the ApiManager (src/src/lib/handlers/api-manager.mjs).  Version t of *)
(* the logical path l is mounted at t.l, and a dispatcher at l routes a    *)
(* caller to one of the mounted versions.  The registry of versions, the   *)
(* dispatchers, the tree and the ownership of paths are kept apart, and    *)
(* what deletes from the tree takes its time.                              *)
(*                                                                         *)
(* A module is one api.add() with its versionConfig; its moduleID is the   *)
(* generated one, "<logical path>_<random>".  Every version is a folder    *)
(* with one file.  Eager mode, api.collision = "merge", the discriminator  *)
(* "version"; nothing unversioned is mounted at a logical path.            *)
(***************************************************************************)
EXTENDS Naturals, Sequences, SequencesExt

CONSTANTS
    Modules, Tags,
    LogicalPaths,
    TagOf, PathOf,      \* version and logical path of a module
    Defaults,           \* the modules added with default: true
    Rank,               \* Rank[t]: the version number of tag t
    Leaf,               \* the name of the function in the file
    None                \* an unversioned caller

ASSUME ModulesAssumption ==
    /\ TagOf \in [Modules -> Tags] /\ PathOf \in [Modules -> LogicalPaths]
    /\ Defaults \subseteq Modules
    /\ Rank \in [Tags -> Nat] /\ None \notin Tags

\* t, t.l and t.l.Leaf.
MountPaths == Tags \X LogicalPaths
Paths == {<<t>> : t \in Tags} \cup MountPaths \cup {Append(p, Leaf) : p \in MountPaths}

MountOf(m) == <<TagOf[m], PathOf[m]>>
LeafOf(m) == Append(MountOf(m), Leaf)

VARIABLES
    owners, retired,    \* the ownership registry
    started,            \* the modules that are or were built, in order
    building,           \* those whose add() awaits buildAPI()
    mounted,            \* the mount paths that are in the tree
    removing,           \* removals whose deletions are still to come
    versions,           \* #registry, each Map in insertion order
    versioned,          \* keys of #moduleToVersionKey
    dispatchers,        \* keys of #dispatchers
    routed,             \* the logical paths with a dispatcher in the tree
    tearing             \* tearing[l]: deletions of a dispatcher that nobody awaits

\* Kept for the properties only.
VARIABLES
    late,               \* mount paths that were mounted during or after a removal
    raced,              \* logical paths that got a version during a teardown
    byPath              \* mount paths removed by path

registry == <<owners, retired>>
tree == <<mounted, removing>>
manager == <<versions, versioned, dispatchers, routed, tearing>>
history == <<late, raced, byPath>>
vars == <<registry, started, building, tree, manager, history>>

Registry == INSTANCE OwnershipRegistry

-----------------------------------------------------------------------------
(* Which version a caller gets.                                            *)

TagsAt(l) == {versions[l][i].tag : i \in DOMAIN versions[l]}

\* getDefaultVersion(): the first explicit default, or else the first of the
\* highest.
DefaultOf(vs) ==
    LET explicit == {i \in DOMAIN vs : vs[i].default}
        highest == {i \in DOMAIN vs : \A j \in DOMAIN vs : Rank[vs[j].tag] <= Rank[vs[i].tag]}
        among == IF explicit # {} THEN explicit ELSE highest
    IN  vs[CHOOSE i \in among : \A j \in among : i <= j].tag

\* resolveVersion() for a caller of version c: the same version, if there is
\* one.
Resolve(l, c) == IF c \in TagsAt(l) THEN c ELSE DefaultOf(versions[l])

-----------------------------------------------------------------------------
(* The VersionManager.                                                     *)

\* updateDispatcher().
UpdateDispatcher(l) ==
    /\ dispatchers' = dispatchers \cup {l}
    /\ routed' = IF l \in dispatchers THEN routed ELSE routed \cup {l}
    /\ UNCHANGED tearing

\* teardownDispatcher(): the deletion from the tree is not awaited.
TeardownDispatcher(l) ==
    /\ dispatchers' = dispatchers \ {l}
    /\ tearing' = IF l \in routed THEN [tearing EXCEPT ![l] = @ + 1] ELSE tearing
    /\ UNCHANGED routed

Entry(m) == [tag |-> TagOf[m], module |-> m, default |-> m \in Defaults]

\* Wrong on purpose: a new default goes to the front.
RegisterVersionFirst(m) ==
    /\ versions' = [versions EXCEPT ![PathOf[m]] =
                        IF m \in Defaults THEN <<Entry(m)>> \o @ ELSE Append(@, Entry(m))]
    /\ versioned' = versioned \cup {m}
    /\ UpdateDispatcher(PathOf[m])

\* registerVersion() of a tag that is free.
RegisterVersion(m) ==
    /\ versions' = [versions EXCEPT ![PathOf[m]] = Append(@, Entry(m))]
    /\ versioned' = versioned \cup {m}
    /\ UpdateDispatcher(PathOf[m])

\* What getVersionKeyForModule() finds.
EntryOf(m) == CHOOSE v \in ToSet(versions[PathOf[m]]) : v.module = m

\* Wrong on purpose: the dispatcher outlives the versions.
UnregisterVersionOnly(m) ==
    /\ versions' = [versions EXCEPT ![PathOf[m]] = RemoveFirst(@, EntryOf(m))]
    /\ versioned' = versioned \ {m}
    /\ UpdateDispatcher(PathOf[m])

\* unregisterVersion() of the entry of m, if there is one.
UnregisterVersion(m) ==
    LET l == PathOf[m]
        rest == RemoveFirst(versions[l], EntryOf(m))
    IN  IF m \notin versioned THEN UNCHANGED manager
        ELSE /\ versions' = [versions EXCEPT ![l] = rest]
             /\ versioned' = versioned \ {m}
             /\ IF rest = <<>> THEN TeardownDispatcher(l) ELSE UpdateDispatcher(l)

\* A deletion that teardownDispatcher() has started, of what is there by now.
Teardown(l) ==
    /\ tearing[l] > 0
    /\ tearing' = [tearing EXCEPT ![l] = @ - 1]
    /\ routed' = routed \ {l}
    /\ UNCHANGED <<registry, started, building, tree, versions, versioned, dispatchers, history>>

\* setDefault().
SetDefault(l, t) ==
    /\ t \in TagsAt(l)
    /\ LET vs == versions[l]
       IN  versions' = [versions EXCEPT ![l] =
                            [i \in DOMAIN vs |-> [vs[i] EXCEPT !.default = vs[i].tag = t]]]
    /\ UNCHANGED <<registry, started, building, tree, versioned, dispatchers, routed, tearing, history>>

-----------------------------------------------------------------------------
(* The ApiManager.                                                         *)

Owned(m) == {p \in Paths : m \in ToSet(owners[p])}

\* What m comes to own: its mount, its function and the namespace of its tag,
\* if it is the first one there.
Claims(m) ==
    {MountOf(m), LeafOf(m)} \cup (IF \E p \in mounted : p[1] = TagOf[m] THEN {} ELSE {<<TagOf[m]>>})

\* Wrong on purpose: the registry is asked before m has left it.
CutTooEarly(m, ps, stacks) ==
    {p \in ps : owners[p] = <<>> /\ \A q \in ps : IsStrictPrefix(p, q) => owners[q] = <<>>}

\* What a removal of m that owned ps deletes, given the stacks it leaves.
Cut(m, ps, stacks) ==
    LET doomed == {p \in ps : stacks[p] = <<>> /\ \A q \in ps : IsStrictPrefix(p, q) => stacks[q] = <<>>}
    IN  IF doomed = {} \/ MountOf(m) \notin ps THEN doomed ELSE doomed \cup {MountOf(m)}

\* Deleting q takes p out of the tree: with what is below, or once empty.
Hits(q, p) == IsPrefix(q, p) \/ IsPrefix(p, q)
Pending(p) == \E r \in removing : \E q \in r.cut : Hits(q, p)

\* Wrong on purpose: a rejected add() takes down all that is at its path.
DeletionsOfMount(m, ps, stacks) ==
    removing' = removing \cup {[module |-> m, cut |-> {MountOf(m)}, unregister |-> FALSE]}

\* The deletions that follow once m has left the registry.
Deletions(m, ps, stacks) ==
    LET cut == Cut(m, ps, stacks)
    IN  removing' = IF cut = {} THEN removing
                    ELSE removing \cup {[module |-> m, cut |-> cut, unregister |-> FALSE]}

\* The wrapper of m is made, late in the buildAPI() that its add() awaits, and
\* registers its path.  Before that step the add() has changed nothing, and a
\* removal does not find m.
Build(m) ==
    /\ m \notin ToSet(started)
    /\ started' = Append(started, m)
    /\ building' = building \cup {m}
    /\ Registry!Claim(m, {LeafOf(m)})
    /\ UNCHANGED <<tree, manager, history>>

Mount(m) ==
    /\ m \in building
    /\ building' = building \ {m}
    /\ mounted' = mounted \cup {MountOf(m)}
    /\ late' = IF m \in retired \/ Pending(MountOf(m)) THEN late \cup {MountOf(m)} ELSE late
    /\ UNCHANGED <<started, byPath>>

\* The rest of add().  A module that was removed meanwhile is mounted and
\* registered nevertheless, without an owner.
AddVersion(m) ==
    /\ TagOf[m] \notin TagsAt(PathOf[m])
    /\ Mount(m)
    /\ IF m \in retired THEN UNCHANGED registry ELSE Registry!Claim(m, Claims(m))
    /\ RegisterVersion(m)
    /\ raced' = IF tearing[PathOf[m]] > 0 THEN raced \cup {PathOf[m]} ELSE raced
    /\ UNCHANGED removing

\* VERSION_REGISTER_DUPLICATE: what was mounted is removed again.
AddDuplicate(m) ==
    /\ TagOf[m] \in TagsAt(PathOf[m])
    /\ Mount(m)
    /\ IF m \in retired THEN UNCHANGED <<registry, removing>>
       ELSE /\ Registry!Retire(m)
            /\ Deletions(m, Owned(m) \cup Claims(m), owners')
    /\ UNCHANGED <<manager, raced>>

\* removeApiComponent(moduleID), up to its deletions.
RemoveComponent(m) ==
    /\ Registry!Retire(m)
    /\ UnregisterVersion(m)
    /\ Deletions(m, Owned(m), owners')
    /\ UNCHANGED <<started, building, mounted, history>>

\* remove(moduleID) and versioning.unregister(): the add() has returned.
RemoveModule(m) == m \notin building /\ RemoveComponent(m)

\* remove("l"): the moduleID that starts with l and was registered last.
RemoveLogical(l) ==
    LET those == {i \in DOMAIN started : PathOf[started[i]] = l /\ Owned(started[i]) # {}}
    IN  /\ those # {}
        /\ RemoveComponent(started[CHOOSE i \in those : \A j \in those : j <= i])

\* remove("t.l"), up to its deletions: one owner gives up one path.  The bound
\* of this model: it is the only owner.
RemovePath(p) ==
    /\ Len(owners[p]) = 1
    /\ Registry!Release(Head(owners[p]), p)
    /\ removing' = removing \cup {[module |-> Head(owners[p]), cut |-> {p}, unregister |-> TRUE]}
    /\ byPath' = byPath \cup {p}
    /\ UNCHANGED <<started, building, mounted, manager, late, raced>>

\* The deletions.
Delete(r) ==
    /\ r.cut # {}
    /\ mounted' = {p \in mounted : \A q \in r.cut : ~Hits(q, p)}
    /\ removing' = (removing \ {r}) \cup (IF r.unregister THEN {[r EXCEPT !.cut = {}]} ELSE {})
    /\ UNCHANGED <<registry, started, building, manager, history>>

\* A removal by path gives up the version in the end.
AfterDelete(r) ==
    /\ r.cut = {}
    /\ removing' = removing \ {r}
    /\ UnregisterVersion(r.module)
    /\ UNCHANGED <<registry, started, building, mounted, history>>

-----------------------------------------------------------------------------
Removals == [module : Modules, cut : SUBSET Paths, unregister : BOOLEAN]
Entries == [tag : Tags, module : Modules, default : BOOLEAN]

TypeOK ==
    /\ owners \in [Paths -> Seq(Modules)] /\ retired \subseteq Modules
    /\ started \in Seq(Modules) /\ building \subseteq Modules
    /\ mounted \subseteq MountPaths /\ removing \subseteq Removals
    /\ versions \in [LogicalPaths -> Seq(Entries)] /\ versioned \subseteq Modules
    /\ dispatchers \subseteq LogicalPaths /\ routed \subseteq LogicalPaths
    /\ tearing \in [LogicalPaths -> Nat]
    /\ late \subseteq MountPaths /\ raced \subseteq LogicalPaths /\ byPath \subseteq MountPaths

Init ==
    /\ Registry!AInit
    /\ started = <<>> /\ building = {}
    /\ mounted = {} /\ removing = {}
    /\ versions = [l \in LogicalPaths |-> <<>>] /\ versioned = {}
    /\ dispatchers = {} /\ routed = {}
    /\ tearing = [l \in LogicalPaths |-> 0]
    /\ late = {} /\ raced = {} /\ byPath = {}

Next ==
    \/ \E m \in Modules : Build(m) \/ AddVersion(m) \/ AddDuplicate(m) \/ RemoveModule(m)
    \/ \E l \in LogicalPaths : RemoveLogical(l) \/ Teardown(l) \/ \E t \in Tags : SetDefault(l, t)
    \/ \E p \in MountPaths : RemovePath(p)
    \/ \E r \in removing : Delete(r) \/ AfterDelete(r)

Spec == Init /\ [][Next]_vars

-----------------------------------------------------------------------------
(* Properties.                                                             *)

\* Whatever adds, rejected adds and removals interleave, the reverse lookup
\* holds the modules of the registered versions, no tag of a path is
\* registered twice, and there is a dispatcher for exactly the paths that have
\* a version: what teardownDispatcher() and the guards of the dispatcher rely
\* on (registerVersion, unregisterVersion).
RegistryAgrees ==
    /\ dispatchers = {l \in LogicalPaths : versions[l] # <<>>}
    /\ \A l \in LogicalPaths : \A i, j \in DOMAIN versions[l] :
        versions[l][i].tag = versions[l][j].tag => i = j
    /\ \A m \in Modules :
        m \in versioned <=> \E i \in DOMAIN versions[PathOf[m]] : versions[PathOf[m]][i].module = m
    /\ \A l \in LogicalPaths : \A i \in DOMAIN versions[l] :
        MountOf(versions[l][i].module) = <<versions[l][i].tag, l>>

\* The module of version t of l is being removed by path.
Leaving(t, l) ==
    \E r \in removing : r.unregister /\ MountOf(r.module) = <<t, l>>

\* Whoever asks the dispatcher gets to a version that is mounted: rejected
\* adds, removals of other versions and a moved default do not matter.  Left
\* out are the paths of which a version was added while another add or removal
\* of the same one was still deleting or was over before it, and those whose
\* dispatcher was being torn down.
RoutesToMounted ==
    \A l \in LogicalPaths : \A c \in Tags \cup {None} :
        versions[l] # <<>> /\ l \notin raced =>
            /\ l \in routed
            /\ LET p == <<Resolve(l, c), l>>
               IN  p \in late \/ Leaving(p[1], l) \/ p \in mounted

\* A version that is not registered is not in the tree either once its removal
\* has deleted what it found, unless one removed by path left an owner behind
\* or an add is under way.
RemovedIsUnmounted ==
    \A p \in mounted :
        \/ p[1] \in TagsAt(p[2])
        \/ Pending(p) \/ p \in byPath
        \/ \E m \in building : MountOf(m) = p

\* An explicit default stays one until it is removed or another one is set:
\* versions added later never take over, default: true or not.
StaysDefault(l) ==
    LET t == DefaultOf(versions[l])
    IN  /\ \E i \in DOMAIN versions[l] : versions[l][i].default
        /\ \E i \in DOMAIN versions'[l] : versions'[l][i].tag = t
        /\ ~\E u \in Tags : SetDefault(l, u)
        => DefaultOf(versions'[l]) = t
DefaultIsKept == [][\A l \in LogicalPaths : StaysDefault(l)]_vars

\* docs/VERSIONING.md: the removal of a logical path leaves the versions.
LogicalRemovalSpares ==
    [][\A l \in LogicalPaths : RemoveLogical(l) => versions' = versions]_vars
=============================================================================
