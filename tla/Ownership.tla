------------------------------ MODULE Ownership ------------------------------
(***************************************************************************)
(* The OwnershipManager of slothlet (src/src/lib/handlers/ownership.mjs):  *)
(* which module owns which API path.  The code keeps the relation twice,   *)
(* as a Map from a module to the set of its paths and as a Map from a path *)
(* to the stack of its modules, and every operation updates both.          *)
(*                                                                         *)
(* A Map is a function whose domain is the keys present.  The value, the   *)
(* source, the file and the timestamp of a stack entry are left out: the   *)
(* registry never looks at them.                                           *)
(***************************************************************************)
EXTENDS Naturals, Sequences, SequencesExt

CONSTANTS
    Modules,        \* moduleIDs
    Paths           \* API paths (also used as mount endpoints)

\* Collision modes in which register() goes on although another module is
\* the current owner; "skip" and "warn" return null and "error" throws.
Overriding == {"merge", "replace", "merge-replace"}
CollisionModes == Overriding \cup {"skip", "warn", "error"}

VARIABLES
    moduleToPath,       \* Map moduleID -> Set of paths
    pathToModule,       \* Map path -> stack of moduleIDs, current owner last
    unregistered,       \* _unregisteredModules
    moduleEndpoints     \* Map moduleID -> mount endpoint

vars == <<moduleToPath, pathToModule, unregistered, moduleEndpoints>>

-----------------------------------------------------------------------------
(* Maps and stacks.                                                        *)

Put(map, key, value) ==
    [k \in DOMAIN map \cup {key} |-> IF k = key THEN value ELSE map[k]]

Delete(map, key) == Restrict(map, DOMAIN map \ {key})

PathsOf(m) == IF m \in DOMAIN moduleToPath THEN moduleToPath[m] ELSE {}
Stack(p) == IF p \in DOMAIN pathToModule THEN pathToModule[p] ELSE <<>>
Owns(m, p) == m \in ToSet(Stack(p))

\* getCurrentOwner(p) is m.
IsCurrentOwner(m, p) == Stack(p) # <<>> /\ Last(Stack(p)) = m

\* Wrong on purpose: a registration that moves its module to the top.
PushedToTop(stack, m) ==
    IF m \in ToSet(stack) THEN Append(RemoveFirst(stack, m), m) ELSE Append(stack, m)

\* Wrong on purpose: a registration that does not look for its module.
PushedAgain(stack, m) == Append(stack, m)

\* The stack after an entry for m: one that is there is updated in place.
Pushed(stack, m) == IF m \in ToSet(stack) THEN stack ELSE Append(stack, m)

-----------------------------------------------------------------------------
Init ==
    /\ moduleToPath = << >>
    /\ pathToModule = << >>
    /\ unregistered = {}
    /\ moduleEndpoints = << >>

\* register() and registerSubtree() past their guards: both indexes get
\* every path of ps.
RecordOwner(m, ps) ==
    /\ moduleToPath' = Put(moduleToPath, m, PathsOf(m) \cup ps)
    /\ pathToModule' = [p \in DOMAIN pathToModule \cup ps |->
                          IF p \in ps THEN Pushed(Stack(p), m) ELSE pathToModule[p]]
    /\ UNCHANGED <<unregistered, moduleEndpoints>>

\* register() of one path.  A refusal (null or a throw) changes nothing.
Register(m, p, collisionMode) ==
    /\ m \notin unregistered
    /\ Stack(p) = <<>> \/ IsCurrentOwner(m, p) \/ collisionMode \in Overriding
    /\ RecordOwner(m, {p})

\* Wrong on purpose: the late registration of a removed module gets through.
RegisterSubtreeUnguarded(m, ps) == RecordOwner(m, ps)

\* registerSubtree(): register(..., "merge") of a path and of everything
\* found beneath it, without a pause in between.
RegisterSubtree(m, ps) ==
    /\ m \notin unregistered
    /\ RecordOwner(m, ps)

\* Wrong on purpose: the module index is not told.
RemovePathOneSided(m, p) ==
    LET rest == RemoveFirst(Stack(p), m)
    IN  /\ Owns(m, p)
        /\ pathToModule' = IF rest = <<>> THEN Delete(pathToModule, p)
                                          ELSE Put(pathToModule, p, rest)
        /\ UNCHANGED <<moduleToPath, unregistered, moduleEndpoints>>

\* removePath(p, m): m is an entry of the stack, the current owner by default.
RemovePath(m, p) ==
    LET rest == RemoveFirst(Stack(p), m)
        left == PathsOf(m) \ {p}
    IN  /\ Owns(m, p)
        /\ pathToModule' = IF rest = <<>> THEN Delete(pathToModule, p)
                                          ELSE Put(pathToModule, p, rest)
        /\ moduleToPath' = IF left = {} THEN Delete(moduleToPath, m)
                                        ELSE Put(moduleToPath, m, left)
        /\ UNCHANGED <<unregistered, moduleEndpoints>>

\* Wrong on purpose: only the paths m currently serves are given up.
UnregisterTopOnly(m) ==
    LET after(p) == IF IsCurrentOwner(m, p) THEN RemoveFirst(pathToModule[p], m)
                                            ELSE pathToModule[p]
    IN  /\ m \in DOMAIN moduleToPath
        /\ unregistered' = unregistered \cup {m}
        /\ pathToModule' = [p \in {q \in DOMAIN pathToModule : after(q) # <<>>} |-> after(p)]
        /\ moduleToPath' = Delete(moduleToPath, m)
        /\ moduleEndpoints' = Delete(moduleEndpoints, m)

\* unregister(m): removePath for each path the module index names.  A module
\* the index does not know is not even marked.
Unregister(m) ==
    LET after(p) == IF p \in moduleToPath[m] THEN RemoveFirst(pathToModule[p], m)
                                             ELSE pathToModule[p]
    IN  /\ m \in DOMAIN moduleToPath
        /\ unregistered' = unregistered \cup {m}
        /\ pathToModule' = [p \in {q \in DOMAIN pathToModule : after(q) # <<>>} |-> after(p)]
        /\ moduleToPath' = Delete(moduleToPath, m)
        /\ moduleEndpoints' = Delete(moduleEndpoints, m)

\* Wrong on purpose: key and value swapped.
SetModuleEndpointSwapped(m, endpoint) ==
    /\ moduleEndpoints' = Put(moduleEndpoints, endpoint, m)
    /\ UNCHANGED <<moduleToPath, pathToModule, unregistered>>

\* setModuleEndpoint(): recorded whatever became of the registration.
SetModuleEndpoint(m, endpoint) ==
    /\ moduleEndpoints' = Put(moduleEndpoints, m, endpoint)
    /\ UNCHANGED <<moduleToPath, pathToModule, unregistered>>

\* clear(), at shutdown.
Clear ==
    /\ moduleToPath' = << >>
    /\ pathToModule' = << >>
    /\ unregistered' = {}
    /\ moduleEndpoints' = << >>

\* importState() of a state exportState() has just returned: it clears
\* everything and puts back the two indexes only.
ImportState ==
    /\ unregistered' = {}
    /\ moduleEndpoints' = << >>
    /\ UNCHANGED <<moduleToPath, pathToModule>>

Next ==
    \/ \E m \in Modules, p \in Paths, mode \in CollisionModes : Register(m, p, mode)
    \/ \E m \in Modules, ps \in (SUBSET Paths) \ {{}} : RegisterSubtree(m, ps)
    \/ \E m \in Modules, p \in Paths : RemovePath(m, p)
    \/ \E m \in Modules : Unregister(m)
    \/ \E m \in Modules, endpoint \in Paths : SetModuleEndpoint(m, endpoint)
    \/ Clear
    \/ ImportState

Spec == Init /\ [][Next]_vars

-----------------------------------------------------------------------------
(* Properties.                                                             *)

MapsTo(map, K, V) == DOMAIN map \subseteq K /\ \A k \in DOMAIN map : map[k] \in V

\* Every key of the four Maps is a module or a path and every value has its
\* type.
TypeOK ==
    /\ MapsTo(moduleToPath, Modules, SUBSET Paths)
    /\ MapsTo(pathToModule, Paths, Seq(Modules))
    /\ unregistered \subseteq Modules
    /\ MapsTo(moduleEndpoints, Modules, Paths)

\* A stack has each module once, so removing a module removes all of it.
NoDuplicateOwner ==
    \A p \in DOMAIN pathToModule : IsInjective(pathToModule[p])

\* The two indexes hold the same relation and neither keeps an empty entry:
\* unregister() walks the module index to clean the path index, and returns
\* early when the module index has no entry.
IndexesAgree ==
    /\ \A m \in Modules, p \in Paths : p \in PathsOf(m) <=> Owns(m, p)
    /\ \A m \in DOMAIN moduleToPath : moduleToPath[m] # {}
    /\ \A p \in DOMAIN pathToModule : pathToModule[p] # <<>>

\* A module that was unregistered is in no stack, although registrations of
\* its lazy wrappers may still arrive (the guard at the top of register()).
UnregisteredOwnsNothing ==
    \A m \in unregistered, p \in Paths : ~Owns(m, p)

\* m is somewhere under n.
Under(m, n, stack) ==
    \E i, j \in DOMAIN stack : i < j /\ stack[i] = m /\ stack[j] = n

\* No step swaps two owners of a path: when the top goes, the path falls
\* back to the module that was directly beneath it.
FallbackOrderKept ==
    [][\A p \in Paths : \A m, n \in Modules :
          Under(m, n, Stack(p)) => ~Under(n, m, Stack(p)')]_vars

\* The registry keeps the promise: its steps are those of OwnershipRegistry,
\* whose Retire removes a module from every history without any index.
Registry == INSTANCE OwnershipRegistry WITH
    owners <- [p \in Paths |-> Stack(p)],
    retired <- unregistered

RegistrySpec == Registry!ASpec
=============================================================================
