--------------------------- MODULE Materialization ---------------------------
(***************************************************************************)
(* Lazy loading in slothlet: the life of a wrapper                         *)
(* (src/src/lib/handlers/unified-wrapper.mjs), the count of the folders    *)
(* not loaded yet and the callers that wait for it to reach zero           *)
(* (src/src/slothlet.mjs, src/src/lib/handlers/materialize-manager.mjs).   *)
(*                                                                         *)
(* An action is what runs between two turns of the event loop.  A load is  *)
(* one call of a materializeFunc: it starts in one action, may find nested *)
(* folders in others, and returns or fails in a last one, and everything   *)
(* else runs in between.  A source is a version number: what a folder's    *)
(* files held when the tree that names them was built.                     *)
(*                                                                         *)
(* Left out: the members of an implementation that are not folders, the    *)
(* proxies, collision merges, and the event payloads.                      *)
(***************************************************************************)
EXTENDS Integers, FiniteSets

CONSTANTS
    Folders,        \* wrappers of folders: each can have a materializeFunc
    Containers,     \* namespace wrappers made with no materializeFunc
    Loads,          \* calls of materializeFunc: as many at once as there are
    Callers,        \* callers of materialize.wait()
    Mode,           \* "lazy" or "eager"
    Tracking,       \* config.tracking.materialization: load in the background
    Edits,          \* operations on built wrappers that are tried
    MaxFailures,    \* loads that fail, at most
    NoWrapper, NoPromise, Settled

Wrappers == Folders \cup Containers

ASSUME ModeAssumption == Mode \in {"lazy", "eager"}
ASSUME NoneAssumption == /\ NoWrapper \notin Wrappers
                         /\ {NoPromise, Settled} \cap Loads = {}
                         /\ NoPromise # Settled
ASSUME BoundAssumption == MaxFailures \in Nat
ASSUME EditsAssumption == Edits \subseteq {"setImpl", "reload", "invalidate", "delete"}

VARIABLES
    made,           \* wrappers constructed so far
    reach,          \* those of them a caller can hold
    wrapper,        \* the state of each wrapper
    load,           \* the calls of materializeFunc that have not returned
    queued,         \* wrappers whose background load is still to be tried
    fresh,          \* the wrapper a reload under way has built for another
    unmaterialized, \* _unmaterializedLazyCount
    complete,       \* _materializationComplete
    waiting,        \* the callers in _materializationWaiters
    edited,         \* auxiliary: wrappers edited; each is edited once
    failures        \* auxiliary: loads that failed

vars == <<made, reach, wrapper, load, queued, fresh, unmaterialized, complete,
          waiting, edited, failures>>

-----------------------------------------------------------------------------
(* Wrappers and loads.  An impl of 0 is null; a version of 0 is a wrapper  *)
(* without a materializeFunc.                                              *)

NoImpl == 0
NoFunc == 0

Shell(v) == [impl |-> NoImpl, version |-> v, children |-> {}, materialized |-> FALSE,
             invalid |-> FALSE, inFlight |-> FALSE, promise |-> NoPromise]
Loaded(v) == [Shell(NoFunc) EXCEPT !.impl = v, !.materialized = TRUE]

Idle == [of |-> NoWrapper, version |-> NoFunc, found |-> {}]
InFlightLoads(w) == {l \in Loads : load[l].of = w}

\* Wrong on purpose: the counter is looked at before it is decremented.
NotifiedLate(n) ==
    LET last == n = 0 /\ ~complete
    IN  /\ unmaterialized' = n - 1
        /\ complete' = (complete \/ last)
        /\ waiting' = IF last THEN {} ELSE waiting

\* The counter, the flag and the queue of callers after _onWrapperMaterialized
\* with the counter at n.
Notified(n) ==
    LET last == n - 1 = 0 /\ ~complete
    IN  /\ unmaterialized' = n - 1
        /\ complete' = (complete \/ last)
        /\ waiting' = IF last THEN {} ELSE waiting

\* Wrong on purpose: a wrapper is scheduled and not kept.
ConstructUnkept(w, s) ==
    /\ w \in Wrappers \ made
    /\ UNCHANGED made
    /\ wrapper' = [wrapper EXCEPT ![w] = s]
    /\ queued' = IF Mode = "lazy" /\ Tracking THEN queued \cup {w} ELSE queued

\* The constructor: w is made with the state s.  A lazy wrapper is registered,
\* and its background load scheduled.
Construct(w, s) ==
    /\ w \in Wrappers \ made
    /\ made' = made \cup {w}
    /\ wrapper' = [wrapper EXCEPT ![w] = s]
    /\ queued' = IF Mode = "lazy" /\ Tracking THEN queued \cup {w} ELSE queued

Registered == unmaterialized + (IF Mode = "lazy" THEN 1 ELSE 0)

\* The wrapper of a folder read at version v, as each mode builds it.
BuiltFolder(v) == IF Mode = "lazy" THEN Shell(v) ELSE Loaded(v)

-----------------------------------------------------------------------------
Init ==
    /\ made = {} /\ reach = {} /\ queued = {}
    /\ wrapper = [w \in Wrappers |-> Shell(NoFunc)]
    /\ load = [l \in Loads |-> Idle]
    /\ fresh = [w \in Wrappers |-> NoWrapper]
    /\ unmaterialized = 0 /\ complete = FALSE /\ waiting = {}
    /\ edited = {} /\ failures = 0

\* A build, the first one or an api.add(), meets a folder.
AddFolder(w) ==
    /\ w \in Folders
    /\ Construct(w, BuiltFolder(1))
    /\ reach' = reach \cup {w}
    /\ unmaterialized' = Registered
    /\ UNCHANGED <<load, fresh, complete, waiting, edited, failures>>

\* An api.add() below a path that is not there: the namespace gets a wrapper,
\* and at once an empty implementation by ___setImpl.
AddContainer(w) ==
    /\ w \in Containers
    /\ Construct(w, Loaded(1))
    /\ reach' = reach \cup {w}
    /\ Notified(Registered)
    /\ UNCHANGED <<load, fresh, edited, failures>>

\* Wrong on purpose: a load under way is not looked for.
MayStartAgain(w) == ~wrapper[w].materialized /\ ~wrapper[w].invalid

\* ___materialize() gets past its early returns.
MayStart(w) ==
    /\ ~wrapper[w].materialized
    /\ ~wrapper[w].invalid
    /\ wrapper[w].promise = NoPromise

\* Load l is under way.
LoadedBy(s, l) == [s EXCEPT !.inFlight = TRUE, !.promise = l]

\* ___materialize() past its early returns: a load starts, and its promise is
\* kept.  Without a materializeFunc the body ends before its promise is
\* stored, and the settled promise stays.
Start(w) ==
    /\ MayStart(w)
    /\ \/ /\ wrapper[w].version # NoFunc
          /\ \E l \in Loads :
                /\ load[l].of = NoWrapper
                /\ load' = [load EXCEPT ![l] =
                               [of |-> w, version |-> wrapper[w].version, found |-> {}]]
                /\ wrapper' = [wrapper EXCEPT ![w] = LoadedBy(@, l)]
       \/ /\ wrapper[w].version = NoFunc
          /\ wrapper' = [wrapper EXCEPT ![w].promise = Settled]
          /\ UNCHANGED load

\* A call or a property read reaches a lazy wrapper that is not loaded.
Access(w) ==
    /\ Mode = "lazy"
    /\ w \in reach
    /\ Start(w)
    /\ UNCHANGED <<made, reach, queued, fresh, unmaterialized, complete, waiting,
                   edited, failures>>

\* The background load the constructor scheduled, errors swallowed.
Background(w) ==
    /\ w \in queued
    /\ queued' = queued \ {w}
    /\ \/ Start(w)
       \/ ~MayStart(w) /\ UNCHANGED <<wrapper, load>>
    /\ UNCHANGED <<made, reach, fresh, unmaterialized, complete, waiting, edited, failures>>

\* Wrong on purpose: the wrapper of a nested folder is not registered.
DiscoverUncounted(l, w) ==
    /\ load[l].of # NoWrapper
    /\ w \in Folders
    /\ Construct(w, Shell(1))
    /\ load' = [load EXCEPT ![l].found = @ \cup {w}]
    /\ UNCHANGED <<reach, fresh, unmaterialized, complete, waiting, edited, failures>>

\* The materializeFunc meets a nested folder and makes its wrapper, which
\* nobody can reach before the load returns.
Discover(l, w) ==
    /\ load[l].of # NoWrapper
    /\ w \in Folders
    /\ Construct(w, Shell(1))
    /\ load' = [load EXCEPT ![l].found = @ \cup {w}]
    /\ unmaterialized' = Registered
    /\ UNCHANGED <<reach, fresh, complete, waiting, edited, failures>>

\* Wrong on purpose: the promise is cleared on success only.
ClearedFlagOnly(s) == [s EXCEPT !.inFlight = FALSE]

\* The finally of a load of w.
Cleared(s) == [s EXCEPT !.inFlight = FALSE, !.promise = NoPromise]

\* _applyNewImpl(): a result is applied, with the nested folders it names.
Applied(s, v, cs) == [s EXCEPT !.impl = v, !.invalid = FALSE, !.children = @ \cup cs]

\* The materializeFunc returns.  Its result is dropped when the wrapper has an
\* implementation by now.
LoadReturns(l) ==
    LET w == load[l].of
        s == wrapper[w]
        kept == s.impl = NoImpl
        after == IF kept THEN Applied(s, load[l].version, load[l].found) ELSE s
    IN  /\ w # NoWrapper
        /\ wrapper' = [wrapper EXCEPT ![w] = Cleared([after EXCEPT !.materialized = TRUE])]
        /\ reach' = IF kept THEN reach \cup load[l].found ELSE reach
        /\ load' = [load EXCEPT ![l] = Idle]
        /\ Notified(unmaterialized)
        /\ UNCHANGED <<made, queued, fresh, edited, failures>>

\* Wrong on purpose: a load that fails is counted as done.
LoadFailsCounted(l) ==
    LET w == load[l].of
    IN  /\ w # NoWrapper
        /\ failures < MaxFailures
        /\ failures' = failures + 1
        /\ wrapper' = [wrapper EXCEPT ![w] = Cleared(@)]
        /\ load' = [load EXCEPT ![l] = Idle]
        /\ Notified(unmaterialized)
        /\ UNCHANGED <<made, reach, queued, fresh, edited>>

\* The materializeFunc rejects; the next access will try again.
LoadFails(l) ==
    LET w == load[l].of
    IN  /\ w # NoWrapper
        /\ failures < MaxFailures
        /\ failures' = failures + 1
        /\ wrapper' = [wrapper EXCEPT ![w] = Cleared(@)]
        /\ load' = [load EXCEPT ![l] = Idle]
        /\ UNCHANGED <<made, reach, queued, fresh, unmaterialized, complete, waiting, edited>>

-----------------------------------------------------------------------------
(* Edits of a built tree.                                                  *)

Edit(kind, w) == /\ kind \in Edits
                 /\ w \in reach \ edited
                 /\ edited' = edited \cup {w}

\* ___setImpl(): the state of the wrapper, before the notification.
SetTo(s, v) == [Applied(s, v, {}) EXCEPT !.materialized = TRUE, !.inFlight = FALSE]

\* ___setImpl() on a wrapper of the tree: a rollback to an earlier owner, or
\* a collision merge.
SetImpl(w) ==
    /\ Edit("setImpl", w)
    /\ wrapper' = [wrapper EXCEPT ![w] = SetTo(@, 1)]
    /\ Notified(unmaterialized)
    /\ UNCHANGED <<made, reach, load, queued, fresh, failures>>

\* A reload builds the tree anew from the sources of now: the folder gets a
\* second wrapper.
BuildFresh(w, f) ==
    /\ "reload" \in Edits
    /\ w \in (reach \cap Folders) \ edited
    /\ fresh[w] = NoWrapper
    /\ f \in Folders
    /\ fresh' = [fresh EXCEPT ![w] = f]
    /\ Construct(f, BuiltFolder(2))
    /\ unmaterialized' = Registered
    /\ UNCHANGED <<reach, load, complete, waiting, edited, failures>>

\* ___invalidate().
Invalidated(s) == [s EXCEPT !.invalid = TRUE, !.impl = NoImpl, !.children = {}]

\* ___resetLazy(): a shell again, as if new, with the materializeFunc of v.
ResetLazy(v) == Shell(v)

\* The second half of a reload, at once when the build is over: the wrapper
\* of the tree is made a shell again with the fresh materializeFunc, its
\* children invalidated, or it gets the fresh implementation when there is one.
Restore(w) ==
    LET f == wrapper[fresh[w]]
    IN  /\ fresh[w] # NoWrapper
        /\ fresh' = [fresh EXCEPT ![w] = NoWrapper]
        /\ Edit("reload", w)
        /\ \/ /\ ~f.materialized
              /\ wrapper' = [x \in Wrappers |->
                                CASE x = w -> ResetLazy(f.version)
                                  [] x \in wrapper[w].children \ {w} -> Invalidated(wrapper[x])
                                  [] OTHER -> wrapper[x]]
              /\ UNCHANGED <<unmaterialized, complete, waiting>>
           \/ /\ f.materialized
              /\ wrapper' = [wrapper EXCEPT ![w] = SetTo(@, f.impl)]
              /\ Notified(unmaterialized)
        /\ UNCHANGED <<made, reach, load, queued, failures>>

\* w is a property of no wrapper any more.
Without(s, w) == [s EXCEPT !.children = @ \ {w}]
Detached(w) == [x \in Wrappers |-> Without(wrapper[x], w)]

\* delete api.folder.w, through the proxy of the folder.
Invalidate(w) ==
    /\ Edit("invalidate", w)
    /\ \E p \in Wrappers : w \in wrapper[p].children
    /\ wrapper' = [Detached(w) EXCEPT ![w] = Invalidated(@)]
    /\ UNCHANGED <<made, reach, load, queued, fresh, unmaterialized, complete, waiting,
                   failures>>

Deleted(s) == [s EXCEPT !.impl = NoImpl, !.children = {}, !.materialized = FALSE,
                        !.inFlight = FALSE]

\* deletePath() of api.remove().  It does not invalidate: who kept a reference
\* can load w again.
DeletePath(w) ==
    /\ Edit("delete", w)
    /\ wrapper' = [Detached(w) EXCEPT ![w] = Deleted(@)]
    /\ UNCHANGED <<made, reach, load, queued, fresh, unmaterialized, complete, waiting,
                   failures>>

\* materialize.wait(), called while folders are not loaded; otherwise it
\* returns at once.
Wait(c) ==
    /\ c \in Callers \ waiting
    /\ unmaterialized # 0
    /\ waiting' = waiting \cup {c}
    /\ UNCHANGED <<made, reach, wrapper, load, queued, fresh, unmaterialized, complete,
                   edited, failures>>

Next ==
    \/ \E w \in Wrappers :
          \/ AddFolder(w) \/ AddContainer(w) \/ Access(w) \/ Background(w)
          \/ SetImpl(w) \/ Restore(w) \/ Invalidate(w) \/ DeletePath(w)
          \/ \E f \in Folders : BuildFresh(w, f)
    \/ \E l \in Loads :
          \/ LoadReturns(l) \/ LoadFails(l)
          \/ \E w \in Folders : Discover(l, w)
    \/ \E c \in Callers : Wait(c)

Spec == Init /\ [][Next]_vars

\* A load returns or fails in the end, and setImmediate callbacks run.
Fairness ==
    /\ \A l \in Loads : WF_vars(LoadReturns(l) \/ LoadFails(l))
    /\ \A w \in Wrappers : WF_vars(Background(w))

FairSpec == Spec /\ Fairness

-----------------------------------------------------------------------------
WrapperState == [impl : Nat, version : Nat, children : SUBSET Wrappers,
                 materialized : BOOLEAN, invalid : BOOLEAN, inFlight : BOOLEAN,
                 promise : Loads \cup {NoPromise, Settled}]

LoadState == [of : Wrappers \cup {NoWrapper}, version : Nat, found : SUBSET Wrappers]

\* Every variable has its type.
TypeOK ==
    /\ made \subseteq Wrappers /\ reach \subseteq made /\ queued \subseteq made
    /\ wrapper \in [Wrappers -> WrapperState]
    /\ load \in [Loads -> LoadState]
    /\ fresh \in [Wrappers -> Wrappers \cup {NoWrapper}]
    /\ unmaterialized \in Int /\ complete \in BOOLEAN
    /\ waiting \subseteq Callers
    /\ edited \subseteq Wrappers /\ failures \in 0 .. MaxFailures

\* Whoever joins a load joins one that is under way, and a wrapper says it is
\* in flight only then.  Reloads, removals and failures, which all write these
\* fields behind the back of a load, leave no promise nobody will settle.
NoDeadPromise ==
    \A w \in Wrappers :
        /\ wrapper[w].promise \in Loads => load[wrapper[w].promise].of = w
        /\ wrapper[w].inFlight => InFlightLoads(w) # {}

\* The folder of a wrapper nobody edits is never loaded twice at once, however
\* the accesses, the background load and failed attempts fall together
\* (the stored promise of ___materialize()).
OneLoadAtATime ==
    \A w \in Wrappers \ edited, l1, l2 \in Loads :
        l1 # l2 /\ load[l1].of = w => load[l2].of # w

\* While no wrapper has been edited, the counter is the number of wrappers
\* not loaded, those of nested folders found half-way through a load and of
\* loads that failed included: api.slothlet.materialize tells the truth.
CountsUnloaded ==
    edited = {} /\ Mode = "lazy" =>
        unmaterialized = Cardinality({w \in made : ~wrapper[w].materialized})

\* wait() never returns too early: while no wrapper has been edited, a caller
\* leaves the queue only when every wrapper made so far is loaded.
NoEarlyAnswer ==
    [][edited' = {} /\ waiting' # waiting /\ waiting' \subseteq waiting
         => \A w \in made' : wrapper'[w].materialized]_vars

\* A caller that waits before the first completion is answered, whatever is
\* added or found meanwhile, unless a load fails or a wrapper is edited.
EarlyWaiterAnswered ==
    \A c \in Callers :
        (c \in waiting /\ ~complete) ~> (c \notin waiting \/ failures > 0 \/ edited # {})

\* What materialize-manager.mjs says of wait(): "Returns immediately if already
\* fully materialized", "Resolves when all lazy wrappers have materialized".
NobodyWaitsWhenLoaded == (\A w \in made : wrapper[w].materialized) => waiting = {}

\* What RELOAD.md says of a reset wrapper: "The next access triggers fresh
\* materialization from the updated source": what it serves is no older than
\* its materializeFunc.
ServesCurrentSource ==
    \A w \in reach : wrapper[w].impl # NoImpl => wrapper[w].impl >= wrapper[w].version
=============================================================================
