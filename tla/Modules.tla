------------------------------- MODULE Modules -------------------------------
(***************************************************************************)
(* The ModuleManager of slothlet (src/src/lib/handlers/module-manager.mjs):*)
(* addModules() mounts a list of packages with a pool of workers, each     *)
(* through an api.add() that takes its time and may fail, while other      *)
(* calls do the same and removeModule() takes packages away.               *)
(*                                                                         *)
(* A package is one name at one version.  Discovery, and the names that    *)
(* cannot be resolved, are over before anything is mounted and left out;   *)
(* so are lists with two versions of one name, which go to Versions.       *)
(***************************************************************************)
EXTENDS Naturals, Sequences, FiniteSets, SequencesExt

CONSTANTS
    Packages,
    MountPath,      \* MountPath[k]: where package k asks to be mounted
    Calls,          \* calls of addModules()
    Items,          \* Items[c]: the packages, in order
    Concurrency,    \* Concurrency[c]
    Strict,         \* the calls with collisionMode "error"
    Removable,      \* bound: the packages that are removed by name
    None,
    MaxStuck        \* bound: removals that have failed

FailureModes == {"throw", "rollback", "best-effort"}

\* An item of a call, and the mount that comes of it.
Mounts == UNION {{c} \X DOMAIN Items[c] : c \in Calls}
PackageOf(x) == Items[x[1]][x[2]]
PathOf(x) == MountPath[PackageOf(x)]
Workers(c) == 1..(IF Concurrency[c] < Len(Items[c]) THEN Concurrency[c] ELSE Len(Items[c]))

ASSUME CallsAssumption ==
    /\ \A c \in Calls : /\ Items[c] \in Seq(Packages) /\ Items[c] # <<>>
                        /\ Concurrency[c] \in Nat \ {0}
    /\ Strict \subseteq Calls /\ Removable \subseteq Packages /\ None \notin Mounts /\ MaxStuck \in Nat

VARIABLES
    phase,
    onFailure,      \* the option of the call
    worker,     \* worker[c][w]: the item it has, what it does, "hit" if the place was taken
    next,       \* nextIndex
    error,      \* firstError
    mounted, failed,
    queue,      \* queue[c]: what #rollback() has still to remove
    live,       \* mounts in addHistory, and in the tree
    tracked,    \* #mounted: package to mount
    leaving     \* leaving[k]: the removal of package k that is under way

\* Kept for the properties only.
VARIABLES
    together,   \* pairs of mounts whose adds overlapped
    twice,      \* packages that were asked for again while still there
    stuck       \* mounts whose removal failed

pool == <<phase, onFailure, worker, next, error, mounted, failed, queue>>
api == <<live, tracked, leaving>>
history == <<together, twice, stuck>>
vars == <<pool, api, history>>

Away == [item |-> 0, at |-> "away", hit |-> FALSE]
NoRemoval == [mount |-> None, gone |-> FALSE]

Busy == {"adding", "added", "recorded"}
Doing(x, steps) == \E w \in DOMAIN worker[x[1]] : worker[x[1]][w].item = x[2] /\ worker[x[1]][w].at \in steps
Adding(x) == Doing(x, {"adding"})
InFlight(x) == Doing(x, Busy)
MayRollBack(x) ==
    /\ onFailure[x[1]] = "rollback" /\ phase[x[1]] \in {"mounting", "rolling", "forgetting"}
    /\ x[2] \in ToSet(mounted[x[1]])

-----------------------------------------------------------------------------
Init ==
    /\ phase = [c \in Calls |-> "idle"] /\ onFailure = [c \in Calls |-> "throw"]
    /\ worker = [c \in Calls |-> [w \in Workers(c) |-> Away]]
    /\ next = [c \in Calls |-> 1] /\ error = [c \in Calls |-> FALSE]
    /\ mounted = [c \in Calls |-> <<>>] /\ failed = [c \in Calls |-> {}]
    /\ queue = [c \in Calls |-> <<>>]
    /\ live = {} /\ tracked = [k \in Packages |-> None] /\ leaving = [k \in Packages |-> NoRemoval]
    /\ together = {} /\ twice = {} /\ stuck = {}

-----------------------------------------------------------------------------
(* #mountSingle().                                                         *)

\* #findExactMountAt().
Occupied(path) == \E x \in live : PathOf(x) = path

\* Wrong on purpose: only what the manager has recorded is looked at.
StartUnrecorded(c, i) ==
    [item |-> i, at |-> "adding",
     hit |-> c \in Strict /\ tracked[Items[c][i]] # None]

\* The check for a collision, and then api.add().
Start(c, i) ==
    [item |-> i, at |-> "adding", hit |-> c \in Strict /\ Occupied(MountPath[Items[c][i]])]

\* The histories of the items xs that are started.
Started(xs) ==
    /\ together' = together \cup
        {{p[1], p[2]} : p \in {q \in xs \X {z \in Mounts : Adding(z) \/ z \in xs} :
                                    q[1] # q[2] /\ PathOf(q[1]) = PathOf(q[2])}}
    /\ twice' = twice \cup
        {k \in Packages :
            /\ \E x \in xs : PackageOf(x) = k
            /\ \/ tracked[k] # None \/ leaving[k] # NoRemoval
               \/ \E y \in Mounts : PackageOf(y) = k /\ (y \in live \/ InFlight(y) \/ MayRollBack(y))
               \/ \E x, y \in xs : x # y /\ PackageOf(x) = k /\ PackageOf(y) = k}
    /\ UNCHANGED stuck

\* addModules(): each worker takes an item at once.
Begin(c, mode) ==
    /\ phase[c] = "idle"
    /\ onFailure' = [onFailure EXCEPT ![c] = mode]
    /\ phase' = [phase EXCEPT ![c] = "mounting"]
    /\ worker' = [worker EXCEPT ![c] = [w \in Workers(c) |-> Start(c, w)]]
    /\ next' = [next EXCEPT ![c] = Cardinality(Workers(c)) + 1]
    /\ Started({<<c, w>> : w \in Workers(c)})
    /\ UNCHANGED <<error, mounted, failed, queue, api>>

\* The head of the loop of a worker.
TakeNext(c, w) ==
    IF (error'[c] /\ onFailure[c] # "best-effort") \/ next[c] > Len(Items[c])
    THEN worker' = [worker EXCEPT ![c][w] = Away] /\ UNCHANGED <<next, history>>
    ELSE /\ worker' = [worker EXCEPT ![c][w] = Start(c, next[c])]
         /\ next' = [next EXCEPT ![c] = @ + 1]
         /\ Started({<<c, next[c]>>})

\* api.add() has put the component into the tree and into addHistory.
Add(c, w) ==
    /\ worker[c][w].at = "adding" /\ ~worker[c][w].hit
    /\ live' = live \cup {<<c, worker[c][w].item>>}
    /\ worker' = [worker EXCEPT ![c][w].at = "added"]
    /\ UNCHANGED <<phase, onFailure, next, error, mounted, failed, queue, tracked, leaving, history>>

\* It returns; "modules:mount-complete" is emitted and awaited.
Record(c, w) ==
    /\ worker[c][w].at = "added"
    /\ tracked' = [tracked EXCEPT ![Items[c][worker[c][w].item]] = <<c, worker[c][w].item>>]
    /\ worker' = [worker EXCEPT ![c][w].at = "recorded"]
    /\ UNCHANGED <<phase, onFailure, next, error, mounted, failed, queue, live, leaving, history>>

Mounted(c, w) ==
    /\ worker[c][w].at = "recorded"
    /\ mounted' = [mounted EXCEPT ![c] = Append(@, worker[c][w].item)]
    /\ UNCHANGED <<error, phase, onFailure, failed, queue, api>>
    /\ TakeNext(c, w)

\* The place is taken, or api.add() throws.
Fail(c, w) ==
    /\ worker[c][w].at = "adding"
    /\ IF onFailure[c] = "best-effort"
       THEN failed' = [failed EXCEPT ![c] = @ \cup {worker[c][w].item}] /\ UNCHANGED error
       ELSE error' = [error EXCEPT ![c] = TRUE] /\ UNCHANGED failed
    /\ UNCHANGED <<phase, onFailure, mounted, queue, api>>
    /\ TakeNext(c, w)

\* Wrong on purpose: the first failure is not held back until all are done.
FinishEarly(c) ==
    /\ phase[c] = "mounting"
    /\ error[c] \/ \A w \in Workers(c) : worker[c][w].at = "away"
    /\ phase' = [phase EXCEPT ![c] =
                    IF ~error[c] THEN "returned" ELSE IF onFailure[c] = "rollback" THEN "rolling" ELSE "threw"]
    /\ queue' = [queue EXCEPT ![c] = IF error[c] /\ onFailure[c] = "rollback" THEN mounted[c] ELSE <<>>]
    /\ UNCHANGED <<onFailure, worker, next, error, mounted, failed, api, history>>

\* Wrong on purpose: it waits for a result from every item.
FinishComplete(c) ==
    /\ phase[c] = "mounting" /\ Len(mounted[c]) + Cardinality(failed[c]) = Len(Items[c])
    /\ phase' = [phase EXCEPT ![c] = "returned"]
    /\ UNCHANGED <<onFailure, worker, next, error, mounted, failed, queue, api, history>>

\* Promise.all() of the workers.
Finish(c) ==
    /\ phase[c] = "mounting"
    /\ \A w \in Workers(c) : worker[c][w].at = "away"
    /\ phase' = [phase EXCEPT ![c] =
                    IF ~error[c] THEN "returned" ELSE IF onFailure[c] = "rollback" THEN "rolling" ELSE "threw"]
    /\ queue' = [queue EXCEPT ![c] = IF error[c] /\ onFailure[c] = "rollback" THEN mounted[c] ELSE <<>>]
    /\ UNCHANGED <<onFailure, worker, next, error, mounted, failed, api, history>>

-----------------------------------------------------------------------------
(* Removals: each awaits removeApiComponent() and then forgets the package.*)

\* A removal of mount x has come to an end, or it has thrown.
Gone(x) == live' = live \ {x} /\ stuck' = stuck \ {x} /\ UNCHANGED <<together, twice>>
Remains(x) == Cardinality(stuck) < MaxStuck /\ stuck' = stuck \cup {x} /\ UNCHANGED <<live, together, twice>>

\* #rollback(): a removal that throws is passed over.
Rollback(c) ==
    /\ phase[c] = "rolling" /\ queue[c] # <<>>
    /\ LET x == <<c, Head(queue[c])>>
       IN  \/ Gone(x) /\ phase' = [phase EXCEPT ![c] = "forgetting"] /\ UNCHANGED queue
           \/ Remains(x) /\ queue' = [queue EXCEPT ![c] = Tail(@)] /\ UNCHANGED phase
    /\ UNCHANGED <<onFailure, worker, next, error, mounted, failed, tracked, leaving>>

RollbackForgets(c) ==
    /\ phase[c] = "forgetting"
    /\ tracked' = [tracked EXCEPT ![Items[c][Head(queue[c])]] = None]
    /\ queue' = [queue EXCEPT ![c] = Tail(@)]
    /\ phase' = [phase EXCEPT ![c] = "rolling"]
    /\ UNCHANGED <<onFailure, worker, next, error, mounted, failed, live, leaving, history>>

RollbackEnds(c) ==
    /\ phase[c] = "rolling" /\ queue[c] = <<>>
    /\ phase' = [phase EXCEPT ![c] = "threw"]
    /\ UNCHANGED <<onFailure, worker, next, error, mounted, failed, queue, api, history>>

\* removeModule().
RemoveModule(k) ==
    /\ tracked[k] # None /\ leaving[k] = NoRemoval
    /\ leaving' = [leaving EXCEPT ![k] = [mount |-> tracked[k], gone |-> FALSE]]
    /\ UNCHANGED <<pool, live, tracked, history>>

Removal(k) ==
    /\ leaving[k] # NoRemoval /\ ~leaving[k].gone
    /\ \/ Gone(leaving[k].mount) /\ leaving' = [leaving EXCEPT ![k].gone = TRUE]
       \/ Remains(leaving[k].mount) /\ leaving' = [leaving EXCEPT ![k] = NoRemoval]
    /\ UNCHANGED <<pool, tracked>>

\* Wrong on purpose: it forgets nothing.
ForgetNothing(k) ==
    /\ leaving[k].gone
    /\ leaving' = [leaving EXCEPT ![k] = NoRemoval]
    /\ UNCHANGED <<pool, live, tracked, history>>

Forget(k) ==
    /\ leaving[k].gone
    /\ tracked' = [tracked EXCEPT ![k] = None]
    /\ leaving' = [leaving EXCEPT ![k] = NoRemoval]
    /\ UNCHANGED <<pool, live, history>>

-----------------------------------------------------------------------------
CallStep(c) ==
    \/ \E w \in Workers(c) : Add(c, w) \/ Record(c, w) \/ Mounted(c, w) \/ Fail(c, w)
    \/ Finish(c) \/ Rollback(c) \/ RollbackForgets(c) \/ RollbackEnds(c)

Next ==
    \/ \E c \in Calls : CallStep(c) \/ \E mode \in FailureModes : Begin(c, mode)
    \/ \E k \in Removable : RemoveModule(k) \/ Removal(k) \/ Forget(k)

\* api.add() and api.remove() settle sooner or later.
Fairness == \A c \in Calls : WF_vars(CallStep(c))

Spec == Init /\ [][Next]_vars /\ Fairness

-----------------------------------------------------------------------------
(* Properties.                                                             *)

Slots(c) == [item : 0..Len(Items[c]), at : Busy \cup {"away"}, hit : BOOLEAN]

TypeOK ==
    /\ phase \in [Calls -> {"idle", "mounting", "rolling", "forgetting", "returned", "threw"}]
    /\ onFailure \in [Calls -> FailureModes]
    /\ worker = [c \in Calls |-> worker[c]] /\ \A c \in Calls : worker[c] \in [Workers(c) -> Slots(c)]
    /\ next \in [Calls -> Nat] /\ \A c \in Calls : next[c] \in 1..Len(Items[c]) + 1
    /\ error \in [Calls -> BOOLEAN]
    /\ mounted \in [Calls -> Seq(Nat)] /\ \A c \in Calls : mounted[c] \in Seq(DOMAIN Items[c])
    /\ failed \in [Calls -> SUBSET Nat] /\ \A c \in Calls : failed[c] \subseteq DOMAIN Items[c]
    /\ queue \in [Calls -> Seq(Nat)] /\ \A c \in Calls : queue[c] \in Seq(DOMAIN Items[c])
    /\ live \subseteq Mounts /\ stuck \subseteq Mounts /\ twice \subseteq Packages
    /\ tracked \in [Packages -> Mounts \cup {None}]
    /\ leaving \in [Packages -> [mount : Mounts \cup {None}, gone : BOOLEAN]]

\* A rollback that is over leaves nothing of its call mounted, what other
\* workers finished after the failure included, but for removals that threw.
RollbackLeavesNothing ==
    \A c \in Calls : phase[c] = "threw" /\ onFailure[c] = "rollback" =>
        \A x \in live : x[1] = c => x \in stuck

\* In "error" mode two packages come to share a mount path only if their adds
\* overlapped: the check is made before an await, and the next one in a row
\* sees what the one before it has done.
CollisionsOverlap ==
    \A x, y \in live :
        /\ x # y /\ x[1] \in Strict /\ y[1] \in Strict
        /\ PathOf(x) = PathOf(y)
        => {x, y} \in together

\* What stays mounted can be removed by its name, and what cannot be removed
\* any more is not listed: however calls, rollbacks and removals interleave,
\* as long as no package is asked for again before it is gone.
TrackedIsLive ==
    \A x \in Mounts :
        LET k == PackageOf(x)
        IN  k \notin twice /\ ~InFlight(x) =>
                /\ x \in live => tracked[k] = x
                /\ tracked[k] = x => x \in live \/ leaving[k] = [mount |-> x, gone |-> TRUE] \/ phase[x[1]] = "forgetting"

\* Every call of addModules() ends, whatever fails.
CallsEnd == \A c \in Calls : phase[c] = "mounting" ~> phase[c] \in {"returned", "threw"}
=============================================================================
