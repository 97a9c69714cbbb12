------------------------ MODULE MaterializationProofs ------------------------
(***************************************************************************)
(* Proofs about Materialization: its types, the promises of loads, how     *)
(* often a folder is loaded, and what the counter of unloaded folders and  *)
(* those who wait for it may rely on, for any number of folders, loads and *)
(* callers, in both modes.                                                 *)
(***************************************************************************)
EXTENDS Materialization, FiniteSetTheorems, TLAPS

\* The strengthening: a load belongs to a wrapper that was made, and unless
\* that wrapper has been edited, it is the one its promise stands for.
LoadsAreMade ==
    \A l \in Loads : /\ load[l].of # NoWrapper => load[l].of \in made
                     /\ load[l].found \subseteq made

LoadsAreKept ==
    \A l \in Loads : \A w \in Wrappers \ edited :
        load[l].of = w => wrapper[w].promise = l

IInv == TypeOK /\ NoDeadPromise /\ LoadsAreMade /\ LoadsAreKept

-----------------------------------------------------------------------------
(* What the helpers return.                                                *)

\* A shell is a wrapper state with no promise, not in flight.
LEMMA ShellType ==
    ASSUME NEW v \in Nat
    PROVE  /\ Shell(v) \in WrapperState
           /\ Shell(v).promise = NoPromise /\ ~Shell(v).inFlight
BY DEF Shell, WrapperState, NoImpl

\* So is a wrapper made with its implementation.
LEMMA LoadedType ==
    ASSUME NEW v \in Nat
    PROVE  /\ Loaded(v) \in WrapperState
           /\ Loaded(v).promise = NoPromise /\ ~Loaded(v).inFlight
BY DEF Loaded, Shell, WrapperState, NoImpl, NoFunc

\* The end of a load, an application and a ___setImpl keep the type.
LEMMA StateTypes ==
    ASSUME NEW s \in WrapperState, NEW v \in Nat, NEW cs \in SUBSET Wrappers
    PROVE  /\ Cleared(s) \in WrapperState
           /\ Cleared(s).promise = NoPromise /\ ~Cleared(s).inFlight
           /\ Applied(s, v, cs) \in WrapperState
           /\ SetTo(s, v) \in WrapperState
           /\ SetTo(s, v).promise = s.promise /\ ~SetTo(s, v).inFlight
           /\ Invalidated(s) \in WrapperState
           /\ Invalidated(s).promise = s.promise
           /\ Invalidated(s).inFlight = s.inFlight
BY DEF Cleared, Applied, SetTo, Invalidated, WrapperState, NoImpl

\* So do the start of a load,
LEMMA LoadedByType ==
    ASSUME NEW s \in WrapperState, NEW l \in Loads
    PROVE  LoadedBy(s, l) \in WrapperState /\ LoadedBy(s, l).promise = l
BY DEF LoadedBy, WrapperState

\* a removal and the loss of a child.
LEMMA MoreStateTypes ==
    ASSUME NEW s \in WrapperState, NEW w \in Wrappers
    PROVE  /\ Deleted(s) \in WrapperState
           /\ Deleted(s).promise = s.promise /\ ~Deleted(s).inFlight
           /\ Without(s, w) \in WrapperState
           /\ Without(s, w).promise = s.promise /\ Without(s, w).inFlight = s.inFlight
BY DEF Deleted, Without, WrapperState, NoImpl

\* The counter stays an integer and the waiters callers.
LEMMA NotifiedType ==
    ASSUME NEW n \in Int, complete \in BOOLEAN, waiting \subseteq Callers, Notified(n)
    PROVE  unmaterialized' \in Int /\ complete' \in BOOLEAN /\ waiting' \subseteq Callers
BY DEF Notified

LEMMA RegisteredType ==
    ASSUME unmaterialized \in Int
    PROVE  Registered \in Int
BY DEF Registered

\* A wrapper constructed with neither promise nor flag disturbs no other.
LEMMA ConstructKeeps ==
    ASSUME IInv, NEW w \in Wrappers, NEW s \in WrapperState, Construct(w, s),
           s.promise = NoPromise, ~s.inFlight,
           load' \in [Loads -> LoadState],
           \A l \in Loads : /\ load'[l].of = load[l].of
                            /\ load'[l].found \subseteq load[l].found \cup {w},
           edited' = edited
    PROVE  /\ made' \subseteq Wrappers /\ queued' \subseteq made' /\ made \subseteq made'
           /\ wrapper' \in [Wrappers -> WrapperState]
           /\ NoDeadPromise' /\ LoadsAreMade' /\ LoadsAreKept'
<1> USE DEF IInv, TypeOK
<1>1. /\ made' \subseteq Wrappers /\ queued' \subseteq made' /\ made \subseteq made'
      /\ wrapper' \in [Wrappers -> WrapperState]
  BY DEF Construct
<1>2. wrapper' = [wrapper EXCEPT ![w] = s] /\ w \notin made
  BY DEF Construct
<1>3. ASSUME NEW x \in Wrappers
      PROVE  /\ x = w => wrapper'[x] = s
             /\ x # w => wrapper'[x] = wrapper[x]
             /\ InFlightLoads(x)' = InFlightLoads(x)
  BY <1>2 DEF InFlightLoads
<1>4. NoDeadPromise'
  <2> SUFFICES ASSUME NEW x \in Wrappers
               PROVE  /\ wrapper'[x].promise \in Loads => load'[wrapper'[x].promise].of = x
                      /\ wrapper'[x].inFlight => InFlightLoads(x)' # {}
    BY DEF NoDeadPromise
  <2>1. CASE x = w
    BY <2>1, <1>3, NoneAssumption
  <2>2. CASE x # w
    BY <2>2, <1>3 DEF NoDeadPromise
  <2> QED BY <2>1, <2>2
<1>5. LoadsAreMade'
  BY <1>1 DEF LoadsAreMade, Construct
<1>6. LoadsAreKept'
  <2> SUFFICES ASSUME NEW l \in Loads, NEW x \in Wrappers \ edited, load'[l].of = x
               PROVE  wrapper'[x].promise = l
    BY DEF LoadsAreKept
  <2>1. load[l].of = x /\ x # NoWrapper
    BY NoneAssumption
  <2>2. x # w
    BY <2>1, <1>2 DEF LoadsAreMade
  <2> QED BY <2>1, <2>2, <1>3 DEF LoadsAreKept
<1> QED BY <1>1, <1>4, <1>5, <1>6

\* A start fits the type and disturbs no invariant: nobody else's load has the
\* wrapper, because it had no promise.
LEMMA StartKeeps ==
    ASSUME IInv, NEW w \in made, Start(w), edited' = edited, made' = made
    PROVE  /\ wrapper' \in [Wrappers -> WrapperState] /\ load' \in [Loads -> LoadState]
           /\ NoDeadPromise' /\ LoadsAreMade' /\ LoadsAreKept'
<1> USE DEF IInv, TypeOK
<1>1. w \in Wrappers /\ w # NoWrapper /\ wrapper[w].promise = NoPromise
  BY NoneAssumption DEF Start, MayStart
<1>2. CASE \E l \in Loads : /\ load[l].of = NoWrapper
                           /\ load' = [load EXCEPT ![l] = [of |-> w, version |-> wrapper[w].version, found |-> {}]]
                           /\ wrapper' = [wrapper EXCEPT ![w] = LoadedBy(@, l)]
  <2>1. PICK l \in Loads :
              /\ load[l].of = NoWrapper
              /\ load' = [load EXCEPT ![l] = [of |-> w, version |-> wrapper[w].version, found |-> {}]]
              /\ wrapper' = [wrapper EXCEPT ![w] = LoadedBy(@, l)]
    BY <1>2
  <2>2. load' \in [Loads -> LoadState] /\ load'[l].of = w
    BY <2>1, <1>1 DEF LoadState, WrapperState
  <2>3. \A k \in Loads : k # l => load'[k] = load[k]
    BY <2>1
  <2>4. /\ wrapper' \in [Wrappers -> WrapperState]
        /\ wrapper'[w].promise = l
        /\ \A x \in Wrappers : x # w => wrapper'[x] = wrapper[x]
    <3>1. LoadedBy(wrapper[w], l) \in WrapperState /\ LoadedBy(wrapper[w], l).promise = l
      <4>1. wrapper[w] \in WrapperState
        BY <1>1
      <4> QED BY <4>1, LoadedByType
    <3>2. wrapper' = [wrapper EXCEPT ![w] = LoadedBy(wrapper[w], l)]
      BY <2>1
    <3> HIDE DEF IInv
    <3>3. wrapper \in [Wrappers -> WrapperState]
      BY DEF IInv, TypeOK
    <3> QED BY <1>1, <3>1, <3>2, <3>3
  <2>5. NoDeadPromise'
    <3> SUFFICES ASSUME NEW x \in Wrappers
                 PROVE  /\ wrapper'[x].promise \in Loads => load'[wrapper'[x].promise].of = x
                        /\ wrapper'[x].inFlight => \E k \in Loads : load'[k].of = x
      BY DEF NoDeadPromise, InFlightLoads
    <3>1. CASE x = w
      BY <3>1, <2>2, <2>4
    <3>2. CASE x # w
      <4>1. wrapper[x].inFlight => \E k \in Loads : load[k].of = x
        BY DEF NoDeadPromise, InFlightLoads
      <4>2. wrapper[x].promise \in Loads => load[wrapper[x].promise].of = x
        BY DEF NoDeadPromise
      <4>3. x # NoWrapper /\ wrapper'[x] = wrapper[x]
        BY <3>2, <2>4, NoneAssumption
      <4> QED BY <4>1, <4>2, <4>3, <2>1, <2>3
    <3> QED BY <3>1, <3>2
  <2>6. LoadsAreMade'
    BY <2>1, <2>2, <2>3 DEF LoadsAreMade
  <2>7. LoadsAreKept'
    <3> SUFFICES ASSUME NEW k \in Loads, NEW x \in Wrappers \ edited, load'[k].of = x
                 PROVE  wrapper'[x].promise = k
      BY DEF LoadsAreKept
    <3>1. CASE k = l
      BY <3>1, <2>2, <2>4
    <3>2. CASE k # l
      <4>1. load[k].of = x /\ wrapper[x].promise = k
        BY <3>2, <2>3 DEF LoadsAreKept
      <4>2. x # w
        BY <4>1, <1>1, NoneAssumption
      <4> QED BY <4>1, <4>2, <2>4
    <3> QED BY <3>1, <3>2
  <2> QED BY <2>2, <2>4, <2>5, <2>6, <2>7
<1>3. CASE wrapper' = [wrapper EXCEPT ![w].promise = Settled] /\ UNCHANGED load
  <2>1. /\ wrapper' \in [Wrappers -> WrapperState]
        /\ wrapper'[w].promise = Settled /\ wrapper'[w].inFlight = wrapper[w].inFlight
        /\ \A x \in Wrappers : x # w => wrapper'[x] = wrapper[x]
    BY <1>3, <1>1 DEF WrapperState
  <2>2. NoDeadPromise'
    <3> SUFFICES ASSUME NEW x \in Wrappers
                 PROVE  /\ wrapper'[x].promise \in Loads => load[wrapper'[x].promise].of = x
                        /\ wrapper'[x].inFlight => \E k \in Loads : load[k].of = x
      BY <1>3 DEF NoDeadPromise, InFlightLoads
    <3>1. /\ wrapper[x].promise \in Loads => load[wrapper[x].promise].of = x
          /\ wrapper[x].inFlight => \E k \in Loads : load[k].of = x
      BY DEF NoDeadPromise, InFlightLoads
    <3> QED BY <3>1, <2>1, NoneAssumption
  <2>3. LoadsAreMade'
    BY <1>3 DEF LoadsAreMade
  <2>4. LoadsAreKept'
    <3> SUFFICES ASSUME NEW k \in Loads, NEW x \in Wrappers \ edited, load[k].of = x
                 PROVE  wrapper'[x].promise = k
      BY <1>3 DEF LoadsAreKept
    <3>1. wrapper[x].promise = k
      BY DEF LoadsAreKept
    <3>2. x # w
      BY <3>1, <1>1, NoneAssumption
    <3> QED BY <3>1, <3>2, <2>1
  <2> QED BY <1>3, <2>1, <2>2, <2>3, <2>4
<1> QED BY <1>2, <1>3 DEF Start

\* When a load is over, no promise and no flag is left that stands for it.
LEMMA SettleKeeps ==
    ASSUME IInv, NEW l \in Loads, load[l].of # NoWrapper,
           NEW s \in WrapperState, s.promise = NoPromise, ~s.inFlight,
           wrapper' = [wrapper EXCEPT ![load[l].of] = s],
           load' = [load EXCEPT ![l] = Idle],
           edited' = edited, made' = made
    PROVE  /\ wrapper' \in [Wrappers -> WrapperState] /\ load' \in [Loads -> LoadState]
           /\ NoDeadPromise' /\ LoadsAreMade' /\ LoadsAreKept'
<1> DEFINE w == load[l].of
<1> USE DEF IInv, TypeOK
<1>1. w \in Wrappers /\ w # NoWrapper
  BY NoneAssumption DEF LoadState
<1>2. /\ load' \in [Loads -> LoadState] /\ load'[l].of = NoWrapper /\ load'[l].found = {}
      /\ \A k \in Loads : k # l => load'[k] = load[k]
  BY DEF LoadState, Idle, NoFunc
<1>3. /\ wrapper' \in [Wrappers -> WrapperState] /\ wrapper'[w] = s
      /\ \A x \in Wrappers : x # w => wrapper'[x] = wrapper[x]
  BY <1>1
<1>4. NoDeadPromise'
  <2> SUFFICES ASSUME NEW x \in Wrappers
               PROVE  /\ wrapper'[x].promise \in Loads => load'[wrapper'[x].promise].of = x
                      /\ wrapper'[x].inFlight => \E k \in Loads : load'[k].of = x
    BY DEF NoDeadPromise, InFlightLoads
  <2>1. /\ wrapper[x].promise \in Loads => load[wrapper[x].promise].of = x
        /\ wrapper[x].inFlight => \E k \in Loads : load[k].of = x
    BY DEF NoDeadPromise, InFlightLoads
  <2>2. CASE x = w
    BY <2>2, <1>3, NoneAssumption
  <2>3. CASE x # w
    BY <2>3, <2>1, <1>2, <1>3
  <2> QED BY <2>2, <2>3
<1>5. LoadsAreMade'
  BY <1>2 DEF LoadsAreMade
<1>6. LoadsAreKept'
  <2> SUFFICES ASSUME NEW k \in Loads, NEW x \in Wrappers \ edited, load'[k].of = x
               PROVE  wrapper'[x].promise = k
    BY DEF LoadsAreKept
  <2>1. k # l /\ load[k].of = x
    BY <1>2, NoneAssumption
  <2>2. wrapper[x].promise = k
    BY <2>1 DEF LoadsAreKept
  <2>3. x # w
    BY <2>1, <2>2 DEF LoadsAreKept
  <2> QED BY <2>2, <2>3, <1>3
<1> QED BY <1>2, <1>3, <1>4, <1>5, <1>6

\* An edit of w leaves the promises of the others, and sets no flag.
LEMMA EditKeeps ==
    ASSUME IInv, NEW w \in Wrappers, edited' = edited \cup {w}, made' = made, load' = load,
           wrapper' \in [Wrappers -> WrapperState],
           \A x \in Wrappers : wrapper'[x].inFlight => wrapper[x].inFlight,
           \A x \in Wrappers : \/ wrapper'[x].promise = wrapper[x].promise
                               \/ x = w /\ wrapper'[x].promise = NoPromise
    PROVE  NoDeadPromise' /\ LoadsAreMade' /\ LoadsAreKept'
<1> USE DEF IInv
<1>1. NoDeadPromise'
  BY NoneAssumption DEF NoDeadPromise, InFlightLoads
<1>2. LoadsAreMade'
  BY DEF LoadsAreMade
<1>3. LoadsAreKept'
  BY DEF LoadsAreKept
<1> QED BY <1>1, <1>2, <1>3

-----------------------------------------------------------------------------
\* Initially nothing was made and nothing is under way.
LEMMA InitIInv == Init => IInv
<1> SUFFICES ASSUME Init PROVE IInv
  OBVIOUS
<1>1. \A w \in Wrappers : /\ wrapper[w] \in WrapperState
                          /\ wrapper[w].promise = NoPromise /\ ~wrapper[w].inFlight
  BY ShellType DEF Init, NoFunc
<1>2. load \in [Loads -> LoadState] /\ \A l \in Loads : load[l].of = NoWrapper /\ load[l].found = {}
  BY DEF Init, Idle, LoadState, NoFunc
<1>3. wrapper \in [Wrappers -> WrapperState]
  BY <1>1 DEF Init
<1>4. TypeOK
  <2>1. failures \in 0 .. MaxFailures /\ unmaterialized \in Int
    BY BoundAssumption DEF Init
  <2>2. fresh \in [Wrappers -> Wrappers \cup {NoWrapper}]
    BY DEF Init
  <2>3. /\ made \subseteq Wrappers /\ reach \subseteq made /\ queued \subseteq made
        /\ complete \in BOOLEAN /\ waiting \subseteq Callers /\ edited \subseteq Wrappers
    BY DEF Init
  <2> QED BY <1>2, <1>3, <2>1, <2>2, <2>3 DEF TypeOK
<1> QED BY <1>1, <1>2, <1>4, NoneAssumption DEF IInv, NoDeadPromise, LoadsAreMade, LoadsAreKept

\* Every step keeps the invariant.
LEMMA NextIInv == IInv /\ [Next]_vars => IInv'
<1> SUFFICES ASSUME IInv, [Next]_vars PROVE IInv'
  OBVIOUS
<1> USE DEF IInv
<1>1. ASSUME NEW w \in Wrappers, AddFolder(w) PROVE IInv'
  <2>1. BuiltFolder(1) \in WrapperState /\ BuiltFolder(1).promise = NoPromise /\ ~BuiltFolder(1).inFlight
    BY ShellType, LoadedType DEF BuiltFolder
  <2>2. Construct(w, BuiltFolder(1)) /\ UNCHANGED <<load, fresh, complete, waiting, edited, failures>>
    BY <1>1 DEF AddFolder
  <2>3. /\ made' \subseteq Wrappers /\ queued' \subseteq made' /\ made \subseteq made'
        /\ wrapper' \in [Wrappers -> WrapperState]
        /\ NoDeadPromise' /\ LoadsAreMade' /\ LoadsAreKept'
    BY <2>1, <2>2, ConstructKeeps DEF TypeOK
  <2>4. reach' \subseteq made' /\ unmaterialized' \in Int
    BY <1>1, <2>3, RegisteredType DEF AddFolder, Construct, TypeOK
  <2> QED BY <2>2, <2>3, <2>4 DEF TypeOK
<1>2. ASSUME NEW w \in Wrappers, AddContainer(w) PROVE IInv'
  <2>1. Construct(w, Loaded(1)) /\ UNCHANGED <<load, fresh, edited, failures>>
    BY <1>2 DEF AddContainer
  <2>2. /\ made' \subseteq Wrappers /\ queued' \subseteq made' /\ made \subseteq made'
        /\ wrapper' \in [Wrappers -> WrapperState]
        /\ NoDeadPromise' /\ LoadsAreMade' /\ LoadsAreKept'
    BY <2>1, LoadedType, ConstructKeeps DEF TypeOK
  <2>3. unmaterialized' \in Int /\ complete' \in BOOLEAN /\ waiting' \subseteq Callers
    BY <1>2, RegisteredType, NotifiedType DEF AddContainer, TypeOK
  <2>4. reach' \subseteq made'
    BY <1>2, <2>2 DEF AddContainer, Construct, TypeOK
  <2> QED BY <2>1, <2>2, <2>3, <2>4 DEF TypeOK
<1>3. ASSUME NEW w \in Wrappers, Access(w) PROVE IInv'
  <2>1. w \in made /\ Start(w) /\ edited' = edited /\ made' = made
    BY <1>3 DEF Access, TypeOK
  <2>2. /\ wrapper' \in [Wrappers -> WrapperState] /\ load' \in [Loads -> LoadState]
        /\ NoDeadPromise' /\ LoadsAreMade' /\ LoadsAreKept'
    BY <2>1, StartKeeps
  <2> QED BY <1>3, <2>2 DEF Access, TypeOK
<1>4. ASSUME NEW w \in Wrappers, Background(w) PROVE IInv'
  <2>1. w \in made /\ edited' = edited /\ made' = made /\ queued' \subseteq made'
    BY <1>4 DEF Background, TypeOK
  <2>2. CASE Start(w)
    <3>1. /\ wrapper' \in [Wrappers -> WrapperState] /\ load' \in [Loads -> LoadState]
          /\ NoDeadPromise' /\ LoadsAreMade' /\ LoadsAreKept'
      BY <2>1, <2>2, StartKeeps
    <3> QED BY <1>4, <2>1, <3>1 DEF Background, TypeOK
  <2>3. CASE UNCHANGED <<wrapper, load>>
    BY <1>4, <2>1, <2>3
       DEF Background, TypeOK, NoDeadPromise, InFlightLoads, LoadsAreMade, LoadsAreKept
  <2> QED BY <1>4, <2>2, <2>3 DEF Background
<1>5. ASSUME NEW w \in Wrappers, SetImpl(w) PROVE IInv'
  <2>1. /\ Edit("setImpl", w) /\ Notified(unmaterialized)
        /\ wrapper' = [wrapper EXCEPT ![w] = SetTo(wrapper[w], 1)]
        /\ UNCHANGED <<made, reach, load, queued, fresh, failures>>
    BY <1>5 DEF SetImpl
  <2>2. /\ SetTo(wrapper[w], 1) \in WrapperState /\ ~SetTo(wrapper[w], 1).inFlight
        /\ SetTo(wrapper[w], 1).promise = wrapper[w].promise
    BY StateTypes DEF TypeOK
  <2>3. /\ wrapper' \in [Wrappers -> WrapperState]
        /\ \A x \in Wrappers : wrapper'[x].inFlight => wrapper[x].inFlight
        /\ \A x \in Wrappers : wrapper'[x].promise = wrapper[x].promise
    BY <2>1, <2>2 DEF TypeOK
  <2>4. NoDeadPromise' /\ LoadsAreMade' /\ LoadsAreKept'
    BY <2>1, <2>3, EditKeeps DEF Edit
  <2>5. unmaterialized' \in Int /\ complete' \in BOOLEAN /\ waiting' \subseteq Callers
    BY <2>1, NotifiedType DEF TypeOK
  <2> QED BY <2>1, <2>3, <2>4, <2>5 DEF Edit, TypeOK
<1>6. ASSUME NEW w \in Wrappers, Restore(w) PROVE IInv'
  <2> DEFINE f == wrapper[fresh[w]]
  <2>1. f \in WrapperState
    BY <1>6 DEF Restore, TypeOK
  <2>2. /\ Edit("reload", w) /\ UNCHANGED <<made, reach, load, queued, failures>>
        /\ fresh' \in [Wrappers -> Wrappers \cup {NoWrapper}]
    BY <1>6 DEF Restore, TypeOK
  <2>3. CASE /\ UNCHANGED <<unmaterialized, complete, waiting>>
             /\ wrapper' = [x \in Wrappers |->
                               CASE x = w -> ResetLazy(f.version)
                                 [] x \in wrapper[w].children \ {w} -> Invalidated(wrapper[x])
                                 [] OTHER -> wrapper[x]]
    <3>1. /\ ResetLazy(f.version) \in WrapperState
          /\ ResetLazy(f.version).promise = NoPromise /\ ~ResetLazy(f.version).inFlight
      BY <2>1, ShellType DEF ResetLazy, WrapperState
    <3>2. ASSUME NEW x \in Wrappers
          PROVE  /\ wrapper'[x] \in WrapperState
                 /\ wrapper'[x].inFlight => wrapper[x].inFlight
                 /\ \/ wrapper'[x].promise = wrapper[x].promise
                    \/ x = w /\ wrapper'[x].promise = NoPromise
      <4>1. CASE x = w
        BY <4>1, <2>3, <3>1
      <4>2. CASE x # w /\ x \in wrapper[w].children
        <5>1. wrapper'[x] = Invalidated(wrapper[x])
          BY <4>2, <2>3
        <5> QED BY <5>1, StateTypes DEF TypeOK
      <4>3. CASE x # w /\ x \notin wrapper[w].children
        <5>1. wrapper'[x] = wrapper[x]
          BY <4>3, <2>3
        <5> QED BY <5>1 DEF TypeOK
      <4> QED BY <4>1, <4>2, <4>3
    <3>3. wrapper' \in [Wrappers -> WrapperState]
      BY <3>2, <2>3
    <3>4. NoDeadPromise' /\ LoadsAreMade' /\ LoadsAreKept'
      BY <2>2, <3>2, <3>3, EditKeeps DEF Edit
    <3> QED BY <2>2, <2>3, <3>3, <3>4 DEF Edit, TypeOK
  <2>4. CASE wrapper' = [wrapper EXCEPT ![w] = SetTo(wrapper[w], f.impl)] /\ Notified(unmaterialized)
    <3>1. /\ SetTo(wrapper[w], f.impl) \in WrapperState /\ ~SetTo(wrapper[w], f.impl).inFlight
          /\ SetTo(wrapper[w], f.impl).promise = wrapper[w].promise
      <4>1. f.impl \in Nat
        BY <2>1 DEF WrapperState
      <4> QED BY <4>1, StateTypes DEF TypeOK
    <3>2. /\ wrapper' \in [Wrappers -> WrapperState]
          /\ \A x \in Wrappers : wrapper'[x].inFlight => wrapper[x].inFlight
          /\ \A x \in Wrappers : wrapper'[x].promise = wrapper[x].promise
      BY <2>4, <3>1 DEF TypeOK
    <3>3. NoDeadPromise' /\ LoadsAreMade' /\ LoadsAreKept'
      BY <2>2, <3>2, EditKeeps DEF Edit
    <3>4. unmaterialized' \in Int /\ complete' \in BOOLEAN /\ waiting' \subseteq Callers
      BY <2>4, NotifiedType DEF TypeOK
    <3> QED BY <2>2, <3>2, <3>3, <3>4 DEF Edit, TypeOK
  <2> QED BY <1>6, <2>3, <2>4 DEF Restore
<1>7. ASSUME NEW w \in Wrappers, Invalidate(w) \/ DeletePath(w) PROVE IInv'
  <2>1. /\ Edit("invalidate", w) \/ Edit("delete", w)
        /\ UNCHANGED <<made, reach, load, queued, fresh, unmaterialized, complete, waiting, failures>>
    BY <1>7 DEF Invalidate, DeletePath
  <2>2. ASSUME NEW x \in Wrappers
        PROVE  /\ Detached(w)[x] \in WrapperState
               /\ Detached(w)[x].promise = wrapper[x].promise
               /\ Detached(w)[x].inFlight = wrapper[x].inFlight
    <3>1. Detached(w)[x] = Without(wrapper[x], w) /\ wrapper[x] \in WrapperState
      BY DEF Detached, TypeOK
    <3> QED BY <3>1, MoreStateTypes
  <2>3. /\ wrapper' \in [Wrappers -> WrapperState]
        /\ \A x \in Wrappers : wrapper'[x].inFlight => wrapper[x].inFlight
        /\ \A x \in Wrappers : wrapper'[x].promise = wrapper[x].promise
    <3>1. DOMAIN Detached(w) = Wrappers
      BY DEF Detached
    <3>2. CASE wrapper' = [Detached(w) EXCEPT ![w] = Invalidated(Detached(w)[w])]
      <4>1. /\ Invalidated(Detached(w)[w]) \in WrapperState
            /\ Invalidated(Detached(w)[w]).promise = wrapper[w].promise
            /\ Invalidated(Detached(w)[w]).inFlight = wrapper[w].inFlight
        BY <2>2, StateTypes
      <4> QED BY <2>2, <3>1, <3>2, <4>1
    <3>3. CASE wrapper' = [Detached(w) EXCEPT ![w] = Deleted(Detached(w)[w])]
      <4>1. /\ Deleted(Detached(w)[w]) \in WrapperState
            /\ Deleted(Detached(w)[w]).promise = wrapper[w].promise
            /\ ~Deleted(Detached(w)[w]).inFlight
        BY <2>2, MoreStateTypes
      <4> QED BY <2>2, <3>1, <3>3, <4>1
    <3> QED BY <1>7, <3>2, <3>3 DEF Invalidate, DeletePath
  <2>4. NoDeadPromise' /\ LoadsAreMade' /\ LoadsAreKept'
    BY <2>1, <2>3, EditKeeps DEF Edit
  <2> QED BY <2>1, <2>3, <2>4 DEF Edit, TypeOK
<1>8. ASSUME NEW w \in Wrappers, NEW f \in Folders, BuildFresh(w, f) PROVE IInv'
  <2>1. BuiltFolder(2) \in WrapperState /\ BuiltFolder(2).promise = NoPromise /\ ~BuiltFolder(2).inFlight
    BY ShellType, LoadedType DEF BuiltFolder
  <2>2. /\ Construct(f, BuiltFolder(2)) /\ UNCHANGED <<reach, load, complete, waiting, edited, failures>>
        /\ f \in Wrappers
    BY <1>8 DEF BuildFresh, Wrappers
  <2>3. /\ made' \subseteq Wrappers /\ queued' \subseteq made' /\ made \subseteq made'
        /\ wrapper' \in [Wrappers -> WrapperState]
        /\ NoDeadPromise' /\ LoadsAreMade' /\ LoadsAreKept'
    BY <2>1, <2>2, ConstructKeeps DEF TypeOK
  <2>4. unmaterialized' \in Int /\ fresh' \in [Wrappers -> Wrappers \cup {NoWrapper}]
    BY <1>8, <2>2, RegisteredType DEF BuildFresh, TypeOK
  <2> QED BY <2>2, <2>3, <2>4 DEF TypeOK
<1>9. ASSUME NEW l \in Loads, LoadReturns(l) PROVE IInv'
  <2> DEFINE w == load[l].of
             s == wrapper[w]
             after == IF s.impl = NoImpl THEN Applied(s, load[l].version, load[l].found) ELSE s
             settled == Cleared([after EXCEPT !.materialized = TRUE])
  <2>1. /\ w \in made /\ w \in Wrappers /\ w # NoWrapper /\ s \in WrapperState
        /\ load[l].version \in Nat /\ load[l].found \in SUBSET Wrappers
    BY <1>9 DEF LoadReturns, TypeOK, LoadsAreMade, LoadState
  <2>2. after \in WrapperState
    BY <2>1, StateTypes
  <2>3. [after EXCEPT !.materialized = TRUE] \in WrapperState
    BY <2>2 DEF WrapperState
  <2>4. settled \in WrapperState /\ settled.promise = NoPromise /\ ~settled.inFlight
    BY <2>3, StateTypes
  <2>5. /\ wrapper' = [wrapper EXCEPT ![w] = settled]
        /\ load' = [load EXCEPT ![l] = Idle] /\ edited' = edited /\ made' = made
        /\ queued' = queued /\ fresh' = fresh /\ failures' = failures
        /\ Notified(unmaterialized)
    BY <1>9 DEF LoadReturns
  <2>6. /\ wrapper' \in [Wrappers -> WrapperState] /\ load' \in [Loads -> LoadState]
        /\ NoDeadPromise' /\ LoadsAreMade' /\ LoadsAreKept'
    BY <2>1, <2>4, <2>5, SettleKeeps
  <2>7. unmaterialized' \in Int /\ complete' \in BOOLEAN /\ waiting' \subseteq Callers
    BY <2>5, NotifiedType DEF TypeOK
  <2>8. reach' \subseteq made'
    BY <1>9, <2>5 DEF LoadReturns, TypeOK, LoadsAreMade
  <2> QED BY <2>5, <2>6, <2>7, <2>8 DEF TypeOK
<1>10. ASSUME NEW l \in Loads, LoadFails(l) PROVE IInv'
  <2> DEFINE w == load[l].of
  <2>1. w \in made /\ w \in Wrappers /\ w # NoWrapper /\ wrapper[w] \in WrapperState
    BY <1>10 DEF LoadFails, TypeOK, LoadsAreMade
  <2>2. /\ Cleared(wrapper[w]) \in WrapperState
        /\ Cleared(wrapper[w]).promise = NoPromise /\ ~Cleared(wrapper[w]).inFlight
    BY <2>1, StateTypes
  <2>3. /\ wrapper' = [wrapper EXCEPT ![w] = Cleared(wrapper[w])]
        /\ load' = [load EXCEPT ![l] = Idle]
        /\ UNCHANGED <<made, reach, queued, fresh, unmaterialized, complete, waiting, edited>>
    BY <1>10 DEF LoadFails
  <2>4. /\ wrapper' \in [Wrappers -> WrapperState] /\ load' \in [Loads -> LoadState]
        /\ NoDeadPromise' /\ LoadsAreMade' /\ LoadsAreKept'
    BY <2>1, <2>2, <2>3, SettleKeeps
  <2>5. failures' \in 0 .. MaxFailures
    BY <1>10, BoundAssumption DEF LoadFails, TypeOK
  <2> QED BY <2>3, <2>4, <2>5 DEF TypeOK
<1>11. ASSUME NEW l \in Loads, NEW w \in Folders, Discover(l, w) PROVE IInv'
  <2>1. Shell(1) \in WrapperState /\ Shell(1).promise = NoPromise /\ ~Shell(1).inFlight
    BY ShellType
  <2>2. /\ w \in Wrappers /\ Construct(w, Shell(1))
        /\ load' = [load EXCEPT ![l].found = load[l].found \cup {w}]
        /\ UNCHANGED <<reach, fresh, complete, waiting, edited, failures>>
    BY <1>11 DEF Discover, Wrappers
  <2>3. /\ load' \in [Loads -> LoadState]
        /\ \A k \in Loads : /\ load'[k].of = load[k].of
                            /\ load'[k].found \subseteq load[k].found \cup {w}
    BY <2>2 DEF TypeOK, LoadState
  <2>4. /\ made' \subseteq Wrappers /\ queued' \subseteq made' /\ made \subseteq made'
        /\ wrapper' \in [Wrappers -> WrapperState]
        /\ NoDeadPromise' /\ LoadsAreMade' /\ LoadsAreKept'
    BY <2>1, <2>2, <2>3, ConstructKeeps
  <2>5. unmaterialized' \in Int
    BY <1>11, RegisteredType DEF Discover, TypeOK
  <2> QED BY <2>2, <2>3, <2>4, <2>5 DEF TypeOK
<1>12. ASSUME NEW c \in Callers, Wait(c) PROVE IInv'
  BY <1>12 DEF Wait, TypeOK, NoDeadPromise, InFlightLoads, LoadsAreMade, LoadsAreKept
<1>13. CASE UNCHANGED vars
  BY <1>13 DEF vars, TypeOK, NoDeadPromise, InFlightLoads, LoadsAreMade, LoadsAreKept
<1> QED
  BY <1>1, <1>2, <1>3, <1>4, <1>5, <1>6, <1>7, <1>8, <1>9, <1>10, <1>11, <1>12, <1>13 DEF Next

\* The invariant holds throughout.
LEMMA Inductive == Spec => []IInv
BY InitIInv, NextIInv, PTL DEF Spec

-----------------------------------------------------------------------------
(* The counter.                                                            *)

Unloaded == {w \in made : ~wrapper[w].materialized}

\* Until a wrapper is edited, the counter is right, and a load that is under
\* way is the load of a wrapper that it still counts.  In eager mode there is
\* nothing to load.
CountInv ==
    /\ IsFiniteSet(made)
    /\ Mode = "lazy" /\ edited = {} =>
          /\ unmaterialized = Cardinality(Unloaded)
          /\ \A l \in Loads : load[l].of # NoWrapper => ~wrapper[load[l].of].materialized
    /\ Mode = "eager" =>
          /\ queued = {} /\ \A l \in Loads : load[l].of = NoWrapper
          /\ edited = {} => Unloaded = {}

LEMMA FiniteUnloaded == CountInv => IsFiniteSet(Unloaded)
BY FS_Subset DEF CountInv, Unloaded

\* A wrapper that is made counts unless it is made with an implementation.
LEMMA ConstructCounts ==
    ASSUME IInv, CountInv, NEW w, NEW s, Construct(w, s), edited' = edited,
           \A l \in Loads : load'[l].of = load[l].of,
           Mode = "lazy" => unmaterialized' = unmaterialized + (IF s.materialized THEN 0 ELSE 1),
           Mode = "eager" => s.materialized
    PROVE  CountInv'
<1>1. /\ w \in Wrappers /\ w \notin made /\ made' = made \cup {w}
      /\ wrapper' = [wrapper EXCEPT ![w] = s] /\ wrapper \in [Wrappers -> WrapperState]
      /\ made \subseteq Wrappers
  BY DEF Construct, IInv, TypeOK
<1>2. wrapper'[w] = s /\ \A x \in Wrappers : x # w => wrapper'[x] = wrapper[x]
  BY <1>1
<1>3. IsFiniteSet(made')
  BY <1>1, FS_AddElement DEF CountInv
<1>4. Unloaded' = Unloaded \cup (IF s.materialized THEN {} ELSE {w})
  BY <1>1, <1>2 DEF Unloaded
<1>5. w \notin Unloaded
  BY <1>1 DEF Unloaded
<1>6. ASSUME Mode = "lazy", edited = {}
      PROVE  /\ unmaterialized' = Cardinality(Unloaded')
             /\ \A l \in Loads : load'[l].of # NoWrapper => ~wrapper'[load'[l].of].materialized
  <2>1. unmaterialized = Cardinality(Unloaded) /\ IsFiniteSet(Unloaded)
    BY <1>6, FiniteUnloaded DEF CountInv
  <2>2. unmaterialized' = Cardinality(Unloaded')
    <3>1. CASE s.materialized
      <4>1. Unloaded' = Unloaded
        BY <1>4, <3>1
      <4>2. unmaterialized' = unmaterialized + 0 /\ unmaterialized \in Int
        BY <1>6, <3>1 DEF IInv, TypeOK
      <4> QED BY <2>1, <4>1, <4>2
    <3>2. CASE ~s.materialized
      <4>1. Unloaded' = Unloaded \cup {w} /\ unmaterialized' = unmaterialized + 1
        BY <1>4, <1>6, <3>2
      <4> HIDE DEF Unloaded
      <4>2. Cardinality(Unloaded \cup {w}) = Cardinality(Unloaded) + 1
        BY <1>5, <2>1, FS_AddElement
      <4> QED BY <2>1, <4>1, <4>2
    <3> QED BY <3>1, <3>2
  <2>3. ASSUME NEW l \in Loads, load'[l].of # NoWrapper
        PROVE  ~wrapper'[load'[l].of].materialized
    <3>1. load[l].of \in made /\ load'[l].of = load[l].of /\ ~wrapper[load[l].of].materialized
      BY <1>6, <2>3 DEF CountInv, IInv, LoadsAreMade
    <3> QED BY <1>1, <1>2, <3>1
  <2> QED BY <2>2, <2>3
<1>7. ASSUME Mode = "eager"
      PROVE  /\ queued' = {} /\ \A l \in Loads : load'[l].of = NoWrapper
             /\ edited = {} => Unloaded' = {}
  BY <1>4, <1>7 DEF CountInv, Construct
<1> QED BY <1>3, <1>6, <1>7 DEF CountInv

\* A step that makes no wrapper and loads none changes nothing of the count.
LEMMA CountKept ==
    ASSUME IInv, CountInv, UNCHANGED <<made, edited, unmaterialized>>, queued' \subseteq queued,
           \A x \in made : wrapper'[x].materialized = wrapper[x].materialized,
           \A l \in Loads : \/ load'[l].of = NoWrapper
                            \/ load'[l].of = load[l].of
                            \/ /\ Mode # "eager" /\ load'[l].of \in made
                               /\ ~wrapper[load'[l].of].materialized
    PROVE  CountInv'
<1>1. Unloaded' = Unloaded
  BY DEF Unloaded
<1>2. \A l \in Loads : load[l].of # NoWrapper => load[l].of \in made
  BY DEF IInv, LoadsAreMade
<1> HIDE DEF Unloaded
<1> QED BY <1>1, <1>2 DEF CountInv

\* So does a start.
LEMMA StartCounts ==
    ASSUME IInv, CountInv, Mode # "eager", NEW w \in made, Start(w),
           UNCHANGED <<made, edited, unmaterialized>>, queued' \subseteq queued
    PROVE  CountInv'
<1>1. w \in Wrappers /\ wrapper \in [Wrappers -> WrapperState] /\ load \in [Loads -> LoadState]
  BY DEF IInv, TypeOK
<1>2. ~wrapper[w].materialized
  BY DEF Start, MayStart
<1>3. CASE \E l \in Loads : /\ load' = [load EXCEPT ![l] = [of |-> w, version |-> wrapper[w].version, found |-> {}]]
                           /\ wrapper' = [wrapper EXCEPT ![w] = LoadedBy(@, l)]
  <2>1. PICK l \in Loads : /\ load' = [load EXCEPT ![l] = [of |-> w, version |-> wrapper[w].version, found |-> {}]]
                           /\ wrapper' = [wrapper EXCEPT ![w] = LoadedBy(@, l)]
    BY <1>3
  <2>2. load'[l].of = w /\ \A k \in Loads : k # l => load'[k] = load[k]
    BY <1>1, <2>1
  <2>3. LoadedBy(wrapper[w], l).materialized = wrapper[w].materialized
    BY <1>1 DEF LoadedBy, WrapperState
  <2>4. \A x \in Wrappers : wrapper'[x].materialized = wrapper[x].materialized
    BY <1>1, <2>1, <2>3
  <2> QED BY <1>2, <2>2, <2>4, CountKept DEF IInv, TypeOK
<1>4. CASE wrapper' = [wrapper EXCEPT ![w].promise = Settled] /\ UNCHANGED load
  <2>1. \A x \in Wrappers : wrapper'[x].materialized = wrapper[x].materialized
    BY <1>1, <1>4 DEF WrapperState
  <2> QED BY <1>4, <2>1, CountKept DEF IInv, TypeOK
<1> QED BY <1>3, <1>4 DEF Start

LEMMA InitCount == Init => CountInv
<1> SUFFICES ASSUME Init PROVE CountInv
  OBVIOUS
<1>1. made = {} /\ queued = {} /\ unmaterialized = 0 /\ \A l \in Loads : load[l].of = NoWrapper
  BY DEF Init, Idle
<1>2. Unloaded = {}
  BY <1>1 DEF Unloaded
<1> QED BY <1>1, <1>2, FS_EmptySet DEF CountInv

LEMMA NextCount == IInv /\ CountInv /\ [Next]_vars => CountInv'
<1> SUFFICES ASSUME IInv, CountInv, [Next]_vars PROVE CountInv'
  OBVIOUS
<1>1. /\ wrapper \in [Wrappers -> WrapperState] /\ load \in [Loads -> LoadState]
      /\ made \subseteq Wrappers /\ queued \subseteq made /\ unmaterialized \in Int
  BY DEF IInv, TypeOK
<1>2. \A v : ~Shell(v).materialized /\ Loaded(v).materialized
  BY DEF Shell, Loaded
<1>3. Registered = unmaterialized + (IF Mode = "lazy" THEN 1 ELSE 0)
  BY DEF Registered
<1>4. \A v : /\ Mode = "lazy" => ~BuiltFolder(v).materialized
             /\ Mode = "eager" => BuiltFolder(v).materialized
  BY <1>2 DEF BuiltFolder
<1>5. ASSUME NEW w \in Wrappers, AddFolder(w) PROVE CountInv'
  <2>1. /\ Construct(w, BuiltFolder(1)) /\ UNCHANGED <<load, edited>>
        /\ unmaterialized' = Registered
    BY <1>5 DEF AddFolder
  <2>2. Mode = "lazy" => unmaterialized' = unmaterialized + (IF BuiltFolder(1).materialized THEN 0 ELSE 1)
    BY <1>3, <1>4, <2>1
  <2> QED BY <1>4, <2>1, <2>2, ConstructCounts
<1>6. ASSUME NEW w \in Wrappers, AddContainer(w) PROVE CountInv'
  <2>1. /\ Construct(w, Loaded(1)) /\ UNCHANGED <<load, edited>>
        /\ unmaterialized' = Registered - 1
    BY <1>6 DEF AddContainer, Notified
  <2>2. Mode = "lazy" => unmaterialized' = unmaterialized + (IF Loaded(1).materialized THEN 0 ELSE 1)
    BY <1>1, <1>2, <1>3, <2>1
  <2> QED BY <1>2, <2>1, <2>2, ConstructCounts
<1>7. ASSUME NEW w \in Wrappers, NEW f \in Folders, BuildFresh(w, f) PROVE CountInv'
  <2>1. /\ Construct(f, BuiltFolder(2)) /\ UNCHANGED <<load, edited>>
        /\ unmaterialized' = Registered
    BY <1>7 DEF BuildFresh
  <2>2. Mode = "lazy" => unmaterialized' = unmaterialized + (IF BuiltFolder(2).materialized THEN 0 ELSE 1)
    BY <1>3, <1>4, <2>1
  <2> QED BY <1>4, <2>1, <2>2, ConstructCounts
<1>8. ASSUME NEW l \in Loads, NEW w \in Folders, Discover(l, w) PROVE CountInv'
  <2>1. /\ Construct(w, Shell(1)) /\ edited' = edited /\ unmaterialized' = Registered
        /\ load' = [load EXCEPT ![l].found = load[l].found \cup {w}] /\ load[l].of # NoWrapper
    BY <1>8 DEF Discover
  <2>2. \A k \in Loads : load'[k].of = load[k].of
    BY <1>1, <2>1 DEF LoadState
  <2>3. Mode = "lazy" => unmaterialized' = unmaterialized + (IF Shell(1).materialized THEN 0 ELSE 1)
    BY <1>2, <1>3, <2>1
  <2>4. Mode # "eager"
    BY <2>1 DEF CountInv
  <2> QED BY <2>1, <2>2, <2>3, <2>4, ConstructCounts
<1>9. ASSUME NEW w \in Wrappers, Access(w) PROVE CountInv'
  <2>1. /\ Mode # "eager" /\ w \in made /\ Start(w)
        /\ UNCHANGED <<made, edited, unmaterialized, queued>>
    BY <1>9 DEF Access, IInv, TypeOK
  <2> QED BY <2>1, StartCounts
<1>10. ASSUME NEW w \in Wrappers, Background(w) PROVE CountInv'
  <2>1. /\ Mode # "eager" /\ w \in made /\ queued' \subseteq queued
        /\ UNCHANGED <<made, edited, unmaterialized>>
    BY <1>1, <1>10 DEF Background, CountInv
  <2>2. CASE Start(w)
    BY <2>1, <2>2, StartCounts
  <2>3. CASE UNCHANGED <<wrapper, load>>
    BY <2>1, <2>3, CountKept
  <2> QED BY <1>10, <2>2, <2>3 DEF Background
<1>11. ASSUME edited' # {}, UNCHANGED <<made, load, queued>> PROVE CountInv'
  BY <1>11 DEF CountInv
<1>12. ASSUME NEW w \in Wrappers, SetImpl(w) \/ Restore(w) \/ Invalidate(w) \/ DeletePath(w)
       PROVE  CountInv'
  <2>1. edited' # {} /\ UNCHANGED <<made, load, queued>>
    BY <1>12 DEF SetImpl, Restore, Invalidate, DeletePath, Edit
  <2> QED BY <1>11, <2>1
<1>13. ASSUME NEW l \in Loads, LoadReturns(l) PROVE CountInv'
  <2> DEFINE s == wrapper[load[l].of]
             after == IF s.impl = NoImpl THEN Applied(s, load[l].version, load[l].found) ELSE s
             settled == Cleared([after EXCEPT !.materialized = TRUE])
  <2>1. PICK w : w = load[l].of
    OBVIOUS
  <2>2. /\ w \in made /\ w \in Wrappers /\ w # NoWrapper /\ s \in WrapperState
        /\ load[l].version \in Nat /\ load[l].found \in SUBSET Wrappers
    BY <1>1, <1>13, <2>1 DEF LoadReturns, IInv, LoadsAreMade, LoadState
  <2>3. after \in WrapperState
    BY <2>2, StateTypes
  <2>4. settled.materialized = TRUE
    <3> HIDE DEF after
    <3> QED BY <2>3 DEF Cleared, WrapperState
  <2>5. /\ wrapper' = [wrapper EXCEPT ![w] = settled] /\ load' = [load EXCEPT ![l] = Idle]
        /\ UNCHANGED <<made, queued, edited>> /\ unmaterialized' = unmaterialized - 1
    BY <1>13, <2>1 DEF LoadReturns, Notified
  <2> HIDE DEF settled
  <2>6. wrapper'[w].materialized /\ \A x \in Wrappers : x # w => wrapper'[x] = wrapper[x]
    BY <1>1, <2>2, <2>4, <2>5
  <2>7. Mode = "lazy"
    BY <2>1, <2>2, ModeAssumption DEF CountInv
  <2>8. ASSUME edited = {}
        PROVE  /\ unmaterialized' = Cardinality(Unloaded')
               /\ \A k \in Loads : load'[k].of # NoWrapper => ~wrapper'[load'[k].of].materialized
    <3>1. /\ unmaterialized = Cardinality(Unloaded) /\ IsFiniteSet(Unloaded)
          /\ \A k \in Loads : load[k].of # NoWrapper => ~wrapper[load[k].of].materialized
      BY <2>7, <2>8, FiniteUnloaded DEF CountInv
    <3>2. w \in Unloaded
      BY <2>1, <2>2, <3>1 DEF Unloaded
    <3>3. Unloaded' = Unloaded \ {w}
      BY <1>1, <2>5, <2>6 DEF Unloaded
    <3>4. unmaterialized' = Cardinality(Unloaded')
      <4> HIDE DEF Unloaded
      <4>1. Cardinality(Unloaded \ {w}) = Cardinality(Unloaded) - 1
        BY <3>1, <3>2, FS_RemoveElement
      <4> QED BY <2>5, <3>1, <3>3, <4>1
    <3>5. ASSUME NEW k \in Loads, load'[k].of # NoWrapper
          PROVE  ~wrapper'[load'[k].of].materialized
      <4>1. k # l /\ load'[k] = load[k]
        BY <1>1, <2>5, <3>5 DEF Idle
      <4>2. load[k].of \in Wrappers /\ ~wrapper[load[k].of].materialized
        BY <1>1, <3>1, <3>5, <4>1 DEF LoadState
      <4>3. load[k].of # w
        BY <2>1, <2>2, <2>8, <4>1 DEF IInv, LoadsAreKept
      <4> QED BY <2>6, <4>1, <4>2, <4>3
    <3> QED BY <3>4, <3>5
  <2>9. IsFiniteSet(made')
    BY <2>5 DEF CountInv
  <2> QED BY <2>5, <2>7, <2>8, <2>9 DEF CountInv
<1>14. ASSUME NEW l \in Loads, LoadFails(l) PROVE CountInv'
  <2>1. /\ wrapper' = [wrapper EXCEPT ![load[l].of] = Cleared(wrapper[load[l].of])]
        /\ load' = [load EXCEPT ![l] = Idle]
        /\ UNCHANGED <<made, queued, edited, unmaterialized>>
    BY <1>14 DEF LoadFails
  <2>2. \A s \in WrapperState : Cleared(s).materialized = s.materialized
    BY DEF Cleared, WrapperState
  <2>3. \A x \in Wrappers : wrapper'[x].materialized = wrapper[x].materialized
    BY <1>1, <2>1, <2>2
  <2>4. \A k \in Loads : load'[k].of = NoWrapper \/ load'[k].of = load[k].of
    BY <1>1, <2>1 DEF Idle
  <2> QED BY <1>1, <2>1, <2>3, <2>4, CountKept
<1>15. ASSUME NEW c \in Callers, Wait(c) PROVE CountInv'
  BY <1>15, CountKept DEF Wait
<1>16. CASE UNCHANGED vars
  BY <1>16, CountKept DEF vars
<1> QED
  BY <1>5, <1>6, <1>7, <1>8, <1>9, <1>10, <1>12, <1>13, <1>14, <1>15, <1>16 DEF Next

LEMMA CountInductive == Spec => [](IInv /\ CountInv)
<1>1. IInv /\ CountInv /\ [Next]_vars => IInv' /\ CountInv'
  BY NextIInv, NextCount
<1> QED BY <1>1, InitIInv, InitCount, PTL DEF Spec

-----------------------------------------------------------------------------
\* Every variable keeps its type.
THEOREM TypeCorrect == Spec => []TypeOK
<1>1. IInv => TypeOK
  BY DEF IInv
<1> QED BY <1>1, Inductive, PTL

\* No caller joins a load that is over: resets, removals and failures, which
\* write the same fields, never leave a promise behind (___materialize()).
THEOREM PromisesLive == Spec => []NoDeadPromise
<1>1. IInv => NoDeadPromise
  BY DEF IInv
<1> QED BY <1>1, Inductive, PTL

\* The folder of a wrapper that nobody edited is never loaded twice at once.
THEOREM LoadedOnce == Spec => []OneLoadAtATime
<1>1. IInv => OneLoadAtATime
  BY DEF IInv, LoadsAreKept, OneLoadAtATime
<1> QED BY <1>1, Inductive, PTL

\* Until a wrapper is edited, materialize.get() counts the wrappers that are
\* not loaded, those of nested folders and of failed loads included.
THEOREM CounterIsRight == Spec => []CountsUnloaded
<1>1. CountInv => CountsUnloaded
  BY DEF CountInv, Unloaded, CountsUnloaded
<1> QED BY <1>1, CountInductive, PTL

\* Until a wrapper is edited, a caller of wait() is answered only when every
\* wrapper made so far is loaded.
THEOREM NobodyAnsweredEarly == Spec => NoEarlyAnswer
<1> DEFINE Answers == edited' = {} /\ waiting' # waiting /\ waiting' \subseteq waiting
           Done == \A w \in made' : wrapper'[w].materialized
<1>1. ASSUME IInv, CountInv, CountInv', Next, Answers PROVE Done
  <2>1. (\E n \in {unmaterialized, Registered} : Notified(n)) /\ waiting # {}
    <3>1. ASSUME NEW c, Wait(c) PROVE FALSE
      BY <1>1, <3>1 DEF Wait
    <3>2. ASSUME NEW w, AddContainer(w) PROVE Notified(Registered)
      BY <3>2 DEF AddContainer
    <3>3. ASSUME NEW l, LoadReturns(l) PROVE Notified(unmaterialized)
      BY <3>3 DEF LoadReturns
    <3>4. ASSUME NEW w, SetImpl(w) \/ Restore(w) \/ Invalidate(w) \/ DeletePath(w) PROVE FALSE
      BY <1>1, <3>4 DEF SetImpl, Restore, Invalidate, DeletePath, Edit
    <3>5. ASSUME NEW w, AddFolder(w) \/ Access(w) \/ Background(w) PROVE FALSE
      BY <1>1, <3>5 DEF AddFolder, Access, Background
    <3>6. ASSUME NEW w, NEW f, BuildFresh(w, f) \/ Discover(w, f) \/ LoadFails(w) PROVE FALSE
      BY <1>1, <3>6 DEF BuildFresh, Discover, LoadFails
    <3>7. \E n \in {unmaterialized, Registered} : Notified(n)
      BY <1>1, <3>1, <3>2, <3>3, <3>4, <3>5, <3>6 DEF Next
    <3> QED BY <1>1, <3>7
  <2>2. unmaterialized' = 0
    BY <1>1, <2>1 DEF Notified
  <2>3. IsFiniteSet(Unloaded')
    BY <1>1, FS_Subset DEF CountInv, Unloaded
  <2>4. Unloaded' = {}
    <3>1. CASE Mode = "lazy"
      <4>1. Cardinality(Unloaded') = 0
        BY <1>1, <2>2, <3>1 DEF CountInv
      <4> HIDE DEF Unloaded
      <4> QED BY <2>3, <4>1, FS_EmptySet
    <3>2. CASE Mode = "eager"
      BY <1>1, <3>2 DEF CountInv
    <3> QED BY <3>1, <3>2, ModeAssumption
  <2> QED BY <2>4 DEF Unloaded
<1>2. IInv /\ CountInv /\ CountInv' /\ [Next]_vars => [Answers => Done]_vars
  BY <1>1 DEF vars
<1> QED BY <1>2, CountInductive, PTL DEF Spec, NoEarlyAnswer
=============================================================================
