---------------------------- MODULE ModulesProofs ----------------------------
(***************************************************************************)
(* Proofs about Modules: its types, what a rollback leaves mounted, which  *)
(* packages come to share a mount path, and what is listed under its name, *)
(* for any number of packages, calls and workers, and with any number of   *)
(* removals that fail.                                                     *)
(***************************************************************************)
EXTENDS Modules, FiniteSetTheorems, SequenceTheorems, TLAPS

-----------------------------------------------------------------------------
(* The workers.                                                            *)

\* A worker that is not away has an item; outside the pool all are away.
PoolInv ==
    \A c \in Calls :
        /\ \A w \in Workers(c) :
            /\ worker[c][w].at # "away" => worker[c][w].item \in DOMAIN Items[c]
            /\ phase[c] # "mounting" => worker[c][w].at = "away"
        /\ phase[c] = "forgetting" => queue[c] # <<>>

LEMMA ItemsType ==
    ASSUME NEW c \in Calls
    PROVE  /\ Items[c] \in Seq(Packages) /\ Len(Items[c]) \in Nat \ {0}
           /\ DOMAIN Items[c] = 1..Len(Items[c])
           /\ Cardinality(Workers(c)) \in 0..Len(Items[c])
           /\ Workers(c) \subseteq 1..Len(Items[c])
           /\ \A i \in DOMAIN Items[c] : Items[c][i] \in Packages /\ <<c, i>> \in Mounts
<1>1. Items[c] \in Seq(Packages) /\ Items[c] # <<>> /\ Concurrency[c] \in Nat \ {0}
  BY CallsAssumption
<1>2. Len(Items[c]) \in Nat \ {0} /\ DOMAIN Items[c] = 1..Len(Items[c])
  BY <1>1
<1>3. PICK n \in Nat : n <= Len(Items[c]) /\ Workers(c) = 1..n
  BY <1>1, <1>2 DEF Workers
<1>4. Cardinality(1..n) = n
  BY <1>3, FS_Interval
<1>5. \A i \in DOMAIN Items[c] : <<c, i>> \in Mounts
  BY DEF Mounts
<1> QED
  BY <1>1, <1>2, <1>3, <1>4, <1>5

LEMMA MountParts ==
    ASSUME NEW x \in Mounts
    PROVE  x[1] \in Calls /\ x[2] \in DOMAIN Items[x[1]] /\ x = <<x[1], x[2]>>
BY DEF Mounts

LEMMA StartType ==
    ASSUME NEW c \in Calls, NEW i \in DOMAIN Items[c]
    PROVE  /\ Start(c, i) \in Slots(c) /\ Start(c, i).at = "adding" /\ Start(c, i).item = i
           /\ Start(c, i).hit = (c \in Strict /\ Occupied(MountPath[Items[c][i]]))
BY ItemsType DEF Start, Slots, Busy

LEMMA AwayType ==
    ASSUME NEW c \in Calls
    PROVE  Away \in Slots(c) /\ Away.at = "away"
BY ItemsType DEF Away, Slots

\* The step of one worker.
LEMMA OneWorker ==
    ASSUME TypeOK, NEW c \in Calls, NEW w \in Workers(c), NEW r \in Slots(c),
           worker' = [worker EXCEPT ![c][w] = r]
    PROVE  /\ worker' = [d \in Calls |-> worker'[d]]
           /\ \A d \in Calls : worker'[d] \in [Workers(d) -> Slots(d)]
           /\ worker'[c][w] = r
           /\ \A d \in Calls : \A v \in Workers(d) : d # c \/ v # w => worker'[d][v] = worker[d][v]
<1>1. worker' = [worker EXCEPT ![c] = [worker[c] EXCEPT ![w] = r]]
  OBVIOUS
<1>2. worker = [d \in Calls |-> worker[d]] /\ \A d \in Calls : worker[d] \in [Workers(d) -> Slots(d)]
  BY DEF TypeOK
<1>3. \A d \in Calls : worker'[d] = IF d = c THEN [worker[c] EXCEPT ![w] = r] ELSE worker[d]
  BY <1>1, <1>2
<1>4. DOMAIN worker' = Calls /\ worker' = [d \in Calls |-> worker'[d]]
  BY <1>1, <1>2
<1>5. [worker[c] EXCEPT ![w] = r] \in [Workers(c) -> Slots(c)]
  BY <1>2
<1> QED
  BY <1>2, <1>3, <1>4, <1>5

\* What each step of a worker makes of its slot.
Slot(c, w, r) == r \in Slots(c) /\ worker' = [worker EXCEPT ![c][w] = r]

LEMMA AddSlot ==
    ASSUME TypeOK, NEW c \in Calls, NEW w \in Workers(c), Add(c, w) \/ Record(c, w)
    PROVE  \E r : /\ Slot(c, w, r) /\ r.item = worker[c][w].item
                  /\ r.at = IF Add(c, w) THEN "added" ELSE "recorded"
<1>1. worker[c][w] \in Slots(c)
  BY DEF TypeOK
<1>2. CASE Add(c, w)
  <2> DEFINE r == [worker[c][w] EXCEPT !.at = "added"]
  <2>1. r \in Slots(c) /\ r.item = worker[c][w].item /\ r.at = "added"
    BY <1>1 DEF Slots, Busy
  <2>2. worker' = [worker EXCEPT ![c][w] = r]
    BY <1>2 DEF Add
  <2> QED
    BY <1>2, <2>1, <2>2 DEF Slot
<1>3. CASE Record(c, w) /\ ~Add(c, w)
  <2> DEFINE r == [worker[c][w] EXCEPT !.at = "recorded"]
  <2>1. r \in Slots(c) /\ r.item = worker[c][w].item /\ r.at = "recorded"
    BY <1>1 DEF Slots, Busy
  <2>2. worker' = [worker EXCEPT ![c][w] = r]
    BY <1>3 DEF Record
  <2> QED
    BY <1>3, <2>1, <2>2 DEF Slot
<1> QED
  BY <1>2, <1>3

LEMMA NextSlot ==
    ASSUME TypeOK, NEW c \in Calls, NEW w \in Workers(c), TakeNext(c, w)
    PROVE  \/ Slot(c, w, Away) /\ UNCHANGED <<next, history>>
           \/ /\ next[c] \in DOMAIN Items[c] /\ Slot(c, w, Start(c, next[c]))
              /\ next' = [next EXCEPT ![c] = @ + 1] /\ Started({<<c, next[c]>>})
<1>1. next[c] \in 1..Len(Items[c]) + 1 /\ Len(Items[c]) \in Nat /\ DOMAIN Items[c] = 1..Len(Items[c])
  BY ItemsType DEF TypeOK
<1>2. next[c] > Len(Items[c]) \/ next[c] \in DOMAIN Items[c]
  BY <1>1
<1> QED
  BY <1>2, StartType, AwayType DEF TakeNext, Slot

LEMMA StartedType ==
    ASSUME TypeOK, NEW xs, Started(xs)
    PROVE  twice' \subseteq Packages /\ stuck' \subseteq Mounts
BY DEF Started, TypeOK

-----------------------------------------------------------------------------
(* The types.                                                              *)

LEMMA InitType == Init => TypeOK /\ PoolInv
<1> SUFFICES ASSUME Init PROVE TypeOK /\ PoolInv
  OBVIOUS
<1>1. \A c \in Calls : Len(Items[c]) \in Nat \ {0} /\ Away \in Slots(c)
  BY ItemsType, AwayType
<1>2. \A c \in Calls : next[c] = 1 /\ 1 \in 1..Len(Items[c]) + 1
  BY <1>1 DEF Init
<1>3. worker = [c \in Calls |-> worker[c]] /\ \A c \in Calls : worker[c] \in [Workers(c) -> Slots(c)]
  BY <1>1 DEF Init
<1>4. TypeOK
  BY <1>2, <1>3 DEF Init, TypeOK, FailureModes, NoRemoval
<1>5. PoolInv
  BY DEF Init, PoolInv, Away
<1> QED
  BY <1>4, <1>5

\* A step of a worker keeps what is known of all the workers.
LEMMA PoolStep ==
    ASSUME TypeOK, PoolInv, NEW c \in Calls, NEW w \in Workers(c), NEW r,
           Slot(c, w, r), phase' = phase, queue' = queue,
           r.at # "away" => r.item \in DOMAIN Items[c],
           worker[c][w].at # "away"
    PROVE  /\ worker' = [d \in Calls |-> worker'[d]]
           /\ \A d \in Calls : worker'[d] \in [Workers(d) -> Slots(d)]
           /\ PoolInv'
<1>1. /\ worker' = [d \in Calls |-> worker'[d]]
      /\ \A d \in Calls : worker'[d] \in [Workers(d) -> Slots(d)]
      /\ worker'[c][w] = r
      /\ \A d \in Calls : \A v \in Workers(d) : d # c \/ v # w => worker'[d][v] = worker[d][v]
  BY OneWorker DEF Slot
<1>2. phase[c] = "mounting"
  BY DEF PoolInv
<1> QED
  BY <1>1, <1>2 DEF PoolInv

LEMMA NextType == TypeOK /\ PoolInv /\ [Next]_vars => TypeOK' /\ PoolInv'
<1> SUFFICES ASSUME TypeOK, PoolInv, [Next]_vars PROVE TypeOK' /\ PoolInv'
  OBVIOUS
<1>1. ASSUME NEW c \in Calls, NEW mode \in FailureModes, Begin(c, mode) PROVE TypeOK' /\ PoolInv'
  <2>1. /\ worker' = [d \in Calls |-> worker'[d]]
        /\ \A d \in Calls : worker'[d] = IF d = c THEN [w \in Workers(c) |-> Start(c, w)] ELSE worker[d]
    BY <1>1 DEF Begin, TypeOK
  <2>2. \A w \in Workers(c) : w \in DOMAIN Items[c] /\ Start(c, w) \in Slots(c) /\ Start(c, w).item = w
    BY ItemsType, StartType
  <2>3. \A d \in Calls : worker'[d] \in [Workers(d) -> Slots(d)]
    BY <2>1, <2>2 DEF TypeOK
  <2>4. next' \in [Calls -> Nat] /\ \A d \in Calls : next'[d] \in 1..Len(Items[d]) + 1
    BY <1>1, ItemsType DEF Begin, TypeOK
  <2>5. twice' \subseteq Packages /\ stuck' \subseteq Mounts
    BY <1>1, StartedType DEF Begin
  <2>6. phase' \in [Calls -> {"idle", "mounting", "rolling", "forgetting", "returned", "threw"}]
        /\ onFailure' \in [Calls -> FailureModes]
    BY <1>1 DEF Begin, TypeOK
  <2>7. TypeOK'
    BY <1>1, <2>1, <2>3, <2>4, <2>5, <2>6 DEF Begin, TypeOK, api
  <2>8. PoolInv'
    BY <1>1, <2>1, <2>2 DEF Begin, PoolInv, TypeOK
  <2> QED
    BY <2>7, <2>8
<1>2. ASSUME NEW c \in Calls, NEW w \in Workers(c), Add(c, w) \/ Record(c, w) PROVE TypeOK' /\ PoolInv'
  <2>1. PICK r : Slot(c, w, r) /\ r.item = worker[c][w].item /\ r.at \in {"added", "recorded"}
    BY <1>2, AddSlot
  <2>2. worker[c][w].at # "away" /\ phase' = phase /\ queue' = queue
    BY <1>2 DEF Add, Record
  <2>3. worker[c][w].item \in DOMAIN Items[c]
    BY <2>2 DEF PoolInv
  <2>4. /\ worker' = [d \in Calls |-> worker'[d]]
        /\ \A d \in Calls : worker'[d] \in [Workers(d) -> Slots(d)]
        /\ PoolInv'
    BY <2>1, <2>2, <2>3, PoolStep
  <2>5. <<c, worker[c][w].item>> \in Mounts /\ Items[c][worker[c][w].item] \in Packages
    BY <2>3, ItemsType
  <2>6. live' \subseteq Mounts /\ tracked' \in [Packages -> Mounts \cup {None}]
    <3>1. CASE Add(c, w)
      BY <2>5, <3>1 DEF Add, TypeOK
    <3>2. CASE Record(c, w)
      <4>1. tracked' = [tracked EXCEPT ![Items[c][worker[c][w].item]] = <<c, worker[c][w].item>>] /\ live' = live
        BY <3>2 DEF Record
      <4> QED
        BY <2>5, <4>1 DEF TypeOK
    <3> QED
      BY <1>2, <3>1, <3>2
  <2> QED
    BY <1>2, <2>4, <2>6 DEF Add, Record, TypeOK, history
<1>3. ASSUME NEW c \in Calls, NEW w \in Workers(c), Mounted(c, w) \/ Fail(c, w) PROVE TypeOK' /\ PoolInv'
  <2>1. /\ TakeNext(c, w) /\ worker[c][w].at # "away" /\ phase' = phase /\ queue' = queue
        /\ UNCHANGED <<onFailure, api>>
    BY <1>3 DEF Mounted, Fail
  <2>2. worker[c][w].item \in DOMAIN Items[c]
    BY <2>1 DEF PoolInv
  <2>3. PICK r : Slot(c, w, r) /\ (r.at # "away" => r.item \in DOMAIN Items[c])
    <3>1. CASE Slot(c, w, Away)
      BY <3>1, AwayType
    <3>2. CASE next[c] \in DOMAIN Items[c] /\ Slot(c, w, Start(c, next[c]))
      BY <3>2, StartType
    <3> QED
      BY <2>1, <3>1, <3>2, NextSlot
  <2>4. /\ worker' = [d \in Calls |-> worker'[d]]
        /\ \A d \in Calls : worker'[d] \in [Workers(d) -> Slots(d)]
        /\ PoolInv'
    BY <2>1, <2>3, PoolStep
  <2>5. next' \in [Calls -> Nat] /\ \A d \in Calls : next'[d] \in 1..Len(Items[d]) + 1
    <3>1. CASE next' = next
      BY <3>1 DEF TypeOK
    <3>2. CASE next' = [next EXCEPT ![c] = @ + 1] /\ next[c] \in DOMAIN Items[c]
      BY <3>2, ItemsType DEF TypeOK
    <3> QED
      BY <2>1, <3>1, <3>2, NextSlot
  <2>6. twice' \subseteq Packages /\ stuck' \subseteq Mounts
    BY <2>1, NextSlot, StartedType DEF history, TypeOK
  <2>7. mounted' \in [Calls -> Seq(Nat)] /\ \A d \in Calls : mounted'[d] \in Seq(DOMAIN Items[d])
    <3>1. CASE mounted' = mounted
      BY <3>1 DEF TypeOK
    <3>2. CASE mounted' = [mounted EXCEPT ![c] = Append(mounted[c], worker[c][w].item)]
      <4>1. mounted[c] \in Seq(Nat) /\ mounted[c] \in Seq(DOMAIN Items[c]) /\ worker[c][w].item \in Nat
        BY <2>2, ItemsType DEF TypeOK
      <4>2. Append(mounted[c], worker[c][w].item) \in Seq(Nat)
        BY <4>1, AppendProperties
      <4>3. Append(mounted[c], worker[c][w].item) \in Seq(DOMAIN Items[c])
        BY <2>2, <4>1, AppendProperties
      <4>4. \A d \in Calls : mounted'[d] = IF d = c THEN Append(mounted[c], worker[c][w].item) ELSE mounted[d]
        BY <3>2 DEF TypeOK
      <4>5. mounted' \in [Calls -> Seq(Nat)]
        BY <3>2, <4>2 DEF TypeOK
      <4>6. \A d \in Calls : mounted'[d] \in Seq(DOMAIN Items[d])
        BY <4>3, <4>4 DEF TypeOK
      <4> QED
        BY <4>5, <4>6
    <3> QED
      BY <1>3, <3>1, <3>2 DEF Mounted, Fail
  <2>8. failed' \in [Calls -> SUBSET Nat] /\ \A d \in Calls : failed'[d] \subseteq DOMAIN Items[d]
    <3>1. CASE failed' = failed
      BY <3>1 DEF TypeOK
    <3>2. CASE failed' = [failed EXCEPT ![c] = failed[c] \cup {worker[c][w].item}]
      <4>1. worker[c][w].item \in Nat
        BY <2>2, ItemsType
      <4>2. \A d \in Calls : failed'[d] = IF d = c THEN failed[c] \cup {worker[c][w].item} ELSE failed[d]
        BY <3>2 DEF TypeOK
      <4>3. failed' \in [Calls -> SUBSET Nat]
        BY <3>2, <4>1 DEF TypeOK
      <4>4. \A d \in Calls : failed[d] \subseteq DOMAIN Items[d]
        BY DEF TypeOK
      <4>5. \A d \in Calls : failed'[d] \subseteq DOMAIN Items[d]
        BY <2>2, <4>2, <4>4
      <4> QED
        BY <4>3, <4>5
    <3> QED
      BY <1>3, <3>1, <3>2 DEF Mounted, Fail
  <2>9. error' \in [Calls -> BOOLEAN]
    BY <1>3 DEF Mounted, Fail, TypeOK
  <2> QED
    BY <2>1, <2>4, <2>5, <2>6, <2>7, <2>8, <2>9 DEF TypeOK, api
<1>4. ASSUME NEW c \in Calls, Finish(c) PROVE TypeOK' /\ PoolInv'
  <2>1. phase' \in [Calls -> {"idle", "mounting", "rolling", "forgetting", "returned", "threw"}]
    BY <1>4 DEF Finish, TypeOK
  <2>2. queue' \in [Calls -> Seq(Nat)] /\ \A d \in Calls : queue'[d] \in Seq(DOMAIN Items[d])
    <3>1. PICK q : queue' = [queue EXCEPT ![c] = q] /\ q \in {mounted[c], <<>>}
      BY <1>4 DEF Finish
    <3>2. q \in Seq(Nat) /\ q \in Seq(DOMAIN Items[c])
      <4>1. <<>> \in Seq(Nat) /\ <<>> \in Seq(DOMAIN Items[c])
        OBVIOUS
      <4>2. mounted[c] \in Seq(Nat) /\ mounted[c] \in Seq(DOMAIN Items[c])
        BY DEF TypeOK
      <4> QED
        BY <3>1, <4>1, <4>2
    <3>3. \A d \in Calls : queue'[d] = IF d = c THEN q ELSE queue[d]
      BY <3>1 DEF TypeOK
    <3> QED
      BY <3>1, <3>2, <3>3 DEF TypeOK
  <2>3. PoolInv'
    BY <1>4 DEF Finish, PoolInv, TypeOK
  <2> QED
    BY <1>4, <2>1, <2>2, <2>3 DEF Finish, TypeOK, api, history
<1>5. ASSUME NEW c \in Calls, Rollback(c) \/ RollbackForgets(c) \/ RollbackEnds(c) PROVE TypeOK' /\ PoolInv'
  <2>1. phase' \in [Calls -> {"idle", "mounting", "rolling", "forgetting", "returned", "threw"}]
    BY <1>5 DEF Rollback, RollbackForgets, RollbackEnds, TypeOK
  <2>2. CASE RollbackEnds(c)
    BY <2>1, <2>2 DEF RollbackEnds, TypeOK, PoolInv, api, history
  <2>3. ASSUME queue[c] # <<>>
        PROVE  /\ Head(queue[c]) \in DOMAIN Items[c] /\ Tail(queue[c]) \in Seq(DOMAIN Items[c])
               /\ Tail(queue[c]) \in Seq(Nat)
    <3>1. queue[c] \in Seq(DOMAIN Items[c]) /\ queue[c] \in Seq(Nat)
      BY DEF TypeOK
    <3> QED
      BY <2>3, <3>1, HeadTailProperties
  <2>4. CASE Rollback(c)
    <3>1. queue[c] # <<>>
      BY <2>4 DEF Rollback
    <3>2. <<c, Head(queue[c])>> \in Mounts
      BY <2>3, <3>1, ItemsType
    <3>3. live' \subseteq Mounts /\ stuck' \subseteq Mounts /\ twice' = twice
      BY <2>4, <3>2 DEF Rollback, Gone, Remains, TypeOK
    <3>4. queue' \in [Calls -> Seq(Nat)] /\ \A d \in Calls : queue'[d] \in Seq(DOMAIN Items[d])
      BY <2>3, <2>4, <3>1 DEF Rollback, TypeOK
    <3>5. PoolInv'
      BY <2>4, <3>1 DEF Rollback, PoolInv, TypeOK
    <3> QED
      BY <2>1, <2>4, <3>3, <3>4, <3>5 DEF Rollback, TypeOK
  <2>5. CASE RollbackForgets(c)
    <3>1. queue[c] # <<>>
      BY <2>5 DEF RollbackForgets, PoolInv
    <3>2. queue' \in [Calls -> Seq(Nat)] /\ \A d \in Calls : queue'[d] \in Seq(DOMAIN Items[d])
      BY <2>3, <2>5, <3>1 DEF RollbackForgets, TypeOK
    <3>3. tracked' \in [Packages -> Mounts \cup {None}]
      BY <2>5 DEF RollbackForgets, TypeOK
    <3>4. PoolInv'
      BY <2>5 DEF RollbackForgets, PoolInv, TypeOK
    <3> QED
      BY <2>1, <2>5, <3>2, <3>3, <3>4 DEF RollbackForgets, TypeOK, history
  <2> QED
    BY <1>5, <2>2, <2>4, <2>5
<1>6. ASSUME NEW k \in Packages, RemoveModule(k) \/ Removal(k) \/ Forget(k) PROVE TypeOK' /\ PoolInv'
  <2>1. UNCHANGED pool
    BY <1>6 DEF RemoveModule, Removal, Forget
  <2>2. PoolInv'
    BY <2>1 DEF pool, PoolInv
  <2>3. leaving' \in [Packages -> [mount : Mounts \cup {None}, gone : BOOLEAN]]
    <3> DEFINE T == [mount : Mounts \cup {None}, gone : BOOLEAN]
    <3>1. NoRemoval \in T
      BY DEF NoRemoval
    <3>2. leaving \in [Packages -> T] /\ tracked[k] \in Mounts \cup {None}
      BY DEF TypeOK
    <3>3. CASE RemoveModule(k)
      <4>1. leaving' = [leaving EXCEPT ![k] = [mount |-> tracked[k], gone |-> FALSE]]
        BY <3>3 DEF RemoveModule
      <4> QED
        BY <3>2, <4>1
    <3>4. CASE Removal(k)
      <4>1. [leaving[k] EXCEPT !.gone = TRUE] \in T
        BY <3>2
      <4>2. \E r \in T : leaving' = [leaving EXCEPT ![k] = r]
        BY <3>1, <3>4, <4>1 DEF Removal
      <4> QED
        BY <3>2, <4>2
    <3>5. CASE Forget(k)
      <4>1. leaving' = [leaving EXCEPT ![k] = NoRemoval]
        BY <3>5 DEF Forget
      <4> QED
        BY <3>1, <3>2, <4>1
    <3> QED
      BY <1>6, <3>3, <3>4, <3>5
  <2>4. live' \subseteq Mounts /\ stuck' \subseteq Mounts /\ twice' = twice
    <3>1. CASE RemoveModule(k) \/ Forget(k)
      BY <3>1 DEF RemoveModule, Forget, TypeOK, history
    <3>2. CASE Removal(k)
      <4>1. leaving[k].mount \in Mounts
        BY <3>2 DEF Removal, TypeOK, NoRemoval
      <4> QED
        BY <3>2, <4>1 DEF Removal, Gone, Remains, TypeOK
    <3> QED
      BY <1>6, <3>1, <3>2
  <2>5. tracked' \in [Packages -> Mounts \cup {None}]
    BY <1>6 DEF RemoveModule, Removal, Forget, TypeOK
  <2> QED
    BY <2>1, <2>2, <2>3, <2>4, <2>5 DEF TypeOK, pool
<1>7. ASSUME UNCHANGED vars PROVE TypeOK' /\ PoolInv'
  BY <1>7 DEF vars, pool, api, history, TypeOK, PoolInv
<1> QED
  BY <1>1, <1>2, <1>3, <1>4, <1>5, <1>6, <1>7, CallsAssumption DEF Next, CallStep

\* The types, and that a worker never has an item that is not of its list.
THEOREM TypeCorrect == Spec => []TypeOK
BY InitType, NextType, PTL DEF Spec

-----------------------------------------------------------------------------
(* What a rollback leaves.                                                 *)

\* Item i of a call is in the sequence s.
In(i, s) == \E j \in 1..Len(s) : s[j] = i

LEMMA InAppended ==
    ASSUME NEW S, NEW s \in Seq(S), NEW i \in S, NEW j, j = i \/ In(j, s)
    PROVE  In(j, Append(s, i))
BY AppendProperties DEF In

LEMMA InTail ==
    ASSUME NEW S, NEW s \in Seq(S), s # <<>>, NEW j, In(j, s)
    PROVE  j = Head(s) \/ In(j, Tail(s))
<1>1. PICK i \in 1..Len(s) : s[i] = j
  BY DEF In
<1>2. Len(s) \in Nat \ {0} /\ Head(s) = s[1] /\ Len(Tail(s)) = Len(s) - 1
      /\ \A k \in 1..Len(Tail(s)) : Tail(s)[k] = s[k + 1]
  BY HeadTailProperties
<1>3. CASE i = 1
  BY <1>1, <1>2, <1>3
<1>4. CASE i # 1
  <2>1. i - 1 \in 1..Len(Tail(s)) /\ Tail(s)[i - 1] = s[i]
    BY <1>1, <1>2, <1>4
  <2> QED
    BY <1>1, <2>1 DEF In
<1> QED
  BY <1>3, <1>4

Done(x) == Doing(x, {"added", "recorded"})

\* Where a live mount of a call is on the way from its worker to its removal.
Placed(x) ==
    LET c == x[1]
    IN  /\ phase[c] # "idle"
        /\ phase[c] = "mounting" => Done(x) \/ In(x[2], mounted[c])
        /\ onFailure[c] = "rollback" =>
            /\ phase[c] = "rolling" => In(x[2], queue[c]) \/ x \in stuck
            /\ phase[c] = "forgetting" => In(x[2], Tail(queue[c])) \/ x \in stuck
            /\ phase[c] = "threw" => x \in stuck

RollbackInv == \A x \in live : Placed(x)

\* The other steps of the same worker do not make a mount less done.
LEMMA DoneKept ==
    ASSUME TypeOK, NEW c \in Calls, NEW w \in Workers(c), NEW r \in Slots(c),
           worker' = [worker EXCEPT ![c][w] = r], NEW x \in Mounts, Done(x)
    PROVE  Done(x)' \/ (x[1] = c /\ worker[c][w].item = x[2] /\ worker[c][w].at \in {"added", "recorded"})
<1>1. /\ \A d \in Calls : worker'[d] \in [Workers(d) -> Slots(d)]
      /\ \A d \in Calls : \A v \in Workers(d) : d # c \/ v # w => worker'[d][v] = worker[d][v]
  BY OneWorker
<1>2. x[1] \in Calls
  BY MountParts
<1>3. DOMAIN worker[x[1]] = Workers(x[1]) /\ DOMAIN worker'[x[1]] = Workers(x[1])
  BY <1>1, <1>2 DEF TypeOK
<1>4. PICK v \in Workers(x[1]) : worker[x[1]][v].item = x[2] /\ worker[x[1]][v].at \in {"added", "recorded"}
  BY <1>3 DEF Done, Doing
<1>5. CASE x[1] # c \/ v # w
  <2>1. worker'[x[1]][v] = worker[x[1]][v]
    BY <1>1, <1>2, <1>4, <1>5
  <2> QED
    BY <1>3, <1>4, <2>1 DEF Done, Doing
<1> QED
  BY <1>4, <1>5

\* A removal that has come to an end, or has thrown.
LEMMA RemovedPlaced ==
    ASSUME RollbackInv, NEW y, Gone(y) \/ Remains(y), UNCHANGED pool
    PROVE  RollbackInv'
BY DEF RollbackInv, Placed, Done, Doing, Gone, Remains, pool

LEMMA NextPlaced == TypeOK /\ PoolInv /\ RollbackInv /\ [Next]_vars => RollbackInv'
<1> SUFFICES ASSUME TypeOK, PoolInv, RollbackInv, [Next]_vars, NEW x \in live' PROVE Placed(x)'
  BY DEF RollbackInv
<1> DEFINE c == x[1]
<1>t. x \in Mounts
  BY NextType DEF TypeOK
<1>c. c \in Calls /\ x[2] \in DOMAIN Items[c] /\ x = <<c, x[2]>>
  BY <1>t, MountParts
<1>q. /\ mounted[c] \in Seq(Nat) /\ queue[c] \in Seq(Nat) /\ DOMAIN worker[c] = Workers(c)
      /\ phase \in [Calls -> {"idle", "mounting", "rolling", "forgetting", "returned", "threw"}]
      /\ mounted \in [Calls -> Seq(Nat)] /\ queue \in [Calls -> Seq(Nat)]
      /\ onFailure \in [Calls -> FailureModes]
  BY <1>c DEF TypeOK
<1> HIDE DEF c
<1>1. ASSUME NEW d \in Calls, NEW mode \in FailureModes, Begin(d, mode) PROVE Placed(x)'
  <2>1. x \in live /\ d # c
    BY <1>1 DEF Begin, api, RollbackInv, Placed, c
  <2>2. worker'[c] = worker[c] /\ phase'[c] = phase[c] /\ onFailure'[c] = onFailure[c]
    BY <1>1, <1>c, <1>q, <2>1 DEF Begin, TypeOK
  <2>3. mounted' = mounted /\ queue' = queue /\ stuck' = stuck
    BY <1>1 DEF Begin, Started
  <2> QED
    BY <2>1, <2>2, <2>3 DEF RollbackInv, Placed, Done, Doing, c
<1>2. ASSUME NEW d \in Calls, NEW w \in Workers(d), Add(d, w) \/ Record(d, w) PROVE Placed(x)'
  <2>1. PICK r : Slot(d, w, r) /\ r.item = worker[d][w].item /\ r.at \in {"added", "recorded"}
    BY <1>2, AddSlot
  <2>2. /\ worker'[d][w] = r /\ \A e \in Calls : worker'[e] \in [Workers(e) -> Slots(e)]
    BY <2>1, OneWorker DEF Slot
  <2>3. phase' = phase /\ onFailure' = onFailure /\ mounted' = mounted /\ queue' = queue /\ stuck' = stuck
    BY <1>2 DEF Add, Record, history
  <2>4. CASE x = <<d, worker[d][w].item>>
    <3>1. Done(x)'
      BY <2>1, <2>2, <2>4 DEF Done, Doing
    <3>2. worker[d][w].at # "away"
      BY <1>2 DEF Add, Record
    <3>3. phase[c] = "mounting"
      BY <2>4, <3>2 DEF PoolInv, c
    <3> QED
      BY <2>3, <3>1, <3>3 DEF Placed, c
  <2>5. CASE x # <<d, worker[d][w].item>>
    <3>1. x \in live
      BY <1>2, <2>5 DEF Add, Record
    <3>2. Done(x) => Done(x)'
      BY <1>c, <1>t, <2>1, <2>5, DoneKept DEF Slot, c
    <3> QED
      BY <2>3, <3>1, <3>2 DEF RollbackInv, Placed, c
  <2> QED
    BY <2>4, <2>5
<1>3. ASSUME NEW d \in Calls, NEW w \in Workers(d), Mounted(d, w) \/ Fail(d, w) PROVE Placed(x)'
  <2>1. /\ TakeNext(d, w) /\ worker[d][w].at # "away" /\ phase' = phase /\ queue' = queue
        /\ onFailure' = onFailure /\ x \in live
    BY <1>3 DEF Mounted, Fail, api
  <2>2. PICK r : Slot(d, w, r)
    BY <2>1, NextSlot
  <2>3. stuck' = stuck
    BY <2>1, NextSlot DEF Started, history
  <2>4. worker[d][w].item \in Nat
    BY <2>1, ItemsType DEF PoolInv
  <2>5. In(x[2], mounted[c]) => In(x[2], mounted'[c])
    <3>1. CASE mounted'[c] = mounted[c]
      BY <3>1
    <3>2. CASE mounted'[c] = Append(mounted[c], worker[d][w].item)
      BY <1>q, <2>4, <3>2, InAppended
    <3> QED
      BY <1>3, <1>c, <1>q, <3>1, <3>2 DEF Mounted, Fail
  <2>6. Done(x) => Done(x)' \/ In(x[2], mounted'[c])
    <3>1. CASE c = d /\ worker[d][w].item = x[2] /\ worker[d][w].at \in {"added", "recorded"}
      <4>1. Mounted(d, w)
        BY <1>3, <3>1 DEF Fail
      <4>2. mounted'[c] = Append(mounted[c], x[2])
        BY <1>c, <1>q, <3>1, <4>1 DEF Mounted
      <4> QED
        BY <1>q, <2>4, <3>1, <4>2, InAppended
    <3> QED
      BY <1>t, <2>2, <3>1, DoneKept DEF Slot, c
  <2> QED
    BY <2>1, <2>3, <2>5, <2>6 DEF RollbackInv, Placed, c
<1>4. ASSUME NEW d \in Calls, Finish(d) PROVE Placed(x)'
  <2>1. x \in live /\ UNCHANGED <<onFailure, worker, mounted, stuck>>
    BY <1>4 DEF Finish, api, history
  <2>2. CASE d # c
    <3>1. phase'[c] = phase[c] /\ queue'[c] = queue[c]
      BY <1>4, <2>2 DEF Finish
    <3> QED
      BY <2>1, <3>1 DEF RollbackInv, Placed, Done, Doing, c
  <2>3. CASE d = c
    <3>1. ~Done(x)
      BY <1>4, <1>q, <2>3 DEF Finish, Done, Doing, c
    <3>2. In(x[2], mounted[c])
      BY <1>4, <2>1, <2>3, <3>1 DEF Finish, RollbackInv, Placed, c
    <3>3. /\ phase'[c] = IF ~error[c] THEN "returned" ELSE IF onFailure[c] = "rollback" THEN "rolling" ELSE "threw"
          /\ error[c] /\ onFailure[c] = "rollback" => queue'[c] = mounted[c]
      BY <1>4, <1>c, <1>q, <2>3 DEF Finish
    <3> QED
      BY <2>1, <3>2, <3>3 DEF Placed, c
  <2> QED
    BY <2>2, <2>3
<1>5. ASSUME NEW d \in Calls, Rollback(d) \/ RollbackForgets(d) \/ RollbackEnds(d) PROVE Placed(x)'
  <2>1. x \in live /\ UNCHANGED <<onFailure, worker, mounted>>
    BY <1>5 DEF Rollback, RollbackForgets, RollbackEnds, Gone, Remains, api
  <2>2. x \in stuck => x \in stuck'
    BY <1>5 DEF Rollback, RollbackForgets, RollbackEnds, Gone, Remains, history
  <2>3. CASE d # c
    <3>1. phase'[c] = phase[c] /\ queue'[c] = queue[c]
      BY <1>5, <1>c, <1>q, <2>3 DEF Rollback, RollbackForgets, RollbackEnds
    <3> QED
      BY <2>1, <2>2, <3>1 DEF RollbackInv, Placed, Done, Doing, c
  <2>4. CASE d = c /\ Rollback(d)
    <3>1. queue[c] # <<>> /\ phase[c] = "rolling"
      BY <2>4 DEF Rollback
    <3>2. onFailure[c] = "rollback" => In(x[2], queue[c]) \/ x \in stuck
      BY <2>1, <3>1 DEF RollbackInv, Placed, c
    <3>3. In(x[2], queue[c]) => x[2] = Head(queue[c]) \/ In(x[2], Tail(queue[c]))
      BY <1>q, <3>1, InTail
    <3>4. x = <<c, Head(queue[c])>> => x \in stuck' /\ phase'[c] = "rolling"
      BY <2>4, <1>c, <1>q, <3>1 DEF Rollback, Gone, Remains
    <3>5. \/ phase'[c] = "forgetting" /\ queue'[c] = queue[c]
          \/ phase'[c] = "rolling" /\ queue'[c] = Tail(queue[c])
      BY <2>4, <1>c, <1>q, <3>1 DEF Rollback
    <3>6. onFailure[c] = "rollback" => In(x[2], Tail(queue[c])) \/ x \in stuck'
      BY <1>c, <2>2, <3>2, <3>3, <3>4
    <3> QED
      BY <2>1, <3>5, <3>6 DEF Placed, c
  <2>5. CASE d = c /\ RollbackForgets(d)
    <3>1. phase[c] = "forgetting" /\ phase'[c] = "rolling" /\ queue'[c] = Tail(queue[c])
      BY <2>5, <1>c, <1>q DEF RollbackForgets
    <3> QED
      BY <2>1, <2>2, <3>1 DEF RollbackInv, Placed, c
  <2>6. CASE d = c /\ RollbackEnds(d)
    <3>1. phase[c] = "rolling" /\ phase'[c] = "threw" /\ queue[c] = <<>>
      BY <2>6, <1>c, <1>q DEF RollbackEnds
    <3>2. ~In(x[2], queue[c])
      BY <3>1 DEF In
    <3> QED
      BY <2>1, <2>2, <3>1, <3>2 DEF RollbackInv, Placed, c
  <2> QED
    BY <1>5, <2>3, <2>4, <2>5, <2>6
<1>6. ASSUME NEW k \in Packages, RemoveModule(k) \/ Removal(k) \/ Forget(k) PROVE Placed(x)'
  <2>1. UNCHANGED pool
    BY <1>6 DEF RemoveModule, Removal, Forget
  <2>2. CASE RemoveModule(k) \/ Forget(k)
    <3>1. live' = live /\ stuck' = stuck
      BY <2>2 DEF RemoveModule, Forget, history
    <3> QED
      BY <2>1, <3>1 DEF RollbackInv, Placed, Done, Doing, pool
  <2>3. CASE Removal(k)
    <3>1. RollbackInv'
      BY <2>1, <2>3, RemovedPlaced DEF Removal
    <3> QED
      BY <3>1 DEF RollbackInv
  <2> QED
    BY <1>6, <2>2, <2>3
<1>7. ASSUME UNCHANGED vars PROVE Placed(x)'
  BY <1>7 DEF vars, pool, api, history, RollbackInv, Placed, Done, Doing
<1> QED
  BY <1>1, <1>2, <1>3, <1>4, <1>5, <1>6, <1>7, CallsAssumption DEF Next, CallStep

LEMMA PlacedSuffices == RollbackInv => RollbackLeavesNothing
BY DEF RollbackInv, Placed, RollbackLeavesNothing

\* A call that rolls back leaves none of what it mounted behind, but for the
\* removals that threw: for any number of workers, and however other calls and
\* removals interleave with it.
THEOREM RollbackAlwaysLeavesNothing == Spec => []RollbackLeavesNothing
<1>1. Init => RollbackInv
  BY DEF Init, RollbackInv
<1> QED
  BY <1>1, InitType, NextType, NextPlaced, PlacedSuffices, PTL DEF Spec

-----------------------------------------------------------------------------
(* Packages that share a mount path.                                       *)

\* It will be live, if its add() does not fail.
Coming(x) ==
    \E w \in Workers(x[1]) :
        worker[x[1]][w].at = "adding" /\ worker[x[1]][w].hit = FALSE /\ worker[x[1]][w].item = x[2]
There(x) == x \in live \/ Coming(x)

Rivals(x, y) == x # y /\ x[1] \in Strict /\ y[1] \in Strict /\ PathOf(x) = PathOf(y)

SharedInv ==
    \A x, y \in Mounts : Rivals(x, y) /\ There(x) /\ There(y) => {x, y} \in together

\* What starts now finds nothing live at its path, and what is on its way
\* there is counted.
LEMMA StartedShared ==
    ASSUME TypeOK, SharedInv, NEW xs \in SUBSET Mounts, Started(xs), live' = live,
           \A x \in Mounts : Coming(x)' =>
               Coming(x) \/ (x \in xs /\ (x[1] \in Strict => ~Occupied(PathOf(x))))
    PROVE  SharedInv'
<1> SUFFICES ASSUME NEW x \in Mounts, NEW y \in Mounts, Rivals(x, y), There(x)', There(y)'
             PROVE  {x, y} \in together'
  BY DEF SharedInv, Rivals, PathOf, PackageOf
<1>1. together \subseteq together'
  BY DEF Started
<1>2. ASSUME NEW u \in xs, NEW v \in Mounts, Rivals(u, v), Adding(v) \/ v \in xs
      PROVE  {u, v} \in together'
  <2> DEFINE ps == {q \in xs \X {z \in Mounts : Adding(z) \/ z \in xs} :
                        q[1] # q[2] /\ PathOf(q[1]) = PathOf(q[2])}
  <2>1. <<u, v>> \in ps /\ <<u, v>>[1] = u /\ <<u, v>>[2] = v
    BY <1>2 DEF Rivals
  <2>2. together' = together \cup {{p[1], p[2]} : p \in ps}
    BY DEF Started
  <2> QED
    BY <2>1, <2>2
<1>3. ASSUME NEW z \in Mounts, Coming(z) PROVE Adding(z)
  BY <1>3, MountParts DEF Coming, Adding, Doing, TypeOK
<1>4. ASSUME NEW u \in Mounts, NEW v \in Mounts, Rivals(u, v), There(u)', There(v)', ~There(u)
      PROVE  {u, v} \in together'
  <2>1. u \in xs /\ ~Occupied(PathOf(u))
    BY <1>4 DEF There, Rivals
  <2>2. v \notin live
    BY <1>4, <2>1 DEF Occupied, Rivals
  <2>3. Adding(v) \/ v \in xs
    BY <1>3, <1>4, <2>2 DEF There
  <2> QED
    BY <1>2, <1>4, <2>1, <2>3
<1>5. CASE There(x) /\ There(y)
  BY <1>1, <1>5 DEF SharedInv
<1>6. CASE ~There(x)
  BY <1>4, <1>6
<1>7. CASE ~There(y)
  <2>1. Rivals(y, x)
    BY DEF Rivals
  <2>2. {y, x} \in together'
    BY <1>4, <1>7, <2>1
  <2> QED
    BY <2>2
<1> QED
  BY <1>5, <1>6, <1>7

\* A step that starts nothing.
LEMMA SharedKept ==
    ASSUME SharedInv, together' = together, \A x \in Mounts : There(x)' => There(x)
    PROVE  SharedInv'
BY DEF SharedInv, Rivals, PathOf, PackageOf

LEMMA NextShared == TypeOK /\ PoolInv /\ SharedInv /\ [Next]_vars => SharedInv'
<1> SUFFICES ASSUME TypeOK, PoolInv, SharedInv, [Next]_vars PROVE SharedInv'
  OBVIOUS
<1>1. ASSUME NEW c \in Calls, NEW mode \in FailureModes, Begin(c, mode) PROVE SharedInv'
  <2> DEFINE xs == {<<c, w>> : w \in Workers(c)}
  <2>1. xs \in SUBSET Mounts
    BY ItemsType
  <2>2. \A d \in Calls : worker'[d] = IF d = c THEN [w \in Workers(c) |-> Start(c, w)] ELSE worker[d]
    BY <1>1 DEF Begin, TypeOK
  <2>3. ASSUME NEW x \in Mounts, Coming(x)'
        PROVE  Coming(x) \/ (x \in xs /\ (x[1] \in Strict => ~Occupied(PathOf(x))))
    <3>1. x[1] \in Calls /\ x = <<x[1], x[2]>>
      BY MountParts
    <3>2. CASE x[1] # c
      BY <2>2, <2>3, <3>1, <3>2 DEF Coming
    <3>3. CASE x[1] = c
      <4>1. PICK w \in Workers(c) : Start(c, w).hit = FALSE /\ Start(c, w).item = x[2]
        BY <2>2, <2>3, <3>3 DEF Coming
      <4>2. w \in DOMAIN Items[c]
        BY ItemsType
      <4>3. x[2] = w /\ (c \in Strict => ~Occupied(MountPath[Items[c][w]]))
        BY <4>1, <4>2, StartType
      <4> QED
        BY <3>1, <3>3, <4>3 DEF PathOf, PackageOf
    <3> QED
      BY <3>2, <3>3
  <2>4. Started(xs) /\ live' = live
    BY <1>1 DEF Begin, api
  <2> HIDE DEF xs
  <2> QED
    BY <2>1, <2>3, <2>4, StartedShared
<1>2. ASSUME NEW c \in Calls, NEW w \in Workers(c), Add(c, w) \/ Record(c, w) PROVE SharedInv'
  <2>1. PICK r : Slot(c, w, r) /\ r.item = worker[c][w].item /\ r.at \in {"added", "recorded"}
    BY <1>2, AddSlot
  <2>2. /\ worker'[c][w] = r
        /\ \A d \in Calls : \A v \in Workers(d) : d # c \/ v # w => worker'[d][v] = worker[d][v]
    BY <2>1, OneWorker DEF Slot
  <2>3. ASSUME NEW x \in Mounts, There(x)' PROVE There(x)
    <3>1. x[1] \in Calls /\ x = <<x[1], x[2]>>
      BY MountParts
    <3>2. Coming(x)' => Coming(x)
      BY <2>1, <2>2, <3>1 DEF Coming
    <3>3. CASE x \in live' /\ x \notin live
      <4>1. x = <<c, worker[c][w].item>> /\ worker[c][w].at = "adding" /\ worker[c][w].hit = FALSE
        BY <1>2, <3>3 DEF Add, Record
      <4> QED
        BY <4>1 DEF There, Coming
    <3> QED
      BY <2>3, <3>2, <3>3 DEF There
  <2>4. together' = together
    BY <1>2 DEF Add, Record, history
  <2> QED
    BY <2>3, <2>4, SharedKept
<1>3. ASSUME NEW c \in Calls, NEW w \in Workers(c), Mounted(c, w) \/ Fail(c, w) PROVE SharedInv'
  <2>1. TakeNext(c, w) /\ live' = live
    BY <1>3 DEF Mounted, Fail, api
  <2>2. ASSUME NEW r, Slot(c, w, r)
        PROVE  /\ worker'[c][w] = r
               /\ \A d \in Calls : \A v \in Workers(d) : d # c \/ v # w => worker'[d][v] = worker[d][v]
    BY <2>2, OneWorker DEF Slot
  <2>3. CASE Slot(c, w, Away) /\ UNCHANGED <<next, history>>
    <3>1. ASSUME NEW x \in Mounts, There(x)' PROVE There(x)
      <4>1. Coming(x)' => Coming(x)
        BY <2>2, <2>3, MountParts, AwayType DEF Coming
      <4> QED
        BY <2>1, <3>1, <4>1 DEF There
    <3> QED
      BY <2>3, <3>1, SharedKept DEF history
  <2>4. CASE /\ next[c] \in DOMAIN Items[c] /\ Slot(c, w, Start(c, next[c]))
             /\ Started({<<c, next[c]>>})
    <3>1. {<<c, next[c]>>} \in SUBSET Mounts
      BY <2>4, ItemsType
    <3>2. ASSUME NEW x \in Mounts, Coming(x)'
          PROVE  Coming(x) \/ (x \in {<<c, next[c]>>} /\ (x[1] \in Strict => ~Occupied(PathOf(x))))
      <4>1. x[1] \in Calls /\ x = <<x[1], x[2]>>
        BY MountParts
      <4>2. PICK v \in Workers(x[1]) : /\ worker'[x[1]][v].at = "adding" /\ worker'[x[1]][v].hit = FALSE
                                        /\ worker'[x[1]][v].item = x[2]
        BY <3>2 DEF Coming
      <4>3. CASE x[1] # c \/ v # w
        <5>1. worker'[x[1]][v] = worker[x[1]][v]
          BY <2>2, <2>4, <4>1, <4>2, <4>3
        <5> QED
          BY <4>2, <5>1 DEF Coming
      <4>4. CASE x[1] = c /\ v = w
        <5>1. worker'[x[1]][v] = Start(c, next[c])
          BY <2>2, <2>4, <4>4
        <5>2. x[2] = next[c] /\ (c \in Strict => ~Occupied(MountPath[Items[c][next[c]]]))
          BY <2>4, <4>2, <5>1, StartType
        <5> QED
          BY <4>1, <4>4, <5>2 DEF PathOf, PackageOf
      <4> QED
        BY <4>3, <4>4
    <3> QED
      BY <2>1, <2>4, <3>1, <3>2, StartedShared
  <2> QED
    BY <2>1, <2>3, <2>4, NextSlot
<1>4. ASSUME NEW c \in Calls, Finish(c) \/ Rollback(c) \/ RollbackForgets(c) \/ RollbackEnds(c) PROVE SharedInv'
  <2>1. worker' = worker /\ together' = together /\ live' \subseteq live
    BY <1>4 DEF Finish, Rollback, RollbackForgets, RollbackEnds, Gone, Remains, api, history
  <2> QED
    BY <2>1, SharedKept DEF There, Coming
<1>5. ASSUME NEW k \in Packages, RemoveModule(k) \/ Removal(k) \/ Forget(k) PROVE SharedInv'
  <2>1. worker' = worker /\ together' = together /\ live' \subseteq live
    BY <1>5 DEF RemoveModule, Removal, Forget, Gone, Remains, pool, history
  <2> QED
    BY <2>1, SharedKept DEF There, Coming
<1>6. ASSUME UNCHANGED vars PROVE SharedInv'
  BY <1>6, SharedKept DEF vars, pool, api, history, There, Coming
<1> QED
  BY <1>1, <1>2, <1>3, <1>4, <1>5, <1>6, CallsAssumption DEF Next, CallStep

\* In "error" mode two packages share a mount path only if their adds
\* overlapped, for any number of calls and workers.
THEOREM CollisionsAlwaysOverlap == Spec => []CollisionsOverlap
<1>1. Init => SharedInv
  BY DEF Init, SharedInv, There, Coming, Away, Mounts
<1>2. TypeOK /\ SharedInv => CollisionsOverlap
  BY DEF TypeOK, SharedInv, CollisionsOverlap, There, Rivals
<1> QED
  BY <1>1, <1>2, InitType, NextType, NextShared, PTL DEF Spec

-----------------------------------------------------------------------------
(* What is mounted is listed under its name.                               *)

\* What is listed or being removed under a name is a mount of that name; what
\* a call rolls back it has mounted, and what it is about to forget is gone.
Kept ==
    /\ \A k \in Packages :
        /\ tracked[k] # None => PackageOf(tracked[k]) = k
        /\ leaving[k] # NoRemoval => leaving[k].mount \in Mounts /\ PackageOf(leaving[k].mount) = k
    /\ \A c \in Calls :
        /\ phase[c] = "idle" => mounted[c] = <<>>
        /\ phase[c] \in {"rolling", "forgetting"} =>
            onFailure[c] = "rollback" /\ \A i : In(i, queue[c]) => In(i, mounted[c])
        /\ phase[c] = "forgetting" => <<c, Head(queue[c])>> \notin live

\* A worker has the item.
Has(x, w) == worker[x[1]][w].item = x[2] /\ worker[x[1]][w].at # "away"
Alone(x) == \A w, v \in Workers(x[1]) : Has(x, w) /\ Has(x, v) => w = v
Added(x) == Doing(x, {"added"})
Forgetting(x) == phase[x[1]] = "forgetting" /\ Head(queue[x[1]]) = x[2]

\* Somebody still has to do with the mount.
Present(x) ==
    \/ InFlight(x) \/ x \in live \/ MayRollBack(x)
    \/ tracked[PackageOf(x)] = x \/ leaving[PackageOf(x)].mount = x

\* A package that was never asked for again has one mount at a time.
Sole ==
    \A x, y \in Mounts :
        Present(x) /\ Present(y) /\ PackageOf(x) = PackageOf(y) /\ PackageOf(x) \notin twice => x = y

Tracks(x) ==
    LET k == PackageOf(x)
    IN  /\ Alone(x)
        /\ Adding(x) => x \notin live /\ tracked[k] = None /\ leaving[k] = NoRemoval
        /\ Added(x) => x \in live /\ tracked[k] = None /\ leaving[k] = NoRemoval
        /\ x \in live => tracked[k] = x \/ Added(x)
        /\ tracked[k] = x => x \in live \/ leaving[k] = [mount |-> x, gone |-> TRUE] \/ Forgetting(x)
        /\ leaving[k] = [mount |-> x, gone |-> TRUE] => x \notin live
Tracking == \A x \in Mounts : PackageOf(x) \notin twice => Tracks(x)

LEMMA MountType ==
    ASSUME NEW x \in Mounts
    PROVE  /\ x[1] \in Calls /\ x[2] \in DOMAIN Items[x[1]] /\ x = <<x[1], x[2]>>
           /\ PackageOf(x) \in Packages /\ x # None /\ x[2] # 0
BY MountParts, ItemsType, CallsAssumption DEF PackageOf

LEMMA InIsToSet ==
    ASSUME NEW S, NEW s \in Seq(S), NEW i
    PROVE  i \in ToSet(s) <=> In(i, s)
BY DEF ToSet, In

LEMMA InTailOnly ==
    ASSUME NEW S, NEW s \in Seq(S), s # <<>>, NEW j
    PROVE  In(Head(s), s) /\ (In(j, Tail(s)) => In(j, s))
<1>1. Len(s) \in Nat \ {0} /\ Head(s) = s[1] /\ Len(Tail(s)) = Len(s) - 1
      /\ \A k \in 1..Len(Tail(s)) : Tail(s)[k] = s[k + 1]
  BY HeadTailProperties
<1>2. In(Head(s), s)
  BY <1>1 DEF In
<1>3. ASSUME NEW k \in 1..Len(Tail(s)), Tail(s)[k] = j PROVE In(j, s)
  <2>1. k + 1 \in 1..Len(s) /\ s[k + 1] = j
    BY <1>1, <1>3
  <2> QED
    BY <2>1 DEF In
<1> QED
  BY <1>2, <1>3 DEF In

LEMMA InAppendedOnly ==
    ASSUME NEW S, NEW s \in Seq(S), NEW i \in S, NEW j, In(j, Append(s, i))
    PROVE  j = i \/ In(j, s)
<1>1. Len(Append(s, i)) = Len(s) + 1 /\ Len(s) \in Nat
      /\ (\A k \in 1..Len(s) : Append(s, i)[k] = s[k]) /\ Append(s, i)[Len(s) + 1] = i
  BY AppendProperties
<1>2. PICK k \in 1..Len(Append(s, i)) : Append(s, i)[k] = j
  BY DEF In
<1>3. k \in 1..Len(s) \/ k = Len(s) + 1
  BY <1>1, <1>2
<1> QED
  BY <1>1, <1>2, <1>3 DEF In

LEMMA RollsBack ==
    ASSUME TypeOK, NEW x \in Mounts
    PROVE  MayRollBack(x) <=> /\ onFailure[x[1]] = "rollback"
                              /\ phase[x[1]] \in {"mounting", "rolling", "forgetting"}
                              /\ In(x[2], mounted[x[1]])
<1>1. mounted[x[1]] \in Seq(Nat)
  BY MountType DEF TypeOK
<1> QED
  BY <1>1, InIsToSet DEF MayRollBack

\* Who has nothing to do with anybody is as it should be.
LEMMA AbsentTracks ==
    ASSUME TypeOK, NEW x \in Mounts, ~Present(x)
    PROVE  Tracks(x)
<1>1. x[1] \in Calls /\ worker[x[1]] \in [Workers(x[1]) -> Slots(x[1])]
  BY MountType DEF TypeOK
<1>2. \A w \in Workers(x[1]) : ~Has(x, w)
  BY <1>1 DEF Present, InFlight, Doing, Has, Slots, Busy
<1>3. ~Adding(x) /\ ~Added(x)
  BY DEF Present, InFlight, Doing, Adding, Added, Busy
<1> QED
  BY <1>2, <1>3 DEF Present, Tracks, Alone

-----------------------------------------------------------------------------
(* What the step of a worker changes for a mount.                          *)

LEMMA SlotDoing ==
    ASSUME TypeOK, NEW c \in Calls, NEW w \in Workers(c), NEW r, Slot(c, w, r),
           NEW x \in Mounts, NEW S
    PROVE  /\ Doing(x, S) <=> \E v \in Workers(x[1]) : worker[x[1]][v].item = x[2] /\ worker[x[1]][v].at \in S
           /\ Doing(x, S)' <=>
                \/ \E v \in Workers(x[1]) : /\ x[1] # c \/ v # w
                                            /\ worker[x[1]][v].item = x[2] /\ worker[x[1]][v].at \in S
                \/ x[1] = c /\ x[2] = r.item /\ r.at \in S
<1>1. x[1] \in Calls
  BY MountType
<1>2. /\ worker'[c][w] = r /\ \A d \in Calls : worker'[d] \in [Workers(d) -> Slots(d)]
      /\ \A d \in Calls : \A v \in Workers(d) : d # c \/ v # w => worker'[d][v] = worker[d][v]
  BY OneWorker DEF Slot
<1>3. DOMAIN worker[x[1]] = Workers(x[1]) /\ DOMAIN worker'[x[1]] = Workers(x[1])
  BY <1>1, <1>2 DEF TypeOK
<1>4. Doing(x, S)' <=> \E v \in Workers(x[1]) : worker'[x[1]][v].item = x[2] /\ worker'[x[1]][v].at \in S
  BY <1>3 DEF Doing
<1>5. Doing(x, S) <=> \E v \in Workers(x[1]) : worker[x[1]][v].item = x[2] /\ worker[x[1]][v].at \in S
  BY <1>3 DEF Doing
<1> QED
  BY <1>1, <1>2, <1>4, <1>5

LEMMA SlotHas ==
    ASSUME TypeOK, NEW c \in Calls, NEW w \in Workers(c), NEW r, Slot(c, w, r), NEW x \in Mounts
    PROVE  \A v \in Workers(x[1]) :
             /\ x[1] # c \/ v # w => (Has(x, v)' <=> Has(x, v))
             /\ x[1] = c /\ v = w => (Has(x, v)' <=> r.item = x[2] /\ r.at # "away")
<1>1. x[1] \in Calls
  BY MountType
<1>2. /\ worker'[c][w] = r
      /\ \A d \in Calls : \A v \in Workers(d) : d # c \/ v # w => worker'[d][v] = worker[d][v]
  BY OneWorker DEF Slot
<1> QED
  BY <1>1, <1>2 DEF Has

\* A mount that the worker neither has nor gets.
LEMMA SlotOther ==
    ASSUME TypeOK, NEW c \in Calls, NEW w \in Workers(c), NEW r, Slot(c, w, r), NEW x \in Mounts,
           x # <<c, worker[c][w].item>>, x # <<c, r.item>>
    PROVE  /\ Adding(x)' <=> Adding(x)
           /\ Added(x)' <=> Added(x)
           /\ InFlight(x)' <=> InFlight(x)
           /\ Alone(x) => Alone(x)'
<1>1. x = <<x[1], x[2]>>
  BY MountType
<1>2. x[1] = c => worker[c][w].item # x[2] /\ r.item # x[2]
  BY <1>1
<1>3. ASSUME NEW S PROVE Doing(x, S)' <=> Doing(x, S)
  BY <1>2, SlotDoing
<1>4. \A v \in Workers(x[1]) : Has(x, v)' => Has(x, v)
  BY <1>2, SlotHas
<1> QED
  BY <1>3, <1>4 DEF Adding, Added, InFlight, Alone

\* The mount that it has.
LEMMA SlotOwn ==
    ASSUME TypeOK, NEW c \in Calls, NEW w \in Workers(c), NEW r, Slot(c, w, r), NEW x \in Mounts,
           x = <<c, worker[c][w].item>>, worker[c][w].at # "away", Alone(x)
    PROVE  /\ Adding(x) <=> worker[c][w].at = "adding"
           /\ Added(x) <=> worker[c][w].at = "added"
           /\ Adding(x)' <=> r.item = x[2] /\ r.at = "adding"
           /\ Added(x)' <=> r.item = x[2] /\ r.at = "added"
           /\ Alone(x)'
<1>1. x[1] = c /\ x[2] = worker[c][w].item
  OBVIOUS
<1>2. Has(x, w) /\ \A v \in Workers(x[1]) : Has(x, v) => v = w
  BY <1>1 DEF Has, Alone
<1>3. \A v \in Workers(x[1]) : Has(x, v)' => v = w
  BY <1>1, <1>2, SlotHas
<1>4. ASSUME NEW a, a # "away"
      PROVE  /\ Doing(x, {a}) <=> worker[c][w].at = a
             /\ Doing(x, {a})' <=> r.item = x[2] /\ r.at = a
  <2>1. \A v \in Workers(x[1]) : worker[x[1]][v].item = x[2] /\ worker[x[1]][v].at \in {a} => v = w
    BY <1>2, <1>4 DEF Has
  <2>2. Doing(x, {a}) <=> worker[c][w].at = a
    BY <1>1, <2>1, SlotDoing
  <2>3. Doing(x, {a})' <=> r.item = x[2] /\ r.at = a
    BY <1>1, <2>1, SlotDoing
  <2> QED
    BY <2>2, <2>3
<1> QED
  BY <1>3, <1>4 DEF Adding, Added, Alone

\* The mount that it gets.
LEMMA SlotNew ==
    ASSUME TypeOK, NEW c \in Calls, NEW w \in Workers(c), NEW r, Slot(c, w, r), NEW x \in Mounts,
           x = <<c, r.item>>, r.at = "adding", ~InFlight(x)
    PROVE  Adding(x)' /\ ~Added(x)' /\ Alone(x)'
<1>1. x[1] = c /\ x[2] = r.item
  OBVIOUS
<1>2. worker[c] \in [Workers(c) -> Slots(c)]
  BY DEF TypeOK
<1>3. ASSUME NEW v \in Workers(c), Has(x, v) PROVE FALSE
  <2>1. worker[c][v].item = x[2] /\ worker[c][v].at \in Busy
    BY <1>1, <1>2, <1>3 DEF Has, Slots
  <2> QED
    BY <1>1, <2>1, SlotDoing DEF InFlight
<1>4. \A v \in Workers(x[1]) : Has(x, v)' => v = w
  BY <1>1, <1>3, SlotHas
<1>5. Adding(x)'
  BY <1>1, SlotDoing DEF Adding
<1>6. ~Added(x)'
  BY <1>1, <1>3, SlotDoing DEF Added, Has
<1> QED
  BY <1>4, <1>5, <1>6 DEF Alone

LEMMA NextKept == TypeOK /\ PoolInv /\ Kept /\ [Next]_vars => Kept'
<1> SUFFICES ASSUME TypeOK, PoolInv, Kept, [Next]_vars PROVE Kept'
  OBVIOUS
<1>t. /\ phase \in [Calls -> {"idle", "mounting", "rolling", "forgetting", "returned", "threw"}]
      /\ mounted \in [Calls -> Seq(Nat)] /\ queue \in [Calls -> Seq(Nat)]
      /\ onFailure \in [Calls -> FailureModes]
      /\ tracked \in [Packages -> Mounts \cup {None}]
      /\ leaving \in [Packages -> [mount : Mounts \cup {None}, gone : BOOLEAN]]
  BY DEF TypeOK
<1>k. ASSUME UNCHANGED <<tracked, leaving>>,
             \A c \in Calls :
                /\ phase'[c] = "idle" => mounted'[c] = <<>>
                /\ phase'[c] \in {"rolling", "forgetting"} =>
                    onFailure'[c] = "rollback" /\ \A i : In(i, queue'[c]) => In(i, mounted'[c])
                /\ phase'[c] = "forgetting" => <<c, Head(queue'[c])>> \notin live'
      PROVE  Kept'
  BY <1>k DEF Kept, PackageOf
<1>1. ASSUME NEW c \in Calls, NEW mode \in FailureModes, Begin(c, mode) PROVE Kept'
  <2>1. /\ UNCHANGED <<mounted, queue, live, tracked, leaving>>
        /\ onFailure' = [onFailure EXCEPT ![c] = mode] /\ phase' = [phase EXCEPT ![c] = "mounting"]
    BY <1>1 DEF Begin, api
  <2>2. \A d \in Calls : /\ phase'[d] = IF d = c THEN "mounting" ELSE phase[d]
                         /\ d # c => onFailure'[d] = onFailure[d]
    BY <1>t, <2>1
  <2> QED
    BY <1>k, <2>1, <2>2 DEF Kept
<1>2. ASSUME NEW c \in Calls, NEW w \in Workers(c), Add(c, w) \/ Record(c, w) PROVE Kept'
  <2>1. worker[c][w].at # "away" /\ UNCHANGED <<phase, onFailure, mounted, queue, leaving>>
    BY <1>2 DEF Add, Record
  <2>2. phase[c] = "mounting" /\ worker[c][w].item \in DOMAIN Items[c]
    BY <2>1 DEF PoolInv
  <2> DEFINE x == <<c, worker[c][w].item>>
  <2>3. PackageOf(x) = Items[c][worker[c][w].item] /\ PackageOf(x) \in Packages
    BY <2>2, ItemsType DEF PackageOf
  <2>4. live' \subseteq live \cup {x}
    BY <1>2 DEF Add, Record
  <2>5. tracked' = tracked \/ tracked' = [tracked EXCEPT ![PackageOf(x)] = x]
    BY <1>2, <2>3 DEF Add, Record
  <2>6. \A d \in Calls : phase[d] = "forgetting" => <<d, Head(queue[d])>> # x
    BY <2>2
  <2> HIDE DEF x
  <2>7. \A k \in Packages : tracked'[k] # None => PackageOf(tracked'[k]) = k
    BY <1>t, <2>3, <2>5 DEF Kept
  <2> QED
    BY <2>1, <2>4, <2>6, <2>7 DEF Kept, PackageOf
<1>3. ASSUME NEW c \in Calls, NEW w \in Workers(c), Mounted(c, w) \/ Fail(c, w) PROVE Kept'
  <2>1. worker[c][w].at # "away" /\ UNCHANGED <<phase, onFailure, queue, live, tracked, leaving>>
    BY <1>3 DEF Mounted, Fail, api
  <2>2. phase[c] = "mounting"
    BY <2>1 DEF PoolInv
  <2>3. \A d \in Calls : d # c => mounted'[d] = mounted[d]
    BY <1>3, <1>t DEF Mounted, Fail
  <2> QED
    BY <1>k, <2>1, <2>2, <2>3 DEF Kept
<1>4. ASSUME NEW c \in Calls, Finish(c) PROVE Kept'
  <2>1. UNCHANGED <<onFailure, mounted, live, tracked, leaving>>
    BY <1>4 DEF Finish, api
  <2>2. \A d \in Calls : d # c => phase'[d] = phase[d] /\ queue'[d] = queue[d]
    BY <1>4 DEF Finish
  <2>3. /\ phase'[c] \in {"returned", "rolling", "threw"}
        /\ phase'[c] = "rolling" => onFailure[c] = "rollback" /\ queue'[c] = mounted[c]
    BY <1>4, <1>t DEF Finish
  <2> QED
    BY <1>k, <2>1, <2>2, <2>3 DEF Kept
<1>5. ASSUME NEW c \in Calls, Rollback(c) PROVE Kept'
  <2>1. /\ phase[c] = "rolling" /\ queue[c] # <<>> /\ UNCHANGED <<onFailure, mounted, tracked, leaving>>
        /\ live' \subseteq live
        /\ \A d \in Calls : d # c => phase'[d] = phase[d] /\ queue'[d] = queue[d]
    BY <1>5, <1>t DEF Rollback, Gone, Remains
  <2>2. \/ phase'[c] = "forgetting" /\ queue'[c] = queue[c] /\ <<c, Head(queue[c])>> \notin live'
        \/ phase'[c] = "rolling" /\ queue'[c] = Tail(queue[c])
    BY <1>5, <1>t DEF Rollback, Gone
  <2>3. \A i : In(i, Tail(queue[c])) => In(i, queue[c])
    BY <1>t, <2>1, InTailOnly
  <2> QED
    BY <1>k, <2>1, <2>2, <2>3 DEF Kept
<1>6. ASSUME NEW c \in Calls, RollbackForgets(c) PROVE Kept'
  <2>1. /\ phase[c] = "forgetting" /\ UNCHANGED <<onFailure, mounted, leaving, live>>
        /\ \A d \in Calls : d # c => phase'[d] = phase[d] /\ queue'[d] = queue[d]
        /\ phase'[c] = "rolling" /\ queue'[c] = Tail(queue[c])
    BY <1>6, <1>t DEF RollbackForgets
  <2>2. \A k \in Packages : tracked'[k] = tracked[k] \/ tracked'[k] = None
    BY <1>6, <1>t DEF RollbackForgets
  <2>3. \A i : In(i, Tail(queue[c])) => In(i, queue[c])
    <3>1. queue[c] # <<>>
      BY <2>1 DEF PoolInv
    <3> QED
      BY <1>t, <3>1, InTailOnly
  <2>4. \A k \in Packages : /\ tracked'[k] # None => PackageOf(tracked'[k]) = k
                            /\ leaving'[k] # NoRemoval => leaving'[k].mount \in Mounts /\ PackageOf(leaving'[k].mount) = k
    BY <2>1, <2>2 DEF Kept
  <2>5. \A d \in Calls :
            /\ phase'[d] = "idle" => mounted'[d] = <<>>
            /\ phase'[d] \in {"rolling", "forgetting"} =>
                onFailure'[d] = "rollback" /\ \A i : In(i, queue'[d]) => In(i, mounted'[d])
            /\ phase'[d] = "forgetting" => <<d, Head(queue'[d])>> \notin live'
    BY <2>1, <2>3 DEF Kept
  <2> QED
    BY <2>4, <2>5 DEF Kept, PackageOf
<1>7. ASSUME NEW c \in Calls, RollbackEnds(c) PROVE Kept'
  <2>1. /\ UNCHANGED <<onFailure, mounted, queue, tracked, leaving, live>>
        /\ \A d \in Calls : phase'[d] = IF d = c THEN "threw" ELSE phase[d]
    BY <1>7, <1>t DEF RollbackEnds, api
  <2> QED
    BY <1>k, <2>1 DEF Kept
<1>8. ASSUME NEW k \in Packages, RemoveModule(k) \/ Removal(k) \/ Forget(k) PROVE Kept'
  <2>1. UNCHANGED pool /\ live' \subseteq live
    BY <1>8 DEF RemoveModule, Removal, Forget, Gone, Remains
  <2>2. \A j \in Packages : tracked'[j] = tracked[j] \/ tracked'[j] = None
    BY <1>8, <1>t DEF RemoveModule, Removal, Forget
  <2>3. \A j \in Packages :
            \/ leaving'[j] = NoRemoval
            \/ leaving'[j].mount = leaving[j].mount /\ leaving[j] # NoRemoval
            \/ leaving'[j].mount = tracked[j] /\ tracked[j] # None
    <3>1. CASE RemoveModule(k)
      BY <1>t, <3>1 DEF RemoveModule
    <3>2. CASE Removal(k) \/ Forget(k)
      BY <1>t, <3>2 DEF Removal, Forget
    <3> QED
      BY <1>8, <3>1, <3>2
  <2>4. \A j \in Packages : /\ tracked'[j] # None => PackageOf(tracked'[j]) = j
                            /\ leaving'[j] # NoRemoval => leaving'[j].mount \in Mounts /\ PackageOf(leaving'[j].mount) = j
    BY <1>t, <2>2, <2>3 DEF Kept
  <2> QED
    BY <2>1, <2>4 DEF Kept, PackageOf, pool
<1>9. ASSUME UNCHANGED vars PROVE Kept'
  BY <1>9 DEF vars, pool, api, Kept, PackageOf
<1> QED
  BY <1>1, <1>2, <1>3, <1>4, <1>5, <1>6, <1>7, <1>8, <1>9, CallsAssumption DEF Next, CallStep

\* A step that starts nothing, for at most one mount.
LEMMA StepTracks ==
    ASSUME TypeOK, TypeOK', Sole, Tracking, twice' = twice,
           NEW y \in Mounts, Present(y), PackageOf(y) \notin twice => Tracks(y)',
           \A x \in Mounts : Present(x)' => Present(x),
           \A x \in Mounts : PackageOf(x) # PackageOf(y) /\ Tracks(x) => Tracks(x)'
    PROVE  Sole' /\ Tracking'
<1>1. \A x \in Mounts : PackageOf(x)' = PackageOf(x)
  BY DEF PackageOf
<1>2. Sole'
  BY <1>1 DEF Sole
<1>3. ASSUME NEW x \in Mounts, PackageOf(x) \notin twice PROVE Tracks(x)'
  <2>1. CASE PackageOf(x) # PackageOf(y)
    BY <1>3, <2>1 DEF Tracking
  <2>2. CASE PackageOf(x) = PackageOf(y) /\ Present(x)
    BY <1>3, <2>2 DEF Sole
  <2>3. CASE ~Present(x)
    <3>1. ~Present(x)'
      BY <2>3
    <3> QED
      BY <3>1, AbsentTracks, PTL
  <2> QED
    BY <2>1, <2>2, <2>3
<1> QED
  BY <1>1, <1>2, <1>3 DEF Tracking

\* A step that does not concern the mount.
LEMMA FrameTracks ==
    ASSUME NEW x \in Mounts, Tracks(x), Alone(x)',
           Adding(x)' <=> Adding(x), Added(x)' <=> Added(x), x \in live' <=> x \in live,
           tracked'[PackageOf(x)] = tracked[PackageOf(x)], leaving'[PackageOf(x)] = leaving[PackageOf(x)],
           Forgetting(x) => Forgetting(x)'
    PROVE  Tracks(x)'
<1>1. PackageOf(x)' = PackageOf(x)
  BY DEF PackageOf
<1> QED
  BY <1>1 DEF Tracks

LEMMA SameWorkers ==
    ASSUME worker' = worker, NEW x
    PROVE  /\ Adding(x)' <=> Adding(x)
           /\ Added(x)' <=> Added(x)
           /\ InFlight(x)' <=> InFlight(x)
           /\ Alone(x)' <=> Alone(x)
BY DEF Adding, Added, InFlight, Doing, Alone, Has

LEMMA QuietTracks ==
    ASSUME Sole, Tracking, UNCHANGED <<worker, live, tracked, leaving, twice>>,
           \A x \in Mounts : /\ MayRollBack(x)' => MayRollBack(x)
                             /\ Forgetting(x) => Forgetting(x)'
    PROVE  Sole' /\ Tracking'
<1>1. \A x \in Mounts : PackageOf(x)' = PackageOf(x)
  BY DEF PackageOf
<1>2. \A x \in Mounts : Present(x)' => Present(x)
  BY <1>1, SameWorkers DEF Present
<1>3. \A x \in Mounts : Tracks(x) => Tracks(x)'
  <2> SUFFICES ASSUME NEW x \in Mounts, Tracks(x) PROVE Tracks(x)'
    OBVIOUS
  <2>1. Alone(x)'
    BY SameWorkers DEF Tracks
  <2> QED
    BY <2>1, SameWorkers, FrameTracks
<1> QED
  BY <1>1, <1>2, <1>3 DEF Sole, Tracking

\* What a worker has is of a call that is mounting.
LEMMA WorkerMount ==
    ASSUME TypeOK, PoolInv, NEW c \in Calls, NEW w \in Workers(c), worker[c][w].at # "away"
    PROVE  LET y == <<c, worker[c][w].item>>
           IN  /\ y \in Mounts /\ PackageOf(y) = Items[c][worker[c][w].item]
               /\ phase[c] = "mounting" /\ InFlight(y)
<1>1. worker[c][w].item \in DOMAIN Items[c] /\ phase[c] = "mounting"
  BY DEF PoolInv
<1>2. worker[c] \in [Workers(c) -> Slots(c)]
  BY DEF TypeOK
<1>3. worker[c][w].at \in Busy
  BY <1>2 DEF Slots
<1> QED
  BY <1>1, <1>2, <1>3, ItemsType DEF PackageOf, InFlight, Doing

LEMMA AwayMount ==
    ASSUME TypeOK, PoolInv, NEW x \in Mounts, phase[x[1]] # "mounting"
    PROVE  ~InFlight(x) /\ ~Adding(x) /\ ~Added(x)
<1>1. x[1] \in Calls
  BY MountType
<1>2. worker[x[1]] \in [Workers(x[1]) -> Slots(x[1])]
  BY <1>1 DEF TypeOK
<1> QED
  BY <1>1, <1>2 DEF PoolInv, InFlight, Adding, Added, Doing, Busy

LEMMA AddTracks ==
    ASSUME TypeOK, TypeOK', PoolInv, Sole, Tracking, NEW c \in Calls, NEW w \in Workers(c),
           Add(c, w) \/ Record(c, w)
    PROVE  Sole' /\ Tracking'
<1>0. PICK y : y = <<c, worker[c][w].item>>
  OBVIOUS
<1>1. worker[c][w].at # "away" /\ UNCHANGED <<phase, onFailure, mounted, queue, leaving, twice>>
  BY DEF Add, Record, history
<1>2. y \in Mounts /\ InFlight(y) /\ PackageOf(y) = Items[c][worker[c][w].item] /\ PackageOf(y) \in Packages
  BY <1>0, <1>1, WorkerMount, MountType
<1>3. PICK r : /\ Slot(c, w, r) /\ r.item = worker[c][w].item
               /\ r.at = IF Add(c, w) THEN "added" ELSE "recorded"
  BY AddSlot
<1>4. y = <<c, r.item>> /\ y[2] = r.item
  BY <1>0, <1>3
<1>5. /\ Add(c, w) => live' = live \cup {y} /\ tracked' = tracked /\ worker[c][w].at = "adding"
      /\ Record(c, w) => live' = live /\ tracked' = [tracked EXCEPT ![PackageOf(y)] = y] /\ worker[c][w].at = "added"
  BY <1>0, <1>2 DEF Add, Record
<1>6. tracked \in [Packages -> Mounts \cup {None}] /\ y # None
  BY <1>2, MountType DEF TypeOK
<1>7. \A x \in Mounts : x # y =>
          /\ Adding(x)' <=> Adding(x)
          /\ Added(x)' <=> Added(x)
          /\ InFlight(x)' <=> InFlight(x)
          /\ Alone(x) => Alone(x)'
  BY <1>0, <1>3, <1>4, SlotOther
<1>8. ASSUME NEW x \in Mounts, Present(x)' PROVE Present(x)
  <2>1. PackageOf(x)' = PackageOf(x) /\ PackageOf(x) \in Packages
    BY MountType DEF PackageOf
  <2>2. MayRollBack(x)' => MayRollBack(x)
    BY <1>1 DEF MayRollBack
  <2>3. CASE x = y
    BY <1>2, <2>3 DEF Present
  <2>4. CASE x # y
    <3>1. (x \in live' => x \in live) /\ (tracked'[PackageOf(x)] = x => tracked[PackageOf(x)] = x)
      BY <1>5, <1>6, <2>1, <2>4
    <3> QED
      BY <1>1, <1>7, <1>8, <2>1, <2>2, <2>4, <3>1 DEF Present
  <2> QED
    BY <2>3, <2>4
<1>9. ASSUME NEW x \in Mounts, PackageOf(x) # PackageOf(y), Tracks(x) PROVE Tracks(x)'
  <2>1. x # y /\ PackageOf(x) \in Packages
    BY <1>9, MountType
  <2>2. x \in live' <=> x \in live
    BY <1>5, <2>1
  <2>3. tracked'[PackageOf(x)] = tracked[PackageOf(x)]
    BY <1>5, <1>6, <1>9, <2>1
  <2>4. Forgetting(x) => Forgetting(x)'
    BY <1>1 DEF Forgetting
  <2>5. Alone(x)'
    BY <1>7, <1>9, <2>1 DEF Tracks
  <2> QED
    BY <1>1, <1>7, <1>9, <2>1, <2>2, <2>3, <2>4, <2>5, FrameTracks
<1>10. ASSUME PackageOf(y) \notin twice PROVE Tracks(y)'
  <2>1. Tracks(y)
    BY <1>2, <1>10 DEF Tracking
  <2>2. Alone(y)
    BY <2>1 DEF Tracks
  <2>3. /\ Adding(y) <=> worker[c][w].at = "adding"
        /\ Added(y) <=> worker[c][w].at = "added"
        /\ Adding(y)' <=> r.item = y[2] /\ r.at = "adding"
        /\ Added(y)' <=> r.item = y[2] /\ r.at = "added"
        /\ Alone(y)'
    BY <1>0, <1>1, <1>2, <1>3, <2>2, SlotOwn
  <2>4. PackageOf(y)' = PackageOf(y)
    BY DEF PackageOf
  <2>5. NoRemoval # [mount |-> y, gone |-> TRUE]
    BY DEF NoRemoval
  <2>6. CASE Add(c, w)
    <3>1. tracked[PackageOf(y)] = None /\ leaving[PackageOf(y)] = NoRemoval
      BY <1>5, <2>1, <2>3, <2>6 DEF Tracks
    <3> QED
      BY <1>1, <1>3, <1>4, <1>5, <1>6, <2>3, <2>4, <2>5, <2>6, <3>1 DEF Tracks
  <2>7. CASE Record(c, w)
    <3>1. y \in live /\ leaving[PackageOf(y)] = NoRemoval
      BY <1>5, <2>1, <2>3, <2>7 DEF Tracks
    <3>2. ~Add(c, w)
      BY <1>5, <2>7
    <3>3. tracked'[PackageOf(y)] = y
      BY <1>2, <1>5, <1>6, <2>7
    <3> QED
      BY <1>1, <1>3, <1>5, <2>3, <2>4, <2>5, <2>7, <3>1, <3>2, <3>3 DEF Tracks
  <2> QED
    BY <2>6, <2>7
<1>11. Present(y)
  BY <1>2 DEF Present
<1> QED
  BY <1>1, <1>2, <1>8, <1>9, <1>10, <1>11, StepTracks

\* A removal, or what follows one, of mount y: it may take y out of the tree,
\* and changes what is listed under its name and what is being removed.
LEMMA RemovedTracks ==
    ASSUME TypeOK, TypeOK', Sole, Tracking, worker' = worker, twice' = twice,
           NEW y \in Mounts, Present(y), PackageOf(y) \notin twice => Tracks(y)',
           live' = live \/ live' = live \ {y},
           \A k \in Packages : /\ k # PackageOf(y) => tracked'[k] = tracked[k] /\ leaving'[k] = leaving[k]
                               /\ tracked'[k] \in {tracked[k], None}
                               /\ leaving'[k].mount \in {leaving[k].mount, None, y},
           \A x \in Mounts : /\ MayRollBack(x)' => MayRollBack(x)
                             /\ x # y /\ Forgetting(x) => Forgetting(x)'
    PROVE  Sole' /\ Tracking'
<1>1. ASSUME NEW x \in Mounts, Present(x)' PROVE Present(x)
  <2>1. PackageOf(x)' = PackageOf(x) /\ PackageOf(x) \in Packages /\ x # None
    BY MountType DEF PackageOf
  <2>2. CASE x = y
    BY <2>2
  <2>3. CASE x # y
    <3>1. tracked'[PackageOf(x)] = x => tracked[PackageOf(x)] = x
      BY <2>1
    <3>2. leaving'[PackageOf(x)].mount = x => leaving[PackageOf(x)].mount = x
      BY <2>1, <2>3
    <3> QED
      BY <1>1, <2>1, <3>1, <3>2, SameWorkers DEF Present
  <2> QED
    BY <2>2, <2>3
<1>2. ASSUME NEW x \in Mounts, PackageOf(x) # PackageOf(y), Tracks(x) PROVE Tracks(x)'
  <2>1. x # y /\ PackageOf(x) \in Packages
    BY <1>2, MountType
  <2>2. Alone(x)'
    BY <1>2, SameWorkers DEF Tracks
  <2> QED
    BY <1>2, <2>1, <2>2, SameWorkers, FrameTracks
<1> QED
  BY <1>1, <1>2, StepTracks

LEMMA RollbackTracks ==
    ASSUME TypeOK, TypeOK', PoolInv, Kept, Sole, Tracking, NEW c \in Calls, Rollback(c)
    PROVE  Sole' /\ Tracking'
<1>0. PICK y : y = <<c, Head(queue[c])>>
  OBVIOUS
<1>t. /\ queue[c] \in Seq(DOMAIN Items[c]) /\ queue \in [Calls -> Seq(Nat)] /\ queue[c] \in Seq(Nat)
      /\ phase \in [Calls -> {"idle", "mounting", "rolling", "forgetting", "returned", "threw"}]
  BY DEF TypeOK
<1>1. /\ phase[c] = "rolling" /\ queue[c] # <<>>
      /\ UNCHANGED <<onFailure, worker, mounted, tracked, leaving, twice>>
  BY DEF Rollback, Gone, Remains
<1>2. \/ live' = live \ {y} /\ phase' = [phase EXCEPT ![c] = "forgetting"] /\ queue' = queue
      \/ live' = live /\ queue' = [queue EXCEPT ![c] = Tail(@)] /\ phase' = phase
  BY <1>0 DEF Rollback, Gone, Remains
<1>3. y \in Mounts /\ y[1] = c /\ y[2] = Head(queue[c])
  <2>1. Head(queue[c]) \in DOMAIN Items[c]
    BY <1>1, <1>t, HeadTailProperties
  <2> QED
    BY <1>0, <2>1, ItemsType
<1>4. MayRollBack(y) /\ Present(y)
  <2>1. In(Head(queue[c]), queue[c])
    BY <1>1, <1>t, InTailOnly
  <2>2. onFailure[c] = "rollback" /\ In(y[2], mounted[c])
    BY <1>1, <1>3, <2>1 DEF Kept
  <2> QED
    BY <1>1, <1>3, <2>2, RollsBack DEF Present
<1>5. ~Adding(y) /\ ~Added(y)
  BY <1>1, <1>3, AwayMount
<1>6. PackageOf(y)' = PackageOf(y)
  BY DEF PackageOf
<1>7. ASSUME PackageOf(y) \notin twice PROVE Tracks(y)'
  <2>1. Tracks(y) /\ ~Forgetting(y)
    BY <1>1, <1>3, <1>7 DEF Tracking, Forgetting
  <2>2. Alone(y)' /\ ~Adding(y)' /\ ~Added(y)'
    BY <1>1, <1>5, <2>1, SameWorkers DEF Tracks
  <2>3. CASE live' = live
    BY <1>1, <1>5, <1>6, <2>1, <2>2, <2>3 DEF Tracks
  <2>4. CASE live' = live \ {y} /\ phase' = [phase EXCEPT ![c] = "forgetting"] /\ queue' = queue
    <3>1. Forgetting(y)'
      BY <1>3, <1>t, <2>4 DEF Forgetting
    <3> QED
      BY <1>6, <2>2, <2>4, <3>1 DEF Tracks
  <2> QED
    BY <1>2, <2>3, <2>4
<1>8. ASSUME NEW x \in Mounts
      PROVE  /\ MayRollBack(x)' => MayRollBack(x)
             /\ x # y /\ Forgetting(x) => Forgetting(x)'
  <2>1. x[1] \in Calls
    BY MountType
  <2>2. x[1] # c => phase'[x[1]] = phase[x[1]] /\ queue'[x[1]] = queue[x[1]]
    BY <1>2, <1>t, <2>1
  <2> QED
    BY <1>1, <2>2 DEF MayRollBack, Forgetting
<1> QED
  BY <1>1, <1>2, <1>3, <1>4, <1>7, <1>8, RemovedTracks

LEMMA RollbackForgetsTracks ==
    ASSUME TypeOK, TypeOK', PoolInv, Kept, Sole, Tracking, NEW c \in Calls, RollbackForgets(c)
    PROVE  Sole' /\ Tracking'
<1>0. PICK y : y = <<c, Head(queue[c])>>
  OBVIOUS
<1>t. /\ queue[c] \in Seq(DOMAIN Items[c]) /\ queue \in [Calls -> Seq(Nat)] /\ queue[c] \in Seq(Nat)
      /\ phase \in [Calls -> {"idle", "mounting", "rolling", "forgetting", "returned", "threw"}]
      /\ tracked \in [Packages -> Mounts \cup {None}]
  BY DEF TypeOK
<1>1. /\ phase[c] = "forgetting" /\ queue[c] # <<>> /\ y \notin live
      /\ UNCHANGED <<onFailure, worker, mounted, live, leaving, twice>>
  BY <1>0 DEF RollbackForgets, PoolInv, Kept, history
<1>3. y \in Mounts /\ y[1] = c /\ y[2] = Head(queue[c]) /\ PackageOf(y) \in Packages
  <2>1. Head(queue[c]) \in DOMAIN Items[c]
    BY <1>1, <1>t, HeadTailProperties
  <2> QED
    BY <1>0, <2>1, ItemsType, MountType
<1>2. tracked' = [tracked EXCEPT ![PackageOf(y)] = None]
  BY <1>3 DEF RollbackForgets, PackageOf
<1>4. MayRollBack(y) /\ Present(y)
  <2>1. In(Head(queue[c]), queue[c])
    BY <1>1, <1>t, InTailOnly
  <2>2. onFailure[c] = "rollback" /\ In(y[2], mounted[c])
    BY <1>1, <1>3, <2>1 DEF Kept
  <2> QED
    BY <1>1, <1>3, <2>2, RollsBack DEF Present
<1>5. ~Adding(y) /\ ~Added(y)
  BY <1>1, <1>3, AwayMount
<1>6. PackageOf(y)' = PackageOf(y)
  BY DEF PackageOf
<1>7. ASSUME PackageOf(y) \notin twice PROVE Tracks(y)'
  <2>1. Tracks(y)
    BY <1>3, <1>7 DEF Tracking
  <2>2. Alone(y)' /\ ~Adding(y)' /\ ~Added(y)'
    BY <1>1, <1>5, <2>1, SameWorkers DEF Tracks
  <2>3. tracked'[PackageOf(y)] # y
    BY <1>2, <1>3, <1>t, MountType
  <2> QED
    BY <1>1, <1>6, <2>2, <2>3 DEF Tracks
<1>8. ASSUME NEW x \in Mounts
      PROVE  /\ MayRollBack(x)' => MayRollBack(x)
             /\ x # y /\ Forgetting(x) => Forgetting(x)'
  <2>1. x[1] \in Calls /\ x = <<x[1], x[2]>>
    BY MountType
  <2>2. x[1] # c => phase'[x[1]] = phase[x[1]] /\ queue'[x[1]] = queue[x[1]]
    BY <1>t, <2>1 DEF RollbackForgets
  <2> QED
    BY <1>0, <1>1, <2>1, <2>2 DEF MayRollBack, Forgetting
<1>9. \A k \in Packages : /\ k # PackageOf(y) => tracked'[k] = tracked[k]
                          /\ tracked'[k] \in {tracked[k], None}
  BY <1>2, <1>t
<1> QED
  BY <1>1, <1>3, <1>4, <1>7, <1>8, <1>9, RemovedTracks

LEMMA GoneRecord ==
    ASSUME NEW T, NEW r \in [mount : T, gone : BOOLEAN]
    PROVE  [r EXCEPT !.gone = TRUE] = [mount |-> r.mount, gone |-> TRUE]
<1> DEFINE s == [r EXCEPT !.gone = TRUE]
<1>1. s \in [mount : T, gone : BOOLEAN] /\ s.mount = r.mount /\ s.gone = TRUE
  OBVIOUS
<1> HIDE DEF s
<1>2. s = [mount |-> s.mount, gone |-> s.gone]
  BY <1>1
<1>3. s = [mount |-> r.mount, gone |-> TRUE]
  BY <1>1, <1>2
<1> QED
  BY <1>3 DEF s

LEMMA RemoveTracks ==
    ASSUME TypeOK, TypeOK', Kept, Sole, Tracking, NEW k \in Packages,
           RemoveModule(k) \/ Removal(k) \/ Forget(k)
    PROVE  Sole' /\ Tracking'
<1>0. PICK y : y = IF RemoveModule(k) THEN tracked[k] ELSE leaving[k].mount
  OBVIOUS
<1>t. /\ tracked \in [Packages -> Mounts \cup {None}]
      /\ leaving \in [Packages -> [mount : Mounts \cup {None}, gone : BOOLEAN]]
  BY DEF TypeOK
<1>1. UNCHANGED pool /\ twice' = twice /\ worker' = worker
  BY DEF RemoveModule, Removal, Forget, Gone, Remains, history, pool
<1>2. leaving[k].gone = TRUE => leaving[k] # NoRemoval
  BY DEF NoRemoval
<1>3. y \in Mounts /\ PackageOf(y) = k /\ y # None
  <2>1. CASE RemoveModule(k)
    BY <1>0, <1>t, <2>1, MountType DEF RemoveModule, Kept
  <2>2. CASE ~RemoveModule(k)
    <3>1. leaving[k] # NoRemoval
      BY <1>2, <1>t, <2>2 DEF Removal, Forget
    <3> QED
      BY <1>0, <2>2, <3>1, MountType DEF Kept
  <2> QED
    BY <2>1, <2>2
<1>4. Present(y)
  BY <1>0, <1>3 DEF Present
<1>5. PackageOf(y)' = PackageOf(y)
  BY DEF PackageOf
<1>6. \A x : (Forgetting(x)' <=> Forgetting(x)) /\ (MayRollBack(x)' <=> MayRollBack(x))
  BY <1>1 DEF pool, Forgetting, MayRollBack
<1>7. live' = live \/ live' = live \ {y}
  BY <1>0 DEF RemoveModule, Removal, Forget, Gone, Remains
<1>8. ASSUME NEW j \in Packages
      PROVE  /\ j # k => tracked'[j] = tracked[j] /\ leaving'[j] = leaving[j]
             /\ tracked'[j] \in {tracked[j], None}
             /\ leaving'[j].mount \in {leaving[j].mount, None, y}
  <2>1. CASE RemoveModule(k)
    BY <1>0, <1>t, <2>1 DEF RemoveModule
  <2>2. CASE ~RemoveModule(k) /\ Removal(k)
    BY <1>t, <2>2 DEF Removal, NoRemoval
  <2>3. CASE Forget(k)
    BY <1>t, <2>3 DEF Forget, NoRemoval
  <2> QED
    BY <2>1, <2>2, <2>3
<1>9. ASSUME k \notin twice PROVE Tracks(y)'
  <2>1. Tracks(y)
    BY <1>3, <1>9 DEF Tracking
  <2>2. tracked[k] # None \/ leaving[k] # NoRemoval
    BY <1>2, <1>t DEF RemoveModule, Removal, Forget
  <2>3. ~Adding(y) /\ ~Added(y)
    BY <1>3, <2>1, <2>2 DEF Tracks
  <2>4. Alone(y)' /\ ~Adding(y)' /\ ~Added(y)'
    BY <1>1, <2>1, <2>3, SameWorkers DEF Tracks
  <2>5. /\ y \in live => tracked[k] = y
        /\ tracked[k] = y => y \in live \/ leaving[k] = [mount |-> y, gone |-> TRUE] \/ Forgetting(y)'
        /\ leaving[k] = [mount |-> y, gone |-> TRUE] => y \notin live
    BY <1>3, <1>6, <2>1, <2>3 DEF Tracks
  <2> SUFFICES /\ y \in live' => tracked'[k] = y
               /\ tracked'[k] = y => y \in live' \/ leaving'[k] = [mount |-> y, gone |-> TRUE] \/ Forgetting(y)'
               /\ leaving'[k] = [mount |-> y, gone |-> TRUE] => y \notin live'
    BY <1>3, <1>5, <2>4 DEF Tracks
  <2>6. CASE RemoveModule(k)
    <3>1. /\ leaving[k] = NoRemoval /\ live' = live /\ tracked' = tracked
          /\ leaving'[k] = [mount |-> y, gone |-> FALSE]
      BY <1>0, <1>t, <2>6 DEF RemoveModule
    <3> QED
      BY <1>3, <2>5, <3>1 DEF NoRemoval
  <2>7. CASE ~RemoveModule(k) /\ Removal(k)
    <3>1. /\ tracked' = tracked /\ leaving[k].gone = FALSE /\ leaving[k].mount = y
          /\ \/ live' = live \ {y} /\ leaving'[k] = [leaving[k] EXCEPT !.gone = TRUE]
             \/ live' = live /\ leaving'[k] = NoRemoval
      BY <1>0, <1>t, <2>7 DEF Removal, Gone, Remains
    <3>2. [leaving[k] EXCEPT !.gone = TRUE] = [mount |-> y, gone |-> TRUE]
      <4>1. leaving[k] \in [mount : Mounts \cup {None}, gone : BOOLEAN]
        BY <1>t
      <4>2. [leaving[k] EXCEPT !.gone = TRUE] = [mount |-> leaving[k].mount, gone |-> TRUE]
        BY <4>1, GoneRecord
      <4> QED
        BY <3>1, <4>2
    <3>3. NoRemoval # [mount |-> y, gone |-> TRUE]
      BY DEF NoRemoval
    <3> QED
      BY <2>5, <3>1, <3>2, <3>3
  <2>8. CASE ~RemoveModule(k) /\ Forget(k)
    <3>1. leaving[k].gone = TRUE /\ leaving[k].mount = y /\ live' = live
          /\ tracked'[k] = None /\ leaving'[k] = NoRemoval
      BY <1>0, <1>t, <2>8 DEF Forget
    <3>2. leaving[k] = [mount |-> y, gone |-> TRUE]
      <4>1. leaving[k] \in [mount : Mounts \cup {None}, gone : BOOLEAN]
        BY <1>t
      <4>2. leaving[k] = [mount |-> leaving[k].mount, gone |-> leaving[k].gone]
        BY <4>1
      <4> QED
        BY <3>1, <4>2
    <3>3. NoRemoval # [mount |-> y, gone |-> TRUE]
      BY DEF NoRemoval
    <3> QED
      BY <1>3, <2>5, <3>1, <3>2, <3>3
  <2> QED
    BY <2>6, <2>7, <2>8
<1> QED
  BY <1>1, <1>3, <1>4, <1>6, <1>7, <1>8, <1>9, RemovedTracks

-----------------------------------------------------------------------------
(* Mounts that are started.                                                *)

\* What is started and asked for the first time has nobody to do with it yet.
LEMMA StartedFresh ==
    ASSUME TypeOK, NEW xs \in SUBSET Mounts, Started(xs)
    PROVE  /\ twice \subseteq twice'
           /\ \A x \in xs : PackageOf(x) \notin twice' =>
                /\ tracked[PackageOf(x)] = None /\ leaving[PackageOf(x)] = NoRemoval
                /\ \A y \in Mounts : PackageOf(y) = PackageOf(x) =>
                        ~Present(y) /\ (y \in xs => y = x)
<1> DEFINE again == {k \in Packages :
            /\ \E x \in xs : PackageOf(x) = k
            /\ \/ tracked[k] # None \/ leaving[k] # NoRemoval
               \/ \E y \in Mounts : PackageOf(y) = k /\ (y \in live \/ InFlight(y) \/ MayRollBack(y))
               \/ \E x, y \in xs : x # y /\ PackageOf(x) = k /\ PackageOf(y) = k}
<1>1. twice' = twice \cup again
  BY DEF Started
<1>2. ASSUME NEW x \in xs, PackageOf(x) \notin twice'
      PROVE  /\ tracked[PackageOf(x)] = None /\ leaving[PackageOf(x)] = NoRemoval
             /\ \A y \in Mounts : PackageOf(y) = PackageOf(x) =>
                    ~Present(y) /\ (y \in xs => y = x)
  <2>1. PackageOf(x) \in Packages /\ PackageOf(x) \notin again
    BY <1>1, <1>2, MountType
  <2>2. /\ tracked[PackageOf(x)] = None /\ leaving[PackageOf(x)] = NoRemoval
        /\ \A y \in Mounts : PackageOf(y) = PackageOf(x) => y \notin live /\ ~InFlight(y) /\ ~MayRollBack(y)
        /\ \A y \in xs : PackageOf(y) = PackageOf(x) => y = x
    BY <2>1
  <2>3. ASSUME NEW y \in Mounts, PackageOf(y) = PackageOf(x) PROVE ~Present(y)
    BY <2>2, <2>3, MountType DEF Present, NoRemoval
  <2> QED
    BY <2>2, <2>3
<1> QED
  BY <1>1, <1>2

\* A step that starts xs.
LEMMA StartTracks ==
    ASSUME TypeOK, TypeOK', Sole, Tracking, NEW xs \in SUBSET Mounts, Started(xs),
           \A x \in Mounts : Present(x)' => Present(x) \/ x \in xs,
           \A x \in Mounts : x \notin xs /\ PackageOf(x) \notin twice /\ Tracks(x) => Tracks(x)',
           \A x \in xs : tracked[PackageOf(x)] = None /\ leaving[PackageOf(x)] = NoRemoval /\ ~Present(x) => Tracks(x)'
    PROVE  Sole' /\ Tracking'
<1>0. \A x \in Mounts : PackageOf(x)' = PackageOf(x)
  BY DEF PackageOf
<1>1. /\ twice \subseteq twice'
      /\ \A x \in xs : PackageOf(x) \notin twice' =>
            /\ tracked[PackageOf(x)] = None /\ leaving[PackageOf(x)] = NoRemoval
            /\ \A y \in Mounts : PackageOf(y) = PackageOf(x) => ~Present(y) /\ (y \in xs => y = x)
  BY StartedFresh
<1>2. ASSUME NEW x \in Mounts, NEW y \in Mounts, Present(x)', Present(y)',
             PackageOf(x) = PackageOf(y), PackageOf(x) \notin twice'
      PROVE  x = y
  BY <1>1, <1>2 DEF Sole
<1>3. Sole'
  BY <1>0, <1>2 DEF Sole
<1>4. ASSUME NEW x \in Mounts, PackageOf(x) \notin twice' PROVE Tracks(x)'
  <2>1. CASE x \in xs
    BY <1>1, <1>4, <2>1
  <2>2. CASE x \notin xs
    BY <1>1, <1>4, <2>2 DEF Tracking
  <2> QED
    BY <2>1, <2>2
<1> QED
  BY <1>0, <1>3, <1>4 DEF Tracking

\* What a mount looks like that was just started.
LEMMA NewTracks ==
    ASSUME NEW x \in Mounts, Adding(x)', ~Added(x)', Alone(x)', x \notin live',
           tracked'[PackageOf(x)] = None, leaving'[PackageOf(x)] = NoRemoval
    PROVE  Tracks(x)'
<1>1. PackageOf(x)' = PackageOf(x) /\ x # None
  BY MountType DEF PackageOf
<1>2. NoRemoval # [mount |-> x, gone |-> TRUE]
  BY DEF NoRemoval
<1> QED
  BY <1>1, <1>2 DEF Tracks

\* A mount that a worker has done with, or has failed to add.
LEMMA DoneTracks ==
    ASSUME NEW x \in Mounts, Tracks(x), ~Added(x), ~Adding(x)', ~Added(x)', Alone(x)',
           UNCHANGED <<live, tracked, leaving, phase, queue>>
    PROVE  Tracks(x)'
<1>1. PackageOf(x)' = PackageOf(x) /\ (Forgetting(x)' <=> Forgetting(x))
  BY DEF PackageOf, Forgetting
<1> QED
  BY <1>1 DEF Tracks

LEMMA TakeTracks ==
    ASSUME TypeOK, TypeOK', PoolInv, Sole, Tracking, NEW c \in Calls, NEW w \in Workers(c),
           Mounted(c, w) \/ Fail(c, w)
    PROVE  Sole' /\ Tracking'
<1>0. PICK y : y = <<c, worker[c][w].item>>
  OBVIOUS
<1>1. /\ TakeNext(c, w) /\ worker[c][w].at \in {"adding", "recorded"}
      /\ UNCHANGED <<phase, onFailure, queue, live, tracked, leaving>>
  BY DEF Mounted, Fail, api
<1>2. y \in Mounts /\ InFlight(y) /\ y[2] = worker[c][w].item /\ y[1] = c
  BY <1>0, <1>1, WorkerMount
<1>3. \A x : Forgetting(x)' <=> Forgetting(x)
  BY <1>1 DEF Forgetting
<1>4. ASSUME NEW x \in Mounts, x # y, MayRollBack(x)' PROVE MayRollBack(x)
  <2>1. x[1] \in Calls /\ x = <<x[1], x[2]>>
    BY MountType
  <2>2. mounted \in [Calls -> Seq(Nat)] /\ mounted[c] \in Seq(Nat) /\ worker[c][w].item \in Nat
    <3>1. worker[c][w].item \in DOMAIN Items[c]
      BY <1>2, MountType
    <3> QED
      BY <3>1, ItemsType DEF TypeOK
  <2>3. In(x[2], mounted'[x[1]]) => In(x[2], mounted[x[1]])
    <3>1. CASE mounted' = mounted
      BY <3>1
    <3>2. CASE mounted' = [mounted EXCEPT ![c] = Append(mounted[c], worker[c][w].item)]
      <4>1. CASE x[1] = c
        <5>1. x[2] # worker[c][w].item
          BY <1>0, <1>4, <2>1, <4>1
        <5>2. mounted'[c] = Append(mounted[c], worker[c][w].item)
          BY <2>2, <3>2
        <5> QED
          BY <2>2, <4>1, <5>1, <5>2, InAppendedOnly
      <4>2. CASE x[1] # c
        BY <2>1, <2>2, <3>2, <4>2
      <4> QED
        BY <4>1, <4>2
    <3> QED
      BY <3>1, <3>2 DEF Mounted, Fail
  <2>4. MayRollBack(x)' => onFailure'[x[1]] = "rollback" /\ phase'[x[1]] \in {"mounting", "rolling", "forgetting"}
                           /\ In(x[2], mounted'[x[1]])
    <3>1. mounted'[x[1]] \in Seq(Nat)
      BY <2>1 DEF TypeOK
    <3> QED
      BY <3>1, InIsToSet DEF MayRollBack
  <2> QED
    BY <1>1, <1>4, <2>3, <2>4, RollsBack
<1>5. ASSUME NEW r, Slot(c, w, r), NEW x \in Mounts, x # y, x # <<c, r.item>>
      PROVE  /\ Present(x)' => Present(x)
             /\ Tracks(x) => Tracks(x)'
  <2>1. /\ Adding(x)' <=> Adding(x)
        /\ Added(x)' <=> Added(x)
        /\ InFlight(x)' <=> InFlight(x)
        /\ Alone(x) => Alone(x)'
    BY <1>0, <1>5, SlotOther
  <2>2. PackageOf(x)' = PackageOf(x)
    BY DEF PackageOf
  <2>3. Present(x)' => Present(x)
    BY <1>1, <1>4, <1>5, <2>1, <2>2 DEF Present
  <2>4. ASSUME Tracks(x) PROVE Tracks(x)'
    <3>1. Alone(x)'
      BY <2>1, <2>4 DEF Tracks
    <3> QED
      BY <1>1, <1>3, <2>1, <2>4, <3>1, FrameTracks
  <2> QED
    BY <2>3, <2>4
<1>6. ASSUME NEW r, Slot(c, w, r), r.item # y[2], Tracks(y) PROVE Tracks(y)'
  <2>1. Alone(y)
    BY <1>6 DEF Tracks
  <2>2. /\ Added(y) <=> worker[c][w].at = "added"
        /\ Adding(y)' <=> r.item = y[2] /\ r.at = "adding"
        /\ Added(y)' <=> r.item = y[2] /\ r.at = "added"
        /\ Alone(y)'
    BY <1>0, <1>1, <1>2, <1>6, <2>1, SlotOwn
  <2> QED
    BY <1>1, <1>2, <1>6, <2>2, DoneTracks
<1>7. Present(y)
  BY <1>2 DEF Present
<1>8. CASE Slot(c, w, Away) /\ UNCHANGED <<next, history>>
  <2>1. \A x \in Mounts : x # <<c, Away.item>> /\ Away.item # x[2]
    BY MountType DEF Away
  <2>2. \A x \in Mounts : Present(x)' => Present(x)
    BY <1>5, <1>7, <1>8, <2>1
  <2>3. \A x \in Mounts : PackageOf(x) # PackageOf(y) /\ Tracks(x) => Tracks(x)'
    BY <1>5, <1>8, <2>1
  <2>4. PackageOf(y) \notin twice => Tracks(y)'
    BY <1>2, <1>6, <1>8, <2>1 DEF Tracking
  <2> QED
    BY <1>2, <1>7, <1>8, <2>2, <2>3, <2>4, StepTracks DEF history
<1>9. CASE /\ next[c] \in DOMAIN Items[c] /\ Slot(c, w, Start(c, next[c]))
           /\ Started({<<c, next[c]>>})
  <2>0. PICK z : z = <<c, next[c]>>
    OBVIOUS
  <2>1. z \in Mounts /\ Started({z}) /\ z = <<c, Start(c, next[c]).item>> /\ Start(c, next[c]).at = "adding"
    BY <1>9, <2>0, ItemsType, StartType
  <2>2. \A x \in Mounts : x # z /\ x # y => (Present(x)' => Present(x)) /\ (Tracks(x) => Tracks(x)')
    BY <1>5, <1>9, <2>1
  <2>3. y # z => Start(c, next[c]).item # y[2]
    BY <1>0, <1>2, <2>1
  <2>4. y # z /\ Tracks(y) => Tracks(y)'
    BY <1>6, <1>9, <2>3
  <2>5. tracked[PackageOf(z)] = None /\ leaving[PackageOf(z)] = NoRemoval /\ ~Present(z) => Tracks(z)'
    <3> SUFFICES ASSUME tracked[PackageOf(z)] = None, leaving[PackageOf(z)] = NoRemoval, ~Present(z)
                 PROVE  Tracks(z)'
      OBVIOUS
    <3>1. ~InFlight(z) /\ z \notin live
      BY DEF Present
    <3>2. Adding(z)' /\ ~Added(z)' /\ Alone(z)'
      BY <1>9, <2>1, <3>1, SlotNew
    <3> QED
      BY <1>1, <2>1, <3>1, <3>2, NewTracks
  <2>6. \A x \in Mounts : Present(x)' => Present(x) \/ x \in {z}
    BY <1>7, <2>2
  <2>7. \A x \in Mounts : x \notin {z} /\ Tracks(x) => Tracks(x)'
    BY <2>2, <2>4
  <2> QED
    BY <2>1, <2>5, <2>6, <2>7, StartTracks
<1> QED
  BY <1>1, <1>8, <1>9, NextSlot

LEMMA BeginTracks ==
    ASSUME TypeOK, TypeOK', PoolInv, Kept, Sole, Tracking,
           NEW c \in Calls, NEW mode \in FailureModes, Begin(c, mode)
    PROVE  Sole' /\ Tracking'
<1>0. PICK xs : xs = {<<c, w>> : w \in Workers(c)}
  OBVIOUS
<1>1. /\ phase[c] = "idle" /\ mounted[c] = <<>> /\ Started(xs)
      /\ UNCHANGED <<mounted, queue, live, tracked, leaving>>
  BY <1>0 DEF Begin, api, Kept
<1>2. xs \in SUBSET Mounts
  BY <1>0, ItemsType
<1>3. /\ phase \in [Calls -> {"idle", "mounting", "rolling", "forgetting", "returned", "threw"}]
      /\ onFailure \in [Calls -> FailureModes]
      /\ worker = [d \in Calls |-> worker[d]]
  BY DEF TypeOK
<1>4. \A d \in Calls : /\ d # c => worker'[d] = worker[d] /\ phase'[d] = phase[d] /\ onFailure'[d] = onFailure[d]
                       /\ phase'[d] = "forgetting" => d # c
  BY <1>3 DEF Begin
<1>5. worker'[c] = [w \in Workers(c) |-> Start(c, w)]
  BY <1>3 DEF Begin
<1>6. \A w \in Workers(c) : worker'[c][w].item = w /\ worker'[c][w].at = "adding"
  BY <1>5, ItemsType, StartType
\* The mounts of other calls.
<1>7. ASSUME NEW x \in Mounts, x[1] # c
      PROVE  (Present(x)' => Present(x)) /\ (Tracks(x) => Tracks(x)')
  <2>1. x[1] \in Calls /\ PackageOf(x)' = PackageOf(x)
    BY MountType DEF PackageOf
  <2>2. worker'[x[1]] = worker[x[1]] /\ phase'[x[1]] = phase[x[1]] /\ onFailure'[x[1]] = onFailure[x[1]]
    BY <1>4, <1>7, <2>1
  <2>3. /\ Adding(x)' <=> Adding(x)
        /\ Added(x)' <=> Added(x)
        /\ InFlight(x)' <=> InFlight(x)
        /\ Alone(x)' <=> Alone(x)
    BY <2>2 DEF Adding, Added, InFlight, Doing, Alone, Has
  <2>4. (MayRollBack(x)' <=> MayRollBack(x)) /\ (Forgetting(x)' <=> Forgetting(x))
    BY <1>1, <2>2 DEF MayRollBack, Forgetting
  <2>5. Present(x)' => Present(x)
    BY <1>1, <2>1, <2>3, <2>4 DEF Present
  <2>6. ASSUME Tracks(x) PROVE Tracks(x)'
    <3>1. Alone(x)'
      BY <2>3, <2>6 DEF Tracks
    <3> QED
      BY <1>1, <2>3, <2>4, <2>6, <3>1, FrameTracks
  <2> QED
    BY <2>5, <2>6
\* Those of the call: they are started, or nobody has them.
<1>8. ASSUME NEW x \in Mounts, x[1] = c
      PROVE  /\ x = <<c, x[2]>> /\ ~InFlight(x) /\ ~Adding(x) /\ ~Added(x) /\ ~MayRollBack(x)'
             /\ ~Forgetting(x) /\ ~Added(x)' /\ Alone(x)'
             /\ \A S : Doing(x, S)' <=> x \in xs /\ "adding" \in S
  <2>1. x = <<c, x[2]>> /\ ~InFlight(x) /\ ~Adding(x) /\ ~Added(x)
    BY <1>1, <1>8, MountType, AwayMount
  <2>2. ~MayRollBack(x)'
    <3>1. mounted'[c] = <<>>
      BY <1>1
    <3>2. ToSet(<<>>) = {}
      BY DEF ToSet
    <3> QED
      BY <1>8, <3>1, <3>2 DEF MayRollBack
  <2>3. DOMAIN worker'[c] = Workers(c)
    BY <1>5
  <2>4. x \in xs <=> x[2] \in Workers(c)
    BY <1>0, <2>1
  <2>5. ASSUME NEW S PROVE Doing(x, S)' <=> x \in xs /\ "adding" \in S
    BY <1>6, <1>8, <2>3, <2>4 DEF Doing
  <2>6. ~Added(x)'
    BY <2>5 DEF Added
  <2>7. Alone(x)'
    BY <1>6, <1>8 DEF Alone, Has
  <2> QED
    BY <1>1, <1>8, <2>1, <2>2, <2>5, <2>6, <2>7 DEF Forgetting
<1>9. ASSUME NEW x \in Mounts, Present(x)' PROVE Present(x) \/ x \in xs
  <2>1. CASE x[1] # c
    BY <1>7, <1>9, <2>1
  <2>2. CASE x[1] = c
    <3>1. InFlight(x)' => x \in xs
      BY <1>8, <2>2 DEF InFlight
    <3>2. PackageOf(x)' = PackageOf(x)
      BY DEF PackageOf
    <3> QED
      BY <1>1, <1>8, <1>9, <2>2, <3>1, <3>2 DEF Present
  <2> QED
    BY <2>1, <2>2
<1>10. ASSUME NEW x \in Mounts, x \notin xs, Tracks(x) PROVE Tracks(x)'
  <2>1. CASE x[1] # c
    BY <1>7, <1>10, <2>1
  <2>2. CASE x[1] = c
    <3>1. ~Adding(x)'
      BY <1>8, <1>10, <2>2 DEF Adding
    <3>2. Forgetting(x) => Forgetting(x)'
      BY <1>8, <2>2
    <3>3. Alone(x)' /\ ~Added(x)' /\ ~Added(x) /\ ~Adding(x)
      BY <1>8, <2>2
    <3> QED
      BY <1>1, <1>10, <3>1, <3>2, <3>3, FrameTracks
  <2> QED
    BY <2>1, <2>2
<1>11. ASSUME NEW x \in xs, tracked[PackageOf(x)] = None, leaving[PackageOf(x)] = NoRemoval, ~Present(x)
       PROVE  Tracks(x)'
  <2>1. x \in Mounts /\ x[1] = c /\ x \notin live'
    BY <1>0, <1>1, <1>2, <1>11 DEF Present
  <2>2. Adding(x)' /\ ~Added(x)' /\ Alone(x)'
    BY <1>8, <2>1 DEF Adding
  <2> QED
    BY <1>1, <1>11, <2>1, <2>2, NewTracks
<1> QED
  BY <1>1, <1>2, <1>9, <1>10, <1>11, StartTracks

LEMMA NextTracks == TypeOK /\ PoolInv /\ Kept /\ Sole /\ Tracking /\ [Next]_vars => Sole' /\ Tracking'
<1> SUFFICES ASSUME TypeOK, PoolInv, Kept, Sole, Tracking, [Next]_vars PROVE Sole' /\ Tracking'
  OBVIOUS
<1>t. TypeOK'
  BY NextType
<1>1. ASSUME NEW c \in Calls, NEW mode \in FailureModes, Begin(c, mode) PROVE Sole' /\ Tracking'
  BY <1>1, <1>t, BeginTracks
<1>2. ASSUME NEW c \in Calls, NEW w \in Workers(c), Add(c, w) \/ Record(c, w) PROVE Sole' /\ Tracking'
  BY <1>2, <1>t, AddTracks
<1>3. ASSUME NEW c \in Calls, NEW w \in Workers(c), Mounted(c, w) \/ Fail(c, w) PROVE Sole' /\ Tracking'
  BY <1>3, <1>t, TakeTracks
<1>4. ASSUME NEW c \in Calls, Rollback(c) PROVE Sole' /\ Tracking'
  BY <1>4, <1>t, RollbackTracks
<1>5. ASSUME NEW c \in Calls, RollbackForgets(c) PROVE Sole' /\ Tracking'
  BY <1>5, <1>t, RollbackForgetsTracks
<1>6. ASSUME NEW c \in Calls, Finish(c) \/ RollbackEnds(c) PROVE Sole' /\ Tracking'
  <2>1. UNCHANGED <<onFailure, worker, mounted, live, tracked, leaving, twice>>
    BY <1>6 DEF Finish, RollbackEnds, api, history
  <2>2. phase[c] # "forgetting" /\ phase[c] \in {"mounting", "rolling"}
    BY <1>6 DEF Finish, RollbackEnds
  <2>3. \A d \in Calls : d # c => phase'[d] = phase[d] /\ queue'[d] = queue[d]
    BY <1>6 DEF Finish, RollbackEnds, TypeOK
  <2>4. ASSUME NEW x \in Mounts
        PROVE  (MayRollBack(x)' => MayRollBack(x)) /\ (Forgetting(x) => Forgetting(x)')
    BY <2>1, <2>2, <2>3, MountType DEF MayRollBack, Forgetting
  <2> QED
    BY <2>1, <2>4, QuietTracks
<1>7. ASSUME NEW k \in Packages, RemoveModule(k) \/ Removal(k) \/ Forget(k) PROVE Sole' /\ Tracking'
  BY <1>7, <1>t, RemoveTracks
<1>8. ASSUME UNCHANGED vars PROVE Sole' /\ Tracking'
  BY <1>8, QuietTracks DEF vars, pool, api, history, MayRollBack, Forgetting
<1> QED
  BY <1>1, <1>2, <1>3, <1>4, <1>5, <1>6, <1>7, <1>8, CallsAssumption DEF Next, CallStep

\* What stays mounted can be removed by its name, and what cannot be removed
\* any more is not listed, for any number of packages, calls and workers and
\* however calls, rollbacks and removals interleave, as long as no package is
\* asked for again before it is gone.
THEOREM TrackedIsAlwaysLive == Spec => []TrackedIsLive
<1>1. Init => Kept /\ Sole /\ Tracking
  <2> SUFFICES ASSUME Init PROVE Kept /\ Sole /\ Tracking
    OBVIOUS
  <2>1. TypeOK /\ Kept
    BY InitType DEF Init, Kept
  <2>2. \A x \in Mounts : ~Present(x)
    BY MountType DEF Init, Present, InFlight, Doing, MayRollBack, Away, Busy, NoRemoval
  <2> QED
    BY <2>1, <2>2, AbsentTracks DEF Sole, Tracking
<1>2. TypeOK /\ Tracking => TrackedIsLive
  <2> SUFFICES ASSUME TypeOK, NEW x \in Mounts, Tracks(x), ~InFlight(x)
               PROVE  /\ x \in live => tracked[PackageOf(x)] = x
                      /\ tracked[PackageOf(x)] = x =>
                            \/ x \in live \/ leaving[PackageOf(x)] = [mount |-> x, gone |-> TRUE]
                            \/ phase[x[1]] = "forgetting"
    BY DEF Tracking, TrackedIsLive
  <2>1. ~Added(x)
    BY DEF Added, InFlight, Doing, Busy
  <2> QED
    BY <2>1 DEF Tracks, Forgetting
<1> QED
  BY <1>1, <1>2, InitType, NextType, NextKept, NextTracks, PTL DEF Spec
=============================================================================
