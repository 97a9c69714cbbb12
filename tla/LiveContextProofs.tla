-------------------------- MODULE LiveContextProofs --------------------------
(* Proofs about LiveContext, for any calls, scopes, functions and files.     *)
EXTENDS LiveContext, SequenceTheorems, TLAPS

USE WrapperAssumption, NamesAssumption, DepthAssumption

-----------------------------------------------------------------------------
(* Sequences.                                                              *)

\* Pushing one more.
LEMMA Pushed ==
    ASSUME NEW S, NEW s \in Seq(S), NEW e \in S
    PROVE  LET r == Append(s, e)
           IN  /\ r \in Seq(S) /\ r # <<>> /\ Len(r) = Len(s) + 1 /\ Last(r) = e
               /\ \A i \in 1..Len(s) : r[i] = s[i]
BY DEF Last

\* Popping the last one.
LEMMA Popped ==
    ASSUME NEW S, NEW s \in Seq(S), s # <<>>
    PROVE  LET r == SubSeq(s, 1, Len(s) - 1)
           IN  /\ r \in Seq(S) /\ Len(r) = Len(s) - 1 /\ Len(s) \in Nat \ {0}
               /\ \A i \in 1..Len(r) : r[i] = s[i]
<1> DEFINE n == Len(s) - 1
<1>1. Len(s) \in Nat /\ Len(s) # 0
  OBVIOUS
<1>2. n \in Int /\ n >= 0 /\ n - 1 + 1 = n /\ \A i \in 1..n : s[i] \in S
  BY <1>1
<1> HIDE DEF n
<1>3. /\ SubSeq(s, 1, n) \in Seq(S)
      /\ Len(SubSeq(s, 1, n)) = n
      /\ \A i \in 1..n : SubSeq(s, 1, n)[i] = s[i]
  BY <1>2, SubSeqProperties
<1> QED
  BY <1>1, <1>3 DEF n

LEMMA LastIsMember ==
    ASSUME NEW S, NEW s \in Seq(S), s # <<>>
    PROVE  Last(s) \in S /\ Len(s) \in 1..Len(s) /\ Last(s) = s[Len(s)]
BY DEF Last

-----------------------------------------------------------------------------
(* Type correctness.                                                       *)

Records == [live : BOOLEAN, cur : Callers, caller : Callers]

\* Setting the fields of one store.
LEMMA FieldsSet ==
    ASSUME NEW st \in [Stores -> Records], NEW x \in Stores, NEW u \in Callers, NEW v \in Callers
    PROVE  LET r == [st EXCEPT ![x].cur = u, ![x].caller = v]
           IN  /\ r \in [Stores -> Records]
               /\ r[x].cur = u /\ r[x].live = st[x].live
               /\ \A y \in Stores \ {x} : r[y] = st[y]
<1> DEFINE r == [st EXCEPT ![x].cur = u, ![x].caller = v]
<1>1. st[x] \in Records
  OBVIOUS
<1>2. r[x] = [live |-> st[x].live, cur |-> u, caller |-> v]
  <2> DEFINE q == [st EXCEPT ![x].cur = u]
  <2>1. q[x] = [live |-> st[x].live, cur |-> u, caller |-> st[x].caller]
    BY <1>1 DEF Records
  <2>2. q \in [Stores -> Records]
    BY <1>1, <2>1 DEF Records
  <2>3. r = [q EXCEPT ![x].caller = v]
    OBVIOUS
  <2>4. r[x] = [q[x] EXCEPT !.caller = v]
    BY <2>2, <2>3
  <2> QED
    BY <2>1, <2>4
<1>4. r[x] \in Records /\ r[x].cur = u /\ r[x].live = st[x].live
  BY <1>1, <1>2 DEF Records
<1>5. \A y \in Stores \ {x} : r[y] = st[y]
  OBVIOUS
<1>6. DOMAIN r = Stores /\ r = [y \in Stores |-> r[y]]
  OBVIOUS
<1> HIDE DEF r
<1>7. \A y \in Stores : r[y] \in Records
  BY <1>4, <1>5
<1> QED
  BY <1>4, <1>5, <1>6, <1>7 DEF r

\* Deleting a store.
LEMMA LiveSet ==
    ASSUME NEW st \in [Stores -> Records], NEW x \in Stores, NEW b \in BOOLEAN
    PROVE  LET r == [st EXCEPT ![x].live = b]
           IN  /\ r \in [Stores -> Records]
               /\ r[x].live = b /\ r[x].cur = st[x].cur
               /\ \A y \in Stores \ {x} : r[y] = st[y]
<1> DEFINE r == [st EXCEPT ![x].live = b]
<1>1. st[x] \in Records
  OBVIOUS
<1>2. r[x] = [live |-> b, cur |-> st[x].cur, caller |-> st[x].caller]
  BY <1>1 DEF Records
<1>3. r[x] \in Records /\ r[x].live = b /\ r[x].cur = st[x].cur
  BY <1>1, <1>2 DEF Records
<1>4. \A y \in Stores \ {x} : r[y] = st[y]
  OBVIOUS
<1>5. DOMAIN r = Stores /\ r = [y \in Stores |-> r[y]]
  OBVIOUS
<1> HIDE DEF r
<1>6. \A y \in Stores : r[y] \in Records
  BY <1>3, <1>4
<1> QED
  BY <1>3, <1>4, <1>5, <1>6 DEF r

\* The store of a run() starts with the fields of its parent.
LEMMA ChildStored ==
    ASSUME NEW st \in [Stores -> Records], NEW x \in Stores, NEW y \in Stores, NEW b \in BOOLEAN
    PROVE  [st EXCEPT ![x] = [st[y] EXCEPT !.live = b]] \in [Stores -> Records]
<1>1. st[y] \in Records
  OBVIOUS
<1>2. [st[y] EXCEPT !.live = b] \in Records
  BY <1>1 DEF Records
<1> QED
  BY <1>2

LEMMA InitTypeOK == Init => TypeOK
BY DEF Init, TypeOK, Stores, Callers, Phases

LEMMA TruthType ==
    ASSUME TypeOK
    PROVE  /\ \A a \in Activities : Truth(a) \in Callers
           /\ Executing \in Callers
<1>1. \A a \in Activities : Truth(a) \in Callers
  BY DEF TypeOK, Truth, Activities, Callers
<1>2. stack # <<>> => Last(stack) \in Activities
  BY LastIsMember DEF TypeOK
<1> QED
  BY <1>1, <1>2 DEF Executing, Callers

\* The store that a call or a scope would use.
LEMMA TargetType == TypeOK => Target \in Stores /\ Parent \in Stores
BY DEF TypeOK, Target, Parent, Stores

LEMMA EndsType ==
    ASSUME TypeOK, NEW a \in Activities, Ends(a)
    PROVE  order' \in Seq(Activities) /\ nested' \in BOOLEAN
<1>1. order # <<>> => SubSeq(order, 1, Len(order) - 1) \in Seq(Activities)
  BY Popped DEF TypeOK
<1>2. nested' \in BOOLEAN /\ (nested' => order # <<>>)
  BY DEF Ends, TypeOK
<1> QED
  BY <1>1, <1>2 DEF Ends

LEMMA NextTypeOK == TypeOK /\ [Next]_vars => TypeOK'
<1> SUFFICES ASSUME TypeOK, [Next]_vars PROVE TypeOK'
  OBVIOUS
<1> USE DEF TypeOK
<1>t. store \in [Stores -> Records]
  BY DEF Records
<1>p. stack # <<>> => SubSeq(stack, 1, Len(stack) - 1) \in Seq(Activities)
  BY Popped
<1>r. ASSUME NEW c \in Calls, Restore(c)
      PROVE  /\ current' \in Stores \cup {None}
             /\ store' \in [Stores -> [live : BOOLEAN, cur : Callers, caller : Callers]]
  <2>1. saved[c] \in [store : Stores, inst : Stores \cup {None}, cur : Callers, caller : Callers]
    BY DEF Activities
  <2> QED
    BY <1>r, <2>1, FieldsSet DEF Restore, Records
<1>1. ASSUME NEW c \in Calls, Enter(c) PROVE TypeOK'
  <2>1. c \in Activities /\ Target \in Stores /\ WrapperOf[c] \in Callers
    BY TargetType DEF Activities, Callers
  <2>2. current' \in Stores \cup {None} /\ suspended' \in [Stores -> SUBSET Calls] /\ owner' \in [Scopes -> Callers]
    <3>1. current' = Target /\ suspended' = suspended /\ owner' = owner
      BY <1>1 DEF Enter
    <3> QED
      BY <2>1, <3>1
  <2>3. store' \in [Stores -> [live : BOOLEAN, cur : Callers, caller : Callers]]
    <3>1. store[Target].cur \in Callers
      BY <1>t, <2>1 DEF Records
    <3>2. store' = [store EXCEPT ![Target].cur = WrapperOf[c], ![Target].caller = store[Target].cur]
      BY <1>1 DEF Enter
    <3>3. store' \in [Stores -> Records]
      BY <1>t, <2>1, <3>1, <3>2, FieldsSet
    <3> QED
      BY <3>3 DEF Records
  <2>4. saved' \in [Activities -> [store : Stores, inst : Stores \cup {None}, cur : Callers, caller : Callers]]
    BY <1>1, <2>1 DEF Enter
  <2>5. stack' \in Seq(Activities) /\ order' \in Seq(Activities) /\ nested' \in BOOLEAN
    BY <1>1, <2>1 DEF Enter, Begin
  <2>6. phase' \in [Activities -> Phases]
    BY <1>1, <2>1 DEF Enter, Begin, Phases
  <2> QED
    BY <2>2, <2>3, <2>4, <2>5, <2>6
<1>2. ASSUME NEW c \in Calls, Refuse(c) PROVE TypeOK'
  BY <1>2 DEF Refuse, Phases
<1>3. ASSUME NEW c \in Calls, Return(c) PROVE TypeOK'
  <2>1. c \in Activities
    BY DEF Activities
  <2>2. phase' \in [Activities -> Phases] /\ stack' \in Seq(Activities)
    BY <1>3, <1>p DEF Return, Phases
  <2> QED
    BY <1>3, <1>r, <2>1, <2>2, EndsType DEF Return
<1>4. ASSUME NEW c \in Calls, Park(c) PROVE TypeOK'
  <2>1. saved[c].store \in Stores
    BY DEF Activities
  <2>2. suspended' \in [Stores -> SUBSET Calls]
    BY <1>4, <2>1 DEF Park
  <2> QED
    BY <1>4, <1>p, <2>2 DEF Park, Phases
<1>5. ASSUME NEW c \in Calls, Settle(c) PROVE TypeOK'
  <2>1. c \in Activities /\ saved[c].store \in Stores
    BY DEF Activities
  <2>2. phase' \in [Activities -> Phases] /\ suspended' \in [Stores -> SUBSET Calls]
    BY <1>5, <2>1 DEF Settle, Phases
  <2> QED
    BY <1>5, <1>r, <2>1, <2>2, EndsType DEF Settle
<1>6. ASSUME NEW s \in Scopes, EnterScope(s) PROVE TypeOK'
  <2>1. s \in Activities /\ s \in Stores /\ Parent \in Stores /\ Executing \in Callers
    BY TargetType, TruthType DEF Activities, Stores
  <2>2. store' \in [Stores -> [live : BOOLEAN, cur : Callers, caller : Callers]]
    <3>1. store' = [store EXCEPT ![s] = [store[Parent] EXCEPT !.live = TRUE]]
      BY <1>6 DEF EnterScope
    <3>2. store' \in [Stores -> Records]
      BY <1>t, <2>1, <3>1, ChildStored
    <3> QED
      BY <3>2 DEF Records
  <2>3. saved' \in [Activities -> [store : Stores, inst : Stores \cup {None}, cur : Callers, caller : Callers]]
    BY <1>6, <2>1 DEF EnterScope
  <2>4. stack' \in Seq(Activities) /\ phase' \in [Activities -> Phases] /\ owner' \in [Scopes -> Callers]
    BY <1>6, <2>1 DEF EnterScope, Phases
  <2>5. order' \in Seq(Activities) /\ nested' \in BOOLEAN
    BY <1>6, <2>1 DEF EnterScope, Youngest
  <2> QED
    BY <1>6, <2>1, <2>2, <2>3, <2>4, <2>5 DEF EnterScope
<1>7. ASSUME NEW s \in Scopes, ParkScope(s) PROVE TypeOK'
  BY <1>7, <1>p DEF ParkScope, Phases
<1>8. ASSUME NEW s \in Scopes, EndScope(s) PROVE TypeOK'
  <2>1. s \in Activities /\ s \in Stores
    BY DEF Activities, Stores
  <2>2. stack' \in Seq(Activities) /\ phase' \in [Activities -> Phases]
    BY <1>8, <1>p DEF EndScope, Phases
  <2>3. current' \in Stores \cup {None}
    <3>1. saved[s].inst \in Stores \cup {None}
      BY <2>1
    <3> QED
      BY <1>8, <3>1 DEF EndScope
  <2>4. store' \in [Stores -> [live : BOOLEAN, cur : Callers, caller : Callers]]
    <3>1. store' = [store EXCEPT ![s].live = FALSE]
      BY <1>8 DEF EndScope
    <3>2. store' \in [Stores -> Records]
      BY <1>t, <2>1, <3>1, LiveSet
    <3> QED
      BY <3>2 DEF Records
  <2> QED
    BY <1>8, <2>1, <2>2, <2>3, <2>4, EndsType DEF EndScope
<1>9. ASSUME NEW a \in Activities, Resume(a) PROVE TypeOK'
  BY <1>9 DEF Resume, Phases
<1>10. ASSUME Cleanup PROVE TypeOK'
  BY <1>10, LiveSet DEF Cleanup, Stores, Records
<1>11. CASE UNCHANGED vars
  BY <1>11 DEF vars
<1> QED
  BY <1>1, <1>2, <1>3, <1>4, <1>5, <1>6, <1>7, <1>8, <1>9, <1>10, <1>11 DEF Next

\* The fields, the stack and what is saved keep their types, for any number of
\* calls and scopes that overlap in any way.
THEOREM TypeCorrect == Spec => []TypeOK
<1>1. Init => TypeOK
  BY InitTypeOK
<1>2. TypeOK /\ [Next]_vars => TypeOK'
  BY NextTypeOK
<1> QED
  BY <1>1, <1>2, PTL DEF Spec
-----------------------------------------------------------------------------
(* Who is identified.                                                      *)

\* The frame of a function that is a candidate names that function alone.
LEMMA CandidateNamed ==
    ASSUME NEW cands, NEW w \in Wrappers, w \in cands
    PROVE  w \in Matched(w, cands) /\ Named(w, cands) = {w}
<1>1. File(w) = FileOf[w]
  BY DEF File
<1>2. w \in Matched(w, cands)
  BY <1>1 DEF Matched
<1> DEFINE ws == Matched(w, cands)
<1> HIDE DEF ws
<1>3. w \in ws
  BY <1>2 DEF ws
<1>4. Named(w, cands) = IF \E v \in ws : ws = {v} THEN ws ELSE ws \cap {w}
  BY DEF Named, ws
<1>5. Named(w, cands) = {w}
  BY <1>3, <1>4
<1> QED
  BY <1>2, <1>5

\* The innermost frame decides whenever it can.
LEMMA InnermostDecides ==
    ASSUME stack \in Seq(Activities), stack # <<>>, NEW cands, NEW w \in Wrappers,
           Named(Truth(stack[Len(stack)]), cands) = {w}
    PROVE  Deciding(cands) # {} /\ FromStack(cands) = w
<1>1. Len(stack) \in 1..Len(stack)
  BY LastIsMember
<1>2. Len(stack) \in Deciding(cands) /\ Deciding(cands) \subseteq 1..Len(stack)
  BY <1>1 DEF Deciding
<1> DEFINE top == CHOOSE i \in Deciding(cands) : \A j \in Deciding(cands) : j <= i
<1>3. top \in Deciding(cands) /\ \A j \in Deciding(cands) : j <= top
  BY <1>1, <1>2
<1>4. top = Len(stack)
  BY <1>1, <1>2, <1>3
<1>5. FromStack(cands) = CHOOSE v \in Wrappers : v \in Named(Truth(stack[top]), cands)
  BY DEF FromStack
<1> HIDE DEF top
<1>6. (CHOOSE v \in Wrappers : v \in {w}) = w
  OBVIOUS
<1> QED
  BY <1>2, <1>4, <1>5, <1>6

LEMMA ResumedIdentified == TypeOK => ResumedIsItself
<1> SUFFICES ASSUME TypeOK, current # None, stack # <<>>, store[current].live,
                    Last(stack) \in suspended[current], ~(Cardinality(suspended[current]) < 2)
             PROVE  Identity = Executing
  BY DEF ResumedIsItself
<1> DEFINE c == Last(stack)
           cands == Candidates(current)
<1>1. c \in Calls /\ stack \in Seq(Activities) /\ c = stack[Len(stack)]
  BY LastIsMember DEF TypeOK
<1>2. Truth(c) = WrapperOf[c] /\ WrapperOf[c] \in Wrappers /\ Executing = WrapperOf[c]
  BY <1>1 DEF Truth, Executing
<1>3. WrapperOf[c] \in cands
  BY DEF Candidates
<1>4. Named(Truth(stack[Len(stack)]), cands) = {WrapperOf[c]}
  BY <1>1, <1>2, <1>3, CandidateNamed
<1>5. Deciding(cands) # {} /\ FromStack(cands) = WrapperOf[c]
  BY <1>1, <1>2, <1>4, InnermostDecides
<1> QED
  BY <1>2, <1>5 DEF Identity

\* However calls overlap and in whatever order they settle, a suspended call
\* that runs again beside another one is taken for itself.
THEOREM ResumedAlwaysItself == Spec => []ResumedIsItself
BY TypeCorrect, ResumedIdentified, PTL
-----------------------------------------------------------------------------
(* The chain of those that have not settled.  Place 0 is the host, with the *)
(* store of the instance.                                                  *)

HomeAt(i) == IF i = 0 THEN Base ELSE Home(order[i])
TruthAt(i) == IF i = 0 THEN None ELSE Truth(order[i])

\* A run() began right after place i, or nothing did: the store of place i is
\* as place i left it.
Boundary(i) == i = Len(order) \/ order[i + 1] \in Scopes

\* They have begun, and so have the scopes whose stores they use.
Begun ==
    /\ \A i \in 1..Len(order) : phase[order[i]] # "idle"
    /\ \A i \in 0..Len(order) : HomeAt(i) \in Stores /\ (HomeAt(i) \in Scopes => phase[HomeAt(i)] # "idle")

\* Each one puts back the one before it.
SavedInv ==
    \A i \in 1..Len(order) :
        /\ saved[order[i]].inst = HomeAt(i - 1)
        /\ order[i] \in Calls =>
            saved[order[i]].store = HomeAt(i - 1) /\ saved[order[i]].cur = TruthAt(i - 1)

\* A run() takes a store of its own.
OwnStores ==
    \A i, j \in 0..Len(order) : i < j /\ order[i + 1] \in Scopes => HomeAt(i) # HomeAt(j)

FieldsInv ==
    /\ current = HomeAt(Len(order))
    /\ \A i \in 0..Len(order) :
        Boundary(i) => store[HomeAt(i)].live /\ store[HomeAt(i)].cur = TruthAt(i)

Chain == Begun /\ SavedInv /\ OwnStores /\ FieldsInv
ChainInv == nested /\ store[Base].live => Chain

\* What a step leaves of the chain when nobody begins and nobody ends.
LEMMA ChainKept ==
    ASSUME TypeOK, Chain,
           UNCHANGED <<order, saved, owner, current>>,
           \A s \in Stores : store'[s].live = store[s].live /\ store'[s].cur = store[s].cur,
           \A a \in Activities : phase[a] # "idle" => phase'[a] # "idle"
    PROVE  Chain'
<1>1. \A i \in 0..Len(order) : HomeAt(i)' = HomeAt(i) /\ TruthAt(i)' = TruthAt(i) /\ Boundary(i)' = Boundary(i)
  BY DEF HomeAt, TruthAt, Boundary, Home, Truth
<1>2. Len(order) \in Nat /\ \A i \in 1..Len(order) : order[i] \in Activities
  BY DEF TypeOK
<1>3. Begun'
  BY <1>1, <1>2 DEF Chain, Begun, Activities
<1>4. SavedInv'
  <2>1. \A i \in 1..Len(order) : i - 1 \in 0..Len(order)
    BY <1>2
  <2> QED
    BY <1>1, <1>2, <2>1 DEF Chain, SavedInv
<1>5. OwnStores'
  BY <1>1, <1>2 DEF Chain, OwnStores
<1>6. FieldsInv'
  <2>1. Len(order) \in 0..Len(order)
    BY <1>2
  <2> QED
    BY <1>1, <1>2, <2>1 DEF Chain, FieldsInv, Begun
<1> QED
  BY <1>3, <1>4, <1>5, <1>6 DEF Chain

\* One more begins, in store h, with what is there in its restore().
LEMMA ChainPushed ==
    ASSUME TypeOK, Chain, NEW a \in Activities, phase[a] = "idle",
           order' = Append(order, a),
           \A b \in Activities \ {a} : saved'[b] = saved[b] /\ (b \in Scopes => owner'[b] = owner[b]),
           \A b \in Activities : phase[b] # "idle" \/ b = a => phase'[b] # "idle",
           saved'[a].inst = current,
           a \in Calls => saved'[a].store = current /\ saved'[a].cur = store[current].cur,
           current' = Home(a)',
           store'[current'].live, store'[current'].cur = Truth(a)',
           \A s \in Stores \ {current'} : store'[s].live = store[s].live /\ store'[s].cur = store[s].cur
    PROVE  Chain'
<1>0. PICK n \in Nat : n = Len(order)
  BY DEF TypeOK
<1>1. n \in Nat /\ Len(order') = n + 1 /\ order'[n + 1] = a
      /\ \A i \in 1..n : order'[i] = order[i] /\ order[i] \in Activities
  BY <1>0 DEF TypeOK
<1>2. \A i \in 1..n : order[i] # a
  BY <1>0, <1>1 DEF Chain, Begun
<1>3. \A i \in 0..n : HomeAt(i)' = HomeAt(i) /\ TruthAt(i)' = TruthAt(i)
  <2> SUFFICES ASSUME NEW i \in 0..n PROVE HomeAt(i)' = HomeAt(i) /\ TruthAt(i)' = TruthAt(i)
    OBVIOUS
  <2>1. CASE i = 0
    BY <2>1 DEF HomeAt, TruthAt
  <2>2. CASE i # 0
    <3>1. i \in 1..n
      BY <1>1, <2>2
    <3>2. order'[i] = order[i] /\ order[i] \in Activities \ {a}
      BY <1>1, <1>2, <3>1
    <3>3. Home(order[i])' = Home(order[i]) /\ Truth(order[i])' = Truth(order[i])
      BY <3>2 DEF Home, Truth, Activities
    <3> QED
      BY <2>2, <3>2, <3>3 DEF HomeAt, TruthAt, Home, Truth
  <2> QED
    BY <2>1, <2>2
<1>4. HomeAt(n + 1)' = current' /\ TruthAt(n + 1)' = Truth(a)'
  BY <1>1 DEF HomeAt, TruthAt, Home, Truth
<1>5. current = HomeAt(n) /\ store[current].live /\ store[current].cur = TruthAt(n) /\ current \in Stores
  BY <1>0, <1>1 DEF Chain, FieldsInv, Boundary, Begun
<1>6. a \in Calls => current' = current
  BY DEF Home
<1>7. a \in Scopes => current' = a /\ a \notin Calls /\ a \in Stores
  BY DEF Home, Stores
<1>8. a \in Calls \/ a \in Scopes
  BY DEF Activities
<1>9. Begun'
  <2>1. \A i \in 1..n + 1 : phase'[order'[i]] # "idle"
    <3> SUFFICES ASSUME NEW i \in 1..n + 1 PROVE phase'[order'[i]] # "idle"
      OBVIOUS
    <3>1. CASE i = n + 1
      BY <1>1, <3>1
    <3>2. CASE i # n + 1
      <4>1. i \in 1..n
        BY <1>1, <3>2
      <4> QED
        BY <1>1, <4>1, <1>0 DEF Chain, Begun
    <3> QED
      BY <3>1, <3>2
  <2>2. \A i \in 0..n + 1 : HomeAt(i)' \in Stores /\ (HomeAt(i)' \in Scopes => phase'[HomeAt(i)'] # "idle")
    <3> SUFFICES ASSUME NEW i \in 0..n + 1
                 PROVE  HomeAt(i)' \in Stores /\ (HomeAt(i)' \in Scopes => phase'[HomeAt(i)'] # "idle")
      OBVIOUS
    <3>0. \A j \in 0..n : HomeAt(j) \in Stores /\ (HomeAt(j) \in Scopes => phase[HomeAt(j)] # "idle")
      BY <1>0 DEF Chain, Begun
    <3>1. CASE i = n + 1
      <4>1. n \in 0..n
        BY <1>1
      <4> QED
        BY <1>4, <1>5, <1>6, <1>7, <1>8, <3>0, <3>1, <4>1 DEF Activities
    <3>2. CASE i # n + 1
      <4>1. i \in 0..n
        BY <1>1, <3>2
      <4> QED
        BY <1>3, <3>0, <4>1 DEF Activities
    <3> QED
      BY <3>1, <3>2
  <2> QED
    BY <1>1, <2>1, <2>2 DEF Begun
<1>10. SavedInv'
  <2> SUFFICES ASSUME NEW i \in 1..n + 1
               PROVE  /\ saved'[order'[i]].inst = HomeAt(i - 1)'
                      /\ order'[i] \in Calls =>
                            /\ saved'[order'[i]].store = HomeAt(i - 1)'
                            /\ saved'[order'[i]].cur = TruthAt(i - 1)'
    BY <1>1 DEF SavedInv
  <2>0. i - 1 \in 0..n
    BY <1>1
  <2>1. CASE i = n + 1
    <3>1. i - 1 = n
      BY <1>1, <2>1
    <3> QED
      BY <1>1, <1>3, <1>5, <2>0, <2>1, <3>1
  <2>2. CASE i # n + 1
    <3>1. i \in 1..n
      BY <1>1, <2>2
    <3>2. saved'[order'[i]] = saved[order[i]] /\ order'[i] = order[i]
      BY <1>1, <1>2, <3>1
    <3>3. saved[order[i]].inst = HomeAt(i - 1)
          /\ (order[i] \in Calls => saved[order[i]].store = HomeAt(i - 1) /\ saved[order[i]].cur = TruthAt(i - 1))
      BY <3>1, <1>0 DEF Chain, SavedInv
    <3> QED
      BY <1>3, <2>0, <3>2, <3>3
  <2> QED
    BY <2>1, <2>2
<1>11. OwnStores'
  <2> SUFFICES ASSUME NEW i \in 0..n + 1, NEW j \in 0..n + 1, i < j, order'[i + 1] \in Scopes
               PROVE  HomeAt(i)' # HomeAt(j)'
    BY <1>1 DEF OwnStores
  <2>0. i \in 0..n /\ i + 1 \in 1..n + 1
    BY <1>1
  <2>1. CASE j \in 0..n
    <3>1. i + 1 \in 1..n
      BY <1>1, <2>1
    <3>2. order[i + 1] \in Scopes
      BY <1>1, <3>1
    <3>3. HomeAt(i) # HomeAt(j)
      BY <2>0, <2>1, <3>2, <1>0 DEF Chain, OwnStores
    <3> QED
      BY <1>3, <2>0, <2>1, <3>3
  <2>2. CASE j = n + 1 /\ a \in Scopes
    <3>1. HomeAt(i) # a
      BY <1>1, <2>0, <2>2, <1>0 DEF Chain, Begun
    <3> QED
      BY <1>3, <1>4, <1>7, <2>0, <2>2, <3>1
  <2>3. CASE j = n + 1 /\ a \in Calls
    <3>1. i # n
      BY <1>1, <2>3
    <3>2. i + 1 \in 1..n /\ i < n /\ n \in 0..n
      BY <1>1, <2>0, <3>1
    <3>3. order[i + 1] \in Scopes
      BY <1>1, <3>2
    <3>4. HomeAt(i) # HomeAt(n)
      BY <2>0, <3>2, <3>3, <1>0 DEF Chain, OwnStores
    <3> QED
      BY <1>3, <1>4, <1>5, <1>6, <2>0, <2>3, <3>4
  <2>4. j \in 0..n \/ j = n + 1
    BY <1>1
  <2> QED
    BY <1>8, <2>1, <2>2, <2>3, <2>4
<1>12. FieldsInv'
  <2> SUFFICES ASSUME NEW i \in 0..n + 1, Boundary(i)'
               PROVE  store'[HomeAt(i)'].live /\ store'[HomeAt(i)'].cur = TruthAt(i)'
    BY <1>1, <1>4 DEF FieldsInv
  <2>1. CASE i = n + 1
    BY <1>4, <2>1
  <2>2. CASE i # n + 1
    <3>1. i \in 0..n /\ i + 1 \in 1..n + 1 /\ i # Len(order')
      BY <1>1, <2>2
    <3>2. order'[i + 1] \in Scopes
      BY <3>1 DEF Boundary
    <3>3. Boundary(i)
      <4>1. CASE i = n
        BY <4>1, <1>0 DEF Boundary
      <4>2. CASE i # n
        <5>1. i + 1 \in 1..n
          BY <1>1, <3>1, <4>2
        <5> QED
          BY <1>1, <3>2, <5>1 DEF Boundary
      <4> QED
        BY <4>1, <4>2
    <3>4. store[HomeAt(i)].live /\ store[HomeAt(i)].cur = TruthAt(i) /\ HomeAt(i) \in Stores
      BY <3>1, <3>3, <1>0 DEF Chain, FieldsInv, Begun
    <3>5. HomeAt(i)' # HomeAt(n + 1)'
      BY <1>1, <1>11, <3>1, <3>2 DEF OwnStores
    <3> QED
      BY <1>3, <1>4, <3>1, <3>4, <3>5
  <2> QED
    BY <2>1, <2>2
<1> QED
  BY <1>9, <1>10, <1>11, <1>12 DEF Chain

\* The last that began ends and puts back what it found.
LEMMA ChainPopped ==
    ASSUME TypeOK, Chain, NEW a \in Activities, order # <<>>, Last(order) = a,
           order' = SubSeq(order, 1, Len(order) - 1),
           UNCHANGED <<saved, owner>>,
           \A b \in Activities : phase[b] # "idle" => phase'[b] # "idle",
           current' = saved[a].inst,
           a \in Calls => /\ store'[Home(a)].live = store[Home(a)].live
                          /\ store'[Home(a)].cur = saved[a].cur,
           \A s \in Stores \ {Home(a)} : store'[s].live = store[s].live /\ store'[s].cur = store[s].cur
    PROVE  Chain'
<1>0. PICK n \in Nat : n + 1 = Len(order)
  <2>1. Len(order) \in Nat /\ Len(order) # 0
    BY DEF TypeOK
  <2>2. Len(order) - 1 \in Nat /\ (Len(order) - 1) + 1 = Len(order)
    BY <2>1
  <2> QED
    BY <2>2
<1>1. /\ Len(order') = n /\ order[n + 1] = a
      /\ \A i \in 1..n : order'[i] = order[i] /\ order[i] \in Activities
  <2>1. order \in Seq(Activities)
    BY DEF TypeOK
  <2>2. Len(order) - 1 = n
    BY <1>0
  <2>3. Len(order') = n /\ \A i \in 1..n : order'[i] = order[i]
    BY <2>1, <2>2, Popped
  <2>4. \A i \in 1..n : order[i] \in Activities
    BY <1>0, <2>1
  <2> QED
    BY <1>0, <2>1, <2>3, <2>4, LastIsMember
<1>2. \A i \in 0..n : HomeAt(i)' = HomeAt(i) /\ TruthAt(i)' = TruthAt(i)
  <2> SUFFICES ASSUME NEW i \in 0..n PROVE HomeAt(i)' = HomeAt(i) /\ TruthAt(i)' = TruthAt(i)
    OBVIOUS
  <2>1. CASE i = 0
    BY <2>1 DEF HomeAt, TruthAt
  <2>2. CASE i # 0
    <3>1. order'[i] = order[i]
      BY <1>1, <2>2
    <3> QED
      BY <2>2, <3>1 DEF HomeAt, TruthAt, Home, Truth
  <2> QED
    BY <2>1, <2>2
<1>3. /\ n + 1 # 0 /\ n \in 0..Len(order) /\ n + 1 \in 0..Len(order) /\ n + 1 \in 1..Len(order)
      /\ (n + 1) - 1 = n /\ n < n + 1
      /\ \A i \in 1..n : i \in 1..Len(order) /\ i - 1 \in 0..n
      /\ \A i \in 0..n : i \in 0..Len(order)
  BY <1>0
<1>4. HomeAt(n + 1) = Home(a)
  BY <1>1, <1>3 DEF HomeAt
<1>5. saved[a].inst = HomeAt(n)
      /\ (a \in Calls => saved[a].store = HomeAt(n) /\ saved[a].cur = TruthAt(n))
  BY <1>1, <1>3 DEF Chain, SavedInv
<1>6. Begun'
  <2>1. \A i \in 1..n : phase'[order'[i]] # "idle"
    BY <1>1, <1>3 DEF Chain, Begun
  <2>2. \A i \in 0..n : HomeAt(i)' \in Stores /\ (HomeAt(i)' \in Scopes => phase'[HomeAt(i)'] # "idle")
    <3>1. \A i \in 0..n : HomeAt(i) \in Stores /\ (HomeAt(i) \in Scopes => phase[HomeAt(i)] # "idle")
      BY <1>3 DEF Chain, Begun
    <3> QED
      BY <1>2, <3>1 DEF Activities
  <2> QED
    BY <1>1, <2>1, <2>2 DEF Begun
<1>7. SavedInv'
  <2> SUFFICES ASSUME NEW i \in 1..n
               PROVE  /\ saved'[order'[i]].inst = HomeAt(i - 1)'
                      /\ order'[i] \in Calls =>
                            /\ saved'[order'[i]].store = HomeAt(i - 1)'
                            /\ saved'[order'[i]].cur = TruthAt(i - 1)'
    BY <1>1 DEF SavedInv
  <2>1. saved[order[i]].inst = HomeAt(i - 1)
        /\ (order[i] \in Calls => saved[order[i]].store = HomeAt(i - 1) /\ saved[order[i]].cur = TruthAt(i - 1))
    BY <1>3 DEF Chain, SavedInv
  <2>2. i - 1 \in 0..n /\ order'[i] = order[i]
    BY <1>1, <1>3
  <2> QED
    BY <1>2, <2>1, <2>2
<1>8. OwnStores'
  <2> SUFFICES ASSUME NEW i \in 0..n, NEW j \in 0..n, i < j, order'[i + 1] \in Scopes
               PROVE  HomeAt(i)' # HomeAt(j)'
    BY <1>1 DEF OwnStores
  <2>1. i + 1 \in 1..n
    OBVIOUS
  <2>2. order[i + 1] \in Scopes
    BY <1>1, <2>1
  <2>3. HomeAt(i) # HomeAt(j)
    BY <1>3, <2>2 DEF Chain, OwnStores
  <2> QED
    BY <1>2, <2>3
<1>9. FieldsInv'
  <2>1. current' = HomeAt(n)' /\ n \in 0..n
    BY <1>2, <1>5
  <2> SUFFICES ASSUME NEW i \in 0..n, Boundary(i)'
               PROVE  store'[HomeAt(i)'].live /\ store'[HomeAt(i)'].cur = TruthAt(i)'
    BY <1>1, <2>1 DEF FieldsInv
  <2>2. HomeAt(i) \in Stores /\ Home(a) \in Stores
    BY <1>3, <1>4 DEF Chain, Begun
  <2>3. CASE i = n /\ a \in Calls
    <3>1. Boundary(n + 1)
      BY <1>0 DEF Boundary
    <3>2. store[Home(a)].live
      BY <1>3, <1>4, <3>1 DEF Chain, FieldsInv
    <3>3. Home(a) = HomeAt(n)
      BY <1>5, <2>3 DEF Home
    <3> QED
      BY <1>2, <1>5, <2>1, <2>3, <3>2, <3>3
  <2>4. CASE order[i + 1] \in Scopes
    <3>1. Boundary(i)
      BY <2>4 DEF Boundary
    <3>2. store[HomeAt(i)].live /\ store[HomeAt(i)].cur = TruthAt(i)
      BY <1>3, <3>1 DEF Chain, FieldsInv
    <3>3. HomeAt(i) # HomeAt(n + 1)
      BY <1>3, <2>4 DEF Chain, OwnStores
    <3> QED
      BY <1>2, <1>4, <2>2, <3>2, <3>3
  <2>5. (i = n /\ a \in Calls) \/ order[i + 1] \in Scopes
    <3>1. CASE i = n
      BY <1>1, <3>1 DEF Activities
    <3>2. CASE i # n
      <4>1. i + 1 \in 1..n /\ i # Len(order')
        BY <1>1, <3>2
      <4> QED
        BY <1>1, <4>1 DEF Boundary
    <3> QED
      BY <3>1, <3>2
  <2> QED
    BY <2>3, <2>4, <2>5
<1> QED
  BY <1>6, <1>7, <1>8, <1>9 DEF Chain

-----------------------------------------------------------------------------
(* The steps.                                                              *)

LEMMA InitChain == Init => ChainInv
BY DEF Init, ChainInv, Chain, Begun, SavedInv, OwnStores, FieldsInv, HomeAt, TruthAt, Boundary, Stores

\* An activity that was idle is none of the others.
LEMMA PhasesGrow ==
    ASSUME TypeOK, [Next]_vars
    PROVE  \A a \in Activities : phase[a] # "idle" => phase'[a] # "idle"
<1> SUFFICES ASSUME NEW a \in Activities, phase[a] # "idle"
             PROVE  phase'[a] # "idle"
  OBVIOUS
<1>1. ASSUME NEW b \in Activities, NEW p \in Phases, p # "idle", phase' = [phase EXCEPT ![b] = p]
      PROVE  phase'[a] # "idle"
  BY <1>1 DEF TypeOK
<1>2. ASSUME NEW c \in Calls, Enter(c) \/ Refuse(c) \/ Return(c) \/ Park(c) \/ Settle(c)
      PROVE  phase'[a] # "idle"
  <2>1. \E p \in Phases : p # "idle" /\ phase' = [phase EXCEPT ![c] = p]
    BY <1>2 DEF Enter, Begin, Refuse, Return, Park, Settle, Phases
  <2> QED
    BY <1>1, <2>1 DEF Activities
<1>3. ASSUME NEW s \in Scopes, EnterScope(s) \/ ParkScope(s) \/ EndScope(s)
      PROVE  phase'[a] # "idle"
  <2>1. \E p \in Phases : p # "idle" /\ phase' = [phase EXCEPT ![s] = p]
    BY <1>3 DEF EnterScope, ParkScope, EndScope, Phases
  <2> QED
    BY <1>1, <2>1 DEF Activities
<1>4. ASSUME NEW b \in Activities, Resume(b) PROVE phase'[a] # "idle"
  <2>1. \E p \in Phases : p # "idle" /\ phase' = [phase EXCEPT ![b] = p]
    BY <1>4 DEF Resume, Phases
  <2> QED
    BY <1>1, <2>1
<1>5. CASE Cleanup \/ UNCHANGED vars
  BY <1>5 DEF Cleanup, vars
<1> QED
  BY <1>2, <1>3, <1>4, <1>5 DEF Next

LEMMA NextChain == TypeOK /\ ChainInv /\ [Next]_vars => ChainInv'
<1> SUFFICES ASSUME TypeOK, ChainInv, [Next]_vars, nested', store'[Base].live
             PROVE  Chain'
  BY DEF ChainInv
<1>p. \A a \in Activities : phase[a] # "idle" => phase'[a] # "idle"
  BY PhasesGrow
<1>t. TypeOK'
  BY NextTypeOK
<1>s. store \in [Stores -> Records] /\ Base \in Stores /\ \A s \in Scopes : s \in Stores /\ s # Base
  BY DEF TypeOK, Records, Stores
<1>1. ASSUME NEW c \in Calls, Enter(c) PROVE Chain'
  <2>1. /\ c \in Activities /\ phase[c] = "idle" /\ nested
        /\ Target \in Stores /\ store[Target].cur \in Callers /\ WrapperOf[c] \in Callers
    BY <1>1, TargetType DEF Enter, Begin, TypeOK, Activities, Callers
  <2>0. store' = [store EXCEPT ![Target].cur = WrapperOf[c], ![Target].caller = store[Target].cur]
    BY <1>1 DEF Enter
  <2>2. /\ store'[Target].cur = WrapperOf[c] /\ store'[Target].live = store[Target].live
        /\ \A s \in Stores \ {Target} : store'[s] = store[s]
    BY <1>s, <2>0, <2>1, FieldsSet
  <2>3. Chain
    BY <1>s, <2>1, <2>2 DEF ChainInv
  <2>4. current \in Stores
    <3>1. Len(order) \in 0..Len(order)
      BY DEF TypeOK
    <3> QED
      BY <2>3, <3>1 DEF Chain, FieldsInv, Begun
  <2>5. Target = current /\ current' = current
    BY <1>1, <2>4 DEF Target, Enter, TypeOK
  <2>6. /\ saved'[c].inst = current /\ saved'[c].store = current /\ saved'[c].cur = store[current].cur
        /\ \A b \in Activities \ {c} : saved'[b] = saved[b]
    BY <1>1, <2>1, <2>5 DEF Enter, TypeOK
  <2>7. Home(c)' = current' /\ Truth(c)' = WrapperOf[c]
    BY <2>5, <2>6 DEF Home, Truth
  <2>8. order' = Append(order, c) /\ owner' = owner /\ phase'[c] # "idle" /\ store[current].live
    BY <1>1, <2>1, <2>5 DEF Enter, Begin, TypeOK
  <2> QED
    BY <1>p, <2>1, <2>2, <2>3, <2>5, <2>6, <2>7, <2>8, ChainPushed
<1>2. ASSUME NEW s \in Scopes, EnterScope(s) PROVE Chain'
  <2>1. /\ s \in Activities /\ s \in Stores /\ s # Base /\ phase[s] = "idle"
        /\ Parent \in Stores /\ store[Parent].live /\ nested /\ Youngest
    BY <1>2, TargetType DEF EnterScope, Activities, Stores, TypeOK, Youngest
  <2>2. store' = [store EXCEPT ![s] = [store[Parent] EXCEPT !.live = TRUE]] /\ store[Parent] \in Records
    BY <1>2, <1>s, <2>1 DEF EnterScope
  <2>3. [store[Parent] EXCEPT !.live = TRUE].live /\ [store[Parent] EXCEPT !.live = TRUE].cur = store[Parent].cur
    BY <2>2 DEF Records
  <2>4. store'[s].live /\ store'[s].cur = store[Parent].cur /\ \A x \in Stores \ {s} : store'[x] = store[x]
    BY <1>s, <2>1, <2>2, <2>3
  <2>5. Chain
    BY <1>s, <2>1, <2>4 DEF ChainInv
  <2>6. current \in Stores /\ store[current].live /\ store[current].cur = TruthAt(Len(order)) /\ current = HomeAt(Len(order))
    <3>1. Len(order) \in 0..Len(order)
      BY DEF TypeOK
    <3> QED
      BY <2>5, <3>1 DEF Chain, FieldsInv, Begun, Boundary
  <2>7. Parent = current
    BY <2>6 DEF Parent
  <2>8. Executing = TruthAt(Len(order))
    <3>1. CASE order = <<>>
      <4>1. stack = <<>> /\ Len(order) = 0
        BY <2>1, <3>1 DEF Youngest
      <4> QED
        BY <4>1 DEF Executing, TruthAt
    <3>2. CASE order # <<>>
      <4>1. stack # <<>> /\ Last(stack) = order[Len(order)] /\ Len(order) # 0
        BY <2>1, <3>2, LastIsMember DEF Youngest, TypeOK
      <4> QED
        BY <4>1 DEF Executing, TruthAt
    <3> QED
      BY <3>1, <3>2
  <2>9. /\ saved'[s].inst = current /\ owner'[s] = Executing /\ current' = s
        /\ \A b \in Activities \ {s} : saved'[b] = saved[b] /\ (b \in Scopes => owner'[b] = owner[b])
        /\ order' = Append(order, s) /\ phase'[s] # "idle"
    BY <1>2, <2>1 DEF EnterScope, TypeOK
  <2>10. Home(s)' = s /\ Truth(s)' = Executing /\ s \notin Calls
    BY <2>9 DEF Home, Truth
  <2> QED
    BY <1>p, <2>1, <2>4, <2>5, <2>6, <2>7, <2>8, <2>9, <2>10, ChainPushed
<1>3. ASSUME NEW c \in Calls, Return(c) \/ Settle(c) PROVE Chain'
  <2>1. c \in Activities /\ Restore(c) /\ Ends(c) /\ UNCHANGED <<saved, owner>>
    BY <1>3 DEF Return, Settle, Activities
  <2>2. order # <<>> /\ Last(order) = c /\ nested /\ order' = SubSeq(order, 1, Len(order) - 1)
    BY <2>1 DEF Ends
  <2>3. saved[c].store \in Stores /\ saved[c].cur \in Callers /\ saved[c].caller \in Callers
    BY <2>1 DEF TypeOK
  <2>4. /\ store'[saved[c].store].cur = saved[c].cur
        /\ store'[saved[c].store].live = store[saved[c].store].live
        /\ \A s \in Stores \ {saved[c].store} : store'[s] = store[s]
    BY <1>s, <2>1, <2>3, FieldsSet DEF Restore
  <2>5. Home(c) = saved[c].store /\ current' = saved[c].inst
    BY <2>1 DEF Home, Restore
  <2>6. Chain
    BY <1>s, <2>2, <2>3, <2>4 DEF ChainInv
  <2> QED
    BY <1>p, <2>1, <2>2, <2>4, <2>5, <2>6, ChainPopped
<1>4. ASSUME NEW s \in Scopes, EndScope(s) PROVE Chain'
  <2>1. s \in Activities /\ Ends(s) /\ UNCHANGED <<saved, owner>> /\ current' = saved[s].inst /\ Home(s) = s /\ s \notin Calls
    BY <1>4 DEF EndScope, Activities, Home
  <2>2. order # <<>> /\ Last(order) = s /\ nested /\ order' = SubSeq(order, 1, Len(order) - 1)
    BY <2>1 DEF Ends
  <2>3. \A x \in Stores \ {s} : store'[x] = store[x]
    BY <1>4, <1>s, LiveSet DEF EndScope
  <2>4. Chain
    BY <1>s, <2>2, <2>3 DEF ChainInv
  <2> QED
    BY <1>p, <2>1, <2>2, <2>3, <2>4, ChainPopped
<1>5. ASSUME UNCHANGED <<order, saved, owner, current, nested, store>> PROVE Chain'
  BY <1>5, <1>p, ChainKept DEF ChainInv
<1>6. ASSUME Cleanup PROVE Chain'
  <2>1. ~store'[Base].live
    BY <1>6, <1>s, LiveSet DEF Cleanup
  <2> QED
    BY <2>1
<1> QED
  BY <1>1, <1>2, <1>3, <1>4, <1>5, <1>6 DEF Next, vars, Refuse, Park, ParkScope, Resume

-----------------------------------------------------------------------------
(* The shared fields.                                                      *)

IInv == TypeOK /\ ChainInv

LEMMA IInvFields == IInv => FieldsNameYoungest
<1> SUFFICES ASSUME IInv, nested, store[Base].live
             PROVE  IF order = <<>> THEN current = Base /\ store[Base].cur = None
                    ELSE /\ current = Home(Last(order)) /\ store[current].live
                         /\ store[current].cur = Truth(Last(order))
  BY DEF FieldsNameYoungest
<1> DEFINE n == Len(order)
<1>1. /\ n \in 0..n /\ Boundary(n)
  BY DEF IInv, TypeOK, Boundary
<1>2. current = HomeAt(n) /\ store[current].live /\ store[current].cur = TruthAt(n)
  BY <1>1 DEF IInv, ChainInv, Chain, FieldsInv
<1>3. IF order = <<>> THEN n = 0 ELSE n # 0 /\ order[n] = Last(order)
  BY DEF Last, IInv, TypeOK
<1> QED
  BY <1>2, <1>3 DEF HomeAt, TruthAt

LEMMA Inductive == Spec => []IInv
<1>1. Init => IInv
  BY InitTypeOK, InitChain DEF IInv
<1>2. IInv /\ [Next]_vars => IInv'
  BY NextTypeOK, NextChain DEF IInv
<1> QED
  BY <1>1, <1>2, PTL DEF Spec

\* While activities settle in the reverse of the order in which they began,
\* the shared fields name the last that began among those not settled, for any
\* number of calls and scopes, nested to any depth.
THEOREM FieldsAlwaysNameYoungest == Spec => []FieldsNameYoungest
BY Inductive, IInvFields, PTL

\* What the search of the stack may give to an activity none of whose callers
\* is of the file of a candidate.
LEMMA IInvNobodyElse == IInv => YoungestIsNobodyElse
<1> DEFINE cands == Candidates(current)
           e == Executing
<1> SUFFICES ASSUME IInv, nested, store[Base].live, stack # <<>>, Youngest,
                    \A i \in 1..Len(stack) - 1 : Matched(Truth(stack[i]), cands) = {}
             PROVE  \/ Identity \in {e, Unresolved}
                    \/ Identity \in Wrappers /\ File(Identity) = File(e)
  BY DEF YoungestIsNobodyElse
<1>1. stack \in Seq(Activities) /\ Len(stack) \in 1..Len(stack) /\ e = Truth(stack[Len(stack)])
  BY LastIsMember DEF IInv, TypeOK, Executing
<1>2. current \in Stores /\ store[current].live /\ store[current].cur = e /\ order # <<>>
  <2>1. order # <<>> /\ Last(stack) = Last(order)
    BY DEF Youngest
  <2>2. current = Home(Last(order)) /\ store[current].live /\ store[current].cur = Truth(Last(order))
    BY <2>1, IInvFields DEF FieldsNameYoungest
  <2>3. current \in Stores
    <3>1. Len(order) \in 0..Len(order)
      BY DEF IInv, TypeOK
    <3> QED
      BY <3>1 DEF IInv, ChainInv, Chain, FieldsInv, Begun
  <2> QED
    BY <2>1, <2>2, <2>3 DEF Executing
<1>3. current # None /\ e \in Callers
  BY <1>2, TruthType DEF IInv
<1>4. cands \subseteq Wrappers
  BY <1>2 DEF Candidates, IInv, TypeOK
<1> HIDE DEF cands, e
<1>5. \A i \in 1..Len(stack) : Matched(Truth(stack[i]), cands) # {} => i = Len(stack)
  <2> SUFFICES ASSUME NEW i \in 1..Len(stack), Matched(Truth(stack[i]), cands) # {}, i # Len(stack)
               PROVE  FALSE
    OBVIOUS
  <2>1. Len(stack) \in Nat
    BY <1>1
  <2>2. i \in 1..Len(stack) - 1
    BY <2>1
  <2> QED
    BY <2>2
<1>6. \A w : Named(w, cands) \subseteq Matched(w, cands)
  BY DEF Named
<1>7. CASE Deciding(cands) # {}
  <2>1. Deciding(cands) = {Len(stack)}
    BY <1>5, <1>6, <1>7 DEF Deciding
  <2> DEFINE top == CHOOSE i \in Deciding(cands) : \A j \in Deciding(cands) : j <= i
             v == FromStack(cands)
  <2>2. top \in Deciding(cands)
    <3>1. \A j \in {Len(stack)} : j <= Len(stack)
      BY <1>1
    <3> QED
      BY <2>1, <3>1
  <2>3. top = Len(stack)
    BY <2>1, <2>2
  <2>4. v = CHOOSE u \in Wrappers : u \in Named(Truth(stack[top]), cands)
    BY DEF FromStack
  <2> HIDE DEF top, v
  <2>5. Named(e, cands) # {} /\ Named(e, cands) \subseteq Wrappers
    BY <1>1, <1>4, <1>6, <2>1 DEF Deciding, Matched
  <2>6. v \in Wrappers /\ v \in Named(e, cands)
    BY <1>1, <2>3, <2>4, <2>5
  <2>7. File(v) = File(e)
    BY <1>6, <2>6 DEF Matched, File
  <2>8. Identity \in {e, v}
    BY <1>2, <1>3, <1>7 DEF Identity, cands, v
  <2> QED
    BY <2>6, <2>7, <2>8
<1>8. CASE Deciding(cands) = {} /\ Seen(cands)
  BY <1>2, <1>3, <1>8 DEF Identity, cands
<1>9. CASE Deciding(cands) = {} /\ ~Seen(cands)
  <2>1. e \notin cands
    <3> SUFFICES ASSUME e \in cands PROVE FALSE
      OBVIOUS
    <3>1. e \in Matched(e, cands)
      BY <1>4, CandidateNamed
    <3> QED
      BY <1>1, <1>9, <3>1 DEF Seen
  <2> QED
    BY <1>2, <1>3, <1>9, <2>1 DEF Identity, cands
<1> QED
  BY <1>7, <1>8, <1>9

\* The activity that began last is identified as itself, as another function
\* of its file, or not at all, whatever is suspended beside it.
THEOREM YoungestNeverSomebodyElse == Spec => []YoungestIsNobodyElse
BY Inductive, IInvNobodyElse, PTL
=============================================================================
