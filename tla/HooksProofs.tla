----------------------------- MODULE HooksProofs -----------------------------
(***************************************************************************)
(* Proofs about the hooks and about the calls that run them: types, both   *)
(* indexes, what a reload gives back, which hooks fire and in what order,  *)
(* the always hooks of a call and the error hooks that an error meets, for *)
(* any hooks, patterns, paths and calls.                                   *)
(***************************************************************************)
EXTENDS HookedCalls, FiniteSetTheorems, SequenceTheorems, TLAPS

-----------------------------------------------------------------------------
(* What Kept keeps.                                                        *)

\* The k-th position of a finite set of positions: positions are counted
\* upwards, one by one, and none is left out.
LEMMA PositionsCounted ==
    ASSUME NEW n \in Nat, NEW at \in SUBSET (1..n)
    PROVE  /\ Cardinality(at) \in Nat
           /\ \A k \in 1..Cardinality(at) : Nth(at, k) \in at
           /\ \A k, l \in 1..Cardinality(at) : k < l => Nth(at, k) < Nth(at, l)
           /\ \A i \in at : \E k \in 1..Cardinality(at) : Nth(at, k) = i
<1> DEFINE c == [i \in at |-> Cardinality({j \in at : j <= i})]
           N == Cardinality(at)
<1>0. at \subseteq Int
  OBVIOUS
<1>1. IsFiniteSet(at) /\ N \in Nat
  <2>1. IsFiniteSet(1..n)
    BY FS_Interval
  <2> QED
    BY <2>1, FS_Subset, FS_CardinalityType
<1>2. ASSUME NEW i \in at PROVE c[i] \in 1..N
  <2> DEFINE T == {j \in at : j <= i}
  <2>1. T \in SUBSET at /\ i \in T
    OBVIOUS
  <2>2. IsFiniteSet(T) /\ Cardinality(T) <= N
    BY <1>1, <2>1, FS_Subset
  <2>3. Cardinality(T) \in Nat /\ Cardinality(T) # 0
    BY <2>1, <2>2, FS_CardinalityType, FS_EmptySet
  <2> QED
    BY <1>1, <2>2, <2>3
<1>3. ASSUME NEW i \in at, NEW k \in at, i < k PROVE c[i] < c[k]
  <2> DEFINE T == {j \in at : j <= i}
             U == {j \in at : j <= k}
  <2>5. i \in Int /\ k \in Int /\ \A j \in at : j <= i => j <= k
    BY <1>0, <1>3
  <2>6. k <= k /\ ~(k <= i)
    BY <1>3, <2>5
  <2>1. U \in SUBSET at /\ T \in SUBSET U /\ k \in U /\ k \notin T
    BY <2>5, <2>6
  <2>2. IsFiniteSet(U)
    BY <1>1, <2>1, FS_Subset
  <2>3. Cardinality(T) <= Cardinality(U) /\ Cardinality(U) # Cardinality(T)
    BY <2>1, <2>2, FS_Subset
  <2>4. c[i] = Cardinality(T) /\ c[k] = Cardinality(U)
    OBVIOUS
  <2> QED
    BY <1>2, <2>3, <2>4
<1> HIDE DEF c
<1>4. c \in [at -> 1..N]
  BY <1>2 DEF c
<1>5. \A i, k \in at : c[i] = c[k] => i = k
  BY <1>3, <1>4
<1>6. c \in Injection(at, 1..N)
  BY <1>4, <1>5 DEF Injection, IsInjective
<1>7. IsFiniteSet(1..N) /\ Cardinality(1..N) = N
  BY <1>1, FS_Interval
<1>8. c \in Surjection(at, 1..N)
  BY <1>6, <1>7, FS_Injection
<1>9. \A k \in 1..N : \E i \in at : c[i] = k
  BY <1>8 DEF Surjection
<1>10. ASSUME NEW k \in 1..N PROVE Nth(at, k) \in at /\ c[Nth(at, k)] = k
  <2>1. Nth(at, k) = CHOOSE i \in at : c[i] = k
    BY DEF Nth, c
  <2> QED
    BY <1>9, <2>1
<1>12. ASSUME NEW k \in 1..N, NEW l \in 1..N, k < l PROVE Nth(at, k) < Nth(at, l)
  <2>1. /\ c[Nth(at, k)] = k /\ c[Nth(at, l)] = l
        /\ Nth(at, k) \in at /\ Nth(at, l) \in at
    BY <1>10
  <2>2. Nth(at, k) \in Int /\ Nth(at, l) \in Int
    BY <1>0, <2>1
  <2>3. Nth(at, l) < Nth(at, k) => l < k
    BY <1>3, <2>1
  <2>4. Nth(at, k) # Nth(at, l)
    BY <1>12, <2>1
  <2> QED
    BY <1>12, <2>2, <2>3, <2>4
<1>13. \A i \in at : c[i] \in 1..N /\ Nth(at, c[i]) = i
  BY <1>4, <1>5, <1>10
<1> HIDE DEF N
<1>14. \A i \in at : \E k \in 1..N : Nth(at, k) = i
  BY <1>13
<1> QED
  BY <1>1, <1>10, <1>12, <1>14 DEF N

\* What is kept: the entries at the positions, in the order they had.
LEMMA KeptEntries ==
    ASSUME NEW S, NEW s \in Seq(S), NEW at \in SUBSET (DOMAIN s)
    PROVE  LET r == Kept(s, at)
           IN  /\ r \in Seq(S)
               /\ \E f \in [DOMAIN r -> at] :
                    /\ \A k \in DOMAIN r : r[k] = s[f[k]]
                    /\ \A k, l \in DOMAIN r : k < l => f[k] < f[l]
                    /\ \A i \in at : \E k \in DOMAIN r : f[k] = i
<1> DEFINE r == Kept(s, at)
           N == Cardinality(at)
<1>1. Len(s) \in Nat /\ DOMAIN s = 1..Len(s)
  OBVIOUS
<1>2. N \in Nat
  BY <1>1, PositionsCounted
<1>3. /\ \A k \in 1..N : Nth(at, k) \in at
      /\ \A k, l \in 1..N : k < l => Nth(at, k) < Nth(at, l)
      /\ \A i \in at : \E k \in 1..N : Nth(at, k) = i
  BY <1>1, PositionsCounted
<1> DEFINE f == [k \in 1..N |-> Nth(at, k)]
<1>4. r = [k \in 1..N |-> s[Nth(at, k)]]
  BY DEF Kept
<1> HIDE DEF N, r
<1>5. \A k \in 1..N : s[Nth(at, k)] \in S
  BY <1>1, <1>3
<1>6. r \in Seq(S)
  BY <1>2, <1>4, <1>5
<1>7. DOMAIN r = 1..N /\ \A k \in 1..N : r[k] = s[f[k]]
  BY <1>4
<1>8. f \in [1..N -> at]
  BY <1>3
<1>9. \A i \in at : \E k \in 1..N : f[k] = i
  BY <1>3
<1>10. \A k, l \in 1..N : k < l => f[k] < f[l]
  BY <1>3
<1> HIDE DEF f
<1>11. /\ f \in [DOMAIN r -> at]
       /\ \A k \in DOMAIN r : r[k] = s[f[k]]
       /\ \A k, l \in DOMAIN r : k < l => f[k] < f[l]
       /\ \A i \in at : \E k \in DOMAIN r : f[k] = i
  BY <1>7, <1>8, <1>9, <1>10
<1>12. \E g \in [DOMAIN r -> at] :
          /\ \A k \in DOMAIN r : r[k] = s[g[k]]
          /\ \A k, l \in DOMAIN r : k < l => g[k] < g[l]
          /\ \A i \in at : \E k \in DOMAIN r : g[k] = i
  BY <1>11
<1> QED
  BY <1>6, <1>12 DEF r

LEMMA KeptFacts ==
    ASSUME NEW S, NEW s \in Seq(S), NEW at \in SUBSET (DOMAIN s)
    PROVE  LET r == Kept(s, at)
           IN  /\ r \in Seq(S)
               /\ \A k \in DOMAIN r : \E i \in at : r[k] = s[i]
               /\ \A i \in at : \E k \in DOMAIN r : r[k] = s[i]
               /\ \A k, l \in DOMAIN r : k < l => \E i, j \in at : i < j /\ s[i] = r[k] /\ s[j] = r[l]
               /\ \A i, j \in at : i < j => \E k, l \in DOMAIN r : k < l /\ r[k] = s[i] /\ r[l] = s[j]
<1> DEFINE r == Kept(s, at)
<1>1. /\ r \in Seq(S)
      /\ \E f \in [DOMAIN r -> at] :
            /\ \A k \in DOMAIN r : r[k] = s[f[k]]
            /\ \A k, l \in DOMAIN r : k < l => f[k] < f[l]
            /\ \A i \in at : \E k \in DOMAIN r : f[k] = i
  BY KeptEntries
<1> HIDE DEF r
<1>2. PICK f \in [DOMAIN r -> at] :
            /\ \A k \in DOMAIN r : r[k] = s[f[k]]
            /\ \A k, l \in DOMAIN r : k < l => f[k] < f[l]
            /\ \A i \in at : \E k \in DOMAIN r : f[k] = i
  BY <1>1
<1>0. at \subseteq Int /\ DOMAIN r \subseteq Int
  BY <1>1
<1>3. \A k \in DOMAIN r : f[k] \in at /\ f[k] \in Int /\ k \in Int
  BY <1>0
<1>4. \A k \in DOMAIN r : \E i \in at : r[k] = s[i]
  BY <1>2, <1>3
<1>5. \A i \in at : \E k \in DOMAIN r : r[k] = s[i]
  BY <1>2
<1>6. ASSUME NEW k \in DOMAIN r, NEW l \in DOMAIN r, k < l
      PROVE  \E i, j \in at : i < j /\ s[i] = r[k] /\ s[j] = r[l]
  BY <1>2, <1>3, <1>6
<1>7. ASSUME NEW i \in at, NEW j \in at, i < j
      PROVE  \E k, l \in DOMAIN r : k < l /\ r[k] = s[i] /\ r[l] = s[j]
  <2>1. PICK k \in DOMAIN r, l \in DOMAIN r : f[k] = i /\ f[l] = j
    BY <1>2
  <2>2. k < l
    <3>1. k \in Int /\ l \in Int /\ f[k] < f[l]
      BY <1>3, <1>7, <2>1
    <3>2. l < k => f[l] < f[k]
      BY <1>2
    <3>3. f[l] \in Int /\ f[k] \in Int
      BY <1>3
    <3> QED
      BY <3>1, <3>2, <3>3
  <2> QED
    BY <1>2, <2>1, <2>2
<1> QED
  BY <1>1, <1>4, <1>5, <1>6, <1>7 DEF r

\* What a sequence is after an entry has been added.
LEMMA Appended ==
    ASSUME NEW S, NEW s \in Seq(S), NEW e \in S
    PROVE  LET r == Append(s, e)
           IN  /\ r \in Seq(S)
               /\ DOMAIN s \subseteq DOMAIN r /\ \A i \in DOMAIN s : r[i] = s[i]
               /\ \E n \in DOMAIN r : /\ n \notin DOMAIN s /\ r[n] = e
                                      /\ \A i \in DOMAIN r : i = n \/ (i \in DOMAIN s /\ i < n)
<1> DEFINE r == Append(s, e)
<1>1. /\ r \in Seq(S) /\ Len(r) = Len(s) + 1
      /\ \A i \in 1..Len(s) : r[i] = s[i]
      /\ r[Len(s) + 1] = e
  BY AppendProperties
<1>2. DOMAIN r = 1..(Len(s) + 1) /\ DOMAIN s = 1..Len(s) /\ Len(s) \in Nat
  BY <1>1
<1> HIDE DEF r
<1>3. /\ Len(s) + 1 \in DOMAIN r /\ Len(s) + 1 \notin DOMAIN s
      /\ \A i \in DOMAIN r : i = Len(s) + 1 \/ (i \in DOMAIN s /\ i < Len(s) + 1)
  BY <1>2
<1> QED
  BY <1>1, <1>2, <1>3 DEF r

-----------------------------------------------------------------------------
(* Managers: their types, and when the two indexes agree.                  *)

HookRecords == [id : HookIds, def : Defs, enabled : BOOLEAN]
Groups == [pattern : Patterns, ids : Seq(HookIds)]
Managers == [enabled : BOOLEAN, filter : SUBSET Patterns, counter : Nat,
             hooks : Seq(HookRecords), groups : [Slots -> Seq(Groups)]]

Unique(hooks) == \A i, j \in DOMAIN hooks : hooks[i].id = hooks[j].id => i = j

Belongs(h, s, p) == Slot(h.def) = s /\ h.def.pattern = p

\* Everybody of slot s has a group, no two groups have one pattern.
Housed(s, hooks, gs) ==
    /\ \A i \in DOMAIN hooks :
        Slot(hooks[i].def) = s => \E k \in DOMAIN gs : gs[k].pattern = hooks[i].def.pattern
    /\ \A i, j \in DOMAIN gs : gs[i].pattern = gs[j].pattern => i = j

\* A group of slot s has all that belong to it and nobody else, in order.
Listed(s, hooks, g) ==
    /\ \A k \in DOMAIN g.ids : \E i \in DOMAIN hooks : Belongs(hooks[i], s, g.pattern) /\ hooks[i].id = g.ids[k]
    /\ \A i \in DOMAIN hooks : Belongs(hooks[i], s, g.pattern) => \E k \in DOMAIN g.ids : hooks[i].id = g.ids[k]
    /\ \A a, b \in DOMAIN g.ids : a < b => Before(hooks, g.ids[a], g.ids[b])

GroupAgrees(s, hooks, g) == g.ids # <<>> /\ Listed(s, hooks, g)

SlotAgrees(s, hooks, gs) ==
    Housed(s, hooks, gs) /\ \A i \in DOMAIN gs : GroupAgrees(s, hooks, gs[i])

Agree(m) == Unique(m.hooks) /\ \A s \in Slots : SlotAgrees(s, m.hooks, m.groups[s])

LEMMA SlotType ==
    ASSUME NEW d \in Defs
    PROVE  Slot(d) \in Slots /\ d.pattern \in Patterns
BY DefsAssumption DEF Slot, Slots

-----------------------------------------------------------------------------
(* A new hook.                                                             *)

\* One more at the end: the order of the others is as it was.
LEMMA AppendedBefore ==
    ASSUME NEW hooks \in Seq(HookRecords), NEW h \in HookRecords
    PROVE  LET r == Append(hooks, h)
           IN  /\ \A x, y : Before(hooks, x, y) => Before(r, x, y)
               /\ \A i \in DOMAIN hooks : Before(r, hooks[i].id, h.id)
<1> DEFINE r == Append(hooks, h)
<1>1. /\ DOMAIN hooks \subseteq DOMAIN r /\ \A i \in DOMAIN hooks : r[i] = hooks[i]
      /\ \E n \in DOMAIN r : /\ n \notin DOMAIN hooks /\ r[n] = h
                             /\ \A i \in DOMAIN r : i = n \/ (i \in DOMAIN hooks /\ i < n)
  BY Appended
<1> HIDE DEF r
<1>2. ASSUME NEW x, NEW y, Before(hooks, x, y) PROVE Before(r, x, y)
  BY <1>1, <1>2 DEF Before
<1>3. ASSUME NEW i \in DOMAIN hooks PROVE Before(r, hooks[i].id, h.id)
  BY <1>1 DEF Before
<1> QED
  BY <1>2, <1>3 DEF r

LEMMA AppendedUnique ==
    ASSUME NEW hooks \in Seq(HookRecords), NEW h \in HookRecords,
           Unique(hooks), h.id \notin Ids(hooks)
    PROVE  Unique(Append(hooks, h))
<1> DEFINE r == Append(hooks, h)
<1>1. /\ DOMAIN hooks \subseteq DOMAIN r /\ \A i \in DOMAIN hooks : r[i] = hooks[i]
      /\ \E n \in DOMAIN r : /\ n \notin DOMAIN hooks /\ r[n] = h
                             /\ \A i \in DOMAIN r : i = n \/ (i \in DOMAIN hooks /\ i < n)
  BY Appended
<1> HIDE DEF r
<1>2. \A i \in DOMAIN hooks : hooks[i].id # h.id
  BY DEF Ids
<1>3. Unique(r)
  BY <1>1, <1>2 DEF Unique
<1> QED
  BY <1>3 DEF r

\* A hook of another slot or another pattern does not concern a group.
LEMMA ForeignHook ==
    ASSUME NEW hooks \in Seq(HookRecords), NEW h \in HookRecords, NEW s, NEW g \in Groups,
           GroupAgrees(s, hooks, g), ~Belongs(h, s, g.pattern)
    PROVE  GroupAgrees(s, Append(hooks, h), g)
<1> DEFINE r == Append(hooks, h)
<1>1. /\ DOMAIN hooks \subseteq DOMAIN r /\ \A i \in DOMAIN hooks : r[i] = hooks[i]
      /\ \E n \in DOMAIN r : /\ n \notin DOMAIN hooks /\ r[n] = h
                             /\ \A i \in DOMAIN r : i = n \/ (i \in DOMAIN hooks /\ i < n)
  BY Appended
<1>2. \A x, y : Before(hooks, x, y) => Before(r, x, y)
  BY AppendedBefore
<1> HIDE DEF r
<1>3. /\ g.ids # <<>>
      /\ \A a, b \in DOMAIN g.ids : a < b => Before(r, g.ids[a], g.ids[b])
  BY <1>2 DEF GroupAgrees, Listed
<1>4. \A k \in DOMAIN g.ids : \E i \in DOMAIN r : Belongs(r[i], s, g.pattern) /\ r[i].id = g.ids[k]
  BY <1>1 DEF GroupAgrees, Listed
<1>5. \A i \in DOMAIN r : Belongs(r[i], s, g.pattern) => \E k \in DOMAIN g.ids : r[i].id = g.ids[k]
  BY <1>1 DEF GroupAgrees, Listed
<1>6. GroupAgrees(s, r, g)
  BY <1>3, <1>4, <1>5 DEF GroupAgrees, Listed
<1> QED
  BY <1>6 DEF r

\* The hook goes to the end of the group of its slot and pattern.
LEMMA JoinedGroup ==
    ASSUME NEW hooks \in Seq(HookRecords), NEW h \in HookRecords, NEW s, NEW g \in Groups,
           GroupAgrees(s, hooks, g), Belongs(h, s, g.pattern)
    PROVE  LET joined == [g EXCEPT !.ids = Append(@, h.id)]
           IN  /\ joined \in Groups /\ joined.pattern = g.pattern
               /\ GroupAgrees(s, Append(hooks, h), joined)
<1> DEFINE r == Append(hooks, h)
           ids == Append(g.ids, h.id)
           joined == [g EXCEPT !.ids = ids]
<1>1. /\ DOMAIN hooks \subseteq DOMAIN r /\ \A i \in DOMAIN hooks : r[i] = hooks[i]
      /\ \E n \in DOMAIN r : /\ n \notin DOMAIN hooks /\ r[n] = h
                             /\ \A i \in DOMAIN r : i = n \/ (i \in DOMAIN hooks /\ i < n)
  BY Appended
<1>2. /\ \A x, y : Before(hooks, x, y) => Before(r, x, y)
      /\ \A i \in DOMAIN hooks : Before(r, hooks[i].id, h.id)
  BY AppendedBefore
<1>3. g.ids \in Seq(HookIds) /\ h.id \in HookIds /\ g.pattern \in Patterns
  BY DEF Groups, HookRecords
<1>4. /\ ids \in Seq(HookIds)
      /\ DOMAIN g.ids \subseteq DOMAIN ids /\ \A i \in DOMAIN g.ids : ids[i] = g.ids[i]
      /\ \E n \in DOMAIN ids : /\ n \notin DOMAIN g.ids /\ ids[n] = h.id
                               /\ \A i \in DOMAIN ids : i = n \/ (i \in DOMAIN g.ids /\ i < n)
  BY <1>3, Appended
<1> HIDE DEF r, ids
<1>5. joined \in Groups /\ joined.pattern = g.pattern /\ joined.ids = ids
  BY <1>3, <1>4 DEF Groups
<1> HIDE DEF joined
<1>6. ids # <<>>
  BY <1>4
<1>7. ASSUME NEW k \in DOMAIN ids
      PROVE  \E i \in DOMAIN r : Belongs(r[i], s, g.pattern) /\ r[i].id = ids[k]
  <2>1. CASE k \in DOMAIN g.ids
    BY <1>1, <1>4, <2>1 DEF GroupAgrees, Listed
  <2>2. CASE k \notin DOMAIN g.ids
    <3>1. ids[k] = h.id
      BY <1>4, <2>2
    <3> QED
      BY <1>1, <3>1
  <2> QED
    BY <2>1, <2>2
<1>8. ASSUME NEW i \in DOMAIN r, Belongs(r[i], s, g.pattern)
      PROVE  \E k \in DOMAIN ids : r[i].id = ids[k]
  <2>1. CASE i \in DOMAIN hooks
    <3>1. PICK k \in DOMAIN g.ids : hooks[i].id = g.ids[k]
      BY <1>1, <1>8, <2>1 DEF GroupAgrees, Listed
    <3> QED
      BY <1>1, <1>4, <2>1, <3>1
  <2>2. CASE i \notin DOMAIN hooks
    <3>1. r[i] = h
      BY <1>1, <2>2
    <3> QED
      BY <1>4, <3>1
  <2> QED
    BY <2>1, <2>2
<1>9. ASSUME NEW a \in DOMAIN ids, NEW b \in DOMAIN ids, a < b
      PROVE  Before(r, ids[a], ids[b])
  <2>1. a \in Int /\ b \in Int
    BY <1>4
  <2>2. a \in DOMAIN g.ids
    BY <1>4, <1>9, <2>1
  <2>3. CASE b \in DOMAIN g.ids
    <3>1. Before(hooks, g.ids[a], g.ids[b])
      BY <1>9, <2>2, <2>3 DEF GroupAgrees, Listed
    <3> QED
      BY <1>2, <1>4, <2>2, <2>3, <3>1
  <2>4. CASE b \notin DOMAIN g.ids
    <3>1. ids[b] = h.id /\ ids[a] = g.ids[a]
      BY <1>4, <2>2, <2>4
    <3>2. PICK i \in DOMAIN hooks : hooks[i].id = g.ids[a]
      BY <2>2 DEF GroupAgrees, Listed
    <3> QED
      BY <1>2, <3>1, <3>2
  <2> QED
    BY <2>3, <2>4
<1>10. GroupAgrees(s, r, joined)
  BY <1>5, <1>6, <1>7, <1>8, <1>9 DEF GroupAgrees, Listed
<1> QED
  BY <1>5, <1>10 DEF r, joined, ids

\* Or it makes a group of its own.
LEMMA FoundedGroup ==
    ASSUME NEW hooks \in Seq(HookRecords), NEW h \in HookRecords, NEW s, NEW p \in Patterns,
           Belongs(h, s, p), \A i \in DOMAIN hooks : ~Belongs(hooks[i], s, p)
    PROVE  LET g == [pattern |-> p, ids |-> <<h.id>>]
           IN  g \in Groups /\ GroupAgrees(s, Append(hooks, h), g)
<1> DEFINE r == Append(hooks, h)
           g == [pattern |-> p, ids |-> <<h.id>>]
<1>1. /\ DOMAIN hooks \subseteq DOMAIN r /\ \A i \in DOMAIN hooks : r[i] = hooks[i]
      /\ \E n \in DOMAIN r : /\ n \notin DOMAIN hooks /\ r[n] = h
                             /\ \A i \in DOMAIN r : i = n \/ (i \in DOMAIN hooks /\ i < n)
  BY Appended
<1> HIDE DEF r
<1>2. h.id \in HookIds
  BY DEF HookRecords
<1>3. /\ g.pattern = p /\ g.ids = <<h.id>> /\ g.ids \in Seq(HookIds)
      /\ DOMAIN g.ids = {1} /\ g.ids[1] = h.id
  BY <1>2
<1>4. g \in Groups
  BY <1>3 DEF Groups
<1> HIDE DEF g
<1>5. \A k \in DOMAIN g.ids : \E i \in DOMAIN r : Belongs(r[i], s, p) /\ r[i].id = g.ids[k]
  BY <1>1, <1>3
<1>6. \A i \in DOMAIN r : Belongs(r[i], s, p) => r[i] = h
  BY <1>1
<1>7. \A a, b \in DOMAIN g.ids : ~(a < b)
  BY <1>3
<1>8. g.ids # <<>>
  BY <1>3
<1>9. GroupAgrees(s, r, g)
  BY <1>3, <1>5, <1>6, <1>7, <1>8 DEF GroupAgrees, Listed
<1> QED
  BY <1>4, <1>9 DEF r, g

\* Grouped keeps a slot and the Map in agreement.
LEMMA GroupedAgrees ==
    ASSUME NEW hooks \in Seq(HookRecords), NEW h \in HookRecords, NEW gs \in Seq(Groups),
           SlotAgrees(Slot(h.def), hooks, gs)
    PROVE  LET after == Grouped(gs, h.def.pattern, h.id)
           IN  after \in Seq(Groups) /\ SlotAgrees(Slot(h.def), Append(hooks, h), after)
<1> DEFINE s == Slot(h.def)
           p == h.def.pattern
           r == Append(hooks, h)
           after == Grouped(gs, p, h.id)
<1>1. h.def \in Defs /\ p \in Patterns /\ h.id \in HookIds
  BY SlotType DEF HookRecords
<1>2. Belongs(h, s, p) /\ \A q : q # p => ~Belongs(h, s, q)
  BY DEF Belongs
<1>3. /\ DOMAIN hooks \subseteq DOMAIN r /\ \A i \in DOMAIN hooks : r[i] = hooks[i]
      /\ \E n \in DOMAIN r : /\ n \notin DOMAIN hooks /\ r[n] = h
                             /\ \A i \in DOMAIN r : i = n \/ (i \in DOMAIN hooks /\ i < n)
  BY Appended
<1>4. SlotAgrees(s, hooks, gs)
  OBVIOUS
<1>5. \A i \in DOMAIN gs : gs[i] \in Groups
  OBVIOUS
<1> HIDE DEF s, p
<1>6. CASE \E i \in DOMAIN gs : gs[i].pattern = p
  <2> DEFINE new(i) == IF gs[i].pattern = p THEN [gs[i] EXCEPT !.ids = Append(@, h.id)] ELSE gs[i]
  <2>1. after = [i \in DOMAIN gs |-> new(i)]
    BY <1>6 DEF Grouped
  <2>2. ASSUME NEW i \in DOMAIN gs
        PROVE  new(i) \in Groups /\ new(i).pattern = gs[i].pattern /\ GroupAgrees(s, r, new(i))
    <3>1. GroupAgrees(s, hooks, gs[i])
      BY <1>4 DEF SlotAgrees
    <3>2. CASE gs[i].pattern = p
      <4> DEFINE joined == [gs[i] EXCEPT !.ids = Append(@, h.id)]
      <4>1. Belongs(h, s, gs[i].pattern) /\ gs[i] \in Groups
        BY <1>2, <1>5, <3>2
      <4>2. joined \in Groups /\ joined.pattern = gs[i].pattern /\ GroupAgrees(s, r, joined)
        BY <3>1, <4>1, JoinedGroup
      <4> HIDE DEF joined
      <4>3. new(i) = joined
        BY <3>2 DEF joined
      <4> QED
        BY <4>2, <4>3
    <3>3. CASE gs[i].pattern # p
      BY <1>2, <1>5, <3>1, <3>3, ForeignHook
    <3> QED
      BY <3>2, <3>3
  <2> HIDE DEF new, after, r
  <2>3. after \in Seq(Groups)
    <3>1. Len(gs) \in Nat /\ DOMAIN gs = 1..Len(gs)
      OBVIOUS
    <3> QED
      BY <2>1, <2>2, <3>1
  <2>4. DOMAIN after = DOMAIN gs /\ \A i \in DOMAIN gs : after[i].pattern = gs[i].pattern
    BY <2>1, <2>2
  <2>5. Housed(s, r, after)
    <3>1. ASSUME NEW i \in DOMAIN r, Slot(r[i].def) = s
          PROVE  \E k \in DOMAIN after : after[k].pattern = r[i].def.pattern
      <4>1. CASE i \in DOMAIN hooks
        BY <1>3, <1>4, <2>4, <3>1, <4>1 DEF SlotAgrees, Housed
      <4>2. CASE i \notin DOMAIN hooks
        BY <1>3, <1>6, <2>4, <4>2 DEF p
      <4> QED
        BY <4>1, <4>2
    <3> QED
      BY <1>4, <2>4, <3>1 DEF SlotAgrees, Housed
  <2>6. \A i \in DOMAIN after : GroupAgrees(s, r, after[i])
    BY <2>1, <2>2
  <2>7. SlotAgrees(s, r, after)
    BY <2>5, <2>6 DEF SlotAgrees
  <2> QED
    BY <2>3, <2>7 DEF after, r, s, p
<1>7. CASE ~\E i \in DOMAIN gs : gs[i].pattern = p
  <2> DEFINE g == [pattern |-> p, ids |-> <<h.id>>]
  <2>1. after = Append(gs, g)
    BY <1>7 DEF Grouped
  <2>2. \A i \in DOMAIN hooks : ~Belongs(hooks[i], s, p)
    BY <1>4, <1>7 DEF SlotAgrees, Housed, Belongs
  <2>3. g \in Groups /\ GroupAgrees(s, r, g) /\ g.pattern = p
    BY <1>1, <1>2, <2>2, FoundedGroup
  <2>4. ASSUME NEW i \in DOMAIN gs PROVE GroupAgrees(s, r, gs[i])
    <3>1. GroupAgrees(s, hooks, gs[i]) /\ ~Belongs(h, s, gs[i].pattern)
      BY <1>2, <1>4, <1>7 DEF SlotAgrees
    <3> QED
      BY <1>5, <3>1, ForeignHook
  <2> HIDE DEF g, after, r
  <2>5. /\ after \in Seq(Groups)
        /\ DOMAIN gs \subseteq DOMAIN after /\ \A i \in DOMAIN gs : after[i] = gs[i]
        /\ \E n \in DOMAIN after : /\ n \notin DOMAIN gs /\ after[n] = g
                               /\ \A i \in DOMAIN after : i = n \/ (i \in DOMAIN gs /\ i < n)
    BY <2>1, <2>3, Appended
  <2>6. Housed(s, r, after)
    <3>1. ASSUME NEW i \in DOMAIN r, Slot(r[i].def) = s
          PROVE  \E k \in DOMAIN after : after[k].pattern = r[i].def.pattern
      <4>1. CASE i \in DOMAIN hooks
        <5>1. PICK k \in DOMAIN gs : gs[k].pattern = hooks[i].def.pattern
          BY <1>3, <1>4, <3>1, <4>1 DEF SlotAgrees, Housed
        <5> QED
          BY <1>3, <2>5, <4>1, <5>1
      <4>2. CASE i \notin DOMAIN hooks
        <5>1. r[i] = h
          BY <1>3, <4>2
        <5> QED
          BY <2>3, <2>5, <5>1 DEF p
      <4> QED
        BY <4>1, <4>2
    <3>2. ASSUME NEW i \in DOMAIN after, NEW j \in DOMAIN after, after[i].pattern = after[j].pattern
          PROVE  i = j
      <4>1. \A k \in DOMAIN after : after[k].pattern = p \/ k \in DOMAIN gs
        BY <2>3, <2>5
      <4> QED
        BY <1>4, <1>7, <2>3, <2>5, <3>2 DEF SlotAgrees, Housed
    <3> QED
      BY <3>1, <3>2 DEF Housed
  <2>7. \A i \in DOMAIN after : GroupAgrees(s, r, after[i])
    BY <2>3, <2>4, <2>5
  <2>8. SlotAgrees(s, r, after)
    BY <2>6, <2>7 DEF SlotAgrees
  <2> QED
    BY <2>5, <2>8 DEF after, r, s, p
<1> QED
  BY <1>6, <1>7

LEMMA AddAgrees ==
    ASSUME NEW m \in Managers, Agree(m), NEW d \in Defs, NEW id \in HookIds, id \notin Ids(m.hooks)
    PROVE  LET h == [id |-> id, def |-> d, enabled |-> TRUE]
           IN  /\ Add(m, d, id) \in Managers /\ Agree(Add(m, d, id))
               /\ h \in HookRecords
               /\ Add(m, d, id).hooks = Append(m.hooks, h)
               /\ Add(m, d, id).enabled = m.enabled /\ Add(m, d, id).filter = m.filter
<1> DEFINE h == [id |-> id, def |-> d, enabled |-> TRUE]
           s == Slot(d)
           gs == Grouped(m.groups[s], d.pattern, id)
           n == Add(m, d, id)
<1>1. h \in HookRecords /\ h.id = id /\ h.def = d
  BY DEF HookRecords
<1> HIDE DEF h
<1>2. /\ m.hooks \in Seq(HookRecords) /\ m.groups \in [Slots -> Seq(Groups)]
      /\ Unique(m.hooks) /\ \A t \in Slots : SlotAgrees(t, m.hooks, m.groups[t])
  BY DEF Managers, Agree
<1>3. s \in Slots
  BY SlotType
<1>4. gs \in Seq(Groups) /\ SlotAgrees(s, Append(m.hooks, h), gs)
  <2>1. m.groups[s] \in Seq(Groups) /\ SlotAgrees(s, m.hooks, m.groups[s])
    BY <1>2, <1>3
  <2> QED
    BY <1>1, <1>2, <2>1, GroupedAgrees
<1>5. n = [m EXCEPT !.hooks = Append(m.hooks, h), !.groups[s] = gs]
  BY DEF Add, h
<1> HIDE DEF gs, n, s
<1>6. n.hooks = Append(m.hooks, h) /\ n.groups = [m.groups EXCEPT ![s] = gs]
      /\ n.enabled = m.enabled /\ n.filter = m.filter
  BY <1>5 DEF Managers
<1>7. n \in Managers
  <2>1. Append(m.hooks, h) \in Seq(HookRecords) /\ [m.groups EXCEPT ![s] = gs] \in [Slots -> Seq(Groups)]
    BY <1>1, <1>2, <1>3, <1>4
  <2> QED
    BY <1>5, <2>1 DEF Managers
<1>8. Unique(n.hooks)
  BY <1>1, <1>2, <1>6, AppendedUnique
<1>9. ASSUME NEW t \in Slots PROVE SlotAgrees(t, n.hooks, n.groups[t])
  <2>1. CASE t = s
    BY <1>2, <1>3, <1>4, <1>6, <2>1
  <2>2. CASE t # s
    <3>1. n.groups[t] = m.groups[t] /\ m.groups[t] \in Seq(Groups) /\ SlotAgrees(t, m.hooks, m.groups[t])
      BY <1>2, <1>6, <2>2
    <3>2. \A p : ~Belongs(h, t, p)
      BY <1>1, <2>2 DEF Belongs, s
    <3>3. \A i \in DOMAIN m.groups[t] : GroupAgrees(t, n.hooks, m.groups[t][i])
      <4> SUFFICES ASSUME NEW i \in DOMAIN m.groups[t]
                   PROVE  GroupAgrees(t, n.hooks, m.groups[t][i])
        OBVIOUS
      <4>1. m.groups[t][i] \in Groups /\ GroupAgrees(t, m.hooks, m.groups[t][i])
        BY <3>1 DEF SlotAgrees
      <4> QED
        BY <1>1, <1>2, <1>6, <3>2, <4>1, ForeignHook
    <3>4. Housed(t, n.hooks, m.groups[t])
      <4>1. \A i \in DOMAIN n.hooks : n.hooks[i] = h \/ (i \in DOMAIN m.hooks /\ n.hooks[i] = m.hooks[i])
        BY <1>1, <1>2, <1>6, Appended
      <4>2. Slot(h.def) # t
        BY <1>1, <2>2 DEF s
      <4> QED
        BY <3>1, <4>1, <4>2 DEF SlotAgrees, Housed
    <3> QED
      BY <3>1, <3>3, <3>4 DEF SlotAgrees
  <2> QED
    BY <2>1, <2>2
<1>10. Agree(n)
  BY <1>8, <1>9 DEF Agree
<1> QED
  BY <1>1, <1>6, <1>7, <1>10 DEF n, h

-----------------------------------------------------------------------------
(* Hooks that go.                                                          *)

\* What is kept of the Map has its ids, and its order.
LEMMA KeptHooks ==
    ASSUME NEW hooks \in Seq(HookRecords), Unique(hooks), NEW at \in SUBSET (DOMAIN hooks)
    PROVE  LET r == Kept(hooks, at)
           IN  /\ r \in Seq(HookRecords) /\ Unique(r)
               /\ \A k \in DOMAIN r : \E i \in at : r[k] = hooks[i]
               /\ \A i \in at : \E k \in DOMAIN r : r[k] = hooks[i]
               /\ \A i, j \in at : Before(hooks, hooks[i].id, hooks[j].id)
                                        => Before(r, hooks[i].id, hooks[j].id)
<1> DEFINE r == Kept(hooks, at)
<1>1. /\ r \in Seq(HookRecords)
      /\ \A k \in DOMAIN r : \E i \in at : r[k] = hooks[i]
      /\ \A i \in at : \E k \in DOMAIN r : r[k] = hooks[i]
      /\ \A k, l \in DOMAIN r : k < l => \E i, j \in at : i < j /\ hooks[i] = r[k] /\ hooks[j] = r[l]
      /\ \A i, j \in at : i < j => \E k, l \in DOMAIN r : k < l /\ r[k] = hooks[i] /\ r[l] = hooks[j]
  BY KeptFacts
<1> HIDE DEF r
<1>2. DOMAIN r \subseteq Int /\ DOMAIN hooks \subseteq Int
  BY <1>1
<1>3. ASSUME NEW k \in DOMAIN r, NEW l \in DOMAIN r, k < l PROVE r[k].id # r[l].id
  <2>1. PICK i \in at, j \in at : i < j /\ hooks[i] = r[k] /\ hooks[j] = r[l]
    BY <1>1, <1>3
  <2> QED
    BY <1>2, <2>1 DEF Unique
<1>4. Unique(r)
  BY <1>2, <1>3 DEF Unique
<1>5. ASSUME NEW i \in at, NEW j \in at, Before(hooks, hooks[i].id, hooks[j].id)
      PROVE  Before(r, hooks[i].id, hooks[j].id)
  <2>1. i < j
    BY <1>5 DEF Before, Unique
  <2>2. PICK k \in DOMAIN r, l \in DOMAIN r : k < l /\ r[k] = hooks[i] /\ r[l] = hooks[j]
    BY <1>1, <2>1
  <2>3. r[k].id = hooks[i].id /\ r[l].id = hooks[j].id
    BY <2>2
  <2> QED
    BY <2>2, <2>3 DEF Before
<1> QED
  BY <1>1, <1>4, <1>5 DEF r

\* A group all of whose members stay.
LEMMA StayingGroup ==
    ASSUME NEW hooks \in Seq(HookRecords), Unique(hooks), NEW at \in SUBSET (DOMAIN hooks),
           NEW s, NEW g \in Groups, GroupAgrees(s, hooks, g),
           \A i \in DOMAIN hooks : Belongs(hooks[i], s, g.pattern) => i \in at
    PROVE  GroupAgrees(s, Kept(hooks, at), g)
<1> DEFINE r == Kept(hooks, at)
<1>1. /\ \A k \in DOMAIN r : \E i \in at : r[k] = hooks[i]
      /\ \A i \in at : \E k \in DOMAIN r : r[k] = hooks[i]
      /\ \A i, j \in at : Before(hooks, hooks[i].id, hooks[j].id)
                               => Before(r, hooks[i].id, hooks[j].id)
  BY KeptHooks
<1> HIDE DEF r
<1>2. \A k \in DOMAIN g.ids : \E i \in at : Belongs(hooks[i], s, g.pattern) /\ hooks[i].id = g.ids[k]
  BY DEF GroupAgrees, Listed
<1>3. \A k \in DOMAIN g.ids : \E i \in DOMAIN r : Belongs(r[i], s, g.pattern) /\ r[i].id = g.ids[k]
  BY <1>1, <1>2
<1>4. \A i \in DOMAIN r : Belongs(r[i], s, g.pattern) => \E k \in DOMAIN g.ids : r[i].id = g.ids[k]
  BY <1>1 DEF GroupAgrees, Listed
<1>5. ASSUME NEW a \in DOMAIN g.ids, NEW b \in DOMAIN g.ids, a < b PROVE Before(r, g.ids[a], g.ids[b])
  <2>1. PICK i \in at, j \in at : hooks[i].id = g.ids[a] /\ hooks[j].id = g.ids[b]
    BY <1>2
  <2>2. Before(hooks, hooks[i].id, hooks[j].id)
    BY <1>5, <2>1 DEF GroupAgrees, Listed
  <2> QED
    BY <1>1, <2>1, <2>2
<1>6. GroupAgrees(s, r, g)
  BY <1>3, <1>4, <1>5 DEF GroupAgrees, Listed
<1> QED
  BY <1>6 DEF r

\* A group that an id leaves.
LEMMA LeftGroup ==
    ASSUME NEW hooks \in Seq(HookRecords), Unique(hooks), NEW id,
           NEW s, NEW g \in Groups, Listed(s, hooks, g)
    PROVE  LET left == [g EXCEPT !.ids = Others(@, id)]
           IN  /\ left \in Groups /\ left.pattern = g.pattern
               /\ Listed(s, Without(hooks, {id}), left)
<1> DEFINE at == {i \in DOMAIN hooks : hooks[i].id \notin {id}}
           r == Kept(hooks, at)
           stay == {k \in DOMAIN g.ids : g.ids[k] # id}
           ids == Kept(g.ids, stay)
           left == [g EXCEPT !.ids = ids]
<1>0. at \in SUBSET (DOMAIN hooks) /\ stay \in SUBSET (DOMAIN g.ids)
  OBVIOUS
<1> HIDE DEF at, stay
<1>1. /\ \A k \in DOMAIN r : \E i \in at : r[k] = hooks[i]
      /\ \A i \in at : \E k \in DOMAIN r : r[k] = hooks[i]
      /\ \A i, j \in at : Before(hooks, hooks[i].id, hooks[j].id)
                               => Before(r, hooks[i].id, hooks[j].id)
  BY <1>0, KeptHooks
<1>2. g.ids \in Seq(HookIds) /\ g.pattern \in Patterns
  BY DEF Groups
<1>3. /\ ids \in Seq(HookIds)
      /\ \A k \in DOMAIN ids : \E i \in stay : ids[k] = g.ids[i]
      /\ \A i \in stay : \E k \in DOMAIN ids : ids[k] = g.ids[i]
      /\ \A k, l \in DOMAIN ids : k < l => \E i, j \in stay : i < j /\ g.ids[i] = ids[k] /\ g.ids[j] = ids[l]
  BY <1>0, <1>2, KeptFacts
<1> HIDE DEF r, ids
<1>4. left \in Groups /\ left.pattern = g.pattern /\ left.ids = ids
  BY <1>2, <1>3 DEF Groups
<1> HIDE DEF left
<1>5. ASSUME NEW k \in stay PROVE \E i \in at : Belongs(hooks[i], s, g.pattern) /\ hooks[i].id = g.ids[k]
  BY DEF Listed, at, stay
<1>6. ASSUME NEW k \in DOMAIN ids
      PROVE  \E i \in DOMAIN r : Belongs(r[i], s, g.pattern) /\ r[i].id = ids[k]
  <2>1. PICK j \in stay : ids[k] = g.ids[j]
    BY <1>3
  <2>2. PICK i \in at : Belongs(hooks[i], s, g.pattern) /\ hooks[i].id = g.ids[j]
    BY <1>5
  <2>3. PICK n \in DOMAIN r : r[n] = hooks[i]
    BY <1>1
  <2> QED
    BY <2>1, <2>2, <2>3
<1>7. ASSUME NEW i \in DOMAIN r, Belongs(r[i], s, g.pattern)
      PROVE  \E k \in DOMAIN ids : r[i].id = ids[k]
  <2>1. PICK j \in at : r[i] = hooks[j]
    BY <1>1
  <2>2. PICK k \in DOMAIN g.ids : hooks[j].id = g.ids[k]
    BY <1>0, <1>7, <2>1 DEF Listed
  <2>3. k \in stay
    BY <2>1, <2>2 DEF at, stay
  <2> QED
    BY <1>3, <2>1, <2>2, <2>3
<1>8. ASSUME NEW a \in DOMAIN ids, NEW b \in DOMAIN ids, a < b PROVE Before(r, ids[a], ids[b])
  <2>1. PICK i \in stay, j \in stay : i < j /\ g.ids[i] = ids[a] /\ g.ids[j] = ids[b]
    BY <1>3, <1>8
  <2>2. Before(hooks, g.ids[i], g.ids[j])
    BY <1>0, <2>1 DEF Listed
  <2>3. PICK x \in at : hooks[x].id = g.ids[i]
    BY <1>5
  <2>4. PICK y \in at : hooks[y].id = g.ids[j]
    BY <1>5
  <2>5. Before(r, hooks[x].id, hooks[y].id)
    BY <1>1, <2>2, <2>3, <2>4
  <2> QED
    BY <2>1, <2>3, <2>4, <2>5
<1>9. Listed(s, r, left)
  BY <1>4, <1>6, <1>7, <1>8 DEF Listed
<1>10. Without(hooks, {id}) = r /\ [g EXCEPT !.ids = Others(@, id)] = left
  BY DEF Without, Others, r, ids, left, at, stay
<1> QED
  BY <1>4, <1>9, <1>10

\* Groups that are kept, of those that list a Map, so that nobody who is left
\* in it loses its group.
LEMMA KeptGroups ==
    ASSUME NEW s, NEW hooks, NEW gs \in Seq(Groups), NEW at \in SUBSET (DOMAIN gs),
           \A i \in at : GroupAgrees(s, hooks, gs[i]),
           \A i \in DOMAIN hooks :
                Slot(hooks[i].def) = s => \E k \in at : gs[k].pattern = hooks[i].def.pattern,
           \A i, j \in DOMAIN gs : gs[i].pattern = gs[j].pattern => i = j
    PROVE  Kept(gs, at) \in Seq(Groups) /\ SlotAgrees(s, hooks, Kept(gs, at))
<1> DEFINE r == Kept(gs, at)
<1>1. /\ r \in Seq(Groups)
      /\ \A k \in DOMAIN r : \E i \in at : r[k] = gs[i]
      /\ \A i \in at : \E k \in DOMAIN r : r[k] = gs[i]
      /\ \A k, l \in DOMAIN r : k < l => \E i, j \in at : i < j /\ gs[i] = r[k] /\ gs[j] = r[l]
  BY KeptFacts
<1> HIDE DEF r
<1>2. DOMAIN r \subseteq Int /\ DOMAIN gs \subseteq Int
  BY <1>1
<1>3. ASSUME NEW k \in DOMAIN r, NEW l \in DOMAIN r, k < l PROVE r[k].pattern # r[l].pattern
  <2>1. PICK i \in at, j \in at : i < j /\ gs[i] = r[k] /\ gs[j] = r[l]
    BY <1>1, <1>3
  <2> QED
    BY <1>2, <2>1
<1>4. \A k, l \in DOMAIN r : r[k].pattern = r[l].pattern => k = l
  BY <1>2, <1>3
<1>5. \A i \in DOMAIN hooks : Slot(hooks[i].def) = s =>
            \E k \in DOMAIN r : r[k].pattern = hooks[i].def.pattern
  BY <1>1
<1>6. \A k \in DOMAIN r : GroupAgrees(s, hooks, r[k])
  BY <1>1
<1>7. SlotAgrees(s, hooks, r)
  BY <1>4, <1>5, <1>6 DEF SlotAgrees, Housed
<1> QED
  BY <1>1, <1>7 DEF r

LEMMA DropAgrees ==
    ASSUME NEW m \in Managers, Agree(m), NEW k0 \in DOMAIN m.hooks
    PROVE  LET n == Drop(m, m.hooks[k0].id)
           IN  /\ n \in Managers /\ Agree(n) /\ n.hooks = Without(m.hooks, {m.hooks[k0].id})
               /\ n.enabled = m.enabled /\ n.filter = m.filter
<1> DEFINE id == m.hooks[k0].id
           s == Slot(m.hooks[k0].def)
           gs == m.groups[s]
           at == {i \in DOMAIN m.hooks : m.hooks[i].id \notin {id}}
           r == Without(m.hooks, {id})
           new(i) == [gs[i] EXCEPT !.ids = Others(@, id)]
           rest == [i \in DOMAIN gs |-> new(i)]
           full == {i \in DOMAIN rest : rest[i].ids # <<>>}
           after == Kept(rest, full)
           n == Drop(m, id)
<1>1. /\ m.hooks \in Seq(HookRecords) /\ m.groups \in [Slots -> Seq(Groups)]
      /\ Unique(m.hooks) /\ \A t \in Slots : SlotAgrees(t, m.hooks, m.groups[t])
  BY DEF Managers, Agree
<1>2. m.hooks[k0] \in HookRecords /\ m.hooks[k0].def \in Defs /\ s \in Slots
  <2>1. m.hooks[k0] \in HookRecords
    BY <1>1
  <2>2. m.hooks[k0].def \in Defs
    BY <2>1 DEF HookRecords
  <2> QED
    BY <2>1, <2>2, SlotType
<1>3. Hook(m, id) = m.hooks[k0]
  BY <1>1 DEF Hook, Unique
<1>4. r = Kept(m.hooks, at) /\ at \in SUBSET (DOMAIN m.hooks)
  BY DEF Without
<1> HIDE DEF at, r
<1>5. /\ r \in Seq(HookRecords) /\ Unique(r)
      /\ \A k \in DOMAIN r : \E i \in at : r[k] = m.hooks[i]
  BY <1>1, <1>4, KeptHooks
<1>6. n = [m EXCEPT !.hooks = r, !.groups[s] = after]
  BY <1>3 DEF Drop, Ungrouped, r
<1>7. gs \in Seq(Groups) /\ SlotAgrees(s, m.hooks, gs)
  BY <1>1, <1>2
<1>8. k0 \notin at
  BY DEF at
<1> HIDE DEF id, s, gs
<1>9. ASSUME NEW i \in DOMAIN gs
      PROVE  new(i) \in Groups /\ new(i).pattern = gs[i].pattern /\ Listed(s, r, new(i))
  <2>1. gs[i] \in Groups /\ Listed(s, m.hooks, gs[i])
    BY <1>7 DEF SlotAgrees, GroupAgrees
  <2> QED
    BY <1>1, <2>1, LeftGroup DEF r
<1> HIDE DEF new
<1>10. rest \in Seq(Groups) /\ DOMAIN rest = DOMAIN gs /\ \A i \in DOMAIN gs : rest[i] = new(i)
  <2>1. Len(gs) \in Nat /\ DOMAIN gs = 1..Len(gs)
    BY <1>7
  <2> QED
    BY <1>9, <2>1
<1> HIDE DEF rest
<1>11. \A i \in full : GroupAgrees(s, r, rest[i])
  BY <1>9, <1>10 DEF GroupAgrees
<1>12. \A i, j \in DOMAIN rest : rest[i].pattern = rest[j].pattern => i = j
  BY <1>7, <1>9, <1>10 DEF SlotAgrees, Housed
<1>13. ASSUME NEW i \in DOMAIN r, Slot(r[i].def) = s
       PROVE  \E k \in full : rest[k].pattern = r[i].def.pattern
  <2>1. PICK j \in at : r[i] = m.hooks[j]
    BY <1>5
  <2>2. PICK k \in DOMAIN gs : gs[k].pattern = m.hooks[j].def.pattern
    BY <1>4, <1>7, <1>13, <2>1 DEF SlotAgrees, Housed
  <2>3. new(k).pattern = r[i].def.pattern /\ Listed(s, r, new(k)) /\ new(k) \in Groups
    BY <1>9, <2>1, <2>2
  <2>4. \E x \in DOMAIN new(k).ids : r[i].id = new(k).ids[x]
    BY <1>13, <2>3 DEF Listed, Belongs
  <2>5. new(k).ids # <<>>
    BY <2>4
  <2>6. k \in full
    BY <1>10, <2>5
  <2> QED
    BY <1>10, <2>3, <2>6
<1>14. after \in Seq(Groups) /\ SlotAgrees(s, r, after)
  BY <1>10, <1>11, <1>12, <1>13, KeptGroups
<1>15. ASSUME NEW t \in Slots, t # s PROVE SlotAgrees(t, r, m.groups[t])
  <2>1. m.groups[t] \in Seq(Groups) /\ SlotAgrees(t, m.hooks, m.groups[t])
    BY <1>1
  <2>2. \A i \in DOMAIN m.hooks : \A p : Belongs(m.hooks[i], t, p) => i \in at
    BY <1>1, <1>15 DEF Belongs, s, id, Unique, at
  <2>3. \A i \in DOMAIN m.groups[t] : GroupAgrees(t, r, m.groups[t][i])
    <3> SUFFICES ASSUME NEW i \in DOMAIN m.groups[t]
                 PROVE  GroupAgrees(t, r, m.groups[t][i])
      OBVIOUS
    <3>1. m.groups[t][i] \in Groups /\ GroupAgrees(t, m.hooks, m.groups[t][i])
      BY <2>1 DEF SlotAgrees
    <3> QED
      BY <1>1, <1>4, <2>2, <3>1, StayingGroup
  <2>4. Housed(t, r, m.groups[t])
    BY <1>4, <1>5, <2>1 DEF SlotAgrees, Housed
  <2> QED
    BY <2>3, <2>4 DEF SlotAgrees
<1> HIDE DEF after, n
<1>16. /\ n.hooks = r /\ n.groups = [m.groups EXCEPT ![s] = after]
       /\ n.enabled = m.enabled /\ n.filter = m.filter
  BY <1>6 DEF Managers
<1>17. n \in Managers
  <2>1. [m.groups EXCEPT ![s] = after] \in [Slots -> Seq(Groups)]
    BY <1>1, <1>2, <1>14
  <2> QED
    BY <1>5, <1>6, <2>1 DEF Managers
<1>18. ASSUME NEW t \in Slots PROVE SlotAgrees(t, n.hooks, n.groups[t])
  <2>1. n.groups[t] = IF t = s THEN after ELSE m.groups[t]
    BY <1>1, <1>16
  <2> QED
    BY <1>14, <1>15, <1>16, <2>1
<1>19. Agree(n)
  BY <1>5, <1>16, <1>18 DEF Agree
<1> QED
  BY <1>16, <1>17, <1>19 DEF n, r, id

\* A filter selects through the groups what it means in the Map.
LEMMA SelectedAreMeant ==
    ASSUME NEW m \in Managers, Agree(m), NEW type, NEW pattern, NEW i \in DOMAIN m.hooks
    PROVE  m.hooks[i].id \in Selected(m, type, pattern) <=> Meant(m.hooks[i], type, pattern)
<1> DEFINE h == m.hooks[i]
           s == Slot(h.def)
<1>1. /\ m.hooks \in Seq(HookRecords) /\ m.groups \in [Slots -> Seq(Groups)]
      /\ Unique(m.hooks) /\ \A t \in Slots : SlotAgrees(t, m.hooks, m.groups[t])
  BY DEF Managers, Agree
<1>2. h \in HookRecords /\ s \in Slots
  <2>1. h \in HookRecords
    BY <1>1
  <2> QED
    BY <2>1, SlotType DEF HookRecords
<1>3. Meant(h, type, pattern) <=> Fits(s, h.def.pattern, type, pattern)
  BY DEF Meant, Fits, Slot
<1>4. h.id \in Ids(m.hooks)
  BY DEF Ids
<1> HIDE DEF s
<1>5. ASSUME h.id \in Selected(m, type, pattern) PROVE Fits(s, h.def.pattern, type, pattern)
  <2>1. PICK t \in Slots : \E k \in DOMAIN m.groups[t] :
            Fits(t, m.groups[t][k].pattern, type, pattern) /\ h.id \in ToSet(m.groups[t][k].ids)
    BY <1>5 DEF Selected
  <2>2. PICK k \in DOMAIN m.groups[t] :
            Fits(t, m.groups[t][k].pattern, type, pattern) /\ h.id \in ToSet(m.groups[t][k].ids)
    BY <2>1
  <2>3. PICK x \in DOMAIN m.groups[t][k].ids : m.groups[t][k].ids[x] = h.id
    BY <2>2 DEF ToSet
  <2>4. Listed(t, m.hooks, m.groups[t][k])
    BY <1>1 DEF SlotAgrees, GroupAgrees
  <2>5. PICK j \in DOMAIN m.hooks :
            Belongs(m.hooks[j], t, m.groups[t][k].pattern) /\ m.hooks[j].id = m.groups[t][k].ids[x]
    BY <2>4 DEF Listed
  <2>6. j = i
    BY <1>1, <2>3, <2>5 DEF Unique
  <2> QED
    BY <2>2, <2>5, <2>6 DEF Belongs, s
<1>6. ASSUME Fits(s, h.def.pattern, type, pattern) PROVE h.id \in Selected(m, type, pattern)
  <2>1. PICK k \in DOMAIN m.groups[s] : m.groups[s][k].pattern = h.def.pattern
    BY <1>1, <1>2 DEF SlotAgrees, Housed, s
  <2>2. Listed(s, m.hooks, m.groups[s][k])
    BY <1>1, <1>2 DEF SlotAgrees, GroupAgrees
  <2>3. Belongs(h, s, m.groups[s][k].pattern)
    BY <2>1 DEF Belongs, s
  <2>4. PICK x \in DOMAIN m.groups[s][k].ids : h.id = m.groups[s][k].ids[x]
    BY <2>2, <2>3 DEF Listed
  <2>5. h.id \in ToSet(m.groups[s][k].ids)
    BY <2>4 DEF ToSet
  <2> QED
    BY <1>2, <1>4, <1>6, <2>1, <2>5 DEF Selected
<1> QED
  BY <1>3, <1>5, <1>6

\* remove() by filter: whole groups, and the same hooks of the Map.
LEMMA DropAllAgrees ==
    ASSUME NEW m \in Managers, Agree(m), NEW type, NEW pattern
    PROVE  LET n == DropAll(m, type, pattern)
           IN  /\ n \in Managers /\ Agree(n)
               /\ n.hooks = Unmeant(m.hooks, type, pattern)
               /\ n.enabled = m.enabled /\ n.filter = m.filter
<1> DEFINE at == {i \in DOMAIN m.hooks : ~Meant(m.hooks[i], type, pattern)}
           r == Kept(m.hooks, at)
           rest(s) == Unfit(s, m.groups[s], type, pattern)
           n == DropAll(m, type, pattern)
<1>1. /\ m.hooks \in Seq(HookRecords) /\ m.groups \in [Slots -> Seq(Groups)]
      /\ Unique(m.hooks) /\ \A t \in Slots : SlotAgrees(t, m.hooks, m.groups[t])
  BY DEF Managers, Agree
<1>2. Without(m.hooks, Selected(m, type, pattern)) = r
  <2>1. {i \in DOMAIN m.hooks : m.hooks[i].id \notin Selected(m, type, pattern)} = at
    BY SelectedAreMeant
  <2> QED
    BY <2>1 DEF Without
<1>3. at \in SUBSET (DOMAIN m.hooks)
  OBVIOUS
<1>4. \A i \in DOMAIN m.hooks : i \in at <=> ~Meant(m.hooks[i], type, pattern)
  OBVIOUS
<1> HIDE DEF at
<1>5. /\ r \in Seq(HookRecords) /\ Unique(r)
      /\ \A k \in DOMAIN r : \E i \in at : r[k] = m.hooks[i]
  BY <1>1, <1>3, KeptHooks
<1> HIDE DEF r
<1>6. ASSUME NEW s \in Slots
      PROVE  rest(s) \in Seq(Groups) /\ SlotAgrees(s, r, rest(s))
  <2> DEFINE gs == m.groups[s]
             keep == {i \in DOMAIN gs : ~Fits(s, gs[i].pattern, type, pattern)}
  <2>1. gs \in Seq(Groups) /\ SlotAgrees(s, m.hooks, gs)
    BY <1>1
  <2> HIDE DEF gs
  <2>2. \A i \in DOMAIN m.hooks : Slot(m.hooks[i].def) = s =>
            (i \in at <=> ~Fits(s, m.hooks[i].def.pattern, type, pattern))
    BY <1>4 DEF Meant, Fits, Slot
  <2>3. ASSUME NEW i \in keep PROVE GroupAgrees(s, r, gs[i])
    <3>1. gs[i] \in Groups /\ GroupAgrees(s, m.hooks, gs[i])
      BY <2>1 DEF SlotAgrees
    <3>2. \A j \in DOMAIN m.hooks : Belongs(m.hooks[j], s, gs[i].pattern) => j \in at
      BY <2>2 DEF Belongs
    <3> QED
      BY <1>1, <1>3, <3>1, <3>2, StayingGroup DEF r
  <2>4. ASSUME NEW i \in DOMAIN r, Slot(r[i].def) = s
        PROVE  \E k \in keep : gs[k].pattern = r[i].def.pattern
    <3>1. PICK j \in at : r[i] = m.hooks[j]
      BY <1>5
    <3>2. PICK k \in DOMAIN gs : gs[k].pattern = m.hooks[j].def.pattern
      BY <1>3, <2>1, <2>4, <3>1 DEF SlotAgrees, Housed
    <3>3. ~Fits(s, gs[k].pattern, type, pattern)
      BY <1>3, <2>2, <2>4, <3>1, <3>2
    <3> QED
      BY <3>1, <3>2, <3>3
  <2>5. \A i, j \in DOMAIN gs : gs[i].pattern = gs[j].pattern => i = j
    BY <2>1 DEF SlotAgrees, Housed
  <2>6. keep \in SUBSET (DOMAIN gs)
    OBVIOUS
  <2>7. rest(s) = Kept(gs, keep)
    BY DEF Unfit, gs
  <2> HIDE DEF keep, rest
  <2>8. gs \in Seq(Groups)
    BY <2>1
  <2>9. \A i \in keep : GroupAgrees(s, r, gs[i])
    BY <2>3
  <2>10. \A i \in DOMAIN r : Slot(r[i].def) = s =>
                \E k \in keep : gs[k].pattern = r[i].def.pattern
    BY <2>4
  <2>11. Kept(gs, keep) \in Seq(Groups) /\ SlotAgrees(s, r, Kept(gs, keep))
    BY <2>5, <2>6, <2>8, <2>9, <2>10, KeptGroups
  <2> QED
    BY <2>7, <2>11
<1>7. n = [m EXCEPT !.hooks = r, !.groups = [s \in Slots |-> rest(s)]]
  BY <1>2 DEF DropAll
<1> HIDE DEF n, rest
<1>8. /\ n.hooks = r /\ n.groups = [s \in Slots |-> rest(s)]
      /\ n.enabled = m.enabled /\ n.filter = m.filter
  BY <1>7 DEF Managers
<1>9. n \in Managers
  <2>1. [s \in Slots |-> rest(s)] \in [Slots -> Seq(Groups)]
    BY <1>6
  <2> QED
    BY <1>5, <1>7, <2>1 DEF Managers
<1>10. Agree(n)
  BY <1>5, <1>6, <1>8 DEF Agree
<1> QED
  BY <1>8, <1>9, <1>10 DEF n, r, at, Unmeant

-----------------------------------------------------------------------------
(* Switches.                                                               *)

\* The indexes are about ids and definitions only.
LEMMA SameShape ==
    ASSUME NEW m \in Managers, Agree(m), NEW n \in Managers, n.groups = m.groups,
           DOMAIN n.hooks = DOMAIN m.hooks,
           \A i \in DOMAIN m.hooks : n.hooks[i].id = m.hooks[i].id /\ n.hooks[i].def = m.hooks[i].def
    PROVE  Agree(n)
<1>1. Unique(n.hooks)
  BY DEF Agree, Unique
<1>2. ASSUME NEW x, NEW y, Before(m.hooks, x, y) PROVE Before(n.hooks, x, y)
  BY <1>2 DEF Before
<1>3. \A i \in DOMAIN m.hooks : \A s, p : Belongs(n.hooks[i], s, p) <=> Belongs(m.hooks[i], s, p)
  BY DEF Belongs
<1>4. ASSUME NEW s \in Slots PROVE SlotAgrees(s, n.hooks, n.groups[s])
  <2>1. SlotAgrees(s, m.hooks, m.groups[s])
    BY DEF Agree
  <2>2. Housed(s, n.hooks, m.groups[s])
    BY <2>1 DEF SlotAgrees, Housed
  <2>3. ASSUME NEW i \in DOMAIN m.groups[s] PROVE GroupAgrees(s, n.hooks, m.groups[s][i])
    <3>1. GroupAgrees(s, m.hooks, m.groups[s][i])
      BY <2>1 DEF SlotAgrees
    <3> QED
      BY <1>2, <1>3, <3>1 DEF GroupAgrees, Listed
  <2> QED
    BY <2>2, <2>3 DEF SlotAgrees
<1> QED
  BY <1>1, <1>4 DEF Agree

LEMMA SwitchAgrees ==
    ASSUME NEW m \in Managers, Agree(m), NEW ids, NEW on \in BOOLEAN
    PROVE  LET n == Switch(m, ids, on)
           IN  /\ n \in Managers /\ Agree(n)
               /\ n.hooks = Switched(m.hooks, ids, on)
               /\ n.enabled = m.enabled /\ n.filter = m.filter
<1> DEFINE new(i) == IF m.hooks[i].id \in ids THEN [m.hooks[i] EXCEPT !.enabled = on]
                     ELSE m.hooks[i]
           r == Switched(m.hooks, ids, on)
           n == Switch(m, ids, on)
<1>1. m.hooks \in Seq(HookRecords)
  BY DEF Managers
<1>2. ASSUME NEW i \in DOMAIN m.hooks
      PROVE  new(i) \in HookRecords /\ new(i).id = m.hooks[i].id /\ new(i).def = m.hooks[i].def
  <2>1. m.hooks[i] \in HookRecords
    BY <1>1
  <2>2. CASE m.hooks[i].id \in ids
    <3>1. new(i) = [m.hooks[i] EXCEPT !.enabled = on]
      BY <2>2
    <3> HIDE DEF new
    <3> QED
      BY <2>1, <3>1 DEF HookRecords
  <2>3. CASE m.hooks[i].id \notin ids
    <3>1. new(i) = m.hooks[i]
      BY <2>3
    <3> HIDE DEF new
    <3> QED
      BY <2>1, <3>1
  <2> QED
    BY <2>2, <2>3
<1>3. n = [m EXCEPT !.hooks = r]
  BY DEF Switch
<1>0. r = [i \in DOMAIN m.hooks |-> new(i)]
  BY DEF Switched
<1>4. r \in Seq(HookRecords)
  <2>1. Len(m.hooks) \in Nat /\ DOMAIN m.hooks = 1..Len(m.hooks)
    BY <1>1
  <2> HIDE DEF new, r
  <2> QED
    BY <1>0, <1>2, <2>1
<1> HIDE DEF n, new, r
<1>5. DOMAIN r = DOMAIN m.hooks /\ \A i \in DOMAIN m.hooks : r[i] = new(i)
  BY <1>0
<1>6. /\ n.hooks = r /\ n.groups = m.groups
      /\ n.enabled = m.enabled /\ n.filter = m.filter
  BY <1>3 DEF Managers
<1>7. n \in Managers
  BY <1>3, <1>4 DEF Managers
<1>8. Agree(n)
  BY <1>2, <1>5, <1>6, <1>7, SameShape
<1> QED
  BY <1>6, <1>7, <1>8 DEF n, r

LEMMA FreshAgrees ==
    Fresh \in Managers /\ Agree(Fresh) /\ Fresh.hooks = <<>>
<1>1. /\ Fresh.hooks = <<>> /\ Fresh.groups = [s \in Slots |-> <<>>]
      /\ Fresh.enabled = TRUE /\ Fresh.filter = {} /\ Fresh.counter = 0
  BY DEF Fresh
<1>2. <<>> \in Seq(HookRecords) /\ [s \in Slots |-> <<>>] \in [Slots -> Seq(Groups)]
  OBVIOUS
<1>3. Fresh \in Managers
  BY <1>2 DEF Fresh, Managers
<1>4. Unique(<<>>)
  BY DEF Unique
<1>5. ASSUME NEW s \in Slots PROVE SlotAgrees(s, <<>>, <<>>)
  BY DEF SlotAgrees, Housed
<1>6. Agree(Fresh)
  BY <1>1, <1>4, <1>5 DEF Agree
<1> QED
  BY <1>1, <1>3, <1>6

-----------------------------------------------------------------------------
(* The import.                                                             *)

LEMMA Smallest ==
    ASSUME NEW T \in SUBSET Nat, T # {}
    PROVE  \E n \in T : \A k \in T : n <= k
<1>1. PICK n \in T : \A k \in T : <<k, n>> \notin OpToRel(<, Nat)
  BY NatLessThanWellFounded, WFMin
<1>2. \A k \in T : ~(k < n)
  BY <1>1 DEF OpToRel
<1> QED
  BY <1>2

ImportOne(m, h) == Switch(Add(m, h.def, h.id), {h.id}, h.enabled)

\* on() under the old id, then disable() if it was off.
LEMMA ImportOneAgrees ==
    ASSUME NEW m \in Managers, Agree(m), NEW h \in HookRecords, h.id \notin Ids(m.hooks)
    PROVE  LET n == ImportOne(m, h)
           IN  n \in Managers /\ Agree(n) /\ n.hooks = Append(m.hooks, h)
<1> DEFINE on == [id |-> h.id, def |-> h.def, enabled |-> TRUE]
           a == Add(m, h.def, h.id)
           n == ImportOne(m, h)
<1>1. h.def \in Defs /\ h.id \in HookIds /\ h.enabled \in BOOLEAN /\ m.hooks \in Seq(HookRecords)
  BY DEF HookRecords, Managers
<1>2. a \in Managers /\ Agree(a) /\ on \in HookRecords /\ a.hooks = Append(m.hooks, on)
  BY <1>1, AddAgrees
<1> DEFINE new(i) == IF a.hooks[i].id \in {h.id} THEN [a.hooks[i] EXCEPT !.enabled = h.enabled]
                     ELSE a.hooks[i]
<1>3. n \in Managers /\ Agree(n) /\ n.hooks = [i \in DOMAIN a.hooks |-> new(i)]
  <2> HIDE DEF a
  <2>1. n = Switch(a, {h.id}, h.enabled)
    BY DEF ImportOne, a
  <2>2. n \in Managers /\ Agree(n) /\ n.hooks = Switched(a.hooks, {h.id}, h.enabled)
    BY <1>1, <1>2, <2>1, SwitchAgrees
  <2> QED
    BY <2>2 DEF Switched
<1> HIDE DEF n, a
<1>4. [on EXCEPT !.enabled = h.enabled] = h
  <2>1. h = [id |-> h.id, def |-> h.def, enabled |-> h.enabled]
    BY DEF HookRecords
  <2>2. [on EXCEPT !.enabled = h.enabled] = [id |-> h.id, def |-> h.def, enabled |-> h.enabled]
    OBVIOUS
  <2> QED
    BY <2>1, <2>2
<1>5. on.id = h.id
  OBVIOUS
<1> HIDE DEF on
<1>6. /\ Len(a.hooks) = Len(m.hooks) + 1 /\ Len(m.hooks) \in Nat
      /\ DOMAIN a.hooks = 1..(Len(m.hooks) + 1)
      /\ \A i \in 1..Len(m.hooks) : a.hooks[i] = m.hooks[i]
      /\ a.hooks[Len(m.hooks) + 1] = on
  BY <1>1, <1>2, AppendProperties
<1>7. \A i \in 1..Len(m.hooks) : m.hooks[i].id # h.id
  BY <1>1 DEF Ids
<1>8. /\ \A i \in 1..Len(m.hooks) : new(i) = m.hooks[i]
      /\ new(Len(m.hooks) + 1) = h
  BY <1>4, <1>5, <1>6, <1>7
<1> HIDE DEF new
<1>9. n.hooks = Append(m.hooks, h)
  <2> DEFINE r == Append(m.hooks, h)
  <2>1. /\ DOMAIN r = 1..(Len(m.hooks) + 1)
        /\ \A i \in 1..Len(m.hooks) : r[i] = m.hooks[i]
        /\ r[Len(m.hooks) + 1] = h
        /\ r = [i \in DOMAIN r |-> r[i]]
    BY <1>1, AppendProperties
  <2> HIDE DEF r
  <2>2. \A i \in 1..(Len(m.hooks) + 1) : new(i) = r[i]
    <3>1. \A i \in 1..(Len(m.hooks) + 1) : i \in 1..Len(m.hooks) \/ i = Len(m.hooks) + 1
      BY <1>6
    <3> QED
      BY <1>8, <2>1, <3>1
  <2>3. n.hooks = r
    BY <1>3, <1>6, <2>1, <2>2
  <2> QED
    BY <2>3 DEF r
<1> QED
  BY <1>3, <1>9 DEF n

\* The managers that an import goes through, as far as it finds no id taken.
LEMMA ImportSteps ==
    ASSUME NEW m \in Managers, Agree(m), NEW hs \in Seq(HookRecords), Unique(hs),
           NEW n \in 0..Len(hs), \A i \in 1..n : hs[i].id \notin Ids(m.hooks)
    PROVE  \E f : /\ f = [i \in 0..n |-> IF i = 0 THEN m ELSE ImportOne(f[i - 1], hs[i])]
                  /\ f[n] \in Managers /\ Agree(f[n])
                  /\ m.hooks = <<>> /\ n = Len(hs) => f[n].hooks = hs
<1> DEFINE Steps(f, k) == f = [i \in 0..k |-> IF i = 0 THEN m ELSE ImportOne(f[i - 1], hs[i])]
           Good(x, k) == /\ x \in Managers /\ Agree(x)
                         /\ \A i \in (k + 1)..n : hs[i].id \notin Ids(x.hooks)
                         /\ m.hooks = <<>> => /\ Len(x.hooks) = k
                                              /\ \A i \in 1..k : x.hooks[i] = hs[i]
           bad == {k \in 0..n : ~\E f : Steps(f, k) /\ Good(f[k], k)}
<1>1. /\ Len(hs) \in Nat /\ DOMAIN hs = 1..Len(hs) /\ n \in Nat /\ n <= Len(hs)
      /\ \A i \in 1..n : hs[i] \in HookRecords
  OBVIOUS
<1>2. bad = {}
  <2> SUFFICES ASSUME bad # {} PROVE FALSE
    OBVIOUS
  <2>1. PICK k \in bad : \A j \in bad : k <= j
    <3>1. bad \in SUBSET Nat
      OBVIOUS
    <3> HIDE DEF bad
    <3> QED
      BY <3>1, Smallest
  <2>2. k \in 0..n /\ ~\E f : Steps(f, k) /\ Good(f[k], k)
    OBVIOUS
  <2>3. CASE k = 0
    <3> DEFINE f == [i \in 0..0 |-> m]
    <3>1. f[0] = m
      OBVIOUS
    <3>2. Steps(f, 0)
      OBVIOUS
    <3> HIDE DEF f
    <3>3. Good(f[0], 0)
      BY <3>1, <1>1
    <3> QED
      BY <2>2, <2>3, <3>2, <3>3
  <2>4. CASE k # 0
    <3>0. k - 1 \in 0..n /\ k \in 1..n /\ ~(k <= k - 1)
      BY <1>1, <2>2, <2>4
    <3>1. k - 1 \in 0..n /\ k \in 1..n /\ k - 1 \notin bad
      <4> HIDE DEF bad
      <4> QED
        BY <2>1, <3>0
    <3>2. PICK f : Steps(f, k - 1) /\ Good(f[k - 1], k - 1)
      BY <3>1
    <3> DEFINE x == f[k - 1]
               y == ImportOne(x, hs[k])
               g == [i \in 0..k |-> IF i = k THEN y ELSE f[i]]
    <3>3. Good(x, k - 1) /\ hs[k].id \notin Ids(x.hooks) /\ hs[k] \in HookRecords
      <4>1. k \in ((k - 1) + 1)..n
        BY <3>1
      <4> QED
        BY <1>1, <3>1, <3>2, <4>1
    <3>4. y \in Managers /\ Agree(y) /\ y.hooks = Append(x.hooks, hs[k])
      BY <3>3, ImportOneAgrees
    <3>5. g[k] = y /\ \A i \in 0..(k - 1) : g[i] = f[i]
      BY <3>1
    <3>6. \A i \in 0..k : g[i] = IF i = 0 THEN m ELSE ImportOne(g[i - 1], hs[i])
      <4>1. g[k] = ImportOne(g[k - 1], hs[k]) /\ k # 0
        BY <3>1, <3>5
      <4>2. ASSUME NEW i \in 0..(k - 1)
            PROVE  g[i] = IF i = 0 THEN m ELSE ImportOne(g[i - 1], hs[i])
        <5> HIDE DEF g, y
        <5>1. f[i] = IF i = 0 THEN m ELSE ImportOne(f[i - 1], hs[i])
          BY <3>2
        <5>2. g[i] = f[i] /\ (i # 0 => g[i - 1] = f[i - 1])
          BY <3>1, <3>5
        <5> QED
          BY <5>1, <5>2
      <4>3. \A i \in 0..k : i = k \/ i \in 0..(k - 1)
        BY <3>1
      <4> HIDE DEF g, y
      <4> QED
        BY <4>1, <4>2, <4>3
    <3>7. Steps(g, k)
      <4>1. g = [i \in 0..k |-> g[i]]
        OBVIOUS
      <4> HIDE DEF g
      <4> QED
        BY <3>6, <4>1
    <3>8. Good(y, k)
      <4> HIDE DEF y, x
      <4>1. x.hooks \in Seq(HookRecords) /\ Len(x.hooks) \in Nat
        BY <3>3 DEF Managers
      <4>2. /\ Len(y.hooks) = Len(x.hooks) + 1
            /\ DOMAIN y.hooks = 1..(Len(x.hooks) + 1)
            /\ \A i \in 1..Len(x.hooks) : y.hooks[i] = x.hooks[i]
            /\ y.hooks[Len(x.hooks) + 1] = hs[k]
        BY <3>3, <3>4, <4>1, AppendProperties
      <4>3. ASSUME NEW i \in (k + 1)..n PROVE hs[i].id \notin Ids(y.hooks)
        <5>1. hs[i].id \notin Ids(x.hooks) /\ hs[i].id # hs[k].id
          <6>1. i \in ((k - 1) + 1)..n /\ i # k /\ i \in DOMAIN hs /\ k \in DOMAIN hs
            BY <1>1, <3>1
          <6> QED
            BY <3>3, <6>1 DEF Unique
        <5>2. \A j \in DOMAIN x.hooks : x.hooks[j].id # hs[i].id
          BY <5>1 DEF Ids
        <5>3. \A j \in DOMAIN y.hooks : y.hooks[j].id # hs[i].id
          <6>1. \A j \in DOMAIN y.hooks : j \in DOMAIN x.hooks \/ j = Len(x.hooks) + 1
            BY <4>1, <4>2
          <6>2. DOMAIN x.hooks = 1..Len(x.hooks)
            BY <4>1
          <6> QED
            BY <4>2, <5>1, <5>2, <6>1, <6>2
        <5> QED
          BY <5>3 DEF Ids
      <4>4. ASSUME m.hooks = <<>>
            PROVE  Len(y.hooks) = k /\ \A i \in 1..k : y.hooks[i] = hs[i]
        <5>1. Len(x.hooks) = k - 1 /\ \A i \in 1..(k - 1) : x.hooks[i] = hs[i]
          BY <3>3, <4>4
        <5>2. \A i \in 1..k : i = k \/ i \in 1..(k - 1)
          BY <3>1
        <5> QED
          BY <3>1, <4>2, <5>1, <5>2
      <4> QED
        BY <3>4, <4>3, <4>4
    <3> HIDE DEF g, y
    <3>9. Good(g[k], k)
      BY <3>5, <3>8
    <3> QED
      BY <2>2, <3>7, <3>9
  <2> QED
    BY <2>3, <2>4
<1>3. n \in 0..n
  BY <1>1
<1>4. PICK f : Steps(f, n) /\ Good(f[n], n)
  BY <1>2, <1>3
<1>5. ASSUME m.hooks = <<>>, n = Len(hs) PROVE f[n].hooks = hs
  <2>1. Len(f[n].hooks) = Len(hs) /\ \A i \in 1..Len(hs) : f[n].hooks[i] = hs[i]
    BY <1>4, <1>5
  <2>2. f[n].hooks \in Seq(HookRecords)
    BY <1>4 DEF Managers
  <2> QED
    BY <2>1, <2>2, SeqEqual
<1> QED
  BY <1>4, <1>5

LEMMA ImportedAgrees ==
    ASSUME NEW m \in Managers, Agree(m), NEW hs \in Seq(HookRecords), Unique(hs)
    PROVE  LET x == Imported(m, hs)
           IN  x \in Managers /\ Agree(x) /\ (m.hooks = <<>> => x.hooks = hs)
<1> DEFINE taken == {i \in DOMAIN hs : hs[i].id \in Ids(m.hooks)}
           n == IF taken = {} THEN Len(hs) ELSE (CHOOSE i \in taken : \A j \in taken : i <= j) - 1
           put[i \in 0..n] ==
               IF i = 0 THEN m
               ELSE LET h == hs[i] IN Switch(Add(put[i - 1], h.def, h.id), {h.id}, h.enabled)
           G(f) == [i \in 0..n |-> IF i = 0 THEN m ELSE ImportOne(f[i - 1], hs[i])]
<1>1. Imported(m, hs) = put[n]
  BY DEF Imported
<1>2. put = CHOOSE f : f = G(f)
  BY DEF ImportOne
<1>3. Len(hs) \in Nat /\ DOMAIN hs = 1..Len(hs)
  OBVIOUS
<1>4. n \in 0..Len(hs) /\ \A i \in 1..n : i \notin taken
  <2> HIDE DEF put, G
  <2>1. CASE taken = {}
    BY <1>3, <2>1
  <2>2. CASE taken # {}
    <3> DEFINE first == CHOOSE i \in taken : \A j \in taken : i <= j
    <3>1. taken \in SUBSET Nat /\ taken \subseteq 1..Len(hs)
      BY <1>3
    <3> HIDE DEF taken
    <3>2. \E i \in taken : \A j \in taken : i <= j
      BY <2>2, <3>1, Smallest
    <3>3. first \in taken /\ \A j \in taken : first <= j
      BY <3>2
    <3>4. n = first - 1
      BY <2>2
    <3> HIDE DEF first, n
    <3> QED
      BY <1>3, <3>1, <3>3, <3>4
  <2> QED
    BY <2>1, <2>2
<1>5. \A i \in 1..n : hs[i].id \notin Ids(m.hooks)
  <2> HIDE DEF n, put, G
  <2>1. \A i \in 1..n : i \in DOMAIN hs
    BY <1>3, <1>4
  <2> QED
    BY <1>4, <2>1
<1>6. m.hooks = <<>> => n = Len(hs)
  <2>1. m.hooks = <<>> => Ids(m.hooks) = {}
    BY DEF Ids
  <2> QED
    BY <2>1
<1> HIDE DEF n, taken, put
<1>7. PICK f : /\ f = G(f) /\ f[n] \in Managers /\ Agree(f[n])
               /\ m.hooks = <<>> /\ n = Len(hs) => f[n].hooks = hs
  BY <1>4, <1>5, ImportSteps
<1>8. \A g : g = G(g) => g[n] = f[n]
  <2> SUFFICES ASSUME NEW g, g = G(g) PROVE g[n] = f[n]
    OBVIOUS
  <2>1. n \in Nat
    BY <1>3, <1>4
  <2> DEFINE apart == {i \in 0..n : g[i] # f[i]}
  <2>2. apart = {}
    <3> SUFFICES ASSUME apart # {} PROVE FALSE
      OBVIOUS
    <3>1. PICK i \in apart : \A j \in apart : i <= j
      <4>1. apart \in SUBSET Nat
        BY <2>1
      <4> HIDE DEF apart
      <4> QED
        BY <4>1, Smallest
    <3>2. i \in 0..n /\ g[i] # f[i]
      OBVIOUS
    <3>3. /\ g[i] = IF i = 0 THEN m ELSE ImportOne(g[i - 1], hs[i])
          /\ f[i] = IF i = 0 THEN m ELSE ImportOne(f[i - 1], hs[i])
      BY <1>7, <3>2
    <3>4. i # 0
      BY <3>2, <3>3
    <3>5. i - 1 \in 0..n /\ ~(i <= i - 1)
      BY <2>1, <3>2, <3>4
    <3>6. g[i - 1] = f[i - 1]
      BY <3>1, <3>5
    <3> QED
      BY <3>2, <3>3, <3>6
  <2> QED
    BY <2>1, <2>2
<1> HIDE DEF G
<1>9. put = G(put)
  BY <1>2, <1>7
<1> QED
  BY <1>1, <1>6, <1>7, <1>8, <1>9

-----------------------------------------------------------------------------
(* The inductive invariant: both indexes of every manager agree, what was  *)
(* exported has no id twice, and as long as nothing interferes the hooks   *)
(* that the host may expect are those of the manager or, while that one is *)
(* replaced, those that were exported.                                     *)

Registered ==
    /\ mgr \in Seq(Managers) /\ mgr # <<>>
    /\ \A g \in DOMAIN mgr : Agree(mgr[g])

Bookkept ==
    /\ reload \in {"none", "loading", "loaded"}
    /\ saved \in Seq(HookRecords) /\ Unique(saved)
    /\ expected \in Seq(HookRecords)
    /\ clean \in BOOLEAN /\ changes \in 0..MaxChanges /\ reloads \in 0..MaxReloads

Expected ==
    clean => /\ reload # "none" => saved = expected
             /\ reload = "loaded" => Current.hooks = <<>>
             /\ reload # "loaded" => Current.hooks = expected

\* One manager for every load.
Counted ==
    /\ Len(mgr) <= reloads + 1
    /\ reload = "loading" => Len(mgr) <= reloads

HooksInv == Registered /\ Bookkept /\ Expected /\ Counted

LEMMA CurrentManager ==
    ASSUME Registered
    PROVE  Current \in Managers /\ Agree(Current) /\ Len(mgr) \in Nat /\ Len(mgr) \in DOMAIN mgr
<1>1. Len(mgr) \in Nat /\ DOMAIN mgr = 1..Len(mgr) /\ Len(mgr) # 0
  BY DEF Registered
<1>2. Len(mgr) \in DOMAIN mgr
  BY <1>1
<1> QED
  BY <1>1, <1>2 DEF Registered, Current

LEMMA SetCurrentEffect ==
    ASSUME Registered, NEW m \in Managers, Agree(m), SetCurrent(m)
    PROVE  Registered' /\ Current' = m /\ Len(mgr') = Len(mgr)
<1>1. Len(mgr) \in Nat /\ Len(mgr) \in DOMAIN mgr
  BY CurrentManager
<1>2. mgr' = [mgr EXCEPT ![Len(mgr)] = m]
  BY DEF SetCurrent
<1>3. mgr' \in Seq(Managers) /\ Len(mgr') = Len(mgr) /\ DOMAIN mgr' = DOMAIN mgr
  BY <1>1, <1>2 DEF Registered
<1>4. mgr' # <<>>
  BY <1>1, <1>3
<1>5. \A g \in DOMAIN mgr : mgr'[g] = IF g = Len(mgr) THEN m ELSE mgr[g]
  BY <1>2
<1>6. \A g \in DOMAIN mgr' : Agree(mgr'[g])
  BY <1>3, <1>5 DEF Registered
<1>7. Current' = m
  BY <1>1, <1>3, <1>5 DEF Current
<1> QED
  BY <1>3, <1>4, <1>6, <1>7 DEF Registered

\* What the host does to the current manager it does to what it expects.
LEMMA HostStep ==
    ASSUME HooksInv, NEW m \in Managers, Agree(m), SetCurrent(m), HostChange,
           expected' \in Seq(HookRecords),
           Current.hooks = expected => m.hooks = expected'
    PROVE  HooksInv'
<1>1. Registered' /\ Current' = m /\ Len(mgr') = Len(mgr)
  BY SetCurrentEffect DEF HooksInv
<1>2. /\ changes < MaxChanges /\ changes' = changes + 1
      /\ clean' = (clean /\ reload = "none")
      /\ reload' = reload /\ saved' = saved /\ reloads' = reloads
  BY DEF HostChange
<1>3. clean' \in BOOLEAN
  BY <1>2, Zenon DEF HooksInv, Bookkept
<1>4. changes' \in 0..MaxChanges
  BY <1>2, BoundsAssumption DEF HooksInv, Bookkept
<1>5. Bookkept'
  BY <1>2, <1>3, <1>4 DEF HooksInv, Bookkept, Unique
<1>6. clean' => clean /\ reload = "none"
  BY <1>2, Zenon
<1>7. Expected'
  BY <1>1, <1>2, <1>6 DEF HooksInv, Expected
<1>8. Counted'
  BY <1>1, <1>2 DEF HooksInv, Counted
<1> QED
  BY <1>1, <1>5, <1>7, <1>8 DEF HooksInv

\* Changing what is not a hook.
LEMMA SameHooks ==
    ASSUME NEW m \in Managers, Agree(m), NEW n \in Managers, n.groups = m.groups, n.hooks = m.hooks
    PROVE  Agree(n)
BY SameShape

LEMMA CountedOn ==
    ASSUME NEW m \in Managers, Agree(m)
    PROVE  LET n == [m EXCEPT !.counter = @ + 1]
           IN  n \in Managers /\ Agree(n) /\ n.hooks = m.hooks
<1> DEFINE k == m.counter + 1
           n == [m EXCEPT !.counter = k]
<1>0. k \in Nat
  BY DEF Managers
<1> HIDE DEF k
<1>1. n \in Managers /\ n.groups = m.groups /\ n.hooks = m.hooks
  BY <1>0 DEF Managers
<1> HIDE DEF n
<1>2. Agree(n)
  BY <1>1, SameHooks
<1> QED
  BY <1>1, <1>2 DEF n, k

LEMMA OnStep ==
    ASSUME HooksInv, NEW d \in Defs, NEW name \in Names \cup {NoName}, On(d, name)
    PROVE  HooksInv'
<1> DEFINE m == IF name = NoName THEN [Current EXCEPT !.counter = @ + 1] ELSE Current
           id == IF name = NoName THEN m.counter ELSE name
<1>1. Registered /\ expected \in Seq(HookRecords)
  BY DEF HooksInv, Bookkept
<1>2. Current \in Managers /\ Agree(Current)
  BY <1>1, CurrentManager
<1> DEFINE c == [Current EXCEPT !.counter = @ + 1]
<1>3. c \in Managers /\ Agree(c) /\ c.hooks = Current.hooks
  BY <1>2, CountedOn
<1>5. m \in Managers /\ Agree(m) /\ m.hooks = Current.hooks
  <2> HIDE DEF c
  <2>1. m = IF name = NoName THEN c ELSE Current
    BY DEF c
  <2> HIDE DEF m
  <2> QED
    BY <1>2, <1>3, <2>1
<1>6. /\ \/ id \in Ids(m.hooks) /\ SetCurrent(m) /\ UNCHANGED expected
         \/ /\ id \notin Ids(m.hooks) /\ SetCurrent(Add(m, d, id))
            /\ expected' = Append(expected, [id |-> id, def |-> d, enabled |-> TRUE])
      /\ HostChange
  BY DEF On
<1> HIDE DEF m
<1>7. id \in HookIds
  BY <1>5 DEF HookIds, Managers
<1> HIDE DEF id
<1>8. CASE SetCurrent(m) /\ UNCHANGED expected
  BY <1>1, <1>5, <1>6, <1>8, HostStep
<1>9. CASE /\ id \notin Ids(m.hooks) /\ SetCurrent(Add(m, d, id))
           /\ expected' = Append(expected, [id |-> id, def |-> d, enabled |-> TRUE])
  <2> DEFINE h == [id |-> id, def |-> d, enabled |-> TRUE]
             n == Add(m, d, id)
  <2>1. n \in Managers /\ Agree(n) /\ h \in HookRecords /\ n.hooks = Append(m.hooks, h)
    BY <1>5, <1>7, <1>9, AddAgrees
  <2>2. expected' = Append(expected, h) /\ SetCurrent(n)
    BY <1>9
  <2> HIDE DEF h, n
  <2>3. expected' \in Seq(HookRecords)
    BY <1>1, <2>1, <2>2
  <2>4. Current.hooks = expected => n.hooks = expected'
    BY <1>5, <2>1, <2>2
  <2> QED
    BY <1>6, <2>1, <2>2, <2>3, <2>4, HostStep
<1> QED
  BY <1>6, <1>8, <1>9

LEMMA KeptExpected ==
    ASSUME NEW s \in Seq(HookRecords), NEW at \in SUBSET (DOMAIN s)
    PROVE  Kept(s, at) \in Seq(HookRecords)
BY KeptFacts

LEMMA RemoveIdStep ==
    ASSUME HooksInv, NEW i \in DOMAIN Current.hooks, RemoveId(Current.hooks[i].id)
    PROVE  HooksInv'
<1> DEFINE id == Current.hooks[i].id
           n == Drop(Current, id)
<1>1. Current \in Managers /\ Agree(Current) /\ expected \in Seq(HookRecords)
  BY CurrentManager DEF HooksInv, Bookkept
<1>2. n \in Managers /\ Agree(n) /\ n.hooks = Without(Current.hooks, {id})
  BY <1>1, DropAgrees
<1>3. SetCurrent(n) /\ expected' = Without(expected, {id}) /\ HostChange
  BY DEF RemoveId
<1> HIDE DEF id, n
<1>4. expected' \in Seq(HookRecords)
  <2> DEFINE at == {k \in DOMAIN expected : expected[k].id \notin {id}}
  <2>1. expected' = Kept(expected, at) /\ at \in SUBSET (DOMAIN expected)
    BY <1>3 DEF Without
  <2> HIDE DEF at
  <2> QED
    BY <1>1, <2>1, KeptExpected
<1> QED
  BY <1>2, <1>3, <1>4, HostStep

LEMMA RemoveAllStep ==
    ASSUME HooksInv, NEW type, NEW pattern, RemoveAll(type, pattern)
    PROVE  HooksInv'
<1> DEFINE n == DropAll(Current, type, pattern)
<1>1. Current \in Managers /\ Agree(Current) /\ expected \in Seq(HookRecords)
  BY CurrentManager DEF HooksInv, Bookkept
<1>2. n \in Managers /\ Agree(n) /\ n.hooks = Unmeant(Current.hooks, type, pattern)
  BY <1>1, DropAllAgrees
<1>3. SetCurrent(n) /\ expected' = Unmeant(expected, type, pattern) /\ HostChange
  BY DEF RemoveAll
<1>4. Unmeant(expected, type, pattern) \in Seq(HookRecords)
  <2> DEFINE at == {k \in DOMAIN expected : ~Meant(expected[k], type, pattern)}
  <2>1. at \in SUBSET (DOMAIN expected)
    OBVIOUS
  <2> HIDE DEF at
  <2>2. Kept(expected, at) \in Seq(HookRecords)
    BY <1>1, <2>1, KeptExpected
  <2> QED
    BY <2>2 DEF at, Unmeant
<1> HIDE DEF n
<1>5. Current.hooks = expected => n.hooks = expected'
  BY <1>2, <1>3
<1> QED
  BY <1>2, <1>3, <1>4, <1>5, HostStep

\* Hooks switched on or off: the types stay.
LEMMA SwitchedTypes ==
    ASSUME NEW s \in Seq(HookRecords), NEW r, NEW at, NEW on \in BOOLEAN,
           r = [i \in DOMAIN s |-> IF i \in at THEN [s[i] EXCEPT !.enabled = on] ELSE s[i]]
    PROVE  r \in Seq(HookRecords)
<1> DEFINE new(i) == IF i \in at THEN [s[i] EXCEPT !.enabled = on] ELSE s[i]
<1>1. ASSUME NEW i \in DOMAIN s PROVE new(i) \in HookRecords
  <2>1. s[i] \in HookRecords
    OBVIOUS
  <2> QED
    BY <2>1 DEF HookRecords
<1>2. Len(s) \in Nat /\ DOMAIN s = 1..Len(s)
  OBVIOUS
<1>3. r = [i \in DOMAIN s |-> new(i)]
  OBVIOUS
<1> HIDE DEF new
<1> QED
  BY <1>1, <1>2, <1>3

\* enable() and disable() end by turning the manager on or off.
LEMMA Turned ==
    ASSUME NEW m \in Managers, Agree(m), NEW on \in BOOLEAN
    PROVE  LET n == [m EXCEPT !.enabled = on]
           IN  n \in Managers /\ Agree(n) /\ n.hooks = m.hooks
<1> DEFINE n == [m EXCEPT !.enabled = on]
<1>1. n \in Managers /\ n.groups = m.groups /\ n.hooks = m.hooks
  BY DEF Managers
<1> HIDE DEF n
<1>2. Agree(n)
  BY <1>1, SameHooks
<1> QED
  BY <1>1, <1>2 DEF n

LEMMA SwitchAllStep ==
    ASSUME HooksInv, NEW type, NEW pattern, NEW on \in BOOLEAN, SwitchAll(type, pattern, on)
    PROVE  HooksInv'
<1> DEFINE ids == Selected(Current, type, pattern)
           m == Switch(Current, ids, on)
           b == IF on THEN TRUE ELSE m.enabled /\ <<type, pattern>> # <<Every, Every>>
           n == [m EXCEPT !.enabled = b]
           at == {i \in DOMAIN expected : Meant(expected[i], type, pattern)}
<1>1. Current \in Managers /\ Agree(Current) /\ expected \in Seq(HookRecords)
  BY CurrentManager DEF HooksInv, Bookkept
<1>2. m \in Managers /\ Agree(m) /\ m.hooks = Switched(Current.hooks, ids, on)
  BY <1>1, SwitchAgrees
<1>3. /\ SetCurrent(n) /\ HostChange
      /\ expected' = [i \in DOMAIN expected |->
                        IF Meant(expected[i], type, pattern)
                        THEN [expected[i] EXCEPT !.enabled = on] ELSE expected[i]]
  BY DEF SwitchAll
<1>4. \A i \in DOMAIN Current.hooks :
            Current.hooks[i].id \in ids <=> Meant(Current.hooks[i], type, pattern)
  BY <1>1, SelectedAreMeant
<1> HIDE DEF m, ids
<1>5. b \in BOOLEAN
  OBVIOUS
<1> HIDE DEF b
<1>6. n \in Managers /\ Agree(n) /\ n.hooks = m.hooks
  BY <1>2, <1>5, Turned
<1> HIDE DEF n
<1>7. expected' = [i \in DOMAIN expected |->
                     IF i \in at THEN [expected[i] EXCEPT !.enabled = on] ELSE expected[i]]
  BY <1>3
<1>8. expected' \in Seq(HookRecords)
  <2> HIDE DEF at
  <2> QED
    BY <1>1, <1>7, SwitchedTypes
<1>9. ASSUME Current.hooks = expected PROVE n.hooks = expected'
  <2> DEFINE s == Current.hooks
  <2>1. Switched(s, ids, on) = [i \in DOMAIN s |-> IF s[i].id \in ids
                                                   THEN [s[i] EXCEPT !.enabled = on] ELSE s[i]]
    BY DEF Switched
  <2>2. expected' = [i \in DOMAIN s |-> IF Meant(s[i], type, pattern)
                                        THEN [s[i] EXCEPT !.enabled = on] ELSE s[i]]
    BY <1>3, <1>9
  <2>3. \A i \in DOMAIN s : s[i].id \in ids <=> Meant(s[i], type, pattern)
    BY <1>4
  <2> HIDE DEF s
  <2>4. Switched(s, ids, on) = expected'
    BY <2>1, <2>2, <2>3
  <2> QED
    BY <1>2, <1>6, <2>4 DEF s
<1> QED
  BY <1>3, <1>6, <1>8, <1>9, HostStep

LEMMA SwitchIdStep ==
    ASSUME HooksInv, NEW id, NEW on \in BOOLEAN, SwitchId(id, on)
    PROVE  HooksInv'
<1> DEFINE m == Switch(Current, {id}, on)
           b == m.enabled \/ on
           n == [m EXCEPT !.enabled = b]
           at == {i \in DOMAIN expected : expected[i].id \in {id}}
<1>1. Current \in Managers /\ Agree(Current) /\ expected \in Seq(HookRecords)
  BY CurrentManager DEF HooksInv, Bookkept
<1>2. m \in Managers /\ Agree(m) /\ m.hooks = Switched(Current.hooks, {id}, on)
  BY <1>1, SwitchAgrees
<1>3. SetCurrent(n) /\ HostChange /\ expected' = Switched(expected, {id}, on)
  BY DEF SwitchId
<1> HIDE DEF m
<1>4. b \in BOOLEAN
  OBVIOUS
<1> HIDE DEF b
<1>5. n \in Managers /\ Agree(n) /\ n.hooks = m.hooks
  BY <1>2, <1>4, Turned
<1> HIDE DEF n
<1>6. expected' = [i \in DOMAIN expected |->
                     IF i \in at THEN [expected[i] EXCEPT !.enabled = on] ELSE expected[i]]
  BY <1>3 DEF Switched
<1>7. expected' \in Seq(HookRecords)
  <2> HIDE DEF at
  <2> QED
    BY <1>1, <1>6, SwitchedTypes
<1> QED
  BY <1>2, <1>3, <1>5, <1>7, HostStep

LEMMA FilterStep ==
    ASSUME HooksInv, NEW ps \in SUBSET Patterns, Filter(ps)
    PROVE  HooksInv'
<1> DEFINE n == [Current EXCEPT !.filter = ps]
<1>1. Current \in Managers /\ Agree(Current) /\ expected \in Seq(HookRecords)
  BY CurrentManager DEF HooksInv, Bookkept
<1>2. ASSUME NEW m \in Managers, Agree(m)
      PROVE  LET k == [m EXCEPT !.filter = ps]
             IN  k \in Managers /\ Agree(k) /\ k.hooks = m.hooks
  <2> DEFINE k == [m EXCEPT !.filter = ps]
  <2>1. k \in Managers /\ k.groups = m.groups /\ k.hooks = m.hooks
    BY DEF Managers
  <2> HIDE DEF k
  <2>2. Agree(k)
    BY <1>2, <2>1, SameHooks
  <2> QED
    BY <2>1, <2>2 DEF k
<1>3. n \in Managers /\ Agree(n) /\ n.hooks = Current.hooks
  BY <1>1, <1>2
<1>4. SetCurrent(n) /\ UNCHANGED expected /\ HostChange
  BY DEF Filter
<1> HIDE DEF n
<1> QED
  BY <1>1, <1>3, <1>4, HostStep

LEMMA HostNextKeeps ==
    ASSUME HooksInv, HostNext
    PROVE  HooksInv'
<1>1. Current.filter \subseteq Patterns
  BY CurrentManager DEF HooksInv, Managers
<1>2. ASSUME NEW d \in Defs, NEW name \in Names \cup {NoName}, On(d, name) PROVE HooksInv'
  BY <1>2, OnStep
<1>3. ASSUME NEW i \in DOMAIN Current.hooks, RemoveId(Current.hooks[i].id) PROVE HooksInv'
  BY <1>3, RemoveIdStep
<1>4. ASSUME NEW t, NEW p, RemoveAll(t, p) \/ \E on \in BOOLEAN : SwitchAll(t, p, on) PROVE HooksInv'
  BY <1>4, RemoveAllStep, SwitchAllStep
<1>5. ASSUME NEW i \in DOMAIN Current.hooks, NEW on \in BOOLEAN, SwitchId(Current.hooks[i].id, on)
      PROVE  HooksInv'
  BY <1>5, SwitchIdStep
<1>6. ASSUME NEW ps \in SUBSET Patterns, Filter(ps) PROVE HooksInv'
  BY <1>6, FilterStep
<1>7. CASE \E p \in Patterns : Filter(Current.filter \cup {p}) \/ Filter(Current.filter \ {p})
  <2>1. PICK p \in Patterns : Filter(Current.filter \cup {p}) \/ Filter(Current.filter \ {p})
    BY <1>7
  <2>2. Current.filter \cup {p} \in SUBSET Patterns /\ Current.filter \ {p} \in SUBSET Patterns
    BY <1>1
  <2> QED
    BY <1>6, <2>1, <2>2
<1>8. CASE Filter({})
  BY <1>6, <1>8
<1> QED
  BY <1>2, <1>3, <1>4, <1>5, <1>7, <1>8 DEF HostNext

LEMMA ReloadNextKeeps ==
    ASSUME HooksInv, ReloadNext
    PROVE  HooksInv'
<1>1. /\ Registered /\ Bookkept /\ Expected /\ Counted
      /\ Current \in Managers /\ Agree(Current) /\ Len(mgr) \in Nat
  BY CurrentManager DEF HooksInv
<1>2. CASE Export
  <2>1. /\ reload = "none" /\ reload' = "loading" /\ reloads < MaxReloads /\ reloads' = reloads + 1
        /\ saved' = Current.hooks
        /\ mgr' = mgr /\ expected' = expected /\ clean' = clean /\ changes' = changes
    BY <1>2 DEF Export
  <2>2. Registered' /\ Current' = Current
    BY <1>1, <2>1 DEF Registered, Current
  <2>3. Current.hooks \in Seq(HookRecords) /\ Unique(Current.hooks)
    BY <1>1 DEF Agree, Managers
  <2>4. Bookkept'
    BY <1>1, <2>1, <2>3, BoundsAssumption DEF Bookkept, Unique
  <2>5. Expected'
    BY <1>1, <2>1, <2>2 DEF Expected
  <2>6. Counted'
    BY <1>1, <2>1 DEF Counted, Bookkept
  <2> QED
    BY <2>2, <2>4, <2>5, <2>6 DEF HooksInv
<1>3. CASE NewManager
  <2>1. /\ reload = "loading" /\ reload' = "loaded" /\ mgr' = Append(mgr, Fresh)
        /\ saved' = saved /\ expected' = expected /\ clean' = clean
        /\ changes' = changes /\ reloads' = reloads
    BY <1>3 DEF NewManager, host
  <2>2. /\ mgr' \in Seq(Managers) /\ mgr' # <<>> /\ Len(mgr') = Len(mgr) + 1
        /\ DOMAIN mgr' = 1..(Len(mgr) + 1) /\ DOMAIN mgr = 1..Len(mgr)
        /\ \A g \in DOMAIN mgr : mgr'[g] = mgr[g]
        /\ mgr'[Len(mgr) + 1] = Fresh
    BY <1>1, <2>1, FreshAgrees, AppendProperties DEF Registered
  <2>3. \A g \in DOMAIN mgr' : Agree(mgr'[g])
    <3>1. \A g \in DOMAIN mgr' : g \in DOMAIN mgr \/ g = Len(mgr) + 1
      BY <1>1, <2>2
    <3> QED
      BY <1>1, <2>2, <3>1, FreshAgrees DEF Registered
  <2>4. Current' = Fresh
    BY <2>2 DEF Current
  <2>5. Registered'
    BY <2>2, <2>3 DEF Registered
  <2>6. Bookkept'
    BY <1>1, <2>1 DEF Bookkept, Unique
  <2>7. Expected'
    BY <1>1, <2>1, <2>4, FreshAgrees DEF Expected
  <2>8. Counted'
    BY <1>1, <2>1, <2>2 DEF Counted, Bookkept
  <2> QED
    BY <2>5, <2>6, <2>7, <2>8 DEF HooksInv
<1>4. CASE LoadFails
  <2>1. /\ reload' = "none" /\ clean' = FALSE /\ mgr' = mgr /\ saved' = saved
        /\ expected' = expected /\ changes' = changes /\ reloads' = reloads
    BY <1>4 DEF LoadFails
  <2>2. Registered' /\ Expected'
    BY <1>1, <2>1 DEF Registered, Expected
  <2>3. Bookkept'
    BY <1>1, <2>1 DEF Bookkept, Unique
  <2>4. Counted'
    BY <1>1, <2>1 DEF Counted
  <2> QED
    BY <2>2, <2>3, <2>4 DEF HooksInv
<1>5. CASE Import
  <2> DEFINE n == Imported(Current, saved)
  <2>1. /\ reload = "loaded" /\ reload' = "none" /\ SetCurrent(n) /\ saved' = saved
        /\ expected' = expected /\ clean' = clean /\ changes' = changes /\ reloads' = reloads
    BY <1>5 DEF Import, host
  <2>2. n \in Managers /\ Agree(n) /\ (Current.hooks = <<>> => n.hooks = saved)
    BY <1>1, ImportedAgrees DEF Bookkept
  <2> HIDE DEF n
  <2>3. Registered' /\ Current' = n /\ Len(mgr') = Len(mgr)
    BY <1>1, <2>1, <2>2, SetCurrentEffect
  <2>4. Bookkept'
    BY <1>1, <2>1 DEF Bookkept, Unique
  <2>5. Expected'
    BY <1>1, <2>1, <2>2, <2>3 DEF Expected
  <2>6. Counted'
    BY <1>1, <2>1, <2>3 DEF Counted
  <2> QED
    BY <2>3, <2>4, <2>5, <2>6 DEF HooksInv
<1> QED
  BY <1>2, <1>3, <1>4, <1>5 DEF ReloadNext

LEMMA HooksInvInit ==
    ASSUME Init
    PROVE  HooksInv
<1>1. /\ mgr = <<Fresh>> /\ reload = "none" /\ saved = <<>> /\ expected = <<>> /\ clean = TRUE
      /\ changes = 0 /\ reloads = 0
  BY DEF Init
<1>2. /\ mgr \in Seq(Managers) /\ mgr # <<>> /\ Len(mgr) = 1 /\ DOMAIN mgr = {1} /\ mgr[1] = Fresh
  BY <1>1, FreshAgrees
<1>3. Registered
  BY <1>2, FreshAgrees DEF Registered
<1>4. Bookkept
  BY <1>1, BoundsAssumption DEF Bookkept, Unique
<1>5. Current = Fresh
  BY <1>2 DEF Current
<1>6. Expected /\ Counted
  BY <1>1, <1>2, <1>5, FreshAgrees DEF Expected, Counted
<1> QED
  BY <1>3, <1>4, <1>6 DEF HooksInv

LEMMA HooksInvNext ==
    ASSUME HooksInv, [Next]_vars
    PROVE  HooksInv'
<1>1. CASE Next
  BY <1>1, HostNextKeeps, ReloadNextKeeps DEF Next
<1>2. CASE UNCHANGED vars
  BY <1>2 DEF vars, registry, host, HooksInv, Registered, Bookkept, Expected, Counted, Current, Unique
<1> QED
  BY <1>1, <1>2

LEMMA HooksInvHolds == Spec => []HooksInv
<1>1. Init => HooksInv
  BY HooksInvInit
<1>2. HooksInv /\ [Next]_vars => HooksInv'
  BY HooksInvNext
<1> QED
  BY <1>1, <1>2, PTL DEF Spec

-----------------------------------------------------------------------------
(* The theorems about the manager.                                         *)

LEMMA InvTypes ==
    ASSUME HooksInv
    PROVE  TypeOK
<1>1. ASSUME NEW s \in Seq(HookRecords), NEW i \in DOMAIN s PROVE IsHook(s[i])
  <2>1. s[i] \in HookRecords
    OBVIOUS
  <2> QED
    BY <2>1 DEF HookRecords, IsHook
<1>2. ASSUME NEW m \in Managers PROVE IsManager(m)
  <2>1. m.hooks \in Seq(HookRecords)
    BY DEF Managers
  <2>2. \A i \in DOMAIN m.hooks : IsHook(m.hooks[i])
    BY <1>1, <2>1
  <2> QED
    BY <2>2 DEF Managers, IsManager
<1>3. \A g \in DOMAIN mgr : IsManager(mgr[g])
  <2>1. \A g \in DOMAIN mgr : mgr[g] \in Managers
    BY DEF HooksInv, Registered
  <2> QED
    BY <1>2, <2>1
<1>4. \A i \in DOMAIN saved : IsHook(saved[i])
  BY <1>1 DEF HooksInv, Bookkept
<1>5. \A i \in DOMAIN expected : IsHook(expected[i])
  BY <1>1 DEF HooksInv, Bookkept
<1> QED
  BY <1>3, <1>4, <1>5 DEF HooksInv, Registered, Bookkept, TypeOK

LEMMA InvAgreement ==
    ASSUME HooksInv
    PROVE  IndexesAgree
<1> SUFFICES ASSUME NEW g \in DOMAIN mgr
             PROVE  LET hooks == mgr[g].hooks
        IN  /\ \A i, j \in DOMAIN hooks : hooks[i].id = hooks[j].id => i = j
            /\ \A i \in DOMAIN hooks :
                \E k \in DOMAIN mgr[g].groups[Slot(hooks[i].def)] :
                    mgr[g].groups[Slot(hooks[i].def)][k].pattern = hooks[i].def.pattern
            /\ \A s \in Slots :
                LET groups == mgr[g].groups[s]
                    of(p) == {i \in DOMAIN hooks : Slot(hooks[i].def) = s /\ hooks[i].def.pattern = p}
                IN  /\ \A i, j \in DOMAIN groups : groups[i].pattern = groups[j].pattern => i = j
                    /\ \A i \in DOMAIN groups :
                        /\ groups[i].ids # <<>>
                        /\ ToSet(groups[i].ids) = {hooks[k].id : k \in of(groups[i].pattern)}
                        /\ \A a, b \in DOMAIN groups[i].ids :
                            a < b => Before(hooks, groups[i].ids[a], groups[i].ids[b])
  BY DEF IndexesAgree
<1> DEFINE m == mgr[g]
           hooks == mgr[g].hooks
<1>1. m \in Managers /\ Agree(m)
  BY DEF HooksInv, Registered
<1>2. /\ hooks \in Seq(HookRecords) /\ Unique(hooks)
      /\ \A s \in Slots : SlotAgrees(s, hooks, m.groups[s])
  BY <1>1 DEF Managers, Agree
<1>3. \A i \in DOMAIN hooks : Slot(hooks[i].def) \in Slots
  <2> SUFFICES ASSUME NEW i \in DOMAIN hooks PROVE Slot(hooks[i].def) \in Slots
    OBVIOUS
  <2>1. hooks[i] \in HookRecords
    BY <1>2
  <2>2. hooks[i].def \in Defs
    BY <2>1 DEF HookRecords
  <2> QED
    BY <2>2, SlotType
<1>4. \A i \in DOMAIN hooks : \E k \in DOMAIN m.groups[Slot(hooks[i].def)] :
            m.groups[Slot(hooks[i].def)][k].pattern = hooks[i].def.pattern
  BY <1>2, <1>3 DEF SlotAgrees, Housed
<1>5. ASSUME NEW s \in Slots, NEW i \in DOMAIN m.groups[s]
      PROVE  LET ids == m.groups[s][i].ids
                 p == m.groups[s][i].pattern
             IN  /\ ids # <<>>
                 /\ ToSet(ids) = {hooks[k].id : k \in {n \in DOMAIN hooks : Slot(hooks[n].def) = s
                                                                          /\ hooks[n].def.pattern = p}}
                 /\ \A a, b \in DOMAIN ids : a < b => Before(hooks, ids[a], ids[b])
  <2> DEFINE ids == m.groups[s][i].ids
             p == m.groups[s][i].pattern
             of == {n \in DOMAIN hooks : Slot(hooks[n].def) = s /\ hooks[n].def.pattern = p}
  <2>1. ids # <<>> /\ Listed(s, hooks, m.groups[s][i])
    BY <1>2 DEF SlotAgrees, GroupAgrees
  <2>2. \A n \in DOMAIN hooks : n \in of <=> Belongs(hooks[n], s, p)
    BY DEF Belongs
  <2>3. \A k \in DOMAIN ids : \E n \in of : hooks[n].id = ids[k]
    BY <2>1, <2>2 DEF Listed
  <2>4. \A n \in of : \E k \in DOMAIN ids : hooks[n].id = ids[k]
    BY <2>1, <2>2 DEF Listed
  <2>5. \A a, b \in DOMAIN ids : a < b => Before(hooks, ids[a], ids[b])
    BY <2>1 DEF Listed
  <2>6. ToSet(ids) = {hooks[n].id : n \in of}
    <3> HIDE DEF of, ids, hooks
    <3> QED
      BY <2>3, <2>4 DEF ToSet
  <2> QED
    BY <2>1, <2>5, <2>6
<1>6. \A s \in Slots : \A i, j \in DOMAIN m.groups[s] :
            m.groups[s][i].pattern = m.groups[s][j].pattern => i = j
  BY <1>2 DEF SlotAgrees, Housed
<1> QED
  BY <1>2, <1>4, <1>5, <1>6 DEF Unique

\* Every variable of the hooks and of the reload has its type, for any hooks
\* and patterns.
THEOREM HookTypes == Spec => []TypeOK
BY HooksInvHolds, InvTypes, PTL

\* Whatever is registered, removed, switched or reloaded, the Map and the
\* groups of every manager hold the same hooks in the same order.
THEOREM IndexesAlwaysAgree == Spec => []IndexesAgree
BY HooksInvHolds, InvAgreement, PTL

\* A reload that nobody interferes with gives every hook back as it was.
THEOREM ReloadAlwaysKeepsHooks == Spec => []ReloadKeepsHooks
<1>1. HooksInv => ReloadKeepsHooks
  BY DEF HooksInv, Expected, ReloadKeepsHooks
<1> QED
  BY <1>1, HooksInvHolds, PTL

-----------------------------------------------------------------------------
(* Which hooks fire, and when.                                             *)

\* The entries of the first k sequences, those of an earlier one first.
Flat(x, ss, k) ==
    /\ \A a \in 1..k : \A p \in DOMAIN ss[a] : \E i \in DOMAIN x : x[i] = ss[a][p]
    /\ \A i \in DOMAIN x : \E a \in 1..k : \E p \in DOMAIN ss[a] : x[i] = ss[a][p]
    /\ \A i, j \in DOMAIN x : i < j =>
            \E a, b \in 1..k : \E p \in DOMAIN ss[a], q \in DOMAIN ss[b] :
                x[i] = ss[a][p] /\ x[j] = ss[b][q] /\ (a < b \/ (a = b /\ p < q))

LEMMA FlatStep ==
    ASSUME NEW S, NEW ss \in Seq(Seq(S)), NEW k \in 1..Len(ss), NEW x \in Seq(S), Flat(x, ss, k - 1)
    PROVE  x \o ss[k] \in Seq(S) /\ Flat(x \o ss[k], ss, k)
<1> DEFINE t == ss[k]
           y == x \o t
<1>1. t \in Seq(S) /\ k \in Nat /\ Len(x) \in Nat /\ DOMAIN x = 1..Len(x)
  OBVIOUS
<1>2. Len(t) \in Nat /\ DOMAIN t = 1..Len(t)
  BY <1>1
<1> HIDE DEF t
<1>3. /\ y \in Seq(S) /\ Len(y) = Len(x) + Len(t)
      /\ \A i \in 1..(Len(x) + Len(t)) : y[i] = IF i <= Len(x) THEN x[i] ELSE t[i - Len(x)]
  BY <1>1, ConcatProperties
<1>4. DOMAIN y = 1..(Len(x) + Len(t))
  BY <1>3
<1> HIDE DEF y
<1>5. \A i \in DOMAIN x : i \in DOMAIN y /\ y[i] = x[i]
  BY <1>1, <1>2, <1>3, <1>4
<1>6. \A p \in DOMAIN t : Len(x) + p \in DOMAIN y /\ y[Len(x) + p] = t[p]
  BY <1>1, <1>2, <1>3, <1>4
<1>7. \A i \in DOMAIN y : i \in DOMAIN x \/ (i - Len(x) \in DOMAIN t /\ i > Len(x) /\ y[i] = t[i - Len(x)])
  BY <1>1, <1>2, <1>3, <1>4
<1>8. \A a \in 1..k : a \in 1..(k - 1) \/ a = k
  BY <1>1
<1>9. \A a \in 1..(k - 1) : a \in 1..k /\ a < k
  BY <1>1
<1>10. k \in 1..k
  BY <1>1
<1>11. ASSUME NEW a \in 1..k, NEW p \in DOMAIN ss[a] PROVE \E i \in DOMAIN y : y[i] = ss[a][p]
  <2>1. CASE a \in 1..(k - 1)
    <3>1. PICK i \in DOMAIN x : x[i] = ss[a][p]
      BY <2>1 DEF Flat
    <3> QED
      BY <1>5, <3>1
  <2>2. CASE a = k
    BY <1>6, <2>2 DEF t
  <2> QED
    BY <1>8, <2>1, <2>2
<1>12. ASSUME NEW i \in DOMAIN y PROVE \E a \in 1..k : \E p \in DOMAIN ss[a] : y[i] = ss[a][p]
  <2>1. CASE i \in DOMAIN x
    <3>1. PICK a \in 1..(k - 1) : \E p \in DOMAIN ss[a] : x[i] = ss[a][p]
      BY <2>1 DEF Flat
    <3> QED
      BY <1>5, <1>9, <2>1, <3>1
  <2>2. CASE i \notin DOMAIN x
    BY <1>7, <1>10, <2>2 DEF t
  <2> QED
    BY <2>1, <2>2
<1>13. ASSUME NEW i \in DOMAIN y, NEW j \in DOMAIN y, i < j
       PROVE  \E a, b \in 1..k : \E p \in DOMAIN ss[a], q \in DOMAIN ss[b] :
                 y[i] = ss[a][p] /\ y[j] = ss[b][q] /\ (a < b \/ (a = b /\ p < q))
  <2>0. i \in Int /\ j \in Int
    BY <1>1, <1>2, <1>4
  <2>1. CASE j \in DOMAIN x
    <3>1. i \in DOMAIN x
      BY <1>1, <1>2, <1>4, <1>13, <2>0, <2>1
    <3>2. PICK a \in 1..(k - 1), b \in 1..(k - 1) : \E p \in DOMAIN ss[a], q \in DOMAIN ss[b] :
                 x[i] = ss[a][p] /\ x[j] = ss[b][q] /\ (a < b \/ (a = b /\ p < q))
      BY <1>13, <2>1, <3>1 DEF Flat
    <3>3. a \in 1..k /\ b \in 1..k /\ y[i] = x[i] /\ y[j] = x[j]
      BY <1>5, <1>9, <2>1, <3>1
    <3> QED
      BY <3>2, <3>3
  <2>2. CASE j \notin DOMAIN x /\ i \in DOMAIN x
    <3>1. PICK a \in 1..(k - 1) : \E p \in DOMAIN ss[a] : x[i] = ss[a][p]
      BY <2>2 DEF Flat
    <3>2. PICK p \in DOMAIN ss[a] : x[i] = ss[a][p]
      BY <3>1
    <3>3. PICK q \in DOMAIN ss[k] : y[j] = ss[k][q]
      BY <1>7, <2>2 DEF t
    <3>4. y[i] = ss[a][p] /\ a < k /\ a \in 1..k
      BY <1>5, <1>9, <2>2, <3>2
    <3> QED
      BY <1>10, <3>3, <3>4
  <2>3. CASE j \notin DOMAIN x /\ i \notin DOMAIN x
    <3>1. /\ i - Len(x) \in DOMAIN ss[k] /\ y[i] = ss[k][i - Len(x)]
          /\ j - Len(x) \in DOMAIN ss[k] /\ y[j] = ss[k][j - Len(x)]
      BY <1>7, <2>3 DEF t
    <3>2. i - Len(x) < j - Len(x)
      BY <1>1, <1>13, <2>0
    <3> QED
      BY <1>10, <3>1, <3>2
  <2> QED
    BY <1>1, <1>2, <1>4, <1>13, <2>0, <2>1, <2>2, <2>3
<1>14. Flat(y, ss, k)
  BY <1>11, <1>12, <1>13 DEF Flat
<1> QED
  BY <1>3, <1>14 DEF y, t

LEMMA FlattenSteps ==
    ASSUME NEW S, NEW ss \in Seq(Seq(S)), Len(ss) # 0
    PROVE  \E f : /\ f = [i \in 1..Len(ss) |-> IF i = 1 THEN ss[i] ELSE f[i - 1] \o ss[i]]
                  /\ f[Len(ss)] \in Seq(S) /\ Flat(f[Len(ss)], ss, Len(ss))
<1> DEFINE n == Len(ss)
           Steps(f, k) == f = [i \in 1..k |-> IF i = 1 THEN ss[i] ELSE f[i - 1] \o ss[i]]
           Good(x, k) == x \in Seq(S) /\ Flat(x, ss, k)
           bad == {k \in 1..n : ~\E f : Steps(f, k) /\ Good(f[k], k)}
<1>1. n \in Nat /\ n # 0 /\ \A i \in 1..n : ss[i] \in Seq(S)
  OBVIOUS
<1>2. bad = {}
  <2> SUFFICES ASSUME bad # {} PROVE FALSE
    OBVIOUS
  <2>1. PICK k \in bad : \A j \in bad : k <= j
    <3>1. bad \in SUBSET Nat
      <4> HIDE DEF Steps, Good
      <4> QED
        BY <1>1
    <3> HIDE DEF bad
    <3> QED
      BY <3>1, Smallest
  <2>2. k \in 1..n /\ ~\E f : Steps(f, k) /\ Good(f[k], k)
    OBVIOUS
  <2>3. CASE k = 1
    <3> DEFINE t == ss[1]
               f == [i \in 1..1 |-> t]
    <3>9. \A i \in 1..1 : i = 1
      OBVIOUS
    <3>0. f[1] = ss[1] /\ \A i \in 1..1 : i = 1
      <4>1. 1 \in 1..1
        OBVIOUS
      <4>2. f[1] = t
        <5> HIDE DEF t
        <5> QED
          BY <4>1
      <4> QED
        BY <3>9, <4>2
    <3>1. f[1] = ss[1] /\ Steps(f, 1)
      <4>1. f = [i \in 1..1 |-> f[i]]
        OBVIOUS
      <4> HIDE DEF f
      <4> QED
        BY <3>0, <4>1
    <3> HIDE DEF f
    <3>2. <<>> \in Seq(S) /\ Flat(<<>>, ss, 1 - 1)
      BY DEF Flat
    <3>3. <<>> \o ss[1] = ss[1]
      BY <1>1, ConcatEmptySeq
    <3>4. <<>> \o ss[1] \in Seq(S) /\ Flat(<<>> \o ss[1], ss, 1)
      <4>1. 1 \in 1..Len(ss)
        BY <1>1
      <4> QED
        BY <3>2, <4>1, FlatStep
    <3>5. Good(f[1], 1)
      BY <3>1, <3>3, <3>4
    <3> QED
      BY <2>2, <2>3, <3>1, <3>5
  <2>4. CASE k # 1
    <3>0. k - 1 \in 1..n /\ k \in 1..n /\ ~(k <= k - 1)
      BY <1>1, <2>2, <2>4
    <3>1. k - 1 \in 1..n /\ k \in 1..n /\ k - 1 \notin bad
      <4> HIDE DEF bad
      <4> QED
        BY <2>1, <3>0
    <3>2. PICK f : Steps(f, k - 1) /\ Good(f[k - 1], k - 1)
      BY <3>1
    <3> DEFINE x == f[k - 1]
               y == x \o ss[k]
               g == [i \in 1..k |-> IF i = k THEN y ELSE f[i]]
    <3>3. Good(y, k)
      <4> HIDE DEF x
      <4>1. x \in Seq(S) /\ Flat(x, ss, k - 1)
        BY <3>2 DEF x
      <4> QED
        BY <3>1, <4>1, FlatStep
    <3>4. g[k] = y /\ \A i \in 1..(k - 1) : g[i] = f[i]
      <4> HIDE DEF y
      <4> QED
        BY <3>1
    <3>5. \A i \in 1..k : g[i] = IF i = 1 THEN ss[i] ELSE g[i - 1] \o ss[i]
      <4>1. g[k] = g[k - 1] \o ss[k] /\ k # 1
        <5>1. k - 1 \in 1..(k - 1)
          BY <1>1, <3>1
        <5>2. g[k - 1] = x
          BY <3>4, <5>1
        <5> HIDE DEF g, x
        <5> QED
          BY <2>4, <3>4, <5>2
      <4>2. ASSUME NEW i \in 1..(k - 1)
            PROVE  g[i] = IF i = 1 THEN ss[i] ELSE g[i - 1] \o ss[i]
        <5> HIDE DEF g, y
        <5>1. f[i] = IF i = 1 THEN ss[i] ELSE f[i - 1] \o ss[i]
          BY <3>2
        <5>2. g[i] = f[i] /\ (i # 1 => g[i - 1] = f[i - 1])
          BY <3>1, <3>4
        <5> QED
          BY <5>1, <5>2
      <4>3. \A i \in 1..k : i = k \/ i \in 1..(k - 1)
        BY <3>1
      <4> HIDE DEF g, y
      <4> QED
        BY <4>1, <4>2, <4>3
    <3>6. Steps(g, k)
      <4>1. g = [i \in 1..k |-> g[i]]
        OBVIOUS
      <4> HIDE DEF g
      <4> QED
        BY <3>5, <4>1
    <3> HIDE DEF g, y
    <3>7. Good(g[k], k)
      BY <3>3, <3>4
    <3> QED
      BY <2>2, <3>6, <3>7
  <2> QED
    BY <2>3, <2>4
<1>3. n \in 1..n
  BY <1>1
<1> QED
  BY <1>2, <1>3

\* FlattenSeq has all of all sequences, those of an earlier one first.
LEMMA Flattened ==
    ASSUME NEW S, NEW ss \in Seq(Seq(S))
    PROVE  FlattenSeq(ss) \in Seq(S) /\ Flat(FlattenSeq(ss), ss, Len(ss))
<1>1. CASE Len(ss) = 0
  <2>1. ss = <<>> /\ FlattenSeq(ss) = <<>>
    BY <1>1, EmptySeq DEF FlattenSeq
  <2>2. Flat(<<>>, ss, 0)
    BY DEF Flat
  <2>3. <<>> \in Seq(S)
    OBVIOUS
  <2> QED
    BY <1>1, <2>1, <2>2, <2>3, Zenon
<1>2. CASE Len(ss) # 0
  <2> DEFINE n == Len(ss)
             flatten[i \in 1..n] == IF i = 1 THEN ss[i] ELSE flatten[i - 1] \o ss[i]
             G(f) == [i \in 1..n |-> IF i = 1 THEN ss[i] ELSE f[i - 1] \o ss[i]]
  <2>1. FlattenSeq(ss) = flatten[n]
    BY <1>2 DEF FlattenSeq
  <2>2. flatten = CHOOSE f : f = G(f)
    OBVIOUS
  <2>3. n \in Nat /\ n # 0
    BY <1>2
  <2> HIDE DEF flatten
  <2>4. PICK f : f = G(f) /\ f[n] \in Seq(S) /\ Flat(f[n], ss, n)
    BY <1>2, FlattenSteps
  <2> HIDE DEF n
  <2>5. \A g : g = G(g) => g[n] = f[n]
    <3> SUFFICES ASSUME NEW g, g = G(g) PROVE g[n] = f[n]
      OBVIOUS
    <3> DEFINE apart == {i \in 1..n : g[i] # f[i]}
    <3>1. apart = {}
      <4> SUFFICES ASSUME apart # {} PROVE FALSE
        OBVIOUS
      <4>1. PICK i \in apart : \A j \in apart : i <= j
        <5>1. apart \in SUBSET Nat
          BY <2>3
        <5> HIDE DEF apart
        <5> QED
          BY <5>1, Smallest
      <4>2. i \in 1..n /\ g[i] # f[i]
        OBVIOUS
      <4>3. /\ g[i] = IF i = 1 THEN ss[i] ELSE g[i - 1] \o ss[i]
            /\ f[i] = IF i = 1 THEN ss[i] ELSE f[i - 1] \o ss[i]
        BY <2>4, <4>2
      <4>4. i # 1
        BY <4>2, <4>3
      <4>5. i - 1 \in 1..n /\ ~(i <= i - 1)
        BY <2>3, <4>2, <4>4
      <4>6. g[i - 1] = f[i - 1]
        BY <4>1, <4>5
      <4> QED
        BY <4>2, <4>3, <4>6
    <3>2. n \in 1..n
      BY <2>3
    <3> QED
      BY <3>1, <3>2
  <2> HIDE DEF G
  <2>6. flatten = G(flatten)
    BY <2>2, <2>4
  <2>7. FlattenSeq(ss) = f[n]
    BY <2>1, <2>5, <2>6
  <2> QED
    BY <2>4, <2>7 DEF n
<1> QED
  BY <1>1, <1>2

Finds(m) == \A i \in DOMAIN m.hooks : Hook(m, m.hooks[i].id) = m.hooks[i]

LEMMA HookFound ==
    ASSUME NEW m, Unique(m.hooks)
    PROVE  Finds(m)
<1> SUFFICES ASSUME NEW i \in DOMAIN m.hooks PROVE Hook(m, m.hooks[i].id) = m.hooks[i]
  BY DEF Finds
<1> DEFINE j == CHOOSE k \in DOMAIN m.hooks : m.hooks[k].id = m.hooks[i].id
<1>1. j \in DOMAIN m.hooks /\ m.hooks[j].id = m.hooks[i].id
  OBVIOUS
<1>2. j = i
  <2> HIDE DEF j
  <2> QED
    BY <1>1 DEF Unique
<1> QED
  BY <1>2 DEF Hook

\* The hooks of slot s that a call of this path is to run.
Wanted(m, s, path) ==
    {i \in DOMAIN m.hooks : /\ m.hooks[i].enabled /\ Slot(m.hooks[i].def) = s
                            /\ path \in Covers[m.hooks[i].def.pattern]}

\* r has the ids of the hooks at these positions and no other.
Has(m, r, at) ==
    /\ r \in Seq(HookIds)
    /\ \A k \in DOMAIN r : \E i \in at : r[k] = m.hooks[i].id
    /\ \A i \in at : \E k \in DOMAIN r : r[k] = m.hooks[i].id

Patterned(m, x, y) ==
    Hook(m, x).def.pattern = Hook(m, y).def.pattern => Before(m.hooks, x, y)

LEMMA GroupFires ==
    ASSUME NEW m, m \in Managers, Finds(m), NEW s \in Slots, NEW path, NEW g \in Groups,
           Listed(s, m.hooks, g)
    PROVE  LET r == OfGroup(m, g, path)
           IN  /\ Has(m, r, {i \in Wanted(m, s, path) : m.hooks[i].def.pattern = g.pattern})
               /\ \A a, b \in DOMAIN r : a < b => Before(m.hooks, r[a], r[b])
<1> DEFINE ids == g.ids
           at == {i \in DOMAIN ids : Hook(m, ids[i]).enabled /\ path \in Covers[g.pattern]}
           r == Kept(ids, at)
           want == {i \in Wanted(m, s, path) : m.hooks[i].def.pattern = g.pattern}
<1>0. OfGroup(m, g, path) = r
  BY DEF OfGroup
<1>1. ids \in Seq(HookIds) /\ at \in SUBSET (DOMAIN ids)
  BY DEF Groups
<1>2. \A k \in DOMAIN ids : \E i \in DOMAIN m.hooks : Belongs(m.hooks[i], s, g.pattern) /\ m.hooks[i].id = ids[k]
  BY DEF Listed
<1>3. \A i \in DOMAIN m.hooks : Belongs(m.hooks[i], s, g.pattern) => \E k \in DOMAIN ids : m.hooks[i].id = ids[k]
  BY DEF Listed
<1>4. \A a, b \in DOMAIN ids : a < b => Before(m.hooks, ids[a], ids[b])
  BY DEF Listed
<1>5. \A k \in at : \E i \in want : m.hooks[i].id = ids[k]
  <2> SUFFICES ASSUME NEW k \in at PROVE \E i \in want : m.hooks[i].id = ids[k]
    OBVIOUS
  <2>1. PICK i \in DOMAIN m.hooks : Belongs(m.hooks[i], s, g.pattern) /\ m.hooks[i].id = ids[k]
    BY <1>2
  <2>2. Hook(m, ids[k]) = m.hooks[i]
    BY <2>1 DEF Finds
  <2> QED
    BY <2>1, <2>2 DEF Wanted, Belongs
<1>6. \A i \in want : \E k \in at : m.hooks[i].id = ids[k]
  <2> SUFFICES ASSUME NEW i \in want PROVE \E k \in at : m.hooks[i].id = ids[k]
    OBVIOUS
  <2>0. i \in DOMAIN m.hooks /\ Belongs(m.hooks[i], s, g.pattern)
        /\ m.hooks[i].enabled /\ path \in Covers[g.pattern]
    BY DEF Wanted, Belongs
  <2>1. PICK k \in DOMAIN ids : m.hooks[i].id = ids[k]
    BY <1>3, <2>0
  <2>2. Hook(m, ids[k]) = m.hooks[i]
    BY <2>0, <2>1 DEF Finds
  <2> QED
    BY <2>0, <2>1, <2>2
<1> HIDE DEF ids, at, want
<1>7. /\ r \in Seq(HookIds)
      /\ \A k \in DOMAIN r : \E i \in at : r[k] = ids[i]
      /\ \A i \in at : \E k \in DOMAIN r : r[k] = ids[i]
      /\ \A k, l \in DOMAIN r : k < l => \E i, j \in at : i < j /\ ids[i] = r[k] /\ ids[j] = r[l]
  BY <1>1, KeptFacts
<1> HIDE DEF r
<1>8. Has(m, r, want)
  <2>1. ASSUME NEW k \in DOMAIN r PROVE \E i \in want : r[k] = m.hooks[i].id
    <3>1. PICK l \in at : r[k] = ids[l]
      BY <1>7
    <3> QED
      BY <1>5, <3>1
  <2>2. ASSUME NEW i \in want PROVE \E k \in DOMAIN r : r[k] = m.hooks[i].id
    <3>1. PICK l \in at : m.hooks[i].id = ids[l]
      BY <1>6
    <3> QED
      BY <1>7, <3>1
  <2> QED
    BY <1>7, <2>1, <2>2 DEF Has
<1>9. \A a, b \in DOMAIN r : a < b => Before(m.hooks, r[a], r[b])
  BY <1>1, <1>4, <1>7
<1> QED
  BY <1>0, <1>8, <1>9 DEF want

LEMMA SlotFires ==
    ASSUME NEW m, m \in Managers, Finds(m), NEW s \in Slots, NEW path,
           SlotAgrees(s, m.hooks, m.groups[s])
    PROVE  LET r == OfSlot(m, m.groups[s], path)
           IN  /\ Has(m, r, Wanted(m, s, path))
               /\ \A a, b \in DOMAIN r : a < b => Patterned(m, r[a], r[b])
<1> DEFINE gs == m.groups[s]
           ss == [i \in DOMAIN gs |-> OfGroup(m, gs[i], path)]
           of(p) == {i \in Wanted(m, s, path) : m.hooks[i].def.pattern = p}
           r == FlattenSeq(ss)
<1>0. OfSlot(m, m.groups[s], path) = r
  BY DEF OfSlot
<1>1. gs \in Seq(Groups)
  BY DEF Managers
<1>2. \A a \in DOMAIN gs : gs[a] \in Groups /\ GroupAgrees(s, m.hooks, gs[a])
  BY <1>1 DEF SlotAgrees
<1>3. \A a \in DOMAIN gs : ss[a] = OfGroup(m, gs[a], path)
  OBVIOUS
<1>4. DOMAIN ss = DOMAIN gs /\ DOMAIN gs = 1..Len(gs) /\ Len(gs) \in Nat
  BY <1>1
<1> HIDE DEF ss
<1>5. ASSUME NEW a \in DOMAIN gs
      PROVE  /\ ss[a] \in Seq(HookIds) /\ Has(m, ss[a], of(gs[a].pattern))
             /\ \A p, q \in DOMAIN ss[a] : p < q => Before(m.hooks, ss[a][p], ss[a][q])
  <2>1. gs[a] \in Groups /\ Listed(s, m.hooks, gs[a])
    BY <1>2 DEF GroupAgrees
  <2>2. LET g == gs[a]
            x == OfGroup(m, g, path)
        IN  /\ Has(m, x, {i \in Wanted(m, s, path) : m.hooks[i].def.pattern = g.pattern})
            /\ \A p, q \in DOMAIN x : p < q => Before(m.hooks, x[p], x[q])
    <3> HIDE DEF gs
    <3> QED
      BY <2>1, GroupFires
  <2> QED
    BY <1>3, <2>2 DEF Has
<1>6. ss \in Seq(Seq(HookIds)) /\ Len(ss) = Len(gs)
  <2>1. ss = [a \in 1..Len(gs) |-> ss[a]]
    BY <1>4 DEF ss
  <2>2. \A a \in 1..Len(gs) : ss[a] \in Seq(HookIds)
    BY <1>4, <1>5
  <2> HIDE DEF gs
  <2> QED
    BY <1>4, <2>1, <2>2, IsASeq, LenProperties
<1>7. r \in Seq(HookIds) /\ Flat(r, ss, Len(gs))
  <2> HIDE DEF gs
  <2> QED
    BY <1>6, Flattened
<1> HIDE DEF r
<1>8. \A i \in Wanted(m, s, path) : \E a \in DOMAIN gs : i \in of(gs[a].pattern)
  BY DEF Wanted, SlotAgrees, Housed
<1>9. \A k \in DOMAIN r : \E i \in Wanted(m, s, path) : r[k] = m.hooks[i].id
  <2> SUFFICES ASSUME NEW k \in DOMAIN r PROVE \E i \in Wanted(m, s, path) : r[k] = m.hooks[i].id
    OBVIOUS
  <2>1. PICK a \in DOMAIN gs : \E p \in DOMAIN ss[a] : r[k] = ss[a][p]
    <3> HIDE DEF gs
    <3> QED
      BY <1>4, <1>7 DEF Flat
  <2> QED
    BY <1>5, <2>1 DEF Has
<1>10. \A i \in Wanted(m, s, path) : \E k \in DOMAIN r : r[k] = m.hooks[i].id
  <2> SUFFICES ASSUME NEW i \in Wanted(m, s, path) PROVE \E k \in DOMAIN r : r[k] = m.hooks[i].id
    OBVIOUS
  <2>1. PICK a \in DOMAIN gs : i \in of(gs[a].pattern)
    BY <1>8
  <2>2. PICK p \in DOMAIN ss[a] : ss[a][p] = m.hooks[i].id
    BY <1>5, <2>1 DEF Has
  <2> QED
    BY <1>4, <1>7, <2>1, <2>2 DEF Flat
<1>11. ASSUME NEW x \in DOMAIN r, NEW y \in DOMAIN r, x < y,
              Hook(m, r[x]).def.pattern = Hook(m, r[y]).def.pattern
       PROVE  Before(m.hooks, r[x], r[y])
  <2>1. PICK a \in DOMAIN gs, b \in DOMAIN gs : \E p \in DOMAIN ss[a], q \in DOMAIN ss[b] :
            r[x] = ss[a][p] /\ r[y] = ss[b][q] /\ (a < b \/ (a = b /\ p < q))
    <3>1. x \in DOMAIN r /\ y \in DOMAIN r /\ x < y
      BY <1>11
    <3>2. \A i, j \in DOMAIN r : i < j =>
            \E a, b \in 1..Len(gs) : \E p \in DOMAIN ss[a], q \in DOMAIN ss[b] :
                r[i] = ss[a][p] /\ r[j] = ss[b][q] /\ (a < b \/ (a = b /\ p < q))
      BY <1>7 DEF Flat
    <3> HIDE DEF gs
    <3>3. \E a, b \in 1..Len(gs) : \E p \in DOMAIN ss[a], q \in DOMAIN ss[b] :
                r[x] = ss[a][p] /\ r[y] = ss[b][q] /\ (a < b \/ (a = b /\ p < q))
      BY <3>1, <3>2, Zenon
    <3> QED
      BY <1>4, <3>3, Zenon
  <2>2. PICK p \in DOMAIN ss[a], q \in DOMAIN ss[b] :
            r[x] = ss[a][p] /\ r[y] = ss[b][q] /\ (a < b \/ (a = b /\ p < q))
    BY <2>1
  <2>3. PICK i \in of(gs[a].pattern) : r[x] = m.hooks[i].id
    BY <1>5, <2>2 DEF Has
  <2>4. PICK j \in of(gs[b].pattern) : r[y] = m.hooks[j].id
    BY <1>5, <2>2 DEF Has
  <2>5. Hook(m, r[x]).def.pattern = gs[a].pattern /\ Hook(m, r[y]).def.pattern = gs[b].pattern
    BY <2>3, <2>4 DEF Finds, Wanted
  <2>6. a = b
    BY <1>11, <2>5 DEF SlotAgrees, Housed
  <2>7. p < q
    <3>1. a \in Int
      BY <1>4
    <3> QED
      BY <2>2, <2>6, <3>1
  <2> QED
    BY <1>5, <2>2, <2>6, <2>7
<1>12. Has(m, r, Wanted(m, s, path))
  BY <1>7, <1>9, <1>10 DEF Has
<1>13. \A x, y \in DOMAIN r : x < y => Patterned(m, r[x], r[y])
  BY <1>11 DEF Patterned
<1> QED
  BY <1>0, <1>12, <1>13

LEMMA Ranks ==
    /\ DOMAIN Priorities = 1..2 /\ \A k \in 1..2 : Rank(Priorities, Priorities[k]) = k
    /\ DOMAIN Subsets = 1..3 /\ \A k \in 1..3 : Rank(Subsets, Subsets[k]) = k
<1>1. DOMAIN Priorities = 1..2 /\ Priorities[1] = 1 /\ Priorities[2] = 0
  BY DEF Priorities
<1>2. DOMAIN Subsets = 1..3
      /\ Subsets[1] = "before" /\ Subsets[2] = "primary" /\ Subsets[3] = "after"
  BY DEF Subsets
<1>3. ASSUME NEW k \in 1..2 PROVE Rank(Priorities, Priorities[k]) = k
  <2>1. \A j \in DOMAIN Priorities : Priorities[j] = Priorities[k] => j = k
    BY <1>1
  <2>2. k \in DOMAIN Priorities
    BY <1>1
  <2> QED
    BY <2>1, <2>2 DEF Rank
<1>4. ASSUME NEW k \in 1..3 PROVE Rank(Subsets, Subsets[k]) = k
  <2>1. \A j \in DOMAIN Subsets : Subsets[j] = Subsets[k] => j = k
    BY <1>2
  <2>2. k \in DOMAIN Subsets
    BY <1>2
  <2> QED
    BY <2>1, <2>2 DEF Rank
<1> QED
  BY <1>1, <1>2, <1>3, <1>4

Prior(m, x, y) ==
    LET p == Hook(m, x).def.priority
        q == Hook(m, y).def.priority
    IN  Rank(Priorities, p) < Rank(Priorities, q) \/ (p = q /\ Patterned(m, x, y))

LEMMA SortedFires ==
    ASSUME NEW m, m \in Managers, Finds(m), NEW ids, NEW at, at \in SUBSET (DOMAIN m.hooks),
           Has(m, ids, at), \A a, b \in DOMAIN ids : a < b => Patterned(m, ids[a], ids[b])
    PROVE  LET r == Sorted(m, ids)
           IN  Has(m, r, at) /\ \A a, b \in DOMAIN r : a < b => Prior(m, r[a], r[b])
<1> DEFINE of(k) == {i \in DOMAIN ids : Hook(m, ids[i]).def.priority = Priorities[k]}
           ss == [k \in DOMAIN Priorities |-> Kept(ids, of(k))]
           r == FlattenSeq(ss)
<1>0. Sorted(m, ids) = r
  BY DEF Sorted
<1>1. ids \in Seq(HookIds) /\ DOMAIN Priorities = 1..2
  BY Ranks DEF Has
<1>2. \A k \in 1..2 : ss[k] = Kept(ids, of(k))
  BY <1>1
<1>3. ASSUME NEW k \in 1..2
      PROVE  /\ ss[k] \in Seq(HookIds)
             /\ \A p \in DOMAIN ss[k] : \E i \in of(k) : ss[k][p] = ids[i]
             /\ \A i \in of(k) : \E p \in DOMAIN ss[k] : ss[k][p] = ids[i]
             /\ \A p, q \in DOMAIN ss[k] : p < q =>
                    \E i, j \in of(k) : i < j /\ ids[i] = ss[k][p] /\ ids[j] = ss[k][q]
  <2> DEFINE f == of(k)
             x == Kept(ids, f)
  <2>1. f \in SUBSET (DOMAIN ids)
    OBVIOUS
  <2> HIDE DEF f
  <2>2. /\ x \in Seq(HookIds)
        /\ \A p \in DOMAIN x : \E i \in f : x[p] = ids[i]
        /\ \A i \in f : \E p \in DOMAIN x : x[p] = ids[i]
        /\ \A p, q \in DOMAIN x : p < q => \E i, j \in f : i < j /\ ids[i] = x[p] /\ ids[j] = x[q]
    BY <1>1, <2>1, KeptFacts
  <2>3. ss[k] = x
    BY <1>2 DEF f
  <2>4. f = of(k)
    BY DEF f
  <2> HIDE DEF x, of, ss
  <2> QED
    BY <2>2, <2>3, <2>4
<1>4. ss \in Seq(Seq(HookIds)) /\ Len(ss) = 2
  <2>1. ss = [k \in 1..2 |-> ss[k]]
    BY <1>1
  <2> HIDE DEF ss
  <2> QED
    BY <1>3, <2>1, IsASeq, LenProperties
<1> HIDE DEF ss
<1>5. r \in Seq(HookIds) /\ Flat(r, ss, 2)
  BY <1>4, Flattened
<1> HIDE DEF r
<1>6. \A i \in DOMAIN ids : \E k \in 1..2 : i \in of(k)
  <2> SUFFICES ASSUME NEW i \in DOMAIN ids PROVE \E k \in 1..2 : i \in of(k)
    OBVIOUS
  <2>1. PICK l \in at : ids[i] = m.hooks[l].id
    BY DEF Has
  <2>2. Hook(m, ids[i]) = m.hooks[l] /\ m.hooks[l].def \in Defs
    <3>1. m.hooks \in Seq(HookRecords) /\ l \in DOMAIN m.hooks
      BY DEF Managers
    <3>2. m.hooks[l] \in HookRecords
      BY <3>1
    <3> QED
      BY <2>1, <3>1, <3>2 DEF Finds, HookRecords
  <2>3. m.hooks[l].def.priority \in ToSet(Priorities)
    BY <2>2, DefsAssumption
  <2> QED
    BY <1>1, <2>2, <2>3 DEF ToSet
<1>7. \A k \in DOMAIN r : \E i \in at : r[k] = m.hooks[i].id
  <2> SUFFICES ASSUME NEW k \in DOMAIN r PROVE \E i \in at : r[k] = m.hooks[i].id
    OBVIOUS
  <2>1. PICK a \in 1..2 : \E p \in DOMAIN ss[a] : r[k] = ss[a][p]
    BY <1>5 DEF Flat
  <2>2. PICK i \in of(a) : r[k] = ids[i]
    BY <1>3, <2>1
  <2> QED
    BY <2>2 DEF Has
<1>8. \A i \in at : \E k \in DOMAIN r : r[k] = m.hooks[i].id
  <2> SUFFICES ASSUME NEW i \in at PROVE \E k \in DOMAIN r : r[k] = m.hooks[i].id
    OBVIOUS
  <2>1. PICK l \in DOMAIN ids : ids[l] = m.hooks[i].id
    BY DEF Has
  <2>2. PICK a \in 1..2 : l \in of(a)
    BY <1>6
  <2>3. PICK p \in DOMAIN ss[a] : ss[a][p] = ids[l]
    BY <1>3, <2>2
  <2> QED
    BY <1>5, <2>1, <2>3 DEF Flat
<1>9. ASSUME NEW x \in DOMAIN r, NEW y \in DOMAIN r, x < y PROVE Prior(m, r[x], r[y])
  <2>0. \A i, j \in DOMAIN r : i < j =>
            \E a, b \in 1..2 : \E p \in DOMAIN ss[a], q \in DOMAIN ss[b] :
                r[i] = ss[a][p] /\ r[j] = ss[b][q] /\ (a < b \/ (a = b /\ p < q))
    BY <1>5 DEF Flat
  <2>1. PICK a \in 1..2, b \in 1..2 : \E p \in DOMAIN ss[a], q \in DOMAIN ss[b] :
            r[x] = ss[a][p] /\ r[y] = ss[b][q] /\ (a < b \/ (a = b /\ p < q))
    BY <1>9, <2>0, Zenon
  <2>2. PICK p \in DOMAIN ss[a], q \in DOMAIN ss[b] :
            r[x] = ss[a][p] /\ r[y] = ss[b][q] /\ (a < b \/ (a = b /\ p < q))
    BY <2>1
  <2>3. PICK i \in of(a) : r[x] = ids[i]
    BY <1>3, <2>2
  <2>4. PICK j \in of(b) : r[y] = ids[j]
    BY <1>3, <2>2
  <2>5. Hook(m, r[x]).def.priority = Priorities[a] /\ Hook(m, r[y]).def.priority = Priorities[b]
    BY <2>3, <2>4
  <2>6. CASE a < b
    BY <2>5, <2>6, Ranks DEF Prior
  <2>7. CASE ~(a < b)
    <3>1. a = b /\ p < q
      BY <2>2, <2>7
    <3>2. PICK u \in of(a), v \in of(a) : u < v /\ ids[u] = ss[a][p] /\ ids[v] = ss[a][q]
      BY <1>3, <2>2, <3>1
    <3>3. Patterned(m, r[x], r[y])
      BY <2>2, <3>1, <3>2
    <3> QED
      BY <2>5, <3>1, <3>3 DEF Prior
  <2> QED
    BY <2>6, <2>7
<1>10. Has(m, r, at)
  BY <1>5, <1>7, <1>8 DEF Has
<1> QED
  BY <1>0, <1>9, <1>10

Typed(m, type, path) ==
    {i \in DOMAIN m.hooks : /\ m.hooks[i].enabled /\ m.hooks[i].def.type = type
                            /\ path \in Covers[m.hooks[i].def.pattern]}

Ranked(m, x, y) ==
    LET d == Hook(m, x).def
        e == Hook(m, y).def
    IN  \/ Rank(Subsets, d.subset) < Rank(Subsets, e.subset)
        \/ d.subset = e.subset /\ Prior(m, x, y)

LEMMA TypeFires ==
    ASSUME NEW m, m \in Managers, Agree(m), NEW type \in Types, NEW path, ~Quiet(m, path)
    PROVE  LET r == HooksFor(m, type, path)
           IN  Has(m, r, Typed(m, type, path)) /\ \A a, b \in DOMAIN r : a < b => Ranked(m, r[a], r[b])
<1> DEFINE slot(k) == <<type, Subsets[k]>>
           one(k) == Sorted(m, OfSlot(m, m.groups[slot(k)], path))
           ss == [k \in DOMAIN Subsets |-> one(k)]
           r == FlattenSeq(ss)
<1>0. HooksFor(m, type, path) = r
  BY DEF HooksFor
<1>1. Finds(m) /\ DOMAIN Subsets = 1..3
  BY HookFound, Ranks DEF Agree
<1>2. \A k \in 1..3 : ss[k] = one(k)
  BY <1>1
<1>3. ASSUME NEW k \in 1..3
      PROVE  /\ ss[k] \in Seq(HookIds) /\ Has(m, ss[k], Wanted(m, slot(k), path))
             /\ \A p, q \in DOMAIN ss[k] : p < q => Prior(m, ss[k][p], ss[k][q])
  <2> DEFINE s == slot(k)
             at == Wanted(m, s, path)
             ids == OfSlot(m, m.groups[s], path)
             x == Sorted(m, ids)
  <2>1. s \in Slots
    BY <1>1 DEF Slots, ToSet
  <2> HIDE DEF s
  <2>2. SlotAgrees(s, m.hooks, m.groups[s])
    BY <2>1 DEF Agree
  <2>3. Has(m, ids, at) /\ \A a, b \in DOMAIN ids : a < b => Patterned(m, ids[a], ids[b])
    BY <1>1, <2>1, <2>2, SlotFires
  <2>4. at \in SUBSET (DOMAIN m.hooks)
    BY DEF Wanted
  <2>5. Has(m, x, at) /\ \A a, b \in DOMAIN x : a < b => Prior(m, x[a], x[b])
    <3> HIDE DEF at, ids
    <3> QED
      BY <1>1, <2>3, <2>4, SortedFires
  <2>6. ss[k] = x
    BY <1>2 DEF s
  <2> HIDE DEF x
  <2> QED
    BY <2>5, <2>6 DEF Has, s
<1>4. ss \in Seq(Seq(HookIds)) /\ Len(ss) = 3
  <2>1. ss = [k \in 1..3 |-> ss[k]]
    BY <1>1
  <2> HIDE DEF ss
  <2> QED
    BY <1>3, <2>1, IsASeq, LenProperties
<1> HIDE DEF ss
<1>5. r \in Seq(HookIds) /\ Flat(r, ss, 3)
  BY <1>4, Flattened
<1> HIDE DEF r
<1>6. \A k \in 1..3 : \A i \in Wanted(m, slot(k), path) :
          i \in Typed(m, type, path) /\ Hook(m, m.hooks[i].id).def.subset = Subsets[k]
  BY <1>1 DEF Wanted, Typed, Slot, Finds
<1>7. \A i \in Typed(m, type, path) : \E k \in 1..3 : i \in Wanted(m, slot(k), path)
  <2> SUFFICES ASSUME NEW i \in Typed(m, type, path) PROVE \E k \in 1..3 : i \in Wanted(m, slot(k), path)
    OBVIOUS
  <2>1. i \in DOMAIN m.hooks /\ m.hooks \in Seq(HookRecords)
    BY DEF Typed, Managers
  <2>2. m.hooks[i].def \in Defs
    <3>1. m.hooks[i] \in HookRecords
      BY <2>1
    <3> QED
      BY <3>1 DEF HookRecords
  <2>3. PICK k \in 1..3 : Subsets[k] = m.hooks[i].def.subset
    BY <1>1, <2>2, DefsAssumption DEF ToSet
  <2> QED
    BY <2>1, <2>3 DEF Wanted, Typed, Slot
<1>8. \A k \in DOMAIN r : \E i \in Typed(m, type, path) : r[k] = m.hooks[i].id
  <2> SUFFICES ASSUME NEW k \in DOMAIN r PROVE \E i \in Typed(m, type, path) : r[k] = m.hooks[i].id
    OBVIOUS
  <2>1. PICK a \in 1..3 : \E p \in DOMAIN ss[a] : r[k] = ss[a][p]
    BY <1>5 DEF Flat
  <2>2. PICK i \in Wanted(m, slot(a), path) : r[k] = m.hooks[i].id
    BY <1>3, <2>1 DEF Has
  <2> QED
    BY <1>6, <2>2
<1>9. \A i \in Typed(m, type, path) : \E k \in DOMAIN r : r[k] = m.hooks[i].id
  <2> SUFFICES ASSUME NEW i \in Typed(m, type, path) PROVE \E k \in DOMAIN r : r[k] = m.hooks[i].id
    OBVIOUS
  <2>1. PICK a \in 1..3 : i \in Wanted(m, slot(a), path)
    BY <1>7
  <2>2. PICK p \in DOMAIN ss[a] : ss[a][p] = m.hooks[i].id
    BY <1>3, <2>1 DEF Has
  <2> QED
    BY <1>5, <2>2 DEF Flat
<1>10. ASSUME NEW x \in DOMAIN r, NEW y \in DOMAIN r, x < y PROVE Ranked(m, r[x], r[y])
  <2>0. \A i, j \in DOMAIN r : i < j =>
            \E a, b \in 1..3 : \E p \in DOMAIN ss[a], q \in DOMAIN ss[b] :
                r[i] = ss[a][p] /\ r[j] = ss[b][q] /\ (a < b \/ (a = b /\ p < q))
    BY <1>5 DEF Flat
  <2>1. PICK a \in 1..3, b \in 1..3 : \E p \in DOMAIN ss[a], q \in DOMAIN ss[b] :
            r[x] = ss[a][p] /\ r[y] = ss[b][q] /\ (a < b \/ (a = b /\ p < q))
    BY <1>10, <2>0, Zenon
  <2>2. PICK p \in DOMAIN ss[a], q \in DOMAIN ss[b] :
            r[x] = ss[a][p] /\ r[y] = ss[b][q] /\ (a < b \/ (a = b /\ p < q))
    BY <2>1
  <2>3. PICK i \in Wanted(m, slot(a), path) : r[x] = m.hooks[i].id
    BY <1>3, <2>2 DEF Has
  <2>4. PICK j \in Wanted(m, slot(b), path) : r[y] = m.hooks[j].id
    BY <1>3, <2>2 DEF Has
  <2>5. Hook(m, r[x]).def.subset = Subsets[a] /\ Hook(m, r[y]).def.subset = Subsets[b]
    BY <1>6, <2>3, <2>4
  <2>6. CASE a < b
    BY <2>5, <2>6, Ranks DEF Ranked
  <2>7. CASE ~(a < b)
    <3>1. a = b /\ p < q
      BY <2>2, <2>7
    <3> QED
      BY <1>3, <2>2, <2>5, <3>1 DEF Ranked
  <2> QED
    BY <2>6, <2>7
<1>11. Has(m, r, Typed(m, type, path))
  BY <1>5, <1>8, <1>9 DEF Has
<1> QED
  BY <1>0, <1>10, <1>11

LEMMA InvFires ==
    ASSUME HooksInv, clean, reload # "loaded", NEW type \in Types, NEW path \in Paths
    PROVE  LET ids == HooksFor(Current, type, path)
               def(i) == Hook(Current, ids[i]).def
           IN  /\ ~Quiet(Current, path) =>
                        ToSet(ids) = {expected[i].id : i \in Matching(type, path)}
               /\ \A i, j \in DOMAIN ids : i < j =>
                    /\ ~Earlier(def(j), def(i))
                    /\ ~Earlier(def(i), def(j)) /\ def(i).pattern = def(j).pattern =>
                            Before(expected, ids[i], ids[j])
<1> DEFINE m == Current
           ids == HooksFor(m, type, path)
           def(i) == Hook(m, ids[i]).def
<1>1. m \in Managers /\ Agree(m) /\ m.hooks = expected
  BY CurrentManager DEF HooksInv, Expected
<1> HIDE DEF m
<1>2. CASE Quiet(m, path)
  <2>1. ids = <<>> /\ DOMAIN ids = {}
    BY <1>2 DEF HooksFor
  <2> QED
    BY <1>2, <2>1 DEF m
<1>3. CASE ~Quiet(m, path)
  <2>1. Has(m, ids, Typed(m, type, path)) /\ \A a, b \in DOMAIN ids : a < b => Ranked(m, ids[a], ids[b])
    BY <1>1, <1>3, TypeFires
  <2>2. Typed(m, type, path) = Matching(type, path)
    BY <1>1 DEF Typed, Matching
  <2> HIDE DEF ids
  <2>3. ToSet(ids) = {expected[i].id : i \in Matching(type, path)}
    BY <1>1, <2>1, <2>2 DEF Has, ToSet
  <2>4. ASSUME NEW i \in DOMAIN ids, NEW j \in DOMAIN ids, i < j
        PROVE  /\ ~Earlier(def(j), def(i))
               /\ ~Earlier(def(i), def(j)) /\ def(i).pattern = def(j).pattern =>
                        Before(expected, ids[i], ids[j])
    <3> DEFINE d == Hook(m, ids[i]).def
               e == Hook(m, ids[j]).def
    <3>1. \A k \in DOMAIN ids : Hook(m, ids[k]).def \in Defs
      <4> SUFFICES ASSUME NEW k \in DOMAIN ids PROVE Hook(m, ids[k]).def \in Defs
        OBVIOUS
      <4>1. PICK n \in Typed(m, type, path) : ids[k] = m.hooks[n].id
        BY <2>1 DEF Has
      <4>2. n \in DOMAIN m.hooks /\ m.hooks \in Seq(HookRecords)
        BY <1>1 DEF Typed, Managers
      <4>3. m.hooks[n] \in HookRecords /\ Hook(m, ids[k]) = m.hooks[n]
        BY <1>1, <4>1, <4>2, HookFound DEF Finds, Agree
      <4> QED
        BY <4>3 DEF HookRecords
    <3>2. d \in Defs /\ e \in Defs
      BY <3>1
    <3>3. \A x \in Defs : Rank(Subsets, x.subset) \in Int /\ Rank(Priorities, x.priority) \in Int
      <4> SUFFICES ASSUME NEW x \in Defs
                   PROVE Rank(Subsets, x.subset) \in Int /\ Rank(Priorities, x.priority) \in Int
        OBVIOUS
      <4>1. PICK k \in 1..3 : Subsets[k] = x.subset
        BY DefsAssumption, Ranks DEF ToSet
      <4>2. PICK l \in 1..2 : Priorities[l] = x.priority
        BY DefsAssumption, Ranks DEF ToSet
      <4>3. Rank(Subsets, x.subset) = k /\ Rank(Priorities, x.priority) = l
        BY <4>1, <4>2, Ranks
      <4> QED
        BY <4>3
    <3>4. \/ Rank(Subsets, d.subset) < Rank(Subsets, e.subset)
          \/ /\ d.subset = e.subset
             /\ \/ Rank(Priorities, d.priority) < Rank(Priorities, e.priority)
                \/ /\ d.priority = e.priority
                   /\ d.pattern = e.pattern => Before(m.hooks, ids[i], ids[j])
      BY <2>1, <2>4 DEF Ranked, Prior, Patterned
    <3>5. /\ Rank(Subsets, d.subset) \in Int /\ Rank(Priorities, d.priority) \in Int
          /\ Rank(Subsets, e.subset) \in Int /\ Rank(Priorities, e.priority) \in Int
      BY <3>2, <3>3
    <3> HIDE DEF d, e
    <3>6. /\ ~Earlier(e, d)
          /\ ~Earlier(d, e) /\ d.pattern = e.pattern => Before(m.hooks, ids[i], ids[j])
      BY <3>4, <3>5 DEF Earlier
    <3> QED
      BY <1>1, <3>6 DEF d, e
  <2> QED
    BY <2>3, <2>4 DEF ids, m
<1> QED
  BY <1>2, <1>3

\* For every call the hooks that the host may expect fire and no others, by
\* subset, by priority and in the order of registration, whatever was removed,
\* switched or reloaded before.
THEOREM AlwaysFiresInOrder == Spec => []FiringOrder
<1>1. HooksInv => FiringOrder
  BY InvFires DEF FiringOrder
<1> QED
  BY <1>1, HooksInvHolds, PTL

-----------------------------------------------------------------------------
(* Calls with hooks.  A call has run one of a few sequences of hooks,      *)
(* which depends on its state and on what has become of its error: an      *)
(* error that is marked was reported by one call, one that is inside a     *)
(* wrapper by every call.  A call that has not ended cannot have failed    *)
(* anybody.                                                                *)

Open == {"idle", "pending", "deferred"}
Ended == {"returned", "failed"}

Calm == {<<"before", "always">>, <<"before", "function", "after", "always">>}
Loud == {<<"before", "error", "always">>, <<"before", "function", "error", "always">>,
         <<"before", "function", "after", "error", "always">>,
         <<"before", "function", "after", "error", "error", "always">>}
Passed == <<"before", "function", "always">>

Shape(p, h, l, e, mk, wr) ==
    /\ p = "failed" => e # None
    /\ \/ p = "idle" /\ ~h /\ l = <<>> /\ e = None
       \/ p = "pending" /\ ~h /\ l = <<"function">> /\ e = None
       \/ p \in Ended /\ ~h /\ l = <<"function">>
       \/ p = "pending" /\ h /\ l = <<"before", "function">> /\ e = None
       \/ p = "deferred" /\ h /\ l = <<"before", "always">> /\ e = None
       \/ p \in Ended /\ h /\ l = <<"before", "always", "function">>
       \/ p \in Ended /\ h /\ l \in Calm /\ e = None
       \/ p \in Ended /\ h /\ l \in Loud \cup {Passed} /\ e \in mk /\ e \notin wr
       \/ p \in Ended /\ h /\ l = <<"before", "function", "error", "always">> /\ e \in wr

CallsTyped ==
    /\ pc \in [Calls -> Open \cup Ended]
    /\ gen \in [Calls -> 0..MaxReloads + 1]
    /\ hooked \in [Calls -> BOOLEAN]
    /\ log \in [Calls -> Seq(Phases)]
    /\ err \in [Calls -> Calls \cup {None}]
    /\ marked \subseteq Calls /\ wrapped \subseteq Calls

CallsShaped == \A c \in Calls : Shape(pc[c], hooked[c], log[c], err[c], marked, wrapped)

Tells(d, e) == err[d] = e /\ log[d] \in Loud
Errors ==
    /\ marked \cap wrapped = {}
    /\ \A c \in Calls : pc[c] \in Open => /\ c \notin marked /\ c \notin wrapped
                                          /\ \A d \in Calls : err[d] # c
    /\ \A e \in marked : \E d \in Calls : Tells(d, e) /\ \A x \in Calls : Tells(x, e) => x = d

CallsInv == HooksInv /\ CallsTyped /\ CallsShaped /\ Errors

Quieter == {<<>>, <<"function">>, <<"before", "function">>, <<"before", "always">>,
            <<"before", "always", "function">>, Passed}

LEMMA Loudness ==
    /\ \A l \in Loud : \E i \in DOMAIN l : l[i] = "error"
    /\ \A l \in Calm \cup Quieter : \A i \in DOMAIN l : l[i] # "error"
<1>1. ASSUME NEW l \in Loud PROVE \E i \in DOMAIN l : l[i] = "error"
  <2>1. CASE l = <<"before", "error", "always">>
    <3>1. 2 \in DOMAIN l /\ l[2] = "error"
      BY <2>1
    <3> QED
      BY <3>1
  <2>2. CASE l = <<"before", "function", "error", "always">>
    <3>1. 3 \in DOMAIN l /\ l[3] = "error"
      BY <2>2
    <3> QED
      BY <3>1
  <2>3. CASE l = <<"before", "function", "after", "error", "always">>
    <3>1. 4 \in DOMAIN l /\ l[4] = "error"
      BY <2>3
    <3> QED
      BY <3>1
  <2>4. CASE l = <<"before", "function", "after", "error", "error", "always">>
    <3>1. 4 \in DOMAIN l /\ l[4] = "error"
      BY <2>4
    <3> QED
      BY <3>1
  <2> QED
    BY <2>1, <2>2, <2>3, <2>4 DEF Loud
<1>2. ASSUME NEW l \in Calm PROVE \A i \in DOMAIN l : l[i] # "error"
  BY DEF Calm
<1>3. ASSUME NEW l \in Quieter PROVE \A i \in DOMAIN l : l[i] # "error"
  BY DEF Quieter, Passed
<1> QED
  BY <1>1, <1>2, <1>3

\* What becomes of the errors when a call ends, or begins.
Told(c, l, e) ==
    \/ UNCHANGED <<marked, wrapped>> /\ (e \in marked => l \notin Loud)
    \/ /\ e \in Calls /\ e \notin marked /\ e \notin wrapped /\ l \in Loud
       /\ marked' = marked \cup {e} /\ UNCHANGED wrapped
    \/ e = c /\ wrapped' = wrapped \cup {e} /\ UNCHANGED marked

LEMMA StepKeeps ==
    ASSUME CallsTyped, CallsShaped, Errors,
           NEW c \in Calls, pc[c] \in Open,
           NEW p \in Open \cup Ended, NEW h \in BOOLEAN, NEW l \in Seq(Phases), NEW e \in Calls \cup {None},
           pc' = [pc EXCEPT ![c] = p], hooked' = [hooked EXCEPT ![c] = h],
           log' = [log EXCEPT ![c] = l], err' = [err EXCEPT ![c] = e],
           gen' \in [Calls -> 0..MaxReloads + 1],
           Shape(p, h, l, e, marked', wrapped'),
           p \in Open => e = None,
           e = None \/ e = c \/ pc[e] \notin Open,
           Told(c, l, e)
    PROVE  CallsTyped' /\ CallsShaped' /\ Errors'
<1>1. /\ pc'[c] = p /\ hooked'[c] = h /\ log'[c] = l /\ err'[c] = e
      /\ \A d \in Calls \ {c} : pc'[d] = pc[d] /\ hooked'[d] = hooked[d] /\ log'[d] = log[d] /\ err'[d] = err[d]
  BY DEF CallsTyped
<1>2. c \in Calls /\ c # None /\ c \notin marked /\ c \notin wrapped /\ \A d \in Calls : err[d] # c
  BY CallsAssumption DEF Errors
<1>3. e = None => e \notin marked /\ e \notin wrapped
  BY CallsAssumption DEF CallsTyped
<1>4. marked \subseteq marked' /\ wrapped \subseteq wrapped' /\ wrapped' \subseteq wrapped \cup {c}
      /\ marked' \subseteq marked \cup {e}
  BY DEF Told
<1>5. CallsTyped'
  <2>1. marked' \subseteq Calls /\ wrapped' \subseteq Calls
    BY <1>2 DEF CallsTyped, Told
  <2> QED
    BY <2>1 DEF CallsTyped
<1>6. CallsShaped'
  <2> SUFFICES ASSUME NEW d \in Calls
               PROVE  Shape(pc'[d], hooked'[d], log'[d], err'[d], marked', wrapped')
    BY DEF CallsShaped
  <2>1. CASE d = c
    BY <1>1, <2>1
  <2>2. CASE d # c
    <3>1. Shape(pc[d], hooked[d], log[d], err[d], marked, wrapped)
      BY DEF CallsShaped
    <3>2. /\ err[d] \in marked => err[d] \in marked'
          /\ err[d] \in wrapped => err[d] \in wrapped'
          /\ err[d] \notin wrapped => err[d] \notin wrapped'
      BY <1>2, <1>4
    <3>3. Shape(pc[d], hooked[d], log[d], err[d], marked', wrapped')
      BY <3>1, <3>2 DEF Shape
    <3> QED
      BY <1>1, <2>2, <3>3
  <2> QED
    BY <2>1, <2>2
<1>7. marked' \cap wrapped' = {}
  BY <1>2, <1>3 DEF Told, Errors
<1>8. ASSUME NEW x \in Calls, pc'[x] \in Open
      PROVE  x \notin marked' /\ x \notin wrapped' /\ \A d \in Calls : err'[d] # x
  <2>1. CASE x = c
    <3>1. e = None
      BY <1>1, <1>8, <2>1
    <3>2. marked' = marked /\ wrapped' = wrapped
      BY <1>2, <3>1, CallsAssumption DEF Told
    <3> QED
      BY <1>1, <1>2, <2>1, <3>1, <3>2
  <2>2. CASE x # c
    <3>1. pc[x] \in Open /\ e # x
      BY <1>1, <1>8, <2>2, CallsAssumption
    <3>2. x \notin marked /\ x \notin wrapped /\ \A d \in Calls : err[d] # x
      BY <3>1 DEF Errors
    <3> QED
      BY <1>1, <1>4, <2>2, <3>1, <3>2
  <2> QED
    BY <2>1, <2>2
<1>9. ASSUME NEW x \in marked'
      PROVE  \E d \in Calls : Tells(d, x)' /\ \A y \in Calls : Tells(y, x)' => y = d
  <2>0. \A y \in Calls : y # c => (Tells(y, x)' <=> Tells(y, x))
    BY <1>1 DEF Tells
  <2>00. Tells(c, x)' <=> e = x /\ l \in Loud
    BY <1>1 DEF Tells
  <2>1. CASE x \in marked
    <3>1. PICK d \in Calls : Tells(d, x) /\ \A y \in Calls : Tells(y, x) => y = d
      BY <2>1 DEF Errors
    <3>2. err[c] = None
      BY CallsAssumption DEF CallsShaped, Shape, Open, Ended
    <3>3. d # c
      BY <2>1, <3>1, <3>2, CallsAssumption DEF CallsTyped, Tells
    <3>4. ~(e = x /\ l \in Loud)
      BY <1>2, <2>1 DEF Told
    <3> QED
      BY <2>0, <2>00, <3>1, <3>3, <3>4
  <2>2. CASE x \notin marked
    <3>1. x = e /\ e \notin marked /\ e \notin wrapped /\ l \in Loud
      BY <1>4, <2>2 DEF Told
    <3>2. \A y \in Calls : ~Tells(y, e)
      <4> SUFFICES ASSUME NEW y \in Calls, Tells(y, e) PROVE FALSE
        OBVIOUS
      <4>1. Shape(pc[y], hooked[y], log[y], err[y], marked, wrapped)
        BY DEF CallsShaped
      <4>2. err[y] = e /\ log[y] \in Loud
        BY DEF Tells
      <4>3. e # None
        BY <3>1, <1>5, CallsAssumption DEF CallsTyped
      <4>4. log[y] # <<>> /\ log[y] # <<"function">> /\ log[y] # <<"before", "always", "function">>
            /\ log[y] # <<"before", "function">> /\ log[y] # <<"before", "always">>
        BY <4>2, Loudness DEF Quieter
      <4> QED
        BY <3>1, <4>1, <4>2, <4>3, <4>4 DEF Shape
    <3> QED
      BY <2>0, <2>00, <3>1, <3>2
  <2> QED
    BY <2>1, <2>2
<1>10. Errors'
  BY <1>7, <1>8, <1>9 DEF Errors
<1> QED
  BY <1>5, <1>6, <1>10

CallsParts == CallsTyped /\ CallsShaped /\ Errors

Joins(x, y, z) ==
    /\ x \in Seq(Phases) /\ y \in Seq(Phases) /\ z \in Seq(Phases) /\ Len(z) = Len(x) + Len(y)
    /\ \A i \in 1..Len(x) : z[i] = x[i]
    /\ \A i \in 1..Len(y) : z[Len(x) + i] = y[i]

LEMMA Joined ==
    ASSUME NEW x, NEW y, NEW z, Joins(x, y, z)
    PROVE  x \o y = z
<1>0. /\ x \in Seq(Phases) /\ y \in Seq(Phases) /\ z \in Seq(Phases) /\ Len(z) = Len(x) + Len(y)
      /\ \A i \in 1..Len(x) : z[i] = x[i]
      /\ \A i \in 1..Len(y) : z[Len(x) + i] = y[i]
  BY DEF Joins
<1> DEFINE r == x \o y
<1>1. r \in Seq(Phases) /\ Len(r) = Len(x) + Len(y)
      /\ \A i \in 1..(Len(x) + Len(y)) : r[i] = IF i <= Len(x) THEN x[i] ELSE y[i - Len(x)]
  BY <1>0, ConcatProperties
<1> HIDE DEF r
<1>2. ASSUME NEW i \in 1..Len(z) PROVE z[i] = r[i]
  <2>0. Len(x) \in Nat /\ Len(y) \in Nat /\ i \in 1..(Len(x) + Len(y))
    BY <1>0
  <2>1. CASE i <= Len(x)
    BY <1>0, <1>1, <2>0, <2>1
  <2>2. CASE ~(i <= Len(x))
    <3>1. i - Len(x) \in 1..Len(y) /\ Len(x) + (i - Len(x)) = i
      BY <2>0, <2>2
    <3>2. z[Len(x) + (i - Len(x))] = y[i - Len(x)]
      BY <1>0, <3>1
    <3> QED
      BY <1>1, <2>0, <2>2, <3>1, <3>2
  <2> QED
    BY <2>1, <2>2
<1>3. r = z
  BY <1>0, <1>1, <1>2, SeqEqual
<1> QED
  BY <1>3 DEF r

LEMMA Sequels ==
    /\ <<"before", "function">> \o <<"after", "always">> = <<"before", "function", "after", "always">>
    /\ <<"before", "function">> \o <<"error", "always">> = <<"before", "function", "error", "always">>
    /\ <<"before", "function">> \o <<"always">> = Passed
    /\ <<"before", "function">> \o <<"after", "error", "always">>
            = <<"before", "function", "after", "error", "always">>
    /\ <<"before", "function">> \o <<"after", "error", "error", "always">>
            = <<"before", "function", "after", "error", "error", "always">>
    /\ <<"before", "always">> \o <<"function">> = <<"before", "always", "function">>
    /\ <<"function">> \o <<>> = <<"function">>
<1>1. <<"before", "function">> \o <<"after", "always">>
        = <<"before", "function", "after", "always">>
  <2>1. Joins(<<"before", "function">>, <<"after", "always">>,
              <<"before", "function", "after", "always">>)
    BY DEF Joins, Phases
  <2> QED
    BY <2>1, Joined
<1>2. <<"before", "function">> \o <<"error", "always">>
        = <<"before", "function", "error", "always">>
  <2>1. Joins(<<"before", "function">>, <<"error", "always">>,
              <<"before", "function", "error", "always">>)
    BY DEF Joins, Phases
  <2> QED
    BY <2>1, Joined
<1>3. <<"before", "function">> \o <<"always">>
        = Passed
  <2>1. Joins(<<"before", "function">>, <<"always">>,
              <<"before", "function", "always">>)
    BY DEF Joins, Phases
  <2> QED
    BY <2>1, Joined DEF Passed
<1>4. <<"before", "function">> \o <<"after", "error", "always">>
        = <<"before", "function", "after", "error", "always">>
  <2>1. Joins(<<"before", "function">>, <<"after", "error", "always">>,
              <<"before", "function", "after", "error", "always">>)
    BY DEF Joins, Phases
  <2> QED
    BY <2>1, Joined
<1>5. <<"before", "function">> \o <<"after", "error", "error", "always">>
        = <<"before", "function", "after", "error", "error", "always">>
  <2>1. Joins(<<"before", "function">>, <<"after", "error", "error", "always">>,
              <<"before", "function", "after", "error", "error", "always">>)
    BY DEF Joins, Phases
  <2> QED
    BY <2>1, Joined
<1>6. <<"before", "always">> \o <<"function">>
        = <<"before", "always", "function">>
  <2>1. Joins(<<"before", "always">>, <<"function">>,
              <<"before", "always", "function">>)
    BY DEF Joins, Phases
  <2> QED
    BY <2>1, Joined
<1>7. <<"function">> \o <<>> = <<"function">>
  <2>1. <<"function">> \in Seq(Phases)
    BY DEF Phases
  <2> QED
    BY <2>1, ConcatEmptySeq
<1> QED
  BY <1>1, <1>2, <1>3, <1>4, <1>5, <1>6, <1>7

LEMMA Logs ==
    /\ Loud \cup Calm \cup Quieter \subseteq Seq(Phases)
    /\ (Calm \cup Quieter) \cap Loud = {}
<1>1. (Calm \cup Quieter) \cap Loud = {}
  BY Loudness
<1>2. Loud \subseteq Seq(Phases)
  BY DEF Loud, Phases
<1>3. Calm \subseteq Seq(Phases)
  BY DEF Calm, Phases
<1>4. Quieter \subseteq Seq(Phases)
  BY DEF Quieter, Passed, Phases
<1> QED
  BY <1>1, <1>2, <1>3, <1>4

LEMMA StartKeeps ==
    ASSUME HooksInv, CallsParts, NEW c \in Calls,
           NEW l \in Loud \cup Calm \cup Quieter, NEW p \in Open \cup Ended, NEW e \in {None, c},
           Start(c, l, p, e),
           Shape(p, Current.enabled, l, e, marked', wrapped'),
           p \in Open => e = None,
           Told(c, l, e)
    PROVE  CallsParts'
<1> DEFINE h == Current.enabled
<1>1. h \in BOOLEAN
  BY CurrentManager DEF HooksInv, Managers
<1>2. gen' \in [Calls -> 0..MaxReloads + 1]
  <2>1. Len(mgr) \in Nat /\ Len(mgr) <= reloads + 1 /\ reloads \in 0..MaxReloads /\ MaxReloads \in Nat
    BY CurrentManager, BoundsAssumption DEF HooksInv, Counted, Bookkept
  <2>2. Len(mgr) \in 0..MaxReloads + 1
    BY <2>1
  <2>3. gen' = [gen EXCEPT ![c] = Len(mgr)] /\ gen \in [Calls -> 0..MaxReloads + 1]
    BY DEF Start, CallsParts, CallsTyped
  <2> QED
    BY <2>2, <2>3
<1>3. l \in Seq(Phases) /\ e \in Calls \cup {None} /\ (e = None \/ e = c)
  BY Logs
<1>4. /\ pc' = [pc EXCEPT ![c] = p] /\ hooked' = [hooked EXCEPT ![c] = h]
      /\ log' = [log EXCEPT ![c] = l] /\ err' = [err EXCEPT ![c] = e] /\ pc[c] \in Open
  BY DEF Start, Open
<1> HIDE DEF h
<1>5. Shape(p, h, l, e, marked', wrapped')
  BY DEF h
<1>6. CallsTyped /\ CallsShaped /\ Errors
  BY DEF CallsParts
<1> QED
  BY <1>1, <1>2, <1>3, <1>4, <1>5, <1>6, StepKeeps DEF CallsParts

LEMMA EndKeeps ==
    ASSUME CallsParts, NEW c \in Calls, pc[c] \in Open, NEW more,
           NEW l \in Loud \cup Calm \cup Quieter, log[c] \o more = l,
           NEW p \in Ended, NEW e \in Calls \cup {None},
           End(c, more, p, e),
           Shape(p, hooked[c], l, e, marked', wrapped'),
           e = None \/ e = c \/ pc[e] \notin Open,
           Told(c, l, e)
    PROVE  CallsParts'
<1> DEFINE h == hooked[c]
<1>1. h \in BOOLEAN /\ gen' \in [Calls -> 0..MaxReloads + 1] /\ hooked' = [hooked EXCEPT ![c] = h]
  BY DEF CallsParts, CallsTyped, End
<1>2. l \in Seq(Phases)
  BY Logs
<1>3. /\ pc' = [pc EXCEPT ![c] = p] /\ err' = [err EXCEPT ![c] = e] /\ p \notin Open /\ p \in Open \cup Ended
  BY DEF End, Open, Ended
<1>4. log' = [log EXCEPT ![c] = l]
  BY DEF End
<1> HIDE DEF h
<1>5. Shape(p, h, l, e, marked', wrapped')
  BY DEF h
<1>6. CallsTyped /\ CallsShaped /\ Errors
  BY DEF CallsParts
<1> QED
  BY <1>1, <1>2, <1>3, <1>4, <1>5, <1>6, StepKeeps DEF CallsParts

LEMMA Unblamed ==
    ASSUME CallsParts, NEW c \in Calls, pc[c] \in Open
    PROVE  c \notin marked /\ c \notin wrapped /\ c # None /\ err[c] = None /\ None \notin marked
<1> QED
  BY CallsAssumption DEF CallsParts, CallsTyped, CallsShaped, Shape, Errors, Open, Ended

LEMMA StartPlainKeeps ==
    ASSUME HooksInv, CallsParts, NEW c \in Calls, StartPlain(c)
    PROVE  CallsParts'
<1>1. <<"function">> \in Loud \cup Calm \cup Quieter /\ <<"function">> \notin Loud /\ ~Current.enabled
  BY Logs DEF Quieter, StartPlain
<1>2. pc[c] \in Open /\ c \notin marked /\ c # None
  BY CallsAssumption, Unblamed DEF StartPlain, Start, Open
<1>3. CASE (\E state \in {"returned", "pending"} : Start(c, <<"function">>, state, None)) /\ NoError
  <2>1. PICK state \in {"returned", "pending"} : Start(c, <<"function">>, state, None)
    BY <1>3
  <2>2. state \in Open \cup Ended /\ None \in {None, c}
    BY DEF Open, Ended
  <2>3. Shape(state, Current.enabled, <<"function">>, None, marked', wrapped')
    BY <1>1 DEF Shape, Ended
  <2>4. Told(c, <<"function">>, None)
    BY <1>1, <1>3 DEF Told, NoError
  <2> QED
    BY <1>1, <2>1, <2>2, <2>3, <2>4, StartKeeps
<1>4. CASE Start(c, <<"function">>, Outcome, c) /\ Wrap(c)
  <2>1. Outcome \in Open \cup Ended /\ Outcome \notin Open /\ c \in {None, c}
    BY DEF Outcome, Open, Ended
  <2>2. Shape(Outcome, Current.enabled, <<"function">>, c, marked', wrapped')
    BY <1>1, <1>2, <2>1 DEF Shape
  <2>3. Told(c, <<"function">>, c)
    BY <1>4 DEF Told, Wrap
  <2> QED
    BY <1>1, <1>4, <2>1, <2>2, <2>3, StartKeeps
<1> QED
  BY <1>3, <1>4 DEF StartPlain

LEMMA OutcomeEnded == Outcome \in Ended /\ Outcome \in Open \cup Ended /\ Outcome \notin Open
BY DEF Outcome, Open, Ended

\* A call with hooks that ends with an error of its own, reported.
LEMMA ReportKeeps ==
    ASSUME HooksInv, CallsParts, NEW c \in Calls, Current.enabled, NEW l \in Loud,
           Start(c, l, Outcome, c), Report(c)
    PROVE  CallsParts'
<1>1. pc[c] \in Open
  BY DEF Start, Open
<1>2. c \notin marked /\ c \notin wrapped
  BY <1>1, Unblamed
<1>3. marked' = marked \cup {c} /\ wrapped' = wrapped
  BY <1>2 DEF Report
<1>4. Shape(Outcome, Current.enabled, l, c, marked', wrapped')
  BY <1>2, <1>3, OutcomeEnded, CallsAssumption DEF Shape
<1>5. Told(c, l, c)
  BY <1>2, <1>3 DEF Told
<1> QED
  BY <1>4, <1>5, OutcomeEnded, StartKeeps

LEMMA CalmKeeps ==
    ASSUME HooksInv, CallsParts, NEW c \in Calls, Current.enabled, NEW p \in Open \cup Ended,
           NEW l \in Calm \cup Quieter,
           Start(c, l, p, None), NoError,
           \/ p = "returned" /\ l \in Calm
           \/ p = "pending" /\ l = <<"before", "function">>
           \/ p = "deferred" /\ l = <<"before", "always">>
    PROVE  CallsParts'
<1>1. l \notin Loud /\ None \in {None, c}
  BY Logs
<1>2. Shape(p, Current.enabled, l, None, marked', wrapped')
  BY DEF Shape, Ended
<1>3. Told(c, l, None)
  BY <1>1 DEF Told, NoError
<1> QED
  BY <1>1, <1>2, <1>3, StartKeeps

LEMMA StartsKeep ==
    ASSUME HooksInv, CallsParts, NEW c \in Calls,
           ShortCircuit(c) \/ StartSync(c) \/ StartAsync(c) \/ StartDeferred(c)
    PROVE  CallsParts'
<1>0. Current.enabled /\ "returned" \in Ended /\ "returned" \in Open \cup Ended
      /\ "pending" \in Open \cup Ended /\ "deferred" \in Open \cup Ended
  BY DEF ShortCircuit, StartSync, StartAsync, StartDeferred, Open, Ended
<1>1. CASE ShortCircuit(c)
  <2>1. CASE Start(c, <<"before", "always">>, "returned", None) /\ NoError
    <3>1. <<"before", "always">> \in Calm
      BY DEF Calm
    <3> QED
      BY <1>0, <2>1, <3>1, CalmKeeps
  <2>2. CASE Start(c, <<"before", "error", "always">>, Outcome, c) /\ Report(c)
    <3>1. <<"before", "error", "always">> \in Loud
      BY DEF Loud
    <3> QED
      BY <1>0, <2>2, <3>1, ReportKeeps
  <2> QED
    BY <1>1, <2>1, <2>2 DEF ShortCircuit
<1>2. CASE StartSync(c)
  <2>1. CASE Start(c, <<"before", "function", "after", "always">>, "returned", None) /\ NoError
    <3>1. <<"before", "function", "after", "always">> \in Calm
      BY DEF Calm
    <3> QED
      BY <1>0, <2>1, <3>1, CalmKeeps
  <2>2. CASE Start(c, <<"before", "function", "error", "always">>, Outcome, c) /\ Wrap(c)
    <3> DEFINE l == <<"before", "function", "error", "always">>
    <3>1. l \in Loud
      BY DEF Loud
    <3>2. marked' = marked /\ wrapped' = wrapped \cup {c} /\ c \in wrapped'
      BY <2>2 DEF Wrap
    <3>3. Shape(Outcome, Current.enabled, l, c, marked', wrapped')
      BY <1>0, <3>2, OutcomeEnded, CallsAssumption DEF Shape
    <3> HIDE DEF l
    <3>4. Told(c, l, c)
      BY <3>2 DEF Told
    <3>5. Start(c, l, Outcome, c)
      BY <2>2 DEF l
    <3> QED
      BY <3>1, <3>3, <3>4, <3>5, OutcomeEnded, StartKeeps
  <2>3. CASE Start(c, <<"before", "function", "after", "error", "always">>, Outcome, c) /\ Report(c)
    <3>1. <<"before", "function", "after", "error", "always">> \in Loud
      BY DEF Loud
    <3> QED
      BY <1>0, <2>3, <3>1, ReportKeeps
  <2> QED
    BY <1>2, <2>1, <2>2, <2>3 DEF StartSync
<1>3. CASE StartAsync(c)
  <2>1. <<"before", "function">> \in Quieter
    BY DEF Quieter
  <2> QED
    BY <1>0, <1>3, <2>1, CalmKeeps DEF StartAsync
<1>4. CASE StartDeferred(c)
  <2>1. <<"before", "always">> \in Quieter
    BY DEF Quieter
  <2> QED
    BY <1>0, <1>4, <2>1, CalmKeeps DEF StartDeferred
<1> QED
  BY <1>1, <1>2, <1>3, <1>4

\* What a call that waits has run.
LEMMA Waiting ==
    ASSUME CallsParts, NEW c \in Calls
    PROVE  /\ pc[c] = "pending" => log[c] = IF hooked[c] THEN <<"before", "function">> ELSE <<"function">>
           /\ pc[c] = "deferred" => hooked[c] /\ log[c] = <<"before", "always">>
BY DEF CallsParts, CallsShaped, Shape, Ended

LEMMA EndDeferredKeeps ==
    ASSUME CallsParts, NEW c \in Calls, EndDeferred(c)
    PROVE  CallsParts'
<1> DEFINE l == <<"before", "always", "function">>
<1>1. hooked[c] /\ log[c] \o <<"function">> = l /\ pc[c] \in Open
  BY Waiting, Sequels DEF EndDeferred, Open
<1>2. l \in Quieter
  BY DEF Quieter
<1> HIDE DEF l
<1>3. l \in Loud \cup Calm \cup Quieter /\ l \notin Loud
  BY <1>2, Logs
<1>4. \A p \in Ended : \A e : (p = "failed" => e # None) => Shape(p, hooked[c], l, e, marked', wrapped')
  BY <1>1 DEF Shape, l
<1>5. PICK p \in Ended, e \in {None, c} : /\ End(c, <<"function">>, p, e) /\ (NoError \/ (Wrap(c) /\ e = c))
                                          /\ p = "failed" => e = c
  BY DEF EndDeferred, Ended
<1>8. Shape(p, hooked[c], l, e, marked', wrapped')
  BY <1>1, <1>4, <1>5, Unblamed
<1>6. Told(c, l, e)
  BY <1>3, <1>5 DEF Told, NoError, Wrap
<1>7. e \in Calls \cup {None} /\ (e = None \/ e = c \/ pc[e] \notin Open)
  OBVIOUS
<1> QED
  BY <1>1, <1>3, <1>5, <1>6, <1>7, <1>8, EndKeeps

LEMMA ResolveKeeps ==
    ASSUME CallsParts, NEW c \in Calls, Resolve(c)
    PROVE  CallsParts'
<1> DEFINE more == IF hooked[c] THEN <<"after", "always">> ELSE <<>>
           l == IF hooked[c] THEN <<"before", "function", "after", "always">> ELSE <<"function">>
<1>1. pc[c] = "pending" /\ pc[c] \in Open /\ End(c, more, "returned", None) /\ NoError /\ "returned" \in Ended
  BY DEF Resolve, Open, Ended
<1>2. log[c] \o more = l
  BY <1>1, Waiting, Sequels
<1>3. l \in Calm \cup Quieter
  BY DEF Calm, Quieter
<1>4. Shape("returned", hooked[c], l, None, marked', wrapped')
  BY DEF Shape, Ended, Calm
<1> HIDE DEF l, more
<1>5. l \in Loud \cup Calm \cup Quieter /\ l \notin Loud
  BY <1>3, Logs
<1>6. Told(c, l, None)
  BY <1>1, <1>5 DEF Told, NoError
<1> QED
  BY <1>1, <1>2, <1>4, <1>5, <1>6, EndKeeps

LEMMA AfterFailsKeeps ==
    ASSUME CallsParts, NEW c \in Calls, AfterFails(c)
    PROVE  CallsParts'
<1> DEFINE more == IF SuppressErrors THEN <<"after", "error", "always">>
                   ELSE <<"after", "error", "error", "always">>
           l == IF SuppressErrors THEN <<"before", "function", "after", "error", "always">>
                ELSE <<"before", "function", "after", "error", "error", "always">>
<1>1. pc[c] = "pending" /\ pc[c] \in Open /\ hooked[c] /\ End(c, more, Outcome, c) /\ Report(c)
  BY DEF AfterFails, Open
<1>2. log[c] \o more = l
  BY <1>1, Waiting, Sequels
<1>3. l \in Loud
  BY DEF Loud
<1> HIDE DEF l, more
<1>4. c \notin marked /\ c \notin wrapped
  BY <1>1, Unblamed
<1>5. marked' = marked \cup {c} /\ wrapped' = wrapped
  BY <1>1, <1>4 DEF Report
<1>6. Shape(Outcome, hooked[c], l, c, marked', wrapped')
  BY <1>1, <1>3, <1>4, <1>5, OutcomeEnded, CallsAssumption DEF Shape
<1>7. Told(c, l, c)
  BY <1>3, <1>4, <1>5 DEF Told
<1> QED
  BY <1>1, <1>2, <1>3, <1>6, <1>7, OutcomeEnded, EndKeeps

LEMMA RejectKeeps ==
    ASSUME CallsParts, NEW c \in Calls, Reject(c)
    PROVE  CallsParts'
<1>1. PICK e \in {c} \cup {err[d] : d \in {x \in Calls : pc[x] = "failed"}} :
        /\ End(c, IF ~hooked[c] THEN <<>>
                  ELSE IF e \in marked THEN <<"always">> ELSE <<"error", "always">>, Outcome, e)
        /\ IF hooked[c] THEN Report(e) ELSE NoError
  BY DEF Reject
<1>2. pc[c] = "pending" /\ pc[c] \in Open
  BY DEF Reject, Open
<1>3. e \in Calls /\ e # None /\ e \in Calls \cup {None} /\ (e = None \/ e = c \/ pc[e] \notin Open)
  <2>1. \A d \in Calls : pc[d] = "failed" => err[d] \in Calls
    BY DEF CallsParts, CallsTyped, CallsShaped, Shape
  <2> QED
    BY <2>1, CallsAssumption DEF CallsParts, Errors
<1>4. CASE ~hooked[c]
  <2>1. log[c] \o <<>> = <<"function">> /\ End(c, <<>>, Outcome, e) /\ NoError
    BY <1>1, <1>2, <1>4, Waiting, Sequels
  <2>2. <<"function">> \in Quieter
    BY DEF Quieter
  <2>3. <<"function">> \in Loud \cup Calm \cup Quieter /\ <<"function">> \notin Loud
    BY <2>2, Logs
  <2>4. Shape(Outcome, hooked[c], <<"function">>, e, marked', wrapped')
    BY <1>3, <1>4, OutcomeEnded DEF Shape
  <2>5. Told(c, <<"function">>, e)
    BY <2>1, <2>3 DEF Told, NoError
  <2> QED
    BY <1>2, <1>3, <2>1, <2>3, <2>4, <2>5, OutcomeEnded, EndKeeps
<1>5. CASE hooked[c] /\ e \in marked
  <2>1. log[c] \o <<"always">> = Passed /\ End(c, <<"always">>, Outcome, e) /\ Report(e)
    BY <1>1, <1>2, <1>5, Waiting, Sequels
  <2>2. e \notin wrapped /\ UNCHANGED <<marked, wrapped>>
    BY <1>5, <2>1 DEF CallsParts, Errors, Report
  <2>3. Passed \in Quieter
    BY DEF Quieter
  <2>4. Passed \in Loud \cup Calm \cup Quieter /\ Passed \notin Loud
    BY <2>3, Logs
  <2>5. Shape(Outcome, hooked[c], Passed, e, marked', wrapped')
    BY <1>3, <1>5, <2>2, OutcomeEnded DEF Shape
  <2>6. Told(c, Passed, e)
    BY <2>2, <2>4 DEF Told
  <2> QED
    BY <1>2, <1>3, <2>1, <2>4, <2>5, <2>6, OutcomeEnded, EndKeeps
<1>6. CASE hooked[c] /\ e \notin marked
  <2> DEFINE l == <<"before", "function", "error", "always">>
  <2>1. log[c] \o <<"error", "always">> = l /\ End(c, <<"error", "always">>, Outcome, e) /\ Report(e)
    BY <1>1, <1>2, <1>6, Waiting, Sequels
  <2>2. l \in Loud
    BY DEF Loud
  <2>4. CASE e \in wrapped
    <3>1. UNCHANGED <<marked, wrapped>>
      BY <2>1, <2>4 DEF Report
    <3>2. Shape(Outcome, hooked[c], l, e, marked', wrapped')
      BY <1>3, <1>6, <2>4, <3>1, OutcomeEnded DEF Shape
    <3> HIDE DEF l
    <3>3. Told(c, l, e)
      BY <1>6, <3>1 DEF Told
    <3> QED
      BY <1>2, <1>3, <2>1, <2>2, <3>2, <3>3, OutcomeEnded, EndKeeps
  <2>5. CASE e \notin wrapped
    <3> HIDE DEF l
    <3>1. marked' = marked \cup {e} /\ wrapped' = wrapped
      BY <2>1, <2>5 DEF Report
    <3>2. Shape(Outcome, hooked[c], l, e, marked', wrapped')
      BY <1>3, <1>6, <2>2, <2>5, <3>1, OutcomeEnded DEF Shape
    <3>3. Told(c, l, e)
      BY <1>6, <1>3, <2>2, <2>5, <3>1 DEF Told
    <3> QED
      BY <1>2, <1>3, <2>1, <2>2, <3>2, <3>3, OutcomeEnded, EndKeeps
  <2> QED
    BY <2>4, <2>5
<1> QED
  BY <1>4, <1>5, <1>6

LEMMA CallsInvInit ==
    ASSUME CallsInit
    PROVE  CallsInv
<1>1. HooksInv
  BY HooksInvInit DEF CallsInit
<1>2. CallsTyped
  <2>1. 0 \in 0..MaxReloads + 1
    BY BoundsAssumption
  <2>2. <<>> \in Seq(Phases)
    OBVIOUS
  <2> QED
    BY <2>1, <2>2 DEF CallsInit, CallsTyped, Open
<1>3. CallsShaped
  BY DEF CallsInit, CallsShaped, Shape
<1>4. Errors
  BY CallsAssumption DEF CallsInit, Errors
<1> QED
  BY <1>1, <1>2, <1>3, <1>4 DEF CallsInv

LEMMA CallsInvNext ==
    ASSUME CallsInv, [CallsNext]_allVars
    PROVE  CallsInv'
<1>0. HooksInv /\ CallsParts
  BY DEF CallsInv, CallsParts
<1>1. CASE UNCHANGED calls /\ [Next]_vars
  <2>1. HooksInv'
    BY <1>0, <1>1, HooksInvNext
  <2>2. CallsParts'
    BY <1>0, <1>1 DEF calls, CallsParts, CallsTyped, CallsShaped, Errors, Tells
  <2> QED
    BY <2>1, <2>2 DEF CallsInv, CallsParts
<1>2. CASE CallNext
  <2>1. PICK c \in Calls :
            \/ StartPlain(c) \/ ShortCircuit(c) \/ StartSync(c) \/ StartAsync(c) \/ StartDeferred(c)
            \/ EndDeferred(c) \/ Resolve(c) \/ AfterFails(c) \/ Reject(c)
    BY <1>2 DEF CallNext
  <2>2. UNCHANGED vars
    BY <2>1 DEF StartPlain, ShortCircuit, StartSync, StartAsync, StartDeferred, Start,
                EndDeferred, Resolve, AfterFails, Reject, End, vars
  <2>3. HooksInv'
    BY <1>0, <2>2, HooksInvNext
  <2>4. CallsParts'
    BY <1>0, <2>1, StartPlainKeeps, StartsKeep, EndDeferredKeeps, ResolveKeeps, AfterFailsKeeps, RejectKeeps
  <2> QED
    BY <2>3, <2>4 DEF CallsInv, CallsParts
<1> QED
  BY <1>1, <1>2 DEF CallsNext, allVars

LEMMA CallsInvHolds == CallsSpec => []CallsInv
<1>1. CallsInit => CallsInv
  BY CallsInvInit
<1>2. CallsInv /\ [CallsNext]_allVars => CallsInv'
  BY CallsInvNext
<1> QED
  BY <1>1, <1>2, PTL DEF CallsSpec

\* Calls read the manager and never write it: with them in flight the hooks
\* and the reload behave as they do without.
THEOREM CallsImplementHooks == CallsSpec => Spec
<1>1. CallsInit => Init
  BY DEF CallsInit
<1>2. [CallsNext]_allVars => [Next]_vars
  BY DEF CallsNext, CallNext, allVars, vars, StartPlain, ShortCircuit, StartSync, StartAsync,
         StartDeferred, Start, EndDeferred, Resolve, AfterFails, Reject, End
<1> QED
  BY <1>1, <1>2, PTL DEF CallsSpec, Spec

\* Every call has its manager, its hooks and its error, for any hooks, calls
\* and reloads.
THEOREM CallTypes == CallsSpec => []CallsTypeOK
<1>1. CallsInv => CallsTypeOK
  BY InvTypes DEF CallsInv, CallsTyped, CallsTypeOK, Open, Ended
<1> QED
  BY <1>1, CallsInvHolds, PTL

\* What a log that ended with the always hooks is.
LEMMA LastAlways ==
    ASSUME NEW l \in Calm \cup Loud \cup {Passed}
    PROVE  Last(l) = "always" /\ Cardinality({i \in DOMAIN l : l[i] = "always"}) = 1
<1>1. Len(l) \in DOMAIN l /\ l[Len(l)] = "always" /\ \A i \in DOMAIN l : l[i] = "always" => i = Len(l)
  <2>1. CASE l = <<"before", "always">>
    BY <2>1
  <2>2. CASE l = <<"before", "function", "after", "always">>
    BY <2>2
  <2>3. CASE l = <<"before", "error", "always">>
    BY <2>3
  <2>4. CASE l = <<"before", "function", "error", "always">>
    BY <2>4
  <2>5. CASE l = <<"before", "function", "after", "error", "always">>
    BY <2>5
  <2>6. CASE l = <<"before", "function", "after", "error", "error", "always">>
    BY <2>6
  <2>7. CASE l = Passed
    BY <2>7 DEF Passed
  <2> QED
    BY <2>1, <2>2, <2>3, <2>4, <2>5, <2>6, <2>7 DEF Calm, Loud
<1>2. {i \in DOMAIN l : l[i] = "always"} = {Len(l)}
  BY <1>1
<1> QED
  BY <1>1, <1>2, FS_Singleton DEF Last

LEMMA LateAlways ==
    ASSUME NEW c \in Calls, log[c] = <<"before", "always", "function">>
    PROVE  Deferred(c)
<1> DEFINE l == <<"before", "always", "function">>
<1>1. l \in Seq(Phases) /\ Len(l) = 3
  BY DEF Phases
<1>2. 3 \in DOMAIN l /\ l[3] = "function" /\ l[2] = "always"
  OBVIOUS
<1> HIDE DEF l
<1>3. SubSeq(l, 1, 2) \in Seq(Phases) /\ Len(SubSeq(l, 1, 2)) = 2 /\ SubSeq(l, 1, 2)[2] = l[2]
  BY <1>1
<1>4. "function" \in ToSet(l) /\ "always" \in ToSet(SubSeq(l, 1, 2))
  BY <1>2, <1>3 DEF ToSet
<1> QED
  BY <1>4 DEF Deferred, l

LEMMA InvAlways ==
    ASSUME CallsInv
    PROVE  AlwaysOnceAndLast
<1> SUFFICES ASSUME NEW c \in Calls
             PROVE  /\ hooked[c] /\ Done(c) /\ ~Deferred(c) => Count(c, "always") = 1 /\ Last(log[c]) = "always"
                    /\ pc[c] = "pending" => Count(c, "always") = 0
  BY DEF AlwaysOnceAndLast
<1>1. Shape(pc[c], hooked[c], log[c], err[c], marked, wrapped)
  BY DEF CallsInv, CallsShaped
<1>2. ASSUME hooked[c], Done(c), ~Deferred(c)
      PROVE  Count(c, "always") = 1 /\ Last(log[c]) = "always"
  <2>1. log[c] # <<"before", "always", "function">>
    BY <1>2, LateAlways
  <2>2. <<"before", "function", "error", "always">> \in Loud
    BY DEF Loud
  <2>3. log[c] \in Calm \cup Loud \cup {Passed}
    BY <1>1, <1>2, <2>1, <2>2 DEF Shape, Done
  <2> QED
    BY <2>3, LastAlways DEF Count
<1>3. ASSUME pc[c] = "pending"
      PROVE  Count(c, "always") = 0
  <2>1. log[c] \in {<<"function">>, <<"before", "function">>}
    BY <1>1, <1>3 DEF Shape, Ended
  <2>2. {i \in DOMAIN log[c] : log[c][i] = "always"} = {}
    BY <2>1
  <2> QED
    BY <2>2, FS_EmptySet DEF Count
<1> QED
  BY <1>2, <1>3

\* Whatever answers, throws, rejects, is switched off or reloaded meanwhile, a
\* call that began with hooks runs the always hooks once, and last.
THEOREM AlwaysHooksRunOnce == CallsSpec => []AlwaysOnceAndLast
BY InvAlways, CallsInvHolds, PTL

LEMMA LoudCounts ==
    ASSUME CallsInv, NEW c \in Calls
    PROVE  Count(c, "error") > 0 <=> log[c] \in Loud
<1> DEFINE at == {i \in DOMAIN log[c] : log[c][i] = "error"}
<1>1. log[c] \in Seq(Phases) /\ log[c] \in Loud \cup Calm \cup Quieter
  <2>1. Shape(pc[c], hooked[c], log[c], err[c], marked, wrapped)
    BY DEF CallsInv, CallsShaped
  <2>2. <<"before", "function", "error", "always">> \in Loud
    BY DEF Loud
  <2> QED
    BY <2>1, <2>2 DEF Shape, Quieter, CallsInv, CallsTyped
<1>2. at # {} <=> log[c] \in Loud
  BY <1>1, Loudness
<1>3. IsFiniteSet(at)
  <2>1. Len(log[c]) \in Nat /\ at \subseteq 1..Len(log[c])
    BY <1>1
  <2> QED
    BY <2>1, FS_Interval, FS_Subset
<1>4. Cardinality(at) \in Nat /\ (Cardinality(at) = 0 <=> at = {})
  BY <1>3, FS_CardinalityType, FS_EmptySet
<1> HIDE DEF at
<1>5. Cardinality(at) > 0 <=> log[c] \in Loud
  BY <1>2, <1>4
<1> QED
  BY <1>5 DEF Count, at

LEMMA InvReported ==
    ASSUME CallsInv
    PROVE  FailureReported
<1> SUFFICES ASSUME NEW c \in Calls, hooked[c], err[c] # None, ~Deferred(c)
             PROVE  IF err[c] \in wrapped THEN Count(c, "error") = 1
                    ELSE LET with == {d \in Calls : err[d] = err[c]}
                         IN  \E d \in with : \A x \in with : x = d <=> Count(x, "error") > 0
  BY DEF FailureReported
<1>1. Shape(pc[c], hooked[c], log[c], err[c], marked, wrapped)
  BY DEF CallsInv, CallsShaped
<1>2. log[c] # <<"before", "always", "function">>
  BY LateAlways
<1>3. CASE err[c] \in wrapped
  <2>1. log[c] = <<"before", "function", "error", "always">>
    BY <1>1, <1>2, <1>3 DEF Shape, CallsInv, Errors
  <2>2. {i \in DOMAIN log[c] : log[c][i] = "error"} = {3}
    BY <2>1
  <2> QED
    BY <1>3, <2>2, FS_Singleton DEF Count
<1>4. CASE err[c] \notin wrapped
  <2>1. err[c] \in marked
    BY <1>1, <1>2, <1>4 DEF Shape
  <2>2. PICK d \in Calls : Tells(d, err[c]) /\ \A x \in Calls : Tells(x, err[c]) => x = d
    BY <2>1 DEF CallsInv, Errors
  <2> QED
    BY <1>4, <2>2, LoudCounts DEF Tells
<1> QED
  BY <1>3, <1>4

\* An error that ends a call with hooks has been through the error hooks, those
\* of every call when it is inside a wrapper and else those of exactly one.
THEOREM FailuresReported == CallsSpec => []FailureReported
BY InvReported, CallsInvHolds, PTL
=============================================================================
