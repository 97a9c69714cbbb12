--------------------------- MODULE VersionsProofs ---------------------------
(***************************************************************************)
(* Proofs about Versions: its types, that the registry, the reverse lookup *)
(* and the dispatchers always agree, and which version stays the default,  *)
(* for any modules, tags and logical paths.                                *)
(***************************************************************************)
EXTENDS Versions, SequenceTheorems, WellFoundedInduction, TLAPS

-----------------------------------------------------------------------------
(* Sequences without duplicates.                                           *)

\* Splicing the first entry of s[k] out of a stack without duplicates takes
\* out position k and nothing else.
LEMMA RemoveFirstSplices ==
    ASSUME NEW S, NEW s \in Seq(S), NEW k \in 1..Len(s), IsInjective(s)
    PROVE  LET r == RemoveFirst(s, s[k])
           IN  /\ r \in Seq(S)
               /\ Len(r) = Len(s) - 1
               /\ \A i \in 1..(Len(s) - 1) : r[i] = IF i < k THEN s[i] ELSE s[i + 1]
<1> DEFINE I == {i \in 1..Len(s) : s[i] = s[k]}
           a == SubSeq(s, 1, k - 1)
           b == SubSeq(s, k + 1, Len(s))
<1>1. I = {k}
  BY DEF IsInjective
<1>2. Min(I) = k
  BY <1>1 DEF Min
<1>3. RemoveFirst(s, s[k]) = a \o b
  BY <1>1, <1>2 DEF RemoveFirst, SelectInSeq, RemoveAt
<1>4. a \in Seq(S) /\ Len(a) = k - 1 /\ \A i \in 1..(k - 1) : a[i] = s[i]
  BY SubSeqProperties
<1>5. b \in Seq(S) /\ Len(b) = Len(s) - k /\ \A i \in 1..(Len(s) - k) : b[i] = s[k + i]
  BY SubSeqProperties
<1> HIDE DEF I, a, b
<1>6. /\ a \o b \in Seq(S)
      /\ Len(a \o b) = Len(s) - 1
      /\ \A i \in 1..(Len(s) - 1) : (a \o b)[i] = IF i < k THEN s[i] ELSE s[i + 1]
  <2>1. /\ a \o b \in Seq(S)
        /\ Len(a \o b) = Len(a) + Len(b)
        /\ \A i \in 1..(Len(a) + Len(b)) :
              (a \o b)[i] = IF i <= Len(a) THEN a[i] ELSE b[i - Len(a)]
    BY <1>4, <1>5, ConcatProperties
  <2>2. Len(s) \in Nat /\ Len(a) + Len(b) = Len(s) - 1
    BY <1>4, <1>5
  <2>3. ASSUME NEW i \in 1..(Len(s) - 1), i < k PROVE (a \o b)[i] = s[i]
    BY <1>4, <2>1, <2>2, <2>3
  <2>4. ASSUME NEW i \in 1..(Len(s) - 1), ~(i < k) PROVE (a \o b)[i] = s[i + 1]
    <3>1. (a \o b)[i] = b[i - (k - 1)]
      BY <1>4, <2>1, <2>2, <2>4
    <3>2. i - (k - 1) \in 1..(Len(s) - k) /\ k + (i - (k - 1)) = i + 1
      BY <2>2, <2>4
    <3> QED
      BY <1>5, <3>1, <3>2
  <2> QED
    BY <2>1, <2>2, <2>3, <2>4
<1> QED
  BY <1>3, <1>6

\* The same for a member: what is left is a stack without duplicates of all
\* the others, in the order they had.
LEMMA RemoveFirstMember ==
    ASSUME NEW S, NEW s \in Seq(S), NEW e \in ToSet(s), IsInjective(s)
    PROVE  LET r == RemoveFirst(s, e)
           IN  /\ r \in Seq(S)
               /\ IsInjective(r)
               /\ ToSet(r) = ToSet(s) \ {e}
               /\ \A i, j \in DOMAIN r : i < j =>
                        \E k, l \in DOMAIN s : k < l /\ s[k] = r[i] /\ s[l] = r[j]
<1> DEFINE r == RemoveFirst(s, e)
<1>1. PICK k \in 1..Len(s) : s[k] = e
  BY DEF ToSet
<1>2. /\ r \in Seq(S)
      /\ Len(r) = Len(s) - 1
      /\ \A i \in 1..(Len(s) - 1) : r[i] = IF i < k THEN s[i] ELSE s[i + 1]
  BY <1>1, RemoveFirstSplices
<1> HIDE DEF r
<1>3. DOMAIN r = 1..(Len(s) - 1) /\ DOMAIN s = 1..Len(s) /\ Len(s) \in Nat
  BY <1>2
<1>4. IsInjective(r)
  BY <1>2, <1>3 DEF IsInjective
<1>5. ASSUME NEW x \in ToSet(r) PROVE x \in ToSet(s) \ {e}
  BY <1>1, <1>2, <1>3 DEF ToSet, IsInjective
<1>6. ASSUME NEW x \in ToSet(s) \ {e} PROVE x \in ToSet(r)
  <2>1. PICK j \in 1..Len(s) : s[j] = x
    BY <1>3 DEF ToSet
  <2>2. j < k \/ j > k
    BY <1>1, <2>1
  <2>3. CASE j < k
    BY <1>2, <1>3, <2>1, <2>3 DEF ToSet
  <2>4. CASE j > k
    <3>1. j - 1 \in DOMAIN r /\ r[j - 1] = x
      BY <1>2, <1>3, <2>1, <2>4
    <3> QED
      BY <3>1 DEF ToSet
  <2> QED
    BY <2>2, <2>3, <2>4
<1>7. ASSUME NEW i \in DOMAIN r, NEW j \in DOMAIN r, i < j
      PROVE  \E u, v \in DOMAIN s : u < v /\ s[u] = r[i] /\ s[v] = r[j]
  <2> DEFINE up(x) == IF x < k THEN x ELSE x + 1
  <2>1. /\ up(i) \in DOMAIN s /\ up(j) \in DOMAIN s
        /\ up(i) < up(j) /\ s[up(i)] = r[i] /\ s[up(j)] = r[j]
    BY <1>2, <1>3, <1>7
  <2> QED
    BY <2>1
<1> QED
  BY <1>2, <1>4, <1>5, <1>6, <1>7 DEF r

\* Removing a module that is not there leaves the stack alone.
LEMMA RemoveFirstAbsent ==
    ASSUME NEW S, NEW s \in Seq(S), NEW e, e \notin ToSet(s)
    PROVE  RemoveFirst(s, e) = s
BY DEF RemoveFirst, ToSet

\* A new entry on top of a stack.
LEMMA AppendMember ==
    ASSUME NEW S, NEW s \in Seq(S), NEW e \in S, IsInjective(s), e \notin ToSet(s)
    PROVE  LET r == Append(s, e)
           IN  /\ r \in Seq(S) /\ r # <<>>
               /\ IsInjective(r)
               /\ ToSet(r) = ToSet(s) \cup {e}
               /\ DOMAIN s \subseteq DOMAIN r /\ \A i \in DOMAIN s : r[i] = s[i]
<1> DEFINE r == Append(s, e)
<1>1. /\ r \in Seq(S) /\ r # <<>> /\ Len(r) = Len(s) + 1
      /\ \A i \in 1..Len(s) : r[i] = s[i]
      /\ r[Len(s) + 1] = e
  BY AppendProperties
<1>2. DOMAIN r = 1..(Len(s) + 1) /\ DOMAIN s = 1..Len(s) /\ Len(s) \in Nat
  BY <1>1
<1> HIDE DEF r
<1>3. IsInjective(r)
  BY <1>1, <1>2 DEF IsInjective, ToSet
<1>4. ToSet(r) = ToSet(s) \cup {e}
  BY <1>1, <1>2 DEF ToSet
<1> QED
  BY <1>1, <1>2, <1>3, <1>4 DEF r

-----------------------------------------------------------------------------
(* The versions of one path.                                               *)

\* No tag occurs twice.
Tagged(s) == \A i, j \in DOMAIN s : s[i].tag = s[j].tag => i = j

LEMMA Members ==
    ASSUME NEW s, NEW S, s \in Seq(S)
    PROVE  /\ \A x : x \in ToSet(s) <=> \E i \in DOMAIN s : s[i] = x
           /\ s = <<>> <=> ToSet(s) = {}
           /\ DOMAIN s = 1..Len(s) /\ Len(s) \in Nat
<1>1. DOMAIN s = 1..Len(s) /\ Len(s) \in Nat
  OBVIOUS
<1>2. s # <<>> => 1 \in DOMAIN s
  BY <1>1, EmptySeq
<1>3. s = <<>> => DOMAIN s = {}
  BY <1>1
<1> QED
  BY <1>1, <1>2, <1>3 DEF ToSet

LEMMA RemovedTagged ==
    ASSUME NEW s \in Seq(Entries), Tagged(s), NEW e \in ToSet(s)
    PROVE  LET r == RemoveFirst(s, e)
           IN  /\ r \in Seq(Entries) /\ Tagged(r) /\ ToSet(r) = ToSet(s) \ {e}
               /\ \A i, j \in DOMAIN r : i < j =>
                        \E k, n \in DOMAIN s : k < n /\ s[k] = r[i] /\ s[n] = r[j]
<1> DEFINE r == RemoveFirst(s, e)
<1>1. IsInjective(s)
  BY DEF Tagged, IsInjective
<1>2. /\ r \in Seq(Entries) /\ IsInjective(r) /\ ToSet(r) = ToSet(s) \ {e}
      /\ \A i, j \in DOMAIN r : i < j =>
              \E k, n \in DOMAIN s : k < n /\ s[k] = r[i] /\ s[n] = r[j]
  BY <1>1, RemoveFirstMember
<1> HIDE DEF r
<1>3. ASSUME NEW i \in DOMAIN r, NEW j \in DOMAIN r, r[i].tag = r[j].tag PROVE i = j
  <2>1. r[i] \in ToSet(s) /\ r[j] \in ToSet(s)
    BY <1>2 DEF ToSet
  <2>2. r[i] = r[j]
    BY <1>3, <2>1 DEF Tagged, ToSet
  <2> QED
    BY <1>2, <2>2 DEF IsInjective
<1> QED
  BY <1>2, <1>3 DEF Tagged, r

LEMMA AppendedTagged ==
    ASSUME NEW s \in Seq(Entries), Tagged(s), NEW e \in Entries,
           \A i \in DOMAIN s : s[i].tag # e.tag
    PROVE  LET r == Append(s, e)
           IN  /\ r \in Seq(Entries) /\ r # <<>> /\ Tagged(r) /\ ToSet(r) = ToSet(s) \cup {e}
               /\ DOMAIN s \subseteq DOMAIN r /\ \A i \in DOMAIN s : r[i] = s[i]
               /\ DOMAIN r = 1..Len(s) + 1 /\ r[Len(s) + 1] = e
<1> DEFINE r == Append(s, e)
<1>1. IsInjective(s) /\ e \notin ToSet(s)
  BY DEF Tagged, IsInjective, ToSet
<1>2. /\ r \in Seq(Entries) /\ r # <<>> /\ IsInjective(r) /\ ToSet(r) = ToSet(s) \cup {e}
      /\ DOMAIN s \subseteq DOMAIN r /\ \A i \in DOMAIN s : r[i] = s[i]
  BY <1>1, AppendMember
<1>3. DOMAIN r = 1..Len(s) + 1 /\ r[Len(s) + 1] = e /\ Len(s) \in Nat /\ DOMAIN s = 1..Len(s)
  BY AppendProperties
<1> HIDE DEF r
<1>4. Tagged(r)
  <2> SUFFICES ASSUME NEW i \in DOMAIN r, NEW j \in DOMAIN r, r[i].tag = r[j].tag PROVE i = j
    BY DEF Tagged
  <2>1. \A k \in DOMAIN r : k \in DOMAIN s \/ k = Len(s) + 1
    BY <1>3
  <2> QED
    BY <1>2, <1>3, <2>1 DEF Tagged
<1> QED
  BY <1>2, <1>3, <1>4 DEF r

\* The first explicit default is the default.
IsFirst(s, i) ==
    i \in DOMAIN s /\ s[i].default = TRUE /\ \A j \in DOMAIN s : s[j].default = TRUE => i <= j

LEMMA FirstIsDefault ==
    ASSUME NEW s \in Seq(Entries), NEW i, IsFirst(s, i)
    PROVE  DefaultOf(s) = s[i].tag
<1> DEFINE explicit == {j \in DOMAIN s : s[j].default}
           highest == {j \in DOMAIN s : \A k \in DOMAIN s : Rank[s[k].tag] <= Rank[s[j].tag]}
           among == IF explicit # {} THEN explicit ELSE highest
<1>1. i \in explicit /\ among = explicit
  BY DEF IsFirst
<1>2. \A j \in explicit : i <= j
  BY DEF IsFirst, Entries
<1>3. DefaultOf(s) = s[CHOOSE j \in among : \A k \in among : j <= k].tag
  BY DEF DefaultOf
<1>4. explicit \subseteq Nat
  BY Members
<1> HIDE DEF explicit, highest, among
<1>5. (CHOOSE j \in explicit : \A k \in explicit : j <= k) = i
  <2> DEFINE c == CHOOSE j \in explicit : \A k \in explicit : j <= k
  <2>1. c \in explicit /\ \A k \in explicit : c <= k
    BY <1>1, <1>2
  <2> HIDE DEF c
  <2>2. c <= i /\ i <= c /\ c \in Nat /\ i \in Nat
    BY <1>1, <1>2, <1>4, <2>1
  <2>3. c = i
    BY <2>2
  <2> QED
    BY <2>3 DEF c
<1> QED
  BY <1>1, <1>3, <1>5

LEMMA FirstExists ==
    ASSUME NEW s \in Seq(Entries), \E i \in DOMAIN s : s[i].default
    PROVE  \E i : IsFirst(s, i)
<1> DEFINE explicit == {j \in DOMAIN s : s[j].default = TRUE}
<1>1. explicit # {} /\ explicit \subseteq Nat
  <2>1. \A i \in DOMAIN s : s[i] \in Entries
    BY Members
  <2>2. DOMAIN s \subseteq Nat
    BY Members
  <2> QED
    BY <2>1, <2>2 DEF Entries
<1>2. PICK i \in explicit : \A j \in explicit : <<j, i>> \notin OpToRel(<, Nat)
  <2> HIDE DEF explicit
  <2> QED
    BY <1>1, NatLessThanWellFounded, WFMin
<1>3. \A j \in explicit : ~(j < i)
  <2> HIDE DEF explicit
  <2> QED
    BY <1>1, <1>2 DEF OpToRel
<1>4. \A j \in explicit : i <= j
  <2> HIDE DEF explicit
  <2> QED
    BY <1>1, <1>3
<1> QED
  BY <1>4 DEF IsFirst

-----------------------------------------------------------------------------
(* The VersionManager.                                                     *)

ManagerType ==
    /\ versions \in [LogicalPaths -> Seq(Entries)] /\ versioned \subseteq Modules
    /\ dispatchers \subseteq LogicalPaths /\ routed \subseteq LogicalPaths
    /\ tearing \in [LogicalPaths -> Nat]

\* RegistryAgrees, by members.
Agrees ==
    /\ dispatchers = {l \in LogicalPaths : versions[l] # <<>>}
    /\ \A l \in LogicalPaths : Tagged(versions[l])
    /\ \A l \in LogicalPaths : \A v \in ToSet(versions[l]) :
        v.module \in versioned /\ TagOf[v.module] = v.tag /\ PathOf[v.module] = l
    /\ \A m \in versioned : \E v \in ToSet(versions[PathOf[m]]) : v.module = m

LEMMA AgreesByIndex ==
    ASSUME ManagerType
    PROVE  Agrees <=> RegistryAgrees
<1>1. \A l \in LogicalPaths : versions[l] \in Seq(Entries)
  BY DEF ManagerType
<1>2. \A l \in LogicalPaths : \A i \in DOMAIN versions[l] :
        versions[l][i] \in ToSet(versions[l]) /\ versions[l][i].module \in Modules
  <2> SUFFICES ASSUME NEW l \in LogicalPaths, NEW i \in DOMAIN versions[l]
               PROVE  versions[l][i] \in ToSet(versions[l]) /\ versions[l][i].module \in Modules
    OBVIOUS
  <2>1. versions[l][i] \in Entries /\ versions[l][i] \in ToSet(versions[l])
    BY <1>1 DEF ToSet
  <2> QED
    BY <2>1 DEF Entries
<1>3. \A l \in LogicalPaths : \A v \in ToSet(versions[l]) : \E i \in DOMAIN versions[l] : versions[l][i] = v
  BY <1>1, Members
<1>4. \A m \in Modules : PathOf[m] \in LogicalPaths
  BY ModulesAssumption
<1>5. ASSUME Agrees PROVE RegistryAgrees
  <2>1. /\ dispatchers = {l \in LogicalPaths : versions[l] # <<>>}
        /\ \A l \in LogicalPaths : \A i, j \in DOMAIN versions[l] :
              versions[l][i].tag = versions[l][j].tag => i = j
    BY <1>5 DEF Agrees, Tagged
  <2>2. ASSUME NEW m \in Modules
        PROVE  m \in versioned <=> \E i \in DOMAIN versions[PathOf[m]] : versions[PathOf[m]][i].module = m
    <3>1. ASSUME m \in versioned PROVE \E i \in DOMAIN versions[PathOf[m]] : versions[PathOf[m]][i].module = m
      BY <1>3, <1>4, <1>5, <3>1 DEF Agrees
    <3>2. ASSUME NEW i \in DOMAIN versions[PathOf[m]], versions[PathOf[m]][i].module = m PROVE m \in versioned
      BY <1>2, <1>4, <1>5, <3>2 DEF Agrees
    <3> QED
      BY <3>1, <3>2
  <2>3. \A l \in LogicalPaths : \A i \in DOMAIN versions[l] :
            MountOf(versions[l][i].module) = <<versions[l][i].tag, l>>
    BY <1>2, <1>5 DEF Agrees, MountOf
  <2> QED
    BY <2>1, <2>2, <2>3 DEF RegistryAgrees
<1>6. ASSUME RegistryAgrees PROVE Agrees
  <2>1. /\ dispatchers = {l \in LogicalPaths : versions[l] # <<>>}
        /\ \A l \in LogicalPaths : Tagged(versions[l])
    BY <1>6 DEF RegistryAgrees, Tagged
  <2>2. ASSUME NEW l \in LogicalPaths, NEW v \in ToSet(versions[l])
        PROVE  v.module \in versioned /\ TagOf[v.module] = v.tag /\ PathOf[v.module] = l
    <3>1. PICK i \in DOMAIN versions[l] : versions[l][i] = v
      BY <1>3
    <3>2. v.module \in Modules
      BY <1>2, <3>1
    <3>3. <<TagOf[v.module], PathOf[v.module]>> = <<v.tag, l>>
      BY <1>6, <3>1 DEF RegistryAgrees, MountOf
    <3>4. TagOf[v.module] = v.tag /\ PathOf[v.module] = l
      BY <3>3
    <3> QED
      BY <1>6, <3>1, <3>2, <3>4 DEF RegistryAgrees
  <2>3. ASSUME NEW m \in versioned PROVE \E v \in ToSet(versions[PathOf[m]]) : v.module = m
    <3>1. m \in Modules
      BY DEF ManagerType
    <3>2. PICK i \in DOMAIN versions[PathOf[m]] : versions[PathOf[m]][i].module = m
      BY <1>6, <3>1 DEF RegistryAgrees
    <3> QED
      BY <1>2, <1>4, <3>1, <3>2
  <2> QED
    BY <2>1, <2>2, <2>3 DEF Agrees
<1> QED
  BY <1>5, <1>6

LEMMA RegisterAgrees ==
    ASSUME ManagerType, Agrees, NEW m \in Modules, TagOf[m] \notin TagsAt(PathOf[m]), RegisterVersion(m)
    PROVE  ManagerType' /\ Agrees'
<1> DEFINE p == PathOf[m]
           r == Append(versions[p], Entry(m))
<1>1. p \in LogicalPaths /\ Entry(m) \in Entries /\ Entry(m).tag = TagOf[m] /\ Entry(m).module = m
  BY ModulesAssumption DEF Entry, Entries
<1>2. \A i \in DOMAIN versions[p] : versions[p][i].tag # Entry(m).tag
  BY <1>1 DEF TagsAt
<1>3. versions[p] \in Seq(Entries) /\ Tagged(versions[p])
  BY <1>1 DEF ManagerType, Agrees
<1>4. r \in Seq(Entries) /\ r # <<>> /\ Tagged(r) /\ ToSet(r) = ToSet(versions[p]) \cup {Entry(m)}
  BY <1>1, <1>2, <1>3, AppendedTagged
<1> HIDE DEF r
<1>5. \A l \in LogicalPaths : versions'[l] = IF l = p THEN r ELSE versions[l]
  BY <1>1 DEF RegisterVersion, ManagerType, r
<1>6. /\ versions' \in [LogicalPaths -> Seq(Entries)]
      /\ versioned' = versioned \cup {m} /\ dispatchers' = dispatchers \cup {p}
  BY <1>1, <1>4 DEF RegisterVersion, UpdateDispatcher, ManagerType, r
<1>7. ManagerType'
  BY <1>1, <1>6 DEF RegisterVersion, UpdateDispatcher, ManagerType
<1> HIDE DEF p
<1>8. dispatchers' = {l \in LogicalPaths : versions'[l] # <<>>} /\ \A l \in LogicalPaths : Tagged(versions'[l])
  BY <1>1, <1>4, <1>5, <1>6 DEF Agrees
<1>9. ASSUME NEW l \in LogicalPaths, NEW v \in ToSet(versions'[l])
      PROVE  v.module \in versioned' /\ TagOf[v.module] = v.tag /\ PathOf[v.module] = l
  <2>1. CASE l = p /\ v = Entry(m)
    BY <1>1, <1>6, <2>1 DEF p
  <2>2. CASE v \in ToSet(versions[l])
    BY <1>6, <2>2 DEF Agrees
  <2> QED
    BY <1>4, <1>5, <2>1, <2>2
<1>10. ASSUME NEW n \in versioned' PROVE \E v \in ToSet(versions'[PathOf[n]]) : v.module = n
  <2>1. CASE n = m
    BY <1>1, <1>4, <1>5, <2>1 DEF p
  <2>2. CASE n \in versioned
    <3>1. PathOf[n] \in LogicalPaths
      BY <2>2, ModulesAssumption DEF ManagerType
    <3> QED
      BY <1>4, <1>5, <2>2, <3>1 DEF Agrees
  <2> QED
    BY <1>6, <2>1, <2>2
<1> QED
  BY <1>7, <1>8, <1>9, <1>10 DEF Agrees

\* The entry that a module is registered with, and what is left without it.
LEMMA EntryFound ==
    ASSUME ManagerType, Agrees, NEW m \in versioned
    PROVE  LET r == RemoveFirst(versions[PathOf[m]], EntryOf(m))
           IN  /\ PathOf[m] \in LogicalPaths /\ versions[PathOf[m]] \in Seq(Entries)
               /\ EntryOf(m) \in ToSet(versions[PathOf[m]]) /\ EntryOf(m).module = m
               /\ r \in Seq(Entries) /\ Tagged(r) /\ ToSet(r) = ToSet(versions[PathOf[m]]) \ {EntryOf(m)}
               /\ \A v \in ToSet(versions[PathOf[m]]) : v.module = m => v = EntryOf(m)
               /\ \A i, j \in DOMAIN r : i < j =>
                        \E k, n \in DOMAIN versions[PathOf[m]] :
                            k < n /\ versions[PathOf[m]][k] = r[i] /\ versions[PathOf[m]][n] = r[j]
<1> DEFINE s == versions[PathOf[m]]
<1>1. PathOf[m] \in LogicalPaths
  BY ModulesAssumption DEF ManagerType
<1>2. s \in Seq(Entries) /\ Tagged(s)
  BY <1>1 DEF ManagerType, Agrees
<1>3. EntryOf(m) \in ToSet(s) /\ EntryOf(m).module = m
  BY DEF Agrees, EntryOf
<1>4. ASSUME NEW v \in ToSet(s), v.module = m PROVE v = EntryOf(m)
  <2>1. v.tag = EntryOf(m).tag
    BY <1>1, <1>3, <1>4 DEF Agrees
  <2> QED
    BY <1>2, <1>3, <2>1 DEF Tagged, ToSet
<1> QED
  BY <1>1, <1>2, <1>3, <1>4, RemovedTagged

LEMMA UnregisterAgrees ==
    ASSUME ManagerType, Agrees, NEW m \in Modules, UnregisterVersion(m)
    PROVE  ManagerType' /\ Agrees'
<1>1. CASE m \notin versioned
  BY <1>1 DEF UnregisterVersion, manager, ManagerType, Agrees
<1>2. CASE m \in versioned
  <2> DEFINE p == PathOf[m]
             e == EntryOf(m)
             r == RemoveFirst(versions[p], e)
  <2>1. /\ p \in LogicalPaths /\ e \in ToSet(versions[p]) /\ e.module = m
        /\ r \in Seq(Entries) /\ Tagged(r) /\ ToSet(r) = ToSet(versions[p]) \ {e}
        /\ \A v \in ToSet(versions[p]) : v.module = m => v = e
    BY <1>2, EntryFound
  <2>2. /\ versions' = [versions EXCEPT ![p] = r] /\ versioned' = versioned \ {m}
        /\ IF r = <<>> THEN TeardownDispatcher(p) ELSE UpdateDispatcher(p)
    BY <1>2 DEF UnregisterVersion
  <2> HIDE DEF r, e, p
  <2>3. \A l \in LogicalPaths : versions'[l] = IF l = p THEN r ELSE versions[l]
    BY <2>2 DEF ManagerType
  <2>4. dispatchers' = IF r = <<>> THEN dispatchers \ {p} ELSE dispatchers \cup {p}
    BY <2>2 DEF TeardownDispatcher, UpdateDispatcher
  <2>5. ManagerType'
    <3>1. versions' \in [LogicalPaths -> Seq(Entries)] /\ versioned' \subseteq Modules /\ dispatchers' \subseteq LogicalPaths
      BY <2>1, <2>2, <2>4 DEF ManagerType
    <3>2. routed' \subseteq LogicalPaths /\ tearing' \in [LogicalPaths -> Nat]
      <4>1. CASE UpdateDispatcher(p)
        BY <2>1, <4>1 DEF UpdateDispatcher, ManagerType
      <4>2. CASE TeardownDispatcher(p)
        <5>1. tearing[p] + 1 \in Nat
          BY <2>1 DEF ManagerType
        <5>2. tearing' = tearing \/ tearing' = [tearing EXCEPT ![p] = tearing[p] + 1]
          BY <4>2 DEF TeardownDispatcher
        <5> QED
          BY <4>2, <5>1, <5>2 DEF TeardownDispatcher, ManagerType
      <4> QED
        BY <2>2, <4>1, <4>2
    <3> QED
      BY <3>1, <3>2 DEF ManagerType
  <2>6. dispatchers' = {l \in LogicalPaths : versions'[l] # <<>>} /\ \A l \in LogicalPaths : Tagged(versions'[l])
    BY <2>1, <2>3, <2>4 DEF Agrees
  <2>7. ASSUME NEW l \in LogicalPaths, NEW v \in ToSet(versions'[l])
        PROVE  v.module \in versioned' /\ TagOf[v.module] = v.tag /\ PathOf[v.module] = l
    <3>1. v \in ToSet(versions[l])
      BY <2>1, <2>3
    <3>2. v.module # m
      BY <2>1, <2>3, <2>7, <3>1 DEF Agrees, p
    <3> QED
      BY <2>2, <3>1, <3>2 DEF Agrees
  <2>8. ASSUME NEW n \in versioned' PROVE \E v \in ToSet(versions'[PathOf[n]]) : v.module = n
    <3>1. n \in versioned /\ n # m /\ PathOf[n] \in LogicalPaths
      BY <2>2, ModulesAssumption DEF ManagerType
    <3>2. PICK v \in ToSet(versions[PathOf[n]]) : v.module = n
      BY <3>1 DEF Agrees
    <3>3. v # e
      BY <2>1, <3>1, <3>2
    <3> QED
      BY <2>1, <2>3, <3>1, <3>2, <3>3
  <2> QED
    BY <2>5, <2>6, <2>7, <2>8 DEF Agrees
<1> QED
  BY <1>1, <1>2

LEMMA SetDefaultAgrees ==
    ASSUME ManagerType, Agrees, NEW p \in LogicalPaths, NEW t \in Tags, SetDefault(p, t)
    PROVE  ManagerType' /\ Agrees'
<1> DEFINE s == versions[p]
           r == [i \in DOMAIN s |-> [s[i] EXCEPT !.default = s[i].tag = t]]
<1>1. s \in Seq(Entries) /\ Tagged(s) /\ DOMAIN s = 1..Len(s) /\ Len(s) \in Nat
  BY DEF ManagerType, Agrees
<1>2. \A i \in DOMAIN s : r[i] \in Entries /\ r[i].tag = s[i].tag /\ r[i].module = s[i].module
  <2> SUFFICES ASSUME NEW i \in DOMAIN s
               PROVE  r[i] \in Entries /\ r[i].tag = s[i].tag /\ r[i].module = s[i].module
    OBVIOUS
  <2>1. s[i] \in Entries /\ (s[i].tag = t) \in BOOLEAN
    BY <1>1
  <2> QED
    BY <2>1 DEF Entries
<1>3. DOMAIN r = DOMAIN s
  OBVIOUS
<1>4. versions' = [versions EXCEPT ![p] = r] /\ UNCHANGED <<versioned, dispatchers, routed, tearing>>
  BY DEF SetDefault
<1> HIDE DEF r
<1>5. r \in Seq(Entries) /\ (r = <<>> <=> s = <<>>)
  <2>1. r \in [1..Len(s) -> Entries]
    <3>1. r = [i \in DOMAIN s |-> r[i]]
      BY DEF r
    <3> QED
      BY <1>1, <1>2, <3>1
  <2>2. r \in Seq(Entries) /\ Len(r) = Len(s)
    BY <1>1, <2>1
  <2> QED
    BY <1>1, <2>2, EmptySeq
<1>6. Tagged(r)
  BY <1>1, <1>2, <1>3 DEF Tagged
<1>7. \A l \in LogicalPaths : versions'[l] = IF l = p THEN r ELSE versions[l]
  BY <1>4 DEF ManagerType
<1>8. ManagerType'
  BY <1>4, <1>5 DEF ManagerType
<1>9. dispatchers' = {l \in LogicalPaths : versions'[l] # <<>>} /\ \A l \in LogicalPaths : Tagged(versions'[l])
  BY <1>4, <1>5, <1>6, <1>7 DEF Agrees
<1>10. ASSUME NEW l \in LogicalPaths, NEW v \in ToSet(versions'[l])
       PROVE  v.module \in versioned' /\ TagOf[v.module] = v.tag /\ PathOf[v.module] = l
  <2>1. CASE l # p
    BY <1>4, <1>7, <2>1 DEF Agrees
  <2>2. CASE l = p
    <3>1. PICK i \in DOMAIN s : r[i] = v
      BY <1>3, <1>7, <2>2 DEF ToSet
    <3>2. s[i] \in ToSet(s)
      BY DEF ToSet
    <3> QED
      BY <1>2, <1>4, <2>2, <3>1, <3>2 DEF Agrees
  <2> QED
    BY <2>1, <2>2
<1>11. ASSUME NEW m \in versioned' PROVE \E v \in ToSet(versions'[PathOf[m]]) : v.module = m
  <2>1. m \in versioned /\ PathOf[m] \in LogicalPaths
    BY <1>4, ModulesAssumption DEF ManagerType
  <2>2. PICK v \in ToSet(versions[PathOf[m]]) : v.module = m
    BY <2>1 DEF Agrees
  <2>3. CASE PathOf[m] # p
    BY <1>7, <2>1, <2>2, <2>3
  <2>4. CASE PathOf[m] = p
    <3>1. PICK i \in DOMAIN s : s[i] = v
      BY <2>2, <2>4 DEF ToSet
    <3>2. r[i] \in ToSet(r) /\ r[i].module = m
      BY <1>2, <1>3, <2>2, <3>1 DEF ToSet
    <3> QED
      BY <1>7, <2>1, <2>4, <3>2
  <2> QED
    BY <2>3, <2>4
<1> QED
  BY <1>8, <1>9, <1>10, <1>11 DEF Agrees

-----------------------------------------------------------------------------
(* The ownership of paths.                                                 *)

Stacks == owners \in [Paths -> Seq(Modules)] /\ \A p \in Paths : IsInjective(owners[p])

LEMMA PathsType ==
    ASSUME NEW m \in Modules
    PROVE  MountOf(m) \in MountPaths /\ MountOf(m) \in Paths /\ LeafOf(m) \in Paths /\ <<TagOf[m]>> \in Paths
<1>1. TagOf[m] \in Tags /\ PathOf[m] \in LogicalPaths
  BY ModulesAssumption
<1>2. MountOf(m) \in MountPaths
  BY <1>1 DEF MountOf, MountPaths
<1>3. MountOf(m) \in Paths /\ LeafOf(m) \in Paths
  BY <1>2 DEF LeafOf, Paths
<1>4. <<TagOf[m]>> \in Paths
  BY <1>1 DEF Paths
<1> QED
  BY <1>2, <1>3, <1>4

\* The instance has its own copies of the operators on sequences.
LEMMA SameHelpers ==
    ASSUME NEW s, NEW e
    PROVE  Registry!ToSet(s) = ToSet(s) /\ Registry!RemoveFirst(s, e) = RemoveFirst(s, e)
BY DEF Registry!ToSet, ToSet, Registry!RemoveFirst, RemoveFirst, Registry!SelectInSeq,
       SelectInSeq, Registry!RemoveAt, RemoveAt, Registry!Min, Min

LEMMA ClaimStacks ==
    ASSUME Stacks, NEW m \in Modules, NEW ps, Registry!Claim(m, ps)
    PROVE  Stacks' /\ retired' = retired
<1>1. ASSUME NEW p \in Paths, m \notin ToSet(owners[p])
      PROVE  Append(owners[p], m) \in Seq(Modules) /\ IsInjective(Append(owners[p], m))
  BY <1>1, AppendMember DEF Stacks
<1>2. /\ owners' = [p \in Paths |-> owners'[p]]
      /\ \A p \in Paths : owners'[p] = IF p \in ps /\ m \notin ToSet(owners[p])
                                       THEN Append(owners[p], m) ELSE owners[p]
  BY SameHelpers DEF Registry!Claim
<1>3. \A p \in Paths : owners'[p] \in Seq(Modules) /\ IsInjective(owners'[p])
  BY <1>1, <1>2 DEF Stacks
<1> QED
  BY <1>2, <1>3 DEF Registry!Claim, Stacks

LEMMA RemovedStack ==
    ASSUME Stacks, NEW m, NEW p \in Paths
    PROVE  RemoveFirst(owners[p], m) \in Seq(Modules) /\ IsInjective(RemoveFirst(owners[p], m))
<1>1. owners[p] \in Seq(Modules) /\ IsInjective(owners[p])
  BY DEF Stacks
<1>2. CASE m \in ToSet(owners[p])
  BY <1>1, <1>2, RemoveFirstMember
<1>3. CASE m \notin ToSet(owners[p])
  BY <1>1, <1>3, RemoveFirstAbsent
<1> QED
  BY <1>2, <1>3

LEMMA RetireStacks ==
    ASSUME Stacks, retired \subseteq Modules, NEW m \in Modules, Registry!Retire(m)
    PROVE  Stacks' /\ retired' \subseteq Modules
<1>1. /\ owners' = [p \in Paths |-> owners'[p]]
      /\ \A p \in Paths : owners'[p] = RemoveFirst(owners[p], m)
  BY SameHelpers DEF Registry!Retire
<1> QED
  BY <1>1, RemovedStack DEF Registry!Retire, Stacks

LEMMA ReleaseStacks ==
    ASSUME Stacks, NEW m, NEW p \in Paths, Registry!Release(m, p)
    PROVE  Stacks' /\ retired' = retired
<1>1. owners' = [owners EXCEPT ![p] = RemoveFirst(owners[p], m)]
  BY SameHelpers DEF Registry!Release
<1>2. \A q \in Paths : owners'[q] = IF q = p THEN RemoveFirst(owners[p], m) ELSE owners[q]
  BY <1>1 DEF Stacks
<1>3. RemoveFirst(owners[p], m) \in Seq(Modules) /\ IsInjective(RemoveFirst(owners[p], m))
  BY RemovedStack
<1>4. owners' \in [Paths -> Seq(Modules)]
  BY <1>1, <1>3 DEF Stacks
<1>5. \A q \in Paths : IsInjective(owners'[q])
  BY <1>2, <1>3 DEF Stacks
<1> QED
  BY <1>4, <1>5 DEF Registry!Release, Stacks

LEMMA DeletionsType ==
    ASSUME removing \subseteq Removals, NEW m \in Modules, NEW ps \in SUBSET Paths, NEW st, Deletions(m, ps, st)
    PROVE  removing' \subseteq Removals
<1>1. Cut(m, ps, st) \subseteq Paths
  BY PathsType DEF Cut
<1>2. [module |-> m, cut |-> Cut(m, ps, st), unregister |-> FALSE] \in Removals
  BY <1>1 DEF Removals
<1> QED
  BY <1>2 DEF Deletions

-----------------------------------------------------------------------------
(* The steps.                                                              *)

IInv == TypeOK /\ Stacks /\ Agrees

LEMMA Parts ==
    TypeOK <=> /\ ManagerType /\ owners \in [Paths -> Seq(Modules)] /\ retired \subseteq Modules
               /\ started \in Seq(Modules) /\ building \subseteq Modules
               /\ mounted \subseteq MountPaths /\ removing \subseteq Removals
               /\ late \subseteq MountPaths /\ raced \subseteq LogicalPaths /\ byPath \subseteq MountPaths
BY DEF TypeOK, ManagerType

LEMMA InitInv == Init => IInv
<1> SUFFICES ASSUME Init PROVE IInv
  OBVIOUS
<1>1. TypeOK /\ Stacks
  BY DEF Init, TypeOK, Stacks, Registry!AInit, IsInjective
<1>2. \A l \in LogicalPaths : versions[l] = <<>> /\ DOMAIN versions[l] = {} /\ ToSet(versions[l]) = {}
  BY DEF Init, ToSet
<1>3. Agrees
  BY <1>2 DEF Agrees, Tagged, Init
<1> QED
  BY <1>1, <1>3 DEF IInv

\* removeApiComponent(moduleID), whoever calls it.
LEMMA RemoveComponentInv ==
    ASSUME IInv, NEW m \in Modules, RemoveComponent(m)
    PROVE  IInv'
<1>1. ManagerType' /\ Agrees'
  BY UnregisterAgrees, Parts DEF RemoveComponent, IInv
<1>2. Stacks' /\ retired' \subseteq Modules
  BY RetireStacks, Parts DEF RemoveComponent, IInv
<1>3. removing' \subseteq Removals
  BY DeletionsType, Parts DEF RemoveComponent, IInv, Owned
<1>4. UNCHANGED <<started, building, mounted, late, raced, byPath>>
  BY DEF RemoveComponent, history
<1>5. TypeOK'
  BY <1>1, <1>2, <1>3, <1>4 DEF TypeOK, ManagerType, Stacks, IInv
<1> QED
  BY <1>1, <1>2, <1>5 DEF IInv

\* A step that leaves the VersionManager alone.
LEMMA ManagerKept ==
    ASSUME ManagerType, Agrees, UNCHANGED <<versions, versioned, dispatchers, routed, tearing>>
    PROVE  ManagerType' /\ Agrees'
BY DEF ManagerType, Agrees

LEMMA MountType ==
    ASSUME TypeOK, NEW m \in Modules, Mount(m)
    PROVE  /\ building' \subseteq Modules /\ mounted' \subseteq MountPaths /\ late' \subseteq MountPaths
           /\ started' \in Seq(Modules) /\ byPath' \subseteq MountPaths
BY PathsType DEF Mount, TypeOK

\* remove("l") is the removal of one component.
LEMMA LogicalIsOne ==
    ASSUME started \in Seq(Modules), NEW l \in LogicalPaths, RemoveLogical(l)
    PROVE  \E i \in DOMAIN started : RemoveComponent(started[i])
<1> DEFINE those == {i \in DOMAIN started : PathOf[started[i]] = l /\ Owned(started[i]) # {}}
<1> DEFINE top == CHOOSE i \in those : \A j \in those : j <= i
<1>1. those # {} /\ RemoveComponent(started[top])
  BY DEF RemoveLogical
<1>2. those \subseteq 1..Len(started) /\ Len(started) \in Nat /\ those \subseteq DOMAIN started
  OBVIOUS
<1> HIDE DEF those
<1>3. \E i \in those : \A j \in those : j <= i
  <2> DEFINE gap(i) == Len(started) - i
             gaps == {gap(i) : i \in those}
  <2>0. \A i \in those : gap(i) \in Nat
    BY <1>2
  <2>1. gaps \subseteq Nat /\ gaps # {}
    BY <1>1, <2>0
  <2>2. PICK g \in gaps : \A h \in gaps : <<h, g>> \notin OpToRel(<, Nat)
    <3> HIDE DEF gaps
    <3> QED
      BY <2>1, NatLessThanWellFounded, WFMin
  <2>3. \A h \in gaps : ~(h < g)
    <3> HIDE DEF gaps
    <3> QED
      BY <2>1, <2>2 DEF OpToRel
  <2>4. PICK i \in those : g = gap(i)
    BY <2>2
  <2>5. ASSUME NEW j \in those PROVE j <= i
    <3>1. ~(gap(j) < gap(i))
      BY <2>3, <2>4
    <3> QED
      BY <1>2, <3>1
  <2> QED
    BY <2>5
<1>4. top \in those
  BY <1>3
<1>5. top \in DOMAIN started
  BY <1>2, <1>4
<1> HIDE DEF top
<1> WITNESS top \in DOMAIN started
<1> QED
  BY <1>1

LEMMA NextInv == IInv /\ [Next]_vars => IInv'
<1> SUFFICES ASSUME IInv, [Next]_vars PROVE IInv'
  OBVIOUS
<1> USE DEF IInv
<1>t. /\ ManagerType /\ owners \in [Paths -> Seq(Modules)] /\ retired \subseteq Modules
      /\ started \in Seq(Modules) /\ building \subseteq Modules
      /\ mounted \subseteq MountPaths /\ removing \subseteq Removals
      /\ late \subseteq MountPaths /\ raced \subseteq LogicalPaths /\ byPath \subseteq MountPaths
  BY Parts
<1>1. ASSUME NEW m \in Modules, Build(m) PROVE IInv'
  <2>1. ManagerType' /\ Agrees'
    BY <1>1, <1>t, ManagerKept DEF Build, manager
  <2>2. Stacks' /\ retired' = retired
    BY <1>1, ClaimStacks DEF Build
  <2>3. started' \in Seq(Modules) /\ building' \subseteq Modules
    BY <1>1, <1>t, AppendProperties DEF Build
  <2>4. UNCHANGED <<mounted, removing, late, raced, byPath>>
    BY <1>1 DEF Build, tree, history
  <2>5. TypeOK'
    BY <1>t, <2>1, <2>2, <2>3, <2>4 DEF TypeOK, ManagerType, Stacks
  <2> QED
    BY <2>1, <2>2, <2>5
<1>2. ASSUME NEW m \in Modules, AddVersion(m) PROVE IInv'
  <2>1. ManagerType' /\ Agrees'
    BY <1>2, <1>t, RegisterAgrees DEF AddVersion
  <2>2. Stacks' /\ retired' = retired
    <3>1. CASE UNCHANGED registry
      BY <3>1 DEF registry, Stacks
    <3>2. CASE Registry!Claim(m, Claims(m))
      BY <3>2, ClaimStacks
    <3> QED
      BY <1>2, <3>1, <3>2 DEF AddVersion
  <2>3. /\ building' \subseteq Modules /\ mounted' \subseteq MountPaths /\ late' \subseteq MountPaths
        /\ started' \in Seq(Modules) /\ byPath' \subseteq MountPaths
    BY <1>2, MountType DEF AddVersion
  <2>4. removing' = removing /\ raced' \subseteq LogicalPaths
    BY <1>2, <1>t, ModulesAssumption DEF AddVersion
  <2>5. TypeOK'
    BY <1>t, <2>1, <2>2, <2>3, <2>4 DEF TypeOK, ManagerType, Stacks
  <2> QED
    BY <2>1, <2>2, <2>5
<1>3. ASSUME NEW m \in Modules, AddDuplicate(m) PROVE IInv'
  <2>1. ManagerType' /\ Agrees'
    BY <1>3, <1>t, ManagerKept DEF AddDuplicate, manager
  <2>2. Stacks' /\ retired' \subseteq Modules /\ removing' \subseteq Removals
    <3>1. CASE UNCHANGED <<registry, removing>>
      BY <1>t, <3>1 DEF registry, Stacks
    <3>2. CASE Registry!Retire(m) /\ Deletions(m, Owned(m) \cup Claims(m), owners')
      <4>1. Owned(m) \cup Claims(m) \in SUBSET Paths
        BY PathsType DEF Owned, Claims
      <4> QED
        BY <1>t, <3>2, <4>1, RetireStacks, DeletionsType
    <3> QED
      BY <1>3, <3>1, <3>2 DEF AddDuplicate
  <2>3. /\ building' \subseteq Modules /\ mounted' \subseteq MountPaths /\ late' \subseteq MountPaths
        /\ started' \in Seq(Modules) /\ byPath' \subseteq MountPaths
    BY <1>3, MountType DEF AddDuplicate
  <2>4. raced' = raced
    BY <1>3 DEF AddDuplicate
  <2>5. TypeOK'
    BY <1>t, <2>1, <2>2, <2>3, <2>4 DEF TypeOK, ManagerType, Stacks
  <2> QED
    BY <2>1, <2>2, <2>5
<1>4. ASSUME NEW m \in Modules, RemoveModule(m) PROVE IInv'
  BY <1>4, RemoveComponentInv DEF RemoveModule
<1>5. ASSUME NEW l \in LogicalPaths, RemoveLogical(l) PROVE IInv'
  <2>1. \E i \in DOMAIN started : RemoveComponent(started[i])
    BY <1>5, <1>t, LogicalIsOne
  <2> QED
    BY <1>t, <2>1, RemoveComponentInv
<1>6. ASSUME NEW l \in LogicalPaths, Teardown(l) PROVE IInv'
  <2>1. tearing[l] - 1 \in Nat
    BY <1>6, <1>t DEF Teardown, ManagerType
  <2>2. ManagerType' /\ Agrees'
    BY <1>6, <1>t, <2>1 DEF Teardown, ManagerType, Agrees
  <2>3. Stacks'
    BY <1>6 DEF Teardown, registry, Stacks
  <2>4. TypeOK'
    BY <1>6, <1>t, <2>2 DEF Teardown, registry, tree, history, TypeOK, ManagerType
  <2> QED
    BY <2>2, <2>3, <2>4
<1>7. ASSUME NEW l \in LogicalPaths, NEW u \in Tags, SetDefault(l, u) PROVE IInv'
  <2>1. ManagerType' /\ Agrees'
    BY <1>7, <1>t, SetDefaultAgrees
  <2>2. Stacks'
    BY <1>7 DEF SetDefault, registry, Stacks
  <2>3. TypeOK'
    BY <1>7, <1>t, <2>1 DEF SetDefault, registry, tree, history, TypeOK, ManagerType
  <2> QED
    BY <2>1, <2>2, <2>3
<1>8. ASSUME NEW p \in MountPaths, RemovePath(p) PROVE IInv'
  <2>1. ManagerType' /\ Agrees'
    BY <1>8, <1>t, ManagerKept DEF RemovePath, manager
  <2>2. p \in Paths
    BY DEF Paths
  <2>3. Stacks' /\ retired' = retired
    BY <1>8, <2>2, ReleaseStacks DEF RemovePath
  <2>4. Head(owners[p]) \in Modules
    <3>1. owners[p] \in Seq(Modules) /\ Len(owners[p]) = 1
      BY <1>8, <1>t, <2>2 DEF RemovePath
    <3> QED
      BY <3>1
  <2>5. removing' \subseteq Removals /\ byPath' \subseteq MountPaths
    <3>1. [module |-> Head(owners[p]), cut |-> {p}, unregister |-> TRUE] \in Removals
      BY <2>2, <2>4 DEF Removals
    <3> QED
      BY <1>8, <1>t, <3>1 DEF RemovePath
  <2>6. UNCHANGED <<started, building, mounted, late, raced>>
    BY <1>8 DEF RemovePath
  <2>7. TypeOK'
    BY <1>t, <2>1, <2>3, <2>5, <2>6 DEF TypeOK, ManagerType, Stacks
  <2> QED
    BY <2>1, <2>3, <2>7
<1>9. ASSUME NEW r \in removing, Delete(r) PROVE IInv'
  <2>1. ManagerType' /\ Agrees'
    BY <1>9, <1>t, ManagerKept DEF Delete, manager
  <2>2. Stacks' /\ retired' = retired
    BY <1>9 DEF Delete, registry, Stacks
  <2>3. [r EXCEPT !.cut = {}] \in Removals
    <3>1. r \in Removals
      BY <1>t
    <3> QED
      BY <3>1 DEF Removals
  <2>4. removing' \subseteq Removals /\ mounted' \subseteq MountPaths
    BY <1>9, <1>t, <2>3 DEF Delete
  <2>5. UNCHANGED <<started, building, late, raced, byPath>>
    BY <1>9 DEF Delete, history
  <2>6. TypeOK'
    BY <1>t, <2>1, <2>2, <2>4, <2>5 DEF TypeOK, ManagerType, Stacks
  <2> QED
    BY <2>1, <2>2, <2>6
<1>10. ASSUME NEW r \in removing, AfterDelete(r) PROVE IInv'
  <2>1. r.module \in Modules
    BY <1>t DEF Removals
  <2>2. ManagerType' /\ Agrees'
    BY <1>10, <1>t, <2>1, UnregisterAgrees DEF AfterDelete
  <2>3. Stacks' /\ retired' = retired
    BY <1>10 DEF AfterDelete, registry, Stacks
  <2>4. removing' \subseteq Removals /\ UNCHANGED <<started, building, mounted, late, raced, byPath>>
    BY <1>10, <1>t DEF AfterDelete, history
  <2>5. TypeOK'
    BY <1>t, <2>2, <2>3, <2>4 DEF TypeOK, ManagerType, Stacks
  <2> QED
    BY <2>2, <2>3, <2>5
<1>11. ASSUME UNCHANGED vars PROVE IInv'
  <2>1. ManagerType' /\ Agrees'
    BY <1>11, <1>t, ManagerKept DEF vars, manager
  <2> QED
    BY <1>11, <1>t, <2>1 DEF vars, registry, tree, history, TypeOK, ManagerType, Stacks
<1> QED
  BY <1>1, <1>2, <1>3, <1>4, <1>5, <1>6, <1>7, <1>8, <1>9, <1>10, <1>11 DEF Next

LEMMA Inductive == Spec => []IInv
BY InitInv, NextInv, PTL DEF Spec

\* The types of every reachable state.
THEOREM TypeCorrect == Spec => []TypeOK
<1>1. IInv => TypeOK
  BY DEF IInv
<1> QED
  BY <1>1, Inductive, PTL

\* The registered versions, the reverse lookup and the dispatchers agree in
\* every reachable state, for any modules, tags and paths: also when a module
\* is removed while it is built or a path is removed by name.
THEOREM RegistryAlwaysAgrees == Spec => []RegistryAgrees
<1>1. IInv => RegistryAgrees
  BY AgreesByIndex DEF IInv, TypeOK, ManagerType
<1> QED
  BY <1>1, Inductive, PTL

-----------------------------------------------------------------------------
(* The default.                                                            *)

\* A sequence without the entry of the default, or with one more at the end,
\* has the same first explicit default.
LEMMA FirstAppended ==
    ASSUME NEW s \in Seq(Entries), NEW e \in Entries, NEW i, IsFirst(s, i)
    PROVE  DefaultOf(Append(s, e)) = s[i].tag
<1> DEFINE r == Append(s, e)
<1>1. /\ r \in Seq(Entries) /\ DOMAIN r = 1..Len(s) + 1 /\ DOMAIN s = 1..Len(s) /\ Len(s) \in Nat
      /\ \A j \in DOMAIN s : r[j] = s[j]
  BY AppendProperties
<1> HIDE DEF r
<1>2. i \in DOMAIN s /\ i \in DOMAIN r /\ r[i] = s[i]
  BY <1>1 DEF IsFirst
<1>3. ASSUME NEW j \in DOMAIN r, r[j].default = TRUE PROVE i <= j
  <2>1. CASE j \in DOMAIN s
    BY <1>1, <1>3, <2>1 DEF IsFirst
  <2>2. CASE j \notin DOMAIN s
    BY <1>1, <1>2, <2>2
  <2> QED
    BY <2>1, <2>2
<1>4. IsFirst(r, i)
  BY <1>2, <1>3 DEF IsFirst
<1> QED
  BY <1>1, <1>2, <1>4, FirstIsDefault DEF r

LEMMA FirstSpared ==
    ASSUME NEW s \in Seq(Entries), NEW r \in Seq(Entries), NEW i, Tagged(s), IsFirst(s, i), s[i] \in ToSet(r),
           \A x, y \in DOMAIN r : x < y => \E k, n \in DOMAIN s : k < n /\ s[k] = r[x] /\ s[n] = r[y]
    PROVE  DefaultOf(r) = s[i].tag
<1>1. DOMAIN s \subseteq Nat /\ DOMAIN r \subseteq Nat
  OBVIOUS
<1>2. PICK x \in DOMAIN r : r[x] = s[i]
  BY DEF ToSet
<1>3. ASSUME NEW y \in DOMAIN r, r[y].default = TRUE, ~(x <= y) PROVE FALSE
  <2>1. y < x
    BY <1>1, <1>3
  <2>2. PICK k \in DOMAIN s, n \in DOMAIN s : k < n /\ s[k] = r[y] /\ s[n] = r[x]
    BY <2>1
  <2>3. n = i
    BY <1>2, <2>2 DEF Tagged, IsFirst
  <2>4. i <= k
    BY <1>3, <2>2 DEF IsFirst
  <2> QED
    BY <1>1, <2>2, <2>3, <2>4
<1>4. IsFirst(r, x)
  BY <1>2, <1>3 DEF IsFirst
<1> QED
  BY <1>2, <1>4, FirstIsDefault

LEMMA UnregisterKeepsDefault ==
    ASSUME ManagerType, Agrees, NEW m \in Modules, UnregisterVersion(m), NEW l \in LogicalPaths
    PROVE  StaysDefault(l)
<1> SUFFICES ASSUME \E i \in DOMAIN versions[l] : versions[l][i].default,
                    \E i \in DOMAIN versions'[l] : versions'[l][i].tag = DefaultOf(versions[l])
             PROVE  DefaultOf(versions'[l]) = DefaultOf(versions[l])
  BY DEF StaysDefault
<1>1. CASE m \notin versioned
  BY <1>1 DEF UnregisterVersion, manager
<1>2. CASE m \in versioned /\ l # PathOf[m]
  BY <1>2 DEF UnregisterVersion, ManagerType
<1>3. CASE m \in versioned /\ l = PathOf[m]
  <2> DEFINE s == versions[PathOf[m]]
             r == RemoveFirst(s, EntryOf(m))
  <2>1. /\ s \in Seq(Entries) /\ r \in Seq(Entries) /\ ToSet(r) = ToSet(s) \ {EntryOf(m)}
        /\ \A i, j \in DOMAIN r : i < j => \E k, n \in DOMAIN s : k < n /\ s[k] = r[i] /\ s[n] = r[j]
    BY <1>3, EntryFound
  <2>2. versions'[l] = r /\ versions[l] = s
    BY <1>3 DEF UnregisterVersion, ManagerType
  <2>3. Tagged(s) /\ \E i \in DOMAIN s : s[i].default
    BY <1>3 DEF Agrees
  <2> HIDE DEF r, s
  <2>4. PICK i : IsFirst(s, i)
    BY <2>1, <2>3, FirstExists
  <2>5. DefaultOf(s) = s[i].tag
    BY <2>1, <2>4, FirstIsDefault
  <2>6. PICK x \in DOMAIN r : r[x].tag = s[i].tag
    BY <2>2, <2>5
  <2>7. r[x] \in ToSet(s) /\ r[x] \in ToSet(r)
    BY <2>1 DEF ToSet
  <2>8. r[x] = s[i]
    BY <2>3, <2>4, <2>6, <2>7 DEF Tagged, IsFirst, ToSet
  <2>9. DefaultOf(r) = s[i].tag
    BY <2>1, <2>3, <2>4, <2>7, <2>8, FirstSpared
  <2> QED
    BY <2>2, <2>5, <2>9
<1> QED
  BY <1>1, <1>2, <1>3

LEMMA RegisterKeepsDefault ==
    ASSUME ManagerType, Agrees, NEW m \in Modules, RegisterVersion(m), NEW l \in LogicalPaths
    PROVE  StaysDefault(l)
<1> SUFFICES ASSUME \E i \in DOMAIN versions[l] : versions[l][i].default
             PROVE  DefaultOf(versions'[l]) = DefaultOf(versions[l])
  BY DEF StaysDefault
<1>0. versions[l] \in Seq(Entries)
  BY DEF ManagerType
<1>e. Entry(m) \in Entries
  <2>1. TagOf[m] \in Tags /\ (m \in Defaults) \in BOOLEAN
    BY ModulesAssumption
  <2> QED
    BY <2>1 DEF Entry, Entries
<1>1. versions[l] \in Seq(Entries) /\ Entry(m) \in Entries
  BY <1>0, <1>e
<1>2. CASE l # PathOf[m]
  BY <1>2 DEF RegisterVersion, ManagerType
<1>3. CASE l = PathOf[m]
  <2>1. versions'[l] = Append(versions[l], Entry(m))
    BY <1>3 DEF RegisterVersion, ManagerType
  <2>2. PICK i : IsFirst(versions[l], i)
    BY <1>1, FirstExists
  <2> QED
    BY <1>1, <2>1, <2>2, FirstIsDefault, FirstAppended
<1> QED
  BY <1>2, <1>3

\* A step that leaves the versions of a path alone.
LEMMA SameKeepsDefault ==
    ASSUME NEW l \in LogicalPaths, versions'[l] = versions[l]
    PROVE  StaysDefault(l)
BY DEF StaysDefault

LEMMA NextKeepsDefault == IInv /\ [Next]_vars => \A l \in LogicalPaths : StaysDefault(l)
<1> SUFFICES ASSUME IInv, [Next]_vars, NEW l \in LogicalPaths PROVE StaysDefault(l)
  OBVIOUS
<1>t. ManagerType /\ Agrees /\ started \in Seq(Modules) /\ removing \subseteq Removals
  BY Parts DEF IInv
<1>1. CASE versions' = versions
  BY <1>1, SameKeepsDefault
<1>2. ASSUME NEW m \in Modules, UnregisterVersion(m) PROVE StaysDefault(l)
  BY <1>2, <1>t, UnregisterKeepsDefault
<1>3. ASSUME NEW m \in Modules, AddVersion(m) PROVE StaysDefault(l)
  BY <1>3, <1>t, RegisterKeepsDefault DEF AddVersion
<1>4. ASSUME NEW p \in LogicalPaths, NEW u \in Tags, SetDefault(p, u) PROVE StaysDefault(l)
  <2>1. CASE p # l
    <3>1. versions'[l] = versions[l]
      BY <1>4, <1>t, <2>1 DEF SetDefault, ManagerType
    <3> QED
      BY <3>1, SameKeepsDefault
  <2>2. CASE p = l
    BY <1>4, <2>2 DEF StaysDefault
  <2> QED
    BY <2>1, <2>2
<1>5. ASSUME NEW p \in LogicalPaths, RemoveLogical(p) PROVE versions' = versions \/ \E m \in Modules : UnregisterVersion(m)
  <2>1. PICK i \in DOMAIN started : RemoveComponent(started[i])
    BY <1>5, <1>t, LogicalIsOne
  <2>2. started[i] \in Modules
    BY <1>t
  <2> QED
    BY <2>1, <2>2 DEF RemoveComponent
<1>6. ASSUME NEW r \in removing, AfterDelete(r) PROVE \E m \in Modules : UnregisterVersion(m)
  <2>1. r.module \in Modules
    BY <1>t DEF Removals
  <2> QED
    BY <1>6, <2>1 DEF AfterDelete
<1>7. ASSUME NEW m \in Modules, Build(m) \/ AddDuplicate(m) PROVE versions' = versions
  BY <1>7 DEF Build, AddDuplicate, manager
<1>8. ASSUME NEW p \in LogicalPaths, Teardown(p) PROVE versions' = versions
  BY <1>8 DEF Teardown
<1>9. ASSUME NEW p \in MountPaths, RemovePath(p) PROVE versions' = versions
  BY <1>9 DEF RemovePath, manager
<1>10. ASSUME NEW r \in removing, Delete(r) PROVE versions' = versions
  BY <1>10 DEF Delete, manager
<1>11. CASE UNCHANGED vars
  BY <1>1, <1>11 DEF vars, manager
<1>12. ASSUME NEW m \in Modules, RemoveModule(m) PROVE UnregisterVersion(m)
  BY <1>12 DEF RemoveModule, RemoveComponent
<1> QED
  BY <1>1, <1>2, <1>3, <1>4, <1>5, <1>6, <1>7, <1>8, <1>9, <1>10, <1>11, <1>12 DEF Next

\* An explicit default stays the default until it is removed or another one
\* is set, in every behaviour.
THEOREM DefaultAlwaysKept == Spec => DefaultIsKept
BY Inductive, NextKeepsDefault, PTL DEF Spec, DefaultIsKept
-----------------------------------------------------------------------------
(* Paths above and below each other.                                       *)

Names == Tags \cup LogicalPaths \cup {Leaf}

LEMMA Appended ==
    ASSUME NEW S, NEW s \in Seq(S), NEW e \in S
    PROVE  /\ Append(s, e) \in Seq(S) /\ Len(Append(s, e)) = Len(s) + 1
           /\ \A i \in 1..Len(s) : Append(s, e)[i] = s[i]
BY AppendProperties

LEMMA PathsAreSeqs == \A p \in Paths : p \in Seq(Names) /\ p # <<>> /\ Len(p) \in 1..3
<1>1. \A t \in Tags : <<t>> \in Seq(Names) /\ Len(<<t>>) = 1
  BY DEF Names
<1>2. \A t \in Tags, l \in LogicalPaths : <<t, l>> \in Seq(Names) /\ Len(<<t, l>>) = 2
  BY DEF Names
<1>3. \A p \in MountPaths : p \in Seq(Names) /\ Len(p) = 2
  <2> SUFFICES ASSUME NEW p \in MountPaths PROVE p \in Seq(Names) /\ Len(p) = 2
    OBVIOUS
  <2>1. PICK t \in Tags, l \in LogicalPaths : p = <<t, l>>
    BY DEF MountPaths
  <2> QED
    BY <1>2, <2>1
<1>4. \A p \in MountPaths : Append(p, Leaf) \in Seq(Names) /\ Len(Append(p, Leaf)) = 3
  <2> SUFFICES ASSUME NEW p \in MountPaths
               PROVE  Append(p, Leaf) \in Seq(Names) /\ Len(Append(p, Leaf)) = 3
    OBVIOUS
  <2>1. p \in Seq(Names) /\ Len(p) = 2 /\ Leaf \in Names
    BY <1>3 DEF Names
  <2>2. Append(p, Leaf) \in Seq(Names) /\ Len(Append(p, Leaf)) = Len(p) + 1
    BY <2>1, Appended
  <2> QED
    BY <2>1, <2>2
<1>5. \A p \in Paths : p \in Seq(Names) /\ Len(p) \in 1..3
  <2> SUFFICES ASSUME NEW p \in Paths PROVE p \in Seq(Names) /\ Len(p) \in 1..3
    OBVIOUS
  <2>1. CASE \E t \in Tags : p = <<t>>
    BY <1>1, <2>1
  <2>2. CASE p \in MountPaths
    BY <1>3, <2>2
  <2>3. CASE \E q \in MountPaths : p = Append(q, Leaf)
    BY <1>4, <2>3
  <2> QED
    BY <2>1, <2>2, <2>3 DEF Paths
<1> QED
  BY <1>5, EmptySeq

LEMMA PrefixByIndex ==
    ASSUME NEW s \in Seq(Names), NEW t \in Seq(Names)
    PROVE  IsPrefix(s, t) <=> Len(s) <= Len(t) /\ \A i \in 1..Len(s) : s[i] = t[i]
<1>1. Len(s) \in Nat /\ Len(t) \in Nat
  OBVIOUS
<1>2. SubSeq(s, 1, Len(s)) \in Seq(Names) /\ Len(SubSeq(s, 1, Len(s))) = Len(s)
      /\ \A i \in 1..Len(s) : SubSeq(s, 1, Len(s))[i] = s[i]
  BY <1>1, SubSeqProperties
<1>3. ASSUME Len(s) <= Len(t)
      PROVE  /\ SubSeq(t, 1, Len(s)) \in Seq(Names) /\ Len(SubSeq(t, 1, Len(s))) = Len(s)
             /\ \A i \in 1..Len(s) : SubSeq(t, 1, Len(s))[i] = t[i]
  BY <1>1, <1>3, SubSeqProperties
<1>4. ASSUME Len(s) <= Len(t), \A i \in 1..Len(s) : s[i] = t[i]
      PROVE  SubSeq(s, 1, Len(s)) = SubSeq(t, 1, Len(s))
  BY <1>2, <1>3, <1>4, SeqEqual
<1>5. ASSUME Len(s) <= Len(t), SubSeq(s, 1, Len(s)) = SubSeq(t, 1, Len(s)), NEW i \in 1..Len(s)
      PROVE  s[i] = t[i]
  BY <1>2, <1>3, <1>5
<1> QED
  BY <1>4, <1>5 DEF IsPrefix

\* The three paths of a module.
LEMMA PathsOfModule ==
    ASSUME NEW m \in Modules
    PROVE  /\ <<TagOf[m]>> \in Seq(Names) /\ Len(<<TagOf[m]>>) = 1 /\ <<TagOf[m]>>[1] = TagOf[m]
           /\ MountOf(m) \in Seq(Names) /\ Len(MountOf(m)) = 2
           /\ MountOf(m)[1] = TagOf[m] /\ MountOf(m)[2] = PathOf[m]
           /\ LeafOf(m) \in Seq(Names) /\ Len(LeafOf(m)) = 3
           /\ LeafOf(m)[1] = TagOf[m] /\ LeafOf(m)[2] = PathOf[m]
<1>1. /\ <<TagOf[m]>> \in Paths /\ MountOf(m) \in Paths /\ LeafOf(m) \in Paths
  BY PathsType
<1>2. Len(<<TagOf[m]>>) = 1 /\ <<TagOf[m]>>[1] = TagOf[m]
  OBVIOUS
<1>3. Len(MountOf(m)) = 2 /\ MountOf(m)[1] = TagOf[m] /\ MountOf(m)[2] = PathOf[m]
  BY DEF MountOf
<1>4. MountOf(m) \in Seq(Names)
  BY <1>1, PathsAreSeqs
<1>5. Len(LeafOf(m)) = 3 /\ LeafOf(m)[1] = TagOf[m] /\ LeafOf(m)[2] = PathOf[m]
  <2>1. Leaf \in Names
    BY DEF Names
  <2>2. /\ Len(LeafOf(m)) = Len(MountOf(m)) + 1
        /\ \A i \in 1..Len(MountOf(m)) : LeafOf(m)[i] = MountOf(m)[i]
    BY <1>4, <2>1, Appended DEF LeafOf
  <2> QED
    BY <1>3, <2>2
<1> QED
  BY <1>1, <1>2, <1>3, <1>4, <1>5, PathsAreSeqs

PathsOfM(m) == {<<TagOf[m]>>, MountOf(m), LeafOf(m)}

LEMMA PathsApart ==
    ASSUME NEW m \in Modules, NEW n \in Modules
    PROVE  /\ MountOf(m) = MountOf(n) <=> TagOf[m] = TagOf[n] /\ PathOf[m] = PathOf[n]
           /\ LeafOf(m) = LeafOf(n) <=> MountOf(m) = MountOf(n)
           /\ MountOf(m) \in PathsOfM(n) => MountOf(m) = MountOf(n)
           /\ LeafOf(m) \in PathsOfM(n) => MountOf(m) = MountOf(n)
           /\ MountOf(m) # LeafOf(n) /\ MountOf(m) # <<TagOf[n]>> /\ LeafOf(m) # <<TagOf[n]>>
<1>1. MountOf(m) = MountOf(n) <=> TagOf[m] = TagOf[n] /\ PathOf[m] = PathOf[n]
  BY DEF MountOf
<1>2. MountOf(m) # LeafOf(n) /\ MountOf(m) # <<TagOf[n]>> /\ LeafOf(m) # <<TagOf[n]>>
  BY PathsOfModule
<1>3. LeafOf(m) = LeafOf(n) <=> MountOf(m) = MountOf(n)
  <2>1. LeafOf(m) = LeafOf(n) => TagOf[m] = TagOf[n] /\ PathOf[m] = PathOf[n]
    BY PathsOfModule
  <2> QED
    BY <1>1, <2>1 DEF LeafOf
<1>4. LeafOf(m) # MountOf(n)
  BY PathsOfModule
<1> QED
  BY <1>1, <1>2, <1>3, <1>4 DEF PathsOfM

LEMMA PrefixOf ==
    ASSUME NEW s \in Seq(Names), NEW t \in Seq(Names)
    PROVE  /\ Len(s) > Len(t) => ~IsPrefix(s, t) /\ s # t
           /\ Len(s) > 0 /\ IsPrefix(s, t) => s[1] = t[1]
<1>1. Len(s) \in Nat /\ Len(t) \in Nat
  OBVIOUS
<1>2. IsPrefix(s, t) <=> Len(s) <= Len(t) /\ \A i \in 1..Len(s) : s[i] = t[i]
  BY PrefixByIndex
<1>3. Len(s) > Len(t) => ~IsPrefix(s, t) /\ s # t
  BY <1>1, <1>2
<1>4. Len(s) > 0 => 1 \in 1..Len(s)
  BY <1>1
<1> QED
  BY <1>2, <1>3, <1>4

LEMMA PrefixOfMount ==
    ASSUME NEW t \in Seq(Names), NEW b \in Seq(Names), NEW f \in Seq(Names),
           Len(t) = 1, Len(b) = 2, Len(f) = 3, t[1] = b[1], f[1] = b[1], f[2] = b[2]
    PROVE  IsPrefix(t, b) /\ IsPrefix(t, f) /\ IsPrefix(b, f) /\ IsPrefix(b, b)
<1>1. IsPrefix(t, b)
  BY PrefixByIndex
<1>2. IsPrefix(t, f)
  BY PrefixByIndex
<1>3. IsPrefix(b, f)
  <2>1. \A i \in 1..2 : b[i] = f[i]
    OBVIOUS
  <2> QED
    BY <2>1, PrefixByIndex
<1>4. IsPrefix(b, b)
  BY PrefixByIndex
<1> QED
  BY <1>1, <1>2, <1>3, <1>4

\* Deleting a path of m hits no mount but those of its tag; deleting its
\* mount hits no other; and each of its paths is above or below its mount.
LEMMA HitsOf ==
    ASSUME NEW m \in Modules, NEW n \in Modules
    PROVE  /\ \A q \in PathsOfM(m) : Hits(q, MountOf(n)) => TagOf[m] = TagOf[n]
           /\ \A q \in PathsOfM(m) : Hits(q, MountOf(m))
           /\ Hits(MountOf(m), MountOf(n)) => MountOf(m) = MountOf(n)
           /\ IsStrictPrefix(<<TagOf[m]>>, MountOf(m)) /\ IsStrictPrefix(<<TagOf[m]>>, LeafOf(m))
           /\ IsStrictPrefix(MountOf(m), LeafOf(m))
           /\ \A q \in PathsOfM(m) : ~IsStrictPrefix(LeafOf(m), q)
<1>1. ASSUME NEW q \in PathsOfM(m), Hits(q, MountOf(n)) PROVE TagOf[m] = TagOf[n]
  <2>1. q \in Seq(Names) /\ Len(q) > 0 /\ q[1] = TagOf[m]
    <3>1. CASE q = <<TagOf[m]>>
      BY <3>1, PathsOfModule
    <3>2. CASE q = MountOf(m)
      BY <3>2, PathsOfModule
    <3>3. CASE q = LeafOf(m)
      BY <3>3, PathsOfModule
    <3> QED
      BY <3>1, <3>2, <3>3 DEF PathsOfM
  <2>2. MountOf(n) \in Seq(Names) /\ Len(MountOf(n)) > 0 /\ MountOf(n)[1] = TagOf[n]
    BY PathsOfModule
  <2> QED
    BY <1>1, <2>1, <2>2, PrefixOf DEF Hits
<1>2. Hits(MountOf(m), MountOf(n)) => MountOf(m) = MountOf(n)
  <2>1. /\ MountOf(m) \in Seq(Names) /\ MountOf(n) \in Seq(Names)
        /\ Len(MountOf(m)) = 2 /\ Len(MountOf(n)) = 2
    BY PathsOfModule
  <2>2. /\ IsPrefix(MountOf(m), MountOf(n)) => MountOf(m) = MountOf(n)
        /\ IsPrefix(MountOf(n), MountOf(m)) => MountOf(m) = MountOf(n)
    BY <2>1, PrefixByIndex, SeqEqual
  <2> QED
    BY <2>2 DEF Hits
<1>3. /\ IsPrefix(<<TagOf[m]>>, MountOf(m)) /\ IsPrefix(<<TagOf[m]>>, LeafOf(m))
      /\ IsPrefix(MountOf(m), LeafOf(m)) /\ IsPrefix(MountOf(m), MountOf(m))
  BY PathsOfModule, PrefixOfMount
<1>4. \A q \in PathsOfM(m) : Hits(q, MountOf(m))
  BY <1>3 DEF Hits, PathsOfM
<1>5. ~IsPrefix(LeafOf(m), <<TagOf[m]>>) /\ ~IsPrefix(LeafOf(m), MountOf(m))
  <2>1. /\ Len(LeafOf(m)) > Len(<<TagOf[m]>>) /\ Len(LeafOf(m)) > Len(MountOf(m))
        /\ LeafOf(m) \in Seq(Names) /\ <<TagOf[m]>> \in Seq(Names) /\ MountOf(m) \in Seq(Names)
    BY PathsOfModule
  <2> QED
    BY <2>1, PrefixOf
<1>6. \A q \in PathsOfM(m) : ~IsStrictPrefix(LeafOf(m), q)
  BY <1>5 DEF PathsOfM, IsStrictPrefix
<1>7. MountOf(m) # LeafOf(m) /\ MountOf(m) # <<TagOf[m]>> /\ LeafOf(m) # <<TagOf[m]>>
  BY PathsApart
<1> QED
  BY <1>1, <1>2, <1>3, <1>4, <1>6, <1>7 DEF IsStrictPrefix

-----------------------------------------------------------------------------
(* Who owns what is mounted.                                               *)

Owns(m, p) == m \in ToSet(owners[p])

\* The version of m was removed by path and is still registered.
Leaves(m) == \E r \in removing : r.unregister = TRUE /\ r.module = m

LEMMA ClaimOwns ==
    ASSUME Stacks, NEW m \in Modules, NEW ps, Registry!Claim(m, ps)
    PROVE  /\ \A p \in Paths : \A x : Owns(x, p)' <=> Owns(x, p) \/ (x = m /\ p \in ps)
           /\ m \notin retired /\ retired' = retired
<1>1. \A p \in Paths : owners'[p] = IF p \in ps /\ m \notin ToSet(owners[p])
                                    THEN Append(owners[p], m) ELSE owners[p]
  BY SameHelpers DEF Registry!Claim
<1>2. \A p \in Paths : m \notin ToSet(owners[p]) => ToSet(Append(owners[p], m)) = ToSet(owners[p]) \cup {m}
  BY AppendMember DEF Stacks
<1>3. ASSUME NEW p \in Paths, NEW x PROVE x \in ToSet(owners'[p]) <=> x \in ToSet(owners[p]) \/ (x = m /\ p \in ps)
  BY <1>1, <1>2
<1> QED
  BY <1>3 DEF Owns, Registry!Claim

LEMMA RemovedOwns ==
    ASSUME Stacks, NEW m, NEW p \in Paths
    PROVE  \A x : x \in ToSet(RemoveFirst(owners[p], m)) <=> x \in ToSet(owners[p]) /\ x # m
<1>1. owners[p] \in Seq(Modules) /\ IsInjective(owners[p])
  BY DEF Stacks
<1>2. CASE m \in ToSet(owners[p])
  <2>1. ToSet(RemoveFirst(owners[p], m)) = ToSet(owners[p]) \ {m}
    BY <1>1, <1>2, RemoveFirstMember
  <2> QED
    BY <2>1
<1>3. CASE m \notin ToSet(owners[p])
  BY <1>1, <1>3, RemoveFirstAbsent
<1> QED
  BY <1>2, <1>3

LEMMA RetireOwns ==
    ASSUME Stacks, NEW m \in Modules, Registry!Retire(m)
    PROVE  /\ \A p \in Paths : \A x : Owns(x, p)' <=> Owns(x, p) /\ x # m
           /\ \E p \in Paths : Owns(m, p)
           /\ retired' = retired \cup {m}
<1>1. /\ \A p \in Paths : owners'[p] = RemoveFirst(owners[p], m)
      /\ \E p \in Paths : m \in ToSet(owners[p])
      /\ retired' = retired \cup {m}
  BY SameHelpers DEF Registry!Retire
<1> QED
  BY <1>1, RemovedOwns DEF Owns

LEMMA ReleaseOwns ==
    ASSUME Stacks, NEW m, NEW p \in Paths, Registry!Release(m, p)
    PROVE  /\ \A q \in Paths : \A x : Owns(x, q)' <=> Owns(x, q) /\ ~(x = m /\ q = p)
           /\ retired' = retired
<1>1. /\ \A q \in Paths : owners'[q] = IF q = p THEN RemoveFirst(owners[p], m) ELSE owners[q]
      /\ retired' = retired
  BY SameHelpers DEF Registry!Release, Stacks
<1> QED
  BY <1>1, RemovedOwns DEF Owns

LEMMA KeptOwns ==
    ASSUME UNCHANGED registry
    PROVE  (\A p \in Paths : \A x : Owns(x, p)' <=> Owns(x, p)) /\ retired' = retired
BY DEF registry, Owns

LEMMA NoOwner ==
    ASSUME NEW st, NEW p, st[p] \in Seq(Modules)
    PROVE  st[p] = <<>> <=> \A x \in Modules : x \notin ToSet(st[p])
<1>1. \A x : x \in ToSet(st[p]) <=> \E i \in DOMAIN st[p] : st[p][i] = x
  BY Members
<1>2. st[p] = <<>> <=> ToSet(st[p]) = {}
  BY Members
<1>3. ToSet(st[p]) \subseteq Modules
  BY <1>1
<1> QED
  BY <1>2, <1>3

\* A module that owns anything is known: it owns its function, and its version
\* is being built, registered, or was removed by path.
OwnersKnown ==
    \A p \in Paths : \A m \in Modules :
        Owns(m, p) => /\ p \in PathsOfM(m) /\ m \notin retired /\ m \in ToSet(started)
                      /\ Owns(m, LeafOf(m))
                      /\ m \in building \/ m \in versioned \/ MountOf(m) \in byPath

\* A registered module has been built once, and owns what it mounted.
VersionedOwn ==
    \A m \in versioned :
        /\ m \in ToSet(started) /\ m \notin building
        /\ m \notin retired => Owns(m, LeafOf(m)) /\ (Owns(m, MountOf(m)) \/ Leaves(m))

BuildingStarted == \A m \in building : m \in ToSet(started)
LeftByPath == \A m \in Modules : Leaves(m) => MountOf(m) \in byPath
\* Only a removal by path has something to do once it has deleted.
AfterByPath == \A r \in removing : r.cut = {} => r.unregister = TRUE

Held == OwnersKnown /\ VersionedOwn /\ BuildingStarted /\ LeftByPath /\ AfterByPath

-----------------------------------------------------------------------------
(* What a removal cuts.                                                    *)

LEMMA CutPaths ==
    ASSUME NEW m \in Modules, NEW ps \in SUBSET PathsOfM(m), NEW st
    PROVE  Cut(m, ps, st) \subseteq PathsOfM(m)
BY DEF Cut, PathsOfM

\* Once the function has no owner left, what is mounted is deleted; while it
\* has one nothing is.
LEMMA CutByLeaf ==
    ASSUME NEW m \in Modules, NEW ps \in SUBSET PathsOfM(m), LeafOf(m) \in ps, NEW st
    PROVE  /\ st[LeafOf(m)] = <<>> => \E q \in Cut(m, ps, st) : Hits(q, MountOf(m))
           /\ st[LeafOf(m)] # <<>> => Cut(m, ps, st) = {}
<1> DEFINE doomed == {p \in ps : st[p] = <<>> /\ \A q \in ps : IsStrictPrefix(p, q) => st[q] = <<>>}
<1>1. Cut(m, ps, st) = IF doomed = {} \/ MountOf(m) \notin ps THEN doomed ELSE doomed \cup {MountOf(m)}
  BY DEF Cut
<1>2. ASSUME st[LeafOf(m)] = <<>> PROVE \E q \in Cut(m, ps, st) : Hits(q, MountOf(m))
  <2>1. \A q \in ps : ~IsStrictPrefix(LeafOf(m), q)
    BY HitsOf
  <2>2. LeafOf(m) \in doomed
    BY <1>2, <2>1
  <2>3. LeafOf(m) \in Cut(m, ps, st)
    BY <1>1, <2>2
  <2>4. Hits(LeafOf(m), MountOf(m))
    BY HitsOf DEF PathsOfM
  <2> QED
    BY <2>3, <2>4
<1>3. ASSUME st[LeafOf(m)] # <<>> PROVE Cut(m, ps, st) = {}
  <2>1. \A p \in PathsOfM(m) : p = LeafOf(m) \/ IsStrictPrefix(p, LeafOf(m))
    BY HitsOf DEF PathsOfM
  <2>2. doomed = {}
    BY <1>3, <2>1
  <2> QED
    BY <1>1, <2>2
<1> QED
  BY <1>2, <1>3

\* A module that leaves the registry with the paths it owned, and perhaps more
\* of its own: what it owned was its own, its function too.
LEMMA LeavingCut ==
    ASSUME Stacks, OwnersKnown, NEW m \in Modules, Registry!Retire(m),
           NEW more \in SUBSET PathsOfM(m), Deletions(m, Owned(m) \cup more, owners')
    PROVE  /\ m \notin retired
           /\ \/ removing' = removing /\ \E x \in Modules \ {m} : Owns(x, LeafOf(m))
              \/ /\ \A x \in Modules \ {m} : ~Owns(x, LeafOf(m))
                 /\ \E cut \in SUBSET PathsOfM(m) :
                        /\ \E q \in cut : Hits(q, MountOf(m))
                        /\ removing' = removing \cup {[module |-> m, cut |-> cut, unregister |-> FALSE]}
<1> DEFINE ps == Owned(m) \cup more
           cut == Cut(m, ps, owners')
<1>1. PICK p \in Paths : Owns(m, p)
  BY RetireOwns
<1>2. LeafOf(m) \in ps /\ m \notin retired
  BY <1>1, PathsType DEF OwnersKnown, Owned, Owns
<1>3. ps \subseteq PathsOfM(m)
  BY DEF OwnersKnown, Owned, Owns
<1>4. owners'[LeafOf(m)] \in Seq(Modules)
  <2>1. owners'[LeafOf(m)] = RemoveFirst(owners[LeafOf(m)], m)
    BY SameHelpers, PathsType DEF Registry!Retire
  <2> QED
    BY <2>1, RemovedStack, PathsType
<1>5. owners'[LeafOf(m)] = <<>> <=> \A x \in Modules : x \notin ToSet(owners'[LeafOf(m)])
  BY <1>4, NoOwner
<1>6. owners'[LeafOf(m)] = <<>> <=> \A x \in Modules \ {m} : ~Owns(x, LeafOf(m))
  BY <1>5, RetireOwns, PathsType DEF Owns
<1>7. /\ owners'[LeafOf(m)] = <<>> => \E q \in cut : Hits(q, MountOf(m))
      /\ owners'[LeafOf(m)] # <<>> => cut = {}
  BY <1>2, <1>3, CutByLeaf
<1>8. cut \subseteq PathsOfM(m)
  BY <1>3, CutPaths
<1>9. removing' = IF cut = {} THEN removing
                  ELSE removing \cup {[module |-> m, cut |-> cut, unregister |-> FALSE]}
  BY DEF Deletions
<1> HIDE DEF cut
<1>10. CASE cut = {}
  BY <1>2, <1>6, <1>7, <1>9, <1>10
<1>11. CASE cut # {}
  BY <1>2, <1>6, <1>7, <1>8, <1>9, <1>11
<1> QED
  BY <1>10, <1>11

-----------------------------------------------------------------------------
(* Owners and registered versions stay known.                              *)

LEMMA UnregisteredOne ==
    ASSUME NEW m \in Modules, UnregisterVersion(m)
    PROVE  versioned' = versioned \ {m}
BY DEF UnregisterVersion, manager

LEMMA AppendedMembers ==
    ASSUME NEW s \in Seq(Modules), NEW m \in Modules
    PROVE  ToSet(Append(s, m)) = ToSet(s) \cup {m}
<1>1. DOMAIN Append(s, m) = 1..Len(s) + 1 /\ DOMAIN s = 1..Len(s) /\ Len(s) \in Nat
      /\ (\A i \in 1..Len(s) : Append(s, m)[i] = s[i]) /\ Append(s, m)[Len(s) + 1] = m
  BY AppendProperties
<1> QED
  BY <1>1 DEF ToSet

LEMMA BuildHeld ==
    ASSUME IInv, Held, NEW m \in Modules, Build(m)
    PROVE  Held'
<1>1. /\ \A p \in Paths : \A x : Owns(x, p)' <=> Owns(x, p) \/ (x = m /\ p \in {LeafOf(m)})
      /\ m \notin retired /\ retired' = retired
  BY ClaimOwns DEF Build, IInv
<1>2. /\ m \notin ToSet(started) /\ ToSet(started') = ToSet(started) \cup {m}
      /\ building' = building \cup {m}
      /\ UNCHANGED <<versioned, removing, byPath>>
  BY AppendedMembers DEF Build, IInv, TypeOK, tree, manager, history
<1>3. LeafOf(m) \in Paths /\ LeafOf(m) \in PathsOfM(m)
  BY PathsType DEF PathsOfM
<1>4. OwnersKnown'
  BY <1>1, <1>2, <1>3, PathsType DEF Held, OwnersKnown
<1>5. VersionedOwn'
  <2> SUFFICES ASSUME NEW n \in versioned
               PROVE  /\ n \in ToSet(started') /\ n \notin building'
                      /\ n \notin retired' => Owns(n, LeafOf(n))' /\ (Owns(n, MountOf(n))' \/ Leaves(n)')
    BY <1>2 DEF VersionedOwn
  <2>1. n \in Modules /\ n # m
    BY <1>2 DEF Held, VersionedOwn, IInv, TypeOK
  <2>2. Leaves(n)' <=> Leaves(n)
    BY <1>2 DEF Leaves
  <2> QED
    BY <1>1, <1>2, <2>1, <2>2, PathsType DEF Held, VersionedOwn
<1>6. BuildingStarted' /\ LeftByPath' /\ AfterByPath'
  BY <1>2 DEF Held, BuildingStarted, LeftByPath, AfterByPath, Leaves
<1> QED
  BY <1>4, <1>5, <1>6 DEF Held

LEMMA AddVersionHeld ==
    ASSUME IInv, Held, NEW m \in Modules, AddVersion(m)
    PROVE  Held'
<1>1. /\ m \in building /\ building' = building \ {m} /\ versioned' = versioned \cup {m}
      /\ UNCHANGED <<started, byPath, removing>>
  BY DEF AddVersion, Mount, RegisterVersion
<1>2. /\ Claims(m) \subseteq PathsOfM(m) /\ LeafOf(m) \in Claims(m) /\ MountOf(m) \in Claims(m)
  BY DEF Claims, PathsOfM
<1>3. /\ retired' = retired
      /\ \A p \in Paths : \A x : Owns(x, p)' <=> Owns(x, p) \/ (x = m /\ m \notin retired /\ p \in Claims(m))
  <2>1. CASE m \in retired
    BY <2>1, KeptOwns DEF AddVersion
  <2>2. CASE m \notin retired
    BY <2>2, ClaimOwns DEF AddVersion, IInv
  <2> QED
    BY <2>1, <2>2
<1>4. m \in ToSet(started)
  BY <1>1 DEF Held, BuildingStarted
<1>5. OwnersKnown'
  <2> SUFFICES ASSUME NEW p \in Paths, NEW n \in Modules, Owns(n, p)'
               PROVE  /\ p \in PathsOfM(n) /\ n \notin retired' /\ n \in ToSet(started')
                      /\ Owns(n, LeafOf(n))'
                      /\ n \in building' \/ n \in versioned' \/ MountOf(n) \in byPath'
    BY DEF OwnersKnown
  <2>1. CASE n = m
    <3>1. p \in PathsOfM(m)
      BY <1>2, <1>3, <2>1 DEF Held, OwnersKnown
    <3>2. m \notin retired
      BY <1>3, <2>1 DEF Held, OwnersKnown
    <3> QED
      BY <1>1, <1>2, <1>3, <1>4, <2>1, <3>1, <3>2, PathsType
  <2>2. CASE n # m
    <3>1. Owns(n, p)
      BY <1>3, <2>2
    <3>2. /\ p \in PathsOfM(n) /\ n \notin retired /\ n \in ToSet(started) /\ Owns(n, LeafOf(n))
          /\ n \in building \/ n \in versioned \/ MountOf(n) \in byPath
      BY <3>1 DEF Held, OwnersKnown
    <3>3. Owns(n, LeafOf(n))'
      BY <1>3, <3>2, PathsType
    <3> QED
      BY <1>1, <1>3, <2>2, <3>2, <3>3
  <2> QED
    BY <2>1, <2>2
<1>6. VersionedOwn'
  <2> SUFFICES ASSUME NEW n \in versioned'
               PROVE  /\ n \in ToSet(started') /\ n \notin building'
                      /\ n \notin retired' => Owns(n, LeafOf(n))' /\ (Owns(n, MountOf(n))' \/ Leaves(n)')
    BY DEF VersionedOwn
  <2>1. CASE n = m
    BY <1>1, <1>2, <1>3, <1>4, <2>1, PathsType
  <2>2. CASE n # m
    <3>1. n \in versioned /\ n \in Modules
      BY <1>1, <2>2 DEF IInv, TypeOK
    <3>2. Leaves(n)' <=> Leaves(n)
      BY <1>1 DEF Leaves
    <3> QED
      BY <1>1, <1>3, <3>1, <3>2, PathsType DEF Held, VersionedOwn
  <2> QED
    BY <2>1, <2>2
<1>7. BuildingStarted' /\ LeftByPath' /\ AfterByPath'
  BY <1>1 DEF Held, BuildingStarted, LeftByPath, AfterByPath, Leaves
<1> QED
  BY <1>5, <1>6, <1>7 DEF Held

\* m leaves the registry: by remove(), or because its tag was taken.
LEMMA LeaveHeld ==
    ASSUME IInv, Held, NEW m \in Modules, Registry!Retire(m),
           versioned' = versioned \ {m}, building' \subseteq building, building \subseteq building' \cup {m},
           UNCHANGED <<started, byPath>>,
           removing \subseteq removing', \A r \in removing' \ removing : r.unregister = FALSE /\ r.cut # {}
    PROVE  Held'
<1>1. /\ \A p \in Paths : \A x : Owns(x, p)' <=> Owns(x, p) /\ x # m
      /\ retired' = retired \cup {m}
  BY RetireOwns DEF IInv
<1>2. \A n : Leaves(n)' <=> Leaves(n)
  BY DEF Leaves
<1>3. OwnersKnown'
  BY <1>1, PathsType DEF Held, OwnersKnown
<1>4. VersionedOwn'
  <2> SUFFICES ASSUME NEW n \in versioned'
               PROVE  /\ n \in ToSet(started') /\ n \notin building'
                      /\ n \notin retired' => Owns(n, LeafOf(n))' /\ (Owns(n, MountOf(n))' \/ Leaves(n)')
    BY DEF VersionedOwn
  <2>1. n \in versioned /\ n \in Modules /\ n # m
    BY DEF IInv, TypeOK
  <2> QED
    BY <1>1, <1>2, <2>1, PathsType DEF Held, VersionedOwn
<1>5. BuildingStarted' /\ LeftByPath' /\ AfterByPath'
  BY <1>2 DEF Held, BuildingStarted, LeftByPath, AfterByPath
<1> QED
  BY <1>3, <1>4, <1>5 DEF Held

\* What AddDuplicate and RemoveComponent have in common.
LEMMA LeavingRemovals ==
    ASSUME IInv, Held, NEW m \in Modules, Registry!Retire(m),
           NEW more \in SUBSET PathsOfM(m), Deletions(m, Owned(m) \cup more, owners')
    PROVE  /\ removing \subseteq removing'
           /\ \A r \in removing' \ removing : r.unregister = FALSE /\ r.cut # {}
<1>1. \/ removing' = removing
      \/ \E cut \in SUBSET PathsOfM(m) :
            /\ \E q \in cut : Hits(q, MountOf(m))
            /\ removing' = removing \cup {[module |-> m, cut |-> cut, unregister |-> FALSE]}
  BY LeavingCut DEF IInv, Held
<1>2. CASE removing' = removing
  BY <1>2
<1>3. ASSUME NEW cut \in SUBSET PathsOfM(m), cut # {},
             removing' = removing \cup {[module |-> m, cut |-> cut, unregister |-> FALSE]}
      PROVE  /\ removing \subseteq removing'
             /\ \A r \in removing' \ removing : r.unregister = FALSE /\ r.cut # {}
  BY <1>3
<1> QED
  BY <1>1, <1>2, <1>3

LEMMA ClaimsOwnPaths ==
    ASSUME NEW m \in Modules
    PROVE  Claims(m) \subseteq PathsOfM(m)
BY DEF Claims, PathsOfM

LEMMA AddDuplicateHeld ==
    ASSUME IInv, Held, NEW m \in Modules, AddDuplicate(m)
    PROVE  Held'
<1>1. /\ m \in building /\ building' = building \ {m}
      /\ UNCHANGED <<started, byPath, versioned>>
  BY DEF AddDuplicate, Mount, manager
<1>2. m \notin versioned
  BY <1>1 DEF Held, VersionedOwn
<1>3. CASE m \notin retired
  <2>1. Registry!Retire(m) /\ Deletions(m, Owned(m) \cup Claims(m), owners')
    BY <1>3 DEF AddDuplicate
  <2>2. removing \subseteq removing' /\ \A r \in removing' \ removing : r.unregister = FALSE /\ r.cut # {}
    BY <2>1, ClaimsOwnPaths, LeavingRemovals
  <2> QED
    BY <1>1, <1>2, <2>1, <2>2, LeaveHeld
<1>4. CASE m \in retired
  <2>1. UNCHANGED <<registry, removing>>
    BY <1>4 DEF AddDuplicate
  <2>2. (\A p \in Paths : \A x : Owns(x, p)' <=> Owns(x, p)) /\ retired' = retired
    BY <2>1, KeptOwns
  <2>3. \A n : Leaves(n)' <=> Leaves(n)
    BY <2>1 DEF Leaves
  <2>4. OwnersKnown'
    BY <1>1, <1>4, <2>2, PathsType DEF Held, OwnersKnown
  <2>5. VersionedOwn'
    BY <1>1, <2>2, <2>3, PathsType DEF Held, VersionedOwn, IInv, TypeOK
  <2>6. BuildingStarted' /\ LeftByPath' /\ AfterByPath'
    BY <1>1, <2>1, <2>3 DEF Held, BuildingStarted, LeftByPath, AfterByPath
  <2> QED
    BY <2>4, <2>5, <2>6 DEF Held
<1> QED
  BY <1>3, <1>4

\* What removeApiComponent(moduleID) cuts.
LEMMA ComponentCut ==
    ASSUME IInv, Held, NEW m \in Modules, RemoveComponent(m)
    PROVE  /\ removing \subseteq removing'
           /\ \A r \in removing' \ removing : r.unregister = FALSE /\ r.cut # {}
           /\ \/ removing' = removing /\ \E x \in Modules \ {m} : Owns(x, LeafOf(m))
              \/ /\ \A x \in Modules \ {m} : ~Owns(x, LeafOf(m))
                 /\ \E cut \in SUBSET PathsOfM(m) :
                        /\ \E q \in cut : Hits(q, MountOf(m))
                        /\ removing' = removing \cup {[module |-> m, cut |-> cut, unregister |-> FALSE]}
<1> DEFINE more == {}
<1>1. Registry!Retire(m) /\ Deletions(m, Owned(m) \cup more, owners') /\ more \in SUBSET PathsOfM(m)
  BY DEF RemoveComponent
<1> HIDE DEF more
<1> QED
  BY <1>1, LeavingRemovals, LeavingCut DEF IInv, Held

LEMMA RemoveComponentHeld ==
    ASSUME IInv, Held, NEW m \in Modules, RemoveComponent(m)
    PROVE  Held'
<1>1. /\ Registry!Retire(m)
      /\ versioned' = versioned \ {m} /\ UNCHANGED <<started, building, byPath>>
  BY UnregisteredOne DEF RemoveComponent, history
<1>2. removing \subseteq removing' /\ \A r \in removing' \ removing : r.unregister = FALSE /\ r.cut # {}
  BY ComponentCut
<1> QED
  BY <1>1, <1>2, LeaveHeld

\* The one owner of a mount is a module mounted there.
LEMMA PathOwner ==
    ASSUME IInv, Held, NEW p \in MountPaths, RemovePath(p)
    PROVE  LET m == Head(owners[p])
           IN  /\ m \in Modules /\ p \in Paths /\ Owns(m, p) /\ MountOf(m) = p
               /\ \A x : Owns(x, p) => x = m
<1> DEFINE m == Head(owners[p])
<1>1. p \in Paths
  BY DEF Paths
<1>2. owners[p] \in Seq(Modules) /\ Len(owners[p]) = 1
  BY <1>1 DEF RemovePath, IInv, TypeOK
<1>3. \A x : x \in ToSet(owners[p]) <=> x = m
  BY <1>2 DEF ToSet
<1>4. m \in Modules
  BY <1>2
<1>5. Owns(m, p) /\ \A x : Owns(x, p) => x = m
  BY <1>3 DEF Owns
<1> HIDE DEF m
<1>6. p \in PathsOfM(m)
  BY <1>1, <1>4, <1>5 DEF Held, OwnersKnown
<1>7. Len(p) = 2
  BY DEF MountPaths
<1>8. MountOf(m) = p
  BY <1>4, <1>6, <1>7, PathsOfModule DEF PathsOfM
<1> QED
  BY <1>1, <1>4, <1>5, <1>8 DEF m

LEMMA RemovePathHeld ==
    ASSUME IInv, Held, NEW p \in MountPaths, RemovePath(p)
    PROVE  Held'
<1> DEFINE m == Head(owners[p])
           rec == [module |-> m, cut |-> {p}, unregister |-> TRUE]
<1>1. m \in Modules /\ p \in Paths /\ MountOf(m) = p
  BY PathOwner
<1>2. /\ \A q \in Paths : \A x : Owns(x, q)' <=> Owns(x, q) /\ ~(x = m /\ q = p)
      /\ retired' = retired
  BY <1>1, ReleaseOwns DEF RemovePath, IInv
<1>3. /\ removing' = removing \cup {rec} /\ byPath' = byPath \cup {p}
      /\ UNCHANGED <<started, building, versioned>>
  BY DEF RemovePath, manager
<1>r. rec.unregister = TRUE /\ rec.module = m /\ rec.cut # {}
  OBVIOUS
<1> HIDE DEF m, rec
<1>4. \A n : Leaves(n)' <=> Leaves(n) \/ n = m
  BY <1>3, <1>r DEF Leaves
<1>5. LeafOf(m) # p
  BY <1>1, PathsApart
<1>7. OwnersKnown'
  BY <1>2, <1>3, <1>5, PathsType DEF Held, OwnersKnown
<1>8. VersionedOwn'
  <2> SUFFICES ASSUME NEW n \in versioned
               PROVE  /\ n \in ToSet(started') /\ n \notin building'
                      /\ n \notin retired' => Owns(n, LeafOf(n))' /\ (Owns(n, MountOf(n))' \/ Leaves(n)')
    BY <1>3 DEF VersionedOwn
  <2>1. n \in Modules
    BY DEF IInv, TypeOK
  <2> QED
    BY <1>2, <1>3, <1>4, <1>5, <2>1, PathsType DEF Held, VersionedOwn
<1>9. BuildingStarted' /\ LeftByPath' /\ AfterByPath'
  BY <1>1, <1>3, <1>4, <1>r DEF Held, BuildingStarted, LeftByPath, AfterByPath
<1> QED
  BY <1>7, <1>8, <1>9 DEF Held

LEMMA DeleteLeaves ==
    ASSUME NEW r \in removing, Delete(r), removing \subseteq Removals
    PROVE  (\A n : Leaves(n)' <=> Leaves(n)) /\ (AfterByPath => AfterByPath')
<1> DEFINE rest == [r EXCEPT !.cut = {}]
<1>1. r \in Removals
  OBVIOUS
<1>2. rest.module = r.module /\ rest.unregister = r.unregister /\ r.unregister \in BOOLEAN
  BY <1>1 DEF Removals
<1>3. removing' = (removing \ {r}) \cup (IF r.unregister THEN {rest} ELSE {})
  BY DEF Delete
<1> HIDE DEF rest
<1>4. \A n : Leaves(n)' => Leaves(n)
  BY <1>2, <1>3 DEF Leaves
<1>5. \A n : Leaves(n) => Leaves(n)'
  <2> SUFFICES ASSUME NEW n, NEW x \in removing, x.unregister = TRUE, x.module = n PROVE Leaves(n)'
    BY DEF Leaves
  <2>1. CASE x = r
    BY <1>2, <1>3, <2>1 DEF Leaves
  <2>2. CASE x # r
    BY <1>3, <2>2 DEF Leaves
  <2> QED
    BY <2>1, <2>2
<1>6. AfterByPath => AfterByPath'
  BY <1>2, <1>3 DEF AfterByPath
<1> QED
  BY <1>4, <1>5, <1>6

\* A step of no module, that may give up versions removed by path.
LEMMA QuietHeld ==
    ASSUME IInv, Held, UNCHANGED <<registry, started, building, byPath>>,
           NEW gone \in SUBSET Modules, versioned' = versioned \ gone,
           \A n \in gone : MountOf(n) \in byPath,
           \A n \in Modules : Leaves(n)' => Leaves(n), AfterByPath',
           \A n \in Modules \ gone : Leaves(n) => Leaves(n)'
    PROVE  Held'
<1>1. (\A p \in Paths : \A x : Owns(x, p)' <=> Owns(x, p)) /\ retired' = retired
  BY KeptOwns
<1>2. OwnersKnown'
  BY <1>1, PathsType DEF Held, OwnersKnown
<1>3. VersionedOwn'
  <2> SUFFICES ASSUME NEW n \in versioned'
               PROVE  /\ n \in ToSet(started') /\ n \notin building'
                      /\ n \notin retired' => Owns(n, LeafOf(n))' /\ (Owns(n, MountOf(n))' \/ Leaves(n)')
    BY DEF VersionedOwn
  <2>1. n \in versioned /\ n \in Modules \ gone
    BY DEF IInv, TypeOK
  <2> QED
    BY <1>1, <2>1, PathsType DEF Held, VersionedOwn
<1>4. BuildingStarted' /\ LeftByPath' /\ AfterByPath'
  BY DEF Held, BuildingStarted, LeftByPath, AfterByPath
<1> QED
  BY <1>2, <1>3, <1>4 DEF Held

LEMMA StillHeld ==
    ASSUME IInv, Held, UNCHANGED <<registry, started, building, byPath, versioned>>,
           \A n : Leaves(n)' <=> Leaves(n), AfterByPath'
    PROVE  Held'
<1> DEFINE gone == {}
<1>1. gone \in SUBSET Modules /\ versioned' = versioned \ gone /\ \A n \in gone : MountOf(n) \in byPath
  OBVIOUS
<1> HIDE DEF gone
<1> QED
  BY <1>1, QuietHeld

LEMMA NextHeld == IInv /\ Held /\ [Next]_vars => Held'
<1> SUFFICES ASSUME IInv, Held, [Next]_vars PROVE Held'
  OBVIOUS
<1>t. removing \subseteq Removals /\ started \in Seq(Modules)
  BY DEF IInv, TypeOK
<1>1. ASSUME NEW m \in Modules, Build(m) PROVE Held'
  BY <1>1, BuildHeld
<1>2. ASSUME NEW m \in Modules, AddVersion(m) PROVE Held'
  BY <1>2, AddVersionHeld
<1>3. ASSUME NEW m \in Modules, AddDuplicate(m) PROVE Held'
  BY <1>3, AddDuplicateHeld
<1>4. ASSUME NEW m \in Modules, RemoveModule(m) PROVE Held'
  BY <1>4, RemoveComponentHeld DEF RemoveModule
<1>5. ASSUME NEW l \in LogicalPaths, RemoveLogical(l) PROVE Held'
  <2>1. \E i \in DOMAIN started : RemoveComponent(started[i])
    BY <1>5, <1>t, LogicalIsOne
  <2> QED
    BY <1>t, <2>1, RemoveComponentHeld
<1>q. ASSUME UNCHANGED <<registry, started, building, byPath, versioned, removing>> PROVE Held'
  <2>1. \A n : Leaves(n)' <=> Leaves(n)
    BY <1>q DEF Leaves
  <2>2. AfterByPath'
    BY <1>q DEF Held, AfterByPath
  <2> QED
    BY <1>q, <2>1, <2>2, StillHeld
<1>6. ASSUME NEW l \in LogicalPaths, Teardown(l) PROVE Held'
  BY <1>6, <1>q DEF Teardown, tree, history
<1>7. ASSUME NEW l \in LogicalPaths, NEW u \in Tags, SetDefault(l, u) PROVE Held'
  BY <1>7, <1>q DEF SetDefault, tree, history
<1>8. ASSUME NEW p \in MountPaths, RemovePath(p) PROVE Held'
  BY <1>8, RemovePathHeld
<1>9. ASSUME NEW r \in removing, Delete(r) PROVE Held'
  <2>1. (\A n : Leaves(n)' <=> Leaves(n)) /\ AfterByPath'
    BY <1>9, <1>t, DeleteLeaves DEF Held
  <2>2. UNCHANGED <<registry, started, building, byPath, versioned>>
    BY <1>9 DEF Delete, manager, history
  <2> QED
    BY <2>1, <2>2, StillHeld
<1>10. ASSUME NEW r \in removing, AfterDelete(r) PROVE Held'
  <2>1. r.module \in Modules
    BY <1>t DEF Removals
  <2>2. versioned' = versioned \ {r.module}
    BY <1>10, <2>1, UnregisteredOne DEF AfterDelete
  <2>3. UNCHANGED <<registry, started, building, byPath>> /\ removing' = removing \ {r} /\ r.cut = {}
    BY <1>10 DEF AfterDelete, history
  <2>4. Leaves(r.module)
    BY <2>3 DEF Held, AfterByPath, Leaves
  <2>5. MountOf(r.module) \in byPath
    BY <2>1, <2>4 DEF Held, LeftByPath
  <2>6. AfterByPath' /\ \A n : Leaves(n)' => Leaves(n)
    BY <2>3 DEF Held, AfterByPath, Leaves
  <2>7. \A n \in Modules \ {r.module} : Leaves(n) => Leaves(n)'
    BY <2>3 DEF Leaves
  <2> QED
    BY <2>1, <2>2, <2>3, <2>5, <2>6, <2>7, QuietHeld
<1>11. ASSUME UNCHANGED vars PROVE Held'
  BY <1>11, <1>q DEF vars, tree, manager, history
<1> QED
  BY <1>1, <1>2, <1>3, <1>4, <1>5, <1>6, <1>7, <1>8, <1>9, <1>10, <1>11 DEF Next

LEMMA InitHeld == Init => Held
BY Members DEF Init, Held, OwnersKnown, VersionedOwn, BuildingStarted, LeftByPath, AfterByPath,
       Owns, Leaves, Registry!AInit, ToSet

-----------------------------------------------------------------------------
(* What is removed is unmounted.                                           *)

Covered ==
    \A p \in mounted :
        \/ \E n \in versioned : MountOf(n) = p
        \/ Pending(p)
        \/ p \in byPath
        \/ \E n \in building : MountOf(n) = p

LEMMA TagsByModule ==
    ASSUME ManagerType, Agrees, NEW p \in MountPaths
    PROVE  /\ p[1] \in TagsAt(p[2]) <=> \E n \in versioned : MountOf(n) = p
           /\ \A m, n \in versioned : MountOf(m) = p /\ MountOf(n) = p => m = n
<1>1. p[1] \in Tags /\ p[2] \in LogicalPaths /\ p = <<p[1], p[2]>>
  BY DEF MountPaths
<1> DEFINE s == versions[p[2]]
<1>2. s \in Seq(Entries) /\ Tagged(s)
  BY <1>1 DEF ManagerType, Agrees
<1>3. p[1] \in TagsAt(p[2]) <=> \E v \in ToSet(s) : v.tag = p[1]
  BY <1>2, Members DEF TagsAt
<1>4. ASSUME NEW v \in ToSet(s), v.tag = p[1] PROVE v.module \in versioned /\ MountOf(v.module) = p
  BY <1>1, <1>4 DEF Agrees, MountOf
<1>5. ASSUME NEW n \in versioned, MountOf(n) = p
      PROVE  \E v \in ToSet(s) : v.module = n /\ v.tag = p[1]
  <2>1. TagOf[n] = p[1] /\ PathOf[n] = p[2]
    BY <1>1, <1>5 DEF MountOf
  <2>2. PICK v \in ToSet(versions[PathOf[n]]) : v.module = n
    BY DEF Agrees
  <2> QED
    BY <1>1, <2>1, <2>2 DEF Agrees
<1>6. ASSUME NEW m \in versioned, NEW n \in versioned, MountOf(m) = p, MountOf(n) = p PROVE m = n
  <2>1. PICK v \in ToSet(s) : v.module = m /\ v.tag = p[1]
    BY <1>5, <1>6
  <2>2. PICK w \in ToSet(s) : w.module = n /\ w.tag = p[1]
    BY <1>5, <1>6
  <2>3. v = w
    BY <1>2, <2>1, <2>2 DEF Tagged, ToSet
  <2> QED
    BY <2>1, <2>2, <2>3
<1> QED
  BY <1>3, <1>4, <1>5, <1>6

\* The tag of a module is free, or taken by a registered one.
LEMMA TakenBy ==
    ASSUME ManagerType, Agrees, NEW m \in Modules
    PROVE  TagOf[m] \in TagsAt(PathOf[m]) <=> \E n \in versioned : MountOf(n) = MountOf(m)
<1>1. MountOf(m) \in MountPaths /\ MountOf(m)[1] = TagOf[m] /\ MountOf(m)[2] = PathOf[m]
  BY PathsType DEF MountOf
<1> QED
  BY <1>1, TagsByModule

LEMMA PendingGrows ==
    ASSUME removing \subseteq removing', NEW p, Pending(p)
    PROVE  Pending(p)'
BY DEF Pending

LEMMA RemoveComponentCovered ==
    ASSUME IInv, Held, Covered, NEW m \in Modules, RemoveComponent(m)
    PROVE  Covered'
<1>1. versioned' = versioned \ {m} /\ UNCHANGED <<mounted, building, byPath>>
  BY UnregisteredOne DEF RemoveComponent, history
<1>2. removing \subseteq removing'
  BY ComponentCut
<1>3. \/ \E x \in Modules \ {m} : Owns(x, LeafOf(m))
      \/ \E r \in removing' : \E q \in r.cut : Hits(q, MountOf(m))
  <2>1. ASSUME NEW cut, \E q \in cut : Hits(q, MountOf(m)),
               [module |-> m, cut |-> cut, unregister |-> FALSE] \in removing'
        PROVE  \E r \in removing' : \E q \in r.cut : Hits(q, MountOf(m))
    BY <2>1
  <2> QED
    BY <2>1, ComponentCut
<1>4. SUFFICES ASSUME NEW p \in mounted
               PROVE  \/ \E n \in versioned' : MountOf(n) = p
                      \/ Pending(p)'
                      \/ p \in byPath'
                      \/ \E n \in building' : MountOf(n) = p
  BY <1>1 DEF Covered
<1>5. CASE MountOf(m) = p
  <2>1. CASE \E r \in removing' : \E q \in r.cut : Hits(q, MountOf(m))
    BY <1>5, <2>1 DEF Pending
  <2>2. CASE \E x \in Modules \ {m} : Owns(x, LeafOf(m))
    <3>1. PICK x \in Modules \ {m} : Owns(x, LeafOf(m))
      BY <2>2
    <3>2. /\ LeafOf(m) \in PathsOfM(x)
          /\ x \in building \/ x \in versioned \/ MountOf(x) \in byPath
      BY <3>1, PathsType DEF Held, OwnersKnown
    <3>3. MountOf(x) = p
      BY <1>5, <3>2, PathsApart
    <3> QED
      BY <1>1, <3>1, <3>2, <3>3
  <2> QED
    BY <1>3, <2>1, <2>2
<1>6. CASE MountOf(m) # p
  BY <1>1, <1>2, <1>6, PendingGrows DEF Covered
<1> QED
  BY <1>5, <1>6

LEMMA NextCovered == IInv /\ Held /\ Covered /\ [Next]_vars => Covered'
<1> SUFFICES ASSUME IInv, Held, Covered, [Next]_vars PROVE Covered'
  OBVIOUS
<1>t. removing \subseteq Removals /\ started \in Seq(Modules) /\ ManagerType /\ Agrees
  BY Parts DEF IInv
<1>g. ASSUME mounted' \subseteq mounted, versioned \subseteq versioned', byPath \subseteq byPath',
             building \subseteq building', removing \subseteq removing'
      PROVE  Covered'
  BY <1>g, PendingGrows DEF Covered
<1>1. ASSUME NEW m \in Modules, Build(m) PROVE Covered'
  BY <1>1, <1>g DEF Build, tree, manager, history
<1>2. ASSUME NEW m \in Modules, AddVersion(m) PROVE Covered'
  <2>1. /\ building' = building \ {m} /\ versioned' = versioned \cup {m}
        /\ mounted' = mounted \cup {MountOf(m)} /\ UNCHANGED <<byPath, removing>>
    BY <1>2 DEF AddVersion, Mount, RegisterVersion
  <2> QED
    BY <2>1, PendingGrows DEF Covered
<1>3. ASSUME NEW m \in Modules, AddDuplicate(m) PROVE Covered'
  <2>1. /\ building' = building \ {m} /\ mounted' = mounted \cup {MountOf(m)}
        /\ UNCHANGED <<byPath, versioned>>
    BY <1>3 DEF AddDuplicate, Mount, manager
  <2>2. \E n \in versioned : MountOf(n) = MountOf(m)
    BY <1>3, <1>t, TakenBy DEF AddDuplicate
  <2>3. removing \subseteq removing'
    <3>1. CASE m \in retired
      BY <1>3, <3>1 DEF AddDuplicate
    <3>2. CASE m \notin retired
      BY <1>3, <3>2, ClaimsOwnPaths, LeavingRemovals DEF AddDuplicate
    <3> QED
      BY <3>1, <3>2
  <2> QED
    BY <2>1, <2>2, <2>3, PendingGrows DEF Covered
<1>4. ASSUME NEW m \in Modules, RemoveModule(m) PROVE Covered'
  BY <1>4, RemoveComponentCovered DEF RemoveModule
<1>5. ASSUME NEW l \in LogicalPaths, RemoveLogical(l) PROVE Covered'
  <2>1. \E i \in DOMAIN started : RemoveComponent(started[i])
    BY <1>5, <1>t, LogicalIsOne
  <2> QED
    BY <1>t, <2>1, RemoveComponentCovered
<1>6. ASSUME NEW l \in LogicalPaths, Teardown(l) PROVE Covered'
  BY <1>6, <1>g DEF Teardown, tree, history
<1>7. ASSUME NEW l \in LogicalPaths, NEW u \in Tags, SetDefault(l, u) PROVE Covered'
  BY <1>7, <1>g DEF SetDefault, tree, history
<1>8. ASSUME NEW p \in MountPaths, RemovePath(p) PROVE Covered'
  BY <1>8, <1>g DEF RemovePath, manager
<1>9. ASSUME NEW r \in removing, Delete(r) PROVE Covered'
  <2>1. /\ mounted' = {p \in mounted : \A q \in r.cut : ~Hits(q, p)}
        /\ removing \ {r} \subseteq removing'
        /\ UNCHANGED <<versioned, building, byPath>>
    BY <1>9 DEF Delete, manager, history
  <2>2. ASSUME NEW p \in mounted', Pending(p) PROVE Pending(p)'
    BY <2>1, <2>2 DEF Pending
  <2> QED
    BY <2>1, <2>2 DEF Covered
<1>10. ASSUME NEW r \in removing, AfterDelete(r) PROVE Covered'
  <2>1. r.module \in Modules
    BY <1>t DEF Removals
  <2>2. /\ versioned' = versioned \ {r.module} /\ r.cut = {} /\ removing' = removing \ {r}
        /\ UNCHANGED <<mounted, building, byPath>>
    BY <1>10, <2>1, UnregisteredOne DEF AfterDelete, history
  <2>3. MountOf(r.module) \in byPath
    BY <2>1, <2>2 DEF Held, AfterByPath, LeftByPath, Leaves
  <2>4. ASSUME NEW p, Pending(p) PROVE Pending(p)'
    BY <2>2, <2>4 DEF Pending
  <2> QED
    BY <2>2, <2>3, <2>4 DEF Covered
<1>11. ASSUME UNCHANGED vars PROVE Covered'
  BY <1>11, <1>g DEF vars, tree, manager, history
<1> QED
  BY <1>1, <1>2, <1>3, <1>4, <1>5, <1>6, <1>7, <1>8, <1>9, <1>10, <1>11 DEF Next

LEMMA HeldAlways == Spec => []Held
BY InitHeld, NextHeld, Inductive, PTL DEF Spec

LEMMA CoveredAlways == Spec => []Covered
<1>1. Init => Covered
  BY DEF Init, Covered
<1> QED
  BY <1>1, NextCovered, Inductive, HeldAlways, PTL DEF Spec

\* No removal leaves a version behind: what is in the tree is registered, about
\* to be deleted or to be registered, or was removed by path, for any modules,
\* tags and logical paths, whatever adds and removals of one version overlap.
THEOREM RemovedIsAlwaysUnmounted == Spec => []RemovedIsUnmounted
<1>1. IInv /\ Covered => RemovedIsUnmounted
  <2> SUFFICES ASSUME IInv, Covered, NEW p \in mounted
               PROVE  \/ p[1] \in TagsAt(p[2])
                      \/ Pending(p) \/ p \in byPath
                      \/ \E m \in building : MountOf(m) = p
    BY DEF RemovedIsUnmounted
  <2>1. ManagerType /\ Agrees /\ p \in MountPaths
    BY Parts DEF IInv
  <2> QED
    BY <2>1, TagsByModule DEF Covered
<1> QED
  BY <1>1, Inductive, CoveredAlways, PTL

-----------------------------------------------------------------------------
(* Callers get to a version that is mounted.                               *)

LEMMA HighestExists ==
    ASSUME NEW s \in Seq(Entries), s # <<>>
    PROVE  \E i \in DOMAIN s : \A j \in DOMAIN s : Rank[s[j].tag] <= Rank[s[i].tag]
<1>1. DOMAIN s = 1..Len(s) /\ Len(s) \in Nat /\ Len(s) # 0
  BY EmptySeq
<1>2. \A i \in DOMAIN s : Rank[s[i].tag] \in Nat
  <2> SUFFICES ASSUME NEW i \in DOMAIN s PROVE Rank[s[i].tag] \in Nat
    OBVIOUS
  <2>1. s[i] \in Entries
    BY <1>1
  <2>2. s[i].tag \in Tags
    BY <2>1 DEF Entries
  <2> QED
    BY <2>2, ModulesAssumption
<1> DEFINE rank(i) == Rank[s[i].tag]
           bad == {n \in 1..Len(s) : ~\E i \in 1..n : \A j \in 1..n : rank(j) <= rank(i)}
<1>3. \A i \in 1..Len(s) : rank(i) \in Nat
  BY <1>1, <1>2
<1>4. ASSUME \E i \in 1..Len(s) : \A j \in 1..Len(s) : rank(j) <= rank(i)
      PROVE  \E i \in DOMAIN s : \A j \in DOMAIN s : Rank[s[j].tag] <= Rank[s[i].tag]
  BY <1>1, <1>4
<1> HIDE DEF rank
<1>5. bad = {}
  <2> SUFFICES ASSUME bad # {} PROVE FALSE
    OBVIOUS
  <2>1. bad \subseteq Nat
    BY <1>1
  <2>2. PICK n \in bad : \A k \in bad : <<k, n>> \notin OpToRel(<, Nat)
    <3> HIDE DEF bad
    <3> QED
      BY <2>1, NatLessThanWellFounded, WFMin
  <2>3. \A k \in bad : ~(k < n)
    <3> HIDE DEF bad
    <3> QED
      BY <2>1, <2>2 DEF OpToRel
  <2>4. n \in 1..Len(s) /\ ~\E i \in 1..n : \A j \in 1..n : rank(j) <= rank(i)
    OBVIOUS
  <2>5. n # 1
    <3> SUFFICES ASSUME n = 1 PROVE FALSE
      OBVIOUS
    <3>1. 1 \in 1..n /\ \A j \in 1..n : j = 1
      OBVIOUS
    <3>2. rank(1) <= rank(1)
      BY <1>3, <2>4
    <3> QED
      BY <2>4, <3>1, <3>2
  <2>6. n - 1 \in 1..Len(s) /\ n - 1 < n
    BY <1>1, <2>4, <2>5
  <2>7. n - 1 \notin bad
    BY <2>3, <2>6
  <2>8. PICK i \in 1..(n - 1) : \A j \in 1..(n - 1) : rank(j) <= rank(i)
    BY <2>6, <2>7
  <2>9. rank(i) \in Nat /\ rank(n) \in Nat /\ \A j \in 1..n : rank(j) \in Nat
    <3>1. 1..n \subseteq 1..Len(s) /\ i \in 1..n /\ n \in 1..n
      BY <1>1, <2>4, <2>6
    <3> QED
      BY <1>3, <3>1
  <2>10. \A j \in 1..n : j \in 1..(n - 1) \/ j = n
    BY <1>1, <2>4
  <2>11. i \in 1..n /\ n \in 1..n
    BY <1>1, <2>4, <2>6
  <2>12. CASE rank(n) <= rank(i)
    BY <2>4, <2>8, <2>10, <2>11, <2>12
  <2>13. CASE rank(i) <= rank(n)
    <3>1. ASSUME NEW j \in 1..n PROVE rank(j) <= rank(n)
      <4>1. rank(j) \in Nat
        BY <2>9
      <4>2. CASE j = n
        BY <2>9, <4>2
      <4>3. CASE j \in 1..(n - 1)
        <5>1. rank(j) <= rank(i)
          BY <2>8, <4>3
        <5> QED
          BY <2>9, <2>13, <4>1, <5>1
      <4> QED
        BY <2>10, <4>2, <4>3
    <3> QED
      BY <2>4, <2>11, <3>1
  <2> QED
    BY <2>9, <2>12, <2>13
<1>6. Len(s) \in 1..Len(s)
  BY <1>1
<1> QED
  BY <1>4, <1>5, <1>6

\* Whoever asks gets one of the registered versions.
LEMMA DefaultIsTag ==
    ASSUME NEW s \in Seq(Entries), s # <<>>
    PROVE  \E i \in DOMAIN s : DefaultOf(s) = s[i].tag
<1>1. CASE \E i \in DOMAIN s : s[i].default
  BY <1>1, FirstExists, FirstIsDefault DEF IsFirst
<1>2. CASE ~\E i \in DOMAIN s : s[i].default
  <2> DEFINE explicit == {i \in DOMAIN s : s[i].default}
             highest == {i \in DOMAIN s : \A j \in DOMAIN s : Rank[s[j].tag] <= Rank[s[i].tag]}
             among == IF explicit # {} THEN explicit ELSE highest
             first == CHOOSE i \in among : \A j \in among : i <= j
  <2>1. among = highest
    BY <1>2
  <2>2. highest # {} /\ highest \subseteq Nat /\ highest \subseteq DOMAIN s
    <3>1. DOMAIN s = 1..Len(s) /\ Len(s) \in Nat
      BY EmptySeq
    <3>2. PICK i \in DOMAIN s : \A j \in DOMAIN s : Rank[s[j].tag] <= Rank[s[i].tag]
      BY HighestExists
    <3>3. i \in highest
      BY <3>2
    <3>4. highest \subseteq DOMAIN s
      OBVIOUS
    <3> QED
      BY <3>1, <3>3, <3>4
  <2>3. DefaultOf(s) = s[first].tag
    BY DEF DefaultOf
  <2> HIDE DEF highest, among
  <2>4. PICK i \in highest : \A j \in highest : <<j, i>> \notin OpToRel(<, Nat)
    BY <2>2, NatLessThanWellFounded, WFMin
  <2>5. \A j \in highest : i <= j
    <3>1. \A j \in highest : ~(j < i)
      BY <2>2, <2>4 DEF OpToRel
    <3> QED
      BY <2>2, <3>1
  <2>6. first \in among
    BY <2>1, <2>5
  <2> QED
    BY <2>1, <2>2, <2>3, <2>6
<1> QED
  BY <1>1, <1>2

LEMMA ResolvesToTag ==
    ASSUME ManagerType, NEW l \in LogicalPaths, versions[l] # <<>>, NEW c
    PROVE  Resolve(l, c) \in TagsAt(l) /\ Resolve(l, c) \in Tags
<1>1. versions[l] \in Seq(Entries)
  BY DEF ManagerType
<1>2. \A i \in DOMAIN versions[l] : versions[l][i].tag \in Tags
  <2> SUFFICES ASSUME NEW i \in DOMAIN versions[l] PROVE versions[l][i].tag \in Tags
    OBVIOUS
  <2>1. versions[l][i] \in Entries
    BY <1>1
  <2> QED
    BY <2>1 DEF Entries
<1>3. Resolve(l, c) \in TagsAt(l)
  BY <1>1, DefaultIsTag DEF Resolve, TagsAt
<1> QED
  BY <1>2, <1>3 DEF TagsAt

\* A dispatcher that was not raced is in the tree, and nothing is on its way
\* that takes it out.
Routed == \A l \in dispatchers : l \notin raced => l \in routed /\ tearing[l] = 0

LEMMA UnregisterRouted ==
    ASSUME ManagerType, Agrees, Routed, NEW m \in Modules, UnregisterVersion(m), raced' = raced
    PROVE  Routed'
<1>1. CASE m \notin versioned
  BY <1>1 DEF UnregisterVersion, manager, Routed
<1>2. CASE m \in versioned
  <2> DEFINE p == PathOf[m]
             r == RemoveFirst(versions[p], EntryOf(m))
  <2>1. p \in LogicalPaths /\ versions[p] # <<>>
    <3>1. EntryOf(m) \in ToSet(versions[p]) /\ p \in LogicalPaths /\ versions[p] \in Seq(Entries)
      BY <1>2, EntryFound
    <3> QED
      BY <3>1, Members
  <2>2. p \in dispatchers
    BY <2>1 DEF Agrees
  <2>3. IF r = <<>> THEN TeardownDispatcher(p) ELSE UpdateDispatcher(p)
    BY <1>2 DEF UnregisterVersion
  <2> HIDE DEF p, r
  <2>4. CASE UpdateDispatcher(p)
    BY <2>2, <2>4 DEF UpdateDispatcher, Routed
  <2>5. CASE TeardownDispatcher(p)
    BY <2>5 DEF TeardownDispatcher, Routed, ManagerType
  <2> QED
    BY <2>3, <2>4, <2>5
<1> QED
  BY <1>1, <1>2

LEMMA NextRouted == IInv /\ Routed /\ [Next]_vars => Routed'
<1> SUFFICES ASSUME IInv, Routed, [Next]_vars PROVE Routed'
  OBVIOUS
<1>t. removing \subseteq Removals /\ started \in Seq(Modules) /\ ManagerType /\ Agrees
  BY Parts DEF IInv
<1>q. ASSUME UNCHANGED <<dispatchers, routed, tearing, raced>> PROVE Routed'
  BY <1>q DEF Routed
<1>u. ASSUME NEW m \in Modules, RemoveComponent(m) PROVE Routed'
  BY <1>t, <1>u, UnregisterRouted DEF RemoveComponent, history
<1>1. ASSUME NEW m \in Modules, Build(m) PROVE Routed'
  BY <1>1, <1>q DEF Build, manager, history
<1>2. ASSUME NEW m \in Modules, AddVersion(m) PROVE Routed'
  <2> DEFINE p == PathOf[m]
  <2>1. p \in LogicalPaths /\ tearing[p] \in Nat
    BY <1>t, ModulesAssumption DEF ManagerType
  <2>2. /\ dispatchers' = dispatchers \cup {p}
        /\ routed' = IF p \in dispatchers THEN routed ELSE routed \cup {p}
        /\ tearing' = tearing
        /\ raced' = IF tearing[p] > 0 THEN raced \cup {p} ELSE raced
    BY <1>2 DEF AddVersion, RegisterVersion, UpdateDispatcher
  <2> HIDE DEF p
  <2> SUFFICES ASSUME NEW l \in dispatchers', l \notin raced' PROVE l \in routed' /\ tearing'[l] = 0
    BY DEF Routed
  <2>3. CASE l \in dispatchers
    BY <2>2, <2>3 DEF Routed
  <2>4. CASE l \notin dispatchers
    BY <2>1, <2>2, <2>4
  <2> QED
    BY <2>3, <2>4
<1>3. ASSUME NEW m \in Modules, AddDuplicate(m) PROVE Routed'
  BY <1>3, <1>q DEF AddDuplicate, manager
<1>4. ASSUME NEW m \in Modules, RemoveModule(m) PROVE Routed'
  BY <1>4, <1>u DEF RemoveModule
<1>5. ASSUME NEW l \in LogicalPaths, RemoveLogical(l) PROVE Routed'
  <2>1. \E i \in DOMAIN started : RemoveComponent(started[i])
    BY <1>5, <1>t, LogicalIsOne
  <2> QED
    BY <1>t, <1>u, <2>1
<1>6. ASSUME NEW l \in LogicalPaths, Teardown(l) PROVE Routed'
  BY <1>6, <1>t DEF Teardown, history, Routed, ManagerType
<1>7. ASSUME NEW l \in LogicalPaths, NEW u \in Tags, SetDefault(l, u) PROVE Routed'
  BY <1>7, <1>q DEF SetDefault, history
<1>8. ASSUME NEW p \in MountPaths, RemovePath(p) PROVE Routed'
  BY <1>8, <1>q DEF RemovePath, manager
<1>9. ASSUME NEW r \in removing, Delete(r) PROVE Routed'
  BY <1>9, <1>q DEF Delete, manager, history
<1>10. ASSUME NEW r \in removing, AfterDelete(r) PROVE Routed'
  <2>1. r.module \in Modules
    BY <1>t DEF Removals
  <2> QED
    BY <1>10, <1>t, <2>1, UnregisterRouted DEF AfterDelete, history
<1>11. ASSUME UNCHANGED vars PROVE Routed'
  BY <1>11, <1>q DEF vars, manager, history
<1> QED
  BY <1>1, <1>2, <1>3, <1>4, <1>5, <1>6, <1>7, <1>8, <1>9, <1>10, <1>11 DEF Next

LEMMA RoutedAlways == Spec => []Routed
<1>1. Init => Routed
  BY DEF Init, Routed
<1> QED
  BY <1>1, NextRouted, Inductive, PTL DEF Spec

\* No two logical paths have a version of the same tag.  With two, the deletion
\* of one takes the tag and the other with it.
OnePath == \A m, n \in Modules : TagOf[m] = TagOf[n] => PathOf[m] = PathOf[n]

\* The version of m is mounted to stay: nothing on its way takes it out and
\* nobody gave it up, unless it was late or is being removed by path.
Stands(m) ==
    \/ MountOf(m) \in late
    \/ Leaves(m)
    \/ MountOf(m) \in mounted /\ ~Pending(MountOf(m)) /\ m \notin retired
Standing == \A m \in versioned : Stands(m)

\* A deletion of paths of m is none of what n mounted elsewhere.
LEMMA SparesOthers ==
    ASSUME OnePath, NEW m \in Modules, NEW n \in Modules, MountOf(n) # MountOf(m), NEW q \in PathsOfM(m)
    PROVE  ~Hits(q, MountOf(n))
BY HitsOf, PathsApart DEF OnePath

\* While m leaves the registry: what shares its mount keeps it up, and the
\* rest is not reached.
LEMMA LeaveStands ==
    ASSUME OnePath, IInv, Held, NEW m \in Modules, Registry!Retire(m),
           \/ removing' = removing /\ \E x \in Modules \ {m} : Owns(x, LeafOf(m))
           \/ /\ \A x \in Modules \ {m} : ~Owns(x, LeafOf(m))
              /\ \E cut \in SUBSET PathsOfM(m) :
                    /\ \E q \in cut : Hits(q, MountOf(m))
                    /\ removing' = removing \cup {[module |-> m, cut |-> cut, unregister |-> FALSE]},
           mounted \subseteq mounted', late \subseteq late',
           NEW n \in versioned, n # m, Stands(n)
    PROVE  Stands(n)'
<1>1. n \in Modules /\ retired' = retired \cup {m}
  BY RetireOwns DEF IInv, TypeOK
<1>2. CASE removing' = removing
  <2>1. Leaves(n)' <=> Leaves(n)
    BY <1>2 DEF Leaves
  <2>2. Pending(MountOf(n))' <=> Pending(MountOf(n))
    BY <1>2 DEF Pending
  <2> QED
    BY <1>1, <2>1, <2>2 DEF Stands
<1>3. ASSUME \A x \in Modules \ {m} : ~Owns(x, LeafOf(m)),
             NEW cut \in SUBSET PathsOfM(m), NEW rec,
             rec = [module |-> m, cut |-> cut, unregister |-> FALSE],
             removing' = removing \cup {rec}
      PROVE  Stands(n)'
  <2>1. rec.cut = cut
    BY <1>3
  <2>2. CASE MountOf(n) \in late \/ Leaves(n)
    BY <1>3, <2>2 DEF Stands, Leaves
  <2>3. CASE MountOf(n) \in mounted /\ ~Pending(MountOf(n)) /\ n \notin retired
    <3>1. Owns(n, LeafOf(n))
      BY <2>3 DEF Held, VersionedOwn
    <3>2. MountOf(n) # MountOf(m)
      BY <1>1, <1>3, <3>1 DEF LeafOf
    <3>3. \A q \in cut : ~Hits(q, MountOf(n))
      BY <1>1, <3>2, SparesOthers
    <3>4. ~Pending(MountOf(n))'
      BY <1>3, <2>1, <2>3, <3>3 DEF Pending
    <3> QED
      BY <1>1, <2>3, <3>4 DEF Stands
  <2> QED
    BY <2>2, <2>3 DEF Stands
<1> QED
  BY <1>2, <1>3

LEMMA RemoveComponentStanding ==
    ASSUME OnePath, IInv, Held, Standing, NEW m \in Modules, RemoveComponent(m)
    PROVE  Standing'
<1>1. /\ Registry!Retire(m) /\ versioned' = versioned \ {m}
      /\ mounted' = mounted /\ late' = late
  BY UnregisteredOne DEF RemoveComponent, history
<1> QED
  BY <1>1, ComponentCut, LeaveStands DEF Standing

LEMMA AddVersionStanding ==
    ASSUME IInv, Standing, NEW m \in Modules, AddVersion(m)
    PROVE  Standing'
<1>1. /\ mounted' = mounted \cup {MountOf(m)} /\ removing' = removing
      /\ late' = IF m \in retired \/ Pending(MountOf(m)) THEN late \cup {MountOf(m)} ELSE late
      /\ versioned' = versioned \cup {m}
  BY DEF AddVersion, Mount, RegisterVersion
<1>2. retired' = retired
  BY ClaimOwns, KeptOwns DEF AddVersion, IInv
<1>3. \A n : (Leaves(n)' <=> Leaves(n)) /\ (Pending(n)' <=> Pending(n))
  BY <1>1 DEF Leaves, Pending
<1>4. Stands(m)'
  BY <1>1, <1>2, <1>3 DEF Stands
<1>5. \A n \in versioned : Stands(n)'
  BY <1>1, <1>2, <1>3 DEF Standing, Stands
<1> QED
  BY <1>1, <1>4, <1>5 DEF Standing

LEMMA AddDuplicateStanding ==
    ASSUME OnePath, IInv, Held, Standing, NEW m \in Modules, AddDuplicate(m)
    PROVE  Standing'
<1>1. /\ m \in building /\ versioned' = versioned
      /\ mounted \subseteq mounted' /\ late \subseteq late'
  BY DEF AddDuplicate, Mount, manager
<1>2. m \notin versioned
  BY <1>1 DEF Held, VersionedOwn
<1>3. CASE m \in retired
  <2>1. removing' = removing /\ retired' = retired
    BY <1>3 DEF AddDuplicate, registry
  <2>2. \A n : (Leaves(n)' <=> Leaves(n)) /\ (Pending(n)' <=> Pending(n))
    BY <2>1 DEF Leaves, Pending
  <2> QED
    BY <1>1, <2>1, <2>2 DEF Standing, Stands
<1>4. CASE m \notin retired
  <2>1. Registry!Retire(m) /\ Deletions(m, Owned(m) \cup Claims(m), owners')
    BY <1>4 DEF AddDuplicate
  <2>2. \/ removing' = removing /\ \E x \in Modules \ {m} : Owns(x, LeafOf(m))
        \/ /\ \A x \in Modules \ {m} : ~Owns(x, LeafOf(m))
           /\ \E cut \in SUBSET PathsOfM(m) :
                 /\ \E q \in cut : Hits(q, MountOf(m))
                 /\ removing' = removing \cup {[module |-> m, cut |-> cut, unregister |-> FALSE]}
    BY <2>1, ClaimsOwnPaths, LeavingCut DEF IInv, Held
  <2> QED
    BY <1>1, <1>2, <2>1, <2>2, LeaveStands DEF Standing
<1> QED
  BY <1>3, <1>4

LEMMA RemovePathStanding ==
    ASSUME IInv, Held, Standing, NEW p \in MountPaths, RemovePath(p)
    PROVE  Standing'
<1> DEFINE m == Head(owners[p])
           rec == [module |-> m, cut |-> {p}, unregister |-> TRUE]
<1>1. m \in Modules /\ p \in Paths /\ MountOf(m) = p /\ \A x : Owns(x, p) => x = m
  BY PathOwner
<1>2. retired' = retired
  BY <1>1, ReleaseOwns DEF RemovePath, IInv
<1>3. removing' = removing \cup {rec} /\ UNCHANGED <<versioned, mounted, late>>
  BY DEF RemovePath, manager
<1>r. rec.unregister = TRUE /\ rec.module = m /\ rec.cut = {p}
  OBVIOUS
<1> HIDE DEF m, rec
<1>4. \A n : Leaves(n)' <=> Leaves(n) \/ n = m
  BY <1>3, <1>r DEF Leaves
<1> SUFFICES ASSUME NEW n \in versioned PROVE Stands(n)'
  BY <1>3 DEF Standing
<1>5. n \in Modules
  BY DEF IInv, TypeOK
<1>6. CASE MountOf(n) \in late \/ Leaves(n)
  BY <1>3, <1>4, <1>6 DEF Stands
<1>7. CASE ~Leaves(n) /\ MountOf(n) \in mounted /\ ~Pending(MountOf(n)) /\ n \notin retired
  <2>1. Owns(n, MountOf(n))
    BY <1>7 DEF Held, VersionedOwn
  <2>2. CASE MountOf(n) = p
    BY <1>1, <1>4, <2>1, <2>2 DEF Stands
  <2>3. CASE MountOf(n) # p
    <3>1. ~Hits(p, MountOf(n))
      BY <1>1, <1>5, <2>3, HitsOf
    <3>2. ~Pending(MountOf(n))'
      BY <1>3, <1>7, <1>r, <3>1 DEF Pending
    <3> QED
      BY <1>2, <1>3, <1>7, <3>2 DEF Stands
  <2> QED
    BY <2>2, <2>3
<1> QED
  BY <1>6, <1>7 DEF Standing, Stands

LEMMA DeleteStanding ==
    ASSUME IInv, Standing, NEW r \in removing, Delete(r)
    PROVE  Standing'
<1> DEFINE rest == [r EXCEPT !.cut = {}]
<1>1. r \in Removals /\ removing \subseteq Removals
  BY DEF IInv, TypeOK
<1>2. rest.cut = {}
  BY <1>1 DEF Removals
<1>3. /\ mounted' = {p \in mounted : \A q \in r.cut : ~Hits(q, p)}
      /\ removing' \subseteq removing \cup {rest}
      /\ UNCHANGED <<versioned, late, retired>>
  BY DEF Delete, manager, history, registry
<1> HIDE DEF rest
<1>4. \A p : Pending(p)' => Pending(p)
  BY <1>2, <1>3 DEF Pending
<1>5. \A n : Leaves(n)' <=> Leaves(n)
  BY <1>1, DeleteLeaves
<1>6. \A p \in mounted : ~Pending(p) => p \in mounted'
  BY <1>3 DEF Pending
<1> QED
  BY <1>3, <1>4, <1>5, <1>6 DEF Standing, Stands

LEMMA NextStanding ==
    ASSUME OnePath
    PROVE  IInv /\ Held /\ Standing /\ [Next]_vars => Standing'
<1> SUFFICES ASSUME IInv, Held, Standing, [Next]_vars PROVE Standing'
  OBVIOUS
<1>t. removing \subseteq Removals /\ started \in Seq(Modules)
  BY DEF IInv, TypeOK
<1>q. ASSUME UNCHANGED <<versioned, mounted, removing, retired, late>> PROVE Standing'
  <2>1. \A n : (Leaves(n)' <=> Leaves(n)) /\ (Pending(n)' <=> Pending(n))
    BY <1>q DEF Leaves, Pending
  <2> QED
    BY <1>q, <2>1 DEF Standing, Stands
<1>1. ASSUME NEW m \in Modules, Build(m) PROVE Standing'
  <2>1. retired' = retired
    BY <1>1, ClaimOwns DEF Build, IInv
  <2> QED
    BY <1>1, <1>q, <2>1 DEF Build, tree, manager, history
<1>2. ASSUME NEW m \in Modules, AddVersion(m) PROVE Standing'
  BY <1>2, AddVersionStanding
<1>3. ASSUME NEW m \in Modules, AddDuplicate(m) PROVE Standing'
  BY <1>3, AddDuplicateStanding
<1>4. ASSUME NEW m \in Modules, RemoveModule(m) PROVE Standing'
  BY <1>4, RemoveComponentStanding DEF RemoveModule
<1>5. ASSUME NEW l \in LogicalPaths, RemoveLogical(l) PROVE Standing'
  <2>1. \E i \in DOMAIN started : RemoveComponent(started[i])
    BY <1>5, <1>t, LogicalIsOne
  <2> QED
    BY <1>t, <2>1, RemoveComponentStanding
<1>6. ASSUME NEW l \in LogicalPaths, Teardown(l) PROVE Standing'
  BY <1>6, <1>q DEF Teardown, tree, history, registry
<1>7. ASSUME NEW l \in LogicalPaths, NEW u \in Tags, SetDefault(l, u) PROVE Standing'
  BY <1>7, <1>q DEF SetDefault, tree, history, registry
<1>8. ASSUME NEW p \in MountPaths, RemovePath(p) PROVE Standing'
  BY <1>8, RemovePathStanding
<1>9. ASSUME NEW r \in removing, Delete(r) PROVE Standing'
  BY <1>9, DeleteStanding
<1>10. ASSUME NEW r \in removing, AfterDelete(r) PROVE Standing'
  <2>1. r.module \in Modules
    BY <1>t DEF Removals
  <2>2. versioned' = versioned \ {r.module}
    BY <1>10, <2>1, UnregisteredOne DEF AfterDelete
  <2>3. UNCHANGED <<mounted, retired, late>> /\ removing' = removing \ {r}
    BY <1>10 DEF AfterDelete, history, registry
  <2>4. \A n : n # r.module /\ Leaves(n) => Leaves(n)'
    BY <2>3 DEF Leaves
  <2>5. \A p : Pending(p)' => Pending(p)
    BY <2>3 DEF Pending
  <2> QED
    BY <2>2, <2>3, <2>4, <2>5 DEF Standing, Stands
<1>11. ASSUME UNCHANGED vars PROVE Standing'
  BY <1>11, <1>q DEF vars, tree, manager, history, registry
<1> QED
  BY <1>1, <1>2, <1>3, <1>4, <1>5, <1>6, <1>7, <1>8, <1>9, <1>10, <1>11 DEF Next

\* Whatever adds, rejected adds and removals interleave, a caller gets to a
\* version that is mounted, outside the races RoutesToMounted names, for any
\* modules and tags, as long as no two logical paths share a tag: that they do
\* not reach each other is what the assumption is for, and the run of
\* VersionsPeers.cfg shows what happens without it.
THEOREM RoutesAlwaysToMounted ==
    ASSUME OnePath
    PROVE  Spec => []RoutesToMounted
<1>1. IInv /\ Routed /\ Standing => RoutesToMounted
  <2> SUFFICES ASSUME IInv, Routed, Standing,
                      NEW l \in LogicalPaths, NEW c \in Tags \cup {None},
                      versions[l] # <<>>, l \notin raced
               PROVE  /\ l \in routed
                      /\ \/ <<Resolve(l, c), l>> \in late \/ Leaving(Resolve(l, c), l)
                         \/ <<Resolve(l, c), l>> \in mounted
    BY DEF RoutesToMounted
  <2>1. ManagerType /\ Agrees /\ removing \subseteq Removals
    BY Parts DEF IInv
  <2>2. l \in routed
    BY <2>1 DEF Agrees, Routed
  <2> DEFINE t == Resolve(l, c)
             p == <<t, l>>
  <2>3. t \in TagsAt(l) /\ t \in Tags
    BY <2>1, ResolvesToTag
  <2> HIDE DEF t
  <2>4. p \in MountPaths /\ p[1] = t /\ p[2] = l
    BY <2>3 DEF MountPaths
  <2>5. PICK n \in versioned : MountOf(n) = p
    BY <2>1, <2>3, <2>4, TagsByModule
  <2>6. Leaves(n) => Leaving(t, l)
    BY <2>5 DEF Leaves, Leaving
  <2> QED
    BY <2>2, <2>5, <2>6 DEF Standing, Stands, t
<1>2. Init => Standing
  BY DEF Init, Standing
<1> QED
  BY <1>1, <1>2, NextStanding, Inductive, HeldAlways, RoutedAlways, PTL DEF Spec
=============================================================================
