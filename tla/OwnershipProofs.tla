--------------------------- MODULE OwnershipProofs ---------------------------
(***************************************************************************)
(* Proofs about the ownership registry, for every set of modules and paths *)
(* (nothing is assumed about them, not even that they are finite).         *)
(***************************************************************************)
EXTENDS Ownership, SequenceTheorems, TLAPS

-----------------------------------------------------------------------------
(* Stacks: sequences without duplicates that grow at the top and from      *)
(* which an entry is taken out wherever it stands.                         *)

\* Splicing the first entry of s[k] out of a stack without duplicates takes
\* out position k and nothing else.
LEMMA RemoveFirstSplices ==
    ASSUME NEW S, NEW s \in Seq(S), NEW k \in 1..Len(s), IsInjective(s)
    PROVE  LET r == RemoveFirst(s, s[k])
           IN  /\ r \in Seq(S)
               /\ Len(r) = Len(s) - 1
               /\ \A i \in 1..(Len(s) - 1) : r[i] = IF i < k THEN s[i] ELSE s[i + 1]
<1> DEFINE I == {i \in 1..Len(s) : s[i] = s[k]}
           a == SubSeq(s, 1, k - 1)
           b == SubSeq(s, k + 1, Len(s))
<1>1. I = {k}
  BY DEF IsInjective
<1>2. Min(I) = k
  BY <1>1 DEF Min
<1>3. RemoveFirst(s, s[k]) = a \o b
  BY <1>1, <1>2 DEF RemoveFirst, SelectInSeq, RemoveAt
<1>4. a \in Seq(S) /\ Len(a) = k - 1 /\ \A i \in 1..(k - 1) : a[i] = s[i]
  BY SubSeqProperties
<1>5. b \in Seq(S) /\ Len(b) = Len(s) - k /\ \A i \in 1..(Len(s) - k) : b[i] = s[k + i]
  BY SubSeqProperties
<1> HIDE DEF I, a, b
<1>6. /\ a \o b \in Seq(S)
      /\ Len(a \o b) = Len(s) - 1
      /\ \A i \in 1..(Len(s) - 1) : (a \o b)[i] = IF i < k THEN s[i] ELSE s[i + 1]
  <2>1. /\ a \o b \in Seq(S)
        /\ Len(a \o b) = Len(a) + Len(b)
        /\ \A i \in 1..(Len(a) + Len(b)) :
              (a \o b)[i] = IF i <= Len(a) THEN a[i] ELSE b[i - Len(a)]
    BY <1>4, <1>5, ConcatProperties
  <2>2. Len(s) \in Nat /\ Len(a) + Len(b) = Len(s) - 1
    BY <1>4, <1>5
  <2>3. ASSUME NEW i \in 1..(Len(s) - 1), i < k PROVE (a \o b)[i] = s[i]
    BY <1>4, <2>1, <2>2, <2>3
  <2>4. ASSUME NEW i \in 1..(Len(s) - 1), ~(i < k) PROVE (a \o b)[i] = s[i + 1]
    <3>1. (a \o b)[i] = b[i - (k - 1)]
      BY <1>4, <2>1, <2>2, <2>4
    <3>2. i - (k - 1) \in 1..(Len(s) - k) /\ k + (i - (k - 1)) = i + 1
      BY <2>2, <2>4
    <3> QED
      BY <1>5, <3>1, <3>2
  <2> QED
    BY <2>1, <2>2, <2>3, <2>4
<1> QED
  BY <1>3, <1>6

\* The same for a member: what is left is a stack without duplicates of all
\* the others, in the order they had.
LEMMA RemoveFirstMember ==
    ASSUME NEW S, NEW s \in Seq(S), NEW e \in ToSet(s), IsInjective(s)
    PROVE  LET r == RemoveFirst(s, e)
           IN  /\ r \in Seq(S)
               /\ IsInjective(r)
               /\ ToSet(r) = ToSet(s) \ {e}
               /\ \A i, j \in DOMAIN r : i < j =>
                        \E k, l \in DOMAIN s : k < l /\ s[k] = r[i] /\ s[l] = r[j]
<1> DEFINE r == RemoveFirst(s, e)
<1>1. PICK k \in 1..Len(s) : s[k] = e
  BY DEF ToSet
<1>2. /\ r \in Seq(S)
      /\ Len(r) = Len(s) - 1
      /\ \A i \in 1..(Len(s) - 1) : r[i] = IF i < k THEN s[i] ELSE s[i + 1]
  BY <1>1, RemoveFirstSplices
<1> HIDE DEF r
<1>3. DOMAIN r = 1..(Len(s) - 1) /\ DOMAIN s = 1..Len(s) /\ Len(s) \in Nat
  BY <1>2
<1>4. IsInjective(r)
  BY <1>2, <1>3 DEF IsInjective
<1>5. ASSUME NEW x \in ToSet(r) PROVE x \in ToSet(s) \ {e}
  BY <1>1, <1>2, <1>3 DEF ToSet, IsInjective
<1>6. ASSUME NEW x \in ToSet(s) \ {e} PROVE x \in ToSet(r)
  <2>1. PICK j \in 1..Len(s) : s[j] = x
    BY <1>3 DEF ToSet
  <2>2. j < k \/ j > k
    BY <1>1, <2>1
  <2>3. CASE j < k
    BY <1>2, <1>3, <2>1, <2>3 DEF ToSet
  <2>4. CASE j > k
    <3>1. j - 1 \in DOMAIN r /\ r[j - 1] = x
      BY <1>2, <1>3, <2>1, <2>4
    <3> QED
      BY <3>1 DEF ToSet
  <2> QED
    BY <2>2, <2>3, <2>4
<1>7. ASSUME NEW i \in DOMAIN r, NEW j \in DOMAIN r, i < j
      PROVE  \E u, v \in DOMAIN s : u < v /\ s[u] = r[i] /\ s[v] = r[j]
  <2> DEFINE up(x) == IF x < k THEN x ELSE x + 1
  <2>1. /\ up(i) \in DOMAIN s /\ up(j) \in DOMAIN s
        /\ up(i) < up(j) /\ s[up(i)] = r[i] /\ s[up(j)] = r[j]
    BY <1>2, <1>3, <1>7
  <2> QED
    BY <2>1
<1> QED
  BY <1>2, <1>4, <1>5, <1>6, <1>7 DEF r

\* Removing a module that is not there leaves the stack alone.
LEMMA RemoveFirstAbsent ==
    ASSUME NEW S, NEW s \in Seq(S), NEW e, e \notin ToSet(s)
    PROVE  RemoveFirst(s, e) = s
BY DEF RemoveFirst, ToSet

\* A new entry on top of a stack.
LEMMA AppendMember ==
    ASSUME NEW S, NEW s \in Seq(S), NEW e \in S, IsInjective(s), e \notin ToSet(s)
    PROVE  LET r == Append(s, e)
           IN  /\ r \in Seq(S) /\ r # <<>>
               /\ IsInjective(r)
               /\ ToSet(r) = ToSet(s) \cup {e}
               /\ DOMAIN s \subseteq DOMAIN r /\ \A i \in DOMAIN s : r[i] = s[i]
<1> DEFINE r == Append(s, e)
<1>1. /\ r \in Seq(S) /\ r # <<>> /\ Len(r) = Len(s) + 1
      /\ \A i \in 1..Len(s) : r[i] = s[i]
      /\ r[Len(s) + 1] = e
  BY AppendProperties
<1>2. DOMAIN r = 1..(Len(s) + 1) /\ DOMAIN s = 1..Len(s) /\ Len(s) \in Nat
  BY <1>1
<1> HIDE DEF r
<1>3. IsInjective(r)
  BY <1>1, <1>2 DEF IsInjective, ToSet
<1>4. ToSet(r) = ToSet(s) \cup {e}
  BY <1>1, <1>2 DEF ToSet
<1> QED
  BY <1>1, <1>2, <1>3, <1>4 DEF r

\* Registering adds its module and no duplicate, on top of what is there.
LEMMA PushedMember ==
    ASSUME NEW S, NEW s \in Seq(S), NEW e \in S, IsInjective(s)
    PROVE  LET r == Pushed(s, e)
           IN  /\ r \in Seq(S) /\ r # <<>>
               /\ IsInjective(r)
               /\ ToSet(r) = ToSet(s) \cup {e}
               /\ \A m, n : Under(m, n, s) => Under(m, n, r)
<1>1. CASE e \in ToSet(s)
  BY <1>1 DEF Pushed, ToSet
<1>2. CASE e \notin ToSet(s)
  <2> DEFINE r == Append(s, e)
  <2>1. /\ r \in Seq(S) /\ r # <<>> /\ IsInjective(r)
        /\ ToSet(r) = ToSet(s) \cup {e}
        /\ DOMAIN s \subseteq DOMAIN r /\ \A i \in DOMAIN s : r[i] = s[i]
    BY <1>2, AppendMember
  <2> HIDE DEF r
  <2>2. \A m, n : Under(m, n, s) => Under(m, n, r)
    BY <2>1 DEF Under
  <2>3. Pushed(s, e) = r
    BY <1>2 DEF Pushed, r
  <2> QED
    BY <2>1, <2>2, <2>3
<1> QED
  BY <1>1, <1>2

\* A removal leaves a stack without duplicates of all the others, in the
\* order they had.
LEMMA RemovedMember ==
    ASSUME NEW S, NEW s \in Seq(S), NEW e \in ToSet(s), IsInjective(s)
    PROVE  LET r == RemoveFirst(s, e)
           IN  /\ r \in Seq(S)
               /\ IsInjective(r)
               /\ ToSet(r) = ToSet(s) \ {e}
               /\ \A m, n : Under(m, n, r) => Under(m, n, s)
<1> DEFINE r == RemoveFirst(s, e)
<1>1. /\ r \in Seq(S)
      /\ IsInjective(r)
      /\ ToSet(r) = ToSet(s) \ {e}
      /\ \A i, j \in DOMAIN r : i < j =>
            \E k, l \in DOMAIN s : k < l /\ s[k] = r[i] /\ s[l] = r[j]
  BY RemoveFirstMember
<1> HIDE DEF r
<1>2. \A m, n : Under(m, n, r) => Under(m, n, s)
  BY <1>1 DEF Under
<1> QED
  BY <1>1, <1>2 DEF r

-----------------------------------------------------------------------------
(* What each operation does to the two indexes, read through Stack and      *)
(* PathsOf.                                                                *)

\* Neither index keeps an empty entry.
NoEmptyEntry ==
    /\ \A m \in DOMAIN moduleToPath : moduleToPath[m] # {}
    /\ \A p \in DOMAIN pathToModule : pathToModule[p] # <<>>

\* The inductive invariant.
Inv == TypeOK /\ NoDuplicateOwner /\ IndexesAgree /\ UnregisteredOwnsNothing

LEMMA StackType ==
    ASSUME Inv, NEW p \in Paths
    PROVE  Stack(p) \in Seq(Modules) /\ IsInjective(Stack(p))
<1>1. CASE p \in DOMAIN pathToModule
  BY <1>1 DEF Inv, TypeOK, MapsTo, NoDuplicateOwner, Stack
<1>2. CASE p \notin DOMAIN pathToModule
  BY <1>2 DEF Stack, IsInjective
<1> QED
  BY <1>1, <1>2

\* register() and registerSubtree() push m on the stacks of ps.
LEMMA RecordOwnerEffect ==
    ASSUME Inv, NEW m \in Modules, NEW ps \in SUBSET Paths, ps # {}, RecordOwner(m, ps)
    PROVE  /\ TypeOK' /\ NoEmptyEntry'
           /\ \A p \in Paths : Stack(p)' = IF p \in ps THEN Pushed(Stack(p), m) ELSE Stack(p)
           /\ \A n \in Modules : PathsOf(n)' = IF n = m THEN PathsOf(m) \cup ps ELSE PathsOf(n)
<1>1. \A p \in Paths : Stack(p)' = IF p \in ps THEN Pushed(Stack(p), m) ELSE Stack(p)
  BY DEF RecordOwner, Stack
<1>2. \A n \in Modules : PathsOf(n)' = IF n = m THEN PathsOf(m) \cup ps ELSE PathsOf(n)
  BY DEF RecordOwner, PathsOf, Put
<1>3. DOMAIN pathToModule' = DOMAIN pathToModule \cup ps
  BY DEF RecordOwner
<1>4. DOMAIN moduleToPath' = DOMAIN moduleToPath \cup {m}
  BY DEF RecordOwner, Put
<1>5. \A p \in DOMAIN pathToModule' : /\ p \in Paths
                                     /\ pathToModule'[p] = Stack(p)'
  BY <1>3 DEF Inv, TypeOK, MapsTo, Stack
<1>6. \A n \in DOMAIN moduleToPath' : n \in Modules /\ moduleToPath'[n] = PathsOf(n)'
  BY <1>4 DEF Inv, TypeOK, MapsTo, PathsOf
<1>7. \A p \in DOMAIN pathToModule' : /\ pathToModule'[p] \in Seq(Modules)
                                     /\ pathToModule'[p] # <<>>
  <2> TAKE p \in DOMAIN pathToModule'
  <2>1. CASE p \in ps
    BY <1>1, <1>5, <2>1, StackType, PushedMember
  <2>2. CASE p \notin ps
    BY <1>1, <1>3, <1>5, <2>2, StackType DEF Inv, IndexesAgree, Stack
  <2> QED
    BY <2>1, <2>2
<1>8. \A n \in DOMAIN moduleToPath' : /\ moduleToPath'[n] \in SUBSET Paths
                                     /\ moduleToPath'[n] # {}
  BY <1>2, <1>4, <1>6 DEF Inv, TypeOK, MapsTo, IndexesAgree, PathsOf
<1>9. TypeOK'
  BY <1>5, <1>6, <1>7, <1>8 DEF Inv, TypeOK, MapsTo, RecordOwner
<1> QED
  BY <1>1, <1>2, <1>7, <1>8, <1>9 DEF NoEmptyEntry

\* removePath() takes m off one stack.
LEMMA RemovePathEffect ==
    ASSUME Inv, NEW m \in Modules, NEW p \in Paths, RemovePath(m, p)
    PROVE  /\ TypeOK' /\ NoEmptyEntry'
           /\ \A q \in Paths : Stack(q)' = IF q = p THEN RemoveFirst(Stack(p), m) ELSE Stack(q)
           /\ \A n \in Modules : PathsOf(n)' = IF n = m THEN PathsOf(m) \ {p} ELSE PathsOf(n)
<1> DEFINE rest == RemoveFirst(Stack(p), m)
           left == PathsOf(m) \ {p}
<1>1. rest \in Seq(Modules)
  BY StackType, RemovedMember DEF RemovePath, Owns
<1>2. left \in SUBSET Paths
  BY DEF Inv, TypeOK, MapsTo, PathsOf
<1>3. p \in DOMAIN pathToModule /\ m \in DOMAIN moduleToPath
  BY DEF RemovePath, Inv, IndexesAgree, Owns, Stack, ToSet, PathsOf
<1>4. /\ pathToModule' = IF rest = <<>> THEN Delete(pathToModule, p) ELSE Put(pathToModule, p, rest)
      /\ moduleToPath' = IF left = {} THEN Delete(moduleToPath, m) ELSE Put(moduleToPath, m, left)
      /\ UNCHANGED <<unregistered, moduleEndpoints>>
  BY DEF RemovePath
<1> HIDE DEF rest, left
<1>5. /\ DOMAIN pathToModule' = IF rest = <<>> THEN DOMAIN pathToModule \ {p} ELSE DOMAIN pathToModule
      /\ \A q \in DOMAIN pathToModule' : pathToModule'[q] = IF q = p THEN rest ELSE pathToModule[q]
  BY <1>3, <1>4 DEF Put, Delete, Restrict
<1>6. /\ DOMAIN moduleToPath' = IF left = {} THEN DOMAIN moduleToPath \ {m} ELSE DOMAIN moduleToPath
      /\ \A n \in DOMAIN moduleToPath' : moduleToPath'[n] = IF n = m THEN left ELSE moduleToPath[n]
  BY <1>3, <1>4 DEF Put, Delete, Restrict
<1>7. \A q \in Paths : Stack(q)' = IF q = p THEN rest ELSE Stack(q)
  BY <1>3, <1>5 DEF Stack
<1>8. \A n \in Modules : PathsOf(n)' = IF n = m THEN left ELSE PathsOf(n)
  BY <1>3, <1>6 DEF PathsOf
<1>9. TypeOK'
  BY <1>1, <1>2, <1>4, <1>5, <1>6 DEF Inv, TypeOK, MapsTo
<1>10. NoEmptyEntry'
  BY <1>5, <1>6 DEF Inv, IndexesAgree, NoEmptyEntry
<1> QED
  BY <1>7, <1>8, <1>9, <1>10 DEF rest, left

\* unregister() takes m off every stack: it visits the paths of the module
\* index only, and the two indexes agree.
LEMMA UnregisterEffect ==
    ASSUME Inv, NEW m \in Modules, Unregister(m)
    PROVE  /\ TypeOK' /\ NoEmptyEntry'
           /\ \A q \in Paths : Stack(q)' = RemoveFirst(Stack(q), m)
           /\ \A n \in Modules : PathsOf(n)' = IF n = m THEN {} ELSE PathsOf(n)
<1> DEFINE after(q) == IF q \in moduleToPath[m] THEN RemoveFirst(pathToModule[q], m)
                                                ELSE pathToModule[q]
<1>1. \A q \in DOMAIN pathToModule :
          /\ q \in Paths
          /\ after(q) = RemoveFirst(Stack(q), m)
          /\ after(q) \in Seq(Modules)
  <2> TAKE q \in DOMAIN pathToModule
  <2>1. q \in Paths /\ Stack(q) = pathToModule[q] /\ Stack(q) \in Seq(Modules)
    BY StackType DEF Inv, TypeOK, MapsTo, Stack
  <2>2. q \in moduleToPath[m] <=> m \in ToSet(Stack(q))
    BY <2>1 DEF Unregister, Inv, IndexesAgree, PathsOf, Owns
  <2>3. CASE q \in moduleToPath[m]
    BY <2>1, <2>2, <2>3, StackType, RemovedMember
  <2>4. CASE q \notin moduleToPath[m]
    BY <2>1, <2>2, <2>4, RemoveFirstAbsent
  <2> QED
    BY <2>1, <2>3, <2>4
<1>2. /\ pathToModule' = [q \in {x \in DOMAIN pathToModule : after(x) # <<>>} |-> after(q)]
      /\ moduleToPath' = Delete(moduleToPath, m)
      /\ moduleEndpoints' = Delete(moduleEndpoints, m)
      /\ unregistered' = unregistered \cup {m}
  BY DEF Unregister
<1> HIDE DEF after
<1>3. \A q \in Paths : Stack(q)' = RemoveFirst(Stack(q), m)
  <2> TAKE q \in Paths
  <2>1. CASE q \in DOMAIN pathToModule
    BY <1>1, <1>2, <2>1 DEF Stack
  <2>2. CASE q \notin DOMAIN pathToModule
    <3>1. Stack(q) = <<>> /\ Stack(q)' = <<>>
      BY <1>2, <2>2 DEF Stack
    <3>2. RemoveFirst(<<>>, m) = <<>>
      BY DEF RemoveFirst
    <3> QED
      BY <3>1, <3>2
  <2> QED
    BY <2>1, <2>2
<1>4. /\ DOMAIN moduleToPath' = DOMAIN moduleToPath \ {m}
      /\ \A n \in DOMAIN moduleToPath' : moduleToPath'[n] = moduleToPath[n]
  BY <1>2 DEF Delete, Restrict
<1>5. \A n \in Modules : PathsOf(n)' = IF n = m THEN {} ELSE PathsOf(n)
  BY <1>4 DEF PathsOf
<1>6. TypeOK'
  BY <1>1, <1>2, <1>4 DEF Inv, TypeOK, MapsTo, Delete, Restrict
<1>7. NoEmptyEntry'
  BY <1>2, <1>4 DEF Inv, IndexesAgree, NoEmptyEntry
<1> QED
  BY <1>3, <1>5, <1>6, <1>7

-----------------------------------------------------------------------------
(* The invariant.                                                          *)

\* A step whose effect on stacks and path sets agrees path by path keeps the
\* rest of the invariant.
LEMMA InvFromEffect ==
    ASSUME TypeOK', NoEmptyEntry',
           \A p \in Paths : IsInjective(Stack(p)'),
           \A n \in Modules, p \in Paths : p \in PathsOf(n)' <=> n \in ToSet(Stack(p)'),
           \A n \in unregistered', p \in Paths : n \notin ToSet(Stack(p)')
    PROVE  Inv'
<1>1. NoDuplicateOwner'
  BY DEF NoDuplicateOwner, TypeOK, MapsTo, Stack
<1>2. IndexesAgree'
  BY DEF IndexesAgree, NoEmptyEntry, Owns
<1>3. UnregisteredOwnsNothing'
  BY DEF UnregisteredOwnsNothing, Owns
<1> QED
  BY <1>1, <1>2, <1>3 DEF Inv

LEMMA InitInv == Init => Inv
BY DEF Init, Inv, TypeOK, MapsTo, NoDuplicateOwner, IndexesAgree, UnregisteredOwnsNothing,
       PathsOf, Owns, Stack, ToSet

LEMMA IndexesAgreeOn ==
    ASSUME Inv, NEW n \in Modules, NEW p \in Paths
    PROVE  p \in PathsOf(n) <=> n \in ToSet(Stack(p))
BY DEF Inv, IndexesAgree, Owns

LEMMA RetiredNowhere ==
    ASSUME Inv, NEW n \in unregistered, NEW p \in Paths
    PROVE  n \in Modules /\ n \notin ToSet(Stack(p))
BY DEF Inv, TypeOK, UnregisteredOwnsNothing, Owns

LEMMA RecordOwnerInv ==
    ASSUME Inv, NEW m \in Modules, NEW ps \in SUBSET Paths, ps # {},
           m \notin unregistered, RecordOwner(m, ps)
    PROVE  Inv'
<1>1. /\ TypeOK' /\ NoEmptyEntry'
      /\ \A p \in Paths : Stack(p)' = IF p \in ps THEN Pushed(Stack(p), m) ELSE Stack(p)
      /\ \A n \in Modules : PathsOf(n)' = IF n = m THEN PathsOf(m) \cup ps ELSE PathsOf(n)
  BY RecordOwnerEffect
<1>2. \A p \in Paths : /\ IsInjective(Stack(p)')
                      /\ ToSet(Stack(p)') = IF p \in ps THEN ToSet(Stack(p)) \cup {m}
                                                        ELSE ToSet(Stack(p))
  <2> TAKE p \in Paths
  <2>1. CASE p \in ps
    <3>1. Stack(p) \in Seq(Modules) /\ IsInjective(Stack(p))
      BY StackType
    <3>2. /\ IsInjective(Pushed(Stack(p), m))
          /\ ToSet(Pushed(Stack(p), m)) = ToSet(Stack(p)) \cup {m}
      BY <3>1, PushedMember
    <3> QED
      BY <1>1, <2>1, <3>2
  <2>2. CASE p \notin ps
    BY <1>1, <2>2, StackType
  <2> QED
    BY <2>1, <2>2
<1>3. \A n \in Modules, p \in Paths : p \in PathsOf(n)' <=> n \in ToSet(Stack(p)')
  BY <1>1, <1>2, IndexesAgreeOn
<1>4. \A n \in unregistered', p \in Paths : n \notin ToSet(Stack(p)')
  BY <1>2, RetiredNowhere DEF RecordOwner
<1> QED
  BY <1>1, <1>2, <1>3, <1>4, InvFromEffect

LEMMA RemovePathInv ==
    ASSUME Inv, NEW m \in Modules, NEW p \in Paths, RemovePath(m, p)
    PROVE  Inv'
<1>1. /\ TypeOK' /\ NoEmptyEntry'
      /\ \A q \in Paths : Stack(q)' = IF q = p THEN RemoveFirst(Stack(p), m) ELSE Stack(q)
      /\ \A n \in Modules : PathsOf(n)' = IF n = m THEN PathsOf(m) \ {p} ELSE PathsOf(n)
  BY RemovePathEffect
<1>2. m \in ToSet(Stack(p))
  BY DEF RemovePath, Owns
<1>3. \A q \in Paths : /\ IsInjective(Stack(q)')
                      /\ ToSet(Stack(q)') = IF q = p THEN ToSet(Stack(p)) \ {m}
                                                     ELSE ToSet(Stack(q))
  BY <1>1, <1>2, StackType, RemovedMember
<1>4. \A n \in Modules, q \in Paths : q \in PathsOf(n)' <=> n \in ToSet(Stack(q)')
  BY <1>1, <1>3, IndexesAgreeOn
<1>5. \A n \in unregistered', q \in Paths : n \notin ToSet(Stack(q)')
  BY <1>3, RetiredNowhere DEF RemovePath
<1> QED
  BY <1>1, <1>3, <1>4, <1>5, InvFromEffect

LEMMA UnregisterInv ==
    ASSUME Inv, NEW m \in Modules, Unregister(m)
    PROVE  Inv'
<1>1. /\ TypeOK' /\ NoEmptyEntry'
      /\ \A q \in Paths : Stack(q)' = RemoveFirst(Stack(q), m)
      /\ \A n \in Modules : PathsOf(n)' = IF n = m THEN {} ELSE PathsOf(n)
  BY UnregisterEffect
<1>2. \A q \in Paths : /\ IsInjective(Stack(q)')
                      /\ ToSet(Stack(q)') = ToSet(Stack(q)) \ {m}
  <2> TAKE q \in Paths
  <2>1. CASE m \in ToSet(Stack(q))
    BY <1>1, <2>1, StackType, RemovedMember
  <2>2. CASE m \notin ToSet(Stack(q))
    BY <1>1, <2>2, StackType, RemoveFirstAbsent
  <2> QED
    BY <2>1, <2>2
<1>3. \A n \in Modules, q \in Paths : q \in PathsOf(n)' <=> n \in ToSet(Stack(q)')
  BY <1>1, <1>2, IndexesAgreeOn
<1>4. \A n \in unregistered', q \in Paths : n \notin ToSet(Stack(q)')
  BY <1>2, RetiredNowhere DEF Unregister
<1> QED
  BY <1>1, <1>2, <1>3, <1>4, InvFromEffect

\* One step per operation of the registry.
LEMMA NextInv == Inv /\ [Next]_vars => Inv'
<1> SUFFICES ASSUME Inv, [Next]_vars PROVE Inv'
  OBVIOUS
<1>1. ASSUME NEW m \in Modules, NEW p \in Paths, NEW mode \in CollisionModes,
             Register(m, p, mode)
      PROVE  Inv'
  BY <1>1, RecordOwnerInv DEF Register
<1>2. ASSUME NEW m \in Modules, NEW ps \in (SUBSET Paths) \ {{}}, RegisterSubtree(m, ps)
      PROVE  Inv'
  BY <1>2, RecordOwnerInv DEF RegisterSubtree
<1>3. ASSUME NEW m \in Modules, NEW p \in Paths, RemovePath(m, p) PROVE Inv'
  BY <1>3, RemovePathInv
<1>4. ASSUME NEW m \in Modules, Unregister(m) PROVE Inv'
  BY <1>4, UnregisterInv
<1>5. ASSUME NEW m \in Modules, NEW endpoint \in Paths, SetModuleEndpoint(m, endpoint)
      PROVE  Inv'
  BY <1>5 DEF SetModuleEndpoint, Put, Inv, TypeOK, MapsTo, NoDuplicateOwner, IndexesAgree,
              UnregisteredOwnsNothing, PathsOf, Owns, Stack
<1>6. CASE Clear
  BY <1>6 DEF Clear, Inv, TypeOK, MapsTo, NoDuplicateOwner, IndexesAgree,
              UnregisteredOwnsNothing, PathsOf, Owns, Stack, ToSet
<1>7. CASE ImportState
  BY <1>7 DEF ImportState, Inv, TypeOK, MapsTo, NoDuplicateOwner, IndexesAgree,
              UnregisteredOwnsNothing, PathsOf, Owns, Stack
<1>8. CASE UNCHANGED vars
  BY <1>8 DEF vars, Inv, TypeOK, MapsTo, NoDuplicateOwner, IndexesAgree,
              UnregisteredOwnsNothing, PathsOf, Owns, Stack
<1> QED
  BY <1>1, <1>2, <1>3, <1>4, <1>5, <1>6, <1>7, <1>8 DEF Next

THEOREM SpecInv == Spec => []Inv
BY InitInv, NextInv, PTL DEF Spec

\* The four Maps always have their types (ownership.mjs 39-45).
THEOREM TypeCorrect == Spec => []TypeOK
BY SpecInv, PTL DEF Inv

\* A module is on the stack of a path once at the most: the one entry that a
\* removal splices is the only one.
THEOREM NoDuplicateAlways == Spec => []NoDuplicateOwner
BY SpecInv, PTL DEF Inv

\* Both indexes always hold the same relation.
THEOREM IndexesAlwaysAgree == Spec => []IndexesAgree
BY SpecInv, PTL DEF Inv

\* A removed module never comes back through a late registration.
THEOREM UnregisteredStaysOut == Spec => []UnregisteredOwnsNothing
BY SpecInv, PTL DEF Inv

-----------------------------------------------------------------------------
(* The order of owners.                                                    *)

\* Of two modules in a stack without duplicates only one is under the other.
LEMMA UnderAsymmetric ==
    ASSUME NEW S, NEW s \in Seq(S), IsInjective(s), NEW m, NEW n, Under(m, n, s)
    PROVE  ~Under(n, m, s)
BY DEF Under, IsInjective

LEMMA RecordOwnerKeepsOrder ==
    ASSUME Inv, NEW m \in Modules, NEW ps \in SUBSET Paths, ps # {},
           RecordOwner(m, ps), NEW p \in Paths, NEW a, NEW b, Under(a, b, Stack(p))
    PROVE  ~Under(b, a, Stack(p)')
<1>1. Stack(p)' = IF p \in ps THEN Pushed(Stack(p), m) ELSE Stack(p)
  BY RecordOwnerEffect
<1>2. Stack(p) \in Seq(Modules) /\ IsInjective(Stack(p))
  BY StackType
<1>3. CASE p \in ps
  <2>1. /\ Pushed(Stack(p), m) \in Seq(Modules)
        /\ IsInjective(Pushed(Stack(p), m))
        /\ Under(a, b, Pushed(Stack(p), m))
    BY <1>2, PushedMember
  <2> QED
    BY <1>1, <1>3, <2>1, UnderAsymmetric
<1>4. CASE p \notin ps
  BY <1>1, <1>2, <1>4, UnderAsymmetric
<1> QED
  BY <1>3, <1>4

\* Taking m off a stack cannot swap two others.
LEMMA RemovalKeepsOrder ==
    ASSUME Inv, NEW p \in Paths, NEW m \in Modules, NEW a, NEW b, Under(a, b, Stack(p))
    PROVE  ~Under(b, a, RemoveFirst(Stack(p), m))
<1>1. Stack(p) \in Seq(Modules) /\ IsInjective(Stack(p))
  BY StackType
<1>2. ~Under(b, a, Stack(p))
  BY <1>1, UnderAsymmetric
<1>3. CASE m \in ToSet(Stack(p))
  BY <1>1, <1>2, <1>3, RemovedMember
<1>4. CASE m \notin ToSet(Stack(p))
  BY <1>1, <1>2, <1>4, RemoveFirstAbsent
<1> QED
  BY <1>3, <1>4

LEMMA NextKeepsOrder ==
    ASSUME Inv, [Next]_vars, NEW p \in Paths, NEW a \in Modules, NEW b \in Modules,
           Under(a, b, Stack(p))
    PROVE  ~Under(b, a, Stack(p)')
<1>0. ~Under(b, a, Stack(p))
  BY StackType, UnderAsymmetric
<1>1. ASSUME NEW m \in Modules, NEW q \in Paths, NEW mode \in CollisionModes,
             Register(m, q, mode)
      PROVE  ~Under(b, a, Stack(p)')
  BY <1>1, RecordOwnerKeepsOrder DEF Register
<1>2. ASSUME NEW m \in Modules, NEW ps \in (SUBSET Paths) \ {{}}, RegisterSubtree(m, ps)
      PROVE  ~Under(b, a, Stack(p)')
  BY <1>2, RecordOwnerKeepsOrder DEF RegisterSubtree
<1>3. ASSUME NEW m \in Modules, NEW q \in Paths, RemovePath(m, q)
      PROVE  ~Under(b, a, Stack(p)')
  <2>1. Stack(p)' = IF p = q THEN RemoveFirst(Stack(q), m) ELSE Stack(p)
    BY <1>3, RemovePathEffect
  <2> QED
    BY <1>0, <2>1, RemovalKeepsOrder
<1>4. ASSUME NEW m \in Modules, Unregister(m) PROVE ~Under(b, a, Stack(p)')
  <2>1. Stack(p)' = RemoveFirst(Stack(p), m)
    BY <1>4, UnregisterEffect
  <2> QED
    BY <2>1, RemovalKeepsOrder
<1>5. ASSUME NEW m \in Modules, NEW endpoint \in Paths, SetModuleEndpoint(m, endpoint)
      PROVE  ~Under(b, a, Stack(p)')
  BY <1>0, <1>5 DEF SetModuleEndpoint, Stack
<1>6. CASE Clear
  BY <1>6 DEF Clear, Stack, Under
<1>7. CASE ImportState
  BY <1>0, <1>7 DEF ImportState, Stack
<1>8. CASE UNCHANGED vars
  BY <1>0, <1>8 DEF vars, Stack
<1> QED
  BY <1>1, <1>2, <1>3, <1>4, <1>5, <1>6, <1>7, <1>8 DEF Next

\* A path always falls back to the module that was directly beneath the one
\* removed: no step changes the order of two owners that both stay.
THEOREM OrderAlwaysKept == Spec => FallbackOrderKept
<1>1. Inv /\ [Next]_vars =>
        [\A p \in Paths : \A m, n \in Modules :
            Under(m, n, Stack(p)) => ~Under(n, m, Stack(p)')]_vars
  BY NextKeepsOrder
<1> QED
  BY <1>1, SpecInv, PTL DEF Spec, FallbackOrderKept

-----------------------------------------------------------------------------
(* The two indexes implement one history per path.                         *)

\* The instance sees the helpers on sequences under names of its own.
LEMMA SameHelpers ==
    ASSUME NEW s, NEW e
    PROVE  Registry!ToSet(s) = ToSet(s) /\ Registry!RemoveFirst(s, e) = RemoveFirst(s, e)
BY DEF Registry!ToSet, ToSet, Registry!RemoveFirst, RemoveFirst, Registry!SelectInSeq,
       SelectInSeq, Registry!RemoveAt, RemoveAt, Registry!Min, Min

LEMMA InitRefines == Init => Registry!AInit
BY DEF Init, Registry!AInit, Stack

LEMMA RecordOwnerRefines ==
    ASSUME Inv, NEW m \in Modules, NEW ps \in SUBSET Paths, ps # {},
           m \notin unregistered, RecordOwner(m, ps)
    PROVE  Registry!Claim(m, ps)
<1>1. \A p \in Paths : Stack(p)' = IF p \in ps THEN Pushed(Stack(p), m) ELSE Stack(p)
  BY RecordOwnerEffect
<1>2. [p \in Paths |-> Stack(p)]' =
        [p \in Paths |-> IF p \in ps /\ m \notin ToSet(Stack(p))
                         THEN Append(Stack(p), m) ELSE Stack(p)]
  BY <1>1 DEF Pushed
<1> QED
  BY <1>2, SameHelpers DEF Registry!Claim, RecordOwner

LEMMA NextRefines == Inv /\ [Next]_vars => [Registry!ANext]_(Registry!avars)
<1> SUFFICES ASSUME Inv, [Next]_vars PROVE [Registry!ANext]_(Registry!avars)
  OBVIOUS
<1>1. ASSUME NEW m \in Modules, NEW p \in Paths, NEW mode \in CollisionModes,
             Register(m, p, mode)
      PROVE  Registry!ANext
  <2>1. Registry!Claim(m, {p})
    BY <1>1, RecordOwnerRefines DEF Register
  <2> QED
    BY <2>1 DEF Registry!ANext
<1>2. ASSUME NEW m \in Modules, NEW ps \in (SUBSET Paths) \ {{}}, RegisterSubtree(m, ps)
      PROVE  Registry!ANext
  <2>1. Registry!Claim(m, ps)
    BY <1>2, RecordOwnerRefines DEF RegisterSubtree
  <2> QED
    BY <2>1 DEF Registry!ANext
<1>3. ASSUME NEW m \in Modules, NEW p \in Paths, RemovePath(m, p)
      PROVE  Registry!ANext
  <2>1. \A q \in Paths : Stack(q)' = IF q = p THEN RemoveFirst(Stack(p), m) ELSE Stack(q)
    BY <1>3, RemovePathEffect
  <2>2. [q \in Paths |-> Stack(q)]' =
          [[q \in Paths |-> Stack(q)] EXCEPT ![p] = RemoveFirst(@, m)]
    BY <2>1
  <2>3. Registry!Release(m, p)
    BY <1>3, <2>2, SameHelpers DEF Registry!Release, RemovePath, Owns
  <2> QED
    BY <2>3 DEF Registry!ANext
<1>4. ASSUME NEW m \in Modules, Unregister(m) PROVE Registry!ANext
  <2>1. \A q \in Paths : Stack(q)' = RemoveFirst(Stack(q), m)
    BY <1>4, UnregisterEffect
  <2>2. [q \in Paths |-> Stack(q)]' = [q \in Paths |-> RemoveFirst(Stack(q), m)]
    BY <2>1
  <2>3. PICK p \in Paths : p \in PathsOf(m)
    BY <1>4 DEF Unregister, Inv, IndexesAgree, TypeOK, MapsTo, PathsOf
  <2>4. m \in ToSet(Stack(p))
    BY <2>3, IndexesAgreeOn
  <2>5. Registry!Retire(m)
    BY <1>4, <2>2, <2>4, SameHelpers DEF Registry!Retire, Unregister
  <2> QED
    BY <2>5 DEF Registry!ANext
<1>5. ASSUME NEW m \in Modules, NEW endpoint \in Paths, SetModuleEndpoint(m, endpoint)
      PROVE  UNCHANGED Registry!avars
  BY <1>5 DEF SetModuleEndpoint, Stack, Registry!avars
<1>6. CASE Clear
  BY <1>6 DEF Clear, Stack, Registry!ANext, Registry!Reset
<1>7. CASE ImportState
  BY <1>7 DEF ImportState, Stack, Registry!ANext, Registry!Pardon
<1>8. CASE UNCHANGED vars
  BY <1>8 DEF vars, Stack, Registry!avars
<1> QED
  BY <1>1, <1>2, <1>3, <1>4, <1>5, <1>6, <1>7, <1>8 DEF Next

\* The registry with its two indexes implements the one without: unregister()
\* leaves no entry of its module on any path.
THEOREM RegistryImplemented == Spec => RegistrySpec
BY InitRefines, NextRefines, SpecInv, PTL DEF Spec, RegistrySpec, Registry!ASpec
=============================================================================
