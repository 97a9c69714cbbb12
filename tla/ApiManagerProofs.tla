-------------------------- MODULE ApiManagerProofs --------------------------
(***************************************************************************)
(* Proofs about the API manager, for any components, mount points and      *)
(* exports that the assumptions of ApiManager allow.                       *)
(***************************************************************************)
EXTENDS ApiManager, SequenceTheorems, WellFoundedInduction, TLAPS

-----------------------------------------------------------------------------
(* Paths.                                                                  *)

LEMMA PrefixIsReflexive ==
    ASSUME NEW S, NEW s \in Seq(S)
    PROVE  IsPrefix(s, s)
BY DEF IsPrefix

\* A prefix, index by index.
LEMMA PrefixPointwise ==
    ASSUME NEW S, NEW s \in Seq(S), NEW t \in Seq(S)
    PROVE  IsPrefix(s, t) <=> Len(s) <= Len(t) /\ \A i \in 1..Len(s) : s[i] = t[i]
<1>1. SUFFICES ASSUME Len(s) <= Len(t)
               PROVE  SubSeq(s, 1, Len(s)) = SubSeq(t, 1, Len(s))
                        <=> \A i \in 1..Len(s) : s[i] = t[i]
  BY DEF IsPrefix
<1> DEFINE a == SubSeq(s, 1, Len(s))
           b == SubSeq(t, 1, Len(s))
<1>2. a \in Seq(S) /\ Len(a) = Len(s) /\ \A i \in 1..Len(s) : a[i] = s[i]
  BY SubSeqProperties
<1>3. b \in Seq(S) /\ Len(b) = Len(s) /\ \A i \in 1..Len(s) : b[i] = t[i]
  BY <1>1, SubSeqProperties
<1> HIDE DEF a, b
<1>4. a = b <=> \A i \in 1..Len(s) : a[i] = b[i]
  BY <1>2, <1>3, SeqEqual
<1> QED
  BY <1>2, <1>3, <1>4 DEF a, b

LEMMA PrefixIsTransitive ==
    ASSUME NEW S, NEW s \in Seq(S), NEW t \in Seq(S), NEW u \in Seq(S),
           IsPrefix(s, t), IsPrefix(t, u)
    PROVE  IsPrefix(s, u)
BY PrefixPointwise

\* Two prefixes of a path lie on one line.
LEMMA PrefixesCompare ==
    ASSUME NEW S, NEW s \in Seq(S), NEW t \in Seq(S), NEW u \in Seq(S),
           IsPrefix(s, u), IsPrefix(t, u)
    PROVE  IsPrefix(s, t) \/ IsPrefix(t, s)
BY PrefixPointwise

LEMMA PrefixOfConcat ==
    ASSUME NEW S, NEW s \in Seq(S), NEW t \in Seq(S)
    PROVE  s \o t \in Seq(S) /\ IsPrefix(s, s \o t)
<1>1. /\ s \o t \in Seq(S)
      /\ Len(s \o t) = Len(s) + Len(t)
      /\ \A i \in 1..Len(s) : (s \o t)[i] = s[i]
  BY ConcatProperties
<1>2. Len(s) <= Len(s \o t)
  BY <1>1
<1> QED
  BY <1>1, <1>2, PrefixPointwise

\* UpTo(l) holds the prefixes of l but the empty one.
LEMMA UpToIsPrefix ==
    ASSUME NEW S, NEW l \in Seq(S), NEW p
    PROVE  p \in UpTo(l) <=> p \in Seq(S) /\ p # <<>> /\ IsPrefix(p, l)
<1>1. ASSUME p \in UpTo(l) PROVE p \in Seq(S) /\ p # <<>> /\ IsPrefix(p, l)
  <2>1. PICK n \in 0..Len(l) : p = SubSeq(l, 1, n)
    BY <1>1 DEF UpTo, Prefixes
  <2>2. p \in Seq(S) /\ Len(p) = n /\ \A i \in 1..n : p[i] = l[i]
    BY <2>1, SubSeqProperties
  <2> QED
    BY <1>1, <2>2, PrefixPointwise DEF UpTo
<1>2. ASSUME p \in Seq(S), p # <<>>, IsPrefix(p, l) PROVE p \in UpTo(l)
  <2>1. Len(p) \in 0..Len(l) /\ SubSeq(p, 1, Len(p)) = SubSeq(l, 1, Len(p))
    BY <1>2 DEF IsPrefix
  <2>2. SubSeq(p, 1, Len(p)) = p
    <3>1. /\ SubSeq(p, 1, Len(p)) \in Seq(S)
          /\ Len(SubSeq(p, 1, Len(p))) = Len(p)
          /\ \A i \in 1..Len(p) : SubSeq(p, 1, Len(p))[i] = p[i]
      BY <1>2, SubSeqProperties
    <3> QED
      BY <1>2, <3>1, SeqEqual
  <2> QED
    BY <1>2, <2>1, <2>2 DEF UpTo, Prefixes
<1> QED
  BY <1>1, <1>2

\* What the folder of a component looks like.
LEMMA Shape ==
    /\ LeafPaths \subseteq AllPaths
    /\ AllPaths \subseteq Seq(Names)
    /\ \A m \in Modules : Leaves(m) # {} /\ Leaves(m) \subseteq LeafPaths
    /\ \A m \in Modules : At[m] \in Seq(Names)
    /\ \A m \in Modules : \A l \in Leaves(m) : IsPrefix(At[m], l)
    /\ \A l \in LeafPaths : l # <<>>
<1>1. ASSUME NEW m \in Modules, NEW l \in Leaves(m)
      PROVE  l \in Seq(Names) /\ l # <<>> /\ IsPrefix(At[m], l)
  <2>1. PICK e \in Exports[m] : l = At[m] \o e
    BY <1>1 DEF Leaves
  <2>2. At[m] \in Seq(Names) /\ e \in Seq(Names) /\ e # <<>>
    BY ModulesAssumption
  <2>3. Len(l) = Len(At[m]) + Len(e) /\ Len(e) > 0
    BY <2>1, <2>2, ConcatProperties, EmptySeq
  <2> QED
    BY <2>1, <2>2, <2>3, PrefixOfConcat, EmptySeq
<1>2. \A m \in Modules : Leaves(m) # {} /\ Leaves(m) \subseteq LeafPaths
  BY ModulesAssumption DEF Leaves, LeafPaths
<1>3. \A l \in LeafPaths : l \in Seq(Names) /\ l # <<>>
  BY <1>1 DEF LeafPaths
<1>4. LeafPaths \subseteq AllPaths
  BY <1>3, UpToIsPrefix, PrefixIsReflexive DEF AllPaths
<1>5. AllPaths \subseteq Seq(Names)
  BY <1>3, UpToIsPrefix DEF AllPaths
<1> QED
  BY <1>1, <1>2, <1>3, <1>4, <1>5, ModulesAssumption

\* The longest common prefix of paths is a path that leads to each of them.
LEMMA CommonPrefixLeads ==
    ASSUME NEW S, NEW ps \in SUBSET Seq(S), ps # {}
    PROVE  LET c == LongestCommonPrefix(ps)
           IN  c \in Seq(S) /\ \A p \in ps : IsPrefix(c, p)
<1> DEFINE shared == CommonPrefixes(ps)
<1>1. PICK d \in ps : TRUE
  OBVIOUS
<1>2. ASSUME NEW c \in shared
      PROVE  c \in Seq(S) /\ \A p \in ps : IsPrefix(c, p)
  <2>1. PICK p \in ps : c \in Prefixes(p)
    BY <1>2 DEF CommonPrefixes
  <2>2. PICK n \in 0..Len(p) : c = SubSeq(p, 1, n)
    BY <2>1 DEF Prefixes
  <2> QED
    BY <1>2, <2>2, SubSeqProperties DEF CommonPrefixes
<1>3. <<>> \in shared
  <2>1. SubSeq(d, 1, 0) = <<>> /\ 0 \in 0..Len(d)
    BY SubSeqEmpty
  <2>2. <<>> \in Prefixes(d)
    BY <2>1 DEF Prefixes
  <2>3. \A p \in ps : IsPrefix(<<>>, p)
    <3>1. <<>> \in Seq(S) /\ Len(<<>>) = 0
      BY EmptySeq
    <3>2. \A p \in ps : p \in Seq(S) /\ Len(p) >= 0
      OBVIOUS
    <3>3. \A p \in ps : SubSeq(<<>>, 1, 0) = <<>> /\ SubSeq(p, 1, 0) = <<>>
      BY SubSeqEmpty
    <3> QED
      BY <3>1, <3>2, <3>3 DEF IsPrefix
  <2> QED
    BY <2>2, <2>3 DEF CommonPrefixes
<1> HIDE DEF shared
<1>4. \E c \in shared : \A o \in shared : Len(o) <= Len(c)
  <2> DEFINE gap(c) == Len(d) - Len(c)
             gaps == {gap(c) : c \in shared}
  <2>1. \A c \in shared : Len(c) \in Nat /\ gap(c) \in Nat
    BY <1>2 DEF IsPrefix
  <2>2. gaps \subseteq Nat /\ gaps # {}
    BY <1>3, <2>1
  <2>3. PICK g \in gaps : \A h \in gaps : <<h, g>> \notin OpToRel(<, Nat)
    <3> HIDE DEF gaps
    <3> QED
      BY <2>2, NatLessThanWellFounded, WFMin
  <2>4. \A h \in gaps : ~(h < g)
    BY <2>2, <2>3 DEF OpToRel
  <2>5. PICK c \in shared : g = gap(c)
    BY <2>3
  <2>6. ASSUME NEW o \in shared PROVE Len(o) <= Len(c)
    <3>1. ~(gap(o) < gap(c))
      BY <2>4, <2>5
    <3>2. Len(d) \in Nat /\ Len(o) \in Nat /\ Len(c) \in Nat
      BY <2>1
    <3> QED
      BY <3>1, <3>2
  <2> QED
    BY <2>6
<1>5. LongestCommonPrefix(ps) \in shared
  BY <1>4 DEF LongestCommonPrefix, shared
<1> QED
  BY <1>2, <1>5

-----------------------------------------------------------------------------
(* The registry, operation by operation.                                   *)

\* The stacks are what OwnershipRegistry makes of them.
Stacks ==
    /\ owners \in [AllPaths -> Seq(Modules)]
    /\ \A p \in AllPaths : IsInjective(owners[p])

\* The instance sees the helpers on sequences under names of its own.
LEMMA SameHelpers ==
    ASSUME NEW s, NEW e
    PROVE  Registry!ToSet(s) = ToSet(s) /\ Registry!RemoveFirst(s, e) = RemoveFirst(s, e)
BY DEF Registry!ToSet, ToSet, Registry!RemoveFirst, RemoveFirst, Registry!SelectInSeq,
       SelectInSeq, Registry!RemoveAt, RemoveAt, Registry!Min, Min

\* A new entry on top of a stack.
LEMMA AppendMember ==
    ASSUME NEW S, NEW s \in Seq(S), NEW e \in S, IsInjective(s), e \notin ToSet(s)
    PROVE  LET r == Append(s, e)
           IN  /\ r \in Seq(S) /\ r # <<>>
               /\ IsInjective(r)
               /\ ToSet(r) = ToSet(s) \cup {e}
               /\ DOMAIN s \subseteq DOMAIN r /\ \A i \in DOMAIN s : r[i] = s[i]
<1> DEFINE r == Append(s, e)
<1>1. /\ r \in Seq(S) /\ r # <<>> /\ Len(r) = Len(s) + 1
      /\ \A i \in 1..Len(s) : r[i] = s[i]
      /\ r[Len(s) + 1] = e
  BY AppendProperties
<1>2. DOMAIN r = 1..(Len(s) + 1) /\ DOMAIN s = 1..Len(s) /\ Len(s) \in Nat
  BY <1>1
<1> HIDE DEF r
<1>3. IsInjective(r)
  BY <1>1, <1>2 DEF IsInjective, ToSet
<1>4. ToSet(r) = ToSet(s) \cup {e}
  BY <1>1, <1>2 DEF ToSet
<1> QED
  BY <1>1, <1>2, <1>3, <1>4 DEF r

\* What Register leaves alone and what it adds.
LEMMA RegisterEffect ==
    ASSUME Stacks, NEW m \in Modules, NEW ps, Register(m, ps)
    PROVE  /\ Stacks' /\ retired' = retired
           /\ \A p \in AllPaths :
                 /\ ToSet(owners[p]) \subseteq ToSet(owners'[p])
                 /\ ToSet(owners'[p]) \subseteq ToSet(owners[p]) \cup {m}
                 /\ p \notin ps => owners'[p] = owners[p]
                 /\ p \in ps /\ m \notin retired => m \in ToSet(owners'[p])
                 /\ m \in retired => owners'[p] = owners[p]
<1>1. CASE Registry!Claim(m, ps)
  <2>0. \A p \in AllPaths : owners'[p] = IF p \in ps /\ m \notin ToSet(owners[p])
                                         THEN Append(owners[p], m) ELSE owners[p]
    BY <1>1, SameHelpers DEF Registry!Claim
  <2>1. ASSUME NEW p \in AllPaths
        PROVE  /\ owners'[p] \in Seq(Modules) /\ IsInjective(owners'[p])
               /\ ToSet(owners[p]) \subseteq ToSet(owners'[p])
               /\ ToSet(owners'[p]) \subseteq ToSet(owners[p]) \cup {m}
               /\ p \notin ps => owners'[p] = owners[p]
               /\ p \in ps => m \in ToSet(owners'[p])
    <3>1. owners[p] \in Seq(Modules) /\ IsInjective(owners[p])
      BY DEF Stacks
    <3>2. CASE p \in ps /\ m \notin ToSet(owners[p])
      <4>1. owners'[p] = Append(owners[p], m)
        BY <2>0, <3>2
      <4> QED
        BY <3>1, <3>2, <4>1, AppendMember
    <3>3. CASE ~(p \in ps /\ m \notin ToSet(owners[p]))
      <4>1. owners'[p] = owners[p]
        BY <2>0, <3>3
      <4> QED
        BY <3>1, <3>3, <4>1
    <3> QED
      BY <3>2, <3>3
  <2>2. owners' = [p \in AllPaths |-> owners'[p]] /\ retired' = retired
    BY <1>1 DEF Registry!Claim
  <2> QED
    BY <1>1, <2>1, <2>2 DEF Stacks, Registry!Claim
<1>2. CASE m \in retired /\ UNCHANGED <<owners, retired>>
  BY <1>2 DEF Stacks
<1> QED
  BY <1>1, <1>2 DEF Register

\* Splicing the first entry of s[k] out of a stack without duplicates takes
\* out position k and nothing else.
LEMMA RemoveFirstSplices ==
    ASSUME NEW S, NEW s \in Seq(S), NEW k \in 1..Len(s), IsInjective(s)
    PROVE  LET r == RemoveFirst(s, s[k])
           IN  /\ r \in Seq(S)
               /\ Len(r) = Len(s) - 1
               /\ \A i \in 1..(Len(s) - 1) : r[i] = IF i < k THEN s[i] ELSE s[i + 1]
<1> DEFINE I == {i \in 1..Len(s) : s[i] = s[k]}
           a == SubSeq(s, 1, k - 1)
           b == SubSeq(s, k + 1, Len(s))
<1>1. I = {k}
  BY DEF IsInjective
<1>2. Min(I) = k
  BY <1>1 DEF Min
<1>3. RemoveFirst(s, s[k]) = a \o b
  BY <1>1, <1>2 DEF RemoveFirst, SelectInSeq, RemoveAt
<1>4. a \in Seq(S) /\ Len(a) = k - 1 /\ \A i \in 1..(k - 1) : a[i] = s[i]
  BY SubSeqProperties
<1>5. b \in Seq(S) /\ Len(b) = Len(s) - k /\ \A i \in 1..(Len(s) - k) : b[i] = s[k + i]
  BY SubSeqProperties
<1> HIDE DEF I, a, b
<1>6. /\ a \o b \in Seq(S)
      /\ Len(a \o b) = Len(s) - 1
      /\ \A i \in 1..(Len(s) - 1) : (a \o b)[i] = IF i < k THEN s[i] ELSE s[i + 1]
  <2>1. /\ a \o b \in Seq(S)
        /\ Len(a \o b) = Len(a) + Len(b)
        /\ \A i \in 1..(Len(a) + Len(b)) :
              (a \o b)[i] = IF i <= Len(a) THEN a[i] ELSE b[i - Len(a)]
    BY <1>4, <1>5, ConcatProperties
  <2>2. Len(s) \in Nat /\ Len(a) + Len(b) = Len(s) - 1
    BY <1>4, <1>5
  <2>3. ASSUME NEW i \in 1..(Len(s) - 1), i < k PROVE (a \o b)[i] = s[i]
    BY <1>4, <2>1, <2>2, <2>3
  <2>4. ASSUME NEW i \in 1..(Len(s) - 1), ~(i < k) PROVE (a \o b)[i] = s[i + 1]
    <3>1. (a \o b)[i] = b[i - (k - 1)]
      BY <1>4, <2>1, <2>2, <2>4
    <3>2. i - (k - 1) \in 1..(Len(s) - k) /\ k + (i - (k - 1)) = i + 1
      BY <2>2, <2>4
    <3> QED
      BY <1>5, <3>1, <3>2
  <2> QED
    BY <2>1, <2>2, <2>3, <2>4
<1> QED
  BY <1>3, <1>6

\* The same for a member: what is left is a stack without duplicates of all
\* the others.
LEMMA RemoveFirstMember ==
    ASSUME NEW S, NEW s \in Seq(S), NEW e \in ToSet(s), IsInjective(s)
    PROVE  LET r == RemoveFirst(s, e)
           IN  /\ r \in Seq(S)
               /\ IsInjective(r)
               /\ ToSet(r) = ToSet(s) \ {e}
<1> DEFINE r == RemoveFirst(s, e)
<1>1. PICK k \in 1..Len(s) : s[k] = e
  BY DEF ToSet
<1>2. /\ r \in Seq(S)
      /\ Len(r) = Len(s) - 1
      /\ \A i \in 1..(Len(s) - 1) : r[i] = IF i < k THEN s[i] ELSE s[i + 1]
  BY <1>1, RemoveFirstSplices
<1> HIDE DEF r
<1>3. DOMAIN r = 1..(Len(s) - 1) /\ DOMAIN s = 1..Len(s) /\ Len(s) \in Nat
  BY <1>2
<1>4. IsInjective(r)
  BY <1>2, <1>3 DEF IsInjective
<1>5. ASSUME NEW x \in ToSet(r) PROVE x \in ToSet(s) \ {e}
  BY <1>1, <1>2, <1>3 DEF ToSet, IsInjective
<1>6. ASSUME NEW x \in ToSet(s) \ {e} PROVE x \in ToSet(r)
  <2>1. PICK j \in 1..Len(s) : s[j] = x
    BY <1>3 DEF ToSet
  <2>2. j < k \/ j > k
    BY <1>1, <2>1
  <2>3. CASE j < k
    BY <1>2, <1>3, <2>1, <2>3 DEF ToSet
  <2>4. CASE j > k
    <3>1. j - 1 \in DOMAIN r /\ r[j - 1] = x
      BY <1>2, <1>3, <2>1, <2>4
    <3> QED
      BY <3>1 DEF ToSet
  <2> QED
    BY <2>2, <2>3, <2>4
<1> QED
  BY <1>2, <1>4, <1>5, <1>6 DEF r

\* Removing a module that is not there leaves the stack alone.
LEMMA RemoveFirstAbsent ==
    ASSUME NEW S, NEW s \in Seq(S), NEW e, e \notin ToSet(s)
    PROVE  RemoveFirst(s, e) = s
BY DEF RemoveFirst, ToSet

\* RemoveFirst takes one member out of a stack, if it is there.
LEMMA Spliced ==
    ASSUME NEW s \in Seq(Modules), IsInjective(s), NEW m
    PROVE  LET r == RemoveFirst(s, m)
           IN  /\ r \in Seq(Modules) /\ IsInjective(r)
               /\ ToSet(r) = ToSet(s) \ {m}
<1>1. CASE m \in ToSet(s)
  BY <1>1, RemoveFirstMember
<1>2. CASE m \notin ToSet(s)
  BY <1>2, RemoveFirstAbsent
<1> QED
  BY <1>1, <1>2

LEMMA RetireEffect ==
    ASSUME Stacks, NEW m \in Modules, Registry!Retire(m)
    PROVE  /\ Stacks' /\ retired' = retired \cup {m}
           /\ \A p \in AllPaths : ToSet(owners'[p]) = ToSet(owners[p]) \ {m}
<1>1. owners' = [p \in AllPaths |-> RemoveFirst(owners[p], m)]
  BY SameHelpers DEF Registry!Retire
<1>2. \A p \in AllPaths : owners'[p] = RemoveFirst(owners[p], m)
  BY <1>1
<1>3. \A p \in AllPaths : /\ owners'[p] \in Seq(Modules) /\ IsInjective(owners'[p])
                          /\ ToSet(owners'[p]) = ToSet(owners[p]) \ {m}
  BY <1>2, Spliced DEF Stacks
<1> QED
  BY <1>1, <1>3 DEF Stacks, Registry!Retire

\* The owner that gives up its path is the only one.
LEMMA ReleaseEffect ==
    ASSUME Stacks, NEW p \in AllPaths, RemovePath(p)
    PROVE  /\ Stacks' /\ retired' = retired
           /\ \E m \in Modules \ building : ToSet(owners[p]) = {m}
           /\ \A q \in AllPaths : q # p => owners'[q] = owners[q]
           /\ ToSet(owners'[p]) \subseteq ToSet(owners[p])
<1> DEFINE m == CurrentOwner(owners, p)
<1>1. owners[p] \in Seq(Modules) /\ IsInjective(owners[p]) /\ Len(owners[p]) = 1
  BY DEF Stacks, RemovePath
<1>2. DOMAIN owners[p] = {1} /\ m = owners[p][1]
  BY <1>1 DEF CurrentOwner, Last
<1>3. ToSet(owners[p]) = {m} /\ m \in Modules \ building
  BY <1>1, <1>2 DEF ToSet, RemovePath, AddIsOver
<1> HIDE DEF m
<1>4. owners' = [owners EXCEPT ![p] = RemoveFirst(owners[p], m)] /\ retired' = retired
  BY SameHelpers DEF RemovePath, Registry!Release, m
<1>5. /\ RemoveFirst(owners[p], m) \in Seq(Modules)
      /\ IsInjective(RemoveFirst(owners[p], m))
      /\ ToSet(RemoveFirst(owners[p], m)) = ToSet(owners[p]) \ {m}
  BY <1>1, Spliced
<1>6. owners \in [AllPaths -> Seq(Modules)]
  BY DEF Stacks
<1>7. /\ owners'[p] = RemoveFirst(owners[p], m)
      /\ \A q \in AllPaths : q # p => owners'[q] = owners[q]
      /\ owners' \in [AllPaths -> Seq(Modules)]
  BY <1>4, <1>5, <1>6
<1>8. Stacks'
  BY <1>5, <1>7 DEF Stacks
<1> QED
  BY <1>3, <1>4, <1>5, <1>7, <1>8

-----------------------------------------------------------------------------
(* What is registered and what is mounted.                                 *)

\* The footprint of a component holds its functions and no other component's;
\* its mount point and the namespaces above are no functions at all.
LEMMA FootprintShape ==
    ASSUME NEW m \in Modules
    PROVE  /\ Leaves(m) \subseteq Footprint(m)
           /\ Footprint(m) \cap LeafPaths \subseteq Leaves(m)
           /\ m # Base => /\ At[m] \in AllPaths \ LeafPaths
                          /\ Ancestors(m) \cap LeafPaths = {}
<1>1. ASSUME NEW l \in Leaves(m) PROVE l \in Footprint(m)
  <2>1. l \in Seq(Names) /\ l # <<>> /\ IsPrefix(At[m], l) /\ IsPrefix(l, l)
    BY Shape, PrefixIsReflexive
  <2>2. l \in UpTo(l)
    BY <2>1, UpToIsPrefix
  <2>3. Len(l) >= Len(At[m])
    BY <2>1, Shape DEF IsPrefix
  <2> QED
    BY <2>2, <2>3 DEF Footprint
<1>2. ASSUME NEW l \in LeafPaths, NEW k \in Leaves(m), IsPrefix(l, k) PROVE l = k
  <2>1. k \in AllPaths
    BY Shape
  <2> QED
    BY <1>2, <2>1, ShapeAssumption DEF Below, IsStrictPrefix
<1>3. ASSUME NEW l \in Footprint(m) \cap LeafPaths PROVE l \in Leaves(m)
  <2>1. PICK k \in Leaves(m) : l \in UpTo(k)
    BY DEF Footprint
  <2>2. IsPrefix(l, k)
    BY <2>1, Shape, UpToIsPrefix
  <2> QED
    BY <1>2, <2>2
<1>4. ASSUME m # Base PROVE At[m] \in AllPaths \ LeafPaths /\ Ancestors(m) \cap LeafPaths = {}
  <2>1. PICK e \in Exports[m] : TRUE
    BY ModulesAssumption
  <2> DEFINE k == At[m] \o e
  <2>2. k \in Leaves(m) /\ k \in LeafPaths /\ k \in Seq(Names)
    BY Shape DEF Leaves
  <2>3. At[m] \in Seq(Names) /\ e \in Seq(Names) /\ e # <<>> /\ At[m] # <<>>
    BY <1>4, ModulesAssumption DEF Components
  <2>4. Len(k) = Len(At[m]) + Len(e) /\ Len(e) > 0 /\ Len(At[m]) >= 0
    BY <2>3, ConcatProperties, EmptySeq
  <2> HIDE DEF k
  <2>5. IsPrefix(At[m], k) /\ At[m] # k
    BY <2>2, <2>3, <2>4, Shape
  <2>6. At[m] \in AllPaths
    BY <2>2, <2>3, <2>5, UpToIsPrefix DEF AllPaths
  <2>7. ASSUME NEW p \in UpTo(At[m]) PROVE p \notin LeafPaths
    <3>1. p \in Seq(Names) /\ IsPrefix(p, At[m])
      BY <2>3, UpToIsPrefix
    <3>2. IsPrefix(p, k)
      BY <2>2, <2>3, <2>5, <3>1, PrefixIsTransitive
    <3>3. p # k
      BY <2>3, <2>4, <3>1 DEF IsPrefix
    <3> QED
      BY <1>2, <2>2, <3>2, <3>3
  <2>8. At[m] \in UpTo(At[m])
    BY <2>3, UpToIsPrefix, PrefixIsReflexive
  <2> QED
    BY <2>6, <2>7, <2>8 DEF Ancestors
<1> QED
  BY <1>1, <1>3, <1>4

\* What mounting a component does to one function.
LEMMA AssignedEffect ==
    ASSUME TypeOK, NEW m \in Modules, NEW mode
    PROVE  LET t == Assigned(m, mode)
           IN  /\ t \in [LeafPaths -> Modules \cup {Nobody}]
               /\ \A l \in LeafPaths :
                     /\ t[l] = serves[l] \/ t[l] = Nobody \/ (t[l] = m /\ l \in Leaves(m))
                     /\ serves[l] # Nobody /\ t[l] = Nobody =>
                           IsPrefix(At[m], l) /\ \A k \in Leaves(m) : t[k] = m
               /\ ~Present(At[m]) => \A k \in Leaves(m) : t[k] = m
<1> DEFINE t == Assigned(m, mode)
           fresh == ~Present(At[m]) \/ mode = "replace"
           goal ==
               /\ t \in [LeafPaths -> Modules \cup {Nobody}]
               /\ \A l \in LeafPaths :
                     /\ t[l] = serves[l] \/ t[l] = Nobody \/ (t[l] = m /\ l \in Leaves(m))
                     /\ serves[l] # Nobody /\ t[l] = Nobody =>
                           IsPrefix(At[m], l) /\ \A k \in Leaves(m) : t[k] = m
               /\ ~Present(At[m]) => \A k \in Leaves(m) : t[k] = m
<1>0. /\ Leaves(m) \subseteq LeafPaths /\ m # Nobody
      /\ serves \in [LeafPaths -> Modules \cup {Nobody}]
  BY Shape, ModulesAssumption DEF TypeOK
<1>1. ASSUME fresh PROVE goal
  <2>1. t = [l \in LeafPaths |-> IF l \in Leaves(m) THEN m
                                 ELSE IF IsPrefix(At[m], l) THEN Nobody ELSE serves[l]]
    BY <1>1 DEF Assigned
  <2> HIDE DEF t, fresh
  <2> QED
    BY <1>0, <2>1
<1>2. ASSUME ~fresh, mode = "merge" PROVE goal
  <2>1. t = [l \in LeafPaths |-> IF l \in Leaves(m) /\ serves[l] = Nobody THEN m ELSE serves[l]]
    BY <1>2 DEF Assigned
  <2>2. Present(At[m])
    BY <1>2
  <2> HIDE DEF t, fresh
  <2> QED
    BY <1>0, <2>1, <2>2
<1>3. ASSUME ~fresh, mode # "merge" PROVE goal
  <2>1. t = [l \in LeafPaths |-> serves[l]]
    BY <1>3 DEF Assigned
  <2>2. Present(At[m])
    BY <1>3
  <2> HIDE DEF t, fresh
  <2> QED
    BY <1>0, <2>1, <2>2
<1>4. goal
  <2> HIDE DEF goal
  <2> QED
    BY <1>1, <1>2, <1>3
<1> QED
  BY <1>4

\* After the mount the endpoint of m resolves, and so does that of every
\* other component with nothing mounted above it.
LEMMA AssignedResolves ==
    ASSUME TypeOK, NEW m \in Components, NEW mode
    PROVE  /\ ResolvesIn(Assigned(m, mode), At[m])
           /\ \A c \in Components :
                Topmost(c) /\ Present(At[c]) => ResolvesIn(Assigned(m, mode), At[c])
<1> DEFINE t == Assigned(m, mode)
<1>0. m \in Modules /\ m # Nobody /\ TypeOK
  BY ModulesAssumption DEF Components
<1>1. /\ \A l \in LeafPaths :
            serves[l] # Nobody /\ t[l] = Nobody =>
                  IsPrefix(At[m], l) /\ \A k \in Leaves(m) : t[k] = m
      /\ ~Present(At[m]) => \A k \in Leaves(m) : t[k] = m
  BY <1>0, AssignedEffect
<1> HIDE DEF t
<1>2. PICK k \in Leaves(m) : TRUE
  BY <1>0, Shape
<1>3. k \in LeafPaths /\ k \in Seq(Names) /\ IsPrefix(At[m], k) /\ At[m] \in Seq(Names)
  BY <1>0, Shape
<1>4. ResolvesIn(t, At[m])
  <2>1. CASE ~Present(At[m])
    BY <1>0, <1>1, <1>3, <2>1 DEF ResolvesIn
  <2>2. CASE Present(At[m])
    <3>1. PICK l \in LeafPaths : IsPrefix(At[m], l) /\ serves[l] # Nobody
      BY <2>2 DEF Present, ResolvesIn
    <3>2. CASE t[l] # Nobody
      BY <3>1, <3>2 DEF ResolvesIn
    <3>3. CASE t[l] = Nobody
      BY <1>0, <1>1, <1>3, <3>1, <3>3 DEF ResolvesIn
    <3> QED
      BY <3>2, <3>3
  <2> QED
    BY <2>1, <2>2
<1>5. ASSUME NEW c \in Components, Topmost(c), Present(At[c])
      PROVE  ResolvesIn(t, At[c])
  <2>1. PICK l \in LeafPaths : IsPrefix(At[c], l) /\ serves[l] # Nobody
    BY <1>5 DEF Present, ResolvesIn
  <2>2. CASE t[l] # Nobody
    BY <2>1, <2>2 DEF ResolvesIn
  <2>3. CASE t[l] = Nobody
    <3>1. IsPrefix(At[m], l) /\ t[k] = m
      BY <1>1, <2>1, <2>3
    <3>2. At[c] \in Seq(Names) /\ l \in Seq(Names)
      BY Shape DEF Components
    <3>3. IsPrefix(At[c], At[m]) \/ IsPrefix(At[m], At[c])
      BY <1>3, <2>1, <3>1, <3>2, PrefixesCompare
    <3>4. IsPrefix(At[c], At[m])
      BY <1>5, <3>2, <3>3, PrefixIsReflexive DEF Topmost, Below, IsStrictPrefix
    <3>5. IsPrefix(At[c], k)
      BY <1>3, <3>2, <3>4, PrefixIsTransitive
    <3> QED
      BY <1>0, <1>3, <3>1, <3>5 DEF ResolvesIn
  <2> QED
    BY <2>2, <2>3
<1> QED
  BY <1>4, <1>5 DEF t

-----------------------------------------------------------------------------
(* The inductive invariant.                                                *)

\* A component owns no function but its own.
OwnsItsOwn == \A l \in LeafPaths : \A m \in ToSet(owners[l]) : l \in Leaves(m)

\* What has its wrapper is owned before it is mounted, unless its component
\* was removed meanwhile.
BuiltIsOwned ==
    \A m \in building \ retired : \A l \in Leaves(m) \ unbuilt[m] : m \in ToSet(owners[l])

\* The registry never hears of a removed component again.
RetiredOwnsNothing == \A m \in retired : \A p \in AllPaths : m \notin ToSet(owners[p])

IInv ==
    /\ TypeOK /\ Stacks /\ OwnsItsOwn
    /\ ServedIsOwned /\ BuiltIsOwned /\ RetiredOwnsNothing /\ NoOrphanCache

LEMMA InitInv == Init => IInv
<1> SUFFICES ASSUME Init PROVE IInv
  OBVIOUS
<1>1. Base \in Modules /\ Base # Nobody /\ <<Base>> \in Seq(Modules)
  BY ModulesAssumption
<1>2. ASSUME NEW p \in AllPaths
      PROVE  /\ owners[p] \in Seq(Modules) /\ IsInjective(owners[p])
             /\ ToSet(owners[p]) = IF p \in Footprint(Base) THEN {Base} ELSE {}
  <2>1. CASE p \in Footprint(Base)
    <3>1. owners[p] = <<Base>>
      BY <2>1 DEF Init
    <3> QED
      BY <1>1, <2>1, <3>1 DEF ToSet, IsInjective
  <2>2. CASE p \notin Footprint(Base)
    <3>1. owners[p] = <<>>
      BY <2>2 DEF Init
    <3> QED
      BY <2>2, <3>1 DEF ToSet, IsInjective
  <2> QED
    BY <2>1, <2>2
<1>3. Stacks
  BY <1>2 DEF Stacks, Init
<1>4. TypeOK
  BY <1>1, <1>3 DEF TypeOK, Stacks, Init
<1>5. OwnsItsOwn
  BY <1>1, <1>2, Shape, FootprintShape DEF OwnsItsOwn
<1>6. ServedIsOwned
  BY <1>1, <1>2, Shape, FootprintShape DEF ServedIsOwned, Init
<1>7. BuiltIsOwned /\ RetiredOwnsNothing /\ NoOrphanCache
  BY DEF BuiltIsOwned, RetiredOwnsNothing, NoOrphanCache, Init
<1> QED
  BY <1>3, <1>4, <1>5, <1>6, <1>7 DEF IInv

LEMMA BuildInv ==
    ASSUME IInv, NEW m \in Components, Build(m) \/ BuildFails(m)
    PROVE  IInv'
<1>1. /\ building' \subseteq building \cup {m}
      /\ \/ unbuilt' = [unbuilt EXCEPT ![m] = Leaves(m)]
         \/ building' = building \ {m} /\ unbuilt' = [unbuilt EXCEPT ![m] = {}]
      /\ UNCHANGED <<owners, retired, serves, cached, endpoints>>
  BY DEF Build, BuildFails
<1>2. Leaves(m) \subseteq LeafPaths /\ unbuilt \in [Components -> SUBSET LeafPaths]
  BY Shape DEF IInv, TypeOK, Components
<1>3. TypeOK'
  <2>1. /\ unbuilt' \in [Components -> SUBSET LeafPaths]
        /\ \A c \in Components : unbuilt'[c] \subseteq Leaves(c)
    BY <1>1, <1>2 DEF IInv, TypeOK
  <2> QED
    BY <1>1, <2>1 DEF IInv, TypeOK
<1>4. Stacks' /\ OwnsItsOwn' /\ ServedIsOwned' /\ RetiredOwnsNothing' /\ NoOrphanCache'
  BY <1>1 DEF IInv, Stacks, OwnsItsOwn, ServedIsOwned, RetiredOwnsNothing, NoOrphanCache,
              Present, ResolvesIn
<1>5. BuiltIsOwned'
  <2> SUFFICES ASSUME NEW c \in building' \ retired', NEW l \in Leaves(c) \ unbuilt'[c]
               PROVE  c \in ToSet(owners'[l])
    BY DEF BuiltIsOwned
  <2>1. c # m
    BY <1>1, <1>2
  <2>2. c \in building \ retired /\ building \subseteq Components
    BY <1>1, <2>1 DEF IInv, TypeOK
  <2>3. unbuilt'[c] = unbuilt[c]
    BY <1>1, <1>2, <2>1, <2>2
  <2> QED
    BY <1>1, <2>2, <2>3 DEF IInv, BuiltIsOwned
<1> QED
  BY <1>3, <1>4, <1>5 DEF IInv

LEMMA BuildWrapperInv ==
    ASSUME IInv, NEW m \in Components, NEW k \in LeafPaths, BuildWrapper(m, k)
    PROVE  IInv'
<1>1. m \in Modules /\ LeafPaths \subseteq AllPaths /\ k \in AllPaths
  BY Shape DEF Components
<1>2. /\ Stacks' /\ retired' = retired
      /\ \A p \in AllPaths :
            /\ ToSet(owners[p]) \subseteq ToSet(owners'[p])
            /\ ToSet(owners'[p]) \subseteq ToSet(owners[p]) \cup {m}
            /\ p # k => owners'[p] = owners[p]
            /\ p = k /\ m \notin retired => m \in ToSet(owners'[p])
            /\ m \in retired => owners'[p] = owners[p]
  BY <1>1, RegisterEffect DEF IInv, BuildWrapper
<1>3. /\ k \in unbuilt[m] /\ unbuilt' = [unbuilt EXCEPT ![m] = unbuilt[m] \ {k}]
      /\ UNCHANGED <<serves, building, cached, endpoints>>
  BY DEF BuildWrapper
<1>4. unbuilt \in [Components -> SUBSET LeafPaths] /\ building \subseteq Components
  BY DEF IInv, TypeOK
<1>5. TypeOK'
  <2>1. /\ unbuilt' \in [Components -> SUBSET LeafPaths]
        /\ \A c \in Components : unbuilt'[c] \subseteq Leaves(c)
    BY <1>3, <1>4 DEF IInv, TypeOK
  <2> QED
    BY <1>2, <1>3, <2>1 DEF IInv, TypeOK, Stacks
<1>6. OwnsItsOwn'
  <2> SUFFICES ASSUME NEW l \in LeafPaths, NEW o \in ToSet(owners'[l])
               PROVE  l \in Leaves(o)
    BY DEF OwnsItsOwn
  <2>1. k \in Leaves(m)
    BY <1>3 DEF IInv, TypeOK
  <2> QED
    BY <1>1, <1>2, <2>1 DEF IInv, OwnsItsOwn
<1>7. ServedIsOwned'
  BY <1>1, <1>2, <1>3 DEF IInv, ServedIsOwned
<1>8. BuiltIsOwned'
  <2> SUFFICES ASSUME NEW c \in building' \ retired', NEW l \in Leaves(c) \ unbuilt'[c]
               PROVE  c \in ToSet(owners'[l])
    BY DEF BuiltIsOwned
  <2>1. l \in AllPaths /\ c \in building \ retired
    BY <1>1, <1>2, <1>3, <1>4, Shape DEF Components
  <2>2. CASE c = m /\ l = k
    BY <1>1, <1>2, <2>1, <2>2
  <2>3. CASE ~(c = m /\ l = k)
    <3>1. l \notin unbuilt[c]
      BY <1>3, <1>4, <2>1, <2>3
    <3> QED
      BY <1>2, <2>1, <3>1 DEF IInv, BuiltIsOwned
  <2> QED
    BY <2>2, <2>3
<1>9. RetiredOwnsNothing'
  BY <1>2 DEF IInv, RetiredOwnsNothing
<1>10. NoOrphanCache'
  BY <1>3 DEF IInv, NoOrphanCache, Present, ResolvesIn
<1> QED
  BY <1>2, <1>5, <1>6, <1>7, <1>8, <1>9, <1>10 DEF IInv

\* What Mount and MountThrows have in common.
LEMMA PlacedInv ==
    ASSUME IInv, NEW m \in Components, NEW mode, NEW ps,
           m \in building, unbuilt[m] = {},
           building' = building \ {m}, unbuilt' = unbuilt, cached' = cached \cup {m},
           serves' = Assigned(m, mode), Register(m, ps), endpoints' \subseteq Modules,
           ps \cap LeafPaths \subseteq Leaves(m)
    PROVE  IInv'
<1>1. m \in Modules /\ m # Nobody /\ LeafPaths \subseteq AllPaths
  BY Shape, ModulesAssumption DEF Components
<1>2. /\ Stacks' /\ retired' = retired
      /\ \A p \in AllPaths :
            /\ ToSet(owners[p]) \subseteq ToSet(owners'[p])
            /\ ToSet(owners'[p]) \subseteq ToSet(owners[p]) \cup {m}
            /\ p \notin ps => owners'[p] = owners[p]
            /\ m \in retired => owners'[p] = owners[p]
  BY <1>1, RegisterEffect DEF IInv
<1>3. /\ serves' \in [LeafPaths -> Modules \cup {Nobody}]
      /\ \A l \in LeafPaths :
            serves'[l] = serves[l] \/ serves'[l] = Nobody \/ (serves'[l] = m /\ l \in Leaves(m))
  BY <1>1, AssignedEffect DEF IInv
<1>4. TypeOK'
  BY <1>1, <1>2, <1>3 DEF IInv, TypeOK, Stacks, Components
<1>5. OwnsItsOwn'
  <2> SUFFICES ASSUME NEW l \in LeafPaths, NEW o \in ToSet(owners'[l])
               PROVE  l \in Leaves(o)
    BY DEF OwnsItsOwn
  <2> QED
    BY <1>1, <1>2 DEF IInv, OwnsItsOwn
<1>6. ServedIsOwned'
  <2> SUFFICES ASSUME NEW l \in LeafPaths, serves'[l] \notin {Nobody} \cup retired'
               PROVE  serves'[l] \in ToSet(owners'[l])
    BY DEF ServedIsOwned
  <2>1. CASE serves'[l] = serves[l]
    BY <1>1, <1>2, <2>1 DEF IInv, ServedIsOwned
  <2>2. CASE serves'[l] = m /\ l \in Leaves(m)
    BY <1>1, <1>2, <2>2 DEF IInv, BuiltIsOwned
  <2> QED
    BY <1>3, <2>1, <2>2
<1>7. BuiltIsOwned' /\ RetiredOwnsNothing'
  <2>1. ASSUME NEW c \in building' \ retired', NEW l \in Leaves(c) \ unbuilt'[c]
        PROVE  c \in ToSet(owners'[l])
    <3>1. l \in AllPaths
      BY <1>1, <2>1, Shape DEF IInv, TypeOK, Components
    <3> QED
      BY <1>2, <2>1, <3>1 DEF IInv, BuiltIsOwned
  <2>2. RetiredOwnsNothing'
    BY <1>2 DEF IInv, RetiredOwnsNothing
  <2> QED
    BY <2>1, <2>2 DEF BuiltIsOwned
<1>8. NoOrphanCache'
  <2> SUFFICES ASSUME NEW c \in cached' \ {Base}, Topmost(c)
               PROVE  ResolvesIn(serves', At[c])
    BY DEF NoOrphanCache, Present, ResolvesIn, Topmost
  <2>1. CASE c = m
    BY <2>1, AssignedResolves DEF IInv
  <2>2. CASE c # m
    <3>1. c \in Components /\ Present(At[c])
      BY <2>2 DEF IInv, TypeOK, NoOrphanCache, Components
    <3> QED
      BY <3>1, AssignedResolves DEF IInv
  <2> QED
    BY <2>1, <2>2
<1> QED
  BY <1>2, <1>4, <1>5, <1>6, <1>7, <1>8 DEF IInv

LEMMA MountInv ==
    ASSUME IInv, NEW m \in Components, NEW mode \in CollisionModes,
           Mount(m, mode) \/ MountThrows(m, mode)
    PROVE  IInv'
<1>1. m \in Modules /\ m # Base
  BY DEF Components
<1>2. /\ NewNamespaces(m) \cap LeafPaths = {}
      /\ Footprint(m) \cap LeafPaths \subseteq Leaves(m)
      /\ At[m] \notin LeafPaths
  BY <1>1, FootprintShape DEF NewNamespaces
<1>3. CASE Mount(m, mode)
  <2>1. (NewNamespaces(m) \cup Footprint(m)) \cap LeafPaths \subseteq Leaves(m)
    BY <1>2
  <2>2. endpoints' \subseteq Modules
    BY <1>1, <1>3 DEF Mount, IInv, TypeOK
  <2> QED
    BY <1>3, <2>1, <2>2, PlacedInv DEF Mount
<1>4. CASE MountThrows(m, mode)
  <2>1. (NewNamespaces(m) \cup {At[m]}) \cap LeafPaths \subseteq Leaves(m)
    BY <1>2
  <2>2. endpoints' \subseteq Modules
    BY <1>4 DEF MountThrows, IInv, TypeOK
  <2> QED
    BY <1>4, <2>1, <2>2, PlacedInv DEF MountThrows
<1> QED
  BY <1>3, <1>4

\* Cutting paths out of the tree only takes functions away.
LEMMA WithoutEffect ==
    ASSUME TypeOK, NEW cut
    PROVE  /\ Without(cut) \in [LeafPaths -> Modules \cup {Nobody}]
           /\ \A l \in LeafPaths :
                 Without(cut)[l] = IF \E p \in cut : IsPrefix(p, l) THEN Nobody ELSE serves[l]
BY DEF Without, TypeOK

\* The sweep leaves no entry whose endpoint does not resolve.
LEMMA SweptResolves ==
    ASSUME NEW caches, cached' = Swept(caches, serves')
    PROVE  cached' \subseteq caches /\ NoOrphanCache'
BY DEF Swept, NoOrphanCache, Present, ResolvesIn

LEMMA RemoveModuleInv ==
    ASSUME IInv, NEW m \in Modules, RemoveModule(m)
    PROVE  IInv'
<1>1. /\ Stacks' /\ retired' = retired \cup {m}
      /\ \A p \in AllPaths : ToSet(owners'[p]) = ToSet(owners[p]) \ {m}
  BY RetireEffect DEF IInv, RemoveModule
<1>2. /\ serves' \in [LeafPaths -> Modules \cup {Nobody}]
      /\ \A l \in LeafPaths : serves'[l] = serves[l] \/ serves'[l] = Nobody
  BY WithoutEffect DEF IInv, RemoveModule
<1>3. cached' \subseteq cached /\ NoOrphanCache'
  BY SweptResolves DEF RemoveModule
<1>4. building' = building /\ unbuilt' = unbuilt /\ endpoints' = endpoints \ {m}
  BY DEF RemoveModule
<1>5. LeafPaths \subseteq AllPaths
  BY Shape
<1>6. TypeOK'
  BY <1>1, <1>2, <1>3, <1>4 DEF IInv, TypeOK, Stacks
<1>7. OwnsItsOwn'
  <2> SUFFICES ASSUME NEW l \in LeafPaths, NEW o \in ToSet(owners'[l])
               PROVE  l \in Leaves(o)
    BY DEF OwnsItsOwn
  <2> QED
    BY <1>1, <1>5 DEF IInv, OwnsItsOwn
<1>8. ServedIsOwned'
  <2> SUFFICES ASSUME NEW l \in LeafPaths, serves'[l] \notin {Nobody} \cup retired'
               PROVE  serves'[l] \in ToSet(owners'[l])
    BY DEF ServedIsOwned
  <2> QED
    BY <1>1, <1>2, <1>5 DEF IInv, ServedIsOwned
<1>9. BuiltIsOwned'
  <2> SUFFICES ASSUME NEW c \in building \ retired', NEW l \in Leaves(c) \ unbuilt[c]
               PROVE  c \in ToSet(owners'[l])
    BY <1>4 DEF BuiltIsOwned
  <2>1. l \in AllPaths
    BY <1>5, Shape DEF IInv, TypeOK, Components
  <2> QED
    BY <1>1, <2>1 DEF IInv, BuiltIsOwned
<1>10. RetiredOwnsNothing'
  BY <1>1 DEF IInv, RetiredOwnsNothing
<1> QED
  BY <1>1, <1>3, <1>6, <1>7, <1>8, <1>9, <1>10 DEF IInv

LEMMA RemovePathInv ==
    ASSUME IInv, NEW p \in AllPaths, RemovePath(p)
    PROVE  IInv'
<1>1. /\ Stacks' /\ retired' = retired
      /\ \E m \in Modules \ building : ToSet(owners[p]) = {m}
      /\ \A q \in AllPaths : q # p => owners'[q] = owners[q]
      /\ ToSet(owners'[p]) \subseteq ToSet(owners[p])
  BY ReleaseEffect DEF IInv
<1>2. /\ serves' \in [LeafPaths -> Modules \cup {Nobody}]
      /\ \A l \in LeafPaths : serves'[l] = IF IsPrefix(p, l) THEN Nobody ELSE serves[l]
  BY WithoutEffect DEF IInv, RemovePath
<1>3. cached' \subseteq cached /\ NoOrphanCache'
  BY SweptResolves DEF RemovePath
<1>4. building' = building /\ unbuilt' = unbuilt /\ endpoints' = endpoints
  BY DEF RemovePath
<1>5. LeafPaths \subseteq AllPaths /\ IsPrefix(p, p)
  BY Shape, PrefixIsReflexive
<1>6. TypeOK'
  BY <1>1, <1>2, <1>3, <1>4 DEF IInv, TypeOK, Stacks
<1>7. OwnsItsOwn'
  <2> SUFFICES ASSUME NEW l \in LeafPaths, NEW o \in ToSet(owners'[l])
               PROVE  l \in Leaves(o)
    BY DEF OwnsItsOwn
  <2>1. o \in ToSet(owners[l])
    BY <1>1, <1>5
  <2> QED
    BY <2>1 DEF IInv, OwnsItsOwn
<1>8. ServedIsOwned'
  <2> SUFFICES ASSUME NEW l \in LeafPaths, serves'[l] \notin {Nobody} \cup retired'
               PROVE  serves'[l] \in ToSet(owners'[l])
    BY DEF ServedIsOwned
  <2>1. l # p /\ serves'[l] = serves[l]
    BY <1>2, <1>5
  <2> QED
    BY <1>1, <1>5, <2>1 DEF IInv, ServedIsOwned
<1>9. BuiltIsOwned'
  <2> SUFFICES ASSUME NEW c \in building \ retired, NEW l \in Leaves(c) \ unbuilt[c]
               PROVE  c \in ToSet(owners'[l])
    BY <1>1, <1>4 DEF BuiltIsOwned
  <2>1. l \in AllPaths /\ c \in ToSet(owners[l])
    BY <1>5, Shape DEF IInv, TypeOK, Components, BuiltIsOwned
  <2>2. l # p
    BY <1>1, <2>1
  <2> QED
    BY <1>1, <2>1, <2>2
<1>10. RetiredOwnsNothing'
  <2>1. \A q \in AllPaths : ToSet(owners'[q]) \subseteq ToSet(owners[q])
    BY <1>1
  <2> QED
    BY <1>1, <2>1 DEF IInv, RetiredOwnsNothing
<1> QED
  BY <1>1, <1>3, <1>6, <1>7, <1>8, <1>9, <1>10 DEF IInv

LEMMA NextInv == IInv /\ [Next]_vars => IInv'
<1> SUFFICES ASSUME IInv, [Next]_vars PROVE IInv'
  OBVIOUS
<1>1. ASSUME NEW m \in Components, Build(m) \/ BuildFails(m) PROVE IInv'
  BY <1>1, BuildInv
<1>2. ASSUME NEW m \in Components, NEW l \in LeafPaths, BuildWrapper(m, l) PROVE IInv'
  BY <1>2, BuildWrapperInv
<1>3. ASSUME NEW m \in Components, NEW mode \in CollisionModes,
             Mount(m, mode) \/ MountThrows(m, mode)
      PROVE  IInv'
  BY <1>3, MountInv
<1>4. ASSUME NEW m \in Modules, RemoveModule(m) PROVE IInv'
  BY <1>4, RemoveModuleInv
<1>5. ASSUME NEW p \in AllPaths, RemovePath(p) PROVE IInv'
  BY <1>5, RemovePathInv
<1>6. CASE UNCHANGED vars
  BY <1>6 DEF vars, IInv, TypeOK, Stacks, OwnsItsOwn, ServedIsOwned, BuiltIsOwned,
              RetiredOwnsNothing, NoOrphanCache, Present, ResolvesIn
<1> QED
  BY <1>1, <1>2, <1>3, <1>4, <1>5, <1>6 DEF Next

LEMMA SpecInv == Spec => []IInv
BY InitInv, NextInv, PTL DEF Spec

-----------------------------------------------------------------------------
(* The theorems.                                                           *)

\* Stacks hold moduleIDs only, whatever is registered and spliced out, and the
\* tree serves nothing but functions of components.
THEOREM TypeCorrect == Spec => []TypeOK
BY SpecInv, PTL DEF IInv

\* Whatever adds, rejected adds and removals interleave, a function in the
\* tree is served by an owner of its path, unless its component was removed.
THEOREM ServedAlwaysOwned == Spec => []ServedIsOwned
BY SpecInv, PTL DEF IInv

LEMMA WholeFromParts == IInv => OwnedAsAWhole
<1> SUFFICES ASSUME IInv, NEW m \in Modules
             PROVE  LET served == {l \in LeafPaths : serves[l] = m}
                    IN  served \subseteq Owned(m) \/ served \cap Owned(m) = {}
  BY DEF OwnedAsAWhole
<1>1. LeafPaths \subseteq AllPaths /\ m # Nobody
  BY Shape, ModulesAssumption
<1>2. CASE m \in retired
  BY <1>2 DEF IInv, RetiredOwnsNothing, Owned
<1>3. CASE m \notin retired
  BY <1>1, <1>3 DEF IInv, ServedIsOwned, Owned
<1> QED
  BY <1>2, <1>3

\* Wherever a removal comes between the wrappers of an add() and its mount, the
\* component owns all that it serves in the end, or nothing of it.
THEOREM NeverOwnedInPart == Spec => []OwnedAsAWhole
BY SpecInv, WholeFromParts, PTL

\* No removal leaves a cache entry of a component that went along with it.
THEOREM CachesNeverOrphaned == Spec => []NoOrphanCache
BY SpecInv, PTL DEF IInv

\* Nothing lies below a function, so nothing keeps an orphaned one.
LEMMA DoomedLeaf ==
    ASSUME NEW l \in LeafPaths, NEW m \in Modules, NEW stacks,
           l \in Owned(m), stacks[l] = <<>>
    PROVE  l \in PathsToDelete(m, stacks)
<1>1. \A q \in AllPaths : ~Below(q, l)
  BY ShapeAssumption
<1>2. Owned(m) \subseteq AllPaths
  BY DEF Owned
<1> QED
  BY <1>1, <1>2 DEF PathsToDelete, StillOwnedBelow

LEMMA StackIsEmpty ==
    ASSUME NEW s \in Seq(Modules)
    PROVE  s = <<>> <=> ToSet(s) = {}
<1>1. s # <<>> => s[1] \in ToSet(s)
  BY EmptySeq DEF ToSet
<1> QED
  BY <1>1 DEF ToSet

LEMMA StepRemovesAll ==
    ASSUME IInv, NEW m \in Modules \ retired, RemoveModule(m), NEW l \in LeafPaths
    PROVE  serves'[l] # m
<1> SUFFICES ASSUME serves'[l] = m
             PROVE  FALSE
  OBVIOUS
<1>1. LeafPaths \subseteq AllPaths /\ m # Nobody /\ l \in Seq(Names)
  BY Shape, ModulesAssumption
<1>2. /\ Stacks' /\ ToSet(owners'[l]) = ToSet(owners[l]) \ {m}
  BY <1>1, RetireEffect DEF IInv, RemoveModule
<1>3. /\ serves'[l] = IF \E p \in Cut(m, owners') : IsPrefix(p, l) THEN Nobody ELSE serves[l]
  BY WithoutEffect DEF IInv, RemoveModule
<1>4. serves[l] = m /\ \A p \in Cut(m, owners') : ~IsPrefix(p, l)
  BY <1>1, <1>3
<1>5. m \in ToSet(owners[l]) /\ l \in Owned(m)
  BY <1>1, <1>4 DEF IInv, ServedIsOwned, Owned
<1>6. owners'[l] # <<>>
  <2> SUFFICES ASSUME owners'[l] = <<>>
               PROVE  FALSE
    OBVIOUS
  <2>1. l \in PathsToDelete(m, owners')
    BY <1>5, DoomedLeaf
  <2>2. l \in Cut(m, owners')
    BY <2>1 DEF Cut
  <2> QED
    BY <1>1, <1>4, <2>2, PrefixIsReflexive
<1>7. owners'[l] \in Seq(Modules)
  BY <1>1, <1>2 DEF Stacks
<1> DEFINE o == CurrentOwner(owners', l)
<1>8. o \in ToSet(owners'[l])
  BY <1>6, <1>7, EmptySeq DEF CurrentOwner, Last, ToSet
<1> HIDE DEF o
<1>9. o \in Modules /\ l \in Leaves(o)
  <2>1. o \in Modules
    BY <1>7, <1>8 DEF ToSet
  <2>2. o \in ToSet(owners[l])
    BY <1>2, <1>8
  <2> QED
    BY <2>1, <2>2 DEF IInv, OwnsItsOwn
<1>10. l \in Footprint(o)
  BY <1>9, FootprintShape
<1>11. ~ResolvesIn(serves', l)
  BY <1>1, <1>5, <1>6, <1>10 DEF RemoveModule, NothingToPutBack, o
<1> QED
  BY <1>1, <1>11, PrefixIsReflexive DEF ResolvesIn

\* Only its own removal retires a component.
LEMMA RetiredBy ==
    ASSUME IInv, [Next]_vars, NEW m \in retired' \ retired
    PROVE  m \in Modules /\ RemoveModule(m)
<1>1. ASSUME NEW c \in Components, Build(c) \/ BuildFails(c) PROVE FALSE
  BY <1>1 DEF Build, BuildFails
<1>2. ASSUME NEW c \in Components, NEW l \in LeafPaths, BuildWrapper(c, l) PROVE FALSE
  BY <1>2, RegisterEffect DEF IInv, BuildWrapper, Components
<1>3. ASSUME NEW c \in Components, NEW mode \in CollisionModes,
             Mount(c, mode) \/ MountThrows(c, mode)
      PROVE  FALSE
  BY <1>3, RegisterEffect DEF IInv, Mount, MountThrows, Components
<1>4. ASSUME NEW c \in Modules, RemoveModule(c) PROVE c = m
  BY <1>4, RetireEffect DEF IInv, RemoveModule
<1>5. ASSUME NEW p \in AllPaths, RemovePath(p) PROVE FALSE
  BY <1>5, ReleaseEffect DEF IInv
<1>6. CASE UNCHANGED vars
  BY <1>6 DEF vars
<1> QED
  BY <1>1, <1>2, <1>3, <1>4, <1>5, <1>6 DEF Next

\* A removal by moduleID leaves no function of the component in the tree.
THEOREM RemovedAlwaysGone == Spec => RemovedIsGone
<1>1. ASSUME IInv, [Next]_vars, NEW m \in retired' \ retired, NEW l \in LeafPaths
      PROVE  serves'[l] # m
  <2>1. m \in Modules /\ RemoveModule(m)
    BY <1>1, RetiredBy
  <2> QED
    BY <1>1, <2>1, StepRemovesAll
<1>2. IInv /\ [Next]_vars =>
        [\A m \in retired' \ retired : \A l \in LeafPaths : serves'[l] # m]_vars
  BY <1>1
<1> QED
  BY <1>2, SpecInv, PTL DEF Spec, RemovedIsGone

\* The removal of a root mount spares every component that is still there.
LEMMA RootStepSpares ==
    ASSUME IInv, NEW m \in Modules \ retired, RemoveModule(m), IsRootMount(m)
    PROVE  Spares
<1> SUFFICES ASSUME NEW l \in LeafPaths, serves[l] \notin {Nobody} \cup retired'
             PROVE  serves'[l] = serves[l]
  BY DEF Spares
<1>1. LeafPaths \subseteq AllPaths /\ l \in Seq(Names) /\ l \in AllPaths
  BY Shape
<1>2. /\ Stacks' /\ retired' = retired \cup {m}
      /\ ToSet(owners'[l]) = ToSet(owners[l]) \ {m}
  BY <1>1, RetireEffect DEF IInv, RemoveModule
<1>3. owners'[l] # <<>>
  <2>1. serves[l] \in ToSet(owners'[l])
    BY <1>2 DEF IInv, ServedIsOwned
  <2> QED
    BY <1>1, <1>2, <2>1, StackIsEmpty DEF Stacks
<1> DEFINE doomed == PathsToDelete(m, owners')
           root == LongestCommonPrefix(doomed)
<1>4. ASSUME NEW p \in doomed PROVE ~IsPrefix(p, l)
  <2>1. owners'[p] = <<>> /\ ~StillOwnedBelow(owners', p, AllPaths)
    BY <1>4 DEF PathsToDelete
  <2> QED
    BY <1>1, <1>3, <2>1 DEF StillOwnedBelow, Below, IsStrictPrefix
<1>5. ASSUME doomed # {}, ~StillOwnedBelow(owners', root, AllPaths)
      PROVE  ~IsPrefix(root, l)
  <2>1. doomed \subseteq AllPaths /\ doomed \in SUBSET Seq(Names)
    BY Shape DEF PathsToDelete, Owned
  <2>2. PICK d \in doomed : IsPrefix(root, d)
    BY <1>5, <2>1, CommonPrefixLeads
  <2>3. root # l
    <3>1. d # l /\ ~Below(d, l)
      BY <1>3, <2>1, ShapeAssumption DEF PathsToDelete
    <3> QED
      BY <2>2, <3>1 DEF Below, IsStrictPrefix
  <2> QED
    BY <1>1, <1>3, <1>5, <2>3 DEF StillOwnedBelow, Below, IsStrictPrefix
<1>6. \A p \in Cut(m, owners') : ~IsPrefix(p, l)
  BY <1>4, <1>5 DEF Cut
<1>7. serves'[l] = IF \E p \in Cut(m, owners') : IsPrefix(p, l) THEN Nobody ELSE serves[l]
  BY WithoutEffect DEF IInv, RemoveModule
<1> QED
  BY <1>6, <1>7

\* The removal of the base module, or of what a rejected add() has left, spares
\* every component that was mounted beneath its containers.
THEOREM RootRemovalAlwaysSpares == Spec => RootRemovalSpares
<1>1. ASSUME IInv, [Next]_vars, NEW m \in retired' \ retired, IsRootMount(m)
      PROVE  Spares
  <2>1. m \in Modules /\ RemoveModule(m)
    BY <1>1, RetiredBy
  <2> QED
    BY <1>1, <2>1, RootStepSpares
<1>2. IInv /\ [Next]_vars =>
        [\A m \in retired' \ retired : IsRootMount(m) => Spares]_vars
  BY <1>1
<1> QED
  BY <1>2, SpecInv, PTL DEF Spec, RootRemovalSpares
=============================================================================
