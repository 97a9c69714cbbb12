-------------------------- MODULE OwnershipRegistry --------------------------
(***************************************************************************)
(* What the ownership registry of slothlet promises to the API manager,    *)
(* without the two indexes the code keeps: every API path has a history of *)
(* owners, oldest first, the last one is the current owner, and a module   *)
(* that was unregistered never appears in a history again until the        *)
(* registry is reset.                                                      *)
(***************************************************************************)
EXTENDS Sequences, SequencesExt

CONSTANTS Modules, Paths

VARIABLES
    owners,     \* owners[p]: the modules that own path p, oldest first
    retired     \* modules that were unregistered

avars == <<owners, retired>>

AInit ==
    /\ owners = [p \in Paths |-> <<>>]
    /\ retired = {}

\* m becomes an owner of every path of ps; an owner keeps its rank.
Claim(m, ps) ==
    /\ m \notin retired
    /\ owners' = [p \in Paths |->
                    IF p \in ps /\ m \notin ToSet(owners[p])
                    THEN Append(owners[p], m)
                    ELSE owners[p]]
    /\ UNCHANGED retired

\* m gives up one path.
Release(m, p) ==
    /\ m \in ToSet(owners[p])
    /\ owners' = [owners EXCEPT ![p] = RemoveFirst(@, m)]
    /\ UNCHANGED retired

\* m leaves every history, wherever it stands in it, and for good.
Retire(m) ==
    /\ \E p \in Paths : m \in ToSet(owners[p])
    /\ owners' = [p \in Paths |-> RemoveFirst(owners[p], m)]
    /\ retired' = retired \cup {m}

\* The histories are dropped and every module may come back.
Reset ==
    /\ owners' = [p \in Paths |-> <<>>]
    /\ retired' = {}

\* The histories are kept and every module may come back.
Pardon ==
    /\ retired' = {}
    /\ UNCHANGED owners

ANext ==
    \/ \E m \in Modules, ps \in SUBSET Paths : Claim(m, ps)
    \/ \E m \in Modules, p \in Paths : Release(m, p)
    \/ \E m \in Modules : Retire(m)
    \/ Reset
    \/ Pardon

ASpec == AInit /\ [][ANext]_avars
=============================================================================
