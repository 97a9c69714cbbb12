----------------------------- MODULE MCModules -----------------------------
(* A call with two workers and one with a single one, in any failure mode. *)
(* They share a package, and two packages share a mount path.              *)
EXTENDS Modules

CONSTANTS k1, k2, k3, first, second

MCMountPath == [k \in Packages |-> IF k = k3 THEN "tools" ELSE "plugins"]
MCItems == [c \in Calls |-> IF c = first THEN <<k1, k3, k2>> ELSE <<k1>>]
MCConcurrency == [c \in Calls |-> IF c = first THEN 2 ELSE 1]
=============================================================================
