----------------------------- MODULE MCVersions -----------------------------
(* v1 added twice and v2, which is an explicit default, v1 once more as an *)
(* explicit default.  With billing, v1 of two logical paths.               *)
EXTENDS Versions

CONSTANTS auth, billing, a1, a2, b1, d1, v1, v2

MCTagOf == [m \in Modules |-> IF m = a2 THEN v2 ELSE v1]
MCPathOf == [m \in Modules |-> IF m = b1 THEN billing ELSE auth]
MCDefaults == {a2, d1} \cap Modules
MCRank == [t \in Tags |-> IF t = v1 THEN 1 ELSE 2]
=============================================================================
