--------------------------- MODULE MCHookedCalls ---------------------------
(* One before and one after hook, and two calls, which fail with the       *)
(* errors of each other.                                                   *)
EXTENDS HookedCalls

CONSTANTS here, all

Def(type) == [type |-> type, pattern |-> all, subset |-> "primary", priority |-> 0]

MCDefs == {Def("before"), Def("after")}
MCCovers == [p \in Patterns |-> {here}]
MCPathOf == [c \in Calls |-> here]
=============================================================================
