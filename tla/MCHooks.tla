------------------------------ MODULE MCHooks ------------------------------
(* Before hooks of two patterns that overlap and of two priorities, and an *)
(* after hook of the last subset.                                          *)
EXTENDS Hooks

CONSTANTS here, there, wide, exact

Def(type, pattern, subset, priority) ==
    [type |-> type, pattern |-> pattern, subset |-> subset, priority |-> priority]

MCDefs == {Def("before", wide, "primary", 0), Def("before", exact, "primary", 1),
           Def("before", exact, "after", 0)}
MCCovers == [p \in Patterns |-> IF p = wide THEN {here, there} ELSE {here}]
=============================================================================
