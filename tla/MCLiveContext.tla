--------------------------- MODULE MCLiveContext ---------------------------
(* Three functions of one file and one of another, each called once, a     *)
(* third file that nobody calls, and a run() around or between the calls.  *)
EXTENDS LiveContext

CONSTANTS a1, a2, a3, b1, c1, fa1, fa2, fa3, fb1, fc1

MCWrapperOf ==
    [c \in Calls |->
        CASE c = a1 -> fa1 [] c = a2 -> fa2 [] c = a3 -> fa3 [] c = b1 -> fb1 [] c = c1 -> fc1]
MCFileOf == [w \in Wrappers |-> CASE w = fb1 -> "b.mjs" [] w = fc1 -> "c.mjs" [] OTHER -> "a.mjs"]
=============================================================================
