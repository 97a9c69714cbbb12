---------------------------- MODULE LiveContext ----------------------------
(***************************************************************************)
(* The live context manager of slothlet                                    *)
(* (src/src/lib/handlers/context-live.mjs) with the scopes of              *)
(* slothlet.context.run() (src/src/lib/builders/api_builder.mjs): who does *)
(* enforcement take the running code for, when all that says so is one     *)
(* field per store and one field per process?                              *)
(*                                                                         *)
(* An activity is a call of a module function or the callback of a run().  *)
(* It starts on the JavaScript stack, may be parked at an await, comes     *)
(* back alone on the stack, and settles when the stack is empty.  What an  *)
(* activity waits for is left open: it may come back at any time.  A       *)
(* wrapper is a function of the API; several share the file of a module.   *)
(* One instance whose API is composed eagerly, so no waiting proxy defers  *)
(* a call.                                                                 *)
(***************************************************************************)
EXTENDS Naturals, Sequences, FiniteSets

CONSTANTS
    Calls, Scopes,  \* activities; a scope is also the child store of its run()
    Wrappers,
    WrapperOf,      \* WrapperOf[c]: the function that call c invokes
    FileOf,         \* FileOf[w]
    Base,           \* the store of the instance
    None,           \* no wrapper, no current store: the host
    Unresolved,     \* identity reported when the stack is ambiguous
    MaxDepth        \* bound: activities on the stack

Activities == Calls \cup Scopes
Stores == Scopes \cup {Base}
Callers == Wrappers \cup {None}

ASSUME WrapperAssumption ==
    /\ WrapperOf \in [Calls -> Wrappers]
    /\ DOMAIN FileOf = Wrappers
    /\ \A w \in Wrappers : FileOf[w] # None

ASSUME NamesAssumption ==
    /\ Calls \cap Scopes = {} /\ Base \notin Scopes /\ None \notin Stores
    /\ None \notin Wrappers /\ Unresolved \notin Callers

ASSUME DepthAssumption == MaxDepth \in Nat

VARIABLES
    current,    \* currentInstanceID
    store,      \* instances; a store that was deleted keeps its fields
    suspended,  \* __suspendedCalls of each store
    stack,      \* what is on the JavaScript stack, innermost last
    phase,
    saved,      \* what the restore() or the finally of an activity puts back
    owner       \* owner[s]: whose code the callback of scope s is

\* Kept for the properties only.
VARIABLES
    order,      \* while nested: the activities that have not settled, as they began
    nested      \* so far each one that settled was the last that had begun

vars == <<current, store, suspended, stack, phase, saved, owner, order, nested>>

Phases == {"idle", "running", "parked", "resumed", "done", "refused"}

-----------------------------------------------------------------------------
(* Identity.                                                               *)

Last(s) == s[Len(s)]

\* Whose code an activity runs.
Truth(a) == IF a \in Calls THEN WrapperOf[a] ELSE owner[a]
Executing == IF stack = <<>> THEN None ELSE Truth(Last(stack))

File(w) == IF w \in Wrappers THEN FileOf[w] ELSE None

\* The functions of the file of one frame that a candidate waits in.
Matched(w, cands) == {v \in cands : FileOf[v] = File(w)}
\* One of them, or the one the frame names; a frame may decide nothing.
Named(w, cands) ==
    LET ws == Matched(w, cands)
    IN  IF \E v \in ws : ws = {v} THEN ws ELSE ws \cap {w}

\* #resolveSuspendedFromStack: the innermost frame that decides.
Deciding(cands) == {i \in 1..Len(stack) : Named(Truth(stack[i]), cands) # {}}
Seen(cands) == \E i \in 1..Len(stack) : Matched(Truth(stack[i]), cands) # {}

FromStack(cands) ==
    LET i == CHOOSE i \in Deciding(cands) : \A j \in Deciding(cands) : j <= i
    IN  CHOOSE v \in Wrappers : v \in Named(Truth(stack[i]), cands)

Candidates(s) == {WrapperOf[c] : c \in suspended[s]}

\* Wrong on purpose: the field is trusted with two suspended calls.
IdentityOffByOne ==
    IF current = None \/ ~store[current].live THEN None
    ELSE IF Cardinality(suspended[current]) < 3 THEN store[current].cur
    ELSE IF Deciding(Candidates(current)) # {} THEN FromStack(Candidates(current))
    ELSE None

\* getCallerIdentity(): the field, unless two calls or more are suspended.
Identity ==
    LET field == store[current].cur
        cands == Candidates(current)
    IN  IF current = None \/ ~store[current].live THEN None
        ELSE IF Cardinality(suspended[current]) < 2 THEN field
        ELSE IF Deciding(cands) # {} THEN FromStack(cands)
        ELSE IF Seen(cands) THEN Unresolved
        ELSE IF field \in cands THEN None
        ELSE field

-----------------------------------------------------------------------------
TypeOK ==
    /\ current \in Stores \cup {None}
    /\ store \in [Stores -> [live : BOOLEAN, cur : Callers, caller : Callers]]
    /\ suspended \in [Stores -> SUBSET Calls]
    /\ stack \in Seq(Activities)
    /\ phase \in [Activities -> Phases]
    /\ saved \in [Activities ->
                    [store : Stores, inst : Stores \cup {None}, cur : Callers, caller : Callers]]
    /\ owner \in [Scopes -> Callers]
    /\ order \in Seq(Activities)
    /\ nested \in BOOLEAN

Init ==
    /\ current = Base
    /\ store = [s \in Stores |-> [live |-> s = Base, cur |-> None, caller |-> None]]
    /\ suspended = [s \in Stores |-> {}]
    /\ stack = <<>>
    /\ phase = [a \in Activities |-> "idle"]
    /\ saved = [a \in Activities |-> [store |-> Base, inst |-> None, cur |-> None, caller |-> None]]
    /\ owner = [s \in Scopes |-> None]
    /\ order = <<>>
    /\ nested = TRUE

Begin(a) ==
    /\ phase[a] = "idle" /\ Len(stack) < MaxDepth
    /\ stack' = Append(stack, a)
    /\ phase' = [phase EXCEPT ![a] = "running"]
    /\ order' = IF nested THEN Append(order, a) ELSE <<>>
    /\ UNCHANGED nested

\* The history of the one that ends: was it the last that had begun?
Ends(a) ==
    /\ nested' = (nested /\ order # <<>> /\ Last(order) = a)
    /\ order' = IF nested' THEN SubSeq(order, 1, Len(order) - 1) ELSE <<>>

\* A store of this instance is current, even one that is gone: use it.
Target == IF current = None THEN Base ELSE current

-----------------------------------------------------------------------------
(* runInContext().                                                         *)

\* Wrong on purpose: only currentInstanceID is put back.
RestoreInstance(c) == current' = saved[c].inst /\ store' = store

Restore(c) ==
    /\ current' = saved[c].inst
    /\ store' = [store EXCEPT ![saved[c].store].cur = saved[c].cur,
                              ![saved[c].store].caller = saved[c].caller]

\* Wrong on purpose: an identity that is there is kept.
EnterKeepsFirst(c) ==
    /\ store[Target].live
    /\ Begin(c)
    /\ saved' = [saved EXCEPT ![c] =
                    [store |-> Target, inst |-> current,
                     cur |-> store[Target].cur, caller |-> store[Target].caller]]
    /\ current' = Target
    /\ store' = [store EXCEPT ![Target].cur = IF @ = None THEN WrapperOf[c] ELSE @]
    /\ UNCHANGED <<suspended, owner>>

\* The host, or the innermost activity, calls a function of the API.
Enter(c) ==
    /\ store[Target].live
    /\ Begin(c)
    /\ saved' = [saved EXCEPT ![c] =
                    [store |-> Target, inst |-> current,
                     cur |-> store[Target].cur, caller |-> store[Target].caller]]
    /\ current' = Target
    /\ store' = [store EXCEPT ![Target].cur = WrapperOf[c],
                              ![Target].caller = store[Target].cur]
    /\ UNCHANGED <<suspended, owner>>

\* CONTEXT_NOT_FOUND.
Refuse(c) ==
    /\ ~store[Target].live
    /\ phase[c] = "idle" /\ Len(stack) < MaxDepth
    /\ phase' = [phase EXCEPT ![c] = "refused"]
    /\ UNCHANGED <<current, store, suspended, stack, saved, owner, order, nested>>

\* It returns a plain value, or throws, without having been parked.
Return(c) ==
    /\ stack # <<>> /\ Last(stack) = c /\ phase[c] = "running"
    /\ stack' = SubSeq(stack, 1, Len(stack) - 1)
    /\ phase' = [phase EXCEPT ![c] = "done"]
    /\ Restore(c)
    /\ Ends(c)
    /\ UNCHANGED <<suspended, saved, owner>>

\* It gets to an await, or to its end once it was parked: whoever called it
\* goes on.  The first time the promise that it returns makes it a suspended
\* call.
Park(c) ==
    /\ stack # <<>> /\ Last(stack) = c
    /\ stack' = SubSeq(stack, 1, Len(stack) - 1)
    /\ phase' = [phase EXCEPT ![c] = "parked"]
    /\ suspended' = [suspended EXCEPT ![saved[c].store] = @ \cup {c}]
    /\ UNCHANGED <<current, store, saved, owner, order, nested>>

\* settle(): its promise is fulfilled or rejected.
Settle(c) ==
    /\ stack = <<>> /\ phase[c] = "parked"
    /\ phase' = [phase EXCEPT ![c] = "done"]
    /\ suspended' = [suspended EXCEPT ![saved[c].store] = @ \ {c}]
    /\ Restore(c)
    /\ Ends(c)
    /\ UNCHANGED <<stack, saved, owner>>

-----------------------------------------------------------------------------
(* run() and scope().                                                      *)

\* The store the child is made from: one that is gone gives way to the base.
Parent == IF current # None /\ store[current].live THEN current ELSE Base

\* The executing activity is the one that began last.
Youngest ==
    IF order = <<>> THEN stack = <<>> ELSE stack # <<>> /\ Last(stack) = Last(order)

EnterScope(s) ==
    /\ store[Parent].live
    /\ phase[s] = "idle" /\ Len(stack) < MaxDepth
    /\ stack' = Append(stack, s)
    /\ phase' = [phase EXCEPT ![s] = "running"]
    /\ store' = [store EXCEPT ![s] = [store[Parent] EXCEPT !.live = TRUE]]
    /\ saved' = [saved EXCEPT ![s].inst = current]
    /\ current' = s
    /\ owner' = [owner EXCEPT ![s] = Executing]
    /\ nested' = (nested /\ Youngest)
    /\ order' = IF nested' THEN Append(order, s) ELSE <<>>
    /\ UNCHANGED suspended

\* The callback gets to an await or to its end.
ParkScope(s) ==
    /\ stack # <<>> /\ Last(stack) = s
    /\ stack' = SubSeq(stack, 1, Len(stack) - 1)
    /\ phase' = [phase EXCEPT ![s] = "parked"]
    /\ UNCHANGED <<current, store, suspended, saved, owner, order, nested>>

\* The finally: the promise of the callback has settled, or the callback threw
\* before it made one.
EndScope(s) ==
    /\ \/ stack = <<>> /\ phase[s] = "parked" /\ UNCHANGED stack
       \/ /\ stack # <<>> /\ Last(stack) = s /\ phase[s] = "running"
          /\ stack' = SubSeq(stack, 1, Len(stack) - 1)
    /\ phase' = [phase EXCEPT ![s] = "done"]
    /\ current' = saved[s].inst
    /\ store' = [store EXCEPT ![s].live = FALSE]
    /\ Ends(s)
    /\ UNCHANGED <<suspended, saved, owner>>

-----------------------------------------------------------------------------
\* A parked activity goes on.
Resume(a) ==
    /\ stack = <<>> /\ phase[a] = "parked"
    /\ stack' = <<a>>
    /\ phase' = [phase EXCEPT ![a] = "resumed"]
    /\ UNCHANGED <<current, store, suspended, saved, owner, order, nested>>

\* cleanup() of the instance.
Cleanup ==
    /\ stack = <<>> /\ store[Base].live
    /\ store' = [store EXCEPT ![Base].live = FALSE]
    /\ current' = IF current = Base THEN None ELSE current
    /\ UNCHANGED <<suspended, stack, phase, saved, owner, order, nested>>

Next ==
    \/ \E c \in Calls : Enter(c) \/ Refuse(c) \/ Return(c) \/ Park(c) \/ Settle(c)
    \/ \E s \in Scopes : EnterScope(s) \/ ParkScope(s) \/ EndScope(s)
    \/ \E a \in Activities : Resume(a)
    \/ Cleanup

Spec == Init /\ [][Next]_vars

-----------------------------------------------------------------------------
(* Properties.                                                             *)

Home(a) == IF a \in Calls THEN saved[a].store ELSE a

\* As long as activities settle in the reverse of the order in which they
\* began, the shared fields name the one that began last among those not
\* settled, parked or not, and the host when there is none: a call that
\* awaits what it calls always reads itself (runInContext, scope).
FieldsNameYoungest ==
    nested /\ store[Base].live =>
        IF order = <<>> THEN current = Base /\ store[Base].cur = None
        ELSE /\ current = Home(Last(order)) /\ store[current].live
             /\ store[current].cur = Truth(Last(order))

\* However calls overlap and in whatever order they settle, one that comes
\* back from an await while another of the store it reads is suspended is
\* taken for itself (getCallerIdentity, #resolveSuspendedFromStack).
ResumedIsItself ==
    current # None /\ stack # <<>> =>
        LET c == Last(stack)
        IN  store[current].live /\ c \in suspended[current]
            /\ ~(Cardinality(suspended[current]) < 2) => Identity = Executing

\* The one that began last reads itself, another function of its file, or that
\* it cannot be identified: never another module, and a module never the host.
\* It is so as long as none of its callers on the stack is of a file that a
\* suspended call of this store is of: the search goes on past the frame of the
\* one that executes (#resolveSuspendedFromStack).
YoungestIsNobodyElse ==
    nested /\ store[Base].live /\ stack # <<>> /\ Youngest
        /\ (\A i \in 1..Len(stack) - 1 : Matched(Truth(stack[i]), Candidates(current)) = {})
        => \/ Identity \in {Executing, Unresolved}
           \/ Identity \in Wrappers /\ File(Identity) = File(Executing)

\* What the comment of #suspendedFor says: while one call is suspended, the
\* field is that call's.
SoleSuspendedHasField ==
    \A s \in Stores : \A c \in suspended[s] :
        stack = <<>> /\ suspended[s] = {c} => store[s].cur = WrapperOf[c]
=============================================================================
