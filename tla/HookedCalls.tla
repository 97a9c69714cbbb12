---------------------------- MODULE HookedCalls ----------------------------
(***************************************************************************)
(* Calls with hooks: applyTrap of                                          *)
(* src/src/lib/handlers/unified-wrapper.mjs over the HookManager, while    *)
(* the host changes the hooks and reloads.  A call keeps the manager it    *)
(* began with, and the manager is asked for hooks at every phase anew.     *)
(*                                                                         *)
(* A handler is what it makes of the call: goes on, answers in place of    *)
(* the function, or throws.  Handlers are synchronous, so all that a call  *)
(* does before its function returns is one step.  Functions throw objects. *)
(* The context manager wraps what a synchronous function throws; a         *)
(* rejection is passed on as it is.                                        *)
(***************************************************************************)
EXTENDS Hooks

CONSTANTS
    Calls,
    PathOf,         \* PathOf[c]: the path that it calls
    SuppressErrors  \* config.hook.suppressErrors

None == "none"
ASSUME CallsAssumption == None \notin Calls
ASSUME PathAssumption == PathOf \in [Calls -> Paths]

VARIABLES
    pc,
    gen,        \* the manager it uses
    hooked,     \* hasHooks
    log,        \* the kinds of hooks it has run, and "function"
    err,        \* the call whose error it failed with
    marked,     \* errors with ERROR_HOOK_PROCESSED, each named by a call
    wrapped     \* errors that wrap what a synchronous function threw

calls == <<pc, gen, hooked, log, err, marked, wrapped>>
allVars == <<vars, calls>>

Phases == {"before", "after", "always", "error", "function"}

CallsTypeOK ==
    /\ TypeOK
    /\ pc \in [Calls -> {"idle", "pending", "deferred", "returned", "failed"}]
    /\ gen \in [Calls -> 0..MaxReloads + 1]
    /\ hooked \in [Calls -> BOOLEAN]
    /\ log \in [Calls -> Seq(Phases)]
    /\ err \in [Calls -> Calls \cup {None}]
    /\ marked \subseteq Calls /\ wrapped \subseteq Calls

CallsInit ==
    /\ Init
    /\ pc = [c \in Calls |-> "idle"]
    /\ gen = [c \in Calls |-> 0]
    /\ hooked = [c \in Calls |-> FALSE]
    /\ log = [c \in Calls |-> <<>>]
    /\ err = [c \in Calls |-> None]
    /\ marked = {} /\ wrapped = {}

-----------------------------------------------------------------------------
Fires(c, type) == HooksFor(mgr[gen'[c]], type, PathOf[c]) # <<>>

Start(c, steps, state, e) ==
    /\ pc[c] = "idle"
    /\ gen' = [gen EXCEPT ![c] = Len(mgr)]
    /\ hooked' = [hooked EXCEPT ![c] = Current.enabled]
    /\ log' = [log EXCEPT ![c] = steps]
    /\ pc' = [pc EXCEPT ![c] = state]
    /\ err' = [err EXCEPT ![c] = e]
    /\ UNCHANGED <<registry, host>>

\* executeErrorHooks marks the error inside a wrapper, not the wrapper.
Report(e) ==
    /\ marked' = IF e \in wrapped THEN marked ELSE marked \cup {e}
    /\ UNCHANGED wrapped
Wrap(e) == wrapped' = wrapped \cup {e} /\ UNCHANGED marked
NoError == UNCHANGED <<marked, wrapped>>
Outcome == IF SuppressErrors THEN "returned" ELSE "failed"

\* The manager is off when the call begins: no hooks, whatever happens later.
StartPlain(c) ==
    /\ ~Current.enabled
    /\ \/ /\ \E state \in {"returned", "pending"} : Start(c, <<"function">>, state, None)
          /\ NoError
       \/ Start(c, <<"function">>, Outcome, c) /\ Wrap(c)

\* A before hook answers, or throws.
ShortCircuit(c) ==
    /\ Current.enabled
    /\ \/ Start(c, <<"before", "always">>, "returned", None) /\ NoError
       \/ Start(c, <<"before", "error", "always">>, Outcome, c) /\ Report(c)
    /\ Fires(c, "before")

\* A synchronous function.
StartSync(c) ==
    /\ Current.enabled
    /\ \/ /\ Start(c, <<"before", "function", "after", "always">>, "returned", None)
          /\ NoError
       \/ /\ Start(c, <<"before", "function", "error", "always">>, Outcome, c)
          /\ Wrap(c)
       \/ /\ Start(c, <<"before", "function", "after", "error", "always">>, Outcome, c)
          /\ Fires(c, "after")
          /\ Report(c)

StartAsync(c) ==
    /\ Current.enabled
    /\ Start(c, <<"before", "function">>, "pending", None)
    /\ NoError

\* The wrapper is lazy and its load is in flight: the promise that is handed
\* out does not count as one, so the finally runs the always hooks.
StartDeferred(c) ==
    /\ Current.enabled
    /\ Start(c, <<"before", "always">>, "deferred", None)
    /\ NoError

End(c, steps, state, e) ==
    /\ log' = [log EXCEPT ![c] = @ \o steps]
    /\ pc' = [pc EXCEPT ![c] = state]
    /\ err' = [err EXCEPT ![c] = e]
    /\ UNCHANGED <<registry, gen, hooked, host>>

\* The load is done: the function runs, and nothing else.
EndDeferred(c) ==
    /\ pc[c] = "deferred"
    /\ \/ End(c, <<"function">>, "returned", None) /\ NoError
       \/ End(c, <<"function">>, "failed", c) /\ (Wrap(c) \/ NoError)

Resolve(c) ==
    /\ pc[c] = "pending"
    /\ End(c, IF hooked[c] THEN <<"after", "always">> ELSE <<>>, "returned", None)
    /\ NoError

\* Wrong on purpose: the always hooks are left to the path that succeeds.
AfterFailsBare(c) ==
    /\ pc[c] = "pending" /\ hooked[c]
    /\ HooksFor(mgr[gen[c]], "after", PathOf[c]) # <<>>
    /\ End(c, <<"after", "error", "error">>, Outcome, c)
    /\ Report(c)

\* An after hook throws: executeAfterHooks has the error reported, and the
\* catch around it once more.
AfterFails(c) ==
    /\ pc[c] = "pending" /\ hooked[c]
    /\ HooksFor(mgr[gen[c]], "after", PathOf[c]) # <<>>
    /\ End(c, IF SuppressErrors THEN <<"after", "error", "always">>
              ELSE <<"after", "error", "error", "always">>, Outcome, c)
    /\ Report(c)

\* Wrong on purpose: an error is reported by every call it passes through.
RejectUnmarked(c) ==
    /\ pc[c] = "pending"
    /\ \E e \in {c} \cup {err[d] : d \in {x \in Calls : pc[x] = "failed"}} :
        /\ End(c, IF hooked[c] THEN <<"error", "always">> ELSE <<>>, Outcome, e)
        /\ NoError

\* The promise is rejected, with an error of its own or with the one of a
\* call that it had awaited.
Reject(c) ==
    /\ pc[c] = "pending"
    /\ \E e \in {c} \cup {err[d] : d \in {x \in Calls : pc[x] = "failed"}} :
        /\ End(c, IF ~hooked[c] THEN <<>>
                  ELSE IF e \in marked THEN <<"always">> ELSE <<"error", "always">>, Outcome, e)
        /\ IF hooked[c] THEN Report(e) ELSE NoError

CallNext ==
    \E c \in Calls :
        \/ StartPlain(c) \/ ShortCircuit(c) \/ StartSync(c) \/ StartAsync(c) \/ StartDeferred(c)
        \/ EndDeferred(c) \/ Resolve(c) \/ AfterFails(c) \/ Reject(c)

CallsNext == (Next /\ UNCHANGED calls) \/ CallNext

CallsSpec == CallsInit /\ [][CallsNext]_allVars

-----------------------------------------------------------------------------
(* Properties.                                                             *)

Done(c) == pc[c] \in {"returned", "failed"}
Deferred(c) == "always" \in ToSet(SubSeq(log[c], 1, 2)) /\ "function" \in ToSet(log[c])
Count(c, phase) == Cardinality({i \in DOMAIN log[c] : log[c][i] = phase})

\* A call that began with hooks runs the always hooks exactly once, as the last
\* phase of the call: whatever answers, throws, rejects, is switched off or
\* reloaded in between.  (A call that found its lazy wrapper loading runs them
\* before its function.  An always hook that throws has error hooks run on its
\* account afterwards: always hooks that throw are not in this model.)
AlwaysOnceAndLast ==
    \A c \in Calls :
        /\ hooked[c] /\ Done(c) /\ ~Deferred(c) => Count(c, "always") = 1 /\ Last(log[c]) = "always"
        /\ pc[c] = "pending" => Count(c, "always") = 0

\* An error that ends a call with hooks has gone through error hooks: the
\* error of a synchronous function through those of every call that it passes,
\* any other through those of one call only, though several fail with it
\* (ERROR_HOOK_PROCESSED, unwrapError).
FailureReported ==
    \A c \in Calls :
        hooked[c] /\ err[c] # None /\ ~Deferred(c) =>
            IF err[c] \in wrapped THEN Count(c, "error") = 1
            ELSE LET with == {d \in Calls : err[d] = err[c]}
                 IN  \E d \in with : \A x \in with : x = d <=> Count(x, "error") > 0

\* docs/HOOKS.md: error hooks always receive errors.
ErrorHooksReceiveErrors ==
    \A c \in Calls : hooked[c] /\ pc[c] = "failed" /\ ~Deferred(c) => Count(c, "error") > 0
=============================================================================
