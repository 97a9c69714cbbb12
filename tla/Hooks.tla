------------------------------- MODULE Hooks -------------------------------
(***************************************************************************)
(* The HookManager of slothlet (src/src/lib/handlers/hook-manager.mjs) and *)
(* the full reload (src/src/slothlet.mjs), which builds a new manager and  *)
(* imports the hooks of the old one while the host goes on registering.    *)
(* Module HookedCalls adds the calls that run the hooks.                   *)
(*                                                                         *)
(* A hook is its id, its registration and whether it is switched on; what  *)
(* its handler does is in HookedCalls, its permissions in Permissions.     *)
(* Ids given by the host are model values, generated ones are numbers.     *)
(***************************************************************************)
EXTENDS Naturals, Sequences, SequencesExt, FiniteSets

CONSTANTS
    Defs,           \* hooks the host may register
    Patterns,
    Paths,
    Covers,         \* Covers[p]: the paths that pattern p matches
    Names,          \* ids the host may choose
    NoName,         \* it lets the manager generate one
    Every,          \* no type, or no pattern, in a filter
    MaxChanges,     \* bound: registrations, removals, switches by the host
    MaxReloads      \* bound: full reloads

Types == {"before", "after", "always", "error"}
Subsets == <<"before", "primary", "after">>
Priorities == <<1, 0>>  \* highest first

ASSUME DefsAssumption ==
    \A d \in Defs : /\ d.type \in Types /\ d.pattern \in Patterns
                    /\ d.subset \in ToSet(Subsets) /\ d.priority \in ToSet(Priorities)

ASSUME BoundsAssumption == MaxChanges \in Nat /\ MaxReloads \in Nat

VARIABLES
    mgr,        \* mgr[g]: the manager of the g-th load
    reload,     \* "none", "loading" (old manager in place), "loaded" (new one)
    saved       \* what the reload exported

\* What the host may expect, kept for the properties only.
VARIABLES
    expected,   \* the hooks it registered and did not remove
    clean,      \* nothing was registered or changed during a reload, none failed
    changes, reloads

registry == <<mgr, reload, saved>>
host == <<expected, clean, changes, reloads>>
vars == <<registry, host>>

Current == mgr[Len(mgr)]

-----------------------------------------------------------------------------
(* The two indexes of a manager: hooks by id, in the order of the Map, and *)
(* ids grouped by pattern, groups in the order in which they were made.    *)

\* The entries of s at these positions, in the order of s (SelectSeq, in a
\* form that can be reasoned about).
Nth(at, k) == CHOOSE i \in at : Cardinality({j \in at : j <= i}) = k
Kept(s, at) == [k \in 1..Cardinality(at) |-> s[Nth(at, k)]]

Slots == Types \X ToSet(Subsets)
Fresh == [enabled |-> TRUE, filter |-> {}, counter |-> 0, hooks |-> <<>>,
          groups |-> [s \in Slots |-> <<>>]]

Ids(hooks) == {hooks[i].id : i \in DOMAIN hooks}
Hook(m, id) == m.hooks[CHOOSE i \in DOMAIN m.hooks : m.hooks[i].id = id]
Slot(d) == <<d.type, d.subset>>

\* Wrong on purpose: the newest hook of a pattern first.
GroupedFirst(groups, p, id) ==
    IF \E i \in DOMAIN groups : groups[i].pattern = p
    THEN [i \in DOMAIN groups |->
            IF groups[i].pattern = p THEN [groups[i] EXCEPT !.ids = <<id>> \o @] ELSE groups[i]]
    ELSE Append(groups, [pattern |-> p, ids |-> <<id>>])

Grouped(groups, p, id) ==
    IF \E i \in DOMAIN groups : groups[i].pattern = p
    THEN [i \in DOMAIN groups |->
            IF groups[i].pattern = p THEN [groups[i] EXCEPT !.ids = Append(@, id)] ELSE groups[i]]
    ELSE Append(groups, [pattern |-> p, ids |-> <<id>>])

\* #removeHook: the group goes with its last hook.
Others(ids, id) == Kept(ids, {k \in DOMAIN ids : ids[k] # id})
Ungrouped(groups, id) ==
    LET rest == [i \in DOMAIN groups |-> [groups[i] EXCEPT !.ids = Others(@, id)]]
    IN  Kept(rest, {i \in DOMAIN rest : rest[i].ids # <<>>})

Without(hooks, ids) == Kept(hooks, {i \in DOMAIN hooks : hooks[i].id \notin ids})

Add(m, d, id) ==
    [m EXCEPT !.hooks = Append(@, [id |-> id, def |-> d, enabled |-> TRUE]),
              !.groups[Slot(d)] = Grouped(@, d.pattern, id)]

Drop(m, id) ==
    [m EXCEPT !.hooks = Without(@, {id}),
              !.groups[Slot(Hook(m, id).def)] = Ungrouped(@, id)]

\* What a filter by type and pattern selects: it walks the groups.
Fits(s, p, type, pattern) == type \in {s[1], Every} /\ pattern \in {p, Every}
Selected(m, type, pattern) ==
    {id \in Ids(m.hooks) :
        \E s \in Slots : \E i \in DOMAIN m.groups[s] :
            Fits(s, m.groups[s][i].pattern, type, pattern) /\ id \in ToSet(m.groups[s][i].ids)}

Unfit(s, groups, type, pattern) ==
    Kept(groups, {i \in DOMAIN groups : ~Fits(s, groups[i].pattern, type, pattern)})

\* Wrong on purpose: the Map keeps what left the groups.
DropGroups(m, type, pattern) ==
    [m EXCEPT !.groups = [s \in Slots |-> Unfit(s, m.groups[s], type, pattern)]]

\* remove(): whole groups.
DropAll(m, type, pattern) ==
    [m EXCEPT !.hooks = Without(@, Selected(m, type, pattern)),
              !.groups = [s \in Slots |-> Unfit(s, m.groups[s], type, pattern)]]

Switched(hooks, ids, on) ==
    [i \in DOMAIN hooks |->
        IF hooks[i].id \in ids THEN [hooks[i] EXCEPT !.enabled = on] ELSE hooks[i]]
Switch(m, ids, on) == [m EXCEPT !.hooks = Switched(@, ids, on)]

\* The manager is off, or filters by patterns none of which matches.
Quiet(m, path) == ~m.enabled \/ (m.filter # {} /\ \A p \in m.filter : path \notin Covers[p])

\* getHooksForPath(): the hooks that fire, in order.
OfGroup(m, g, path) ==
    Kept(g.ids, {i \in DOMAIN g.ids : Hook(m, g.ids[i]).enabled /\ path \in Covers[g.pattern]})
OfSlot(m, groups, path) == FlattenSeq([i \in DOMAIN groups |-> OfGroup(m, groups[i], path)])
Sorted(m, ids) ==
    FlattenSeq([k \in DOMAIN Priorities |->
        Kept(ids, {i \in DOMAIN ids : Hook(m, ids[i]).def.priority = Priorities[k]})])
HooksFor(m, type, path) ==
    IF Quiet(m, path) THEN <<>>
    ELSE FlattenSeq([k \in DOMAIN Subsets |->
            Sorted(m, OfSlot(m, m.groups[<<type, Subsets[k]>>], path))])

-----------------------------------------------------------------------------
HookIds == Names \cup Nat
IsHook(h) == h.id \in HookIds /\ h.def \in Defs /\ h.enabled \in BOOLEAN

IsManager(m) ==
    /\ m.enabled \in BOOLEAN /\ m.filter \subseteq Patterns /\ m.counter \in Nat
    /\ \A i \in DOMAIN m.hooks : IsHook(m.hooks[i])
    /\ DOMAIN m.groups = Slots

TypeOK ==
    /\ mgr # <<>> /\ \A g \in DOMAIN mgr : IsManager(mgr[g])
    /\ reload \in {"none", "loading", "loaded"}
    /\ \A i \in DOMAIN saved : IsHook(saved[i])
    /\ \A i \in DOMAIN expected : IsHook(expected[i])
    /\ clean \in BOOLEAN /\ changes \in 0..MaxChanges /\ reloads \in 0..MaxReloads

Init ==
    /\ mgr = <<Fresh>>
    /\ reload = "none" /\ saved = <<>>
    /\ expected = <<>> /\ clean = TRUE
    /\ changes = 0 /\ reloads = 0

-----------------------------------------------------------------------------
(* The host.                                                               *)

SetCurrent(m) == mgr' = [mgr EXCEPT ![Len(mgr)] = m]
HostChange ==
    /\ changes < MaxChanges /\ changes' = changes + 1
    /\ clean' = (clean /\ reload = "none")
    /\ UNCHANGED <<reload, saved, reloads>>

\* on().  The counter has moved even when the id turns out to be taken.
On(d, name) ==
    LET m == IF name = NoName THEN [Current EXCEPT !.counter = @ + 1] ELSE Current
        id == IF name = NoName THEN m.counter ELSE name
    IN  /\ \/ /\ id \in Ids(m.hooks)
              /\ SetCurrent(m)
              /\ UNCHANGED expected
           \/ /\ id \notin Ids(m.hooks)
              /\ SetCurrent(Add(m, d, id))
              /\ expected' = Append(expected, [id |-> id, def |-> d, enabled |-> TRUE])
        /\ HostChange

RemoveId(id) ==
    /\ id \in Ids(Current.hooks)
    /\ SetCurrent(Drop(Current, id))
    /\ expected' = Without(expected, {id})
    /\ HostChange

Meant(h, type, pattern) == type \in {h.def.type, Every} /\ pattern \in {h.def.pattern, Every}
Unmeant(hooks, type, pattern) ==
    Kept(hooks, {i \in DOMAIN hooks : ~Meant(hooks[i], type, pattern)})

RemoveAll(type, pattern) ==
    /\ SetCurrent(DropAll(Current, type, pattern))
    /\ expected' = Unmeant(expected, type, pattern)
    /\ HostChange

\* enable() and disable(); enabling anything turns the manager on, disabling
\* everything turns it off.
SwitchAll(type, pattern, on) ==
    /\ SetCurrent([Switch(Current, Selected(Current, type, pattern), on) EXCEPT
                    !.enabled = IF on THEN TRUE ELSE @ /\ <<type, pattern>> # <<Every, Every>>])
    /\ expected' = [i \in DOMAIN expected |->
                        IF Meant(expected[i], type, pattern)
                        THEN [expected[i] EXCEPT !.enabled = on] ELSE expected[i]]
    /\ HostChange

SwitchId(id, on) ==
    /\ id \in Ids(Current.hooks)
    /\ SetCurrent([Switch(Current, {id}, on) EXCEPT !.enabled = @ \/ on])
    /\ expected' = Switched(expected, {id}, on)
    /\ HostChange

\* enablePattern(), disablePattern() and resetPatternFilter().
Filter(ps) ==
    /\ SetCurrent([Current EXCEPT !.filter = ps])
    /\ UNCHANGED expected /\ HostChange

-----------------------------------------------------------------------------
(* The full reload.                                                        *)

\* exportHooks(), then load() suspends.
Export ==
    /\ reload = "none" /\ reloads < MaxReloads
    /\ reload' = "loading" /\ reloads' = reloads + 1
    /\ saved' = Current.hooks
    /\ UNCHANGED <<mgr, expected, clean, changes>>

\* load() puts a new manager in place.
NewManager ==
    /\ reload = "loading"
    /\ reload' = "loaded"
    /\ mgr' = Append(mgr, Fresh)
    /\ UNCHANGED <<saved, host>>

\* load() fails: nothing is imported.
LoadFails ==
    /\ reload \in {"loading", "loaded"}
    /\ reload' = "none" /\ clean' = FALSE
    /\ UNCHANGED <<mgr, saved, expected, changes, reloads>>

\* Wrong on purpose: what was switched off comes back on.
ImportedOn(m, hs) ==
    LET put[i \in 0..Len(hs)] ==
            IF i = 0 THEN m
            ELSE IF hs[i].id \in Ids(put[i - 1].hooks) THEN put[i - 1]
            ELSE Add(put[i - 1], hs[i].def, hs[i].id)
    IN  put[Len(hs)]

\* The manager after the import of hs; the first id that is taken throws.
Imported(m, hs) ==
    LET taken == {i \in DOMAIN hs : hs[i].id \in Ids(m.hooks)}
        n == IF taken = {} THEN Len(hs) ELSE (CHOOSE i \in taken : \A j \in taken : i <= j) - 1
        put[i \in 0..n] ==
            IF i = 0 THEN m
            ELSE LET h == hs[i] IN Switch(Add(put[i - 1], h.def, h.id), {h.id}, h.enabled)
    IN  put[n]

\* importHooks(): on() with the ids that the hooks had, then disable().
Import ==
    /\ reload = "loaded"
    /\ reload' = "none"
    /\ SetCurrent(Imported(Current, saved))
    /\ UNCHANGED <<saved, host>>

HostNext ==
    \/ \E d \in Defs, name \in Names \cup {NoName} : On(d, name)
    \/ \E i \in DOMAIN Current.hooks : RemoveId(Current.hooks[i].id)
    \/ \E t \in Types \cup {Every}, p \in Patterns \cup {Every} :
        RemoveAll(t, p) \/ \E on \in BOOLEAN : SwitchAll(t, p, on)
    \/ \E i \in DOMAIN Current.hooks, on \in BOOLEAN : SwitchId(Current.hooks[i].id, on)
    \/ \E p \in Patterns : Filter(Current.filter \cup {p}) \/ Filter(Current.filter \ {p})
    \/ Filter({})

ReloadNext == Export \/ NewManager \/ LoadFails \/ Import

Next == HostNext \/ ReloadNext

Spec == Init /\ [][Next]_vars

-----------------------------------------------------------------------------
(* Properties.                                                             *)

\* One hook comes before another.
Before(hooks, x, y) == \E k, l \in DOMAIN hooks : k < l /\ hooks[k].id = x /\ hooks[l].id = y

\* Both indexes of every manager hold the same hooks, each in the one group of
\* its type, subset and pattern, no group is empty, and a group has its hooks
\* in the order of the Map (on, remove, #removeHook, importHooks).
IndexesAgree ==
    \A g \in DOMAIN mgr :
        LET hooks == mgr[g].hooks
        IN  /\ \A i, j \in DOMAIN hooks : hooks[i].id = hooks[j].id => i = j
            /\ \A i \in DOMAIN hooks :
                \E k \in DOMAIN mgr[g].groups[Slot(hooks[i].def)] :
                    mgr[g].groups[Slot(hooks[i].def)][k].pattern = hooks[i].def.pattern
            /\ \A s \in Slots :
                LET groups == mgr[g].groups[s]
                    of(p) == {i \in DOMAIN hooks : Slot(hooks[i].def) = s /\ hooks[i].def.pattern = p}
                IN  /\ \A i, j \in DOMAIN groups : groups[i].pattern = groups[j].pattern => i = j
                    /\ \A i \in DOMAIN groups :
                        /\ groups[i].ids # <<>>
                        /\ ToSet(groups[i].ids) = {hooks[k].id : k \in of(groups[i].pattern)}
                        /\ \A a, b \in DOMAIN groups[i].ids :
                            a < b => Before(hooks, groups[i].ids[a], groups[i].ids[b])

\* A reload that nobody interferes with gives the host back every hook that it
\* registered and did not remove, switched on or off as it was, under the id it
\* knows, in the order of registration (exportHooks, importHooks).
ReloadKeepsHooks == clean /\ reload # "loaded" => Current.hooks = expected

\* For a call the hooks fire that the host registered for its path and has
\* not switched off: by subset, then by priority, and among equals of one
\* pattern in the order in which the host registered them, reloads or not.
Matching(type, path) ==
    {i \in DOMAIN expected : LET h == expected[i]
                             IN  h.enabled /\ h.def.type = type /\ path \in Covers[h.def.pattern]}
Rank(s, x) == CHOOSE k \in DOMAIN s : s[k] = x
Earlier(d, e) ==
    \/ Rank(Subsets, d.subset) < Rank(Subsets, e.subset)
    \/ d.subset = e.subset /\ Rank(Priorities, d.priority) < Rank(Priorities, e.priority)
FiringOrder ==
    clean /\ reload # "loaded" =>
        \A type \in Types, path \in Paths :
            LET ids == HooksFor(Current, type, path)
                def(i) == Hook(Current, ids[i]).def
            IN  /\ ~Quiet(Current, path) =>
                        ToSet(ids) = {expected[i].id : i \in Matching(type, path)}
                /\ \A i, j \in DOMAIN ids : i < j =>
                    /\ ~Earlier(def(j), def(i))
                    /\ ~Earlier(def(i), def(j)) /\ def(i).pattern = def(j).pattern =>
                            Before(expected, ids[i], ids[j])

\* What #generateId says of itself: the next id it makes is not in use.
GeneratedIdsFree == reload = "none" => Current.counter + 1 \notin Ids(Current.hooks)
=============================================================================
