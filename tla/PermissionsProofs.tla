-------------------------- MODULE PermissionsProofs -------------------------
(***************************************************************************)
(* Proofs about the permission manager, for any rules, pairs, contexts and *)
(* any number of full reloads.                                             *)
(***************************************************************************)
EXTENDS Permissions, TLAPS

EntrySpecs == [rule : Rules, owner : Owners]

-----------------------------------------------------------------------------
(* Registration.                                                           *)

LEMMA OwnedType ==
    ASSUME NEW rs \in Seq(Rules), NEW o \in Owners
    PROVE  Owned(rs, o) \in Seq(EntrySpecs) /\ Len(Owned(rs, o)) = Len(rs)
<1>1. Len(rs) \in Nat /\ DOMAIN rs = 1 .. Len(rs) /\ \A i \in 1 .. Len(rs) : rs[i] \in Rules
  OBVIOUS
<1>2. \A i \in 1 .. Len(rs) : [rule |-> rs[i], owner |-> o] \in EntrySpecs
  BY <1>1 DEF EntrySpecs
<1> QED
  BY <1>1, <1>2 DEF Owned

\* What addRule() of a list of rules does to rules of which each id is used.
LEMMA RegisterEffect ==
    ASSUME TypeOK, NEW kept, NEW entries \in Seq(EntrySpecs),
           kept \in [DOMAIN kept -> Entries], DOMAIN kept \subseteq 1 .. nextId,
           Register(kept, entries)
    PROVE  /\ rules' \in [DOMAIN rules' -> Entries]
           /\ DOMAIN rules' = DOMAIN kept \cup (nextId + 1 .. nextId')
           /\ DOMAIN rules' \subseteq 1 .. nextId'
           /\ \A i \in DOMAIN kept : rules'[i] = kept[i]
           /\ nextId' \in Nat /\ nextId' >= nextId
           /\ clock' \in Nat
           /\ entries = <<>> => rules' = kept
<1>1. nextId \in Nat /\ clock \in Nat /\ Len(entries) \in Nat
  BY DEF TypeOK
<1>2. /\ DOMAIN rules' = DOMAIN kept \cup (nextId + 1 .. nextId')
      /\ nextId' = nextId + Len(entries) /\ clock' = clock + Len(entries)
  BY DEF Register
<1>3. \A i \in DOMAIN kept : rules'[i] = kept[i] /\ rules'[i] \in Entries
  BY <1>1 DEF Register
<1>4. ASSUME NEW i \in nextId + 1 .. nextId'
      PROVE  rules'[i] \in Entries
  <2>1. i - nextId \in 1 .. Len(entries) /\ i > nextId
    BY <1>1, <1>2
  <2>2. entries[i - nextId] \in EntrySpecs
    BY <2>1
  <2>3. rules'[i] = [rule |-> entries[i - nextId].rule,
                     owner |-> entries[i - nextId].owner,
                     at |-> clock + (i - nextId)]
    BY <1>2, <2>1 DEF Register
  <2> QED
    BY <1>1, <2>1, <2>2, <2>3 DEF EntrySpecs, Entries
<1>5. rules' = [i \in DOMAIN rules' |-> rules'[i]]
  BY DEF Register
<1>6. entries = <<>> => rules' = kept
  <2> SUFFICES ASSUME entries = <<>> PROVE rules' = kept
    OBVIOUS
  <2>1. Len(entries) = 0
    OBVIOUS
  <2>2. nextId' = nextId /\ nextId + 1 .. nextId' = {}
    BY <1>1, <1>2, <2>1
  <2>3. DOMAIN rules' = DOMAIN kept
    BY <1>2, <2>2
  <2> QED
    BY <1>3, <1>5, <2>3
<1> QED
  BY <1>1, <1>2, <1>3, <1>4, <1>5, <1>6

LEMMA EmptyType ==
    /\ Empty \in [DOMAIN Empty -> Entries] /\ Empty \in [DOMAIN Empty -> BOOLEAN]
    /\ DOMAIN Empty = {}
BY DEF Empty

\* The rules and the bookkeeping after a reload replaced the manager.
LEMMA NewManager ==
    ASSUME TypeOK, ReplacePermissionManager
    PROVE  /\ rules' \in [DOMAIN rules' -> Entries]
           /\ DOMAIN rules' = nextId + 1 .. nextId'
           /\ DOMAIN rules' \subseteq 1 .. nextId'
           /\ nextId' \in Nat /\ nextId' >= nextId /\ clock' \in Nat
<1>1. Owned(ConfigRules, NoModule) \in Seq(EntrySpecs) /\ Owned(BuiltinRules, Builtin) \in Seq(EntrySpecs)
  BY OwnedType, RulesAssumption DEF Owners
<1>2. Owned(ConfigRules, NoModule) \o Owned(BuiltinRules, Builtin) \in Seq(EntrySpecs)
  BY <1>1
<1> QED
  BY <1>2, RegisterEffect, EmptyType DEF ReplacePermissionManager

LEMMA OneRule ==
    ASSUME TypeOK, NEW r \in HostRules, Register(rules, Owned(<<r>>, NoModule))
    PROVE  /\ rules' \in [DOMAIN rules' -> Entries]
           /\ DOMAIN rules' = DOMAIN rules \cup {nextId + 1}
           /\ DOMAIN rules' \subseteq 1 .. nextId'
           /\ nextId' = nextId + 1 /\ nextId' \in Nat /\ clock' \in Nat
<1>1. r \in Rules /\ <<r>> \in Seq(Rules) /\ Len(<<r>>) = 1
  BY RulesAssumption
<1>2. Owned(<<r>>, NoModule) \in Seq(EntrySpecs) /\ Len(Owned(<<r>>, NoModule)) = 1
  BY <1>1, OwnedType DEF Owners
<1>3. nextId' = nextId + 1
  BY <1>2 DEF Register
<1>4. rules \in [DOMAIN rules -> Entries] /\ DOMAIN rules \subseteq 1 .. nextId /\ nextId \in Nat
  BY DEF TypeOK
<1>5. nextId + 1 .. nextId' = {nextId + 1}
  BY <1>3, <1>4
<1>6. /\ rules' \in [DOMAIN rules' -> Entries]
      /\ DOMAIN rules' = DOMAIN rules \cup (nextId + 1 .. nextId')
      /\ DOMAIN rules' \subseteq 1 .. nextId'
      /\ nextId' \in Nat /\ clock' \in Nat
  BY <1>2, <1>4, RegisterEffect
<1> QED
  BY <1>3, <1>5, <1>6

LEMMA ShorthandRules ==
    ASSUME TypeOK, NEW m \in Modules, Register(rules, Owned(Shorthand[m], m))
    PROVE  /\ rules' \in [DOMAIN rules' -> Entries]
           /\ DOMAIN rules' = DOMAIN rules \cup (nextId + 1 .. nextId')
           /\ DOMAIN rules' \subseteq 1 .. nextId'
           /\ nextId' \in Nat /\ nextId' >= nextId /\ clock' \in Nat
           /\ Shorthand[m] = <<>> => rules' = rules
<1>1. Shorthand[m] \in Seq(Rules)
  BY RulesAssumption
<1>2. Owned(Shorthand[m], m) \in Seq(EntrySpecs) /\ Len(Owned(Shorthand[m], m)) = Len(Shorthand[m])
  BY <1>1, OwnedType DEF Owners
<1>3. Shorthand[m] = <<>> => Owned(Shorthand[m], m) = <<>>
  BY <1>2
<1>4. rules \in [DOMAIN rules -> Entries] /\ DOMAIN rules \subseteq 1 .. nextId
  BY DEF TypeOK
<1> QED
  BY <1>2, <1>3, <1>4, RegisterEffect

LEMMA RemovalType ==
    ASSUME TypeOK, NEW id
    PROVE  /\ Without(rules, id) \in [DOMAIN rules \ {id} -> Entries]
           /\ DOMAIN Without(rules, id) = DOMAIN rules \ {id}
           /\ \A i \in DOMAIN rules \ {id} : Without(rules, id)[i] = rules[i]
           /\ id \notin DOMAIN rules => Without(rules, id) = rules
<1>1. rules \in [DOMAIN rules -> Entries]
  BY DEF TypeOK
<1> QED
  BY <1>1 DEF Without

\* The head and the tail of what is left to replay.
LEMMA TodoType ==
    ASSUME TypeOK, reload.todo # <<>>
    PROVE  /\ reload.todo \in Seq(Operations)
           /\ Head(reload.todo) = reload.todo[1] /\ Head(reload.todo) \in Operations
           /\ Tail(reload.todo) \in Seq(Operations)
           /\ Len(reload.todo) \in Nat \ {0}
           /\ DOMAIN reload.todo = 1 .. Len(reload.todo)
           /\ DOMAIN Tail(reload.todo) = 1 .. Len(reload.todo) - 1
           /\ \A k \in DOMAIN Tail(reload.todo) : Tail(reload.todo)[k] = reload.todo[k + 1]
<1>1. reload.todo \in Seq(Operations)
  BY DEF TypeOK
<1> HIDE DEF Operations
<1> QED
  BY <1>1

LEMMA OperationShape ==
    ASSUME NEW o \in Operations
    PROVE  /\ o.op \in {"addRule", "removeRule", "add"}
           /\ o.op = "addRule" => o.id \in Nat /\ o.rule \in HostRules
           /\ o.op = "removeRule" => o.id \in Nat
           /\ o.op = "add" => o.component \in Modules
BY DEF Operations

-----------------------------------------------------------------------------
(* Types.                                                                  *)

LEMMA InitType == Init => TypeOK
<1> SUFFICES ASSUME Init PROVE TypeOK
  OBVIOUS
<1> DEFINE n == Len(ConfigRules) + Len(BuiltinRules)
<1>1. n \in Nat /\ ConfigRules \o BuiltinRules \in Seq(Rules) /\ Len(ConfigRules \o BuiltinRules) = n
  BY RulesAssumption
<1>2. \A i \in 1 .. n : (ConfigRules \o BuiltinRules)[i] \in Rules
  BY <1>1
<1>3. rules = [i \in 1 .. n |-> [rule |-> (ConfigRules \o BuiltinRules)[i],
                               owner |-> IF i <= Len(ConfigRules) THEN NoModule ELSE Builtin,
                               at |-> i]]
  BY DEF Init
<1>4. nextId = n /\ clock = n
  BY DEF Init
<1> HIDE DEF n
<1>5. rules \in [DOMAIN rules -> Entries] /\ DOMAIN rules \subseteq 1 .. nextId
  BY <1>1, <1>2, <1>3, <1>4 DEF Entries, Owners
<1>6. history \in Seq(Operations)
  BY DEF Init
<1>7. reload \in [phase : Phases, todo : Seq(Operations), wasSealed : BOOLEAN, gap : BOOLEAN]
  BY DEF Init, Idle, Phases
<1> QED
  BY <1>1, <1>4, <1>5, <1>6, <1>7, PolicyAssumption, EmptyType DEF Init, TypeOK

LEMMA RecordType ==
    ASSUME TypeOK, NEW op \in Operations, Record(op)
    PROVE  history' \in Seq(Operations)
BY DEF TypeOK, Record

LEMMA HostType == TypeOK /\ Host => TypeOK'
<1> SUFFICES ASSUME TypeOK, Host PROVE TypeOK'
  OBVIOUS
<1> USE EmptyType
<1>1. ASSUME NEW r \in HostRules, AddRule(r) PROVE TypeOK'
  <2>1. Added(nextId + 1, r) \in Operations
    BY <1>1 DEF Added, Operations, TypeOK
  <2>2. history' \in Seq(Operations)
    BY <1>1, <2>1, RecordType DEF AddRule
  <2>3. registered' \subseteq [id : Nat, rule : HostRules]
    BY <1>1 DEF AddRule, TypeOK
  <2>4. clean' \in BOOLEAN
    BY <1>1 DEF AddRule, Mark, TypeOK
  <2>5. /\ rules' \in [DOMAIN rules' -> Entries] /\ DOMAIN rules' \subseteq 1 .. nextId'
        /\ nextId' \in Nat /\ clock' \in Nat
    BY <1>1, OneRule DEF AddRule
  <2> QED
    BY <1>1, <2>2, <2>3, <2>4, <2>5 DEF AddRule, TypeOK
<1>2. ASSUME NEW id \in DOMAIN rules, NEW caller, RemoveRule(id, caller) PROVE TypeOK'
  <2>1. id \in Nat /\ rules[id].rule \in Rules
    BY DEF TypeOK, Entries
  <2>2. Removed(id) \in Operations
    BY <2>1 DEF Removed, Operations
  <2>3. history' \in Seq(Operations)
    BY <1>2, <2>2, RecordType DEF RemoveRule
  <2>4. registered' \subseteq [id : Nat, rule : HostRules] /\ gone' \subseteq [id : Nat, rule : Rules]
    BY <1>2, <2>1 DEF RemoveRule, TypeOK
  <2>5. rules' \in [DOMAIN rules' -> Entries] /\ DOMAIN rules' \subseteq 1 .. nextId
    BY <1>2, RemovalType DEF RemoveRule, TypeOK
  <2>6. clean' \in BOOLEAN
    BY <1>2 DEF RemoveRule, Mark, TypeOK
  <2> QED
    BY <1>2, <2>3, <2>4, <2>5, <2>6 DEF RemoveRule, TypeOK
<1>3. ASSUME NEW m \in Modules, AddComponent(m) PROVE TypeOK'
  <2>1. history' \in Seq(Operations)
    <3>1. Mounted(m) \in Operations
      BY DEF Mounted, Operations
    <3> QED
      BY <1>3, <3>1, RecordType DEF AddComponent
  <2>2. clean' \in BOOLEAN
    BY <1>3 DEF AddComponent, Mark, TypeOK
  <2>3. /\ rules' \in [DOMAIN rules' -> Entries] /\ DOMAIN rules' \subseteq 1 .. nextId'
        /\ nextId' \in Nat /\ clock' \in Nat
    <3>1. CASE Register(rules, Owned(Shorthand[m], m))
      BY <3>1, ShorthandRules
    <3>2. CASE UNCHANGED <<rules, nextId, clock, cache>>
      BY <3>2 DEF TypeOK
    <3> QED
      BY <1>3, <3>1, <3>2 DEF AddComponent
  <2>4. cache' = cache \/ cache' = Empty
    BY <1>3 DEF AddComponent
  <2>5. cache' \in [DOMAIN cache' -> BOOLEAN] /\ DOMAIN cache' \subseteq Pairs
    BY <2>4 DEF TypeOK
  <2> QED
    BY <1>3, <2>1, <2>2, <2>3, <2>5 DEF AddComponent, expected, TypeOK
<1>4. ASSUME NEW value \in BOOLEAN, SetEnabled(value) PROVE TypeOK'
  BY <1>4 DEF SetEnabled, Mark, expected, TypeOK
<1>5. CASE Seal
  BY <1>5 DEF Seal, Mark, TypeOK
<1>6. ASSUME NEW p \in Pairs, NEW c \in Contexts, Ask(p, c) PROVE TypeOK'
  <2>1. Evaluate(p, c) \in BOOLEAN
    BY PolicyAssumption DEF Evaluate
  <2>2. cache' \in [DOMAIN cache' -> BOOLEAN] /\ DOMAIN cache' \subseteq Pairs
    <3> HIDE DEF Evaluate
    <3> QED
      BY <1>6, <2>1 DEF Ask, Put, TypeOK
  <2> QED
    BY <1>6, <2>2 DEF Ask, expected, TypeOK
<1> QED
  BY <1>1, <1>2, <1>3, <1>4, <1>5, <1>6 DEF Host

\* The rules recorded carry ids that the counter has given out.
Issued(ops) == \A k \in DOMAIN ops : ops[k].op = "addRule" => ops[k].id \in 1 .. nextId

LEMMA ReloadType == TypeOK /\ Issued(reload.todo) /\ Reload => TypeOK'
<1> SUFFICES ASSUME TypeOK, Issued(reload.todo), Reload PROVE TypeOK'
  OBVIOUS
<1> USE EmptyType
<1> DEFINE Typed(r) == r \in [phase : Phases, todo : Seq(Operations), wasSealed : BOOLEAN, gap : BOOLEAN]
<1>1. Typed(reload) /\ Typed(Idle)
  BY DEF TypeOK, Idle, Phases
<1>2. CASE ReloadStart
  <2>1. Typed(reload')
    BY <1>1, <1>2 DEF ReloadStart, TypeOK, Phases
  <2> QED
    BY <1>2, <2>1 DEF ReloadStart, policy, expected, TypeOK
<1>3. CASE ReloadLoad
  <2>1. Typed(reload')
    BY <1>1, <1>3 DEF ReloadLoad, TypeOK, Phases
  <2> QED
    BY <1>3, <2>1 DEF ReloadLoad, policy, expected, TypeOK
<1>4. CASE ReplaceApiManager
  <2>1. Typed(reload')
    BY <1>1, <1>4 DEF ReplaceApiManager, Phases
  <2> QED
    BY <1>4, <2>1 DEF ReplaceApiManager, policy, expected, TypeOK
<1>5. CASE ReplacePermissionManager
  <2>1. Typed(reload')
    BY <1>1, <1>5 DEF ReplacePermissionManager, Phases
  <2> QED
    BY <1>5, <2>1, NewManager, PolicyAssumption DEF ReplacePermissionManager, expected, TypeOK
<1>6. CASE BuildFails
  BY <1>1, <1>6 DEF BuildFails, policy, expected, TypeOK
<1>7. CASE BuildDone
  <2>1. Typed(reload')
    BY <1>1, <1>7 DEF BuildDone, Phases
  <2> QED
    BY <1>7, <2>1 DEF BuildDone, policy, expected, TypeOK
<1>8. ASSUME NEW gap \in BOOLEAN, Advance(gap), reload.todo # <<>> PROVE Typed(reload')
  BY <1>1, <1>8, TodoType DEF Advance
<1>9. CASE ReplayAdd
  <2> DEFINE m == Head(reload.todo).component
  <2>1. reload.todo # <<>> /\ m \in Modules
    BY <1>9, TodoType, OperationShape DEF ReplayAdd, Replaying
  <2>2. Typed(reload')
    BY <1>8, <1>9, <2>1 DEF ReplayAdd
  <2>3. /\ rules' \in [DOMAIN rules' -> Entries] /\ DOMAIN rules' \subseteq 1 .. nextId'
        /\ nextId' \in Nat /\ clock' \in Nat
    BY <1>9, <2>1, ShorthandRules DEF ReplayAdd
  <2>4. cache' = cache \/ cache' = Empty
    BY <1>9 DEF ReplayAdd
  <2>5. cache' \in [DOMAIN cache' -> BOOLEAN] /\ DOMAIN cache' \subseteq Pairs
    BY <2>4 DEF TypeOK
  <2> QED
    BY <1>9, <2>2, <2>3, <2>5 DEF ReplayAdd, expected, TypeOK
<1>10. CASE ReplayAddRule
  <2> DEFINE op == Head(reload.todo)
  <2>1. reload.todo # <<>> /\ op.rule \in Rules
    BY <1>10, TodoType, OperationShape, RulesAssumption DEF ReplayAddRule, Replaying
  <2>2. Typed(reload')
    BY <1>8, <1>10, <2>1 DEF ReplayAddRule
  <2>3. clock + 1 \in Nat /\ [rule |-> op.rule, owner |-> NoModule, at |-> clock + 1] \in Entries
    BY <2>1 DEF TypeOK, Entries, Owners
  <2>4. rules' \in [DOMAIN rules' -> Entries]
    BY <1>10, <2>3 DEF ReplayAddRule, Put, TypeOK
  <2>5. op.id \in 1 .. nextId
    BY <1>10, <2>1, TodoType DEF Issued, ReplayAddRule, Replaying
  <2>6. DOMAIN rules' \subseteq 1 .. nextId
    BY <1>10, <2>5 DEF ReplayAddRule, Put, TypeOK
  <2> QED
    BY <1>10, <2>2, <2>3, <2>4, <2>6 DEF ReplayAddRule, expected, TypeOK
<1>11. CASE ReplayRemoveRule
  <2>1. reload.todo # <<>>
    BY <1>11 DEF ReplayRemoveRule, Replaying
  <2>2. Typed(reload')
    BY <1>8, <1>11, <2>1 DEF ReplayRemoveRule
  <2>3. rules' \in [DOMAIN rules' -> Entries] /\ DOMAIN rules' \subseteq 1 .. nextId
    BY <1>11, RemovalType DEF ReplayRemoveRule, TypeOK
  <2>4. cache' = cache \/ cache' = Empty
    BY <1>11 DEF ReplayRemoveRule
  <2>5. cache' \in [DOMAIN cache' -> BOOLEAN] /\ DOMAIN cache' \subseteq Pairs
    BY <2>4 DEF TypeOK
  <2> QED
    BY <1>11, <2>2, <2>3, <2>5 DEF ReplayRemoveRule, expected, TypeOK
<1>12. CASE ReplayRefused
  BY <1>1, <1>12 DEF ReplayRefused, policy, expected, TypeOK
<1>13. CASE ReloadEnd
  BY <1>1, <1>13 DEF ReloadEnd, expected, TypeOK
<1> QED
  BY <1>2, <1>3, <1>4, <1>5, <1>6, <1>7, <1>9, <1>10, <1>11, <1>12, <1>13 DEF Reload

-----------------------------------------------------------------------------
(* The ids of recorded rules.                                              *)

\* No rule is recorded twice.
Distinct(ops) ==
    \A j, k \in DOMAIN ops :
        ops[j].op = "addRule" /\ ops[k].op = "addRule" /\ ops[j].id = ops[k].id => j = k

IdsInv ==
    /\ Issued(history) /\ Distinct(history)
    /\ Issued(reload.todo) /\ Distinct(reload.todo)
    /\ PendingIdsFree

LEMMA AppendOp ==
    ASSUME TypeOK, NEW op, Record(op)
    PROVE  /\ DOMAIN history' = 1 .. Len(history) + 1 /\ DOMAIN history = 1 .. Len(history)
           /\ Len(history) \in Nat
           /\ \A k \in 1 .. Len(history) : history'[k] = history[k]
           /\ history'[Len(history) + 1] = op
BY DEF TypeOK, Record

LEMMA InitIds == Init => IdsInv
BY DEF Init, Idle, IdsInv, Issued, Distinct, PendingIdsFree

LEMMA HostIds == TypeOK /\ IdsInv /\ Host => IdsInv'
<1> SUFFICES ASSUME TypeOK, IdsInv, Host PROVE IdsInv'
  OBVIOUS
<1> USE DEF IdsInv
<1> DEFINE Grown == /\ nextId \in Nat /\ nextId' \in Nat /\ nextId' >= nextId
                    /\ DOMAIN rules' \subseteq DOMAIN rules \cup (nextId + 1 .. nextId')
                    /\ reload' = reload
<1>1. ASSUME Grown PROVE Issued(reload.todo)' /\ Distinct(reload.todo)' /\ PendingIdsFree'
  BY <1>1 DEF Issued, Distinct, PendingIdsFree
<1>2. ASSUME Grown, NEW op, Record(op), op.op # "addRule"
      PROVE  Issued(history)' /\ Distinct(history)'
  BY <1>2, AppendOp DEF Issued, Distinct
<1>3. ASSUME Grown, history' = history PROVE Issued(history)' /\ Distinct(history)'
  BY <1>3 DEF Issued, Distinct
<1>4. ASSUME NEW r \in HostRules, AddRule(r) PROVE IdsInv'
  <2>1. Grown /\ nextId' = nextId + 1
    BY <1>4, OneRule DEF AddRule, TypeOK
  <2>2. Record(Added(nextId + 1, r))
    BY <1>4 DEF AddRule
  <2>3. Issued(history)'
    BY <2>1, <2>2, AppendOp DEF Issued, Added
  <2>4. Distinct(history)'
    BY <2>1, <2>2, AppendOp DEF Issued, Distinct, Added
  <2> QED
    BY <1>1, <2>1, <2>3, <2>4
<1>5. ASSUME NEW id \in DOMAIN rules, NEW caller, RemoveRule(id, caller) PROVE IdsInv'
  <2>1. rules' = Without(rules, id) /\ nextId' = nextId /\ reload' = reload /\ nextId \in Nat
    BY <1>5 DEF RemoveRule, TypeOK
  <2>2. DOMAIN Without(rules, id) = DOMAIN rules \ {id}
    BY RemovalType
  <2>3. DOMAIN rules' \subseteq DOMAIN rules
    BY <2>1, <2>2
  <2>4. Grown
    BY <2>1, <2>3
  <2>5. Record(Removed(id)) /\ Removed(id).op # "addRule"
    BY <1>5 DEF RemoveRule, Removed
  <2> QED
    BY <1>1, <1>2, <2>4, <2>5
<1>6. ASSUME NEW m \in Modules, AddComponent(m) PROVE IdsInv'
  <2>1. Record(Mounted(m)) /\ Mounted(m).op # "addRule" /\ reload' = reload /\ nextId \in Nat
    BY <1>6 DEF AddComponent, Mounted, TypeOK
  <2>2. CASE Register(rules, Owned(Shorthand[m], m))
    <3>1. Grown
      BY <2>1, <2>2, ShorthandRules
    <3> QED
      BY <1>1, <1>2, <2>1, <3>1
  <2>3. CASE UNCHANGED <<rules, nextId, clock, cache>>
    <3>1. Grown
      BY <2>1, <2>3
    <3> QED
      BY <1>1, <1>2, <2>1, <3>1
  <2> QED
    BY <1>6, <2>2, <2>3 DEF AddComponent
<1>7. CASE UNCHANGED <<rules, nextId, history, reload>>
  <2>1. Grown
    BY <1>7 DEF TypeOK
  <2> QED
    BY <1>1, <1>3, <1>7, <2>1
<1>8. ASSUME NEW value \in BOOLEAN, SetEnabled(value) PROVE IdsInv'
  BY <1>7, <1>8 DEF SetEnabled
<1>9. CASE Seal
  BY <1>7, <1>9 DEF Seal
<1>10. ASSUME NEW p \in Pairs, NEW c \in Contexts, Ask(p, c) PROVE IdsInv'
  BY <1>7, <1>10 DEF Ask
<1> QED
  BY <1>4, <1>5, <1>6, <1>8, <1>9, <1>10 DEF Host

LEMMA ReloadIds == TypeOK /\ IdsInv /\ Reload => IdsInv'
<1> SUFFICES ASSUME TypeOK, IdsInv, Reload PROVE IdsInv'
  OBVIOUS
<1> USE DEF IdsInv
<1>0. nextId \in Nat
  BY DEF TypeOK
<1>1. ASSUME history' = history, nextId' \in Nat, nextId' >= nextId
      PROVE  Issued(history)' /\ Distinct(history)'
  BY <1>0, <1>1 DEF Issued, Distinct
<1>2. ASSUME reload' = Idle PROVE Issued(reload.todo)' /\ Distinct(reload.todo)' /\ PendingIdsFree'
  BY <1>2 DEF Idle, Issued, Distinct, PendingIdsFree
<1>3. ASSUME reload'.todo = reload.todo, UNCHANGED <<nextId, rules>>,
             reload.phase = "building" \/ reload'.phase \notin {"building", "replaying"}
      PROVE  Issued(reload.todo)' /\ Distinct(reload.todo)' /\ PendingIdsFree'
  BY <1>3 DEF Issued, Distinct, PendingIdsFree
<1>4. ASSUME reload.todo # <<>>, reload'.todo = Tail(reload.todo), reload.phase = "replaying",
             nextId' \in Nat, nextId' >= nextId,
             \A id \in DOMAIN rules' :
                \/ id \in DOMAIN rules \cup (nextId + 1 .. nextId')
                \/ Head(reload.todo).op = "addRule" /\ id = Head(reload.todo).id
      PROVE  Issued(reload.todo)' /\ Distinct(reload.todo)' /\ PendingIdsFree'
  <2> DEFINE n == Len(reload.todo)
  <2>1. /\ n \in Nat \ {0} /\ DOMAIN reload.todo = 1 .. n
        /\ DOMAIN reload'.todo = 1 .. n - 1
        /\ \A k \in 1 .. n - 1 : reload'.todo[k] = reload.todo[k + 1]
        /\ Head(reload.todo) = reload.todo[1]
    BY <1>4, TodoType
  <2> HIDE DEF n
  <2>2. \A k \in 1 .. n - 1 : k + 1 \in 1 .. n /\ k + 1 # 1
    BY <2>1
  <2>3. Issued(reload.todo)'
    BY <1>0, <1>4, <2>1, <2>2 DEF Issued
  <2>4. Distinct(reload.todo)'
    <3> SUFFICES ASSUME NEW j \in 1 .. n - 1, NEW k \in 1 .. n - 1,
                        reload'.todo[j].op = "addRule", reload'.todo[k].op = "addRule",
                        reload'.todo[j].id = reload'.todo[k].id
                 PROVE  j = k
      BY <2>1 DEF Distinct
    <3>1. /\ j + 1 \in DOMAIN reload.todo /\ k + 1 \in DOMAIN reload.todo
          /\ reload'.todo[j] = reload.todo[j + 1] /\ reload'.todo[k] = reload.todo[k + 1]
      BY <2>1, <2>2
    <3>2. j + 1 = k + 1
      BY <3>1 DEF Distinct
    <3> QED
      BY <2>1, <3>2
  <2>5. \A k \in 1 .. n - 1 : reload'.todo[k].op = "addRule" =>
           /\ reload'.todo[k].id \notin DOMAIN rules
           /\ reload'.todo[k].id \in 1 .. nextId
           /\ Head(reload.todo).op = "addRule" => reload'.todo[k].id # Head(reload.todo).id
    BY <1>4, <2>1, <2>2 DEF Issued, Distinct, PendingIdsFree
  <2>6. PendingIdsFree'
    <3> SUFFICES ASSUME NEW k \in 1 .. n - 1, reload'.todo[k].op = "addRule",
                        reload'.todo[k].id \in DOMAIN rules'
                 PROVE  FALSE
      BY <2>1 DEF PendingIdsFree
    <3> DEFINE id == reload'.todo[k].id
    <3>1. /\ id \notin DOMAIN rules /\ id \in 1 .. nextId
          /\ Head(reload.todo).op = "addRule" => id # Head(reload.todo).id
      BY <2>5
    <3>2. id \notin nextId + 1 .. nextId'
      BY <1>0, <3>1
    <3> QED
      BY <1>4, <3>1, <3>2
  <2> QED
    BY <2>3, <2>4, <2>6
<1>5. CASE ReloadStart
  <2>1. reload'.todo = history /\ reload'.phase = "clearing" /\ history' = history /\ nextId' = nextId
    BY <1>5 DEF ReloadStart, Idle, policy
  <2> QED
    BY <1>0, <1>1, <2>1 DEF Issued, Distinct, PendingIdsFree
<1>6. CASE ReloadLoad
  <2>1. reload'.todo = reload.todo /\ reload'.phase = "loading"
    BY <1>6 DEF ReloadLoad, TypeOK
  <2> QED
    BY <1>0, <1>1, <1>3, <1>6, <2>1 DEF ReloadLoad, policy
<1>7. CASE ReplaceApiManager
  <2>1. reload'.todo = reload.todo /\ reload'.phase = "replacing" /\ history' = <<>>
    BY <1>7 DEF ReplaceApiManager, TypeOK
  <2>2. Issued(history)' /\ Distinct(history)'
    BY <2>1 DEF Issued, Distinct
  <2> QED
    BY <1>3, <1>7, <2>1, <2>2 DEF ReplaceApiManager, policy
<1>8. CASE ReplacePermissionManager
  <2>1. reload'.todo = reload.todo /\ history' = history
    BY <1>8 DEF ReplacePermissionManager, TypeOK
  <2>2. DOMAIN rules' = nextId + 1 .. nextId' /\ nextId' \in Nat /\ nextId' >= nextId
    BY <1>8, NewManager
  <2> QED
    BY <1>0, <1>1, <2>1, <2>2 DEF Issued, Distinct, PendingIdsFree
<1>9. CASE BuildFails
  BY <1>0, <1>1, <1>2, <1>9 DEF BuildFails, policy
<1>10. CASE BuildDone
  <2>1. reload'.todo = reload.todo /\ reload'.phase = "replaying" /\ reload.phase = "building"
    BY <1>10 DEF BuildDone, TypeOK
  <2> QED
    BY <1>0, <1>1, <1>3, <1>10, <2>1 DEF BuildDone, policy
<1>11. ASSUME NEW gap, Advance(gap) PROVE reload'.todo = Tail(reload.todo)
  BY <1>11 DEF Advance, TypeOK
<1>12. CASE ReplayAdd
  <2> DEFINE m == Head(reload.todo).component
  <2>1. reload.todo # <<>> /\ reload.phase = "replaying" /\ m \in Modules
    BY <1>12, TodoType, OperationShape DEF ReplayAdd, Replaying
  <2>2. DOMAIN rules' = DOMAIN rules \cup (nextId + 1 .. nextId') /\ nextId' \in Nat /\ nextId' >= nextId
    BY <1>12, <2>1, ShorthandRules DEF ReplayAdd
  <2> QED
    BY <1>1, <1>4, <1>11, <1>12, <2>1, <2>2 DEF ReplayAdd
<1>13. CASE ReplayAddRule
  <2>1. DOMAIN rules' = DOMAIN rules \cup {Head(reload.todo).id}
    BY <1>13 DEF ReplayAddRule, Put
  <2>2. /\ reload.todo # <<>> /\ reload.phase = "replaying" /\ Head(reload.todo).op = "addRule"
        /\ nextId' = nextId /\ history' = history
    BY <1>13 DEF ReplayAddRule, Replaying
  <2>3. reload'.todo = Tail(reload.todo)
    BY <1>11, <1>13 DEF ReplayAddRule
  <2> QED
    BY <1>0, <1>1, <1>4, <2>1, <2>2, <2>3
<1>14. CASE ReplayRemoveRule
  <2>1. DOMAIN rules' \subseteq DOMAIN rules
    BY <1>14, RemovalType DEF ReplayRemoveRule
  <2>2. /\ reload.todo # <<>> /\ reload.phase = "replaying"
        /\ nextId' = nextId /\ history' = history
    BY <1>14 DEF ReplayRemoveRule, Replaying
  <2>3. reload'.todo = Tail(reload.todo)
    BY <1>11, <1>14 DEF ReplayRemoveRule
  <2> QED
    BY <1>0, <1>1, <1>4, <2>1, <2>2, <2>3
<1>15. CASE ReplayRefused
  BY <1>0, <1>1, <1>2, <1>15 DEF ReplayRefused, policy
<1>16. CASE ReloadEnd
  BY <1>0, <1>1, <1>2, <1>16 DEF ReloadEnd
<1> QED
  BY <1>5, <1>6, <1>7, <1>8, <1>9, <1>10, <1>12, <1>13, <1>14, <1>15, <1>16 DEF Reload

-----------------------------------------------------------------------------
(* The cache of decisions.                                                 *)

\* What is remembered of a pair is what the rules say of it in any context.
CacheInv ==
    \A p \in DOMAIN cache : ~HasConditional(p) /\ \A c \in Contexts : cache[p] = Evaluate(p, c)

LEMMA CacheAnswers == CacheInv => AnswersCurrent
<1> SUFFICES ASSUME CacheInv, NEW p \in Pairs, NEW c \in Contexts
             PROVE  /\ ResolveAccess(p, c, TRUE) = ResolveAccess(p, c, FALSE)
                    /\ \A t \in HookTypes : ResolveHookAccess(p, t, c, TRUE) = ResolveHookAccess(p, t, c, FALSE)
  BY DEF AnswersCurrent
<1>1. ResolveAccess(p, c, TRUE) = ResolveAccess(p, c, FALSE)
  BY DEF CacheInv, ResolveAccess
<1> QED
  BY <1>1 DEF ResolveHookAccess

LEMMA EmptyCache == cache' = Empty => CacheInv'
BY EmptyType DEF CacheInv

LEMMA SameCache == UNCHANGED <<rules, cache>> => CacheInv' = CacheInv
BY DEF CacheInv, HasConditional, Evaluate, CallMatches, Conditioned, Winner

\* Without a condition among the rules that match, no context matters.
LEMMA SameInAnyContext ==
    ASSUME NEW p, NEW c, NEW d, ~HasConditional(p)
    PROVE  Evaluate(p, c) = Evaluate(p, d)
<1>1. Conditioned(CallMatches(p), c) = Conditioned(CallMatches(p), d)
  BY DEF HasConditional, Conditioned, Holds
<1> QED
  BY <1>1 DEF Evaluate

LEMMA InitCache == Init => CacheInv
BY EmptyType DEF Init, CacheInv

LEMMA NextCache == TypeOK /\ CacheInv /\ Next => CacheInv'
<1> SUFFICES ASSUME TypeOK, CacheInv, Next PROVE CacheInv'
  OBVIOUS
<1>1. ASSUME NEW m \in Modules, AddComponent(m) PROVE CacheInv'
  <2>1. CASE Register(rules, Owned(Shorthand[m], m)) /\ Shorthand[m] = <<>> /\ cache' = cache
    BY <2>1, ShorthandRules, SameCache
  <2> QED
    BY <1>1, <2>1, EmptyCache, SameCache DEF AddComponent
<1>2. ASSUME NEW p \in Pairs, NEW c \in Contexts, Ask(p, c) PROVE CacheInv'
  <2>1. rules' = rules /\ cache' = Put(cache, p, Evaluate(p, c)) /\ ~HasConditional(p)
    BY <1>2 DEF Ask
  <2>2. \A q : (HasConditional(q)' <=> HasConditional(q)) /\ \A d : Evaluate(q, d)' = Evaluate(q, d)
    BY <2>1 DEF HasConditional, Evaluate, CallMatches, Conditioned, Winner
  <2>3. \A d \in Contexts : Evaluate(p, c) = Evaluate(p, d)
    BY <2>1, SameInAnyContext
  <2>4. \A q \in DOMAIN cache' : ~HasConditional(q) /\ \A d \in Contexts : cache'[q] = Evaluate(q, d)
    BY <2>1, <2>3 DEF Put, CacheInv
  <2> QED
    BY <2>2, <2>4 DEF CacheInv
<1>3. CASE ReplayAdd
  <2> DEFINE m == Head(reload.todo).component
  <2>1. m \in Modules /\ Register(rules, Owned(Shorthand[m], m))
    BY <1>3, TodoType, OperationShape DEF ReplayAdd, Replaying
  <2>2. CASE Shorthand[m] = <<>>
    BY <1>3, <2>1, <2>2, ShorthandRules, SameCache DEF ReplayAdd
  <2>3. CASE Shorthand[m] # <<>>
    BY <1>3, <2>3, EmptyCache DEF ReplayAdd
  <2> QED
    BY <2>2, <2>3
<1>4. CASE ReplayRemoveRule
  BY <1>4, RemovalType, EmptyCache, SameCache DEF ReplayRemoveRule
<1>5. ASSUME NEW r \in HostRules, AddRule(r) PROVE CacheInv'
  BY <1>5, EmptyCache DEF AddRule
<1>6. ASSUME NEW id \in DOMAIN rules, NEW caller, RemoveRule(id, caller) PROVE CacheInv'
  BY <1>6, EmptyCache DEF RemoveRule
<1>7. ASSUME NEW value \in BOOLEAN, SetEnabled(value) PROVE CacheInv'
  BY <1>7, EmptyCache DEF SetEnabled
<1>8. CASE Seal
  BY <1>8, SameCache DEF Seal
<1>9. CASE ReplacePermissionManager \/ ReplayAddRule
  BY <1>9, EmptyCache DEF ReplacePermissionManager, ReplayAddRule
<1>10. CASE \/ ReloadStart \/ ReloadLoad \/ ReplaceApiManager \/ BuildFails \/ BuildDone
            \/ ReplayRefused \/ ReloadEnd
  BY <1>10, SameCache DEF ReloadStart, ReloadLoad, ReplaceApiManager, BuildFails, BuildDone,
     ReplayRefused, ReloadEnd, policy
<1> QED
  BY <1>1, <1>2, <1>3, <1>4, <1>5, <1>6, <1>7, <1>8, <1>9, <1>10 DEF Next, Host, Reload

-----------------------------------------------------------------------------
(* The seal.                                                               *)

\* Where the seal is kept while a reload runs undisturbed: the new manager is
\* without it until the end of the replay.
SealInv ==
    clean =>
        /\ sealedOnce =>
              IF reload.phase \in {"idle", "clearing"} THEN sealed ELSE reload.wasSealed
        /\ reload.phase \in {"building", "replaying"} => ~sealed

\* Only a host that seals the new manager makes the replay fail.
LEMMA RefusedIsDisturbed ==
    ASSUME TypeOK, SealInv, ReplayRefused
    PROVE  clean' = FALSE
BY DEF TypeOK, SealInv, ReplayRefused

LEMMA NextSeal == TypeOK /\ SealInv /\ Next => SealInv'
<1> SUFFICES ASSUME TypeOK, SealInv, Next PROVE SealInv'
  OBVIOUS
<1> USE DEF SealInv
<1>1. CASE Host
  <2>1. reload' = reload
    BY <1>1 DEF Host, AddRule, RemoveRule, AddComponent, SetEnabled, Seal, Ask
  <2>2. CASE Seal
    BY <2>1, <2>2 DEF Seal, Mark
  <2> DEFINE Kept == sealed' = sealed /\ sealedOnce' = sealedOnce /\ (clean' => clean)
  <2>3. ASSUME NEW r, AddRule(r) PROVE Kept
    BY <2>3 DEF AddRule, Mark
  <2>4. ASSUME NEW id, NEW caller, RemoveRule(id, caller) PROVE Kept
    BY <2>4 DEF RemoveRule, Mark
  <2>5. ASSUME NEW m, AddComponent(m) PROVE Kept
    BY <2>5 DEF AddComponent, Mark, expected
  <2>6. ASSUME NEW value, SetEnabled(value) PROVE Kept
    BY <2>6 DEF SetEnabled, Mark, expected
  <2>7. ASSUME NEW p, NEW c, Ask(p, c) PROVE Kept
    BY <2>7 DEF Ask, expected
  <2>8. CASE Kept
    BY <2>1, <2>8
  <2> HIDE DEF Kept
  <2> QED
    BY <1>1, <2>2, <2>3, <2>4, <2>5, <2>6, <2>7, <2>8 DEF Host
<1>2. CASE ReloadStart
  BY <1>2 DEF ReloadStart, Idle, policy, expected
<1>3. CASE ReloadLoad
  BY <1>3 DEF ReloadLoad, TypeOK, policy, expected
<1>4. CASE ReplaceApiManager \/ ReplacePermissionManager \/ BuildDone
  BY <1>4 DEF ReplaceApiManager, ReplacePermissionManager, BuildDone, TypeOK, policy, expected
<1>5. CASE BuildFails \/ ReplayRefused
  BY <1>5, RefusedIsDisturbed DEF BuildFails
<1>6. CASE ReplayAdd \/ ReplayAddRule \/ ReplayRemoveRule
  <2>1. reload.phase = "replaying" /\ reload'.phase = "replaying" /\ reload'.wasSealed = reload.wasSealed
    BY <1>6 DEF ReplayAdd, ReplayAddRule, ReplayRemoveRule, Replaying, Advance, TypeOK
  <2>2. UNCHANGED <<sealed, sealedOnce, clean>>
    BY <1>6 DEF ReplayAdd, ReplayAddRule, ReplayRemoveRule, expected
  <2> QED
    BY <2>1, <2>2
<1>7. CASE ReloadEnd
  BY <1>7 DEF ReloadEnd, Idle, expected
<1> QED
  BY <1>1, <1>2, <1>3, <1>4, <1>5, <1>6, <1>7 DEF Next, Reload

-----------------------------------------------------------------------------
(* Removed rules.                                                          *)

Removes(ops, id) == \E j \in DOMAIN ops : ops[j].op = "removeRule" /\ ops[j].id = id

\* Every registration of id is followed by its removal.
Cancelled(ops, id) ==
    \A k \in DOMAIN ops :
        ops[k].op = "addRule" /\ ops[k].id = id =>
            \E j \in DOMAIN ops : j > k /\ ops[j].op = "removeRule" /\ ops[j].id = id

\* While a reload runs undisturbed, a removed rule is either not there or
\* still to be removed, and the new history is empty.
GoneInv ==
    /\ \A e \in gone : e.id \in 1 .. nextId
    /\ reload.phase = "idle" => reload.todo = <<>>
    /\ clean => \A e \in gone : Cancelled(reload.todo, e.id)
    /\ clean /\ reload.phase \in {"idle", "clearing", "loading", "replacing", "building"} =>
          \A e \in gone : e.id \notin DOMAIN rules
    /\ clean /\ reload.phase = "replaying" =>
          \A e \in gone : e.id \in DOMAIN rules => Removes(reload.todo, e.id)
    /\ clean /\ reload.phase = "idle" => \A e \in gone : Cancelled(history, e.id)
    /\ clean /\ reload.phase \in {"replacing", "building", "replaying"} => history = <<>>

LEMMA GoneIsGone == GoneInv => RemovedIdsStayGone
BY DEF GoneInv, RemovedIdsStayGone

LEMMA InitGone == Init => GoneInv
BY DEF Init, GoneInv, Idle, Cancelled

\* One operation more does no harm unless it registers the rule again.
LEMMA CancelledAppend ==
    ASSUME TypeOK, NEW op, Record(op), NEW id,
           \/ Cancelled(history, id) /\ ~(op.op = "addRule" /\ op.id = id)
           \/ op.op = "removeRule" /\ op.id = id
    PROVE  Cancelled(history', id)
<1>1. /\ DOMAIN history' = 1 .. Len(history) + 1 /\ DOMAIN history = 1 .. Len(history)
      /\ Len(history) \in Nat
      /\ \A k \in 1 .. Len(history) : history'[k] = history[k]
      /\ history'[Len(history) + 1] = op
  BY AppendOp
<1>2. CASE Cancelled(history, id) /\ ~(op.op = "addRule" /\ op.id = id)
  BY <1>1, <1>2 DEF Cancelled
<1>3. CASE op.op = "removeRule" /\ op.id = id
  BY <1>1, <1>3 DEF Cancelled
<1> QED
  BY <1>2, <1>3

\* What remains to be done after the first operation.
LEMMA CancelledTail ==
    ASSUME TypeOK, reload.todo # <<>>, NEW id, Cancelled(reload.todo, id)
    PROVE  /\ Cancelled(Tail(reload.todo), id)
           /\ Head(reload.todo).op = "addRule" /\ Head(reload.todo).id = id
                => Removes(Tail(reload.todo), id)
           /\ Removes(reload.todo, id) =>
                 \/ Removes(Tail(reload.todo), id)
                 \/ Head(reload.todo).op = "removeRule" /\ Head(reload.todo).id = id
<1> DEFINE t == reload.todo
           u == Tail(reload.todo)
           n == Len(reload.todo)
<1>1. /\ n \in Nat \ {0} /\ DOMAIN t = 1 .. n /\ DOMAIN u = 1 .. n - 1
      /\ \A k \in 1 .. n - 1 : u[k] = t[k + 1]
      /\ Head(t) = t[1]
  BY TodoType
<1> HIDE DEF t, u, n
<1>2. ASSUME NEW j \in 1 .. n, j # 1 PROVE j - 1 \in 1 .. n - 1 /\ u[j - 1] = t[j]
  BY <1>1, <1>2
<1>3. Cancelled(u, id)
  <2> SUFFICES ASSUME NEW k \in 1 .. n - 1, u[k].op = "addRule", u[k].id = id
               PROVE  \E j \in 1 .. n - 1 : j > k /\ u[j].op = "removeRule" /\ u[j].id = id
    BY <1>1 DEF Cancelled
  <2>1. k + 1 \in 1 .. n /\ t[k + 1] = u[k]
    BY <1>1
  <2>2. PICK j \in 1 .. n : j > k + 1 /\ t[j].op = "removeRule" /\ t[j].id = id
    BY <1>1, <2>1 DEF Cancelled, t
  <2>3. j # 1 /\ j - 1 > k
    BY <2>2
  <2> QED
    BY <1>2, <2>2, <2>3
<1>4. Head(t).op = "addRule" /\ Head(t).id = id => Removes(u, id)
  <2> SUFFICES ASSUME t[1].op = "addRule", t[1].id = id PROVE Removes(u, id)
    BY <1>1
  <2>1. 1 \in 1 .. n
    BY <1>1
  <2>2. PICK j \in 1 .. n : j > 1 /\ t[j].op = "removeRule" /\ t[j].id = id
    BY <1>1, <2>1 DEF Cancelled, t
  <2>3. j # 1
    BY <2>2
  <2> QED
    BY <1>1, <1>2, <2>2, <2>3 DEF Removes
<1>5. Removes(t, id) => Removes(u, id) \/ (Head(t).op = "removeRule" /\ Head(t).id = id)
  <2> SUFFICES ASSUME NEW j \in 1 .. n, t[j].op = "removeRule", t[j].id = id, j # 1
               PROVE  Removes(u, id)
    BY <1>1 DEF Removes
  <2> QED
    BY <1>1, <1>2 DEF Removes
<1> QED
  BY <1>3, <1>4, <1>5 DEF t, u

LEMMA NothingToCancel == \A id : Cancelled(<<>>, id) /\ ~Removes(<<>>, id)
BY DEF Cancelled, Removes

LEMMA HostGone == TypeOK /\ GoneInv /\ Host => GoneInv'
<1> SUFFICES ASSUME TypeOK, GoneInv, Host PROVE GoneInv'
  OBVIOUS
<1>1. nextId \in Nat /\ DOMAIN rules \subseteq 1 .. nextId
  BY DEF TypeOK
\* A change that the properties do not excuse is made between reloads.
<1>2. ASSUME reload' = reload, nextId' \in Nat, nextId' >= nextId, Mark,
             \A e \in gone' : e.id \in 1 .. nextId',
             reload.phase = "idle" /\ clean =>
                \A e \in gone' : e.id \notin DOMAIN rules' /\ Cancelled(history', e.id)
      PROVE  GoneInv'
  <2>1. CASE clean'
    <3>1. clean /\ reload.phase = "idle" /\ reload'.todo = <<>>
      BY <1>2, <2>1 DEF Mark, GoneInv
    <3>2. /\ \A e \in gone' : e.id \notin DOMAIN rules' /\ Cancelled(history', e.id)
          /\ \A e \in gone' : Cancelled(reload'.todo, e.id)
      BY <1>2, <3>1, NothingToCancel
    <3> HIDE DEF Cancelled
    <3> QED
      BY <1>2, <3>1, <3>2 DEF GoneInv
  <2>2. CASE ~clean'
    BY <1>2, <2>2 DEF GoneInv
  <2> QED
    BY <2>1, <2>2
\* New rules have new ids.
<1>3. ASSUME NEW op, Record(op), gone' = gone, nextId' \in Nat, nextId' >= nextId,
             op.op = "addRule" => op.id \notin 1 .. nextId,
             DOMAIN rules' \subseteq DOMAIN rules \cup (nextId + 1 .. nextId')
      PROVE  /\ \A e \in gone' : e.id \in 1 .. nextId'
             /\ reload.phase = "idle" /\ clean =>
                   \A e \in gone' : e.id \notin DOMAIN rules' /\ Cancelled(history', e.id)
  <2>1. \A e \in gone : e.id \in 1 .. nextId /\ e.id \in 1 .. nextId' /\ e.id \notin nextId + 1 .. nextId'
    BY <1>1, <1>3 DEF GoneInv
  <2>2. ASSUME NEW e \in gone, reload.phase = "idle", clean
        PROVE  e.id \notin DOMAIN rules' /\ Cancelled(history', e.id)
    <3>1. e.id \notin DOMAIN rules /\ Cancelled(history, e.id)
      BY <2>2 DEF GoneInv
    <3>2. ~(op.op = "addRule" /\ op.id = e.id)
      BY <1>3, <2>1
    <3> QED
      BY <1>3, <2>1, <3>1, <3>2, CancelledAppend
  <2> QED
    BY <1>3, <2>1, <2>2
<1>4. ASSUME NEW r \in HostRules, AddRule(r) PROVE GoneInv'
  <2>1. /\ nextId' = nextId + 1 /\ nextId' \in Nat /\ nextId' >= nextId
        /\ DOMAIN rules' \subseteq DOMAIN rules \cup (nextId + 1 .. nextId')
    BY <1>1, <1>4, OneRule DEF AddRule
  <2>2. Record(Added(nextId + 1, r)) /\ Added(nextId + 1, r).id \notin 1 .. nextId
    BY <1>1, <1>4 DEF AddRule, Added
  <2>3. reload' = reload /\ gone' = gone /\ Mark
    BY <1>4 DEF AddRule
  <2> QED
    BY <1>2, <1>3, <2>1, <2>2, <2>3
<1>5. ASSUME NEW id \in DOMAIN rules, NEW caller, RemoveRule(id, caller) PROVE GoneInv'
  <2>1. /\ reload' = reload /\ nextId' = nextId /\ Mark /\ rules' = Without(rules, id)
        /\ Record(Removed(id))
        /\ gone' = gone \cup {[id |-> id, rule |-> rules[id].rule]}
    BY <1>5 DEF RemoveRule
  <2>2. DOMAIN rules' = DOMAIN rules \ {id}
    BY <2>1, RemovalType
  <2>3. \A e \in gone' : e.id \in 1 .. nextId'
    BY <1>1, <2>1 DEF GoneInv
  <2>4. Removed(id).op = "removeRule" /\ Removed(id).id = id
    BY DEF Removed
  <2>5. ASSUME NEW e \in gone', reload.phase = "idle", clean
        PROVE  e.id \notin DOMAIN rules' /\ Cancelled(history', e.id)
    <3>1. e \in gone \/ e.id = id
      BY <2>1
    <3>2. CASE e.id = id
      BY <2>1, <2>2, <2>4, <3>2, CancelledAppend
    <3>3. CASE e \in gone
      <4>1. e.id \notin DOMAIN rules /\ Cancelled(history, e.id)
        BY <2>5, <3>3 DEF GoneInv
      <4> QED
        BY <2>1, <2>2, <2>4, <4>1, CancelledAppend
    <3> QED
      BY <3>1, <3>2, <3>3
  <2> QED
    BY <1>1, <1>2, <2>1, <2>3, <2>5
<1>6. ASSUME NEW m \in Modules, AddComponent(m) PROVE GoneInv'
  <2>1. /\ Record(Mounted(m)) /\ Mounted(m).op # "addRule"
        /\ reload' = reload /\ gone' = gone /\ Mark
    BY <1>6 DEF AddComponent, Mounted, expected
  <2>2. /\ nextId' \in Nat /\ nextId' >= nextId
        /\ DOMAIN rules' \subseteq DOMAIN rules \cup (nextId + 1 .. nextId')
    <3>1. CASE Register(rules, Owned(Shorthand[m], m))
      BY <3>1, ShorthandRules
    <3>2. CASE UNCHANGED <<rules, nextId, clock, cache>>
      BY <1>1, <3>2
    <3> QED
      BY <1>6, <3>1, <3>2 DEF AddComponent
  <2> QED
    BY <1>2, <1>3, <2>1, <2>2
<1>7. ASSUME UNCHANGED <<rules, nextId, history, reload, gone>>, clean' => clean PROVE GoneInv'
  <2> HIDE DEF Cancelled, Removes
  <2> QED
    BY <1>7 DEF GoneInv
<1>8. ASSUME NEW value \in BOOLEAN, SetEnabled(value) PROVE GoneInv'
  BY <1>7, <1>8 DEF SetEnabled, Mark, expected
<1>9. CASE Seal
  BY <1>7, <1>9 DEF Seal, Mark
<1>10. ASSUME NEW p \in Pairs, NEW c \in Contexts, Ask(p, c) PROVE GoneInv'
  BY <1>7, <1>10 DEF Ask, expected
<1> QED
  BY <1>4, <1>5, <1>6, <1>8, <1>9, <1>10 DEF Host

LEMMA ReloadGone == TypeOK /\ SealInv /\ GoneInv /\ Reload => GoneInv'
<1> SUFFICES ASSUME TypeOK, SealInv, GoneInv, Reload PROVE GoneInv'
  OBVIOUS
<1>1. nextId \in Nat /\ DOMAIN rules \subseteq 1 .. nextId
  BY DEF TypeOK
<1>2. CASE ReloadStart
  <2>1. /\ reload.phase = "idle" /\ reload'.phase = "clearing" /\ reload'.todo = history
        /\ UNCHANGED <<rules, nextId, history, gone, clean>>
    BY <1>2 DEF ReloadStart, Idle, policy, expected
  <2> QED
    BY <2>1 DEF GoneInv
<1>3. CASE ReloadLoad
  <2>1. /\ reload.phase = "clearing" /\ reload'.phase = "loading" /\ reload'.todo = reload.todo
        /\ UNCHANGED <<rules, nextId, history, gone, clean>>
    BY <1>3 DEF ReloadLoad, TypeOK, policy, expected
  <2> QED
    BY <2>1 DEF GoneInv
<1>4. CASE ReplaceApiManager
  <2>1. /\ reload.phase = "loading" /\ reload'.phase = "replacing" /\ reload'.todo = reload.todo
        /\ history' = <<>>
        /\ UNCHANGED <<rules, nextId, gone, clean>>
    BY <1>4 DEF ReplaceApiManager, TypeOK, policy, expected
  <2> QED
    BY <2>1 DEF GoneInv
<1>5. CASE ReplacePermissionManager
  <2>1. /\ reload.phase = "replacing" /\ reload'.phase = "building" /\ reload'.todo = reload.todo
        /\ UNCHANGED <<history, gone, clean>>
    BY <1>5 DEF ReplacePermissionManager, TypeOK, expected
  <2>2. DOMAIN rules' = nextId + 1 .. nextId' /\ nextId' \in Nat /\ nextId' >= nextId
    BY <1>5, NewManager
  <2>3. \A e \in gone : e.id \in 1 .. nextId' /\ e.id \notin DOMAIN rules'
    BY <1>1, <2>2 DEF GoneInv
  <2> QED
    BY <2>1, <2>3 DEF GoneInv
<1>6. CASE BuildFails \/ ReplayRefused
  <2>1. reload' = Idle /\ clean' = FALSE /\ UNCHANGED <<nextId, gone>>
    BY <1>6, RefusedIsDisturbed DEF BuildFails, ReplayRefused, policy, expected
  <2> QED
    BY <2>1 DEF GoneInv, Idle
<1>7. CASE BuildDone
  <2>1. /\ reload.phase = "building" /\ reload'.phase = "replaying" /\ reload'.todo = reload.todo
        /\ UNCHANGED <<rules, nextId, history, gone, clean>>
    BY <1>7 DEF BuildDone, TypeOK, policy, expected
  <2> QED
    BY <2>1 DEF GoneInv
<1>8. ASSUME reload.todo # <<>>, reload.phase = "replaying",
             reload'.todo = Tail(reload.todo), reload'.phase = "replaying",
             UNCHANGED <<history, gone, clean>>, nextId' \in Nat, nextId' >= nextId,
             clean => \A e \in gone : e.id \in DOMAIN rules' => Removes(reload'.todo, e.id)
      PROVE  GoneInv'
  <2>1. \A e \in gone : clean => Cancelled(reload'.todo, e.id)
    BY <1>8, CancelledTail DEF GoneInv
  <2>2. \A e \in gone : e.id \in 1 .. nextId'
    BY <1>1, <1>8 DEF GoneInv
  <2> QED
    BY <1>8, <2>1, <2>2 DEF GoneInv
<1>9. ASSUME NEW gap, Advance(gap) PROVE reload'.todo = Tail(reload.todo) /\ reload'.phase = reload.phase
  BY <1>9 DEF Advance, TypeOK
<1>10. ASSUME reload.todo # <<>>, reload.phase = "replaying", clean, NEW e \in gone
       PROVE  /\ Head(reload.todo).op = "addRule" /\ Head(reload.todo).id = e.id
                    => Removes(Tail(reload.todo), e.id)
              /\ e.id \in DOMAIN rules =>
                    \/ Removes(Tail(reload.todo), e.id)
                    \/ Head(reload.todo).op = "removeRule" /\ Head(reload.todo).id = e.id
  BY <1>10, CancelledTail DEF GoneInv
<1>11. CASE ReplayAdd
  <2> DEFINE m == Head(reload.todo).component
  <2>1. /\ reload.todo # <<>> /\ reload.phase = "replaying" /\ m \in Modules
        /\ Head(reload.todo).op = "add"
    BY <1>11, TodoType, OperationShape DEF ReplayAdd, Replaying
  <2>2. DOMAIN rules' = DOMAIN rules \cup (nextId + 1 .. nextId') /\ nextId' \in Nat /\ nextId' >= nextId
    BY <1>11, <2>1, ShorthandRules DEF ReplayAdd
  <2>3. \A e \in gone : e.id \notin nextId + 1 .. nextId'
    BY <1>1, <2>2 DEF GoneInv
  <2>4. /\ reload'.todo = Tail(reload.todo) /\ reload'.phase = "replaying"
        /\ UNCHANGED <<history, gone, clean>>
    BY <1>9, <1>11, <2>1 DEF ReplayAdd, expected
  <2>5. clean => \A e \in gone : e.id \in DOMAIN rules' => Removes(reload'.todo, e.id)
    BY <1>10, <2>1, <2>2, <2>3, <2>4
  <2> QED
    BY <1>8, <2>1, <2>2, <2>4, <2>5
<1>12. CASE ReplayAddRule
  <2>1. /\ reload.todo # <<>> /\ reload.phase = "replaying" /\ Head(reload.todo).op = "addRule"
        /\ UNCHANGED <<nextId, history, gone, clean>>
    BY <1>12 DEF ReplayAddRule, Replaying, expected
  <2>2. reload'.todo = Tail(reload.todo) /\ reload'.phase = "replaying"
    BY <1>9, <1>12, <2>1 DEF ReplayAddRule
  <2>3. DOMAIN rules' = DOMAIN rules \cup {Head(reload.todo).id}
    BY <1>12 DEF ReplayAddRule, Put
  <2>4. clean => \A e \in gone : e.id \in DOMAIN rules' => Removes(reload'.todo, e.id)
    BY <1>10, <2>1, <2>2, <2>3
  <2> QED
    BY <1>1, <1>8, <2>1, <2>2, <2>4
<1>13. CASE ReplayRemoveRule
  <2>1. /\ reload.todo # <<>> /\ reload.phase = "replaying" /\ Head(reload.todo).op = "removeRule"
        /\ UNCHANGED <<nextId, history, gone, clean>>
    BY <1>13 DEF ReplayRemoveRule, Replaying, expected
  <2>2. reload'.todo = Tail(reload.todo) /\ reload'.phase = "replaying"
    BY <1>9, <1>13, <2>1 DEF ReplayRemoveRule
  <2>3. DOMAIN rules' = DOMAIN rules \ {Head(reload.todo).id}
    BY <1>13, RemovalType DEF ReplayRemoveRule
  <2>4. clean => \A e \in gone : e.id \in DOMAIN rules' => Removes(reload'.todo, e.id)
    BY <1>10, <2>1, <2>2, <2>3
  <2> QED
    BY <1>1, <1>8, <2>1, <2>2, <2>4
<1>14. CASE ReloadEnd
  <2>1. /\ reload.phase = "replaying" /\ reload.todo = <<>>
        /\ reload'.phase = "idle" /\ reload'.todo = <<>>
        /\ UNCHANGED <<rules, nextId, history, gone, clean>>
    BY <1>14 DEF ReloadEnd, Idle, expected
  <2> QED
    BY <2>1, NothingToCancel DEF GoneInv
<1> QED
  BY <1>2, <1>3, <1>4, <1>5, <1>6, <1>7, <1>11, <1>12, <1>13, <1>14 DEF Reload

-----------------------------------------------------------------------------
(* Rules that a reload puts back.                                          *)

Pending(ops, e) ==
    \E k \in DOMAIN ops : ops[k].op = "addRule" /\ ops[k].id = e.id /\ ops[k].rule = e.rule

\* Rules are recorded in the order of their ids.
Increasing(ops) ==
    \A j, k \in DOMAIN ops :
        ops[j].op = "addRule" /\ ops[k].op = "addRule" /\ j < k => ops[j].id < ops[k].id

\* The operations put back what is registered, and remove nothing of it.
Replayable(ops) ==
    Increasing(ops) /\ \A e \in registered : Pending(ops, e) /\ ~Removes(ops, e.id)

Timed == \A i \in DOMAIN rules : rules[i].at <= clock

\* The rule of e is there, and newer than the built-in ones.
Back(e) ==
    /\ e.id \in DOMAIN rules /\ rules[e.id].rule = e.rule
    /\ \A i \in DOMAIN rules : rules[i].owner = Builtin => rules[i].at < rules[e.id].at

InOrder ==
    \A e, f \in registered :
        e.id \in DOMAIN rules /\ f.id \in DOMAIN rules /\ f.id < e.id =>
            rules[f.id].at < rules[e.id].at

\* In the middle of a replay a rule is back, before those still to come, or
\* still to come itself.
PartlyBack(ops) ==
    /\ Increasing(ops) /\ InOrder
    /\ \A e \in registered :
        /\ ~Removes(ops, e.id)
        /\ e.id \notin DOMAIN rules => Pending(ops, e)
        /\ e.id \in DOMAIN rules =>
              Back(e) /\ \A k \in DOMAIN ops : ops[k].op = "addRule" => e.id < ops[k].id

AllBack == InOrder /\ \A e \in registered : Back(e)

\* Through the first undisturbed reload, every registered rule is in the
\* manager, or on its way from the history back to it.
RestoreInv ==
    /\ Timed
    /\ reload.phase # "idle" => reloads > 0
    /\ \A k \in DOMAIN history : history[k].op = "removeRule" => history[k].id \in 1 .. nextId
    /\ clean /\ reloads <= 1 =>
        /\ \A e \in registered : e.id \in 1 .. nextId
        /\ reload.phase = "idle" => AllBack
        /\ reload.phase = "idle" /\ reloads = 0 => Replayable(history)
        /\ reload.phase \in {"clearing", "loading", "replacing", "building"} => Replayable(reload.todo)
        /\ reload.phase = "replaying" => PartlyBack(reload.todo)

LEMMA RestoreRestores == RestoreInv => ReloadRestoresRules
BY DEF RestoreInv, AllBack, InOrder, Back, ReloadRestoresRules

LEMMA InitRestore == Init => RestoreInv
<1> SUFFICES ASSUME Init PROVE RestoreInv
  OBVIOUS
<1> DEFINE n == Len(ConfigRules) + Len(BuiltinRules)
<1>1. n \in Nat /\ clock = n /\ registered = {} /\ history = <<>> /\ reload.phase = "idle"
  BY RulesAssumption DEF Init, Idle
<1>2. DOMAIN rules = 1 .. n /\ \A i \in 1 .. n : rules[i].at = i
  BY DEF Init
<1> HIDE DEF n
<1>3. Timed
  BY <1>1, <1>2 DEF Timed
<1> QED
  BY <1>1, <1>3 DEF RestoreInv, AllBack, InOrder, Replayable, Increasing

\* Every rule after a step was there before, or is newer and not built in.
Grown ==
    \A i \in DOMAIN rules' :
        \/ i \in DOMAIN rules /\ rules'[i] = rules[i]
        \/ rules'[i].owner # Builtin /\ rules'[i].at \in clock + 1 .. clock'

LEMMA GrownTimed ==
    ASSUME TypeOK, TypeOK', Timed, Grown, clock' >= clock
    PROVE  Timed'
<1>1. clock \in Nat /\ clock' \in Nat /\ \A i \in DOMAIN rules : rules[i].at \in Nat
  BY DEF TypeOK, Entries
<1> QED
  BY <1>1 DEF Timed, Grown

\* A rule that is back stays back.
LEMMA StillBack ==
    ASSUME TypeOK, Timed, Grown, NEW e, Back(e), e.id \in DOMAIN rules', rules'[e.id] = rules[e.id]
    PROVE  Back(e)'
BY DEF Back, Grown

\* The order of registration does not change among the rules that stay.
LEMMA StillInOrder ==
    ASSUME InOrder, registered' \subseteq registered,
           \A e \in registered' : e.id \in DOMAIN rules' =>
              e.id \in DOMAIN rules /\ rules'[e.id] = rules[e.id]
    PROVE  InOrder'
BY DEF InOrder

\* What is registered last is newest.
LEMMA RegisterTimes ==
    ASSUME TypeOK, NEW kept, NEW entries \in Seq(EntrySpecs), Register(kept, entries)
    PROVE  /\ clock' >= clock
           /\ \A i \in nextId + 1 .. nextId' :
                 /\ i - nextId \in 1 .. Len(entries)
                 /\ rules'[i] = [rule |-> entries[i - nextId].rule,
                                 owner |-> entries[i - nextId].owner,
                                 at |-> clock + (i - nextId)]
                 /\ rules'[i].at \in clock + 1 .. clock'
<1>1. nextId \in Nat /\ clock \in Nat /\ Len(entries) \in Nat
  BY DEF TypeOK
<1>2. /\ DOMAIN rules' = DOMAIN kept \cup (nextId + 1 .. nextId')
      /\ nextId' = nextId + Len(entries) /\ clock' = clock + Len(entries)
  BY DEF Register
<1>3. ASSUME NEW i \in nextId + 1 .. nextId'
      PROVE  /\ i - nextId \in 1 .. Len(entries)
             /\ rules'[i] = [rule |-> entries[i - nextId].rule,
                             owner |-> entries[i - nextId].owner,
                             at |-> clock + (i - nextId)]
             /\ rules'[i].at \in clock + 1 .. clock'
  <2>1. i - nextId \in 1 .. Len(entries) /\ i > nextId /\ i \in DOMAIN rules'
    BY <1>1, <1>2
  <2>2. rules'[i] = [rule |-> entries[i - nextId].rule,
                     owner |-> entries[i - nextId].owner,
                     at |-> clock + (i - nextId)]
    BY <1>2, <2>1 DEF Register
  <2>3. clock + (i - nextId) \in clock + 1 .. clock'
    BY <1>1, <1>2, <2>1
  <2> QED
    BY <2>1, <2>2, <2>3
<1> QED
  BY <1>1, <1>2, <1>3

LEMMA OneRuleValue ==
    ASSUME TypeOK, NEW r \in HostRules, Register(rules, Owned(<<r>>, NoModule))
    PROVE  /\ \A i \in DOMAIN rules : rules'[i] = rules[i]
           /\ rules'[nextId + 1] = [rule |-> r, owner |-> NoModule, at |-> clock + 1]
           /\ clock' = clock + 1 /\ Grown
<1> DEFINE entries == Owned(<<r>>, NoModule)
<1>1. r \in Rules /\ <<r>> \in Seq(Rules) /\ Len(<<r>>) = 1 /\ <<r>>[1] = r
  BY RulesAssumption
<1>2. entries \in Seq(EntrySpecs) /\ Len(entries) = 1
  BY <1>1, OwnedType DEF Owners
<1>3. entries[1] = [rule |-> r, owner |-> NoModule]
  BY <1>1 DEF Owned
<1>4. nextId \in Nat /\ clock \in Nat /\ rules \in [DOMAIN rules -> Entries] /\ DOMAIN rules \subseteq 1 .. nextId
  BY DEF TypeOK
<1>5. nextId' = nextId + 1 /\ clock' = clock + 1
  BY <1>2 DEF Register
<1> HIDE DEF entries
<1>6. nextId + 1 \in nextId + 1 .. nextId' /\ (nextId + 1) - nextId = 1 /\ clock + 1 \in clock + 1 .. clock'
  BY <1>4, <1>5
<1>7. Register(rules, entries)
  BY DEF entries
<1>8. rules'[nextId + 1] = [rule |-> r, owner |-> NoModule, at |-> clock + 1]
  <2>1. rules'[nextId + 1] = [rule |-> entries[1].rule, owner |-> entries[1].owner, at |-> clock + 1]
    BY <1>2, <1>6, <1>7, RegisterTimes
  <2> QED
    BY <1>3, <2>1
<1>9. \A i \in DOMAIN rules : rules'[i] = rules[i]
  BY <1>2, <1>4, <1>7, RegisterEffect
<1>10. DOMAIN rules' = DOMAIN rules \cup {nextId + 1}
  BY OneRule
<1>11. Grown
  BY <1>6, <1>8, <1>9, <1>10, OwnersAssumption DEF Grown
<1> QED
  BY <1>5, <1>8, <1>9, <1>11

LEMMA ShorthandTimes ==
    ASSUME TypeOK, NEW m \in Modules, Register(rules, Owned(Shorthand[m], m))
    PROVE  Grown /\ clock' >= clock /\ \A i \in DOMAIN rules : rules'[i] = rules[i]
<1> DEFINE entries == Owned(Shorthand[m], m)
<1>1. Shorthand[m] \in Seq(Rules)
  BY RulesAssumption
<1>2. entries \in Seq(EntrySpecs) /\ Len(entries) = Len(Shorthand[m])
  BY <1>1, OwnedType DEF Owners
<1>3. \A k \in 1 .. Len(entries) : entries[k].owner = m
  BY <1>1, <1>2 DEF Owned
<1>4. rules \in [DOMAIN rules -> Entries] /\ DOMAIN rules \subseteq 1 .. nextId
  BY DEF TypeOK
<1>5. Register(rules, entries)
  OBVIOUS
<1> HIDE DEF entries
<1>6. /\ DOMAIN rules' = DOMAIN rules \cup (nextId + 1 .. nextId')
      /\ \A i \in DOMAIN rules : rules'[i] = rules[i]
  BY <1>2, <1>4, <1>5, RegisterEffect
<1>7. clock' >= clock
  BY <1>2, <1>5, RegisterTimes
<1>8. ASSUME NEW i \in nextId + 1 .. nextId'
      PROVE  rules'[i].owner = m /\ rules'[i].at \in clock + 1 .. clock'
  <2>1. /\ i - nextId \in 1 .. Len(entries)
        /\ rules'[i] = [rule |-> entries[i - nextId].rule,
                        owner |-> entries[i - nextId].owner,
                        at |-> clock + (i - nextId)]
        /\ rules'[i].at \in clock + 1 .. clock'
    BY <1>2, <1>5, RegisterTimes
  <2>2. rules'[i].owner = entries[i - nextId].owner
    BY <2>1
  <2> QED
    BY <1>3, <2>1, <2>2
<1>9. Grown
  BY <1>6, <1>8, OwnersAssumption DEF Grown
<1> QED
  BY <1>6, <1>7, <1>9

\* One operation more.
LEMMA ReplayableAppend ==
    ASSUME TypeOK, NEW op \in Operations, Record(op), Replayable(history),
           \A e \in registered' : e \in registered \/ op = Added(e.id, e.rule),
           \A e \in registered' : op.op = "removeRule" => op.id # e.id,
           op.op = "addRule" =>
              /\ \A k \in DOMAIN history : history[k].op = "addRule" => history[k].id < op.id
              /\ ~Removes(history, op.id)
    PROVE  Replayable(history)'
<1> DEFINE n == Len(history)
<1>1. /\ DOMAIN history' = 1 .. n + 1 /\ DOMAIN history = 1 .. n
      /\ n \in Nat
      /\ \A k \in 1 .. n : history'[k] = history[k]
      /\ history'[n + 1] = op
  BY AppendOp
<1> HIDE DEF n
<1>2. Increasing(history)'
  BY <1>1 DEF Replayable, Increasing
<1>3. ASSUME NEW e \in registered', e \in registered
      PROVE  Pending(history', e) /\ ~Removes(history', e.id)
  <2>1. Pending(history, e) /\ ~Removes(history, e.id)
    BY <1>3 DEF Replayable
  <2>2. Pending(history', e)
    BY <1>1, <2>1 DEF Pending
  <2>3. ~Removes(history', e.id)
    BY <1>1, <2>1 DEF Removes
  <2> QED
    BY <2>2, <2>3
<1>4. ASSUME NEW e \in registered', op = Added(e.id, e.rule)
      PROVE  Pending(history', e) /\ ~Removes(history', e.id)
  <2>1. op.op = "addRule" /\ op.id = e.id /\ op.rule = e.rule
    BY <1>4 DEF Added
  <2>2. n + 1 \in DOMAIN history'
    BY <1>1
  <2>3. Pending(history', e)
    BY <1>1, <2>1, <2>2 DEF Pending
  <2>4. ~Removes(history', e.id)
    BY <1>1, <2>1 DEF Removes
  <2> QED
    BY <2>3, <2>4
<1> QED
  BY <1>2, <1>3, <1>4 DEF Replayable

LEMMA HostRestore == TypeOK /\ TypeOK' /\ IdsInv /\ RestoreInv /\ Host => RestoreInv'
<1> SUFFICES ASSUME TypeOK, TypeOK', IdsInv, RestoreInv, Host PROVE RestoreInv'
  OBVIOUS
<1>1. /\ nextId \in Nat /\ nextId' \in Nat /\ clock \in Nat /\ reloads \in Nat
      /\ DOMAIN rules \subseteq 1 .. nextId /\ Timed
      /\ \A k \in DOMAIN history : history[k].op = "removeRule" => history[k].id \in 1 .. nextId
  BY DEF TypeOK, RestoreInv
\* A change that the property does not excuse is made between reloads.
<1>2. ASSUME reload' = reload, reloads' = reloads, Mark, Timed',
             \A k \in DOMAIN history' : history'[k].op = "removeRule" => history'[k].id \in 1 .. nextId',
             clean /\ reloads <= 1 /\ reload.phase = "idle" =>
                /\ \A e \in registered' : e.id \in 1 .. nextId'
                /\ AllBack'
                /\ reloads = 0 => Replayable(history)'
      PROVE  RestoreInv'
  <2>1. CASE clean'
    <3>1. clean /\ reload.phase = "idle"
      BY <1>2, <2>1 DEF Mark
    <3> HIDE DEF AllBack, Replayable, PartlyBack
    <3> QED
      BY <1>2, <3>1 DEF RestoreInv
  <2>2. CASE ~clean'
    BY <1>2, <2>2 DEF RestoreInv
  <2> QED
    BY <2>1, <2>2
<1>3. ASSUME NEW op, Record(op), nextId' >= nextId, op.op = "removeRule" => op.id \in 1 .. nextId
      PROVE  \A k \in DOMAIN history' : history'[k].op = "removeRule" => history'[k].id \in 1 .. nextId'
  BY <1>1, <1>3, AppendOp
<1>4. ASSUME NEW r \in HostRules, AddRule(r) PROVE RestoreInv'
  <2> DEFINE new == [id |-> nextId + 1, rule |-> r]
             op == Added(nextId + 1, r)
  <2>1. /\ nextId' = nextId + 1 /\ DOMAIN rules' = DOMAIN rules \cup {nextId + 1}
        /\ \A i \in DOMAIN rules : rules'[i] = rules[i]
        /\ rules'[nextId + 1] = [rule |-> r, owner |-> NoModule, at |-> clock + 1]
        /\ clock' = clock + 1 /\ Grown
    BY <1>4, OneRule, OneRuleValue DEF AddRule
  <2>2. /\ Record(op) /\ op.op = "addRule" /\ op.id = nextId + 1 /\ op \in Operations
        /\ reload' = reload /\ reloads' = reloads /\ Mark
    BY <1>1, <1>4 DEF AddRule, Added, Operations
  <2>3. PICK e0 : e0 = new
    OBVIOUS
  <2>4. e0.id = nextId + 1 /\ e0.rule = r /\ registered' = registered \cup {e0}
    BY <1>4, <2>3 DEF AddRule
  <2>5. nextId + 1 \notin DOMAIN rules /\ nextId' >= nextId /\ clock' >= clock
    BY <1>1, <2>1
  <2>6. Timed'
    BY <1>1, <2>1, <2>5, GrownTimed
  <2>7. \A k \in DOMAIN history' : history'[k].op = "removeRule" => history'[k].id \in 1 .. nextId'
    BY <1>3, <2>2, <2>5
  <2>8. ASSUME clean, reloads <= 1, reload.phase = "idle"
        PROVE  /\ \A e \in registered' : e.id \in 1 .. nextId'
               /\ AllBack'
               /\ reloads = 0 => Replayable(history)'
    <3>1. AllBack /\ (\A e \in registered : e.id \in 1 .. nextId) /\ (reloads = 0 => Replayable(history))
      BY <2>8 DEF RestoreInv
    <3>2. \A e \in registered' : e.id \in 1 .. nextId'
      BY <1>1, <2>1, <2>4, <3>1
    <3>3. ASSUME NEW e \in registered PROVE Back(e)' /\ e.id \in DOMAIN rules /\ rules'[e.id].at <= clock
      <4>1. Back(e) /\ e.id \in DOMAIN rules
        BY <3>1 DEF AllBack, Back
      <4>2. e.id \in DOMAIN rules' /\ rules'[e.id] = rules[e.id]
        BY <2>1, <4>1
      <4>3. Back(e)'
        BY <1>1, <2>1, <4>1, <4>2, StillBack
      <4> QED
        BY <1>1, <4>1, <4>2, <4>3 DEF Timed
    <3>4. Back(e0)'
      <4>1. e0.id \in DOMAIN rules' /\ rules'[e0.id].rule = e0.rule /\ rules'[e0.id].at = clock + 1
        BY <2>1, <2>4
      <4>2. ASSUME NEW i \in DOMAIN rules', rules'[i].owner = Builtin
            PROVE  rules'[i].at < clock + 1
        <5>1. i \in DOMAIN rules /\ rules'[i] = rules[i]
          BY <2>1, <4>2 DEF Grown
        <5> QED
          BY <1>1, <5>1 DEF Timed, TypeOK, Entries
      <4> QED
        BY <4>1, <4>2 DEF Back
    <3>5. InOrder'
      <4> SUFFICES ASSUME NEW e \in registered', NEW f \in registered', f.id < e.id
                   PROVE  rules'[f.id].at < rules'[e.id].at
        BY DEF InOrder
      <4>1. CASE e \in registered /\ f \in registered
        BY <2>1, <3>1, <3>3, <4>1 DEF AllBack, InOrder
      <4>2. CASE e = e0 /\ f \in registered
        <5>1. rules'[f.id].at <= clock /\ rules'[f.id].at \in Nat
          BY <2>1, <3>3, <4>2 DEF TypeOK, Entries
        <5>2. rules'[e.id].at = clock + 1
          BY <2>1, <2>4, <4>2
        <5> QED
          BY <1>1, <5>1, <5>2
      <4>3. CASE f = e0
        BY <1>1, <2>1, <2>4, <3>2, <4>3
      <4> QED
        BY <2>4, <4>1, <4>2, <4>3
    <3>6. AllBack'
      BY <2>4, <3>3, <3>4, <3>5 DEF AllBack
    <3>7. ASSUME reloads = 0 PROVE Replayable(history)'
      <4>1. op = Added(e0.id, e0.rule)
        BY <2>4
      <4>2. \A e \in registered' : e \in registered \/ op = Added(e.id, e.rule)
        BY <2>4, <4>1
      <4>3. \A k \in DOMAIN history : history[k].op = "addRule" => history[k].id < op.id
        BY <1>1, <2>2 DEF IdsInv, Issued
      <4>4. ~Removes(history, op.id)
        BY <1>1, <2>2 DEF Removes
      <4>5. Replayable(history)
        BY <3>1, <3>7
      <4> HIDE DEF op
      <4> QED
        BY <2>2, <4>2, <4>3, <4>4, <4>5, ReplayableAppend
    <3> QED
      BY <3>2, <3>6, <3>7
  <2> QED
    BY <1>2, <2>2, <2>6, <2>7, <2>8
<1>5. ASSUME NEW id \in DOMAIN rules, NEW caller, RemoveRule(id, caller) PROVE RestoreInv'
  <2>1. /\ rules' = Without(rules, id) /\ Record(Removed(id))
        /\ registered' = {e \in registered : e.id # id}
        /\ UNCHANGED <<nextId, clock, reload, reloads>> /\ Mark
    BY <1>5 DEF RemoveRule
  <2>2. /\ DOMAIN rules' = DOMAIN rules \ {id}
        /\ \A i \in DOMAIN rules' : rules'[i] = rules[i]
    BY <2>1, RemovalType
  <2>3. Grown
    BY <2>2 DEF Grown
  <2>4. Timed'
    BY <1>1, <2>1, <2>3, GrownTimed
  <2>5. PICK op : op = Removed(id)
    OBVIOUS
  <2>6. op.op = "removeRule" /\ op.id = id /\ op \in Operations /\ Record(op)
    BY <1>1, <2>1, <2>5 DEF Removed, Operations
  <2>7. \A k \in DOMAIN history' : history'[k].op = "removeRule" => history'[k].id \in 1 .. nextId'
    BY <1>1, <1>3, <2>1, <2>6
  <2>8. ASSUME clean, reloads <= 1, reload.phase = "idle"
        PROVE  /\ \A e \in registered' : e.id \in 1 .. nextId'
               /\ AllBack'
               /\ reloads = 0 => Replayable(history)'
    <3>1. AllBack /\ (\A e \in registered : e.id \in 1 .. nextId) /\ (reloads = 0 => Replayable(history))
      BY <2>8 DEF RestoreInv
    <3>2. \A e \in registered' : e \in registered /\ e.id # id /\ e.id \in DOMAIN rules' /\ Back(e)
      BY <2>1, <2>2, <3>1 DEF AllBack, Back
    <3>3. \A e \in registered' : Back(e)'
      BY <1>1, <2>2, <2>3, <3>2, StillBack
    <3>4. InOrder'
      BY <2>2, <3>1, <3>2, StillInOrder DEF AllBack
    <3>5. ASSUME reloads = 0 PROVE Replayable(history)'
      BY <2>6, <3>1, <3>2, <3>5, ReplayableAppend
    <3> QED
      BY <2>1, <3>1, <3>2, <3>3, <3>4, <3>5 DEF AllBack
  <2> QED
    BY <1>2, <2>1, <2>4, <2>7, <2>8
<1>6. ASSUME NEW m \in Modules, AddComponent(m) PROVE RestoreInv'
  <2>1. /\ Record(Mounted(m)) /\ UNCHANGED <<reload, registered, reloads>> /\ Mark
    BY <1>6 DEF AddComponent, expected
  <2>2. Grown /\ clock' >= clock /\ nextId' >= nextId /\ DOMAIN rules \subseteq DOMAIN rules'
        /\ \A i \in DOMAIN rules : rules'[i] = rules[i]
    <3>1. CASE Register(rules, Owned(Shorthand[m], m))
      BY <3>1, ShorthandRules, ShorthandTimes
    <3>2. CASE UNCHANGED <<rules, nextId, clock, cache>>
      BY <1>1, <3>2 DEF Grown
    <3> QED
      BY <1>6, <3>1, <3>2 DEF AddComponent
  <2>3. PICK op : op = Mounted(m)
    OBVIOUS
  <2>4. op.op = "add" /\ op \in Operations /\ Record(op)
    BY <2>1, <2>3 DEF Mounted, Operations
  <2>5. Timed'
    BY <1>1, <2>2, GrownTimed
  <2>6. \A k \in DOMAIN history' : history'[k].op = "removeRule" => history'[k].id \in 1 .. nextId'
    BY <1>3, <2>2, <2>4
  <2>7. ASSUME clean, reloads <= 1, reload.phase = "idle"
        PROVE  /\ \A e \in registered' : e.id \in 1 .. nextId'
               /\ AllBack'
               /\ reloads = 0 => Replayable(history)'
    <3>1. AllBack /\ (\A e \in registered : e.id \in 1 .. nextId) /\ (reloads = 0 => Replayable(history))
      BY <2>7 DEF RestoreInv
    <3>2. \A e \in registered : Back(e) /\ e.id \in DOMAIN rules
      BY <3>1 DEF AllBack, Back
    <3>3. \A e \in registered : Back(e)'
      BY <1>1, <2>2, <3>2, StillBack
    <3>4. InOrder'
      BY <2>1, <2>2, <3>1, <3>2, StillInOrder DEF AllBack
    <3>5. ASSUME reloads = 0 PROVE Replayable(history)'
      BY <2>1, <2>4, <3>1, <3>5, ReplayableAppend
    <3>6. \A e \in registered' : e.id \in 1 .. nextId'
      BY <1>1, <2>1, <2>2, <3>1
    <3> QED
      BY <2>1, <3>3, <3>4, <3>5, <3>6 DEF AllBack
  <2> QED
    BY <1>2, <2>1, <2>5, <2>6, <2>7
<1>7. ASSUME UNCHANGED <<rules, nextId, clock, history, reload, registered, reloads>>, clean' => clean
      PROVE  RestoreInv'
  <2>1. /\ Timed' = Timed /\ AllBack' = AllBack /\ Replayable(history)' = Replayable(history)
        /\ Replayable(reload.todo)' = Replayable(reload.todo)
        /\ PartlyBack(reload.todo)' = PartlyBack(reload.todo)
    BY <1>7 DEF Timed, AllBack, InOrder, Back, Replayable, PartlyBack
  <2> QED
    BY <1>7, <2>1 DEF RestoreInv
<1>8. ASSUME NEW value \in BOOLEAN, SetEnabled(value) PROVE RestoreInv'
  BY <1>7, <1>8 DEF SetEnabled, Mark, expected
<1>9. CASE Seal
  BY <1>7, <1>9 DEF Seal, Mark
<1>10. ASSUME NEW p \in Pairs, NEW c \in Contexts, Ask(p, c) PROVE RestoreInv'
  BY <1>7, <1>10 DEF Ask, expected
<1> QED
  BY <1>4, <1>5, <1>6, <1>8, <1>9, <1>10 DEF Host

\* What is left of a replay after its first operation.
LEMMA TailLeft ==
    ASSUME TypeOK, reload.todo # <<>>, Increasing(reload.todo)
    PROVE  /\ Increasing(Tail(reload.todo))
           /\ \A id : ~Removes(reload.todo, id) =>
                 /\ ~Removes(Tail(reload.todo), id)
                 /\ Head(reload.todo).op = "removeRule" => Head(reload.todo).id # id
           /\ \A e : Pending(reload.todo, e) =>
                 \/ Pending(Tail(reload.todo), e)
                 \/ /\ Head(reload.todo).op = "addRule"
                    /\ Head(reload.todo).id = e.id /\ Head(reload.todo).rule = e.rule
           /\ \A k \in DOMAIN Tail(reload.todo) : Tail(reload.todo)[k].op = "addRule" =>
                 /\ \E j \in DOMAIN reload.todo : reload.todo[j] = Tail(reload.todo)[k]
                 /\ Head(reload.todo).op = "addRule" => Head(reload.todo).id < Tail(reload.todo)[k].id
<1> DEFINE t == reload.todo
           u == Tail(reload.todo)
           n == Len(reload.todo)
<1>1. /\ n \in Nat \ {0} /\ DOMAIN t = 1 .. n /\ DOMAIN u = 1 .. n - 1
      /\ \A k \in 1 .. n - 1 : u[k] = t[k + 1]
      /\ Head(t) = t[1]
  BY TodoType
<1>2. Increasing(t)
  OBVIOUS
<1> HIDE DEF t, u, n
<1>3. ASSUME NEW j \in 1 .. n, j # 1 PROVE j - 1 \in 1 .. n - 1 /\ u[j - 1] = t[j]
  BY <1>1, <1>3
<1>4. ASSUME NEW k \in 1 .. n - 1 PROVE k + 1 \in 1 .. n /\ 1 \in 1 .. n /\ 1 < k + 1 /\ u[k] = t[k + 1]
  BY <1>1
<1>5. Increasing(u)
  <2> SUFFICES ASSUME NEW j \in 1 .. n - 1, NEW k \in 1 .. n - 1,
                      u[j].op = "addRule", u[k].op = "addRule", j < k
               PROVE  u[j].id < u[k].id
    BY <1>1 DEF Increasing
  <2>1. j + 1 < k + 1
    BY <1>1
  <2> QED
    BY <1>1, <1>2, <1>4, <2>1 DEF Increasing
<1>6. ASSUME NEW id, ~Removes(t, id)
      PROVE  ~Removes(u, id) /\ (Head(t).op = "removeRule" => Head(t).id # id)
  BY <1>1, <1>4, <1>6 DEF Removes
<1>7. ASSUME NEW e, Pending(t, e)
      PROVE  Pending(u, e) \/ (Head(t).op = "addRule" /\ Head(t).id = e.id /\ Head(t).rule = e.rule)
  <2>1. PICK k \in 1 .. n : t[k].op = "addRule" /\ t[k].id = e.id /\ t[k].rule = e.rule
    BY <1>1, <1>7 DEF Pending
  <2>2. CASE k = 1
    BY <1>1, <2>1, <2>2
  <2>3. CASE k # 1
    <3>1. k - 1 \in DOMAIN u /\ u[k - 1] = t[k]
      BY <1>1, <1>3, <2>3
    <3> QED
      BY <2>1, <3>1 DEF Pending
  <2> QED
    BY <2>2, <2>3
<1>8. ASSUME NEW k \in 1 .. n - 1, u[k].op = "addRule"
      PROVE  (\E j \in 1 .. n : t[j] = u[k]) /\ (Head(t).op = "addRule" => Head(t).id < u[k].id)
  BY <1>1, <1>2, <1>4, <1>8 DEF Increasing
<1> QED
  BY <1>1, <1>5, <1>6, <1>7, <1>8 DEF t, u

LEMMA ReloadRestore ==
    TypeOK /\ TypeOK' /\ IdsInv /\ SealInv /\ GoneInv /\ RestoreInv /\ Reload => RestoreInv'
<1> SUFFICES ASSUME TypeOK, TypeOK', IdsInv, SealInv, GoneInv, RestoreInv, Reload
             PROVE  RestoreInv'
  OBVIOUS
<1>1. /\ nextId \in Nat /\ nextId' \in Nat /\ clock \in Nat /\ clock' \in Nat /\ reloads \in Nat
      /\ DOMAIN rules \subseteq 1 .. nextId /\ Timed
      /\ \A k \in DOMAIN history : history[k].op = "removeRule" => history[k].id \in 1 .. nextId
  BY DEF TypeOK, RestoreInv
<1>2. ASSUME UNCHANGED <<rules, clock>> PROVE Timed'
  BY <1>1, <1>2 DEF Timed
<1>3. ASSUME registered' = registered, NEW ops, Replayable(ops) PROVE Replayable(ops)'
  BY <1>3 DEF Replayable
<1>4. CASE ReloadStart
  <2>1. /\ reload.phase = "idle" /\ reload'.phase = "clearing" /\ reload'.todo = history
        /\ reloads' = reloads + 1 /\ UNCHANGED <<rules, nextId, clock, history, registered, clean>>
    BY <1>4 DEF ReloadStart, Idle, policy, expected
  <2>2. clean /\ reloads' <= 1 => reloads = 0 /\ Replayable(history)
    BY <1>1, <2>1 DEF RestoreInv
  <2>3. clean' /\ reloads' <= 1 => Replayable(reload.todo)'
    BY <2>1, <2>2 DEF Replayable
  <2>4. clean' /\ reloads' <= 1 => \A e \in registered' : e.id \in 1 .. nextId'
    BY <1>1, <2>1, <2>2 DEF RestoreInv
  <2> QED
    BY <1>1, <1>2, <2>1, <2>3, <2>4 DEF RestoreInv
\* Until the replay, what was copied is kept.
<1>5. ASSUME reload.phase \in {"clearing", "loading", "replacing"},
             reload'.phase \in {"loading", "replacing", "building"},
             reload'.todo = reload.todo, nextId' >= nextId, Timed',
             history' = history \/ history' = <<>>,
             UNCHANGED <<registered, clean, reloads>>
      PROVE  RestoreInv'
  <2>1. clean /\ reloads <= 1 => Replayable(reload.todo) /\ \A e \in registered : e.id \in 1 .. nextId
    BY <1>5 DEF RestoreInv
  <2>2. clean' /\ reloads' <= 1 => Replayable(reload.todo)' /\ \A e \in registered' : e.id \in 1 .. nextId'
    <3>1. Replayable(reload.todo) => Replayable(reload.todo)'
      BY <1>5 DEF Replayable
    <3> HIDE DEF Replayable
    <3> QED
      BY <1>1, <1>5, <2>1, <3>1
  <2>3. \A k \in DOMAIN history' : history'[k].op = "removeRule" => history'[k].id \in 1 .. nextId'
    BY <1>1, <1>5
  <2> QED
    BY <1>5, <2>2, <2>3 DEF RestoreInv
<1>6. CASE ReloadLoad
  <2>1. /\ reload.phase = "clearing" /\ reload'.phase = "loading" /\ reload'.todo = reload.todo
        /\ UNCHANGED <<rules, nextId, clock, history, registered, clean, reloads>>
    BY <1>6 DEF ReloadLoad, TypeOK, policy, expected
  <2> QED
    BY <1>1, <1>2, <1>5, <2>1
<1>7. CASE ReplaceApiManager
  <2>1. /\ reload.phase = "loading" /\ reload'.phase = "replacing" /\ reload'.todo = reload.todo
        /\ history' = <<>>
        /\ UNCHANGED <<rules, nextId, clock, registered, clean, reloads>>
    BY <1>7 DEF ReplaceApiManager, TypeOK, policy, expected
  <2> QED
    BY <1>1, <1>2, <1>5, <2>1
<1>8. CASE ReplacePermissionManager
  <2>1. /\ reload.phase = "replacing" /\ reload'.phase = "building" /\ reload'.todo = reload.todo
        /\ UNCHANGED <<history, registered, clean, reloads>>
    BY <1>8 DEF ReplacePermissionManager, TypeOK, expected
  <2>2. DOMAIN rules' = nextId + 1 .. nextId' /\ nextId' >= nextId
    BY <1>8, NewManager
  <2>3. Timed'
    <3>1. Owned(ConfigRules, NoModule) \in Seq(EntrySpecs) /\ Owned(BuiltinRules, Builtin) \in Seq(EntrySpecs)
      BY OwnedType, RulesAssumption DEF Owners
    <3>2. Owned(ConfigRules, NoModule) \o Owned(BuiltinRules, Builtin) \in Seq(EntrySpecs)
      BY <3>1
    <3>3. \A i \in nextId + 1 .. nextId' : rules'[i].at \in clock + 1 .. clock'
      BY <1>8, <3>2, RegisterTimes DEF ReplacePermissionManager
    <3> QED
      BY <1>1, <2>2, <3>3 DEF Timed
  <2> QED
    BY <1>5, <2>1, <2>2, <2>3
<1>9. CASE BuildFails \/ ReplayRefused
  <2>1. reload'.phase = "idle" /\ UNCHANGED <<rules, nextId, clock, history>>
    BY <1>9 DEF BuildFails, ReplayRefused, Idle, policy
  <2>2. clean' = FALSE
    BY <1>9, RefusedIsDisturbed DEF BuildFails
  <2> QED
    BY <1>1, <1>2, <2>1, <2>2 DEF RestoreInv
<1>10. CASE BuildDone
  <2>1. /\ reload.phase = "building" /\ reload'.phase = "replaying" /\ reload'.todo = reload.todo
        /\ UNCHANGED <<rules, nextId, clock, history, registered, clean, reloads>>
    BY <1>10 DEF BuildDone, TypeOK, policy, expected
  <2>2. ASSUME clean, reloads <= 1
        PROVE  PartlyBack(reload.todo) /\ \A e \in registered : e.id \in 1 .. nextId
    <3>1. Replayable(reload.todo) /\ \A e \in registered : e.id \in 1 .. nextId
      BY <2>1, <2>2 DEF RestoreInv
    <3>2. \A e \in registered : Pending(reload.todo, e) /\ ~Removes(reload.todo, e.id) /\ e.id \notin DOMAIN rules
      BY <2>1, <3>1 DEF Replayable, Pending, IdsInv, PendingIdsFree
    <3> QED
      BY <3>1, <3>2 DEF PartlyBack, Replayable, InOrder
  <2>3. PartlyBack(reload.todo)' = PartlyBack(reload.todo)
    BY <2>1 DEF PartlyBack, InOrder, Back
  <2> HIDE DEF PartlyBack
  <2> QED
    BY <1>1, <1>2, <2>1, <2>2, <2>3 DEF RestoreInv
<1>11. ASSUME NEW gap, Advance(gap) PROVE reload'.todo = Tail(reload.todo) /\ reload'.phase = reload.phase
  BY <1>11 DEF Advance, TypeOK
\* One operation of the replay: it registers new rules, of which only that
\* of an addRule may be one that the host waits for.
<1>12. ASSUME reload.phase = "replaying", reload'.phase = "replaying",
              reload.todo # <<>>, reload'.todo = Tail(reload.todo), Grown,
              UNCHANGED <<history, registered, clean, reloads>>,
              nextId' >= nextId, clock' >= clock,
              \A e \in registered : e.id \in DOMAIN rules /\ ~Removes(reload.todo, e.id) =>
                  e.id \in DOMAIN rules' /\ rules'[e.id] = rules[e.id],
              \A e \in registered : e.id \in 1 .. nextId /\ e.id \notin DOMAIN rules /\ e.id \in DOMAIN rules' =>
                  /\ Head(reload.todo).op = "addRule" /\ e.id = Head(reload.todo).id
                  /\ rules'[e.id].at = clock + 1 /\ rules'[e.id].rule = Head(reload.todo).rule,
              \A e \in registered : e.id \notin DOMAIN rules' =>
                  ~(Head(reload.todo).op = "addRule" /\ e.id = Head(reload.todo).id)
       PROVE  RestoreInv'
  <2>1. Timed'
    BY <1>1, <1>12, GrownTimed
  <2>2. \A k \in DOMAIN history' : history'[k].op = "removeRule" => history'[k].id \in 1 .. nextId'
    BY <1>1, <1>12
  <2>3. ASSUME clean, reloads <= 1
        PROVE  (\A e \in registered : e.id \in 1 .. nextId') /\ PartlyBack(reload.todo)'
    <3>1. PartlyBack(reload.todo) /\ \A e \in registered : e.id \in 1 .. nextId
      BY <1>12, <2>3 DEF RestoreInv
    <3>2. Increasing(reload.todo)
      BY <3>1 DEF PartlyBack
    <3>0. PICK left : left = Tail(reload.todo)
      OBVIOUS
    <3>3. Increasing(left)
      BY <1>12, <3>2, <3>0, TailLeft
    <3>4. ASSUME NEW e \in registered, e.id \in DOMAIN rules
          PROVE  /\ Back(e)' /\ e.id \in DOMAIN rules' /\ rules'[e.id] = rules[e.id]
                 /\ \A k \in DOMAIN left : left[k].op = "addRule" => e.id < left[k].id
      <4>1. /\ Back(e) /\ ~Removes(reload.todo, e.id)
            /\ \A k \in DOMAIN reload.todo : reload.todo[k].op = "addRule" => e.id < reload.todo[k].id
        BY <3>1, <3>4 DEF PartlyBack
      <4>2. e.id \in DOMAIN rules' /\ rules'[e.id] = rules[e.id]
        BY <1>12, <3>4, <4>1
      <4>3. Back(e)'
        BY <1>1, <1>12, <4>1, <4>2, StillBack
      <4>4. \A k \in DOMAIN left : left[k].op = "addRule" => e.id < left[k].id
        BY <1>12, <3>2, <4>1, <3>0, TailLeft
      <4> QED
        BY <4>2, <4>3, <4>4
    <3>5. ASSUME NEW e \in registered, e.id \notin DOMAIN rules, e.id \in DOMAIN rules'
          PROVE  /\ Back(e)' /\ rules'[e.id].at = clock + 1 /\ Head(reload.todo).op = "addRule"
                 /\ e.id = Head(reload.todo).id
                 /\ \A k \in DOMAIN left : left[k].op = "addRule" => e.id < left[k].id
      <4>1. /\ Head(reload.todo).op = "addRule" /\ e.id = Head(reload.todo).id
            /\ rules'[e.id].at = clock + 1 /\ rules'[e.id].rule = Head(reload.todo).rule
        BY <1>12, <3>1, <3>5
      <4>2. \A k \in DOMAIN left : left[k].op = "addRule" => e.id < left[k].id
        BY <1>12, <3>2, <4>1, <3>0, TailLeft
      <4>3. rules'[e.id].rule = e.rule
        <5>1. PICK k \in DOMAIN reload.todo :
                 reload.todo[k].op = "addRule" /\ reload.todo[k].id = e.id /\ reload.todo[k].rule = e.rule
          BY <3>1, <3>5 DEF PartlyBack, Pending
        <5>2. 1 \in DOMAIN reload.todo /\ Head(reload.todo) = reload.todo[1]
          BY <1>12, TodoType
        <5>3. k = 1
          BY <4>1, <5>1, <5>2 DEF IdsInv, Distinct
        <5> QED
          BY <4>1, <5>1, <5>2, <5>3
      <4>4. ASSUME NEW i \in DOMAIN rules', rules'[i].owner = Builtin PROVE rules'[i].at < clock + 1
        <5>1. i \in DOMAIN rules /\ rules'[i] = rules[i]
          BY <1>12, <4>4 DEF Grown
        <5> QED
          BY <1>1, <5>1 DEF Timed, TypeOK, Entries
      <4> QED
        BY <3>5, <4>1, <4>2, <4>3, <4>4 DEF Back
    <3>6. ASSUME NEW e \in registered, e.id \notin DOMAIN rules'
          PROVE  Pending(left, e)
      <4>1. e.id \notin DOMAIN rules
        BY <3>4, <3>6
      <4>2. Pending(reload.todo, e)
        BY <3>1, <4>1 DEF PartlyBack
      <4> QED
        BY <1>12, <3>2, <3>6, <4>2, <3>0, TailLeft
    <3>7. \A e \in registered : ~Removes(left, e.id)
      BY <1>12, <3>1, <3>2, <3>0, TailLeft DEF PartlyBack
    <3>8. InOrder'
      <4> SUFFICES ASSUME NEW e \in registered, NEW f \in registered, f.id < e.id,
                          e.id \in DOMAIN rules', f.id \in DOMAIN rules'
                   PROVE  rules'[f.id].at < rules'[e.id].at
        BY <1>12 DEF InOrder
      <4>1. CASE e.id \in DOMAIN rules /\ f.id \in DOMAIN rules
        BY <3>1, <3>4, <4>1 DEF PartlyBack, InOrder
      <4>2. CASE e.id \notin DOMAIN rules /\ f.id \in DOMAIN rules
        <5>1. rules'[f.id].at <= clock /\ rules'[f.id].at \in Nat
          BY <1>1, <3>4, <4>2 DEF Timed, TypeOK, Entries
        <5> QED
          BY <1>1, <3>5, <4>2, <5>1
      <4>3. CASE e.id \in DOMAIN rules /\ f.id \notin DOMAIN rules
        <5>1. Head(reload.todo).op = "addRule" /\ f.id = Head(reload.todo).id
          BY <3>5, <4>3
        <5>2. 1 \in DOMAIN reload.todo /\ Head(reload.todo) = reload.todo[1]
          BY <1>12, TodoType
        <5>3. e.id < f.id
          BY <3>1, <4>3, <5>1, <5>2 DEF PartlyBack
        <5> QED
          BY <1>1, <3>1, <5>3
      <4>4. CASE e.id \notin DOMAIN rules /\ f.id \notin DOMAIN rules
        <5>1. e.id = f.id
          BY <3>5, <4>4
        <5> QED
          BY <1>1, <3>1, <5>1
      <4> QED
        BY <4>1, <4>2, <4>3, <4>4
    <3>9. \A e \in registered : e.id \in 1 .. nextId'
      BY <1>1, <1>12, <3>1
    <3>10. reload'.todo = left /\ registered' = registered
      BY <1>12, <3>0
    <3> HIDE DEF Increasing, Back, Pending, Removes
    <3>11. PartlyBack(left)'
      BY <3>3, <3>4, <3>5, <3>6, <3>7, <3>8, <3>10 DEF PartlyBack
    <3> QED
      BY <3>9, <3>10, <3>11 DEF PartlyBack
  <2> HIDE DEF PartlyBack
  <2> QED
    BY <1>12, <2>1, <2>2, <2>3 DEF RestoreInv
<1>13. CASE ReplayAdd
  <2> DEFINE m == Head(reload.todo).component
  <2>1. /\ reload.todo # <<>> /\ reload.phase = "replaying" /\ m \in Modules
        /\ Head(reload.todo).op = "add"
    BY <1>13, TodoType, OperationShape DEF ReplayAdd, Replaying
  <2>2. /\ DOMAIN rules' = DOMAIN rules \cup (nextId + 1 .. nextId') /\ nextId' >= nextId
        /\ Grown /\ clock' >= clock /\ \A i \in DOMAIN rules : rules'[i] = rules[i]
    BY <1>13, <2>1, ShorthandRules, ShorthandTimes DEF ReplayAdd
  <2>3. reload'.todo = Tail(reload.todo) /\ reload'.phase = "replaying"
    BY <1>11, <1>13, <2>1 DEF ReplayAdd
  <2>4. UNCHANGED <<history, registered, clean, reloads>>
    BY <1>13 DEF ReplayAdd, expected
  <2>5. \A i \in 1 .. nextId : i \notin nextId + 1 .. nextId'
    BY <1>1
  <2> QED
    BY <1>12, <2>1, <2>2, <2>3, <2>4, <2>5
<1>14. CASE ReplayAddRule
  <2> DEFINE op == Head(reload.todo)
  <2>1. /\ reload.todo # <<>> /\ reload.phase = "replaying" /\ op.op = "addRule"
        /\ rules' = Put(rules, op.id, [rule |-> op.rule, owner |-> NoModule, at |-> clock + 1])
        /\ clock' = clock + 1
        /\ UNCHANGED <<nextId, history, registered, clean, reloads>>
    BY <1>14 DEF ReplayAddRule, Replaying, expected
  <2>2. reload'.todo = Tail(reload.todo) /\ reload'.phase = "replaying"
    BY <1>11, <1>14, <2>1 DEF ReplayAddRule
  <2>3. op.id \notin DOMAIN rules
    BY <2>1, TodoType DEF IdsInv, PendingIdsFree
  <2> HIDE DEF op
  <2>4. /\ DOMAIN rules' = DOMAIN rules \cup {op.id}
        /\ rules'[op.id] = [rule |-> op.rule, owner |-> NoModule, at |-> clock + 1]
        /\ \A i \in DOMAIN rules : rules'[i] = rules[i]
    BY <2>1, <2>3 DEF Put
  <2>5. clock + 1 \in clock + 1 .. clock' /\ clock' >= clock /\ nextId' >= nextId
    BY <1>1, <2>1
  <2>6. Grown
    BY <2>4, <2>5, OwnersAssumption DEF Grown
  <2> QED
    BY <1>12, <2>1, <2>2, <2>4, <2>5, <2>6 DEF op
<1>15. CASE ReplayRemoveRule
  <2>1. /\ reload.todo # <<>> /\ reload.phase = "replaying" /\ Head(reload.todo).op = "removeRule"
        /\ rules' = Without(rules, Head(reload.todo).id)
        /\ UNCHANGED <<nextId, clock, history, registered, clean, reloads>>
    BY <1>15 DEF ReplayRemoveRule, Replaying, expected
  <2>2. reload'.todo = Tail(reload.todo) /\ reload'.phase = "replaying"
    BY <1>11, <1>15, <2>1 DEF ReplayRemoveRule
  <2>3. /\ DOMAIN rules' = DOMAIN rules \ {Head(reload.todo).id}
        /\ \A i \in DOMAIN rules' : rules'[i] = rules[i]
    BY <2>1, RemovalType
  <2>4. Grown /\ clock' >= clock /\ nextId' >= nextId
    BY <1>1, <2>1, <2>3 DEF Grown
  <2>5. \A id : ~Removes(reload.todo, id) => id # Head(reload.todo).id
    BY <2>1, TodoType DEF Removes
  <2> QED
    BY <1>12, <2>1, <2>2, <2>3, <2>4, <2>5
<1>16. CASE ReloadEnd
  <2>1. /\ reload.phase = "replaying" /\ reload.todo = <<>>
        /\ reload'.phase = "idle" /\ reload'.todo = <<>>
        /\ UNCHANGED <<rules, nextId, clock, history, registered, clean, reloads>>
    BY <1>16 DEF ReloadEnd, Idle, expected
  <2>2. ASSUME clean, reloads <= 1
        PROVE  AllBack /\ \A e \in registered : e.id \in 1 .. nextId
    <3>1. PartlyBack(reload.todo) /\ \A e \in registered : e.id \in 1 .. nextId
      BY <2>1, <2>2 DEF RestoreInv
    <3>2. \A e : ~Pending(reload.todo, e)
      BY <2>1 DEF Pending
    <3> QED
      BY <3>1, <3>2 DEF PartlyBack, AllBack
  <2>3. AllBack' = AllBack
    BY <2>1 DEF AllBack, InOrder, Back
  <2>4. history = <<>> \/ ~clean
    BY <2>1 DEF GoneInv
  <2> QED
    BY <1>1, <1>2, <2>1, <2>2, <2>3, <2>4 DEF RestoreInv
<1> QED
  BY <1>4, <1>6, <1>7, <1>8, <1>9, <1>10, <1>13, <1>14, <1>15, <1>16 DEF Reload

-----------------------------------------------------------------------------
(* The theorems.                                                           *)

\* The inductive invariant: types, the ids of recorded rules, the cache, the
\* place of the seal, what is left of removed rules and where the registered
\* ones are.
IInv == TypeOK /\ IdsInv /\ CacheInv /\ SealInv /\ GoneInv /\ RestoreInv

LEMMA InitInv == Init => IInv
<1>1. Init => SealInv
  BY DEF Init, SealInv
<1> QED
  BY <1>1, InitType, InitIds, InitCache, InitGone, InitRestore DEF IInv

LEMMA NextInv == IInv /\ [Next]_vars => IInv'
<1> SUFFICES ASSUME IInv, [Next]_vars PROVE IInv'
  OBVIOUS
<1>1. CASE Next
  <2>1. Issued(reload.todo)
    BY DEF IInv, IdsInv
  <2>2. TypeOK' /\ IdsInv' /\ GoneInv'
    BY <1>1, <2>1, HostType, ReloadType, HostIds, ReloadIds, HostGone, ReloadGone DEF IInv, Next
  <2>3. CacheInv' /\ SealInv'
    BY <1>1, NextCache, NextSeal DEF IInv
  <2>4. RestoreInv'
    BY <1>1, <2>2, HostRestore, ReloadRestore DEF IInv, Next
  <2> QED
    BY <2>2, <2>3, <2>4 DEF IInv
<1>2. CASE UNCHANGED vars
  <2> USE <1>2 DEF vars, policy, expected
  <2>1. TypeOK'
    BY DEF IInv, TypeOK
  <2>2. IdsInv'
    BY DEF IInv, IdsInv, Issued, Distinct, PendingIdsFree
  <2>3. CacheInv'
    BY SameCache DEF IInv
  <2>4. SealInv'
    BY DEF IInv, SealInv
  <2>5. GoneInv'
    BY DEF IInv, GoneInv
  <2>6. RestoreInv'
    <3>1. /\ Timed' = Timed /\ AllBack' = AllBack /\ Replayable(history)' = Replayable(history)
          /\ Replayable(reload.todo)' = Replayable(reload.todo)
          /\ PartlyBack(reload.todo)' = PartlyBack(reload.todo)
      BY DEF Timed, AllBack, InOrder, Back, Replayable, PartlyBack
    <3> QED
      BY <3>1 DEF IInv, RestoreInv
  <2> QED
    BY <2>1, <2>2, <2>3, <2>4, <2>5, <2>6 DEF IInv
<1> QED
  BY <1>1, <1>2

THEOREM SpecInv == Spec => []IInv
BY InitInv, NextInv, PTL DEF Spec

\* Every variable of the manager holds what the code puts there.
THEOREM Types == Spec => []TypeOK
BY SpecInv, PTL DEF IInv

\* checkAccess() and enforceAccess() answer alike with and without the cache.
THEOREM CacheIsTransparent == Spec => []AnswersCurrent
<1>1. IInv => AnswersCurrent
  BY CacheAnswers DEF IInv
<1> QED
  BY <1>1, SpecInv, PTL

\* The replay never overwrites a rule of the new manager.
THEOREM ReplayOverwritesNothing == Spec => []PendingIdsFree
<1>1. IInv => PendingIdsFree
  BY DEF IInv, IdsInv
<1> QED
  BY <1>1, SpecInv, PTL

\* seal() outlives any number of undisturbed full reloads.
THEOREM SealIsKept == Spec => []SealOutlivesReload
<1>1. IInv => SealOutlivesReload
  BY DEF IInv, SealInv, SealOutlivesReload
<1> QED
  BY <1>1, SpecInv, PTL

\* An id that removeRule() removed stays unused, whatever is reloaded.
THEOREM RemovedIdsAreNotReused == Spec => []RemovedIdsStayGone
<1>1. IInv => RemovedIdsStayGone
  BY GoneIsGone DEF IInv
<1> QED
  BY <1>1, SpecInv, PTL

\* The first undisturbed full reload puts every rule of addRule() back: under
\* its id, after the built-in rules and in the order of registration.
THEOREM FirstReloadRestoresRules == Spec => []ReloadRestoresRules
<1>1. IInv => ReloadRestoresRules
  BY RestoreRestores DEF IInv
<1> QED
  BY <1>1, SpecInv, PTL

\* While the manager is sealed, no operation and no replay changes its rules
\* or its switch, an api.add() refused half way included.
THEOREM SealFreezesPolicy == Spec => SealedPolicyFrozen
<1>1. ASSUME TypeOK, Next, sealed, sealed' PROVE rules' = rules /\ enabled' = enabled
  <2>1. CASE Host
    <3>1. ASSUME NEW m \in Modules, AddComponent(m) PROVE rules' = rules /\ enabled' = enabled
      BY <1>1, <3>1 DEF AddComponent
    <3>2. ASSUME NEW p, NEW c, Ask(p, c) PROVE rules' = rules /\ enabled' = enabled
      BY <3>2 DEF Ask
    <3>3. CASE Seal
      BY <3>3 DEF Seal
    <3> QED
      BY <1>1, <2>1, <3>1, <3>2, <3>3 DEF Host, AddRule, RemoveRule, SetEnabled
  <2>2. CASE ReplayAdd
    <3> DEFINE m == Head(reload.todo).component
    <3>1. m \in Modules /\ Register(rules, Owned(Shorthand[m], m)) /\ Shorthand[m] = <<>>
      BY <1>1, <2>2, TodoType, OperationShape DEF ReplayAdd, Replaying
    <3> QED
      BY <1>1, <2>2, <3>1, ShorthandRules DEF ReplayAdd
  <2>3. CASE ReplacePermissionManager \/ ReplayAddRule \/ ReplayRemoveRule
    BY <1>1, <2>3 DEF ReplacePermissionManager, ReplayAddRule, ReplayRemoveRule
  <2>4. CASE \/ ReloadStart \/ ReloadLoad \/ ReplaceApiManager \/ BuildFails \/ BuildDone
             \/ ReplayRefused \/ ReloadEnd
    BY <2>4 DEF ReloadStart, ReloadLoad, ReplaceApiManager, BuildFails, BuildDone, ReplayRefused,
       ReloadEnd, policy
  <2> QED
    BY <1>1, <2>1, <2>2, <2>3, <2>4 DEF Next, Reload
<1>2. IInv /\ [Next]_vars => [sealed /\ sealed' => rules' = rules /\ enabled' = enabled]_vars
  BY <1>1 DEF IInv, vars, policy
<1> QED
  BY <1>2, SpecInv, PTL DEF Spec, SealedPolicyFrozen
=============================================================================
