--------------------------- MODULE SubnetPolicyProofs --------------------------
(***************************************************************************)
(* What SubnetPolicy promises about the rules and their table, for any      *)
(* number of requests, rules, crashes and late statements.                  *)
(***************************************************************************)
EXTENDS SubnetPolicy, FiniteSetTheorems, WellFoundedInduction, TLAPS

USE RequestAssumption

LEMMA KeyOfRule == ASSUME NEW rule \in Rule PROVE KeyOf(rule) \in Key
BY DEF Key

(* The order of start-up determines a row for each key with a row.          *)
LEMMA RestoredIsARow ==
    ASSUME NEW table, NEW k \in Key
    PROVE  \/ /\ Restored(table, k) = "none"
              /\ \A rule \in Spellings(k) : table[rule] = "none"
           \/ \E rule \in Spellings(k) :
                 table[rule] # "none" /\ Restored(table, k) = table[rule]
<1> DEFINE stored == {rule \in Spellings(k) : table[rule] # "none"}
           IsLast(rule) == \A other \in stored : other.network <= rule.network
<1>1. CASE stored = {}
  BY <1>1 DEF Restored
<1>2. CASE stored # {}
  <2> DEFINE top == 2^Width
             below == {top - rule.network : rule \in stored}
             less == OpToRel(<, Nat)
  <2>1. top \in Nat
    BY RuleAssumption
  <2>2. \A rule \in Rule : rule.network \in Nat /\ top - rule.network \in Nat
    <3> SUFFICES ASSUME NEW rule \in Rule
                 PROVE  rule.network \in Nat /\ top - rule.network \in Nat
      OBVIOUS
    <3>1. rule.network \in 0..(top - 1)
      BY RuleAssumption
    <3> HIDE DEF top
    <3> QED BY <2>1, <3>1
  <2>3. below \subseteq Nat /\ below # {}
    BY <1>2, <2>2 DEF Spellings
  <2>4. PICK m \in below : \A n \in below : <<n, m>> \notin less
    <3> HIDE DEF below, less
    <3>1. IsWellFoundedOn(less, Nat)
      BY NatLessThanWellFounded DEF less
    <3> QED BY <2>3, <3>1, WFMin
  <2>5. \A n \in below : m <= n
    <3>1. less = {pair \in Nat \X Nat : pair[1] < pair[2]}
      BY DEF OpToRel
    <3> HIDE DEF less, below
    <3>2. \A n \in below : n \in Nat /\ m \in Nat /\ ~(n < m)
      BY <2>3, <2>4, <3>1
    <3> QED BY <3>2
  <2>6. PICK last \in stored : m = top - last.network
    OBVIOUS
  <2>7. IsLast(last)
    <3> SUFFICES ASSUME NEW other \in stored PROVE other.network <= last.network
      OBVIOUS
    <3>1. top - last.network <= top - other.network
      BY <2>5, <2>6
    <3>2. other \in Rule /\ last \in Rule
      BY DEF Spellings
    <3> HIDE DEF top
    <3> QED BY <2>1, <2>2, <3>1, <3>2
  <2>8. (CHOOSE rule \in stored : IsLast(rule)) \in stored
    <3> HIDE DEF stored, IsLast
    <3> QED BY <2>7
  <2> QED BY <1>2, <2>8 DEF Restored
<1> QED BY <1>1, <1>2

(* A step of request r, with what it leaves of the lock. *)
LEMMA OverIsNoCall ==
    /\ Over.at = "over"
    /\ \A call \in Call : call # Over /\ call.at \in Stage /\ call.rule \in Rule
                          /\ call.action \in Action /\ call.op \in Operation
BY DEF Over, Call, Stage

(* An active request and its key. *)
LEMMA ActiveType ==
    ASSUME TypeOK, NEW r \in Request, Active(r)
    PROVE  /\ up /\ req[r] \in Call
           /\ req[r].at \in Stage /\ req[r].rule \in Rule /\ req[r].action \in Action
           /\ KeyAt(r) \in Key
BY OverIsNoCall, KeyOfRule DEF TypeOK, Active, KeyAt

LEMMA StageIsActive ==
    ASSUME NEW r \in Request, NEW stage \in Stage, AtStage(r, stage)
    PROVE  Active(r)
BY OverIsNoCall DEF AtStage, Active, Stage

LEMMA EndFrees ==
    ASSUME TypeOK, NEW r \in Request, Active(r), End(r), up' = up
    PROVE  /\ req' \in [Request -> Call \cup {Over}]
           /\ lock' \in Request \cup {Nobody}
           /\ \A q \in Request : lock' = q <=> req'[q].at \in {"save", "erase"}
           /\ ~up' => \A q \in Request : ~Active(q)'
<1>1. /\ req'[r] = Over /\ \A q \in Request \ {r} : req'[q] = req[q]
      /\ req' \in [Request -> Call \cup {Over}]
  BY DEF TypeOK, End
<1> QED BY <1>1, OverIsNoCall, ActiveType DEF TypeOK, End, Active

LEMMA HoldsTakes ==
    ASSUME TypeOK, NEW r \in Request, Active(r), lock = Nobody, up' = up,
           NEW stage \in {"save", "erase"}, Holds(r, stage)
    PROVE  /\ req' \in [Request -> Call \cup {Over}]
           /\ lock' \in Request \cup {Nobody}
           /\ \A q \in Request : lock' = q <=> req'[q].at \in {"save", "erase"}
           /\ ~up' => \A q \in Request : ~Active(q)'
<1>1. req[r] \in Call /\ up
  BY ActiveType
<1>2. /\ req'[r] = [req[r] EXCEPT !.at = stage] /\ \A q \in Request \ {r} : req'[q] = req[q]
      /\ DOMAIN req' = Request
  BY DEF TypeOK, Holds
<1>3. req'[r] \in Call /\ req'[r].at = stage
  BY <1>1, <1>2 DEF Call, Stage
<1>4. req' \in [Request -> Call \cup {Over}]
  BY <1>2, <1>3 DEF TypeOK, Holds
<1> QED BY <1>1, <1>2, <1>3, <1>4 DEF TypeOK, Holds

LEMMA TypeStep == TypeOK /\ [Next]_vars => TypeOK'
<1> SUFFICES ASSUME TypeOK, [Next]_vars PROVE TypeOK'
  OBVIOUS
<1> USE OverIsNoCall DEF TypeOK
<1>1. ASSUME NEW r \in Request, NEW op \in Operation, NEW rule \in Rule,
             NEW action \in Action, Arrive(r, op, rule, action)
      PROVE  TypeOK'
  <2> DEFINE c == [op |-> op, rule |-> rule, action |-> action, at |-> "lock"]
  <2>1. c \in Call /\ c.at = "lock"
    BY DEF Call, Stage
  <2>2. req'[r] = c /\ \A q \in Request \ {r} : req'[q] = req[q]
    BY <1>1 DEF Arrive
  <2>3. req' \in [Request -> Call \cup {Over}]
    BY <1>1, <2>1 DEF Arrive
  <2> QED BY <1>1, <2>1, <2>2, <2>3 DEF Arrive, Active, Action, history
<1>2. ASSUME NEW r \in Request, Insert(r) PROVE TypeOK'
  <2>1. Active(r) /\ KeyAt(r) \in Key /\ req[r].action \in Action
    BY <1>2, StageIsActive, ActiveType DEF Insert, Stage
  <2>2. CASE End(r)
    BY <1>2, <2>1, <2>2, EndFrees DEF Insert
  <2>3. CASE Holds(r, "save")
    BY <1>2, <2>1, <2>3, HoldsTakes DEF Insert
  <2> QED BY <1>2, <2>2, <2>3 DEF Insert
<1>3. ASSUME NEW r \in Request, Remove(r) PROVE TypeOK'
  <2>1. Active(r) /\ KeyAt(r) \in Key
    BY <1>3, StageIsActive, ActiveType DEF Remove, Stage
  <2>2. CASE End(r)
    BY <1>3, <2>1, <2>2, EndFrees DEF Remove
  <2>3. CASE Holds(r, "erase")
    BY <1>3, <2>1, <2>3, HoldsTakes DEF Remove
  <2> QED BY <1>3, <2>2, <2>3 DEF Remove
<1>4. ASSUME NEW r \in Request, Save(r) PROVE TypeOK'
  <2>1. Active(r) /\ KeyAt(r) \in Key /\ req[r].action \in Action /\ req[r].rule \in Rule
    BY <1>4, StageIsActive, ActiveType DEF Save, Stage
  <2> QED BY <1>4, <2>1, EndFrees DEF Save
<1>5. ASSUME NEW r \in Request, Erase(r) PROVE TypeOK'
  <2>1. Active(r) /\ KeyAt(r) \in Key /\ req[r].rule \in Rule
    BY <1>5, StageIsActive, ActiveType DEF Erase, Stage
  <2> QED BY <1>5, <2>1, EndFrees DEF Erase
<1>6. ASSUME NEW r \in Request, Drop(r) PROVE TypeOK'
  <2>1. KeyAt(r) \in Key /\ req[r].action \in Action /\ req[r].rule \in Rule
    BY <1>6, ActiveType DEF Drop
  <2>2. late' \subseteq Statement
    BY <1>6, <2>1 DEF Drop, Statement
  <2> QED BY <1>6, <2>1, <2>2, EndFrees DEF Drop
<1>7. ASSUME NEW s \in late, RunLate(s) PROVE TypeOK'
  <2>1. s.rule \in Rule /\ s.action \in Action \cup {"none"} /\ KeyOf(s.rule) \in Key
    BY KeyOfRule DEF Statement
  <2> QED BY <1>7, <2>1 DEF RunLate, Active
<1>8. CASE Restore
  <2>1. \A k \in Key : Restored(rows, k) \in Action \cup {"none"}
    BY RestoredIsARow DEF Spellings
  <2> QED BY <1>8, <2>1 DEF Restore, Active
<1>9. CASE Crash
  <2>1. \A q \in Request : req'[q] = Over
    BY <1>9 DEF Crash
  <2>2. crashes' \in 0..MaxCrashes
    BY <1>9, BoundAssumption DEF Crash
  <2> QED BY <1>9, <2>1, <2>2 DEF Crash, history, Active
<1>10. CASE UNCHANGED vars
  BY <1>10 DEF vars, history, Active
<1> QED BY <1>1, <1>2, <1>3, <1>4, <1>5, <1>6, <1>7, <1>8, <1>9, <1>10 DEF Next

LEMMA InitTyped == Init => TypeOK
<1> SUFFICES ASSUME Init PROVE TypeOK
  OBVIOUS
<1>1. \A r \in Request : req[r] = Over /\ lock # r
  BY DEF Init
<1>2. /\ lock \in Request \cup {Nobody}
      /\ \A r \in Request : lock = r <=> req[r].at \in {"save", "erase"}
      /\ \A r \in Request : ~Active(r)
  BY <1>1, OverIsNoCall DEF Init, Active
<1>3. up \in BOOLEAN
  BY Zenon DEF Init
<1>4. crashes \in 0..MaxCrashes
  BY BoundAssumption DEF Init
<1> QED BY <1>2, <1>3, <1>4 DEF Init, TypeOK

(***************************************************************************)
(* Every reachable state is well typed, and the map's lock is held by the   *)
(* request between its two writes and by nobody else (the write guards of   *)
(* modify_subnet_matching and remove_subnet_matching).                      *)
(***************************************************************************)
THEOREM TypeCorrect == Spec => []TypeOK
BY InitTyped, TypeStep, PTL DEF Spec

--------------------------------------------------------------------------------
(***************************************************************************)
(* The rule in force, the row and the answer                                *)
(***************************************************************************)

LEMMA RowOfKey ==
    ASSUME UniqueSpelling, NEW table, NEW rule \in Rule
    PROVE  Restored(table, KeyOf(rule)) = table[rule]
<1>1. Spellings(KeyOf(rule)) = {rule}
  BY DEF UniqueSpelling, Spellings
<1>2. KeyOf(rule) \in Key
  BY KeyOfRule
<1> QED BY <1>1, <1>2, RestoredIsARow

LEMMA RowWritten ==
    ASSUME UniqueSpelling, DOMAIN rows = Rule, NEW rule \in Rule, NEW row,
           rows' = [rows EXCEPT ![rule] = row]
    PROVE  \A k \in Key : Restored(rows', k) =
               IF k = KeyOf(rule) THEN row ELSE Restored(rows, k)
<1> SUFFICES ASSUME NEW k \in Key
             PROVE  Restored(rows', k) = IF k = KeyOf(rule) THEN row ELSE Restored(rows, k)
  OBVIOUS
<1>1. PICK spelling \in Rule : k = KeyOf(spelling)
  BY DEF Key
<1>2. Restored(rows', k) = rows'[spelling] /\ Restored(rows, k) = rows[spelling]
  BY <1>1, RowOfKey
<1>3. spelling = rule <=> k = KeyOf(rule)
  BY <1>1 DEF UniqueSpelling
<1> QED BY <1>2, <1>3

(* What the request that holds the lock has made of its key. *)
Pending(r) == IF AtStage(r, "save") THEN req[r].action ELSE "none"

(* An acknowledged key is no key somebody is changing. *)
Agreement(k) ==
    /\ acked[k] # "unknown" =>
          /\ Restored(rows, k) = acked[k]
          /\ up => trie[k] = acked[k]
          /\ lock # Nobody => KeyAt(lock) # k
    /\ Settled(k) /\ trie[k] # "none" /\ k \notin unstored => Restored(rows, k) = trie[k]

HolderMeansIt == lock # Nobody => trie[KeyAt(lock)] = Pending(lock)

StoreInv ==
    /\ TypeOK
    /\ UniqueSpelling => HolderMeansIt /\ \A k \in Key : Agreement(k)

(* The effect of the end of a request on what the invariant looks at.       *)
LEMMA EndEffect ==
    ASSUME TypeOK, NEW r \in Request, Active(r), End(r)
    PROVE  \/ lock = r /\ lock' = Nobody
           \/ /\ lock # r /\ lock' = lock
              /\ lock # Nobody => KeyAt(lock)' = KeyAt(lock) /\ Pending(lock)' = Pending(lock)
BY DEF TypeOK, End, KeyAt, Pending, AtStage

LEMMA HoldsEffect ==
    ASSUME TypeOK, NEW r \in Request, Active(r), NEW stage \in {"save", "erase"}, Holds(r, stage)
    PROVE  /\ lock' = r /\ r # Nobody
           /\ KeyAt(lock)' = KeyAt(r)
           /\ Pending(lock)' = IF stage = "save" THEN req[r].action ELSE "none"
<1>1. req[r] \in Call
  BY ActiveType
<1>2. req'[r] = [req[r] EXCEPT !.at = stage]
  BY DEF TypeOK, Holds
<1>3. req'[r].rule = req[r].rule /\ req'[r].action = req[r].action /\ req'[r].at = stage
  BY <1>1, <1>2 DEF Call
<1> QED BY <1>3 DEF Holds, KeyAt, Pending, AtStage

LEMMA HolderStage ==
    ASSUME TypeOK, NEW r \in Request, AtStage(r, "save") \/ AtStage(r, "erase")
    PROVE  lock = r /\ lock # Nobody
BY DEF TypeOK, AtStage

LEMMA StoreStep == StoreInv /\ [Next]_vars => StoreInv'
<1> SUFFICES ASSUME StoreInv, [Next]_vars, UniqueSpelling
             PROVE  HolderMeansIt' /\ \A k \in Key : Agreement(k)'
  BY TypeStep DEF StoreInv, UniqueSpelling
<1>0. TypeOK /\ HolderMeansIt /\ \A k \in Key : Agreement(k)
  BY DEF StoreInv
<1>a. DOMAIN rows = Rule /\ DOMAIN trie = Key /\ DOMAIN acked = Key
  BY <1>0 DEF TypeOK
<1> HIDE DEF StoreInv
<1> USE <1>0
<1> DEFINE Agreed == HolderMeansIt' /\ \A k \in Key : Agreement(k)'
<1>1. ASSUME NEW r \in Request, NEW op \in Operation, NEW rule \in Rule,
             NEW action \in Action, Arrive(r, op, rule, action)
      PROVE  Agreed
  <2>1. lock # r
    BY <1>1, OverIsNoCall DEF Arrive, TypeOK, Active
  <2>2. lock # Nobody => KeyAt(lock)' = KeyAt(lock) /\ Pending(lock)' = Pending(lock)
    BY <1>1, <2>1 DEF Arrive, TypeOK, KeyAt, Pending, AtStage
  <2> QED BY <1>1, <2>2 DEF Arrive, history, HolderMeansIt, Agreement, Settled
<1>2. ASSUME NEW r \in Request, Insert(r) PROVE Agreed
  <2>1. Active(r) /\ KeyAt(r) \in Key /\ req[r].action \in Action /\ lock = Nobody
    BY <1>2, StageIsActive, ActiveType DEF Insert, Stage
  <2>2. CASE End(r) /\ UNCHANGED <<trie, acked>>
    <3>1. lock' = Nobody
      BY <2>1, <2>2, EndEffect
    <3> QED BY <1>2, <2>1, <2>2, <3>1 DEF Insert, HolderMeansIt, Agreement, Settled
  <2>3. CASE /\ Holds(r, "save")
             /\ trie' = [trie EXCEPT ![KeyAt(r)] = req[r].action]
             /\ acked' = [acked EXCEPT ![KeyAt(r)] = "unknown"]
    <3>1. lock' = r /\ r # Nobody /\ KeyAt(lock)' = KeyAt(r) /\ Pending(lock)' = req[r].action
      BY <2>1, <2>3, HoldsEffect
    <3> QED BY <1>2, <1>a, <2>1, <2>3, <3>1 DEF Insert, HolderMeansIt, Agreement, Settled
  <2> QED BY <1>2, <2>2, <2>3 DEF Insert
<1>3. ASSUME NEW r \in Request, Remove(r) PROVE Agreed
  <2>1. Active(r) /\ KeyAt(r) \in Key /\ lock = Nobody
    BY <1>3, StageIsActive, ActiveType DEF Remove, Stage
  <2>2. CASE End(r) /\ UNCHANGED <<trie, acked>>
    <3>1. lock' = Nobody
      BY <2>1, <2>2, EndEffect
    <3> QED BY <1>3, <2>1, <2>2, <3>1 DEF Remove, HolderMeansIt, Agreement, Settled
  <2>3. CASE /\ Holds(r, "erase")
             /\ trie' = [trie EXCEPT ![KeyAt(r)] = "none"]
             /\ acked' = [acked EXCEPT ![KeyAt(r)] = "unknown"]
    <3>1. lock' = r /\ r # Nobody /\ KeyAt(lock)' = KeyAt(r) /\ Pending(lock)' = "none"
      BY <2>1, <2>3, HoldsEffect
    <3> QED BY <1>3, <1>a, <2>1, <2>3, <3>1 DEF Remove, HolderMeansIt, Agreement, Settled
  <2> QED BY <1>3, <2>2, <2>3 DEF Remove
<1>4. ASSUME NEW r \in Request, Save(r) PROVE Agreed
  <2>1. /\ Active(r) /\ KeyAt(r) \in Key /\ req[r].rule \in Rule /\ KeyAt(r) = KeyOf(req[r].rule)
        /\ lock = r /\ lock # Nobody /\ trie[KeyAt(r)] = req[r].action
    BY <1>4, StageIsActive, ActiveType, HolderStage DEF Save, Stage, KeyAt, HolderMeansIt, Pending
  <2>2. lock' = Nobody
    BY <1>4, <2>1, EndEffect DEF Save
  <2>3. CASE /\ rows' = [rows EXCEPT ![req[r].rule] = req[r].action]
             /\ acked' = [acked EXCEPT ![KeyAt(r)] = req[r].action]
             /\ unstored' = unstored \ {KeyAt(r)} /\ trie' = trie
    <3>1. \A k \in Key : Restored(rows', k) =
             IF k = KeyOf(req[r].rule) THEN req[r].action ELSE Restored(rows, k)
      BY <1>a, <2>1, <2>3, RowWritten
    <3> QED BY <1>4, <1>a, <2>1, <2>2, <2>3, <3>1 DEF Save, HolderMeansIt, Agreement, Settled
  <2>4. CASE /\ trie' = [trie EXCEPT ![KeyAt(r)] = "none"]
             /\ UNCHANGED <<rows, acked, unstored>>
    BY <1>4, <1>a, <2>1, <2>2, <2>4 DEF Save, HolderMeansIt, Agreement, Settled
  <2> QED BY <1>4, <2>3, <2>4 DEF Save
<1>5. ASSUME NEW r \in Request, Erase(r) PROVE Agreed
  <2>1. /\ Active(r) /\ KeyAt(r) \in Key /\ req[r].rule \in Rule /\ KeyAt(r) = KeyOf(req[r].rule)
        /\ lock = r /\ lock # Nobody /\ trie[KeyAt(r)] = "none"
    BY <1>5, StageIsActive, ActiveType, HolderStage
       DEF Erase, Stage, KeyAt, HolderMeansIt, Pending, AtStage
  <2>2. lock' = Nobody
    BY <1>5, <2>1, EndEffect DEF Erase
  <2>3. CASE /\ rows' = [rows EXCEPT ![req[r].rule] = "none"]
             /\ acked' = [acked EXCEPT ![KeyAt(r)] = "none"]
    <3>1. \A k \in Key : Restored(rows', k) =
             IF k = KeyOf(req[r].rule) THEN "none" ELSE Restored(rows, k)
      BY <1>a, <2>1, <2>3, RowWritten
    <3> QED BY <1>5, <1>a, <2>1, <2>2, <2>3, <3>1 DEF Erase, HolderMeansIt, Agreement, Settled
  <2>4. CASE UNCHANGED <<rows, acked>>
    BY <1>5, <1>a, <2>1, <2>2, <2>4 DEF Erase, HolderMeansIt, Agreement, Settled
  <2> QED BY <1>5, <2>3, <2>4 DEF Erase
<1>6. ASSUME NEW r \in Request, Drop(r) PROVE Agreed
  <2>1. Active(r) /\ End(r) /\ KeyAt(r) \in Key
    BY <1>6, ActiveType DEF Drop
  <2>2. CASE lock # r
    <3>1. /\ lock' = lock
          /\ lock # Nobody => KeyAt(lock)' = KeyAt(lock) /\ Pending(lock)' = Pending(lock)
      BY <2>1, <2>2, EndEffect
    <3>2. unstored' = unstored
      BY <1>6, <2>2, HolderStage DEF Drop
    <3> QED BY <1>6, <3>1, <3>2 DEF Drop, HolderMeansIt, Agreement, Settled
  <2>3. CASE lock = r
    <3>1. lock' = Nobody /\ lock # Nobody
      BY <2>1, <2>3, EndEffect, RequestAssumption
    <3>2. trie[KeyAt(r)] # "none" => KeyAt(r) \in unstored'
      BY <1>6, <2>3, <3>1 DEF Drop, HolderMeansIt, Pending
    <3> QED BY <1>6, <2>3, <3>1, <3>2 DEF Drop, HolderMeansIt, Agreement, Settled
  <2> QED BY <2>2, <2>3
<1>7. ASSUME NEW s \in late, RunLate(s) PROVE Agreed
  <2>1. s.rule \in Rule /\ KeyOf(s.rule) \in Key
    BY KeyOfRule DEF TypeOK, Statement
  <2>2. \A k \in Key : Restored(rows', k) =
           IF k = KeyOf(s.rule) THEN s.action ELSE Restored(rows, k)
    BY <1>7, <1>a, <2>1, RowWritten DEF RunLate
  <2>3. lock # Nobody => KeyAt(lock)' = KeyAt(lock) /\ Pending(lock)' = Pending(lock)
    BY <1>7 DEF RunLate, KeyAt, Pending, AtStage
  <2> QED BY <1>7, <1>a, <2>1, <2>2, <2>3 DEF RunLate, HolderMeansIt, Agreement, Settled
<1>8. CASE Restore
  <2>1. lock = Nobody
    BY <1>8, OverIsNoCall DEF Restore, TypeOK, Active
  <2> QED BY <1>8, <2>1 DEF Restore, HolderMeansIt, Agreement, Settled
<1>9. CASE Crash
  BY <1>9 DEF Crash, history, HolderMeansIt, Agreement, Settled
<1>10. CASE UNCHANGED vars
  <2>1. lock # Nobody => KeyAt(lock)' = KeyAt(lock) /\ Pending(lock)' = Pending(lock)
    BY <1>10 DEF vars, KeyAt, Pending, AtStage
  <2> QED BY <1>10, <2>1 DEF vars, history, HolderMeansIt, Agreement, Settled
<1> QED BY <1>1, <1>2, <1>3, <1>4, <1>5, <1>6, <1>7, <1>8, <1>9, <1>10 DEF Next

LEMMA InitStored == Init => StoreInv
<1> SUFFICES ASSUME Init PROVE StoreInv
  OBVIOUS
<1>1. TypeOK
  BY InitTyped
<1>2. HolderMeansIt /\ \A k \in Key : Agreement(k)
  BY DEF Init, HolderMeansIt, Agreement, Settled
<1> QED BY <1>1, <1>2 DEF StoreInv

LEMMA StoreInvariant == Spec => []StoreInv
BY InitStored, StoreStep, PTL DEF Spec

(***************************************************************************)
(* An acknowledged rule or deletion stays in force and stored until the     *)
(* rule is changed again, over failures, dropped requests and crashes, as   *)
(* long as every prefix has one spelling.                                   *)
(***************************************************************************)
THEOREM AcknowledgedIsStored == Spec => []AckedSurvives
<1>1. StoreInv => AckedSurvives
  BY DEF StoreInv, AckedSurvives, Agreement
<1> QED BY <1>1, StoreInvariant, PTL

(***************************************************************************)
(* What is in force is in the table, with the same action, but for requests *)
(* that were dropped and their late statements.                             *)
(***************************************************************************)
THEOREM InForceIsStored == Spec => []StoredWhenInForce
<1>1. StoreInv => StoredWhenInForce
  BY DEF StoreInv, StoredWhenInForce, Agreement
<1> QED BY <1>1, StoreInvariant, PTL

--------------------------------------------------------------------------------
(***************************************************************************)
(* The table fits into the trie                                             *)
(***************************************************************************)

LEMMA KeyIsFinite == IsFiniteSet(Key)
<1> DEFINE key == [rule \in Rule |-> KeyOf(rule)]
<1>1. key \in Surjection(Rule, Key)
  BY DEF Surjection, Key
<1> HIDE DEF key
<1> QED BY <1>1, FS_Surjection, RuleAssumption

LEMMA FewerKeys ==
    ASSUME NEW S \in SUBSET Key, NEW T \in SUBSET S
    PROVE  /\ Cardinality(S) \in Nat /\ Cardinality(T) \in Nat
           /\ Cardinality(T) <= Cardinality(S)
<1>1. IsFiniteSet(S) /\ IsFiniteSet(T)
  BY KeyIsFinite, FS_Subset
<1> QED BY <1>1, FS_Subset, FS_CardinalityType

LEMMA StoredMeansRestored ==
    ASSUME NEW table, NEW k
    PROVE  k \in {KeyOf(rule) : rule \in {x \in Rule : table[x] # "none"}}
               <=> k \in Key /\ Restored(table, k) # "none"
<1> DEFINE stored == {KeyOf(rule) : rule \in {x \in Rule : table[x] # "none"}}
<1>1. ASSUME k \in Key PROVE k \in stored <=> Restored(table, k) # "none"
  <2>1. k \in stored <=> \E rule \in Spellings(k) : table[rule] # "none"
    BY DEF Spellings
  <2> HIDE DEF stored
  <2>2. CASE Restored(table, k) = "none" /\ \A rule \in Spellings(k) : table[rule] = "none"
    BY <2>1, <2>2
  <2>3. CASE \E rule \in Spellings(k) : table[rule] # "none" /\ Restored(table, k) = table[rule]
    BY <2>1, <2>3
  <2> QED BY <1>1, <2>2, <2>3, RestoredIsARow
<1>2. k \in stored => k \in Key
  BY DEF Key
<1> QED BY <1>1, <1>2

(* A written row changes what the table has for its key alone.              *)
LEMMA StoredRowsOnly ==
    ASSUME NEW j, NEW row,
           \A k \in Key : Restored(rows', k) = IF k = j THEN row ELSE Restored(rows, k)
    PROVE  /\ StoredKeys' \subseteq StoredKeys \cup {j}
           /\ row = "none" => StoredKeys' \subseteq StoredKeys \ {j}
<1>1. \A k : k \in StoredKeys <=> k \in Key /\ Restored(rows, k) # "none"
  BY StoredMeansRestored DEF StoredKeys
<1>2. \A k : k \in StoredKeys' <=> k \in Key /\ Restored(rows', k) # "none"
  BY StoredMeansRestored DEF StoredKeys
<1> QED BY <1>1, <1>2

(* The rules in force, and the one whose row is about to be erased.         *)
Erasing == lock # Nobody /\ AtStage(lock, "erase")
Claimed == IF Erasing THEN InForce \cup {KeyAt(lock)} ELSE InForce

Fits ==
    /\ up => Cardinality(Claimed) <= MaxEntries
    /\ up => StoredKeys \subseteq Claimed \cup ghosts
    /\ ~up /\ ghosts = {} => Cardinality(StoredKeys) <= MaxEntries

FitInv == StoreInv /\ (UniqueSpelling => Fits)

LEMMA ClaimedAreKeys == TypeOK => Claimed \in SUBSET Key /\ InForce \in SUBSET Key
<1> SUFFICES ASSUME TypeOK PROVE Claimed \in SUBSET Key /\ InForce \in SUBSET Key
  OBVIOUS
<1>1. InForce \in SUBSET Key
  BY DEF InForce
<1>2. Erasing => lock \in Request /\ Active(lock)
  BY StageIsActive DEF TypeOK, Erasing, Stage
<1>3. Erasing => KeyAt(lock) \in Key
  BY <1>2, ActiveType
<1> QED BY <1>1, <1>3 DEF Claimed

(* A step that claims nothing new and leaves behind only what it counts as  *)
(* a ghost.                                                                 *)
LEMMA NoNewClaim ==
    ASSUME TypeOK, up, Fits, up', Claimed' \subseteq Claimed,
           StoredKeys' \subseteq Claimed' \cup ghosts'
    PROVE  Fits'
<1>1. Claimed \in SUBSET Key
  BY ClaimedAreKeys
<1>2. Cardinality(Claimed') <= Cardinality(Claimed) /\ Cardinality(Claimed) \in Nat
      /\ Cardinality(Claimed') \in Nat
  BY <1>1, FewerKeys
<1> QED BY <1>2, BoundAssumption DEF Fits

LEMMA FitStep == FitInv /\ [Next]_vars => FitInv'
<1> SUFFICES ASSUME FitInv, [Next]_vars, UniqueSpelling PROVE Fits'
  BY StoreStep DEF FitInv, UniqueSpelling
<1>0. StoreInv /\ TypeOK /\ Fits /\ HolderMeansIt
  BY DEF FitInv, StoreInv
<1>a. DOMAIN rows = Rule /\ DOMAIN trie = Key
  BY <1>0 DEF TypeOK
<1> HIDE DEF FitInv
<1>1. ASSUME NEW r \in Request, NEW op \in Operation, NEW rule \in Rule,
             NEW action \in Action, Arrive(r, op, rule, action)
      PROVE  Fits'
  <2>1. lock # r
    BY <1>0, <1>1, OverIsNoCall DEF Arrive, TypeOK, Active
  <2>2. lock # Nobody => KeyAt(lock)' = KeyAt(lock)
                         /\ AtStage(lock, "erase")' = AtStage(lock, "erase")
    BY <1>0, <1>1, <2>1 DEF Arrive, TypeOK, KeyAt, AtStage
  <2>3. InForce' = InForce
    BY <1>1 DEF Arrive, InForce
  <2>4. Claimed' = Claimed
    BY <1>1, <2>2, <2>3 DEF Arrive, Claimed, Erasing
  <2> QED BY <1>0, <1>1, <2>4 DEF Arrive, Fits, StoredKeys, history
<1>2. ASSUME NEW r \in Request, Insert(r) PROVE Fits'
  <2>1. Active(r) /\ up /\ KeyAt(r) \in Key /\ lock = Nobody
    BY <1>0, <1>2, StageIsActive, ActiveType DEF Insert, Stage
  <2>2. Claimed = InForce /\ up' = up /\ ghosts' = ghosts /\ StoredKeys' = StoredKeys
    BY <1>2, <2>1 DEF Insert, Claimed, Erasing, StoredKeys
  <2>3. CASE End(r) /\ trie' = trie
    <3>1. lock' = Nobody
      BY <1>0, <2>1, <2>3, EndEffect
    <3>2. Claimed' = Claimed
      BY <2>2, <2>3, <3>1 DEF Claimed, Erasing, InForce
    <3> QED BY <1>0, <2>2, <3>2 DEF Fits
  <2>4. CASE /\ HasRoomFor(KeyAt(r)) /\ Holds(r, "save")
             /\ trie' = [trie EXCEPT ![KeyAt(r)] = req[r].action]
    <3>1. lock' = r /\ ~AtStage(lock, "erase")' /\ req[r].action # "none"
      BY <1>0, <2>1, <2>4, ActiveType DEF Holds, TypeOK, AtStage, Action
    <3>2. Claimed' = InForce \cup {KeyAt(r)}
      <4>1. InForce' = InForce \cup {KeyAt(r)}
        BY <1>a, <2>1, <2>4, <3>1 DEF InForce
      <4> QED BY <3>1, <4>1 DEF Claimed, Erasing
    <3>3. IsFiniteSet(InForce) /\ Cardinality(InForce) \in Nat
      BY <1>0, ClaimedAreKeys, KeyIsFinite, FS_Subset, FS_CardinalityType
    <3>4. Cardinality(Claimed') <= MaxEntries
      <4>1. Cardinality(Claimed') =
               IF KeyAt(r) \in InForce THEN Cardinality(InForce) ELSE Cardinality(InForce) + 1
        BY <3>2, <3>3, FS_AddElement
      <4> QED BY <1>0, <2>1, <2>2, <2>4, <3>3, <4>1, BoundAssumption DEF HasRoomFor, Fits
    <3> QED BY <1>0, <2>1, <2>2, <3>2, <3>4 DEF Fits
  <2> QED BY <1>2, <2>3, <2>4 DEF Insert
<1>3. ASSUME NEW r \in Request, Remove(r) PROVE Fits'
  <2>1. Active(r) /\ up /\ KeyAt(r) \in Key /\ lock = Nobody
    BY <1>0, <1>3, StageIsActive, ActiveType DEF Remove, Stage
  <2>2. Claimed = InForce /\ up' = up /\ ghosts' = ghosts /\ StoredKeys' = StoredKeys
    BY <1>3, <2>1 DEF Remove, Claimed, Erasing, StoredKeys
  <2>3. CASE End(r) /\ trie' = trie
    <3>1. lock' = Nobody
      BY <1>0, <2>1, <2>3, EndEffect
    <3>2. Claimed' = Claimed
      BY <2>2, <2>3, <3>1 DEF Claimed, Erasing, InForce
    <3> QED BY <1>0, <2>2, <3>2 DEF Fits
  <2>4. CASE /\ KeyAt(r) \in InForce /\ Holds(r, "erase")
             /\ trie' = [trie EXCEPT ![KeyAt(r)] = "none"]
    <3>1. lock' = r /\ r # Nobody /\ KeyAt(lock)' = KeyAt(r)
      BY <1>0, <2>1, <2>4, HoldsEffect
    <3>2. AtStage(lock, "erase")'
      BY <1>0, <2>1, <2>4, ActiveType DEF Holds, TypeOK, AtStage, Call
    <3>3. Claimed' = Claimed
      <4>1. InForce' = InForce \ {KeyAt(r)}
        BY <1>a, <2>1, <2>4 DEF InForce
      <4> QED BY <2>2, <2>4, <3>1, <3>2, <4>1 DEF Claimed, Erasing
    <3> QED BY <1>0, <2>2, <3>3 DEF Fits
  <2> QED BY <1>3, <2>3, <2>4 DEF Remove
<1>4. ASSUME NEW r \in Request, Save(r) PROVE Fits'
  <2>1. /\ Active(r) /\ up /\ KeyAt(r) \in Key /\ req[r].rule \in Rule
        /\ KeyAt(r) = KeyOf(req[r].rule) /\ req[r].action # "none"
        /\ lock = r /\ ~AtStage(r, "erase") /\ trie[KeyAt(r)] = req[r].action
    BY <1>0, <1>4, StageIsActive, ActiveType, HolderStage
       DEF Save, Stage, KeyAt, HolderMeansIt, Pending, AtStage, Action
  <2>2. lock' = Nobody
    BY <1>0, <1>4, <2>1, EndEffect DEF Save
  <2>3. Claimed = InForce /\ Claimed' = InForce' /\ KeyAt(r) \in InForce /\ up' = up
    <3>1. KeyAt(r) \in InForce /\ up' = up
      BY <1>4, <2>1 DEF Save, InForce
    <3> QED BY <2>1, <2>2, <3>1 DEF Claimed, Erasing
  <2>4. CASE /\ rows' = [rows EXCEPT ![req[r].rule] = req[r].action]
             /\ ghosts' = ghosts \ {KeyAt(r)} /\ trie' = trie
    <3>1. \A k \in Key : Restored(rows', k) =
             IF k = KeyOf(req[r].rule) THEN req[r].action ELSE Restored(rows, k)
      BY <1>a, <2>1, <2>4, RowWritten
    <3>2. StoredKeys' \subseteq StoredKeys \cup {KeyAt(r)}
      BY <2>1, <3>1, StoredRowsOnly
    <3>3. InForce' = InForce
      BY <2>4 DEF InForce
    <3>4. StoredKeys' \subseteq Claimed' \cup ghosts'
      BY <1>0, <2>1, <2>3, <2>4, <3>2, <3>3 DEF Fits
    <3> QED BY <1>0, <2>1, <2>3, <3>3, <3>4, NoNewClaim
  <2>5. CASE /\ trie' = [trie EXCEPT ![KeyAt(r)] = "none"] /\ rows' = rows
             /\ ghosts' = IF KeyAt(r) \in StoredKeys THEN ghosts \cup {KeyAt(r)} ELSE ghosts
    <3>1. InForce' = InForce \ {KeyAt(r)} /\ StoredKeys' = StoredKeys
      BY <1>a, <2>1, <2>5 DEF InForce, StoredKeys
    <3>2. StoredKeys' \subseteq Claimed' \cup ghosts'
      BY <1>0, <2>1, <2>3, <2>5, <3>1 DEF Fits
    <3> QED BY <1>0, <2>1, <2>3, <3>1, <3>2, NoNewClaim
  <2> QED BY <1>4, <2>4, <2>5 DEF Save
<1>5. ASSUME NEW r \in Request, Erase(r) PROVE Fits'
  <2>1. /\ Active(r) /\ up /\ KeyAt(r) \in Key /\ req[r].rule \in Rule
        /\ KeyAt(r) = KeyOf(req[r].rule) /\ lock = r
    BY <1>0, <1>5, StageIsActive, ActiveType, HolderStage DEF Erase, Stage, KeyAt
  <2>2. lock' = Nobody
    BY <1>0, <1>5, <2>1, EndEffect DEF Erase
  <2>3. /\ Claimed' \subseteq Claimed /\ Claimed \subseteq Claimed' \cup {KeyAt(r)}
        /\ up' = up
    <3>1. InForce' = InForce /\ up' = up
      BY <1>5 DEF Erase, InForce
    <3> QED BY <2>1, <2>2, <3>1 DEF Claimed, Erasing
  <2>4. CASE /\ rows' = [rows EXCEPT ![req[r].rule] = "none"]
             /\ ghosts' = ghosts \ {KeyAt(r)}
    <3>1. \A k \in Key : Restored(rows', k) =
             IF k = KeyOf(req[r].rule) THEN "none" ELSE Restored(rows, k)
      BY <1>a, <2>1, <2>4, RowWritten
    <3>2. StoredKeys' \subseteq StoredKeys \ {KeyAt(r)}
      BY <2>1, <3>1, StoredRowsOnly
    <3>3. StoredKeys' \subseteq Claimed' \cup ghosts'
      BY <1>0, <2>1, <2>3, <2>4, <3>2 DEF Fits
    <3> QED BY <1>0, <2>1, <2>3, <3>3, NoNewClaim
  <2>5. CASE rows' = rows /\ ghosts' = ghosts \cup {KeyAt(r)}
    <3>1. StoredKeys' = StoredKeys
      BY <2>5 DEF StoredKeys
    <3>2. StoredKeys' \subseteq Claimed' \cup ghosts'
      BY <1>0, <2>1, <2>3, <2>5, <3>1 DEF Fits
    <3> QED BY <1>0, <2>1, <2>3, <3>2, NoNewClaim
  <2> QED BY <1>5, <2>4, <2>5 DEF Erase
<1>6. ASSUME NEW r \in Request, Drop(r) PROVE Fits'
  <2>1. /\ Active(r) /\ End(r) /\ up /\ up' = up /\ KeyAt(r) \in Key
        /\ trie' = trie /\ rows' = rows
    BY <1>0, <1>6, ActiveType DEF Drop
  <2>2. StoredKeys' = StoredKeys /\ InForce' = InForce
    BY <2>1 DEF StoredKeys, InForce
  <2>3. CASE lock # r
    <3>1. /\ lock' = lock
          /\ lock # Nobody => KeyAt(lock)' = KeyAt(lock)
                              /\ AtStage(lock, "erase")' = AtStage(lock, "erase")
      BY <1>0, <2>1, <2>3 DEF TypeOK, End, KeyAt, AtStage
    <3>2. Claimed' = Claimed /\ ghosts \subseteq ghosts'
      BY <1>6, <2>2, <3>1 DEF Claimed, Erasing, Drop
    <3> QED BY <1>0, <2>1, <2>2, <3>2, NoNewClaim DEF Fits
  <2>4. CASE lock = r
    <3>1. lock' = Nobody /\ ~AtStage(r, "lock")
      BY <1>0, <2>1, <2>4, EndEffect, RequestAssumption DEF TypeOK, AtStage
    <3>2. Claimed' \subseteq Claimed /\ Claimed \subseteq Claimed' \cup {KeyAt(r)}
      BY <2>2, <2>4, <3>1 DEF Claimed, Erasing
    <3>3. ghosts' = ghosts \cup {KeyAt(r)}
      BY <1>6, <3>1 DEF Drop
    <3>4. StoredKeys' \subseteq Claimed' \cup ghosts'
      BY <1>0, <2>1, <2>2, <3>2, <3>3 DEF Fits
    <3> QED BY <1>0, <2>1, <3>2, <3>4, NoNewClaim
  <2> QED BY <2>3, <2>4
<1>7. ASSUME NEW s \in late, RunLate(s) PROVE Fits'
  <2>1. s.rule \in Rule /\ KeyOf(s.rule) \in Key
    BY <1>0, KeyOfRule DEF TypeOK, Statement
  <2>2. StoredKeys' \subseteq StoredKeys \cup {KeyOf(s.rule)}
    <3>1. \A k \in Key : Restored(rows', k) =
             IF k = KeyOf(s.rule) THEN s.action ELSE Restored(rows, k)
      BY <1>7, <1>a, <2>1, RowWritten DEF RunLate
    <3> QED BY <3>1, StoredRowsOnly
  <2>3. /\ Claimed' = Claimed /\ up' = up
        /\ ghosts' = ghosts \cup {KeyOf(s.rule)}
    BY <1>7 DEF RunLate, Claimed, Erasing, InForce, KeyAt, AtStage
  <2> QED BY <1>0, <2>2, <2>3 DEF Fits
<1>8. CASE Restore
  <2>1. lock = Nobody /\ lock' = Nobody
    BY <1>0, <1>8, OverIsNoCall DEF Restore, TypeOK, Active
  <2>2. InForce' = StoredKeys
    <3>1. \A k : k \in StoredKeys <=> k \in Key /\ Restored(rows, k) # "none"
      BY StoredMeansRestored DEF StoredKeys
    <3>2. \A k : k \in InForce' <=> k \in Key /\ Restored(rows, k) # "none"
      BY <1>8 DEF Restore, InForce
    <3> QED BY <3>1, <3>2
  <2>3. Claimed' = StoredKeys /\ StoredKeys' = StoredKeys
    BY <1>8, <2>1, <2>2 DEF Restore, Claimed, Erasing, StoredKeys
  <2> QED BY <1>8, <2>3 DEF Restore, Fits
<1>9. CASE Crash
  <2>1. up /\ ~up' /\ ghosts' = ghosts /\ StoredKeys' = StoredKeys
    BY <1>9 DEF Crash, history, StoredKeys
  <2>2. Claimed \in SUBSET Key
    BY <1>0, ClaimedAreKeys
  <2>3. ghosts = {} => Cardinality(StoredKeys) <= MaxEntries
    <3> SUFFICES ASSUME ghosts = {} PROVE Cardinality(StoredKeys) <= MaxEntries
      OBVIOUS
    <3>1. StoredKeys \in SUBSET Claimed
      BY <1>0, <2>1 DEF Fits
    <3>2. /\ Cardinality(Claimed) \in Nat /\ Cardinality(StoredKeys) \in Nat
          /\ Cardinality(StoredKeys) <= Cardinality(Claimed)
      BY <2>2, <3>1, FewerKeys
    <3> QED BY <1>0, <2>1, <3>2, BoundAssumption DEF Fits
  <2> QED BY <2>1, <2>3 DEF Fits
<1>10. CASE UNCHANGED vars
  BY <1>0, <1>10 DEF vars, history, Fits, Claimed, Erasing, InForce, StoredKeys, KeyAt, AtStage
<1> QED BY <1>1, <1>2, <1>3, <1>4, <1>5, <1>6, <1>7, <1>8, <1>9, <1>10 DEF Next

(***************************************************************************)
(* The rows always fit into the trie they are restored into, so a restart   *)
(* succeeds, unless failed or dropped requests have left rows whose rule is *)
(* not in force; every prefix has one spelling.                             *)
(***************************************************************************)
THEOREM DaemonStartsAgain == Spec => []StartsAgain
<1>1. Init => FitInv
  <2> SUFFICES ASSUME Init PROVE StoreInv /\ Fits
    BY DEF FitInv
  <2>1. ~up /\ StoredKeys = {}
    BY DEF Init, StoredKeys
  <2>2. Cardinality(StoredKeys) <= MaxEntries
    BY <2>1, FS_EmptySet, BoundAssumption
  <2> QED BY <2>1, <2>2, InitStored DEF Fits
<1>2. FitInv => StartsAgain
  <2> SUFFICES ASSUME FitInv, UniqueSpelling, ghosts = {}
               PROVE  Cardinality(StoredKeys) <= MaxEntries
    BY DEF StartsAgain
  <2>1. CASE ~up
    BY <2>1 DEF FitInv, Fits
  <2>2. CASE up
    <3>1. StoredKeys \in SUBSET Claimed /\ Claimed \in SUBSET Key
      BY <2>2, ClaimedAreKeys DEF FitInv, StoreInv, Fits
    <3>2. /\ Cardinality(Claimed) \in Nat /\ Cardinality(StoredKeys) \in Nat
          /\ Cardinality(StoredKeys) <= Cardinality(Claimed)
      BY <3>1, FewerKeys
    <3> QED BY <2>2, <3>2, BoundAssumption DEF FitInv, Fits
  <2> QED BY <2>1, <2>2
<1> QED BY <1>1, <1>2, FitStep, PTL DEF Spec
================================================================================
