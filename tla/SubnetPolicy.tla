------------------------------ MODULE SubnetPolicy -----------------------------
(***************************************************************************)
(* The subnet rules of one IP family: the LPM trie the XDP program reads,   *)
(* the table it is restored from at start-up, and the two handlers that     *)
(* change both (oxidrop/src/state.rs, oxidrop/src/db.rs).  The trie knows a *)
(* rule by the bits of its prefix, the table by the address as written.     *)
(*                                                                          *)
(* A step of a request is the stretch between two of its awaits.            *)
(***************************************************************************)
EXTENDS Naturals, FiniteSets

CONSTANTS
    Width,              \* bits of an address
    Rule,               \* networks as written, with the length of their prefix
    MaxEntries,         \* capacity of the trie
    Request,            \* the requests that may be in progress together
    Nobody,
    MaxCrashes,         \* bound on the crashes of the daemon
    MaxLate             \* bound on the statements of dropped requests in flight

Action == {"Allow", "Deny"}

ASSUME RuleAssumption ==
    /\ Width \in Nat /\ 2^Width \in Nat
    /\ Rule \subseteq [network: 0..(2^Width - 1), prefix_len: 0..Width]
    /\ IsFiniteSet(Rule)
ASSUME RequestAssumption == Nobody \notin Request
ASSUME BoundAssumption == MaxEntries \in Nat /\ MaxCrashes \in Nat /\ MaxLate \in Nat

(* The kernel compares the first prefix_len bits. *)
KeyOf(rule) ==
    [prefix |-> rule.network \div 2^(Width - rule.prefix_len), length |-> rule.prefix_len]

Key == {KeyOf(rule) : rule \in Rule}
Spellings(k) == {rule \in Rule : KeyOf(rule) = k}

VARIABLES
    up,         \* the daemon serves requests
    trie,       \* SUBNET_MATCHING
    rows,       \* subnet_match
    lock,       \* the request that holds the map's write lock
    req,        \* the requests, in progress or over
    late,       \* what statements of dropped requests may still write
    crashes,
    acked,      \* history: what the last acknowledged change left of a key,
                \* until a request or a late statement changes it again
    unstored,   \* history: keys whose rule the table may not have
    ghosts      \* history: keys of which the table may have more than the trie

history == <<acked, unstored, ghosts>>
vars == <<up, trie, rows, lock, req, late, crashes, history>>

Operation == {"insert", "delete"}
Stage == {"lock", "save", "erase"}
Over == [at |-> "over"]
Call == [op: Operation, rule: Rule, action: Action, at: Stage]
Statement == [rule: Rule, action: Action \cup {"none"}]

--------------------------------------------------------------------------------
Active(r) == req[r] # Over
AtStage(r, stage) == req[r].at = stage
KeyAt(r) == KeyOf(req[r].rule)

InForce == {k \in Key : trie[k] # "none"}
HasRoomFor(k) == k \in InForce \/ Cardinality(InForce) < MaxEntries

StoredKeys == {KeyOf(rule) : rule \in {x \in Rule : rows[x] # "none"}}

EndKeepingLock(r) ==
    /\ req' = [req EXCEPT ![r] = Over]
    /\ UNCHANGED lock

End(r) ==
    /\ req' = [req EXCEPT ![r] = Over]
    /\ lock' = IF lock = r THEN Nobody ELSE lock

Holds(r, stage) ==
    /\ lock' = r
    /\ req' = [req EXCEPT ![r].at = stage]

(* A request with a session, the permission and a prefix that fits. *)
Arrive(r, op, rule, action) ==
    /\ up /\ ~Active(r)
    /\ req' = [req EXCEPT ![r] = [op |-> op, rule |-> rule, action |-> action, at |-> "lock"]]
    /\ UNCHANGED <<up, trie, rows, lock, late, crashes, history>>

InsertUnchecked(r) ==
    /\ AtStage(r, "lock") /\ req[r].op = "insert" /\ lock = Nobody
    /\ Holds(r, "save")
    /\ trie' = IF HasRoomFor(KeyAt(r)) THEN [trie EXCEPT ![KeyAt(r)] = req[r].action] ELSE trie
    /\ acked' = [acked EXCEPT ![KeyAt(r)] = "unknown"]
    /\ UNCHANGED <<up, rows, late, crashes, unstored, ghosts>>

(* The lock, and the insert into the trie, which may fail. *)
Insert(r) ==
    /\ AtStage(r, "lock") /\ req[r].op = "insert" /\ lock = Nobody
    /\ \/ /\ HasRoomFor(KeyAt(r))
          /\ Holds(r, "save")
          /\ trie' = [trie EXCEPT ![KeyAt(r)] = req[r].action]
          /\ acked' = [acked EXCEPT ![KeyAt(r)] = "unknown"]
       \/ End(r) /\ UNCHANGED <<trie, acked>>
    /\ UNCHANGED <<up, rows, late, crashes, unstored, ghosts>>

(* The lock, and the removal from the trie; it fails when there is no rule. *)
Remove(r) ==
    /\ AtStage(r, "lock") /\ req[r].op = "delete" /\ lock = Nobody
    /\ \/ /\ KeyAt(r) \in InForce
          /\ Holds(r, "erase")
          /\ trie' = [trie EXCEPT ![KeyAt(r)] = "none"]
          /\ acked' = [acked EXCEPT ![KeyAt(r)] = "unknown"]
       \/ End(r) /\ UNCHANGED <<trie, acked>>
    /\ UNCHANGED <<up, rows, late, crashes, unstored, ghosts>>

SaveWithoutRollback(r) ==
    /\ AtStage(r, "save")
    /\ End(r)
    /\ \/ /\ rows' = [rows EXCEPT ![req[r].rule] = req[r].action]
          /\ acked' = [acked EXCEPT ![KeyAt(r)] = req[r].action]
          /\ unstored' = unstored \ {KeyAt(r)}
          /\ ghosts' = ghosts \ {KeyAt(r)}
       \/ UNCHANGED <<rows, acked, unstored, ghosts>>
    /\ UNCHANGED <<up, trie, late, crashes>>

(* save_subnet; when it fails the key leaves the trie, whatever it meant    *)
(* before and whatever the table has for it.                                *)
Save(r) ==
    /\ AtStage(r, "save")
    /\ End(r)
    /\ \/ /\ rows' = [rows EXCEPT ![req[r].rule] = req[r].action]
          /\ acked' = [acked EXCEPT ![KeyAt(r)] = req[r].action]
          /\ unstored' = unstored \ {KeyAt(r)}
          /\ ghosts' = ghosts \ {KeyAt(r)}
          /\ UNCHANGED trie
       \/ /\ trie' = [trie EXCEPT ![KeyAt(r)] = "none"]
          /\ ghosts' = IF KeyAt(r) \in StoredKeys THEN ghosts \cup {KeyAt(r)} ELSE ghosts
          /\ UNCHANGED <<rows, acked, unstored>>
    /\ UNCHANGED <<up, late, crashes>>

EraseUnchecked(r) ==
    /\ AtStage(r, "erase")
    /\ End(r)
    /\ rows' \in {rows, [rows EXCEPT ![req[r].rule] = "none"]}
    /\ acked' = [acked EXCEPT ![KeyAt(r)] = "none"]
    /\ ghosts' = ghosts \ {KeyAt(r)}
    /\ UNCHANGED <<up, trie, late, crashes, unstored>>

(* delete_subnet: no row as it is written is a success, too. *)
Erase(r) ==
    /\ AtStage(r, "erase")
    /\ End(r)
    /\ \/ /\ rows' = [rows EXCEPT ![req[r].rule] = "none"]
          /\ acked' = [acked EXCEPT ![KeyAt(r)] = "none"]
          /\ ghosts' = ghosts \ {KeyAt(r)}
       \/ /\ ghosts' = ghosts \cup {KeyAt(r)}
          /\ UNCHANGED <<rows, acked>>
    /\ UNCHANGED <<up, trie, late, crashes, unstored>>

(* A request is dropped at its lock or at its statement, which may have     *)
(* been sent to the database's own thread already.                          *)
Drop(r) ==
    /\ Active(r)
    /\ End(r)
    /\ \/ UNCHANGED late
       \/ /\ ~AtStage(r, "lock") /\ Cardinality(late) < MaxLate
          /\ late' = late \cup
                {[rule |-> req[r].rule,
                  action |-> IF AtStage(r, "save") THEN req[r].action ELSE "none"]}
    /\ unstored' = IF AtStage(r, "save") THEN unstored \cup {KeyAt(r)} ELSE unstored
    /\ ghosts' = IF AtStage(r, "lock") THEN ghosts ELSE ghosts \cup {KeyAt(r)}
    /\ UNCHANGED <<up, trie, rows, crashes, acked>>

RunLate(s) ==
    /\ s \in late
    /\ rows' = [rows EXCEPT ![s.rule] = s.action]
    /\ late' = late \ {s}
    /\ acked' = [acked EXCEPT ![KeyOf(s.rule)] = "unknown"]
    /\ unstored' = unstored \cup {KeyOf(s.rule)}
    /\ ghosts' = ghosts \cup {KeyOf(s.rule)}
    /\ UNCHANGED <<up, trie, lock, req, crashes>>

(***************************************************************************)
(* Start-up inserts the rows, ORDER BY prefix_len DESC, network ASC: of     *)
(* those with one key the last one stays.  If they do not fit, it fails.    *)
(***************************************************************************)
Restored(table, k) ==
    LET stored == {rule \in Spellings(k) : table[rule] # "none"} IN
    IF stored = {} THEN "none"
    ELSE table[CHOOSE rule \in stored : \A other \in stored : other.network <= rule.network]

Restore ==
    /\ ~up /\ Cardinality(StoredKeys) <= MaxEntries
    /\ up' = TRUE
    /\ trie' = [k \in Key |-> Restored(rows, k)]
    /\ unstored' = {} /\ ghosts' = {}
    /\ UNCHANGED <<rows, lock, req, late, crashes, acked>>

(* The process ends; the maps and the statements in flight go with it. *)
Crash ==
    /\ up /\ crashes < MaxCrashes
    /\ up' = FALSE
    /\ crashes' = crashes + 1
    /\ trie' = [k \in Key |-> "none"]
    /\ late' = {} /\ lock' = Nobody
    /\ req' = [r \in Request |-> Over]
    /\ UNCHANGED <<rows, history>>

Init ==
    /\ up = FALSE
    /\ trie = [k \in Key |-> "none"] /\ rows = [rule \in Rule |-> "none"]
    /\ lock = Nobody /\ late = {} /\ crashes = 0
    /\ req = [r \in Request |-> Over]
    /\ acked = [k \in Key |-> "unknown"] /\ unstored = {} /\ ghosts = {}

Next ==
    \/ \E r \in Request :
          \/ \E op \in Operation, rule \in Rule, action \in Action : Arrive(r, op, rule, action)
          \/ Insert(r)
          \/ Remove(r)
          \/ Save(r)
          \/ Erase(r)
          \/ Drop(r)
    \/ \E s \in late : RunLate(s)
    \/ Restore
    \/ Crash

Spec == Init /\ [][Next]_vars

--------------------------------------------------------------------------------
(* Types; and the write lock belongs to the request that is between its     *)
(* change of the trie and its answer, so no two of them interleave there    *)
(* and no failed or dropped one leaves the map locked.                      *)
TypeOK ==
    /\ up \in BOOLEAN /\ crashes \in 0..MaxCrashes
    /\ trie \in [Key -> Action \cup {"none"}]
    /\ rows \in [Rule -> Action \cup {"none"}]
    /\ req \in [Request -> Call \cup {Over}]
    /\ late \subseteq Statement
    /\ acked \in [Key -> Action \cup {"none", "unknown"}]
    /\ unstored \subseteq Key /\ ghosts \subseteq Key
    /\ lock \in Request \cup {Nobody}
    /\ \A r \in Request : lock = r <=> req[r].at \in {"save", "erase"}
    /\ ~up => \A r \in Request : ~Active(r)

(* No two rules of the run are spellings of one prefix. *)
UniqueSpelling == \A r, s \in Rule : KeyOf(r) = KeyOf(s) => r = s

(* A key no request is changing. *)
Settled(k) == up /\ (lock # Nobody => KeyAt(lock) # k)

(***************************************************************************)
(* What an administrator was told stays true: until somebody changes the    *)
(* rule again, its packets meet the acknowledged action and a restart       *)
(* brings it back, whatever fails, is dropped or crashes in between         *)
(* (modify_subnet_matching and remove_subnet_matching answer 200 only       *)
(* after both writes).                                                      *)
(***************************************************************************)
AckedSurvives ==
    UniqueSpelling =>
        \A k \in Key : acked[k] # "unknown" =>
            /\ Restored(rows, k) = acked[k]
            /\ up => trie[k] = acked[k]

(***************************************************************************)
(* A rule in force is one the table has, with the same action: the failed   *)
(* save of modify_subnet_matching takes it out of the trie again.  Only a   *)
(* dropped request or a late statement can part the two.                    *)
(***************************************************************************)
StoredWhenInForce ==
    UniqueSpelling =>
        \A k \in Key :
            Settled(k) /\ trie[k] # "none" /\ k \notin unstored => Restored(rows, k) = trie[k]

(***************************************************************************)
(* The table never outgrows the trie it is restored into, and the daemon    *)
(* starts again, unless a failed or dropped request has left rows behind    *)
(* whose rule is not in the trie any more.                                  *)
(***************************************************************************)
StartsAgain ==
    UniqueSpelling /\ ghosts = {} => Cardinality(StoredKeys) <= MaxEntries

(* A rule deleted with the answer 200 is not back after a restart.          *)
(* test_api_workflows.rs: "subnet deletion must be persisted".              *)
DeletionPersists ==
    \A k \in Key : acked[k] = "none" => Restored(rows, k) = "none"
================================================================================
