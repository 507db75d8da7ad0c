-------------------------- MODULE ControlPlaneProofs ---------------------------
(***************************************************************************)
(* What ControlPlane promises about the configuration, for any number of    *)
(* requests, adapters, policies, crashes and late statements.               *)
(***************************************************************************)
EXTENDS ControlPlane, TLAPS

USE SentinelAssumption, PatchAssumption, DefaultAssumption, BoundAssumption,
    AbsentAssumption

LEMMA PatchedType ==
    ASSUME NEW cfg \in FirewallConfig, NEW patch \in ConfigPatch
    PROVE  /\ Patched(cfg, patch) \in FirewallConfig
           /\ AdaptersOf(Patched(cfg, patch)) \in Attachment
           /\ patch = KeepAll => Patched(cfg, patch) = cfg
           /\ ~AdaptersChanged(patch) =>
                 AdaptersOf(Patched(cfg, patch)) = AdaptersOf(cfg)
<1> DEFINE F == {"incoming", "output", "policy"}
<1>1. DOMAIN cfg = F /\ cfg = [incoming |-> cfg.incoming, output |-> cfg.output, policy |-> cfg.policy]
  BY DEF FirewallConfig
<1>2. DOMAIN Patched(cfg, patch) = F
  BY <1>1 DEF Patched
<1> QED BY <1>1, <1>2 DEF Patched, FirewallConfig, ConfigPatch, KeepAll, Attachment, AdaptersOf, AdaptersChanged

LEMMA ClearPatches == ClearAdapters \in ConfigPatch /\ KeepAll \in ConfigPatch
BY DEF ClearAdapters, KeepAll, ConfigPatch

--------------------------------------------------------------------------------
(***************************************************************************)
(* Type correctness, and mutual exclusion                                   *)
(***************************************************************************)

(* A request that is past the lock holds it. *)
Exclusive == \A r \in Request : Active(r) /\ ~AtStage(r, "lock") => lock = r

(* What a request keeps to: its patch is on top of what CONFIG holds until  *)
(* it writes CONFIG.                                                        *)
Faithful(call, current) ==
    /\ call.at \in {"ebpf", "set"} => call.cfg = Patched(current, call.patch)
    /\ call.at \notin {"lock", "over"} => call.cfg \in FirewallConfig
    /\ call.at \in {"lock", "ebpf", "set"} => call.answer = "ok"
    /\ call.at = "ebpf" /\ call.op = "update" => AdaptersChanged(call.patch)
    /\ call.op = "restart" => call.patch = KeepAll /\ call.at \notin {"set", "save"}
    /\ call.op = "shutdown" /\ call.at # "over" => call.patch = ClearAdapters

AllFaithful == \A r \in Request : req[r] # Absent => Faithful(req[r], config)

SafeInv == TypeOK /\ Exclusive /\ AllFaithful

LEMMA OverType ==
    ASSUME NEW call \in Call, NEW answer \in {"ok", "error", "dropped"}
    PROVE  Over(call, answer) \in Call
BY ClearPatches DEF Over, Call, Stage

LEMMA ExitSafe == 
    ASSUME SafeInv, Exit, crashes' \in 0..MaxCrashes
    PROVE  SafeInv'
<1>1. req' \in [Request -> Call \cup {Absent}]
  BY OverType DEF Exit, SafeInv, TypeOK, Active
<1>2. \A r \in Request : ~Active(r)' /\ (req'[r] # Absent => req'[r].at = "over" /\ (req'[r].op = "restart" => req'[r].patch = KeepAll))
  BY OverType DEF Exit, SafeInv, TypeOK, Active, Over, AllFaithful, Faithful
<1>3. TypeOK'
  BY <1>1, <1>2 DEF Exit, SafeInv, TypeOK, Active, AtStage, Attachment, Detached
<1>4. Exclusive'
  BY <1>2 DEF Exclusive
<1>5. AllFaithful'
  BY <1>2 DEF AllFaithful, Faithful
<1> QED BY <1>3, <1>4, <1>5 DEF SafeInv

(* One request takes a step that keeps to its own part.                     *)
OthersTyped ==
    /\ phase' = phase /\ phase = "up"
    /\ config' \in FirewallConfig
    /\ db' \in FirewallConfig \cup {Absent}
    /\ attached' \in Attachment
    /\ late' \subseteq FirewallConfig
    /\ crashes' \in 0..MaxCrashes
    /\ acked' \in FirewallConfig \cup {Absent}
    /\ overtaken' \in BOOLEAN
    /\ strayed' \in BOOLEAN

LEMMA MoveSafe ==
    ASSUME SafeInv, NEW r \in Request, NEW c \in Call,
           req' = [req EXCEPT ![r] = c],
           OthersTyped,
           Faithful(c, config'),
           config' = config \/ lock = r,
           \/ c.at = "over" /\ lock' = IF lock = r THEN Absent ELSE lock
           \/ c.at = "lock" /\ lock' = lock /\ lock # r
           \/ c.at \notin {"over", "lock"} /\ lock' = r /\ lock \in {Absent, r}
    PROVE  SafeInv'
<1>1. /\ r # Absent /\ c # Absent
      /\ req'[r] = c
      /\ \A q \in Request \ {r} : req'[q] = req[q]
      /\ req' \in [Request -> Call \cup {Absent}]
  BY DEF SafeInv, TypeOK
<1>2. TypeOK'
  BY <1>1 DEF SafeInv, TypeOK, OthersTyped, Active, AtStage
<1>3. Exclusive'
  BY <1>1 DEF SafeInv, TypeOK, Exclusive, Active, AtStage
<1>4. AllFaithful'
  <2> SUFFICES ASSUME NEW q \in Request, req'[q] # Absent
               PROVE  Faithful(req'[q], config')
    BY DEF AllFaithful
  <2>1. CASE q = r
    BY <2>1, <1>1
  <2>2. CASE q # r /\ config' = config
    BY <2>2, <1>1 DEF SafeInv, AllFaithful
  <2>3. CASE q # r /\ lock = r
    <3>1. req[q].at \in {"lock", "over"}
      BY <2>3, <1>1 DEF SafeInv, Exclusive, Active, AtStage
    <3> QED BY <2>3, <3>1, <1>1 DEF SafeInv, AllFaithful, Faithful
  <2> QED BY <2>1, <2>2, <2>3
<1> QED BY <1>2, <1>3, <1>4 DEF SafeInv

LEMMA EndSafe ==
    ASSUME SafeInv, NEW r \in Request, Active(r), OthersTyped,
           NEW answer \in {"ok", "error", "dropped"}, End(r, answer),
           config' = config \/ lock = r
    PROVE  SafeInv'
<1> DEFINE c == Over(req[r], answer)
<1>1. c \in Call /\ c.at = "over" /\ Faithful(c, config')
  BY OverType DEF SafeInv, TypeOK, AllFaithful, Active, Over, Faithful
<1>2. req' = [req EXCEPT ![r] = c] /\ lock' = IF lock = r THEN Absent ELSE lock
  BY DEF End
<1> HIDE DEF c
<1> QED BY <1>1, <1>2, MoveSafe

(* The configuration and the state of a request that holds the lock.        *)
LEMMA HolderType ==
    ASSUME SafeInv, NEW r \in Request, Active(r)
    PROVE  /\ req[r] \in Call /\ req[r] # Absent
           /\ phase = "up" /\ config \in FirewallConfig
           /\ Faithful(req[r], config)
           /\ ~AtStage(r, "lock") => lock = r /\ req[r].cfg \in FirewallConfig
BY DEF SafeInv, TypeOK, Exclusive, AllFaithful, Active, AtStage, Faithful

LEMMA ArriveSafe ==
    ASSUME SafeInv, NEW r \in Request, NEW op \in Operation, NEW patch \in ConfigPatch,
           Arrive(r, op, patch),
           op = "restart" => patch = KeepAll, op = "shutdown" => patch = ClearAdapters
    PROVE  SafeInv'
<1> DEFINE c == [op |-> op, patch |-> patch, at |-> "lock", cfg |-> Absent, answer |-> "ok"]
<1>1. c \in Call /\ c.at = "lock" /\ Faithful(c, config')
  BY DEF Call, Stage, Faithful
<1>2. req' = [req EXCEPT ![r] = c] /\ lock' = lock /\ config' = config /\ OthersTyped
  BY DEF Arrive, history, SafeInv, TypeOK, OthersTyped
<1>3. lock # r
  BY DEF Arrive, SafeInv, TypeOK
<1> HIDE DEF c
<1> QED BY <1>1, <1>2, <1>3, MoveSafe

LEMMA TakeLockSafe ==
    ASSUME SafeInv, NEW r \in Request, TakeLock(r)
    PROVE  SafeInv'
<1> DEFINE stage == IF req[r].op = "update" /\ ~AdaptersChanged(req[r].patch)
                    THEN "set" ELSE "ebpf"
           c == [req[r] EXCEPT !.cfg = Patched(config, req[r].patch), !.at = stage]
<1>1. Active(r) /\ req[r].at = "lock" /\ lock = Absent
  BY DEF TakeLock, AtStage, Active
<1>2. req[r] \in Call /\ Patched(config, req[r].patch) \in FirewallConfig
  BY <1>1, HolderType, PatchedType DEF Call
<1>3. c \in Call /\ c.at \in {"set", "ebpf"}
  BY <1>2 DEF Call, Stage
<1>4. Faithful(c, config)
  BY <1>1, <1>2, HolderType DEF Faithful, Call
<1>5. req' = [req EXCEPT ![r] = c] /\ lock' = r /\ config' = config /\ OthersTyped
  BY <1>1, <1>2, HolderType DEF TakeLock, history, SafeInv, TypeOK, OthersTyped
<1> HIDE DEF c
<1> QED BY <1>1, <1>3, <1>4, <1>5, MoveSafe

LEMMA AttachType ==
    ASSUME NEW cfg \in FirewallConfig, Attaches(cfg) \/ FailsToAttach(cfg)
    PROVE  attached' \in Attachment
BY DEF Attaches, FailsToAttach, Attachment, AdaptersOf, Detached, FirewallConfig

LEMMA RebootForUpdateSafe ==
    ASSUME SafeInv, NEW r \in Request, RebootForUpdate(r)
    PROVE  SafeInv'
<1>1. Active(r) /\ req[r].at = "ebpf" /\ req[r].op = "update" /\ lock = r
  BY HolderType DEF RebootForUpdate, AtStage, Active
<1>2. req[r] \in Call /\ req[r].cfg \in FirewallConfig /\ req[r].patch \in ConfigPatch
  BY <1>1, HolderType DEF AtStage, Call
<1>3. Cleared(req[r].cfg) \in FirewallConfig
  BY <1>2, PatchedType, ClearPatches DEF Cleared
<1>4. OthersTyped
  BY <1>1, <1>2, <1>3, HolderType, AttachType DEF RebootForUpdate, SafeInv, TypeOK, OthersTyped
<1>5. lock' = r
  BY <1>1 DEF RebootForUpdate
<1>6. CASE Attaches(req[r].cfg) /\ Advance(r, "set") /\ UNCHANGED <<config, acked>>
  <2> DEFINE c == [req[r] EXCEPT !.at = "set"]
  <2>1. c \in Call /\ c.at = "set" /\ req' = [req EXCEPT ![r] = c]
    BY <1>2, <1>6 DEF Advance, Call, Stage
  <2>2. Faithful(c, config')
    BY <1>1, <1>2, <1>6, HolderType DEF Faithful, Call
  <2> HIDE DEF c
  <2> QED BY <1>1, <1>4, <1>5, <2>1, <2>2, MoveSafe
<1>7. CASE /\ req' = [req EXCEPT ![r].cfg = Cleared(@), ![r].at = "save", ![r].answer = "error"]
  <2> DEFINE c == [req[r] EXCEPT !.cfg = Cleared(@), !.at = "save", !.answer = "error"]
  <2>1. c \in Call /\ c.at = "save" /\ req' = [req EXCEPT ![r] = c]
    BY <1>2, <1>3, <1>7 DEF Call, Stage
  <2>2. Faithful(c, config')
    BY <1>1, <1>2, <1>3 DEF Faithful, Call
  <2> HIDE DEF c
  <2> QED BY <1>1, <1>4, <1>5, <2>1, <2>2, MoveSafe
<1> QED BY <1>6, <1>7 DEF RebootForUpdate

LEMMA ShutDownSafe ==
    ASSUME SafeInv, NEW r \in Request, ShutDown(r)
    PROVE  SafeInv'
<1>1. Active(r) /\ req[r].at = "ebpf" /\ req[r].op = "shutdown" /\ lock = r
  BY HolderType DEF ShutDown, AtStage, Active
<1>2. req[r] \in Call /\ req[r].cfg \in FirewallConfig
  BY <1>1, HolderType DEF AtStage
<1>3. OthersTyped
  BY <1>1, <1>2, HolderType DEF ShutDown, SafeInv, TypeOK, OthersTyped, Attachment, Detached
<1>4. CASE Advance(r, "save") /\ UNCHANGED lock
  <2> DEFINE c == [req[r] EXCEPT !.at = "save"]
  <2>1. c \in Call /\ c.at = "save" /\ req' = [req EXCEPT ![r] = c]
    BY <1>2, <1>4 DEF Advance, Call, Stage
  <2>2. Faithful(c, config')
    BY <1>1, <1>2, HolderType DEF Faithful, Call
  <2> HIDE DEF c
  <2> QED BY <1>1, <1>3, <1>4, <2>1, <2>2, MoveSafe
<1>5. CASE End(r, "error")
  BY <1>1, <1>3, <1>5, EndSafe
<1> QED BY <1>4, <1>5 DEF ShutDown

LEMMA RestartNothingSafe ==
    ASSUME SafeInv, NEW r \in Request, RestartNothing(r)
    PROVE  SafeInv'
<1>1. Active(r) /\ lock = r
  BY HolderType DEF RestartNothing, AtStage, Active
<1>2. OthersTyped
  BY <1>1, HolderType DEF RestartNothing, history, SafeInv, TypeOK, OthersTyped
<1> QED BY <1>1, <1>2, EndSafe DEF RestartNothing

LEMMA RestartSafe ==
    ASSUME SafeInv, NEW r \in Request, Restart(r)
    PROVE  SafeInv'
<1>1. Active(r) /\ req[r].at = "ebpf" /\ req[r].op = "restart" /\ lock = r
  BY HolderType DEF Restart, AtStage, Active
<1>2. req[r] \in Call /\ req[r].cfg \in FirewallConfig
  BY <1>1, HolderType DEF AtStage
<1>3. OthersTyped /\ lock' = r /\ config' = config
  BY <1>1, <1>2, HolderType, AttachType DEF Restart, SafeInv, TypeOK, OthersTyped
<1>4. PICK answer \in {"ok", "error"} :
         req' = [req EXCEPT ![r] = [req[r] EXCEPT !.at = "log", !.answer = answer]]
  <2>1. CASE Advance(r, "log")
    BY <1>1, <1>2, <2>1, HolderType DEF Advance, Faithful, Call
  <2>2. CASE req' = [req EXCEPT ![r].at = "log", ![r].answer = "error"]
    BY <2>2
  <2> QED BY <2>1, <2>2 DEF Restart
<1> DEFINE c == [req[r] EXCEPT !.at = "log", !.answer = answer]
<1>5. c \in Call /\ c.at = "log"
  BY <1>2 DEF Call, Stage
<1>6. Faithful(c, config')
  BY <1>1, <1>2, HolderType DEF Faithful, Call
<1> HIDE DEF c
<1> QED BY <1>1, <1>3, <1>4, <1>5, <1>6, MoveSafe DEF c

LEMMA SetConfigSafe ==
    ASSUME SafeInv, NEW r \in Request, SetConfig(r)
    PROVE  SafeInv'
<1>1. Active(r) /\ req[r].at = "set" /\ lock = r
  BY HolderType DEF SetConfig, AtStage, Active
<1>2. req[r] \in Call /\ req[r].cfg \in FirewallConfig
  BY <1>1, HolderType DEF AtStage
<1>3. OthersTyped
  BY <1>1, <1>2, HolderType DEF SetConfig, SafeInv, TypeOK, OthersTyped
<1>4. CASE Advance(r, "save") /\ UNCHANGED <<lock, strayed>>
  <2> DEFINE c == [req[r] EXCEPT !.at = "save"]
  <2>1. c \in Call /\ c.at = "save" /\ req' = [req EXCEPT ![r] = c]
    BY <1>2, <1>4 DEF Advance, Call, Stage
  <2>2. Faithful(c, config')
    BY <1>1, <1>2, HolderType DEF Faithful, Call
  <2> HIDE DEF c
  <2> QED BY <1>1, <1>3, <1>4, <2>1, <2>2, MoveSafe
<1>5. CASE End(r, "error")
  BY <1>1, <1>3, <1>5, EndSafe
<1> QED BY <1>4, <1>5 DEF SetConfig

LEMMA SaveSafe ==
    ASSUME SafeInv, NEW r \in Request, Save(r)
    PROVE  SafeInv'
<1>1. Active(r) /\ req[r].at = "save" /\ lock = r
  BY HolderType DEF Save, AtStage, Active
<1>2. req[r] \in Call /\ req[r].cfg \in FirewallConfig
  BY <1>1, HolderType DEF AtStage
<1>3. OthersTyped /\ config' = config
  BY <1>1, <1>2, HolderType DEF Save, SafeInv, TypeOK, OthersTyped
<1>4. CASE Advance(r, "log") /\ UNCHANGED lock
  <2> DEFINE c == [req[r] EXCEPT !.at = "log"]
  <2>1. c \in Call /\ c.at = "log" /\ req' = [req EXCEPT ![r] = c]
    BY <1>2, <1>4 DEF Advance, Call, Stage
  <2>2. Faithful(c, config')
    BY <1>1, <1>2, HolderType DEF Faithful, Call
  <2> HIDE DEF c
  <2> QED BY <1>1, <1>3, <1>4, <2>1, <2>2, MoveSafe
<1>5. CASE End(r, "error")
  BY <1>1, <1>3, <1>5, EndSafe
<1> QED BY <1>4, <1>5 DEF Save

LEMMA LogSafe ==
    ASSUME SafeInv, NEW r \in Request, Log(r)
    PROVE  SafeInv'
<1>1. Active(r) /\ req[r].at = "log" /\ lock = r
  BY HolderType DEF Log, AtStage, Active
<1>2. req[r] \in Call /\ req[r].cfg \in FirewallConfig /\ req[r].answer \in {"ok", "error", "dropped"}
  BY <1>1, HolderType DEF AtStage, Call
<1>3. OthersTyped /\ config' = config
  BY <1>1, <1>2, HolderType DEF Log, SafeInv, TypeOK, OthersTyped
<1> QED BY <1>1, <1>2, <1>3, EndSafe DEF Log

LEMMA DropSafe ==
    ASSUME SafeInv, NEW r \in Request, Drop(r)
    PROVE  SafeInv'
<1>1. Active(r)
  BY DEF Drop, IsAwaiting
<1>2. AtStage(r, "save") => req[r].cfg \in FirewallConfig
  BY <1>1, HolderType DEF AtStage
<1>3. OthersTyped /\ config' = config
  BY <1>1, <1>2, HolderType DEF Drop, SafeInv, TypeOK, OthersTyped
<1> QED BY <1>1, <1>3, EndSafe DEF Drop

(* Every step keeps types, mutual exclusion and each request to its part.   *)
LEMMA StepSafe == ASSUME SafeInv, [Next]_vars PROVE SafeInv'
<1>1. ASSUME NEW r \in Request, NEW p \in Patch, Arrive(r, "update", p) PROVE SafeInv'
  BY <1>1, ArriveSafe DEF Operation
<1>2. ASSUME NEW r \in Request,
             Arrive(r, "shutdown", ClearAdapters) \/ Arrive(r, "restart", KeepAll)
      PROVE  SafeInv'
  BY <1>2, ArriveSafe, ClearPatches DEF Operation
<1>3. ASSUME NEW r \in Request, TakeLock(r) PROVE SafeInv'
  BY <1>3, TakeLockSafe
<1>4. ASSUME NEW r \in Request, Progress(r) PROVE SafeInv'
  BY <1>4, RebootForUpdateSafe, ShutDownSafe, RestartNothingSafe, RestartSafe,
     SetConfigSafe, SaveSafe, LogSafe DEF Progress
<1>5. ASSUME NEW r \in Request, Drop(r) PROVE SafeInv'
  BY <1>5, DropSafe
<1>6. ASSUME NEW cfg \in late, LateSave(cfg) PROVE SafeInv'
  BY <1>6 DEF LateSave, SafeInv, TypeOK, Exclusive, AllFaithful, Active, AtStage
<1>7. CASE LoadConfig
  <2>1. config' \in FirewallConfig /\ \A r \in Request : ~Active(r)
    BY <1>7 DEF LoadConfig, SafeInv, TypeOK
  <2> QED BY <1>7, <2>1 DEF LoadConfig, history, SafeInv, TypeOK, Exclusive, AllFaithful,
                           Faithful, Active, AtStage
<1>8. CASE AttachAtStart \/ StoreAtStart
  <2>1. config \in FirewallConfig /\ \A r \in Request : ~Active(r)
    BY <1>8 DEF AttachAtStart, StoreAtStart, SafeInv, TypeOK
  <2>2. attached' \in Attachment
    BY <1>8, <2>1, AttachType DEF AttachAtStart, StoreAtStart, SafeInv, TypeOK
  <2> QED BY <1>8, <2>1, <2>2 DEF AttachAtStart, StoreAtStart, history, SafeInv, TypeOK,
                                  Exclusive, AllFaithful, Faithful, Active, AtStage
<1>9. CASE FailToStore \/ Crash
  <2>1. Exit /\ crashes' \in 0..MaxCrashes
    BY <1>9 DEF FailToStore, Crash, SafeInv, TypeOK
  <2> QED BY <2>1, ExitSafe
<1>10. CASE UNCHANGED vars
  BY <1>10 DEF vars, history, SafeInv, TypeOK, Exclusive, AllFaithful, Faithful, Active, AtStage
<1> QED
  BY <1>1, <1>2, <1>3, <1>4, <1>5, <1>6, <1>7, <1>8, <1>9, <1>10 DEF Next

LEMMA InitSafe == ASSUME Init PROVE SafeInv
<1>1. \A r \in Request : req[r] = Absent
  BY DEF Init
<1>2. req \in [Request -> Call \cup {Absent}] /\ attached \in Attachment
  BY DEF Init, Attachment, Detached
<1>3. crashes \in 0..MaxCrashes
  BY DEF Init
<1>4. overtaken \in BOOLEAN /\ strayed \in BOOLEAN
  BY DEF Init
<1>5. TypeOK
  BY <1>1, <1>2, <1>3, <1>4 DEF Init, TypeOK, Active
<1> QED BY <1>1, <1>5 DEF SafeInv, Exclusive, AllFaithful, Active

(* No order of requests, failures, drops and crashes leaves a state that is *)
(* not well typed, CONFIG unset while a request is served, or the lock with *)
(* a request that has ended.                                                *)
THEOREM TypeCorrect == Spec => []TypeOK
<1>1. SafeInv => TypeOK
  BY DEF SafeInv
<1> QED BY InitSafe, StepSafe, <1>1, PTL DEF Spec

--------------------------------------------------------------------------------
(***************************************************************************)
(* What is acknowledged is stored                                           *)
(***************************************************************************)

(* A request about to store has taken back the last acknowledgement, and    *)
(* what it will acknowledge is in force; once stored, it is in the row too, *)
(* unless a late statement came in between.                                 *)
AckInv ==
    /\ AckedSurvives
    /\ \A r \in Request :
          /\ AtStage(r, "save") =>
                acked = Absent /\ (req[r].answer = "ok" => config = req[r].cfg)
          /\ AtStage(r, "log") /\ req[r].op # "restart" =>
                /\ acked = Absent
                /\ req[r].answer = "ok" =>
                      config = req[r].cfg /\ (overtaken \/ db = req[r].cfg)

(* Whoever holds the lock, or finds it free, is alone past it.              *)
LEMMA Alone ==
    ASSUME SafeInv, NEW r \in Request, lock \in {r, Absent}, NEW q \in Request, q # r
    PROVE  req[q] = Absent \/ req[q].at \in {"lock", "over"}
BY DEF SafeInv, Exclusive, Active, AtStage

(* The step of one request: what is left to show is about that request.     *)
LEMMA AckMove ==
    ASSUME SafeInv, NEW r \in Request, lock \in {r, Absent}, NEW c \in Call,
           req' = [req EXCEPT ![r] = c],
           AckedSurvives',
           c.at = "save" => acked' = Absent /\ (c.answer = "ok" => config' = c.cfg),
           c.at = "log" /\ c.op # "restart" =>
              /\ acked' = Absent
              /\ c.answer = "ok" => config' = c.cfg /\ (overtaken' \/ db' = c.cfg)
    PROVE  AckInv'
<1>1. req'[r] = c /\ \A q \in Request \ {r} : req'[q] = req[q]
  BY DEF SafeInv, TypeOK
<1>2. \A q \in Request \ {r} : ~AtStage(q, "save")' /\ ~AtStage(q, "log")'
  BY <1>1, Alone DEF AtStage
<1> QED BY <1>1, <1>2 DEF AckInv, AtStage

LEMMA AckEnd ==
    ASSUME SafeInv, NEW r \in Request, Active(r), lock \in {r, Absent},
           NEW answer \in {"ok", "error", "dropped"}, End(r, answer), AckedSurvives'
    PROVE  AckInv'
<1> DEFINE c == Over(req[r], answer)
<1>1. c \in Call /\ c.at = "over" /\ req' = [req EXCEPT ![r] = c]
  BY HolderType, OverType DEF End, Over
<1> HIDE DEF c
<1> QED BY <1>1, AckMove

LEMMA AckProgress ==
    ASSUME SafeInv, AckInv, NEW r \in Request, Progress(r)
    PROVE  AckInv'
<1>1. Active(r) /\ ~AtStage(r, "lock")
  BY DEF Progress, RebootForUpdate, ShutDown, RestartNothing, Restart, SetConfig, Save, Log,
         AtStage, Active
<1>2. lock = r /\ req[r] \in Call /\ req[r].cfg \in FirewallConfig /\ phase = "up"
      /\ Faithful(req[r], config) /\ req[r] # Absent
  BY <1>1, HolderType
<1>3. AckedSurvives
  BY DEF AckInv
<1>4. CASE RebootForUpdate(r)
  <2>1. PICK c \in Call : req' = [req EXCEPT ![r] = c] /\ (c.at = "set" \/ (c.at = "save" /\ c.answer = "error" /\ acked' = Absent))
    <3>1. CASE Attaches(req[r].cfg) /\ Advance(r, "set") /\ UNCHANGED <<config, acked>>
      <4>1. [req[r] EXCEPT !.at = "set"] \in Call
        BY <1>2 DEF Call, Stage
      <4> QED BY <4>1, <1>2, <3>1 DEF Advance, Call
    <3>2. CASE /\ req' = [req EXCEPT ![r].cfg = Cleared(@), ![r].at = "save", ![r].answer = "error"]
               /\ acked' = Absent
      <4> DEFINE c == [req[r] EXCEPT !.cfg = Cleared(@), !.at = "save", !.answer = "error"]
      <4>1. Cleared(req[r].cfg) \in FirewallConfig
        BY <1>2, PatchedType, ClearPatches DEF Cleared
      <4>2. c \in Call /\ c.at = "save" /\ c.answer = "error"
        BY <1>2, <4>1 DEF Call, Stage
      <4>3. req' = [req EXCEPT ![r] = c]
        BY <3>2
      <4> QED BY <3>2, <4>2, <4>3
    <3> QED BY <1>4, <3>1, <3>2 DEF RebootForUpdate
  <2>2. AckedSurvives'
    BY <1>2, <1>3, <1>4 DEF RebootForUpdate, AckedSurvives
  <2> QED BY <1>2, <2>1, <2>2, AckMove
<1>5. CASE ShutDown(r)
  <2>1. AckedSurvives'
    BY <1>2, <1>3, <1>5 DEF ShutDown, AckedSurvives
  <2>2. CASE Advance(r, "save") /\ acked' = Absent /\ config' = req[r].cfg
    <3> DEFINE c == [req[r] EXCEPT !.at = "save"]
    <3>1. c \in Call /\ c.at = "save" /\ c.cfg = req[r].cfg /\ req' = [req EXCEPT ![r] = c]
      BY <1>2, <2>2 DEF Advance, Call, Stage
    <3> HIDE DEF c
    <3> QED BY <1>2, <2>1, <2>2, <3>1, AckMove
  <2>3. CASE End(r, "error")
    BY <1>1, <1>2, <2>1, <2>3, AckEnd
  <2> QED BY <1>5, <2>2, <2>3 DEF ShutDown
<1>6. CASE RestartNothing(r)
  BY <1>1, <1>2, <1>3, <1>6, AckEnd DEF RestartNothing, history, AckedSurvives
<1>7. CASE Restart(r)
  <2>1. AckedSurvives'
    BY <1>3, <1>7 DEF Restart, AckedSurvives
  <2>2. PICK c \in Call : req' = [req EXCEPT ![r] = c] /\ c.at = "log" /\ c.op = "restart"
    <3>1. /\ [req[r] EXCEPT !.at = "log"] \in Call
          /\ [req[r] EXCEPT !.at = "log", !.answer = "error"] \in Call
      BY <1>2 DEF Call, Stage
    <3>2. \/ req' = [req EXCEPT ![r] = [req[r] EXCEPT !.at = "log"]]
          \/ req' = [req EXCEPT ![r] = [req[r] EXCEPT !.at = "log", !.answer = "error"]]
      BY <1>7 DEF Restart, Advance
    <3>3. req[r].op = "restart"
      BY <1>7 DEF Restart
    <3> QED BY <1>2, <3>1, <3>2, <3>3 DEF Call
  <2> QED BY <1>2, <2>1, <2>2, AckMove
<1>8. CASE SetConfig(r)
  <2>1. AckedSurvives'
    BY <1>2, <1>3, <1>8 DEF SetConfig, AckedSurvives
  <2>2. CASE Advance(r, "save") /\ acked' = Absent /\ config' = req[r].cfg
    <3> DEFINE c == [req[r] EXCEPT !.at = "save"]
    <3>1. c \in Call /\ c.at = "save" /\ c.cfg = req[r].cfg /\ req' = [req EXCEPT ![r] = c]
      BY <1>2, <2>2 DEF Advance, Call, Stage
    <3> HIDE DEF c
    <3> QED BY <1>2, <2>1, <2>2, <3>1, AckMove
  <2>3. CASE End(r, "error")
    BY <1>1, <1>2, <2>1, <2>3, AckEnd
  <2> QED BY <1>8, <2>2, <2>3 DEF SetConfig
<1>9. CASE Save(r)
  <2>1. acked = Absent /\ acked' = Absent /\ config' = config
        /\ (req[r].answer = "ok" => config = req[r].cfg)
    BY <1>9 DEF Save, AckInv
  <2>2. AckedSurvives'
    BY <2>1 DEF AckedSurvives
  <2>3. CASE Advance(r, "log") /\ (db' = req[r].cfg \/ req[r].answer = "error")
    <3> DEFINE c == [req[r] EXCEPT !.at = "log"]
    <3>1. c \in Call /\ c.at = "log" /\ c.cfg = req[r].cfg /\ c.answer = req[r].answer
          /\ req' = [req EXCEPT ![r] = c]
      BY <1>2, <2>3 DEF Advance, Call, Stage
    <3> HIDE DEF c
    <3> QED BY <1>2, <2>1, <2>2, <2>3, <3>1, AckMove
  <2>4. CASE End(r, "error")
    BY <1>1, <1>2, <2>2, <2>4, AckEnd
  <2> QED BY <1>9, <2>3, <2>4 DEF Save
<1>10. CASE Log(r)
  <2>1. AckedSurvives'
    BY <1>2, <1>3, <1>10 DEF Log, AckInv, AckedSurvives
  <2>2. req[r].answer \in {"ok", "error", "dropped"}
    BY <1>2 DEF Call
  <2> QED BY <1>1, <1>2, <1>10, <2>1, <2>2, AckEnd DEF Log
<1> QED BY <1>4, <1>5, <1>6, <1>7, <1>8, <1>9, <1>10 DEF Progress

(* A step that leaves the three copies alone and brings no request to its   *)
(* save or its log.                                                         *)
LEMMA AckFrame ==
    ASSUME AckInv, UNCHANGED <<phase, config, db, acked, overtaken>>,
           \A q \in Request : AtStage(q, "save")' \/ AtStage(q, "log")' => req'[q] = req[q]
    PROVE  AckInv'
BY DEF AckInv, AckedSurvives, AtStage

LEMMA AckStep == ASSUME SafeInv, AckInv, [Next]_vars PROVE AckInv'
<1>1. ASSUME NEW r \in Request, NEW op \in Operation, NEW p \in ConfigPatch, Arrive(r, op, p)
      PROVE  AckInv'
  <2>1. \A q \in Request : req'[q] = req[q] \/ req'[q].at = "lock"
    BY <1>1 DEF Arrive, SafeInv, TypeOK
  <2> QED BY <1>1, <2>1, AckFrame DEF Arrive, history, AtStage
<1>2. ASSUME NEW r \in Request, TakeLock(r) PROVE AckInv'
  <2>1. req[r] \in Call
    BY <1>2, HolderType DEF TakeLock, AtStage, Active
  <2>2. \A q \in Request : req'[q] = req[q] \/ req'[q].at \in {"set", "ebpf"}
    BY <1>2, <2>1 DEF TakeLock, SafeInv, TypeOK, Call
  <2> QED BY <1>2, <2>2, AckFrame DEF TakeLock, history, AtStage
<1>3. ASSUME NEW r \in Request, Drop(r) PROVE AckInv'
  <2>1. \A q \in Request : req'[q] = req[q] \/ req'[q].at = "over"
    BY <1>3 DEF Drop, End, Over, SafeInv, TypeOK
  <2> QED BY <1>3, <2>1, AckFrame DEF Drop, AtStage
<1>4. ASSUME NEW cfg \in late, LateSave(cfg) PROVE AckInv'
  BY <1>4 DEF LateSave, AckInv, AckedSurvives, AtStage
<1>5. CASE LoadConfig
  <2>1. \A r \in Request : ~Active(r)
    BY <1>5 DEF LoadConfig, SafeInv, TypeOK
  <2>2. AckedSurvives'
    BY <1>5 DEF LoadConfig, history, AckInv, AckedSurvives, SafeInv, TypeOK
  <2> QED BY <1>5, <2>1, <2>2 DEF LoadConfig, history, AckInv, Active, AtStage
<1>6. CASE AttachAtStart \/ StoreAtStart
  <2>1. \A r \in Request : ~Active(r)
    BY <1>6 DEF AttachAtStart, StoreAtStart, SafeInv, TypeOK
  <2>2. AckedSurvives'
    BY <1>6 DEF AttachAtStart, StoreAtStart, history, AckInv, AckedSurvives
  <2> QED BY <1>6, <2>1, <2>2 DEF AttachAtStart, StoreAtStart, history, AckInv, Active, AtStage
<1>7. CASE FailToStore \/ Crash
  <2>1. Exit
    BY <1>7 DEF FailToStore, Crash
  <2>2. AckedSurvives'
    BY <2>1 DEF Exit, AckInv, AckedSurvives
  <2>3. \A r \in Request : req'[r] = Absent \/ req'[r].at = "over"
    BY <2>1 DEF Exit, Active, Over
  <2> QED BY <2>2, <2>3 DEF AckInv, AtStage
<1>8. CASE UNCHANGED vars
  BY <1>8, AckFrame DEF vars, history
<1> QED
  BY <1>1, <1>2, <1>3, <1>4, <1>5, <1>6, <1>7, <1>8, AckProgress, ClearPatches
  DEF Next, Operation

(* What update_config or shutdown_ebpf answered with success is in force    *)
(* and stored until a request writes CONFIG again or a late statement runs, *)
(* over any number of crashes, failures and dropped requests.               *)
THEOREM AcknowledgedIsStored == Spec => []AckedSurvives
<1>1. Init => AckInv
  BY DEF Init, AckInv, AckedSurvives, AtStage
<1>2. AckInv => AckedSurvives
  BY DEF AckInv
<1> QED BY InitSafe, StepSafe, <1>1, AckStep, <1>2, PTL DEF Spec

--------------------------------------------------------------------------------
(***************************************************************************)
(* The links are on the adapters CONFIG names                               *)
(***************************************************************************)

Swapping(r) == AtStage(r, "set") /\ AdaptersChanged(req[r].patch)

LinkInv ==
    /\ \A r \in Request : Swapping(r) => attached = AdaptersOf(req[r].cfg)
    /\ phase \in {"store", "up"} /\ ~strayed /\ (\A r \in Request : ~Swapping(r)) =>
          attached \in {Detached, AdaptersOf(config)}
    /\ phase \in {"down", "attach"} => ~strayed

(* A step that moves no link, and no request into or out of a swap.         *)
LEMMA LinkFrame ==
    ASSUME LinkInv, UNCHANGED <<phase, config, attached, strayed>>,
           \A q \in Request : Swapping(q)' => Swapping(q) /\ req'[q] = req[q],
           strayed \/ \A q \in Request : Swapping(q) => Swapping(q)'
    PROVE  LinkInv'
BY DEF LinkInv, Swapping, AtStage

LEMMA LinkProgress ==
    ASSUME SafeInv, LinkInv, NEW r \in Request, Progress(r)
    PROVE  LinkInv'
<1>1. Active(r) /\ ~AtStage(r, "lock")
  BY DEF Progress, RebootForUpdate, ShutDown, RestartNothing, Restart, SetConfig, Save, Log,
         AtStage, Active
<1>2. lock = r /\ req[r] \in Call /\ req[r].cfg \in FirewallConfig /\ phase = "up"
      /\ Faithful(req[r], config) /\ req[r] # Absent /\ config \in FirewallConfig
  BY <1>1, HolderType
<1>3. \A q \in Request \ {r} : ~Swapping(q)
  BY <1>2, Alone DEF Swapping, AtStage
<1>4. /\ r # Absent /\ req \in [Request -> Call \cup {Absent}]
      /\ phase' = "up" /\ \A q \in Request \ {r} : req'[q] = req[q] /\ ~Swapping(q)'
  <2>1. phase' = "up"
    BY <1>2 DEF Progress, RebootForUpdate, ShutDown, RestartNothing, Restart, SetConfig, Save, Log
  <2>2. \A q \in Request \ {r} : req'[q] = req[q]
    BY DEF SafeInv, TypeOK, Progress, RebootForUpdate, ShutDown, RestartNothing, Restart,
           SetConfig, Save, Log, Advance, End
  <2> QED BY <1>3, <2>1, <2>2 DEF Swapping, AtStage, SafeInv, TypeOK
<1>5. CASE RebootForUpdate(r)
  <2>1. CASE Attaches(req[r].cfg) /\ Advance(r, "set")
    <3>1. /\ req'[r].at = "set" /\ req'[r].patch = req[r].patch /\ req'[r].cfg = req[r].cfg
          /\ req'[r] # Absent
      <4>1. [req[r] EXCEPT !.at = "set"] \in Call
        BY <1>2 DEF Call, Stage
      <4>2. req'[r] = [req[r] EXCEPT !.at = "set"]
        BY <1>2, <1>4, <2>1 DEF Advance
      <4> QED BY <4>1, <4>2, <1>2 DEF Call
    <3>2. AdaptersChanged(req[r].patch)
      BY <1>2, <1>5 DEF Faithful, RebootForUpdate, AtStage
    <3> QED BY <1>4, <2>1, <3>1, <3>2 DEF LinkInv, Swapping, AtStage, Attaches, AdaptersChanged
  <2>2. CASE FailsToAttach(req[r].cfg) /\ req'[r].at = "save"
    BY <1>4, <2>2 DEF LinkInv, Swapping, AtStage, FailsToAttach
  <2>3. req' = [req EXCEPT ![r].cfg = Cleared(@), ![r].at = "save", ![r].answer = "error"]
        => req'[r].at = "save"
    BY <1>2, <1>4 DEF Call
  <2> QED BY <1>5, <2>1, <2>2, <2>3 DEF RebootForUpdate
<1>6. CASE ShutDown(r)
  <2>1. req'[r].at \in {"save", "over"}
    BY <1>2, <1>4, <1>6 DEF ShutDown, Advance, End, Over, Call
  <2> QED BY <1>4, <1>6, <2>1 DEF ShutDown, LinkInv, Swapping, AtStage
<1>7. CASE Restart(r)
  <2>1. req'[r].at = "log"
    BY <1>2, <1>4, <1>7 DEF Restart, Advance, Call
  <2>2. req[r].cfg = config
    BY <1>2, <1>7, PatchedType, ClearPatches DEF Restart, Faithful, AtStage
  <2>3. attached' \in {Detached, AdaptersOf(config')}
    BY <1>7, <2>2 DEF Restart, Attaches, FailsToAttach
  <2> QED BY <1>4, <2>1, <2>3 DEF LinkInv, Swapping, AtStage
<1>8. CASE SetConfig(r)
  <2>1. req[r].at = "set" /\ req[r].cfg = Patched(config, req[r].patch) /\ req[r].patch \in ConfigPatch
    BY <1>2, <1>8 DEF SetConfig, AtStage, Faithful, Call
  <2>2. Swapping(r) <=> AdaptersChanged(req[r].patch)
    BY <1>2, <2>1 DEF Swapping, AtStage
  <2>3. req'[r].at \in {"save", "over"}
    BY <1>2, <1>4, <1>8 DEF SetConfig, Advance, End, Over, Call
  <2>4. CASE config' = req[r].cfg /\ UNCHANGED strayed
    <3>1. ~Swapping(r) => AdaptersOf(config') = AdaptersOf(config)
      BY <1>2, <2>1, <2>2, <2>4, PatchedType
    <3>2. ~strayed' => attached \in {Detached, AdaptersOf(config')}
      BY <1>2, <1>3, <2>4, <3>1 DEF LinkInv
    <3> QED BY <1>4, <1>8, <2>3, <3>2 DEF SetConfig, LinkInv, Swapping, AtStage
  <2>5. CASE config' = config /\ strayed' = (strayed \/ AdaptersChanged(req[r].patch))
    <3>1. ~strayed' => attached \in {Detached, AdaptersOf(config')}
      BY <1>2, <1>3, <2>2, <2>5 DEF LinkInv
    <3> QED BY <1>4, <1>8, <2>3, <3>1 DEF SetConfig, LinkInv, Swapping, AtStage
  <2> QED BY <1>8, <2>4, <2>5 DEF SetConfig
<1>9. CASE RestartNothing(r) \/ Save(r) \/ Log(r)
  <2>1. ~Swapping(r)
    BY <1>9 DEF RestartNothing, Save, Log, Swapping, AtStage
  <2>2. req'[r].at \in {"over", "log"}
    BY <1>2, <1>4, <1>9 DEF RestartNothing, Save, Log, Advance, End, Over, Call
  <2>3. ~Swapping(r)'
    BY <2>2 DEF Swapping, AtStage
  <2> QED BY <1>3, <1>4, <1>9, <2>1, <2>3, LinkFrame
             DEF RestartNothing, Save, Log, history
<1> QED BY <1>5, <1>6, <1>7, <1>8, <1>9 DEF Progress

LEMMA LinkStep == ASSUME SafeInv, LinkInv, [Next]_vars PROVE LinkInv'
<1>1. ASSUME NEW r \in Request, NEW op \in Operation, NEW p \in ConfigPatch, Arrive(r, op, p)
      PROVE  LinkInv'
  <2>1. \A q \in Request \ {r} : req'[q] = req[q]
    BY <1>1 DEF Arrive, SafeInv, TypeOK
  <2>2. ~Swapping(r) /\ req'[r].at = "lock"
    BY <1>1 DEF Arrive, Swapping, Active, AtStage, SafeInv, TypeOK
  <2> QED BY <1>1, <2>1, <2>2, LinkFrame DEF Arrive, history, Swapping, AtStage
<1>2. ASSUME NEW r \in Request, TakeLock(r) PROVE LinkInv'
  <2>1. req[r] \in Call /\ req[r].at = "lock"
    BY <1>2, HolderType DEF TakeLock, AtStage, Active
  <2>2. \A q \in Request \ {r} : req'[q] = req[q]
    BY <1>2 DEF TakeLock, SafeInv, TypeOK
  <2>3. req'[r].patch = req[r].patch /\ (req'[r].at = "set" => ~AdaptersChanged(req[r].patch))
    BY <1>2, <2>1 DEF TakeLock, SafeInv, TypeOK, Call
  <2> QED BY <1>2, <2>1, <2>2, <2>3, LinkFrame DEF TakeLock, history, Swapping, AtStage
<1>3. ASSUME NEW r \in Request, Drop(r) PROVE LinkInv'
  <2>1. \A q \in Request \ {r} : req'[q] = req[q]
    BY <1>3 DEF Drop, End, SafeInv, TypeOK
  <2>2. req'[r].at = "over"
    BY <1>3 DEF Drop, End, Over, SafeInv, TypeOK
  <2>3. phase = "up"
    BY <1>3, HolderType DEF Drop, IsAwaiting
  <2>4. CASE AtStage(r, "set")
    BY <1>3, <2>1, <2>2, <2>3, <2>4 DEF Drop, LinkInv, Swapping, AtStage
  <2>5. CASE ~AtStage(r, "set")
    <3>1. strayed' = strayed
      BY <1>3, <2>5 DEF Drop, SafeInv, TypeOK
    <3> QED BY <1>3, <2>1, <2>2, <2>5, <3>1, LinkFrame DEF Drop, Swapping, AtStage
  <2> QED BY <2>4, <2>5
<1>4. ASSUME NEW cfg \in late, LateSave(cfg) PROVE LinkInv'
  BY <1>4, LinkFrame DEF LateSave, Swapping, AtStage
<1>5. CASE LoadConfig \/ AttachAtStart \/ StoreAtStart
  <2>1. \A r \in Request : ~Swapping(r) /\ ~Swapping(r)'
    BY <1>5 DEF LoadConfig, AttachAtStart, StoreAtStart, SafeInv, TypeOK, Active, Swapping, AtStage
  <2> QED BY <1>5, <2>1 DEF LoadConfig, AttachAtStart, StoreAtStart, history, LinkInv,
                            Attaches, FailsToAttach
<1>6. CASE FailToStore \/ Crash
  <2>1. Exit
    BY <1>6 DEF FailToStore, Crash
  <2>2. \A r \in Request : ~Swapping(r)'
    BY <2>1 DEF Exit, Active, Over, Swapping, AtStage
  <2> QED BY <2>1, <2>2 DEF Exit, LinkInv
<1>7. CASE UNCHANGED vars
  BY <1>7, LinkFrame DEF vars, history, Swapping, AtStage
<1> QED
  BY <1>1, <1>2, <1>3, <1>4, <1>5, <1>6, <1>7, LinkProgress, ClearPatches
  DEF Next, Operation

(* The XDP program never stays on adapters other than those CONFIG names,   *)
(* however attachments fail and wherever requests end, except after one     *)
(* that ended between reboot and its write of CONFIG.                       *)
THEOREM LinksAreConfigured == Spec => []LinksFollowConfig
<1>1. Init => LinkInv
  BY DEF Init, LinkInv, Swapping, AtStage
<1>2. SafeInv /\ LinkInv => LinksFollowConfig
  BY DEF SafeInv, Exclusive, LinkInv, LinksFollowConfig, Swapping, Active, AtStage
<1> QED BY InitSafe, StepSafe, <1>1, LinkStep, <1>2, PTL DEF Spec

--------------------------------------------------------------------------------
(***************************************************************************)
(* The handlers implement the cell                                          *)
(***************************************************************************)

Outcomes == [q \in Request |-> OutcomeOf(req[q])]
Asked == [q \in Request |-> AskedBy(req[q])]

(* The cell patches as the handlers do.                                     *)
LEMMA SamePatches ==
    ASSUME NEW cfg, NEW patch
    PROVE  Cell!Patched(cfg, patch) = Patched(cfg, patch) /\ Cell!Cleared(cfg) = Cleared(cfg)
BY DEF Cell!Patched, Patched, Cell!Cleared, Cleared, Cell!ClearAdapters, ClearAdapters

(* One request moves: so does its image, alone.                             *)
LEMMA ImageMoves ==
    ASSUME SafeInv, NEW r \in Request, NEW c \in Call, req' = [req EXCEPT ![r] = c]
    PROVE  /\ Outcomes' = [Outcomes EXCEPT ![r] = OutcomeOf(c)]
           /\ Asked' = [Asked EXCEPT ![r] = AskedBy(c)]
BY DEF SafeInv, TypeOK, Outcomes, Asked

(* A step that leaves the images of the requests and the map alone.         *)
LEMMA ImageStutters ==
    ASSUME SafeInv, NEW r \in Request, NEW c \in Call, req' = [req EXCEPT ![r] = c],
           config' = config, OutcomeOf(c) = OutcomeOf(req[r]), AskedBy(c) = AskedBy(req[r])
    PROVE  UNCHANGED Cell!cellVars
<1>1. Outcomes' = Outcomes /\ Asked' = Asked
  BY DEF SafeInv, TypeOK, Outcomes, Asked
<1> QED BY <1>1 DEF Cell!cellVars, Outcomes, Asked

(* A request that ends: it is refused, forgotten, or had no image.          *)
LEMMA ImageEnds ==
    ASSUME SafeInv, NEW r \in Request, Active(r), End(r, "error") \/ End(r, "dropped"),
           config' = config
    PROVE  [Cell!CellNext]_(Cell!cellVars)
<1>1. PICK answer \in {"error", "dropped"} : End(r, answer)
  OBVIOUS
<1> DEFINE c == Over(req[r], answer)
<1>2. /\ req[r] \in Call /\ req[r] # Absent /\ req[r].at # "over"
      /\ c \in Call /\ req' = [req EXCEPT ![r] = c]
      /\ c # Absent /\ c.at = "over" /\ c.answer # "ok" /\ c.op = req[r].op
  <2>1. req[r] \in Call /\ req[r] # Absent /\ req[r].at # "over"
    BY HolderType DEF Active
  <2>2. c \in Call
    BY <2>1, OverType
  <2>3. c.at = "over" /\ c.answer # "ok" /\ c.op = req[r].op
    BY DEF Over
  <2> QED BY <1>1, <2>1, <2>2, <2>3 DEF End
<1> HIDE DEF c
<1>3. CASE req[r].op = "restart"
  <2>1. OutcomeOf(c) = OutcomeOf(req[r]) /\ AskedBy(c) = AskedBy(req[r])
    BY <1>2, <1>3 DEF OutcomeOf, AskedBy
  <2> QED BY <1>2, <2>1, ImageStutters
<1>4. CASE req[r].op # "restart"
  <2>1. OutcomeOf(c) = "failed" /\ AskedBy(c) = Absent
    BY <1>2, <1>4 DEF OutcomeOf, AskedBy
  <2>2. /\ Outcomes' = [Outcomes EXCEPT ![r] = "failed"]
        /\ Asked' = [Asked EXCEPT ![r] = Absent]
    BY <1>2, <2>1, ImageMoves
  <2>3. Outcomes[r] \in {"pending", "applied", "failed"}
    BY <1>2, <1>4 DEF Outcomes, OutcomeOf
  <2>4. CASE Outcomes[r] \in {"pending", "applied"}
    <3>1. Cell!Refuse(r)
      BY <2>2, <2>4 DEF Cell!Refuse, Cell!InProgress, Outcomes, Asked
    <3> QED BY <3>1 DEF Cell!CellNext
  <2>5. CASE Outcomes[r] = "failed"
    <3>1. Outcomes' = Outcomes
      BY <2>2, <2>5 DEF Outcomes
    <3>2. Cell!Forget(r)
      BY <2>2, <2>5, <3>1 DEF Cell!Forget, Cell!InProgress, Outcomes, Asked
    <3> QED BY <3>2 DEF Cell!CellNext
  <2> QED BY <2>3, <2>4, <2>5
<1> QED BY <1>3, <1>4

(* A request moves on to another await with its patch in hand.              *)
LEMMA ImageAdvances ==
    ASSUME SafeInv, NEW r \in Request, Active(r),
           NEW stage \in {"set", "save", "log"}, Advance(r, stage)
    PROVE  /\ req' = [req EXCEPT ![r] = [req[r] EXCEPT !.at = stage]]
           /\ [req[r] EXCEPT !.at = stage] \in Call
           /\ [req[r] EXCEPT !.at = stage].at = stage
           /\ [req[r] EXCEPT !.at = stage].op = req[r].op
           /\ [req[r] EXCEPT !.at = stage].patch = req[r].patch
           /\ [req[r] EXCEPT !.at = stage].answer = req[r].answer
           /\ [req[r] EXCEPT !.at = stage] # Absent
<1>1. req[r] \in Call
  BY HolderType
<1>2. [req[r] EXCEPT !.at = stage] \in Call
  BY <1>1 DEF Call, Stage
<1> QED BY <1>1, <1>2 DEF Advance, Call

(* A request writes its patched configuration: the cell takes the patch.    *)
LEMMA ImageApplies ==
    ASSUME SafeInv, NEW r \in Request, req[r] # Absent, req[r].at \in {"ebpf", "set"},
           req[r].op # "restart", config' = req[r].cfg, Advance(r, "save")
    PROVE  Cell!CellNext
<1> DEFINE c == [req[r] EXCEPT !.at = "save"]
<1>1. /\ Active(r)
      /\ req[r].answer = "ok" /\ req[r].cfg = Patched(config, req[r].patch) /\ config # Absent
  BY HolderType DEF Active, Faithful
<1>2. /\ c \in Call /\ req' = [req EXCEPT ![r] = c] /\ c # Absent
      /\ c.at = "save" /\ c.op = req[r].op /\ c.patch = req[r].patch /\ c.answer = "ok"
  BY <1>1, ImageAdvances
<1> HIDE DEF c
<1>3. /\ Outcomes[r] = "pending" /\ Asked[r] = req[r].patch
      /\ OutcomeOf(c) = "applied" /\ AskedBy(c) = Asked[r]
  BY <1>1, <1>2 DEF Outcomes, Asked, OutcomeOf, AskedBy
<1>4. Outcomes' = [Outcomes EXCEPT ![r] = "applied"] /\ Asked' = Asked
  <2>1. Outcomes' = [Outcomes EXCEPT ![r] = "applied"] /\ Asked' = [Asked EXCEPT ![r] = Asked[r]]
    BY <1>2, <1>3, ImageMoves
  <2>2. [Asked EXCEPT ![r] = Asked[r]] = Asked
    BY DEF Asked
  <2> QED BY <2>1, <2>2
<1>5. config' = Cell!Patched(config, Asked[r])
  BY <1>1, <1>3 DEF Cell!Patched, Patched
<1>6. Cell!Apply(r)
  BY <1>1, <1>3, <1>4, <1>5 DEF Cell!Apply, Outcomes, Asked
<1> QED BY <1>6 DEF Cell!CellNext

LEMMA ImageProgress ==
    ASSUME SafeInv, NEW r \in Request, Progress(r)
    PROVE  [Cell!CellNext]_(Cell!cellVars)
<1>1. Active(r) /\ ~AtStage(r, "lock")
  BY DEF Progress, RebootForUpdate, ShutDown, RestartNothing, Restart, SetConfig, Save, Log,
         AtStage, Active
<1>2. /\ req[r] \in Call /\ req[r].cfg \in FirewallConfig /\ Faithful(req[r], config)
      /\ req[r] # Absent /\ config \in FirewallConfig /\ config # Absent
  BY <1>1, HolderType
<1>3. CASE RebootForUpdate(r)
  <2>1. req[r].at = "ebpf" /\ req[r].op = "update" /\ req[r].cfg = Patched(config, req[r].patch)
    BY <1>2, <1>3 DEF RebootForUpdate, AtStage, Faithful
  <2>2. CASE Advance(r, "set") /\ UNCHANGED <<config, acked>>
    <3> DEFINE c == [req[r] EXCEPT !.at = "set"]
    <3>1. /\ c \in Call /\ req' = [req EXCEPT ![r] = c] /\ c # Absent
          /\ c.at = "set" /\ c.op = req[r].op /\ c.patch = req[r].patch
      BY <1>1, <2>2, ImageAdvances
    <3> HIDE DEF c
    <3>2. OutcomeOf(c) = OutcomeOf(req[r]) /\ AskedBy(c) = AskedBy(req[r])
      BY <1>2, <2>1, <3>1 DEF OutcomeOf, AskedBy
    <3> QED BY <2>2, <3>1, <3>2, ImageStutters
  <2>3. CASE /\ req' = [req EXCEPT ![r].cfg = Cleared(@), ![r].at = "save", ![r].answer = "error"]
             /\ config' \in {config, Cleared(req[r].cfg)}
    <3> DEFINE c == [req[r] EXCEPT !.cfg = Cleared(@), !.at = "save", !.answer = "error"]
    <3>1. Cleared(req[r].cfg) \in FirewallConfig
      BY <1>2, PatchedType, ClearPatches DEF Cleared
    <3>2. /\ c \in Call /\ c.at = "save" /\ c.answer = "error" /\ c.op = "update"
          /\ c.patch = req[r].patch
      BY <1>2, <2>1, <3>1 DEF Call, Stage
    <3>3. req' = [req EXCEPT ![r] = c]
      BY <2>3
    <3> HIDE DEF c
    <3>4. /\ Outcomes[r] = "pending" /\ Asked[r] = req[r].patch
          /\ OutcomeOf(c) = "failed" /\ AskedBy(c) = Asked[r]
      BY <1>2, <2>1, <3>2 DEF Outcomes, Asked, OutcomeOf, AskedBy
    <3>5. Outcomes' = [Outcomes EXCEPT ![r] = "failed"] /\ Asked' = Asked
      <4>1. Outcomes' = [Outcomes EXCEPT ![r] = "failed"]
            /\ Asked' = [Asked EXCEPT ![r] = Asked[r]]
        BY <3>2, <3>3, <3>4, ImageMoves
      <4>2. [Asked EXCEPT ![r] = Asked[r]] = Asked
        BY DEF Asked
      <4> QED BY <4>1, <4>2
    <3>6. config' = config \/ config' = Cell!Cleared(Cell!Patched(config, Asked[r]))
      <4>1. Cleared(req[r].cfg) = Cell!Cleared(Cell!Patched(config, Asked[r]))
        BY <2>1, <3>4, SamePatches
      <4> QED BY <2>3, <4>1
    <3>7. Cell!Refuse(r)
      BY <3>4, <3>5, <3>6 DEF Cell!Refuse, Cell!InProgress, Outcomes, Asked
    <3> QED BY <3>7 DEF Cell!CellNext
  <2> QED BY <1>3, <2>2, <2>3 DEF RebootForUpdate
<1>4. CASE ShutDown(r)
  <2>1. CASE config' = req[r].cfg /\ Advance(r, "save")
    BY <1>2, <1>4, <2>1, ImageApplies DEF ShutDown, AtStage
  <2>2. CASE End(r, "error") /\ config' = config
    BY <1>1, <2>2, ImageEnds
  <2> QED BY <1>4, <2>1, <2>2 DEF ShutDown
<1>5. CASE RestartNothing(r) \/ Restart(r)
  <2>1. req[r].op = "restart" /\ config' = config
    BY <1>5 DEF RestartNothing, Restart
  <2>2. PICK c \in Call : req' = [req EXCEPT ![r] = c] /\ c # Absent /\ c.op = "restart"
    <3>1. CASE RestartNothing(r)
      <4>1. Over(req[r], "ok") \in Call /\ Over(req[r], "ok").op = "restart"
        BY <1>2, <2>1, OverType DEF Over
      <4>2. req' = [req EXCEPT ![r] = Over(req[r], "ok")]
        BY <3>1 DEF RestartNothing, End
      <4>3. Over(req[r], "ok") # Absent
        BY <4>1
      <4> QED BY <4>1, <4>2, <4>3
    <3>2. CASE Advance(r, "log")
      <4> DEFINE c == [req[r] EXCEPT !.at = "log"]
      <4>1. c \in Call /\ req' = [req EXCEPT ![r] = c] /\ c # Absent /\ c.op = "restart"
        BY <1>1, <2>1, <3>2, ImageAdvances
      <4> HIDE DEF c
      <4> QED BY <4>1
    <3>3. CASE req' = [req EXCEPT ![r].at = "log", ![r].answer = "error"]
      <4> DEFINE c == [req[r] EXCEPT !.at = "log", !.answer = "error"]
      <4>1. c \in Call
        BY <1>2 DEF Call, Stage
      <4>2. c.op = "restart"
        BY <1>2, <2>1 DEF Call
      <4>3. req' = [req EXCEPT ![r] = c]
        BY <3>3
      <4> HIDE DEF c
      <4> QED BY <4>1, <4>2, <4>3
    <3> QED BY <1>5, <3>1, <3>2, <3>3 DEF Restart
  <2>3. OutcomeOf(c) = OutcomeOf(req[r]) /\ AskedBy(c) = AskedBy(req[r])
    BY <2>1, <2>2 DEF OutcomeOf, AskedBy
  <2> QED BY <2>1, <2>2, <2>3, ImageStutters
<1>6. CASE SetConfig(r)
  <2>1. req[r].at = "set" /\ req[r].op # "restart"
    BY <1>2, <1>6 DEF SetConfig, AtStage, Faithful
  <2>2. CASE config' = req[r].cfg /\ Advance(r, "save")
    BY <1>2, <2>1, <2>2, ImageApplies
  <2>3. CASE End(r, "error") /\ config' = config
    BY <1>1, <2>3, ImageEnds
  <2> QED BY <1>6, <2>2, <2>3 DEF SetConfig
<1>7. CASE Save(r)
  <2>1. req[r].at = "save" /\ config' = config
    BY <1>7 DEF Save, AtStage
  <2>2. CASE Advance(r, "log")
    <3> DEFINE c == [req[r] EXCEPT !.at = "log"]
    <3>1. /\ c \in Call /\ req' = [req EXCEPT ![r] = c] /\ c # Absent
          /\ c.at = "log" /\ c.op = req[r].op /\ c.patch = req[r].patch
          /\ c.answer = req[r].answer
      BY <1>1, <2>2, ImageAdvances
    <3> HIDE DEF c
    <3>2. OutcomeOf(c) = OutcomeOf(req[r]) /\ AskedBy(c) = AskedBy(req[r])
      BY <1>2, <2>1, <3>1 DEF OutcomeOf, AskedBy
    <3> QED BY <2>1, <3>1, <3>2, ImageStutters
  <2>3. CASE End(r, "error")
    BY <1>1, <2>1, <2>3, ImageEnds
  <2> QED BY <1>7, <2>2, <2>3 DEF Save
<1>8. CASE Log(r)
  <2>1. req[r].at = "log" /\ config' = config /\ End(r, req[r].answer)
    BY <1>8 DEF Log, AtStage
  <2>2. CASE req[r].answer = "ok" /\ req[r].op # "restart"
    <3> DEFINE c == Over(req[r], "ok")
    <3>1. /\ c \in Call /\ req' = [req EXCEPT ![r] = c]
          /\ c # Absent /\ c.at = "over" /\ c.answer = "ok" /\ c.op = req[r].op
      <4>1. c \in Call
        BY <1>2, OverType
      <4> QED BY <2>1, <2>2, <4>1 DEF Over, End
    <3> HIDE DEF c
    <3>2. Outcomes[r] = "applied" /\ OutcomeOf(c) = "acknowledged" /\ AskedBy(c) = Absent
      BY <1>2, <2>1, <2>2, <3>1 DEF Outcomes, OutcomeOf, AskedBy
    <3>3. /\ Outcomes' = [Outcomes EXCEPT ![r] = "acknowledged"]
          /\ Asked' = [Asked EXCEPT ![r] = Absent]
      BY <3>1, <3>2, ImageMoves
    <3>4. Cell!Acknowledge(r)
      BY <2>1, <3>2, <3>3 DEF Cell!Acknowledge, Outcomes, Asked
    <3> QED BY <3>4 DEF Cell!CellNext
  <2>3. CASE req[r].answer # "ok"
    <3>1. req[r].answer \in {"error", "dropped"}
      BY <1>2, <2>3 DEF Call
    <3> QED BY <1>1, <2>1, <3>1, ImageEnds
  <2>4. CASE req[r].op = "restart" /\ req[r].answer = "ok"
    <3> DEFINE c == Over(req[r], "ok")
    <3>1. c \in Call /\ req' = [req EXCEPT ![r] = c] /\ c # Absent /\ c.op = "restart"
      <4>1. c \in Call
        BY <1>2, OverType
      <4> QED BY <2>1, <2>4, <4>1 DEF Over, End
    <3> HIDE DEF c
    <3>2. OutcomeOf(c) = OutcomeOf(req[r]) /\ AskedBy(c) = AskedBy(req[r])
      BY <2>4, <3>1 DEF OutcomeOf, AskedBy
    <3> QED BY <2>1, <3>1, <3>2, ImageStutters
  <2> QED BY <2>2, <2>3, <2>4
<1> QED BY <1>3, <1>4, <1>5, <1>6, <1>7, <1>8 DEF Progress

LEMMA ImageStep == ASSUME SafeInv, [Next]_vars PROVE [Cell!CellNext]_(Cell!cellVars)
<1>1. ASSUME NEW r \in Request, NEW op \in Operation, NEW p \in ConfigPatch, Arrive(r, op, p),
             op = "update" => p \in Patch, op = "shutdown" => p = ClearAdapters
      PROVE  [Cell!CellNext]_(Cell!cellVars)
  <2> DEFINE c == [op |-> op, patch |-> p, at |-> "lock", cfg |-> Absent, answer |-> "ok"]
  <2>1. c \in Call /\ req' = [req EXCEPT ![r] = c] /\ c.op = op /\ c.patch = p /\ c.at = "lock"
    BY <1>1 DEF Arrive, Call, Stage
  <2>2. c # Absent /\ config' = config /\ config # Absent
    BY <1>1, <2>1 DEF Arrive, SafeInv, TypeOK
  <2> HIDE DEF c
  <2>3. Outcomes[r] \notin {"pending", "applied"}
    BY <1>1 DEF Arrive, Active, Outcomes, OutcomeOf
  <2>4. CASE op = "restart"
    <3>1. OutcomeOf(c) = "none" /\ AskedBy(c) = Absent
      BY <2>1, <2>4 DEF OutcomeOf, AskedBy
    <3>2. /\ Outcomes' = [Outcomes EXCEPT ![r] = "none"]
          /\ Asked' = [Asked EXCEPT ![r] = Absent]
      BY <2>1, <3>1, ImageMoves
    <3>3. Cell!Forget(r)
      BY <2>2, <2>3, <3>2 DEF Cell!Forget, Cell!InProgress, Outcomes, Asked
    <3> QED BY <3>3 DEF Cell!CellNext
  <2>5. CASE op # "restart"
    <3>1. OutcomeOf(c) = "pending" /\ AskedBy(c) = p
      BY <2>1, <2>2, <2>5 DEF OutcomeOf, AskedBy
    <3>2. /\ Outcomes' = [Outcomes EXCEPT ![r] = "pending"]
          /\ Asked' = [Asked EXCEPT ![r] = p]
      BY <2>1, <3>1, ImageMoves
    <3>3. p \in Patch \cup {Cell!ClearAdapters}
      BY <1>1, <2>5 DEF Operation, Cell!ClearAdapters, ClearAdapters
    <3>4. Cell!Ask(r)
      BY <2>2, <2>3, <3>2, <3>3 DEF Cell!Ask, Cell!InProgress, Outcomes, Asked
    <3> QED BY <3>4 DEF Cell!CellNext
  <2> QED BY <2>4, <2>5
<1>2. ASSUME NEW r \in Request, TakeLock(r) PROVE UNCHANGED Cell!cellVars
  <2> DEFINE stage == IF req[r].op = "update" /\ ~AdaptersChanged(req[r].patch)
                      THEN "set" ELSE "ebpf"
             c == [req[r] EXCEPT !.cfg = Patched(config, req[r].patch), !.at = stage]
  <2>1. req[r] \in Call /\ req[r] # Absent /\ req[r].at = "lock" /\ config' = config
        /\ Patched(config, req[r].patch) \in FirewallConfig
    BY <1>2, HolderType, PatchedType DEF TakeLock, AtStage, Active, Call
  <2>2. c \in Call /\ c.at \in {"set", "ebpf"} /\ c.op = req[r].op /\ c.patch = req[r].patch
    BY <2>1 DEF Call, Stage
  <2>3. req' = [req EXCEPT ![r] = c]
    BY <1>2 DEF TakeLock
  <2> HIDE DEF c
  <2>4. OutcomeOf(c) = OutcomeOf(req[r]) /\ AskedBy(c) = AskedBy(req[r])
    BY <2>1, <2>2 DEF OutcomeOf, AskedBy
  <2> QED BY <2>1, <2>2, <2>3, <2>4, ImageStutters
<1>3. ASSUME NEW r \in Request, Drop(r) PROVE [Cell!CellNext]_(Cell!cellVars)
  BY <1>3, ImageEnds DEF Drop, IsAwaiting
<1>4. CASE LoadConfig
  <2>1. config = Absent /\ config' \in FirewallConfig /\ req' = req
    BY <1>4 DEF LoadConfig, SafeInv, TypeOK
  <2>2. config' \in Cell!FirewallConfig
    BY <2>1 DEF Cell!FirewallConfig, FirewallConfig
  <2>3. Cell!Start
    BY <2>1, <2>2 DEF Cell!Start
  <2> QED BY <2>3 DEF Cell!CellNext
<1>5. CASE FailToStore \/ Crash
  <2>1. Exit
    BY <1>5 DEF FailToStore, Crash
  <2>2. \A r \in Request : OutcomeOf(req'[r]) =
           IF Cell!InProgress(r) THEN "failed" ELSE OutcomeOf(req[r])
    <3> SUFFICES ASSUME NEW r \in Request
                 PROVE  OutcomeOf(req'[r]) =
                           IF Cell!InProgress(r) THEN "failed" ELSE OutcomeOf(req[r])
      OBVIOUS
    <3>1. Cell!InProgress(r) <=> OutcomeOf(req[r]) \in {"pending", "applied"}
      BY DEF Cell!InProgress
    <3>2. CASE ~Active(r)
      BY <2>1, <3>1, <3>2 DEF Exit, Active, OutcomeOf
    <3>3. CASE Active(r)
      <4>1. /\ req[r] # Absent /\ req[r].at # "over" /\ req'[r] = Over(req[r], "dropped")
            /\ req'[r] # Absent
        BY <2>1, <3>3, HolderType, OverType DEF Exit, Active
      <4>2. req'[r].at = "over" /\ req'[r].answer = "dropped" /\ req'[r].op = req[r].op
        BY <4>1 DEF Over
      <4> QED BY <3>1, <4>1, <4>2 DEF OutcomeOf
    <3> QED BY <3>2, <3>3
  <2>3. \A r \in Request : AskedBy(req'[r]) = Absent
    BY <2>1 DEF Exit, Active, Over, AskedBy
  <2>4. Cell!Stop
    BY <2>1, <2>2, <2>3 DEF Exit, Cell!Stop
  <2> QED BY <2>4 DEF Cell!CellNext
<1>6. CASE \/ \E cfg \in late : LateSave(cfg)
           \/ AttachAtStart \/ StoreAtStart \/ UNCHANGED vars
  <2>1. UNCHANGED <<config, req>>
    BY <1>6 DEF LateSave, AttachAtStart, StoreAtStart, vars, history
  <2> QED BY <2>1 DEF Cell!cellVars
<1> QED
  BY <1>1, <1>2, <1>3, <1>4, <1>5, <1>6, ImageProgress, ClearPatches DEF Next, Operation

(* However requests interleave, fail and are dropped, CONFIG is one cell:   *)
(* each acknowledged update or shutdown put its whole patch on top of what  *)
(* every earlier one had left.                                              *)
THEOREM HandlersImplementCell == Spec => ImplementsCell
<1>1. Init => Cell!CellInit
  BY DEF Init, Cell!CellInit, OutcomeOf, AskedBy
<1> QED BY InitSafe, StepSafe, ImageStep, <1>1, PTL DEF Spec, ImplementsCell, Cell!CellSpec
================================================================================
