------------------------------ MODULE ControlPlane -----------------------------
(***************************************************************************)
(* The configuration of the daemon and the attachment of its XDP program:   *)
(* update_config, shutdown_ebpf and restart_ebpf (oxidrop/src/state.rs),    *)
(* EbpfProgramm::reboot (oxidrop/src/ebpf.rs), and start-up                 *)
(* (oxidrop/src/main.rs).  The adapters are kept three times: by the links, *)
(* in the CONFIG map and in SQLite.                                         *)
(*                                                                          *)
(* A step of a request is the stretch between two of its awaits, at each of *)
(* which it may be dropped: by the 30 s timeout, or with its connection.    *)
(***************************************************************************)
EXTENDS FirewallPatch, Naturals, FiniteSets

CONSTANTS
    Request,            \* the requests that may be in progress together
    Patch,              \* the bodies an administrator sends to update_config
    DefaultConfig,      \* FirewallConfig::default, the adapters of the command line
    MaxCrashes,         \* bound on the crashes of the daemon
    MaxLate             \* bound on the statements of dropped requests in flight

ASSUME PatchAssumption == Patch \subseteq ConfigPatch
ASSUME DefaultAssumption == DefaultConfig \in FirewallConfig
ASSUME BoundAssumption == MaxCrashes \in Nat /\ MaxLate \in Nat

VARIABLES
    phase,      \* how far start-up is
    config,     \* CONFIG[0], Absent while no daemon has set it
    db,         \* the row of firewall_config
    attached,   \* the adapters of EbpfProgramm, a link on each
    lock,       \* the request that holds CONFIG's write lock
    req,        \* the requests in progress, and how the last one ended
    late,       \* what statements of dropped requests may still write
    crashes,
    acked,      \* history: the configuration of the last acknowledged change,
                \* until another request writes the map
    overtaken,  \* history: a late statement ran since a request last saved
    strayed     \* history: a request ended between reboot and its write of CONFIG

history == <<acked, overtaken, strayed>>
vars == <<phase, config, db, attached, lock, req, late, crashes, history>>

Operation == {"update", "shutdown", "restart"}
Stage == {"lock", "ebpf", "set", "save", "log", "over"}

Call == [op: Operation, patch: ConfigPatch, at: Stage, cfg: FirewallConfig \cup {Absent},
         answer: {"ok", "error", "dropped"}]

ASSUME AbsentAssumption ==
    Absent \notin Request \cup FirewallConfig \cup ConfigPatch \cup Call

Attachment == [incoming: Adapter \cup {Absent}, output: Adapter \cup {Absent}]
AdaptersOf(cfg) == [incoming |-> cfg.incoming, output |-> cfg.output]
Detached == [incoming |-> Absent, output |-> Absent]

--------------------------------------------------------------------------------
AtStage(r, stage) == req[r] # Absent /\ req[r].at = stage
Active(r) == req[r] # Absent /\ req[r].at # "over"

Advance(r, stage) == req' = [req EXCEPT ![r].at = stage]

(* The response is sent, or the future dropped; its guards go with it. *)
Over(call, answer) ==
    [op |-> call.op, patch |-> KeepAll, at |-> "over", cfg |-> Absent, answer |-> answer]

EndKeepingLock(r, answer) ==
    /\ req' = [req EXCEPT ![r] = Over(@, answer)]
    /\ UNCHANGED lock

End(r, answer) ==
    /\ req' = [req EXCEPT ![r] = Over(@, answer)]
    /\ lock' = IF lock = r THEN Absent ELSE lock

(***************************************************************************)
(* EbpfProgramm::reboot detaches and attaches anew.  The kernel takes one   *)
(* XDP program per interface; any attachment may fail, and then none stays. *)
(***************************************************************************)
Attaches(cfg) ==
    /\ cfg.incoming # Absent => cfg.incoming # cfg.output
    /\ attached' = AdaptersOf(cfg)

FailsToAttachKeepingFirst(cfg) ==
    /\ AdaptersOf(cfg) # Detached
    /\ attached' = [Detached EXCEPT !.incoming = cfg.incoming]

FailsToAttach(cfg) ==
    /\ AdaptersOf(cfg) # Detached
    /\ attached' = Detached

(***************************************************************************)
(* Requests                                                                 *)
(***************************************************************************)
Arrive(r, op, patch) ==
    /\ phase = "up" /\ ~Active(r)
    /\ req' = [req EXCEPT ![r] = [op |-> op, patch |-> patch, at |-> "lock",
                                  cfg |-> Absent, answer |-> "ok"]]
    /\ UNCHANGED <<phase, config, db, attached, lock, late, crashes, history>>

ReadWithoutLock(r) ==
    /\ AtStage(r, "lock")
    /\ lock' = r
    /\ req' = [req EXCEPT
                  ![r].cfg = Patched(config, req[r].patch),
                  ![r].at = IF req[r].op = "update" /\ ~AdaptersChanged(req[r].patch)
                            THEN "set" ELSE "ebpf"]
    /\ UNCHANGED <<phase, config, db, attached, late, crashes, history>>

(* config.write().await, and the configuration is read and patched. *)
TakeLock(r) ==
    /\ AtStage(r, "lock") /\ lock = Absent
    /\ lock' = r
    /\ req' = [req EXCEPT
                  ![r].cfg = Patched(config, req[r].patch),
                  ![r].at = IF req[r].op = "update" /\ ~AdaptersChanged(req[r].patch)
                            THEN "set" ELSE "ebpf"]
    /\ UNCHANGED <<phase, config, db, attached, late, crashes, history>>

(* The new adapters are attached before CONFIG names them; on failure both  *)
(* are cleared, and a failing write of the map is only logged.              *)
RebootForUpdate(r) ==
    /\ AtStage(r, "ebpf") /\ req[r].op = "update"
    /\ \/ /\ Attaches(req[r].cfg)
          /\ Advance(r, "set")
          /\ UNCHANGED <<config, acked>>
       \/ /\ FailsToAttach(req[r].cfg)
          /\ req' = [req EXCEPT ![r].cfg = Cleared(@), ![r].at = "save", ![r].answer = "error"]
          /\ config' \in {config, Cleared(req[r].cfg)}
          /\ acked' = Absent
    /\ strayed' = FALSE
    /\ UNCHANGED <<phase, db, lock, late, crashes, overtaken>>

ShutDown(r) ==
    /\ AtStage(r, "ebpf") /\ req[r].op = "shutdown"
    /\ attached' = Detached
    /\ \/ /\ config' = req[r].cfg
          /\ Advance(r, "save")
          /\ acked' = Absent
          /\ UNCHANGED lock
       \/ End(r, "error") /\ UNCHANGED <<config, acked>>
    /\ strayed' = FALSE
    /\ UNCHANGED <<phase, db, late, crashes, overtaken>>

RestartNothing(r) ==
    /\ AtStage(r, "ebpf") /\ req[r].op = "restart"
    /\ AdaptersOf(req[r].cfg) = Detached
    /\ End(r, "ok")
    /\ UNCHANGED <<phase, config, db, attached, late, crashes, history>>

Restart(r) ==
    /\ AtStage(r, "ebpf") /\ req[r].op = "restart"
    /\ AdaptersOf(req[r].cfg) # Detached
    /\ \/ Attaches(req[r].cfg) /\ Advance(r, "log")
       \/ /\ FailsToAttach(req[r].cfg)
          /\ req' = [req EXCEPT ![r].at = "log", ![r].answer = "error"]
    /\ strayed' = FALSE
    /\ UNCHANGED <<phase, config, db, lock, late, crashes, acked, overtaken>>

(* config.set(0, cfg, 0), for a patch with adapters once the log has them. *)
SetConfig(r) ==
    /\ AtStage(r, "set")
    /\ \/ /\ config' = req[r].cfg
          /\ Advance(r, "save")
          /\ acked' = Absent
          /\ UNCHANGED <<lock, strayed>>
       \/ /\ End(r, "error")
          /\ strayed' = (strayed \/ AdaptersChanged(req[r].patch))
          /\ UNCHANGED <<config, acked>>
    /\ UNCHANGED <<phase, db, attached, late, crashes, overtaken>>

SaveUnchecked(r) ==
    /\ AtStage(r, "save")
    /\ db' \in {db, req[r].cfg}
    /\ Advance(r, "log")
    /\ overtaken' = FALSE
    /\ UNCHANGED <<phase, config, attached, lock, late, crashes, acked, strayed>>

(* save_firewall_config.  After a failed attachment its failure is logged;  *)
(* otherwise it is the answer, and what is in force is not what is stored.  *)
Save(r) ==
    /\ AtStage(r, "save")
    /\ \/ /\ db' = req[r].cfg /\ overtaken' = FALSE
          /\ Advance(r, "log") /\ UNCHANGED lock
       \/ /\ UNCHANGED <<db, overtaken>>
          /\ IF req[r].answer = "error"
             THEN Advance(r, "log") /\ UNCHANGED lock
             ELSE End(r, "error")
    /\ UNCHANGED <<phase, config, attached, late, crashes, acked, strayed>>

Log(r) ==
    /\ AtStage(r, "log")
    /\ End(r, req[r].answer)
    /\ acked' = IF req[r].answer = "ok" /\ req[r].op # "restart" THEN req[r].cfg ELSE acked
    /\ UNCHANGED <<phase, config, db, attached, late, crashes, overtaken, strayed>>

(* Between reboot and the write of CONFIG the only await is that of the log. *)
IsAwaiting(r) ==
    /\ Active(r)
    /\ AtStage(r, "set") => AdaptersChanged(req[r].patch)

(* The statement of a dropped save may have been sent to the database's own *)
(* thread, which runs it when it gets to it.                                *)
Drop(r) ==
    /\ IsAwaiting(r)
    /\ End(r, "dropped")
    /\ \/ UNCHANGED late
       \/ /\ AtStage(r, "save") /\ Cardinality(late) < MaxLate
          /\ late' = late \cup {req[r].cfg}
    /\ strayed' = (strayed \/ AtStage(r, "set"))
    /\ UNCHANGED <<phase, config, db, attached, crashes, acked, overtaken>>

LateSave(cfg) ==
    /\ cfg \in late
    /\ db' = cfg
    /\ late' = late \ {cfg}
    /\ overtaken' = TRUE
    /\ UNCHANGED <<phase, config, attached, lock, req, crashes, acked, strayed>>

(***************************************************************************)
(* The daemon                                                               *)
(***************************************************************************)
LoadOnlyStored ==
    /\ phase = "down"
    /\ phase' = "attach"
    /\ config' = db
    /\ UNCHANGED <<db, attached, lock, req, late, crashes, history>>

(* The stored configuration, else the default one, goes into the new map. *)
LoadConfig ==
    /\ phase = "down"
    /\ phase' = "attach"
    /\ config' = IF db = Absent THEN DefaultConfig ELSE db
    /\ UNCHANGED <<db, attached, lock, req, late, crashes, history>>

(* The adapters are attached; a failure is logged and start-up goes on. *)
AttachAtStart ==
    /\ phase = "attach"
    /\ phase' = "store"
    /\ Attaches(config) \/ FailsToAttach(config)
    /\ UNCHANGED <<config, db, lock, req, late, crashes, history>>

StoreAtStart ==
    /\ phase = "store"
    /\ phase' = "up"
    /\ db' = config
    /\ UNCHANGED <<config, attached, lock, req, late, crashes, history>>

(* The process ends; the kernel drops its links and maps. *)
Exit ==
    /\ phase' = "down"
    /\ config' = Absent /\ attached' = Detached /\ lock' = Absent /\ late' = {}
    /\ req' = [r \in Request |-> IF Active(r) THEN Over(req[r], "dropped") ELSE req[r]]
    /\ strayed' = FALSE
    /\ UNCHANGED <<db, acked, overtaken>>

FailToStore == phase = "store" /\ Exit /\ UNCHANGED crashes

Crash ==
    /\ phase # "down" /\ crashes < MaxCrashes
    /\ crashes' = crashes + 1
    /\ Exit

Init ==
    /\ phase = "down" /\ config = Absent /\ db = Absent
    /\ attached = Detached /\ lock = Absent /\ late = {}
    /\ req = [r \in Request |-> Absent]
    /\ crashes = 0 /\ acked = Absent /\ overtaken = FALSE /\ strayed = FALSE

Progress(r) ==
    \/ RebootForUpdate(r)
    \/ ShutDown(r)
    \/ RestartNothing(r)
    \/ Restart(r)
    \/ SetConfig(r)
    \/ Save(r)
    \/ Log(r)

Next ==
    \/ \E r \in Request :
          \/ \E p \in Patch : Arrive(r, "update", p)
          \/ Arrive(r, "shutdown", ClearAdapters)
          \/ Arrive(r, "restart", KeepAll)
          \/ TakeLock(r)
          \/ Progress(r)
          \/ Drop(r)
    \/ \E cfg \in late : LateSave(cfg)
    \/ LoadConfig
    \/ AttachAtStart
    \/ StoreAtStart
    \/ FailToStore
    \/ Crash

Spec == Init /\ [][Next]_vars

(* A request that holds the lock runs on; the lock goes to whoever waits    *)
(* longest.  Nothing makes the daemon start, crash, or drop a request.      *)
FairSpec ==
    /\ Spec
    /\ \A r \in Request : WF_vars(Progress(r)) /\ SF_vars(TakeLock(r))

--------------------------------------------------------------------------------
(* Types; and CONFIG[0] is set for as long as a daemon can serve a request, *)
(* so that config.get never fails, and only a live request holds the lock.  *)
TypeOK ==
    /\ phase \in {"down", "attach", "store", "up"}
    /\ config \in FirewallConfig \cup {Absent}
    /\ config = Absent <=> phase = "down"
    /\ \A r \in Request : Active(r) => phase = "up"
    /\ lock # Absent => Active(lock) /\ ~AtStage(lock, "lock")
    /\ db \in FirewallConfig \cup {Absent}
    /\ attached \in Attachment
    /\ lock \in Request \cup {Absent}
    /\ req \in [Request -> Call \cup {Absent}]
    /\ late \subseteq FirewallConfig
    /\ crashes \in 0..MaxCrashes
    /\ acked \in FirewallConfig \cup {Absent}
    /\ overtaken \in BOOLEAN
    /\ strayed \in BOOLEAN

(* What update_config or shutdown_ebpf answered with success stays in force *)
(* and stored, over any number of crashes and restarts and whatever other   *)
(* requests fail or are dropped, until a request writes the map again or a  *)
(* statement of a dropped one is run late.                                  *)
AckedSurvives ==
    acked # Absent /\ ~overtaken => db = acked /\ (phase # "down" => config = acked)

(* The XDP program never runs on adapters other than those CONFIG names,    *)
(* by which it tells the direction of a frame, except while a request is    *)
(* changing them or after one that ended between reboot and its write.      *)
LinksFollowConfig ==
    phase = "up" /\ lock = Absent /\ ~strayed => attached \in {Detached, AdaptersOf(config)}

(* Two changes never mix: see ConfigCell.  A restart does not touch the map.*)
OutcomeOf(call) ==
    IF call = Absent \/ call.op = "restart" THEN "none"
    ELSE IF call.at = "over" THEN (IF call.answer = "ok" THEN "acknowledged" ELSE "failed")
    ELSE IF call.at \in {"lock", "ebpf", "set"} THEN "pending"
    ELSE IF call.answer = "ok" THEN "applied" ELSE "failed"

AskedBy(call) ==
    IF call = Absent \/ call.op = "restart" \/ call.at = "over" THEN Absent ELSE call.patch

Cell == INSTANCE ConfigCell WITH
            cell <- config,
            asked <- [r \in Request |-> AskedBy(req[r])],
            outcome <- [r \in Request |-> OutcomeOf(req[r])]

(* Each acknowledged update or shutdown took effect at once and whole, on   *)
(* top of every earlier one.                                                *)
ImplementsCell == Cell!CellSpec

(* Every request ends: no order of requests, failures and drops leaves one  *)
(* waiting for the lock for ever.                                           *)
RequestsEnd == \A r \in Request : Active(r) ~> ~Active(r)
================================================================================
