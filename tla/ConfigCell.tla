------------------------------- MODULE ConfigCell ------------------------------
(***************************************************************************)
(* What the configuration handlers promise about the CONFIG map: it is one  *)
(* cell to which each request that is acknowledged applied its whole patch, *)
(* once, in one step, to the value the cell had then.  A request that fails *)
(* leaves the cell alone, or its patch is in force although it failed, or   *)
(* in force with the adapters cleared.                                      *)
(***************************************************************************)
EXTENDS FirewallPatch

CONSTANTS Request, Patch

VARIABLES
    cell,       \* the configuration in force; Absent while the daemon is down
    asked,      \* the patch of each request
    outcome     \* how far each request is

cellVars == <<cell, asked, outcome>>

InProgress(r) == outcome[r] \in {"pending", "applied"}

CellInit ==
    /\ cell = Absent
    /\ asked = [r \in Request |-> Absent]
    /\ outcome = [r \in Request |-> "none"]

Ask(r) ==
    /\ cell # Absent /\ ~InProgress(r)
    /\ outcome' = [outcome EXCEPT ![r] = "pending"]
    /\ \E p \in Patch \cup {ClearAdapters} : asked' = [asked EXCEPT ![r] = p]
    /\ UNCHANGED cell

Apply(r) ==
    /\ cell # Absent /\ outcome[r] = "pending"
    /\ outcome' = [outcome EXCEPT ![r] = "applied"]
    /\ cell' = Patched(cell, asked[r])
    /\ UNCHANGED asked

Acknowledge(r) ==
    /\ outcome[r] = "applied"
    /\ outcome' = [outcome EXCEPT ![r] = "acknowledged"]
    /\ asked' = [asked EXCEPT ![r] = Absent]
    /\ UNCHANGED cell

Refuse(r) ==
    /\ InProgress(r)
    /\ outcome' = [outcome EXCEPT ![r] = "failed"]
    /\ \/ UNCHANGED cell
       \/ outcome[r] = "pending" /\ cell' = Cleared(Patched(cell, asked[r]))
    /\ asked' \in {asked, [asked EXCEPT ![r] = Absent]}

Forget(r) ==
    /\ ~InProgress(r)
    /\ outcome' \in {outcome, [outcome EXCEPT ![r] = "none"]}
    /\ asked' = [asked EXCEPT ![r] = Absent]
    /\ UNCHANGED cell

Stop ==
    /\ cell' = Absent
    /\ outcome' = [r \in Request |-> IF InProgress(r) THEN "failed" ELSE outcome[r]]
    /\ asked' = [r \in Request |-> Absent]

Start ==
    /\ cell = Absent /\ cell' \in FirewallConfig
    /\ UNCHANGED <<asked, outcome>>

CellNext ==
    \/ \E r \in Request : Ask(r) \/ Apply(r) \/ Acknowledge(r) \/ Refuse(r) \/ Forget(r)
    \/ Stop
    \/ Start

CellSpec == CellInit /\ [][CellNext]_cellVars
================================================================================
