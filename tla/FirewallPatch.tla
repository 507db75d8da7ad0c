----------------------------- MODULE FirewallPatch -----------------------------
(***************************************************************************)
(* The configuration the control plane handles, as far as its steps tell    *)
(* configurations apart: the two adapters, and one value for all the rest   *)
(* (rate profiles, protocol mask, the two switches).                        *)
(***************************************************************************)
CONSTANTS
    Adapter,            \* interface indexes
    Policy,             \* the values of every other field of the configuration
    Absent,             \* None
    Keep                \* a field a patch does not name

ASSUME SentinelAssumption == {Absent, Keep} \cap (Adapter \cup Policy) = {} /\ Absent # Keep

FirewallConfig == [incoming: Adapter \cup {Absent}, output: Adapter \cup {Absent},
                   policy: Policy]
ConfigPatch == [incoming: Adapter \cup {Absent, Keep}, output: Adapter \cup {Absent, Keep},
                policy: Policy \cup {Keep}]

(* ConfigPatch::apply: the fields the patch names. *)
Patched(cfg, patch) ==
    [field \in DOMAIN cfg |-> IF patch[field] = Keep THEN cfg[field] ELSE patch[field]]

ClearAdapters == [incoming |-> Absent, output |-> Absent, policy |-> Keep]
KeepAll == [incoming |-> Keep, output |-> Keep, policy |-> Keep]

Cleared(cfg) == Patched(cfg, ClearAdapters)

AdaptersChanged(patch) == patch.incoming # Keep \/ patch.output # Keep
================================================================================
