---------------------------- MODULE MCControlPlane -----------------------------
(***************************************************************************)
(* Values of ControlPlane's constants for TLC.                              *)
(***************************************************************************)
EXTENDS ControlPlane

CONSTANTS r1, r2, p1, p2

Body(incoming, output, policy) == [incoming |-> incoming, output |-> output, policy |-> policy]

NoAdapters == Body(Absent, Absent, p1)
Patches == {Body(1, 2, Keep), Body(Keep, Keep, p2)}
================================================================================
