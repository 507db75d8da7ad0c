------------------------------- MODULE MCAccounts ------------------------------
(***************************************************************************)
(* Values of Accounts' constants for TLC.                                   *)
(***************************************************************************)
EXTENDS Accounts, TLC

CONSTANTS r1, r2, j1, j2

(* The first administrator has every permission; those it creates, and itself *)
(* once modified, may only modify.                                             *)
Editor == [admin |-> TRUE, permissions |-> {"MODIFY"}]
Grants == {Editor}

Symmetry == Permutations({r1, r2}) \cup Permutations({j1, j2})
================================================================================
