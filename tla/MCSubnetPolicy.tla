---------------------------- MODULE MCSubnetPolicy -----------------------------
(***************************************************************************)
(* Values of SubnetPolicy's constants for TLC: addresses of two bits.       *)
(***************************************************************************)
EXTENDS SubnetPolicy, TLC

CONSTANTS r1, r2

Net(network, prefix_len) == [network |-> network, prefix_len |-> prefix_len]

(* A net, and an address in it: two prefixes, one the beginning of the other. *)
Canonical == {Net(2, 1), Net(2, 2)}

(* One net, written with its first and with its last address. *)
Aliased == {Net(2, 1), Net(3, 1)}

RequestSymmetry == Permutations({r1, r2})
================================================================================
