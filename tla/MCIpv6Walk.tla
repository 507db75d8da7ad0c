----------------------------- MODULE MCIpv6Walk --------------------------------
(***************************************************************************)
(* Frames of Ipv6Walk for TLC: chains around the limit of the loop built of *)
(* one kind per length formula, short chains of every kind, each frame      *)
(* whole and cut at every point the parse reads.                            *)
(***************************************************************************)
EXTENDS Ipv6Walk, FiniteSets

CONSTANTS LongKinds, LongLength, Lengths, MaxExtensions

(* The chain with one more header, which starts where the last one ends. *)
Extended(chain, kind, len) ==
    LET last == chain[Len(chain)]
    IN  Append(chain, [kind |-> kind, ext_len |-> len,
                       start |-> IF chain = <<>> THEN FirstHeader ELSE last.start + Octets(last)])

(* The chains of at most `max` extension headers of these kinds and length   *)
(* octets.                                                                   *)
Chains(kinds, lens, max) ==
    LET chains[n \in 0..max] ==
          IF n = 0 THEN {<<>>}
          ELSE LET shorter == chains[n - 1]
               IN  shorter \cup {Extended(chain, kind, len) :
                                   chain \in shorter, kind \in kinds, len \in lens}
    IN  chains[max]

Ended ==
    {Extended(chain, kind, 0) :
        chain \in Chains(LongKinds, {LongLength}, MaxExtensions) \cup Chains(Walked, Lengths, 2),
        kind \in Transport \cup {"Other", "Unknown"}}

(* The octets that arrive when a frame is cut before or in its first header, *)
(* before or in its last one, or not at all (payload follows the headers).     *)
SizeWhenCut(chain, cut) ==
    LET last == chain[Len(chain)].start
    IN  [ipv6 |-> FirstHeader - 1, first |-> FirstHeader + 1, last |-> last + 1,
         middle |-> last + 8, nowhere |-> last + 60][cut]

Frames == {[headers |-> chain, size |-> SizeWhenCut(chain, cut)] :
              chain \in Ended, cut \in {"ipv6", "first", "last", "middle", "nowhere"}}
================================================================================
