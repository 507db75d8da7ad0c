---------------------------- MODULE MCPacketFilter -----------------------------
(***************************************************************************)
(* Values of PacketFilter's constants for TLC: a protected host "lan" behind*)
(* adapter 2 and a host "wan" behind adapter 1.                             *)
(***************************************************************************)
EXTENDS PacketFilter, TLC

CONSTANTS s1, s2, c1, c2

Frames(ethers, protocols, closings, readables) ==
    {p \in [ingress: {1, 2}, ether: ethers, src: {"lan", "wan"}, dst: {"lan", "wan"},
            protocol: protocols, closing: closings, readable: readables] :
        IF p.ingress = 1 THEN p.src = "wan" /\ p.dst = "lan" ELSE p.src = "lan" /\ p.dst = "wan"}

Profiles(profile) == [n \in ProfileName |-> profile]

Cfg(profile, allowed, ddos, nets) ==
    [profiles |-> Profiles(profile), protocol_allowed |-> allowed, ddos_activated |-> ddos,
     subnet_activated |-> nets, incoming |-> 1, output |-> 2]

OneToken == {[tokens |-> 1, last_update |-> 0]}
IPs == {"IPV4", "IPV6"}
OnePerTwo == [period |-> 2, burst |-> 1]

Hosts == {"lan", "wan"}
TcpFrames == Frames({"Ipv4"}, {"Tcp"}, BOOLEAN, {"all"})
PingFrames == Frames({"Ipv4"}, {"Icmp"}, {FALSE}, {"all"})
(* Closing segments from outside only: those from inside take the same steps. *)
StateFrames == {p \in TcpFrames : p.closing => p.ingress = 1}
FlowFrames ==
    TcpFrames
    \cup {p \in Frames({"Ieee8021q", "Arp", "Unknown"}, {"Tcp"}, {FALSE}, {"all"}) : p.ingress = 1}
    \cup {p \in Frames({"Ipv4"}, {"Tcp"}, {FALSE}, {"nothing", "ethernet"}) : p.ingress = 2}
Ipv6Frames == Frames({"Ipv6"}, {"Ipv6Icmp"}, {FALSE}, {"all"})

StateConfigs == {Cfg(OnePerTwo, IPs, FALSE, TRUE)}
(* With rate limiting, no subnet rules and only IPv4; or the reverse. *)
FlowConfigs == {Cfg(OnePerTwo, {"IPV4"}, TRUE, FALSE), Cfg(OnePerTwo, {"IEEE8021Q"}, FALSE, TRUE),
                Cfg(OnePerTwo, {"IPV4"}, FALSE, TRUE)}
SlowConfigs == {Cfg(OnePerTwo, IPs, TRUE, FALSE)}
NoIpConfigs == {Cfg(OnePerTwo, {"IPV4"}, TRUE, FALSE)}

SlotSymmetry == Permutations({s1, s2})
StateSymmetry == SlotSymmetry \cup Permutations({c1, c2})
================================================================================
