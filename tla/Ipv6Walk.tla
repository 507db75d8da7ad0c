------------------------------- MODULE Ipv6Walk --------------------------------
(***************************************************************************)
(* How the XDP program finds the transport header of an IPv6 frame          *)
(* (oxidrop-ebpf/src/main.rs): a loop of at most Limit rounds that sums the *)
(* lengths of extension headers, then one read at the sum.  PacketFilter    *)
(* takes the frame's flow key from here as given.                           *)
(***************************************************************************)
EXTENDS Integers, Sequences

CONSTANTS
    Frame,      \* the frames the environment may deliver
    Limit,      \* the rounds of the loop
    Absent

(* What IpProto::from_u8 makes of a next-header octet: the kinds the walk    *)
(* tells apart, "Other" for the rest it knows, "Unknown" for None.           *)
Optional == {"HopOpt", "Ipv6Route", "Ipv6Opts"}
Walked == Optional \cup {"Ipv6Frag", "Ah"}
Transport == {"Tcp", "Udp", "Ipv6Icmp"}
IpProto == Walked \cup Transport \cup {"Other"}

FirstHeader == 14 + 40          \* EthHdr::LEN + Ipv6Hdr::LEN
TransportOctets == [Tcp |-> 20, Udp |-> 8]

(***************************************************************************)
(* A frame as its sender laid it out: the chain of headers that follows the *)
(* IPv6 header, each with the octet it starts at and its length octet, the  *)
(* last one not walked; and the octets that arrived.  In a later fragment   *)
(* the last header is payload, which its fragment header names a transport. *)
(***************************************************************************)
Header == [kind: IpProto \cup {"Unknown"}, start: Nat, ext_len: 0..255]

(* The lengths IPv6 gives its extension headers: units of 8 octets after the *)
(* first, except Fragment, which has no length, and Authentication, which    *)
(* counts words of 4 octets and leaves out two of them.                      *)
Octets(h) ==
    IF h.kind \in Optional THEN 8 + 8 * h.ext_len
    ELSE IF h.kind = "Ah" THEN 8 + 4 * h.ext_len ELSE 8

WellFormed(f) ==
    LET chain == f.headers
    IN  /\ chain \in Seq(Header) /\ chain # <<>> /\ f.size \in Nat
        /\ chain[1].start = FirstHeader
        /\ \A i \in 1..(Len(chain) - 1) :
              /\ chain[i].kind \in Walked
              /\ chain[i + 1].start = chain[i].start + Octets(chain[i])
        /\ chain[Len(chain)].kind \notin Walked

Last(f) == f.headers[Len(f.headers)]

FlowOf(protocol, at) == [protocol |-> protocol, transport_at |-> at]
Flow == [protocol: IpProto, transport_at: Nat \cup {Absent}]

ASSUME FrameAssumption == \A f \in Frame : WellFormed(f)
ASSUME LimitAssumption == Limit \in Nat \ {0}
ASSUME AbsentAssumption == Absent \notin Flow /\ Absent \notin Nat /\ Absent \notin Frame

VARIABLES
    frame,      \* the frame being parsed, Absent while there is none
    at,         \* the part of the parse that comes next
    round,      \* rounds of the loop done
    offset,     \* current_offset
    proto,      \* next_proto
    found,      \* found_l4
    outcome     \* the protocol and the octet the ports are read from, if any

vars == <<frame, at, round, offset, proto, found, outcome>>
walkVars == <<round, offset, proto, found>>

(* ptr_at *)
Readable(start, octets) == start + octets <= frame.size

(* What the two octets at `start` say: those of the extension header that   *)
(* starts there, or anything when they are the middle of one.               *)
OctetsAt(start) ==
    LET chain == frame.headers
        here == {i \in 1..(Len(chain) - 1) : chain[i].start = start}
    IN  IF here # {} THEN {[next |-> chain[i + 1].kind, ext_len |-> chain[i].ext_len] : i \in here}
        ELSE [next: IpProto \cup {"Unknown"}, ext_len: {0}]

AdvanceAllAlike(kind, ext_len) == (ext_len + 1) * 8

AdvanceFragmentByLength(kind, ext_len) ==
    IF kind = "Ah" THEN (ext_len + 2) * 4 ELSE (ext_len + 1) * 8

Advance(kind, ext_len) ==
    IF kind \in Optional THEN (ext_len + 1) * 8
    ELSE IF kind = "Ah" THEN (ext_len + 2) * 4 ELSE 8

Abort == at' = "aborted" /\ UNCHANGED outcome
Finish(flow) == at' = "done" /\ outcome' = flow

(* The IPv6 header cannot be read, or names a protocol IpProto has not:      *)
(* both are OutOfBounds.                                                     *)
Reject(f) ==
    /\ f.size < FirstHeader \/ f.headers[1].kind = "Unknown"
    /\ frame' = f
    /\ Abort
    /\ UNCHANGED walkVars

Accept(f) ==
    /\ FirstHeader <= f.size /\ f.headers[1].kind # "Unknown"
    /\ frame' = f
    /\ at' = "walk"
    /\ proto' = f.headers[1].kind
    /\ UNCHANGED <<round, offset, found, outcome>>

Receive == at = "idle" /\ \E f \in Frame : Reject(f) \/ Accept(f)

InRoundOnceMore == at = "walk" /\ round <= Limit
InRound == at = "walk" /\ round < Limit

Recognise ==
    /\ InRound /\ proto \in Transport
    /\ found' = TRUE
    /\ at' = "ports"
    /\ UNCHANGED <<frame, round, offset, proto, outcome>>

Cut ==
    /\ InRound /\ proto \in Walked
    /\ ~Readable(offset, 2)
    /\ Abort
    /\ UNCHANGED <<frame, walkVars>>

Skip ==
    /\ InRound /\ proto \in Walked
    /\ Readable(offset, 2)
    /\ \E octets \in OctetsAt(offset) :
          /\ octets.next # "Unknown"
          /\ proto' = octets.next
          /\ offset' = offset + Advance(proto, octets.ext_len)
    /\ round' = round + 1
    /\ UNCHANGED <<frame, at, found, outcome>>

(* IpProto::from_u8 is None: the walk ends with the protocol it had. *)
StopAtUnknown ==
    /\ InRound /\ proto \in Walked
    /\ Readable(offset, 2)
    /\ \E octets \in OctetsAt(offset) : octets.next = "Unknown"
    /\ at' = "ports"
    /\ UNCHANGED <<frame, walkVars, outcome>>

StopWalkOneRoundShort ==
    /\ at = "walk"
    /\ proto = "Other" \/ round = Limit - 1
    /\ at' = "ports"
    /\ UNCHANGED <<frame, walkVars, outcome>>

(* The protocol is not one the walk knows, or the rounds are used up. *)
StopWalk ==
    /\ at = "walk"
    /\ proto = "Other" \/ round = Limit
    /\ at' = "ports"
    /\ UNCHANGED <<frame, walkVars, outcome>>

(* The ports, and for TCP the FIN and RST flags, are read at the offset; a  *)
(* flow whose transport header was not found has the ports 0 and 0.         *)
ReadPorts ==
    /\ at = "ports"
    /\ IF ~found \/ proto \notin DOMAIN TransportOctets THEN Finish(FlowOf(proto, Absent))
       ELSE IF Readable(offset, TransportOctets[proto]) THEN Finish(FlowOf(proto, offset))
       ELSE Abort
    /\ UNCHANGED <<frame, walkVars>>

(* The key is handed on; nothing of this parse outlives it. *)
Return ==
    /\ at \in {"done", "aborted"}
    /\ at' = "idle" /\ frame' = Absent /\ outcome' = Absent
    /\ round' = 0 /\ offset' = FirstHeader /\ proto' = "Other" /\ found' = FALSE

Init ==
    /\ at = "idle" /\ frame = Absent /\ outcome = Absent
    /\ round = 0 /\ offset = FirstHeader /\ proto = "Other" /\ found = FALSE

Next ==
    \/ Receive \/ Recognise \/ Cut \/ Skip \/ StopAtUnknown \/ StopWalk \/ ReadPorts \/ Return

Spec == Init /\ [][Next]_vars

(***************************************************************************)
(* Properties                                                               *)
(***************************************************************************)

(* Every variable has the values the code can give it, and a walk in        *)
(* progress has used no more rounds than the loop has.                      *)
TypeOK ==
    /\ frame # Absent => WellFormed(frame)
    /\ at \in {"idle", "walk", "ports", "done", "aborted"}
    /\ round \in 0..Limit /\ offset \in Nat
    /\ proto \in IpProto /\ found \in BOOLEAN
    /\ outcome \in Flow \cup {Absent}

(* Ports and flags are read where the sender put the transport header the   *)
(* key names, whatever extension headers precede it: octets of an option    *)
(* never become the ports of a flow.                                        *)
PortsAreTheTransports ==
    outcome # Absent /\ outcome.transport_at # Absent =>
        /\ outcome.protocol = Last(frame).kind
        /\ outcome.transport_at = Last(frame).start

(* A frame with fewer extension headers than the loop has rounds is keyed by *)
(* its transport: frames of a conversation share a key whatever extension    *)
(* headers each of them carries.                                             *)
TransportIsFound ==
    outcome # Absent /\ Len(frame.headers) <= Limit /\ Last(frame).kind # "Unknown" =>
        /\ outcome.protocol = Last(frame).kind
        /\ Last(frame).kind \in DOMAIN TransportOctets => outcome.transport_at # Absent

IsWhole(f) ==
    f.size >= Last(f).start + (IF Last(f).kind \in DOMAIN TransportOctets
                               THEN TransportOctets[Last(f).kind] ELSE 0)

(* A frame that arrived whole, of a protocol IpProto knows, is never aborted *)
(* as out of bounds: the walk does not run past the frame it is in.          *)
WholeFramesAreParsed ==
    at = "aborted" => ~IsWhole(frame) \/ frame.headers[1].kind = "Unknown"
================================================================================
