---------------------------- MODULE Ipv6WalkProofs -----------------------------
(***************************************************************************)
(* What the extension-header walk finds, for any set of well-formed frames  *)
(* and any number of rounds.                                                *)
(***************************************************************************)
EXTENDS Ipv6Walk, WellFoundedInduction, TLAPS

USE FrameAssumption, LimitAssumption, AbsentAssumption

(* An extension header has at least the eight octets its length leaves out, *)
(* and the code advances by what the sender laid out.                       *)
LEMMA AdvanceIsOctets ==
    ASSUME NEW h \in Header, h.kind \in Walked
    PROVE  /\ Octets(h) \in Nat /\ Octets(h) >= 8
           /\ Advance(h.kind, h.ext_len) = Octets(h)
  BY DEF Header, Walked, Optional, Octets, Advance

(* What WellFormed says of a frame, header by header. *)
LEMMA ChainType ==
    ASSUME NEW f, WellFormed(f)
    PROVE  /\ Len(f.headers) \in Nat /\ Len(f.headers) >= 1 /\ f.size \in Nat
           /\ \A i \in 1..Len(f.headers) :
                 /\ f.headers[i] \in Header /\ f.headers[i].start \in Nat
                 /\ f.headers[i].kind \in IpProto \cup {"Unknown"}
                 /\ f.headers[i].kind \in Walked <=> i # Len(f.headers)
           /\ \A i \in 1..(Len(f.headers) - 1) :
                 f.headers[i + 1].start = f.headers[i].start + Octets(f.headers[i])
<1>1. f.headers \in Seq(Header) /\ f.headers # <<>>
  BY DEF WellFormed
<1>2. Len(f.headers) \in Nat /\ Len(f.headers) >= 1
  BY <1>1
<1>3. \A i \in 1..Len(f.headers) : f.headers[i] \in Header
  BY <1>1
<1>4. \A i \in 1..Len(f.headers) : f.headers[i].kind \in Walked <=> i # Len(f.headers)
  BY <1>2 DEF WellFormed
<1> QED BY <1>2, <1>3, <1>4 DEF WellFormed, Header

(* Headers do not overlap: one that comes later in the chain starts after   *)
(* the earlier one's octets.                                                *)
LEMMA HeadersInOrder ==
    ASSUME NEW f, WellFormed(f),
           NEW i \in 1..Len(f.headers), NEW j \in 1..Len(f.headers), i < j
    PROVE  f.headers[i].start + 8 <= f.headers[j].start
<1> DEFINE chain == f.headers
           early == {k \in Nat : i < k /\ k <= Len(chain) /\ chain[k].start < chain[i].start + 8}
           less == OpToRel(<, Nat)
<1>1. Len(chain) \in Nat /\ i \in Nat /\ j \in Nat
  BY ChainType
<1>2. \A k \in 1..(Len(chain) - 1) :
         /\ chain[k].start \in Nat /\ chain[k + 1].start \in Nat
         /\ chain[k + 1].start >= chain[k].start + 8
  <2> TAKE k \in 1..(Len(chain) - 1)
  <2>1. k \in 1..Len(chain) /\ k + 1 \in 1..Len(chain) /\ k # Len(chain)
    BY <1>1
  <2>2. /\ chain[k] \in Header /\ chain[k].kind \in Walked
        /\ chain[k].start \in Nat /\ chain[k + 1].start \in Nat
        /\ chain[k + 1].start = chain[k].start + Octets(chain[k])
    BY <2>1, ChainType
  <2>3. Octets(chain[k]) \in Nat /\ Octets(chain[k]) >= 8
    BY <2>2, AdvanceIsOctets
  <2> HIDE DEF chain
  <2> QED BY <2>2, <2>3
<1>3. \A k \in early : \E l \in early : l < k
  <2> SUFFICES ASSUME NEW k \in early PROVE \E l \in early : l < k
    OBVIOUS
  <2>1. k - 1 \in 1..(Len(chain) - 1) /\ k - 1 \in Nat /\ (k - 1) + 1 = k
    BY <1>1
  <2>2. chain[k - 1].start \in Nat /\ chain[k].start >= chain[k - 1].start + 8
    BY <1>2, <2>1
  <2>3. chain[i].start \in Nat
    BY ChainType
  <2>4. chain[k].start \in Nat /\ chain[k].start < chain[i].start + 8
    BY <1>2, <2>1
  <2>5. chain[k - 1].start < chain[i].start
    <3> HIDE DEF chain
    <3> QED BY <2>2, <2>3, <2>4
  <2>6. k - 1 # i
    BY <2>3, <2>5
  <2>7. k - 1 \in early
    <3>1. chain[k - 1].start < chain[i].start + 8
      <4> HIDE DEF chain
      <4> QED BY <2>2, <2>3, <2>5
    <3> QED BY <1>1, <2>1, <2>6, <3>1
  <2>8. k - 1 < k
    BY <2>1
  <2> HIDE DEF early
  <2> QED BY <2>7, <2>8
<1>4. early = {}
  <2> SUFFICES ASSUME early # {} PROVE FALSE
    OBVIOUS
  <2>1. PICK x \in early : TRUE
    OBVIOUS
  <2>2. early \subseteq Nat
    OBVIOUS
  <2>3. IsWellFoundedOn(less, Nat)
    BY NatLessThanWellFounded DEF less
  <2>4. PICK k \in early : \A l \in early : <<l, k>> \notin less
    <3> HIDE DEF early, less
    <3> QED BY <2>1, <2>2, <2>3, WFMin
  <2>5. PICK l \in early : l < k
    BY <1>3
  <2>6. <<l, k>> \notin less /\ l \in Nat /\ k \in Nat
    <3> HIDE DEF early, less
    <3> QED BY <2>2, <2>4, <2>5
  <2> HIDE DEF early
  <2> QED BY <2>5, <2>6 DEF OpToRel
<1>5. chain[i].start \in Nat /\ chain[j].start \in Nat
  BY ChainType
<1>6. ~(chain[j].start < chain[i].start + 8)
  BY <1>1, <1>4
<1> HIDE DEF chain
<1>7. chain[i].start + 8 <= chain[j].start
  BY <1>5, <1>6
<1> QED BY <1>7 DEF chain

--------------------------------------------------------------------------------
(* After `round` rounds the walk stands on header round + 1 of the chain, at *)
(* the octet the sender put it, and it stops before the last one only for    *)
(* want of rounds or of a protocol it knows.                                 *)
Here == frame.headers[round + 1]

OnTheChain ==
    /\ round + 1 <= Len(frame.headers)
    /\ proto = Here.kind /\ offset = Here.start
    /\ outcome = Absent

WalkInv ==
    /\ TypeOK
    /\ PortsAreTheTransports /\ TransportIsFound /\ WholeFramesAreParsed
    /\ at # "idle" => frame # Absent
    /\ at = "idle" => round = 0 /\ offset = FirstHeader /\ ~found /\ outcome = Absent
    /\ at = "walk" => OnTheChain /\ ~found
    /\ at = "ports" =>
          /\ OnTheChain
          /\ found => proto \in Transport
          /\ ~found => \/ round = Limit
                       \/ proto \notin DOMAIN TransportOctets /\ Last(frame).kind \in {proto, "Unknown"}

LEMMA Kinds ==
    /\ DOMAIN TransportOctets = {"Tcp", "Udp"} /\ {"Tcp", "Udp"} \subseteq Transport
    /\ TransportOctets["Tcp"] = 20 /\ TransportOctets["Udp"] = 8
    /\ FirstHeader = 54
    /\ Walked \cap Transport = {} /\ "Other" \notin Walked /\ "Unknown" \notin IpProto
    /\ Walked \subseteq IpProto /\ Transport \subseteq IpProto /\ "Other" \in IpProto
    /\ IpProto = Walked \cup Transport \cup {"Other"}
BY DEF TransportOctets, Transport, FirstHeader, Walked, Optional, IpProto

(* On the chain, the walked headers are those before the last. *)
LEMMA WhereItStands ==
    ASSUME WellFormed(frame), OnTheChain, round \in Nat
    PROVE  /\ round + 1 \in 1..Len(frame.headers)
           /\ proto \in Walked <=> round + 1 # Len(frame.headers)
           /\ round + 1 = Len(frame.headers) => Last(frame) = Here
           /\ Here \in Header
<1>1. round + 1 \in 1..Len(frame.headers)
  BY ChainType DEF OnTheChain
<1> QED BY <1>1, ChainType DEF OnTheChain, Here, Last

(* What the two octets of a walked header say: the kind of the next header. *)
LEMMA WhatItReads ==
    ASSUME WellFormed(frame), OnTheChain, round \in Nat, proto \in Walked,
           NEW octets \in OctetsAt(offset)
    PROVE  /\ round + 2 \in 1..Len(frame.headers)
           /\ octets.next = frame.headers[round + 2].kind
           /\ octets.ext_len = Here.ext_len
<1> DEFINE chain == frame.headers
           here == {i \in 1..(Len(chain) - 1) : chain[i].start = offset}
<1>1. round + 1 \in 1..Len(chain) /\ round + 1 # Len(chain) /\ Len(chain) \in Nat
  BY WhereItStands, ChainType
<1>2. round + 1 \in here
  BY <1>1 DEF OnTheChain, Here
<1>3. \A i \in here : i = round + 1
  <2> SUFFICES ASSUME NEW i \in here, i # round + 1 PROVE FALSE
    OBVIOUS
  <2>1. i \in 1..Len(chain) /\ chain[i].start = chain[round + 1].start
    BY <1>1 DEF OnTheChain, Here
  <2>2. chain[i].start \in Nat /\ chain[round + 1].start \in Nat
    BY <1>1, <2>1, ChainType
  <2>3. CASE i < round + 1
    <3>1. chain[i].start + 8 <= chain[round + 1].start
      BY <1>1, <2>1, <2>3, HeadersInOrder
    <3> HIDE DEF chain
    <3> QED BY <2>1, <2>2, <3>1
  <2>4. CASE round + 1 < i
    <3>1. chain[round + 1].start + 8 <= chain[i].start
      BY <1>1, <2>1, <2>4, HeadersInOrder
    <3> HIDE DEF chain
    <3> QED BY <2>1, <2>2, <3>1
  <2> QED BY <1>1, <2>1, <2>3, <2>4
<1>4. OctetsAt(offset) =
         {[next |-> chain[i + 1].kind, ext_len |-> chain[i].ext_len] : i \in here}
  BY <1>2 DEF OctetsAt
<1>5. PICK i \in here : octets = [next |-> chain[i + 1].kind, ext_len |-> chain[i].ext_len]
  <2> HIDE DEF here
  <2> QED BY <1>4
<1>6. i = round + 1
  BY <1>3
<1> QED BY <1>1, <1>5, <1>6 DEF Here

(* Before an answer is given, the properties ask nothing. *)
LEMMA NothingYet ==
    ASSUME outcome = Absent, at # "aborted"
    PROVE  PortsAreTheTransports /\ TransportIsFound /\ WholeFramesAreParsed
BY DEF PortsAreTheTransports, TransportIsFound, WholeFramesAreParsed

LEMMA InitWalk == Init => WalkInv
<1> SUFFICES ASSUME Init PROVE WalkInv
  OBVIOUS
<1>1. TypeOK
  <2>1. round \in 0..Limit /\ offset \in Nat
    BY Kinds DEF Init
  <2>2. proto \in IpProto /\ found \in BOOLEAN /\ outcome \in Flow \cup {Absent}
    BY Kinds DEF Init
  <2> QED BY <2>1, <2>2 DEF Init, TypeOK
<1>2. PortsAreTheTransports /\ TransportIsFound /\ WholeFramesAreParsed
  BY NothingYet DEF Init
<1> QED BY <1>1, <1>2 DEF Init, WalkInv

(* A frame that arrived whole reaches its last header, and that header's    *)
(* octets when its ports are read.                                          *)
LEMMA WholeReaches ==
    ASSUME NEW f, WellFormed(f), IsWhole(f)
    PROVE  /\ Last(f).start \in Nat /\ f.size \in Nat /\ Last(f).start <= f.size
           /\ Last(f).kind \in DOMAIN TransportOctets =>
                 Last(f).start + TransportOctets[Last(f).kind] <= f.size
<1>1. Last(f).start \in Nat /\ f.size \in Nat
  BY ChainType DEF Last
<1>2. CASE Last(f).kind \in DOMAIN TransportOctets
  <2>1. f.size >= Last(f).start + TransportOctets[Last(f).kind]
    BY <1>2 DEF IsWhole
  <2>2. TransportOctets[Last(f).kind] \in Nat
    BY <1>2, Kinds
  <2> QED BY <1>1, <2>1, <2>2
<1>3. CASE Last(f).kind \notin DOMAIN TransportOctets
  <2>1. f.size >= Last(f).start + 0
    BY <1>3 DEF IsWhole
  <2> QED BY <1>1, <1>3, <2>1
<1> QED BY <1>2, <1>3

(* The chain begins right behind the IPv6 header. *)
LEMMA LastIsBehind ==
    ASSUME NEW f, WellFormed(f)
    PROVE  FirstHeader <= Last(f).start
<1>1. /\ 1 \in 1..Len(f.headers) /\ Len(f.headers) \in 1..Len(f.headers)
      /\ Len(f.headers) \in Nat /\ f.headers[1].start = FirstHeader
  BY ChainType DEF WellFormed
<1>2. CASE Len(f.headers) = 1
  BY <1>1, <1>2, Kinds DEF Last
<1>3. CASE Len(f.headers) # 1
  <2>1. 1 < Len(f.headers)
    <3> DEFINE n == Len(f.headers)
    <3>1. n \in Nat /\ n >= 1 /\ n # 1
      BY <1>3, ChainType
    <3>2. 1 < n
      <4> HIDE DEF n
      <4> QED BY <3>1
    <3> QED BY <3>2
  <2>2. f.headers[1].start + 8 <= f.headers[Len(f.headers)].start
    BY <1>1, <2>1, HeadersInOrder
  <2>3. f.headers[Len(f.headers)].start \in Nat
    BY <1>1, ChainType
  <2> QED BY <1>1, <2>2, <2>3, Kinds DEF Last
<1> QED BY <1>2, <1>3

LEMMA ReceiveKeeps == WalkInv /\ Receive => WalkInv'
<1> SUFFICES ASSUME WalkInv, at = "idle", NEW f \in Frame, Reject(f) \/ Accept(f)
             PROVE  WalkInv'
  BY DEF Receive
<1>1. /\ WellFormed(f) /\ f # Absent /\ frame' = f /\ outcome' = Absent
      /\ round' = 0 /\ offset' = FirstHeader /\ found' = FALSE
  BY DEF WalkInv, Reject, Accept, Abort, walkVars
<1>2. /\ 1 \in 1..Len(f.headers) /\ Len(f.headers) \in 1..Len(f.headers)
      /\ Len(f.headers) \in Nat /\ f.headers[1].start = FirstHeader
  BY <1>1, ChainType DEF WellFormed
<1>3. CASE Reject(f)
  <2>2. f.size < FirstHeader => ~IsWhole(f)
    BY <1>1, LastIsBehind, WholeReaches, Kinds
  <2>3. at' = "aborted" /\ proto' = proto
    BY <1>3 DEF Reject, Abort, walkVars
  <2>4. WholeFramesAreParsed'
    BY <1>1, <1>3, <2>2 DEF WholeFramesAreParsed, Reject
  <2> QED BY <1>1, <2>3, <2>4, Kinds DEF WalkInv, TypeOK, PortsAreTheTransports, TransportIsFound
<1>4. CASE Accept(f)
  <2>1. at' = "walk" /\ proto' = f.headers[1].kind /\ proto' # "Unknown"
    BY <1>4 DEF Accept
  <2>2. proto' \in IpProto
    BY <1>1, <1>2, <2>1, ChainType
  <2>3. OnTheChain'
    BY <1>1, <1>2, <2>1 DEF OnTheChain, Here
  <2> QED BY <1>1, <2>1, <2>2, <2>3, Kinds
          DEF WalkInv, TypeOK, PortsAreTheTransports, TransportIsFound, WholeFramesAreParsed
<1> QED BY <1>3, <1>4

LEMMA RecogniseKeeps == WalkInv /\ Recognise => WalkInv'
BY DEF WalkInv, Recognise, InRound, OnTheChain, Here, TypeOK, PortsAreTheTransports,
       TransportIsFound, WholeFramesAreParsed

LEMMA CutKeeps == WalkInv /\ Cut => WalkInv'
<1> SUFFICES ASSUME WalkInv, Cut PROVE WalkInv'
  OBVIOUS
<1>1. /\ WellFormed(frame) /\ OnTheChain /\ round \in Nat /\ proto \in Walked
      /\ ~(offset + 2 <= frame.size) /\ at' = "aborted"
      /\ UNCHANGED <<frame, round, offset, proto, found, outcome>>
  BY DEF WalkInv, TypeOK, Cut, InRound, Abort, walkVars, Readable
<1>2. /\ round + 1 \in 1..Len(frame.headers) /\ round + 1 # Len(frame.headers)
      /\ Len(frame.headers) \in 1..Len(frame.headers) /\ Len(frame.headers) \in Nat
  BY <1>1, WhereItStands, ChainType
<1>3. frame.headers[round + 1].start + 8 <= frame.headers[Len(frame.headers)].start
  BY <1>1, <1>2, HeadersInOrder
<1>4. /\ frame.headers[round + 1].start \in Nat /\ frame.size \in Nat
      /\ frame.headers[Len(frame.headers)].start \in Nat
  BY <1>1, <1>2, ChainType
<1>5. ~IsWhole(frame)
  <2>1. Last(frame).start = frame.headers[Len(frame.headers)].start
    BY DEF Last
  <2>2. offset = frame.headers[round + 1].start
    BY <1>1 DEF OnTheChain, Here
  <2>3. ~(Last(frame).start <= frame.size)
    BY <1>1, <1>3, <1>4, <2>1, <2>2
  <2> QED BY <1>1, <2>3, WholeReaches
<1>6. WholeFramesAreParsed' /\ outcome' = Absent
  BY <1>1, <1>5 DEF WholeFramesAreParsed, OnTheChain
<1>7. TypeOK' /\ frame' # Absent
  BY <1>1 DEF WalkInv, TypeOK, Cut, InRound
<1> QED BY <1>1, <1>6, <1>7 DEF WalkInv, PortsAreTheTransports, TransportIsFound

LEMMA SkipKeeps == WalkInv /\ Skip => WalkInv'
<1> SUFFICES ASSUME WalkInv, Skip PROVE WalkInv'
  OBVIOUS
<1>1. /\ WellFormed(frame) /\ OnTheChain /\ round \in 0..Limit /\ round < Limit
      /\ proto \in Walked /\ offset \in Nat
  BY DEF WalkInv, TypeOK, Skip, InRound
<1>2. PICK octets \in OctetsAt(offset) :
        /\ octets.next # "Unknown" /\ proto' = octets.next
        /\ offset' = offset + Advance(proto, octets.ext_len)
  BY DEF Skip
<1>3. /\ at = "walk" /\ round' = round + 1 /\ round' \in 0..Limit
      /\ UNCHANGED <<frame, at, found, outcome>>
  BY <1>1 DEF Skip, InRound
<1>4. /\ round + 2 \in 1..Len(frame.headers)
      /\ proto' = frame.headers[round + 2].kind
      /\ octets.ext_len = Here.ext_len
  BY <1>1, <1>2, WhatItReads
<1>5. /\ Here \in Header /\ Here.kind \in Walked /\ offset = Here.start
      /\ round + 1 \in 1..(Len(frame.headers) - 1)
  BY <1>1, <1>4, WhereItStands, ChainType DEF OnTheChain
<1>6. offset' = Here.start + Octets(Here) /\ Octets(Here) \in Nat
  BY <1>1, <1>2, <1>4, <1>5, AdvanceIsOctets DEF OnTheChain
<1>7. frame.headers[round + 2].start = Here.start + Octets(Here)
  BY <1>1, <1>5, ChainType DEF Here
<1>8. OnTheChain'
  BY <1>1, <1>3, <1>4, <1>6, <1>7 DEF OnTheChain, Here
<1>9. offset' \in Nat /\ proto' \in IpProto
  BY <1>1, <1>2, <1>4, <1>5, <1>6, ChainType
<1> QED BY <1>3, <1>8, <1>9 DEF WalkInv, TypeOK, PortsAreTheTransports, TransportIsFound,
                               WholeFramesAreParsed

LEMMA StopAtUnknownKeeps == WalkInv /\ StopAtUnknown => WalkInv'
<1> SUFFICES ASSUME WalkInv, StopAtUnknown PROVE WalkInv'
  OBVIOUS
<1>1. /\ WellFormed(frame) /\ OnTheChain /\ round \in Nat /\ proto \in Walked /\ at' = "ports"
      /\ at = "walk" /\ UNCHANGED <<frame, round, offset, proto, found, outcome>>
  BY DEF WalkInv, TypeOK, StopAtUnknown, InRound, walkVars
<1>2. PICK octets \in OctetsAt(offset) : octets.next = "Unknown"
  BY DEF StopAtUnknown
<1>3. round + 2 \in 1..Len(frame.headers) /\ frame.headers[round + 2].kind = "Unknown"
  BY <1>1, <1>2, WhatItReads
<1>4. round + 2 = Len(frame.headers)
  BY <1>1, <1>3, Kinds, ChainType
<1>5. Last(frame).kind = "Unknown"
  BY <1>3, <1>4 DEF Last
<1> QED BY <1>1, <1>5, Kinds DEF WalkInv, TypeOK, PortsAreTheTransports, TransportIsFound,
                                WholeFramesAreParsed, OnTheChain, Here

LEMMA StopWalkKeeps == WalkInv /\ StopWalk => WalkInv'
<1> SUFFICES ASSUME WalkInv, StopWalk PROVE WalkInv'
  OBVIOUS
<1>1. /\ WellFormed(frame) /\ OnTheChain /\ round \in Nat /\ at = "walk" /\ at' = "ports"
      /\ ~found
      /\ proto = "Other" \/ round = Limit
      /\ UNCHANGED <<frame, round, offset, proto, found, outcome>>
  BY DEF WalkInv, TypeOK, StopWalk, walkVars
<1>2. proto = "Other" => Last(frame).kind = proto
  <2>1. "Other" \notin Walked
    BY Kinds
  <2> QED BY <1>1, <2>1, WhereItStands DEF OnTheChain
<1>3. OnTheChain' /\ outcome' = Absent
  BY <1>1 DEF OnTheChain, Here
<1>4. TypeOK' /\ frame' # Absent
  BY <1>1 DEF WalkInv, TypeOK
<1>5. proto = "Other" => proto \notin DOMAIN TransportOctets
  BY Kinds
<1> QED BY <1>1, <1>2, <1>3, <1>4, <1>5
        DEF WalkInv, PortsAreTheTransports, TransportIsFound, WholeFramesAreParsed

LEMMA ReadPortsKeeps == WalkInv /\ ReadPorts => WalkInv'
<1> SUFFICES ASSUME WalkInv, ReadPorts PROVE WalkInv'
  OBVIOUS
<1>1. /\ WellFormed(frame) /\ OnTheChain /\ round \in 0..Limit /\ offset \in Nat
      /\ proto \in IpProto /\ frame # Absent
      /\ found => proto \in Transport
      /\ ~found => \/ round = Limit
                   \/ proto \notin DOMAIN TransportOctets /\ Last(frame).kind \in {proto, "Unknown"}
      /\ UNCHANGED <<frame, round, offset, proto, found>>
  BY DEF WalkInv, TypeOK, ReadPorts, walkVars
<1>2. at' \in {"done", "aborted"} /\ outcome' \in {Absent, FlowOf(proto, Absent), FlowOf(proto, offset)}
  BY <1>1 DEF ReadPorts, Finish, Abort, OnTheChain
<1>3. found => Last(frame).kind = proto /\ Last(frame).start = offset
  BY <1>1, Kinds, WhereItStands DEF OnTheChain
<1>4. Len(frame.headers) <= Limit => round # Limit
  BY <1>1, ChainType DEF OnTheChain
<1>5. \A o \in Nat \cup {Absent} :
         /\ FlowOf(proto, o) \in Flow /\ FlowOf(proto, o) # Absent
         /\ FlowOf(proto, o).protocol = proto /\ FlowOf(proto, o).transport_at = o
  BY <1>1 DEF FlowOf, Flow
<1>6. TypeOK'
  <2>1. outcome' \in Flow \cup {Absent}
    BY <1>1, <1>2, <1>5
  <2>2. found' \in BOOLEAN
    BY <1>1 DEF WalkInv, TypeOK
  <2> QED BY <1>1, <1>2, <2>1, <2>2 DEF TypeOK
<1>7. CASE ~found \/ proto \notin DOMAIN TransportOctets
  <2>1. at' = "done" /\ outcome' = FlowOf(proto, Absent)
    BY <1>7 DEF ReadPorts, Finish
  <2>2. PortsAreTheTransports' /\ WholeFramesAreParsed'
    BY <1>5, <2>1 DEF PortsAreTheTransports, WholeFramesAreParsed
  <2>3. ASSUME Len(frame.headers) <= Limit, Last(frame).kind # "Unknown"
        PROVE  Last(frame).kind = proto /\ proto \notin DOMAIN TransportOctets
    BY <1>1, <1>3, <1>4, <1>7, <2>3
  <2>4. TransportIsFound'
    BY <1>1, <1>5, <2>1, <2>3 DEF TransportIsFound
  <2> QED BY <1>1, <1>6, <2>1, <2>2, <2>4 DEF WalkInv
<1>8. CASE found /\ proto \in DOMAIN TransportOctets /\ Readable(offset, TransportOctets[proto])
  <2>1. at' = "done" /\ outcome' = FlowOf(proto, offset)
    BY <1>8 DEF ReadPorts, Finish
  <2>2. PortsAreTheTransports' /\ TransportIsFound' /\ WholeFramesAreParsed'
    BY <1>1, <1>3, <1>5, <1>8, <2>1
       DEF PortsAreTheTransports, TransportIsFound, WholeFramesAreParsed
  <2> QED BY <1>1, <1>6, <2>1, <2>2 DEF WalkInv
<1>9. CASE found /\ proto \in DOMAIN TransportOctets /\ ~Readable(offset, TransportOctets[proto])
  <2>1. at' = "aborted" /\ outcome' = Absent
    BY <1>1, <1>9 DEF ReadPorts, Abort, OnTheChain
  <2>2. ~IsWhole(frame)
    BY <1>1, <1>3, <1>9, WholeReaches DEF Readable
  <2>3. PortsAreTheTransports' /\ TransportIsFound' /\ WholeFramesAreParsed'
    BY <1>1, <2>1, <2>2 DEF PortsAreTheTransports, TransportIsFound, WholeFramesAreParsed
  <2> QED BY <1>1, <1>6, <2>1, <2>3 DEF WalkInv
<1> QED BY <1>7, <1>8, <1>9

LEMMA ReturnKeeps == WalkInv /\ Return => WalkInv'
<1> SUFFICES ASSUME Return PROVE WalkInv'
  OBVIOUS
<1>1. Init'
  BY DEF Return, Init
<1> QED BY <1>1, InitWalk, PTL

LEMMA WalkStep == WalkInv /\ [Next]_vars => WalkInv'
<1> SUFFICES ASSUME WalkInv, [Next]_vars PROVE WalkInv'
  OBVIOUS
<1>1. CASE UNCHANGED vars
  BY <1>1 DEF vars, WalkInv, OnTheChain, Here, TypeOK, PortsAreTheTransports,
              TransportIsFound, WholeFramesAreParsed
<1> QED BY <1>1, ReceiveKeeps, RecogniseKeeps, CutKeeps, SkipKeeps, StopAtUnknownKeeps,
           StopWalkKeeps, ReadPortsKeeps, ReturnKeeps DEF Next

LEMMA WalkHolds == Spec => []WalkInv
BY InitWalk, WalkStep, PTL DEF Spec

--------------------------------------------------------------------------------
(* Every variable keeps its type, and the walk never runs more rounds than  *)
(* the loop has.                                                            *)
THEOREM TypeCorrect == Spec => []TypeOK
<1>1. WalkInv => TypeOK
  BY DEF WalkInv
<1> QED BY <1>1, WalkHolds, PTL

(* The ports and flags of a flow come from the octets of the transport      *)
(* header its key names, for every chain of extension headers.              *)
THEOREM PortsAreRead == Spec => []PortsAreTheTransports
<1>1. WalkInv => PortsAreTheTransports
  BY DEF WalkInv
<1> QED BY <1>1, WalkHolds, PTL

(* Fewer extension headers than rounds: the key names the transport and has *)
(* its ports.                                                               *)
THEOREM TransportIsReached == Spec => []TransportIsFound
<1>1. WalkInv => TransportIsFound
  BY DEF WalkInv
<1> QED BY <1>1, WalkHolds, PTL

(* A whole frame is never dropped as out of bounds, however long its chain. *)
THEOREM WholeFramesPass == Spec => []WholeFramesAreParsed
<1>1. WalkInv => WholeFramesAreParsed
  BY DEF WalkInv
<1> QED BY <1>1, WalkHolds, PTL
================================================================================
