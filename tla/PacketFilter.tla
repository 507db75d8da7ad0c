----------------------------- MODULE PacketFilter ------------------------------
(***************************************************************************)
(* The XDP program (oxidrop-ebpf/src/main.rs) running on several CPUs, and  *)
(* the userspace that shares its BPF maps: the allow-list and packet-count  *)
(* handlers (oxidrop/src/state.rs) and the cleanup task                     *)
(* (oxidrop/src/main.rs).  One instance models the maps of one IP family,   *)
(* Family; the v4 and v6 paths run the same steps on maps of their own.     *)
(*                                                                          *)
(* One action is one BPF helper call (or one system call) of the code: the  *)
(* kernel makes each of those atomic, and nothing makes two of them so.     *)
(***************************************************************************)
EXTENDS TokenBucket, FiniteSets

CONSTANTS
    Cpu,            \* the CPUs (receive queues) the program runs on
    Packet,         \* the frames the environment may deliver
    Host,           \* address-port pairs, the ends of a flow
    Adapter,        \* interface indexes
    Inside,         \* the interfaces that face the protected network
    Family,         \* "Ipv4" or "Ipv6": the family of the modelled maps
    Config,         \* the FirewallConfig values an administrator may set
    Match,          \* what an LPM lookup may return: actions, or Absent
    AdminSeen,      \* the last_seen values an administrator may write
    AdminBucket,    \* the bucket values an administrator may write
    Slot,           \* the preallocated elements of the allow-list LRU map
    MaxCounts,      \* the capacity of the packet-count LRU map
    IdleLimit,      \* TIMEOUT_NS of the cleanup task
    MaxTime,        \* bound on the clock
    Absent

Action == {"Allow", "Deny"}
TraficDirection == {"Incoming", "Outgoing"}
FirewallError == {"OutOfBounds", "UnsupportedProtocol", "RateLimited", "DeniedByPolicy"}
XdpAction == {"XDP_ABORTED", "XDP_DROP", "XDP_PASS", "XDP_REDIRECT"}

(* The EtherTypes the program tells apart: "Other" stands for those the     *)
(* parser knows and ActivaterEtherTypes has no bit for, "Unknown" for those *)
(* the parser does not know.                                                *)
ActivaterEtherTypes == {"LOOP", "IPV4", "ARP", "IEEE8021Q", "IPV6", "IEEE8021AD"}
EtherFlags == [Loop |-> {"LOOP"}, Ipv4 |-> {"IPV4"}, Arp |-> {"ARP"},
               Ieee8021q |-> {"IEEE8021Q"}, Ipv6 |-> {"IPV6"},
               Ieee8021ad |-> {"IEEE8021AD"}, Other |-> {}]
EtherType == {"Loop", "Ipv4", "Arp", "Ieee8021q", "Ipv6", "Ieee8021ad", "Other", "Unknown"}

Protocol == {"Tcp", "Udp", "Icmp", "Ipv6Icmp", "Fallback"}
ProfileName == {"tcp_profile", "udp_profile", "icmp_profile", "default_profile"}

FirewallConfig ==
    [profiles: [ProfileName -> RateProfile], protocol_allowed: SUBSET ActivaterEtherTypes,
     ddos_activated: BOOLEAN, subnet_activated: BOOLEAN,
     incoming: Adapter \cup {Absent}, output: Adapter \cup {Absent}]

(* `readable` says how far the frame's headers reach: nothing, the Ethernet *)
(* header only, or everything the program parses.                           *)
Frame == [ingress: Adapter, ether: EtherType, src: Host, dst: Host,
          protocol: Protocol, closing: BOOLEAN,
          readable: {"nothing", "ethernet", "all"}]

(* Both directions of a conversation share the key that names the protected *)
(* host first.                                                              *)
flow_key_unnormalised(p, direction) ==
    [source |-> p.src, destination |-> p.dst, protocol |-> p.protocol]

flow_key_direction(p, direction) ==
    IF direction = "Incoming"
    THEN [source |-> p.dst, destination |-> p.src, protocol |-> p.protocol]
    ELSE [source |-> p.src, destination |-> p.dst, protocol |-> p.protocol]

(* Ipv4Packet / Ipv6Packet: the keys some frame has. *)
FlowKey == {flow_key_direction(p, d) : p \in Packet, d \in TraficDirection}
AllowListState == [key: FlowKey, action: Action, last_seen: Nat]

ASSUME ConfigAssumption == Config \subseteq FirewallConfig
ASSUME PacketAssumption ==
    /\ Packet \subseteq Frame
    /\ Family \in {"Ipv4", "Ipv6"}
    /\ \A p \in Packet : p.ether \in {"Ipv4", "Ipv6"} => p.ether = Family
ASSUME AdminAssumption == AdminSeen \subseteq Nat /\ AdminBucket \subseteq TokenBucketState
ASSUME BoundAssumption == MaxTime \in Nat /\ IdleLimit \in Nat /\ MaxCounts \in Nat
ASSUME InsideAssumption == \A cfg \in Config : cfg.output \in Inside \cup {Absent}

VARIABLES
    config,     \* CONFIG[0]
    subnet,     \* subnet[h]: what the LPM lookup of h's address returns
    allow,      \* ALLOW_LIST: the element in each slot
    counts,     \* PACKET_COUNTS: the bucket of each key
    job,        \* the frame each CPU is processing, and how far it is
    out,        \* the frame whose verdict this step returns, for that step only
    clock,      \* bpf_ktime_get_ns, the kernel's monotonic clock
    lock,       \* holder of the allow list's write lock: the keys it will remove
    cleaner,    \* the time the cleanup task read before it asked for the lock
    opened,     \* history: keys opened since they last were absent or denied
    meter       \* history: per key, the frames charged since its bucket began, and
                \* the last time one passed or an administrator wrote the bucket

vars == <<config, subnet, allow, counts, job, out, clock, lock, cleaner, opened, meter>>

(***************************************************************************)
(* Parsing                                                                  *)
(***************************************************************************)
traffic_direction(ingress) ==
    IF ingress # config.incoming /\ ingress = config.output THEN "Outgoing" ELSE "Incoming"

redirect_target(direction) ==
    IF direction = "Incoming" THEN config.output ELSE config.incoming

external_addr(p, direction) == IF direction = "Incoming" THEN p.src ELSE p.dst

(* Only the IPv4 arm of the match is guarded by the protocol mask. *)
IsInspected(p) ==
    \/ p.ether = "Ipv4" /\ EtherFlags["Ipv4"] \subseteq config.protocol_allowed
    \/ p.ether = "Ipv6"

(* protocol_allowed.contains(x.into()): an EtherType without a flag of its  *)
(* own converts to the empty set, which every mask contains.                *)
IsPassedWithoutMask(p) == p.ether # "Unknown" /\ ~IsInspected(p)

IsPassedUnseen(p) ==
    \/ p.ether = "Arp"
    \/ /\ p.ether # "Unknown"
       /\ ~IsInspected(p)
       /\ EtherFlags[p.ether] \subseteq config.protocol_allowed

Verdict(error) == IF error = "OutOfBounds" THEN "XDP_ABORTED" ELSE "XDP_DROP"

(***************************************************************************)
(* The allow list: an LRU hash map on preallocated slots.  A pointer from a *)
(* lookup is a slot; an update of an existing key moves it to another slot, *)
(* and a freed slot may be given to another key at once.                    *)
(***************************************************************************)
HoldersOf(k) == {s \in Slot : allow[s] # Absent /\ allow[s].key = k}
Present == {allow[s].key : s \in {t \in Slot : allow[t] # Absent}}
FreeSlots == {s \in Slot : allow[s] = Absent}

RemoveEntry(k) ==
    /\ allow' = [s \in Slot |-> IF s \in HoldersOf(k) THEN Absent ELSE allow[s]]
    /\ opened' = opened \ {k}

(* A free slot if there is one, else the slot of an entry the LRU evicts.   *)
(* `entitled` is history: whether whoever inserts k may open it.            *)
LruCandidates == IF FreeSlots # {} THEN FreeSlots ELSE Slot

InsertEntry(k, action, time, entitled) ==
    \E s \in LruCandidates :
        /\ allow' = [t \in Slot |->
                        IF t = s THEN [key |-> k, action |-> action, last_seen |-> time]
                        ELSE IF t \in HoldersOf(k) THEN Absent ELSE allow[t]]
        /\ opened' = (opened \ {j \in FlowKey : j = k \/ (allow[s] # Absent /\ allow[s].key = j)})
                        \cup {j \in {k} : entitled}

(***************************************************************************)
(* The packet counts: values are copied out and written back, so a map from *)
(* keys to buckets with an eviction when full is enough.                    *)
(***************************************************************************)
Counted == {k \in FlowKey : counts[k] # Absent}

InsertBucket(k, bucket) ==
    \E victim \in IF Cardinality(Counted) < MaxCounts THEN {k} ELSE Counted :
        counts' = [counts EXCEPT ![victim] = Absent, ![k] = bucket]

RemoveBucket(k) == counts' = [counts EXCEPT ![k] = Absent]

(***************************************************************************)
(* The XDP program.  A job is the state of one invocation: `at` is the next *)
(* helper call, `now` the last time read, `slot` the pointer the allow-list *)
(* lookup returned, `bucket` the copy of the token bucket.  `granted` is    *)
(* history: whether the key was open when it was looked up.                 *)
(***************************************************************************)
Stage == {"policy", "lookup", "refresh", "insert", "forget", "take", "settle"}

JobRecord == [at: Stage, packet: Packet, direction: TraficDirection, now: Nat,
              slot: Slot \cup {Absent}, bucket: TokenBucketState \cup {Absent}, granted: BOOLEAN]

Job == {j \in JobRecord : j.at = "settle" => j.bucket # Absent}

KeyOf(j) == flow_key_direction(j.packet, j.direction)

Outcome == [packet: Packet, direction: TraficDirection, verdict: XdpAction,
            to: Adapter \cup {Absent}, granted: BOOLEAN]

Meter == [charged: Nat, credit: Nat, since: Nat, served: Nat]

Later(a, b) == IF a > b THEN a ELSE b
Restarted(m, bucket) ==
    [m EXCEPT !.charged = 0, !.credit = bucket.tokens, !.since = bucket.last_update]
Rewritten(m, bucket) ==
    [charged |-> 0, credit |-> bucket.tokens, since |-> bucket.last_update,
     served |-> Later(m.served, bucket.last_update)]
Charged(m, now) == [m EXCEPT !.charged = @ + 1, !.served = Later(@, now)]

Lock == [by: {"cleanup", "clear_allow_list"}, doomed: SUBSET FlowKey]

(* The sentinel is none of the values it is told apart from. *)
ASSUME AbsentAssumption ==
    /\ Absent \notin AllowListState /\ Absent \notin TokenBucketState
    /\ Absent \notin Job /\ Absent \notin Outcome /\ Absent \notin Lock
    /\ Absent \notin Slot /\ Absent \notin Adapter /\ Absent \notin Nat

(* The frame stays on its CPU, at another step. *)
Continue(c, j) ==
    /\ job' = [job EXCEPT ![c] = j]
    /\ out' = Absent

Emit(c, j, verdict, to) ==
    /\ job' = [job EXCEPT ![c] = Absent]
    /\ out' = [packet |-> j.packet, direction |-> j.direction, verdict |-> verdict,
               to |-> to, granted |-> j.granted]

Fail(c, j, error) == Emit(c, j, Verdict(error), Absent)

(* redirect_or_pass *)
Forward(c, j) ==
    Emit(c, j, IF redirect_target(j.direction) = Absent THEN "XDP_PASS" ELSE "XDP_REDIRECT",
         redirect_target(j.direction))

NewJob(p) == [at |-> "policy", packet |-> p, direction |-> traffic_direction(p.ingress),
              now |-> 0, slot |-> Absent, bucket |-> Absent, granted |-> FALSE]

userVars == <<config, subnet, lock, cleaner>>

(* The frame is parsed: its headers, its direction and, for an IP frame, its *)
(* flow key.                                                                 *)
ReceiveInspected(c, p) ==
    /\ job[c] = Absent
    /\ p.readable = "all" /\ IsInspected(p)
    /\ Continue(c, NewJob(p))
    /\ UNCHANGED <<userVars, allow, counts, clock, opened, meter>>

ReceiveTruncated(c, p) ==
    /\ job[c] = Absent
    /\ \/ p.readable = "nothing"
       \/ p.readable = "ethernet" /\ IsInspected(p)
    /\ Fail(c, NewJob(p), "OutOfBounds")
    /\ UNCHANGED <<userVars, allow, counts, clock, opened, meter>>

ReceivePassed(c, p) ==
    /\ job[c] = Absent
    /\ p.readable # "nothing" /\ IsPassedUnseen(p)
    /\ Emit(c, NewJob(p), "XDP_PASS", Absent)
    /\ UNCHANGED <<userVars, allow, counts, clock, opened, meter>>

ReceiveUnsupported(c, p) ==
    /\ job[c] = Absent
    /\ p.readable # "nothing" /\ ~IsInspected(p) /\ ~IsPassedUnseen(p)
    /\ Fail(c, NewJob(p), "UnsupportedProtocol")
    /\ UNCHANGED <<userVars, allow, counts, clock, opened, meter>>

AtStage(c, stage) == job[c] # Absent /\ job[c].at = stage

IsPermitted(j) ==
    config.subnet_activated => subnet[external_addr(j.packet, j.direction)] = "Allow"

CheckSubnet(c) ==
    /\ AtStage(c, "policy")
    /\ IF IsPermitted(job[c])
       THEN Continue(c, [job[c] EXCEPT !.at = "lookup"])
       ELSE Fail(c, job[c], "DeniedByPolicy")
    /\ UNCHANGED <<userVars, allow, counts, clock, opened, meter>>

LookupHitAnyAction(c) ==
    /\ AtStage(c, "lookup") /\ ~job[c].packet.closing
    /\ \E s \in HoldersOf(KeyOf(job[c])) :
          Continue(c, [job[c] EXCEPT !.at = "refresh", !.now = clock, !.slot = s,
                                     !.granted = KeyOf(job[c]) \in opened])
    /\ UNCHANGED <<userVars, allow, counts, clock, opened, meter>>

(* get_ptr_mut found the key: an Incoming frame must meet an Allow, an      *)
(* Outgoing one keeps whatever is there.                                    *)
LookupHit(c) ==
    /\ AtStage(c, "lookup") /\ ~job[c].packet.closing
    /\ \E s \in HoldersOf(KeyOf(job[c])) :
          IF job[c].direction = "Incoming" /\ allow[s].action # "Allow"
          THEN Fail(c, job[c], "DeniedByPolicy")
          ELSE Continue(c, [job[c] EXCEPT !.at = "refresh", !.now = clock, !.slot = s,
                                          !.granted = KeyOf(job[c]) \in opened])
    /\ UNCHANGED <<userVars, allow, counts, clock, opened, meter>>

LookupMissAnyDirection(c) ==
    /\ AtStage(c, "lookup") /\ ~job[c].packet.closing
    /\ HoldersOf(KeyOf(job[c])) = {}
    /\ Continue(c, [job[c] EXCEPT !.at = "insert", !.now = clock])
    /\ UNCHANGED <<userVars, allow, counts, clock, opened, meter>>

LookupMiss(c) ==
    /\ AtStage(c, "lookup") /\ ~job[c].packet.closing
    /\ HoldersOf(KeyOf(job[c])) = {}
    /\ IF job[c].direction = "Incoming"
       THEN Fail(c, job[c], "DeniedByPolicy")
       ELSE Continue(c, [job[c] EXCEPT !.at = "insert", !.now = clock])
    /\ UNCHANGED <<userVars, allow, counts, clock, opened, meter>>

RefreshAsAllowed(c) ==
    /\ AtStage(c, "refresh")
    /\ allow' = [s \in Slot |-> IF s = job[c].slot /\ allow[s] # Absent
                                THEN [allow[s] EXCEPT !.action = "Allow", !.last_seen = job[c].now]
                                ELSE allow[s]]
    /\ Continue(c, [job[c] EXCEPT !.at = "take", !.slot = Absent])
    /\ UNCHANGED <<userVars, counts, clock, opened, meter>>

(* last_seen = now, written through a pointer whose slot may meanwhile      *)
(* be free or hold another key.                                             *)
Refresh(c) ==
    /\ AtStage(c, "refresh")
    /\ allow' = [s \in Slot |-> IF s = job[c].slot /\ allow[s] # Absent
                                THEN [allow[s] EXCEPT !.last_seen = job[c].now]
                                ELSE allow[s]]
    /\ Continue(c, [job[c] EXCEPT !.at = "take", !.slot = Absent])
    /\ UNCHANGED <<userVars, counts, clock, opened, meter>>

(* let _ = insert(..): the program goes on when the map has no free element *)
(* and the kernel finds none to evict.                                      *)
InsertAllowed(c) ==
    /\ AtStage(c, "insert")
    /\ \/ InsertEntry(KeyOf(job[c]), "Allow", job[c].now, job[c].packet.ingress \in Inside)
       \/ FreeSlots = {} /\ UNCHANGED <<allow, opened>>
    /\ Continue(c, [job[c] EXCEPT !.at = "take"])
    /\ UNCHANGED <<userVars, counts, clock, meter>>

(* A FIN or RST: the entry is removed, then the bucket, and the frame leaves *)
(* whatever the entry said.                                                  *)
CloseFlow(c) ==
    /\ AtStage(c, "lookup") /\ job[c].packet.closing
    /\ RemoveEntry(KeyOf(job[c]))
    /\ Continue(c, [job[c] EXCEPT !.at = "forget"])
    /\ UNCHANGED <<userVars, counts, clock, meter>>

ForgetBucket(c) ==
    /\ AtStage(c, "forget")
    /\ RemoveBucket(KeyOf(job[c]))
    /\ Forward(c, job[c])
    /\ UNCHANGED <<userVars, allow, clock, opened, meter>>

(* Ipv6Icmp, like any other protocol, falls to the default profile. *)
ProfileOf(protocol) ==
    LET own == [Tcp |-> "tcp_profile", Udp |-> "udp_profile", Icmp |-> "icmp_profile"]
    IN  IF protocol \in DOMAIN own THEN own[protocol] ELSE "default_profile"

active_profile(j) == config.profiles[ProfileOf(j.packet.protocol)]

(* The bucket is copied out of the map, or a full one is made. *)
TakeBucket(c) ==
    LET k == KeyOf(job[c])
        full == FullBucket(active_profile(job[c]), clock)
    IN  /\ AtStage(c, "take")
        /\ Continue(c, [job[c] EXCEPT !.at = "settle", !.now = clock,
                            !.bucket = IF counts[k] = Absent THEN full ELSE counts[k]])
        /\ meter' = IF counts[k] = Absent
                    THEN [meter EXCEPT ![k] = Restarted(@, full)]
                    ELSE meter
        /\ UNCHANGED <<userVars, allow, counts, clock, opened>>

(* The copy is charged and written back, whether or not the frame passes;   *)
(* the result of the insert is ignored here too.                            *)
SettleCharged(c) ==
    LET j == job[c]
        passes == Passes(j.bucket, active_profile(j), j.now)
    IN  /\ AtStage(c, "settle") /\ config.ddos_activated
        /\ \/ InsertBucket(KeyOf(j), Charge(j.bucket, active_profile(j), j.now))
           \/ Cardinality(Counted) >= MaxCounts /\ UNCHANGED counts
        /\ IF passes THEN Forward(c, j) ELSE Fail(c, j, "RateLimited")
        /\ meter' = IF passes THEN [meter EXCEPT ![KeyOf(j)] = Charged(@, j.now)] ELSE meter
        /\ UNCHANGED <<userVars, allow, clock, opened>>

SettleUncharged(c) ==
    /\ AtStage(c, "settle") /\ ~config.ddos_activated
    /\ Forward(c, job[c])
    /\ UNCHANGED <<userVars, allow, counts, clock, opened, meter>>

Xdp(c) ==
    \/ \E p \in Packet : \/ ReceiveInspected(c, p)
                         \/ ReceiveTruncated(c, p)
                         \/ ReceivePassed(c, p)
                         \/ ReceiveUnsupported(c, p)
    \/ CheckSubnet(c)
    \/ LookupHit(c)
    \/ LookupMiss(c)
    \/ Refresh(c)
    \/ InsertAllowed(c)
    \/ CloseFlow(c)
    \/ ForgetBucket(c)
    \/ TakeBucket(c)
    \/ SettleCharged(c)
    \/ SettleUncharged(c)

(***************************************************************************)
(* Userspace.  Every handler of the allow list takes its write lock, which  *)
(* excludes the other handlers and the cleanup task but not the XDP program.*)
(***************************************************************************)
(* config.set(0, ..) of update_config, shutdown_ebpf and start-up. *)
SetConfig(cfg) ==
    /\ config' = cfg
    /\ out' = Absent
    /\ UNCHANGED <<subnet, allow, counts, job, clock, lock, cleaner, opened, meter>>

(* An insert into or a remove from the LPM trie changes what h matches. *)
SetSubnet(h, action) ==
    /\ subnet' = [subnet EXCEPT ![h] = action]
    /\ out' = Absent
    /\ UNCHANGED <<config, allow, counts, job, clock, lock, cleaner, opened, meter>>

modify_allow_list(k, action, last_seen) ==
    /\ lock = Absent
    /\ InsertEntry(k, action, last_seen, action = "Allow")
    /\ out' = Absent
    /\ UNCHANGED <<config, subnet, counts, job, clock, lock, cleaner, meter>>

clear_allow_list_key(k) ==
    /\ lock = Absent
    /\ RemoveEntry(k)
    /\ out' = Absent
    /\ UNCHANGED <<config, subnet, counts, job, clock, lock, cleaner, meter>>

(* Without a key: collect all keys, then remove them one system call at a time. *)
clear_allow_list_all ==
    /\ lock = Absent
    /\ lock' = [by |-> "clear_allow_list", doomed |-> Present]
    /\ out' = Absent
    /\ UNCHANGED <<config, subnet, allow, counts, job, clock, cleaner, opened, meter>>

modify_packet_counts(k, bucket) ==
    /\ InsertBucket(k, bucket)
    /\ meter' = [meter EXCEPT ![k] = Rewritten(@, bucket)]
    /\ out' = Absent
    /\ UNCHANGED <<config, subnet, allow, job, clock, lock, cleaner, opened>>

clear_packet_counts(k) ==
    /\ RemoveBucket(k)
    /\ out' = Absent
    /\ UNCHANGED <<config, subnet, allow, job, clock, lock, cleaner, opened, meter>>

(* The cleanup task: read the time, wait for the lock, collect the idle     *)
(* keys, remove them one by one, release the lock.                          *)
CleanupWake ==
    /\ cleaner = Absent
    /\ cleaner' = clock
    /\ out' = Absent
    /\ UNCHANGED <<config, subnet, allow, counts, job, clock, lock, opened, meter>>

IsIdleWrapping(entry, time) == (time + Modulus - entry.last_seen) % Modulus > IdleLimit

IsIdle(entry, time) == SaturatingSub(time, entry.last_seen) > IdleLimit

CleanupCollect ==
    /\ cleaner # Absent /\ lock = Absent
    /\ lock' = [by |-> "cleanup",
                doomed |-> {allow[s].key : s \in {t \in Slot : allow[t] # Absent /\ IsIdle(allow[t], cleaner)}}]
    /\ out' = Absent
    /\ UNCHANGED <<config, subnet, allow, counts, job, clock, cleaner, opened, meter>>

RemoveDoomed(k) ==
    /\ lock # Absent /\ k \in lock.doomed
    /\ RemoveEntry(k)
    /\ lock' = [lock EXCEPT !.doomed = @ \ {k}]
    /\ out' = Absent
    /\ UNCHANGED <<config, subnet, counts, job, clock, cleaner, meter>>

ReleaseWithoutReset ==
    /\ lock # Absent /\ lock.doomed = {}
    /\ lock' = Absent
    /\ out' = Absent
    /\ UNCHANGED <<config, subnet, allow, counts, job, clock, cleaner, opened, meter>>

ReleaseLock ==
    /\ lock # Absent /\ lock.doomed = {}
    /\ lock' = Absent
    /\ cleaner' = IF lock.by = "cleanup" THEN Absent ELSE cleaner
    /\ out' = Absent
    /\ UNCHANGED <<config, subnet, allow, counts, job, clock, opened, meter>>

Tick ==
    /\ clock < MaxTime
    /\ clock' = clock + 1
    /\ out' = Absent
    /\ UNCHANGED <<config, subnet, allow, counts, job, lock, cleaner, opened, meter>>

Userspace ==
    \/ \E cfg \in Config : SetConfig(cfg)
    \/ \E h \in Host, a \in Match : SetSubnet(h, a)
    \/ \E k \in FlowKey :
          \/ \E a \in Action, t \in AdminSeen : modify_allow_list(k, a, t)
          \/ clear_allow_list_key(k)
          \/ \E b \in AdminBucket : modify_packet_counts(k, b)
          \/ clear_packet_counts(k)
          \/ RemoveDoomed(k)
    \/ clear_allow_list_all
    \/ CleanupWake
    \/ CleanupCollect
    \/ ReleaseLock

Init ==
    /\ config \in Config
    /\ subnet \in [Host -> Match]
    /\ allow = [s \in Slot |-> Absent]
    /\ counts = [k \in FlowKey |-> Absent]
    /\ job = [c \in Cpu |-> Absent]
    /\ out = Absent
    /\ clock = 0
    /\ lock = Absent
    /\ cleaner = Absent
    /\ opened = {}
    /\ meter = [k \in FlowKey |-> [charged |-> 0, credit |-> 0, since |-> 0, served |-> 0]]

Next == (\E c \in Cpu : Xdp(c)) \/ Userspace \/ Tick

Spec == Init /\ [][Next]_vars

(* The cleanup task and the handlers run on the tokio runtime, whose write  *)
(* lock is handed out in the order it was asked for: a waiting task gets it.*)
FairSpec ==
    /\ Spec
    /\ WF_vars(CleanupWake)
    /\ SF_vars(CleanupCollect)
    /\ WF_vars(\E k \in FlowKey : RemoveDoomed(k))
    /\ WF_vars(ReleaseLock)

--------------------------------------------------------------------------------
TypeOK ==
    /\ config \in Config
    /\ subnet \in [Host -> Match]
    /\ allow \in [Slot -> AllowListState \cup {Absent}]
    /\ counts \in [FlowKey -> TokenBucketState \cup {Absent}]
    /\ job \in [Cpu -> Job \cup {Absent}]
    /\ out \in Outcome \cup {Absent}
    /\ clock \in Nat
    /\ lock \in Lock \cup {Absent}
    /\ cleaner \in Nat \cup {Absent}
    /\ opened \subseteq FlowKey
    /\ meter \in [FlowKey -> Meter]

(* Every Allow entry of the map stands for a flow that a frame from the     *)
(* protected network, or an administrator, opened since the key last had no *)
(* entry or a Deny: no order of lookups, inserts, evictions and removals by *)
(* several CPUs lets a frame from outside leave an Allow behind.            *)
AllowEntriesWereOpened ==
    \A s \in Slot : allow[s] # Absent /\ allow[s].action = "Allow" => allow[s].key \in opened

Forwarded ==
    out # Absent /\ out.packet.ether = Family /\ out.verdict \in {"XDP_PASS", "XDP_REDIRECT"}

(* The stateful promise for segments that do not close a flow: a frame that *)
(* came in from outside is sent on only if its flow was open when the       *)
(* program looked it up, whatever the CPUs and userspace did around it.     *)
NoUnsolicitedForward ==
    Forwarded /\ out.direction = "Incoming" /\ ~out.packet.closing => out.granted

(* The inductive strengthening of the two above: what every job in flight carries. *)
UniqueKeys ==
    \A s, t \in Slot :
        allow[s] # Absent /\ allow[t] # Absent /\ allow[s].key = allow[t].key => s = t

IsHonest(j) ==
    /\ j.direction = "Outgoing" => j.packet.ingress \in Inside
    /\ j.at = "insert" => j.direction = "Outgoing"
    /\ j.at = "forget" => j.packet.closing
    /\ j.at \in {"refresh", "take", "settle"} /\ j.direction = "Incoming" => j.granted

JobsHonest == \A c \in Cpu : job[c] # Absent => IsHonest(job[c])

StateInv ==
    TypeOK /\ UniqueKeys /\ AllowEntriesWereOpened /\ JobsHonest /\ NoUnsolicitedForward

RefusedAtLookup(c) == AtStage(c, "lookup") /\ job'[c] = Absent

(* A frame the state lookup refuses is never the reply to a conversation    *)
(* that the map holds an Allow for, seen from the protected host.           *)
RepliesMeetTheirFlow ==
    [][\A c \in Cpu : RefusedAtLookup(c) =>
          ~ \E s \in Slot : /\ allow[s] # Absent /\ allow[s].action = "Allow"
                            /\ allow[s].key.source = job[c].packet.dst
                            /\ allow[s].key.destination = job[c].packet.src
                            /\ allow[s].key.protocol = job[c].packet.protocol]_vars

CleanupRemoves(s) ==
    lock # Absent /\ lock.by = "cleanup" /\ lock' # Absent /\ allow[s] # Absent /\ allow'[s] = Absent
    /\ allow[s].key \in lock.doomed \ lock'.doomed

(* "cleanup old connection after 10 Minutes": what the cleanup task removes *)
(* was last seen longer than the limit ago, when it is removed.             *)
CleanupRemovesOnlyOld ==
    [][\A s \in Slot : CleanupRemoves(s) => clock - allow[s].last_seen > IdleLimit]_vars

(* What it selects is old, though the time it compares with was read before *)
(* it waited for the lock: an entry that a frame made newer than that, or   *)
(* that an administrator dated into the future, is left alone.              *)
CleanupSelects(s) ==
    /\ lock = Absent /\ lock' # Absent /\ lock'.by = "cleanup"
    /\ allow[s] # Absent /\ allow[s].key \in lock'.doomed
CleanupSelectsOnlyOld ==
    [][\A s \in Slot : CleanupSelects(s) => clock - allow[s].last_seen > IdleLimit]_vars

(* Over the life of one bucket, with the same profile throughout, the       *)
(* frames charged against a flow are at most its initial tokens and one per *)
(* whole period since.                                                      *)
Period(k) == config.profiles[ProfileOf(k.protocol)].period
RateBound ==
    \A k \in FlowKey :
        meter[k].charged * Period(k) <= meter[k].credit * Period(k) + (clock - meter[k].since)

(* The limiter starves no flow: a frame is refused for its rate only when   *)
(* another of its flow passed less than a period before, however the copies *)
(* of the bucket that the CPUs hold overwrite each other.                   *)
RefusedForRate(c) ==
    AtStage(c, "settle") /\ job'[c] # job[c] /\ out' # Absent /\ out'.verdict = "XDP_DROP"
NeverStarved ==
    [][\A c \in Cpu : RefusedForRate(c) =>
          job[c].now - meter[KeyOf(job[c])].served < Period(KeyOf(job[c]))]_vars

(* A frame whose EtherType is not enabled goes nowhere. *)
DisabledTypesRejected ==
    out # Absent /\ out.verdict \in {"XDP_PASS", "XDP_REDIRECT"} =>
        out.packet.ether # "Unknown" /\ EtherFlags[out.packet.ether] \cap config.protocol_allowed # {}

(* A frame of a type that has a flag, ARP and IPv6 excepted, is neither     *)
(* passed nor taken further unless its flag is set when it comes in.        *)
Admitted(p) ==
    \/ \E c \in Cpu : job[c] = Absent /\ job'[c] # Absent /\ job'[c].packet = p
    \/ /\ job' = job
       /\ out' # Absent /\ out'.packet = p /\ out'.verdict \in {"XDP_PASS", "XDP_REDIRECT"}
ListedTypesNeedTheirFlag ==
    [][\A p \in Packet : Admitted(p) =>
          \/ p.ether \in {"Arp", "Ipv6", "Other"}
          \/ p.ether # "Unknown" /\ EtherFlags[p.ether] \subseteq config.protocol_allowed]_vars

(* No frame turns a Deny into an Allow, whatever slot its pointer leads to  *)
(* by now, but one whose own lookup came before the Deny and found nothing. *)
HeldAs(k, action) == \E s \in HoldersOf(k) : allow[s].action = action
DenyIsKept ==
    [][\A c \in Cpu, k \in FlowKey :
          job'[c] # job[c] /\ HeldAs(k, "Deny") /\ HeldAs(k, "Allow")' =>
              job[c].at = "insert" /\ KeyOf(job[c]) = k]_vars

(* An entry that is past the limit is refreshed, replaced or removed. *)
IdleFor(k) == \E s \in HoldersOf(k) : clock - allow[s].last_seen > IdleLimit
IdleEntriesGo == \A k \in FlowKey : IdleFor(k) ~> ~IdleFor(k)
================================================================================
