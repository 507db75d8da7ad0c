--------------------------- MODULE PacketFilterProofs --------------------------
(***************************************************************************)
(* The stateful promise of PacketFilter, for any number of CPUs, flows,     *)
(* slots and any clock.                                                     *)
(***************************************************************************)
EXTENDS PacketFilter, TLAPS

USE ConfigAssumption, PacketAssumption, AdminAssumption, BoundAssumption,
    ModulusAssumption, AbsentAssumption

(***************************************************************************)
(* Type correctness                                                         *)
(***************************************************************************)

(* A flow key is a FlowKey whichever direction the frame is taken to have. *)
LEMMA KeyType ==
    ASSUME NEW p \in Packet, NEW d \in TraficDirection
    PROVE  flow_key_direction(p, d) \in FlowKey
BY DEF FlowKey

LEMMA JobKeyType == ASSUME NEW j \in Job PROVE KeyOf(j) \in FlowKey
BY KeyType DEF KeyOf, Job, JobRecord

LEMMA ProfileOfType == ASSUME NEW x \in Protocol PROVE ProfileOf(x) \in ProfileName
BY DEF ProfileOf, ProfileName, Protocol

LEMMA ActiveProfileType ==
    ASSUME TypeOK, NEW j \in Job
    PROVE  active_profile(j) \in RateProfile
<1>1. j.packet.protocol \in Protocol
  BY DEF Job, JobRecord, Frame
<1>2. config.profiles \in [ProfileName -> RateProfile]
  BY DEF TypeOK, FirewallConfig
<1> QED BY <1>1, <1>2, ProfileOfType DEF active_profile

(* The arithmetic of a bucket stays in the naturals. *)
LEMMA GeneratedType ==
    ASSUME NEW b \in TokenBucketState, NEW p \in RateProfile, NEW now \in Nat
    PROVE  Generated(b, p, now) \in Nat
BY DEF Generated, SaturatingSub, TokenBucketState, RateProfile

LEMMA RefillType ==
    ASSUME NEW b \in TokenBucketState, NEW p \in RateProfile, NEW now \in Nat
    PROVE  Refill(b, p, now) \in TokenBucketState
<1>1. (b.tokens + Generated(b, p, now)) % Modulus \in Nat
  BY GeneratedType DEF TokenBucketState
<1> QED BY <1>1 DEF Refill, Lesser, TokenBucketState, RateProfile

LEMMA ChargeType ==
    ASSUME NEW b \in TokenBucketState, NEW p \in RateProfile, NEW now \in Nat
    PROVE  Charge(b, p, now) \in TokenBucketState
BY RefillType DEF Charge, TokenBucketState

JobTyped == job \in [Cpu -> Job \cup {Absent}] /\ out \in Outcome \cup {Absent}

LEMMA ContinueType ==
    ASSUME TypeOK, NEW c \in Cpu, NEW j \in Job, Continue(c, j)
    PROVE  JobTyped'
BY DEF TypeOK, JobTyped, Continue

LEMMA EmitType ==
    ASSUME TypeOK, NEW c \in Cpu, NEW j \in Job, NEW v \in XdpAction,
           NEW to \in Adapter \cup {Absent}, Emit(c, j, v, to)
    PROVE  JobTyped'
<1>1. [packet |-> j.packet, direction |-> j.direction, verdict |-> v, to |-> to,
       granted |-> j.granted] \in Outcome
  BY DEF Job, JobRecord, Outcome
<1> QED BY <1>1 DEF TypeOK, JobTyped, Emit

LEMMA FailType ==
    ASSUME TypeOK, NEW c \in Cpu, NEW j \in Job, NEW e \in FirewallError, Fail(c, j, e)
    PROVE  JobTyped'
<1>1. Verdict(e) \in XdpAction
  BY DEF Verdict, XdpAction
<1> QED BY <1>1, EmitType DEF Fail

LEMMA ForwardType ==
    ASSUME TypeOK, NEW c \in Cpu, NEW j \in Job, Forward(c, j)
    PROVE  JobTyped'
<1>1. redirect_target(j.direction) \in Adapter \cup {Absent}
  BY DEF redirect_target, TypeOK, FirewallConfig
<1> DEFINE v == IF redirect_target(j.direction) = Absent THEN "XDP_PASS" ELSE "XDP_REDIRECT"
<1>2. v \in XdpAction
  BY DEF XdpAction
<1>3. Emit(c, j, v, redirect_target(j.direction))
  BY DEF Forward
<1> HIDE DEF v
<1> QED BY <1>1, <1>2, <1>3, EmitType

LEMMA NewJobType == ASSUME TypeOK, NEW p \in Packet PROVE NewJob(p) \in Job
BY DEF NewJob, Job, JobRecord, Stage, traffic_direction, TraficDirection

LEMMA RemoveEntryType ==
    ASSUME TypeOK, NEW k \in FlowKey, RemoveEntry(k)
    PROVE  allow' \in [Slot -> AllowListState \cup {Absent}] /\ opened' \subseteq FlowKey
BY DEF TypeOK, RemoveEntry

LEMMA InsertEntryType ==
    ASSUME TypeOK, NEW k \in FlowKey, NEW a \in Action, NEW t \in Nat, NEW e \in BOOLEAN,
           InsertEntry(k, a, t, e)
    PROVE  allow' \in [Slot -> AllowListState \cup {Absent}] /\ opened' \subseteq FlowKey
<1>1. [key |-> k, action |-> a, last_seen |-> t] \in AllowListState
  BY DEF AllowListState
<1> QED BY <1>1 DEF TypeOK, InsertEntry

LEMMA InsertBucketType ==
    ASSUME TypeOK, NEW k \in FlowKey, NEW b \in TokenBucketState, InsertBucket(k, b)
    PROVE  counts' \in [FlowKey -> TokenBucketState \cup {Absent}]
BY DEF TypeOK, InsertBucket

LEMMA RemoveBucketType ==
    ASSUME TypeOK, NEW k \in FlowKey, RemoveBucket(k)
    PROVE  counts' \in [FlowKey -> TokenBucketState \cup {Absent}]
BY DEF TypeOK, RemoveBucket

(* The job of a CPU that is at some stage, and its key. *)
LEMMA AtStageType ==
    ASSUME TypeOK, NEW c \in Cpu, NEW stage, AtStage(c, stage)
    PROVE  job[c] \in Job /\ KeyOf(job[c]) \in FlowKey
BY JobKeyType DEF TypeOK, AtStage

(* The conjuncts of TypeOK that Continue, Emit and the rest leave alone. *)
RestTyped ==
    /\ config \in Config
    /\ subnet \in [Host -> Match]
    /\ allow \in [Slot -> AllowListState \cup {Absent}]
    /\ counts \in [FlowKey -> TokenBucketState \cup {Absent}]
    /\ clock \in Nat
    /\ lock \in Lock \cup {Absent}
    /\ cleaner \in Nat \cup {Absent}
    /\ opened \subseteq FlowKey
    /\ meter \in [FlowKey -> Meter]

LEMMA TypeSplit == TypeOK <=> JobTyped /\ RestTyped
BY DEF TypeOK, JobTyped, RestTyped
LEMMA TypeSplitNext == TypeOK' <=> JobTyped' /\ RestTyped'
BY DEF TypeOK, JobTyped, RestTyped

LEMMA ReceiveType ==
    ASSUME TypeOK, NEW c \in Cpu, NEW p \in Packet,
           \/ ReceiveInspected(c, p) \/ ReceiveTruncated(c, p)
           \/ ReceivePassed(c, p) \/ ReceiveUnsupported(c, p)
    PROVE  TypeOK'
<1>1. RestTyped'
  BY TypeSplit DEF RestTyped, ReceiveInspected, ReceiveTruncated, ReceivePassed,
                   ReceiveUnsupported, userVars
<1>2. CASE ReceiveInspected(c, p)
  BY <1>1, <1>2, NewJobType, ContinueType, TypeSplitNext DEF ReceiveInspected
<1>3. CASE ReceiveTruncated(c, p)
  BY <1>1, <1>3, NewJobType, FailType, TypeSplitNext DEF ReceiveTruncated, FirewallError
<1>4. CASE ReceivePassed(c, p)
  BY <1>1, <1>4, NewJobType, EmitType, TypeSplitNext DEF ReceivePassed, XdpAction
<1>5. CASE ReceiveUnsupported(c, p)
  BY <1>1, <1>5, NewJobType, FailType, TypeSplitNext DEF ReceiveUnsupported, FirewallError
<1> QED BY <1>2, <1>3, <1>4, <1>5

LEMMA LookupType ==
    ASSUME TypeOK, NEW c \in Cpu, CheckSubnet(c) \/ LookupHit(c) \/ LookupMiss(c)
    PROVE  TypeOK'
<1>1. RestTyped'
  BY TypeSplit DEF RestTyped, CheckSubnet, LookupHit, LookupMiss, userVars
<1>2. CASE CheckSubnet(c)
  <2>1. job[c] \in Job
    BY <1>2, AtStageType DEF CheckSubnet
  <2>2. [job[c] EXCEPT !.at = "lookup"] \in Job
    BY <2>1 DEF Job, JobRecord, Stage
  <2> QED BY <1>1, <1>2, <2>1, <2>2, ContinueType, FailType, TypeSplitNext
          DEF CheckSubnet, FirewallError
<1>3. CASE LookupHit(c)
  <2>1. job[c] \in Job
    BY <1>3, AtStageType DEF LookupHit
  <2>2. ASSUME NEW s \in Slot, NEW g \in BOOLEAN
        PROVE  [job[c] EXCEPT !.at = "refresh", !.now = clock, !.slot = s, !.granted = g] \in Job
    BY <2>1 DEF Job, JobRecord, Stage, TypeOK
  <2>3. PICK s \in Slot :
           \/ Fail(c, job[c], "DeniedByPolicy")
           \/ Continue(c, [job[c] EXCEPT !.at = "refresh", !.now = clock, !.slot = s,
                                         !.granted = KeyOf(job[c]) \in opened])
    BY <1>3 DEF LookupHit, HoldersOf
  <2> DEFINE g == KeyOf(job[c]) \in opened
  <2>4. g \in BOOLEAN
    OBVIOUS
  <2>5. [job[c] EXCEPT !.at = "refresh", !.now = clock, !.slot = s, !.granted = g] \in Job
    BY <2>2, <2>4
  <2> QED BY <1>1, <2>1, <2>3, <2>5, ContinueType, FailType, TypeSplitNext DEF FirewallError
<1>4. CASE LookupMiss(c)
  <2>1. job[c] \in Job
    BY <1>4, AtStageType DEF LookupMiss
  <2>2. [job[c] EXCEPT !.at = "insert", !.now = clock] \in Job
    BY <2>1 DEF Job, JobRecord, Stage, TypeOK
  <2> QED BY <1>1, <1>4, <2>1, <2>2, ContinueType, FailType, TypeSplitNext
          DEF LookupMiss, FirewallError
<1> QED BY <1>2, <1>3, <1>4

LEMMA StateStepType ==
    ASSUME TypeOK, NEW c \in Cpu,
           Refresh(c) \/ InsertAllowed(c) \/ CloseFlow(c) \/ ForgetBucket(c)
    PROVE  TypeOK'
<1>1. job[c] \in Job /\ KeyOf(job[c]) \in FlowKey
  BY AtStageType DEF Refresh, InsertAllowed, CloseFlow, ForgetBucket
<1>2. CASE Refresh(c)
  <2>1. [job[c] EXCEPT !.at = "take", !.slot = Absent] \in Job
    BY <1>1 DEF Job, JobRecord, Stage
  <2>2. job[c].now \in Nat
    BY <1>1 DEF Job, JobRecord
  <2>3. ASSUME NEW s \in Slot, allow[s] # Absent
        PROVE  [allow[s] EXCEPT !.last_seen = job[c].now] \in AllowListState
    BY <2>2, <2>3 DEF TypeOK, AllowListState
  <2>4. RestTyped'
    BY <1>2, <2>3, TypeSplit DEF RestTyped, Refresh, userVars
  <2> QED BY <1>2, <2>1, <2>4, ContinueType, TypeSplitNext DEF Refresh
<1>3. CASE InsertAllowed(c)
  <2>1. [job[c] EXCEPT !.at = "take"] \in Job
    BY <1>1 DEF Job, JobRecord, Stage
  <2>2. job[c].now \in Nat /\ "Allow" \in Action
    BY <1>1 DEF Job, JobRecord, Action
  <2> DEFINE inside == job[c].packet.ingress \in Inside
  <2>3. inside \in BOOLEAN
    OBVIOUS
  <2>4. \/ InsertEntry(KeyOf(job[c]), "Allow", job[c].now, inside)
        \/ UNCHANGED <<allow, opened>>
    BY <1>3 DEF InsertAllowed
  <2> HIDE DEF inside
  <2>5. allow' \in [Slot -> AllowListState \cup {Absent}] /\ opened' \subseteq FlowKey
    BY <1>1, <2>2, <2>3, <2>4, InsertEntryType DEF TypeOK
  <2>6. RestTyped'
    BY <1>3, <2>5, TypeSplit DEF RestTyped, InsertAllowed, userVars
  <2> QED BY <1>3, <2>1, <2>6, ContinueType, TypeSplitNext DEF InsertAllowed
<1>4. CASE CloseFlow(c)
  <2>1. [job[c] EXCEPT !.at = "forget"] \in Job
    BY <1>1 DEF Job, JobRecord, Stage
  <2>2. RestTyped'
    BY <1>1, <1>4, RemoveEntryType, TypeSplit DEF RestTyped, CloseFlow, userVars
  <2> QED BY <1>4, <2>1, <2>2, ContinueType, TypeSplitNext DEF CloseFlow
<1>5. CASE ForgetBucket(c)
  <2>1. RestTyped'
    BY <1>1, <1>5, RemoveBucketType, TypeSplit DEF RestTyped, ForgetBucket, userVars
  <2> QED BY <1>1, <1>5, <2>1, ForwardType, TypeSplitNext DEF ForgetBucket
<1> QED BY <1>2, <1>3, <1>4, <1>5

LEMMA MeterType ==
    ASSUME NEW m \in Meter, NEW t \in Nat
    PROVE  /\ Later(m.served, t) \in Nat
           /\ Charged(m, t) \in Meter
           /\ \A b \in TokenBucketState : Restarted(m, b) \in Meter /\ Rewritten(m, b) \in Meter
<1>1. \A u \in Nat : Later(m.served, u) \in Nat
  BY DEF Meter, Later
<1>2. \A n, u \in Nat : [m EXCEPT !.charged = n, !.served = u] \in Meter
  BY DEF Meter
<1>3. m.charged + 1 \in Nat
  BY DEF Meter
<1>4. ASSUME NEW b \in TokenBucketState PROVE Restarted(m, b) \in Meter /\ Rewritten(m, b) \in Meter
  BY <1>1 DEF Restarted, Rewritten, Meter, TokenBucketState
<1> QED BY <1>1, <1>2, <1>3, <1>4 DEF Charged

LEMMA BucketStepType ==
    ASSUME TypeOK, NEW c \in Cpu, TakeBucket(c) \/ SettleCharged(c) \/ SettleUncharged(c)
    PROVE  TypeOK'
<1>1. job[c] \in Job /\ KeyOf(job[c]) \in FlowKey
  BY AtStageType DEF TakeBucket, SettleCharged, SettleUncharged
<1>2. active_profile(job[c]) \in RateProfile
  BY <1>1, ActiveProfileType
<1>3. CASE TakeBucket(c)
  <2> DEFINE k == KeyOf(job[c])
             full == FullBucket(active_profile(job[c]), clock)
             b == IF counts[k] = Absent THEN full ELSE counts[k]
  <2>1. full \in TokenBucketState
    BY <1>2 DEF FullBucket, TokenBucketState, RateProfile, TypeOK
  <2>2. b \in TokenBucketState
    BY <1>1, <2>1 DEF TypeOK
  <2>3. full.tokens \in Nat /\ clock \in Nat
    BY <2>1 DEF TokenBucketState, TypeOK
  <2>4. Continue(c, [job[c] EXCEPT !.at = "settle", !.now = clock, !.bucket = b])
    BY <1>3 DEF TakeBucket
  <2>5. meter' = IF counts[k] = Absent
                 THEN [meter EXCEPT ![k] = Restarted(@, full)]
                 ELSE meter
    BY <1>3 DEF TakeBucket
  <2>6. UNCHANGED <<userVars, allow, counts, clock, opened>>
    BY <1>3 DEF TakeBucket
  <2> HIDE DEF full, b
  <2>7. [job[c] EXCEPT !.at = "settle", !.now = clock, !.bucket = b] \in Job
    BY <1>1, <2>2, <2>3 DEF Job, JobRecord, Stage
  <2>8. meter' \in [FlowKey -> Meter]
    BY <1>1, <2>1, <2>3, <2>5, MeterType DEF TypeOK
  <2>9. RestTyped'
    BY <2>6, <2>8, TypeSplit DEF RestTyped, userVars
  <2> QED BY <2>4, <2>7, <2>9, ContinueType, TypeSplitNext
<1>4. CASE SettleCharged(c)
  <2> DEFINE k == KeyOf(job[c])
             profile == active_profile(job[c])
             charged == Charge(job[c].bucket, profile, job[c].now)
             passes == Passes(job[c].bucket, profile, job[c].now)
  <2>1. job[c].bucket \in TokenBucketState /\ job[c].now \in Nat
    BY <1>1, <1>4 DEF SettleCharged, Job, JobRecord, AtStage
  <2>2. charged \in TokenBucketState
    BY <1>2, <2>1, ChargeType
  <2>3. /\ InsertBucket(k, charged) \/ UNCHANGED counts
        /\ Forward(c, job[c]) \/ Fail(c, job[c], "RateLimited")
        /\ meter' = meter \/ meter' = [meter EXCEPT ![k] = Charged(@, job[c].now)]
        /\ UNCHANGED <<userVars, allow, clock, opened>>
    BY <1>4 DEF SettleCharged
  <2> HIDE DEF charged, profile, passes
  <2>4. JobTyped'
    BY <1>1, <2>3, ForwardType, FailType DEF FirewallError
  <2>5. counts' \in [FlowKey -> TokenBucketState \cup {Absent}]
    BY <1>1, <2>2, <2>3, InsertBucketType DEF TypeOK
  <2>6. meter' \in [FlowKey -> Meter]
    <3>1. meter[k] \in Meter
      BY <1>1 DEF TypeOK
    <3>2. Charged(meter[k], job[c].now) \in Meter
      BY <2>1, <3>1, MeterType
    <3> QED BY <1>1, <2>3, <3>2 DEF TypeOK
  <2>7. RestTyped'
    BY <2>3, <2>5, <2>6, TypeSplit DEF RestTyped, userVars
  <2> QED BY <2>4, <2>7, TypeSplitNext
<1>5. CASE SettleUncharged(c)
  <2>1. RestTyped'
    BY <1>5, TypeSplit DEF RestTyped, SettleUncharged, userVars
  <2> QED BY <1>1, <1>5, <2>1, ForwardType, TypeSplitNext DEF SettleUncharged
<1> QED BY <1>3, <1>4, <1>5

LEMMA UserspaceType == ASSUME TypeOK, Userspace \/ Tick PROVE TypeOK'
<1>1. ASSUME NEW cfg \in Config, SetConfig(cfg) PROVE TypeOK'
  BY <1>1 DEF TypeOK, SetConfig
<1>2. ASSUME NEW h \in Host, NEW a \in Match, SetSubnet(h, a) PROVE TypeOK'
  BY <1>2 DEF TypeOK, SetSubnet
<1>3. ASSUME NEW k \in FlowKey, NEW a \in Action, NEW t \in AdminSeen, modify_allow_list(k, a, t)
      PROVE  TypeOK'
  <2> DEFINE e == a = "Allow"
  <2>1. e \in BOOLEAN /\ t \in Nat
    OBVIOUS
  <2>2. InsertEntry(k, a, t, e)
    BY <1>3 DEF modify_allow_list
  <2> HIDE DEF e
  <2> QED BY <1>3, <2>1, <2>2, InsertEntryType DEF TypeOK, modify_allow_list
<1>4. ASSUME NEW k \in FlowKey, clear_allow_list_key(k) PROVE TypeOK'
  BY <1>4, RemoveEntryType DEF TypeOK, clear_allow_list_key
<1>5. ASSUME NEW k \in FlowKey, NEW b \in AdminBucket, modify_packet_counts(k, b) PROVE TypeOK'
  <2>1. b \in TokenBucketState
    OBVIOUS
  <2>2. meter' \in [FlowKey -> Meter]
    BY <1>5, <2>1, MeterType DEF TypeOK, modify_packet_counts, TokenBucketState
  <2> QED BY <1>5, <2>1, <2>2, InsertBucketType DEF TypeOK, modify_packet_counts
<1>6. ASSUME NEW k \in FlowKey, clear_packet_counts(k) PROVE TypeOK'
  BY <1>6, RemoveBucketType DEF TypeOK, clear_packet_counts
<1>7. ASSUME NEW k \in FlowKey, RemoveDoomed(k) PROVE TypeOK'
  <2>1. lock' \in Lock
    BY <1>7 DEF TypeOK, RemoveDoomed, Lock
  <2> QED BY <1>7, <2>1, RemoveEntryType DEF TypeOK, RemoveDoomed
<1>8. ASSUME clear_allow_list_all PROVE TypeOK'
  <2>1. Present \subseteq FlowKey
    BY DEF Present, TypeOK, AllowListState
  <2>2. lock' \in Lock
    BY <1>8, <2>1 DEF clear_allow_list_all, Lock
  <2> QED BY <1>8, <2>2 DEF TypeOK, clear_allow_list_all
<1>9. ASSUME CleanupWake PROVE TypeOK'
  BY <1>9 DEF TypeOK, CleanupWake
<1>10. ASSUME CleanupCollect PROVE TypeOK'
  <2>1. {allow[s].key : s \in {t \in Slot : allow[t] # Absent /\ IsIdle(allow[t], cleaner)}} \subseteq FlowKey
    BY DEF TypeOK, AllowListState
  <2>2. lock' \in Lock
    BY <1>10, <2>1 DEF CleanupCollect, Lock
  <2> QED BY <1>10, <2>2 DEF TypeOK, CleanupCollect
<1>11. ASSUME ReleaseLock PROVE TypeOK'
  BY <1>11 DEF TypeOK, ReleaseLock
<1>12. ASSUME Tick PROVE TypeOK'
  BY <1>12 DEF TypeOK, Tick
<1> QED BY <1>1, <1>2, <1>3, <1>4, <1>5, <1>6, <1>7, <1>8, <1>9, <1>10, <1>11, <1>12 DEF Userspace

LEMMA NextType == TypeOK /\ [Next]_vars => TypeOK'
<1> SUFFICES ASSUME TypeOK, [Next]_vars PROVE TypeOK'
  OBVIOUS
<1>1. ASSUME NEW c \in Cpu, Xdp(c) PROVE TypeOK'
  BY <1>1, ReceiveType, LookupType, StateStepType, BucketStepType DEF Xdp
<1>2. CASE Userspace \/ Tick
  BY <1>2, UserspaceType
<1>3. CASE UNCHANGED vars
  BY <1>3 DEF TypeOK, vars
<1> QED BY <1>1, <1>2, <1>3 DEF Next

LEMMA InitType == Init => TypeOK
BY DEF Meter, Init, TypeOK, FlowKey

(* Every variable keeps its type; in particular token counts never go below *)
(* zero, and a job that is about to settle holds a bucket.                  *)
THEOREM TypeCorrect == Spec => []TypeOK
BY InitType, NextType, PTL DEF Spec

(***************************************************************************)
(* The stateful promise                                                     *)
(***************************************************************************)

(* The map's half of the invariant: one slot per key, every Allow opened. *)
MapInv == UniqueKeys /\ AllowEntriesWereOpened
(* The jobs' half, with the verdict they return. *)
FlightInv == JobsHonest /\ NoUnsolicitedForward

LEMMA InsertKeepsMap ==
    ASSUME TypeOK, MapInv, NEW k \in FlowKey, NEW a \in Action, NEW t \in Nat, NEW e \in BOOLEAN,
           a = "Allow" => e, InsertEntry(k, a, t, e)
    PROVE  MapInv'
<1> DEFINE new == [key |-> k, action |-> a, last_seen |-> t]
<1>1. PICK s \in Slot :
        /\ allow' = [u \in Slot |-> IF u = s THEN new
                                    ELSE IF u \in HoldersOf(k) THEN Absent ELSE allow[u]]
        /\ opened' = (opened \ {j \in FlowKey : j = k \/ (allow[s] # Absent /\ allow[s].key = j)})
                        \cup {j \in {k} : e}
  BY DEF InsertEntry, LruCandidates, FreeSlots
<1>2. new # Absent /\ new.key = k /\ new.action = a
  <2>1. new \in AllowListState
    BY DEF AllowListState
  <2> QED BY <2>1
<1> HIDE DEF new
<1>3. ASSUME NEW u \in Slot, allow'[u] # Absent, u # s
      PROVE  allow'[u] = allow[u] /\ allow[u] # Absent /\ allow[u].key # k
  BY <1>1, <1>3 DEF HoldersOf
<1>4. UniqueKeys'
  BY <1>1, <1>2, <1>3 DEF MapInv, UniqueKeys
<1>5. AllowEntriesWereOpened'
  <2> SUFFICES ASSUME NEW u \in Slot, allow'[u] # Absent, allow'[u].action = "Allow"
               PROVE  allow'[u].key \in opened'
    BY DEF AllowEntriesWereOpened
  <2>1. CASE u = s
    BY <1>1, <1>2, <2>1
  <2>2. CASE u # s
    <3>1. allow'[u] = allow[u] /\ allow[u] # Absent /\ allow[u].key # k
      BY <1>3, <2>2
    <3>2. allow[u].key \in opened
      BY <3>1 DEF MapInv, AllowEntriesWereOpened
    <3>3. ~(allow[s] # Absent /\ allow[s].key = allow[u].key)
      BY <2>2, <3>1 DEF MapInv, UniqueKeys
    <3> QED BY <1>1, <3>1, <3>2, <3>3
  <2> QED BY <2>1, <2>2
<1> QED BY <1>4, <1>5 DEF MapInv

LEMMA RemoveKeepsMap ==
    ASSUME TypeOK, MapInv, NEW k \in FlowKey, RemoveEntry(k)
    PROVE  MapInv'
<1>1. ASSUME NEW u \in Slot, allow'[u] # Absent
      PROVE  allow'[u] = allow[u] /\ allow[u] # Absent /\ allow[u].key # k
  BY <1>1 DEF RemoveEntry, HoldersOf
<1>2. UniqueKeys'
  BY <1>1 DEF MapInv, UniqueKeys
<1>3. AllowEntriesWereOpened'
  BY <1>1 DEF MapInv, AllowEntriesWereOpened, RemoveEntry
<1> QED BY <1>2, <1>3 DEF MapInv

LEMMA RefreshKeepsMap ==
    ASSUME TypeOK, MapInv, NEW c \in Cpu, Refresh(c)
    PROVE  MapInv'
<1>1. ASSUME NEW u \in Slot
      PROVE  /\ allow'[u] # Absent => allow[u] # Absent
             /\ allow[u] # Absent => allow'[u].key = allow[u].key /\ allow'[u].action = allow[u].action
  BY DEF Refresh, TypeOK, AllowListState
<1> QED BY <1>1 DEF MapInv, UniqueKeys, AllowEntriesWereOpened, Refresh

LEMMA StutterKeepsMap == ASSUME MapInv, UNCHANGED <<allow, opened>> PROVE MapInv'
BY DEF MapInv, UniqueKeys, AllowEntriesWereOpened

LEMMA ContinueKeepsFlight ==
    ASSUME TypeOK, FlightInv, NEW c \in Cpu, NEW j, IsHonest(j), Continue(c, j)
    PROVE  FlightInv'
<1>1. \A d \in Cpu : job'[d] = IF d = c THEN j ELSE job[d]
  BY DEF Continue, TypeOK
<1>2. JobsHonest'
  BY <1>1 DEF FlightInv, JobsHonest, IsHonest
<1>3. NoUnsolicitedForward'
  BY DEF Continue, NoUnsolicitedForward, Forwarded
<1> QED BY <1>2, <1>3 DEF FlightInv

LEMMA EmitKeepsFlight ==
    ASSUME TypeOK, FlightInv, NEW c \in Cpu, NEW j, NEW v, NEW to, Emit(c, j, v, to),
           /\ v \in {"XDP_PASS", "XDP_REDIRECT"} /\ j.packet.ether = Family
           /\ j.direction = "Incoming" /\ ~j.packet.closing
           => j.granted
    PROVE  FlightInv'
<1>1. \A d \in Cpu : job'[d] = IF d = c THEN Absent ELSE job[d]
  BY DEF Emit, TypeOK
<1>2. JobsHonest'
  BY <1>1 DEF FlightInv, JobsHonest, IsHonest
<1>3. out'.packet = j.packet /\ out'.direction = j.direction /\ out'.verdict = v /\ out'.granted = j.granted
  BY DEF Emit
<1>4. NoUnsolicitedForward'
  BY <1>3 DEF NoUnsolicitedForward, Forwarded
<1> QED BY <1>2, <1>4 DEF FlightInv

LEMMA FailKeepsFlight ==
    ASSUME TypeOK, FlightInv, NEW c \in Cpu, NEW j, NEW e, Fail(c, j, e)
    PROVE  FlightInv'
<1>1. Verdict(e) \notin {"XDP_PASS", "XDP_REDIRECT"}
  BY DEF Verdict
<1> QED BY <1>1, EmitKeepsFlight DEF Fail

LEMMA ForwardKeepsFlight ==
    ASSUME TypeOK, FlightInv, NEW c \in Cpu, NEW j, Forward(c, j),
           j.direction = "Incoming" /\ ~j.packet.closing => j.granted
    PROVE  FlightInv'
BY EmitKeepsFlight DEF Forward

LEMMA StutterKeepsFlight ==
    ASSUME FlightInv, UNCHANGED job, out' = Absent \/ UNCHANGED out PROVE FlightInv'
BY DEF FlightInv, JobsHonest, IsHonest, NoUnsolicitedForward, Forwarded

(* A frame of the tracked family is never passed on uninspected. *)
LEMMA FamilyInspected == ASSUME NEW p \in Packet, p.ether = Family PROVE ~IsPassedUnseen(p)
BY DEF IsPassedUnseen, IsInspected

LEMMA ReceiveInv ==
    ASSUME StateInv, InsideAssumption, NEW c \in Cpu, NEW p \in Packet,
           \/ ReceiveInspected(c, p) \/ ReceiveTruncated(c, p)
           \/ ReceivePassed(c, p) \/ ReceiveUnsupported(c, p)
    PROVE  MapInv' /\ FlightInv'
<1>1. TypeOK /\ MapInv /\ FlightInv
  BY DEF StateInv, MapInv, FlightInv
<1>2. MapInv'
  BY <1>1, StutterKeepsMap DEF ReceiveInspected, ReceiveTruncated, ReceivePassed, ReceiveUnsupported
<1>3. IsHonest(NewJob(p))
  <2>1. NewJob(p).direction = "Outgoing" => p.ingress \in Inside
    <3>1. p.ingress \in Adapter /\ config.output \in Inside \cup {Absent}
      BY <1>1, InsideAssumption DEF TypeOK, Frame
    <3> QED BY <3>1 DEF NewJob, traffic_direction
  <2> QED BY <2>1 DEF IsHonest, NewJob
<1>4. FlightInv'
  <2>1. CASE ReceiveInspected(c, p)
    BY <1>1, <1>3, <2>1, ContinueKeepsFlight DEF ReceiveInspected
  <2>2. CASE ReceiveTruncated(c, p) \/ ReceiveUnsupported(c, p)
    BY <1>1, <2>2, FailKeepsFlight DEF ReceiveTruncated, ReceiveUnsupported
  <2>3. CASE ReceivePassed(c, p)
    <3>1. NewJob(p).packet.ether # Family
      BY <2>3, FamilyInspected DEF ReceivePassed, NewJob
    <3> QED BY <1>1, <2>3, <3>1, EmitKeepsFlight DEF ReceivePassed
  <2> QED BY <2>1, <2>2, <2>3
<1> QED BY <1>2, <1>4

LEMMA LookupInv ==
    ASSUME StateInv, NEW c \in Cpu, CheckSubnet(c) \/ LookupHit(c) \/ LookupMiss(c)
    PROVE  MapInv' /\ FlightInv'
<1>1. TypeOK /\ MapInv /\ FlightInv
  BY DEF StateInv, MapInv, FlightInv
<1>2. MapInv'
  BY <1>1, StutterKeepsMap DEF CheckSubnet, LookupHit, LookupMiss
<1>3. job[c] \in Job /\ IsHonest(job[c])
  BY <1>1, AtStageType DEF CheckSubnet, LookupHit, LookupMiss, FlightInv, JobsHonest, AtStage
<1>4. CASE CheckSubnet(c)
  <2>1. IsHonest([job[c] EXCEPT !.at = "lookup"])
    BY <1>3 DEF IsHonest, Job, JobRecord
  <2> QED BY <1>1, <1>2, <1>4, <2>1, ContinueKeepsFlight, FailKeepsFlight DEF CheckSubnet
<1>5. CASE LookupHit(c)
  <2>1. PICK s \in HoldersOf(KeyOf(job[c])) :
           IF job[c].direction = "Incoming" /\ allow[s].action # "Allow"
           THEN Fail(c, job[c], "DeniedByPolicy")
           ELSE Continue(c, [job[c] EXCEPT !.at = "refresh", !.now = clock, !.slot = s,
                                           !.granted = KeyOf(job[c]) \in opened])
    BY <1>5 DEF LookupHit
  <2>2. CASE job[c].direction = "Incoming" /\ allow[s].action # "Allow"
    BY <1>1, <1>2, <2>1, <2>2, FailKeepsFlight
  <2>3. CASE ~(job[c].direction = "Incoming" /\ allow[s].action # "Allow")
    <3> DEFINE g == KeyOf(job[c]) \in opened
               next == [job[c] EXCEPT !.at = "refresh", !.now = clock, !.slot = s, !.granted = g]
    <3>1. job[c].direction = "Incoming" => g
      BY <2>1, <2>3, <1>1 DEF HoldersOf, MapInv, AllowEntriesWereOpened
    <3> HIDE DEF g
    <3>2. IsHonest(next)
      BY <1>3, <3>1 DEF IsHonest, Job, JobRecord
    <3>3. Continue(c, next)
      BY <2>1, <2>3 DEF g
    <3> QED BY <1>1, <1>2, <3>2, <3>3, ContinueKeepsFlight
  <2> QED BY <2>2, <2>3
<1>6. CASE LookupMiss(c)
  <2>1. job[c].direction # "Incoming" => IsHonest([job[c] EXCEPT !.at = "insert", !.now = clock])
    BY <1>3 DEF IsHonest, Job, JobRecord, TraficDirection
  <2> QED BY <1>1, <1>2, <1>6, <2>1, ContinueKeepsFlight, FailKeepsFlight DEF LookupMiss
<1> QED BY <1>4, <1>5, <1>6

LEMMA StateStepInv ==
    ASSUME StateInv, NEW c \in Cpu,
           Refresh(c) \/ InsertAllowed(c) \/ CloseFlow(c) \/ ForgetBucket(c)
    PROVE  MapInv' /\ FlightInv'
<1>1. TypeOK /\ MapInv /\ FlightInv
  BY DEF StateInv, MapInv, FlightInv
<1>2. job[c] \in Job /\ KeyOf(job[c]) \in FlowKey /\ IsHonest(job[c])
  BY <1>1, AtStageType
     DEF Refresh, InsertAllowed, CloseFlow, ForgetBucket, FlightInv, JobsHonest, AtStage
<1>3. CASE Refresh(c)
  <2>1. IsHonest([job[c] EXCEPT !.at = "take", !.slot = Absent])
    BY <1>2, <1>3 DEF IsHonest, Job, JobRecord, Refresh, AtStage
  <2> QED BY <1>1, <1>3, <2>1, RefreshKeepsMap, ContinueKeepsFlight DEF Refresh
<1>4. CASE InsertAllowed(c)
  <2>1. job[c].direction = "Outgoing" /\ job[c].packet.ingress \in Inside
    BY <1>2, <1>4 DEF IsHonest, InsertAllowed, AtStage
  <2>2. IsHonest([job[c] EXCEPT !.at = "take"])
    BY <1>2, <2>1 DEF IsHonest, Job, JobRecord
  <2> DEFINE inside == job[c].packet.ingress \in Inside
  <2>3. inside = TRUE
    BY <2>1
  <2>4. InsertEntry(KeyOf(job[c]), "Allow", job[c].now, inside) \/ UNCHANGED <<allow, opened>>
    BY <1>4 DEF InsertAllowed
  <2> HIDE DEF inside
  <2>5. job[c].now \in Nat /\ "Allow" \in Action
    BY <1>2 DEF Job, JobRecord, Action
  <2>6. MapInv'
    BY <1>1, <1>2, <2>3, <2>4, <2>5, InsertKeepsMap, StutterKeepsMap
  <2> QED BY <1>1, <1>4, <2>2, <2>6, ContinueKeepsFlight DEF InsertAllowed
<1>5. CASE CloseFlow(c)
  <2>1. IsHonest([job[c] EXCEPT !.at = "forget"])
    BY <1>2, <1>5 DEF IsHonest, Job, JobRecord, CloseFlow
  <2> QED BY <1>1, <1>2, <1>5, <2>1, RemoveKeepsMap, ContinueKeepsFlight DEF CloseFlow
<1>6. CASE ForgetBucket(c)
  <2>1. job[c].packet.closing
    BY <1>2, <1>6 DEF ForgetBucket, AtStage, IsHonest
  <2> QED BY <1>1, <1>6, <2>1, StutterKeepsMap, ForwardKeepsFlight DEF ForgetBucket
<1> QED BY <1>3, <1>4, <1>5, <1>6

LEMMA BucketStepInv ==
    ASSUME StateInv, NEW c \in Cpu, TakeBucket(c) \/ SettleCharged(c) \/ SettleUncharged(c)
    PROVE  MapInv' /\ FlightInv'
<1>1. TypeOK /\ MapInv /\ FlightInv
  BY DEF StateInv, MapInv, FlightInv
<1>2. job[c] \in Job /\ IsHonest(job[c])
  BY <1>1, AtStageType DEF TakeBucket, SettleCharged, SettleUncharged, FlightInv, JobsHonest, AtStage
<1>3. MapInv'
  BY <1>1, StutterKeepsMap DEF TakeBucket, SettleCharged, SettleUncharged
<1>4. CASE TakeBucket(c)
  <2>1. PICK b : Continue(c, [job[c] EXCEPT !.at = "settle", !.now = clock, !.bucket = b])
    BY <1>4 DEF TakeBucket
  <2>2. IsHonest([job[c] EXCEPT !.at = "settle", !.now = clock, !.bucket = b])
    BY <1>2, <1>4 DEF IsHonest, Job, JobRecord, TakeBucket, AtStage
  <2> QED BY <1>1, <1>3, <2>1, <2>2, ContinueKeepsFlight
<1>5. CASE SettleCharged(c) \/ SettleUncharged(c)
  <2>1. job[c].direction = "Incoming" => job[c].granted
    BY <1>2, <1>5 DEF SettleCharged, SettleUncharged, AtStage, IsHonest
  <2>2. Forward(c, job[c]) \/ Fail(c, job[c], "RateLimited")
    BY <1>5 DEF SettleCharged, SettleUncharged
  <2> QED BY <1>1, <1>3, <2>1, <2>2, ForwardKeepsFlight, FailKeepsFlight
<1> QED BY <1>4, <1>5

LEMMA UserspaceInv == ASSUME StateInv, Userspace \/ Tick PROVE MapInv' /\ FlightInv'
<1>1. TypeOK /\ MapInv /\ FlightInv
  BY DEF StateInv, MapInv, FlightInv
<1>2. UNCHANGED job /\ out' = Absent
  BY DEF Userspace, Tick, SetConfig, SetSubnet, modify_allow_list, clear_allow_list_key,
         clear_allow_list_all, modify_packet_counts, clear_packet_counts, RemoveDoomed,
         CleanupWake, CleanupCollect, ReleaseLock
<1>3. FlightInv'
  BY <1>1, <1>2, StutterKeepsFlight
<1>4. ASSUME NEW k \in FlowKey, NEW a \in Action, NEW t \in AdminSeen, modify_allow_list(k, a, t)
      PROVE  MapInv'
  <2> DEFINE e == a = "Allow"
  <2>1. e \in BOOLEAN /\ t \in Nat /\ (a = "Allow" => e)
    OBVIOUS
  <2>2. InsertEntry(k, a, t, e)
    BY <1>4 DEF modify_allow_list
  <2> HIDE DEF e
  <2> QED BY <1>1, <2>1, <2>2, InsertKeepsMap
<1>5. ASSUME NEW k \in FlowKey, clear_allow_list_key(k) \/ RemoveDoomed(k)
      PROVE  MapInv'
  BY <1>1, <1>5, RemoveKeepsMap DEF clear_allow_list_key, RemoveDoomed
<1>6. MapInv'
  BY <1>1, <1>4, <1>5, StutterKeepsMap
     DEF Userspace, Tick, SetConfig, SetSubnet, clear_allow_list_all, modify_packet_counts,
         clear_packet_counts, CleanupWake, CleanupCollect, ReleaseLock
<1> QED BY <1>3, <1>6

LEMMA NextInv == InsideAssumption /\ StateInv /\ [Next]_vars => StateInv'
<1> SUFFICES ASSUME InsideAssumption, StateInv, [Next]_vars PROVE StateInv'
  OBVIOUS
<1>1. TypeOK'
  BY NextType DEF StateInv
<1>2. ASSUME NEW c \in Cpu, Xdp(c) PROVE MapInv' /\ FlightInv'
  BY <1>2, ReceiveInv, LookupInv, StateStepInv, BucketStepInv DEF Xdp
<1>3. CASE UNCHANGED vars
  <2>1. MapInv /\ FlightInv
    BY DEF StateInv, MapInv, FlightInv
  <2> QED BY <1>1, <1>3, <2>1, StutterKeepsMap, StutterKeepsFlight DEF vars, StateInv, MapInv, FlightInv
<1>4. CASE Next
  <2>1. MapInv' /\ FlightInv'
    BY <1>2, <1>4, UserspaceInv DEF Next
  <2> QED BY <1>1, <2>1 DEF StateInv, MapInv, FlightInv
<1> QED BY <1>3, <1>4

LEMMA InitInv == Init => StateInv
BY InitType DEF Init, StateInv, UniqueKeys, AllowEntriesWereOpened, JobsHonest,
                NoUnsolicitedForward, Forwarded

LEMMA StateInvariant == Spec => []StateInv
BY InitInv, NextInv, InsideAssumption, PTL DEF Spec

(* Nothing but a frame from the protected network or an administrator puts  *)
(* an Allow into the map, whatever the number of CPUs and the capacity.     *)
THEOREM AllowEntriesAreOpened == Spec => []AllowEntriesWereOpened
<1>1. StateInv => AllowEntriesWereOpened
  BY DEF StateInv
<1> QED BY <1>1, StateInvariant, PTL

(* A frame from outside that does not close its flow leaves only if the     *)
(* flow was open when it was looked up.                                     *)
THEOREM StatefulAdmission == Spec => []NoUnsolicitedForward
<1>1. StateInv => NoUnsolicitedForward
  BY DEF StateInv
<1> QED BY <1>1, StateInvariant, PTL

(***************************************************************************)
(* What single steps may never do                                           *)
(***************************************************************************)

(* Only the steps of a CPU change its job; what they make of it. *)
LEMMA JobStep ==
    ASSUME TypeOK, [Next]_vars, NEW c \in Cpu, job'[c] # job[c] PROVE Xdp(c)
<1>1. CASE Userspace \/ Tick \/ UNCHANGED vars
  BY <1>1 DEF Userspace, Tick, vars, SetConfig, SetSubnet, modify_allow_list, clear_allow_list_key,
              clear_allow_list_all, modify_packet_counts, clear_packet_counts, RemoveDoomed,
              CleanupWake, CleanupCollect, ReleaseLock
<1>2. ASSUME NEW d \in Cpu, Xdp(d) PROVE d = c
  <2>1. \E x : job' = [job EXCEPT ![d] = x]
    BY <1>2 DEF Xdp, ReceiveInspected, ReceiveTruncated, ReceivePassed, ReceiveUnsupported,
                CheckSubnet, LookupHit, LookupMiss, Refresh, InsertAllowed, CloseFlow, ForgetBucket,
                TakeBucket, SettleCharged, SettleUncharged, Continue, Emit, Fail, Forward
  <2> QED BY <2>1 DEF TypeOK
<1> QED BY <1>1, <1>2 DEF Next

LEMMA ContinueMeans ==
    ASSUME TypeOK, NEW c \in Cpu, NEW j, Continue(c, j) PROVE job'[c] = j /\ out' = Absent
BY DEF TypeOK, Continue

LEMMA EmitMeans ==
    ASSUME TypeOK, NEW c \in Cpu, NEW j, NEW v, NEW to, Emit(c, j, v, to)
    PROVE  job'[c] = Absent /\ out'.packet = j.packet /\ out'.verdict = v
BY DEF TypeOK, Emit

(* The protocol mask at the door: whatever the configuration is changed to  *)
(* while other frames are in flight.                                        *)
THEOREM MaskIsObeyed == Spec => ListedTypesNeedTheirFlag
<1> DEFINE Obeyed(p) == \/ p.ether \in {"Arp", "Ipv6", "Other"}
                        \/ p.ether # "Unknown" /\ EtherFlags[p.ether] \subseteq config.protocol_allowed
           Step == \A p \in Packet : Admitted(p) => Obeyed(p)
<1>1. TypeOK /\ [Next]_vars => [Step]_vars
  <2> SUFFICES ASSUME TypeOK, [Next]_vars, vars' # vars, NEW p \in Packet, Admitted(p)
               PROVE  Obeyed(p)
    OBVIOUS
  <2>0. \A q \in Packet : NewJob(q) \in Job /\ NewJob(q) # Absent /\ NewJob(q).packet = q
    BY NewJobType DEF NewJob
  <2>1. \A q \in Packet : IsInspected(q) \/ IsPassedUnseen(q) => Obeyed(q)
    BY DEF IsInspected, IsPassedUnseen
  <2> HIDE DEF Obeyed
  <2>2. CASE \E c \in Cpu : job[c] = Absent /\ job'[c] # Absent /\ job'[c].packet = p
    <3>1. PICK c \in Cpu : job[c] = Absent /\ job'[c] # Absent /\ job'[c].packet = p
      BY <2>2
    <3>2. Xdp(c) /\ \A stage : ~AtStage(c, stage)
      BY <3>1, JobStep DEF AtStage
    <3>3. PICK q \in Packet : ReceiveInspected(c, q) \/ ReceiveTruncated(c, q)
                              \/ ReceivePassed(c, q) \/ ReceiveUnsupported(c, q)
      BY <3>2 DEF Xdp, CheckSubnet, LookupHit, LookupMiss, Refresh, InsertAllowed, CloseFlow,
                  ForgetBucket, TakeBucket, SettleCharged, SettleUncharged
    <3>4. ReceiveInspected(c, q)
      BY <3>1, <3>3, EmitMeans DEF ReceiveTruncated, ReceivePassed, ReceiveUnsupported, Fail
    <3>5. job'[c] = NewJob(q) /\ IsInspected(q)
      BY <3>4, ContinueMeans DEF ReceiveInspected
    <3>6. p = q
      BY <2>0, <3>1, <3>5
    <3> QED BY <2>1, <3>5, <3>6
  <2>3. CASE /\ job' = job
             /\ out' # Absent /\ out'.packet = p /\ out'.verdict \in {"XDP_PASS", "XDP_REDIRECT"}
    <3>1. PICK c \in Cpu : Xdp(c)
      BY <2>3 DEF Next, Userspace, Tick, SetConfig, SetSubnet, modify_allow_list,
                  clear_allow_list_key, clear_allow_list_all, modify_packet_counts,
                  clear_packet_counts, RemoveDoomed, CleanupWake, CleanupCollect, ReleaseLock
    <3>2. ASSUME NEW stage, AtStage(c, stage), NEW j, NEW v, NEW to, Emit(c, j, v, to) PROVE FALSE
      BY <2>3, <3>2, EmitMeans DEF AtStage
    <3>3. ASSUME NEW j, Continue(c, j) PROVE FALSE
      BY <2>3, <3>3, ContinueMeans
    <3>4. PICK q \in Packet : ReceiveTruncated(c, q) \/ ReceivePassed(c, q) \/ ReceiveUnsupported(c, q)
      BY <3>1, <3>2, <3>3 DEF Xdp, ReceiveInspected, CheckSubnet, LookupHit, LookupMiss, Refresh,
                  InsertAllowed, CloseFlow, ForgetBucket, TakeBucket, SettleCharged, SettleUncharged,
                  Fail, Forward
    <3>5. \A e : Verdict(e) \notin {"XDP_PASS", "XDP_REDIRECT"}
      BY DEF Verdict
    <3>6. ReceivePassed(c, q)
      BY <2>3, <3>4, <3>5, EmitMeans DEF ReceiveTruncated, ReceiveUnsupported, Fail
    <3>7. p = q /\ IsPassedUnseen(q)
      BY <2>0, <2>3, <3>6, EmitMeans DEF ReceivePassed
    <3> QED BY <2>1, <3>7
  <2> QED BY <2>2, <2>3 DEF Admitted
<1> QED BY <1>1, TypeCorrect, PTL DEF Spec, ListedTypesNeedTheirFlag

(* A frame that the state lookup refuses has no Allow entry to go by, in    *)
(* whichever slot: keys are unique, and a reply's key is its flow's.        *)
THEOREM RepliesAreMet == Spec => RepliesMeetTheirFlow
<1> DEFINE Meets(c, s) == /\ allow[s] # Absent /\ allow[s].action = "Allow"
                          /\ allow[s].key.source = job[c].packet.dst
                          /\ allow[s].key.destination = job[c].packet.src
                          /\ allow[s].key.protocol = job[c].packet.protocol
           Step == \A c \in Cpu : RefusedAtLookup(c) => ~ \E s \in Slot : Meets(c, s)
<1>1. StateInv /\ [Next]_vars => [Step]_vars
  <2> SUFFICES ASSUME StateInv, [Next]_vars, NEW c \in Cpu, RefusedAtLookup(c),
                      NEW s \in Slot, Meets(c, s)
               PROVE  FALSE
    OBVIOUS
  <2>1. TypeOK /\ UniqueKeys /\ job[c] \in Job /\ AtStage(c, "lookup") /\ job'[c] = Absent
    BY AtStageType DEF StateInv, RefusedAtLookup
  <2>2. Xdp(c)
    BY <2>1, JobStep DEF AtStage
  <2>3. LookupHit(c) \/ LookupMiss(c) \/ CloseFlow(c)
    BY <2>1, <2>2 DEF Xdp, ReceiveInspected, ReceiveTruncated, ReceivePassed, ReceiveUnsupported,
                CheckSubnet, Refresh, InsertAllowed, ForgetBucket, TakeBucket, SettleCharged,
                SettleUncharged, AtStage
  <2>4. ~CloseFlow(c)
    <3>1. [job[c] EXCEPT !.at = "forget"] \in Job
      BY <2>1 DEF Job, JobRecord, Stage
    <3> QED BY <2>1, <3>1, ContinueMeans DEF CloseFlow
  <2>5. allow[s].key \in FlowKey /\ job[c].direction \in TraficDirection
    BY <2>1 DEF TypeOK, AllowListState, Job, JobRecord
  <2>6. ASSUME job[c].direction = "Incoming" PROVE s \in HoldersOf(KeyOf(job[c]))
    <3>1. \A k \in FlowKey : k = [source |-> k.source, destination |-> k.destination, protocol |-> k.protocol]
      BY DEF FlowKey, flow_key_direction
    <3> QED BY <2>5, <2>6, <3>1 DEF KeyOf, flow_key_direction, HoldersOf
  <2>7. CASE LookupMiss(c)
    <3>1. [job[c] EXCEPT !.at = "insert", !.now = clock] \in Job
      BY <2>1 DEF Job, JobRecord, Stage, TypeOK
    <3>2. job[c].direction = "Incoming" /\ HoldersOf(KeyOf(job[c])) = {}
      BY <2>1, <2>7, <3>1, ContinueMeans DEF LookupMiss
    <3> QED BY <2>6, <3>2
  <2>8. CASE LookupHit(c)
    <3>1. PICK h \in HoldersOf(KeyOf(job[c])) :
            IF job[c].direction = "Incoming" /\ allow[h].action # "Allow"
            THEN Fail(c, job[c], "DeniedByPolicy")
            ELSE Continue(c, [job[c] EXCEPT !.at = "refresh", !.now = clock, !.slot = h,
                                            !.granted = KeyOf(job[c]) \in opened])
      BY <2>8 DEF LookupHit
    <3>2. [job[c] EXCEPT !.at = "refresh", !.now = clock, !.slot = h,
                         !.granted = KeyOf(job[c]) \in opened] \in Job
      <4> DEFINE g == KeyOf(job[c]) \in opened
      <4>1. g \in BOOLEAN /\ h \in Slot
        BY DEF HoldersOf
      <4> HIDE DEF g
      <4>2. [job[c] EXCEPT !.at = "refresh", !.now = clock, !.slot = h, !.granted = g] \in Job
        BY <2>1, <4>1 DEF Job, JobRecord, Stage, TypeOK
      <4> QED BY <4>2 DEF g
    <3>3. job[c].direction = "Incoming" /\ allow[h].action # "Allow"
      BY <2>1, <3>1, <3>2, ContinueMeans
    <3>4. h = s
      BY <2>1, <2>6, <3>3 DEF UniqueKeys, HoldersOf
    <3> QED BY <3>3, <3>4
  <2> QED BY <2>3, <2>4, <2>7, <2>8
<1> QED BY <1>1, StateInvariant, PTL DEF Spec, RepliesMeetTheirFlow

(* A denied flow is opened again by an administrator, or by a frame whose   *)
(* lookup had found no entry, and by nothing else.                          *)
THEOREM DenyStays == Spec => DenyIsKept
<1> DEFINE Step == \A c \in Cpu, k \in FlowKey :
                     job'[c] # job[c] /\ HeldAs(k, "Deny") /\ HeldAs(k, "Allow")' =>
                        job[c].at = "insert" /\ KeyOf(job[c]) = k
<1>1. StateInv /\ [Next]_vars => [Step]_vars
  <2> SUFFICES ASSUME StateInv, [Next]_vars, NEW c \in Cpu, NEW k \in FlowKey,
                      job'[c] # job[c], HeldAs(k, "Deny"), HeldAs(k, "Allow")'
               PROVE  job[c].at = "insert" /\ KeyOf(job[c]) = k
    OBVIOUS
  <2>1. TypeOK /\ UniqueKeys /\ Xdp(c)
    BY JobStep DEF StateInv
  <2>2. PICK s \in Slot : allow'[s] # Absent /\ allow'[s].key = k /\ allow'[s].action = "Allow"
    BY DEF HeldAs, HoldersOf
  <2>3. ~(allow[s] # Absent /\ allow[s].key = k /\ allow[s].action = "Allow")
    BY <2>1 DEF HeldAs, HoldersOf, UniqueKeys
  <2>4. CASE Refresh(c)
    <3>1. /\ allow'[s] # Absent => allow[s] # Absent
          /\ allow[s] # Absent => allow'[s].key = allow[s].key /\ allow'[s].action = allow[s].action
      BY <2>1, <2>4 DEF Refresh, TypeOK, AllowListState
    <3> QED BY <2>2, <2>3, <3>1
  <2>5. CASE CloseFlow(c)
    BY <2>2, <2>3, <2>5 DEF CloseFlow, RemoveEntry
  <2>6. CASE InsertAllowed(c)
    <3>1. job[c].at = "insert"
      BY <2>6 DEF InsertAllowed, AtStage
    <3>2. CASE UNCHANGED allow
      BY <2>2, <2>3, <3>2
    <3>3. CASE InsertEntry(KeyOf(job[c]), "Allow", job[c].now, job[c].packet.ingress \in Inside)
      <4>1. PICK t \in Slot :
              allow' = [u \in Slot |->
                          IF u = t THEN [key |-> KeyOf(job[c]), action |-> "Allow",
                                         last_seen |-> job[c].now]
                          ELSE IF u \in HoldersOf(KeyOf(job[c])) THEN Absent ELSE allow[u]]
        BY <3>3 DEF InsertEntry, LruCandidates, FreeSlots
      <4> QED BY <2>2, <2>3, <3>1, <4>1
    <3> QED BY <2>6, <3>2, <3>3 DEF InsertAllowed
  <2>7. CASE UNCHANGED allow
    BY <2>2, <2>3, <2>7
  <2> QED BY <2>1, <2>4, <2>5, <2>6, <2>7
          DEF Xdp, ReceiveInspected, ReceiveTruncated, ReceivePassed, ReceiveUnsupported,
              CheckSubnet, LookupHit, LookupMiss, ForgetBucket, TakeBucket, SettleCharged,
              SettleUncharged
<1> QED BY <1>1, StateInvariant, PTL DEF Spec, DenyIsKept
(***************************************************************************)
(* The cleanup task                                                         *)
(***************************************************************************)
(* The time the task read is past while it waits for the lock. *)
CleanerIsPast == cleaner # Absent => cleaner <= clock

LEMMA CleanerStep ==
    ASSUME TypeOK, [Next]_vars, CleanerIsPast PROVE CleanerIsPast'
<1>1. clock \in Nat /\ cleaner \in Nat \cup {Absent} /\ Absent \notin Nat
  BY AbsentAssumption DEF TypeOK
<1>2. CASE Tick
  BY <1>1, <1>2 DEF Tick, CleanerIsPast
<1>3. CASE CleanupWake
  BY <1>1, <1>3 DEF CleanupWake, CleanerIsPast
<1>4. CASE ReleaseLock
  BY <1>1, <1>4 DEF ReleaseLock, CleanerIsPast
<1>5. CASE UNCHANGED <<clock, cleaner>>
  BY <1>5 DEF CleanerIsPast
<1>6. ASSUME NEW c \in Cpu, Xdp(c) PROVE UNCHANGED <<clock, cleaner>>
  BY <1>6 DEF Xdp, ReceiveInspected, ReceiveTruncated, ReceivePassed, ReceiveUnsupported,
              CheckSubnet, LookupHit, LookupMiss, Refresh, InsertAllowed, CloseFlow, ForgetBucket,
              TakeBucket, SettleCharged, SettleUncharged, userVars
<1> QED BY <1>2, <1>3, <1>4, <1>5, <1>6
        DEF Next, vars, Userspace, SetConfig, SetSubnet, modify_allow_list, clear_allow_list_key,
            clear_allow_list_all, modify_packet_counts, clear_packet_counts, RemoveDoomed,
            CleanupCollect

(* Only the collection of the idle keys takes the lock for the cleanup task. *)
LEMMA CollectStep ==
    ASSUME [Next]_vars, lock = Absent, lock' # Absent, lock'.by = "cleanup" PROVE CleanupCollect
<1>1. lock' # lock
  OBVIOUS
<1>2. ASSUME NEW c \in Cpu, Xdp(c) PROVE lock' = lock
  BY <1>2 DEF Xdp, ReceiveInspected, ReceiveTruncated, ReceivePassed, ReceiveUnsupported,
              CheckSubnet, LookupHit, LookupMiss, Refresh, InsertAllowed, CloseFlow, ForgetBucket,
              TakeBucket, SettleCharged, SettleUncharged, userVars
<1> QED BY <1>1, <1>2
        DEF Next, vars, Userspace, Tick, SetConfig, SetSubnet, modify_allow_list,
            clear_allow_list_key, clear_allow_list_all, modify_packet_counts, clear_packet_counts,
            RemoveDoomed, CleanupWake, ReleaseLock

(* The cleanup task selects no entry that is younger than the limit, however *)
(* long it waited for the lock.                                             *)
THEOREM SelectedEntriesAreOld == Spec => CleanupSelectsOnlyOld
<1> DEFINE Step == \A s \in Slot : CleanupSelects(s) => clock - allow[s].last_seen > IdleLimit
<1>1. StateInv /\ CleanerIsPast /\ [Next]_vars => [Step]_vars
  <2> SUFFICES ASSUME StateInv, CleanerIsPast, [Next]_vars, NEW s \in Slot, CleanupSelects(s)
               PROVE  clock - allow[s].last_seen > IdleLimit
    OBVIOUS
  <2>1. CleanupCollect
    BY CollectStep DEF CleanupSelects
  <2>2. PICK t \in Slot : allow[t] # Absent /\ IsIdle(allow[t], cleaner) /\ allow[t].key = allow[s].key
    BY <2>1 DEF CleanupCollect, CleanupSelects
  <2>3. t = s
    BY <2>2 DEF StateInv, UniqueKeys, CleanupSelects
  <2>4. /\ clock \in Nat /\ cleaner \in Nat /\ cleaner <= clock /\ IdleLimit \in Nat
        /\ allow[s].last_seen \in Nat
    BY <2>1, <2>2, <2>3, BoundAssumption DEF StateInv, TypeOK, CleanupCollect, CleanerIsPast, AllowListState
  <2> QED BY <2>2, <2>3, <2>4 DEF IsIdle, SaturatingSub
<1>2. Init => CleanerIsPast
  BY DEF Init, CleanerIsPast
<1>3. TypeOK /\ [Next]_vars /\ CleanerIsPast => CleanerIsPast'
  BY CleanerStep
<1> QED BY <1>1, <1>2, <1>3, StateInvariant, TypeCorrect, PTL DEF Spec, CleanupSelectsOnlyOld
================================================================================
