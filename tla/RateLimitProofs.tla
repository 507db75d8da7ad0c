---------------------------- MODULE RateLimitProofs -----------------------------
(***************************************************************************)
(* What the token bucket promises of a flow, proved of PacketFilter: never  *)
(* more than the profile allows where the read, the charge and the write    *)
(* back of a bucket are not interleaved, and never less than a frame per    *)
(* period, interleaved or not.                                              *)
(***************************************************************************)
EXTENDS PacketFilterProofs, FiniteSetTheorems

USE ConfigAssumption, PacketAssumption, AdminAssumption, BoundAssumption,
    ModulusAssumption, AbsentAssumption

(***************************************************************************)
(* The circumstances of the rate bound                                      *)
(***************************************************************************)
InFlight(c, k) == AtStage(c, "settle") /\ KeyOf(job[c]) = k

(* No two CPUs hold copies of one bucket.  PacketFilter_race is what happens *)
(* when they do.                                                            *)
SerialFlows == \A c, d \in Cpu, k \in FlowKey : InFlight(c, k) /\ InFlight(d, k) => c = d

(* The insert of the charged copy, whose result the code ignores, succeeds. *)
IsStored(c) == counts'[KeyOf(job[c])] = Charge(job[c].bucket, active_profile(job[c]), job[c].now)
ChargesAreStored == [][\A c \in Cpu : SettleCharged(c) => IsStored(c)]_vars

(* An administrator writes no bucket of the future, and none of a flow whose *)
(* bucket a CPU holds a copy of.                                             *)
IsTimely(k, b) == b.last_update <= clock /\ \A c \in Cpu : ~InFlight(c, k)
BucketsAreTimely ==
    [][\A k \in FlowKey, b \in AdminBucket : modify_packet_counts(k, b) => IsTimely(k, b)]_vars

(* Configurations come and go, but the rates stay. *)
PeriodsStay == [][\A k \in FlowKey : Period(k)' = Period(k)]_vars

Undisturbed == []SerialFlows /\ ChargesAreStored /\ BucketsAreTimely /\ PeriodsStay

(***************************************************************************)
(* Arithmetic of one bucket                                                 *)
(***************************************************************************)
LEMMA DivisionBounds ==
    ASSUME NEW x \in Nat, NEW p \in Nat \ {0}
    PROVE  x \div p \in Nat /\ (x \div p) * p <= x /\ x < (x \div p) * p + p
OBVIOUS

LEMMA RemainderBounds ==
    ASSUME NEW x \in Nat, NEW m \in Nat \ {0}
    PROVE  x % m \in Nat /\ x % m <= x /\ (x < m => x % m = x)
OBVIOUS

LEMMA ProductGrows ==
    ASSUME NEW a \in Nat, NEW b \in Nat, NEW p \in Nat, a <= b PROVE a * p <= b * p
OBVIOUS

LEMMA ProductCovers == ASSUME NEW a \in Nat, NEW p \in Nat \ {0} PROVE a <= a * p
<1>1. PICK q \in Nat : p = q + 1
  <2>1. p - 1 \in Nat /\ p = (p - 1) + 1
    OBVIOUS
  <2> QED BY <2>1
<1>2. a * (q + 1) = a * q + a /\ a * q \in Nat
  OBVIOUS
<1> QED BY <1>1, <1>2

(* What a refill generates is paid for by the time it lets pass. *)
LEMMA GeneratedBounds ==
    ASSUME NEW b \in TokenBucketState, NEW p \in RateProfile, NEW now \in Nat
    PROVE  /\ Generated(b, p, now) \in Nat
           /\ b.last_update <= now => Generated(b, p, now) * p.period <= now - b.last_update
           /\ Generated(b, p, now) <= now
           /\ Generated(b, p, now) = 0 => now - b.last_update < p.period
<1> DEFINE x == SaturatingSub(now, b.last_update)
           g == x \div p.period
<1>1. p.period \in Nat \ {0} /\ b.last_update \in Nat
  BY DEF RateProfile, TokenBucketState
<1>2. /\ x \in Nat /\ x <= now /\ now - b.last_update <= x
      /\ b.last_update <= now => x = now - b.last_update
  BY <1>1 DEF SaturatingSub
<1> HIDE DEF x
<1>3. g \in Nat /\ g * p.period <= x /\ x < g * p.period + p.period
  BY <1>1, <1>2, DivisionBounds
<1>4. Generated(b, p, now) = g
  BY DEF Generated, x
<1> HIDE DEF g
<1>5. g <= g * p.period
  BY <1>1, <1>3, ProductCovers
<1>6. g = 0 => g * p.period = 0
  BY <1>1
<1>7. /\ b.last_update <= now => g * p.period <= now - b.last_update
      /\ g <= now
  BY <1>1, <1>2, <1>3, <1>5
<1>8. g = 0 => now - b.last_update < p.period
  BY <1>1, <1>2, <1>3, <1>6
<1> QED BY <1>3, <1>4, <1>7, <1>8

(* The tokens a refill leaves, and where it leaves the clock of the bucket. *)
LEMMA RefillBounds ==
    ASSUME NEW b \in TokenBucketState, NEW p \in RateProfile, NEW now \in Nat
    PROVE  /\ Refill(b, p, now) \in TokenBucketState
           /\ Refill(b, p, now).tokens <= b.tokens + Generated(b, p, now)
           /\ Generated(b, p, now) = 0 => Refill(b, p, now) = b
           /\ Generated(b, p, now) > 0 => /\ Refill(b, p, now).last_update = now
                                          /\ Refill(b, p, now).tokens <= p.burst
           /\ Generated(b, p, now) > 0 /\ p.burst > 0 /\ b.tokens + Generated(b, p, now) < Modulus =>
                 Refill(b, p, now).tokens > 0
<1> DEFINE g == Generated(b, p, now)
           t == b.tokens + g
           r == t % Modulus
<1>1. g \in Nat /\ b.tokens \in Nat /\ p.burst \in Nat
  BY GeneratedBounds DEF TokenBucketState, RateProfile
<1>2. Refill(b, p, now) \in TokenBucketState
  BY RefillType
<1>3. Refill(b, p, now) = IF g > 0 THEN [tokens |-> Lesser(r, p.burst), last_update |-> now] ELSE b
  BY DEF Refill
<1> HIDE DEF g
<1>4. t \in Nat /\ t >= b.tokens /\ (g > 0 => t > 0)
  BY <1>1
<1>5. r \in Nat /\ r <= t /\ (t < Modulus => r = t)
  BY <1>4, RemainderBounds
<1> HIDE DEF t, r
<1>6. /\ Lesser(r, p.burst) <= r /\ Lesser(r, p.burst) <= p.burst
      /\ r > 0 /\ p.burst > 0 => Lesser(r, p.burst) > 0
  BY <1>1, <1>5 DEF Lesser
<1>7. CASE g > 0
  <2>1. Refill(b, p, now).tokens = Lesser(r, p.burst) /\ Refill(b, p, now).last_update = now
    BY <1>3, <1>7
  <2>2. Lesser(r, p.burst) \in Nat
    BY <1>1, <1>5 DEF Lesser
  <2>3. Lesser(r, p.burst) <= t
    BY <1>4, <1>5, <1>6, <2>2
  <2>4. p.burst > 0 /\ t < Modulus => Lesser(r, p.burst) > 0
    BY <1>4, <1>5, <1>6, <1>7
  <2> QED BY <1>2, <1>6, <1>7, <2>1, <2>3, <2>4 DEF g, t
<1>8. CASE g = 0
  BY <1>1, <1>2, <1>3, <1>4, <1>8 DEF g, t
<1> QED BY <1>1, <1>7, <1>8

(***************************************************************************)
(* At most the profile: the rate bound                                      *)
(***************************************************************************)
(* What has been charged and what is left in the bucket were credited or    *)
(* have taken their time.                                                   *)
IsCovered(m, b, period) ==
    (m.charged + b.tokens) * period <= m.credit * period + (b.last_update - m.since)

MeterAfter(m, b, p, now) == IF Passes(b, p, now) THEN Charged(m, now) ELSE m

LEMMA RefillIsCovered ==
    ASSUME NEW m \in Meter, NEW b \in TokenBucketState, NEW p \in RateProfile, NEW now \in Nat,
           b.last_update <= now, IsCovered(m, b, p.period)
    PROVE  IsCovered(m, Refill(b, p, now), p.period) /\ Refill(b, p, now).last_update <= now
<1> DEFINE g == Generated(b, p, now)
           r == Refill(b, p, now)
<1>1. /\ m.charged \in Nat /\ m.credit \in Nat /\ m.since \in Nat /\ p.period \in Nat \ {0}
      /\ b.tokens \in Nat /\ b.last_update \in Nat
  BY DEF Meter, RateProfile, TokenBucketState
<1>2. g \in Nat /\ g * p.period <= now - b.last_update
  BY GeneratedBounds
<1>3. r \in TokenBucketState /\ r.tokens \in Nat /\ r.tokens <= b.tokens + g
  BY RefillBounds DEF TokenBucketState
<1>4. CASE g = 0
  BY <1>4, RefillBounds
<1>5. CASE g > 0
  <2>1. r.last_update = now
    BY <1>5, RefillBounds
  <2> HIDE DEF r, g
  <2>2. (m.charged + r.tokens) * p.period <= (m.charged + (b.tokens + g)) * p.period
    BY <1>1, <1>2, <1>3, ProductGrows
  <2>3. (m.charged + (b.tokens + g)) * p.period = (m.charged + b.tokens) * p.period + g * p.period
    BY <1>1, <1>2
  <2> DEFINE paid == (m.charged + b.tokens) * p.period
             gained == g * p.period
             spent == (m.charged + r.tokens) * p.period
             credit == m.credit * p.period
  <2>4. paid \in Nat /\ gained \in Nat /\ spent \in Nat /\ credit \in Nat
    BY <1>1, <1>2, <1>3
  <2>5. /\ spent <= paid + gained /\ gained <= now - b.last_update
        /\ paid <= credit + (b.last_update - m.since)
    BY <1>2, <2>2, <2>3 DEF IsCovered
  <2>6. IsCovered(m, r, p.period) <=> spent <= credit + (now - m.since)
    BY <2>1 DEF IsCovered
  <2> HIDE DEF paid, gained, spent, credit
  <2>7. IsCovered(m, r, p.period)
    BY <1>1, <2>4, <2>5, <2>6
  <2> QED BY <2>1, <2>7 DEF r
<1> QED BY <1>2, <1>4, <1>5

LEMMA ChargeIsCovered ==
    ASSUME NEW m \in Meter, NEW b \in TokenBucketState, NEW p \in RateProfile, NEW now \in Nat,
           b.last_update <= now, IsCovered(m, b, p.period)
    PROVE  /\ IsCovered(MeterAfter(m, b, p, now), Charge(b, p, now), p.period)
           /\ Charge(b, p, now).last_update <= now
<1> DEFINE r == Refill(b, p, now)
<1>1. r \in TokenBucketState /\ r.tokens \in Nat /\ m.charged \in Nat
  BY RefillBounds DEF TokenBucketState, Meter
<1>2. IsCovered(m, r, p.period) /\ r.last_update <= now
  BY RefillIsCovered
<1>3. CASE Passes(b, p, now)
  <2>1. r.tokens > 0
    BY <1>3 DEF Passes
  <2>2. Charge(b, p, now).tokens = r.tokens - 1 /\ Charge(b, p, now).last_update = r.last_update
    BY <1>1, <2>1 DEF Charge, TokenBucketState
  <2>3. /\ Charged(m, now).charged = m.charged + 1
        /\ Charged(m, now).credit = m.credit /\ Charged(m, now).since = m.since
    BY DEF Charged, Meter
  <2>4. (m.charged + 1) + (r.tokens - 1) = m.charged + r.tokens
    BY <1>1
  <2> HIDE DEF r
  <2> QED BY <1>2, <1>3, <2>2, <2>3, <2>4 DEF IsCovered, MeterAfter
<1>4. CASE ~Passes(b, p, now)
  <2>1. Charge(b, p, now) = r
    BY <1>4 DEF Charge, Passes
  <2> QED BY <1>2, <1>4, <2>1 DEF MeterAfter
<1> QED BY <1>3, <1>4

(* What is covered is within the bound. *)
LEMMA CoveredIsBounded ==
    ASSUME NEW m \in Meter, NEW b \in TokenBucketState, NEW period \in Nat, NEW t \in Nat,
           IsCovered(m, b, period), b.last_update <= t
    PROVE  m.charged * period <= m.credit * period + (t - m.since)
<1>1. /\ m.charged \in Nat /\ m.credit \in Nat /\ m.since \in Nat
      /\ b.tokens \in Nat /\ b.last_update \in Nat
  BY DEF Meter, TokenBucketState
<1>2. m.charged * period <= (m.charged + b.tokens) * period
  BY <1>1, ProductGrows
<1> DEFINE x == m.charged * period
           y == (m.charged + b.tokens) * period
           z == m.credit * period
<1>3. x \in Nat /\ y \in Nat /\ z \in Nat
  BY <1>1
<1>4. y <= z + (b.last_update - m.since)
  BY DEF IsCovered
<1> HIDE DEF x, y, z
<1>5. x <= y
  BY <1>2 DEF x, y
<1>6. x <= z + (t - m.since)
  BY <1>1, <1>3, <1>4, <1>5
<1> QED BY <1>6 DEF x, z

(***************************************************************************)
(* What a step does to buckets, meters and copies                           *)
(***************************************************************************)
LEMMA PeriodOfKey ==
    ASSUME TypeOK, NEW j \in Job
    PROVE  active_profile(j) \in RateProfile /\ active_profile(j).period = Period(KeyOf(j))
<1>1. KeyOf(j).protocol = j.packet.protocol
  BY DEF KeyOf, flow_key_direction
<1> QED BY <1>1, ActiveProfileType DEF active_profile, Period

LEMMA PeriodType == ASSUME TypeOK, NEW k \in FlowKey PROVE Period(k) \in Nat \ {0}
<1>1. k.protocol \in Protocol
  BY DEF FlowKey, flow_key_direction, Frame
<1>2. config.profiles \in [ProfileName -> RateProfile]
  BY DEF TypeOK, FirewallConfig
<1> QED BY <1>1, <1>2, ProfileOfType DEF Period, RateProfile

(* What TypeOK says of a copy, and of a bucket in the map. *)
LEMMA CopyType ==
    ASSUME TypeOK, NEW c \in Cpu, AtStage(c, "settle")
    PROVE  /\ job[c] \in Job /\ KeyOf(job[c]) \in FlowKey
           /\ job[c].bucket \in TokenBucketState /\ job[c].now \in Nat
           /\ meter[KeyOf(job[c])] \in Meter
<1>1. job[c] \in Job /\ KeyOf(job[c]) \in FlowKey
  BY AtStageType
<1>2. job[c].bucket \in TokenBucketState /\ job[c].now \in Nat
  BY <1>1 DEF Job, JobRecord, AtStage
<1> QED BY <1>1, <1>2 DEF TypeOK

LEMMA InsertBucketMeans ==
    ASSUME TypeOK, NEW k \in FlowKey, NEW b, InsertBucket(k, b)
    PROVE  /\ counts'[k] = b
           /\ \A j \in FlowKey \ {k} : counts'[j] # Absent => counts'[j] = counts[j]
BY DEF InsertBucket, Counted, TypeOK

(* A step that charges nothing: buckets only go, and no copy is taken. *)
Lull ==
    /\ UNCHANGED meter
    /\ clock' \in Nat /\ clock <= clock' /\ (clock' = clock \/ clock' <= MaxTime)
    /\ \A k \in FlowKey : counts'[k] # Absent => counts'[k] = counts[k]
    /\ \A c \in Cpu : AtStage(c, "settle")' => job'[c] = job[c]

LEMMA LullOfContinue ==
    ASSUME TypeOK, NEW c \in Cpu, NEW j, Continue(c, j), j.at # "settle",
           UNCHANGED <<meter, counts, clock>>
    PROVE  Lull
BY DEF Lull, Continue, AtStage, TypeOK

LEMMA LullOfEmit ==
    ASSUME TypeOK, NEW c \in Cpu, NEW j, NEW v, NEW to, Emit(c, j, v, to),
           UNCHANGED <<meter, clock>>,
           \A k \in FlowKey : counts'[k] # Absent => counts'[k] = counts[k]
    PROVE  Lull
BY DEF Lull, Emit, AtStage, TypeOK

LEMMA LullOfUser ==
    ASSUME TypeOK, UNCHANGED <<meter, clock, job>>,
           \A k \in FlowKey : counts'[k] # Absent => counts'[k] = counts[k]
    PROVE  Lull
BY DEF Lull, AtStage, TypeOK

LEMMA XdpKinds ==
    ASSUME TypeOK, NEW c \in Cpu, Xdp(c) PROVE Lull \/ TakeBucket(c) \/ SettleCharged(c)
<1>1. ASSUME NEW p \in Packet,
             \/ ReceiveInspected(c, p) \/ ReceiveTruncated(c, p)
             \/ ReceivePassed(c, p) \/ ReceiveUnsupported(c, p)
      PROVE  Lull
  <2>1. NewJob(p).at # "settle"
    BY DEF NewJob
  <2> QED BY <1>1, <2>1, LullOfContinue, LullOfEmit
          DEF ReceiveInspected, ReceiveTruncated, ReceivePassed, ReceiveUnsupported, Fail
<1>2. ASSUME NEW stage, AtStage(c, stage)
      PROVE  /\ \A n, s, g : [job[c] EXCEPT !.at = "refresh", !.now = n, !.slot = s,
                                            !.granted = g].at = "refresh"
             /\ \A n : [job[c] EXCEPT !.at = "insert", !.now = n].at = "insert"
             /\ [job[c] EXCEPT !.at = "take", !.slot = Absent].at = "take"
             /\ \A x \in {"lookup", "take", "forget"} : [job[c] EXCEPT !.at = x].at = x
  <2>1. job[c] \in JobRecord
    BY <1>2, AtStageType DEF Job
  <2> QED BY <2>1 DEF JobRecord
<1>3. CASE CheckSubnet(c)
  <2>1. [job[c] EXCEPT !.at = "lookup"].at # "settle"
    BY <1>2, <1>3 DEF CheckSubnet
  <2> QED BY <1>3, <2>1, LullOfContinue, LullOfEmit DEF CheckSubnet, Fail
<1>4. CASE LookupHit(c)
  <2>1. PICK s \in HoldersOf(KeyOf(job[c])) :
           \/ Fail(c, job[c], "DeniedByPolicy")
           \/ Continue(c, [job[c] EXCEPT !.at = "refresh", !.now = clock, !.slot = s,
                                         !.granted = KeyOf(job[c]) \in opened])
    BY <1>4 DEF LookupHit
  <2> DEFINE j == [job[c] EXCEPT !.at = "refresh", !.now = clock, !.slot = s,
                                 !.granted = KeyOf(job[c]) \in opened]
  <2>2. j.at # "settle"
    BY <1>2, <1>4 DEF LookupHit
  <2>3. UNCHANGED <<meter, counts, clock>>
    BY <1>4 DEF LookupHit
  <2>4. Continue(c, j) => Lull
    <3> HIDE DEF j
    <3> QED BY <2>2, <2>3, LullOfContinue
  <2> QED BY <2>1, <2>3, <2>4, LullOfEmit DEF Fail
<1>5. CASE LookupMiss(c)
  <2>1. [job[c] EXCEPT !.at = "insert", !.now = clock].at # "settle"
    BY <1>2, <1>5 DEF LookupMiss
  <2> QED BY <1>5, <2>1, LullOfContinue, LullOfEmit DEF LookupMiss, Fail
<1>6. CASE Refresh(c)
  <2>1. [job[c] EXCEPT !.at = "take", !.slot = Absent].at # "settle"
    BY <1>2, <1>6 DEF Refresh
  <2> QED BY <1>6, <2>1, LullOfContinue DEF Refresh
<1>7. CASE InsertAllowed(c)
  <2>1. [job[c] EXCEPT !.at = "take"].at # "settle"
    BY <1>2, <1>7 DEF InsertAllowed
  <2> QED BY <1>7, <2>1, LullOfContinue DEF InsertAllowed
<1>8. CASE CloseFlow(c)
  <2>1. [job[c] EXCEPT !.at = "forget"].at # "settle"
    BY <1>2, <1>8 DEF CloseFlow
  <2> QED BY <1>8, <2>1, LullOfContinue DEF CloseFlow
<1>9. CASE ForgetBucket(c)
  <2>1. \A k \in FlowKey : counts'[k] # Absent => counts'[k] = counts[k]
    BY <1>9 DEF ForgetBucket, RemoveBucket, TypeOK
  <2> QED BY <1>9, <2>1, LullOfEmit DEF ForgetBucket, Forward
<1>10. CASE SettleUncharged(c)
  BY <1>10, LullOfEmit DEF SettleUncharged, Forward
<1> QED BY <1>1, <1>3, <1>4, <1>5, <1>6, <1>7, <1>8, <1>9, <1>10 DEF Xdp

LEMMA StepKinds ==
    ASSUME TypeOK, [Next]_vars
    PROVE  \/ Lull
           \/ config' = config /\ \E c \in Cpu : TakeBucket(c) \/ SettleCharged(c)
           \/ config' = config /\ \E k \in FlowKey, b \in AdminBucket : modify_packet_counts(k, b)
<1>1. CASE \E c \in Cpu : Xdp(c)
  BY <1>1, XdpKinds DEF TakeBucket, SettleCharged, userVars
<1>2. CASE Tick
  BY <1>2 DEF Tick, Lull, AtStage, TypeOK
<1>3. CASE UNCHANGED vars
  BY <1>3, LullOfUser DEF vars
<1>4. CASE Userspace
  <2>1. CASE \E k \in FlowKey, b \in AdminBucket : modify_packet_counts(k, b)
    BY <2>1 DEF modify_packet_counts
  <2>2. ASSUME NEW k \in FlowKey, clear_packet_counts(k) PROVE Lull
    BY <2>2, LullOfUser DEF clear_packet_counts, RemoveBucket, TypeOK
  <2>3. CASE UNCHANGED <<meter, clock, job, counts>>
    BY <2>3, LullOfUser
  <2> QED BY <1>4, <2>1, <2>2, <2>3
          DEF Userspace, SetConfig, SetSubnet, modify_allow_list, clear_allow_list_key, RemoveDoomed,
              clear_allow_list_all, CleanupWake, CleanupCollect, ReleaseLock
<1> QED BY <1>1, <1>2, <1>3, <1>4 DEF Next

(***************************************************************************)
(* The inductive invariant of the rate bound                                *)
(***************************************************************************)
IsBounded(k) == meter[k].charged * Period(k) <= meter[k].credit * Period(k) + (clock - meter[k].since)

BucketIsCovered(k) ==
    counts[k] # Absent =>
        IsCovered(meter[k], counts[k], Period(k)) /\ counts[k].last_update <= clock

CopyIsCovered(c) ==
    AtStage(c, "settle") =>
        /\ IsCovered(meter[KeyOf(job[c])], job[c].bucket, Period(KeyOf(job[c])))
        /\ job[c].bucket.last_update <= job[c].now /\ job[c].now <= clock

BudgetInv ==
    /\ \A k \in FlowKey : IsBounded(k) /\ BucketIsCovered(k)
    /\ \A c \in Cpu : CopyIsCovered(c)

LEMMA BudgetAtStart == Init => BudgetInv
<1> SUFFICES ASSUME Init PROVE BudgetInv
  OBVIOUS
<1>1. TypeOK
  BY InitType
<1>2. ASSUME NEW k \in FlowKey PROVE IsBounded(k) /\ BucketIsCovered(k)
  <2>1. 0 * Period(k) = 0
    BY <1>1, PeriodType
  <2> QED BY <2>1 DEF Init, IsBounded, BucketIsCovered
<1>3. ASSUME NEW c \in Cpu PROVE CopyIsCovered(c)
  BY DEF Init, CopyIsCovered, AtStage
<1> QED BY <1>2, <1>3 DEF BudgetInv

(* More time only helps. *)
LEMMA LullKeepsBudget ==
    ASSUME TypeOK, TypeOK', BudgetInv, Lull, \A k \in FlowKey : Period(k)' = Period(k)
    PROVE  BudgetInv'
<1>1. ASSUME NEW k \in FlowKey PROVE IsBounded(k)'
  <2> DEFINE x == meter[k].charged * Period(k)
             y == meter[k].credit * Period(k)
  <2>1. x' = x /\ y' = y /\ meter' = meter /\ clock <= clock'
    BY DEF Lull
  <2>2. meter[k].since \in Nat /\ clock \in Nat /\ clock' \in Nat /\ x \in Nat /\ y \in Nat
    BY PeriodType DEF TypeOK, Meter
  <2>3. x <= y + (clock - meter[k].since)
    BY DEF BudgetInv, IsBounded
  <2> SUFFICES x' <= y' + (clock' - meter'[k].since)
    BY DEF IsBounded
  <2> HIDE DEF x, y
  <2> QED BY <2>1, <2>2, <2>3
<1>2. ASSUME NEW k \in FlowKey, (counts[k] # Absent)' PROVE BucketIsCovered(k)'
  <2>1. counts'[k] = counts[k] /\ meter' = meter /\ clock <= clock'
    BY <1>2 DEF Lull
  <2>2. counts[k].last_update \in Nat /\ clock \in Nat /\ clock' \in Nat
    BY <1>2, <2>1 DEF TypeOK, TokenBucketState
  <2>3. IsCovered(meter[k], counts[k], Period(k)) /\ counts[k].last_update <= clock
    BY <1>2, <2>1 DEF BudgetInv, BucketIsCovered
  <2> QED BY <2>1, <2>2, <2>3 DEF BucketIsCovered, IsCovered
<1>3. ASSUME NEW c \in Cpu, AtStage(c, "settle")' PROVE CopyIsCovered(c)'
  <2>1. job'[c] = job[c] /\ meter' = meter /\ clock <= clock' /\ AtStage(c, "settle")
    BY <1>3 DEF Lull, AtStage
  <2>2. KeyOf(job[c]) \in FlowKey /\ job[c].now \in Nat /\ clock \in Nat /\ clock' \in Nat
    BY <2>1, CopyType DEF TypeOK
  <2>3. /\ IsCovered(meter[KeyOf(job[c])], job[c].bucket, Period(KeyOf(job[c])))
        /\ job[c].bucket.last_update <= job[c].now /\ job[c].now <= clock
    BY <2>1 DEF BudgetInv, CopyIsCovered
  <2>4. Period(KeyOf(job[c]))' = Period(KeyOf(job[c])) /\ KeyOf(job[c])' = KeyOf(job[c])
    BY <2>1, <2>2 DEF KeyOf, Period
  <2>5. job[c].now <= clock'
    BY <2>1, <2>2, <2>3
  <2> QED BY <2>1, <2>3, <2>4, <2>5 DEF CopyIsCovered, IsCovered
<1> QED BY <1>1, <1>2, <1>3 DEF BudgetInv, BucketIsCovered, CopyIsCovered

(* Of the flows a step leaves alone, everything stays covered. *)
KeepsFlow(k) == meter'[k] = meter[k] /\ (counts'[k] # Absent => counts'[k] = counts[k])

LEMMA OthersStayCovered ==
    ASSUME TypeOK, BudgetInv, UNCHANGED <<clock, config>>, NEW k \in FlowKey, KeepsFlow(k)
    PROVE  IsBounded(k)' /\ BucketIsCovered(k)'
BY DEF BudgetInv, IsBounded, BucketIsCovered, IsCovered, KeepsFlow, Period

LEMMA OtherCopiesStayCovered ==
    ASSUME TypeOK, BudgetInv, UNCHANGED <<clock, config>>,
           NEW d \in Cpu, AtStage(d, "settle"), job'[d] = job[d], meter'[KeyOf(job[d])] = meter[KeyOf(job[d])]
    PROVE  CopyIsCovered(d)'
BY DEF BudgetInv, CopyIsCovered, IsCovered, Period, KeyOf, flow_key_direction

(* What the two steps that handle a copy do, in terms of the lemmas above. *)
LEMMA TakeMeans ==
    ASSUME TypeOK, NEW c \in Cpu, TakeBucket(c)
    PROVE  LET k == KeyOf(job[c])
               full == FullBucket(active_profile(job[c]), clock)
           IN  /\ job[c] \in Job /\ k \in FlowKey /\ full \in TokenBucketState
               /\ \A d \in Cpu \ {c} : job'[d] = job[d]
               /\ AtStage(c, "settle")' /\ KeyOf(job'[c]) = k /\ job'[c].now = clock
               /\ job'[c].bucket = IF counts[k] = Absent THEN full ELSE counts[k]
               /\ UNCHANGED <<clock, config, counts>>
               /\ \A j \in FlowKey \ {k} : meter'[j] = meter[j]
               /\ meter'[k] = IF counts[k] = Absent THEN Restarted(meter[k], full) ELSE meter[k]
<1> DEFINE k == KeyOf(job[c])
           full == FullBucket(active_profile(job[c]), clock)
           b == IF counts[k] = Absent THEN full ELSE counts[k]
<1>1. job[c] \in Job /\ k \in FlowKey
  BY AtStageType DEF TakeBucket
<1>2. full \in TokenBucketState
  BY <1>1, PeriodOfKey DEF FullBucket, TokenBucketState, RateProfile, TypeOK
<1>3. /\ Continue(c, [job[c] EXCEPT !.at = "settle", !.now = clock, !.bucket = b])
      /\ meter' = IF counts[k] = Absent THEN [meter EXCEPT ![k] = Restarted(@, full)] ELSE meter
      /\ UNCHANGED <<clock, config, counts>>
  BY DEF TakeBucket, userVars
<1> HIDE DEF full, b
<1> DEFINE moved == [job[c] EXCEPT !.at = "settle", !.now = clock, !.bucket = b]
<1>4. /\ moved.at = "settle" /\ moved.now = clock /\ moved.bucket = b
      /\ moved.packet = job[c].packet /\ moved.direction = job[c].direction
  BY <1>1 DEF Job, JobRecord
<1>5. b \in TokenBucketState /\ clock \in Nat
  BY <1>1, <1>2 DEF TypeOK, b
<1>6. moved \in Job
  BY <1>1, <1>5 DEF Job, JobRecord, Stage
<1> HIDE DEF moved
<1>7. job' = [job EXCEPT ![c] = moved]
  BY <1>3 DEF Continue, moved
<1>8. job'[c] = moved /\ \A d \in Cpu \ {c} : job'[d] = job[d]
  BY <1>7 DEF TypeOK
<1>9. AtStage(c, "settle")' /\ KeyOf(job'[c]) = k
  BY <1>4, <1>6, <1>8 DEF AtStage, KeyOf
<1>10. /\ \A i \in FlowKey \ {k} : meter'[i] = meter[i]
       /\ meter'[k] = IF counts[k] = Absent THEN Restarted(meter[k], full) ELSE meter[k]
  BY <1>1, <1>3 DEF TypeOK
<1> QED BY <1>1, <1>2, <1>3, <1>4, <1>8, <1>9, <1>10 DEF b, full

LEMMA SettleMeans ==
    ASSUME TypeOK, NEW c \in Cpu, SettleCharged(c)
    PROVE  LET k == KeyOf(job[c])
               p == active_profile(job[c])
           IN  /\ AtStage(c, "settle") /\ k \in FlowKey /\ p \in RateProfile /\ p.period = Period(k)
               /\ job[c].bucket \in TokenBucketState /\ job[c].now \in Nat
               /\ job'[c] = Absent /\ \A d \in Cpu \ {c} : job'[d] = job[d]
               /\ UNCHANGED <<clock, config>>
               /\ meter'[k] = MeterAfter(meter[k], job[c].bucket, p, job[c].now)
               /\ \A j \in FlowKey \ {k} : KeepsFlow(j)
               /\ \/ counts'[k] = Charge(job[c].bucket, p, job[c].now)
                  \/ counts'[k] = counts[k]
<1> DEFINE k == KeyOf(job[c])
           p == active_profile(job[c])
           now == job[c].now
           left == Charge(job[c].bucket, p, now)
<1>1. /\ AtStage(c, "settle") /\ job[c] \in Job /\ k \in FlowKey /\ now \in Nat
      /\ job[c].bucket \in TokenBucketState
  BY CopyType DEF SettleCharged
<1>2. p \in RateProfile /\ p.period = Period(k)
  BY <1>1, PeriodOfKey
<1>3. /\ InsertBucket(k, left) \/ UNCHANGED counts
      /\ meter' = IF Passes(job[c].bucket, p, now) THEN [meter EXCEPT ![k] = Charged(@, now)] ELSE meter
      /\ UNCHANGED <<clock, config>>
  BY DEF SettleCharged, userVars
<1>4. job' = [job EXCEPT ![c] = Absent]
  BY DEF SettleCharged, Forward, Fail, Emit
<1>5. job'[c] = Absent /\ \A d \in Cpu \ {c} : job'[d] = job[d]
  BY <1>4 DEF TypeOK
<1>6. /\ meter'[k] = MeterAfter(meter[k], job[c].bucket, p, now)
      /\ \A j \in FlowKey \ {k} : meter'[j] = meter[j]
  BY <1>1, <1>3 DEF TypeOK, MeterAfter
<1> HIDE DEF left, k, p, now
<1>7. /\ counts'[k] = left \/ counts'[k] = counts[k]
      /\ \A j \in FlowKey \ {k} : counts'[j] # Absent => counts'[j] = counts[j]
  BY <1>1, <1>3, InsertBucketMeans
<1> QED BY <1>1, <1>2, <1>3, <1>5, <1>6, <1>7 DEF KeepsFlow, left, k, p, now

LEMMA TakeKeepsBudget ==
    ASSUME TypeOK, TypeOK', BudgetInv, SerialFlows', NEW c \in Cpu, TakeBucket(c) PROVE BudgetInv'
<1> DEFINE k == KeyOf(job[c])
           full == FullBucket(active_profile(job[c]), clock)
           b == IF counts[k] = Absent THEN full ELSE counts[k]
<1>1. /\ job[c] \in Job /\ k \in FlowKey /\ full \in TokenBucketState
      /\ \A d \in Cpu \ {c} : job'[d] = job[d]
      /\ AtStage(c, "settle")' /\ KeyOf(job'[c]) = k /\ job'[c].now = clock /\ job'[c].bucket = b
      /\ UNCHANGED <<clock, config, counts>>
      /\ \A j \in FlowKey \ {k} : meter'[j] = meter[j]
      /\ meter'[k] = IF counts[k] = Absent THEN Restarted(meter[k], full) ELSE meter[k]
  BY TakeMeans
<1>2. clock \in Nat /\ meter[k] \in Meter /\ meter'[k] \in Meter /\ Period(k) \in Nat \ {0}
  BY <1>1, PeriodType DEF TypeOK
<1>3. full.last_update = clock
  BY DEF FullBucket
<1> HIDE DEF k, full
<1>4. ASSUME counts[k] = Absent
      PROVE  IsCovered(meter'[k], full, Period(k))
  <2>1. /\ meter'[k].charged = 0 /\ meter'[k].credit = full.tokens
        /\ meter'[k].since = full.last_update
    BY <1>1, <1>2, <1>4 DEF Restarted, Meter
  <2>2. full.tokens \in Nat /\ full.last_update \in Nat
    BY <1>1 DEF TokenBucketState
  <2>3. (0 + full.tokens) * Period(k) = full.tokens * Period(k) /\ full.tokens * Period(k) \in Nat
    BY <1>2, <2>2
  <2> QED BY <2>1, <2>2, <2>3 DEF IsCovered
<1>5. IsCovered(meter'[k], b, Period(k)) /\ b.last_update <= clock /\ b \in TokenBucketState
  <2>1. CASE counts[k] = Absent
    BY <1>1, <1>2, <1>3, <1>4, <2>1
  <2>2. CASE counts[k] # Absent
    BY <1>1, <2>2 DEF BudgetInv, BucketIsCovered, TypeOK
  <2> QED BY <2>1, <2>2
<1>6. ASSUME NEW j \in FlowKey PROVE IsBounded(j)' /\ BucketIsCovered(j)'
  <2>1. CASE j # k
    BY <1>1, <2>1, OthersStayCovered DEF KeepsFlow
  <2>2. CASE j = k
    <3>1. meter'[j].charged * Period(j) <= meter'[j].credit * Period(j) + (clock - meter'[j].since)
      <4> HIDE DEF b
      <4> QED BY <1>2, <1>5, <2>2, CoveredIsBounded
    <3>2. counts'[j] # Absent => counts'[j] = b
      BY <1>1, <2>2
    <3> HIDE DEF b
    <3> QED BY <1>1, <1>5, <2>2, <3>1, <3>2 DEF IsBounded, BucketIsCovered, IsCovered, Period
  <2> QED BY <2>1, <2>2
<1>7. ASSUME NEW d \in Cpu, AtStage(d, "settle")' PROVE CopyIsCovered(d)'
  <2>1. CASE d = c
    BY <1>1, <1>2, <1>5, <2>1 DEF CopyIsCovered, IsCovered, Period
  <2>2. CASE d # c
    <3>1. job'[d] = job[d] /\ AtStage(d, "settle")
      BY <1>1, <1>7, <2>2 DEF AtStage
    <3>2. KeyOf(job[d]) \in FlowKey /\ KeyOf(job'[d]) = KeyOf(job[d])
      BY <3>1, CopyType
    <3>3. ASSUME NEW j \in FlowKey, j = k, KeyOf(job[d]) = j PROVE FALSE
      <4>1. InFlight(c, j)' /\ InFlight(d, j)'
        BY <1>1, <1>7, <3>1, <3>3 DEF InFlight
      <4> QED BY <2>2, <4>1 DEF SerialFlows
    <3>4. KeyOf(job[d]) # k
      BY <1>1, <3>3
    <3>5. meter'[KeyOf(job[d])] = meter[KeyOf(job[d])]
      BY <1>1, <3>2, <3>4
    <3> QED BY <1>1, <3>1, <3>5, OtherCopiesStayCovered
  <2> QED BY <2>1, <2>2
<1>8. \A d \in Cpu : CopyIsCovered(d)'
  BY <1>7 DEF CopyIsCovered
<1> QED BY <1>6, <1>8 DEF BudgetInv

LEMMA SettleKeepsBudget ==
    ASSUME TypeOK, TypeOK', BudgetInv, SerialFlows, NEW c \in Cpu, SettleCharged(c), IsStored(c)
    PROVE  BudgetInv'
<1> DEFINE k == KeyOf(job[c])
           p == active_profile(job[c])
           b == job[c].bucket
           now == job[c].now
<1>1. /\ AtStage(c, "settle") /\ k \in FlowKey /\ p \in RateProfile /\ p.period = Period(k)
      /\ b \in TokenBucketState /\ now \in Nat
      /\ job'[c] = Absent /\ \A d \in Cpu \ {c} : job'[d] = job[d]
      /\ UNCHANGED <<clock, config>>
      /\ meter'[k] = MeterAfter(meter[k], b, p, now)
      /\ \A j \in FlowKey \ {k} : KeepsFlow(j)
  BY SettleMeans
<1>2. clock \in Nat /\ meter[k] \in Meter /\ meter'[k] \in Meter /\ Period(k) \in Nat \ {0}
  BY <1>1, PeriodType DEF TypeOK
<1>3. counts'[k] = Charge(b, p, now)
  BY DEF IsStored
<1>4. IsCovered(meter[k], b, p.period) /\ b.last_update <= now /\ now <= clock
  BY <1>1 DEF BudgetInv, CopyIsCovered
<1> HIDE DEF k, p, b, now
<1>5. /\ IsCovered(meter'[k], counts'[k], Period(k)) /\ counts'[k].last_update <= now
      /\ counts'[k] \in TokenBucketState
  BY <1>1, <1>2, <1>3, <1>4, ChargeIsCovered, ChargeType
<1>6. counts'[k].last_update <= clock
  BY <1>1, <1>2, <1>4, <1>5 DEF TokenBucketState
<1>7. ASSUME NEW j \in FlowKey PROVE IsBounded(j)' /\ BucketIsCovered(j)'
  <2>1. CASE j # k
    BY <1>1, <2>1, OthersStayCovered
  <2>2. CASE j = k
    <3>1. meter'[k].charged * Period(k) <= meter'[k].credit * Period(k) + (clock - meter'[k].since)
      BY <1>2, <1>5, <1>6, CoveredIsBounded
    <3> QED BY <1>1, <1>5, <1>6, <2>2, <3>1 DEF IsBounded, BucketIsCovered, IsCovered, Period
  <2> QED BY <2>1, <2>2
<1>8. ASSUME NEW d \in Cpu, AtStage(d, "settle")' PROVE CopyIsCovered(d)'
  <2>1. d # c
    BY <1>1, <1>8 DEF AtStage
  <2>2. job'[d] = job[d] /\ AtStage(d, "settle")
    BY <1>1, <1>8, <2>1 DEF AtStage
  <2>3. KeyOf(job[d]) \in FlowKey
    BY <2>2, CopyType
  <2>4. KeyOf(job[d]) # k
    BY <1>1, <2>1, <2>2 DEF SerialFlows, InFlight, k
  <2>5. meter'[KeyOf(job[d])] = meter[KeyOf(job[d])]
    BY <1>1, <2>3, <2>4 DEF KeepsFlow
  <2> QED BY <1>1, <2>2, <2>5, OtherCopiesStayCovered
<1>9. \A d \in Cpu : CopyIsCovered(d)'
  BY <1>8 DEF CopyIsCovered
<1> QED BY <1>7, <1>9 DEF BudgetInv

LEMMA RewriteKeepsBudget ==
    ASSUME TypeOK, TypeOK', BudgetInv, NEW k \in FlowKey, NEW b \in AdminBucket,
           modify_packet_counts(k, b), IsTimely(k, b)
    PROVE  BudgetInv'
<1>1. b \in TokenBucketState /\ b.tokens \in Nat /\ b.last_update \in Nat /\ b.last_update <= clock
  BY DEF IsTimely, TokenBucketState
<1>2. /\ meter' = [meter EXCEPT ![k] = Rewritten(@, b)] /\ InsertBucket(k, b)
      /\ UNCHANGED <<config, job, clock>>
  BY DEF modify_packet_counts
<1>3. /\ counts'[k] = b
      /\ \A j \in FlowKey \ {k} : KeepsFlow(j)
  BY <1>2, InsertBucketMeans DEF KeepsFlow, TypeOK
<1>4. meter'[k].charged = 0 /\ meter'[k].credit = b.tokens /\ meter'[k].since = b.last_update
  BY <1>2 DEF TypeOK, Rewritten
<1>5. clock \in Nat /\ meter'[k] \in Meter /\ Period(k) \in Nat \ {0}
  BY PeriodType DEF TypeOK
<1>6. IsCovered(meter'[k], b, Period(k))
  <2>1. (0 + b.tokens) * Period(k) = b.tokens * Period(k) /\ b.tokens * Period(k) \in Nat
    BY <1>1, <1>5
  <2> QED BY <1>1, <1>4, <2>1 DEF IsCovered
<1>7. meter'[k].charged * Period(k) <= meter'[k].credit * Period(k) + (clock - meter'[k].since)
  BY <1>1, <1>5, <1>6, CoveredIsBounded
<1>8. ASSUME NEW j \in FlowKey PROVE IsBounded(j)' /\ BucketIsCovered(j)'
  <2>1. CASE j # k
    BY <1>2, <1>3, <2>1, OthersStayCovered
  <2>2. CASE j = k
    BY <1>1, <1>2, <1>3, <1>6, <1>7, <2>2 DEF IsBounded, BucketIsCovered, IsCovered, Period
  <2> QED BY <2>1, <2>2
<1>9. ASSUME NEW d \in Cpu, AtStage(d, "settle")' PROVE CopyIsCovered(d)'
  <2>1. job'[d] = job[d] /\ AtStage(d, "settle")
    BY <1>2, <1>9 DEF AtStage
  <2>2. KeyOf(job[d]) \in FlowKey /\ KeyOf(job[d]) # k
    BY <2>1, CopyType DEF IsTimely, InFlight
  <2>3. meter'[KeyOf(job[d])] = meter[KeyOf(job[d])]
    BY <1>3, <2>2 DEF KeepsFlow
  <2> QED BY <1>2, <2>1, <2>3, OtherCopiesStayCovered
<1>10. \A d \in Cpu : CopyIsCovered(d)'
  BY <1>9 DEF CopyIsCovered
<1> QED BY <1>8, <1>10 DEF BudgetInv

(* The rate bound for any number of CPUs, flows, configurations and any     *)
(* clock, as long as each flow is on one CPU at a time: over the life of a  *)
(* bucket the frames charged are at most its initial tokens and one per     *)
(* whole period since.                                                      *)
THEOREM SerialFlowsAreBounded == Spec /\ Undisturbed => []RateBound
<1> DEFINE Stored == \A c \in Cpu : SettleCharged(c) => IsStored(c)
           Timely == \A k \in FlowKey, b \in AdminBucket : modify_packet_counts(k, b) => IsTimely(k, b)
           Steady == \A k \in FlowKey : Period(k)' = Period(k)
<1>1. Init => BudgetInv
  BY BudgetAtStart
<1>2. /\ TypeOK /\ TypeOK' /\ BudgetInv /\ [Next]_vars
      /\ SerialFlows /\ SerialFlows' /\ [Stored]_vars /\ [Timely]_vars /\ [Steady]_vars
      => BudgetInv'
  <2> SUFFICES ASSUME TypeOK, TypeOK', BudgetInv, [Next]_vars,
                      SerialFlows, SerialFlows', [Stored]_vars, [Timely]_vars, [Steady]_vars
               PROVE  BudgetInv'
    OBVIOUS
  <2>1. Steady
    BY DEF vars, Period
  <2>2. CASE Lull
    BY <2>1, <2>2, LullKeepsBudget
  <2>3. CASE UNCHANGED vars
    <3>1. Lull
      BY <2>3, LullOfUser DEF vars
    <3> QED BY <2>1, <3>1, LullKeepsBudget
  <2>4. CASE vars' # vars
    <3>1. Stored /\ Timely
      BY <2>4
    <3> HIDE DEF Steady
    <3>2. ASSUME NEW c \in Cpu, TakeBucket(c) PROVE BudgetInv'
      BY <3>2, TakeKeepsBudget
    <3>3. ASSUME NEW c \in Cpu, SettleCharged(c) PROVE BudgetInv'
      BY <3>1, <3>3, SettleKeepsBudget
    <3>4. ASSUME NEW k \in FlowKey, NEW b \in AdminBucket, modify_packet_counts(k, b)
          PROVE  BudgetInv'
      BY <3>1, <3>4, RewriteKeepsBudget
    <3> QED BY <2>2, <3>2, <3>3, <3>4, StepKinds
  <2> QED BY <2>3, <2>4
<1>3. BudgetInv => RateBound
  BY DEF BudgetInv, RateBound, IsBounded
<1> HIDE DEF Stored, Timely, Steady
<1>4. Undisturbed => []SerialFlows /\ [][Stored]_vars /\ [][Timely]_vars /\ [][Steady]_vars
  BY PTL DEF Undisturbed, ChargesAreStored, BucketsAreTimely, PeriodsStay, Stored, Timely, Steady
<1> QED BY <1>1, <1>2, <1>3, <1>4, TypeCorrect, PTL DEF Spec

(***************************************************************************)
(* Constants under which nothing disturbs the bound                         *)
(***************************************************************************)
OneCpu == \A c, d \in Cpu : c = d
RoomForAll == IsFiniteSet(FlowKey) /\ Cardinality(FlowKey) < MaxCounts
NoRewrites == AdminBucket = {}
SamePeriods ==
    \A x, y \in Config, n \in ProfileName : x.profiles[n].period = y.profiles[n].period

LEMMA RoomStoresCharges ==
    ASSUME RoomForAll, TypeOK, NEW c \in Cpu, SettleCharged(c) PROVE IsStored(c)
<1>1. Counted \subseteq FlowKey
  BY DEF Counted
<1>2. Cardinality(Counted) <= Cardinality(FlowKey)
  BY <1>1, FS_Subset DEF RoomForAll
<1>3. Cardinality(Counted) \in Nat /\ Cardinality(FlowKey) \in Nat
  BY <1>1, FS_Subset, FS_CardinalityType DEF RoomForAll
<1>4. ~(Cardinality(Counted) >= MaxCounts)
  BY <1>2, <1>3 DEF RoomForAll
<1>5. KeyOf(job[c]) \in FlowKey
  BY CopyType DEF SettleCharged
<1> QED BY <1>4, <1>5, InsertBucketMeans DEF SettleCharged, IsStored

(* The setting of PacketFilter_flow, for any flows, frames and clock: one   *)
(* CPU, a map with room for every flow, rates that stay.                    *)
THEOREM OneCpuIsBounded ==
    ASSUME OneCpu, RoomForAll, NoRewrites, SamePeriods PROVE Spec => []RateBound
<1> DEFINE Stored == \A c \in Cpu : SettleCharged(c) => IsStored(c)
           Timely == \A k \in FlowKey, b \in AdminBucket : modify_packet_counts(k, b) => IsTimely(k, b)
           Steady == \A k \in FlowKey : Period(k)' = Period(k)
<1>1. SerialFlows
  BY DEF SerialFlows, OneCpu
<1>2. TypeOK => Stored
  BY RoomStoresCharges
<1>3. Timely
  BY DEF NoRewrites
<1>4. TypeOK /\ TypeOK' => Steady
  <2> SUFFICES ASSUME TypeOK, TypeOK', NEW k \in FlowKey PROVE Period(k)' = Period(k)
    OBVIOUS
  <2>1. ProfileOf(k.protocol) \in ProfileName
    <3>1. k.protocol \in Protocol
      BY DEF FlowKey, flow_key_direction, Frame
    <3> QED BY <3>1, ProfileOfType
  <2> QED BY <2>1 DEF Period, SamePeriods, TypeOK
<1> HIDE DEF Stored, Timely, Steady
<1>5. Spec => []SerialFlows /\ [][Stored]_vars /\ [][Timely]_vars /\ [][Steady]_vars
  BY <1>1, <1>2, <1>3, <1>4, TypeCorrect, PTL
<1>6. Spec => Undisturbed
  BY <1>5, PTL DEF Undisturbed, ChargesAreStored, BucketsAreTimely, PeriodsStay, Stored, Timely, Steady
<1> QED BY <1>6, SerialFlowsAreBounded, PTL

(***************************************************************************)
(* At least a frame per period: no flow is starved                          *)
(***************************************************************************)
(* A burst of zero admits nothing, which is what it is for.  A token count  *)
(* wraps only past 2^64; a burst is stored as an i64, and the clock counts  *)
(* nanoseconds since the kernel was started.                                *)
PositiveBursts == \A x \in Config, n \in ProfileName : x.profiles[n].burst > 0
NoWrap ==
    /\ \A x \in Config, n \in ProfileName : x.profiles[n].burst + MaxTime < Modulus
    /\ \A b \in AdminBucket : b.tokens + MaxTime < Modulus

(* The last refill of a bucket in the map, or of a copy of one, came with a *)
(* frame that passed; a copy made from nothing has a token for its own.     *)
BucketIsServed(k) ==
    counts[k] # Absent =>
        counts[k].last_update <= meter[k].served /\ counts[k].tokens + MaxTime < Modulus

IsServed(m, b, now) ==
    b.last_update <= m.served \/ (b.tokens > 0 /\ b.last_update <= now)

CopyIsServed(c) ==
    AtStage(c, "settle") =>
        /\ IsServed(meter[KeyOf(job[c])], job[c].bucket, job[c].now)
        /\ job[c].bucket.tokens + MaxTime < Modulus /\ job[c].now <= MaxTime

ServedInv ==
    /\ clock <= MaxTime
    /\ \A k \in FlowKey : BucketIsServed(k)
    /\ \A c \in Cpu : CopyIsServed(c)

LEMMA MeterAfterGrows ==
    ASSUME NEW m \in Meter, NEW b, NEW p, NEW now \in Nat
    PROVE  /\ MeterAfter(m, b, p, now).served \in Nat
           /\ m.served <= MeterAfter(m, b, p, now).served
           /\ Passes(b, p, now) => now <= MeterAfter(m, b, p, now).served
<1>1. m.served \in Nat /\ Charged(m, now).served = Later(m.served, now)
  BY DEF Meter, Charged
<1> QED BY <1>1 DEF MeterAfter, Later

(* The frame is refused only if its bucket was refilled less than a period  *)
(* before, and then a frame had passed.                                     *)
LEMMA ChargeIsServed ==
    ASSUME NEW m \in Meter, NEW b \in TokenBucketState, NEW p \in RateProfile, NEW now \in Nat,
           now <= MaxTime, p.burst > 0, p.burst + MaxTime < Modulus,
           b.tokens + MaxTime < Modulus, IsServed(m, b, now)
    PROVE  /\ Charge(b, p, now).last_update <= MeterAfter(m, b, p, now).served
           /\ Charge(b, p, now).tokens + MaxTime < Modulus
           /\ ~Passes(b, p, now) => now - m.served < p.period
<1> DEFINE g == Generated(b, p, now)
           r == Refill(b, p, now)
           after == MeterAfter(m, b, p, now).served
<1>1. /\ m.served \in Nat /\ p.period \in Nat \ {0} /\ p.burst \in Nat
      /\ b.tokens \in Nat /\ b.last_update \in Nat
  BY DEF Meter, RateProfile, TokenBucketState
<1>2. g \in Nat /\ g <= now /\ (g = 0 => now - b.last_update < p.period)
  BY GeneratedBounds
<1>3. b.tokens + g < Modulus
  BY <1>1, <1>2
<1>4. /\ r \in TokenBucketState /\ r.tokens \in Nat /\ r.last_update \in Nat
      /\ g = 0 => r = b
      /\ g > 0 => r.last_update = now /\ r.tokens <= p.burst /\ r.tokens > 0
  <2>1. /\ r \in TokenBucketState
        /\ g = 0 => r = b
        /\ g > 0 => r.last_update = now /\ r.tokens <= p.burst
        /\ g > 0 /\ p.burst > 0 /\ b.tokens + g < Modulus => r.tokens > 0
    BY RefillBounds
  <2> HIDE DEF r, g
  <2> QED BY <1>3, <2>1 DEF TokenBucketState
<1>5. after \in Nat /\ m.served <= after /\ (Passes(b, p, now) => now <= after)
  BY MeterAfterGrows
<1>6. Passes(b, p, now) <=> r.tokens > 0
  BY DEF Passes
<1>7. /\ Charge(b, p, now).last_update = r.last_update
      /\ Charge(b, p, now).tokens <= r.tokens /\ Charge(b, p, now).tokens \in Nat
  BY <1>4 DEF Charge, TokenBucketState
<1>8. b.last_update <= m.served \/ (b.tokens > 0 /\ b.last_update <= now)
  BY DEF IsServed
<1> HIDE DEF g, r, after
<1>9. r.last_update <= after
  BY <1>1, <1>2, <1>4, <1>5, <1>6, <1>8
<1>10. r.tokens + MaxTime < Modulus
  BY <1>1, <1>2, <1>4
<1>11. ~Passes(b, p, now) => now - m.served < p.period
  BY <1>1, <1>2, <1>4, <1>6, <1>8
<1>12. Charge(b, p, now).tokens + MaxTime < Modulus
  BY <1>4, <1>7, <1>10
<1> QED BY <1>7, <1>9, <1>11, <1>12 DEF after

LEMMA ServedAtStart == Init => ServedInv
BY DEF Init, ServedInv, BucketIsServed, CopyIsServed, AtStage

(* Whatever happens to the other flows and copies, what was served stays so. *)
ServesOn(k) ==
    /\ meter[k].served <= meter'[k].served
    /\ counts'[k] # Absent => counts'[k] = counts[k]

LEMMA OthersStayServed ==
    ASSUME TypeOK, TypeOK', ServedInv, NEW k \in FlowKey, ServesOn(k) PROVE BucketIsServed(k)'
<1> SUFFICES ASSUME counts'[k] # Absent
             PROVE  counts'[k].last_update <= meter'[k].served /\ counts'[k].tokens + MaxTime < Modulus
  BY DEF BucketIsServed
<1>1. counts'[k] = counts[k] /\ counts[k] \in TokenBucketState
  BY DEF ServesOn, TypeOK
<1>2. counts[k].last_update <= meter[k].served /\ counts[k].tokens + MaxTime < Modulus
  BY <1>1 DEF ServedInv, BucketIsServed
<1>3. meter[k].served \in Nat /\ meter'[k].served \in Nat /\ counts[k].last_update \in Nat
  BY <1>1 DEF TypeOK, Meter, TokenBucketState
<1> QED BY <1>1, <1>2, <1>3 DEF ServesOn

LEMMA OtherCopiesStayServed ==
    ASSUME TypeOK, TypeOK', ServedInv, NEW d \in Cpu, AtStage(d, "settle"), job'[d] = job[d],
           meter[KeyOf(job[d])].served <= meter'[KeyOf(job[d])].served
    PROVE  CopyIsServed(d)'
<1> DEFINE k == KeyOf(job[d])
           b == job[d].bucket
           now == job[d].now
<1>1. k \in FlowKey /\ b \in TokenBucketState /\ now \in Nat
  BY CopyType
<1>2. IsServed(meter[k], b, now) /\ b.tokens + MaxTime < Modulus /\ now <= MaxTime
  BY DEF ServedInv, CopyIsServed
<1>3. meter[k].served \in Nat /\ meter'[k].served \in Nat /\ b.last_update \in Nat
  BY <1>1 DEF TypeOK, Meter, TokenBucketState
<1>4. IsServed(meter'[k], b, now)
  <2> HIDE DEF k, b, now
  <2>1. meter[k].served <= meter'[k].served
    BY DEF k
  <2> QED BY <1>2, <1>3, <2>1 DEF IsServed
<1>5. KeyOf(job'[d]) = k /\ job'[d].bucket = b /\ job'[d].now = now
  OBVIOUS
<1> HIDE DEF k, b, now
<1> QED BY <1>2, <1>4, <1>5 DEF CopyIsServed

LEMMA LullKeepsServed == ASSUME TypeOK, TypeOK', ServedInv, Lull PROVE ServedInv'
<1>1. clock' <= MaxTime
  BY DEF ServedInv, Lull
<1>2. ASSUME NEW k \in FlowKey PROVE BucketIsServed(k)'
  <2>1. meter[k].served <= meter'[k].served
    BY DEF Lull, TypeOK, Meter
  <2> QED BY <2>1, OthersStayServed DEF ServesOn, Lull
<1>3. ASSUME NEW c \in Cpu, AtStage(c, "settle")' PROVE CopyIsServed(c)'
  <2>1. job'[c] = job[c] /\ meter' = meter /\ AtStage(c, "settle")
    BY <1>3 DEF Lull, AtStage
  <2>2. meter[KeyOf(job[c])].served <= meter'[KeyOf(job[c])].served
    BY <2>1, CopyType DEF Meter
  <2> QED BY <2>1, <2>2, OtherCopiesStayServed
<1>4. \A c \in Cpu : CopyIsServed(c)'
  BY <1>3 DEF CopyIsServed
<1> QED BY <1>1, <1>2, <1>4 DEF ServedInv

LEMMA TakeKeepsServed ==
    ASSUME TypeOK, TypeOK', ServedInv, PositiveBursts, NoWrap, NEW c \in Cpu, TakeBucket(c)
    PROVE  ServedInv'
<1> DEFINE k == KeyOf(job[c])
           p == active_profile(job[c])
           full == FullBucket(p, clock)
           b == IF counts[k] = Absent THEN full ELSE counts[k]
<1>1. /\ job[c] \in Job /\ k \in FlowKey /\ full \in TokenBucketState
      /\ \A d \in Cpu \ {c} : job'[d] = job[d]
      /\ AtStage(c, "settle")' /\ KeyOf(job'[c]) = k /\ job'[c].now = clock /\ job'[c].bucket = b
      /\ UNCHANGED <<clock, config, counts>>
      /\ \A j \in FlowKey \ {k} : meter'[j] = meter[j]
      /\ meter'[k] = IF counts[k] = Absent THEN Restarted(meter[k], full) ELSE meter[k]
  BY TakeMeans
<1>2. clock \in Nat /\ clock <= MaxTime
  BY DEF TypeOK, ServedInv
<1>3. full.last_update = clock /\ full.tokens > 0 /\ full.tokens + MaxTime < Modulus
  <2>1. full.last_update = clock /\ full.tokens = p.burst
    BY DEF FullBucket
  <2>2. \E x \in Config, n \in ProfileName : p = x.profiles[n]
    <3>1. ProfileOf(job[c].packet.protocol) \in ProfileName
      <4>1. job[c].packet.protocol \in Protocol
        BY <1>1 DEF Job, JobRecord, Frame
      <4> QED BY <4>1, ProfileOfType
    <3> QED BY <3>1 DEF active_profile, TypeOK
  <2> HIDE DEF p
  <2> QED BY <2>1, <2>2 DEF PositiveBursts, NoWrap
<1> HIDE DEF k, full
<1>4. \A j \in FlowKey : meter'[j].served = meter[j].served /\ meter[j].served \in Nat
  <2>1. \A m \in Meter : m.served \in Nat /\ Restarted(m, full).served = m.served
    BY DEF Meter, Restarted
  <2>2. \A j \in FlowKey : meter[j] \in Meter
    BY DEF TypeOK
  <2> QED BY <1>1, <2>1, <2>2
<1>5. IsServed(meter'[k], b, clock) /\ b.tokens + MaxTime < Modulus
  <2>1. CASE counts[k] = Absent
    BY <1>2, <1>3, <2>1 DEF IsServed
  <2>2. CASE counts[k] # Absent
    BY <1>1, <1>4, <2>2 DEF IsServed, ServedInv, BucketIsServed
  <2> QED BY <2>1, <2>2
<1> HIDE DEF b
<1>6. ASSUME NEW j \in FlowKey PROVE BucketIsServed(j)'
  BY <1>1, <1>4, OthersStayServed DEF ServesOn
<1>7. ASSUME NEW d \in Cpu, AtStage(d, "settle")' PROVE CopyIsServed(d)'
  <2>1. CASE d = c
    BY <1>1, <1>2, <1>5, <2>1 DEF CopyIsServed
  <2>2. CASE d # c
    <3>1. job'[d] = job[d] /\ AtStage(d, "settle")
      BY <1>1, <1>7, <2>2 DEF AtStage
    <3> QED BY <1>4, <3>1, CopyType, OtherCopiesStayServed
  <2> QED BY <2>1, <2>2
<1>8. \A d \in Cpu : CopyIsServed(d)'
  BY <1>7 DEF CopyIsServed
<1> QED BY <1>1, <1>2, <1>6, <1>8 DEF ServedInv

(* The profile in force when a copy is settled has a burst, and room above. *)
LEMMA SettleServes ==
    ASSUME TypeOK, ServedInv, PositiveBursts, NoWrap, NEW c \in Cpu, SettleCharged(c)
    PROVE  LET k == KeyOf(job[c])
               p == active_profile(job[c])
               b == job[c].bucket
               now == job[c].now
           IN  /\ Charge(b, p, now).last_update <= MeterAfter(meter[k], b, p, now).served
               /\ Charge(b, p, now).tokens + MaxTime < Modulus
               /\ ~Passes(b, p, now) => now - meter[k].served < p.period
<1> DEFINE k == KeyOf(job[c])
           p == active_profile(job[c])
           b == job[c].bucket
           now == job[c].now
<1>1. /\ AtStage(c, "settle") /\ k \in FlowKey /\ p \in RateProfile
      /\ b \in TokenBucketState /\ now \in Nat
  BY SettleMeans
<1>2. \E x \in Config, n \in ProfileName : p = x.profiles[n]
  <2>1. ProfileOf(job[c].packet.protocol) \in ProfileName
    <3>1. job[c].packet.protocol \in Protocol
      BY <1>1, CopyType DEF Job, JobRecord, Frame
    <3> QED BY <3>1, ProfileOfType
  <2> QED BY <2>1 DEF active_profile, TypeOK
<1>3. IsServed(meter[k], b, now) /\ b.tokens + MaxTime < Modulus /\ now <= MaxTime
  BY <1>1 DEF ServedInv, CopyIsServed
<1>4. meter[k] \in Meter
  BY <1>1 DEF TypeOK
<1> HIDE DEF k, p, b, now
<1>5. p.burst > 0 /\ p.burst + MaxTime < Modulus
  BY <1>2 DEF PositiveBursts, NoWrap
<1> QED BY <1>1, <1>3, <1>4, <1>5, ChargeIsServed DEF k, p, b, now

LEMMA SettleKeepsServed ==
    ASSUME TypeOK, TypeOK', ServedInv, PositiveBursts, NoWrap, NEW c \in Cpu, SettleCharged(c)
    PROVE  ServedInv'
<1> DEFINE k == KeyOf(job[c])
           p == active_profile(job[c])
           b == job[c].bucket
           now == job[c].now
<1>1. /\ AtStage(c, "settle") /\ k \in FlowKey /\ p \in RateProfile
      /\ b \in TokenBucketState /\ now \in Nat
      /\ job'[c] = Absent /\ \A d \in Cpu \ {c} : job'[d] = job[d]
      /\ UNCHANGED <<clock, config>>
      /\ meter'[k] = MeterAfter(meter[k], b, p, now)
      /\ \A j \in FlowKey \ {k} : KeepsFlow(j)
      /\ counts'[k] = Charge(b, p, now) \/ counts'[k] = counts[k]
  BY SettleMeans
<1>2. /\ Charge(b, p, now).last_update <= MeterAfter(meter[k], b, p, now).served
      /\ Charge(b, p, now).tokens + MaxTime < Modulus
  BY SettleServes
<1> HIDE DEF k, p, b, now
<1>3. meter[k].served <= meter'[k].served
  BY <1>1, MeterAfterGrows DEF TypeOK
<1>4. \A j \in FlowKey : meter[j].served <= meter'[j].served
  BY <1>1, <1>3 DEF KeepsFlow, TypeOK, Meter
<1>5. ASSUME NEW j \in FlowKey PROVE BucketIsServed(j)'
  <2>1. CASE j # k \/ counts'[j] = counts[j]
    BY <1>1, <1>4, <2>1, OthersStayServed DEF ServesOn, KeepsFlow
  <2>2. CASE j = k /\ counts'[j] = Charge(b, p, now)
    BY <1>1, <1>2, <2>2 DEF BucketIsServed
  <2> QED BY <1>1, <2>1, <2>2
<1>6. ASSUME NEW d \in Cpu, AtStage(d, "settle")' PROVE CopyIsServed(d)'
  <2>1. job'[d] = job[d] /\ AtStage(d, "settle")
    BY <1>1, <1>6 DEF AtStage
  <2> QED BY <1>4, <2>1, CopyType, OtherCopiesStayServed
<1>7. \A d \in Cpu : CopyIsServed(d)'
  BY <1>6 DEF CopyIsServed
<1> QED BY <1>1, <1>5, <1>7 DEF ServedInv

LEMMA RewriteKeepsServed ==
    ASSUME TypeOK, TypeOK', ServedInv, NoWrap, NEW k \in FlowKey, NEW b \in AdminBucket,
           modify_packet_counts(k, b)
    PROVE  ServedInv'
<1>1. b \in TokenBucketState /\ b.last_update \in Nat /\ b.tokens + MaxTime < Modulus
  BY DEF NoWrap, TokenBucketState
<1>2. /\ meter' = [meter EXCEPT ![k] = Rewritten(@, b)] /\ InsertBucket(k, b)
      /\ UNCHANGED <<config, job, clock>>
  BY DEF modify_packet_counts
<1>3. counts'[k] = b /\ \A j \in FlowKey \ {k} : KeepsFlow(j)
  BY <1>2, InsertBucketMeans DEF KeepsFlow, TypeOK
<1>4. meter[k].served <= meter'[k].served /\ b.last_update <= meter'[k].served
  BY <1>1, <1>2 DEF TypeOK, Meter, Rewritten, Later
<1>5. \A j \in FlowKey : meter[j].served <= meter'[j].served
  BY <1>3, <1>4 DEF KeepsFlow, TypeOK, Meter
<1>6. ASSUME NEW j \in FlowKey PROVE BucketIsServed(j)'
  <2>1. CASE j # k
    BY <1>3, <1>5, <2>1, OthersStayServed DEF ServesOn, KeepsFlow
  <2>2. CASE j = k
    BY <1>1, <1>3, <1>4, <2>2 DEF BucketIsServed
  <2> QED BY <2>1, <2>2
<1>7. ASSUME NEW d \in Cpu, AtStage(d, "settle")' PROVE CopyIsServed(d)'
  <2>1. job'[d] = job[d] /\ AtStage(d, "settle")
    BY <1>2, <1>7 DEF AtStage
  <2> QED BY <1>5, <2>1, CopyType, OtherCopiesStayServed
<1>8. \A d \in Cpu : CopyIsServed(d)'
  BY <1>7 DEF CopyIsServed
<1> QED BY <1>2, <1>6, <1>8 DEF ServedInv

LEMMA ServedInvariant == ASSUME PositiveBursts, NoWrap PROVE Spec => []ServedInv
<1>1. Init => ServedInv
  BY ServedAtStart
<1>2. TypeOK /\ TypeOK' /\ ServedInv /\ [Next]_vars => ServedInv'
  BY StepKinds, LullKeepsServed, TakeKeepsServed, SettleKeepsServed, RewriteKeepsServed
<1> QED BY <1>1, <1>2, TypeCorrect, PTL DEF Spec

(* The limiter keeps what the profile promises each flow: a frame is refused *)
(* for its rate only if one of its flow passed less than a period before,   *)
(* for any number of CPUs that overwrite each other's buckets.              *)
THEOREM FlowsAreServed == ASSUME PositiveBursts, NoWrap PROVE Spec => NeverStarved
<1> DEFINE Step == \A c \in Cpu : RefusedForRate(c) =>
                      job[c].now - meter[KeyOf(job[c])].served < Period(KeyOf(job[c]))
<1>1. TypeOK /\ ServedInv /\ [Next]_vars => [Step]_vars
  <2> SUFFICES ASSUME TypeOK, ServedInv, [Next]_vars, NEW c \in Cpu, RefusedForRate(c)
               PROVE  job[c].now - meter[KeyOf(job[c])].served < Period(KeyOf(job[c]))
    OBVIOUS
  <2>1. AtStage(c, "settle") /\ Xdp(c) /\ out' # Absent /\ out'.verdict = "XDP_DROP"
    BY JobStep DEF RefusedForRate
  <2>2. SettleCharged(c) \/ SettleUncharged(c)
    BY <2>1 DEF Xdp, AtStage, ReceiveInspected, ReceiveTruncated, ReceivePassed, ReceiveUnsupported,
                CheckSubnet, LookupHit, LookupMiss, Refresh, InsertAllowed, CloseFlow, ForgetBucket,
                TakeBucket
  <2>3. ~Forward(c, job[c])
    BY <2>1, EmitMeans DEF Forward
  <2>4. SettleCharged(c) /\ ~Passes(job[c].bucket, active_profile(job[c]), job[c].now)
    BY <2>2, <2>3 DEF SettleCharged, SettleUncharged
  <2>5. active_profile(job[c]).period = Period(KeyOf(job[c]))
    BY <2>4, SettleMeans
  <2> QED BY <2>4, <2>5, SettleServes
<1> QED BY <1>1, TypeCorrect, ServedInvariant, PTL DEF Spec, NeverStarved
================================================================================
