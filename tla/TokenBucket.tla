------------------------------ MODULE TokenBucket ------------------------------
(***************************************************************************)
(* The token bucket of the XDP program (oxidrop-ebpf/src/main.rs), as pure  *)
(* operators on bucket records.  A profile's `period` is the code's         *)
(* 1 << rate_shift: elapsed >> rate_shift is elapsed \div period.           *)
(***************************************************************************)
EXTENDS Integers

CONSTANT Modulus            \* 2^64 in the code: tokens are u64 and wrap

ASSUME ModulusAssumption == Modulus \in Nat \ {0}

RateProfile == [period: Nat \ {0}, burst: Nat]
TokenBucketState == [tokens: Nat, last_update: Nat]

SaturatingSub(a, b) == IF a > b THEN a - b ELSE 0
Lesser(a, b) == IF a < b THEN a ELSE b

(* The bucket a flow without an entry starts from: full, as of now. *)
FullBucket(profile, now) == [tokens |-> profile.burst, last_update |-> now]

Generated(bucket, profile, now) ==
    SaturatingSub(now, bucket.last_update) \div profile.period

RefillKeepingTime(bucket, profile, now) ==
    [bucket EXCEPT !.tokens = Lesser((@ + Generated(bucket, profile, now)) % Modulus,
                                     profile.burst)]

RefillForgettingTime(bucket, profile, now) ==
    [tokens |-> Lesser((bucket.tokens + Generated(bucket, profile, now)) % Modulus, profile.burst),
     last_update |-> now]

(* Whole periods become tokens, capped at the burst, and the remainder of   *)
(* the last period is forgotten; less than a period changes nothing, not    *)
(* even a token count above the burst.                                      *)
Refill(bucket, profile, now) ==
    IF Generated(bucket, profile, now) > 0
    THEN [tokens |-> Lesser((bucket.tokens + Generated(bucket, profile, now)) % Modulus,
                            profile.burst),
          last_update |-> now]
    ELSE bucket

(* evaluate_bucket: whether the frame passes, and the bucket it leaves. *)
Passes(bucket, profile, now) == Refill(bucket, profile, now).tokens > 0

ChargeUnchecked(bucket, profile, now) == [Refill(bucket, profile, now) EXCEPT !.tokens = @ - 1]

Charge(bucket, profile, now) ==
    LET refilled == Refill(bucket, profile, now)
    IN  IF refilled.tokens > 0
        THEN [refilled EXCEPT !.tokens = @ - 1]
        ELSE refilled
================================================================================
