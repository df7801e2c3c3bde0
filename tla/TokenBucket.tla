---------------------------- MODULE TokenBucket ----------------------------
(***************************************************************************)
(* A token bucket that is refilled lazily, when it is asked: tokenBucket   *)
(* of internal/resilience/ratelimit.go and Budget of retry.go.  Both run   *)
(* under a mutex and read a monotonic clock inside it, so asking is one    *)
(* step, and `last` can be kept as the ticks that have passed since        *)
(* (`pending`).                                                            *)
(*                                                                         *)
(* Tokens are floating-point numbers in the code.  Here they are counted   *)
(* in fractions: Scale fractions are a token, and a bucket with rate r     *)
(* gains r fractions per tick.  Rounding is left out.                      *)
(***************************************************************************)
EXTENDS Integers

CONSTANT Scale   \* fractions in a token

ASSUME ScalePositive == Scale \in Nat \ {0}

(* The two constructors: a limiter's rule has rate and burst above zero, a *)
(* budget's may be zero.                                                   *)
RateLimitRule == [rate : Nat \ {0}, burst : Nat \ {0}]
BudgetConfig == [rate : Nat, burst : Nat]

Full(rule) == rule.burst * Scale

Bucket == [tokens : Nat, pending : Nat]

NewBucket(rule) == [tokens |-> Full(rule), pending |-> 0]

AtMost(x, max) == IF x > max THEN max ELSE x

(* Mutated form: idle time is credited beyond the burst. *)
RefillUncapped(bucket, rule) == bucket.tokens + bucket.pending * rule.rate

(* tokens += elapsed * rate, capped at the burst *)
Refill(bucket, rule) == AtMost(bucket.tokens + bucket.pending * rule.rate, Full(rule))

Enough(bucket, rule) == Refill(bucket, rule) >= Scale

(* Mutated form: a rejected request loses the refill it computed. *)
AllowForgetsRefill(bucket, rule) ==
  [tokens  |-> IF Enough(bucket, rule) THEN Refill(bucket, rule) - Scale
               ELSE bucket.tokens,
   pending |-> 0]

(* The bucket after allow: a token is taken if there is one. *)
Allow(bucket, rule) ==
  [tokens  |-> Refill(bucket, rule) - (IF Enough(bucket, rule) THEN Scale ELSE 0),
   pending |-> 0]

(* Time passes.  A bucket that is full need not count further: the cap of  *)
(* Refill makes it the same.                                               *)
Pass(bucket, rule) ==
  IF rule.rate > 0 /\ bucket.tokens + bucket.pending * rule.rate < Full(rule)
  THEN [bucket EXCEPT !.pending = @ + 1]
  ELSE bucket
=============================================================================
