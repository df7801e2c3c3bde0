---------------------------- MODULE RetryBackoff ----------------------------
(***************************************************************************)
(* How long a call waits before each of its retries: RetryConfig and       *)
(* Backoff of internal/resilience/retry.go.  Durations are integers of     *)
(* Width bits (64 in the code), and doubling one may wrap around.          *)
(***************************************************************************)
EXTENDS Integers

CONSTANTS Width,     \* bits of a duration
          Retries    \* bound on the retries of a call

VARIABLES retry,   \* RetryConfig: InitialBackoff and MaxBackoff as configured
          index,   \* retries so far
          delay    \* how long the last one waited

vars == <<retry, index, delay>>

Durations == -(2^(Width - 1))..(2^(Width - 1) - 1)

Wrap(x) == ((x + 2^(Width - 1)) % 2^Width) - 2^(Width - 1)

Normalized(c) ==
  LET initial == IF c.initial < 0 THEN 0 ELSE c.initial
  IN  [initial |-> initial,
       max     |-> IF c.max <= 0 \/ c.max < initial THEN initial ELSE c.max]

(* Mutated form: the cap is looked at after doubling only. *)
DoubledThenCapped(d, max) == IF d >= max THEN max ELSE Wrap(2 * d)

(* One turn of the loop of Backoff. *)
Doubled(d, max) == IF d >= max \/ d > max \div 2 THEN max ELSE Wrap(2 * d)

Backoff(config, retryIndex) ==
  LET c == Normalized(config)
      d[i \in 1..retryIndex] == IF i = 1 THEN c.initial ELSE Doubled(d[i - 1], c.max)
  IN  IF retryIndex <= 0 \/ c.initial <= 0 THEN 0
      ELSE IF d[retryIndex] > c.max THEN c.max ELSE d[retryIndex]

Init ==
  /\ retry \in [initial : Durations, max : Durations]
  /\ index = 0
  /\ delay = Backoff(retry, 0)

(* Sleep(ctx, Backoff(cfg.Retry, attempt-1)) *)
Retry ==
  /\ index < Retries
  /\ index' = index + 1
  /\ delay' = Backoff(retry, index + 1)
  /\ UNCHANGED retry

-----------------------------------------------------------------------------
(* The n-th retry waits InitialBackoff * 2^(n-1), and no longer than       *)
(* MaxBackoff where that is set to more than InitialBackoff: doubling      *)
(* neither wraps around nor stops short of the cap, for any configuration  *)
(* of the flags and any number of retries.                                 *)
BackoffExact ==
  LET longest == IF retry.max > retry.initial THEN retry.max ELSE retry.initial
      exact == retry.initial * 2^(index - 1)
  IN  delay = IF index = 0 \/ retry.initial <= 0 THEN 0
              ELSE IF exact < longest THEN exact ELSE longest
=============================================================================
