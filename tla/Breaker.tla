------------------------------ MODULE Breaker ------------------------------
(***************************************************************************)
(* The circuit breaker of internal/resilience/circuitbreaker.go as a       *)
(* value: a record with the fields of the Go struct, and one operator per  *)
(* method.  Every method of the struct runs under b.mu, so a method is one *)
(* function of the record.                                                 *)
(*                                                                         *)
(* openedAt and the clock are kept as the difference the code looks at:    *)
(* `elapsed` is now.Sub(openedAt), saturated at Cooldown.  rejectedTotal   *)
(* and openedTotal are counters for metrics that no method reads.          *)
(***************************************************************************)
EXTENDS Integers, FiniteSets

CONSTANTS WindowSize,           \* length of the ring of outcomes
          MinimumRequests,      \* outcomes needed before the rate counts
          RateNum, RateDen,     \* FailureRateThreshold = RateNum / RateDen
          Cooldown,             \* ticks an open breaker rejects
          HalfOpenMaxRequests   \* probes per half-open period

(* What CircuitBreakerConfig.normalized guarantees of every configuration. *)
ASSUME ConfigNormalized ==
  /\ WindowSize \in Nat \ {0}
  /\ MinimumRequests \in 1..WindowSize
  /\ RateDen \in Nat \ {0}
  /\ RateNum \in 1..RateDen
  /\ Cooldown \in Nat \ {0}
  /\ HalfOpenMaxRequests \in Nat \ {0}

Slots == 0..(WindowSize - 1)

CircuitState == {"closed", "open", "half-open"}

BreakerType ==
  [state             : CircuitState,
   generation        : Nat,
   elapsed           : 0..Cooldown,
   window            : [Slots -> BOOLEAN],
   next              : Slots,
   count             : 0..WindowSize,
   failures          : Int,
   halfOpenPermitted : Nat,
   halfOpenInFlight  : Nat,
   halfOpenSuccesses : Nat]

NewCircuitBreaker ==
  [state             |-> "closed",
   generation        |-> 0,
   elapsed           |-> Cooldown,
   window            |-> [i \in Slots |-> FALSE],
   next              |-> 0,
   count             |-> 0,
   failures          |-> 0,
   halfOpenPermitted |-> 0,
   halfOpenInFlight  |-> 0,
   halfOpenSuccesses |-> 0]

-----------------------------------------------------------------------------
(* Transitions.  transitionOpen keeps the window, transitionClosed clears  *)
(* it.                                                                     *)

transitionOpen(b) ==
  [b EXCEPT !.state = "open",
            !.generation = @ + 1,
            !.elapsed = 0,
            !.halfOpenPermitted = 0,
            !.halfOpenInFlight = 0,
            !.halfOpenSuccesses = 0]

transitionHalfOpen(b) ==
  [b EXCEPT !.state = "half-open",
            !.generation = @ + 1,
            !.halfOpenPermitted = 0,
            !.halfOpenInFlight = 0,
            !.halfOpenSuccesses = 0]

(* Mutated form: the window of the last closed period is kept. *)
transitionClosedKeepsWindow(b) ==
  [b EXCEPT !.state = "closed",
            !.generation = @ + 1,
            !.halfOpenPermitted = 0,
            !.halfOpenInFlight = 0,
            !.halfOpenSuccesses = 0]

transitionClosed(b) ==
  [b EXCEPT !.state = "closed",
            !.generation = @ + 1,
            !.window = [i \in Slots |-> FALSE],
            !.next = 0,
            !.count = 0,
            !.failures = 0,
            !.halfOpenPermitted = 0,
            !.halfOpenInFlight = 0,
            !.halfOpenSuccesses = 0]

(* Mutated form: next is not taken modulo the window size. *)
recordClosedNoWrap(b, failure) ==
  [b EXCEPT !.count = IF @ = WindowSize THEN @ ELSE @ + 1,
            !.failures = IF failure THEN @ + 1 ELSE @,
            !.window = [@ EXCEPT ![b.next] = failure],
            !.next = @ + 1]

(* Mutated form: the failure that leaves the window is still counted. *)
recordClosedNoEviction(b, failure) ==
  [b EXCEPT !.count = IF @ = WindowSize THEN @ ELSE @ + 1,
            !.failures = IF failure THEN @ + 1 ELSE @,
            !.window = [@ EXCEPT ![b.next] = failure],
            !.next = IF @ + 1 = WindowSize THEN 0 ELSE @ + 1]

(* A slot of a full window is overwritten: the failure it held leaves the  *)
(* count of failures.                                                      *)
recordClosed(b, failure) ==
  LET full    == b.count = WindowSize
      evicted == IF full /\ b.window[b.next] THEN 1 ELSE 0
      added   == IF failure THEN 1 ELSE 0
  IN  [b EXCEPT !.count = IF full THEN @ ELSE @ + 1,
                !.failures = @ - evicted + added,
                !.window = [@ EXCEPT ![b.next] = failure],
                !.next = IF @ + 1 = WindowSize THEN 0 ELSE @ + 1]

(* count >= MinimumRequests && failures/count >= FailureRateThreshold.     *)
(* The division is correctly rounded, hence monotone, so comparing it with *)
(* the nearest double of RateNum/RateDen is comparing the two rationals.   *)
Tripped(b) ==
  /\ b.count >= MinimumRequests
  /\ b.failures * RateDen >= RateNum * b.count

-----------------------------------------------------------------------------
(* Allow: an open breaker that has cooled down turns half-open first; then *)
(* a half-open breaker grants HalfOpenMaxRequests permits in all.          *)

(* Mutated form: half-open one tick early. *)
CooledEarly(b) == b.state = "open" /\ b.elapsed + 1 >= Cooldown

Cooled(b) == b.state = "open" /\ b.elapsed >= Cooldown

(* The breaker that decides, after the transition Allow makes on its way.  *)
Deciding(b) == IF Cooled(b) THEN transitionHalfOpen(b) ELSE b

Admits(b) ==
  \/ b.state = "closed"
  \/ b.state = "half-open" /\ b.halfOpenPermitted < HalfOpenMaxRequests

Admit(b) ==
  IF b.state = "half-open"
  THEN [b EXCEPT !.halfOpenPermitted = @ + 1, !.halfOpenInFlight = @ + 1]
  ELSE b

(* A permit remembers the generation and the state it was granted in.      *)
PermitType == [generation : Nat, state : CircuitState]

CircuitPermit(b) == [generation |-> b.generation, state |-> b.state]

-----------------------------------------------------------------------------
(* complete: what CircuitPermit.Done does with the outcome of an attempt.  *)

completeClosed(b, success) ==
  LET r == recordClosed(b, ~success)
  IN  IF Tripped(r) THEN transitionOpen(r) ELSE r

(* Mutated form: waits for one success more than there are probes. *)
completeHalfOpenNeverCloses(b, success) ==
  LET r == [b EXCEPT !.halfOpenInFlight = IF @ > 0 THEN @ - 1 ELSE @]
      s == [r EXCEPT !.halfOpenSuccesses = @ + 1]
  IN  IF ~success THEN transitionOpen(r)
      ELSE IF s.halfOpenSuccesses > HalfOpenMaxRequests
           THEN transitionClosed(s)
           ELSE s

completeHalfOpen(b, success) ==
  LET r == [b EXCEPT !.halfOpenInFlight = IF @ > 0 THEN @ - 1 ELSE @]
      s == [r EXCEPT !.halfOpenSuccesses = @ + 1]
  IN  IF ~success THEN transitionOpen(r)
      ELSE IF s.halfOpenSuccesses >= HalfOpenMaxRequests
           THEN transitionClosed(s)
           ELSE s

(* Mutated form: permits carry no generation. *)
CurrentInAnyGeneration(b, permit) == permit.state = b.state

(* Completions of an earlier generation, or of a permit granted in another *)
(* state, change nothing.                                                  *)
Current(b, permit) ==
  /\ permit.generation = b.generation
  /\ permit.state = b.state

complete(b, permit, success) ==
  IF ~Current(b, permit) THEN b
  ELSE IF b.state = "closed" THEN completeClosed(b, success)
  ELSE IF b.state = "half-open" THEN completeHalfOpen(b, success)
  ELSE b
=============================================================================
