---------------------------- MODULE MCResilience ----------------------------
(***************************************************************************)
(* internal/resilience: a circuit breaker with concurrent callers, the     *)
(* local rate limiter, and the delays between the retries of a call.  They *)
(* share no state here (Proxy composes them): `part` says which of the     *)
(* three a behaviour is about, and the others stay as they began.          *)
(*                                                                         *)
(* The limiter has two services with two methods: a route with its own     *)
(* rule, a service with a rule, and the rest under the default.  A third,  *)
(* two thirds and five thirds of a token per tick, bursts of one to three. *)
(***************************************************************************)
EXTENDS CircuitBreaker

CONSTANTS s1, s2, m1, m2,
          Scale, Services, Methods, NoRule, DefaultRule, ServiceRules, RouteRules,
          Width, Retries

VARIABLES part, bucket, excess, retry, index, delay

RL == INSTANCE RateLimiter
RB == INSTANCE RetryBackoff

MCServices == {s1, s2}
MCMethods == {m1, m2}
MCDefaultRule == [rate |-> 5, burst |-> 2]
MCServiceRules == [s \in MCServices |-> IF s = s1 THEN [rate |-> 2, burst |-> 3] ELSE NoRule]
MCRouteRules ==
  [r \in MCServices \X MCMethods |->
     IF r = <<s1, m1>> THEN [rate |-> 1, burst |-> 1] ELSE NoRule]

ASSUME RateLimiterConstants ==
  /\ Scale \in Nat \ {0}
  /\ RL!Default \notin Services
  /\ DefaultRule \in RL!RateLimitRule \cup {NoRule}
  /\ ServiceRules \in [Services -> RL!RateLimitRule \cup {NoRule}]
  /\ RouteRules \in [RL!Routes -> RL!RateLimitRule \cup {NoRule}]
  /\ NoRule \notin RL!RateLimitRule

ASSUME RetryBackoffConstants == Width \in Nat \ {0} /\ Retries \in Nat

rlVars == <<bucket, excess>>
rbVars == <<retry, index, delay>>
allVars == <<part, vars, rlVars, rbVars>>

MCInit ==
  /\ part \in {"breaker", "limiter", "backoff"}
  /\ Init /\ RL!Init /\ RB!Init
  /\ part # "backoff" => retry = [initial |-> 0, max |-> 0]

Breaking(A) == part = "breaker" /\ A /\ UNCHANGED <<part, rlVars, rbVars>>

Limiting == part = "limiter" /\ RL!Next /\ UNCHANGED <<part, vars, rbVars>>

Retrying == part = "backoff" /\ RB!Retry /\ UNCHANGED <<part, vars, rlVars>>

MCNext == Breaking(Next) \/ Limiting \/ Retrying

(* The fairness of CircuitBreaker. *)
MCFairness ==
  /\ WF_allVars(Breaking(Tick))
  /\ WF_allVars(Breaking(\E c \in Callers : AllowGranted(c)))
  /\ \A c \in Callers :
       WF_allVars(Breaking(\E success \in BOOLEAN : Done(c, success)))

MCSpec == MCInit /\ [][MCNext]_allVars /\ MCFairness

-----------------------------------------------------------------------------
(* Every rule of the limiter admits at most burst + rate * t in every      *)
(* period of t.                                                            *)
WithinRate == RL!WithinRate

(* The limiter rejects only what would have been more than that. *)
RejectsOnlyExcess == RL!RejectsOnlyExcess

(* The delays before the retries of a call are those of the configuration. *)
BackoffExact == RB!BackoffExact
=============================================================================
