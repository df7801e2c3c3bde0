---------------------------- MODULE RateLimiter ----------------------------
(***************************************************************************)
(* LocalRateLimiter (internal/resilience/ratelimit.go): requests of        *)
(* services and methods, in any order and at any time, against the bucket  *)
(* of their most specific rule.  The counters for metrics that nothing     *)
(* reads back are left out.                                                *)
(***************************************************************************)
EXTENDS TokenBucket

CONSTANTS Services, Methods,
          NoRule,
          DefaultRule,    \* the default rule, or NoRule
          ServiceRules,   \* service -> rule, or NoRule
          RouteRules      \* route -> rule, or NoRule

Routes == Services \X Methods

Default == "default"

(* The buckets of newLocalRateLimiter: one for each rule that is set. *)
Buckets ==
  [kind : {"route"}, key : {r \in Routes : RouteRules[r] # NoRule}]
    \cup [kind : {"service"}, key : {s \in Services : ServiceRules[s] # NoRule}]
    \cup [kind : {"default"}, key : {d \in {Default} : DefaultRule # NoRule}]

Rule(b) == CASE b.kind = "route"   -> RouteRules[b.key]
             [] b.kind = "service" -> ServiceRules[b.key]
             [] b.kind = "default" -> DefaultRule

VARIABLES bucket,   \* bucket of each rule
          excess    \* each rule's admissions beyond its rate (history)

vars == <<bucket, excess>>

Init ==
  /\ bucket = [b \in Buckets |-> NewBucket(Rule(b))]
  /\ excess = [b \in Buckets |-> 0]

(* The bucket Allow asks: the route's, else the service's, else the        *)
(* default one; none at all when the set is empty.                         *)
Asked(s, m) ==
  LET at(kind) == {b \in Buckets : /\ b.kind = kind
                                   /\ b.key = CASE kind = "route"   -> <<s, m>>
                                                [] kind = "service" -> s
                                                [] kind = "default" -> Default}
  IN  IF at("route") # {} THEN at("route")
      ELSE IF at("service") # {} THEN at("service") ELSE at("default")

Admitted(s, m) ==
  /\ \A b \in Asked(s, m) : Enough(bucket[b], Rule(b))
  /\ bucket' = [b \in Buckets |-> IF b \in Asked(s, m) THEN Allow(bucket[b], Rule(b))
                                  ELSE bucket[b]]
  /\ excess' = [b \in Buckets |-> IF b \in Asked(s, m) THEN excess[b] + Scale
                                  ELSE excess[b]]

Rejected(s, m) ==
  \E b \in Asked(s, m) :
    /\ ~Enough(bucket[b], Rule(b))
    /\ bucket' = [bucket EXCEPT ![b] = Allow(bucket[b], Rule(b))]
    /\ UNCHANGED excess

Tick ==
  /\ bucket' = [b \in Buckets |-> Pass(bucket[b], Rule(b))]
  /\ excess' = [b \in Buckets |-> IF excess[b] > Rule(b).rate
                                  THEN excess[b] - Rule(b).rate ELSE 0]

Next ==
  \/ Tick
  \/ \E s \in Services, m \in Methods : Admitted(s, m) \/ Rejected(s, m)

Spec == Init /\ [][Next]_vars

-----------------------------------------------------------------------------
(* Every variable keeps its type; no bucket holds more than its burst.     *)
TypeOK ==
  /\ bucket \in [Buckets -> Bucket]
  /\ \A b \in Buckets : bucket[b].tokens <= Full(Rule(b))
  /\ excess \in [Buckets -> Nat]

(* `excess` is the greatest surplus, over all periods that end now, of     *)
(* what was admitted over rate times the length of the period.  It stays   *)
(* within the burst: in every period of t ticks, wherever it starts and    *)
(* however requests and idle times alternate, a rule admits at most        *)
(* burst + rate * t.                                                       *)
WithinRate == \A b \in Buckets : excess[b] <= Full(Rule(b))

(* Nothing is rejected needlessly: a request that is turned away would     *)
(* have exceeded the rule over some period, although earlier rejections    *)
(* have refilled the bucket and moved its clock.                           *)
RejectsOnlyExcess ==
  [][\A s \in Services, m \in Methods : Rejected(s, m) =>
       \E b \in Asked(s, m) : excess[b] + Scale > Full(Rule(b))]_vars
=============================================================================
