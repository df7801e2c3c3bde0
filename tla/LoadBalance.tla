----------------------------- MODULE LoadBalance -----------------------------
(***************************************************************************)
(* internal/loadbalance: the three pickers of picker.go and the Resolver   *)
(* of resolver.go that keeps a picker up to date.  New makes the picker    *)
(* that the algorithm of the sidecar names, and the state of the other two *)
(* is never touched.  The Resolver relies on no more of a picker than that *)
(* it returns an endpoint of the last Update, so it is explored by itself: *)
(* `part` says which of the four a behaviour is about.                     *)
(***************************************************************************)
EXTENDS Integers, FiniteSets

CONSTANTS Requests,       \* concurrent requests of a picker
          MaxEndpoints,   \* lists of round robin have 0..MaxEndpoints endpoints
          Cycle,          \* a common multiple of their lengths
          MaxNodes,       \* lists of weighted round robin have 0..MaxNodes
          MaxWeight,      \* largest weight in the metadata
          NotANumber,     \* metadata that Atoi rejects
          N,              \* least connections: instances are 1..N
          MaxCreated,     \* and MaxCreated leastNodes are ever created
          Callers,        \* the Resolver: concurrent requests,
          Members, Addresses, NoAddress,    \* its instances and addresses,
          MaxUpdates      \* and replacements of the cache

ASSUME LoadBalanceConstants ==
  /\ IsFiniteSet(Requests)
  /\ MaxEndpoints \in Nat \ {0}
  /\ Cycle \in Nat \ {0}
  /\ \A n \in 1..MaxEndpoints : Cycle % n = 0
  /\ MaxNodes \in Nat \ {0}
  /\ MaxWeight \in Nat \ {0}
  /\ NotANumber \notin Int
  /\ N \in Nat \ {0}
  /\ MaxCreated \in Nat \ {0}
  /\ NoAddress \notin Addresses
  /\ MaxUpdates \in Nat

VARIABLES part,
          length, index, loaded, fresh, ahead, late,           \* RoundRobin
          weight, level, picks,                                \* WeightedRoundRobin
          nodes, created, active, pc, next, best, bestCount,   \* LeastConnections
          overlap,
          cache, updates, picker, fingerprint, pos, endpoints, result   \* Resolver

RR == INSTANCE RoundRobin WITH next <- index, current <- fresh
WRR == INSTANCE WeightedRoundRobin WITH MaxEndpoints <- MaxNodes, current <- level
LC == INSTANCE LeastConnections WITH MaxNodes <- MaxCreated
RES == INSTANCE Resolver WITH Requests <- Callers, Instances <- Members, pc <- pos

rrVars == <<length, index, loaded, fresh, ahead, late>>
wrrVars == <<weight, level, picks>>
lcVars == <<nodes, created, active, pc, next, best, bestCount, overlap>>
resVars == <<cache, updates, picker, fingerprint, pos, endpoints, result>>
vars == <<part, rrVars, wrrVars, lcVars, resVars>>

(* New *)
Init ==
  /\ part \in {"round_robin", "weighted_round_robin", "least_connections", "resolver"}
  /\ RR!Init
  /\ WRR!Init
  /\ LC!Init
  /\ RES!Init

RoundRobinStep ==
  /\ part = "round_robin"
  /\ RR!Next
  /\ UNCHANGED <<part, wrrVars, lcVars, resVars>>

WeightedRoundRobinStep ==
  /\ part = "weighted_round_robin"
  /\ WRR!Next
  /\ UNCHANGED <<part, rrVars, lcVars, resVars>>

LeastConnectionsStep ==
  /\ part = "least_connections"
  /\ LC!Next
  /\ UNCHANGED <<part, rrVars, wrrVars, resVars>>

ResolverStep ==
  /\ part = "resolver"
  /\ RES!Next
  /\ UNCHANGED <<part, rrVars, wrrVars, lcVars>>

Next == RoundRobinStep \/ WeightedRoundRobinStep \/ LeastConnectionsStep \/ ResolverStep

(* A request that is in Resolver.Pick goes on. *)
Picks(r) ==
  /\ part = "resolver"
  /\ RES!UpdatePicker(r) \/ RES!Pick(r) \/ RES!PickFails(r)
  /\ UNCHANGED <<part, rrVars, wrrVars, lcVars>>

Spec == Init /\ [][Next]_vars /\ \A r \in Callers : WF_vars(Picks(r))

-----------------------------------------------------------------------------
(* Every variable keeps its type: the levels of weighted round robin stay  *)
(* above minus a total weight, late picks of round robin are no more than  *)
(* the requests there are.                                                 *)
TypeOK == RR!TypeOK /\ WRR!TypeOK /\ LC!TypeOK /\ RES!TypeOK

(* Round robin uses the endpoints of a snapshot evenly, up to the picks    *)
(* that loaded an older snapshot before Update and took an index after it. *)
EvenSpread == RR!EvenSpread

(* Weighted round robin gives each node exactly its weight in every cycle. *)
CycleExact == WRR!CycleExact

(* Within a cycle a node is never a whole pick ahead of its share, so that *)
(* heavy nodes are not picked in bursts, and with n nodes at most          *)
(* 1/2 + ... + 1/n picks behind it.                                        *)
Smooth == WRR!Smooth

(* The counters of least connections count the requests that hold a node,  *)
(* also after Update removed the node or replaced it by a new one.         *)
ActiveAccurate == LC!ActiveAccurate

(* Least connections takes a least loaded node, up to the changes other    *)
(* requests made during its scan.                                          *)
NearlyLeast == LC!NearlyLeast

(* Stale picks end: once the cache is no longer replaced, every pick sooner *)
(* or later returns an endpoint that is in the cache, although requests    *)
(* that listed earlier states may still put them back into the picker.     *)
StalePicksEnd == RES!StalePicksEnd
=============================================================================
