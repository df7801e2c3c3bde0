------------------------- MODULE WeightedRoundRobin -------------------------
(***************************************************************************)
(* WeightedRoundRobinPicker (internal/loadbalance/weighted.go): smooth     *)
(* weighted round robin.  Pick and Update run under p.mu, so each is one   *)
(* step.  A node is a position of the list, and the metadata of an         *)
(* endpoint is reduced to the number Atoi reads in it.                     *)
(***************************************************************************)
EXTENDS Integers, FiniteSetsExt

CONSTANTS MaxEndpoints,   \* lists have 0..MaxEndpoints endpoints
          MaxWeight,      \* largest weight in the metadata
          NotANumber      \* metadata without a weight, or with one that Atoi rejects

VARIABLES weight,   \* position -> weight
          current,  \* position -> current
          picks     \* position -> picks since Update or the last full cycle (history)

vars == <<weight, current, picks>>

Metadata == ((-1)..MaxWeight) \cup {NotANumber}

endpointWeight(md) ==
  IF md = NotANumber THEN 1
  ELSE IF md <= 0 THEN 1 ELSE md

Lists == UNION {[1..n -> Metadata] : n \in 0..MaxEndpoints}

Nodes == DOMAIN weight

Total == MapThenSumSet(LAMBDA i : weight[i], Nodes)

Picked == MapThenSumSet(LAMBDA i : picks[i], Nodes)

Zero(list) == [i \in DOMAIN list |-> 0]

Init ==
  /\ weight = <<>>
  /\ current = <<>>
  /\ picks = <<>>

Update(list) ==
  /\ weight' = [i \in DOMAIN list |-> endpointWeight(list[i])]
  /\ current' = Zero(list)
  /\ picks' = Zero(list)

(* Mutated form: every node gains one, whatever its weight. *)
RaisedByOne == [i \in Nodes |-> current[i] + 1]

(* p.nodes[i].current += p.nodes[i].weight *)
Raised == [i \in Nodes |-> current[i] + weight[i]]

(* Mutated form: weights are compared, not levels. *)
BestIsHeaviest(level) ==
  CHOOSE i \in Nodes : \A j \in Nodes :
    weight[j] < weight[i] \/ (weight[j] = weight[i] /\ i <= j)

(* The first node with the greatest current. *)
Best(level) ==
  CHOOSE i \in Nodes : \A j \in Nodes :
    level[j] < level[i] \/ (level[j] = level[i] /\ i <= j)

Pick ==
  LET best == Best(Raised) IN
  /\ Nodes # {}
  /\ current' = [Raised EXCEPT ![best] = @ - Total]
  /\ picks' = IF Picked = Total THEN [Zero(weight) EXCEPT ![best] = 1]
              ELSE [picks EXCEPT ![best] = @ + 1]
  /\ UNCHANGED weight

Next == Pick \/ \E list \in Lists : Update(list)

Spec == Init /\ [][Next]_vars

-----------------------------------------------------------------------------
(* Every variable keeps its type, and no current ever falls by a whole     *)
(* total weight below zero.                                                *)
TypeOK ==
  /\ weight \in UNION {[1..n -> 1..MaxWeight] : n \in 0..MaxEndpoints}
  /\ current \in [Nodes -> Int]
  /\ \A i \in Nodes : current[i] > -Total
  /\ picks \in [Nodes -> 0..Total]

(* Every cycle of as many picks as the weights add up to gives each node   *)
(* exactly its weight, in the first cycle and in every later one.          *)
CycleExact == Picked = Total => picks = weight

(* 1/2 + 1/3 + ... + 1/n, as a fraction. *)
Lag(n) ==
  LET den[k \in 1..n] == IF k = n THEN 1 ELSE (k + 1) * den[k + 1]
      num[k \in 1..n] == IF k = n THEN 0 ELSE (k + 1) * num[k + 1] + den[k + 1]
  IN  [num |-> num[1], den |-> den[1]]

(* Smooth: at every moment within a cycle a node is less than one pick     *)
(* ahead of its share, so that a heavy node never takes it in one burst,   *)
(* and at most 1/2 + ... + 1/n picks behind it, so that no node is         *)
(* neglected for long.                                                     *)
Smooth ==
  LET lag == Lag(Cardinality(Nodes)) IN
  \A i \in Nodes : LET error == picks[i] * Total - Picked * weight[i]
                   IN  /\ error < Total
                       /\ -error * lag.den <= lag.num * Total
=============================================================================
