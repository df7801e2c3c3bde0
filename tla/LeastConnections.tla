-------------------------- MODULE LeastConnections --------------------------
(***************************************************************************)
(* LeastConnectionsPicker (internal/loadbalance/least_conn.go).  Picks     *)
(* share the read lock: each loads the active counter of one node after    *)
(* the other and then adds to the one it found least, while other picks    *)
(* and completions change the counters.  Update takes the write lock, so   *)
(* it never runs during a scan, but it does run while requests hold nodes: *)
(* a request keeps its *leastNode, which a removal and a new registration  *)
(* of the instance replaces by another one.                                *)
(***************************************************************************)
EXTENDS Integers, FiniteSets

CONSTANTS Requests,
          N,          \* instances are 1..N, in the order of the list
          MaxNodes    \* bound on leastNode objects ever created

Instances == 1..N
Nodes == 1..MaxNodes
NoNode == 0

VARIABLES nodes,      \* instance -> its node, NoNode when it is not listed
          created,    \* nodes created so far
          active,     \* node -> its atomic counter
          pc,         \* request -> "idle", "scanning" (holds p.mu for reading), "calling"
          next,       \* request -> the instance it loads next
          best,       \* request -> the node found least, then the one it holds
          bestCount,  \* request -> the count loaded from it
          overlap     \* request -> changes by others since its scan began
                      \* (history, saturated where it exceeds every count)

vars == <<nodes, created, active, pc, next, best, bestCount, overlap>>

Listed == {i \in Instances : nodes[i] # NoNode}

Init ==
  /\ nodes = [i \in Instances |-> NoNode]
  /\ created = 0
  /\ active = [n \in Nodes |-> 0]
  /\ pc = [r \in Requests |-> "idle"]
  /\ next = [r \in Requests |-> 1]
  /\ best = [r \in Requests |-> NoNode]
  /\ bestCount = [r \in Requests |-> 0]
  /\ overlap = [r \in Requests |-> 0]

-----------------------------------------------------------------------------
(* Mutated form: a node that stays is built afresh, with a count of zero. *)
UpdateResets(list) ==
  LET new == list \ Listed
      Created(i) == created + Cardinality({j \in new : j <= i}) IN
  /\ \A r \in Requests : pc[r] # "scanning"
  /\ created + Cardinality(new) <= MaxNodes
  /\ nodes' = [i \in Instances |->
                 IF i \notin list THEN NoNode
                 ELSE IF i \in new THEN Created(i) ELSE nodes[i]]
  /\ created' = created + Cardinality(new)
  /\ active' = [n \in Nodes |-> IF \E i \in list : nodes[i] = n THEN 0 ELSE active[n]]
  /\ UNCHANGED <<pc, next, best, bestCount, overlap>>

(* Update keeps the node of an instance that stays and creates one, with a *)
(* count of zero, for an instance that is new.                             *)
Update(list) ==
  LET new == list \ Listed
      Created(i) == created + Cardinality({j \in new : j <= i}) IN
  /\ \A r \in Requests : pc[r] # "scanning"
  /\ created + Cardinality(new) <= MaxNodes
  /\ nodes' = [i \in Instances |->
                 IF i \notin list THEN NoNode
                 ELSE IF i \in new THEN Created(i) ELSE nodes[i]]
  /\ created' = created + Cardinality(new)
  /\ UNCHANGED <<active, pc, next, best, bestCount, overlap>>

(* p.mu.RLock(); the scan starts from nodes[0]. *)
StartScan(r) ==
  LET first == CHOOSE i \in Listed : \A j \in Listed : i <= j IN
  /\ pc[r] = "idle"
  /\ Listed # {}
  /\ pc' = [pc EXCEPT ![r] = "scanning"]
  /\ next' = [next EXCEPT ![r] = first + 1]
  /\ best' = [best EXCEPT ![r] = nodes[first]]
  /\ bestCount' = [bestCount EXCEPT ![r] = active[nodes[first]]]
  /\ overlap' = [overlap EXCEPT ![r] = 0]
  /\ UNCHANGED <<nodes, created, active>>

(* Mutated form: the comparison is the wrong way round. *)
LoadMost(r) ==
  LET node == nodes[next[r]] IN
  /\ pc[r] = "scanning"
  /\ next[r] \in Instances
  /\ next' = [next EXCEPT ![r] = @ + 1]
  /\ IF node # NoNode /\ active[node] > bestCount[r]
     THEN /\ best' = [best EXCEPT ![r] = node]
          /\ bestCount' = [bestCount EXCEPT ![r] = active[node]]
     ELSE UNCHANGED <<best, bestCount>>
  /\ UNCHANGED <<nodes, created, active, pc, overlap>>

(* count := node.active.Load(); count < bestCount *)
Load(r) ==
  LET node == nodes[next[r]] IN
  /\ pc[r] = "scanning"
  /\ next[r] \in Instances
  /\ next' = [next EXCEPT ![r] = @ + 1]
  /\ IF node # NoNode /\ active[node] < bestCount[r]
     THEN /\ best' = [best EXCEPT ![r] = node]
          /\ bestCount' = [bestCount EXCEPT ![r] = active[node]]
     ELSE UNCHANGED <<best, bestCount>>
  /\ UNCHANGED <<nodes, created, active, pc, overlap>>

(* A change of a counter, noted by the other requests. *)
Disturb(r) ==
  overlap' = [q \in Requests |->
                IF q = r THEN 0
                ELSE IF pc[q] = "scanning" /\ overlap[q] < Cardinality(Requests)
                     THEN overlap[q] + 1 ELSE overlap[q]]

(* best.active.Add(1); p.mu.RUnlock() *)
Take(r) ==
  /\ pc[r] = "scanning"
  /\ next[r] = N + 1
  /\ active' = [active EXCEPT ![best[r]] = @ + 1]
  /\ pc' = [pc EXCEPT ![r] = "calling"]
  /\ next' = [next EXCEPT ![r] = 1]
  /\ bestCount' = [bestCount EXCEPT ![r] = 0]
  /\ Disturb(r)
  /\ UNCHANGED <<nodes, created, best>>

(* PickResult.Done, once per pick. *)
Done(r) ==
  /\ pc[r] = "calling"
  /\ active' = [active EXCEPT ![best[r]] = @ - 1]
  /\ pc' = [pc EXCEPT ![r] = "idle"]
  /\ best' = [best EXCEPT ![r] = NoNode]
  /\ Disturb(r)
  /\ UNCHANGED <<nodes, created, next, bestCount>>

Next ==
  \/ \E list \in SUBSET Instances : Update(list)
  \/ \E r \in Requests : StartScan(r) \/ Load(r) \/ Take(r) \/ Done(r)

Spec == Init /\ [][Next]_vars

-----------------------------------------------------------------------------
(* Every variable keeps its type. *)
TypeOK ==
  /\ nodes \in [Instances -> Nodes \cup {NoNode}]
  /\ created \in 0..MaxNodes
  /\ active \in [Nodes -> 0..Cardinality(Requests)]
  /\ pc \in [Requests -> {"idle", "scanning", "calling"}]
  /\ next \in [Requests -> 1..(N + 1)]
  /\ best \in [Requests -> Nodes \cup {NoNode}]
  /\ bestCount \in [Requests -> 0..Cardinality(Requests)]
  /\ overlap \in [Requests -> 0..Cardinality(Requests)]

(* The counter of a node is the number of requests that hold it, also for  *)
(* nodes that Update removed, and whose instance is back with a new node.  *)
ActiveAccurate ==
  \A n \in Nodes :
    active[n] = Cardinality({r \in Requests : pc[r] = "calling" /\ best[r] = n})

(* A pick goes to a least loaded node, up to the changes other requests    *)
(* made while it was scanning: alone, it takes an exact minimum.           *)
NearlyLeast ==
  [][\A r \in Requests : Take(r) =>
       \A i \in Listed : active[best[r]] <= active[nodes[i]] + overlap[r]]_vars
=============================================================================
