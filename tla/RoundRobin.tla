----------------------------- MODULE RoundRobin -----------------------------
(***************************************************************************)
(* RoundRobinPicker (internal/loadbalance/round_robin.go).  A pick loads   *)
(* the snapshot and then adds to p.next: two atomic operations, without a  *)
(* lock, so Update and other picks run between them, and a pick may take   *)
(* its index after the snapshot it loaded has been replaced.               *)
(*                                                                         *)
(* p.next is only used modulo the length of a snapshot, so it is kept      *)
(* modulo a common multiple of the lengths.  The wrap of its 64 bits,      *)
(* after 2^64 picks, is left out.                                          *)
(***************************************************************************)
EXTENDS Integers, FiniteSets

CONSTANTS Requests,
          MaxEndpoints,   \* a snapshot lists 0..MaxEndpoints endpoints
          Cycle           \* a common multiple of the lengths

VARIABLES length,   \* of the current endpointSnapshot
          next,     \* p.next % Cycle
          loaded,   \* request -> the length of the snapshot it loaded, 0 outside Pick
          current,  \* request -> whether that snapshot is still the current one
          ahead,    \* position -> picks of the current snapshot there, beyond
                    \* those of the position with the fewest (history)
          late      \* picks from older snapshots since the last Update (history)

vars == <<length, next, loaded, current, ahead, late>>

Positions == 0..(MaxEndpoints - 1)
Used == 0..(length - 1)

Init ==
  /\ length = 0
  /\ next = 0
  /\ loaded = [r \in Requests |-> 0]
  /\ current = [r \in Requests |-> FALSE]
  /\ ahead = [i \in Positions |-> 0]
  /\ late = 0

(* Update stores a new snapshot; p.next goes on. *)
Update(n) ==
  /\ length' = n
  /\ current' = [r \in Requests |-> FALSE]
  /\ ahead' = [i \in Positions |-> 0]
  /\ late' = 0
  /\ UNCHANGED <<next, loaded>>

(* snap := p.snapshot.Load(); an empty one is ErrNoEndpoint. *)
Load(r) ==
  /\ loaded[r] = 0
  /\ length > 0
  /\ loaded' = [loaded EXCEPT ![r] = length]
  /\ current' = [current EXCEPT ![r] = TRUE]
  /\ UNCHANGED <<length, next, ahead, late>>

CountPick(i) ==
  LET counted == [ahead EXCEPT ![i] = @ + 1]
      least == IF \A j \in Used : counted[j] > 0 THEN 1 ELSE 0
  IN  ahead' = [j \in Positions |-> IF j \in Used THEN counted[j] - least ELSE 0]

(* Mutated form: the index of a pick is not claimed atomically, and two    *)
(* picks that run at the same time get the same one.                       *)
PickNotClaimed(r) ==
  /\ loaded[r] > 0
  /\ next' = IF \E q \in Requests \ {r} : loaded[q] > 0 THEN next
             ELSE (next + 1) % Cycle
  /\ IF current[r] THEN CountPick(next % loaded[r]) /\ UNCHANGED late
     ELSE late' = late + 1 /\ UNCHANGED ahead
  /\ loaded' = [loaded EXCEPT ![r] = 0]
  /\ current' = [current EXCEPT ![r] = FALSE]
  /\ UNCHANGED length

(* index := p.next.Add(1) - 1; snap.endpoints[index % len(snap.endpoints)] *)
Pick(r) ==
  /\ loaded[r] > 0
  /\ next' = (next + 1) % Cycle
  /\ IF current[r] THEN CountPick(next % loaded[r]) /\ UNCHANGED late
     ELSE late' = late + 1 /\ UNCHANGED ahead
  /\ loaded' = [loaded EXCEPT ![r] = 0]
  /\ current' = [current EXCEPT ![r] = FALSE]
  /\ UNCHANGED length

Next ==
  \/ \E n \in 0..MaxEndpoints : Update(n)
  \/ \E r \in Requests : Load(r) \/ Pick(r)

Spec == Init /\ [][Next]_vars

-----------------------------------------------------------------------------
(* Every variable keeps its type; there are no more late picks than        *)
(* requests that were in Pick at the last Update.                          *)
TypeOK ==
  /\ length \in 0..MaxEndpoints
  /\ next \in 0..(Cycle - 1)
  /\ loaded \in [Requests -> 0..MaxEndpoints]
  /\ current \in [Requests -> BOOLEAN]
  /\ ahead \in [Positions -> Nat]
  /\ late \in 0..Cardinality(Requests)

(* The endpoints of a snapshot are used evenly, whatever the interleaving: *)
(* their picks differ by at most one, and by one more for each index that  *)
(* a late pick of an older snapshot used up, of which there are at most as *)
(* many as there are concurrent requests.                                  *)
EvenSpread == \A i \in Used : ahead[i] <= 1 + late
=============================================================================
