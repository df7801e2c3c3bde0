--------------------------- MODULE SnapshotCache ---------------------------
(***************************************************************************)
(* What the control stream promises a sidecar's discovery cache.  The      *)
(* registry goes through a sequence of states, one per revision.  At any   *)
(* time a cache holds one of them, whole, and it moves only forward.       *)
(***************************************************************************)
EXTENDS Naturals, Sequences

CONSTANTS Sidecars, Endpoints

VARIABLES history,   \* history[r]: the registered endpoints at revision r
          cache      \* sidecar -> [revision, endpoints]

vars == <<history, cache>>

EmptyCache == [revision |-> 0, endpoints |-> {}]

Init ==
  /\ history = << {} >>
  /\ cache = [s \in Sidecars |-> EmptyCache]

Commit ==
  /\ \E endpoints \in SUBSET Endpoints : history' = Append(history, endpoints)
  /\ UNCHANGED cache

Advance(s) ==
  /\ \E r \in 1..Len(history) :
       /\ r >= cache[s].revision
       /\ cache' = [cache EXCEPT ![s] = [revision |-> r, endpoints |-> history[r]]]
  /\ UNCHANGED history

Next == Commit \/ \E s \in Sidecars : Advance(s)

Spec == Init /\ [][Next]_vars
=============================================================================
