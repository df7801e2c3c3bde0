------------------------------ MODULE Resolver ------------------------------
(***************************************************************************)
(* Resolver.Pick (internal/loadbalance/resolver.go) for one service, run   *)
(* by concurrent requests while the discovery cache is being replaced.     *)
(*                                                                         *)
(* Pick lists the endpoints, brings the service's picker up to date under  *)
(* r.mu, and picks after the mutex is released: three steps, between which *)
(* other requests and the control stream run.  The picker is any of the    *)
(* three algorithms; all it promises here is to return an endpoint of the  *)
(* last Update.  A list of endpoints, sorted by instance, is a function    *)
(* from instances to addresses; an address here stands for the address and *)
(* the weight of an endpoint, which the fingerprint both contains.         *)
(***************************************************************************)
EXTENDS Naturals

CONSTANTS Requests,
          Instances, Addresses,
          NoAddress,     \* the address of an instance that is not listed
          MaxUpdates     \* bound on replacements of the cache

VARIABLES cache,        \* discovery.Cache for the service
          updates,      \* replacements so far
          picker,       \* the endpoints the picker was last updated with
          fingerprint,  \* servicePicker.fingerprint
          pc,           \* request -> where it is
          endpoints,    \* request -> what Pick listed
          result        \* request -> the endpoint it got

vars == <<cache, updates, picker, fingerprint, pc, endpoints, result>>

EndpointList == [Instances -> Addresses \cup {NoAddress}]

NoEndpoints == [i \in Instances |-> NoAddress]

Listed(list) == {<<i, list[i]>> : i \in {j \in Instances : list[j] # NoAddress}}

NoResult == <<>>

(* Mutated form: an instance that moved has the same fingerprint. *)
endpointFingerprintOfIDs(list) == {i \in Instances : list[i] # NoAddress}

(* The parts "instance=address@weight", sorted and joined. *)
endpointFingerprint(list) == Listed(list)

Init ==
  /\ cache = NoEndpoints
  /\ updates = 0
  /\ picker = NoEndpoints
  /\ fingerprint = {}
  /\ pc = [r \in Requests |-> "idle"]
  /\ endpoints = [r \in Requests |-> NoEndpoints]
  /\ result = [r \in Requests |-> NoResult]

-----------------------------------------------------------------------------
(* The control stream replaces the cache. *)
CacheReplace ==
  /\ updates < MaxUpdates
  /\ updates' = updates + 1
  /\ cache' \in EndpointList
  /\ UNCHANGED <<picker, fingerprint, pc, endpoints, result>>

(* endpoints := r.source.List(service) *)
List(r) ==
  /\ pc[r] = "idle"
  /\ endpoints' = [endpoints EXCEPT ![r] = cache]
  /\ pc' = [pc EXCEPT ![r] = "listed"]
  /\ UNCHANGED <<cache, updates, picker, fingerprint, result>>

(* The critical section of Pick. *)
UpdatePicker(r) ==
  /\ pc[r] = "listed"
  /\ LET fp == endpointFingerprint(endpoints[r]) IN
       IF fingerprint # fp
       THEN picker' = endpoints[r] /\ fingerprint' = fp
       ELSE UNCHANGED <<picker, fingerprint>>
  /\ pc' = [pc EXCEPT ![r] = "updated"]
  /\ UNCHANGED <<cache, updates, endpoints, result>>

(* picker.Pick() *)
Pick(r) ==
  /\ pc[r] = "updated"
  /\ \E ep \in Listed(picker) : result' = [result EXCEPT ![r] = ep]
  /\ pc' = [pc EXCEPT ![r] = "calling"]
  /\ UNCHANGED <<cache, updates, picker, fingerprint, endpoints>>

(* ErrNoEndpoint *)
PickFails(r) ==
  /\ pc[r] = "updated"
  /\ Listed(picker) = {}
  /\ pc' = [pc EXCEPT ![r] = "idle"]
  /\ UNCHANGED <<cache, updates, picker, fingerprint, endpoints, result>>

Done(r) ==
  /\ pc[r] = "calling"
  /\ pc' = [pc EXCEPT ![r] = "idle"]
  /\ result' = [result EXCEPT ![r] = NoResult]
  /\ UNCHANGED <<cache, updates, picker, fingerprint, endpoints>>

Next ==
  \/ CacheReplace
  \/ \E r \in Requests :
       List(r) \/ UpdatePicker(r) \/ Pick(r) \/ PickFails(r) \/ Done(r)

Spec == Init /\ [][Next]_vars

-----------------------------------------------------------------------------
(* Every variable keeps its type, and the fingerprint is that of the list  *)
(* the picker was updated with.                                            *)
TypeOK ==
  /\ cache \in EndpointList
  /\ updates \in 0..MaxUpdates
  /\ picker \in EndpointList
  /\ fingerprint = endpointFingerprint(picker)
  /\ pc \in [Requests -> {"idle", "listed", "updated", "calling"}]
  /\ endpoints \in [Requests -> EndpointList]
  /\ \A r \in Requests :
       result[r] \in (Instances \X Addresses) \cup {NoResult}

(* Stale picks end: once the cache is no longer replaced, every pick sooner *)
(* or later returns an endpoint that is in the cache, although requests    *)
(* that listed earlier states may still put them back into the picker.     *)
PicksCurrent ==
  \A r \in Requests : pc[r] = "updated" /\ pc'[r] = "calling" =>
                        result'[r] \in Listed(cache)

StalePicksEnd == <>[][PicksCurrent]_vars

(* A removed instance is not selected: an endpoint that Pick returns is in *)
(* the list it started from, or is in the cache when it returns.           *)
NoStalePick ==
  [][\A r \in Requests : pc[r] = "updated" /\ pc'[r] = "calling" =>
       result'[r] \in Listed(cache) \cup Listed(endpoints[r])]_vars
=============================================================================
