---------------------------- MODULE Registration ----------------------------
(***************************************************************************)
(* Keeping a service endpoint registered: the registrar of a sidecar       *)
(* (internal/registration/registrar.go), the registry API of the control   *)
(* plane (internal/registry/store.go over internal/etcdhttp/client.go) and *)
(* the leases of etcd.                                                     *)
(*                                                                         *)
(* Every registrar owns one key.  A call to the API is a run of the etcd   *)
(* requests its handler makes; it can fail before or after any of them     *)
(* took effect (etcd or the control plane down, an answer lost, the client *)
(* timeout), and takes no effect after it failed.  Time is counted in      *)
(* ticks: a lease lives TTL of them, a call at most CallTimeout.           *)
(***************************************************************************)
EXTENDS Integers

CONSTANTS Registrars,
          Leases,        \* lease identities (reused when dead and forgotten)
          NoLease,
          TTL,           \* life of a lease
          CallTimeout,   \* http.Client.Timeout of the registrar
          MaxFailures,   \* bound on failed calls
          MaxLosses      \* bound on losses of etcd's data

(* keepAlive: TTL/3, but at least one second *)
Interval == IF TTL \div 3 < 1 THEN 1 ELSE TTL \div 3

(* The defaults, 15s and 3s, satisfy the last conjunct.  The code accepts  *)
(* shorter leases too: then one may end between two heartbeats.            *)
Constants ==
  /\ NoLease \notin Leases
  /\ TTL \in Nat
  /\ CallTimeout \in Nat
  /\ MaxFailures \in Nat
  /\ MaxLosses \in Nat
  /\ CallTimeout + Interval + CallTimeout < TTL

ASSUME RegistrationConstants == Constants

VARIABLES pc,         \* registrar -> where Run is
          lease,      \* registrar -> the lease of its call or of keepAlive
          due,        \* registrar -> ticks until keepAlive's ticker fires
          budget,     \* registrar -> ticks until its call times out
          cancelled,  \* registrars whose context is cancelled
          ttl,        \* etcd: lease -> ticks it has left, 0 = no such lease
          kv,         \* etcd: registrar -> lease its key is attached to
          failures, losses

registrarVars == <<pc, lease, due, budget>>
etcdVars == <<ttl, kv>>
vars == <<registrarVars, cancelled, etcdVars, failures, losses>>

RegisterCall == {"granting", "putting", "responding"}
HeartbeatCall == {"renewing", "renewed"}
DeregisterCall == {"deleting", "revoking"}
RegistrarPC == RegisterCall \cup HeartbeatCall \cup DeregisterCall
                 \cup {"keepalive", "delay", "stopped"}

Init ==
  /\ pc = [r \in Registrars |-> "granting"]
  /\ lease = [r \in Registrars |-> NoLease]
  /\ due = [r \in Registrars |-> 0]
  /\ budget = [r \in Registrars |-> CallTimeout]
  /\ cancelled = {}
  /\ ttl = [l \in Leases |-> 0]
  /\ kv = [r \in Registrars |-> NoLease]
  /\ failures = 0
  /\ losses = 0

-----------------------------------------------------------------------------
(* etcd requests, as internal/etcdhttp/client.go makes them. *)

Alive(l) == l \in Leases /\ ttl[l] > 0

(* An identity no registrar and no key refers to any more. *)
Grantable(l) == ttl[l] = 0 /\ \A r \in Registrars : lease[r] # l /\ kv[r] # l

Grant(l) == ttl' = [ttl EXCEPT ![l] = TTL]

(* Put attaches the key to the lease and detaches it from the one before. *)
Put(r, l) == kv' = [kv EXCEPT ![r] = l]

(* A lease that ends takes the keys attached to it along. *)
EndLeases(ended) ==
  /\ ttl' = [l \in Leases |-> IF l \in ended THEN 0 ELSE ttl[l]]
  /\ kv' = [r \in Registrars |-> IF kv[r] \in ended THEN NoLease ELSE kv[r]]

(* Mutated form: the request does not renew the lease. *)
KeepAliveOnceIdle(l) == UNCHANGED ttl

(* KeepAliveOnce renews a lease.  For a lease etcd does not know the       *)
(* answer has TTL 0, which KeepAliveOnce does not look at.                 *)
KeepAliveOnce(l) == ttl' = [ttl EXCEPT ![l] = IF @ > 0 THEN TTL ELSE 0]

-----------------------------------------------------------------------------
(* Run.  Every step of a call works or fails. *)

Goto(r, next) == pc' = [pc EXCEPT ![r] = next]

(* Run waits for retryDelay or returns; the lease is forgotten. *)
Leave(r, next) ==
  /\ Goto(r, next)
  /\ lease' = [lease EXCEPT ![r] = NoLease]
  /\ UNCHANGED <<due, budget>>

Fail ==
  /\ failures < MaxFailures
  /\ failures' = failures + 1

GrantWorks(r) ==
  /\ pc[r] = "granting"
  /\ \E l \in Leases :
       /\ Grantable(l)
       /\ Grant(l)
       /\ lease' = [lease EXCEPT ![r] = l]
  /\ Goto(r, "putting")
  /\ UNCHANGED <<due, budget, cancelled, kv, failures, losses>>

(* The lease may have been granted all the same. *)
GrantFails(r) ==
  /\ pc[r] = "granting"
  /\ Fail
  /\ \/ UNCHANGED ttl
     \/ \E l \in Leases : Grantable(l) /\ Grant(l)
  /\ Leave(r, "delay")
  /\ UNCHANGED <<cancelled, kv, losses>>

PutWorks(r) ==
  /\ pc[r] = "putting"
  /\ Alive(lease[r])
  /\ Put(r, lease[r])
  /\ Goto(r, "responding")
  /\ UNCHANGED <<lease, due, budget, cancelled, ttl, failures, losses>>

(* etcd refuses a Put with a lease it does not know. *)
PutRefused(r) ==
  /\ pc[r] = "putting"
  /\ ~Alive(lease[r])
  /\ Leave(r, "delay")
  /\ UNCHANGED <<cancelled, etcdVars, failures, losses>>

(* The Put fails, though the key may have been written.  Register then     *)
(* revokes the lease, which may fail too.  A key that was written goes     *)
(* with the lease, although it may have been attached to another before.   *)
PutFails(r) ==
  /\ pc[r] = "putting"
  /\ Alive(lease[r])
  /\ Fail
  /\ \/ UNCHANGED etcdVars
     \/ Put(r, lease[r]) /\ UNCHANGED ttl
     \/ EndLeases({lease[r]})
     \/ ttl' = [ttl EXCEPT ![lease[r]] = 0] /\ Put(r, NoLease)
  /\ Leave(r, "delay")
  /\ UNCHANGED <<cancelled, losses>>

(* register returns the lease; keepAlive starts its ticker. *)
RegisterReturns(r) ==
  /\ pc[r] = "responding"
  /\ due' = [due EXCEPT ![r] = Interval]
  /\ Goto(r, "keepalive")
  /\ UNCHANGED <<lease, budget, cancelled, etcdVars, failures, losses>>

RegisterFails(r) ==
  /\ pc[r] = "responding"
  /\ Fail
  /\ Leave(r, "delay")
  /\ UNCHANGED <<cancelled, etcdVars, losses>>

TickerFires(r) ==
  /\ pc[r] = "keepalive"
  /\ due[r] = 0
  /\ due' = [due EXCEPT ![r] = Interval]
  /\ budget' = [budget EXCEPT ![r] = CallTimeout]
  /\ Goto(r, "renewing")
  /\ UNCHANGED <<lease, cancelled, etcdVars, failures, losses>>

Renew(r) ==
  /\ pc[r] = "renewing"
  /\ KeepAliveOnce(lease[r])
  /\ Goto(r, "renewed")
  /\ UNCHANGED <<lease, due, budget, cancelled, kv, failures, losses>>

HeartbeatReturns(r) ==
  /\ pc[r] = "renewed"
  /\ Goto(r, "keepalive")
  /\ UNCHANGED <<lease, due, budget, cancelled, etcdVars, failures, losses>>

(* Mutated form: Run gives up on the first failed heartbeat. *)
HeartbeatFailsForGood(r) ==
  /\ pc[r] \in HeartbeatCall
  /\ r \notin cancelled
  /\ Fail
  /\ Leave(r, "stopped")
  /\ UNCHANGED <<cancelled, etcdVars, losses>>

HeartbeatFails(r) ==
  /\ pc[r] \in HeartbeatCall
  /\ r \notin cancelled
  /\ Fail
  /\ Leave(r, "delay")
  /\ UNCHANGED <<cancelled, etcdVars, losses>>

(* Mutated form: the loop does not look at its context. *)
RetryAfterCancel(r) ==
  /\ pc[r] \in {"delay", "stopped"}
  /\ budget' = [budget EXCEPT ![r] = CallTimeout]
  /\ Goto(r, "granting")
  /\ UNCHANGED <<lease, due, cancelled, etcdVars, failures, losses>>

(* After retryDelay the loop registers again. *)
Retry(r) ==
  /\ pc[r] = "delay"
  /\ r \notin cancelled
  /\ budget' = [budget EXCEPT ![r] = CallTimeout]
  /\ Goto(r, "granting")
  /\ UNCHANGED <<lease, due, cancelled, etcdVars, failures, losses>>

Cancel(r) ==
  /\ r \notin cancelled
  /\ cancelled' = cancelled \cup {r}
  /\ UNCHANGED <<registrarVars, etcdVars, failures, losses>>

(* keepAlive returns and Run goes on to bestEffortDeregister. *)
CancelledInKeepAlive(r) ==
  /\ pc[r] \in HeartbeatCall \cup {"keepalive"}
  /\ r \in cancelled
  /\ Goto(r, "deleting")
  /\ UNCHANGED <<lease, due, budget, cancelled, etcdVars, failures, losses>>

(* The cancellation cuts register short, or comes during the retry delay:  *)
(* Run returns without deregistering.                                      *)
CancelledElsewhere(r) ==
  /\ pc[r] \in RegisterCall \cup {"delay"}
  /\ r \in cancelled
  /\ Leave(r, "stopped")
  /\ UNCHANGED <<cancelled, etcdVars, failures, losses>>

(* Deregister deletes the key, then revokes the lease. *)
Delete(r) ==
  /\ pc[r] = "deleting"
  /\ kv' = [kv EXCEPT ![r] = NoLease]
  /\ Goto(r, "revoking")
  /\ UNCHANGED <<lease, due, budget, cancelled, ttl, failures, losses>>

Revoke(r) ==
  /\ pc[r] = "revoking"
  /\ EndLeases({lease[r]})
  /\ Leave(r, "stopped")
  /\ UNCHANGED <<cancelled, failures, losses>>

DeregisterFails(r) ==
  /\ pc[r] \in DeregisterCall
  /\ Fail
  /\ Leave(r, "stopped")
  /\ UNCHANGED <<cancelled, etcdVars, losses>>

(* The sidecar ends, wherever Run is: it crashes, main exits because of an *)
(* error found after the registrar was started, or main returns without    *)
(* waiting for the registrar.  The control plane may still finish the      *)
(* Register it is in: the request to etcd that is on its way, and the Put  *)
(* after a Grant.                                                          *)
ProcessEnds(r) ==
  /\ pc[r] # "stopped"
  /\ cancelled' = cancelled \cup {r}
  /\ \/ UNCHANGED etcdVars
     \/ /\ pc[r] = "granting"
        /\ \E l \in Leases : Grantable(l) /\ Grant(l) /\ (UNCHANGED kv \/ Put(r, l))
     \/ /\ pc[r] = "putting" /\ Alive(lease[r])
        /\ Put(r, lease[r])
        /\ UNCHANGED ttl
  /\ Leave(r, "stopped")
  /\ UNCHANGED <<failures, losses>>

-----------------------------------------------------------------------------
(* A tick passes only when nobody has something to do right now: a ticker  *)
(* that fired is served, a call that reached its timeout has returned.     *)
Overdue(r) ==
  \/ pc[r] = "keepalive" /\ due[r] = 0
  \/ pc[r] \in RegisterCall \cup HeartbeatCall /\ budget[r] = 0

Countdown(n) == IF n > 0 THEN n - 1 ELSE 0

Tick ==
  /\ \A r \in Registrars : ~Overdue(r)
  /\ due' = [r \in Registrars |-> Countdown(due[r])]
  /\ budget' = [r \in Registrars |-> Countdown(budget[r])]
  /\ ttl' = [l \in Leases |-> Countdown(ttl[l])]
  /\ kv' = [r \in Registrars |-> IF kv[r] \in Leases /\ ttl[kv[r]] <= 1
                                 THEN NoLease ELSE kv[r]]
  /\ UNCHANGED <<pc, lease, cancelled, failures, losses>>

(* etcd comes back without its data, between two heartbeats. *)
EtcdDataLoss ==
  /\ losses < MaxLosses
  /\ losses' = losses + 1
  /\ EndLeases(Leases)
  /\ UNCHANGED <<registrarVars, cancelled, failures>>

RunStep(r) ==
  \/ GrantWorks(r)
  \/ PutWorks(r)
  \/ PutRefused(r)
  \/ RegisterReturns(r)
  \/ TickerFires(r)
  \/ Renew(r)
  \/ HeartbeatReturns(r)
  \/ Retry(r)
  \/ CancelledInKeepAlive(r)
  \/ CancelledElsewhere(r)
  \/ Delete(r)
  \/ Revoke(r)

CallFails(r) ==
  \/ GrantFails(r)
  \/ PutFails(r)
  \/ RegisterFails(r)
  \/ HeartbeatFails(r)
  \/ DeregisterFails(r)

Next ==
  \/ Tick
  \/ EtcdDataLoss
  \/ \E r \in Registrars : RunStep(r) \/ CallFails(r) \/ Cancel(r) \/ ProcessEnds(r)

Spec == Init /\ [][Next]_vars

(* Time passes, and calls that do not fail make progress. *)
Fairness == WF_vars(Tick) /\ \A r \in Registrars : WF_vars(RunStep(r))

FairSpec == Spec /\ Fairness

-----------------------------------------------------------------------------
(* Every variable keeps its type. *)
TypeOK ==
  /\ pc \in [Registrars -> RegistrarPC]
  /\ lease \in [Registrars -> Leases \cup {NoLease}]
  /\ due \in [Registrars -> 0..Interval]
  /\ budget \in [Registrars -> 0..CallTimeout]
  /\ cancelled \subseteq Registrars
  /\ ttl \in [Leases -> 0..TTL]
  /\ kv \in [Registrars -> Leases \cup {NoLease}]
  /\ failures \in 0..MaxFailures
  /\ losses \in 0..MaxLosses

(* A registrar that is in keepAlive is registered: its key is in etcd,     *)
(* attached to the very lease it renews, and the lease is alive - whatever *)
(* leases and keys its earlier, half-done calls have left behind, unless   *)
(* etcd has lost its data.                                                 *)
KeepAliveMeansRegistered ==
  losses = 0 =>
    \A r \in Registrars :
      pc[r] \in HeartbeatCall \cup {"keepalive"} =>
        kv[r] = lease[r] /\ Alive(lease[r])

(* A registrar that was stopped disappears from the registry for good,     *)
(* also when its process ended before it deregistered, deregistering       *)
(* failed or etcd has lost its data meanwhile.                             *)
StoppedDisappears ==
  \A r \in Registrars : pc[r] = "stopped" ~> [](kv[r] = NoLease)

(* Once calls stop failing, a registrar that is not cancelled is and stays *)
(* registered, unless etcd has lost its data.                              *)
StaysRegistered ==
  \A r \in Registrars : <>[](r \in cancelled \/ kv[r] # NoLease \/ losses > 0)

(* So it does after a loss of etcd's data: the registrar notices that its  *)
(* lease is gone and registers again.                                      *)
RestoredAfterLoss ==
  \A r \in Registrars : <>[](r \in cancelled \/ kv[r] # NoLease)
=============================================================================
