# MiniMesh in TLA+

MiniMesh is a small service mesh in Go.  An application calls its local
*sidecar*; the sidecar finds the endpoints of the target service in a cache,
limits, balances, retries and breaks circuits, and forwards the call over a pool
of gRPC connections.  A *control plane* keeps the registered endpoints in etcd
under leases and streams full snapshots, tagged with etcd's revision, to every
sidecar.  Sidecars register the service beside them and keep its lease alive.
Two byte relays carry connections that are not calls of the proxy: a transparent
proxy for redirected connections, and an ingress that ends mutual TLS.

This directory models that system in TLA+, checks the models with TLC on small
instances, and proves every invariant and action property that the passing runs
check, and the two refinements, with TLAPS for every value of the constants.

## Parts of the system and where they are modelled

    application -> Invoke: validate, rate limit (RateLimiter)
                     |   Do: retry loop, budget (TokenBucket)           Proxy
                     v
                   pick (Resolver -> RoundRobin | WeightedRoundRobin | LeastConnections)
                     -> breaker.Allow (Breaker, CircuitBreaker)
                     -> pool.Acquire (ConnectionPool) -> upstream call
                     -> release, permit.Done, done

    etcd -> control stream server -> client -> discovery cache          ControlStream
    etcd -> discovery.Run -> discovery cache                            ControlStream
    registrar -> registry HTTP API -> etcd lease and key                Registration
    redirected or mTLS connection -> relay -> target                    Relay
    pool connection -> TLS handshake, identities -> mTLS ingress        MutualTLS
    main of the sidecar, main of the control plane                      SidecarProcess,
                                                                        ControlPlaneProcess

| Source | Module | State | Actions |
| --- | --- | --- | --- |
| `internal/resilience/circuitbreaker.go` | `Breaker` (the struct as a record, each method an operator), `CircuitBreaker` (one breaker, concurrent callers) | ring, counters, state, generation; permits of the callers | `AllowGranted`, `AllowRejected`, `Done`, `Tick` |
| the promise of that breaker | `AbstractBreaker` | mode, the outcomes that count, voters | admission, outcomes, probes |
| `internal/resilience/ratelimit.go`, `Budget` in `retry.go` | `TokenBucket` (operators), `RateLimiter` | one bucket per rule | `Admitted`, `Rejected`, `Tick` |
| `internal/connectionpool/pool.go` | `ConnectionPool` | entries, dials in flight, borrow counts, wait set of `p.cond`, reaper and closer | every critical section of `Acquire`, the dial's return, `Release`, `ReapIdle`, `Close` and the closes after the mutex is released |
| `internal/loadbalance/resolver.go` | `Resolver` | cache, the picker's list and fingerprint, lists held by requests | `List`, `UpdatePicker`, `Pick` |
| `internal/loadbalance/{picker,round_robin,weighted,least_conn}.go` | `LoadBalance`, which runs one of `RoundRobin`, `WeightedRoundRobin`, `LeastConnections`, or `Resolver` | snapshot and index; levels; node objects and their counters | `Update` and the atomic steps of `Pick` |
| `internal/proxy/server.go`, `Do` in `retry.go` | `Proxy` | per request: place, context, attempt, target, permit, error; per endpoint: breaker, picks, borrowed connections; the budget | every step of `Invoke`, `invokeAttempt` with its deferred calls, and `Do` |
| `internal/controlstream/{server,client}.go`, `Cache.Replace` and `Cache.Apply`, `FullSync`, `WatchPrefix`, `discovery.Run` | `ControlStream` | what feeds a cache (`path`: the stream or `discovery.Run`), history of the registry, handlers, streams, caches | commit, snapshot read, send, watch, receive, apply an event, break and reconnect; `CallRun`, the external caller of `discovery.Run` |
| that stream when etcd loses its data | `ControlStreamLoss` | and the losses | `EtcdDataLoss` |
| the promise of that stream | `SnapshotCache` | history, caches | commit, advance |
| `internal/registration/registrar.go`, `internal/registry/store.go`, etcd leases | `Registration` | registrar, its timers, leases, key | every call at etcd with success, failure and late effect; ticker, retry, cancellation, the end of the process at any point, time, data loss |
| `RetryConfig` and `Backoff` in `retry.go` | `RetryBackoff` | configuration, number and delay of the last retry, as integers of a fixed width | `Retry` |
| `internal/transparentproxy`, `internal/meshsecurity/relay.go` | `Relay` | accept loop, handler, two copiers, how far the bytes and the end of each direction have come, peers that left | accept, resolve or handshake, dial, read, write, pass on the end, return; what peers do |
| `internal/meshsecurity/identity.go`, `internal/proxy/connection_pool.go` | `MutualTLS` | who is at which address, generation of every leaf certificate, connections by pool key, the last call that arrived | the four steps of a handshake, dial, close, call; addresses move, certificates are replaced and expire, connections break |
| `cmd/sidecar/main.go` | `SidecarProcess` | options, stage of main, exit code, context, readiness flags, every goroutine, calls in flight, pool | one action per stage, with its exits; failures, signal, the steps of the shutdown goroutine |
| `cmd/control-plane/main.go` | `ControlPlaneProcess` | main, context, both servers, requests, streams, shutdown goroutine | the same |

The `*Proofs` modules hold the theorems.  `Proxy` composes: it uses the very
operators of `Breaker` and `TokenBucket` that `CircuitBreaker` and `RateLimiter`
check by themselves, and keeps of picker and pool what an attempt has to give
back.  `MCProxy` gives constants that a configuration file cannot write down.
`LoadBalance`, `MCResilience` and `MCProcesses` each explore several modules that
share no state: a variable `part` says which one a behaviour is about, and the
others stay as they began.

Definitions called "mutated form" are what a plausible mistake in the code would
have made of the definition after them.  No specification uses them; they are
there so that each property can be shown to fail when the code is wrong.

### Abstractions

* Critical sections are one step; everything between two of them is not.
  Lock-free code (`LeastConnections`, `RoundRobin`) has a step per atomic
  operation.
* Time is a `Tick` action.  A stored timestamp is kept as the time that has passed
  since, saturated where the code can no longer tell the difference.
* Tokens are counted in fractions instead of floating-point numbers; rounding is
  left out.  The failure rate is compared by cross multiplication, which is what
  the correctly rounded division of the code decides.
* What an upstream may answer stands for its class: retryable and a circuit
  failure (`unavailable`), a circuit failure only (`deadline_exceeded`), neither
  (`not_found`, `canceled`).  The codes the proxy gives by itself are those of the
  code.
* A request that failed may have taken effect, but takes none later: a call of
  the registrar that is cut short has done by then what it will do.
* The revision of etcd is the index of the registry's history.  A watch delivers
  the events from its start revision on, in order, or the stream fails.
* A relayed direction is a row of counters: bytes sent, read, written and
  received, and whether the end was sent, passed on and seen.
* An identity is the owner of a certificate, or none; a chain verifies when
  certificate and key are of the same generation and it has not expired.
* A stage of a process that may fail (listening, parsing, loading files) either
  succeeds or exits with the code the source gives.
* Metrics, logs, tracing, JSON and metadata are left out.

## What the runs check

| Run | Instance | Shows |
| --- | --- | --- |
| `resilience` | 3 callers, window 3, 2 probes, 7 generations; 4 routes under 3 rules; all retry configurations of 5 bits, 6 retries | `WindowAccurate`, `ProbesAccounted`, `ClosedBelowThreshold`; `ImplementsAbstract`: the breaker refines `AbstractBreaker`; `HalfOpenDecides` and `OpenIsProbed`: it gets stuck neither half-open nor open. `WithinRate`, `RejectsOnlyExcess` of the limiter. `BackoffExact`: the delay is the closed form, capped, and never wraps |
| `control_stream` | 1 cache, fed by the stream or directly, 2 endpoints, 5 revisions, 2 failures | `ImplementsSnapshotCache`: a cache is always one whole state of the registry and moves forward; `IdleMeansCurrent`: a watch with nothing left and nothing in transit means up to date; `CachesConverge` |
| `control_stream_data_loss` | with etcd's data lost once | violated, see below |
| `pool` | 3 callers, 1 target, 3 connections, cap 2 | `CapRespected`, `ActiveCountsHolders`, `LentStaysOpen`, `OneOwner`; `AcquireReturns`, `CloseClosesAll` |
| `registration` | 1 registrar, 4 leases, 2 failing calls, a loss of etcd's data | `StaysRegistered` until the loss, `StoppedDisappears` in any case, also when the process ends without deregistering |
| `registration_data_loss` | 2 leases, a loss of etcd's data | violated, see below |
| `load_balance` | 3 requests; up to 3 endpoints, or up to 4 with weights up to 3, missing and invalid, or 2 instances and 3 node objects; a Resolver with 2 requests, 2 instances, 2 addresses, 2 updates | `EvenSpread`, `CycleExact`, `Smooth`, `ActiveAccurate`, `NearlyLeast`, each about the picker that the algorithm names (`Smooth`: within a cycle a node of n is less than one pick ahead of its share and at most 1/2 + ... + 1/n picks behind it); `StalePicksEnd` of the Resolver |
| `resolver_stale` | 2 requests, 2 instances, 2 updates | violated, see below |
| `proxy` | 2 requests, 2 attempts each, 2 endpoints, budget of 1 | `NothingLeaks`, `ProbesReport`, `HonestResult`, `RetriesOnlyRetryable` |
| `proxy_returns` | 2 requests, 1 endpoint | `InvokeReturns` |
| `processes` | all 32 sets of options, 2 calls; 1 request and 2 streams of the control plane; a byte per direction; 2 services at 1 address, one move, rotation and break; 2 registrars, 2 leases, a failing call | `GracefulExit`: accepted calls are drained before the pool is closed and main returns; `ReadyMeansListening`; `ProcessesEnd`: a signal or a failed server ends either process; `CleanEndIsComplete` and `RelayEnds` of the relays; `TalksToService` and `ReconnectsAfterRotation` of the secure connections; `KeepAliveMeansRegistered` of registrars that share etcd's leases |
| `control_plane_drain` | 1 request, 1 stream | violated, see below |

### Bounds

The bounds are named constants.  `MaxGeneration` bounds the state changes of a
breaker: seven generations are two full rounds closed, open, half-open with
permits of every earlier period still out.  `MaxRevision` and `MaxBreaks` give a
stream time to fail while connecting, reading, sending and watching, and then to
catch up with several commits.  Three callers are the least at which two dial up
to the cap and one waits; three connections let a new one be dialled while a
reaped one is still to be closed.  Targets share nothing but the mutex and the
condition variable; the run has one, so what a wakeup for another target does to
liveness is not explored, while the proofs of the pool's safety are for any
number of targets.  Four leases are enough for a registrar that loses two of them to
failing calls.  Two registrars with two leases take them over from each other; the
proof of `KeepAliveMeansRegistered` is for any number of both.  Two updates of the cache are the least at which an old list can overtake
a new one.  Requests of `Proxy` are invoked once, which bounds the generations of
its breakers; with two attempts each, two of them take a breaker from closed over
open and half-open back to closed or open.  `RoundRobin`, `WeightedRoundRobin`
and `RateLimiter` run without a bound on time: their counters are kept modulo
what the code can tell apart.

A width of five bits has every relation between initial backoff, cap and the
largest duration that the code tells apart, and six retries double past it.  One
byte is enough for each relation of bytes to the end of a direction (none,
on its way, arrived); the proof is for any number.  One address is the one two
services may share or take over from each other, and one rotation falls between
any two steps of a handshake; the proof of `TalksToService` is for any number of
each.  Calls and streams of the processes matter only as none or some.

`proxy` uses symmetry of requests and endpoints; it checks no liveness.

### Fairness

* `CircuitBreaker`: time passes; an attempt reports, because `invokeAttempt`
  defers `Done` and runs under a deadline; calls keep arriving.  None for
  rejections or for a particular outcome.
* `ControlStream`: handler and client goroutines run, and the client of the
  stream reconnects (`controlstream.Run`).  None for commits or for failures,
  which are bounded.  None either for calls of `discovery.Run`: it does not retry
  and no binary calls it, so `CachesConverge` promises nothing for a cache whose
  `Run` has returned, or was not called.
* `ConnectionPool`: callers, reaper and closer run, contexts end, and a dial returns once its context has ended.  A
  connection may be kept for ever, and nobody has to close the pool.  Contexts
  end because the proxy gives each call a deadline, which it does only if
  `--request-timeout` is positive; the default is 2s, and 0 leaves the deadline to
  the application.
* `Registration`: time passes, and a registrar that is not waiting runs.
* `Resolver`: a request inside `Pick` goes on.
* `MCProcesses`: main and the goroutines of a process that has not ended run, as
  do the handler and copiers of a relay.  A peer that has not left takes what
  arrives and, having seen the end of its input, finishes its output: this is an
  assumption about the applications, without which a relay rightly keeps a
  connection open.  Calls return (`InvokeReturns`, so
  with a positive `--request-timeout`), and a `grpc.ClientConn` that lost its
  connection tries again.  grpc-go does so with the next call on it; without one
  the reaper closes the connection in the end, which `ReconnectsAfterRotation`
  allows.  Each step of a process or a relay happens a
  bounded number of times, so one weak fairness condition on all of them says as
  much as one on each.
* `Proxy`: a request goes on, its deadline passes (`--request-timeout`, see above), and a
  call returns when its context ends.  Nothing makes the upstream answer.

Deadlock is not checked where the system may really stop: a stream on which
nothing happens any more just waits (`control_stream` and its data-loss variant),
a call has made its last retry (`resilience`), a process has ended or a relayed
connection is closed (`processes`, `control_plane_drain`).

## Where code and documents disagree

* **Stale cache after a loss of etcd's data** (`control_stream_data_loss`).
  `Cache.Replace` rejects lower revisions, and an etcd that starts empty has lower
  ones until it has caught up; the documents say that the new stream restores the latest
  state, and name the loss of the `emptyDir` volume as an event the system
  recovers from.
* **No new registration after a loss of etcd's data** (`registration_data_loss`).
  `KeepAliveOnce` takes the answer for an unknown lease as a success.
* **The drain of the control streams is cut short** (`control_plane_drain`).
  `srv.Shutdown` makes `ListenAndServe` return, and main returns with it, before
  the drain window that the comment at `cmd/control-plane/main.go:53` describes
  has begun.  The streams end with the process and the sidecars reconnect, which
  is what `control_stream` covers.
* **A removed endpoint is picked again** (`resolver_stale`).  A request with an
  old list updates the shared picker after one with a new list.  `StalePicksEnd`
  shows that this ends.

Three more were seen while modelling and have no run of their own.  Interleavings
that show them were found with TLC on earlier properties, since removed.

* A context that ends does not wake a caller that sleeps on `p.cond`, although
  `docs/Stage-5-Retry-Timeout.md:11` counts Acquire in the request timeout.  The
  wait ends with the dials of others (`AcquireReturns`).
* Reaped connections are closed after the mutex is released.  The cap holds for
  the connections the pool knows (`CapRespected`); for a moment more sockets may
  be open, although `docs/Stage-4-连接管理.md:13` speaks of established ones.
* Every code that is not a failure code is a success to the breaker, also the
  `Canceled` of a probe whose caller went away, although
  `docs/Stage-6-Circuit-Breaker.md:17` closes on successful probes.

## What is proved

Each theorem is for every value of the constants that the named assumptions
allow.  A parts module (`MCResilience`, `LoadBalance`, `MCProcesses`) ends with
one theorem (`ResilienceSafe`, `LoadBalanceSafe`, `ProcessesSafe`) that carries the
results over to the specification its run explores.

### Breaker, limiter and backoff: `ResilienceProofs`

The breaker, with any finite set of callers, any window size, threshold, cooldown
and number of probes that `CircuitBreakerConfig.normalized` lets through
(`ConfigNormalized`), and any bound on generations:

* `Invariance`: `Spec => []IInv`;
* `TypeCorrect`, `WindowCorrect`, `ProbesCorrect`, `ClosedCorrect`: `Spec => []P`
  for its type invariant and the three invariants that the run `resilience` checks;
* `BreakerRefines`: `Spec => ImplementsAbstract`, the refinement of
  `AbstractBreaker`.

`IInv` is the conjunction of the four with `PermitsReached`: no permit is of a
generation the breaker has not reached.  Without it the invariants are not
inductive, since a permit from the future would become a voter of a half-open
period it was not counted in.  With it, a transition to a new generation leaves
no voter, so that the first probe is the only one; a grant adds one voter and one
in flight; a completion takes away one of each or, if it is stale, nothing.  For
the ring, `RecordClosedKeepsWindow` shows that overwriting a slot changes the
number of failed slots by what `recordClosed` adds and evicts; there the case of a
ring that is not full needs the second part of `WindowAccurate`: the slots from
`next` on hold no failure.

For the refinement, the ring read from its oldest slot on (`Outcomes`) is the
sequence of outcomes of `AbstractBreaker`: `recordClosed` appends to it and drops
the oldest when it is full.  `PermitsGranted` is added to the invariant: nobody
has a permit of an open breaker.  The lemmas about the operators of `Breaker` are
in `BreakerLemmas`, which `ProxyProofs` uses as well.

The limiter, with any rules and any `Scale` (`RateLimiterConstants`):
`AdmitsWithinRate` (`[]WithinRate`) and `RejectsNoOther` (`RejectsOnlyExcess`, an
action property).  Both follow from an equation, `LimiterInv`: what a bucket can
give and what its rule has admitted beyond its rate add up to the burst.

The backoff, for any width of a duration, any configuration and any number of
retries (`RetryBackoffConstants`): `DelaysExact` (`[]BackoffExact`).  The loop of
`Backoff` is a recursive function.  What it computes is shown by induction over
its index, with a *set* for the property (`IntervalInduction`), since the
induction theorems of the library, which take an operator, cannot be applied by
the provers here.

### Pickers and Resolver: `LoadBalanceProofs`, `FiniteSums`

With any finite set of requests and any numbers of endpoints, nodes, weights and
updates (`LoadBalanceConstants`):

* `SpreadsEvenly` (`[]EvenSpread`).  The invariant compares two endpoints by whose
  turn comes first: the later one was picked at most once more than the other,
  and once more again for each index that went to a pick of an older list.
* `CyclesExact` (`[]CycleExact`) and `PicksSmooth` (`[]Smooth`).  The level of a
  node is its share less what it was given (`CountsOK`), and levels add up to
  zero.  A level stays above minus the total, because the greatest one is picked
  and is not negative; hence no node exceeds its weight in a cycle, and at the
  end each has exactly that.  How far a node may be behind needs a statement
  about every *set* of nodes (`Behind`): no k of n nodes are behind by more than
  k(1/(k+1) + ... + 1/n) picks together.  A pick keeps it: the picked node has the
  greatest level once the weights are added, so k others have at most k/(k+1) of
  what they and the picked node have together.
* `ActiveCorrect` (`[]ActiveAccurate`) and `PicksNearlyLeast` (`NearlyLeast`, an
  action property) of least connections.
* `ResolverTypes`: the fingerprint is that of the list the picker was last
  updated with.

That a node is less than one pick behind is true of few nodes only: with weights
1, 1, 1, 5, 5, 5 it fails.  `Smooth` therefore has the bound that is proved.

`FiniteSums` holds what refers to no state: induction over numbers and over finite
sets, sums over finite sets (total, monotone, changed at one place), and the steps
of the argument above.

### Pool: `ConnectionPoolProofs`

With any finite sets of callers, targets and connections and every cap of at
least one (`PoolConstants`): `CapCorrect`, `ActiveCorrect`, `LentCorrect` and
`OwnersCorrect` for the four invariants that the run `pool` checks, and
`TypeCorrect`.  `CapRespected`, `ActiveCountsHolders` and
`LentStaysOpen` are conjuncts of `IInv`.  `OneOwner` counts the owners of a
connection, and a count is awkward to carry through a step, so `IInv` has it in
two halves: the owners exclude each other (`Disjoint`), and what is open is what
is owned (`OpenOwned`); `OwnersCounted` adds them up at the end.  `ClosedInv` is
needed for what happens after `Close`: the pool stays empty, and only then does
the closer own connections or a caller discard the one it dialled.

### Proxy: `ProxyProofs`

With any finite sets of requests and endpoints, any number of attempts, any
retryable and failure codes that do not include the success, any budget and any
normalized breaker (`ProxyConstants`, `ConfigNormalized`): `LeaksNothing`,
`ProbesCorrect`, `ResultHonest` and `RetriesCorrect` for the four properties that
the run `proxy` checks.  `IInv` says what a request holds at each place
(`RequestsInv`) and that the counters of picker and pool are the numbers of
requests at those places (`CountersInv`), from which `NothingLeaks` follows.
`BreakersInv` is the argument about the breaker once per endpoint:
`PermitsReached` again, and `BreakerOK`, without which a completion could not be
shown to move the counts of probes by one.  `AnswerInv` relates the error at hand
to the answers so far: an attempt starts only after retryable answers, and once
it has ended the error is the final answer if there is one.

### Discovery: `ControlStreamProofs`

With any sidecars and endpoints and any number of commits and failures:

* `StreamImplementsCache`: `Spec => ImplementsSnapshotCache`, the refinement that
  the run `control_stream` checks;
* `IdleIsCurrent`: `Spec => []IdleMeansCurrent`;
* `TypeCorrect`, which includes that nobody is ahead of etcd.

The first invariant, `IInv`, says that the cache, every snapshot on the wire and
the one a handler is about to send are *whole*: empty at revision 0, or the state
of the registry at their revision (`Wholes`).  `Replace` keeps that.  For
`discovery.Run` it also needs `Direct`: the cache is already at the revision the
watch looks at next or beyond it, or it holds the state just before that
revision, so that an event is skipped or applied to exactly the state before it.
Each step then maps to a commit, to `Advance` or to a stutter (`Moves`).

`IdleMeansCurrent` needs the same of a stream (`Stream`), where messages lie
between the handler and the cache: they are in the order of their revisions
(`Ordered`), so that `Replace` never drops one, and the last of them is at the
watch's revision or beyond, or nothing has changed since (`Followed`).  While a
handler sends, what it has read is no older than the event that made it read.

### Processes, relays, secure connections, registration: `ProcessesProofs`

* The sidecar, with every set of options and any number of calls: `DrainsFirst`
  (`[]GracefulExit`) and `ReadyListens` (`[]ReadyMeansListening`).  `DrainInv`
  follows the shutdown goroutine: past `GracefulStop` the server is stopped and no
  call is left.  `StageInv` says what main has started by each stage.
* The relays, with any number of bytes: `RelayTypes` and `CompleteEnds`
  (`[]CleanEndIsComplete`).  The invariant ties the state of a copier to its
  direction: an end passed on between peers that stayed comes from a copier that
  read the end, after writing all it had read, and the handler has returned only
  if both copiers are done.
* Secure connections: `CallsReachTheirService` (`[]TalksToService`), for any
  services, addresses, moves, rotations and breaks.  `PeerInv`: a connection that
  is past the check of the server is with a workload of the service in its pool
  key, and a ready one with a service that admits the caller.
* Registrations, with any registrars, leases, failures and losses, and any times
  with 2 * `CallTimeout` + `Interval` < `TTL` (`RegistrationConstants`, which the
  defaults satisfy): `KeepAliveRegistered` (`[]KeepAliveMeansRegistered`).
  `LeaseInv` says that no two registrars have the same lease, and how long a
  lease will live at least (`Margin`): one that was granted or renewed in the call
  that runs is no older than the call, in keepAlive it outlives the rest of the
  interval and a call, and while it is being renewed the rest of that call.

### Only model-checked

Liveness stays with TLC, since fairness and `ENABLED` are out of the prover's
reach: `HalfOpenDecides`, `OpenIsProbed`, `CachesConverge`, `AcquireReturns`,
`CloseClosesAll`, `StoppedDisappears`, `StaysRegistered`, `StalePicksEnd`,
`InvokeReturns`, `ProcessesEnd`, `RelayEnds` and `ReconnectsAfterRotation`.
Nothing is proved about `ControlPlaneProcess`, of which only the end is checked.

## Not modelled

* Certificates, the TLS protocol, gRPC, HTTP and the system call that reads the
  original destination are library code: what their callers see of them is
  modelled and marked external.
* Parsing of flags, rules and code lists is one step that may fail
  (`Configure`); the required services of `/readyz`, which read the cache, and
  `Cache.Resolve`, which no binary uses, are left out.
* etcd's compaction, which nothing in the repository turns on; two registrars
  with one instance id (instance ids are Pod names).
* Short leases: `registrar.go:82` accepts a TTL from one second on, but a lease
  that does not outlive an interval and two slow calls may end between two
  heartbeats that succeed.  `RegistrationConstants` excludes that; the default TTL
  of 15s, which the Helm chart uses as well, is far from it.
* A dial that fails after `Close`: `pool.go:118` closes a connection that is not
  nil, and `proxy/connection_pool.go:62` returns a nil `*grpc.ClientConn`, which
  as a `Conn` is not nil.  The model takes a failed dial to return nil
  (`DialFailsTooLate`); in the sidecar no dial is left when the pool is closed
  (`GracefulExit`).
* Codecs, metadata, tracing, metrics, generated code, examples and the example
  backend: no state that the system reads back.

Behaviour of the code that no property is about, since no document promises
otherwise; the last two are abstracted away, the others are in the models:

* readiness is set once and not taken back when the stream or the registration
  is lost;
* relayed connections are not waited for at shutdown;
* the token of a retry is taken before its backoff, and lost when the call is
  cancelled meanwhile;
* the reconnect backoff of the control stream is not reset by a stream that
  worked (the delay itself is abstracted);
* the trust roots of the ingress are read once; `docs/Stage-15-安全能力.md` has a
  change of the CA restart the Deployments.

## Plan

1. Registration composed with the control stream: from a crash of an instance to
   the last pick of its endpoint; two registrars of one key; compaction.
2. Proofs: step lemmas towards the liveness properties, such as that a retry of a
   caller of the pool shrinks what it waits for.
