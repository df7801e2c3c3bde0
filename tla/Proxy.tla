------------------------------- MODULE Proxy -------------------------------
(***************************************************************************)
(* Server.Invoke and invokeAttempt (internal/proxy/server.go) under the    *)
(* retry loop Do (internal/resilience/retry.go), for concurrent requests   *)
(* to one service.  It composes the per-endpoint breakers of Breaker, the  *)
(* retry budget of TokenBucket, the picker and the connection pool, each   *)
(* of which is one critical section a call:                                *)
(*                                                                         *)
(*   validate, rate limit -> { pick -> breaker.Allow -> pool.Acquire ->    *)
(*   conn.Invoke -> release -> permit.Done -> done } -> retry or return    *)
(*                                                                         *)
(* A request is invoked once.  Of the picker and the pool only what        *)
(* invokeAttempt must give back is kept: the picks and the borrowed        *)
(* connections of each endpoint.  Status codes stand for their classes.    *)
(***************************************************************************)
EXTENDS Breaker, TokenBucket

CONSTANTS Requests, Endpoints,
          NoTarget,         \* a request that has not picked
          NoPermit,         \* a request that holds no permit
          MaxAttempts,      \* RetryPolicy.MaxAttempts, normalized
          RetryBudget,      \* the retry budget: [rate, burst]
          RetryableCodes,   \* RetryPolicy.RetryableCodes
          FailureCodes,     \* CircuitBreakerPolicy.FailureCodes
          UpstreamCodes     \* what the upstream may answer by itself

Codes == {"ok", "invalid_argument", "failed_precondition", "resource_exhausted",
          "unavailable", "not_found", "deadline_exceeded", "canceled"}

ASSUME ProxyConstants ==
  /\ IsFiniteSet(Requests) /\ IsFiniteSet(Endpoints)
  /\ NoTarget \notin Endpoints
  /\ NoPermit \notin PermitType
  /\ MaxAttempts \in Nat \ {0}
  /\ RetryBudget \in BudgetConfig
  /\ RetryableCodes \subseteq Codes \ {"ok"}
  /\ FailureCodes \subseteq Codes \ {"ok"}
  /\ UpstreamCodes \subseteq Codes

ProxyPC == {"new", "pick", "allow", "acquire", "calling", "release", "report",
            "done", "decide", "budget", "backoff", "return", "returned"}

VARIABLES pc,         \* request -> where it is
          ctx,        \* request -> "live", or the code of ctx.Err()
          attempt,    \* request -> number of the attempt
          target,     \* request -> the endpoint it picked
          permit,     \* request -> its circuit permit
          err,        \* request -> the code of the last attempt, of Invoke when returned
          breaker,    \* endpoint -> circuit breaker
          budget,     \* retry budget
          active,     \* endpoint -> picks that are not done
          borrowed,   \* endpoint -> connections that are not released
          answers     \* request -> codes the upstream answered (history)

request == <<pc, ctx, attempt, target, permit, err, answers>>
vars == <<request, breaker, budget, active, borrowed>>

(* Breaker(key) makes a breaker on first use: one not used yet is new. *)
NewCircuitBreakerSet == [e \in Endpoints |-> NewCircuitBreaker]

Init ==
  /\ pc = [r \in Requests |-> "new"]
  /\ ctx = [r \in Requests |-> "live"]
  /\ attempt = [r \in Requests |-> 0]
  /\ target = [r \in Requests |-> NoTarget]
  /\ permit = [r \in Requests |-> NoPermit]
  /\ err = [r \in Requests |-> "ok"]
  /\ answers = [r \in Requests |-> {}]
  /\ breaker = NewCircuitBreakerSet
  /\ budget = NewBucket(RetryBudget)
  /\ active = [e \in Endpoints |-> 0]
  /\ borrowed = [e \in Endpoints |-> 0]

CtxDone(r) == ctx[r] # "live"

Goto(r, from, to) == pc[r] = from /\ pc' = [pc EXCEPT ![r] = to]

(* The attempt, or Invoke, goes on with error code c. *)
With(r, c) == err' = [err EXCEPT ![r] = c]

-----------------------------------------------------------------------------
(* Invoke up to the retry loop. *)

(* validate, or the rate limiter, turns the request away. *)
Refuse(r, c) ==
  /\ Goto(r, "new", "returned")
  /\ With(r, c)
  /\ UNCHANGED <<ctx, attempt, target, permit, answers, breaker, budget, active, borrowed>>

Start(r) ==
  /\ Goto(r, "new", "pick")
  /\ attempt' = [attempt EXCEPT ![r] = 1]
  /\ UNCHANGED <<ctx, target, permit, err, answers, breaker, budget, active, borrowed>>

-----------------------------------------------------------------------------
(* invokeAttempt. *)

(* resolveTarget *)
Pick(r, e) ==
  /\ Goto(r, "pick", "allow")
  /\ target' = [target EXCEPT ![r] = e]
  /\ active' = [active EXCEPT ![e] = @ + 1]
  /\ UNCHANGED <<ctx, attempt, permit, err, answers, breaker, budget, borrowed>>

(* No service is named, there is no resolver, or there is no endpoint. *)
PickFails(r) ==
  /\ Goto(r, "pick", "decide")
  /\ \E c \in {"invalid_argument", "failed_precondition", "unavailable"} : With(r, c)
  /\ UNCHANGED <<ctx, attempt, target, permit, answers, breaker, budget, active, borrowed>>

AllowGranted(r) ==
  LET b == Deciding(breaker[target[r]]) IN
  /\ Goto(r, "allow", "acquire")
  /\ Admits(b)
  /\ breaker' = [breaker EXCEPT ![target[r]] = Admit(b)]
  /\ permit' = [permit EXCEPT ![r] = CircuitPermit(b)]
  /\ UNCHANGED <<ctx, attempt, target, err, answers, budget, active, borrowed>>

(* Mutated form: the rejection returns before done is deferred. *)
AllowRejectedKeepsPick(r) ==
  LET b == Deciding(breaker[target[r]]) IN
  /\ Goto(r, "allow", "decide")
  /\ ~Admits(b)
  /\ breaker' = [breaker EXCEPT ![target[r]] = b]
  /\ With(r, "unavailable")
  /\ target' = [target EXCEPT ![r] = NoTarget]
  /\ UNCHANGED <<ctx, attempt, permit, answers, budget, active, borrowed>>

AllowRejected(r) ==
  LET b == Deciding(breaker[target[r]]) IN
  /\ Goto(r, "allow", "done")
  /\ ~Admits(b)
  /\ breaker' = [breaker EXCEPT ![target[r]] = b]
  /\ With(r, "unavailable")
  /\ UNCHANGED <<ctx, attempt, target, permit, answers, budget, active, borrowed>>

Acquire(r) ==
  /\ Goto(r, "acquire", "calling")
  /\ borrowed' = [borrowed EXCEPT ![target[r]] = @ + 1]
  /\ UNCHANGED <<ctx, attempt, target, permit, err, answers, breaker, budget, active>>

(* Mutated form: a failed dial returns before permit.Done is deferred. *)
AcquireFailsUnreported(r) ==
  /\ Goto(r, "acquire", "done")
  /\ With(r, IF CtxDone(r) THEN ctx[r] ELSE "unavailable")
  /\ permit' = [permit EXCEPT ![r] = NoPermit]
  /\ UNCHANGED <<ctx, attempt, target, answers, breaker, budget, active, borrowed>>

(* mapDialError *)
AcquireFails(r) ==
  /\ Goto(r, "acquire", "report")
  /\ With(r, IF CtxDone(r) THEN ctx[r] ELSE "unavailable")
  /\ UNCHANGED <<ctx, attempt, target, permit, answers, breaker, budget, active, borrowed>>

(* conn.Invoke returns the upstream's answer, which may be older than the  *)
(* end of ctx ...                                                          *)
Answer(r, c) ==
  /\ Goto(r, "calling", "release")
  /\ With(r, c)
  /\ answers' = [answers EXCEPT ![r] = @ \cup {c}]
  /\ UNCHANGED <<ctx, attempt, target, permit, breaker, budget, active, borrowed>>

(* Mutated form: the outgoing context does not carry the deadline. *)
CallOutlivesDeadline(r) ==
  /\ ctx[r] = "canceled"
  /\ Goto(r, "calling", "release")
  /\ With(r, ctx[r])
  /\ UNCHANGED <<ctx, attempt, target, permit, answers, breaker, budget, active, borrowed>>

(* ... or ends with ctx. *)
CallEndsWithCtx(r) ==
  /\ CtxDone(r)
  /\ Goto(r, "calling", "release")
  /\ With(r, ctx[r])
  /\ UNCHANGED <<ctx, attempt, target, permit, answers, breaker, budget, active, borrowed>>

(* The deferred calls, last one first. *)
Release(r) ==
  /\ Goto(r, "release", "report")
  /\ borrowed' = [borrowed EXCEPT ![target[r]] = @ - 1]
  /\ UNCHANGED <<ctx, attempt, target, permit, err, answers, breaker, budget, active>>

isCircuitFailure(c) == c \in FailureCodes

Report(r) ==
  /\ Goto(r, "report", "done")
  /\ breaker' = [breaker EXCEPT ![target[r]] =
                   complete(@, permit[r], ~isCircuitFailure(err[r]))]
  /\ permit' = [permit EXCEPT ![r] = NoPermit]
  /\ UNCHANGED <<ctx, attempt, target, err, answers, budget, active, borrowed>>

PickDone(r) ==
  /\ Goto(r, "done", "decide")
  /\ active' = [active EXCEPT ![target[r]] = @ - 1]
  /\ target' = [target EXCEPT ![r] = NoTarget]
  /\ UNCHANGED <<ctx, attempt, permit, err, answers, breaker, budget, borrowed>>

-----------------------------------------------------------------------------
(* Do, after an attempt. *)

isRetryable(c) == c \in RetryableCodes

(* Mutated form: everything but success is retried. *)
RetryEverything(r) == /\ err[r] # "ok"
                      /\ attempt[r] # MaxAttempts
                      /\ ~CtxDone(r)

Retry(r) == /\ err[r] # "ok"
            /\ attempt[r] # MaxAttempts
            /\ isRetryable(err[r])
            /\ ~CtxDone(r)

GoOn(r) ==
  /\ Retry(r)
  /\ Goto(r, "decide", "budget")
  /\ attempt' = [attempt EXCEPT ![r] = @ + 1]
  /\ UNCHANGED <<ctx, target, permit, err, answers, breaker, budget, active, borrowed>>

GiveUp(r) ==
  /\ ~Retry(r)
  /\ Goto(r, "decide", "return")
  /\ UNCHANGED <<ctx, attempt, target, permit, err, answers, breaker, budget, active, borrowed>>

(* cfg.Budget.Allow(); without a token Do returns the last error. *)
TakeToken(r) ==
  /\ Goto(r, "budget", IF Enough(budget, RetryBudget) THEN "backoff" ELSE "return")
  /\ budget' = Allow(budget, RetryBudget)
  /\ UNCHANGED <<ctx, attempt, target, permit, err, answers, breaker, active, borrowed>>

(* Sleep: the timer and ctx.Done() may both be ready, and either is taken. *)
BackoffEnds(r) ==
  /\ Goto(r, "backoff", "pick")
  /\ UNCHANGED <<ctx, attempt, target, permit, err, answers, breaker, budget, active, borrowed>>

BackoffCancelled(r) ==
  /\ CtxDone(r)
  /\ Goto(r, "backoff", "return")
  /\ With(r, ctx[r])
  /\ UNCHANGED <<ctx, attempt, target, permit, answers, breaker, budget, active, borrowed>>

(* Mutated form: the deadline hides a success. *)
ReturnCtxFirst(r) ==
  /\ Goto(r, "return", "returned")
  /\ With(r, IF CtxDone(r) THEN ctx[r] ELSE err[r])
  /\ UNCHANGED <<ctx, attempt, target, permit, answers, breaker, budget, active, borrowed>>

(* The end of Invoke: an error of a request whose ctx is done is the       *)
(* error of ctx.                                                           *)
Return(r) ==
  /\ Goto(r, "return", "returned")
  /\ With(r, IF err[r] # "ok" /\ CtxDone(r) THEN ctx[r] ELSE err[r])
  /\ UNCHANGED <<ctx, attempt, target, permit, answers, breaker, budget, active, borrowed>>

-----------------------------------------------------------------------------
(* Environment: the deadline passes or the caller cancels; time passes.    *)

CtxEnds(r, c) ==
  /\ ~CtxDone(r)
  /\ pc[r] # "returned"
  /\ ctx' = [ctx EXCEPT ![r] = c]
  /\ UNCHANGED <<pc, attempt, target, permit, err, answers, breaker, budget, active, borrowed>>

Tick ==
  /\ breaker' = [e \in Endpoints |->
                   [breaker[e] EXCEPT !.elapsed = IF @ < Cooldown THEN @ + 1 ELSE @]]
  /\ budget' = Pass(budget, RetryBudget)
  /\ UNCHANGED <<request, active, borrowed>>

(* The steps the sidecar takes by itself, and those of a call that has to  *)
(* return.                                                                 *)
Attempt(r) ==
  \/ \E e \in Endpoints : Pick(r, e)
  \/ PickFails(r)
  \/ AllowGranted(r) \/ AllowRejected(r)
  \/ Acquire(r) \/ AcquireFails(r)
  \/ CallEndsWithCtx(r)
  \/ Release(r) \/ Report(r) \/ PickDone(r)

Do(r) ==
  \/ GoOn(r) \/ GiveUp(r)
  \/ TakeToken(r)
  \/ BackoffEnds(r) \/ BackoffCancelled(r)

Invoke(r) ==
  \/ \E c \in {"invalid_argument", "resource_exhausted"} : Refuse(r, c)
  \/ Start(r) \/ Attempt(r) \/ Do(r) \/ Return(r)

Next ==
  \/ Tick
  \/ \E r \in Requests :
       \/ Invoke(r)
       \/ \E c \in UpstreamCodes : Answer(r, c)
       \/ \E c \in {"deadline_exceeded", "canceled"} : CtxEnds(r, c)

Spec == Init /\ [][Next]_vars

(* The sidecar goes on, every request has a deadline (--request-timeout),  *)
(* and a call ends with its ctx.  Nothing makes the upstream answer.       *)
FairSpec ==
  /\ Spec
  /\ \A r \in Requests : WF_vars(Invoke(r)) /\ WF_vars(CtxEnds(r, "deadline_exceeded"))

-----------------------------------------------------------------------------
Picked == {"allow", "acquire", "calling", "release", "report", "done"}

Voters(e) == {r \in Requests : /\ target[r] = e
                               /\ permit[r] # NoPermit
                               /\ Current(breaker[e], permit[r])}

(* Every variable keeps its type. *)
TypeOK ==
  /\ pc \in [Requests -> ProxyPC]
  /\ ctx \in [Requests -> {"live", "deadline_exceeded", "canceled"}]
  /\ attempt \in [Requests -> 0..MaxAttempts]
  /\ target \in [Requests -> Endpoints \cup {NoTarget}]
  /\ permit \in [Requests -> PermitType \cup {NoPermit}]
  /\ err \in [Requests -> Codes]
  /\ answers \in [Requests -> SUBSET Codes]
  /\ budget \in Bucket
  /\ breaker \in [Endpoints -> BreakerType]
  /\ active \in [Endpoints -> Nat]
  /\ borrowed \in [Endpoints -> Nat]

(* Whatever way an attempt ends, what it took is given back: the picks and *)
(* the connections in use are those of attempts that are still running,    *)
(* and so are the permits.                                                 *)
NothingLeaks ==
  /\ \A e \in Endpoints :
       /\ active[e] = Cardinality({r \in Requests : pc[r] \in Picked /\ target[r] = e})
       /\ borrowed[e] = Cardinality({r \in Requests : /\ pc[r] \in {"calling", "release"}
                                                     /\ target[r] = e})
  /\ \A r \in Requests :
       permit[r] # NoPermit <=> pc[r] \in {"acquire", "calling", "release", "report"}

(* No exit path of an attempt loses a probe: the probes a half-open        *)
(* breaker waits for are those of attempts that will report, so that it    *)
(* can always decide.                                                      *)
ProbesReport ==
  \A e \in Endpoints : breaker[e].state = "half-open" =>
    breaker[e].halfOpenInFlight = Cardinality(Voters(e))

(* A request is sent again only while every answer so far was retryable,   *)
(* never after a success or a final error, and never beyond MaxAttempts.   *)
RetriesOnlyRetryable ==
  [][\A r \in Requests : Acquire(r) =>
       /\ answers[r] \subseteq RetryableCodes
       /\ attempt[r] <= MaxAttempts]_vars

(* What Invoke returns is what happened: success exactly when the upstream *)
(* answered with success, also if the deadline passed meanwhile, and a     *)
(* final error of the upstream unless the deadline passed.                 *)
HonestResult ==
  \A r \in Requests : pc[r] = "returned" =>
    /\ err[r] = "ok" <=> "ok" \in answers[r]
    /\ \A c \in answers[r] \ RetryableCodes : err[r] = c \/ CtxDone(r)

(* Every Invoke returns, with retries, backoff and breakers in between and *)
(* an upstream that may never answer.                                      *)
InvokeReturns == \A r \in Requests : pc[r] # "returned" ~> pc[r] = "returned"
=============================================================================
