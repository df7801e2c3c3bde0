----------------------------- MODULE ProxyProofs -----------------------------
(***************************************************************************)
(* Proofs of the safety properties of Proxy for any requests and endpoints *)
(* and every configuration of retries, breakers and budget.                *)
(***************************************************************************)
EXTENDS Proxy, BreakerLemmas

(* The provers of a leaf that names none, and the time each is given. *)
USE ZenonT(8), SMTT(40)

Permitted == {"acquire", "calling", "release", "report"}
Calling == {"calling", "release"}

(* The type of what belongs to a request, and what it holds at each place. *)
RequestsInv ==
  /\ pc \in [Requests -> ProxyPC]
  /\ ctx \in [Requests -> {"live", "deadline_exceeded", "canceled"}]
  /\ attempt \in [Requests -> 0..MaxAttempts]
  /\ target \in [Requests -> Endpoints \cup {NoTarget}]
  /\ permit \in [Requests -> PermitType \cup {NoPermit}]
  /\ err \in [Requests -> Codes]
  /\ answers \in [Requests -> SUBSET Codes]
  /\ \A r \in Requests :
       /\ pc[r] \in Picked => target[r] \in Endpoints
       /\ permit[r] # NoPermit <=> pc[r] \in Permitted

Picks(e) == {r \in Requests : pc[r] \in Picked /\ target[r] = e}
Borrows(e) == {r \in Requests : pc[r] \in Calling /\ target[r] = e}

CountersInv ==
  /\ active \in [Endpoints -> Nat]
  /\ borrowed \in [Endpoints -> Nat]
  /\ \A e \in Endpoints : /\ active[e] = Cardinality(Picks(e))
                          /\ borrowed[e] = Cardinality(Borrows(e))

(* No permit is of a generation its breaker has not reached. *)
PermitsReached ==
  \A r \in Requests : permit[r] # NoPermit =>
    permit[r].generation <= breaker[target[r]].generation

BreakersInv ==
  /\ breaker \in [Endpoints -> BreakerType]
  /\ \A e \in Endpoints : BreakerOK(breaker[e])
  /\ PermitsReached
  /\ ProbesReport

(* What the answers so far and the error at hand have to do with each      *)
(* other: an attempt starts only after retryable answers, and once it has  *)
(* ended the error is the final answer, if there is one.                   *)
Starting == {"pick", "allow", "acquire", "calling", "budget", "backoff"}
Ended == {"release", "report", "done", "decide", "return"}

AnswerInv(r) ==
  /\ pc[r] = "new" => answers[r] = {}
  /\ pc[r] \in Starting => answers[r] \subseteq RetryableCodes
  /\ pc[r] \in {"budget", "backoff"} => err[r] # "ok"
  /\ pc[r] \in Ended =>
       /\ err[r] = "ok" => "ok" \in answers[r]
       /\ \A c \in answers[r] \ RetryableCodes : err[r] = c
  /\ pc[r] = "returned" =>
       /\ err[r] = "ok" <=> "ok" \in answers[r]
       /\ \A c \in answers[r] \ RetryableCodes : err[r] = c \/ CtxDone(r)

AnswersInv == \A r \in Requests : AnswerInv(r)

IInv == RequestsInv /\ CountersInv /\ BreakersInv /\ AnswersInv

-----------------------------------------------------------------------------
(* A step of request r leaves the other requests alone. *)
StepOf(r) ==
  \A q \in Requests \ {r} :
    /\ pc'[q] = pc[q]
    /\ ctx'[q] = ctx[q]
    /\ target'[q] = target[q]
    /\ permit'[q] = permit[q]
    /\ err'[q] = err[q]
    /\ answers'[q] = answers[q]

One(b) == IF b THEN 1 ELSE 0

(* The size of a set of requests that one of them may leave or enter. *)
LEMMA CountStep ==
  ASSUME NEW S \in SUBSET Requests, NEW T \in SUBSET Requests, NEW r \in Requests,
         \A q \in Requests \ {r} : q \in S <=> q \in T
  PROVE  /\ Cardinality(S) \in Nat /\ Cardinality(T) \in Nat
         /\ Cardinality(T) = Cardinality(S) - One(r \in S) + One(r \in T)
         /\ r \in S => Cardinality(S) > 0
<1>1. IsFiniteSet(S) /\ IsFiniteSet(T)
  BY FS_Subset, ProxyConstants DEF ProxyConstants
<1>2. /\ Cardinality(S) \in Nat /\ Cardinality(T) \in Nat
      /\ Cardinality(S \ {r}) = Cardinality(S) - One(r \in S)
      /\ Cardinality(T \ {r}) = Cardinality(T) - One(r \in T)
  BY <1>1, FS_CardinalityType, FS_RemoveElement DEF One
<1>3. Cardinality(S \ {r}) = Cardinality(T \ {r})
  <2>1. S \ {r} = T \ {r}
    OBVIOUS
  <2> QED BY <2>1, Zenon
<1>4. r \in S => Cardinality(S) > 0
  BY <1>1, <1>2, FS_EmptySet
<1> QED BY <1>2, <1>3, <1>4 DEF One

(* The picks of an endpoint after a step of request r. *)
LEMMA PicksStep ==
  ASSUME NEW r \in Requests, StepOf(r), NEW e \in Endpoints
  PROVE  /\ Cardinality(Picks(e)) \in Nat
         /\ Cardinality(Picks(e)') =
              Cardinality(Picks(e)) - One(pc[r] \in Picked /\ target[r] = e)
                                    + One(pc'[r] \in Picked /\ target'[r] = e)
         /\ pc[r] \in Picked /\ target[r] = e => Cardinality(Picks(e)) > 0
<1> DEFINE S == Picks(e)
           T == Picks(e)'
<1>1. /\ S \in SUBSET Requests /\ T \in SUBSET Requests
      /\ \A q \in Requests \ {r} : q \in S <=> q \in T
      /\ r \in S <=> pc[r] \in Picked /\ target[r] = e
      /\ r \in T <=> pc'[r] \in Picked /\ target'[r] = e
  BY DEF Picks, StepOf
<1> HIDE DEF S, T
<1>2. /\ Cardinality(S) \in Nat
      /\ Cardinality(T) = Cardinality(S) - One(r \in S) + One(r \in T)
      /\ r \in S => Cardinality(S) > 0
  BY <1>1, CountStep
<1> QED BY <1>1, <1>2 DEF S, T, One

(* The borrowed connections of an endpoint after a step of request r. *)
LEMMA BorrowsStep ==
  ASSUME NEW r \in Requests, StepOf(r), NEW e \in Endpoints
  PROVE  /\ Cardinality(Borrows(e)) \in Nat
         /\ Cardinality(Borrows(e)') =
              Cardinality(Borrows(e)) - One(pc[r] \in Calling /\ target[r] = e)
                                      + One(pc'[r] \in Calling /\ target'[r] = e)
         /\ pc[r] \in Calling /\ target[r] = e => Cardinality(Borrows(e)) > 0
<1> DEFINE S == Borrows(e)
           T == Borrows(e)'
<1>1. /\ S \in SUBSET Requests /\ T \in SUBSET Requests
      /\ \A q \in Requests \ {r} : q \in S <=> q \in T
      /\ r \in S <=> pc[r] \in Calling /\ target[r] = e
      /\ r \in T <=> pc'[r] \in Calling /\ target'[r] = e
  BY DEF Borrows, StepOf
<1> HIDE DEF S, T
<1>2. /\ Cardinality(S) \in Nat
      /\ Cardinality(T) = Cardinality(S) - One(r \in S) + One(r \in T)
      /\ r \in S => Cardinality(S) > 0
  BY <1>1, CountStep
<1> QED BY <1>1, <1>2 DEF S, T, One

(* Request r is a probe that the half-open breaker of e waits for. *)
Votes(r, e) == target[r] = e /\ permit[r] # NoPermit /\ Current(breaker[e], permit[r])

(* The probes of an endpoint after a step of request r that leaves its     *)
(* breaker in the same period.                                             *)
LEMMA VotersStep ==
  ASSUME NEW r \in Requests, StepOf(r), NEW e \in Endpoints,
         breaker'[e].generation = breaker[e].generation,
         breaker'[e].state = breaker[e].state
  PROVE  /\ Cardinality(Voters(e)) \in Nat
         /\ Cardinality(Voters(e)') =
              Cardinality(Voters(e)) - One(Votes(r, e)) + One(Votes(r, e)')
         /\ Votes(r, e) => Cardinality(Voters(e)) > 0
<1> DEFINE S == Voters(e)
           T == Voters(e)'
<1>1. /\ S \in SUBSET Requests /\ T \in SUBSET Requests
      /\ \A q \in Requests \ {r} : q \in S <=> q \in T
      /\ r \in S <=> Votes(r, e)
      /\ r \in T <=> Votes(r, e)'
  BY DEF Voters, Votes, StepOf, Current
<1> HIDE DEF S, T
<1>2. /\ Cardinality(S) \in Nat
      /\ Cardinality(T) = Cardinality(S) - One(r \in S) + One(r \in T)
      /\ r \in S => Cardinality(S) > 0
  BY <1>1, CountStep
<1> QED BY <1>1, <1>2 DEF S, T, One

(* A step in which a request takes nothing and gives nothing back. *)
LEMMA CountersKept ==
  ASSUME CountersInv, NEW r \in Requests, StepOf(r), UNCHANGED <<active, borrowed>>,
         \A e \in Endpoints :
           /\ pc'[r] \in Picked /\ target'[r] = e <=> pc[r] \in Picked /\ target[r] = e
           /\ pc'[r] \in Calling /\ target'[r] = e <=> pc[r] \in Calling /\ target[r] = e
  PROVE  CountersInv'
<1> SUFFICES ASSUME NEW e \in Endpoints
             PROVE  /\ active[e] = Cardinality(Picks(e)')
                    /\ borrowed[e] = Cardinality(Borrows(e)')
  BY DEF CountersInv
<1>1. Cardinality(Picks(e)') = Cardinality(Picks(e))
  BY PicksStep DEF One
<1>2. Cardinality(Borrows(e)') = Cardinality(Borrows(e))
  BY BorrowsStep DEF One
<1> QED BY <1>1, <1>2 DEF CountersInv

(* A step without the breakers, of a request that keeps its permit and its *)
(* target or has no permit.                                                *)
LEMMA BreakersKept ==
  ASSUME BreakersInv, NEW r \in Requests, StepOf(r),
         UNCHANGED <<breaker, permit>>,
         permit[r] # NoPermit => target'[r] = target[r]
  PROVE  BreakersInv'
<1>1. PermitsReached'
  BY DEF BreakersInv, PermitsReached, StepOf
<1>2. ProbesReport'
  <2>1. \A e \in Endpoints : Votes(r, e)' <=> Votes(r, e)
    BY DEF Votes
  <2>2. \A e \in Endpoints : Cardinality(Voters(e)') = Cardinality(Voters(e))
    BY <2>1, VotersStep DEF One
  <2> QED BY <2>2 DEF BreakersInv, ProbesReport
<1> QED BY <1>1, <1>2 DEF BreakersInv

(* Only the answers of request r may have changed. *)
LEMMA AnswersStep ==
  ASSUME AnswersInv, NEW r \in Requests, StepOf(r), AnswerInv(r)'
  PROVE  AnswersInv'
BY DEF AnswersInv, AnswerInv, StepOf, CtxDone

(* The step of a request that only goes on: it takes nothing, gives nothing *)
(* back and leaves the breakers alone.                                      *)
Plain(r) ==
  /\ StepOf(r)
  /\ UNCHANGED <<target, permit, breaker, active, borrowed>>
  /\ pc'[r] \in Picked <=> pc[r] \in Picked
  /\ pc'[r] \in Calling <=> pc[r] \in Calling

(* Such a step has to be right about the types and the answers only. *)
LEMMA PlainInv ==
  ASSUME IInv, NEW r \in Requests, Plain(r), RequestsInv', AnswerInv(r)'
  PROVE  IInv'
<1>1. CountersInv'
  BY CountersKept DEF IInv, Plain
<1>2. BreakersInv'
  BY BreakersKept DEF IInv, Plain
<1>3. AnswersInv'
  BY AnswersStep DEF IInv, Plain
<1> QED BY <1>1, <1>2, <1>3 DEF IInv

(* Invoke refuses a request, or starts its first attempt. *)
LEMMA StartInv ==
  ASSUME IInv, NEW r \in Requests,
         \/ \E c \in {"invalid_argument", "resource_exhausted"} : Refuse(r, c)
         \/ Start(r)
  PROVE  IInv'
<1> USE ProxyConstants DEF ProxyConstants
<1>1. CASE \E c \in {"invalid_argument", "resource_exhausted"} : Refuse(r, c)
  <2>1. Plain(r)
    BY <1>1 DEF Plain, StepOf, IInv, RequestsInv, Picked, Calling, Goto, Refuse, With
  <2>2. RequestsInv'
    BY <1>1 DEF IInv, RequestsInv, Picked, Permitted, ProxyPC, Codes, Goto, Refuse, With
  <2>3. AnswerInv(r)'
    BY <1>1 DEF IInv, RequestsInv, AnswersInv, AnswerInv, Starting, Ended, Goto, Refuse, With
  <2> QED BY <2>1, <2>2, <2>3, PlainInv
<1>2. CASE Start(r)
  <2>1. Plain(r)
    BY <1>2 DEF Plain, StepOf, IInv, RequestsInv, Picked, Calling, Goto, Start
  <2>2. RequestsInv'
    BY <1>2 DEF IInv, RequestsInv, Picked, Permitted, ProxyPC, Codes, Goto, Start
  <2>3. AnswerInv(r)'
    BY <1>2 DEF IInv, RequestsInv, AnswersInv, AnswerInv, Starting, Ended, Goto, Start
  <2> QED BY <2>1, <2>2, <2>3, PlainInv
<1> QED BY <1>1, <1>2

(* An attempt finds no endpoint or no connection, or its call returns. *)
LEMMA AttemptInv ==
  ASSUME IInv, NEW r \in Requests,
         \/ PickFails(r)
         \/ AcquireFails(r)
         \/ \E c \in UpstreamCodes : Answer(r, c)
         \/ CallEndsWithCtx(r)
  PROVE  IInv'
<1> USE ProxyConstants DEF ProxyConstants
<1>1. CASE PickFails(r)
  <2>1. Plain(r)
    BY <1>1 DEF Plain, StepOf, IInv, RequestsInv, Picked, Calling, Goto, PickFails, With
  <2>2. RequestsInv'
    BY <1>1 DEF IInv, RequestsInv, Picked, Permitted, ProxyPC, Codes, Goto, PickFails, With
  <2>3. AnswerInv(r)'
    BY <1>1 DEF IInv, RequestsInv, AnswersInv, AnswerInv, Starting, Ended, Goto, PickFails, With
  <2> QED BY <2>1, <2>2, <2>3, PlainInv
<1>2. CASE AcquireFails(r)
  <2>1. Plain(r)
    BY <1>2 DEF Plain, StepOf, IInv, RequestsInv, Picked, Calling, Goto, AcquireFails, With, CtxDone
  <2>2. RequestsInv'
    BY <1>2 DEF IInv, RequestsInv, Picked, Permitted, ProxyPC, Codes, Goto, AcquireFails, With, CtxDone
  <2>3. AnswerInv(r)'
    BY <1>2 DEF IInv, RequestsInv, AnswersInv, AnswerInv, Starting, Ended, Goto, AcquireFails, With, CtxDone
  <2> QED BY <2>1, <2>2, <2>3, PlainInv
<1>3. CASE \E c \in UpstreamCodes : Answer(r, c)
  <2>1. Plain(r)
    BY <1>3 DEF Plain, StepOf, IInv, RequestsInv, Picked, Calling, Goto, Answer, With
  <2>2. RequestsInv'
    BY <1>3 DEF IInv, RequestsInv, Picked, Permitted, ProxyPC, Codes, Goto, Answer, With
  <2>3. AnswerInv(r)'
    BY <1>3 DEF IInv, RequestsInv, AnswersInv, AnswerInv, Starting, Ended, Goto, Answer, With
  <2> QED BY <2>1, <2>2, <2>3, PlainInv
<1>4. CASE CallEndsWithCtx(r)
  <2>1. Plain(r)
    BY <1>4 DEF Plain, StepOf, IInv, RequestsInv, Picked, Calling, Goto, CallEndsWithCtx, With, CtxDone
  <2>2. RequestsInv'
    BY <1>4 DEF IInv, RequestsInv, Picked, Permitted, ProxyPC, Codes, Goto, CallEndsWithCtx, With, CtxDone
  <2>3. AnswerInv(r)'
    BY <1>4 DEF IInv, RequestsInv, AnswersInv, AnswerInv, Starting, Ended, Goto, CallEndsWithCtx, With, CtxDone
  <2> QED BY <2>1, <2>2, <2>3, PlainInv
<1> QED BY <1>1, <1>2, <1>3, <1>4

(* The retry loop decides, takes a token and waits, or gives up. *)
LEMMA DoInv ==
  ASSUME IInv, NEW r \in Requests,
         \/ GoOn(r)
         \/ GiveUp(r)
         \/ TakeToken(r)
         \/ BackoffEnds(r)
         \/ BackoffCancelled(r)
  PROVE  IInv'
<1> USE ProxyConstants DEF ProxyConstants
<1>1. CASE GoOn(r)
  <2>1. Plain(r)
    BY <1>1 DEF Plain, StepOf, IInv, RequestsInv, Picked, Calling, Goto, GoOn, Retry, isRetryable
  <2>2. RequestsInv'
    BY <1>1 DEF IInv, RequestsInv, Picked, Permitted, ProxyPC, Codes, Goto, GoOn, Retry, isRetryable
  <2>3. AnswerInv(r)'
    BY <1>1 DEF IInv, RequestsInv, AnswersInv, AnswerInv, Starting, Ended, Goto, GoOn, Retry, isRetryable
  <2> QED BY <2>1, <2>2, <2>3, PlainInv
<1>2. CASE GiveUp(r)
  <2>1. Plain(r)
    BY <1>2 DEF Plain, StepOf, IInv, RequestsInv, Picked, Calling, Goto, GiveUp
  <2>2. RequestsInv'
    BY <1>2 DEF IInv, RequestsInv, Picked, Permitted, ProxyPC, Codes, Goto, GiveUp
  <2>3. AnswerInv(r)'
    BY <1>2 DEF IInv, RequestsInv, AnswersInv, AnswerInv, Starting, Ended, Goto, GiveUp
  <2> QED BY <2>1, <2>2, <2>3, PlainInv
<1>3. CASE TakeToken(r)
  <2>1. Plain(r)
    BY <1>3 DEF Plain, StepOf, IInv, RequestsInv, Picked, Calling, Goto, TakeToken
  <2>2. RequestsInv'
    BY <1>3 DEF IInv, RequestsInv, Picked, Permitted, ProxyPC, Codes, Goto, TakeToken
  <2>3. AnswerInv(r)'
    BY <1>3 DEF IInv, RequestsInv, AnswersInv, AnswerInv, Starting, Ended, Goto, TakeToken
  <2> QED BY <2>1, <2>2, <2>3, PlainInv
<1>4. CASE BackoffEnds(r)
  <2>1. Plain(r)
    BY <1>4 DEF Plain, StepOf, IInv, RequestsInv, Picked, Calling, Goto, BackoffEnds
  <2>2. RequestsInv'
    BY <1>4 DEF IInv, RequestsInv, Picked, Permitted, ProxyPC, Codes, Goto, BackoffEnds
  <2>3. AnswerInv(r)'
    BY <1>4 DEF IInv, RequestsInv, AnswersInv, AnswerInv, Starting, Ended, Goto, BackoffEnds
  <2> QED BY <2>1, <2>2, <2>3, PlainInv
<1>5. CASE BackoffCancelled(r)
  <2>1. Plain(r)
    BY <1>5 DEF Plain, StepOf, IInv, RequestsInv, Picked, Calling, Goto, BackoffCancelled, With, CtxDone
  <2>2. RequestsInv'
    BY <1>5 DEF IInv, RequestsInv, Picked, Permitted, ProxyPC, Codes, Goto, BackoffCancelled, With, CtxDone
  <2>3. AnswerInv(r)'
    BY <1>5 DEF IInv, RequestsInv, AnswersInv, AnswerInv, Starting, Ended, Goto, BackoffCancelled, With, CtxDone
  <2> QED BY <2>1, <2>2, <2>3, PlainInv
<1> QED BY <1>1, <1>2, <1>3, <1>4, <1>5

(* Invoke returns, or the context of a request ends. *)
LEMMA ReturnInv ==
  ASSUME IInv, NEW r \in Requests,
         \/ Return(r)
         \/ \E c \in {"deadline_exceeded", "canceled"} : CtxEnds(r, c)
  PROVE  IInv'
<1> USE ProxyConstants DEF ProxyConstants
<1>1. CASE Return(r)
  <2>1. Plain(r)
    BY <1>1 DEF Plain, StepOf, IInv, RequestsInv, Picked, Calling, Goto, Return, With, CtxDone
  <2>2. RequestsInv'
    BY <1>1 DEF IInv, RequestsInv, Picked, Permitted, ProxyPC, Codes, Goto, Return, With, CtxDone
  <2>3. AnswerInv(r)'
    BY <1>1 DEF IInv, RequestsInv, AnswersInv, AnswerInv, Starting, Ended, Goto, Return, With, CtxDone
  <2> QED BY <2>1, <2>2, <2>3, PlainInv
<1>2. CASE \E c \in {"deadline_exceeded", "canceled"} : CtxEnds(r, c)
  <2>1. Plain(r)
    BY <1>2 DEF Plain, StepOf, IInv, RequestsInv, Picked, Calling, Goto, CtxEnds, CtxDone
  <2>2. RequestsInv'
    BY <1>2 DEF IInv, RequestsInv, Picked, Permitted, ProxyPC, Codes, Goto, CtxEnds, CtxDone
  <2>3. AnswerInv(r)'
    BY <1>2 DEF IInv, RequestsInv, AnswersInv, AnswerInv, Starting, Ended, Goto, CtxEnds, CtxDone
  <2> QED BY <2>1, <2>2, <2>3, PlainInv
<1> QED BY <1>1, <1>2

-----------------------------------------------------------------------------
(* What an attempt takes and gives back. *)

(* The picker counts a pick. *)
LEMMA PickInv ==
  ASSUME IInv, NEW r \in Requests, NEW e \in Endpoints, Pick(r, e)
  PROVE  IInv'
<1>1. /\ StepOf(r) /\ pc[r] = "pick" /\ pc'[r] = "allow" /\ target'[r] = e
      /\ permit[r] = NoPermit
  BY DEF Pick, Goto, StepOf, IInv, RequestsInv, Permitted
<1>2. RequestsInv'
  BY DEF Pick, Goto, IInv, RequestsInv, ProxyPC, Picked, Permitted
<1>3. CountersInv'
  <2>1. ASSUME NEW d \in Endpoints
        PROVE  /\ active'[d] = active[d] + One(d = e)
               /\ Cardinality(Picks(d)') = Cardinality(Picks(d)) + One(d = e)
               /\ Cardinality(Borrows(d)') = Cardinality(Borrows(d))
    <3>1. active'[d] = active[d] + One(d = e)
      BY <2>1 DEF Pick, IInv, CountersInv, One
    <3>2. Cardinality(Picks(d)') = Cardinality(Picks(d)) + One(d = e)
      BY <1>1, <2>1, PicksStep DEF One, Picked
    <3>3. Cardinality(Borrows(d)') = Cardinality(Borrows(d))
      BY <1>1, <2>1, BorrowsStep DEF One, Calling
    <3> QED BY <3>1, <3>2, <3>3
  <2>2. active' \in [Endpoints -> Nat] /\ borrowed' = borrowed
    BY DEF Pick, IInv, CountersInv
  <2> QED BY <2>1, <2>2 DEF IInv, CountersInv
<1>4. BreakersInv'
  BY <1>1, BreakersKept DEF Pick, IInv
<1>5. AnswerInv(r)'
  BY DEF Pick, Goto, IInv, RequestsInv, AnswersInv, AnswerInv, Starting, Ended
<1> QED BY <1>1, <1>2, <1>3, <1>4, <1>5, AnswersStep DEF IInv

(* done is called. *)
LEMMA PickDoneInv ==
  ASSUME IInv, NEW r \in Requests, PickDone(r)
  PROVE  IInv'
<1> DEFINE e == target[r]
<1>1. /\ StepOf(r) /\ pc[r] = "done" /\ pc'[r] = "decide"
      /\ e \in Endpoints /\ permit[r] = NoPermit
  BY DEF PickDone, Goto, StepOf, IInv, RequestsInv, Permitted, Picked
<1>2. RequestsInv'
  BY DEF PickDone, Goto, IInv, RequestsInv, ProxyPC, Picked, Permitted
<1>3. CountersInv'
  <2>1. active[e] > 0
    BY <1>1, PicksStep DEF IInv, CountersInv, Picked
  <2>2. active' = [active EXCEPT ![e] = active[e] - 1] /\ active[e] - 1 \in Nat
    BY <1>1, <2>1 DEF PickDone, IInv, CountersInv
  <2>3. ASSUME NEW d \in Endpoints
        PROVE  /\ active'[d] = active[d] - One(d = e)
               /\ Cardinality(Picks(d)') = Cardinality(Picks(d)) - One(d = e)
               /\ Cardinality(Borrows(d)') = Cardinality(Borrows(d))
    <3>1. active'[d] = active[d] - One(d = e)
      BY <2>2, <2>3 DEF IInv, CountersInv, One
    <3>2. Cardinality(Picks(d)') = Cardinality(Picks(d)) - One(d = e)
      BY <1>1, <2>3, PicksStep DEF One, Picked
    <3>3. Cardinality(Borrows(d)') = Cardinality(Borrows(d))
      BY <1>1, <2>3, BorrowsStep DEF One, Calling
    <3> QED BY <3>1, <3>2, <3>3
  <2>4. active' \in [Endpoints -> Nat] /\ borrowed' = borrowed
    BY <2>2, Zenon DEF PickDone, IInv, CountersInv
  <2> QED BY <2>3, <2>4 DEF IInv, CountersInv
<1>4. BreakersInv'
  BY <1>1, BreakersKept DEF PickDone, IInv
<1>5. AnswerInv(r)'
  BY DEF PickDone, Goto, IInv, RequestsInv, AnswersInv, AnswerInv, Starting, Ended
<1> QED BY <1>1, <1>2, <1>3, <1>4, <1>5, AnswersStep DEF IInv

(* A connection is borrowed. *)
LEMMA AcquireInv ==
  ASSUME IInv, NEW r \in Requests, Acquire(r)
  PROVE  IInv'
<1> DEFINE e == target[r]
<1>1. /\ StepOf(r) /\ pc[r] = "acquire" /\ pc'[r] = "calling"
      /\ target' = target /\ e \in Endpoints
  BY DEF Acquire, Goto, StepOf, IInv, RequestsInv, Picked
<1>2. RequestsInv'
  BY DEF Acquire, Goto, IInv, RequestsInv, ProxyPC, Picked, Permitted
<1>3. CountersInv'
  <2>1. ASSUME NEW d \in Endpoints
        PROVE  /\ borrowed'[d] = borrowed[d] + One(d = e)
               /\ Cardinality(Picks(d)') = Cardinality(Picks(d))
               /\ Cardinality(Borrows(d)') = Cardinality(Borrows(d)) + One(d = e)
    <3>1. borrowed'[d] = borrowed[d] + One(d = e)
      BY <2>1 DEF Acquire, IInv, CountersInv, One
    <3>2. Cardinality(Picks(d)') = Cardinality(Picks(d))
      BY <1>1, <2>1, PicksStep DEF One, Picked
    <3>3. Cardinality(Borrows(d)') = Cardinality(Borrows(d)) + One(d = e)
      BY <1>1, <2>1, BorrowsStep DEF One, Calling
    <3> QED BY <3>1, <3>2, <3>3
  <2>2. borrowed' \in [Endpoints -> Nat] /\ active' = active
    BY <1>1 DEF Acquire, IInv, CountersInv
  <2> QED BY <2>1, <2>2 DEF IInv, CountersInv
<1>4. BreakersInv'
  BY <1>1, BreakersKept DEF Acquire, IInv
<1>5. AnswerInv(r)'
  BY DEF Acquire, Goto, IInv, RequestsInv, AnswersInv, AnswerInv, Starting, Ended
<1> QED BY <1>1, <1>2, <1>3, <1>4, <1>5, AnswersStep DEF IInv

(* The connection is released. *)
LEMMA ReleaseInv ==
  ASSUME IInv, NEW r \in Requests, Release(r)
  PROVE  IInv'
<1> DEFINE e == target[r]
<1>1. /\ StepOf(r) /\ pc[r] = "release" /\ pc'[r] = "report"
      /\ target' = target /\ e \in Endpoints
  BY DEF Release, Goto, StepOf, IInv, RequestsInv, Picked
<1>2. RequestsInv'
  BY DEF Release, Goto, IInv, RequestsInv, ProxyPC, Picked, Permitted
<1>3. CountersInv'
  <2>1. borrowed[e] > 0
    BY <1>1, BorrowsStep DEF IInv, CountersInv, Calling
  <2>2. borrowed' = [borrowed EXCEPT ![e] = borrowed[e] - 1] /\ borrowed[e] - 1 \in Nat
    BY <1>1, <2>1 DEF Release, IInv, CountersInv
  <2>3. ASSUME NEW d \in Endpoints
        PROVE  /\ borrowed'[d] = borrowed[d] - One(d = e)
               /\ Cardinality(Picks(d)') = Cardinality(Picks(d))
               /\ Cardinality(Borrows(d)') = Cardinality(Borrows(d)) - One(d = e)
    <3>1. borrowed'[d] = borrowed[d] - One(d = e)
      BY <2>2, <2>3 DEF IInv, CountersInv, One
    <3>2. Cardinality(Picks(d)') = Cardinality(Picks(d))
      BY <1>1, <2>3, PicksStep DEF One, Picked
    <3>3. Cardinality(Borrows(d)') = Cardinality(Borrows(d)) - One(d = e)
      BY <1>1, <2>3, BorrowsStep DEF One, Calling
    <3> QED BY <3>1, <3>2, <3>3
  <2>4. borrowed' \in [Endpoints -> Nat] /\ active' = active
    BY <2>2, Zenon DEF Release, IInv, CountersInv
  <2> QED BY <2>3, <2>4 DEF IInv, CountersInv
<1>4. BreakersInv'
  BY <1>1, BreakersKept DEF Release, IInv
<1>5. AnswerInv(r)'
  BY DEF Release, Goto, IInv, RequestsInv, AnswersInv, AnswerInv, Starting, Ended
<1> QED BY <1>1, <1>2, <1>3, <1>4, <1>5, AnswersStep DEF IInv

-----------------------------------------------------------------------------
(* What an attempt does to the breaker of its endpoint. *)

(* The breaker of e becomes b in a step of request r. *)
LEMMA BreakerStep ==
  ASSUME IInv, RequestsInv', NEW r \in Requests, StepOf(r), target' = target,
         NEW e \in Endpoints, target[r] = e,
         NEW b, BreakerOK(b), breaker' = [breaker EXCEPT ![e] = b],
         breaker[e].generation <= b.generation,
         permit'[r] # NoPermit => permit'[r].generation <= b.generation,
         b.state = "half-open" => b.halfOpenInFlight = Cardinality(Voters(e)')
  PROVE  BreakersInv'
<1>1. /\ breaker' \in [Endpoints -> BreakerType]
      /\ \A d \in Endpoints : breaker'[d] = IF d = e THEN b ELSE breaker[d]
  BY DEF IInv, BreakersInv, BreakerOK
<1>2. \A d \in Endpoints : BreakerOK(breaker'[d])
  BY <1>1 DEF IInv, BreakersInv
<1>3. PermitsReached'
  <2> SUFFICES ASSUME NEW q \in Requests, permit'[q] # NoPermit
               PROVE  permit'[q].generation <= breaker'[target[q]].generation
    BY DEF PermitsReached
  <2>1. CASE q = r
    BY <1>1, <2>1
  <2>2. CASE q # r
    <3>1. permit'[q] = permit[q] /\ target[q] \in Endpoints /\ permit[q] \in PermitType
      BY <2>2, SMTT(30) DEF StepOf, IInv, RequestsInv, Picked, Permitted
    <3>2. permit[q].generation <= breaker[target[q]].generation
      BY <3>1, Zenon DEF IInv, BreakersInv, PermitsReached
    <3>3. /\ permit[q].generation \in Nat
          /\ breaker[e].generation \in Nat /\ b.generation \in Nat
      BY <3>1, Zenon DEF PermitType, IInv, BreakersInv, BreakerOK, BreakerType
    <3> QED BY <1>1, <3>1, <3>2, <3>3
  <2> QED BY <2>1, <2>2
<1>4. ProbesReport'
  <2> SUFFICES ASSUME NEW d \in Endpoints, breaker'[d].state = "half-open"
               PROVE  breaker'[d].halfOpenInFlight = Cardinality(Voters(d)')
    BY DEF ProbesReport
  <2>1. CASE d = e
    BY <1>1, <2>1
  <2>2. CASE d # e
    <3>1. ~Votes(r, d) /\ ~Votes(r, d)' /\ breaker'[d] = breaker[d]
      BY <1>1, <2>2 DEF Votes
    <3>2. Cardinality(Voters(d)') = Cardinality(Voters(d))
      BY <3>1, VotersStep DEF One
    <3> QED BY <3>1, <3>2 DEF IInv, BreakersInv, ProbesReport
  <2> QED BY <2>1, <2>2
<1> QED BY <1>1, <1>2, <1>3, <1>4 DEF BreakersInv

(* A permit p makes the request a probe: one more in the same half-open    *)
(* period, or the first of a new one.                                      *)
LEMMA GrantCounted ==
  ASSUME IInv, NEW r \in Requests, StepOf(r), NEW e \in Endpoints,
         target[r] = e, target' = target, permit[r] = NoPermit,
         NEW p, p # NoPermit, permit'[r] = p,
         NEW b, breaker[e] = b, b.generation \in Nat,
         NEW d, \/ d = b
                \/ /\ d.state = "half-open" /\ d.generation = b.generation + 1
                   /\ d.halfOpenInFlight = 0,
         NEW a, breaker'[e] = a,
         a.state = "half-open", a.state = d.state, a.generation = d.generation,
         a.halfOpenInFlight = d.halfOpenInFlight + 1,
         p.state = d.state, p.generation = d.generation
  PROVE  a.halfOpenInFlight = Cardinality(Voters(e)')
<1>1. Votes(r, e)' /\ ~Votes(r, e)
  BY DEF Votes, Current
<1>2. CASE d = b
  <2>1. Cardinality(Voters(e)') = Cardinality(Voters(e)) + 1
    BY <1>1, <1>2, VotersStep DEF One
  <2>2. b.halfOpenInFlight = Cardinality(Voters(e))
    BY <1>2 DEF IInv, BreakersInv, ProbesReport
  <2> QED BY <1>2, <2>1, <2>2
<1>3. CASE /\ d.state = "half-open" /\ d.generation = b.generation + 1
           /\ d.halfOpenInFlight = 0
  <2>1. ASSUME NEW q \in Requests \ {r}, q \in Voters(e)' PROVE FALSE
    <3>1. /\ target[q] = e /\ permit[q] # NoPermit
          /\ permit[q].generation = d.generation
      BY <2>1 DEF Voters, Current, StepOf
    <3>2. permit[q].generation <= b.generation
      BY <2>1, <3>1 DEF IInv, BreakersInv, PermitsReached
    <3> QED BY <1>3, <3>1, <3>2
  <2>2. r \in Voters(e)' /\ Voters(e)' \subseteq Requests
    BY <1>1 DEF Votes, Voters
  <2>3. Voters(e)' = {r}
    BY <2>1, <2>2
  <2>4. Cardinality(Voters(e)') = 1
    BY <2>3, FS_Singleton, Zenon
  <2> QED BY <1>3, <2>4
<1> QED BY <1>2, <1>3

(* The breaker grants a permit. *)
LEMMA AllowGrantedInv ==
  ASSUME IInv, NEW r \in Requests, AllowGranted(r)
  PROVE  IInv'
<1>0. target[r] \in Endpoints /\ permit[r] = NoPermit
  <2>1. pc[r] = "allow"
    BY DEF AllowGranted, Goto
  <2> QED BY <2>1 DEF IInv, RequestsInv, Picked, Permitted
<1> PICK e \in Endpoints : e = target[r]
  BY <1>0
<1> DEFINE b == breaker[e]
           d == Deciding(b)
           a == Admit(d)
           p == CircuitPermit(d)
<1>1. /\ pc[r] = "allow" /\ pc' = [pc EXCEPT ![r] = "acquire"]
      /\ permit' = [permit EXCEPT ![r] = p]
      /\ breaker' = [breaker EXCEPT ![e] = a]
      /\ UNCHANGED <<ctx, attempt, target, err, answers, active, borrowed>>
  BY DEF AllowGranted, Goto
<1>2. target[r] = e /\ target' = target /\ permit[r] = NoPermit
  BY <1>0, <1>1
<1>3. BreakerOK(b)
  BY <1>2 DEF IInv, BreakersInv
<1>4. breaker[e] = b
  OBVIOUS
<1> HIDE DEF b
<1>5. /\ BreakerOK(d)
      /\ d = b \/ (/\ d.state = "half-open" /\ d.generation = b.generation + 1
                   /\ d.halfOpenInFlight = 0)
  BY <1>3, DecidingOK
<1> HIDE DEF d
<1>6. /\ BreakerOK(a) /\ a.state = d.state /\ a.generation = d.generation
      /\ d.state = "half-open" => a.halfOpenInFlight = d.halfOpenInFlight + 1
  BY <1>5, AdmitOK
<1>7. p \in PermitType /\ p.generation = d.generation /\ p.state = d.state
  BY <1>5 DEF CircuitPermit, PermitType, BreakerOK, BreakerType
<1>8. p # NoPermit
  BY <1>7, ProxyConstants DEF ProxyConstants
<1> HIDE DEF a, p
<1>9. StepOf(r) /\ pc'[r] = "acquire" /\ permit'[r] = p
  BY <1>1 DEF StepOf, IInv, RequestsInv
<1>10. RequestsInv'
  <2>1. /\ pc' \in [Requests -> ProxyPC]
        /\ permit' \in [Requests -> PermitType \cup {NoPermit}]
    BY <1>1, <1>7 DEF IInv, RequestsInv, ProxyPC
  <2>2. ASSUME NEW q \in Requests
        PROVE  /\ pc'[q] \in Picked => target[q] \in Endpoints
               /\ permit'[q] # NoPermit <=> pc'[q] \in Permitted
    <3>1. CASE q = r
      BY <1>2, <1>8, <1>9, <3>1 DEF Permitted
    <3>2. CASE q # r
      BY <1>9, <2>2, <3>2 DEF StepOf, IInv, RequestsInv
    <3> QED BY <3>1, <3>2
  <2> QED BY <1>1, <2>1, <2>2 DEF IInv, RequestsInv
<1>11. CountersInv'
  <2>1. /\ pc'[r] \in Picked /\ pc[r] \in Picked
        /\ pc'[r] \notin Calling /\ pc[r] \notin Calling
    BY <1>1, <1>9 DEF Picked, Calling
  <2> QED BY <1>1, <1>9, <2>1, CountersKept DEF IInv
<1>12. breaker'[e] = a /\ b.generation \in Nat /\ a.generation \in Nat
  BY <1>1, <1>2, <1>3, <1>6 DEF IInv, BreakersInv, BreakerOK, BreakerType
<1>13. a.state = "half-open" => a.halfOpenInFlight = Cardinality(Voters(e)')
  <2> HAVE a.state = "half-open"
  <2>1. a.halfOpenInFlight = d.halfOpenInFlight + 1
    BY <1>6
  <2> QED
    BY <1>2, <1>4, <1>5, <1>6, <1>7, <1>8, <1>9, <1>12, <2>1, GrantCounted
<1>14. BreakersInv'
  <2>1. b.generation <= d.generation
    BY <1>5, <1>12
  <2>2. breaker[e].generation <= a.generation
    BY <1>4, <1>6, <2>1
  <2>3. p.generation <= a.generation
    BY <1>6, <1>7, <1>12
  <2>4. breaker' = [breaker EXCEPT ![e] = a]
    BY <1>1
  <2> QED
    BY <1>2, <1>6, <1>9, <1>10, <1>13, <2>2, <2>3, <2>4, BreakerStep, Zenon
<1>15. AnswerInv(r)'
  BY <1>1, <1>9 DEF IInv, AnswersInv, AnswerInv, Starting, Ended
<1> QED BY <1>9, <1>10, <1>11, <1>14, <1>15, AnswersStep DEF IInv

(* The breaker rejects: it has not cooled down, since a new half-open      *)
(* period admits, so it stays as it is.                                    *)
LEMMA AllowRejectedInv ==
  ASSUME IInv, NEW r \in Requests, AllowRejected(r)
  PROVE  IInv'
<1> DEFINE e == target[r]
           b == breaker[e]
           d == Deciding(b)
<1>1. /\ StepOf(r) /\ pc[r] = "allow" /\ pc'[r] = "done"
      /\ UNCHANGED <<target, permit, active, borrowed>> /\ e \in Endpoints
      /\ breaker' = [breaker EXCEPT ![e] = d] /\ ~Admits(d)
  BY DEF AllowRejected, Goto, With, StepOf, IInv, RequestsInv, Picked
<1>2. BreakerOK(b)
  BY <1>1 DEF IInv, BreakersInv
<1>3. d = b \/ (d.state = "half-open" /\ d.halfOpenPermitted = 0)
  BY <1>2, DecidingOK
<1>4. d = b
  BY <1>1, <1>3, ConfigNormalized DEF Admits, ConfigNormalized
<1>5. breaker' = breaker
  BY <1>1, <1>4 DEF IInv, BreakersInv
<1>6. Plain(r)
  BY <1>1, <1>5 DEF Plain, Picked, Calling
<1>7. RequestsInv'
  BY DEF AllowRejected, Goto, With, IInv, RequestsInv, ProxyPC, Codes, Picked, Permitted
<1>8. AnswerInv(r)'
  BY SMTT(30) DEF AllowRejected, Goto, With, IInv, RequestsInv, AnswersInv, AnswerInv, Starting, Ended
<1> QED BY <1>6, <1>7, <1>8, PlainInv

(* The attempt reports its outcome. *)
LEMMA ReportInv ==
  ASSUME IInv, NEW r \in Requests, Report(r)
  PROVE  IInv'
<1> DEFINE e == target[r]
           b == breaker[e]
           p == permit[r]
           ok == ~isCircuitFailure(err[r])
           n == complete(b, p, ok)
<1>1. /\ StepOf(r) /\ pc[r] = "report" /\ pc'[r] = "done"
      /\ target' = target /\ e \in Endpoints /\ p # NoPermit
      /\ permit'[r] = NoPermit
      /\ breaker' = [breaker EXCEPT ![e] = n]
  BY SMTT(30) DEF Report, Goto, StepOf, IInv, RequestsInv, Picked, Permitted, BreakersInv
<1>2. BreakerOK(b) /\ ok \in BOOLEAN
  BY <1>1, Zenon DEF IInv, BreakersInv, isCircuitFailure
<1>3. Votes(r, e) <=> Current(b, p)
  BY <1>1 DEF Votes
<1>4. breaker'[e] = n
  BY <1>1 DEF IInv, BreakersInv
<1> HIDE DEF ok
<1>5. /\ Cardinality(Voters(e)) \in Nat
      /\ Votes(r, e) => Cardinality(Voters(e)) > 0
  <2> DEFINE S == Voters(e)
  <2>1. S \in SUBSET Requests /\ (Votes(r, e) => r \in S)
    BY DEF Voters, Votes
  <2> HIDE DEF S
  <2>2. Cardinality(S) \in Nat /\ (r \in S => Cardinality(S) > 0)
    BY <2>1, CountStep
  <2> QED BY <2>1, <2>2 DEF S
<1>6. b.state = "half-open" => b.halfOpenInFlight = Cardinality(Voters(e))
  BY <1>1 DEF IInv, BreakersInv, ProbesReport
<1>7. /\ BreakerOK(n) /\ b.generation <= n.generation
      /\ ~Current(b, p) => n = b
      /\ Current(b, p) /\ n.state = "half-open" =>
           /\ b.state = "half-open" /\ n.generation = b.generation
           /\ n.halfOpenInFlight = b.halfOpenInFlight - 1
  <2> HIDE DEF b, p
  <2> QED BY <1>2, <1>3, <1>5, <1>6, CompleteOK
<1> HIDE DEF n
<1>8. n.state = "half-open" => n.halfOpenInFlight = Cardinality(Voters(e)')
  <2> SUFFICES ASSUME n.state = "half-open"
               PROVE  n.halfOpenInFlight = Cardinality(Voters(e)')
    OBVIOUS
  <2>1. n.generation = b.generation /\ n.state = b.state
    BY <1>7
  <2>2. ~Votes(r, e)'
    BY <1>1 DEF Votes
  <2>3. Cardinality(Voters(e)') = Cardinality(Voters(e)) - One(Votes(r, e))
    BY <1>1, <1>4, <2>1, <2>2, VotersStep DEF One
  <2>4. n.halfOpenInFlight = b.halfOpenInFlight - One(Votes(r, e))
    <3>1. b.halfOpenInFlight \in Nat
      BY <1>2 DEF BreakerOK, BreakerType
    <3> QED BY <1>3, <1>7, <3>1 DEF One
  <2> QED BY <1>6, <2>1, <2>3, <2>4
<1>9. RequestsInv'
  BY DEF Report, Goto, IInv, RequestsInv, ProxyPC, Picked, Permitted
<1>10. CountersInv'
  BY <1>1, CountersKept DEF Report, IInv, Picked, Calling
<1>11. BreakersInv'
  BY <1>1, <1>7, <1>8, <1>9, BreakerStep, Zenon
<1>12. AnswerInv(r)'
  BY DEF Report, Goto, IInv, RequestsInv, AnswersInv, AnswerInv, Starting, Ended
<1> QED BY <1>1, <1>9, <1>10, <1>11, <1>12, AnswersStep DEF IInv

-----------------------------------------------------------------------------
(* Nothing of the requests and counters changes, and the breakers stay in  *)
(* the period they are in.                                                 *)
LEMMA RequestsKept ==
  ASSUME IInv, UNCHANGED <<pc, ctx, attempt, target, permit, err, answers, active, borrowed>>,
         breaker' \in [Endpoints -> BreakerType],
         \A e \in Endpoints : BreakerOK(breaker'[e]) /\ SameProbes(breaker[e], breaker'[e])
  PROVE  IInv'
<1>1. RequestsInv'
  BY DEF IInv, RequestsInv
<1>2. CountersInv'
  BY DEF IInv, CountersInv, Picks, Borrows
<1>3. AnswersInv'
  BY DEF IInv, AnswersInv, AnswerInv, CtxDone
<1>4. PermitsReached'
  BY DEF IInv, BreakersInv, PermitsReached, RequestsInv, Permitted, Picked, SameProbes
<1>5. ProbesReport'
  <2>1. \A e \in Endpoints : Voters(e)' = Voters(e)
    BY DEF Voters, Current, SameProbes
  <2> QED BY <2>1 DEF IInv, BreakersInv, ProbesReport, SameProbes
<1> QED BY <1>1, <1>2, <1>3, <1>4, <1>5 DEF IInv, BreakersInv

(* Time passes. *)
LEMMA TickInv ==
  ASSUME IInv, Tick
  PROVE  IInv'
<1>1. ASSUME NEW e \in Endpoints
      PROVE  BreakerOK(breaker'[e]) /\ SameProbes(breaker[e], breaker'[e])
  <2> DEFINE b == breaker[e]
             t == IF b.elapsed < Cooldown THEN b.elapsed + 1 ELSE b.elapsed
  <2>1. breaker'[e] = [b EXCEPT !.elapsed = t]
    BY <1>1 DEF Tick
  <2>2. BreakerOK(b)
    BY <1>1 DEF IInv, BreakersInv
  <2>3. t \in 0..Cooldown
    BY <2>2, ConfigNormalized DEF BreakerOK, BreakerType, ConfigNormalized
  <2> HIDE DEF b, t
  <2>4. BreakerOK(breaker'[e]) /\ SameProbes(b, breaker'[e])
    BY <2>1, <2>2, <2>3, ElapsedOK
  <2> QED BY <2>4 DEF b
<1>2. breaker' \in [Endpoints -> BreakerType]
  <2>1. \A e \in Endpoints : breaker'[e] \in BreakerType
    BY <1>1 DEF BreakerOK
  <2>2. breaker' = [e \in Endpoints |-> breaker'[e]]
    BY DEF Tick
  <2> QED BY <2>1, <2>2
<1>3. UNCHANGED <<pc, ctx, attempt, target, permit, err, answers, active, borrowed>>
  BY DEF Tick, request
<1> QED BY <1>1, <1>2, <1>3, RequestsKept

(* The initial states. *)
LEMMA InitInv == Init => IInv
<1> SUFFICES ASSUME Init PROVE IInv
  OBVIOUS
<1>1. RequestsInv
  BY ProxyConstants DEF Init, RequestsInv, ProxyPC, Codes, Picked, Permitted, ProxyConstants
<1>2. CountersInv
  <2>1. \A e \in Endpoints : Picks(e) = {} /\ Borrows(e) = {}
    BY DEF Init, Picks, Borrows, Picked, Calling
  <2> QED BY <2>1, FS_EmptySet DEF Init, CountersInv
<1>3. BreakersInv
  <2>1. \A e \in Endpoints : breaker[e] = NewCircuitBreaker
    BY DEF Init, NewCircuitBreakerSet
  <2>2. \A e \in Endpoints : BreakerOK(breaker[e])
    BY <2>1, NewBreakerOK
  <2>3. breaker \in [Endpoints -> BreakerType]
    BY NewBreakerOK DEF Init, NewCircuitBreakerSet, BreakerOK
  <2>4. PermitsReached
    BY DEF Init, PermitsReached
  <2>5. NewCircuitBreaker.state = "closed"
    BY DEF NewCircuitBreaker
  <2>6. ProbesReport
    BY <2>1, <2>5 DEF ProbesReport
  <2> QED BY <2>2, <2>3, <2>4, <2>6 DEF BreakersInv
<1>4. AnswersInv
  BY DEF Init, AnswersInv, AnswerInv, Starting, Ended
<1> QED BY <1>1, <1>2, <1>3, <1>4 DEF IInv

(* Every step preserves the invariant. *)
LEMMA NextInv == IInv /\ [Next]_vars => IInv'
<1> SUFFICES ASSUME IInv, [Next]_vars PROVE IInv'
  OBVIOUS
<1>1. CASE Tick
  BY <1>1, TickInv
<1>2. ASSUME NEW r \in Requests, Attempt(r) PROVE IInv'
  <2>1. CASE \E e \in Endpoints : Pick(r, e)
    BY <1>2, <2>1, PickInv
  <2>2. CASE PickFails(r) \/ AcquireFails(r) \/ CallEndsWithCtx(r)
    BY <1>2, <2>2, AttemptInv
  <2>3. CASE AllowGranted(r) \/ AllowRejected(r)
    BY <1>2, <2>3, AllowGrantedInv, AllowRejectedInv
  <2>4. CASE Acquire(r) \/ Release(r)
    BY <1>2, <2>4, AcquireInv, ReleaseInv
  <2>5. CASE Report(r) \/ PickDone(r)
    BY <1>2, <2>5, ReportInv, PickDoneInv
  <2> QED BY <1>2, <2>1, <2>2, <2>3, <2>4, <2>5 DEF Attempt
<1>3. ASSUME NEW r \in Requests, Invoke(r) PROVE IInv'
  <2>1. CASE Start(r) \/ \E c \in {"invalid_argument", "resource_exhausted"} : Refuse(r, c)
    BY <1>3, <2>1, StartInv
  <2>2. CASE Attempt(r)
    BY <1>2, <1>3, <2>2
  <2>3. CASE Do(r)
    BY <1>3, <2>3, DoInv DEF Do
  <2>4. CASE Return(r)
    BY <1>3, <2>4, ReturnInv
  <2> QED BY <1>3, <2>1, <2>2, <2>3, <2>4 DEF Invoke
<1>4. ASSUME NEW r \in Requests, \E c \in UpstreamCodes : Answer(r, c) PROVE IInv'
  BY <1>4, AttemptInv
<1>5. ASSUME NEW r \in Requests,
             \E c \in {"deadline_exceeded", "canceled"} : CtxEnds(r, c)
      PROVE  IInv'
  BY <1>5, ReturnInv
<1>6. CASE UNCHANGED vars
  <2>1. UNCHANGED <<pc, ctx, attempt, target, permit, err, answers, active, borrowed, breaker>>
    BY <1>6 DEF vars, request
  <2>2. /\ breaker' \in [Endpoints -> BreakerType]
        /\ \A e \in Endpoints : BreakerOK(breaker'[e]) /\ SameProbes(breaker[e], breaker'[e])
    BY <2>1 DEF IInv, BreakersInv, SameProbes
  <2> QED BY <2>1, <2>2, RequestsKept
<1> QED BY <1>1, <1>3, <1>4, <1>5, <1>6 DEF Next

(* The inductive invariant of the proxy: a request holds what its place    *)
(* says, pick and pool count it, the breakers wait for the probes that     *)
(* will report, and the error at hand agrees with the answers.             *)
THEOREM Invariance == Spec => []IInv
<1>1. Init => IInv
  BY InitInv
<1>2. IInv /\ [Next]_vars => IInv'
  BY NextInv
<1> QED BY <1>1, <1>2, PTL DEF Spec

(* Whatever way an attempt ends, what it took is given back. *)
THEOREM LeaksNothing == Spec => []NothingLeaks
<1>1. IInv => NothingLeaks
  BY DEF IInv, RequestsInv, CountersInv, NothingLeaks, Picks, Borrows, Permitted, Calling
<1> QED BY <1>1, Invariance, PTL

(* No exit path of an attempt loses a probe of a half-open breaker. *)
THEOREM ProbesCorrect == Spec => []ProbesReport
<1>1. IInv => ProbesReport
  BY DEF IInv, BreakersInv
<1> QED BY <1>1, Invariance, PTL

(* What Invoke returns is what happened. *)
THEOREM ResultHonest == Spec => []HonestResult
<1>1. IInv => HonestResult
  BY DEF IInv, AnswersInv, AnswerInv, HonestResult
<1> QED BY <1>1, Invariance, PTL

(* A request is sent again only after retryable answers, and at most       *)
(* MaxAttempts times.                                                      *)
THEOREM RetriesCorrect == Spec => RetriesOnlyRetryable
<1>1. ASSUME IInv, NEW r \in Requests, Acquire(r)
      PROVE  answers[r] \subseteq RetryableCodes /\ attempt[r] <= MaxAttempts
  BY <1>1, ProxyConstants
  DEF Acquire, Goto, IInv, RequestsInv, AnswersInv, AnswerInv, Starting, ProxyConstants
<1>2. IInv /\ [Next]_vars =>
        [\A r \in Requests : Acquire(r) =>
           /\ answers[r] \subseteq RetryableCodes
           /\ attempt[r] <= MaxAttempts]_vars
  BY <1>1
<1> QED BY <1>2, Invariance, PTL DEF Spec, RetriesOnlyRetryable
=============================================================================
