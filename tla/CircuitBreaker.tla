--------------------------- MODULE CircuitBreaker ---------------------------
(***************************************************************************)
(* One circuit breaker shared by concurrent callers.  A caller is an       *)
(* invocation attempt of the sidecar: it asks Allow for a permit, works    *)
(* for any length of time, and reports with Done, which runs once per      *)
(* permit.  Time passes between any two steps.                             *)
(***************************************************************************)
EXTENDS Breaker, Sequences

CONSTANTS Callers,        \* concurrent invocation attempts
          NoPermit,       \* a caller that holds no permit
          MaxGeneration   \* bound: Allow stops when generations run out

ASSUME CallersFinite == IsFiniteSet(Callers) /\ NoPermit \notin PermitType
ASSUME GenerationBound == MaxGeneration \in Nat

VARIABLES breaker,   \* the CircuitBreaker
          permit     \* caller -> the permit it holds

vars == <<breaker, permit>>

Init ==
  /\ breaker = NewCircuitBreaker
  /\ permit = [c \in Callers |-> NoPermit]

-----------------------------------------------------------------------------

AllowGranted(c) ==
  LET b == Deciding(breaker) IN
  /\ permit[c] = NoPermit
  /\ breaker.generation < MaxGeneration
  /\ Admits(b)
  /\ breaker' = Admit(b)
  /\ permit' = [permit EXCEPT ![c] = CircuitPermit(b)]

(* Mutated form: a rejected call starts the cooldown again. *)
AllowRejectedRestarts(c) ==
  LET b == Deciding(breaker) IN
  /\ permit[c] = NoPermit
  /\ breaker.generation < MaxGeneration
  /\ ~Admits(b)
  /\ breaker' = [b EXCEPT !.elapsed = IF b.state = "open" THEN 0 ELSE @]
  /\ UNCHANGED permit

(* ErrCircuitOpen.  A fresh half-open period always admits, so a rejection *)
(* leaves the breaker as it was.                                           *)
AllowRejected(c) ==
  LET b == Deciding(breaker) IN
  /\ permit[c] = NoPermit
  /\ breaker.generation < MaxGeneration
  /\ ~Admits(b)
  /\ breaker' = b
  /\ UNCHANGED permit

Done(c, success) ==
  /\ permit[c] # NoPermit
  /\ breaker' = complete(breaker, permit[c], success)
  /\ permit' = [permit EXCEPT ![c] = NoPermit]

Tick ==
  /\ breaker' = [breaker EXCEPT !.elapsed = IF @ < Cooldown THEN @ + 1 ELSE @]
  /\ UNCHANGED permit

Next ==
  \/ Tick
  \/ \E c \in Callers :
       \/ AllowGranted(c)
       \/ AllowRejected(c)
       \/ \E success \in BOOLEAN : Done(c, success)

Spec == Init /\ [][Next]_vars

(* Time passes; an attempt ends, because invokeAttempt defers Done and the *)
(* attempt runs under the request deadline; and calls keep arriving.       *)
Fairness ==
  /\ WF_vars(Tick)
  /\ WF_vars(\E c \in Callers : AllowGranted(c))
  /\ \A c \in Callers : WF_vars(\E success \in BOOLEAN : Done(c, success))

FairSpec == Spec /\ Fairness

-----------------------------------------------------------------------------
(* Callers whose permit still counts. *)
Voters == {c \in Callers : permit[c] # NoPermit /\ Current(breaker, permit[c])}

(* Every variable keeps its type. *)
TypeOK ==
  /\ breaker \in BreakerType
  /\ permit \in [Callers -> PermitType \cup {NoPermit}]

(* The running counters of recordClosed agree with the ring: failures is   *)
(* the number of failed slots, and slots not yet written hold no failure.  *)
WindowAccurate ==
  /\ breaker.failures = Cardinality({i \in Slots : breaker.window[i]})
  /\ breaker.count < WindowSize =>
       /\ breaker.next = breaker.count
       /\ \A i \in Slots : i >= breaker.count => ~breaker.window[i]

(* Half-open bookkeeping, whatever permits of earlier generations are      *)
(* still out: halfOpenInFlight is the number of probes of this period that *)
(* have not reported, each probe is in flight or succeeded, and never more *)
(* than HalfOpenMaxRequests were let through.                              *)
ProbesAccounted ==
  /\ breaker.state = "half-open" =>
       /\ breaker.halfOpenInFlight = Cardinality(Voters)
       /\ breaker.halfOpenInFlight + breaker.halfOpenSuccesses
            = breaker.halfOpenPermitted
       /\ breaker.halfOpenPermitted \in 1..HalfOpenMaxRequests
       /\ breaker.halfOpenSuccesses < HalfOpenMaxRequests
  /\ breaker.state # "half-open" => breaker.halfOpenPermitted = 0

(* A breaker that admits everybody never has a window that should have     *)
(* tripped it, also not after stale completions.                           *)
ClosedBelowThreshold == breaker.state = "closed" => ~Tripped(breaker)

(* The ring read from its oldest outcome to its newest. *)
Recent ==
  [i \in 1..breaker.count |->
     LET slot == IF breaker.count < WindowSize THEN i - 1
                 ELSE breaker.next + i - 1
     IN  breaker.window[IF slot < WindowSize THEN slot ELSE slot - WindowSize]]

Abstract == INSTANCE AbstractBreaker WITH
  mode   <- breaker.state,
  cooled <- breaker.elapsed >= Cooldown,
  recent <- Recent,
  voters <- Voters,
  passed <- breaker.halfOpenSuccesses

(* Ring, generations and counters together implement the promise of        *)
(* AbstractBreaker: the window is exactly the last outcomes of the current *)
(* closed period, and late completions of earlier periods never count.     *)
ImplementsAbstract == Abstract!Spec

(* Once every probe of a half-open period has been handed out, the breaker *)
(* decides: it cannot be stuck half-open, rejecting everybody.             *)
HalfOpenDecides ==
  (breaker.state = "half-open" /\ breaker.halfOpenPermitted = HalfOpenMaxRequests)
    ~> breaker.state # "half-open"

(* An open breaker under continuing traffic is probed again: rejected      *)
(* calls do not push the end of the cooldown away.                         *)
OpenIsProbed ==
  (breaker.state = "open" /\ breaker.generation < MaxGeneration)
    ~> breaker.state = "half-open"
=============================================================================
