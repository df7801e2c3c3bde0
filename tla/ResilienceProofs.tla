-------------------------- MODULE ResilienceProofs --------------------------
(***************************************************************************)
(* Proofs about internal/resilience: the safety invariants of              *)
(* CircuitBreaker for every window, threshold, cooldown, number of probes  *)
(* and number of callers, that it implements AbstractBreaker, those of     *)
(* RateLimiter for every set of rules, and the delays of RetryBackoff for  *)
(* every width of a duration and every number of retries.                  *)
(***************************************************************************)
EXTENDS MCResilience, BreakerLemmas

(* The provers of a leaf that names none, and the time each is given. *)
USE ZenonT(8), SMTT(40)

-----------------------------------------------------------------------------
(* The inductive invariant.  What the safety properties leave out is that  *)
(* a permit was granted in a generation the breaker has already reached:   *)
(* so nobody holds a permit of a generation that is about to begin.        *)

PermitsReached ==
  \A c \in Callers :
    permit[c] # NoPermit => permit[c].generation <= breaker.generation

IInv ==
  /\ TypeOK
  /\ WindowAccurate
  /\ ProbesAccounted
  /\ ClosedBelowThreshold
  /\ PermitsReached

(* WindowAccurate is WindowOK of the breaker. *)
LEMMA WindowAccurateIsWindowOK == WindowAccurate <=> WindowOK(breaker)
BY DEF WindowAccurate, WindowOK, Failed

(* The probes a half-open breaker waits for are finitely many, since the   *)
(* callers are: they can be counted.                                       *)
LEMMA VotersFinite == IsFiniteSet(Voters) /\ Cardinality(Voters) \in Nat
BY FS_Subset, FS_CardinalityType, CallersFinite DEF Voters

(* A new breaker satisfies the invariant. *)
LEMMA InitIInv == Init => IInv
<1> SUFFICES ASSUME Init PROVE IInv
  OBVIOUS
<1>1. /\ breaker.state = "closed"
      /\ breaker.window = [i \in Slots |-> FALSE]
      /\ breaker.next = 0
      /\ breaker.count = 0
      /\ breaker.failures = 0
      /\ breaker.halfOpenPermitted = 0
  BY DEF Init, NewCircuitBreaker
<1>2. TypeOK
  <2> DEFINE w == [i \in Slots |-> FALSE]
             zero == 0
  <2>1. w \in [Slots -> BOOLEAN] /\ "closed" \in CircuitState
    BY DEF CircuitState
  <2>2. /\ zero \in Nat /\ zero \in Int /\ zero \in Slots /\ zero \in 0..WindowSize
        /\ Cooldown \in 0..Cooldown
    BY ConfigNormalized DEF Slots
  <2>3. breaker = [state |-> "closed", generation |-> zero, elapsed |-> Cooldown,
                   window |-> w, next |-> zero, count |-> zero, failures |-> zero,
                   halfOpenPermitted |-> zero, halfOpenInFlight |-> zero,
                   halfOpenSuccesses |-> zero]
    BY DEF Init, NewCircuitBreaker
  <2> HIDE DEF w, zero
  <2>4. breaker \in BreakerType
    BY <2>1, <2>2, <2>3 DEF BreakerType
  <2> QED
    BY <2>4 DEF TypeOK, Init
<1>3. Failed(breaker) = {}
  BY <1>1 DEF Failed
<1>4. WindowOK(breaker)
  BY <1>1, <1>3, FS_EmptySet DEF WindowOK
<1>5. ~Tripped(breaker)
  BY <1>1, ConfigNormalized DEF Tripped
<1>6. PermitsReached
  BY DEF PermitsReached, Init
<1> QED
  BY <1>1, <1>2, <1>4, <1>5, <1>6, WindowAccurateIsWindowOK
  DEF IInv, ProbesAccounted, ClosedBelowThreshold

(* A granted Allow: a breaker that turns half-open on the way finds no     *)
(* voter, so its first probe is the only one.                              *)
LEMMA AllowGrantedKeepsIInv ==
  ASSUME IInv, NEW c \in Callers, AllowGranted(c)
  PROVE  IInv'
<1> DEFINE b == Deciding(breaker)
<1> USE ConfigNormalized, CallersFinite
<1>1. /\ breaker \in BreakerType
      /\ permit \in [Callers -> PermitType \cup {NoPermit}]
      /\ WindowOK(breaker)
  BY WindowAccurateIsWindowOK DEF IInv, TypeOK
<1>2. /\ permit[c] = NoPermit
      /\ Admits(b)
      /\ breaker' = Admit(b)
      /\ permit' = [permit EXCEPT ![c] = CircuitPermit(b)]
  BY DEF AllowGranted
<1>3. /\ b \in BreakerType
      /\ SameRing(breaker, b)
      /\ breaker.generation <= b.generation
  <2>1. CASE Cooled(breaker)
    BY <1>1, <2>1, TransitionsKeepRing DEF Deciding, BreakerType
  <2>2. CASE ~Cooled(breaker)
    BY <1>1, <2>2 DEF Deciding, SameRing, BreakerType
  <2> QED
    BY <2>1, <2>2
<1>4. /\ breaker' \in BreakerType
      /\ SameRing(b, breaker')
      /\ breaker'.state = b.state
      /\ breaker'.generation = b.generation
      /\ breaker'.halfOpenSuccesses = b.halfOpenSuccesses
      /\ b.state = "half-open" =>
           /\ breaker'.halfOpenPermitted = b.halfOpenPermitted + 1
           /\ breaker'.halfOpenInFlight = b.halfOpenInFlight + 1
      /\ b.state # "half-open" => breaker' = b
  <2>1. CASE b.state = "half-open"
    <3> DEFINE p == b.halfOpenPermitted + 1
               q == b.halfOpenInFlight + 1
    <3>1. p \in Nat /\ q \in Nat
      BY <1>3 DEF BreakerType
    <3>2. breaker' = [b EXCEPT !.halfOpenPermitted = p, !.halfOpenInFlight = q]
      BY <1>2, <2>1 DEF Admit
    <3> HIDE DEF b, p, q
    <3>3. breaker' \in BreakerType
      BY <1>3, <3>1, <3>2 DEF BreakerType
    <3>4. SameRing(b, breaker')
      BY <1>3, <3>2 DEF BreakerType, SameRing
    <3>5. /\ breaker'.state = b.state
          /\ breaker'.generation = b.generation
          /\ breaker'.halfOpenSuccesses = b.halfOpenSuccesses
          /\ breaker'.halfOpenPermitted = p
          /\ breaker'.halfOpenInFlight = q
      BY <1>3, <3>2 DEF BreakerType
    <3> QED
      BY <2>1, <3>3, <3>4, <3>5 DEF p, q
  <2>2. CASE b.state # "half-open"
    BY <1>2, <1>3, <2>2 DEF Admit, SameRing
  <2> QED
    BY <2>1, <2>2
<1>5. CircuitPermit(b) \in PermitType
  BY <1>3 DEF CircuitPermit, PermitType, BreakerType
<1>6. TypeOK'
  BY <1>1, <1>2, <1>4, <1>5 DEF TypeOK
<1>7. WindowAccurate'
  <2>1. SameRing(breaker, breaker')
    BY <1>3, <1>4 DEF SameRing
  <2>2. WindowOK(breaker')
    BY <1>1, <2>1, SameRingSameWindow
  <2> QED
    BY <2>2 DEF WindowAccurate, WindowOK, Failed
<1>8. ClosedBelowThreshold'
  <2>1. b.state = "closed" => breaker = b
    BY <1>1, TransitionsKeepRing DEF Deciding
  <2> QED
    BY <1>4, <2>1 DEF ClosedBelowThreshold, IInv
<1>9. PermitsReached'
  BY <1>1, <1>2, <1>3, <1>4, <1>5
  DEF PermitsReached, IInv, PermitType, BreakerType, CircuitPermit
<1>10. ProbesAccounted'
  <2>1. CASE Cooled(breaker)
    <3>1. /\ b.state = "half-open"
          /\ b.generation = breaker.generation + 1
          /\ b.halfOpenPermitted = 0
          /\ b.halfOpenInFlight = 0
          /\ b.halfOpenSuccesses = 0
      BY <1>1, <2>1, TransitionsKeepRing DEF Deciding
    <3>2. \A d \in Callers : permit[d] # NoPermit => permit[d].generation # b.generation
      BY <1>1, <3>1 DEF PermitsReached, IInv, PermitType, BreakerType
    <3>3. Voters' = {c}
      BY <1>1, <1>2, <1>4, <1>5, <3>2
      DEF Voters, Current, CircuitPermit, PermitType
    <3>4. Cardinality(Voters') = 1
      BY <3>3, FS_Singleton
    <3> QED
      BY <1>4, <3>1, <3>4 DEF ProbesAccounted
  <2>2. CASE ~Cooled(breaker) /\ breaker.state = "half-open"
    <3>1. b = breaker
      BY <2>2 DEF Deciding
    <3>2. breaker.halfOpenPermitted < HalfOpenMaxRequests
      BY <1>2, <2>2, <3>1 DEF Admits
    <3>3. Voters' = Voters \cup {c} /\ c \notin Voters
      BY <1>1, <1>2, <1>4, <1>5, <3>1
      DEF Voters, Current, CircuitPermit, PermitType
    <3>4. Cardinality(Voters') = Cardinality(Voters) + 1
      BY <3>3, VotersFinite, FS_AddElement
    <3>5. /\ breaker.halfOpenInFlight = Cardinality(Voters)
          /\ breaker.halfOpenInFlight + breaker.halfOpenSuccesses
               = breaker.halfOpenPermitted
          /\ breaker.halfOpenPermitted \in 1..HalfOpenMaxRequests
          /\ breaker.halfOpenSuccesses < HalfOpenMaxRequests
          /\ breaker.halfOpenInFlight \in Nat /\ breaker.halfOpenSuccesses \in Nat
      BY <1>1, <2>2 DEF IInv, ProbesAccounted, BreakerType
    <3> QED
      BY <1>4, <2>2, <3>1, <3>2, <3>4, <3>5 DEF ProbesAccounted
  <2>3. CASE ~Cooled(breaker) /\ breaker.state # "half-open"
    BY <1>4, <2>3 DEF Deciding, IInv, ProbesAccounted
  <2> QED
    BY <2>1, <2>2, <2>3
<1> QED
  BY <1>6, <1>7, <1>8, <1>9, <1>10 DEF IInv

(* A rejected Allow changes nothing: a breaker that turns half-open admits. *)
LEMMA AllowRejectedKeepsIInv ==
  ASSUME IInv, NEW c \in Callers, AllowRejected(c)
  PROVE  IInv'
<1>1. breaker \in BreakerType
  BY DEF IInv, TypeOK
<1>2. ~Cooled(breaker)
  <2> SUFFICES ASSUME Cooled(breaker) PROVE FALSE
    OBVIOUS
  <2>1. /\ Deciding(breaker).state = "half-open"
        /\ Deciding(breaker).halfOpenPermitted = 0
    BY <1>1, TransitionsKeepRing DEF Deciding
  <2> QED
    BY <2>1, ConfigNormalized DEF AllowRejected, Admits
<1>3. UNCHANGED <<breaker, permit>>
  BY <1>2 DEF AllowRejected, Deciding
<1> QED
  BY <1>3
  DEF IInv, TypeOK, WindowAccurate, ProbesAccounted, ClosedBelowThreshold,
      PermitsReached, Voters

(* Time touches neither ring nor probes. *)
LEMMA TickKeepsIInv ==
  ASSUME IInv, Tick
  PROVE  IInv'
<1> DEFINE e == IF breaker.elapsed < Cooldown THEN breaker.elapsed + 1
                ELSE breaker.elapsed
<1>1. breaker \in BreakerType /\ WindowOK(breaker)
  BY WindowAccurateIsWindowOK DEF IInv, TypeOK
<1>2. e \in 0..Cooldown
  BY <1>1, ConfigNormalized DEF BreakerType
<1>3. breaker' = [breaker EXCEPT !.elapsed = e] /\ permit' = permit
  BY DEF Tick
<1> HIDE DEF e
<1>4. breaker' \in BreakerType
  BY <1>1, <1>2, <1>3 DEF BreakerType
<1>5. SameRing(breaker, breaker') /\ SameProbes(breaker, breaker')
  BY <1>1, <1>3 DEF BreakerType, SameRing, SameProbes
<1>6. WindowOK(breaker') /\ (Tripped(breaker) <=> Tripped(breaker'))
  BY <1>1, <1>5, SameRingSameWindow
<1>7. WindowAccurate'
  BY <1>6 DEF WindowAccurate, WindowOK, Failed
<1>8. Voters' = Voters
  BY <1>3, <1>5 DEF Voters, Current, SameProbes
<1> QED
  BY <1>3, <1>4, <1>5, <1>6, <1>7, <1>8
  DEF IInv, TypeOK, ProbesAccounted, ClosedBelowThreshold, PermitsReached,
      SameProbes

(* Done: the caller gives its permit back, which counts if it is current. *)
LEMMA DoneKeepsIInv ==
  ASSUME IInv, NEW c \in Callers, NEW success \in BOOLEAN, Done(c, success)
  PROVE  IInv'
<1> USE ConfigNormalized, CallersFinite
<1>1. /\ breaker \in BreakerType
      /\ permit \in [Callers -> PermitType \cup {NoPermit}]
      /\ WindowOK(breaker)
  BY WindowAccurateIsWindowOK DEF IInv, TypeOK
<1>2. /\ permit[c] # NoPermit
      /\ breaker' = complete(breaker, permit[c], success)
      /\ permit' = [permit EXCEPT ![c] = NoPermit]
  BY DEF Done
<1>3. Completed(breaker, breaker') /\ ProbesAccounted'
  <2>1. CASE c \notin Voters \/ breaker.state = "open"
    <3>1. breaker' = breaker
      BY <1>2, <2>1 DEF complete, Voters
    <3>2. Completed(breaker, breaker)
      BY <1>1 DEF Completed, IInv, ClosedBelowThreshold, BreakerType
    <3>3. breaker.state = "half-open" => Voters' = Voters
      BY <1>1, <1>2, <2>1, <3>1 DEF Voters
    <3> QED
      BY <3>1, <3>2, <3>3 DEF IInv, ProbesAccounted
  <2>2. CASE c \in Voters /\ breaker.state = "closed"
    <3>1. breaker' = completeClosed(breaker, success)
      BY <1>2, <2>2 DEF complete, Voters
    <3>2. breaker.halfOpenPermitted = 0
      BY <2>2 DEF IInv, ProbesAccounted
    <3> QED
      BY <1>1, <2>2, <3>1, <3>2, CompleteClosed DEF ProbesAccounted
  <2>3. CASE c \in Voters /\ breaker.state = "half-open"
    <3>1. breaker' = completeHalfOpen(breaker, success)
      BY <1>2, <2>3 DEF complete, Voters
    <3>2. /\ breaker.halfOpenInFlight = Cardinality(Voters)
          /\ breaker.halfOpenInFlight + breaker.halfOpenSuccesses
               = breaker.halfOpenPermitted
          /\ breaker.halfOpenPermitted \in 1..HalfOpenMaxRequests
          /\ breaker.halfOpenSuccesses \in Nat
      BY <1>1, <2>3 DEF IInv, ProbesAccounted, BreakerType
    <3>3. Cardinality(Voters \ {c}) = Cardinality(Voters) - 1
      BY <2>3, VotersFinite, FS_RemoveElement
    <3>4. Cardinality(Voters \ {c}) \in Nat
      BY VotersFinite, FS_RemoveElement, FS_CardinalityType
    <3>5. breaker.halfOpenInFlight > 0
      BY <3>2, <3>3, <3>4, VotersFinite
    <3>6. Completed(breaker, breaker')
      BY <1>1, <2>3, <3>1, <3>5, CompleteHalfOpen
    <3>7. CASE breaker'.state # "half-open"
      BY <1>1, <2>3, <3>1, <3>5, <3>7, CompleteHalfOpen, <3>6 DEF ProbesAccounted
    <3>8. CASE breaker'.state = "half-open"
      <4>1. /\ breaker'.generation = breaker.generation
            /\ breaker'.halfOpenPermitted = breaker.halfOpenPermitted
            /\ breaker'.halfOpenInFlight = breaker.halfOpenInFlight - 1
            /\ breaker'.halfOpenSuccesses = breaker.halfOpenSuccesses + 1
            /\ breaker'.halfOpenSuccesses < HalfOpenMaxRequests
        BY <1>1, <2>3, <3>1, <3>5, <3>8, CompleteHalfOpen
      <4>2. Voters' = Voters \ {c}
        BY <1>1, <1>2, <2>3, <3>8, <4>1 DEF Voters, Current
      <4> QED
        BY <3>2, <3>3, <3>6, <3>8, <4>1, <4>2, VotersFinite DEF ProbesAccounted
    <3> QED
      BY <3>6, <3>7, <3>8
  <2>4. breaker.state \in {"closed", "open", "half-open"}
    BY <1>1 DEF BreakerType, CircuitState
  <2> QED
    BY <2>1, <2>2, <2>3, <2>4
<1>4. TypeOK'
  BY <1>1, <1>2, <1>3 DEF TypeOK, Completed
<1>5. WindowAccurate'
  BY <1>3 DEF WindowAccurate, WindowOK, Failed, Completed
<1>6. ClosedBelowThreshold'
  BY <1>3 DEF ClosedBelowThreshold, Completed
<1>7. PermitsReached'
  BY <1>1, <1>2, <1>3 DEF PermitsReached, IInv, Completed, PermitType, BreakerType
<1> QED
  BY <1>3, <1>4, <1>5, <1>6, <1>7 DEF IInv

-----------------------------------------------------------------------------
(* Every step of the callers and of time preserves the invariant. *)
LEMMA NextKeepsIInv == IInv /\ [Next]_vars => IInv'
<1> SUFFICES ASSUME IInv, [Next]_vars PROVE IInv'
  OBVIOUS
<1>1. CASE Tick
  BY <1>1, TickKeepsIInv
<1>2. ASSUME NEW c \in Callers, AllowGranted(c) PROVE IInv'
  BY <1>2, AllowGrantedKeepsIInv
<1>3. ASSUME NEW c \in Callers, AllowRejected(c) PROVE IInv'
  BY <1>3, AllowRejectedKeepsIInv
<1>4. ASSUME NEW c \in Callers, NEW success \in BOOLEAN, Done(c, success) PROVE IInv'
  BY <1>4, DoneKeepsIInv
<1>5. CASE UNCHANGED vars
  BY <1>5
  DEF IInv, TypeOK, WindowAccurate, ProbesAccounted, ClosedBelowThreshold,
      PermitsReached, Voters, vars
<1> QED
  BY <1>1, <1>2, <1>3, <1>4, <1>5 DEF Next

(* The invariant holds in every reachable state. *)
THEOREM Invariance == Spec => []IInv
BY InitIInv, NextKeepsIInv, PTL DEF Spec

(* Type correctness of the breaker and its permits. *)
THEOREM TypeCorrect == Spec => []TypeOK
<1>1. IInv => TypeOK
  BY DEF IInv
<1> QED
  BY Invariance, <1>1, PTL

(* recordClosed's counters always agree with the ring. *)
THEOREM WindowCorrect == Spec => []WindowAccurate
<1>1. IInv => WindowAccurate
  BY DEF IInv
<1> QED
  BY Invariance, <1>1, PTL

(* Probes are counted exactly and never exceed HalfOpenMaxRequests, for    *)
(* any number of callers with permits of any earlier generation.           *)
THEOREM ProbesCorrect == Spec => []ProbesAccounted
<1>1. IInv => ProbesAccounted
  BY DEF IInv
<1> QED
  BY Invariance, <1>1, PTL

(* A closed breaker is below its failure threshold. *)
THEOREM ClosedCorrect == Spec => []ClosedBelowThreshold
<1>1. IInv => ClosedBelowThreshold
  BY DEF IInv
<1> QED
  BY Invariance, <1>1, PTL
-----------------------------------------------------------------------------
(* The breaker implements AbstractBreaker. *)

(* The ring of a breaker from its oldest outcome to its newest. *)
Slot(b, i) ==
  LET slot == IF b.count < WindowSize THEN i - 1 ELSE b.next + i - 1
  IN  IF slot < WindowSize THEN slot ELSE slot - WindowSize

Outcomes(b) == [i \in 1..b.count |-> b.window[Slot(b, i)]]

(* It is what the refinement mapping reads. *)
LEMMA RecentIsOutcomes == Recent = Outcomes(breaker)
BY DEF Recent, Outcomes, Slot

(* Every outcome has a slot of its own, and a full ring has no other slot. *)
LEMMA SlotsOfOutcomes ==
  ASSUME NEW b \in BreakerType, WindowOK(b)
  PROVE  /\ \A i \in 1..b.count : Slot(b, i) \in Slots
         /\ \A i, j \in 1..b.count : Slot(b, i) = Slot(b, j) => i = j
         /\ \A n \in Slots : b.window[n] => \E i \in 1..b.count : Slot(b, i) = n
<1> USE ConfigNormalized
<1>1. b.count \in 0..WindowSize /\ b.next \in 0..(WindowSize - 1)
  BY DEF BreakerType, Slots
<1>2. \A i \in 1..b.count : Slot(b, i) \in Slots
  BY <1>1 DEF Slot, Slots
<1>3. \A i, j \in 1..b.count : Slot(b, i) = Slot(b, j) => i = j
  BY <1>1 DEF Slot, Slots
<1>4. ASSUME NEW n \in Slots, b.window[n]
      PROVE  \E i \in 1..b.count : Slot(b, i) = n
  <2>1. CASE b.count < WindowSize
    <3>1. n < b.count
      BY <1>1, <1>4, <2>1 DEF WindowOK, Slots
    <3>2. n + 1 \in 1..b.count /\ Slot(b, n + 1) = n
      BY <1>1, <2>1, <3>1 DEF Slot, Slots
    <3> QED BY <3>2
  <2>2. CASE b.count = WindowSize
    <3> DEFINE i == IF n >= b.next THEN n - b.next + 1 ELSE n + WindowSize - b.next + 1
    <3>1. i \in 1..b.count /\ Slot(b, i) = n
      BY <1>1, <2>2 DEF Slot, Slots
    <3> QED BY <3>1
  <2> QED BY <1>1, <2>1, <2>2
<1> QED BY <1>2, <1>3, <1>4

(* The outcomes are a sequence of as many Booleans as the ring has. *)
LEMMA OutcomesType ==
  ASSUME NEW b \in BreakerType, WindowOK(b)
  PROVE  /\ b.count \in Nat
         /\ Outcomes(b) \in Seq(BOOLEAN)
         /\ Len(Outcomes(b)) = b.count
         /\ DOMAIN Outcomes(b) = 1..b.count
         /\ \A i \in 1..b.count : Outcomes(b)[i] = b.window[Slot(b, i)]
<1>1. b.count \in Nat /\ b.window \in [Slots -> BOOLEAN]
  BY ConfigNormalized DEF BreakerType
<1>2. \A i \in 1..b.count : b.window[Slot(b, i)] \in BOOLEAN
  BY <1>1, SlotsOfOutcomes
<1>3. Outcomes(b) \in [1..b.count -> BOOLEAN]
  BY <1>2 DEF Outcomes
<1> QED BY <1>1, <1>3 DEF Outcomes

(* The counter of failures counts those of the sequence. *)
LEMMA FailuresOfOutcomes ==
  ASSUME NEW b \in BreakerType, WindowOK(b)
  PROVE  Abstract!Failures(Outcomes(b)) = b.failures
<1> DEFINE S == {i \in DOMAIN Outcomes(b) : Outcomes(b)[i]}
           f == [i \in S |-> Slot(b, i)]
<1>1. S = {i \in 1..b.count : b.window[Slot(b, i)]}
  BY OutcomesType
<1>2. f \in Bijection(S, Failed(b))
  <2>1. f \in [S -> Failed(b)]
    BY <1>1, SlotsOfOutcomes DEF Failed
  <2>2. f \in Injection(S, Failed(b))
    BY <1>1, <2>1, SlotsOfOutcomes DEF Injection, IsInjective
  <2>3. f \in Surjection(S, Failed(b))
    <3>1. ASSUME NEW n \in Failed(b) PROVE \E i \in S : f[i] = n
      <4>1. PICK i \in 1..b.count : Slot(b, i) = n
        BY <3>1, SlotsOfOutcomes DEF Failed
      <4>2. i \in S
        BY <1>1, <3>1, <4>1 DEF Failed
      <4> QED BY <4>1, <4>2
    <3> QED BY <2>1, <3>1 DEF Surjection
  <2> QED BY <2>2, <2>3 DEF Bijection
<1> HIDE DEF S
<1>3. Cardinality(S) = Cardinality(Failed(b))
  <2>1. IsFiniteSet(Failed(b))
    BY FailedFinite
  <2>2. IsFiniteSet(S)
    <3>1. IsFiniteSet(1..b.count)
      BY OutcomesType, FS_Interval
    <3>2. S \subseteq 1..b.count
      BY <1>1
    <3> QED BY <3>1, <3>2, FS_Subset
  <2>3. ExistsBijection(S, Failed(b))
    BY <1>2 DEF ExistsBijection
  <2> QED BY <2>1, <2>2, <2>3, FS_Bijection
<1>4. Abstract!Failures(Outcomes(b)) = Cardinality(S)
  BY DEF Abstract!Failures, S, Abstract!Cardinality, Cardinality
<1> QED BY <1>3, <1>4 DEF WindowOK

(* The breaker trips when its sequence of outcomes is too bad. *)
LEMMA TrippedByOutcomes ==
  ASSUME NEW b \in BreakerType, WindowOK(b)
  PROVE  Abstract!TooManyFailures(Outcomes(b)) <=> Tripped(b)
BY OutcomesType, FailuresOfOutcomes DEF Abstract!TooManyFailures, Tripped

(* recordClosed slides the window: the newest outcome enters, and the      *)
(* oldest leaves a full ring.                                              *)
LEMMA RecordClosedSlides ==
  ASSUME NEW b \in BreakerType, NEW failure \in BOOLEAN, WindowOK(b)
  PROVE  Outcomes(recordClosed(b, failure)) = Abstract!Slide(Outcomes(b), failure)
<1> DEFINE r == recordClosed(b, failure)
           s == Outcomes(b)
           t == Abstract!Slide(s, failure)
<1> USE ConfigNormalized
<1>1. /\ b.count \in 0..WindowSize /\ b.next \in 0..(WindowSize - 1)
      /\ b.window \in [0..(WindowSize - 1) -> BOOLEAN]
  BY DEF BreakerType, Slots
<1>2. /\ r.window = [b.window EXCEPT ![b.next] = failure]
      /\ r.count = IF b.count = WindowSize THEN b.count ELSE b.count + 1
      /\ r.next = IF b.next + 1 = WindowSize THEN 0 ELSE b.next + 1
  BY DEF recordClosed, BreakerType
<1>3. s \in Seq(BOOLEAN) /\ Len(s) = b.count
      /\ \A i \in 1..b.count : s[i] = b.window[Slot(b, i)]
  BY OutcomesType
<1>4. r \in BreakerType /\ WindowOK(r)
  BY RecordClosedKeepsWindow
<1>5. /\ Outcomes(r) \in Seq(BOOLEAN) /\ Len(Outcomes(r)) = r.count
      /\ \A i \in 1..r.count : Outcomes(r)[i] = r.window[Slot(r, i)]
  BY <1>4, OutcomesType
<1> HIDE DEF r, s
<1>6. CASE b.count < WindowSize
  <2>1. t = Append(s, failure)
    BY <1>1, <1>3, <1>6 DEF Abstract!Slide
  <2>2. t \in Seq(BOOLEAN) /\ Len(t) = r.count
    BY <1>1, <1>2, <1>3, <1>6, <2>1
  <2>3. b.next = b.count
    BY <1>6 DEF WindowOK
  <2>4. ASSUME NEW i \in 1..r.count PROVE Outcomes(r)[i] = t[i]
    <3>1. Slot(r, i) = i - 1
      BY <1>1, <1>2, <1>6, <2>3, <2>4 DEF Slot
    <3>2. Outcomes(r)[i] = r.window[i - 1]
      BY <1>5, <2>4, <3>1
    <3>3. CASE i = b.count + 1
      <4>1. r.window[i - 1] = failure
        BY <1>1, <1>2, <2>3, <3>3
      <4>2. t[i] = failure
        BY <1>3, <2>1, <3>3
      <4> QED BY <3>2, <4>1, <4>2
    <3>4. CASE i \in 1..b.count
      <4>1. Slot(b, i) = i - 1
        BY <1>1, <1>6, <3>4 DEF Slot
      <4>2. t[i] = b.window[i - 1]
        BY <1>3, <2>1, <3>4, <4>1
      <4>3. r.window[i - 1] = b.window[i - 1]
        BY <1>1, <1>2, <2>3, <3>4
      <4> QED BY <3>2, <4>2, <4>3
    <3> QED BY <1>1, <1>2, <1>6, <2>4, <3>3, <3>4
  <2> HIDE DEF t
  <2>5. Len(Outcomes(r)) = Len(t) /\ \A i \in 1..Len(Outcomes(r)) : Outcomes(r)[i] = t[i]
    BY <1>5, <2>2, <2>4
  <2>6. Outcomes(r) \in Seq(BOOLEAN) /\ t \in Seq(BOOLEAN)
    BY <1>5, <2>2
  <2>7. Outcomes(r) = t
    BY <2>5, <2>6
  <2> QED BY <2>7 DEF r, s, t
<1>7. CASE b.count = WindowSize
  <2>1. t = Append(Tail(s), failure)
    BY <1>1, <1>3, <1>7 DEF Abstract!Slide
  <2>2. /\ Tail(s) \in Seq(BOOLEAN) /\ Len(Tail(s)) = WindowSize - 1
        /\ \A i \in 1..(WindowSize - 1) : Tail(s)[i] = s[i + 1]
    BY <1>3, <1>7
  <2>3. t \in Seq(BOOLEAN) /\ Len(t) = r.count
    BY <1>1, <1>2, <1>7, <2>1, <2>2
  <2>4. ASSUME NEW i \in 1..r.count PROVE Outcomes(r)[i] = t[i]
    <3>1. Outcomes(r)[i] = r.window[Slot(r, i)]
      BY <1>5, <2>4
    <3>2. CASE i = WindowSize
      <4>1. Slot(r, i) = b.next
        BY <1>1, <1>2, <1>7, <3>2 DEF Slot
      <4>2. r.window[Slot(r, i)] = failure
        BY <1>1, <1>2, <4>1
      <4>3. t[i] = failure
        BY <2>1, <2>2, <3>2
      <4> QED BY <3>1, <4>2, <4>3
    <3>3. CASE i \in 1..(WindowSize - 1)
      <4>1. Slot(r, i) = Slot(b, i + 1) /\ Slot(r, i) # b.next
            /\ Slot(r, i) \in 0..(WindowSize - 1)
        BY <1>1, <1>2, <1>7, <3>3 DEF Slot
      <4>2. r.window[Slot(r, i)] = b.window[Slot(b, i + 1)]
        BY <1>1, <1>2, <4>1
      <4>3. t[i] = s[i + 1]
        BY <2>1, <2>2, <3>3
      <4>4. s[i + 1] = b.window[Slot(b, i + 1)]
        BY <1>1, <1>3, <1>7, <3>3
      <4> QED BY <3>1, <4>2, <4>3, <4>4
    <3> QED BY <1>1, <1>2, <1>7, <2>4, <3>2, <3>3
  <2> HIDE DEF t
  <2>5. Len(Outcomes(r)) = Len(t) /\ \A i \in 1..Len(Outcomes(r)) : Outcomes(r)[i] = t[i]
    BY <1>5, <2>3, <2>4
  <2>6. Outcomes(r) \in Seq(BOOLEAN) /\ t \in Seq(BOOLEAN)
    BY <1>5, <2>3
  <2>7. Outcomes(r) = t
    BY <2>5, <2>6
  <2> QED BY <2>7 DEF r, s, t
<1>8. b.count < WindowSize \/ b.count = WindowSize
  BY <1>1
<1> QED BY <1>6, <1>7, <1>8 DEF r, s

(* Nobody is granted a permit by an open breaker. *)
PermitsGranted == \A c \in Callers : permit[c] # NoPermit => permit[c].state # "open"

RInv == IInv /\ PermitsGranted

(* It holds from the start and through every step. *)
LEMMA InitRInv == Init => RInv
BY InitIInv DEF Init, RInv, PermitsGranted

(* Every step keeps it. *)
LEMMA NextKeepsRInv == RInv /\ [Next]_vars => RInv'
<1> SUFFICES ASSUME RInv, [Next]_vars PROVE PermitsGranted'
  BY NextKeepsIInv DEF RInv
<1>1. permit \in [Callers -> PermitType \cup {NoPermit}]
  BY DEF RInv, IInv, TypeOK
<1>2. ASSUME NEW c \in Callers, AllowGranted(c) PROVE PermitsGranted'
  <2> DEFINE p == CircuitPermit(Deciding(breaker))
  <2>1. permit' = [permit EXCEPT ![c] = p] /\ p.state # "open"
    BY <1>2 DEF AllowGranted, Admits, CircuitPermit
  <2> HIDE DEF p
  <2> QED BY <1>1, <2>1 DEF PermitsGranted, RInv
<1>3. ASSUME NEW c \in Callers, NEW success \in BOOLEAN, Done(c, success)
      PROVE  PermitsGranted'
  BY <1>1, <1>3 DEF Done, PermitsGranted, RInv
<1>4. CASE permit' = permit
  BY <1>4 DEF PermitsGranted, RInv
<1> QED BY <1>2, <1>3, <1>4 DEF Next, Tick, AllowRejected, vars

-----------------------------------------------------------------------------
(* The refinement: initial states. *)
LEMMA AbstractInit == Init => Abstract!Init
<1> SUFFICES ASSUME Init PROVE Abstract!Init
  OBVIOUS
<1>1. /\ breaker.state = "closed" /\ breaker.elapsed = Cooldown /\ breaker.count = 0
      /\ breaker.halfOpenSuccesses = 0
  BY DEF Init, NewCircuitBreaker
<1>2. Recent = <<>>
  BY <1>1 DEF Recent
<1>3. Voters = {}
  BY DEF Voters, Init
<1>4. (breaker.elapsed >= Cooldown) = TRUE
  BY <1>1, ConfigNormalized
<1> QED BY <1>1, <1>2, <1>3, <1>4 DEF Abstract!Init

(* A step that leaves what the mapping reads. *)
LEMMA AbstractStutter ==
  ASSUME breaker'.state = breaker.state, breaker'.elapsed = breaker.elapsed,
         Outcomes(breaker') = Outcomes(breaker), Voters' = Voters,
         breaker'.halfOpenSuccesses = breaker.halfOpenSuccesses
  PROVE  UNCHANGED Abstract!vars
BY RecentIsOutcomes DEF Abstract!vars, Recent, Outcomes, Slot

(* The ring is read the same as long as it is the same. *)
LEMMA SameRingSameOutcomes ==
  ASSUME NEW b, NEW r, SameRing(b, r)
  PROVE  Outcomes(r) = Outcomes(b)
BY DEF SameRing, Outcomes, Slot

(* Time only ever cools the breaker. *)
LEMMA TickRefines ==
  ASSUME RInv, Tick
  PROVE  Abstract!Next \/ UNCHANGED Abstract!vars
<1> DEFINE e == IF breaker.elapsed < Cooldown THEN breaker.elapsed + 1
                ELSE breaker.elapsed
<1>1. breaker \in BreakerType
  BY DEF RInv, IInv, TypeOK
<1>2. breaker' = [breaker EXCEPT !.elapsed = e] /\ permit' = permit
  BY DEF Tick
<1>3. SameRing(breaker, breaker') /\ SameProbes(breaker, breaker')
      /\ breaker'.elapsed = e
  BY <1>1, <1>2 DEF BreakerType, SameRing, SameProbes
<1>4. Recent' = Recent
  BY <1>3 DEF SameRing, Recent
<1>5. Voters' = Voters
  BY <1>2, <1>3 DEF Voters, Current, SameProbes
<1>6. breaker.elapsed \in 0..Cooldown /\ Cooldown \in Nat
  BY <1>1, ConfigNormalized DEF BreakerType
<1>7. \/ (breaker'.elapsed >= Cooldown) = TRUE
      \/ (breaker'.elapsed >= Cooldown) = (breaker.elapsed >= Cooldown)
  BY <1>3, <1>6
<1> QED
  BY <1>3, <1>4, <1>5, <1>7 DEF Abstract!Next, Abstract!Cool, Abstract!vars, SameProbes

(* AbstractBreaker counts voters as CircuitBreaker does. *)
LEMMA AbstractCardinality == \A S : Abstract!Cardinality(S) = Cardinality(S)
BY DEF Abstract!Cardinality, Cardinality

(* A permit is an admission: by a closed breaker, of the first probe of a  *)
(* breaker that has cooled, or of a further one.                           *)
LEMMA AllowGrantedRefines ==
  ASSUME RInv, NEW c \in Callers, AllowGranted(c)
  PROVE  Abstract!Next
<1> DEFINE b == Deciding(breaker)
<1>1. /\ breaker \in BreakerType
      /\ permit \in [Callers -> PermitType \cup {NoPermit}]
      /\ NoPermit \notin PermitType
  BY CallersFinite DEF RInv, IInv, TypeOK
<1>2. /\ permit[c] = NoPermit /\ Admits(b)
      /\ breaker' = Admit(b)
      /\ permit' = [permit EXCEPT ![c] = CircuitPermit(b)]
  BY DEF AllowGranted
<1>3. CASE Cooled(breaker)
  <2>1. b = transitionHalfOpen(breaker)
    BY <1>3 DEF Deciding
  <2>2. /\ b \in BreakerType /\ SameRing(breaker, b)
        /\ b.state = "half-open" /\ b.generation = breaker.generation + 1
        /\ b.halfOpenSuccesses = 0
    BY <1>1, <2>1, TransitionsKeepRing
  <2>3. b.elapsed = breaker.elapsed
    BY <1>1, <2>1 DEF transitionHalfOpen, BreakerType
  <2> HIDE DEF b
  <2>4. /\ SameRing(b, breaker') /\ breaker'.state = "half-open"
        /\ breaker'.generation = b.generation /\ breaker'.elapsed = b.elapsed
        /\ breaker'.halfOpenSuccesses = 0
    BY <1>2, <2>2 DEF Admit, BreakerType, SameRing
  <2>5. \A d \in Callers : permit[d] # NoPermit => permit[d].generation # b.generation
    BY <1>1, <2>2 DEF RInv, PermitsReached, IInv, PermitType, BreakerType
  <2>6. Voters' = {c}
    <3>1. CircuitPermit(b) \in PermitType /\ Current(b, CircuitPermit(b))
      BY <2>2 DEF CircuitPermit, PermitType, BreakerType, Current
    <3>2. \A d \in Callers : permit'[d] # NoPermit /\ Current(breaker', permit'[d]) <=> d = c
      BY <1>1, <1>2, <2>2, <2>4, <2>5, <3>1 DEF Current
    <3> QED BY <3>2 DEF Voters
  <2>7. Recent' = Recent
    BY <2>2, <2>4 DEF SameRing, Recent
  <2>8. Abstract!FirstProbe(c)
    BY <1>3, <2>3, <2>4, <2>6, <2>7 DEF Abstract!FirstProbe, Cooled
  <2> QED BY <2>8 DEF Abstract!Next
<1>4. CASE ~Cooled(breaker)
  <2>1. b = breaker
    BY <1>4 DEF Deciding
  <2> HIDE DEF b
  <2>2. /\ SameRing(breaker, breaker') /\ breaker'.state = breaker.state
        /\ breaker'.generation = breaker.generation
        /\ breaker'.elapsed = breaker.elapsed
        /\ breaker'.halfOpenSuccesses = breaker.halfOpenSuccesses
    BY <1>1, <1>2, <2>1 DEF Admit, BreakerType, SameRing
  <2>3. Voters' = Voters \cup {c} /\ c \notin Voters
    <3>1. CircuitPermit(b) \in PermitType /\ Current(breaker, CircuitPermit(b))
      BY <1>1, <2>1 DEF CircuitPermit, PermitType, BreakerType, Current
    <3>2. \A x : Current(breaker', x) <=> Current(breaker, x)
      BY <2>2 DEF Current
    <3>3. permit'[c] = CircuitPermit(b) /\ \A d \in Callers \ {c} : permit'[d] = permit[d]
      BY <1>1, <1>2
    <3> HIDE DEF b
    <3> QED BY <1>1, <1>2, <3>1, <3>2, <3>3 DEF Voters
  <2>4. Recent' = Recent
    BY <2>2 DEF SameRing, Recent
  <2>5. CASE breaker.state = "closed"
    <3>1. Abstract!AdmitWhenClosed(c)
      BY <2>2, <2>3, <2>4, <2>5 DEF Abstract!AdmitWhenClosed
    <3> QED BY <3>1 DEF Abstract!Next
  <2>6. CASE breaker.state = "half-open"
    <3>1. Cardinality(Voters) + breaker.halfOpenSuccesses < HalfOpenMaxRequests
      BY <1>1, <1>2, <2>1, <2>6
      DEF Admits, RInv, IInv, ProbesAccounted, BreakerType
    <3>2. Abstract!NextProbe(c)
      BY <2>2, <2>3, <2>4, <2>6, <3>1, AbstractCardinality DEF Abstract!NextProbe
    <3> QED BY <3>2 DEF Abstract!Next
  <2> QED BY <1>2, <2>1, <2>5, <2>6 DEF Admits
<1> QED BY <1>3, <1>4

(* Without a vote a completion changes nothing that the mapping reads. *)
LEMMA AllowRejectedRefines ==
  ASSUME RInv, NEW c \in Callers, AllowRejected(c)
  PROVE  UNCHANGED Abstract!vars
<1>1. breaker \in BreakerType
  BY DEF RInv, IInv, TypeOK
<1>2. ~Cooled(breaker)
  <2> SUFFICES ASSUME Cooled(breaker) PROVE FALSE
    OBVIOUS
  <2>1. /\ Deciding(breaker).state = "half-open"
        /\ Deciding(breaker).halfOpenPermitted = 0
    BY <1>1, TransitionsKeepRing DEF Deciding
  <2> QED
    BY <2>1, ConfigNormalized DEF AllowRejected, Admits
<1>3. breaker' = breaker /\ permit' = permit
  BY <1>2 DEF AllowRejected, Deciding
<1>4. Voters' = Voters
  BY <1>3 DEF Voters
<1> QED BY <1>3, <1>4, AbstractStutter

(* A completion: of a permit that no longer counts, of a call admitted     *)
(* since the breaker closed, or of a probe.                                *)
LEMMA DoneRefines ==
  ASSUME RInv, NEW c \in Callers, NEW success \in BOOLEAN, Done(c, success)
  PROVE  Abstract!Next \/ UNCHANGED Abstract!vars
<1>1. /\ breaker \in BreakerType /\ WindowOK(breaker)
      /\ permit \in [Callers -> PermitType \cup {NoPermit}]
      /\ NoPermit \notin PermitType
  BY CallersFinite, WindowAccurateIsWindowOK DEF RInv, IInv, TypeOK
<1>2. /\ permit[c] # NoPermit
      /\ breaker' = complete(breaker, permit[c], success)
      /\ permit' = [permit EXCEPT ![c] = NoPermit]
  BY DEF Done
<1>3. \A d \in Callers : permit'[d] # NoPermit =>
        permit'[d].generation <= breaker.generation
  BY <1>1, <1>2 DEF RInv, IInv, PermitsReached
<1>4. CASE c \notin Voters
  <2>1. breaker' = breaker
    BY <1>2, <1>4 DEF complete, Voters
  <2>2. Voters' = Voters
    BY <1>1, <1>2, <1>4, <2>1 DEF Voters
  <2> QED BY <2>1, <2>2, AbstractStutter
<1>5. CASE c \in Voters /\ breaker.state = "closed"
  <2> DEFINE q == recordClosed(breaker, ~success)
             o == transitionOpen(q)
  <2>1. breaker' = IF Tripped(q) THEN o ELSE q
    BY <1>2, <1>5 DEF complete, completeClosed, Voters
  <2>2. /\ q \in BreakerType /\ WindowOK(q) /\ SameProbes(breaker, q)
        /\ q.elapsed = breaker.elapsed
    <3>1. q.elapsed = breaker.elapsed
      BY <1>1 DEF recordClosed, BreakerType
    <3>2. q \in BreakerType /\ WindowOK(q) /\ SameProbes(breaker, q)
      BY <1>1, RecordClosedKeepsWindow
    <3> QED BY <3>1, <3>2
  <2>3. /\ Outcomes(q) = Abstract!Slide(Recent, ~success)
        /\ Abstract!TooManyFailures(Outcomes(q)) <=> Tripped(q)
    BY <1>1, <2>2, RecentIsOutcomes, RecordClosedSlides, TrippedByOutcomes
  <2> HIDE DEF q
  <2>4. CASE Tripped(q)
    <3>1. /\ o \in BreakerType /\ SameRing(q, o) /\ o.state = "open"
          /\ o.generation = q.generation + 1 /\ o.halfOpenSuccesses = 0
      BY <2>2, TransitionsKeepRing
    <3>2. o.elapsed = 0
      BY <2>2 DEF transitionOpen, BreakerType
    <3> HIDE DEF o
    <3>3. breaker' = o
      BY <2>1, <2>4
    <3>4. Recent' = Outcomes(q)
      BY <3>1, <3>3 DEF SameRing, Outcomes, Recent, Slot
    <3>5. Voters' = {}
      <4>1. \A d \in Callers : permit'[d] # NoPermit => permit'[d].generation # o.generation
        BY <1>1, <1>2, <1>3, <2>2, <3>1 DEF SameProbes, PermitType, BreakerType
      <4> QED BY <3>3, <4>1 DEF Voters, Current
    <3>6. (breaker'.elapsed >= Cooldown) = FALSE
      BY <3>2, <3>3, ConfigNormalized
    <3>7. Abstract!FinishWhenClosed(c, success)
      BY <1>5, <2>3, <2>4, <3>1, <3>3, <3>4, <3>5, <3>6
      DEF Abstract!FinishWhenClosed, Abstract!Open
    <3> QED BY <3>7 DEF Abstract!Next
  <2>5. CASE ~Tripped(q)
    <3>1. breaker' = q
      BY <2>1, <2>5
    <3>2. Recent' = Outcomes(q)
      BY <3>1 DEF Outcomes, Recent, Slot
    <3>3. Voters' = Voters \ {c}
      BY <1>1, <1>2, <2>2, <3>1 DEF Voters, Current, SameProbes
    <3>4. Abstract!FinishWhenClosed(c, success)
      BY <1>5, <2>2, <2>3, <2>5, <3>1, <3>2, <3>3
      DEF Abstract!FinishWhenClosed, SameProbes
    <3> QED BY <3>4 DEF Abstract!Next
  <2> QED BY <2>4, <2>5
<1>7. c \in Voters => breaker.state # "open"
  BY DEF Voters, Current, RInv, PermitsGranted
<1>8. breaker.state \in {"closed", "open", "half-open"}
  BY <1>1 DEF BreakerType, CircuitState
<1>6. CASE c \in Voters /\ breaker.state = "half-open"
  <2> DEFINE n == breaker.halfOpenInFlight - 1
             m == breaker.halfOpenSuccesses + 1
             q == [breaker EXCEPT !.halfOpenInFlight = n]
             p == [q EXCEPT !.halfOpenSuccesses = m]
  <2>1. n \in Nat /\ m \in Nat /\ m <= HalfOpenMaxRequests
    <3>1. breaker.halfOpenInFlight = Cardinality(Voters)
          /\ breaker.halfOpenSuccesses < HalfOpenMaxRequests
      BY <1>6 DEF RInv, IInv, ProbesAccounted
    <3>2. Cardinality(Voters) # 0
      BY <1>6, VotersFinite, FS_EmptySet
    <3> QED BY <1>1, <3>1, <3>2, ConfigNormalized DEF BreakerType
  <2>2. breaker' = IF ~success THEN transitionOpen(q)
                   ELSE IF m >= HalfOpenMaxRequests THEN transitionClosed(p) ELSE p
    <3>1. breaker' = completeHalfOpen(breaker, success)
      BY <1>2, <1>6 DEF complete, Voters
    <3>2. breaker.halfOpenInFlight > 0 /\ p.halfOpenSuccesses = m
      BY <1>1, <2>1 DEF BreakerType
    <3> QED BY <1>1, <3>1, <3>2 DEF completeHalfOpen, BreakerType
  <2> HIDE DEF n, m
  <2>3. /\ q \in BreakerType /\ SameRing(breaker, q)
        /\ q.generation = breaker.generation /\ q.elapsed = breaker.elapsed
    BY <1>1, <2>1 DEF BreakerType, SameRing
  <2>4. /\ p \in BreakerType /\ SameRing(breaker, p)
        /\ p.generation = breaker.generation /\ p.state = breaker.state
        /\ p.elapsed = breaker.elapsed /\ p.halfOpenSuccesses = m
    BY <1>1, <2>1 DEF BreakerType, SameRing
  <2> HIDE DEF q, p
  <2>5. CASE ~success
    <3> DEFINE o == transitionOpen(q)
    <3>1. /\ o \in BreakerType /\ SameRing(q, o) /\ o.state = "open"
          /\ o.generation = q.generation + 1 /\ o.halfOpenSuccesses = 0
      BY <2>3, TransitionsKeepRing
    <3>2. o.elapsed = 0
      BY <2>3 DEF transitionOpen, BreakerType
    <3>3. breaker' = o
      BY <2>2, <2>5
    <3> HIDE DEF o
    <3>4. Recent' = Recent
      BY <2>3, <3>1, <3>3 DEF SameRing, Recent
    <3>5. Voters' = {}
      <4>1. \A d \in Callers : permit'[d] # NoPermit => permit'[d].generation # o.generation
        BY <1>1, <1>2, <1>3, <2>3, <3>1 DEF PermitType, BreakerType
      <4> QED BY <3>3, <4>1 DEF Voters, Current
    <3>6. (breaker'.elapsed >= Cooldown) = FALSE
      BY <3>2, <3>3, ConfigNormalized
    <3>7. Abstract!ProbeFails(c)
      BY <1>6, <3>1, <3>3, <3>4, <3>5, <3>6 DEF Abstract!ProbeFails, Abstract!Open
    <3> QED BY <3>7 DEF Abstract!Next
  <2>6. CASE success /\ m >= HalfOpenMaxRequests
    <3> DEFINE o == transitionClosed(p)
    <3>1. /\ o \in BreakerType /\ o.state = "closed"
          /\ o.generation = p.generation + 1
      BY <2>4, TransitionClosedStartsAfresh
    <3>2. o.elapsed = p.elapsed /\ o.count = 0 /\ o.halfOpenSuccesses = 0
      BY <2>4 DEF transitionClosed, BreakerType
    <3>3. breaker' = o
      BY <2>2, <2>6
    <3> HIDE DEF o
    <3>4. Recent' = <<>>
      BY <3>2, <3>3 DEF Recent
    <3>5. Voters' = {}
      <4>1. \A d \in Callers : permit'[d] # NoPermit => permit'[d].generation # o.generation
        BY <1>1, <1>2, <1>3, <2>4, <3>1 DEF PermitType, BreakerType
      <4> QED BY <3>3, <4>1 DEF Voters, Current
    <3>6. breaker.halfOpenSuccesses + 1 = HalfOpenMaxRequests
      BY <2>1, <2>6, ConfigNormalized DEF m
    <3>7. Abstract!ProbeSucceeds(c)
      BY <1>6, <2>4, <3>1, <3>2, <3>3, <3>4, <3>5, <3>6 DEF Abstract!ProbeSucceeds
    <3> QED BY <3>7 DEF Abstract!Next
  <2>7. CASE success /\ ~(m >= HalfOpenMaxRequests)
    <3>1. breaker' = p
      BY <2>2, <2>7
    <3>2. Recent' = Recent
      BY <2>4, <3>1 DEF SameRing, Recent
    <3>3. Voters' = Voters \ {c}
      BY <1>1, <1>2, <2>4, <3>1 DEF Voters, Current
    <3>4. breaker.halfOpenSuccesses + 1 # HalfOpenMaxRequests
      BY <2>1, <2>7, ConfigNormalized DEF m
    <3>5. breaker'.halfOpenSuccesses = breaker.halfOpenSuccesses + 1
      BY <2>4, <3>1 DEF m
    <3>6. Abstract!ProbeSucceeds(c)
      BY <1>6, <2>4, <3>1, <3>2, <3>3, <3>4, <3>5 DEF Abstract!ProbeSucceeds
    <3> QED BY <3>6 DEF Abstract!Next
  <2> QED BY <2>5, <2>6, <2>7
<1> QED BY <1>4, <1>5, <1>6, <1>7, <1>8

(* Ring, generations and counters implement AbstractBreaker, for every     *)
(* configuration and every number of callers: the window is exactly the    *)
(* last outcomes of the current closed period, and a completion of an      *)
(* earlier period never counts.                                            *)
THEOREM BreakerRefines == Spec => ImplementsAbstract
<1>1. RInv /\ [Next]_vars => [Abstract!Next]_(Abstract!vars)
  <2> SUFFICES ASSUME RInv, [Next]_vars
               PROVE  Abstract!Next \/ UNCHANGED Abstract!vars
    OBVIOUS
  <2>1. CASE UNCHANGED vars
    <3>1. breaker' = breaker /\ permit' = permit
      BY <2>1 DEF vars
    <3>2. Voters' = Voters
      BY <3>1 DEF Voters
    <3> QED BY <3>1, <3>2, AbstractStutter
  <2> QED
    BY <2>1, TickRefines, AllowGrantedRefines, AllowRejectedRefines, DoneRefines DEF Next
<1> QED
  BY <1>1, InitRInv, NextKeepsRInv, AbstractInit, PTL
  DEF Spec, ImplementsAbstract, Abstract!Spec

-----------------------------------------------------------------------------
(* The rate limiter. *)

(* Every rule that has a bucket is a rule, with a rate and a burst. *)
LEMMA RuleType ==
  ASSUME NEW b \in RL!Buckets
  PROVE  RL!Rule(b) \in RL!RateLimitRule
<1>1. CASE b.kind = "route"
  <2>1. b.key \in RL!Routes /\ RouteRules[b.key] # NoRule
    BY <1>1 DEF RL!Buckets
  <2> QED BY <1>1, <2>1, RateLimiterConstants DEF RL!Rule, RateLimiterConstants
<1>2. CASE b.kind = "service"
  <2>1. b.key \in Services /\ ServiceRules[b.key] # NoRule
    BY <1>2 DEF RL!Buckets
  <2> QED BY <1>2, <2>1, RateLimiterConstants DEF RL!Rule, RateLimiterConstants
<1>3. CASE b.kind = "default"
  <2>1. DefaultRule # NoRule
    BY <1>3 DEF RL!Buckets
  <2> QED BY <1>3, <2>1, RateLimiterConstants DEF RL!Rule, RateLimiterConstants
<1> QED BY <1>1, <1>2, <1>3 DEF RL!Buckets

(* What a bucket can give now is a number of fractions up to its burst. *)
LEMMA RefillType ==
  ASSUME NEW rule \in RL!RateLimitRule, NEW k \in RL!Bucket
  PROVE  /\ Scale \in Nat /\ Scale > 0
         /\ RL!Full(rule) \in Nat
         /\ rule.rate \in Nat /\ rule.rate > 0
         /\ k.tokens \in Nat /\ k.pending \in Nat
         /\ k.pending * rule.rate \in Nat
         /\ RL!Refill(k, rule) \in 0..RL!Full(rule)
<1>1. /\ rule.rate \in Nat /\ rule.rate > 0 /\ rule.burst \in Nat
      /\ k.tokens \in Nat /\ k.pending \in Nat
  BY DEF RL!RateLimitRule, RL!Bucket
<1>2. k.pending * rule.rate \in Nat
  BY <1>1
<1>3. Scale \in Nat /\ Scale > 0
  BY RateLimiterConstants DEF RateLimiterConstants
<1>4. RL!Full(rule) \in Nat
  BY <1>1, <1>3 DEF RL!Full
<1> QED BY <1>1, <1>2, <1>3, <1>4 DEF RL!Refill, RL!AtMost

(* Allow takes a token if there is one, and nothing otherwise. *)
LEMMA AllowBucket ==
  ASSUME NEW rule \in RL!RateLimitRule, NEW k \in RL!Bucket
  PROVE  /\ RL!Allow(k, rule) \in RL!Bucket
         /\ RL!Enough(k, rule) =>
              RL!Refill(RL!Allow(k, rule), rule) = RL!Refill(k, rule) - Scale
         /\ ~RL!Enough(k, rule) =>
              RL!Refill(RL!Allow(k, rule), rule) = RL!Refill(k, rule)
<1> DEFINE f == RL!Refill(k, rule)
           t == f - (IF RL!Enough(k, rule) THEN Scale ELSE 0)
<1>1. /\ Scale \in Nat /\ Scale > 0 /\ RL!Full(rule) \in Nat
      /\ rule.rate \in Nat /\ f \in 0..RL!Full(rule)
  BY RefillType
<1>2. t \in 0..RL!Full(rule)
  BY <1>1 DEF RL!Enough
<1>3. RL!Allow(k, rule) = [tokens |-> t, pending |-> 0]
  BY DEF RL!Allow
<1> HIDE DEF t
<1>4. RL!Refill(RL!Allow(k, rule), rule) = t
  BY <1>1, <1>2, <1>3 DEF RL!Refill, RL!AtMost
<1>5. RL!Allow(k, rule) \in RL!Bucket
  BY <1>1, <1>2, <1>3 DEF RL!Bucket
<1> QED BY <1>1, <1>4, <1>5 DEF t

(* Time adds the rate, up to the burst; a full bucket need not count it. *)
LEMMA PassBucket ==
  ASSUME NEW rule \in RL!RateLimitRule, NEW k \in RL!Bucket
  PROVE  /\ RL!Pass(k, rule) \in RL!Bucket
         /\ RL!Refill(RL!Pass(k, rule), rule)
              = RL!AtMost(RL!Refill(k, rule) + rule.rate, RL!Full(rule))
<1> DEFINE x == k.pending * rule.rate
           full == RL!Full(rule)
<1>1. /\ full \in Nat /\ rule.rate \in Nat /\ rule.rate > 0
      /\ k.tokens \in Nat /\ k.pending \in Nat /\ x \in Nat
  BY RefillType
<1>2. (k.pending + 1) * rule.rate = x + rule.rate
  BY <1>1
<1>3. CASE k.tokens + x < full
  <2>1. RL!Pass(k, rule) = [k EXCEPT !.pending = @ + 1]
    BY <1>1, <1>3 DEF RL!Pass
  <2>2. /\ RL!Pass(k, rule) \in RL!Bucket
        /\ RL!Pass(k, rule).tokens = k.tokens
        /\ RL!Pass(k, rule).pending = k.pending + 1
    BY <1>1, <2>1 DEF RL!Bucket
  <2>3. RL!Refill(RL!Pass(k, rule), rule) = RL!AtMost(k.tokens + (x + rule.rate), full)
    BY <1>2, <2>2 DEF RL!Refill
  <2> HIDE DEF x, full
  <2>4. RL!Refill(k, rule) = k.tokens + x
    BY <1>1, <1>3 DEF RL!Refill, RL!AtMost, x, full
  <2> QED BY <1>1, <2>2, <2>3, <2>4 DEF RL!AtMost, full
<1>4. CASE ~(k.tokens + x < full)
  <2>1. RL!Pass(k, rule) = k
    BY <1>4 DEF RL!Pass
  <2>2. RL!Refill(k, rule) = full
    BY <1>1, <1>4 DEF RL!Refill, RL!AtMost
  <2> QED BY <1>1, <2>1, <2>2 DEF RL!AtMost
<1> QED BY <1>3, <1>4

(* What a bucket can give and what its rule has admitted beyond its rate   *)
(* make up the burst.                                                      *)
LimiterInv ==
  /\ bucket \in [RL!Buckets -> RL!Bucket]
  /\ excess \in [RL!Buckets -> Nat]
  /\ \A b \in RL!Buckets :
       RL!Refill(bucket[b], RL!Rule(b)) + excess[b] = RL!Full(RL!Rule(b))

(* Initially the buckets are full. *)
LEMMA LimiterInit == RL!Init => LimiterInv
<1> SUFFICES ASSUME RL!Init PROVE LimiterInv
  OBVIOUS
<1>1. ASSUME NEW b \in RL!Buckets
      PROVE  /\ bucket[b] \in RL!Bucket /\ excess[b] = 0
             /\ RL!Refill(bucket[b], RL!Rule(b)) = RL!Full(RL!Rule(b))
  <2> DEFINE rule == RL!Rule(b)
  <2>1. rule \in RL!RateLimitRule
    BY <1>1, RuleType
  <2>2. bucket[b] = [tokens |-> RL!Full(rule), pending |-> 0] /\ excess[b] = 0
    BY <1>1 DEF RL!Init, RL!NewBucket
  <2> HIDE DEF rule
  <2>3. [tokens |-> RL!Full(rule), pending |-> 0] \in RL!Bucket
    <3>1. RL!Full(rule) \in Nat
      BY <2>1, RateLimiterConstants DEF RateLimiterConstants, RL!Full, RL!RateLimitRule
    <3> QED BY <3>1 DEF RL!Bucket
  <2>4. RL!Full(rule) \in Nat /\ rule.rate \in Nat
    BY <2>1, <2>3, RefillType
  <2>5. RL!Refill(bucket[b], rule) = RL!Full(rule)
    BY <2>2, <2>4 DEF RL!Refill, RL!AtMost
  <2> QED BY <2>2, <2>3, <2>5 DEF rule
<1>2. /\ bucket \in [RL!Buckets -> RL!Bucket]
      /\ excess \in [RL!Buckets -> Nat]
  BY <1>1 DEF RL!Init
<1>3. ASSUME NEW b \in RL!Buckets
      PROVE  RL!Refill(bucket[b], RL!Rule(b)) + excess[b] = RL!Full(RL!Rule(b))
  <2>1. RL!Full(RL!Rule(b)) \in Nat
    BY <1>1, <1>3, RuleType, RefillType
  <2> QED BY <1>1, <1>3, <2>1
<1> QED BY <1>2, <1>3 DEF LimiterInv

(* A request and a tick keep what a bucket can give and what its rule      *)
(* admitted in balance: a bucket that is full is one whose rule has        *)
(* nothing beyond its rate.                                                *)
LEMMA LimiterNext == LimiterInv /\ [RL!Next]_(RL!vars) => LimiterInv'
<1> SUFFICES ASSUME LimiterInv, [RL!Next]_(RL!vars)
             PROVE  LimiterInv'
  OBVIOUS
<1>0. ASSUME NEW b \in RL!Buckets
      PROVE  /\ RL!Rule(b) \in RL!RateLimitRule
             /\ bucket[b] \in RL!Bucket /\ excess[b] \in Nat
             /\ Scale \in Nat /\ RL!Full(RL!Rule(b)) \in Nat
             /\ RL!Rule(b).rate \in Nat
             /\ RL!Refill(bucket[b], RL!Rule(b)) \in 0..RL!Full(RL!Rule(b))
             /\ RL!Refill(bucket[b], RL!Rule(b)) + excess[b] = RL!Full(RL!Rule(b))
  <2>1. RL!Rule(b) \in RL!RateLimitRule /\ bucket[b] \in RL!Bucket
    BY <1>0, RuleType DEF LimiterInv
  <2> QED BY <1>0, <2>1, RefillType DEF LimiterInv
<1>1. CASE RL!Tick
  <2>1. ASSUME NEW b \in RL!Buckets
        PROVE  /\ bucket'[b] \in RL!Bucket /\ excess'[b] \in Nat
               /\ RL!Refill(bucket'[b], RL!Rule(b)) + excess'[b] = RL!Full(RL!Rule(b))
    <3>1. /\ bucket'[b] = RL!Pass(bucket[b], RL!Rule(b))
          /\ excess'[b] = IF excess[b] > RL!Rule(b).rate
                          THEN excess[b] - RL!Rule(b).rate ELSE 0
      BY <1>1, <2>1 DEF RL!Tick
    <3>2. /\ bucket'[b] \in RL!Bucket
          /\ RL!Refill(bucket'[b], RL!Rule(b))
               = RL!AtMost(RL!Refill(bucket[b], RL!Rule(b)) + RL!Rule(b).rate,
                           RL!Full(RL!Rule(b)))
      BY <1>0, <2>1, <3>1, PassBucket
    <3> QED BY <1>0, <2>1, <3>1, <3>2 DEF RL!AtMost
  <2>2. /\ bucket' \in [RL!Buckets -> RL!Bucket]
        /\ excess' \in [RL!Buckets -> Nat]
    BY <1>1, <2>1 DEF RL!Tick
  <2> QED BY <2>1, <2>2 DEF LimiterInv
<1>2. ASSUME NEW s \in Services, NEW m \in Methods, RL!Admitted(s, m)
      PROVE  LimiterInv'
  <2>1. ASSUME NEW b \in RL!Buckets
        PROVE  /\ bucket'[b] \in RL!Bucket /\ excess'[b] \in Nat
               /\ RL!Refill(bucket'[b], RL!Rule(b)) + excess'[b] = RL!Full(RL!Rule(b))
    <3>1. CASE b \in RL!Asked(s, m)
      <4>1. /\ bucket'[b] = RL!Allow(bucket[b], RL!Rule(b))
            /\ excess'[b] = excess[b] + Scale
            /\ RL!Enough(bucket[b], RL!Rule(b))
        BY <1>2, <2>1, <3>1 DEF RL!Admitted
      <4>2. /\ bucket'[b] \in RL!Bucket
            /\ RL!Refill(bucket'[b], RL!Rule(b)) = RL!Refill(bucket[b], RL!Rule(b)) - Scale
        BY <1>0, <2>1, <4>1, AllowBucket
      <4> QED BY <1>0, <2>1, <4>1, <4>2
    <3>2. CASE b \notin RL!Asked(s, m)
      <4>1. bucket'[b] = bucket[b] /\ excess'[b] = excess[b]
        BY <1>2, <2>1, <3>2 DEF RL!Admitted
      <4> QED BY <1>0, <2>1, <4>1
    <3> QED BY <3>1, <3>2
  <2>2. /\ bucket' \in [RL!Buckets -> RL!Bucket]
        /\ excess' \in [RL!Buckets -> Nat]
    BY <1>2, <2>1 DEF RL!Admitted
  <2> QED BY <2>1, <2>2 DEF LimiterInv
<1>3. ASSUME NEW s \in Services, NEW m \in Methods, RL!Rejected(s, m)
      PROVE  LimiterInv'
  <2>1. PICK a \in RL!Asked(s, m) :
          /\ ~RL!Enough(bucket[a], RL!Rule(a))
          /\ bucket' = [bucket EXCEPT ![a] = RL!Allow(bucket[a], RL!Rule(a))]
          /\ excess' = excess
    BY <1>3 DEF RL!Rejected
  <2>2. a \in RL!Buckets
    BY DEF RL!Asked
  <2>3. /\ RL!Allow(bucket[a], RL!Rule(a)) \in RL!Bucket
        /\ RL!Refill(RL!Allow(bucket[a], RL!Rule(a)), RL!Rule(a))
             = RL!Refill(bucket[a], RL!Rule(a))
    BY <1>0, <2>1, <2>2, AllowBucket
  <2> QED BY <2>1, <2>2, <2>3 DEF LimiterInv
<1>4. CASE UNCHANGED RL!vars
  BY <1>4 DEF RL!vars, LimiterInv
<1> QED BY <1>1, <1>2, <1>3, <1>4 DEF RL!Next

(* WithinRate for every set of rules and every Scale: in every period of t *)
(* ticks a rule admits at most burst + rate * t.                           *)
THEOREM AdmitsWithinRate == RL!Spec => []WithinRate
<1>1. LimiterInv => WithinRate
  <2> SUFFICES ASSUME LimiterInv, NEW b \in RL!Buckets
               PROVE  excess[b] <= RL!Full(RL!Rule(b))
    BY DEF WithinRate, RL!WithinRate
  <2>1. RL!Refill(bucket[b], RL!Rule(b)) \in 0..RL!Full(RL!Rule(b))
    BY RuleType, RefillType DEF LimiterInv
  <2>2. RL!Full(RL!Rule(b)) \in Nat
    BY RuleType, RefillType DEF LimiterInv
  <2> QED BY <2>1, <2>2 DEF LimiterInv
<1> QED BY <1>1, LimiterInit, LimiterNext, PTL DEF RL!Spec

(* RejectsOnlyExcess for every set of rules and every Scale: what allow    *)
(* turns away would have exceeded the rule over some period.               *)
THEOREM RejectsNoOther == RL!Spec => RejectsOnlyExcess
<1>1. LimiterInv /\ [RL!Next]_(RL!vars)
        => [\A s \in Services, m \in Methods : RL!Rejected(s, m) =>
              \E b \in RL!Asked(s, m) : excess[b] + Scale > RL!Full(RL!Rule(b))]_(RL!vars)
  <2> SUFFICES ASSUME LimiterInv, NEW s \in Services, NEW m \in Methods, RL!Rejected(s, m)
               PROVE  \E b \in RL!Asked(s, m) : excess[b] + Scale > RL!Full(RL!Rule(b))
    OBVIOUS
  <2>1. PICK a \in RL!Asked(s, m) : ~RL!Enough(bucket[a], RL!Rule(a))
    BY DEF RL!Rejected
  <2>2. a \in RL!Buckets
    BY DEF RL!Asked
  <2>3. /\ RL!Rule(a) \in RL!RateLimitRule /\ bucket[a] \in RL!Bucket
        /\ excess[a] \in Nat
    BY <2>2, RuleType DEF LimiterInv
  <2>4. /\ Scale \in Nat /\ RL!Full(RL!Rule(a)) \in Nat
        /\ RL!Refill(bucket[a], RL!Rule(a)) \in 0..RL!Full(RL!Rule(a))
    BY <2>3, RefillType
  <2>5. RL!Refill(bucket[a], RL!Rule(a)) + excess[a] = RL!Full(RL!Rule(a))
    BY <2>2 DEF LimiterInv
  <2>6. excess[a] + Scale > RL!Full(RL!Rule(a))
    BY <2>1, <2>3, <2>4, <2>5 DEF RL!Enough
  <2> QED BY <2>6
<1> QED BY <1>1, LimiterInit, LimiterNext, PTL DEF RL!Spec, RejectsOnlyExcess, RL!RejectsOnlyExcess

-----------------------------------------------------------------------------
(* The delays between retries. *)

(* A property that holds of 1 and passes from n to n + 1. *)
LEMMA IntervalInduction ==
  ASSUME NEW k \in Nat, NEW S,
         k >= 1 => 1 \in S,
         \A n \in 1..k : n # 1 /\ n - 1 \in S => n \in S
  PROVE  1..k \subseteq S
<1> DEFINE R == {ss \in Nat \X Nat : ss[1] < ss[2]}
           T == (1..k) \ S
<1>1. IsWellFoundedOn(R, Nat)
  BY NatLessThanWellFounded DEF OpToRel
<1> SUFFICES ASSUME T # {} PROVE FALSE
  OBVIOUS
<1>2. T \subseteq Nat
  OBVIOUS
<1>3. PICK x \in T : \A y \in T : ~(<<y, x>> \in R)
  <2> HIDE DEF R, T
  <2> QED BY <1>1, <1>2, WFMin
<1>4. x \in 1..k /\ x \notin S /\ x # 1
  OBVIOUS
<1>5. x - 1 \in 1..k /\ <<x - 1, x>> \in R
  BY <1>4
<1>6. x - 1 \notin T
  BY <1>3, <1>5, Zenon
<1> QED BY <1>4, <1>5, <1>6

(* Powers of two double: a set with one element more has twice the subsets. *)
LEMMA PowerDoubles ==
  ASSUME NEW n \in Nat
  PROVE  2^n \in Nat /\ 2^(n + 1) = 2 * 2^n
<1> DEFINE A == 1..n
           B == 1..(n + 1)
           W == {T \in SUBSET B : n + 1 \in T}
           f == [T \in SUBSET A |-> T \cup {n + 1}]
<1>1. /\ IsFiniteSet(A) /\ Cardinality(A) = n
      /\ IsFiniteSet(B) /\ Cardinality(B) = n + 1
  BY FS_Interval
<1>2. /\ IsFiniteSet(SUBSET A) /\ Cardinality(SUBSET A) = 2^n
      /\ IsFiniteSet(SUBSET B) /\ Cardinality(SUBSET B) = 2^(n + 1)
  <2> HIDE DEF A, B
  <2> QED BY <1>1, FS_SUBSET
<1>3. f \in Bijection(SUBSET A, W)
  <2>1. f \in [SUBSET A -> W]
    OBVIOUS
  <2>2. f \in Injection(SUBSET A, W)
    <3>1. ASSUME NEW s \in SUBSET A, NEW t \in SUBSET A, f[s] = f[t]
          PROVE  s = t
      <4>1. n + 1 \notin s /\ n + 1 \notin t
        OBVIOUS
      <4> QED BY <3>1, <4>1
    <3> QED BY <2>1, <3>1 DEF Injection, IsInjective
  <2>3. f \in Surjection(SUBSET A, W)
    <3>1. ASSUME NEW t \in W PROVE f[t \ {n + 1}] = t /\ t \ {n + 1} \in SUBSET A
      OBVIOUS
    <3> QED BY <2>1, <3>1 DEF Surjection
  <2> QED BY <2>2, <2>3 DEF Bijection
<1>4. IsFiniteSet(W) /\ Cardinality(W) = Cardinality(SUBSET A)
  <2>1. ExistsBijection(SUBSET A, W)
    BY <1>3 DEF ExistsBijection
  <2> HIDE DEF A, W
  <2> QED BY <1>2, <2>1, FS_Bijection
<1>5. B = A \cup {n + 1} /\ n + 1 \notin A
  OBVIOUS
<1>6. \A T : T \in W <=> T \in SUBSET B /\ n + 1 \in T
  BY Zenon
<1> HIDE DEF A, B, W
<1>7. SUBSET B = (SUBSET A) \cup W /\ (SUBSET A) \cap W = {}
  <2>1. \A T : T \in SUBSET A => T \in SUBSET B /\ n + 1 \notin T
    BY <1>5
  <2>2. \A T : T \in SUBSET B /\ n + 1 \notin T => T \in SUBSET A
    BY <1>5
  <2> QED BY <1>6, <2>1, <2>2, Zenon
<1>8. Cardinality((SUBSET A) \cup W) = Cardinality(SUBSET A) + Cardinality(W)
  <2>1. Cardinality(SUBSET A) \in Nat /\ Cardinality(W) \in Nat
    BY <1>2, <1>4, FS_CardinalityType
  <2>2. Cardinality((SUBSET A) \cap W) = 0
    BY <1>7, FS_EmptySet
  <2>3. Cardinality((SUBSET A) \cup W)
          = Cardinality(SUBSET A) + Cardinality(W) - Cardinality((SUBSET A) \cap W)
    BY <1>2, <1>4, FS_Union
  <2> QED BY <2>1, <2>2, <2>3
<1>9. Cardinality(SUBSET A) \in Nat
  BY <1>2, FS_CardinalityType
<1> DEFINE a == Cardinality(SUBSET A)
           b == Cardinality(SUBSET B)
<1>10. b = a + a
  BY <1>4, <1>7, <1>8, Zenon
<1>11. a \in Nat /\ a = 2^n /\ b = 2^(n + 1)
  BY <1>2, <1>9, Zenon
<1> HIDE DEF a, b
<1> QED BY <1>10, <1>11

(* The delay before retry i that BackoffExact asks for. *)
Exact(first, max, i) ==
  LET exact == first * 2^(i - 1) IN IF exact < max THEN exact ELSE max

(* A duration that is not negative is not changed by Wrap. *)
LEMMA WrapKeeps ==
  ASSUME NEW x \in Nat, x < 2^(Width - 1)
  PROVE  RB!Wrap(x) = x
<1> DEFINE h == 2^(Width - 1)
<1>1. h \in Nat /\ 2^Width = 2 * h
  <2>1. Width - 1 \in Nat /\ (Width - 1) + 1 = Width
    BY RetryBackoffConstants DEF RetryBackoffConstants
  <2>2. 2^(Width - 1) \in Nat /\ 2^((Width - 1) + 1) = 2 * 2^(Width - 1)
    BY <2>1, PowerDoubles
  <2> QED BY <2>1, <2>2
<1>2. RB!Wrap(x) = ((x + h) % 2^Width) - h
  BY DEF RB!Wrap
<1> HIDE DEF h
<1>3. (x + h) % (2 * h) = x + h
  <2>1. x < h
    BY DEF h
  <2> QED BY <1>1, <2>1
<1> QED BY <1>1, <1>2, <1>3

(* One turn of the loop doubles the delay, up to the cap and no further. *)
LEMMA DoubledExact ==
  ASSUME NEW max \in Nat, max < 2^(Width - 1), NEW first \in 1..max,
         NEW i \in Nat, i > 1
  PROVE  RB!Doubled(Exact(first, max, i - 1), max) = Exact(first, max, i)
<1> DEFINE p == 2^(i - 2)
           a == first * p
<1>1. p \in Nat /\ 2^(i - 1) = 2 * p
  <2>1. i - 2 \in Nat /\ (i - 2) + 1 = i - 1
    OBVIOUS
  <2>2. 2^(i - 2) \in Nat /\ 2^((i - 2) + 1) = 2 * 2^(i - 2)
    BY <2>1, PowerDoubles
  <2> QED BY <2>1, <2>2
<1>2. (i - 1) - 1 = i - 2
  OBVIOUS
<1> HIDE DEF p
<1>3. a \in Nat /\ first * (2 * p) = 2 * a
  BY <1>1
<1> HIDE DEF a
<1>4. /\ Exact(first, max, i - 1) = IF a < max THEN a ELSE max
      /\ Exact(first, max, i) = IF 2 * a < max THEN 2 * a ELSE max
  BY <1>1, <1>2, <1>3 DEF Exact, a, p
<1>5. CASE a >= max \/ a > max \div 2
  BY <1>3, <1>4, <1>5 DEF RB!Doubled
<1>6. CASE ~(a >= max \/ a > max \div 2)
  <2>1. 2 * a <= max /\ 2 * a \in Nat /\ 2 * a < 2^(Width - 1)
    <3>1. 2 * a <= max /\ 2 * a \in Nat
      BY <1>3, <1>6
    <3>2. 2^(Width - 1) \in Nat
      BY PowerDoubles, RetryBackoffConstants DEF RetryBackoffConstants
    <3> QED BY <3>1, <3>2
  <2>2. RB!Wrap(2 * a) = 2 * a
    BY <2>1, WrapKeeps
  <2> QED BY <1>3, <1>4, <1>6, <2>1, <2>2 DEF RB!Doubled
<1> QED BY <1>5, <1>6

(* What the loop of Backoff computes, for every number of retries: the     *)
(* function is one that satisfies its equation, and there is only one.     *)
LEMMA BackoffIsExact ==
  ASSUME NEW c \in [initial : RB!Durations, max : RB!Durations], NEW k \in Nat
  PROVE  RB!Backoff(c, k) =
           IF k = 0 \/ c.initial <= 0 THEN 0
           ELSE Exact(c.initial, IF c.max > c.initial THEN c.max ELSE c.initial, k)
<1>1. 2^(Width - 1) \in Nat
  BY PowerDoubles, RetryBackoffConstants DEF RetryBackoffConstants
<1>2. c.initial \in Int /\ c.max \in Int
      /\ c.initial < 2^(Width - 1) /\ c.max < 2^(Width - 1)
  BY <1>1 DEF RB!Durations
<1>3. CASE k = 0 \/ c.initial <= 0
  <2>1. k <= 0 \/ RB!Normalized(c).initial <= 0
    BY <1>2, <1>3 DEF RB!Normalized
  <2> QED BY <1>3, <2>1 DEF RB!Backoff
<1>4. CASE k > 0 /\ c.initial > 0
  <2> DEFINE first == c.initial
             max == IF c.max > c.initial THEN c.max ELSE c.initial
             Body(g) == [i \in 1..k |->
                           IF i = 1 THEN first ELSE RB!Doubled(g[i - 1], max)]
             d == CHOOSE g : g = Body(g)
             e == [i \in 1..k |-> Exact(first, max, i)]
  <2>1. max \in Nat /\ max < 2^(Width - 1) /\ first \in 1..max
    BY <1>2, <1>4
  <2>2. RB!Normalized(c).initial = first /\ RB!Normalized(c).max = max
    BY <1>2, <1>4 DEF RB!Normalized
  <2>3. RB!Backoff(c, k) = IF d[k] > max THEN max ELSE d[k]
    BY <1>2, <1>4, <2>2 DEF RB!Backoff
  <2> HIDE DEF first, max
  <2>4. Exact(first, max, 1) = first
    BY <2>1, PowerDoubles DEF Exact
  <2>5. ASSUME NEW i \in 1..k, i # 1
        PROVE  RB!Doubled(Exact(first, max, i - 1), max) = Exact(first, max, i)
    BY <2>1, <2>5, DoubledExact
  <2>6. e = Body(e)
    BY <2>4, <2>5
  <2>7. d = Body(d)
    <3> HIDE DEF e, Body
    <3> QED BY <2>6, Zenon
  <2>8. ASSUME NEW i \in 1..k
        PROVE  d[i] = IF i = 1 THEN first ELSE RB!Doubled(d[i - 1], max)
    <3> HIDE DEF d
    <3> QED BY <2>7, <2>8
  <2> HIDE DEF d
  <2>9. 1..k \subseteq {i \in 1..k : d[i] = Exact(first, max, i)}
    <3> DEFINE S == {i \in 1..k : d[i] = Exact(first, max, i)}
    <3>1. k >= 1 => 1 \in S
      BY <2>4, <2>8
    <3>2. ASSUME NEW i \in 1..k, i # 1, i - 1 \in S
          PROVE  i \in S
      BY <2>5, <2>8, <3>2
    <3> HIDE DEF S
    <3>3. 1..k \subseteq S
      BY <3>1, <3>2, IntervalInduction
    <3> QED BY <3>3 DEF S
  <2>10. d[k] = Exact(first, max, k)
    BY <1>4, <2>9
  <2>11. Exact(first, max, k) \in 0..max
    <3>1. 2^(k - 1) \in Nat
      BY <1>4, PowerDoubles
    <3>2. first * 2^(k - 1) \in Nat
      BY <2>1, <3>1
    <3> QED BY <2>1, <3>2 DEF Exact
  <2>12. RB!Backoff(c, k) = Exact(first, max, k)
    BY <2>1, <2>3, <2>10, <2>11
  <2> QED BY <1>2, <1>4, <2>12 DEF first, max
<1> QED BY <1>2, <1>3, <1>4

(* The delay is always the one of the last retry. *)
BackoffInv ==
  /\ retry \in [initial : RB!Durations, max : RB!Durations]
  /\ index \in Nat
  /\ delay = RB!Backoff(retry, index)

(* BackoffExact for every width of a duration, every configuration of the  *)
(* flags and every number of retries.                                      *)
THEOREM DelaysExact ==
  RB!Init /\ [][RB!Retry]_(RB!vars) => []BackoffExact
<1>1. RB!Init => BackoffInv
  BY DEF RB!Init, BackoffInv
<1>2. BackoffInv /\ [RB!Retry]_(RB!vars) => BackoffInv'
  <2> SUFFICES ASSUME BackoffInv, [RB!Retry]_(RB!vars) PROVE BackoffInv'
    OBVIOUS
  <2>1. CASE RB!Retry
    BY <2>1 DEF RB!Retry, BackoffInv
  <2>2. CASE UNCHANGED RB!vars
    BY <2>2 DEF RB!vars, BackoffInv
  <2> QED BY <2>1, <2>2
<1>3. BackoffInv => BackoffExact
  <2> SUFFICES ASSUME BackoffInv PROVE BackoffExact
    OBVIOUS
  <2>1. retry.initial \in Int
    <3>1. 2^(Width - 1) \in Nat
      BY PowerDoubles, RetryBackoffConstants DEF RetryBackoffConstants
    <3> QED BY <3>1 DEF BackoffInv, RB!Durations
  <2>2. delay = IF index = 0 \/ retry.initial <= 0 THEN 0
                ELSE Exact(retry.initial,
                           IF retry.max > retry.initial THEN retry.max ELSE retry.initial,
                           index)
    BY BackoffIsExact DEF BackoffInv
  <2> QED BY <2>1, <2>2 DEF BackoffExact, RB!BackoffExact, Exact
<1> QED BY <1>1, <1>2, <1>3, PTL

-----------------------------------------------------------------------------
(* A behaviour of MCResilience is one of each of its three parts. *)
LEMMA PartsRun ==
  MCSpec => Spec /\ RL!Spec /\ RB!Init /\ [][RB!Retry]_(RB!vars)
<1>1. MCInit => Init /\ RL!Init /\ RB!Init
  BY DEF MCInit
<1>2. [MCNext]_allVars
        => [Next]_vars /\ [RL!Next]_(RL!vars) /\ [RB!Retry]_(RB!vars)
  BY DEF MCNext, Breaking, Limiting, Retrying, allVars, vars, rlVars, rbVars,
         RL!vars, RB!vars
<1> QED BY <1>1, <1>2, PTL DEF MCSpec, Spec, RL!Spec

(* All of it for the module that the run checks: breaker, limiter and      *)
(* backoff keep their invariants, the breaker implements its abstraction   *)
(* and the limiter turns away no request that its rules admit.             *)
THEOREM ResilienceSafe ==
  MCSpec => /\ [](/\ TypeOK /\ WindowAccurate /\ ProbesAccounted
                  /\ ClosedBelowThreshold /\ WithinRate /\ BackoffExact)
            /\ ImplementsAbstract
            /\ RejectsOnlyExcess
BY PartsRun, TypeCorrect, WindowCorrect, ProbesCorrect, ClosedCorrect, BreakerRefines,
   AdmitsWithinRate, RejectsNoOther, DelaysExact, PTL
=============================================================================
