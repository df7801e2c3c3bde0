---------------------------- MODULE BreakerLemmas ----------------------------
(***************************************************************************)
(* What the methods of Breaker do to a breaker, for any configuration.     *)
(* Used by the proofs about a breaker by itself (ResilienceProofs) and     *)
(* about the breakers of the proxy (ProxyProofs).                          *)
(***************************************************************************)
EXTENDS Breaker, FiniteSetTheorems, TLAPS

(* The provers of a leaf that names none, and the time each is given. *)
USE ZenonT(8), SMTT(40)

(* What WindowAccurate says of the breaker, for any breaker. *)
Failed(b) == {i \in Slots : b.window[i]}

WindowOK(b) ==
  /\ b.failures = Cardinality(Failed(b))
  /\ b.count < WindowSize =>
       /\ b.next = b.count
       /\ \A i \in Slots : i >= b.count => ~b.window[i]

SameProbes(b, r) ==
  /\ r.state = b.state
  /\ r.generation = b.generation
  /\ r.halfOpenPermitted = b.halfOpenPermitted
  /\ r.halfOpenInFlight = b.halfOpenInFlight
  /\ r.halfOpenSuccesses = b.halfOpenSuccesses

-----------------------------------------------------------------------------
(* The failed slots of a ring are finitely many. *)
LEMMA FailedFinite ==
  ASSUME NEW b
  PROVE  IsFiniteSet(Failed(b)) /\ Cardinality(Failed(b)) \in Nat
<1>1. IsFiniteSet(Slots)
  BY FS_Interval, ConfigNormalized DEF Slots
<1>2. Failed(b) \in SUBSET Slots
  BY DEF Failed
<1> QED
  BY <1>1, <1>2, FS_Subset, FS_CardinalityType

(* recordClosed keeps the running counters of the ring right. *)
LEMMA RecordClosedKeepsWindow ==
  ASSUME NEW b \in BreakerType, NEW failure \in BOOLEAN, WindowOK(b)
  PROVE  /\ recordClosed(b, failure) \in BreakerType
         /\ WindowOK(recordClosed(b, failure))
         /\ SameProbes(b, recordClosed(b, failure))
<1> DEFINE r == recordClosed(b, failure)
           n == b.next
           evicted == IF b.count = WindowSize /\ b.window[n] THEN 1 ELSE 0
           added == IF failure THEN 1 ELSE 0
<1> USE ConfigNormalized
<1>1. /\ r.window = [b.window EXCEPT ![n] = failure]
      /\ r.count = IF b.count = WindowSize THEN b.count ELSE b.count + 1
      /\ r.next = IF n + 1 = WindowSize THEN 0 ELSE n + 1
      /\ r.failures = b.failures - evicted + added
      /\ SameProbes(b, r)
  BY DEF recordClosed, BreakerType, SameProbes
<1>2. /\ n \in Slots
      /\ b.window \in [Slots -> BOOLEAN]
      /\ b.count \in 0..WindowSize
      /\ b.failures \in Int
  BY DEF BreakerType
<1>3. n \in Failed(b) <=> b.count = WindowSize /\ b.window[n]
  <2>1. b.count < WindowSize => ~b.window[n]
    BY <1>2 DEF WindowOK, Slots
  <2>2. b.count < WindowSize \/ b.count = WindowSize
    BY <1>2
  <2> QED
    BY <1>2, <2>1, <2>2 DEF Failed
<1>4. evicted = IF n \in Failed(b) THEN 1 ELSE 0
  BY <1>3
<1>5. added \in {0, 1}
  OBVIOUS
<1>6. Failed(r) = IF failure THEN Failed(b) \cup {n} ELSE Failed(b) \ {n}
  BY <1>1, <1>2 DEF Failed
<1>7. evicted \in {0, 1}
  BY <1>4
<1>8. r.window \in [Slots -> BOOLEAN]
  BY <1>1, <1>2
<1>9. /\ IsFiniteSet(Failed(b))
      /\ Cardinality(Failed(b)) \in Nat
  BY FailedFinite
<1>10. Cardinality(Failed(r)) = Cardinality(Failed(b)) - evicted + added
  <2>1. CASE failure
    <3>1. Cardinality(Failed(r)) = IF n \in Failed(b) THEN Cardinality(Failed(b))
                                   ELSE Cardinality(Failed(b)) + 1
      BY <1>6, <1>9, <2>1, FS_AddElement
    <3>2. added = 1
      BY <2>1
    <3> HIDE DEF evicted, added
    <3> QED
      BY <1>4, <1>9, <3>1, <3>2
  <2>2. CASE ~failure
    <3>1. Cardinality(Failed(r)) = IF n \in Failed(b) THEN Cardinality(Failed(b)) - 1
                                   ELSE Cardinality(Failed(b))
      BY <1>6, <1>9, <2>2, FS_RemoveElement
    <3>2. added = 0
      BY <2>2
    <3> HIDE DEF evicted, added
    <3> QED
      BY <1>4, <1>9, <3>1, <3>2
  <2> QED
    BY <2>1, <2>2
<1>11. r \in BreakerType
  <2> DEFINE w == r.window
             m == r.next
             k == r.count
             f == r.failures
  <2>1. r = [b EXCEPT !.count = k, !.failures = f, !.window = w, !.next = m]
    BY <1>1 DEF recordClosed, BreakerType
  <2> HIDE DEF evicted, added, r
  <2>2. k \in 0..WindowSize /\ m \in Slots /\ f \in Int
    BY <1>1, <1>2, <1>5, <1>7 DEF Slots
  <2>3. w \in [Slots -> BOOLEAN]
    BY <1>8
  <2> HIDE DEF w, m, k, f
  <2> QED
    BY <2>1, <2>2, <2>3 DEF BreakerType
<1>12. r.count < WindowSize => r.next = r.count
  <2> HIDE DEF r
  <2> QED
    BY <1>1, <1>2 DEF WindowOK, Slots
<1>13. r.count < WindowSize => \A i \in Slots : i >= r.count => ~r.window[i]
  <2> SUFFICES ASSUME r.count < WindowSize, NEW i \in Slots, i >= r.count
               PROVE  ~r.window[i]
    OBVIOUS
  <2> HIDE DEF r
  <2>1. b.count < WindowSize /\ n = b.count /\ i # n /\ i >= b.count
    BY <1>1, <1>2 DEF WindowOK, Slots
  <2>2. r.window[i] = b.window[i]
    BY <1>1, <1>2, <2>1
  <2> QED
    BY <2>1, <2>2 DEF WindowOK
<1>14. r.failures = Cardinality(Failed(r))
  BY <1>1, <1>10 DEF WindowOK
<1> QED
  BY <1>1, <1>11, <1>12, <1>13, <1>14 DEF WindowOK

-----------------------------------------------------------------------------
(* The transitions.  Only transitionClosed touches the ring.               *)

SameRing(b, r) ==
  /\ r.window = b.window
  /\ r.next = b.next
  /\ r.count = b.count
  /\ r.failures = b.failures

(* WindowOK and Tripped look at the ring only. *)
LEMMA SameRingSameWindow ==
  ASSUME NEW b, NEW r, SameRing(b, r)
  PROVE  (WindowOK(b) <=> WindowOK(r)) /\ (Tripped(b) <=> Tripped(r))
BY DEF SameRing, WindowOK, Failed, Tripped

(* A transition to open or half-open starts a generation without probes.   *)
LEMMA TransitionsKeepRing ==
  ASSUME NEW b \in BreakerType,
         NEW r \in {transitionOpen(b), transitionHalfOpen(b)}
  PROVE  /\ r \in BreakerType
         /\ SameRing(b, r)
         /\ r.generation = b.generation + 1
         /\ r.halfOpenPermitted = 0
         /\ r.halfOpenInFlight = 0
         /\ r.halfOpenSuccesses = 0
         /\ r = transitionOpen(b) => r.state = "open"
         /\ r = transitionHalfOpen(b) => r.state = "half-open"
<1> DEFINE g == b.generation + 1
           zero == 0
<1>1. g \in Nat /\ zero \in Nat /\ zero \in 0..Cooldown
  BY ConfigNormalized DEF BreakerType
<1>2. "open" \in CircuitState /\ "half-open" \in CircuitState
  BY DEF CircuitState
<1>3. /\ transitionOpen(b) =
           [b EXCEPT !.state = "open", !.generation = g, !.elapsed = zero,
                     !.halfOpenPermitted = zero, !.halfOpenInFlight = zero,
                     !.halfOpenSuccesses = zero]
      /\ transitionHalfOpen(b) =
           [b EXCEPT !.state = "half-open", !.generation = g,
                     !.halfOpenPermitted = zero, !.halfOpenInFlight = zero,
                     !.halfOpenSuccesses = zero]
  BY DEF transitionOpen, transitionHalfOpen
<1> HIDE DEF g, zero
<1>4. CASE r = transitionOpen(b)
  <2>1. r.state = "open" /\ r.generation = g /\ SameRing(b, r)
    BY <1>3, <1>4 DEF BreakerType, SameRing
  <2>2. /\ r.halfOpenPermitted = zero
        /\ r.halfOpenInFlight = zero
        /\ r.halfOpenSuccesses = zero
    BY <1>3, <1>4 DEF BreakerType
  <2>3. transitionHalfOpen(b).state = "half-open"
    BY <1>3 DEF BreakerType
  <2>4. r \in BreakerType
    BY <1>1, <1>2, <1>3, <1>4, ZenonT(60) DEF BreakerType
  <2> QED
    BY <2>1, <2>2, <2>3, <2>4 DEF g, zero
<1>5. CASE r = transitionHalfOpen(b)
  <2>1. r.state = "half-open" /\ r.generation = g /\ SameRing(b, r)
    BY <1>3, <1>5 DEF BreakerType, SameRing
  <2>2. /\ r.halfOpenPermitted = zero
        /\ r.halfOpenInFlight = zero
        /\ r.halfOpenSuccesses = zero
    BY <1>3, <1>5 DEF BreakerType
  <2>3. transitionOpen(b).state = "open"
    BY <1>3 DEF BreakerType
  <2>4. r \in BreakerType
    BY <1>1, <1>2, <1>3, <1>5, ZenonT(60) DEF BreakerType
  <2> QED
    BY <2>1, <2>2, <2>3, <2>4 DEF g, zero
<1> QED
  BY <1>4, <1>5

(* transitionClosed starts with an empty ring, which is below threshold.   *)
LEMMA TransitionClosedStartsAfresh ==
  ASSUME NEW b \in BreakerType
  PROVE  LET r == transitionClosed(b)
         IN  /\ r \in BreakerType
             /\ WindowOK(r)
             /\ ~Tripped(r)
             /\ r.state = "closed"
             /\ r.generation = b.generation + 1
             /\ r.halfOpenPermitted = 0
<1> DEFINE r == transitionClosed(b)
<1>1. /\ r.state = "closed"
      /\ r.generation = b.generation + 1
      /\ r.window = [i \in Slots |-> FALSE]
      /\ r.next = 0
      /\ r.count = 0
      /\ r.failures = 0
      /\ r.halfOpenPermitted = 0
  BY DEF transitionClosed, BreakerType
<1>2. r \in BreakerType
  <2> DEFINE g == b.generation + 1
             w == [i \in Slots |-> FALSE]
             zero == 0
  <2>1. w \in [Slots -> BOOLEAN] /\ "closed" \in CircuitState
    BY DEF CircuitState
  <2>2. /\ g \in Nat
        /\ zero \in Nat /\ zero \in Int /\ zero \in Slots /\ zero \in 0..WindowSize
    BY ConfigNormalized DEF Slots, BreakerType
  <2>3. r = [b EXCEPT !.state = "closed", !.generation = g, !.window = w,
                      !.next = zero, !.count = zero, !.failures = zero,
                      !.halfOpenPermitted = zero, !.halfOpenInFlight = zero,
                      !.halfOpenSuccesses = zero]
    BY DEF transitionClosed
  <2> HIDE DEF r, g, w, zero
  <2> QED
    BY <2>1, <2>2, <2>3 DEF BreakerType
<1> HIDE DEF r
<1>3. Failed(r) = {}
  BY <1>1 DEF Failed
<1>4. WindowOK(r)
  BY <1>1, <1>3, FS_EmptySet DEF WindowOK
<1>5. ~Tripped(r)
  BY <1>1, ConfigNormalized DEF Tripped
<1> QED
  BY <1>1, <1>2, <1>4, <1>5 DEF r

-----------------------------------------------------------------------------
(* Completions. *)

(* What a completion leaves of the breaker, whatever it decides. *)
Completed(b, r) ==
  /\ r \in BreakerType
  /\ WindowOK(r)
  /\ r.state = "closed" => ~Tripped(r)
  /\ b.generation <= r.generation

(* An outcome in a closed period is recorded, and may open the breaker. *)
LEMMA CompleteClosed ==
  ASSUME NEW b \in BreakerType, NEW success \in BOOLEAN,
         WindowOK(b), b.state = "closed", b.halfOpenPermitted = 0
  PROVE  LET r == completeClosed(b, success)
         IN  Completed(b, r) /\ r.state # "half-open" /\ r.halfOpenPermitted = 0
<1> DEFINE q == recordClosed(b, ~success)
           o == transitionOpen(q)
<1>1. q \in BreakerType /\ WindowOK(q) /\ SameProbes(b, q)
  BY RecordClosedKeepsWindow
<1> HIDE DEF q
<1>2. CASE Tripped(q)
  <2>1. completeClosed(b, success) = o
    BY <1>2 DEF completeClosed, q
  <2>2. /\ o \in BreakerType
        /\ SameRing(q, o)
        /\ o.generation = q.generation + 1
        /\ o.halfOpenPermitted = 0
        /\ o.state = "open"
    BY <1>1, TransitionsKeepRing
  <2>3. WindowOK(o)
    BY <1>1, <2>2, SameRingSameWindow
  <2>4. b.generation <= o.generation
    BY <1>1, <2>2 DEF SameProbes, BreakerType
  <2> QED
    BY <2>1, <2>2, <2>3, <2>4 DEF Completed
<1>3. CASE ~Tripped(q)
  <2>1. completeClosed(b, success) = q
    BY <1>3 DEF completeClosed, q
  <2> QED
    BY <1>1, <1>3, <2>1 DEF Completed, SameProbes, BreakerType
<1> QED
  BY <1>2, <1>3

(* The outcome of a probe reopens or closes the breaker, or leaves it      *)
(* half-open with one probe less in flight and one success more.           *)
LEMMA CompleteHalfOpen ==
  ASSUME NEW b \in BreakerType, NEW success \in BOOLEAN,
         WindowOK(b), b.state = "half-open", b.halfOpenInFlight > 0
  PROVE  LET r == completeHalfOpen(b, success)
         IN  /\ Completed(b, r)
             /\ \/ r.state # "half-open" /\ r.halfOpenPermitted = 0
                \/ /\ r.state = "half-open"
                   /\ r.generation = b.generation
                   /\ r.halfOpenPermitted = b.halfOpenPermitted
                   /\ r.halfOpenInFlight = b.halfOpenInFlight - 1
                   /\ r.halfOpenSuccesses = b.halfOpenSuccesses + 1
                   /\ r.halfOpenSuccesses < HalfOpenMaxRequests
<1> DEFINE n == b.halfOpenInFlight - 1
           m == b.halfOpenSuccesses + 1
           q == [b EXCEPT !.halfOpenInFlight = n]
           p == [q EXCEPT !.halfOpenSuccesses = m]
<1>1. n \in Nat /\ m \in Nat
  BY DEF BreakerType
<1>2. completeHalfOpen(b, success) =
        IF ~success THEN transitionOpen(q)
        ELSE IF p.halfOpenSuccesses >= HalfOpenMaxRequests
             THEN transitionClosed(p) ELSE p
  BY DEF completeHalfOpen, BreakerType
<1> HIDE DEF n, m
<1>3. /\ q \in BreakerType
      /\ SameRing(b, q)
      /\ q.generation = b.generation
  BY <1>1 DEF BreakerType, SameRing
<1>4. /\ p \in BreakerType
      /\ SameRing(b, p)
      /\ p.generation = b.generation
      /\ p.state = "half-open"
      /\ p.halfOpenPermitted = b.halfOpenPermitted
      /\ p.halfOpenInFlight = n
      /\ p.halfOpenSuccesses = m
  BY <1>1 DEF BreakerType, SameRing
<1> HIDE DEF q, p
<1>5. WindowOK(q) /\ WindowOK(p)
  BY <1>3, <1>4, SameRingSameWindow
<1>6. CASE ~success
  <2> DEFINE o == transitionOpen(q)
  <2>1. /\ o \in BreakerType
        /\ SameRing(q, o)
        /\ o.generation = q.generation + 1
        /\ o.halfOpenPermitted = 0
        /\ o.state = "open"
    BY <1>3, TransitionsKeepRing
  <2>2. WindowOK(o)
    BY <1>5, <2>1, SameRingSameWindow
  <2>3. b.generation <= o.generation
    BY <1>3, <2>1 DEF BreakerType
  <2> QED
    BY <1>2, <1>6, <2>1, <2>2, <2>3 DEF Completed
<1>7. CASE success /\ p.halfOpenSuccesses >= HalfOpenMaxRequests
  <2> DEFINE o == transitionClosed(p)
  <2>1. /\ o \in BreakerType
        /\ WindowOK(o)
        /\ ~Tripped(o)
        /\ o.state = "closed"
        /\ o.generation = p.generation + 1
        /\ o.halfOpenPermitted = 0
    BY <1>4, TransitionClosedStartsAfresh
  <2>2. b.generation <= o.generation
    BY <1>4, <2>1 DEF BreakerType
  <2> QED
    BY <1>2, <1>7, <2>1, <2>2 DEF Completed
<1>8. CASE success /\ ~(p.halfOpenSuccesses >= HalfOpenMaxRequests)
  <2>1. completeHalfOpen(b, success) = p
    BY <1>2, <1>8
  <2>2. p.halfOpenSuccesses < HalfOpenMaxRequests
    BY <1>1, <1>4, <1>8, ConfigNormalized
  <2>3. Completed(b, p)
    BY <1>4, <1>5 DEF Completed, BreakerType
  <2> QED
    BY <1>4, <2>1, <2>2, <2>3 DEF n, m
<1> QED
  BY <1>6, <1>7, <1>8

-----------------------------------------------------------------------------
(* The methods as a whole, for a breaker that is as it should be. *)

BreakerOK(b) ==
  /\ b \in BreakerType
  /\ WindowOK(b)
  /\ b.state # "half-open" => b.halfOpenPermitted = 0

(* A new breaker. *)
LEMMA NewBreakerOK == BreakerOK(NewCircuitBreaker)
<1> DEFINE b == NewCircuitBreaker
<1>1. /\ b.window = [i \in Slots |-> FALSE] /\ b.next = 0 /\ b.count = 0
      /\ b.failures = 0 /\ b.halfOpenPermitted = 0
  BY DEF NewCircuitBreaker
<1>2. b \in BreakerType
  <2>1. [i \in Slots |-> FALSE] \in [Slots -> BOOLEAN]
    OBVIOUS
  <2>2. 0 \in Slots /\ Cooldown \in 0..Cooldown /\ 0 \in 0..WindowSize
    BY ConfigNormalized DEF Slots
  <2> QED BY <2>1, <2>2 DEF NewCircuitBreaker, BreakerType, CircuitState
<1> HIDE DEF b
<1>3. Failed(b) = {}
  BY <1>1 DEF Failed
<1>4. WindowOK(b)
  BY <1>1, <1>3, FS_EmptySet DEF WindowOK
<1> QED BY <1>1, <1>2, <1>4 DEF BreakerOK, b

(* Time passes. *)
LEMMA ElapsedOK ==
  ASSUME NEW b, BreakerOK(b), NEW e \in 0..Cooldown
  PROVE  LET r == [b EXCEPT !.elapsed = e]
         IN  BreakerOK(r) /\ SameProbes(b, r)
<1> DEFINE r == [b EXCEPT !.elapsed = e]
<1>1. r \in BreakerType /\ SameRing(b, r) /\ SameProbes(b, r)
  BY DEF BreakerOK, BreakerType, SameRing, SameProbes
<1>2. WindowOK(r)
  BY <1>1, SameRingSameWindow DEF BreakerOK
<1> HIDE DEF r
<1>3. BreakerOK(r)
  BY <1>1, <1>2 DEF BreakerOK, SameProbes
<1> QED BY <1>1, <1>3 DEF r

(* Allow leaves the breaker as it is, or starts a half-open generation. *)
LEMMA DecidingOK ==
  ASSUME NEW b, BreakerOK(b)
  PROVE  LET d == Deciding(b)
         IN  /\ BreakerOK(d)
             /\ \/ d = b
                \/ /\ d.state = "half-open"
                   /\ d.generation = b.generation + 1
                   /\ d.halfOpenPermitted = 0
                   /\ d.halfOpenInFlight = 0
<1> DEFINE d == transitionHalfOpen(b)
<1>1. /\ d \in BreakerType /\ SameRing(b, d)
      /\ d.state = "half-open" /\ d.generation = b.generation + 1
      /\ d.halfOpenPermitted = 0 /\ d.halfOpenInFlight = 0
  BY TransitionsKeepRing DEF BreakerOK
<1>2. WindowOK(d)
  BY <1>1, SameRingSameWindow DEF BreakerOK
<1> HIDE DEF d
<1>3. BreakerOK(d)
  BY <1>1, <1>2 DEF BreakerOK
<1>4. Deciding(b) = b \/ Deciding(b) = d
  BY DEF Deciding, d
<1> QED BY <1>1, <1>3, <1>4

(* A permit of a half-open breaker is one more probe in flight. *)
LEMMA AdmitOK ==
  ASSUME NEW b, BreakerOK(b)
  PROVE  LET r == Admit(b)
         IN  /\ BreakerOK(r)
             /\ r.state = b.state
             /\ r.generation = b.generation
             /\ b.state = "half-open" => r.halfOpenInFlight = b.halfOpenInFlight + 1
<1> DEFINE p == b.halfOpenPermitted + 1
           n == b.halfOpenInFlight + 1
           r == [b EXCEPT !.halfOpenPermitted = p, !.halfOpenInFlight = n]
<1>1. p \in Nat /\ n \in Nat
  BY DEF BreakerOK, BreakerType
<1>2. Admit(b) = IF b.state = "half-open" THEN r ELSE b
  BY DEF Admit
<1> HIDE DEF p, n
<1>3. /\ r \in BreakerType /\ SameRing(b, r)
      /\ r.state = b.state /\ r.generation = b.generation /\ r.halfOpenInFlight = n
  BY <1>1 DEF BreakerOK, BreakerType, SameRing
<1>4. WindowOK(r)
  BY <1>3, SameRingSameWindow DEF BreakerOK
<1> HIDE DEF r
<1>5. b.state = "half-open" => BreakerOK(r)
  BY <1>3, <1>4 DEF BreakerOK
<1> QED BY <1>2, <1>3, <1>5 DEF n

(* A completion changes nothing unless its permit is current; if it is,    *)
(* the breaker is half-open afterwards only in the same period and with    *)
(* one probe less in flight.                                               *)
LEMMA CompleteOK ==
  ASSUME NEW b, BreakerOK(b), NEW permit, NEW success \in BOOLEAN,
         Current(b, permit) /\ b.state = "half-open" => b.halfOpenInFlight > 0
  PROVE  LET r == complete(b, permit, success)
         IN  /\ BreakerOK(r)
             /\ b.generation <= r.generation
             /\ ~Current(b, permit) => r = b
             /\ Current(b, permit) /\ r.state = "half-open" =>
                  /\ b.state = "half-open"
                  /\ r.generation = b.generation
                  /\ r.halfOpenInFlight = b.halfOpenInFlight - 1
<1> DEFINE r == complete(b, permit, success)
<1>1. b \in BreakerType /\ WindowOK(b) /\ b.generation \in Nat
  BY DEF BreakerOK, BreakerType
<1>2. CASE ~Current(b, permit)
  BY <1>1, <1>2 DEF complete
<1>3. CASE Current(b, permit) /\ b.state = "closed"
  <2>1. r = completeClosed(b, success)
    BY <1>3 DEF complete
  <2>2. Completed(b, r) /\ r.state # "half-open" /\ r.halfOpenPermitted = 0
    BY <1>1, <1>3, <2>1, CompleteClosed DEF BreakerOK
  <2> HIDE DEF r
  <2>3. BreakerOK(r) /\ b.generation <= r.generation
    BY <2>2 DEF Completed, BreakerOK
  <2> QED BY <1>3, <2>2, <2>3 DEF r
<1>4. CASE Current(b, permit) /\ b.state = "half-open"
  <2>1. r = completeHalfOpen(b, success)
    BY <1>4 DEF complete
  <2>2. /\ Completed(b, r)
        /\ \/ r.state # "half-open" /\ r.halfOpenPermitted = 0
           \/ /\ r.state = "half-open"
              /\ r.generation = b.generation
              /\ r.halfOpenInFlight = b.halfOpenInFlight - 1
    BY <1>1, <1>4, <2>1, CompleteHalfOpen
  <2> HIDE DEF r
  <2>3. BreakerOK(r) /\ b.generation <= r.generation
    BY <2>2 DEF Completed, BreakerOK
  <2> QED BY <1>4, <2>2, <2>3 DEF r
<1>5. CASE Current(b, permit) /\ b.state = "open"
  <2>1. r = b
    BY <1>5 DEF complete
  <2> QED BY <1>1, <1>5, <2>1
<1>6. b.state \in {"closed", "open", "half-open"}
  BY <1>1 DEF BreakerType, CircuitState
<1> QED BY <1>2, <1>3, <1>4, <1>5, <1>6
=============================================================================
