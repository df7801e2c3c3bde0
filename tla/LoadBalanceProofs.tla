------------------------- MODULE LoadBalanceProofs -------------------------
(***************************************************************************)
(* Proofs about the pickers of LoadBalance, for every number of requests,  *)
(* of endpoints and of Updates.                                            *)
(***************************************************************************)
EXTENDS LoadBalance, FiniteSums

(* The provers of a leaf that names none, and the time each is given. *)
USE ZenonT(8), SMTT(40)

(* The instances count sets as this module does. *)
LEMMA CardinalitySame ==
  \A S : /\ RR!Cardinality(S) = Cardinality(S)
         /\ WRR!Cardinality(S) = Cardinality(S)
         /\ LC!Cardinality(S) = Cardinality(S)
BY DEF RR!Cardinality, WRR!Cardinality, LC!Cardinality, Cardinality

-----------------------------------------------------------------------------
(* Round robin.  The inductive invariant compares two endpoints by their   *)
(* turn: counting from the position that the next index falls on, an       *)
(* endpoint whose turn comes later has been picked at most once more than  *)
(* the other, and for each index that a late pick used up once more again. *)

Turn == index % length

(* The turn of position i comes before that of j. *)
Sooner(i, j) == IF i >= Turn <=> j >= Turn THEN i < j ELSE i >= Turn

Stale == {r \in Requests : loaded[r] > 0 /\ ~fresh[r]}

TurnsInv ==
  \A i, j \in RR!Used :
    ahead[i] <= ahead[j] + late + (IF Sooner(j, i) THEN 1 ELSE 0)

RoundRobinInv ==
  /\ length \in 0..MaxEndpoints
  /\ index \in 0..(Cycle - 1)
  /\ loaded \in [Requests -> 0..MaxEndpoints]
  /\ fresh \in [Requests -> BOOLEAN]
  /\ ahead \in [RR!Positions -> Nat]
  /\ late \in Nat
  /\ late + Cardinality(Stale) <= Cardinality(Requests)
  /\ \A r \in Requests : fresh[r] => loaded[r] = length /\ length > 0
  /\ RR!Used # {} => \E j \in RR!Used : ahead[j] = 0
  /\ TurnsInv

(* Stale requests can be counted. *)
LEMMA StaleFinite ==
  /\ IsFiniteSet(Requests) /\ Cardinality(Requests) \in Nat
  /\ IsFiniteSet(Stale) /\ Cardinality(Stale) \in Nat
  /\ Cardinality(Stale) <= Cardinality(Requests)
<1>1. IsFiniteSet(Requests)
  BY LoadBalanceConstants DEF LoadBalanceConstants
<1>2. Stale \subseteq Requests
  BY DEF Stale
<1> QED BY <1>1, <1>2, FS_Subset, FS_CardinalityType

(* The remainder is unique. *)
LEMMA Remainder ==
  ASSUME NEW n \in Nat \ {0}, NEW q \in Nat, NEW r \in 0..(n - 1)
  PROVE  (n * q + r) % n = r
<1> DEFINE y == n * q + r
           d == y \div n
           m == y % n
<1>1. n * q \in Nat /\ y \in Nat
  OBVIOUS
<1>2. d \in Nat /\ m \in 0..(n - 1) /\ y = n * d + m
  BY <1>1
<1> HIDE DEF d, m
<1>3. CASE d > q
  <2>1. n * d = n * q + n * (d - q) /\ n * (d - q) >= n
    BY <1>2, <1>3
  <2>2. n * q \in Nat /\ n * (d - q) \in Int
    BY <1>2
  <2> QED BY <1>2, <2>1, <2>2
<1>4. CASE d < q
  <2>1. n * q = n * d + n * (q - d) /\ n * (q - d) >= n
    BY <1>2, <1>4
  <2>2. n * d \in Nat /\ n * (q - d) \in Int
    BY <1>2
  <2> QED BY <1>2, <2>1, <2>2
<1>5. CASE d = q
  BY <1>1, <1>2, <1>5 DEF m
<1> QED BY <1>2, <1>3, <1>4, <1>5

(* The next position: the length of a list divides Cycle. *)
LEMMA TurnAdvances ==
  ASSUME NEW n \in 1..MaxEndpoints, NEW x \in 0..(Cycle - 1)
  PROVE  /\ x % n \in 0..(n - 1)
         /\ ((x + 1) % Cycle) % n = IF x % n = n - 1 THEN 0 ELSE (x % n) + 1
<1>1. /\ Cycle \in Nat /\ Cycle > 0 /\ Cycle % n = 0 /\ n \in Nat /\ n > 0
      /\ x \in Nat
  BY LoadBalanceConstants DEF LoadBalanceConstants
<1>2. x % n \in 0..(n - 1)
  BY <1>1
<1>3. (x + 1) % n = IF x % n = n - 1 THEN 0 ELSE (x % n) + 1
  <2> DEFINE q == x \div n
             r == x % n
  <2>1. q \in Nat /\ r \in 0..(n - 1) /\ x = n * q + r
    BY <1>1
  <2> HIDE DEF q, r
  <2>2. CASE r = n - 1
    <3>1. x + 1 = n * (q + 1) + 0
      BY <1>1, <2>1, <2>2
    <3>2. (n * (q + 1) + 0) % n = 0
      BY <1>1, <2>1, Remainder
    <3> QED BY <2>2, <3>1, <3>2 DEF r
  <2>3. CASE r # n - 1
    <3>1. x + 1 = n * q + (r + 1)
      BY <1>1, <2>1
    <3>2. (n * q + (r + 1)) % n = r + 1
      BY <1>1, <2>1, <2>3, Remainder
    <3> QED BY <2>3, <3>1, <3>2 DEF r
  <2> QED BY <2>2, <2>3
<1>4. CASE x + 1 = Cycle
  <2>1. (x + 1) % Cycle = 0 /\ 0 % n = 0
    BY <1>1, <1>4
  <2> QED BY <1>1, <1>2, <1>3, <1>4, <2>1
<1>5. CASE x + 1 < Cycle
  <2>1. (x + 1) % Cycle = x + 1
    BY <1>1, <1>5
  <2> QED BY <1>2, <1>3, <2>1
<1> QED BY <1>1, <1>2, <1>4, <1>5

(* A new picker, and one that has just been updated. *)
LEMMA RoundRobinInit == RR!Init => RoundRobinInv
<1> SUFFICES ASSUME RR!Init PROVE RoundRobinInv
  OBVIOUS
<1>1. Stale = {} /\ RR!Used = {}
  BY DEF RR!Init, Stale, RR!Used
<1>2. Cardinality(Stale) = 0
  BY <1>1, FS_EmptySet
<1>3. Cycle > 0 /\ Cycle \in Nat /\ MaxEndpoints \in Nat
  BY LoadBalanceConstants DEF LoadBalanceConstants
<1> QED BY <1>1, <1>2, <1>3, StaleFinite DEF RR!Init, RoundRobinInv, TurnsInv

(* An update begins a list that nothing was taken from. *)
LEMMA RoundRobinUpdate ==
  ASSUME RoundRobinInv, NEW n \in 0..MaxEndpoints, RR!Update(n)
  PROVE  RoundRobinInv'
<1>1. MaxEndpoints \in Nat
  BY LoadBalanceConstants DEF LoadBalanceConstants
<1>2. late' = 0 /\ Cardinality(Stale') <= Cardinality(Requests)
      /\ Cardinality(Stale') \in Nat
  <2>1. Stale' \subseteq Requests
    BY DEF Stale
  <2> QED BY <2>1, StaleFinite, FS_Subset, FS_CardinalityType DEF RR!Update
<1>3. \A i \in RR!Used' : i \in RR!Positions /\ ahead'[i] = 0
  BY <1>1 DEF RR!Update, RR!Used, RR!Positions
<1>4. TurnsInv'
  BY <1>2, <1>3 DEF TurnsInv
<1>5. ahead' \in [RR!Positions -> Nat]
  BY DEF RR!Update
<1>6. late' + Cardinality(Stale') <= Cardinality(Requests)
  BY <1>2, StaleFinite
<1>7. RR!Used' # {} => \E j \in RR!Used' : ahead'[j] = 0
  BY <1>3
<1>8. \A r \in Requests : ~fresh'[r]
  BY DEF RR!Update
<1> QED
  BY <1>2, <1>4, <1>5, <1>6, <1>7, <1>8 DEF RR!Update, RoundRobinInv

(* A pick loads the snapshot: it is fresh. *)
LEMMA RoundRobinLoad ==
  ASSUME RoundRobinInv, NEW r \in Requests, RR!Load(r)
  PROVE  RoundRobinInv'
<1>1. /\ length' = length /\ index' = index /\ ahead' = ahead /\ late' = late
      /\ loaded' = [loaded EXCEPT ![r] = length]
      /\ fresh' = [fresh EXCEPT ![r] = TRUE]
      /\ loaded[r] = 0 /\ length > 0
  BY DEF RR!Load
<1>2. Stale' = Stale
  BY <1>1 DEF Stale, RoundRobinInv
<1>3. TurnsInv' /\ RR!Used' = RR!Used
  BY <1>1 DEF RoundRobinInv, TurnsInv, Sooner, Turn, RR!Used
<1> QED BY <1>1, <1>2, <1>3 DEF RoundRobinInv

(* The turns after an index has been taken: the position it fell on comes  *)
(* last, and the others keep their order.                                  *)
LEMMA TurnTaken ==
  ASSUME RoundRobinInv, length > 0, length' = length, index' = (index + 1) % Cycle
  PROVE  \E t \in RR!Used :
           /\ t = Turn
           /\ \A i \in RR!Used : i # t => Sooner(t, i) /\ Sooner(i, t)'
           /\ \A i, j \in RR!Used : i # t /\ j # t => (Sooner(i, j)' <=> Sooner(i, j))
<1>1. length \in 1..MaxEndpoints /\ length \in Nat
  BY LoadBalanceConstants DEF LoadBalanceConstants, RoundRobinInv
<1>2. PICK t \in 0..(length - 1) :
        t = Turn /\ Turn' = IF t = length - 1 THEN 0 ELSE t + 1
  BY <1>1, TurnAdvances DEF Turn, RoundRobinInv
<1>3. ASSUME NEW i \in RR!Used, i # t PROVE Sooner(t, i) /\ Sooner(i, t)'
  BY <1>1, <1>2, <1>3 DEF Sooner, RR!Used
<1>4. ASSUME NEW i \in RR!Used, NEW j \in RR!Used, i # t, j # t
      PROVE  Sooner(i, j)' <=> Sooner(i, j)
  BY <1>1, <1>2, <1>4 DEF Sooner, RR!Used
<1> QED BY <1>2, <1>3, <1>4 DEF RR!Used

(* An index is taken: by a pick of the current snapshot, which is counted  *)
(* at the position, or by a late one, for which the position is passed     *)
(* over.                                                                   *)
LEMMA RoundRobinPick ==
  ASSUME RoundRobinInv, NEW r \in Requests, RR!Pick(r)
  PROVE  RoundRobinInv'
<1>1. /\ length' = length /\ index' = (index + 1) % Cycle
      /\ loaded' = [loaded EXCEPT ![r] = 0]
      /\ fresh' = [fresh EXCEPT ![r] = FALSE]
      /\ loaded[r] > 0
  BY DEF RR!Pick
<1>2. Cycle \in Nat /\ Cycle > 0 /\ MaxEndpoints \in Nat
  BY LoadBalanceConstants DEF LoadBalanceConstants
<1>3. index' \in 0..(Cycle - 1)
  BY <1>1, <1>2 DEF RoundRobinInv
<1>4. /\ loaded' \in [Requests -> 0..MaxEndpoints]
      /\ fresh' \in [Requests -> BOOLEAN]
      /\ \A q \in Requests : fresh'[q] => loaded'[q] = length' /\ length' > 0
  BY <1>1, <1>2 DEF RoundRobinInv
<1>5. RR!Used' = RR!Used /\ RR!Used \subseteq RR!Positions /\ RR!Used \subseteq Nat
  <2>1. RR!Used' = RR!Used
    BY <1>1 DEF RR!Used
  <2> QED BY <1>1, <1>2, <2>1 DEF RR!Used, RR!Positions, RoundRobinInv
<1>6. CASE fresh[r]
  <2>1. length > 0 /\ loaded[r] = length /\ late' = late
    BY <1>6 DEF RoundRobinInv, RR!Pick
  <2>2. Stale' = Stale
    BY <1>1, <1>6 DEF Stale, RoundRobinInv
  <2>3. PICK t \in RR!Used :
          /\ t = Turn
          /\ \A i \in RR!Used : i # t => Sooner(t, i) /\ Sooner(i, t)'
          /\ \A i, j \in RR!Used : i # t /\ j # t => (Sooner(i, j)' <=> Sooner(i, j))
    BY <1>1, <2>1, TurnTaken
  <2> DEFINE counted == [ahead EXCEPT ![t] = @ + 1]
             least == IF \A j \in RR!Used : counted[j] > 0 THEN 1 ELSE 0
  <2>4. ahead' = [j \in RR!Positions |-> IF j \in RR!Used THEN counted[j] - least ELSE 0]
    BY <1>6, <2>1, <2>3 DEF RR!Pick, RR!CountPick, Turn
  <2>5. /\ least \in {0, 1}
        /\ \A j \in RR!Used : /\ ahead[j] \in Nat /\ counted[j] \in Nat
                              /\ ahead'[j] = counted[j] - least
                              /\ ahead'[j] \in Nat
                              /\ counted[j] = IF j = t THEN ahead[j] + 1 ELSE ahead[j]
    <3>1. \A j \in RR!Used : /\ ahead[j] \in Nat /\ counted[j] \in Nat
                             /\ counted[j] = IF j = t THEN ahead[j] + 1 ELSE ahead[j]
      BY <1>5 DEF RoundRobinInv
    <3> HIDE DEF counted
    <3>2. least = 1 => \A j \in RR!Used : counted[j] > 0
      OBVIOUS
    <3>3. least \in {0, 1}
      OBVIOUS
    <3> HIDE DEF least
    <3>4. \A j \in RR!Used : ahead'[j] = counted[j] - least
      BY <1>5, <2>4
    <3> QED BY <3>1, <3>2, <3>3, <3>4
  <2>6. ahead' \in [RR!Positions -> Nat]
    BY <2>4, <2>5
  <2>7. \E j \in RR!Used : ahead'[j] = 0
    <3>1. PICK z \in RR!Used : ahead[z] = 0
      BY <2>3 DEF RoundRobinInv
    <3>2. CASE least = 0
      <4>1. PICK j \in RR!Used : ~(counted[j] > 0)
        BY <3>2
      <4> HIDE DEF counted, least
      <4>2. ahead'[j] = 0
        BY <2>5, <3>2, <4>1
      <4> QED BY <4>2
    <3>3. CASE least = 1
      <4>1. counted[z] > 0
        BY <3>3
      <4> HIDE DEF counted, least
      <4>2. counted[z] = IF z = t THEN 1 ELSE 0
        BY <2>5, <3>1
      <4>3. ahead'[z] = 0
        BY <2>5, <3>1, <3>3, <4>1, <4>2
      <4> QED BY <4>3
    <3> QED BY <2>5, <3>2, <3>3
  <2>8. ASSUME NEW i \in RR!Used, NEW j \in RR!Used
        PROVE  ahead'[i] <= ahead'[j] + late' + (IF Sooner(j, i)' THEN 1 ELSE 0)
    <3> HIDE DEF counted, least
    <3>1. /\ ahead[i] <= ahead[j] + late + (IF Sooner(j, i) THEN 1 ELSE 0)
          /\ late \in Nat
      BY <2>8 DEF RoundRobinInv, TurnsInv
    <3>2. CASE i = j
      BY <2>1, <2>5, <2>8, <3>1, <3>2
    <3>3. CASE i # j /\ i = t
      <4>1. Sooner(j, i)' /\ Sooner(i, j)
        BY <2>3, <2>8, <3>3
      <4>2. ~Sooner(j, i)
        BY <1>5, <2>8, <3>3, <4>1 DEF Sooner
      <4> QED BY <2>1, <2>5, <2>8, <3>1, <3>3, <4>1, <4>2
    <3>4. CASE i # j /\ j = t
      BY <2>1, <2>5, <2>8, <3>1, <3>4
    <3>5. CASE i # t /\ j # t
      BY <2>1, <2>3, <2>5, <2>8, <3>1, <3>5
    <3> QED BY <3>2, <3>3, <3>4, <3>5
  <2>9. TurnsInv'
    BY <1>5, <2>8 DEF TurnsInv
  <2> HIDE DEF counted, least
  <2> QED BY <1>1, <1>3, <1>4, <1>5, <2>1, <2>2, <2>6, <2>7, <2>9 DEF RoundRobinInv
<1>7. CASE ~fresh[r]
  <2>1. late' = late + 1 /\ ahead' = ahead
    BY <1>7 DEF RR!Pick
  <2>2. r \in Stale /\ Stale' = Stale \ {r}
    BY <1>1, <1>7 DEF Stale, RoundRobinInv
  <2>3. Cardinality(Stale') = Cardinality(Stale) - 1
    BY <2>2, StaleFinite, FS_RemoveElement
  <2>4. late' \in Nat /\ late' + Cardinality(Stale') <= Cardinality(Requests)
    BY <2>1, <2>3, StaleFinite DEF RoundRobinInv
  <2>5. ASSUME NEW i \in RR!Used, NEW j \in RR!Used
        PROVE  ahead'[i] <= ahead'[j] + late' + (IF Sooner(j, i)' THEN 1 ELSE 0)
    <3>1. /\ ahead[i] <= ahead[j] + late + (IF Sooner(j, i) THEN 1 ELSE 0)
          /\ late \in Nat /\ ahead[i] \in Nat /\ ahead[j] \in Nat
      BY <1>5, <2>5 DEF RoundRobinInv, TurnsInv
    <3> QED BY <2>1, <3>1
  <2>6. TurnsInv'
    BY <1>5, <2>5 DEF TurnsInv
  <2> QED BY <1>1, <1>3, <1>4, <1>5, <2>1, <2>4, <2>6 DEF RoundRobinInv
<1> QED BY <1>6, <1>7

(* Round robin keeps its type, and with it the bound on late picks, and    *)
(* spreads evenly: for every number of concurrent picks, whatever Updates  *)
(* come between the two atomic operations of a pick.                       *)
THEOREM SpreadsEvenly == RR!Spec => [](RR!TypeOK /\ EvenSpread)
<1>1. RoundRobinInv /\ [RR!Next]_(RR!vars) => RoundRobinInv'
  <2> SUFFICES ASSUME RoundRobinInv, [RR!Next]_(RR!vars) PROVE RoundRobinInv'
    OBVIOUS
  <2>1. CASE UNCHANGED RR!vars
    BY <2>1 DEF RR!vars, RoundRobinInv, TurnsInv, Sooner, Turn, Stale, RR!Used
  <2> QED BY <2>1, RoundRobinUpdate, RoundRobinLoad, RoundRobinPick DEF RR!Next
<1>2. RoundRobinInv => RR!TypeOK /\ EvenSpread
  <2> SUFFICES ASSUME RoundRobinInv PROVE RR!TypeOK /\ EvenSpread
    OBVIOUS
  <2>1. late \in 0..Cardinality(Requests)
    BY StaleFinite DEF RoundRobinInv
  <2>2. RR!Used \subseteq RR!Positions
    BY LoadBalanceConstants DEF LoadBalanceConstants, RR!Used, RR!Positions, RoundRobinInv
  <2>3. ASSUME NEW i \in RR!Used PROVE ahead[i] <= 1 + late
    <3>1. PICK j \in RR!Used : ahead[j] = 0
      BY <2>3 DEF RoundRobinInv
    <3>2. /\ ahead[i] <= ahead[j] + late + (IF Sooner(j, i) THEN 1 ELSE 0)
          /\ late \in Nat /\ ahead[i] \in Nat
      BY <2>2, <2>3 DEF RoundRobinInv, TurnsInv
    <3> QED BY <3>1, <3>2
  <2> QED
    BY <2>1, <2>3, CardinalitySame DEF RoundRobinInv, RR!TypeOK, EvenSpread, RR!EvenSpread
<1> QED BY <1>1, <1>2, RoundRobinInit, PTL DEF RR!Spec

-----------------------------------------------------------------------------
(* Least connections.  What a scan has found is as good as what it has     *)
(* seen, up to the changes that others made since: this holds of the count *)
(* it loaded and of the counter itself, which may have moved apart.        *)

Holders(n) == {r \in Requests : pc[r] = "calling" /\ best[r] = n}

Load == 0..Cardinality(Requests)

LeastTypes ==
  /\ nodes \in [LC!Instances -> LC!Nodes \cup {LC!NoNode}]
  /\ created \in 0..MaxCreated
  /\ active \in [LC!Nodes -> Load]
  /\ pc \in [Requests -> {"idle", "scanning", "calling"}]
  /\ next \in [Requests -> 1..(N + 1)]
  /\ best \in [Requests -> LC!Nodes \cup {LC!NoNode}]
  /\ bestCount \in [Requests -> Load]
  /\ overlap \in [Requests -> Load]
  /\ \A r \in Requests : pc[r] # "idle" => best[r] \in LC!Nodes

ScanInv(r) ==
  pc[r] = "scanning" =>
    /\ active[best[r]] <= bestCount[r] + overlap[r]
    /\ \A i \in LC!Listed : i < next[r] =>
         /\ bestCount[r] <= active[nodes[i]] + overlap[r]
         /\ active[best[r]] <= active[nodes[i]] + overlap[r]

LeastInv ==
  /\ LeastTypes
  /\ \A n \in LC!Nodes : active[n] = Cardinality(Holders(n))
  /\ \A r \in Requests : ScanInv(r)

(* The requests that hold a node can be counted. *)
LEMMA HoldersFinite ==
  ASSUME NEW n
  PROVE  /\ IsFiniteSet(Requests) /\ Cardinality(Requests) \in Nat
         /\ IsFiniteSet(Holders(n)) /\ Cardinality(Holders(n)) \in Load
<1>1. IsFiniteSet(Requests)
  BY LoadBalanceConstants DEF LoadBalanceConstants
<1>2. Holders(n) \subseteq Requests
  BY DEF Holders
<1> QED BY <1>1, <1>2, FS_Subset, FS_CardinalityType DEF Load

(* The constants, and the listed instances. *)
LEMMA LeastConstants ==
  /\ N \in Nat \ {0} /\ MaxCreated \in Nat \ {0} /\ 0 \in Load
  /\ LC!Listed \subseteq 1..N /\ LC!Instances = 1..N
  /\ LC!Nodes = 1..MaxCreated /\ LC!NoNode = 0
<1>1. IsFiniteSet(Requests)
  BY LoadBalanceConstants DEF LoadBalanceConstants
<1>2. 0 \in Load
  BY <1>1, FS_CardinalityType DEF Load
<1> QED
  BY <1>2, LoadBalanceConstants
  DEF LoadBalanceConstants, LC!Listed, LC!Instances, LC!Nodes, LC!NoNode

(* Some listed instance comes first. *)
LEMMA FirstListed ==
  ASSUME LC!Listed # {}
  PROVE  \E i \in LC!Listed : \A j \in LC!Listed : i <= j
<1> DEFINE R == {ss \in Nat \X Nat : ss[1] < ss[2]}
<1>1. IsWellFoundedOn(R, Nat)
  BY NatLessThanWellFounded DEF OpToRel
<1>2. LC!Listed \subseteq Nat
  BY LeastConstants
<1>3. PICK i \in LC!Listed : \A j \in LC!Listed : ~(<<j, i>> \in R)
  <2> HIDE DEF R
  <2> QED BY <1>1, <1>2, WFMin
<1>4. ASSUME NEW j \in LC!Listed, j < i PROVE <<j, i>> \in R
  BY <1>2, <1>4
<1>5. \A j \in LC!Listed : ~(j < i)
  BY <1>3, <1>4, Zenon
<1> QED BY <1>2, <1>5

(* A new picker. *)
LEMMA LeastInit == LC!Init => LeastInv
<1> SUFFICES ASSUME LC!Init PROVE LeastInv
  OBVIOUS
<1>1. LeastTypes
  BY LeastConstants DEF LC!Init, LeastTypes
<1>2. ASSUME NEW n \in LC!Nodes PROVE active[n] = Cardinality(Holders(n))
  <2>1. Holders(n) = {}
    BY DEF LC!Init, Holders
  <2> QED BY <1>2, <2>1, FS_EmptySet DEF LC!Init
<1> QED BY <1>1, <1>2 DEF LeastInv, ScanInv, LC!Init

(* Update runs while nobody scans, and touches no counter. *)
LEMMA LeastUpdate ==
  ASSUME LeastInv, NEW list \in SUBSET LC!Instances, LC!Update(list)
  PROVE  LeastInv'
<1> DEFINE new == list \ LC!Listed
           Upto(i) == {j \in new : j <= i}
<1>1. IsFiniteSet(new) /\ Cardinality(new) \in Nat
  <2>1. IsFiniteSet(1..N)
    BY LeastConstants, FS_Interval
  <2>2. new \subseteq 1..N
    BY LeastConstants
  <2> QED BY <2>1, <2>2, FS_Subset, FS_CardinalityType
<1>2. ASSUME NEW i \in new PROVE Cardinality(Upto(i)) \in 1..Cardinality(new)
  <2>1. Upto(i) \subseteq new /\ i \in Upto(i)
    BY <1>2, LeastConstants
  <2> HIDE DEF new, Upto
  <2>2. IsFiniteSet(Upto(i)) /\ Cardinality(Upto(i)) <= Cardinality(new)
        /\ Cardinality(Upto(i)) \in Nat
    BY <1>1, <2>1, FS_Subset, FS_CardinalityType
  <2>3. Cardinality(Upto(i)) # 0
    BY <2>1, <2>2, FS_EmptySet
  <2> QED BY <1>1, <2>2, <2>3
<1>3. /\ \A r \in Requests : pc[r] # "scanning"
      /\ created + Cardinality(new) <= MaxCreated
      /\ nodes' = [i \in LC!Instances |->
                     IF i \notin list THEN LC!NoNode
                     ELSE IF i \in new THEN created + Cardinality(Upto(i)) ELSE nodes[i]]
      /\ created' = created + Cardinality(new)
      /\ UNCHANGED <<active, pc, next, best, bestCount, overlap>>
  BY CardinalitySame DEF LC!Update
<1> HIDE DEF new, Upto
<1>4. nodes' \in [LC!Instances -> LC!Nodes \cup {LC!NoNode}] /\ created' \in 0..MaxCreated
  BY <1>1, <1>2, <1>3, LeastConstants DEF LeastInv, LeastTypes
<1>5. \A n : Holders(n)' = Holders(n)
  BY <1>3 DEF Holders
<1> QED BY <1>3, <1>4, <1>5 DEF LeastInv, LeastTypes, ScanInv, Load

(* A scan starts from the first listed node, with the count it has now. *)
LEMMA LeastStartScan ==
  ASSUME LeastInv, NEW r \in Requests, LC!StartScan(r)
  PROVE  LeastInv'
<1>1. PICK first \in LC!Listed :
        /\ \A j \in LC!Listed : first <= j
        /\ next' = [next EXCEPT ![r] = first + 1]
        /\ best' = [best EXCEPT ![r] = nodes[first]]
        /\ bestCount' = [bestCount EXCEPT ![r] = active[nodes[first]]]
  BY FirstListed DEF LC!StartScan
<1>2. /\ pc[r] = "idle"
      /\ pc' = [pc EXCEPT ![r] = "scanning"]
      /\ overlap' = [overlap EXCEPT ![r] = 0]
      /\ UNCHANGED <<nodes, created, active>>
  BY DEF LC!StartScan
<1>3. nodes[first] \in LC!Nodes /\ first \in 1..N
  BY LeastConstants DEF LC!Listed, LeastInv, LeastTypes
<1>4. active[nodes[first]] \in Load
  BY <1>3 DEF LeastInv, LeastTypes
<1>5. LeastTypes'
  <2>1. next' \in [Requests -> 1..(N + 1)]
    BY <1>1, <1>3, LeastConstants DEF LeastInv, LeastTypes
  <2>2. /\ best' \in [Requests -> LC!Nodes \cup {LC!NoNode}]
        /\ bestCount' \in [Requests -> Load]
        /\ overlap' \in [Requests -> Load]
    BY <1>1, <1>2, <1>3, <1>4, LeastConstants DEF LeastInv, LeastTypes
  <2>3. pc' \in [Requests -> {"idle", "scanning", "calling"}]
    BY <1>2 DEF LeastInv, LeastTypes
  <2>4. \A q \in Requests : pc'[q] # "idle" => best'[q] \in LC!Nodes
    BY <1>1, <1>2, <1>3 DEF LeastInv, LeastTypes
  <2> QED BY <1>2, <2>1, <2>2, <2>3, <2>4 DEF LeastInv, LeastTypes
<1>6. \A n : Holders(n)' = Holders(n)
  BY <1>1, <1>2 DEF Holders, LeastInv, LeastTypes
<1>7. ASSUME NEW q \in Requests PROVE ScanInv(q)'
  <2>1. LC!Listed' = LC!Listed
    BY <1>2 DEF LC!Listed
  <2>2. CASE q = r
    <3>1. /\ next'[q] = first + 1 /\ best'[q] = nodes[first] /\ overlap'[q] = 0
          /\ bestCount'[q] = active[nodes[first]]
      BY <1>1, <1>2, <2>2 DEF LeastInv, LeastTypes
    <3>2. \A i \in LC!Listed : i < first + 1 => i = first
      BY <1>1, LeastConstants
    <3>3. active[nodes[first]] <= active[nodes[first]] + 0
      BY <1>4, StaleFinite DEF Load
    <3> QED BY <1>2, <2>1, <3>1, <3>2, <3>3 DEF ScanInv
  <2>3. CASE q # r
    <3>1. /\ pc'[q] = pc[q] /\ next'[q] = next[q] /\ best'[q] = best[q]
          /\ overlap'[q] = overlap[q] /\ bestCount'[q] = bestCount[q]
      BY <1>1, <1>2, <2>3 DEF LeastInv, LeastTypes
    <3>2. ScanInv(q)
      BY <1>7 DEF LeastInv
    <3> QED BY <1>2, <2>1, <3>1, <3>2 DEF ScanInv
  <2> QED BY <2>2, <2>3
<1> QED BY <1>2, <1>5, <1>6, <1>7 DEF LeastInv

(* A scan loads one more counter. *)
LEMMA LeastLoad ==
  ASSUME LeastInv, NEW r \in Requests, LC!Load(r)
  PROVE  LeastInv'
<1> DEFINE k == next[r]
           node == nodes[k]
           less == node # LC!NoNode /\ active[node] < bestCount[r]
<1>1. /\ pc[r] = "scanning" /\ k \in LC!Instances
      /\ next' = [next EXCEPT ![r] = k + 1]
      /\ best' = IF less THEN [best EXCEPT ![r] = node] ELSE best
      /\ bestCount' = IF less THEN [bestCount EXCEPT ![r] = active[node]] ELSE bestCount
      /\ UNCHANGED <<nodes, created, active, pc, overlap>>
  BY DEF LC!Load
<1>2. /\ k \in 1..N /\ node \in LC!Nodes \cup {LC!NoNode}
      /\ node # LC!NoNode => node \in LC!Nodes /\ active[node] \in Load
  BY <1>1, LeastConstants DEF LeastInv, LeastTypes
<1>3. /\ next'[r] = k + 1
      /\ best'[r] = IF less THEN node ELSE best[r]
      /\ bestCount'[r] = IF less THEN active[node] ELSE bestCount[r]
      /\ \A q \in Requests \ {r} : /\ next'[q] = next[q] /\ best'[q] = best[q]
                                   /\ bestCount'[q] = bestCount[q]
  BY <1>1 DEF LeastInv, LeastTypes
<1>4. LeastTypes'
  <2>1. next' \in [Requests -> 1..(N + 1)]
    BY <1>1, <1>2, LeastConstants DEF LeastInv, LeastTypes
  <2>2. /\ best' \in [Requests -> LC!Nodes \cup {LC!NoNode}]
        /\ bestCount' \in [Requests -> Load]
    BY <1>1, <1>2 DEF LeastInv, LeastTypes
  <2>3. \A q \in Requests : pc[q] # "idle" => best'[q] \in LC!Nodes
    BY <1>1, <1>2 DEF LeastInv, LeastTypes
  <2> QED BY <1>1, <2>1, <2>2, <2>3 DEF LeastInv, LeastTypes
<1>5. \A n : Holders(n)' = Holders(n)
  BY <1>1, <1>3 DEF Holders
<1>6. LC!Listed' = LC!Listed /\ (node # LC!NoNode <=> k \in LC!Listed)
  BY <1>1 DEF LC!Listed
<1>7. ScanInv(r)'
  <2> DEFINE c == bestCount[r]
             a == active[best[r]]
             o == overlap[r]
  <2>1. c \in Nat /\ a \in Nat /\ o \in Nat
    BY <1>1, StaleFinite DEF LeastInv, LeastTypes, Load
  <2>2. /\ a <= c + o
        /\ \A i \in LC!Listed : i < k =>
             c <= active[nodes[i]] + o /\ a <= active[nodes[i]] + o
    BY <1>1 DEF LeastInv, ScanInv
  <2>3. \A i \in LC!Listed : active[nodes[i]] \in Nat /\ i \in Nat
    BY StaleFinite, LeastConstants DEF LeastInv, LeastTypes, LC!Listed, Load
  <2>4. overlap'[r] = o /\ active' = active /\ nodes' = nodes
    BY <1>1
  <2> HIDE DEF a, c, o
  <2>5. CASE less
    <3>1. node = nodes[k] /\ k \in LC!Listed /\ active[node] < c
      BY <1>6, <2>5 DEF c
    <3>2. best'[r] = node /\ bestCount'[r] = active[node] /\ next'[r] = k + 1
      BY <1>3, <2>5
    <3> HIDE DEF node, k, less
    <3>3. active[node] \in Nat
      BY <2>3, <3>1
    <3>4. \A i \in LC!Listed : i < k + 1 => active[node] <= active[nodes[i]] + o
      <4> SUFFICES ASSUME NEW i \in LC!Listed, i < k + 1
                   PROVE  active[node] <= active[nodes[i]] + o
        OBVIOUS
      <4>1. CASE i < k
        BY <2>1, <2>2, <2>3, <3>1, <3>3, <4>1
      <4>2. CASE i = k
        BY <2>1, <3>1, <3>3, <4>2
      <4> QED BY <1>2, <2>3, <4>1, <4>2
    <3> QED BY <1>6, <2>1, <2>4, <3>2, <3>3, <3>4 DEF ScanInv
  <2>6. CASE ~less
    <3>1. best'[r] = best[r] /\ bestCount'[r] = c /\ next'[r] = k + 1
      BY <1>3, <2>6 DEF c
    <3>2. k \in LC!Listed => c <= active[nodes[k]]
      BY <1>6, <2>1, <2>3, <2>6 DEF c
    <3> HIDE DEF node, k, less
    <3>3. \A i \in LC!Listed : i < k + 1 =>
            c <= active[nodes[i]] + o /\ a <= active[nodes[i]] + o
      <4> SUFFICES ASSUME NEW i \in LC!Listed, i < k + 1
                   PROVE  c <= active[nodes[i]] + o /\ a <= active[nodes[i]] + o
        OBVIOUS
      <4>1. i < k \/ i = k
        BY <1>2, <2>3
      <4> QED BY <2>1, <2>2, <2>3, <3>2, <4>1
    <3> QED BY <1>6, <2>2, <2>4, <3>1, <3>3 DEF ScanInv, a
  <2> QED BY <2>5, <2>6
<1>8. ASSUME NEW q \in Requests, q # r PROVE ScanInv(q)'
  <2>1. /\ next'[q] = next[q] /\ best'[q] = best[q] /\ bestCount'[q] = bestCount[q]
        /\ UNCHANGED <<nodes, active, pc, overlap>>
    BY <1>1, <1>3, <1>8
  <2>2. ScanInv(q)
    BY <1>8 DEF LeastInv
  <2> QED BY <1>6, <2>1, <2>2 DEF ScanInv
<1> QED BY <1>1, <1>4, <1>5, <1>7, <1>8 DEF LeastInv

(* A counter changes by one: the other scans note it. *)
LEMMA LeastDisturb ==
  ASSUME LeastInv, NEW r \in Requests, NEW n \in LC!Nodes,
         NEW d \in {-1, 1},
         active' = [active EXCEPT ![n] = @ + d], active' \in [LC!Nodes -> Load],
         LC!Disturb(r), nodes' = nodes,
         \A q \in Requests \ {r} : /\ pc'[q] = pc[q] /\ next'[q] = next[q]
                                   /\ best'[q] = best[q] /\ bestCount'[q] = bestCount[q],
         pc'[r] # "scanning"
  PROVE  /\ overlap' \in [Requests -> Load]
         /\ \A q \in Requests : ScanInv(q)'
<1> DEFINE full == Cardinality(Requests)
<1>1. full \in Nat
  BY StaleFinite
<1>2. \A q \in Requests :
        overlap'[q] = IF q = r THEN 0
                      ELSE IF pc[q] = "scanning" /\ overlap[q] < full
                           THEN overlap[q] + 1 ELSE overlap[q]
  BY CardinalitySame DEF LC!Disturb
<1>3. overlap' \in [Requests -> Load]
  <2>1. \A q \in Requests : overlap'[q] \in Load
    BY <1>1, <1>2 DEF LeastInv, LeastTypes, Load
  <2>2. overlap' = [q \in Requests |-> overlap'[q]]
    BY DEF LC!Disturb
  <2> QED BY <2>1, <2>2
<1>4. ASSUME NEW q \in Requests PROVE ScanInv(q)'
  <2> SUFFICES ASSUME pc'[q] = "scanning" PROVE ScanInv(q)'
    BY DEF ScanInv
  <2>1. /\ q # r /\ pc[q] = "scanning" /\ next'[q] = next[q]
        /\ best'[q] = best[q] /\ bestCount'[q] = bestCount[q]
    BY <1>4
  <2> DEFINE c == bestCount[q]
             o == overlap[q]
             m == best[q]
  <2>2. /\ c \in 0..full /\ o \in 0..full /\ m \in LC!Nodes
        /\ overlap'[q] = IF o < full THEN o + 1 ELSE full
    BY <1>1, <1>2, <1>4, <2>1 DEF LeastInv, LeastTypes, Load
  <2>3. /\ active[m] <= c + o
        /\ \A i \in LC!Listed : i < next[q] =>
             c <= active[nodes[i]] + o /\ active[m] <= active[nodes[i]] + o
    BY <1>4, <2>1 DEF LeastInv, ScanInv
  <2>4. \A x \in LC!Nodes : /\ active[x] \in 0..full /\ active'[x] \in 0..full
                            /\ active'[x] = IF x = n THEN active[x] + d ELSE active[x]
    BY DEF LeastInv, LeastTypes, Load
  <2>5. LC!Listed' = LC!Listed /\ \A i \in LC!Listed : nodes[i] \in LC!Nodes
    BY DEF LC!Listed, LeastInv, LeastTypes
  <2> DEFINE p == overlap'[q]
  <2> HIDE DEF c, o, m, full, p
  <2>6. active'[m] <= c + p
    BY <1>1, <2>2, <2>3, <2>4 DEF p
  <2>7. ASSUME NEW i \in LC!Listed, i < next[q]
        PROVE  c <= active'[nodes[i]] + p /\ active'[m] <= active'[nodes[i]] + p
    <3> DEFINE x == nodes[i]
    <3>1. x \in LC!Nodes /\ c <= active[x] + o /\ active[m] <= active[x] + o
      BY <2>3, <2>5, <2>7
    <3> HIDE DEF x
    <3>2. c <= active'[x] + p
      BY <1>1, <2>2, <2>4, <3>1 DEF p
    <3>3. active'[m] <= active'[x] + p
      BY <1>1, <2>2, <2>4, <3>1 DEF p
    <3> QED BY <3>2, <3>3 DEF x
  <2> QED BY <2>1, <2>5, <2>6, <2>7 DEF ScanInv, c, m, p
<1> QED BY <1>3, <1>4

(* A pick takes the node it found. *)
LEMMA LeastTake ==
  ASSUME LeastInv, NEW r \in Requests, LC!Take(r)
  PROVE  LeastInv'
<1>1. /\ pc[r] = "scanning" /\ best[r] \in LC!Nodes
      /\ active' = [active EXCEPT ![best[r]] = @ + 1]
      /\ pc' = [pc EXCEPT ![r] = "calling"]
      /\ next' = [next EXCEPT ![r] = 1]
      /\ bestCount' = [bestCount EXCEPT ![r] = 0]
      /\ UNCHANGED <<nodes, created, best>>
  BY DEF LC!Take, LeastInv, LeastTypes
<1>2. ASSUME NEW n \in LC!Nodes
      PROVE  active'[n] = Cardinality(Holders(n)') /\ Cardinality(Holders(n)') \in Load
  <2>1. Holders(n)' = IF n = best[r] THEN Holders(n) \cup {r} ELSE Holders(n)
    BY <1>1 DEF Holders, LeastInv, LeastTypes
  <2>2. r \notin Holders(n)
    BY <1>1 DEF Holders
  <2>3. Cardinality(Holders(n)') = IF n = best[r] THEN active[n] + 1 ELSE active[n]
    <3>1. active[n] = Cardinality(Holders(n)) /\ IsFiniteSet(Holders(n))
      BY <1>2, HoldersFinite DEF LeastInv
    <3>2. Cardinality(Holders(n) \cup {r}) = Cardinality(Holders(n)) + 1
      BY <2>2, <3>1, FS_AddElement
    <3> QED BY <2>1, <3>1, <3>2
  <2>4. Holders(n)' \subseteq Requests
    BY DEF Holders
  <2>5. Cardinality(Holders(n)') \in Load
    BY <2>4, StaleFinite, FS_Subset, FS_CardinalityType DEF Load
  <2>6. active'[n] = IF n = best[r] THEN active[n] + 1 ELSE active[n]
    BY <1>1, <1>2 DEF LeastInv, LeastTypes
  <2> QED BY <2>3, <2>5, <2>6
<1>3. active' \in [LC!Nodes -> Load]
  <2>1. DOMAIN active' = LC!Nodes /\ active' = [n \in LC!Nodes |-> active'[n]]
    BY <1>1 DEF LeastInv, LeastTypes
  <2> QED BY <1>2, <2>1
<1>4. /\ overlap' \in [Requests -> Load]
      /\ \A q \in Requests : ScanInv(q)'
  <2>1. LC!Disturb(r)
    BY DEF LC!Take
  <2>2. /\ pc'[r] # "scanning"
        /\ \A q \in Requests \ {r} : /\ pc'[q] = pc[q] /\ next'[q] = next[q]
                                     /\ best'[q] = best[q] /\ bestCount'[q] = bestCount[q]
    BY <1>1 DEF LeastInv, LeastTypes
  <2> QED BY <1>1, <1>3, <2>1, <2>2, LeastDisturb
<1>5. LeastTypes'
  <2>1. /\ pc' \in [Requests -> {"idle", "scanning", "calling"}]
        /\ next' \in [Requests -> 1..(N + 1)]
        /\ bestCount' \in [Requests -> Load]
    BY <1>1, LeastConstants DEF LeastInv, LeastTypes
  <2>2. \A q \in Requests : pc'[q] # "idle" => best'[q] \in LC!Nodes
    BY <1>1 DEF LeastInv, LeastTypes
  <2> QED BY <1>1, <1>3, <1>4, <2>1, <2>2 DEF LeastInv, LeastTypes
<1> QED BY <1>2, <1>4, <1>5 DEF LeastInv

(* A request gives its node back. *)
LEMMA LeastDone ==
  ASSUME LeastInv, NEW r \in Requests, LC!Done(r)
  PROVE  LeastInv'
<1>1. /\ pc[r] = "calling" /\ best[r] \in LC!Nodes
      /\ active' = [active EXCEPT ![best[r]] = @ - 1]
      /\ pc' = [pc EXCEPT ![r] = "idle"]
      /\ best' = [best EXCEPT ![r] = LC!NoNode]
      /\ UNCHANGED <<nodes, created, next, bestCount>>
  BY DEF LC!Done, LeastInv, LeastTypes
<1>2. ASSUME NEW n \in LC!Nodes
      PROVE  /\ active'[n] = Cardinality(Holders(n)') /\ Cardinality(Holders(n)') \in Load
             /\ active'[n] = IF n = best[r] THEN active[n] - 1 ELSE active[n]
  <2>1. Holders(n)' = IF n = best[r] THEN Holders(n) \ {r} ELSE Holders(n)
    BY <1>1, <1>2, LeastConstants DEF Holders, LeastInv, LeastTypes
  <2>2. n = best[r] => r \in Holders(n)
    BY <1>1 DEF Holders
  <2>3. Cardinality(Holders(n)') = IF n = best[r] THEN active[n] - 1 ELSE active[n]
    BY <1>2, <2>1, <2>2, HoldersFinite, FS_RemoveElement DEF LeastInv
  <2>4. Holders(n)' \subseteq Requests
    BY DEF Holders
  <2>5. Cardinality(Holders(n)') \in Load
    BY <2>4, StaleFinite, FS_Subset, FS_CardinalityType DEF Load
  <2>6. active'[n] = IF n = best[r] THEN active[n] - 1 ELSE active[n]
    BY <1>1, <1>2 DEF LeastInv, LeastTypes
  <2> QED BY <2>3, <2>5, <2>6
<1>3. active' \in [LC!Nodes -> Load]
  <2>1. DOMAIN active' = LC!Nodes /\ active' = [n \in LC!Nodes |-> active'[n]]
    BY <1>1 DEF LeastInv, LeastTypes
  <2> QED BY <1>2, <2>1
<1>4. /\ overlap' \in [Requests -> Load]
      /\ \A q \in Requests : ScanInv(q)'
  <2>1. LC!Disturb(r)
    BY DEF LC!Done
  <2>2. /\ pc'[r] # "scanning"
        /\ \A q \in Requests \ {r} : /\ pc'[q] = pc[q] /\ next'[q] = next[q]
                                     /\ best'[q] = best[q] /\ bestCount'[q] = bestCount[q]
    BY <1>1 DEF LeastInv, LeastTypes
  <2>3. active' = [active EXCEPT ![best[r]] = @ + (-1)]
    <3>1. active[best[r]] - 1 = active[best[r]] + (-1)
      BY <1>1, StaleFinite DEF LeastInv, LeastTypes, Load
    <3> QED BY <1>1, <3>1
  <2> QED BY <1>1, <1>3, <2>1, <2>2, <2>3, LeastDisturb
<1>5. LeastTypes'
  BY <1>1, <1>3, <1>4, LeastConstants DEF LeastInv, LeastTypes, Load
<1> QED BY <1>2, <1>4, <1>5 DEF LeastInv

(* Every step preserves the invariant. *)
LEMMA LeastNext == LeastInv /\ [LC!Next]_(LC!vars) => LeastInv'
<1> SUFFICES ASSUME LeastInv, [LC!Next]_(LC!vars) PROVE LeastInv'
  OBVIOUS
<1>1. CASE UNCHANGED LC!vars
  BY <1>1 DEF LC!vars, LeastInv, LeastTypes, ScanInv, Holders, LC!Listed, Load
<1> QED
  BY <1>1, LeastUpdate, LeastStartScan, LeastLoad, LeastTake, LeastDone DEF LC!Next

(* The counters of least connections count the requests that hold a node,  *)
(* for every number of requests, instances and node objects.               *)
THEOREM ActiveCorrect == LC!Spec => [](LC!TypeOK /\ ActiveAccurate)
<1>1. LeastInv => LC!TypeOK /\ ActiveAccurate
  <2> SUFFICES ASSUME LeastInv PROVE LC!TypeOK /\ ActiveAccurate
    OBVIOUS
  <2>1. LC!TypeOK
    BY CardinalitySame DEF LeastInv, LeastTypes, LC!TypeOK, Load
  <2>2. ActiveAccurate
    BY CardinalitySame DEF LeastInv, ActiveAccurate, LC!ActiveAccurate, Holders
  <2> QED BY <2>1, <2>2
<1> QED BY <1>1, LeastInit, LeastNext, PTL DEF LC!Spec

(* A pick goes to a least loaded node, up to the changes that others made  *)
(* during its scan.                                                        *)
THEOREM PicksNearlyLeast == LC!Spec => NearlyLeast
<1>1. LeastInv /\ [LC!Next]_(LC!vars)
        => [\A r \in Requests : LC!Take(r) =>
              \A i \in LC!Listed : active[best[r]] <= active[nodes[i]] + overlap[r]]_(LC!vars)
  <2> SUFFICES ASSUME LeastInv, NEW r \in Requests, LC!Take(r), NEW i \in LC!Listed
               PROVE  active[best[r]] <= active[nodes[i]] + overlap[r]
    OBVIOUS
  <2>1. pc[r] = "scanning" /\ next[r] = N + 1
    BY DEF LC!Take
  <2>2. i < next[r]
    BY <2>1, LeastConstants
  <2> QED BY <2>1, <2>2 DEF LeastInv, ScanInv
<1> QED BY <1>1, LeastInit, LeastNext, PTL DEF LC!Spec, NearlyLeast, LC!NearlyLeast

-----------------------------------------------------------------------------
(* Weighted round robin. *)

(* Lag computes such functions. *)
LEMMA LagValue ==
  ASSUME NEW n \in Nat \ {0}
  PROVE  \E den, num : /\ LagSteps(n, den, num)
                       /\ WRR!Lag(n) = [num |-> num[1], den |-> den[1]]
<1> DEFINE den == CHOOSE q : q = [k \in 1..n |-> IF k = n THEN 1 ELSE (k + 1) * q[k + 1]]
           num == CHOOSE q : q = [k \in 1..n |-> IF k = n THEN 0 ELSE (k + 1) * q[k + 1] + den[k + 1]]
           zero == [k \in 1..n |-> 0]
           above == [k \in 1..n |-> den[k + 1]]
<1>1. den = [k \in 1..n |-> IF k = n THEN 1 ELSE (k + 1) * den[k + 1]]
  <2>1. PICK q : Descends(q, n, 1, zero)
    BY DescendsExists
  <2>2. \A k \in 1..n : q[k] \in Nat
    BY <2>1, DescendsType
  <2>3. \A k \in 1..n : k # n => k + 1 \in 1..n
    OBVIOUS
  <2>4. q = [k \in 1..n |-> IF k = n THEN 1 ELSE (k + 1) * q[k + 1]]
    <3>1. \A k \in 1..n : k # n => (k + 1) * q[k + 1] + zero[k] = (k + 1) * q[k + 1]
      BY <2>2, <2>3
    <3> HIDE DEF zero
    <3> QED BY <2>1, <3>1 DEF Descends
  <2> QED BY <2>4
<1>2. num = [k \in 1..n |-> IF k = n THEN 0 ELSE (k + 1) * num[k + 1] + den[k + 1]]
  <2> HIDE DEF den
  <2>1. PICK q : Descends(q, n, 0, above)
    BY DescendsExists
  <2>2. q = [k \in 1..n |-> IF k = n THEN 0 ELSE (k + 1) * q[k + 1] + den[k + 1]]
    BY <2>1 DEF Descends
  <2> QED BY <2>2
<1>3. WRR!Lag(n) = [num |-> num[1], den |-> den[1]]
  BY DEF WRR!Lag
<1> HIDE DEF den, num
<1>4. n \in 1..n /\ \A k \in 1..n : k # n => k + 1 \in 1..n
  OBVIOUS
<1>5. \A k \in 1..n : den[k] = IF k = n THEN 1 ELSE (k + 1) * den[k + 1]
  BY <1>1
<1>6. \A k \in 1..n : num[k] = IF k = n THEN 0 ELSE (k + 1) * num[k + 1] + den[k + 1]
  BY <1>2
<1>7. ASSUME NEW k \in 1..n PROVE den[k] \in Nat
  <2> DEFINE T == {m \in Nat : n - m \in 1..n => den[n - m] \in Nat}
  <2>1. 0 \in T
    BY <1>4, <1>5
  <2>2. ASSUME NEW m \in Nat, m \in T PROVE m + 1 \in T
    <3> SUFFICES ASSUME n - (m + 1) \in 1..n PROVE den[n - (m + 1)] \in Nat
      OBVIOUS
    <3> DEFINE j == n - (m + 1)
    <3>1. j \in 1..n /\ j # n /\ j + 1 = n - m /\ n - m \in 1..n
      OBVIOUS
    <3>2. den[j + 1] \in Nat
      BY <2>2, <3>1
    <3>3. den[j] = (j + 1) * den[j + 1] /\ j + 1 \in Nat
      BY <1>5, <3>1
    <3> HIDE DEF j
    <3>4. den[j] \in Nat
      BY <3>2, <3>3, NatProduct
    <3> QED BY <3>4 DEF j
  <2>3. Nat \subseteq T
    <3> HIDE DEF T
    <3> QED BY <2>1, <2>2, NatSetInduction
  <2>4. n - k \in Nat /\ n - (n - k) = k
    BY <1>7
  <2>5. n - k \in T
    BY <2>3, <2>4
  <2> QED BY <1>7, <2>4, <2>5
<1>8. \A k \in 1..n : num[k] \in Nat
  <2>1. Descends(num, n, 0, above)
    <3>1. \A k \in 1..n : above[k] = den[k + 1]
      OBVIOUS
    <3> HIDE DEF above
    <3> QED BY <1>2, <3>1 DEF Descends
  <2>2. \A k \in 1..n : k # n => above[k] \in Nat
    BY <1>4, <1>7
  <2> HIDE DEF above
  <2> QED BY <2>1, <2>2, DescendsType
<1>9. LagSteps(n, den, num)
  <2>1. den \in [1..n -> Nat]
    BY <1>1, <1>7
  <2>2. num \in [1..n -> Nat]
    BY <1>2, <1>8
  <2> QED BY <1>4, <1>5, <1>6, <2>1, <2>2 DEF LagSteps
<1> QED BY <1>3, <1>9

(* The inductive invariant: a level is the share of a node less what it    *)
(* was given, levels add up to zero, and no set of nodes is far behind.    *)

WeightedInv ==
  /\ \E n \in 0..MaxNodes : weight \in [1..n -> 1..MaxWeight]
  /\ level \in [WRR!Nodes -> Int]
  /\ picks \in [WRR!Nodes -> Nat]
  /\ LevelsOK(WRR!Nodes, Sum(weight, WRR!Nodes), level)
  /\ CountsOK(WRR!Nodes, Sum(weight, WRR!Nodes), weight, level, picks)

(* Total and Picked are sums. *)
LEMMA TotalIsSum == WRR!Total = Sum(weight, WRR!Nodes)
BY DEF WRR!Total, WRR!MapThenSumSet, WRR!MapThenFoldSet, Sum, Some

(* The same for the picks. *)
LEMMA PickedIsSum == WRR!Picked = Sum(picks, WRR!Nodes)
BY DEF WRR!Picked, WRR!MapThenSumSet, WRR!MapThenFoldSet, Sum, Some

(* What the type of the weights gives, and their sums. *)
LEMMA WeightsFacts ==
  ASSUME WeightedInv
  PROVE  /\ IsFiniteSet(WRR!Nodes)
         /\ WRR!Nodes \in SUBSET Int
         /\ \A i \in WRR!Nodes : weight[i] \in Nat \ {0} /\ level[i] \in Int /\ picks[i] \in Nat
         /\ Sum(weight, WRR!Nodes) \in Nat
         /\ WRR!Nodes # {} => WeightsOK(WRR!Nodes, Sum(weight, WRR!Nodes), weight)
<1>1. PICK n \in 0..MaxNodes : weight \in [1..n -> 1..MaxWeight]
  BY DEF WeightedInv
<1>2. WRR!Nodes = 1..n
  BY <1>1 DEF WRR!Nodes
<1>3. IsFiniteSet(WRR!Nodes) /\ WRR!Nodes \in SUBSET Int
  BY <1>1, <1>2, FS_Interval, LoadBalanceConstants
<1>4. \A i \in WRR!Nodes : weight[i] \in Nat \ {0}
  BY <1>1, <1>2, LoadBalanceConstants
<1>5. \A i \in WRR!Nodes : level[i] \in Int /\ picks[i] \in Nat
  BY DEF WeightedInv
<1>6. /\ Sum(weight, WRR!Nodes) \in Nat
      /\ WRR!Nodes # {} => WeightsOK(WRR!Nodes, Sum(weight, WRR!Nodes), weight)
  BY <1>3, <1>4, PositiveWeights, Zenon
<1> QED BY <1>3, <1>4, <1>5, <1>6

(* In every cycle of picks each node gets its weight. *)
LEMMA WeightedCycle ==
  ASSUME WeightedInv, WRR!Picked = WRR!Total
  PROVE  \A i \in WRR!Nodes : picks[i] = weight[i]
<1> SUFFICES ASSUME WRR!Nodes # {}
             PROVE  \A i \in WRR!Nodes : picks[i] = weight[i]
  OBVIOUS
<1>1. Sum(picks, WRR!Nodes) = Sum(weight, WRR!Nodes)
  BY TotalIsSum, PickedIsSum
<1>2. CountsOK(WRR!Nodes, Sum(weight, WRR!Nodes), weight, level, picks)
  BY DEF WeightedInv
<1>3. \A i \in WRR!Nodes : level[i] > -Sum(weight, WRR!Nodes)
  BY DEF WeightedInv, LevelsOK
<1>4. Sum(weight, WRR!Nodes) \in Nat /\ Sum(weight, WRR!Nodes) >= 1
  BY WeightsFacts DEF WeightsOK
<1>5. \A i \in WRR!Nodes :
        weight[i] \in Nat /\ picks[i] \in Nat /\ level[i] > -Sum(weight, WRR!Nodes)
  BY <1>3, WeightsFacts
<1> QED BY <1>1, <1>2, <1>4, <1>5, WeightsFacts, CycleEnds

(* Pick takes a node with a greatest level. *)
LEMMA BestIsGreatest ==
  ASSUME WeightedInv, WRR!Nodes # {}
  PROVE  /\ WRR!Best(WRR!Raised) \in WRR!Nodes
         /\ \A j \in WRR!Nodes : WRR!Raised[j] <= WRR!Raised[WRR!Best(WRR!Raised)]
         /\ \A i \in WRR!Nodes : WRR!Raised[i] = level[i] + weight[i]
<1>1. \A i \in WRR!Nodes : WRR!Raised[i] = level[i] + weight[i]
  BY DEF WRR!Raised
<1>2. \A i \in WRR!Nodes : WRR!Raised[i] \in Int
  BY <1>1, WeightsFacts
<1>3. \E i \in WRR!Nodes : \A j \in WRR!Nodes :
        \/ WRR!Raised[j] < WRR!Raised[i]
        \/ WRR!Raised[j] = WRR!Raised[i] /\ i <= j
  BY <1>2, WeightsFacts, GreatestExists
<1>4. /\ WRR!Best(WRR!Raised) \in WRR!Nodes
      /\ \A j \in WRR!Nodes :
           \/ WRR!Raised[j] < WRR!Raised[WRR!Best(WRR!Raised)]
           \/ WRR!Raised[j] = WRR!Raised[WRR!Best(WRR!Raised)] /\ WRR!Best(WRR!Raised) <= j
  BY <1>3 DEF WRR!Best
<1> QED BY <1>1, <1>2, <1>4

(* A list of endpoints, none of them picked yet. *)
LEMMA AfreshOK ==
  ASSUME NEW n \in 0..MaxNodes, NEW w \in [1..n -> 1..MaxWeight], NEW z, z = [i \in 1..n |-> 0]
  PROVE  /\ z \in [1..n -> Int]
         /\ z \in [1..n -> Nat]
         /\ LevelsOK(1..n, Sum(w, 1..n), z)
         /\ CountsOK(1..n, Sum(w, 1..n), w, z, z)
<1>1. PICK S : S = 1..n /\ IsFiniteSet(S)
  BY FS_Interval, LoadBalanceConstants
<1>2. \A i \in S : w[i] \in Nat \ {0}
  BY <1>1, LoadBalanceConstants
<1>3. PICK total : total = Sum(w, S)
  OBVIOUS
<1>4. total \in Nat /\ (S # {} => total >= 1)
  BY <1>1, <1>2, <1>3, PositiveWeights DEF WeightsOK
<1>5. \A i \in S : z[i] = 0
  BY <1>1
<1>6. LevelsOK(S, total, z)
  BY <1>1, <1>4, <1>5, ZeroLevels, Zenon
<1>7. Sum(z, S) = 0
  BY <1>1, <1>5, SumZero
<1>8. CountsOK(S, total, w, z, z)
  <2>1. \A i \in S : 0 * w[i] - 0 * total = 0
    BY <1>2, <1>4
  <2>2. Sum(z, S) <= total
    BY <1>4, <1>7
  <2>3. \A i \in S : z[i] = Sum(z, S) * w[i] - z[i] * total
    BY <1>5, <1>7, <2>1
  <2> QED BY <2>2, <2>3 DEF CountsOK
<1>9. z \in [1..n -> Int] /\ z \in [1..n -> Nat]
  OBVIOUS
<1> QED BY <1>1, <1>3, <1>6, <1>8, <1>9

(* The invariant holds of the empty list. *)
LEMMA WeightedInit ==
  ASSUME WRR!Init
  PROVE  WeightedInv
<1>1. /\ weight \in [1..0 -> 1..MaxWeight]
      /\ level = [i \in 1..0 |-> 0]
      /\ picks = [i \in 1..0 |-> 0]
      /\ WRR!Nodes = 1..0
  BY DEF WRR!Init, WRR!Nodes
<1>2. 0 \in 0..MaxNodes
  BY LoadBalanceConstants
<1> QED BY <1>1, <1>2, AfreshOK DEF WeightedInv

(* An update begins a cycle of its own. *)
LEMMA WeightedUpdate ==
  ASSUME NEW list \in WRR!Lists, WRR!Update(list)
  PROVE  WeightedInv'
<1>1. PICK n \in 0..MaxNodes : list \in [1..n -> WRR!Metadata]
  BY DEF WRR!Lists
<1>2. \A i \in 1..n : WRR!endpointWeight(list[i]) \in 1..MaxWeight
  BY <1>1, LoadBalanceConstants DEF WRR!Metadata, WRR!endpointWeight
<1>3. /\ weight' \in [1..n -> 1..MaxWeight]
      /\ level' = [i \in 1..n |-> 0]
      /\ picks' = level'
      /\ WRR!Nodes' = 1..n
  BY <1>1, <1>2 DEF WRR!Update, WRR!Zero, WRR!Nodes
<1>4. PICK z : z = level'
  OBVIOUS
<1>5. PICK w \in [1..n -> 1..MaxWeight] : w = weight'
  BY <1>3
<1>6. /\ z \in [1..n -> Int]
      /\ z \in [1..n -> Nat]
      /\ LevelsOK(1..n, Sum(w, 1..n), z)
      /\ CountsOK(1..n, Sum(w, 1..n), w, z, z)
  BY <1>3, <1>4, AfreshOK
<1> QED BY <1>1, <1>3, <1>4, <1>5, <1>6 DEF WeightedInv

(* A pick goes on with the cycle, or ends it. *)
LEMMA WeightedPick ==
  ASSUME WeightedInv, WRR!Pick
  PROVE  WeightedInv'
<1>1. PICK S, w, lv, pk, new, pk2 :
        /\ S = WRR!Nodes /\ w = weight /\ lv = level /\ pk = picks
        /\ new = level' /\ pk2 = picks'
  OBVIOUS
<1>2. PICK total : total = Sum(w, S)
  OBVIOUS
<1>3. PICK up : up = WRR!Raised
  OBVIOUS
<1>4. PICK b : b = WRR!Best(WRR!Raised)
  OBVIOUS
<1>5. WRR!Nodes # {} /\ weight' = weight /\ WRR!Nodes' = WRR!Nodes
  BY DEF WRR!Pick, WRR!Nodes
<1>6. /\ IsFiniteSet(S)
      /\ \A i \in S : w[i] \in Nat \ {0} /\ lv[i] \in Int /\ pk[i] \in Nat
      /\ WeightsOK(S, total, w)
  BY <1>1, <1>2, <1>5, WeightsFacts
<1>7. /\ b \in S
      /\ \A j \in S : up[j] <= up[b]
      /\ \A i \in S : up[i] = lv[i] + w[i]
  BY <1>1, <1>3, <1>4, <1>5, BestIsGreatest
<1>8. LevelsOK(S, total, lv) /\ CountsOK(S, total, w, lv, pk)
  BY <1>1, <1>2 DEF WeightedInv
<1>9. new = [up EXCEPT ![b] = @ - total]
  BY <1>1, <1>2, <1>3, <1>4, TotalIsSum DEF WRR!Pick
<1>10. up = [i \in S |-> lv[i] + w[i]]
  BY <1>1, <1>3 DEF WRR!Raised
<1>11. total \in Nat /\ total >= 1 /\ Sum(w, S) = total
  BY <1>6 DEF WeightsOK
<1>12. new \in [S -> Int] /\ new[b] = up[b] - total /\ \A i \in S \ {b} : new[i] = up[i]
  BY <1>6, <1>7, <1>9, <1>10, <1>11
<1>13. \A i \in S : w[i] \in Nat /\ lv[i] \in Int /\ pk[i] \in Nat /\ up[i] = lv[i] + w[i]
  BY <1>6, <1>7
<1>14. LevelsOK(S, total, new)
  <2>1. \A i \in S : w[i] \in Nat /\ lv[i] \in Int /\ up[i] = lv[i] + w[i]
    BY <1>13
  <2>2. IsFiniteSet(S) /\ WeightsOK(S, total, w) /\ LevelsOK(S, total, lv)
    BY <1>6, <1>8
  <2>3. b \in S /\ \A j \in S : up[j] <= up[b]
    BY <1>7
  <2>4. new[b] = up[b] - total /\ \A i \in S \ {b} : new[i] = up[i]
    BY <1>12
  <2> QED BY <2>1, <2>2, <2>3, <2>4, PickLevels, ZenonT(60)
<1>15. pk2 = IF WRR!Picked = WRR!Total THEN [[i \in S |-> 0] EXCEPT ![b] = 1]
             ELSE [pk EXCEPT ![b] = @ + 1]
  BY <1>1, <1>4 DEF WRR!Pick, WRR!Zero, WRR!Nodes
<1>16. pk \in [S -> Nat]
  BY <1>1 DEF WeightedInv
<1>17. CASE WRR!Picked = WRR!Total
  <2>1. pk2 \in [S -> Nat] /\ pk2[b] = 1 /\ \A i \in S \ {b} : pk2[i] = 0
    BY <1>7, <1>15, <1>17
  <2>2. \A i \in S : lv[i] = 0
    <3> SUFFICES ASSUME NEW i \in S PROVE lv[i] = 0
      OBVIOUS
    <3>1. pk[i] = w[i] /\ Sum(pk, S) = total
      BY <1>1, <1>2, <1>17, WeightedCycle, TotalIsSum, PickedIsSum
    <3>2. lv[i] = total * w[i] - w[i] * total
      BY <1>8, <3>1 DEF CountsOK
    <3>3. w[i] \in Int /\ total \in Int
      BY <1>11, <1>13
    <3> QED BY <3>2, <3>3
  <2>3. new[b] = w[b] - total /\ \A i \in S \ {b} : new[i] = w[i]
    BY <1>7, <1>11, <1>12, <1>13, <2>2
  <2>4. \A i \in S : w[i] \in Nat
    BY <1>13
  <2>5. CountsOK(S, total, w, new, pk2)
    BY <1>6, <1>7, <1>11, <2>1, <2>3, <2>4, FirstCounts
  <2> QED BY <1>1, <1>2, <1>5, <1>12, <1>14, <2>1, <2>5 DEF WeightedInv
<1>18. CASE WRR!Picked # WRR!Total
  <2>1. pk2 \in [S -> Nat] /\ pk2[b] = pk[b] + 1 /\ \A i \in S \ {b} : pk2[i] = pk[i]
    BY <1>7, <1>15, <1>16, <1>18
  <2>2. Sum(pk, S) # total
    BY <1>1, <1>2, <1>18, TotalIsSum, PickedIsSum
  <2>3. new[b] = lv[b] + w[b] - total /\ \A i \in S \ {b} : new[i] = lv[i] + w[i]
    <3>1. up[b] = lv[b] + w[b] /\ new[b] = up[b] - total
      BY <1>7, <1>12
    <3>2. \A i \in S \ {b} : new[i] = lv[i] + w[i]
      BY <1>12, <1>13
    <3>3. lv[b] \in Int /\ w[b] \in Int /\ total \in Int
      BY <1>7, <1>11, <1>13
    <3> QED BY <3>1, <3>2, <3>3
  <2>4. \A i \in S : w[i] \in Nat /\ pk[i] \in Nat /\ lv[i] \in Int
    BY <1>13
  <2>5. CountsOK(S, total, w, new, pk2)
    BY <1>6, <1>7, <1>8, <1>11, <2>1, <2>2, <2>3, <2>4, PickCounts
  <2> QED BY <1>1, <1>2, <1>5, <1>12, <1>14, <2>1, <2>5 DEF WeightedInv
<1> QED BY <1>17, <1>18

(* The inductive invariant gives the bounds of the type. *)
LEMMA WeightedTypes == WeightedInv => WRR!TypeOK
<1> SUFFICES ASSUME WeightedInv PROVE WRR!TypeOK
  OBVIOUS
<1>1. PICK n \in 0..MaxNodes : weight \in [1..n -> 1..MaxWeight]
  BY DEF WeightedInv
<1>2. weight \in UNION {[1..k -> 1..MaxWeight] : k \in 0..MaxNodes}
  BY <1>1
<1>3. \A i \in WRR!Nodes : level[i] > -WRR!Total
  BY TotalIsSum DEF WeightedInv, LevelsOK
<1>4. ASSUME NEW i \in WRR!Nodes PROVE picks[i] \in 0..WRR!Total
  <2>1. \A x \in WRR!Nodes : picks[x] \in Nat /\ picks[x] \in Int
    BY WeightsFacts
  <2>2. Sum(picks, WRR!Nodes) = picks[i] + Sum(picks, WRR!Nodes \ {i})
    BY <1>4, <2>1, WeightsFacts, SumRemove
  <2>3. Sum(picks, WRR!Nodes \ {i}) \in Nat /\ picks[i] \in Nat
    BY <1>4, <2>1, WeightsFacts, SumSubset
  <2>4. Sum(picks, WRR!Nodes) <= Sum(weight, WRR!Nodes) /\ Sum(weight, WRR!Nodes) \in Nat
    BY WeightsFacts DEF WeightedInv, CountsOK
  <2> QED BY <2>2, <2>3, <2>4, TotalIsSum
<1> QED BY <1>2, <1>3, <1>4 DEF WeightedInv, WRR!TypeOK

(* The invariant holds throughout. *)
LEMMA WeightedInvariance == WRR!Spec => []WeightedInv
<1>1. ASSUME WeightedInv, UNCHANGED WRR!vars PROVE WeightedInv'
  BY <1>1 DEF WRR!vars, WeightedInv, WRR!Nodes
<1>2. ASSUME WeightedInv, [WRR!Next]_(WRR!vars) PROVE WeightedInv'
  BY <1>1, <1>2, WeightedPick, WeightedUpdate DEF WRR!Next
<1> QED BY <1>2, WeightedInit, PTL DEF WRR!Spec

(* Weighted round robin gives each node exactly its weight in every cycle  *)
(* of as many picks as the weights add up to, for any weights.             *)
THEOREM CyclesExact == WRR!Spec => [](WRR!TypeOK /\ CycleExact)
<1>1. ASSUME WeightedInv PROVE CycleExact
  <2>1. picks \in [WRR!Nodes -> Nat] /\ weight = [i \in WRR!Nodes |-> weight[i]]
    BY <1>1 DEF WeightedInv, WRR!Nodes
  <2>2. WRR!Picked = WRR!Total => \A i \in WRR!Nodes : picks[i] = weight[i]
    BY <1>1, WeightedCycle
  <2> QED BY <2>1, <2>2 DEF CycleExact, WRR!CycleExact
<1> QED BY <1>1, WeightedTypes, WeightedInvariance, PTL

(* Within a cycle a node of n is less than one pick ahead of its share and *)
(* at most 1/2 + ... + 1/n picks behind it, for any weights.               *)
THEOREM PicksSmooth == WRR!Spec => []Smooth
<1>1. ASSUME WeightedInv PROVE Smooth
  <2>1. PICK n \in Nat : n = Cardinality(WRR!Nodes) /\ WRR!Cardinality(WRR!Nodes) = n
    BY <1>1, WeightsFacts, FS_CardinalityType, CardinalitySame
  <2> SUFFICES ASSUME NEW i \in WRR!Nodes
               PROVE  LET error == picks[i] * WRR!Total - WRR!Picked * weight[i]
                          lag == WRR!Lag(n)
                      IN  error < WRR!Total /\ -error * lag.den <= lag.num * WRR!Total
    BY <2>1 DEF Smooth, WRR!Smooth
  <2>2. PICK total, p : total = WRR!Total /\ p = WRR!Picked
    OBVIOUS
  <2>3. /\ total = Sum(weight, WRR!Nodes) /\ total \in Nat
        /\ p = Sum(picks, WRR!Nodes)
        /\ weight[i] \in Nat /\ picks[i] \in Nat /\ level[i] \in Int
    BY <1>1, <2>2, TotalIsSum, PickedIsSum, WeightsFacts
  <2>4. p \in Nat
    BY <1>1, <2>3, WeightsFacts, SumSubset
  <2>5. level[i] = p * weight[i] - picks[i] * total /\ level[i] > -total
    BY <1>1, <2>3 DEF WeightedInv, CountsOK, LevelsOK
  <2>6. /\ -(picks[i] * total - p * weight[i]) = level[i]
        /\ picks[i] * total - p * weight[i] < total
    <3>1. p * weight[i] \in Int /\ picks[i] * total \in Int
      BY <2>3, <2>4
    <3> QED BY <2>3, <2>5, <3>1
  <2>7. n # 0
    BY <1>1, <2>1, WeightsFacts, FS_EmptySet
  <2>8. PICK den, num : LagSteps(n, den, num) /\ WRR!Lag(n) = [num |-> num[1], den |-> den[1]]
    BY <2>7, LagValue
  <2>9. den[1] * level[i] <= num[1] * total
    <3>1. Behind(WRR!Nodes, total, level)
      BY <1>1, <2>3 DEF WeightedInv, LevelsOK
    <3>2. {i} \in SUBSET WRR!Nodes /\ {i} # {} /\ Cardinality({i}) = 1
      BY FS_Singleton
    <3>3. den[1] * Sum(level, {i}) <= (1 * num[1]) * total
      BY <2>1, <2>8, <3>1, <3>2 DEF Behind
    <3>4. Sum(level, {i}) = level[i]
      <4>1. Sum(level, {i}) = level[i] + Sum(level, {i} \ {i})
        BY <1>1, WeightsFacts, SumRemove
      <4>2. {i} \ {i} = {} /\ Sum(level, {}) = 0
        BY SumEmpty
      <4> QED BY <2>3, <4>1, <4>2
    <3>5. num[1] \in Nat
      BY <2>7, <2>8 DEF LagSteps
    <3> QED BY <3>3, <3>4, <3>5
  <2>10. PICK x \in Int : x = picks[i] * total - p * weight[i]
    BY <2>3, <2>4
  <2>11. -(x * den[1]) = den[1] * level[i]
    <3>1. den[1] \in Int
      BY <2>7, <2>8 DEF LagSteps
    <3>2. level[i] = -x
      BY <2>6, <2>10
    <3> QED BY <2>10, <3>1, <3>2
  <2>12. x < total /\ -x * WRR!Lag(n).den <= WRR!Lag(n).num * total
    BY <2>6, <2>8, <2>9, <2>10, <2>11
  <2> QED BY <2>2, <2>10, <2>12, Zenon
<1> QED BY <1>1, WeightedInvariance, PTL

-----------------------------------------------------------------------------
(* The Resolver, and all parts together. *)

ResolverInv == RES!TypeOK /\ result \in [Callers -> (Members \X Addresses) \cup {RES!NoResult}]

(* What Listed shows of a list are endpoints. *)
LEMMA ListedEndpoints ==
  ASSUME NEW list \in RES!EndpointList
  PROVE  RES!Listed(list) \subseteq Members \X Addresses
BY DEF RES!Listed, RES!EndpointList

(* The fingerprint is always that of the endpoints that the picker was     *)
(* last updated with, so a list that differs from them is never taken for  *)
(* theirs and left out.                                                    *)
THEOREM ResolverTypes == RES!Spec => []RES!TypeOK
<1>1. RES!Init => ResolverInv
  <2> SUFFICES ASSUME RES!Init PROVE ResolverInv
    OBVIOUS
  <2>1. RES!NoEndpoints \in RES!EndpointList /\ RES!endpointFingerprint(RES!NoEndpoints) = {}
    BY DEF RES!NoEndpoints, RES!EndpointList, RES!endpointFingerprint, RES!Listed
  <2> QED BY <2>1, LoadBalanceConstants DEF RES!Init, ResolverInv, RES!TypeOK
<1>2. ASSUME ResolverInv, [RES!Next]_(RES!vars) PROVE ResolverInv'
  <2> USE <1>2 DEF ResolverInv, RES!TypeOK
  <2>1. CASE RES!CacheReplace
    BY <2>1, LoadBalanceConstants DEF RES!CacheReplace
  <2>2. ASSUME NEW r \in Callers, RES!List(r) PROVE ResolverInv'
    BY <2>2 DEF RES!List
  <2>3. ASSUME NEW r \in Callers, RES!UpdatePicker(r) PROVE ResolverInv'
    BY <2>3 DEF RES!UpdatePicker
  <2>4. ASSUME NEW r \in Callers, RES!Pick(r) PROVE ResolverInv'
    <3>1. PICK ep \in Members \X Addresses : result' = [result EXCEPT ![r] = ep]
      BY <2>4, ListedEndpoints DEF RES!Pick
    <3>2. result' \in [Callers -> (Members \X Addresses) \cup {RES!NoResult}]
      BY <3>1
    <3> QED BY <2>4, <3>2 DEF RES!Pick
  <2>5. ASSUME NEW r \in Callers, RES!PickFails(r) PROVE ResolverInv'
    BY <2>5 DEF RES!PickFails
  <2>6. ASSUME NEW r \in Callers, RES!Done(r) PROVE ResolverInv'
    BY <2>6 DEF RES!Done
  <2>7. CASE UNCHANGED RES!vars
    BY <2>7 DEF RES!vars
  <2> QED BY <1>2, <2>1, <2>2, <2>3, <2>4, <2>5, <2>6, <2>7 DEF RES!Next
<1>3. ResolverInv => RES!TypeOK
  BY DEF ResolverInv
<1> QED BY <1>1, <1>2, <1>3, PTL DEF RES!Spec

(* A behaviour of the whole is one of each part. *)
LEMMA PartsRun == Spec => RR!Spec /\ WRR!Spec /\ LC!Spec /\ RES!Spec
<1>1. Init => RR!Init /\ WRR!Init /\ LC!Init /\ RES!Init
  BY DEF Init
<1> USE DEF vars, rrVars, wrrVars, lcVars, resVars, Next, RoundRobinStep,
            WeightedRoundRobinStep, LeastConnectionsStep, ResolverStep
<1>2. [Next]_vars => [RR!Next]_(RR!vars)
  BY DEF RR!vars
<1>3. [Next]_vars => [WRR!Next]_(WRR!vars)
  BY DEF WRR!vars
<1>4. [Next]_vars => [LC!Next]_(LC!vars)
  BY DEF LC!vars
<1>5. [Next]_vars => [RES!Next]_(RES!vars)
  BY DEF RES!vars
<1> HIDE DEF vars, Next
<1> QED BY <1>1, <1>2, <1>3, <1>4, <1>5, PTL DEF Spec, RR!Spec, WRR!Spec, LC!Spec, RES!Spec

(* What the pickers and the Resolver promise of a single state or step     *)
(* holds in every behaviour that is explored.                              *)
THEOREM LoadBalanceSafe ==
  Spec => [](TypeOK /\ EvenSpread /\ CycleExact /\ Smooth /\ ActiveAccurate) /\ NearlyLeast
<1>1. RR!TypeOK /\ WRR!TypeOK /\ LC!TypeOK /\ RES!TypeOK => TypeOK
  BY DEF TypeOK
<1> QED BY <1>1, PartsRun, SpreadsEvenly, CyclesExact, PicksSmooth, ActiveCorrect,
           PicksNearlyLeast, ResolverTypes, PTL
=============================================================================
