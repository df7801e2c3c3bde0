----------------------------- MODULE FiniteSums -----------------------------
(***************************************************************************)
(* Induction with a set for the property, sums over finite sets, and what  *)
(* a pick of smooth weighted round robin does to the sums of the levels.   *)
(* Nothing here refers to a state: LoadBalanceProofs applies it to the     *)
(* variables of WeightedRoundRobin.                                        *)
(***************************************************************************)
EXTENDS Integers, FiniteSetTheorems, TLAPS

(* The provers of a leaf that names none, and the time each is given. *)
USE ZenonT(8), SMTT(40)

(* Induction over the natural numbers, with a set for the property. *)
LEMMA NatSetInduction ==
  ASSUME NEW S, 0 \in S, \A n \in Nat : n \in S => n + 1 \in S
  PROVE  Nat \subseteq S
<1> DEFINE R == {ss \in Nat \X Nat : ss[1] < ss[2]}
           T == Nat \ S
<1>1. IsWellFoundedOn(R, Nat)
  BY NatLessThanWellFounded DEF OpToRel
<1> SUFFICES ASSUME T # {} PROVE FALSE
  OBVIOUS
<1>2. PICK x \in T : \A y \in T : ~(<<y, x>> \in R)
  <2> HIDE DEF R
  <2> QED BY <1>1, WFMin
<1>3. x \in Nat /\ x # 0
  OBVIOUS
<1>4. x - 1 \in Nat /\ <<x - 1, x>> \in R
  BY <1>3
<1>5. x - 1 \notin T
  BY <1>2, <1>4, Zenon
<1>6. x - 1 \in S /\ (x - 1) + 1 = x
  BY <1>3, <1>4, <1>5
<1> QED BY <1>4, <1>6

(* Induction over the subsets of a finite set: what holds of a set when it *)
(* holds of the set without any one of its elements.                       *)
LEMMA SubsetInduction ==
  ASSUME NEW S, IsFiniteSet(S), NEW T,
         \A s \in SUBSET S : (\A x \in s : s \ {x} \in T) => s \in T
  PROVE  SUBSET S \subseteq T
<1> DEFINE K == {k \in Nat : \A s \in SUBSET S : Cardinality(s) = k => s \in T}
<1>1. \A s \in SUBSET S : IsFiniteSet(s) /\ Cardinality(s) \in Nat
  BY FS_Subset, FS_CardinalityType
<1>2. 0 \in K
  BY <1>1, FS_EmptySet
<1>3. ASSUME NEW k \in Nat, k \in K PROVE k + 1 \in K
  <2> SUFFICES ASSUME NEW s \in SUBSET S, Cardinality(s) = k + 1 PROVE s \in T
    OBVIOUS
  <2>1. ASSUME NEW x \in s PROVE s \ {x} \in T
    <3>1. Cardinality(s \ {x}) = Cardinality(s) - 1
      BY <1>1, <2>1, FS_RemoveElement
    <3>2. Cardinality(s \ {x}) = k /\ s \ {x} \in SUBSET S
      BY <3>1
    <3> QED BY <1>3, <3>2
  <2> QED BY <2>1
<1>4. Nat \subseteq K
  <2> HIDE DEF K
  <2> QED BY <1>2, <1>3, NatSetInduction
<1> QED BY <1>1, <1>4

-----------------------------------------------------------------------------
(* Sums over finite sets, as MapThenSumSet computes them. *)

Some(s) == CHOOSE x \in s : TRUE

Sum(f, S) ==
  LET sum[s \in SUBSET S] == IF s = {} THEN 0 ELSE f[Some(s)] + sum[s \ {Some(s)}]
  IN  sum[S]

(* What the recursive function in Sum has to satisfy. *)
Summing(f, S, g) ==
  \A s \in SUBSET S : g[s] = IF s = {} THEN 0 ELSE f[Some(s)] + g[s \ {Some(s)}]

(* The element that is taken out of a set is in it. *)
LEMMA SomeElement ==
  ASSUME NEW s, IsFiniteSet(s), s # {}
  PROVE  /\ Some(s) \in s
         /\ IsFiniteSet(s \ {Some(s)})
         /\ Cardinality(s) \in Nat
         /\ Cardinality(s \ {Some(s)}) = Cardinality(s) - 1
<1>1. Some(s) \in s
  BY DEF Some
<1> QED BY <1>1, FS_RemoveElement, FS_CardinalityType

(* There is such a function: for sets of up to k elements it is found by   *)
(* one more step from the one for up to k - 1.                             *)
LEMMA SummingExists ==
  ASSUME NEW f, NEW S, IsFiniteSet(S)
  PROVE  \E g : DOMAIN g = SUBSET S /\ g = [s \in SUBSET S |-> g[s]] /\ Summing(f, S, g)
<1> DEFINE Body(g, s) == IF s = {} THEN 0 ELSE f[Some(s)] + g[s \ {Some(s)}]
           Upto(k) == {s \in SUBSET S : Cardinality(s) <= k}
           T == {k \in Nat : \E g : g = [s \in SUBSET S |-> g[s]]
                                    /\ \A s \in Upto(k) : g[s] = Body(g, s)}
<1>1. \A s \in SUBSET S : IsFiniteSet(s) /\ Cardinality(s) \in Nat
  BY FS_Subset, FS_CardinalityType
<1>2. 0 \in T
  <2> DEFINE g == [s \in SUBSET S |-> 0]
  <2>1. \A s \in Upto(0) : s = {}
    <3> SUFFICES ASSUME NEW s \in Upto(0) PROVE s = {}
      OBVIOUS
    <3>1. Cardinality(s) = 0 /\ IsFiniteSet(s)
      BY <1>1
    <3> QED BY <3>1, FS_EmptySet
  <2>2. \A s \in Upto(0) : g[s] = Body(g, s)
    BY <2>1
  <2>3. g = [s \in SUBSET S |-> g[s]]
    OBVIOUS
  <2> HIDE DEF g, Upto, Body
  <2> QED BY <2>2, <2>3
<1>3. ASSUME NEW k \in Nat, k \in T PROVE k + 1 \in T
  <2>1. PICK g : \A s \in Upto(k) : g[s] = Body(g, s)
    BY <1>3
  <2> DEFINE h == [s \in SUBSET S |-> IF s \in Upto(k) THEN g[s] ELSE Body(g, s)]
  <2>2. ASSUME NEW s \in Upto(k + 1) PROVE h[s] = Body(h, s)
    <3>1. CASE s = {}
      <4>1. s \in SUBSET S
        BY <2>2
      <4> QED BY <2>1, <3>1, <4>1
    <3>2. CASE s # {}
      <4> DEFINE t == s \ {Some(s)}
      <4>1. s \in SUBSET S /\ IsFiniteSet(s) /\ Cardinality(s) \in Nat
        BY <1>1, <2>2
      <4>2. t \in SUBSET S /\ Cardinality(t) = Cardinality(s) - 1
        BY <3>2, <4>1, SomeElement
      <4>3. t \in Upto(k)
        BY <2>2, <4>1, <4>2
      <4>4. h[t] = g[t]
        BY <4>2, <4>3
      <4>5. h[s] = f[Some(s)] + g[t]
        BY <2>1, <3>2, <4>1
      <4> HIDE DEF h, t
      <4>6. h[s] = f[Some(s)] + h[t]
        BY <4>4, <4>5
      <4> QED BY <3>2, <4>6 DEF t
    <3> QED BY <3>1, <3>2
  <2>3. h = [s \in SUBSET S |-> h[s]]
    OBVIOUS
  <2> HIDE DEF h, Upto, Body
  <2>4. k + 1 \in Nat /\ \A s \in Upto(k + 1) : h[s] = Body(h, s)
    BY <2>2
  <2>5. \E q : q = [s \in SUBSET S |-> q[s]] /\ \A s \in Upto(k + 1) : q[s] = Body(q, s)
    BY <2>3, <2>4
  <2> QED BY <2>4, <2>5
<1>4. Nat \subseteq T
  <2> HIDE DEF T
  <2> QED BY <1>2, <1>3, NatSetInduction
<1>5. Cardinality(S) \in Nat
  BY FS_CardinalityType
<1>6. PICK g : g = [s \in SUBSET S |-> g[s]]
               /\ \A s \in Upto(Cardinality(S)) : g[s] = Body(g, s)
  BY <1>4, <1>5
<1>7. SUBSET S \subseteq Upto(Cardinality(S))
  BY FS_Subset
<1> QED BY <1>6, <1>7 DEF Summing

(* Any two such functions agree on the sets they share. *)
LEMMA SummingUnique ==
  ASSUME NEW f, NEW S, NEW R, IsFiniteSet(S), R \subseteq S,
         NEW g, NEW h, Summing(f, S, g), Summing(f, R, h)
  PROVE  \A s \in SUBSET R : g[s] = h[s]
<1> DEFINE T == {s \in SUBSET R : g[s] = h[s]}
<1>1. IsFiniteSet(R)
  BY FS_Subset
<1>2. ASSUME NEW s \in SUBSET R, \A x \in s : s \ {x} \in T PROVE s \in T
  <2>1. CASE s = {}
    BY <2>1 DEF Summing
  <2>2. CASE s # {}
    <3>1. Some(s) \in s
      BY <2>2 DEF Some
    <3>2. g[s \ {Some(s)}] = h[s \ {Some(s)}]
      BY <1>2, <3>1
    <3>3. g[s] = f[Some(s)] + g[s \ {Some(s)}]
      BY <2>2 DEF Summing
    <3>4. h[s] = f[Some(s)] + h[s \ {Some(s)}]
      BY <2>2 DEF Summing
    <3> QED BY <3>2, <3>3, <3>4
  <2> QED BY <2>1, <2>2
<1>3. SUBSET R \subseteq T
  <2> HIDE DEF T
  <2> QED BY <1>1, <1>2, SubsetInduction
<1> QED BY <1>3

(* Sum is the value of any such function. *)
LEMMA SumOfSumming ==
  ASSUME NEW f, NEW S, IsFiniteSet(S), NEW g, Summing(f, S, g)
  PROVE  \A s \in SUBSET S : Sum(f, s) = g[s]
<1> SUFFICES ASSUME NEW s \in SUBSET S PROVE Sum(f, s) = g[s]
  OBVIOUS
<1> DEFINE sum == CHOOSE q : q = [t \in SUBSET s |-> IF t = {} THEN 0 ELSE f[Some(t)] + q[t \ {Some(t)}]]
<1>1. IsFiniteSet(s)
  BY FS_Subset
<1>2. PICK h : h = [t \in SUBSET s |-> h[t]] /\ Summing(f, s, h)
  BY <1>1, SummingExists
<1>3. h = [t \in SUBSET s |-> IF t = {} THEN 0 ELSE f[Some(t)] + h[t \ {Some(t)}]]
  BY <1>2 DEF Summing
<1>4. sum = [t \in SUBSET s |-> IF t = {} THEN 0 ELSE f[Some(t)] + sum[t \ {Some(t)}]]
  BY <1>3
<1>5. Summing(f, s, sum)
  <2> HIDE DEF sum
  <2> QED BY <1>4 DEF Summing
<1>6. Sum(f, s) = sum[s]
  BY DEF Sum
<1> HIDE DEF sum
<1>7. ASSUME NEW k, Summing(f, s, k) PROVE g[s] = k[s]
  BY <1>7, SummingUnique
<1>8. sum[s] = g[s]
  BY <1>5, <1>7
<1> QED BY <1>6, <1>8

(* The sum over the empty set, and the recursion. *)
LEMMA SumRec ==
  ASSUME NEW f, NEW S, IsFiniteSet(S)
  PROVE  /\ S = {} => Sum(f, S) = 0
         /\ S # {} => Sum(f, S) = f[Some(S)] + Sum(f, S \ {Some(S)})
<1>1. PICK g : Summing(f, S, g)
  BY SummingExists
<1>2. Sum(f, S) = g[S]
  BY <1>1, SumOfSumming
<1>3. Sum(f, S \ {Some(S)}) = g[S \ {Some(S)}]
  BY <1>1, SumOfSumming
<1>4. g[S] = IF S = {} THEN 0 ELSE f[Some(S)] + g[S \ {Some(S)}]
  BY <1>1 DEF Summing
<1> QED BY <1>2, <1>3, <1>4

(* The empty sum. *)
LEMMA SumEmpty == \A f : Sum(f, {}) = 0
BY SumRec, FS_EmptySet

(* Sums of integers are integers. *)
LEMMA SumType ==
  ASSUME NEW S, IsFiniteSet(S), NEW f, \A x \in S : f[x] \in Int
  PROVE  \A s \in SUBSET S : Sum(f, s) \in Int
<1> DEFINE T == {s \in SUBSET S : Sum(f, s) \in Int}
<1>1. ASSUME NEW s \in SUBSET S, \A x \in s : s \ {x} \in T PROVE s \in T
  <2>1. IsFiniteSet(s)
    BY FS_Subset
  <2>2. CASE s = {}
    BY <2>2, SumEmpty
  <2>3. CASE s # {}
    <3>1. Some(s) \in s
      BY <2>3 DEF Some
    <3>2. Sum(f, s \ {Some(s)}) \in Int
      BY <1>1, <3>1
    <3> QED BY <2>1, <2>3, <3>1, <3>2, SumRec
  <2> QED BY <2>2, <2>3
<1>2. SUBSET S \subseteq T
  <2> HIDE DEF T
  <2> QED BY <1>1, SubsetInduction
<1> QED BY <1>2

(* Any element may be taken out first. *)
LEMMA SumRemove ==
  ASSUME NEW S, IsFiniteSet(S), NEW f, \A x \in S : f[x] \in Int
  PROVE  \A s \in SUBSET S : \A x \in s : Sum(f, s) = f[x] + Sum(f, s \ {x})
<1> DEFINE P(s) == \A x \in s : Sum(f, s) = f[x] + Sum(f, s \ {x})
           T == {s \in SUBSET S : P(s)}
<1>1. ASSUME NEW s \in SUBSET S, \A x \in s : s \ {x} \in T PROVE s \in T
  <2> SUFFICES ASSUME NEW x \in s PROVE Sum(f, s) = f[x] + Sum(f, s \ {x})
    OBVIOUS
  <2> DEFINE y == Some(s)
  <2>1. IsFiniteSet(s) /\ s # {}
    BY FS_Subset
  <2>2. y \in s
    BY DEF Some
  <2>3. Sum(f, s) = f[y] + Sum(f, s \ {y})
    BY <2>1, SumRec
  <2> HIDE DEF y
  <2>4. CASE x = y
    BY <2>3, <2>4
  <2>5. CASE x # y
    <3> DEFINE r == (s \ {y}) \ {x}
    <3>1. y \in s \ {x} /\ x \in s \ {y} /\ (s \ {x}) \ {y} = r
      BY <2>2, <2>5
    <3>2. P(s \ {y}) /\ P(s \ {x})
      BY <1>1, <2>2
    <3>3. Sum(f, s \ {y}) = f[x] + Sum(f, r)
      BY <3>1, <3>2
    <3>4. Sum(f, s \ {x}) = f[y] + Sum(f, r)
      BY <3>1, <3>2
    <3>5. Sum(f, r) \in Int /\ f[x] \in Int /\ f[y] \in Int
      BY <2>2, SumType
    <3> HIDE DEF r
    <3> QED BY <2>3, <3>3, <3>4, <3>5
  <2> QED BY <2>4, <2>5
<1>2. SUBSET S \subseteq T
  <2> HIDE DEF T
  <2> QED BY <1>1, SubsetInduction
<1> QED BY <1>2

(* Adding functions adds their sums. *)
LEMMA SumPlus ==
  ASSUME NEW S, IsFiniteSet(S), NEW f, NEW g, NEW h,
         \A x \in S : f[x] \in Int /\ g[x] \in Int /\ h[x] = f[x] + g[x]
  PROVE  \A s \in SUBSET S : Sum(h, s) = Sum(f, s) + Sum(g, s)
<1> DEFINE T == {s \in SUBSET S : Sum(h, s) = Sum(f, s) + Sum(g, s)}
<1>1. ASSUME NEW s \in SUBSET S, \A x \in s : s \ {x} \in T PROVE s \in T
  <2>1. IsFiniteSet(s)
    BY FS_Subset
  <2>2. CASE s = {}
    BY <2>2, SumEmpty
  <2>3. CASE s # {}
    <3> DEFINE y == Some(s)
               r == s \ {y}
    <3>1. y \in s
      BY <2>3 DEF Some
    <3>2. /\ Sum(f, s) = f[y] + Sum(f, r)
          /\ Sum(g, s) = g[y] + Sum(g, r)
          /\ Sum(h, s) = h[y] + Sum(h, r)
      BY <2>1, <2>3, SumRec
    <3>3. Sum(h, r) = Sum(f, r) + Sum(g, r)
      BY <1>1, <3>1
    <3>4. Sum(f, r) \in Int /\ Sum(g, r) \in Int
      BY SumType
    <3>5. f[y] \in Int /\ g[y] \in Int /\ h[y] = f[y] + g[y]
      BY <3>1
    <3> HIDE DEF y, r
    <3> QED BY <3>2, <3>3, <3>4, <3>5
  <2> QED BY <2>2, <2>3
<1>2. SUBSET S \subseteq T
  <2> HIDE DEF T
  <2> QED BY <1>1, SubsetInduction
<1> QED BY <1>2

(* Greater values have a greater sum. *)
LEMMA SumMonotone ==
  ASSUME NEW S, IsFiniteSet(S), NEW f, NEW g,
         \A x \in S : f[x] \in Int /\ g[x] \in Int /\ f[x] <= g[x]
  PROVE  \A s \in SUBSET S : Sum(f, s) <= Sum(g, s)
<1> DEFINE T == {s \in SUBSET S : Sum(f, s) <= Sum(g, s)}
<1>1. ASSUME NEW s \in SUBSET S, \A x \in s : s \ {x} \in T PROVE s \in T
  <2>1. IsFiniteSet(s)
    BY FS_Subset
  <2>2. CASE s = {}
    BY <2>2, SumEmpty
  <2>3. CASE s # {}
    <3> DEFINE y == Some(s)
               r == s \ {y}
    <3>1. y \in s
      BY <2>3 DEF Some
    <3>2. Sum(f, s) = f[y] + Sum(f, r) /\ Sum(g, s) = g[y] + Sum(g, r)
      BY <2>1, <2>3, SumRec
    <3>3. Sum(f, r) <= Sum(g, r)
      BY <1>1, <3>1
    <3>4. Sum(f, r) \in Int /\ Sum(g, r) \in Int
      BY SumType
    <3>5. f[y] \in Int /\ g[y] \in Int /\ f[y] <= g[y]
      BY <3>1
    <3> HIDE DEF y, r
    <3> QED BY <3>2, <3>3, <3>4, <3>5
  <2> QED BY <2>2, <2>3
<1>2. SUBSET S \subseteq T
  <2> HIDE DEF T
  <2> QED BY <1>1, SubsetInduction
<1> QED BY <1>2

(* The sum is at most the number of the values times the greatest. *)
LEMMA SumBound ==
  ASSUME NEW S, IsFiniteSet(S), NEW f, NEW c \in Int,
         \A x \in S : f[x] \in Int /\ f[x] <= c
  PROVE  \A s \in SUBSET S : Sum(f, s) <= Cardinality(s) * c
<1> DEFINE T == {s \in SUBSET S : Sum(f, s) <= Cardinality(s) * c}
<1>1. ASSUME NEW s \in SUBSET S, \A x \in s : s \ {x} \in T PROVE s \in T
  <2>1. IsFiniteSet(s)
    BY FS_Subset
  <2>2. CASE s = {}
    <3>1. Sum(f, s) = 0 /\ Cardinality(s) = 0
      BY <2>1, <2>2, SumRec, FS_EmptySet
    <3>2. Sum(f, s) <= Cardinality(s) * c
      BY <3>1
    <3> QED BY <3>2
  <2>3. CASE s # {}
    <3> DEFINE y == Some(s)
               r == s \ {y}
               k == Cardinality(r)
    <3>1. y \in s
      BY <2>3 DEF Some
    <3>2. Sum(f, s) = f[y] + Sum(f, r)
      BY <2>1, <2>3, SumRec
    <3>3. Sum(f, r) <= k * c
      BY <1>1, <3>1
    <3>4. Sum(f, r) \in Int
      BY SumType
    <3>5. f[y] \in Int /\ f[y] <= c
      BY <3>1
    <3>6. k \in Int /\ Cardinality(s) = k + 1
      <4>1. k = Cardinality(s) - 1 /\ Cardinality(s) \in Nat
        BY <2>1, <2>3, SomeElement
      <4> HIDE DEF k
      <4> QED BY <4>1
    <3> HIDE DEF y, r, k
    <3>7. (k + 1) * c = k * c + c /\ k * c \in Int
      BY <3>6
    <3> QED BY <3>2, <3>3, <3>4, <3>5, <3>6, <3>7
  <2> QED BY <2>2, <2>3
<1>2. SUBSET S \subseteq T
  <2> HIDE DEF T
  <2> QED BY <1>1, SubsetInduction
<1> QED BY <1>2

(* Equal values have equal sums. *)
LEMMA SumSame ==
  ASSUME NEW S, IsFiniteSet(S), NEW f, NEW g,
         \A x \in S : f[x] \in Int /\ g[x] = f[x]
  PROVE  \A s \in SUBSET S : Sum(g, s) = Sum(f, s)
<1>1. ASSUME NEW s \in SUBSET S PROVE Sum(f, s) <= Sum(g, s) /\ Sum(g, s) <= Sum(f, s)
  BY SumMonotone
<1>2. ASSUME NEW s \in SUBSET S PROVE Sum(f, s) \in Int /\ Sum(g, s) \in Int
  BY SumType
<1> QED BY <1>1, <1>2

(* f and g differ at b only. *)
DifferAt(S, f, g, b) ==
  /\ \A x \in S : f[x] \in Int /\ g[x] \in Int
  /\ \A x \in S \ {b} : g[x] = f[x]

(* Changing one value changes the sum by as much. *)
LEMMA SumChange ==
  ASSUME NEW S, IsFiniteSet(S), NEW f, NEW g, NEW b \in S, DifferAt(S, f, g, b)
  PROVE  \A s \in SUBSET S : /\ b \in s => Sum(g, s) = Sum(f, s) + (g[b] - f[b])
                             /\ b \notin s => Sum(g, s) = Sum(f, s)
<1> SUFFICES ASSUME NEW s \in SUBSET S
             PROVE  /\ b \in s => Sum(g, s) = Sum(f, s) + (g[b] - f[b])
                    /\ b \notin s => Sum(g, s) = Sum(f, s)
  OBVIOUS
<1>0. (\A x \in S : f[x] \in Int /\ g[x] \in Int) /\ \A x \in S \ {b} : g[x] = f[x]
  BY DEF DifferAt
<1>1. PICK r \in SUBSET S : r = s \ {b} /\ b \notin r /\ IsFiniteSet(r)
  <2>1. IsFiniteSet(s \ {b}) /\ s \ {b} \in SUBSET S
    BY FS_Subset
  <2> QED BY <2>1
<1>2. Sum(g, r) = Sum(f, r)
  <2>1. \A x \in r : f[x] \in Int /\ g[x] = f[x]
    BY <1>0, <1>1
  <2> QED BY <1>1, <2>1, SumSame
<1>3. CASE b \notin s
  <2>1. r = s
    BY <1>1, <1>3
  <2> QED BY <1>2, <1>3, <2>1
<1>4. CASE b \in s
  <2>2. Sum(f, s) = f[b] + Sum(f, r)
    BY <1>0, <1>1, <1>4, SumRemove
  <2>3. Sum(g, s) = g[b] + Sum(g, r)
    BY <1>0, <1>1, <1>4, SumRemove
  <2>4. Sum(f, r) \in Int
    BY <1>0, <1>1, SumType
  <2> QED BY <1>0, <1>2, <1>4, <2>2, <2>3, <2>4
<1> QED BY <1>3, <1>4

(* Values that are no greater and have the same sum are the same. *)
LEMMA SumTight ==
  ASSUME NEW S, IsFiniteSet(S), NEW f, NEW g, Sum(f, S) = Sum(g, S),
         \A x \in S : f[x] \in Int /\ g[x] \in Int /\ f[x] <= g[x]
  PROVE  \A x \in S : f[x] = g[x]
<1> SUFFICES ASSUME NEW x \in S PROVE f[x] = g[x]
  OBVIOUS
<1> DEFINE r == S \ {x}
<1>1. Sum(f, S) = f[x] + Sum(f, r) /\ Sum(g, S) = g[x] + Sum(g, r)
  BY SumRemove
<1>2. Sum(f, r) <= Sum(g, r)
  BY SumMonotone
<1>3. Sum(f, r) \in Int /\ Sum(g, r) \in Int
  BY SumType
<1>4. f[x] \in Int /\ g[x] \in Int /\ f[x] <= g[x]
  OBVIOUS
<1> HIDE DEF r
<1>5. f[x] + Sum(f, r) = g[x] + Sum(g, r)
  BY <1>1, Zenon
<1> QED BY <1>2, <1>3, <1>4, <1>5

(* A nonempty finite set of positions has a first one with the greatest value. *)
LEMMA GreatestExists ==
  ASSUME NEW S \in SUBSET Int, IsFiniteSet(S), S # {}, NEW f, \A x \in S : f[x] \in Int
  PROVE  \E i \in S : \A j \in S : f[j] < f[i] \/ (f[j] = f[i] /\ i <= j)
<1> DEFINE P(s) == \E i \in s : \A j \in s : f[j] < f[i] \/ (f[j] = f[i] /\ i <= j)
           T == {s \in SUBSET S : s = {} \/ P(s)}
<1>1. ASSUME NEW s \in SUBSET S, \A x \in s : s \ {x} \in T PROVE s \in T
  <2> SUFFICES ASSUME s # {} PROVE P(s)
    OBVIOUS
  <2>1. PICK x \in s : TRUE
    OBVIOUS
  <2>2. CASE s \ {x} = {}
    BY <2>1, <2>2
  <2>3. CASE s \ {x} # {}
    <3>1. PICK i \in s \ {x} : \A j \in s \ {x} : f[j] < f[i] \/ (f[j] = f[i] /\ i <= j)
      BY <1>1, <2>1, <2>3
    <3>2. CASE f[x] < f[i] \/ (f[x] = f[i] /\ i <= x)
      BY <3>1, <3>2
    <3>3. CASE ~(f[x] < f[i] \/ (f[x] = f[i] /\ i <= x))
      <4>1. \A j \in s : f[j] < f[x] \/ (f[j] = f[x] /\ x <= j)
        BY <3>1, <3>3
      <4> QED BY <2>1, <4>1
    <3> QED BY <3>2, <3>3
  <2> QED BY <2>2, <2>3
<1>2. SUBSET S \subseteq T
  <2> HIDE DEF T
  <2> QED BY <1>1, SubsetInduction
<1>3. S \in T
  BY <1>2
<1> QED BY <1>3

-----------------------------------------------------------------------------
(* Weighted round robin. *)

(* The recurrence that both functions of Lag satisfy: q at n is z, and q   *)
(* at k is (k + 1) times q at k + 1 plus b at k.                           *)
Descends(q, n, z, b) ==
  q = [k \in 1..n |-> IF k = n THEN z ELSE (k + 1) * q[k + 1] + b[k]]

(* The recurrence has a solution. *)
LEMMA DescendsExists ==
  ASSUME NEW n \in Nat, NEW z, NEW b
  PROVE  \E q : Descends(q, n, z, b)
<1> DEFINE Body(q, k) == IF k = n THEN z ELSE (k + 1) * q[k + 1] + b[k]
           From(m) == {k \in 1..n : n - m <= k}
           T == {m \in Nat : \E q : q = [k \in 1..n |-> q[k]]
                                    /\ \A k \in From(m) : q[k] = Body(q, k)}
<1>1. 0 \in T
  <2> DEFINE q == [k \in 1..n |-> z]
  <2>1. q = [k \in 1..n |-> q[k]] /\ \A k \in From(0) : q[k] = Body(q, k)
    OBVIOUS
  <2> HIDE DEF q, From, Body
  <2> QED BY <2>1
<1>2. ASSUME NEW m \in Nat, m \in T PROVE m + 1 \in T
  <2>1. PICK q : \A k \in From(m) : q[k] = Body(q, k)
    BY <1>2
  <2> DEFINE h == [k \in 1..n |-> IF k \in From(m) THEN q[k] ELSE Body(q, k)]
  <2>2. ASSUME NEW k \in From(m + 1) PROVE h[k] = Body(h, k)
    <3>1. k \in 1..n /\ h[k] = Body(q, k)
      BY <2>1, <2>2
    <3>2. CASE k = n
      BY <3>1, <3>2
    <3>3. CASE k # n
      <4>1. k + 1 \in From(m) /\ k + 1 \in 1..n
        BY <2>2, <3>3
      <4>2. h[k + 1] = q[k + 1]
        BY <4>1
      <4> HIDE DEF h
      <4> QED BY <3>1, <3>3, <4>2
    <3> QED BY <3>2, <3>3
  <2>3. h = [k \in 1..n |-> h[k]]
    OBVIOUS
  <2> HIDE DEF h, From, Body
  <2>4. m + 1 \in Nat /\ \A k \in From(m + 1) : h[k] = Body(h, k)
    BY <2>2
  <2>5. \E g : g = [k \in 1..n |-> g[k]] /\ \A k \in From(m + 1) : g[k] = Body(g, k)
    BY <2>3, <2>4
  <2> QED BY <2>4, <2>5
<1>3. Nat \subseteq T
  <2> HIDE DEF T
  <2> QED BY <1>1, <1>2, NatSetInduction
<1>4. PICK q : q = [k \in 1..n |-> q[k]] /\ \A k \in From(n) : q[k] = Body(q, k)
  BY <1>3
<1>5. \A k \in 1..n : k \in From(n)
  OBVIOUS
<1>6. q = [k \in 1..n |-> Body(q, k)]
  <2> HIDE DEF From, Body
  <2> QED BY <1>4, <1>5
<1> QED BY <1>6 DEF Descends

(* Products of numbers are numbers. *)
LEMMA NatProduct ==
  ASSUME NEW a \in Nat, NEW b \in Nat PROVE a * b \in Nat
OBVIOUS

(* Its solution is a function to the numbers. *)
LEMMA DescendsType ==
  ASSUME NEW n \in Nat, NEW z \in Nat, NEW b, \A k \in 1..n : k # n => b[k] \in Nat,
         NEW q, Descends(q, n, z, b)
  PROVE  \A k \in 1..n : q[k] \in Nat
<1> DEFINE T == {m \in Nat : n - m \in 1..n => q[n - m] \in Nat}
<1>1. \A k \in 1..n : q[k] = IF k = n THEN z ELSE (k + 1) * q[k + 1] + b[k]
  BY DEF Descends
<1>2. 0 \in T
  <2>1. n - 0 = n
    OBVIOUS
  <2> QED BY <1>1, <2>1
<1>3. ASSUME NEW m \in Nat, m \in T PROVE m + 1 \in T
  <2> SUFFICES ASSUME n - (m + 1) \in 1..n PROVE q[n - (m + 1)] \in Nat
    OBVIOUS
  <2> DEFINE k == n - (m + 1)
  <2>1. k \in 1..n /\ k # n /\ k + 1 = n - m /\ n - m \in 1..n
    OBVIOUS
  <2>2. q[k + 1] \in Nat
    BY <1>3, <2>1
  <2>3. q[k] = (k + 1) * q[k + 1] + b[k]
    BY <1>1, <2>1
  <2>4. b[k] \in Nat /\ k + 1 \in Nat
    BY <2>1
  <2> HIDE DEF k
  <2>5. (k + 1) * q[k + 1] \in Nat
    BY <2>2, <2>4, NatProduct
  <2>6. q[k] \in Nat
    BY <2>3, <2>4, <2>5
  <2> QED BY <2>6 DEF k
<1>4. Nat \subseteq T
  <2> HIDE DEF T
  <2> QED BY <1>2, <1>3, NatSetInduction
<1> SUFFICES ASSUME NEW k \in 1..n PROVE q[k] \in Nat
  OBVIOUS
<1>5. n - k \in Nat /\ n - (n - k) = k
  OBVIOUS
<1>6. n - k \in T
  BY <1>4, <1>5
<1> QED BY <1>5, <1>6

(* What Lag computes. *)
LagSteps(n, den, num) ==
  /\ den \in [1..n -> Nat]
  /\ num \in [1..n -> Nat]
  /\ den[n] = 1
  /\ num[n] = 0
  /\ \A k \in 1..n : k # n =>
       /\ den[k] = (k + 1) * den[k + 1]
       /\ num[k] = (k + 1) * num[k + 1] + den[k + 1]


(* Some of the numbers add up to no more than all of them. *)
LEMMA SumSubset ==
  ASSUME NEW S, IsFiniteSet(S), NEW f, \A x \in S : f[x] \in Nat
  PROVE  \A s \in SUBSET S : Sum(f, s) \in Nat /\ Sum(f, s) <= Sum(f, S)
<1> DEFINE T == {r \in SUBSET S : \A s \in SUBSET r : Sum(f, s) <= Sum(f, r)}
<1>0. \A x \in S : f[x] \in Int
  OBVIOUS
<1>1. ASSUME NEW r \in SUBSET S, \A x \in r : r \ {x} \in T PROVE r \in T
  <2> SUFFICES ASSUME NEW s \in SUBSET r PROVE Sum(f, s) <= Sum(f, r)
    OBVIOUS
  <2>1. Sum(f, s) \in Int /\ Sum(f, r) \in Int
    BY <1>0, SumType
  <2>2. CASE s = r
    BY <2>1, <2>2
  <2>3. CASE s # r
    <3>1. PICK x \in r : s \in SUBSET (r \ {x})
      BY <2>3
    <3>2. Sum(f, s) <= Sum(f, r \ {x})
      BY <1>1, <3>1
    <3>3. Sum(f, r) = f[x] + Sum(f, r \ {x})
      BY <1>0, SumRemove
    <3>4. Sum(f, r \ {x}) \in Int /\ f[x] \in Nat
      BY <1>0, SumType
    <3> QED BY <2>1, <3>2, <3>3, <3>4
  <2> QED BY <2>2, <2>3
<1>2. SUBSET S \subseteq T
  <2> HIDE DEF T
  <2> QED BY <1>1, SubsetInduction
<1> SUFFICES ASSUME NEW s \in SUBSET S PROVE Sum(f, s) \in Nat /\ Sum(f, s) <= Sum(f, S)
  OBVIOUS
<1>3. Sum(f, {}) <= Sum(f, s) /\ Sum(f, s) <= Sum(f, S)
  BY <1>2
<1>4. Sum(f, s) \in Int /\ Sum(f, {}) = 0
  BY <1>0, SumType, SumEmpty
<1> QED BY <1>3, <1>4

(* Multiplying by a number that is not negative keeps an inequality. *)
LEMMA Scaled ==
  ASSUME NEW a \in Nat, NEW x \in Int, NEW y \in Int, x <= y
  PROVE  a * x <= a * y
OBVIOUS

(* No k of the n nodes are further behind, together, than k times what    *)
(* Lag has at k.                                                           *)
Behind(S, total, lv) ==
  \A den, num : LagSteps(Cardinality(S), den, num) =>
    \A A \in SUBSET S : A # {} =>
      den[Cardinality(A)] * Sum(lv, A) <= (Cardinality(A) * num[Cardinality(A)]) * total

WeightsOK(S, total, w) ==
  /\ total \in Nat
  /\ total >= 1
  /\ Sum(w, S) = total
  /\ \A A \in SUBSET S : Sum(w, A) \in Nat /\ Sum(w, A) <= total

LevelsOK(S, total, lv) ==
  /\ Sum(lv, S) = 0
  /\ \A i \in S : lv[i] > -total
  /\ Behind(S, total, lv)

(* Positive weights have these sums. *)
LEMMA PositiveWeights ==
  ASSUME NEW S, IsFiniteSet(S), NEW w, \A i \in S : w[i] \in Nat \ {0}
  PROVE  Sum(w, S) \in Nat /\ (S # {} => WeightsOK(S, Sum(w, S), w))
<1>1. \A i \in S : w[i] \in Nat /\ w[i] \in Int
  OBVIOUS
<1>2. \A A \in SUBSET S : Sum(w, A) \in Nat /\ Sum(w, A) <= Sum(w, S)
  BY <1>1, SumSubset
<1>3. ASSUME NEW i \in S PROVE Sum(w, S) >= 1
  <2>1. Sum(w, S) = w[i] + Sum(w, S \ {i})
    BY <1>1, <1>3, SumRemove
  <2>2. Sum(w, S \ {i}) \in Nat /\ w[i] \in Nat \ {0}
    BY <1>2, <1>3
  <2> QED BY <2>1, <2>2
<1> QED BY <1>2, <1>3 DEF WeightsOK

(* The arithmetic of one step of Behind: a set of k nodes without the node *)
(* that is picked, and the same set with it.                               *)
LEMMA BehindStep ==
  ASSUME NEW k \in Nat, NEW d \in Nat, NEW g \in Nat, NEW total \in Nat,
         NEW a \in Int, NEW top \in Int, NEW cur \in Int, NEW w \in Nat,
         a <= k * top,
         a + top = cur + w,
         w <= total,
         d * cur <= ((k + 1) * g) * total
  PROVE  ((k + 1) * d) * a <= (k * ((k + 1) * g + d)) * total
<1> DEFINE G == (k + 1) * g
<1>1. G \in Nat
  BY NatProduct
<1>2. (k + 1) * a <= k * (a + top)
  <2>1. (k + 1) * a = k * a + a /\ k * (a + top) = k * a + k * top
    OBVIOUS
  <2>2. k * a \in Int /\ k * top \in Int
    OBVIOUS
  <2> QED BY <2>1, <2>2
<1>3. d * ((k + 1) * a) <= d * (k * (cur + w))
  <2>1. (k + 1) * a \in Int /\ k * (cur + w) \in Int
    OBVIOUS
  <2> QED BY <1>2, <2>1, Scaled
<1>4. d * (cur + w) <= G * total + d * total
  <2>1. d * w <= d * total
    BY Scaled
  <2>2. d * (cur + w) = d * cur + d * w
    OBVIOUS
  <2>3. d * cur \in Int /\ d * w \in Int /\ d * total \in Int /\ G * total \in Int
    BY <1>1
  <2> HIDE DEF G
  <2>4. d * cur <= G * total
    BY DEF G
  <2> QED BY <2>1, <2>2, <2>3, <2>4
<1>5. k * (d * (cur + w)) <= k * (G * total + d * total)
  <2>1. d * (cur + w) \in Int /\ G * total + d * total \in Int
    BY <1>1
  <2> HIDE DEF G
  <2> QED BY <1>4, <2>1, Scaled
<1>6. ((k + 1) * d) * a = d * ((k + 1) * a)
  OBVIOUS
<1>7. d * (k * (cur + w)) = k * (d * (cur + w))
  OBVIOUS
<1> HIDE DEF G
<1>8. k * (G * total + d * total) = (k * (G + d)) * total
  BY <1>1
<1>9. /\ d * ((k + 1) * a) \in Int
      /\ k * (d * (cur + w)) \in Int
      /\ k * (G * total + d * total) \in Int
  BY <1>1
<1>10. ((k + 1) * d) * a <= (k * (G + d)) * total
  BY <1>3, <1>5, <1>6, <1>7, <1>8, <1>9
<1> QED BY <1>10 DEF G

(* Raising every level by its weight and lowering a greatest one by the    *)
(* total keeps the levels in order.                                        *)
LEMMA PickLevels ==
  ASSUME NEW S, IsFiniteSet(S), NEW w, NEW lv, NEW up, NEW new, NEW b \in S,
         NEW total, WeightsOK(S, total, w),
         \A i \in S : w[i] \in Nat /\ lv[i] \in Int /\ up[i] = lv[i] + w[i],
         LevelsOK(S, total, lv),
         \A j \in S : up[j] <= up[b],
         new[b] = up[b] - total,
         \A i \in S \ {b} : new[i] = up[i]
  PROVE  LevelsOK(S, total, new)
<1>1. PICK n \in Nat : Cardinality(S) = n
  BY FS_CardinalityType
<1>2. \A i \in S : w[i] \in Int /\ lv[i] \in Int /\ up[i] \in Int
  OBVIOUS
<1>3. \A A \in SUBSET S : Sum(w, A) \in Nat /\ Sum(w, A) <= total
  BY DEF WeightsOK
<1>6. total \in Nat /\ total >= 1 /\ Sum(w, S) = total
  BY DEF WeightsOK
<1>4. \A A \in SUBSET S : Sum(lv, A) \in Int /\ Sum(up, A) \in Int
  BY <1>2, SumType
<1>5. \A A \in SUBSET S : Sum(up, A) = Sum(lv, A) + Sum(w, A)
  <2>1. \A i \in S : lv[i] \in Int /\ w[i] \in Int /\ up[i] = lv[i] + w[i]
    BY <1>2
  <2> QED BY <2>1, SumPlus
<1>7. \A A \in SUBSET S : Sum(new, A) = IF b \in A THEN Sum(up, A) - total ELSE Sum(up, A)
  <2>1. DifferAt(S, up, new, b)
    BY <1>2, <1>6 DEF DifferAt
  <2>2. \A A \in SUBSET S : /\ b \in A => Sum(new, A) = Sum(up, A) + (new[b] - up[b])
                            /\ b \notin A => Sum(new, A) = Sum(up, A)
    BY <2>1, SumChange
  <2> QED BY <1>2, <1>4, <1>6, <2>2
<1>9. Sum(lv, S) = 0 /\ (\A i \in S : lv[i] > -total) /\ Behind(S, total, lv)
  BY DEF LevelsOK
<1>10. Sum(new, S) = 0
  <2>1. Sum(new, S) = Sum(up, S) - total /\ Sum(up, S) = Sum(lv, S) + total
    BY <1>5, <1>6, <1>7
  <2> QED BY <1>6, <1>9, <2>1
<1>11. up[b] >= 1
  <2> SUFFICES ASSUME up[b] <= 0 PROVE FALSE
    BY <1>2
  <2>1. \A i \in S : up[i] \in Int /\ up[i] <= 0
    BY <1>2
  <2>2. Sum(up, S) <= Cardinality(S) * 0
    <3>1. 0 \in Int
      OBVIOUS
    <3> QED BY <1>1, <2>1, <3>1, SumBound
  <2>3. Sum(up, S) = total
    BY <1>5, <1>6, <1>9
  <2> QED BY <1>1, <1>6, <2>2, <2>3
<1>12. \A i \in S : new[i] > -total
  <2> SUFFICES ASSUME NEW i \in S PROVE new[i] > -total
    OBVIOUS
  <2>1. lv[i] > -total /\ lv[i] \in Int /\ w[i] \in Nat /\ up[b] \in Int
    BY <1>2, <1>9
  <2>2. CASE i = b
    BY <1>6, <1>11, <2>1, <2>2
  <2>3. CASE i # b
    BY <1>6, <2>1, <2>3
  <2> QED BY <2>2, <2>3
<1>13. Behind(S, total, new)
  <2> SUFFICES ASSUME NEW den, NEW num, LagSteps(n, den, num), NEW A \in SUBSET S, A # {}
               PROVE  den[Cardinality(A)] * Sum(new, A)
                        <= (Cardinality(A) * num[Cardinality(A)]) * total
    BY <1>1 DEF Behind
  <2>1. PICK k \in Nat : k = Cardinality(A) /\ IsFiniteSet(A) /\ k \in 1..n
    <3>1. IsFiniteSet(A) /\ Cardinality(A) <= n
      BY <1>1, FS_Subset
    <3>2. Cardinality(A) \in Nat /\ Cardinality(A) # 0
      BY <3>1, FS_CardinalityType, FS_EmptySet
    <3> QED BY <3>1, <3>2
  <2>2. den[k] \in Nat /\ num[k] \in Nat
    BY <2>1 DEF LagSteps
  <2>3. \A B \in SUBSET S : B # {} =>
          den[Cardinality(B)] * Sum(lv, B) <= (Cardinality(B) * num[Cardinality(B)]) * total
    BY <1>1, <1>9 DEF Behind
  <2>4. Sum(lv, A) \in Int /\ Sum(w, A) \in Nat /\ Sum(w, A) <= total /\ Sum(up, A) \in Int
    BY <1>3, <1>4
  <2>5. CASE b \in A
    <3>1. Sum(new, A) = Sum(lv, A) + Sum(w, A) - total
      <4>1. Sum(new, A) = Sum(up, A) - total /\ Sum(up, A) = Sum(lv, A) + Sum(w, A)
        BY <1>5, <1>7, <2>5, Zenon
      <4> QED BY <1>6, <2>4, <4>1
    <3>2. Sum(new, A) \in Int /\ Sum(new, A) <= Sum(lv, A)
      BY <1>6, <2>4, <3>1
    <3>3. den[k] * Sum(new, A) <= den[k] * Sum(lv, A)
      BY <2>2, <2>4, <3>2, Scaled
    <3>4. den[k] * Sum(lv, A) <= (k * num[k]) * total
      BY <2>1, <2>3
    <3>5. den[k] * Sum(new, A) \in Int /\ den[k] * Sum(lv, A) \in Int
      BY <2>2, <2>4, <3>2
    <3>6. (k * num[k]) * total \in Int
      BY <1>6, <2>1, <2>2
    <3>7. den[k] * Sum(new, A) <= (k * num[k]) * total
      BY <3>3, <3>4, <3>5, <3>6
    <3> QED BY <2>1, <3>7
  <2>6. CASE b \notin A
    <3> DEFINE C == A \cup {b}
    <3>0. C \in SUBSET S /\ C # {} /\ C \ {b} = A /\ b \in C
      BY <2>6
    <3>1. PICK B \in SUBSET S : B = A \cup {b} /\ B # {} /\ B \ {b} = A /\ b \in B
      BY <3>0, Zenon
    <3> HIDE DEF C
    <3>2. Cardinality(B) = k + 1
      BY <2>1, <2>6, <3>1, FS_AddElement
    <3>3. k # n /\ k + 1 \in 1..n
      <4>1. Cardinality(B) <= n
        BY <1>1, <3>1, FS_Subset, Zenon
      <4> QED BY <2>1, <3>2, <4>1
    <3>4. Sum(up, B) = up[b] + Sum(up, A)
      <4>1. \A i \in S : up[i] \in Int
        BY <1>2
      <4>2. Sum(up, B) = up[b] + Sum(up, B \ {b})
        BY <3>1, <4>1, SumRemove
      <4> QED BY <3>1, <4>2, Zenon
    <3>5. Sum(up, B) = Sum(lv, B) + Sum(w, B) /\ Sum(lv, B) \in Int
          /\ Sum(w, B) \in Nat /\ Sum(w, B) <= total
      BY <1>3, <1>4, <1>5, <3>1
    <3>6. Sum(up, A) <= k * up[b]
      <4>1. \A i \in A : up[i] \in Int /\ up[i] <= up[b]
        BY <1>2
      <4>2. up[b] \in Int /\ A \in SUBSET A
        BY <1>2
      <4> QED BY <2>1, <4>1, <4>2, SumBound
    <3>7. den[k + 1] * Sum(lv, B) <= ((k + 1) * num[k + 1]) * total
      BY <2>3, <3>1, <3>2
    <3>8. /\ den[k] = (k + 1) * den[k + 1]
          /\ num[k] = (k + 1) * num[k + 1] + den[k + 1]
          /\ den[k + 1] \in Nat /\ num[k + 1] \in Nat
      BY <2>1, <3>3 DEF LagSteps
    <3>9. Sum(new, A) = Sum(up, A)
      BY <1>7, <2>6
    <3>10. up[b] \in Int
      BY <1>2
    <3>11. Sum(up, A) + up[b] = Sum(lv, B) + Sum(w, B)
      BY <2>4, <3>4, <3>5, <3>10
    <3>12. ((k + 1) * den[k + 1]) * Sum(up, A) <= (k * ((k + 1) * num[k + 1] + den[k + 1])) * total
      BY <1>6, <2>1, <2>4, <3>5, <3>6, <3>7, <3>8, <3>10, <3>11, BehindStep
    <3>13. den[k] * Sum(new, A) <= (k * num[k]) * total
      BY <3>8, <3>9, <3>12
    <3> QED BY <2>1, <3>13
  <2> QED BY <2>5, <2>6
<1> QED BY <1>10, <1>12, <1>13 DEF LevelsOK

(* A node is as far ahead as its picks exceed its share. *)
CountsOK(S, total, w, lv, pk) ==
  /\ Sum(pk, S) <= total
  /\ \A i \in S : lv[i] = Sum(pk, S) * w[i] - pk[i] * total

(* After as many picks as the weights add up to, no node has more than its *)
(* weight, and so each has exactly that.                                   *)
LEMMA CycleEnds ==
  ASSUME NEW S, IsFiniteSet(S), NEW w, NEW lv, NEW pk,
         NEW total \in Nat, total >= 1, Sum(w, S) = total, Sum(pk, S) = total,
         \A i \in S : w[i] \in Nat /\ pk[i] \in Nat /\ lv[i] > -total,
         CountsOK(S, total, w, lv, pk)
  PROVE  \A i \in S : pk[i] = w[i]
<1>1. ASSUME NEW i \in S PROVE pk[i] <= w[i]
  <2>1. w[i] \in Nat /\ pk[i] \in Nat
    BY <1>1
  <2>2. total * w[i] - pk[i] * total > -total
    BY <1>1 DEF CountsOK
  <2> SUFFICES ASSUME w[i] + 1 <= pk[i] PROVE FALSE
    BY <2>1
  <2>3. total * (w[i] + 1) <= total * pk[i]
    BY <2>1, Scaled
  <2>4. total * (w[i] + 1) = total * w[i] + total /\ total * pk[i] = pk[i] * total
    BY <2>1
  <2>5. total * w[i] \in Int /\ pk[i] * total \in Int
    BY <2>1
  <2> QED BY <2>2, <2>3, <2>4, <2>5
<1>2. \A i \in S : pk[i] \in Int /\ w[i] \in Int /\ pk[i] <= w[i]
  BY <1>1
<1>3. Sum(pk, S) = Sum(w, S)
  OBVIOUS
<1> QED BY <1>2, <1>3, SumTight

(* One more of x. *)
LEMMA OneMore ==
  ASSUME NEW a \in Int, NEW x \in Int PROVE (a + 1) * x = a * x + x
OBVIOUS

(* One more pick of b within a cycle. *)
LEMMA PickCounts ==
  ASSUME NEW S, IsFiniteSet(S), NEW w, NEW lv, NEW pk, NEW new, NEW pk2, NEW b \in S,
         NEW total \in Nat, Sum(pk, S) # total,
         \A i \in S : w[i] \in Nat /\ pk[i] \in Nat /\ lv[i] \in Int,
         CountsOK(S, total, w, lv, pk),
         new[b] = lv[b] + w[b] - total,
         \A i \in S \ {b} : new[i] = lv[i] + w[i],
         pk2[b] = pk[b] + 1,
         \A i \in S \ {b} : pk2[i] = pk[i]
  PROVE  CountsOK(S, total, w, new, pk2)
<1>1. PICK p \in Nat : p = Sum(pk, S)
  BY SumSubset
<1>2. Sum(pk2, S) = p + 1
  <2>1. DifferAt(S, pk, pk2, b)
    BY DEF DifferAt
  <2>2. Sum(pk2, S) = Sum(pk, S) + (pk2[b] - pk[b])
    BY <2>1, SumChange
  <2> QED BY <1>1, <2>1, <2>2
<1>3. p + 1 <= total
  BY <1>1 DEF CountsOK
<1>4. ASSUME NEW i \in S PROVE new[i] = (p + 1) * w[i] - pk2[i] * total
  <2>1. w[i] \in Nat /\ pk[i] \in Nat /\ lv[i] \in Int /\ lv[i] = p * w[i] - pk[i] * total
    BY <1>1, <1>4 DEF CountsOK
  <2>2. (p + 1) * w[i] = p * w[i] + w[i] /\ (pk[i] + 1) * total = pk[i] * total + total
    <3>1. w[i] \in Int /\ pk[i] \in Int /\ p \in Int /\ total \in Int
      BY <1>1, <2>1
    <3> QED BY <3>1, OneMore, Zenon
  <2>3. p * w[i] \in Int /\ pk[i] * total \in Int
    BY <1>1, <2>1
  <2>6. CASE i = b
    BY <2>1, <2>2, <2>3, <2>6
  <2>7. CASE i # b
    <3>1. new[i] = lv[i] + w[i] /\ pk2[i] = pk[i]
      BY <1>4, <2>7
    <3> QED BY <2>1, <2>2, <2>3, <3>1
  <2> QED BY <2>6, <2>7
<1> QED BY <1>2, <1>3, <1>4 DEF CountsOK

(* Sums of zeros. *)
LEMMA SumZero ==
  ASSUME NEW S, IsFiniteSet(S), NEW f, \A i \in S : f[i] = 0
  PROVE  \A A \in SUBSET S : Sum(f, A) = 0
<1>1. \A i \in S : f[i] \in Int /\ f[i] = f[i] + f[i]
  OBVIOUS
<1>2. \A A \in SUBSET S : Sum(f, A) = Sum(f, A) + Sum(f, A)
  BY <1>1, SumPlus
<1>3. \A A \in SUBSET S : Sum(f, A) \in Int
  BY <1>1, SumType
<1> QED BY <1>2, <1>3

(* With all levels at zero everything is in order. *)
LEMMA ZeroLevels ==
  ASSUME NEW S, IsFiniteSet(S), NEW total \in Nat, S # {} => total >= 1,
         NEW lv, \A i \in S : lv[i] = 0
  PROVE  LevelsOK(S, total, lv)
<1>1. \A A \in SUBSET S : Sum(lv, A) = 0
  BY SumZero
<1>2. \A i \in S : lv[i] > -total
  OBVIOUS
<1>3. Behind(S, total, lv)
  <2> SUFFICES ASSUME NEW den, NEW num, LagSteps(Cardinality(S), den, num),
                      NEW A \in SUBSET S, A # {}
               PROVE  den[Cardinality(A)] * Sum(lv, A)
                        <= (Cardinality(A) * num[Cardinality(A)]) * total
    BY DEF Behind
  <2>1. PICK k \in Nat : k = Cardinality(A) /\ k \in 1..Cardinality(S)
    <3>1. IsFiniteSet(A) /\ Cardinality(A) <= Cardinality(S)
      BY FS_Subset
    <3>2. Cardinality(A) \in Nat /\ Cardinality(A) # 0 /\ Cardinality(S) \in Nat
      BY <3>1, FS_CardinalityType, FS_EmptySet
    <3> QED BY <3>1, <3>2
  <2>2. den[k] \in Nat /\ num[k] \in Nat
    BY <2>1 DEF LagSteps
  <2>3. den[k] * 0 = 0 /\ (k * num[k]) * total \in Nat
    BY <2>2, NatProduct
  <2> QED BY <1>1, <2>1, <2>3
<1> QED BY <1>1, <1>2, <1>3 DEF LevelsOK

(* The first pick of the next cycle. *)
LEMMA FirstCounts ==
  ASSUME NEW S, IsFiniteSet(S), NEW w, NEW new, NEW pk2, NEW b \in S,
         NEW total \in Nat, total >= 1, \A i \in S : w[i] \in Nat,
         new[b] = w[b] - total,
         \A i \in S \ {b} : new[i] = w[i],
         pk2[b] = 1,
         \A i \in S \ {b} : pk2[i] = 0
  PROVE  CountsOK(S, total, w, new, pk2)
<1> DEFINE zero == [i \in S |-> 0]
<1>1. \A i \in S : zero[i] = 0
  OBVIOUS
<1> HIDE DEF zero
<1>2. Sum(zero, S) = 0
  BY <1>1, SumZero
<1>3. CountsOK(S, total, w, zero, zero)
  <2>1. \A i \in S : 0 * w[i] - 0 * total = 0
    OBVIOUS
  <2> QED BY <1>1, <1>2, <2>1 DEF CountsOK
<1>4. \A i \in S : w[i] \in Nat /\ zero[i] \in Nat /\ zero[i] \in Int
  BY <1>1
<1>5. new[b] = zero[b] + w[b] - total /\ \A i \in S \ {b} : new[i] = zero[i] + w[i]
  BY <1>1
<1>6. pk2[b] = zero[b] + 1 /\ \A i \in S \ {b} : pk2[i] = zero[i]
  BY <1>1
<1>7. Sum(zero, S) # total
  BY <1>2
<1> QED BY <1>3, <1>4, <1>5, <1>6, <1>7, PickCounts, Zenon
=============================================================================
