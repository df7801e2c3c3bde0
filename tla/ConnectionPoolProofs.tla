------------------------ MODULE ConnectionPoolProofs ------------------------
(***************************************************************************)
(* Proofs of the safety invariants of ConnectionPool for any callers,      *)
(* targets and connections and for every cap.                              *)
(***************************************************************************)
EXTENDS ConnectionPool, FiniteSetTheorems, TLAPS

(* The provers of a leaf that names none, and the time each is given. *)
USE ZenonT(8), SMTT(40)

(* TypeOK without the upper bounds of the two counters, which follow from  *)
(* what they count; and what a caller refers to at each place.             *)
CallersInv ==
  /\ pc \in [Callers -> CallerPC]
  /\ want \in [Callers -> Targets \cup {NoTarget}]
  /\ held \in [Callers -> Conns \cup {NoConn}]
  /\ ctxDone \subseteq Callers
  /\ \A c \in Callers :
       /\ pc[c] # "idle" => want[c] \in Targets
       /\ pc[c] \in {"holding", "discarding"} => held[c] \in Conns
       /\ pc[c] \notin {"holding", "discarding"} => held[c] = NoConn

PoolInv ==
  /\ entries \in [Targets -> SUBSET Conns]
  /\ creating \in [Targets -> Nat]
  /\ active \in [Conns -> Nat]
  /\ expired \subseteq Conns
  /\ open \subseteq Conns
  /\ closed \in BOOLEAN
  /\ reaper \in {"running", "done"}
  /\ reaping \subseteq Conns
  /\ closing \subseteq Conns

Discards(c, k) == pc[c] = "discarding" /\ held[c] = k

(* Close is what empties the pool for good, and the closer and the callers *)
(* that discard a connection come after it.                                *)
ClosedInv ==
  /\ closed => \A t \in Targets : entries[t] = {}
  /\ closing # {} => closed
  /\ \A c \in Callers : pc[c] = "discarding" => closed

(* The owners of OneOwner exclude each other ... *)
Disjoint ==
  /\ \A t, u \in Targets : t # u => entries[t] \cap entries[u] = {}
  /\ \A t \in Targets : entries[t] \cap (reaping \cup closing) = {}
  /\ reaping \cap closing = {}
  /\ \A c \in Callers : pc[c] = "discarding" =>
       /\ held[c] \notin reaping \cup closing
       /\ \A d \in Callers \ {c} : ~Discards(d, held[c])

Owned(k) ==
  \/ \E t \in Targets : k \in entries[t]
  \/ k \in reaping
  \/ k \in closing
  \/ \E c \in Callers : Discards(c, k)

(* ... and own what is open. *)
OpenOwned == \A k \in Conns : k \in open <=> Owned(k)

OwnersInv == ClosedInv /\ Disjoint /\ OpenOwned

IInv ==
  /\ CallersInv
  /\ PoolInv
  /\ CapRespected
  /\ ActiveCountsHolders
  /\ LentStaysOpen
  /\ OwnersInv

-----------------------------------------------------------------------------
(* What a step of caller c leaves alone: the other callers, except that a  *)
(* broadcast sends the waiting ones round the loop.                        *)
StepOf(c) ==
  \A d \in Callers \ {c} :
    /\ pc'[d] = pc[d] \/ (pc[d] = "waiting" /\ pc'[d] = "acquiring")
    /\ want'[d] = want[d]
    /\ held'[d] = held[d]

One(b) == IF b THEN 1 ELSE 0

(* The size of a set of callers that one of them may leave or enter. *)
LEMMA CountStep ==
  ASSUME NEW S \in SUBSET Callers, NEW T \in SUBSET Callers, NEW c \in Callers,
         \A d \in Callers \ {c} : d \in S <=> d \in T
  PROVE  /\ Cardinality(S) \in Nat /\ Cardinality(T) \in Nat
         /\ Cardinality(T) = Cardinality(S) - One(c \in S) + One(c \in T)
         /\ c \in S => Cardinality(S) > 0
<1>1. IsFiniteSet(S) /\ IsFiniteSet(T)
  BY FS_Subset, PoolConstants DEF PoolConstants
<1>2. /\ Cardinality(S) \in Nat /\ Cardinality(T) \in Nat
      /\ Cardinality(S \ {c}) = Cardinality(S) - One(c \in S)
      /\ Cardinality(T \ {c}) = Cardinality(T) - One(c \in T)
  BY <1>1, FS_CardinalityType, FS_RemoveElement DEF One
<1>3. Cardinality(S \ {c}) = Cardinality(T \ {c})
  <2>1. S \ {c} = T \ {c}
    OBVIOUS
  <2> QED BY <2>1, Zenon
<1>4. c \in S => Cardinality(S) > 0
  BY <1>1, <1>2, FS_EmptySet
<1> QED BY <1>2, <1>3, <1>4 DEF One

(* The dialers of a target after a step of caller c. *)
LEMMA DialersStep ==
  ASSUME NEW c \in Callers, StepOf(c), NEW t \in Targets
  PROVE  /\ Cardinality(Dialers(t)) \in Nat
         /\ Cardinality(Dialers(t)') =
              Cardinality(Dialers(t)) - One(pc[c] = "dialing" /\ want[c] = t)
                                      + One(pc'[c] = "dialing" /\ want'[c] = t)
         /\ pc[c] = "dialing" /\ want[c] = t => Cardinality(Dialers(t)) > 0
<1> DEFINE S == Dialers(t)
           T == Dialers(t)'
<1>1. /\ S \in SUBSET Callers /\ T \in SUBSET Callers
      /\ \A d \in Callers \ {c} : d \in S <=> d \in T
      /\ c \in S <=> pc[c] = "dialing" /\ want[c] = t
      /\ c \in T <=> pc'[c] = "dialing" /\ want'[c] = t
  BY DEF Dialers, StepOf
<1> HIDE DEF S, T
<1>2. /\ Cardinality(S) \in Nat
      /\ Cardinality(T) = Cardinality(S) - One(c \in S) + One(c \in T)
      /\ c \in S => Cardinality(S) > 0
  BY <1>1, CountStep
<1> QED BY <1>1, <1>2 DEF S, T, One

(* The holders of a connection after a step of caller c. *)
LEMMA HoldersStep ==
  ASSUME NEW c \in Callers, StepOf(c), NEW k \in Conns
  PROVE  /\ Cardinality(Holders(k)) \in Nat
         /\ Cardinality(Holders(k)') =
              Cardinality(Holders(k)) - One(pc[c] = "holding" /\ held[c] = k)
                                      + One(pc'[c] = "holding" /\ held'[c] = k)
         /\ pc[c] = "holding" /\ held[c] = k => Cardinality(Holders(k)) > 0
<1> DEFINE S == Holders(k)
           T == Holders(k)'
<1>1. /\ S \in SUBSET Callers /\ T \in SUBSET Callers
      /\ \A d \in Callers \ {c} : d \in S <=> d \in T
      /\ c \in S <=> pc[c] = "holding" /\ held[c] = k
      /\ c \in T <=> pc'[c] = "holding" /\ held'[c] = k
  BY DEF Holders, StepOf
<1> HIDE DEF S, T
<1>2. /\ Cardinality(S) \in Nat
      /\ Cardinality(T) = Cardinality(S) - One(c \in S) + One(c \in T)
      /\ c \in S => Cardinality(S) > 0
  BY <1>1, CountStep
<1> QED BY <1>1, <1>2 DEF S, T, One

(* A step of a caller that neither starts nor ends a dial. *)
LEMMA CapKept ==
  ASSUME CapRespected, NEW c \in Callers, StepOf(c),
         pc[c] # "dialing", pc'[c] # "dialing",
         UNCHANGED <<entries, creating>>
  PROVE  CapRespected'
BY DialersStep DEF CapRespected, One

(* A step of a caller that neither borrows nor releases. *)
LEMMA ActiveKept ==
  ASSUME ActiveCountsHolders, NEW c \in Callers, StepOf(c),
         pc[c] # "holding", pc'[c] # "holding", active' = active
  PROVE  ActiveCountsHolders'
BY HoldersStep DEF ActiveCountsHolders, One

(* A step of a caller that does not borrow. *)
LEMMA LentKept ==
  ASSUME LentStaysOpen, NEW c \in Callers, StepOf(c),
         pc'[c] # "holding", UNCHANGED <<entries, open, closed>>
  PROVE  LentStaysOpen'
BY DEF LentStaysOpen, StepOf

(* A step of a caller in which no connection changes its owner. *)
LEMMA OwnersKept ==
  ASSUME OwnersInv, NEW c \in Callers, StepOf(c),
         pc[c] # "discarding", pc'[c] # "discarding",
         UNCHANGED <<entries, open, closed, reaping, closing>>
  PROVE  OwnersInv'
<1>1. \A d \in Callers : /\ pc'[d] = "discarding" <=> pc[d] = "discarding"
                         /\ pc'[d] = "discarding" => held'[d] = held[d]
  BY DEF StepOf
<1>2. \A d \in Callers, k \in Conns : Discards(d, k)' <=> Discards(d, k)
  BY <1>1 DEF Discards
<1>3. ClosedInv'
  BY <1>1 DEF OwnersInv, ClosedInv
<1>4. Disjoint'
  BY <1>1 DEF OwnersInv, Disjoint, Discards
<1>5. OpenOwned'
  BY <1>2 DEF OwnersInv, OpenOwned, Owned
<1> QED BY <1>3, <1>4, <1>5 DEF OwnersInv

-----------------------------------------------------------------------------
(* The initial states. *)
LEMMA InitInv == Init => IInv
<1> SUFFICES ASSUME Init PROVE IInv
  OBVIOUS
<1> USE PoolConstants DEF PoolConstants, Init
<1>1. CallersInv /\ PoolInv
  BY DEF CallersInv, CallerPC, PoolInv
<1>2. CapRespected
  <2>1. \A t \in Targets : Dialers(t) = {}
    BY DEF Dialers
  <2> QED BY <2>1, FS_EmptySet DEF CapRespected
<1>3. ActiveCountsHolders
  <2>1. \A k \in Conns : Holders(k) = {}
    BY DEF Holders
  <2> QED BY <2>1, FS_EmptySet DEF ActiveCountsHolders
<1>4. LentStaysOpen /\ OwnersInv
  BY DEF LentStaysOpen, OwnersInv, ClosedInv, Disjoint, OpenOwned, Owned, Discards
<1> QED BY <1>1, <1>2, <1>3, <1>4 DEF IInv

(* A caller comes to Acquire, waits there, or leaves it without having     *)
(* dialed or borrowed.                                                     *)
LEMMA WaitingInv ==
  ASSUME IInv, NEW c \in Callers,
         \/ \E t \in Targets : Call(c, t)
         \/ AcquireClosed(c) \/ AcquireGivesUp(c) \/ AcquireWaits(c)
  PROVE  IInv'
<1>1. /\ pc[c] \in {"idle", "acquiring"}
      /\ pc' = [pc EXCEPT ![c] = "idle"] \/ pc' = [pc EXCEPT ![c] = "acquiring"]
           \/ pc' = [pc EXCEPT ![c] = "waiting"]
      /\ UNCHANGED <<poolVars, open, closeVars>>
  BY DEF Call, AcquireClosed, AcquireGivesUp, AcquireWaits, AllDialing, Return
<1>2. StepOf(c)
  BY <1>1 DEF StepOf, Call, AcquireClosed, AcquireGivesUp, AcquireWaits, Return,
              IInv, CallersInv
<1>3. /\ pc[c] \notin {"dialing", "holding", "discarding"}
      /\ pc'[c] \notin {"dialing", "holding", "discarding"}
  BY <1>1 DEF IInv, CallersInv
<1>4. CallersInv'
  BY DEF IInv, CallersInv, CallerPC, Call, AcquireClosed, AcquireGivesUp,
         AcquireWaits, AllDialing, Return
<1>5. PoolInv'
  BY <1>1 DEF IInv, PoolInv, poolVars, closeVars
<1>6. CapRespected' /\ ActiveCountsHolders' /\ LentStaysOpen' /\ OwnersInv'
  BY <1>1, <1>2, <1>3, CapKept, ActiveKept, LentKept, OwnersKept
  DEF IInv, poolVars, closeVars
<1> QED BY <1>4, <1>5, <1>6 DEF IInv

(* Acquire lends connection k of the target to caller c. *)
LEMMA BorrowInv ==
  ASSUME IInv, NEW c \in Callers, pc[c] = "acquiring", ~closed,
         NEW k \in entries[want[c]], Borrow(c, k)
  PROVE  IInv'
<1>1. StepOf(c) /\ pc'[c] = "holding" /\ held'[c] = k /\ want'[c] = want[c]
  BY DEF Borrow, StepOf, IInv, CallersInv
<1>2. k \in Conns /\ want[c] \in Targets
  BY DEF IInv, CallersInv, PoolInv
<1>3. CallersInv'
  BY <1>2 DEF IInv, CallersInv, CallerPC, Borrow
<1>4. PoolInv'
  BY <1>2 DEF IInv, PoolInv, Borrow, closeVars
<1>5. CapRespected'
  BY <1>1, CapKept DEF IInv, Borrow
<1>6. ActiveCountsHolders'
  <2> SUFFICES ASSUME NEW j \in Conns PROVE active'[j] = Cardinality(Holders(j)')
    BY DEF ActiveCountsHolders
  <2>1. active'[j] = active[j] + One(j = k)
    BY DEF IInv, PoolInv, Borrow, One
  <2>2. Cardinality(Holders(j)') = Cardinality(Holders(j)) + One(j = k)
    BY <1>1, HoldersStep DEF One
  <2> QED BY <2>1, <2>2 DEF IInv, ActiveCountsHolders
<1>7. LentStaysOpen'
  <2>1. k \in open
    BY <1>2 DEF IInv, OwnersInv, OpenOwned, Owned
  <2> QED BY <1>1, <2>1 DEF IInv, LentStaysOpen, StepOf, Borrow, closeVars
<1>8. OwnersInv'
  BY <1>1, OwnersKept DEF IInv, Borrow, closeVars
<1> QED BY <1>3, <1>4, <1>5, <1>6, <1>7, <1>8 DEF IInv

(* Acquire finds room for one more dial. *)
LEMMA StartDialInv ==
  ASSUME IInv, NEW c \in Callers, StartDial(c)
  PROVE  IInv'
<1>1. /\ StepOf(c) /\ pc[c] = "acquiring" /\ pc'[c] = "dialing"
      /\ want'[c] = want[c] /\ want[c] \in Targets
  BY DEF StartDial, StepOf, IInv, CallersInv
<1>2. CallersInv'
  BY DEF IInv, CallersInv, CallerPC, StartDial
<1>3. PoolInv'
  BY <1>1 DEF IInv, PoolInv, StartDial, closeVars
<1>4. CapRespected'
  <2> SUFFICES ASSUME NEW t \in Targets
               PROVE  /\ Cardinality(entries'[t]) + creating'[t] <= MaxConnectionsPerTarget
                      /\ creating'[t] = Cardinality(Dialers(t)')
    BY DEF CapRespected
  <2>1. entries' = entries /\ creating'[t] = creating[t] + One(t = want[c])
    BY DEF IInv, PoolInv, StartDial, One
  <2>2. Cardinality(Dialers(t)') = Cardinality(Dialers(t)) + One(t = want[c])
    BY <1>1, DialersStep DEF One
  <2>3. Cardinality(entries[t]) \in Nat
    BY FS_Subset, FS_CardinalityType, PoolConstants DEF PoolConstants, IInv, PoolInv
  <2>4. t = want[c] => Cardinality(entries[t]) + creating[t] < MaxConnectionsPerTarget
    BY DEF StartDial, BelowMax
  <2> QED BY <2>1, <2>2, <2>3, <2>4, PoolConstants
          DEF PoolConstants, IInv, PoolInv, CapRespected, One
<1>5. ActiveCountsHolders' /\ LentStaysOpen' /\ OwnersInv'
  BY <1>1, ActiveKept, LentKept, OwnersKept DEF IInv, StartDial, closeVars
<1> QED BY <1>2, <1>3, <1>4, <1>5 DEF IInv

(* A dial of caller c for its target has returned: its place in creating   *)
(* is free, and one connection may take it.                                *)
LEMMA DialEndsCap ==
  ASSUME CallersInv, PoolInv, CapRespected, NEW c \in Callers, StepOf(c),
         pc[c] = "dialing", pc'[c] # "dialing", DialFinished(want[c]),
         NEW k,
         \A t \in Targets : \/ entries'[t] = entries[t]
                            \/ t = want[c] /\ entries'[t] = entries[t] \cup {k}
  PROVE  CapRespected'
<1> SUFFICES ASSUME NEW t \in Targets
             PROVE  /\ Cardinality(entries'[t]) + creating'[t] <= MaxConnectionsPerTarget
                    /\ creating'[t] = Cardinality(Dialers(t)')
  BY DEF CapRespected
<1>1. /\ Cardinality(Dialers(t)') = Cardinality(Dialers(t)) - One(t = want[c])
      /\ t = want[c] => creating[t] > 0
  BY DialersStep DEF CapRespected, One
<1>2. creating'[t] = creating[t] - One(t = want[c])
  BY <1>1 DEF DialFinished, PoolInv, One
<1>3. IsFiniteSet(entries[t])
  BY FS_Subset, PoolConstants DEF PoolConstants, PoolInv
<1>4. /\ Cardinality(entries[t]) \in Nat
      /\ Cardinality(entries[t] \cup {k}) \in Nat
      /\ Cardinality(entries[t] \cup {k}) <= Cardinality(entries[t]) + 1
  <2>1. Cardinality(entries[t]) \in Nat
    BY <1>3, FS_CardinalityType
  <2>2. Cardinality(entries[t] \cup {k}) =
          IF k \in entries[t] THEN Cardinality(entries[t]) ELSE Cardinality(entries[t]) + 1
    BY <1>3, FS_AddElement, Zenon
  <2> QED BY <2>1, <2>2
<1>5. /\ Cardinality(entries'[t]) \in Nat
      /\ Cardinality(entries'[t]) <= Cardinality(entries[t]) + One(t = want[c])
  <2>1. CASE entries'[t] = entries[t]
    BY <1>4, <2>1 DEF One
  <2>2. CASE t = want[c] /\ entries'[t] = entries[t] \cup {k}
    BY <1>4, <2>2 DEF One
  <2> QED BY <2>1, <2>2
<1> QED BY <1>1, <1>2, <1>4, <1>5, PoolConstants
        DEF PoolConstants, CapRespected, PoolInv, One

(* creating stays a natural number. *)
LEMMA DialFinishedType ==
  ASSUME PoolInv, NEW t \in Targets, DialFinished(t)
  PROVE  creating' \in [Targets -> Nat]
<1> DEFINE n == IF creating[t] > 0 THEN creating[t] - 1 ELSE creating[t]
<1>1. creating' = [creating EXCEPT ![t] = n]
  BY DEF DialFinished, PoolInv
<1>2. n \in Nat
  BY DEF PoolInv
<1> HIDE DEF n
<1> QED BY <1>1, <1>2 DEF PoolInv

(* A dial fails, also after Close. *)
LEMMA DialFailsInv ==
  ASSUME IInv, NEW c \in Callers, DialGaveNothing(c)
  PROVE  IInv'
<1>1. StepOf(c) /\ pc[c] = "dialing" /\ pc'[c] = "idle" /\ want[c] \in Targets
  BY DEF DialGaveNothing, Broadcast, StepOf, IInv, CallersInv
<1>2. CallersInv'
  BY DEF IInv, CallersInv, CallerPC, DialGaveNothing, Broadcast
<1>3. PoolInv'
  BY <1>1, DialFinishedType DEF IInv, PoolInv, DialGaveNothing, closeVars
<1>4. CapRespected'
  BY <1>1, DialEndsCap DEF IInv, DialGaveNothing
<1>5. ActiveCountsHolders' /\ LentStaysOpen' /\ OwnersInv'
  BY <1>1, ActiveKept, LentKept, OwnersKept DEF IInv, DialGaveNothing, closeVars
<1> QED BY <1>2, <1>3, <1>4, <1>5 DEF IInv

(* A new connection is referred to by nobody. *)
LEMMA DialedIsNew ==
  ASSUME NEW k \in Conns, Dialed(k), OwnersInv
  PROVE  /\ k \notin open /\ ~Owned(k)
         /\ \A c \in Callers : held[c] # k
<1>1. k \in Unused
  BY DEF Dialed
<1> QED BY <1>1 DEF Unused, OwnersInv, OpenOwned

(* A dial succeeds and its connection is pooled and lent to the caller. *)
LEMMA DialSucceedsInv ==
  ASSUME IInv, NEW c \in Callers, NEW k \in Conns, DialSucceeds(c, k)
  PROVE  IInv'
<1>1. /\ StepOf(c) /\ pc[c] = "dialing" /\ pc'[c] = "holding"
      /\ held'[c] = k /\ want'[c] = want[c] /\ want[c] \in Targets
  BY DEF DialSucceeds, Broadcast, StepOf, IInv, CallersInv
<1>2. k \notin open /\ ~Owned(k) /\ \A d \in Callers : held[d] # k
  BY DialedIsNew DEF DialSucceeds, IInv
<1>3. CallersInv'
  BY DEF IInv, CallersInv, CallerPC, DialSucceeds, Broadcast
<1>4. PoolInv'
  BY <1>1, DialFinishedType DEF IInv, PoolInv, DialSucceeds, closeVars
<1>5. CapRespected'
  <2>1. ASSUME NEW t \in Targets
        PROVE  entries'[t] = IF t = want[c] THEN entries[t] \cup {k} ELSE entries[t]
    BY <1>1, <2>1 DEF PoolInv, IInv, DialSucceeds
  <2> QED BY <1>1, <2>1, DialEndsCap DEF IInv, DialSucceeds
<1>6. ActiveCountsHolders'
  <2> SUFFICES ASSUME NEW j \in Conns PROVE active'[j] = Cardinality(Holders(j)')
    BY DEF ActiveCountsHolders
  <2>1. Cardinality(Holders(j)') = Cardinality(Holders(j)) + One(j = k)
    BY <1>1, HoldersStep DEF One
  <2>2. CASE j = k
    <3>1. Holders(k) = {}
      BY <1>2 DEF Holders
    <3>2. Cardinality(Holders(k)) = 0
      BY <3>1, FS_EmptySet
    <3> QED BY <2>1, <2>2, <3>2 DEF IInv, PoolInv, DialSucceeds, One
  <2>3. CASE j # k
    BY <2>1, <2>3, HoldersStep, <1>1
    DEF IInv, PoolInv, ActiveCountsHolders, DialSucceeds, One
  <2> QED BY <2>2, <2>3
<1>7. LentStaysOpen'
  <2> SUFFICES ASSUME NEW d \in Callers, pc'[d] = "holding"
               PROVE  held'[d] \in entries'[want'[d]] \cap open'
    BY DEF LentStaysOpen
  <2>1. CASE d = c
    BY <1>1, <2>1 DEF DialSucceeds, IInv, PoolInv
  <2>2. CASE d # c
    <3>1. pc[d] = "holding" /\ held'[d] = held[d] /\ want'[d] = want[d] /\ want[d] \in Targets
      BY <1>1, <2>2 DEF StepOf, IInv, CallersInv
    <3> QED BY <3>1 DEF DialSucceeds, IInv, LentStaysOpen, PoolInv
  <2> QED BY <2>1, <2>2
<1>8. OwnersInv'
  <2>1. /\ entries' = [entries EXCEPT ![want[c]] = @ \cup {k}]
        /\ open' = open \cup {k}
        /\ ~closed /\ UNCHANGED <<closed, reaping, closing>>
    BY DEF DialSucceeds, closeVars
  <2>2. \A d \in Callers : pc[d] # "discarding" /\ pc'[d] # "discarding"
    BY <1>1, <2>1 DEF StepOf, IInv, OwnersInv, ClosedInv
  <2>3. \A t \in Targets : k \notin entries[t]
    BY <1>2 DEF Owned
  <2>4. k \notin reaping /\ k \notin closing
    BY <1>2 DEF Owned
  <2>5. \A t \in Targets : entries'[t] = IF t = want[c] THEN entries[t] \cup {k}
                                         ELSE entries[t]
    BY <2>1 DEF IInv, PoolInv
  <2>6. ClosedInv'
    BY <2>1, <2>2 DEF ClosedInv, IInv, OwnersInv
  <2>7. Disjoint'
    BY <2>1, <2>2, <2>3, <2>4, <2>5 DEF Disjoint, IInv, OwnersInv
  <2>8. OpenOwned'
    BY <1>1, <2>1, <2>2, <2>5 DEF OpenOwned, Owned, Discards, IInv, OwnersInv
  <2> QED BY <2>6, <2>7, <2>8 DEF OwnersInv
<1> QED BY <1>3, <1>4, <1>5, <1>6, <1>7, <1>8 DEF IInv

(* A dial succeeds after Close. *)
LEMMA DialTooLateInv ==
  ASSUME IInv, NEW c \in Callers, NEW k \in Conns, DialTooLate(c, k)
  PROVE  IInv'
<1>1. /\ StepOf(c) /\ pc[c] = "dialing" /\ pc'[c] = "discarding"
      /\ held'[c] = k /\ want'[c] = want[c] /\ want[c] \in Targets
  BY DEF DialTooLate, Broadcast, StepOf, IInv, CallersInv
<1>2. k \notin open /\ ~Owned(k) /\ \A d \in Callers : held[d] # k
  BY DialedIsNew DEF DialTooLate, IInv
<1>3. CallersInv'
  BY DEF IInv, CallersInv, CallerPC, DialTooLate, Broadcast
<1>4. PoolInv'
  BY <1>1, DialFinishedType DEF IInv, PoolInv, DialTooLate, closeVars
<1>5. CapRespected'
  BY <1>1, DialEndsCap DEF IInv, DialTooLate
<1>6. ActiveCountsHolders'
  BY <1>1, ActiveKept DEF IInv, DialTooLate
<1>7. LentStaysOpen'
  BY DEF LentStaysOpen, DialTooLate, closeVars
<1>8. OwnersInv'
  <2>1. /\ open' = open \cup {k}
        /\ closed /\ UNCHANGED <<closed, entries, reaping, closing>>
    BY DEF DialTooLate, closeVars
  <2>2. \A d \in Callers \ {c} : /\ pc'[d] = "discarding" <=> pc[d] = "discarding"
                                 /\ held'[d] = held[d]
    BY <1>1 DEF StepOf
  <2>3. ClosedInv'
    BY <2>1 DEF ClosedInv, IInv, OwnersInv
  <2>4. Disjoint'
    BY <1>1, <1>2, <2>1, <2>2 DEF Disjoint, Discards, Owned, IInv, OwnersInv
  <2>5. ASSUME NEW j \in Conns PROVE Owned(j)' <=> Owned(j) \/ j = k
    BY <1>1, <2>1, <2>2, <2>5 DEF Owned, Discards
  <2>6. OpenOwned'
    BY <2>1, <2>5 DEF OpenOwned, IInv, OwnersInv
  <2> QED BY <2>3, <2>4, <2>6 DEF OwnersInv
<1> QED BY <1>3, <1>4, <1>5, <1>6, <1>7, <1>8 DEF IInv

(* The connection of that dial is closed. *)
LEMMA DiscardInv ==
  ASSUME IInv, NEW c \in Callers, Discard(c)
  PROVE  IInv'
<1>1. /\ StepOf(c) /\ pc[c] = "discarding" /\ pc'[c] = "idle" /\ held[c] \in Conns
      /\ closed /\ open' = open \ {held[c]}
      /\ UNCHANGED <<poolVars, closeVars>>
  BY DEF Discard, Return, StepOf, IInv, CallersInv, OwnersInv, ClosedInv
<1>2. CallersInv'
  BY DEF IInv, CallersInv, CallerPC, Discard, Return
<1>3. PoolInv'
  BY <1>1 DEF IInv, PoolInv, poolVars, closeVars
<1>4. CapRespected' /\ ActiveCountsHolders'
  BY <1>1, CapKept, ActiveKept DEF IInv, poolVars
<1>5. LentStaysOpen'
  BY <1>1 DEF LentStaysOpen, closeVars
<1>6. OwnersInv'
  <2>1. \A d \in Callers : /\ pc'[d] = "discarding" <=> pc[d] = "discarding" /\ d # c
                           /\ d # c => held'[d] = held[d]
    BY <1>1 DEF StepOf
  <2>2. UNCHANGED <<closed, entries, reaping, closing>>
    BY <1>1 DEF poolVars, closeVars
  <2>3. ClosedInv'
    BY <2>1, <2>2 DEF ClosedInv, IInv, OwnersInv
  <2>4. Disjoint'
    BY <2>1, <2>2 DEF Disjoint, Discards, IInv, OwnersInv
  <2>5. ASSUME NEW j \in Conns PROVE Owned(j)' <=> Owned(j) /\ j # held[c]
    <3>1. \A d \in Callers : Discards(d, j)' <=> Discards(d, j) /\ d # c
      BY <2>1 DEF Discards
    <3>2. j = held[c] => /\ j \notin reaping /\ j \notin closing
                         /\ \A t \in Targets : j \notin entries[t]
                         /\ \A d \in Callers : Discards(d, j) => d = c
      BY <1>1 DEF IInv, OwnersInv, ClosedInv, Disjoint
    <3>3. j # held[c] => ~Discards(c, j)
      BY DEF Discards
    <3> QED BY <2>2, <3>1, <3>2, <3>3 DEF Owned
  <2>6. OpenOwned'
    BY <1>1, <2>5 DEF OpenOwned, IInv, OwnersInv
  <2> QED BY <2>3, <2>4, <2>6 DEF OwnersInv
<1> QED BY <1>2, <1>3, <1>4, <1>5, <1>6 DEF IInv

(* A borrowed connection is given back. *)
LEMMA ReleaseInv ==
  ASSUME IInv, NEW c \in Callers, Release(c)
  PROVE  IInv'
<1> DEFINE k == held[c]
           n == IF active[k] > 0 THEN active[k] - 1 ELSE active[k]
<1>1. StepOf(c) /\ pc[c] = "holding" /\ pc'[c] = "idle" /\ k \in Conns
  BY DEF Release, Return, StepOf, IInv, CallersInv
<1>2. active' = [active EXCEPT ![k] = n] /\ n \in Nat
  BY <1>1 DEF Release, IInv, PoolInv
<1>3. CallersInv'
  BY DEF IInv, CallersInv, CallerPC, Release, Return
<1>4. PoolInv'
  <2>1. active' \in [Conns -> Nat]
    BY <1>2 DEF IInv, PoolInv
  <2> QED BY <2>1 DEF IInv, PoolInv, Release, closeVars
<1>5. CapRespected'
  BY <1>1, CapKept DEF IInv, Release
<1>6. ActiveCountsHolders'
  <2> SUFFICES ASSUME NEW j \in Conns PROVE active'[j] = Cardinality(Holders(j)')
    BY DEF ActiveCountsHolders
  <2>1. /\ Cardinality(Holders(j)') = Cardinality(Holders(j)) - One(j = k)
        /\ j = k => Cardinality(Holders(j)) > 0
    BY <1>1, HoldersStep DEF One
  <2>2. active[j] = Cardinality(Holders(j)) /\ active[j] \in Nat
    BY DEF IInv, ActiveCountsHolders, PoolInv
  <2>3. active'[j] = active[j] - One(j = k)
    BY <1>2, <2>1, <2>2 DEF IInv, PoolInv, One
  <2> QED BY <2>1, <2>2, <2>3
<1>7. LentStaysOpen' /\ OwnersInv'
  BY <1>1, LentKept, OwnersKept DEF IInv, Release, closeVars
<1> QED BY <1>3, <1>4, <1>5, <1>6, <1>7 DEF IInv

-----------------------------------------------------------------------------
(* A step of the reaper, the closer or time keeps what the invariant says  *)
(* of the callers and their counters.                                      *)
LEMMA CountersKept ==
  ASSUME IInv, UNCHANGED <<callerVars, active>>
  PROVE  /\ CallersInv' /\ ActiveCountsHolders'
         /\ \A t \in Targets : Cardinality(Dialers(t)') = Cardinality(Dialers(t))
<1>1. UNCHANGED <<pc, want, held, ctxDone, active>>
  BY DEF callerVars
<1>2. \A t \in Targets : Dialers(t)' = Dialers(t)
  BY <1>1 DEF Dialers
<1>3. \A k \in Conns : Holders(k)' = Holders(k)
  BY <1>1 DEF Holders
<1>4. CallersInv'
  BY <1>1 DEF IInv, CallersInv
<1> QED BY <1>1, <1>2, <1>3, <1>4 DEF IInv, ActiveCountsHolders

(* A connection in use is not idle. *)
LEMMA HeldIsActive ==
  ASSUME IInv, NEW c \in Callers, pc[c] = "holding"
  PROVE  active[held[c]] # 0
<1>1. held[c] \in Conns
  BY DEF IInv, CallersInv
<1>2. Holders(held[c]) \in SUBSET Callers /\ c \in Holders(held[c])
  BY DEF Holders
<1>3. Cardinality(Holders(held[c])) > 0
  BY <1>2, CountStep
<1> QED BY <1>1, <1>3 DEF IInv, ActiveCountsHolders

(* Time passes for a pooled connection, a context ends, or the reaper ends. *)
LEMMA QuietInv ==
  ASSUME IInv,
         \/ \E k \in Conns : MaxIdleTimePasses(k)
         \/ \E c \in Callers : CtxExpires(c)
         \/ ReaperStops
  PROVE  IInv'
<1>1. /\ UNCHANGED <<pc, want, held, entries, creating, active, open, closed, reaping, closing>>
      /\ ctxDone' \subseteq Callers /\ expired' \subseteq Conns
      /\ reaper' \in {"running", "done"}
  BY DEF MaxIdleTimePasses, CtxExpires, ReaperStops, callerVars, poolVars, closeVars,
         IInv, CallersInv, PoolInv
<1>2. CallersInv' /\ PoolInv'
  BY <1>1 DEF IInv, CallersInv, PoolInv
<1>3. CapRespected'
  BY <1>1 DEF IInv, CapRespected, Dialers
<1>4. ActiveCountsHolders'
  BY <1>1 DEF IInv, ActiveCountsHolders, Holders
<1>5. LentStaysOpen'
  BY <1>1 DEF IInv, LentStaysOpen
<1>6. OwnersInv'
  BY <1>1 DEF IInv, OwnersInv, ClosedInv, Disjoint, OpenOwned, Owned, Discards
<1> QED BY <1>2, <1>3, <1>4, <1>5, <1>6 DEF IInv

(* The reaper, or the closer, closes a connection it took out. *)
LEMMA ClosesInv ==
  ASSUME IInv, NEW k \in Conns, ReaperCloses(k) \/ CloserCloses(k)
  PROVE  IInv'
<1>1. /\ UNCHANGED <<callerVars, poolVars, closed, reaper>>
      /\ open' = open \ {k}
      /\ \/ k \in reaping /\ reaping' = reaping \ {k} /\ closing' = closing
         \/ k \in closing /\ closing' = closing \ {k} /\ reaping' = reaping
  BY DEF ReaperCloses, CloserCloses
<1>2. UNCHANGED <<pc, held, want, entries, creating, active>>
  BY <1>1 DEF callerVars, poolVars
<1>3. CallersInv' /\ ActiveCountsHolders'
  BY <1>1, <1>2, CountersKept
<1>4. PoolInv'
  BY <1>1 DEF IInv, PoolInv, poolVars
<1>5. CapRespected'
  BY <1>1, <1>2, CountersKept DEF IInv, CapRespected
<1>6. k \in reaping \cup closing /\ \A t \in Targets : k \notin entries[t]
  BY <1>1 DEF IInv, OwnersInv, Disjoint
<1>7. LentStaysOpen'
  <2> SUFFICES ASSUME ~closed, NEW c \in Callers, pc[c] = "holding"
               PROVE  held[c] \in entries[want[c]] \cap (open \ {k})
    BY <1>1, <1>2 DEF LentStaysOpen
  <2>1. held[c] \in entries[want[c]] \cap open /\ want[c] \in Targets
    BY DEF IInv, LentStaysOpen, CallersInv
  <2> QED BY <1>6, <2>1
<1>8. OwnersInv'
  <2>1. ClosedInv'
    BY <1>1, <1>2 DEF IInv, OwnersInv, ClosedInv
  <2>2. Disjoint'
    BY <1>1, <1>2 DEF IInv, OwnersInv, Disjoint, Discards
  <2>3. ASSUME NEW j \in Conns PROVE Owned(j)' <=> Owned(j) /\ j # k
    <3>1. ~\E c \in Callers : Discards(c, k)
      BY <1>6 DEF IInv, OwnersInv, Disjoint, Discards
    <3>2. ~(k \in reaping /\ k \in closing)
      BY DEF IInv, OwnersInv, Disjoint
    <3>3. \A c \in Callers : Discards(c, j)' <=> Discards(c, j)
      BY <1>2 DEF Discards
    <3> QED BY <1>1, <1>2, <1>6, <3>1, <3>2, <3>3 DEF Owned
  <2>4. OpenOwned'
    BY <1>1, <2>3 DEF IInv, OwnersInv, OpenOwned
  <2> QED BY <2>1, <2>2, <2>4 DEF OwnersInv
<1> QED BY <1>3, <1>4, <1>5, <1>7, <1>8 DEF IInv

(* ReapIdle takes out what is idle for too long, and nothing in use. *)
LEMMA ReapIdleInv ==
  ASSUME IInv, ReapIdle
  PROVE  IInv'
<1>1. /\ UNCHANGED <<callerVars, active, open, closed, reaper, closing>>
      /\ reaping = {} /\ reaping' = UNION {Reapable(t) : t \in Targets}
      /\ entries' = [t \in Targets |-> entries[t] \ Reapable(t)]
      /\ expired' = expired \ reaping'
  BY DEF ReapIdle
<1>2. UNCHANGED <<pc, held, want>>
  BY <1>1 DEF callerVars
<1>3. \A t \in Targets : Reapable(t) \subseteq entries[t]
  BY DEF Reapable
<1>4. creating' = creating
  BY DEF ReapIdle, Forgotten, IInv, PoolInv
<1>5. CallersInv' /\ ActiveCountsHolders'
  BY <1>1, CountersKept
<1>6. PoolInv'
  <2>1. reaping' \subseteq Conns
    BY <1>1, <1>3 DEF IInv, PoolInv
  <2>2. entries' \in [Targets -> SUBSET Conns]
    BY <1>1 DEF IInv, PoolInv
  <2> QED BY <1>1, <1>4, <2>1, <2>2 DEF IInv, PoolInv
<1>7. CapRespected'
  <2> SUFFICES ASSUME NEW t \in Targets
               PROVE  /\ Cardinality(entries'[t]) + creating[t] <= MaxConnectionsPerTarget
                      /\ creating[t] = Cardinality(Dialers(t)')
    BY <1>4 DEF CapRespected
  <2>1. IsFiniteSet(entries[t]) /\ entries'[t] \in SUBSET entries[t]
    BY <1>1, FS_Subset, PoolConstants DEF PoolConstants, IInv, PoolInv
  <2>2. /\ Cardinality(entries[t]) \in Nat /\ Cardinality(entries'[t]) \in Nat
        /\ Cardinality(entries'[t]) <= Cardinality(entries[t])
    BY <2>1, FS_Subset, FS_CardinalityType
  <2>3. Cardinality(Dialers(t)') = Cardinality(Dialers(t))
    BY <1>1, CountersKept
  <2> QED BY <2>2, <2>3, PoolConstants DEF PoolConstants, IInv, PoolInv, CapRespected
<1>8. LentStaysOpen'
  <2> SUFFICES ASSUME ~closed, NEW c \in Callers, pc[c] = "holding"
               PROVE  held[c] \in entries'[want[c]] \cap open
    BY <1>1, <1>2 DEF LentStaysOpen
  <2>1. held[c] \in entries[want[c]] \cap open /\ want[c] \in Targets
    BY DEF IInv, LentStaysOpen, CallersInv
  <2>2. held[c] \notin Reapable(want[c])
    BY HeldIsActive DEF Reapable
  <2> QED BY <1>1, <2>1, <2>2
<1>9. OwnersInv'
  <2>1. \A j \in Conns : j \in reaping' <=> \E t \in Targets : j \in Reapable(t)
    BY <1>1
  <2>2. ClosedInv'
    BY <1>1, <1>2, <1>3 DEF IInv, OwnersInv, ClosedInv
  <2>3. Disjoint'
    <3>1. \A t \in Targets : entries'[t] \cap reaping' = {}
      BY <1>1, <1>3 DEF IInv, OwnersInv, Disjoint
    <3>2. \A j \in reaping' : \E t \in Targets : j \in entries[t]
      BY <1>1, <1>3
    <3>3. \A c \in Callers : pc[c] = "discarding" => held[c] \notin reaping'
      BY <3>2 DEF IInv, OwnersInv, ClosedInv
    <3> QED BY <1>1, <1>2, <3>1, <3>2, <3>3 DEF IInv, OwnersInv, Disjoint, Discards
  <2>4. ASSUME NEW j \in Conns PROVE Owned(j)' <=> Owned(j)
    <3>1. \A c \in Callers : Discards(c, j)' <=> Discards(c, j)
      BY <1>2 DEF Discards
    <3> QED BY <1>1, <1>3, <2>1, <3>1 DEF Owned
  <2>5. OpenOwned'
    BY <1>1, <2>4 DEF IInv, OwnersInv, OpenOwned
  <2> QED BY <2>2, <2>3, <2>5 DEF OwnersInv
<1> QED BY <1>5, <1>6, <1>7, <1>8, <1>9 DEF IInv

(* Close takes everything out. *)
LEMMA CloseInv ==
  ASSUME IInv, Close
  PROVE  IInv'
<1>1. /\ ~closed /\ closed' = TRUE
      /\ closing' = UNION {entries[t] : t \in Targets}
      /\ entries' = [t \in Targets |-> {}]
      /\ expired' = {}
      /\ UNCHANGED <<want, held, ctxDone, creating, active, open, reaper, reaping>>
  BY DEF Close
<1>2. \A c \in Callers : \/ pc'[c] = pc[c]
                         \/ pc[c] = "waiting" /\ pc'[c] = "acquiring"
  BY DEF Close
<1>3. CallersInv'
  BY <1>1 DEF IInv, CallersInv, CallerPC, Close
<1>4. PoolInv'
  BY <1>1 DEF IInv, PoolInv
<1>5. CapRespected'
  <2> SUFFICES ASSUME NEW t \in Targets
               PROVE  /\ Cardinality(entries'[t]) + creating[t] <= MaxConnectionsPerTarget
                      /\ creating[t] = Cardinality(Dialers(t)')
    BY <1>1 DEF CapRespected
  <2>1. Dialers(t)' = Dialers(t)
    BY <1>1, <1>2 DEF Dialers
  <2>2. Cardinality(entries'[t]) = 0
    BY <1>1, FS_EmptySet
  <2>3. Cardinality(entries[t]) \in Nat
    BY FS_Subset, FS_CardinalityType, PoolConstants DEF PoolConstants, IInv, PoolInv
  <2> QED BY <2>1, <2>2, <2>3, PoolConstants DEF PoolConstants, IInv, PoolInv, CapRespected
<1>6. ActiveCountsHolders'
  <2>1. \A k \in Conns : Holders(k)' = Holders(k)
    BY <1>1, <1>2 DEF Holders
  <2> QED BY <1>1, <2>1 DEF IInv, ActiveCountsHolders
<1>7. LentStaysOpen'
  BY <1>1 DEF LentStaysOpen
<1>8. OwnersInv'
  <2>1. closing = {} /\ \A c \in Callers : pc[c] # "discarding" /\ pc'[c] # "discarding"
    BY <1>1, <1>2 DEF IInv, OwnersInv, ClosedInv
  <2>2. ClosedInv'
    BY <1>1 DEF ClosedInv
  <2>3. Disjoint'
    BY <1>1, <2>1 DEF Disjoint, IInv, OwnersInv
  <2>4. OpenOwned'
    BY <1>1, <2>1 DEF OpenOwned, Owned, Discards, IInv, OwnersInv
  <2> QED BY <2>2, <2>3, <2>4 DEF OwnersInv
<1> QED BY <1>3, <1>4, <1>5, <1>6, <1>7, <1>8 DEF IInv

-----------------------------------------------------------------------------
(* Every step preserves the invariant. *)
LEMMA NextInv == IInv /\ [Next]_vars => IInv'
<1> SUFFICES ASSUME IInv, [Next]_vars PROVE IInv'
  OBVIOUS
<1>1. ASSUME NEW c \in Callers, NEW t \in Targets, Call(c, t) PROVE IInv'
  BY <1>1, WaitingInv
<1>2. ASSUME NEW c \in Callers, Acquire(c) PROVE IInv'
  <2>1. CASE AcquireClosed(c) \/ AcquireGivesUp(c) \/ AcquireWaits(c)
    BY <1>2, <2>1, WaitingInv
  <2>2. CASE AcquireIdle(c)
    BY <1>2, <2>2, BorrowInv DEF AcquireIdle, Idle
  <2>3. CASE StartDial(c)
    BY <1>2, <2>3, StartDialInv
  <2>4. CASE AcquireShared(c)
    BY <1>2, <2>4, BorrowInv DEF AcquireShared, LeastActive
  <2> QED BY <1>2, <2>1, <2>2, <2>3, <2>4 DEF Acquire
<1>3. ASSUME NEW c \in Callers, DialReturns(c) PROVE IInv'
  BY <1>3, DialSucceedsInv, DialTooLateInv, DialFailsInv
     DEF DialReturns, DialFails, DialFailsTooLate
<1>4. ASSUME NEW c \in Callers, Discard(c) \/ Release(c) PROVE IInv'
  BY <1>4, DiscardInv, ReleaseInv
<1>5. ASSUME NEW c \in Callers, CtxExpires(c) PROVE IInv'
  BY <1>5, QuietInv
<1>6. ASSUME NEW k \in Conns, MaxIdleTimePasses(k) PROVE IInv'
  BY <1>6, QuietInv
<1>7. ASSUME NEW k \in Conns, ReaperCloses(k) \/ CloserCloses(k) PROVE IInv'
  BY <1>7, ClosesInv
<1>8. CASE ReapIdle \/ ReaperStops \/ Close
  BY <1>8, ReapIdleInv, QuietInv, CloseInv
<1>9. CASE UNCHANGED vars
  <2>1. UNCHANGED <<pc, want, held, ctxDone, entries, creating, active, expired, open,
                    closed, reaper, reaping, closing>>
    BY <1>9 DEF vars, callerVars, poolVars, closeVars
  <2>2. CallersInv' /\ PoolInv'
    BY <2>1 DEF IInv, CallersInv, PoolInv
  <2>3. CapRespected' /\ ActiveCountsHolders' /\ LentStaysOpen'
    BY <2>1 DEF IInv, CapRespected, Dialers, ActiveCountsHolders, Holders, LentStaysOpen
  <2>4. OwnersInv'
    BY <2>1 DEF IInv, OwnersInv, ClosedInv, Disjoint, OpenOwned, Owned, Discards
  <2> QED BY <2>2, <2>3, <2>4 DEF IInv
<1> QED BY <1>1, <1>2, <1>3, <1>4, <1>5, <1>6, <1>7, <1>8, <1>9 DEF Next

(* The inductive invariant of the pool: callers refer to what their place  *)
(* in Acquire and release says, both counters are exact, what is lent is   *)
(* pooled, and every open connection has one owner.                        *)
THEOREM Invariance == Spec => []IInv
<1>1. Init => IInv
  BY InitInv
<1>2. IInv /\ [Next]_vars => IInv'
  BY NextInv
<1> QED BY <1>1, <1>2, PTL DEF Spec

(* The pool never exceeds the cap of a target with its connections and     *)
(* dials, and creating counts the dials in flight.                         *)
THEOREM CapCorrect == Spec => []CapRespected
<1>1. IInv => CapRespected
  BY DEF IInv
<1> QED BY <1>1, Invariance, PTL

(* entry.active counts the borrowers of a connection. *)
THEOREM ActiveCorrect == Spec => []ActiveCountsHolders
<1>1. IInv => ActiveCountsHolders
  BY DEF IInv
<1> QED BY <1>1, Invariance, PTL

(* No connection is closed under its borrower while the pool is open. *)
THEOREM LentCorrect == Spec => []LentStaysOpen
<1>1. IInv => LentStaysOpen
  BY DEF IInv
<1> QED BY <1>1, Invariance, PTL

(* The owners of a connection, counted. *)
LEMMA OwnersCounted == IInv => OneOwner
<1> SUFFICES ASSUME IInv, NEW k \in Conns
             PROVE  Cardinality({t \in Targets : k \in entries[t]})
                      + Cardinality({S \in {"reaping", "closing"} :
                                       k \in IF S = "reaping" THEN reaping ELSE closing})
                      + Cardinality({c \in Callers : pc[c] = "discarding" /\ held[c] = k})
                      = IF k \in open THEN 1 ELSE 0
  BY DEF OneOwner
<1> DEFINE A == {t \in Targets : k \in entries[t]}
           B == {S \in {"reaping", "closing"} :
                   k \in IF S = "reaping" THEN reaping ELSE closing}
           D == {c \in Callers : pc[c] = "discarding" /\ held[c] = k}
<1>1. Cardinality({}) = 0 /\ \A x : Cardinality({x}) = 1
  BY FS_EmptySet, FS_Singleton
<1>2. A # {} => k \notin reaping /\ k \notin closing /\ D = {} /\ \E t : A = {t}
  BY DEF IInv, OwnersInv, ClosedInv, Disjoint
<1>3. /\ k \in reaping => B = {"reaping"} /\ A = {} /\ D = {}
      /\ k \in closing => B = {"closing"} /\ A = {} /\ D = {}
      /\ k \notin reaping /\ k \notin closing => B = {}
  BY DEF IInv, OwnersInv, Disjoint
<1>4. D # {} => A = {} /\ B = {} /\ \E c : D = {c}
  BY DEF IInv, OwnersInv, ClosedInv, Disjoint, Discards
<1>5. k \in open <=> A # {} \/ k \in reaping \/ k \in closing \/ D # {}
  BY DEF IInv, OwnersInv, OpenOwned, Owned, Discards
<1> HIDE DEF A, B, D
<1>6. Cardinality(A) + Cardinality(B) + Cardinality(D) = IF k \in open THEN 1 ELSE 0
  <2>1. (A = {} => Cardinality(A) = 0) /\ (A # {} => Cardinality(A) = 1)
    BY <1>1, <1>2, Zenon
  <2>2. (D = {} => Cardinality(D) = 0) /\ (D # {} => Cardinality(D) = 1)
    BY <1>1, <1>4, Zenon
  <2>3. /\ k \in reaping \/ k \in closing => Cardinality(B) = 1
        /\ k \notin reaping /\ k \notin closing => Cardinality(B) = 0
    BY <1>1, <1>3, Zenon
  <2> QED BY <1>2, <1>3, <1>4, <1>5, <2>1, <2>2, <2>3
<1> QED BY <1>6 DEF A, B, D

(* Every open connection has exactly one owner that will close it. *)
THEOREM OwnersCorrect == Spec => []OneOwner
<1>1. IInv => OneOwner
  BY OwnersCounted
<1> QED BY <1>1, Invariance, PTL

(* Every variable keeps its type; the counters keep within their bounds. *)
THEOREM TypeCorrect == Spec => []TypeOK
<1>1. IInv => TypeOK
  <2> SUFFICES ASSUME IInv PROVE TypeOK
    OBVIOUS
  <2>1. \A t \in Targets : creating[t] \in 0..MaxConnectionsPerTarget
    <3> SUFFICES ASSUME NEW t \in Targets
                 PROVE  creating[t] \in 0..MaxConnectionsPerTarget
      OBVIOUS
    <3>1. Cardinality(entries[t]) \in Nat
      BY FS_Subset, FS_CardinalityType, PoolConstants DEF PoolConstants, IInv, PoolInv
    <3> QED BY <3>1, PoolConstants DEF PoolConstants, IInv, PoolInv, CapRespected
  <2>2. \A k \in Conns : active[k] \in 0..Cardinality(Callers)
    <3> SUFFICES ASSUME NEW k \in Conns
                 PROVE  active[k] \in 0..Cardinality(Callers)
      OBVIOUS
    <3>1. Holders(k) \in SUBSET Callers
      BY DEF Holders
    <3>2. Cardinality(Holders(k)) <= Cardinality(Callers) /\ Cardinality(Callers) \in Nat
      BY <3>1, FS_Subset, FS_CardinalityType, PoolConstants DEF PoolConstants
    <3> QED BY <3>2 DEF IInv, PoolInv, ActiveCountsHolders
  <2> QED BY <2>1, <2>2 DEF IInv, CallersInv, PoolInv, TypeOK
<1> QED BY <1>1, Invariance, PTL
=============================================================================
