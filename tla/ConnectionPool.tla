--------------------------- MODULE ConnectionPool ---------------------------
(***************************************************************************)
(* The upstream connection pool of internal/connectionpool/pool.go.        *)
(* Callers run Acquire and the release function it returns, the reaper     *)
(* goroutine runs ReapIdle, and one goroutine runs Close.  p.mu makes each *)
(* critical section one step; dialing, waiting on p.cond and closing a     *)
(* connection happen outside it.                                           *)
(*                                                                         *)
(* A targetPool's slice of entries is the set of its connections: the      *)
(* order only breaks ties in leastActive, so any least active entry may be *)
(* picked.  entry.closing is set exactly when an entry leaves the set.     *)
(* lastUsed is kept as what ReapIdle asks of it: has MaxIdleTime passed.   *)
(***************************************************************************)
EXTENDS Naturals, FiniteSets

CONSTANTS Callers,                   \* goroutines that use the pool
          Targets,                   \* pool keys
          Conns,                     \* identities of connections (reused once
                                     \* a connection is closed and released)
          NoTarget, NoConn,
          MaxConnectionsPerTarget

ASSUME PoolConstants ==
  /\ IsFiniteSet(Callers)
  /\ IsFiniteSet(Conns) /\ NoConn \notin Conns
  /\ IsFiniteSet(Targets) /\ NoTarget \notin Targets
  /\ MaxConnectionsPerTarget \in Nat \ {0}

VARIABLES pc,         \* caller -> where it is
          want,       \* caller -> the target it acquires or uses
          held,       \* caller -> the connection it holds
          ctxDone,    \* callers in Acquire whose context is done
          entries,    \* target -> its pooled connections
          creating,   \* target -> dials in flight
          active,     \* connection -> borrowers
          expired,    \* pooled connections not used for MaxIdleTime
          open,       \* connections dialed and not closed
          closed,     \* Close was called
          reaper,     \* the reaper goroutine: running, or done
          reaping,    \* connections ReapIdle took out and has yet to close
          closing     \* connections Close took out and has yet to close

callerVars == <<pc, want, held, ctxDone>>
poolVars == <<entries, creating, active, expired>>
closeVars == <<closed, reaper, reaping, closing>>
vars == <<callerVars, poolVars, open, closeVars>>

CallerPC == {"idle", "acquiring", "dialing", "waiting", "holding", "discarding"}

Init ==
  /\ pc = [c \in Callers |-> "idle"]
  /\ want = [c \in Callers |-> NoTarget]
  /\ held = [c \in Callers |-> NoConn]
  /\ ctxDone = {}
  /\ entries = [t \in Targets |-> {}]
  /\ creating = [t \in Targets |-> 0]
  /\ active = [k \in Conns |-> 0]
  /\ expired = {}
  /\ open = {}
  /\ closed = FALSE
  /\ reaper = "running"
  /\ reaping = {}
  /\ closing = {}

-----------------------------------------------------------------------------
(* Acquire. *)

Idle(t) == {k \in entries[t] : active[k] = 0}

LeastActive(t) == {k \in entries[t] : \A j \in entries[t] : active[k] <= active[j]}

BelowMax(t) == Cardinality(entries[t]) + creating[t] < MaxConnectionsPerTarget

Call(c, t) ==
  /\ pc[c] = "idle"
  /\ pc' = [pc EXCEPT ![c] = "acquiring"]
  /\ want' = [want EXCEPT ![c] = t]
  /\ UNCHANGED <<held, ctxDone, poolVars, open, closeVars>>

Return(c) ==
  /\ pc' = [pc EXCEPT ![c] = "idle"]
  /\ want' = [want EXCEPT ![c] = NoTarget]
  /\ held' = [held EXCEPT ![c] = NoConn]
  /\ ctxDone' = ctxDone \ {c}

AcquireClosed(c) ==
  /\ pc[c] = "acquiring"
  /\ closed
  /\ Return(c)
  /\ UNCHANGED <<poolVars, open, closeVars>>

Borrow(c, k) ==
  /\ active' = [active EXCEPT ![k] = @ + 1]
  /\ pc' = [pc EXCEPT ![c] = "holding"]
  /\ held' = [held EXCEPT ![c] = k]
  /\ ctxDone' = ctxDone \ {c}
  /\ UNCHANGED <<want, entries, creating, expired, open, closeVars>>

AcquireIdle(c) ==
  /\ pc[c] = "acquiring"
  /\ ~closed
  /\ \E k \in Idle(want[c]) : Borrow(c, k)

StartDial(c) ==
  /\ pc[c] = "acquiring"
  /\ ~closed
  /\ Idle(want[c]) = {}
  /\ BelowMax(want[c])
  /\ creating' = [creating EXCEPT ![want[c]] = @ + 1]
  /\ pc' = [pc EXCEPT ![c] = "dialing"]
  /\ UNCHANGED <<want, held, ctxDone, entries, active, expired, open, closeVars>>

AcquireShared(c) ==
  /\ pc[c] = "acquiring"
  /\ ~closed
  /\ Idle(want[c]) = {}
  /\ ~BelowMax(want[c])
  /\ \E k \in LeastActive(want[c]) : Borrow(c, k)

AllDialing(c) ==
  /\ pc[c] = "acquiring"
  /\ ~closed
  /\ entries[want[c]] = {}
  /\ ~BelowMax(want[c])

AcquireGivesUp(c) ==
  /\ AllDialing(c)
  /\ c \in ctxDone
  /\ Return(c)
  /\ UNCHANGED <<poolVars, open, closeVars>>

AcquireWaits(c) ==
  /\ AllDialing(c)
  /\ c \notin ctxDone
  /\ pc' = [pc EXCEPT ![c] = "waiting"]
  /\ UNCHANGED <<want, held, ctxDone, poolVars, open, closeVars>>

(* Mutated form: nobody is woken. *)
NoBroadcast(c, next) == pc' = [pc EXCEPT ![c] = next]

(* p.cond.Broadcast, together with caller c going to its next step: every  *)
(* waiter goes round the loop of Acquire again.                            *)
Broadcast(c, next) ==
  pc' = [d \in Callers |-> IF d = c THEN next
                           ELSE IF pc[d] = "waiting" THEN "acquiring" ELSE pc[d]]

DialFinished(t) ==
  creating' = [creating EXCEPT ![t] = IF @ > 0 THEN @ - 1 ELSE @]

(* A new connection has an identity nobody refers to any more. *)
Unused == {k \in Conns : k \notin open /\ \A c \in Callers : held[c] # k}

Dialed(k) == Unused # {} /\ k = CHOOSE j \in Unused : TRUE

DialSucceeds(c, k) ==
  /\ pc[c] = "dialing"
  /\ ~closed
  /\ Dialed(k)
  /\ open' = open \cup {k}
  /\ DialFinished(want[c])
  /\ entries' = [entries EXCEPT ![want[c]] = @ \cup {k}]
  /\ active' = [active EXCEPT ![k] = 1]
  /\ held' = [held EXCEPT ![c] = k]
  /\ ctxDone' = ctxDone \ {c}
  /\ Broadcast(c, "holding")
  /\ UNCHANGED <<want, expired, closeVars>>

(* Mutated form: the connection is dropped without closing it. *)
DialTooLateLeaks(c, k) ==
  /\ pc[c] = "dialing"
  /\ closed
  /\ Dialed(k)
  /\ open' = open \cup {k}
  /\ DialFinished(want[c])
  /\ want' = [want EXCEPT ![c] = NoTarget]
  /\ ctxDone' = ctxDone \ {c}
  /\ Broadcast(c, "idle")
  /\ UNCHANGED <<held, entries, active, expired, closeVars>>

(* The dial was overtaken by Close: the caller keeps the connection only   *)
(* to close it.                                                            *)
DialTooLate(c, k) ==
  /\ pc[c] = "dialing"
  /\ closed
  /\ Dialed(k)
  /\ open' = open \cup {k}
  /\ DialFinished(want[c])
  /\ held' = [held EXCEPT ![c] = k]
  /\ ctxDone' = ctxDone \ {c}
  /\ Broadcast(c, "discarding")
  /\ UNCHANGED <<want, entries, active, expired, closeVars>>

Discard(c) ==
  /\ pc[c] = "discarding"
  /\ open' = open \ {held[c]}
  /\ Return(c)
  /\ UNCHANGED <<poolVars, closeVars>>

(* What a dial that fails leaves to do, whether or not Close overtook it. *)
DialGaveNothing(c) ==
  /\ pc[c] = "dialing"
  /\ DialFinished(want[c])
  /\ Broadcast(c, "idle")
  /\ want' = [want EXCEPT ![c] = NoTarget]
  /\ ctxDone' = ctxDone \ {c}
  /\ UNCHANGED <<held, entries, active, expired, open, closeVars>>

(* Acquire returns the error of the dial. *)
DialFails(c) == ~closed /\ DialGaveNothing(c)

(* Acquire returns ErrClosed.  A Dial that fails is taken to return a nil  *)
(* Conn.  The sidecar's returns a nil *grpc.ClientConn, which as a Conn is *)
(* not nil, and Acquire would call Close on it; but the sidecar closes its *)
(* pool only when no call is left, so that none of its dials meets a       *)
(* closed pool (GracefulExit in SidecarProcess).                           *)
DialFailsTooLate(c) == closed /\ DialGaveNothing(c)

(* Mutated form: a connection that Close took out is not counted down. *)
ReleaseOnlyPooled(c) ==
  LET k == held[c] IN
  /\ pc[c] = "holding"
  /\ active' = [active EXCEPT ![k] = IF @ > 0 /\ ~closed THEN @ - 1 ELSE @]
  /\ expired' = IF active'[k] = 0 THEN expired \ {k} ELSE expired
  /\ Return(c)
  /\ UNCHANGED <<entries, creating, open, closeVars>>

(* The release function: borrowers count down, and the last one stamps     *)
(* lastUsed.                                                               *)
Release(c) ==
  LET k == held[c] IN
  /\ pc[c] = "holding"
  /\ active' = [active EXCEPT ![k] = IF @ > 0 THEN @ - 1 ELSE @]
  /\ expired' = IF active'[k] = 0 THEN expired \ {k} ELSE expired
  /\ Return(c)
  /\ UNCHANGED <<entries, creating, open, closeVars>>

CtxExpires(c) ==
  /\ pc[c] \in {"acquiring", "dialing", "waiting"}
  /\ ctxDone' = ctxDone \cup {c}
  /\ UNCHANGED <<pc, want, held, poolVars, open, closeVars>>

-----------------------------------------------------------------------------
(* The reaper and Close. *)

MaxIdleTimePasses(k) ==
  /\ \E t \in Targets : k \in entries[t]
  /\ expired' = expired \cup {k}
  /\ UNCHANGED <<callerVars, entries, creating, active, open, closeVars>>

(* Mutated form: the reaper looks at lastUsed only. *)
ReapableInUse(t) == {k \in entries[t] : k \in expired}

Reapable(t) == {k \in entries[t] : active[k] = 0 /\ k \in expired}

(* Mutated form: a targetPool is deleted although a dial is in flight. *)
ForgottenWhileDialing(t) == entries[t] \subseteq Reapable(t)

(* A targetPool without connections and dials is deleted from the map; the *)
(* next Acquire makes a new one, with creating = 0.                        *)
Forgotten(t) == entries[t] \subseteq Reapable(t) /\ creating[t] = 0

ReapIdle ==
  /\ reaper = "running"
  /\ reaping = {}
  /\ reaping' = UNION {Reapable(t) : t \in Targets}
  /\ entries' = [t \in Targets |-> entries[t] \ Reapable(t)]
  /\ creating' = [t \in Targets |-> IF Forgotten(t) THEN 0 ELSE creating[t]]
  /\ expired' = expired \ reaping'
  /\ UNCHANGED <<callerVars, active, open, closed, reaper, closing>>

ReaperCloses(k) ==
  /\ k \in reaping
  /\ reaping' = reaping \ {k}
  /\ open' = open \ {k}
  /\ UNCHANGED <<callerVars, poolVars, closed, reaper, closing>>

ReaperStops ==
  /\ reaper = "running"
  /\ reaping = {}
  /\ closed
  /\ reaper' = "done"
  /\ UNCHANGED <<callerVars, poolVars, open, closed, reaping, closing>>

(* Close empties the map.  A dial in flight later puts its old targetPool  *)
(* back, whose entries are all closing, so `creating` stays what it was.   *)
Close ==
  /\ ~closed
  /\ closed' = TRUE
  /\ closing' = UNION {entries[t] : t \in Targets}
  /\ entries' = [t \in Targets |-> {}]
  /\ pc' = [c \in Callers |-> IF pc[c] = "waiting" THEN "acquiring" ELSE pc[c]]
  /\ expired' = {}
  /\ UNCHANGED <<want, held, ctxDone, creating, active, open, reaper, reaping>>

(* Connections are closed after <-p.done. *)
CloserCloses(k) ==
  /\ reaper = "done"
  /\ k \in closing
  /\ closing' = closing \ {k}
  /\ open' = open \ {k}
  /\ UNCHANGED <<callerVars, poolVars, closed, reaper, reaping>>

-----------------------------------------------------------------------------

Acquire(c) ==
  \/ AcquireClosed(c)
  \/ AcquireIdle(c)
  \/ StartDial(c)
  \/ AcquireShared(c)
  \/ AcquireGivesUp(c)
  \/ AcquireWaits(c)

DialReturns(c) ==
  \/ \E k \in Conns : DialSucceeds(c, k) \/ DialTooLate(c, k)
  \/ DialFails(c)
  \/ DialFailsTooLate(c)

Next ==
  \/ \E c \in Callers :
       \/ \E t \in Targets : Call(c, t)
       \/ Acquire(c)
       \/ DialReturns(c)
       \/ Discard(c)
       \/ Release(c)
       \/ CtxExpires(c)
  \/ \E k \in Conns : MaxIdleTimePasses(k) \/ ReaperCloses(k) \/ CloserCloses(k)
  \/ ReapIdle
  \/ ReaperStops
  \/ Close

Spec == Init /\ [][Next]_vars

(* Goroutines run, contexts end (invoke gives each a deadline), and a dial *)
(* returns once its context has ended, though it may take until then.      *)
(* Nobody has to call, to release or to close the pool.                    *)
Fairness ==
  /\ \A c \in Callers :
       /\ WF_vars(Acquire(c) \/ (c \in ctxDone /\ DialReturns(c)) \/ Discard(c))
       /\ WF_vars(CtxExpires(c))
  /\ WF_vars(ReaperStops \/ \E k \in Conns : ReaperCloses(k))
  /\ WF_vars(\E k \in Conns : CloserCloses(k))

FairSpec == Spec /\ Fairness
-----------------------------------------------------------------------------
Dialers(t) == {c \in Callers : pc[c] = "dialing" /\ want[c] = t}

Holders(k) == {c \in Callers : pc[c] = "holding" /\ held[c] = k}

(* Every variable keeps its type. *)
TypeOK ==
  /\ pc \in [Callers -> CallerPC]
  /\ want \in [Callers -> Targets \cup {NoTarget}]
  /\ held \in [Callers -> Conns \cup {NoConn}]
  /\ ctxDone \subseteq Callers
  /\ entries \in [Targets -> SUBSET Conns]
  /\ creating \in [Targets -> 0..MaxConnectionsPerTarget]
  /\ active \in [Conns -> 0..Cardinality(Callers)]
  /\ expired \subseteq Conns
  /\ open \subseteq Conns
  /\ closed \in BOOLEAN
  /\ reaper \in {"running", "done"}
  /\ reaping \subseteq Conns
  /\ closing \subseteq Conns

(* Pooled connections and dials in flight together respect the cap of each *)
(* target, however Acquire, failing dials and the reaper interleave; and   *)
(* `creating` is the number of dials really in flight.                     *)
CapRespected ==
  \A t \in Targets :
    /\ Cardinality(entries[t]) + creating[t] <= MaxConnectionsPerTarget
    /\ creating[t] = Cardinality(Dialers(t))

(* entry.active counts the borrowers, also of a connection that Close has  *)
(* taken out of the pool.                                                  *)
ActiveCountsHolders == \A k \in Conns : active[k] = Cardinality(Holders(k))

(* While the pool is open, a lent connection is pooled under the target it *)
(* was asked for and is open: the reaper never takes it from its borrower. *)
LentStaysOpen ==
  ~closed => \A c \in Callers :
               pc[c] = "holding" => held[c] \in entries[want[c]] \cap open

(* An open connection has exactly one owner that will close it: a target,  *)
(* the reaper, Close, or the caller whose dial came too late.  So none     *)
(* leaks and none is closed twice.                                         *)
OneOwner ==
  LET owned(k)  == Cardinality({t \in Targets : k \in entries[t]})
      pending(k) == Cardinality({S \in {"reaping", "closing"} :
                                   k \in IF S = "reaping" THEN reaping ELSE closing})
      late(k)   == Cardinality({c \in Callers : pc[c] = "discarding" /\ held[c] = k})
  IN  \A k \in Conns :
        owned(k) + pending(k) + late(k) = IF k \in open THEN 1 ELSE 0

(* Every Acquire returns: a caller that sleeps on p.cond, which its own    *)
(* context does not wake, is woken when the dial it waits for ends.        *)
AcquireReturns ==
  \A c \in Callers :
    pc[c] \in {"acquiring", "dialing", "waiting"} ~> pc[c] \in {"idle", "holding"}

(* Close in the end closes every connection, also those of dials that were *)
(* in flight and those lent to callers that never release them.            *)
CloseClosesAll == closed ~> open = {}
=============================================================================
