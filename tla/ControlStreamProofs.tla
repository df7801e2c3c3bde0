-------------------------- MODULE ControlStreamProofs --------------------------
(***************************************************************************)
(* ControlStream implements SnapshotCache, for any set of sidecars and     *)
(* endpoints and any number of commits and failures: a cache that follows  *)
(* the stream, or etcd directly, always holds one whole state of the       *)
(* registry and moves only forward, and it is what the registry holds when *)
(* its watch has nothing left to look at.                                  *)
(***************************************************************************)
EXTENDS ControlStream, TLAPS

(* The provers of a leaf that names none, and the time each is given. *)
USE ZenonT(8), SMTT(40)

(* c is the state of the registry at some revision. *)
Whole(c) == \E r \in 1..Len(history) : c = [revision |-> r, endpoints |-> history[r]]

Types ==
  /\ path \in [Sidecars -> {"stream", "direct"}]
  /\ history \in Seq(SUBSET Endpoints)
  /\ Len(history) >= 1
  /\ cache \in [Sidecars -> Snapshot]
  /\ wire \in [Sidecars -> Seq(Snapshot)]
  /\ handler \in [Sidecars -> Handler]

(* Whatever is on its way to a cache is whole. *)
Wholes(s) ==
  /\ cache[s] = EmptyCache \/ Whole(cache[s])
  /\ \A i \in 1..Len(wire[s]) : Whole(wire[s][i])
  /\ handler[s].pc \in {"sending", "opening"} => Whole(handler[s].snapshot)

(* The cache of discovery.Run is not behind its watch: it is at a later    *)
(* revision, or nothing has changed up to the one the watch looks at next. *)
Direct(s) ==
  path[s] = "direct" =>
    /\ wire[s] = <<>>
    /\ handler[s].pc = "opening" => handler[s].snapshot.revision <= cache[s].revision
    /\ handler[s].pc = "watching" =>
         /\ handler[s].cursor \in 2..(Len(history) + 1)
         /\ cache[s].revision < handler[s].cursor =>
              cache[s].endpoints = history[handler[s].cursor - 1]

IInv == Types /\ \A s \in Sidecars : Wholes(s) /\ Direct(s)

(* The invariant holds before anybody has connected. *)
LEMMA InitInv == Init => IInv
<1> SUFFICES ASSUME Init PROVE IInv
  OBVIOUS
<1>1. Types
  BY DEF Init, Types, Snapshot, EmptyCache, Handler, HandlerAt, HandlerPC
<1>2. ASSUME NEW s \in Sidecars PROVE Wholes(s) /\ Direct(s)
  BY DEF Init, Wholes, Direct, EmptyCache, HandlerAt
<1> QED BY <1>1, <1>2 DEF IInv

(* A commit leaves the earlier states where they are. *)
LEMMA CommitInv == IInv /\ Commit => IInv'
<1> SUFFICES ASSUME IInv, Commit PROVE IInv'
  OBVIOUS
<1> USE DEF IInv
<1>1. PICK h \in SUBSET Endpoints : history' = Append(history, h)
  <2>1. history[revision] \in SUBSET Endpoints
    BY DEF Types, revision
  <2> QED BY <2>1 DEF Commit
<1>2. /\ Len(history') = Len(history) + 1
      /\ \A r \in 1..Len(history) : history'[r] = history[r]
  BY <1>1 DEF Types
<1>3. Types'
  BY <1>1, <1>2 DEF Types, Commit
<1>4. ASSUME NEW c, Whole(c) PROVE Whole(c)'
  BY <1>2, <1>4 DEF Whole, Types
<1>5. ASSUME NEW s \in Sidecars PROVE Wholes(s)'
  BY <1>4 DEF Wholes, Commit
<1>6. ASSUME NEW s \in Sidecars PROVE Direct(s)'
  <2>1. path' = path /\ wire' = wire /\ handler' = handler /\ cache' = cache
    BY DEF Commit
  <2>2. SUFFICES ASSUME path[s] = "direct", handler[s].pc = "watching"
                 PROVE  /\ handler[s].cursor \in 2..(Len(history') + 1)
                        /\ cache[s].revision < handler[s].cursor =>
                             cache[s].endpoints = history'[handler[s].cursor - 1]
    BY <2>1 DEF Direct
  <2>3. Len(history) \in Nat /\ handler[s].cursor \in 2..(Len(history) + 1)
    BY <2>2 DEF Direct, Types
  <2>4. handler[s].cursor - 1 \in 1..Len(history)
    BY <2>3
  <2>5. cache[s].revision < handler[s].cursor =>
          cache[s].endpoints = history[handler[s].cursor - 1]
    BY <2>2 DEF Direct
  <2>6. history'[handler[s].cursor - 1] = history[handler[s].cursor - 1]
    BY <1>2, <2>4
  <2>7. handler[s].cursor \in 2..(Len(history') + 1)
    BY <1>2, <2>3
  <2> QED BY <2>5, <2>6, <2>7
<1> QED BY <1>3, <1>5, <1>6

(* A whole snapshot is determined by its revision. *)
LEMMA WholeFields ==
  ASSUME NEW c, Whole(c)
  PROVE  /\ c.revision \in 1..Len(history)
         /\ c.endpoints = history[c.revision]
         /\ c = [revision |-> c.revision, endpoints |-> history[c.revision]]
  BY DEF Whole

(* A step that leaves history and paths alone, and changes of the sidecars *)
(* only s, has to be looked at for s only.                                 *)
LEMMA OneSidecar ==
  ASSUME IInv, NEW s \in Sidecars, UNCHANGED <<path, history>>, Types',
         \A t \in Sidecars \ {s} :
           cache'[t] = cache[t] /\ wire'[t] = wire[t] /\ handler'[t] = handler[t],
         Wholes(s)', Direct(s)'
  PROVE  IInv'
<1>1. ASSUME NEW c, Whole(c) PROVE Whole(c)'
  BY <1>1 DEF Whole
<1>2. ASSUME NEW t \in Sidecars \ {s} PROVE Wholes(t)' /\ Direct(t)'
  <2>1. Wholes(t) /\ Direct(t)
    BY DEF IInv
  <2>2. Wholes(t)'
    BY <1>1, <2>1 DEF Wholes
  <2>3. Direct(t)'
    BY <2>1 DEF Direct
  <2> QED BY <2>2, <2>3
<1> QED BY <1>2 DEF IInv

(* The steps of the handler, or of the goroutine of discovery.Run, that    *)
(* move neither the cache nor the stream.                                  *)
LEMMA HandlerSteps ==
  ASSUME IInv, NEW s \in Sidecars,
         \/ ReceiveRegister(s) \/ FullSync(s) \/ OpenWatch(s) \/ WatchEvent(s)
         \/ WatchPasses(s) \/ HandlerFails(s) \/ Connect(s) \/ CallRun(s)
  PROVE  IInv'
<1> DEFINE h == handler[s]
<1>0. Types /\ Wholes(s) /\ Direct(s) /\ Len(history) \in Nat
  BY DEF IInv, Types
<1>1. UNCHANGED <<path, history, cache, wire>>
  BY DEF ReceiveRegister, FullSync, OpenWatch, WatchEvent, WatchPasses, HandlerFails,
         Connect, CallRun, Begin
<1>2. ASSUME NEW c, Whole(c) PROVE Whole(c)'
  BY <1>1, <1>2 DEF Whole
<1>3. ASSUME NEW g \in Handler, handler' = [handler EXCEPT ![s] = g],
             g.pc \in {"sending", "opening"} => Whole(g.snapshot),
             path[s] = "direct" =>
               /\ g.pc # "opening"
               /\ g.pc = "watching" =>
                    /\ g.cursor \in 2..(Len(history) + 1)
                    /\ cache[s].revision < g.cursor =>
                         cache[s].endpoints = history[g.cursor - 1]
      PROVE  IInv'
  <2>1. Types'
    BY <1>0, <1>1, <1>3 DEF Types
  <2>2. handler'[s] = g /\ \A t \in Sidecars \ {s} : handler'[t] = handler[t]
    BY <1>0, <1>3 DEF Types
  <2>3. Wholes(s)'
    BY <1>0, <1>1, <1>2, <1>3, <2>2 DEF Wholes
  <2>4. Direct(s)'
    BY <1>0, <1>1, <1>3, <2>2 DEF Direct
  <2> QED BY <1>1, <2>1, <2>2, <2>3, <2>4, OneSidecar
<1>4. h \in Handler
  BY <1>0 DEF Types
<1> USE DEF Handler, HandlerPC
<1>5. CASE ReceiveRegister(s)
  BY <1>3, <1>4, <1>5 DEF ReceiveRegister
<1>6. CASE FullSync(s)
  <2>1. Whole(RangePrefix) /\ RangePrefix \in Snapshot
    BY <1>0 DEF Whole, RangePrefix, revision, Types, Snapshot
  <2> QED BY <1>3, <1>4, <1>6, <2>1 DEF FullSync
<1>7. CASE OpenWatch(s)
  <2> DEFINE n == h.snapshot.revision
  <2>1. h.pc = "opening" /\ n \in 1..Len(history)
    BY <1>0, <1>7, WholeFields DEF OpenWatch, Wholes
  <2>2. path[s] = "direct" /\ cache[s].revision < n + 1 => cache[s].endpoints = history[n]
    <3> SUFFICES ASSUME path[s] = "direct", cache[s].revision < n + 1
                 PROVE  cache[s].endpoints = history[n]
      OBVIOUS
    <3>1. cache[s].revision = n
      BY <1>0, <2>1 DEF Direct, Types, Snapshot
    <3>2. Whole(cache[s])
      BY <1>0, <2>1, <3>1 DEF Wholes, EmptyCache
    <3> QED BY <3>1, <3>2, WholeFields
  <2> DEFINE g == [h EXCEPT !.pc = "watching", !.cursor = n + 1]
  <2>3. g \in Handler /\ g.pc = "watching" /\ g.cursor = n + 1
    <3>1. n + 1 \in Nat
      BY <1>0, <2>1
    <3> HIDE DEF n
    <3> QED BY <1>4, <3>1
  <2>4. handler' = [handler EXCEPT ![s] = g]
    BY <1>0, <1>7 DEF OpenWatch, Types
  <2>5. n + 1 \in 2..(Len(history) + 1) /\ (n + 1) - 1 = n
    BY <1>0, <2>1
  <2> HIDE DEF g
  <2> QED BY <1>3, <2>2, <2>3, <2>4, <2>5
<1>8. CASE WatchEvent(s)
  <2> DEFINE n == h.cursor + 1
             g == [h EXCEPT !.pc = "reading", !.cursor = n]
  <2>1. g \in Handler /\ g.pc = "reading"
    <3>1. n \in Nat
      BY <1>4
    <3> HIDE DEF n
    <3> QED BY <1>4, <3>1
  <2>2. handler' = [handler EXCEPT ![s] = g]
    BY <1>0, <1>8 DEF WatchEvent, Types
  <2> HIDE DEF g
  <2> QED BY <1>3, <2>1, <2>2
<1>9. CASE WatchPasses(s)
  <2> DEFINE n == h.cursor
             g == [h EXCEPT !.cursor = n + 1]
  <2>1. h.pc = "watching" /\ n \in Nat /\ n <= Len(history) /\ history[n] = history[n - 1]
    BY <1>4, <1>9 DEF WatchPasses, revision
  <2>2. g \in Handler /\ g.pc = "watching" /\ g.cursor = n + 1
    BY <1>4, <2>1
  <2>3. handler' = [handler EXCEPT ![s] = g]
    BY <1>0, <1>9 DEF WatchPasses, Types
  <2>4. ASSUME path[s] = "direct"
        PROVE  /\ n + 1 \in 2..(Len(history) + 1)
               /\ cache[s].revision < n + 1 => cache[s].endpoints = history[(n + 1) - 1]
    <3>1. n \in 2..(Len(history) + 1)
      BY <1>0, <2>1, <2>4 DEF Direct
    <3>2. cache[s].revision < n => cache[s].endpoints = history[n]
      BY <1>0, <2>1, <2>4 DEF Direct
    <3>3. cache[s].revision = n => cache[s].endpoints = history[n]
      BY <1>0, <3>1, WholeFields DEF Wholes, EmptyCache
    <3>4. cache[s].revision \in Nat
      BY <1>0 DEF Types, Snapshot
    <3>5. Len(history) \in Nat /\ n \in Nat /\ n <= Len(history)
      BY <1>0, <2>1
    <3> HIDE DEF n
    <3>6. n + 1 \in 2..(Len(history) + 1) /\ (n + 1) - 1 = n
      BY <3>1, <3>5
    <3>7. cache[s].revision < n + 1 => cache[s].revision < n \/ cache[s].revision = n
      BY <3>4, <3>5
    <3> QED BY <3>2, <3>3, <3>6, <3>7
  <2> HIDE DEF g, n
  <2> QED BY <1>3, <2>2, <2>3, <2>4
<1>10. CASE HandlerFails(s) \/ Connect(s) \/ CallRun(s)
  <2>1. \A pc \in HandlerPC : HandlerAt(pc) \in Handler /\ HandlerAt(pc).pc = pc
    BY DEF HandlerAt, EmptyCache, Snapshot
  <2> QED BY <1>3, <1>10, <2>1 DEF HandlerFails, Connect, CallRun, Begin
<1> QED BY <1>5, <1>6, <1>7, <1>8, <1>9, <1>10

(* The steps of the stream: a snapshot is sent, or the connection is gone. *)
LEMMA StreamSteps ==
  ASSUME IInv, NEW s \in Sidecars, Send(s) \/ StreamEnds(s) \/ StreamBreaks(s)
  PROVE  IInv'
<1> DEFINE h == handler[s]
<1>0. Types /\ Wholes(s) /\ Direct(s)
  BY DEF IInv
<1>1. UNCHANGED <<path, history, cache>>
  BY DEF Send, StreamEnds, StreamBreaks, Disconnect
<1>2. ASSUME NEW c, Whole(c) PROVE Whole(c)'
  BY <1>1, <1>2 DEF Whole
<1>3. CASE Send(s)
  <2>1. PICK pc \in {"opening", "watching"} :
          handler' = [handler EXCEPT ![s] = [h EXCEPT !.pc = pc]]
    BY <1>0, <1>3 DEF Send, Types
  <2>2. h \in Handler /\ h.snapshot \in Snapshot /\ wire[s] \in Seq(Snapshot)
    BY <1>0 DEF Types, Handler
  <2>3. [h EXCEPT !.pc = pc] \in Handler /\ [h EXCEPT !.pc = pc].snapshot = h.snapshot
    BY <2>2 DEF Handler, HandlerPC
  <2>4. /\ wire'[s] = Append(wire[s], h.snapshot)
        /\ handler'[s] = [h EXCEPT !.pc = pc]
        /\ \A t \in Sidecars \ {s} : handler'[t] = handler[t] /\ wire'[t] = wire[t]
    BY <1>0, <1>3, <2>1 DEF Send, Types
  <2>5. Types'
    <3>1. Append(wire[s], h.snapshot) \in Seq(Snapshot)
      BY <2>2
    <3>2. wire' \in [Sidecars -> Seq(Snapshot)]
      BY <1>0, <1>3, <3>1 DEF Types, Send
    <3>3. handler' \in [Sidecars -> Handler]
      BY <1>0, <2>1, <2>3 DEF Types
    <3> QED BY <1>0, <1>1, <3>2, <3>3 DEF Types
  <2>6. path[s] = "stream" /\ Whole(h.snapshot)
    BY <1>0, <1>3 DEF Send, Wholes
  <2>7. \A i \in 1..Len(wire'[s]) : Whole(wire'[s][i])
    BY <1>0, <2>2, <2>4, <2>6 DEF Wholes
  <2>8. Wholes(s)'
    BY <1>0, <1>1, <1>2, <2>3, <2>4, <2>6, <2>7 DEF Wholes
  <2>9. Direct(s)'
    BY <1>1, <2>6 DEF Direct
  <2> QED BY <1>1, <2>4, <2>5, <2>8, <2>9, OneSidecar
<1>4. CASE Disconnect(s)
  <2>1. HandlerAt("none") \in Handler /\ HandlerAt("none").pc = "none"
    BY DEF HandlerAt, Handler, HandlerPC, EmptyCache, Snapshot
  <2>2. /\ wire'[s] = <<>>
        /\ handler'[s] = HandlerAt("none")
        /\ \A t \in Sidecars \ {s} : handler'[t] = handler[t] /\ wire'[t] = wire[t]
    BY <1>0, <1>4 DEF Disconnect, Types
  <2>3. Types'
    BY <1>0, <1>1, <1>4, <2>1 DEF Types, Disconnect
  <2>4. Wholes(s)'
    BY <1>0, <1>1, <1>2, <2>1, <2>2 DEF Wholes
  <2>5. Direct(s)'
    BY <2>1, <2>2 DEF Direct
  <2> QED BY <1>1, <2>2, <2>3, <2>4, <2>5, OneSidecar
<1> QED BY <1>3, <1>4 DEF StreamEnds, StreamBreaks

(* What a step does to the cache of s, seen from outside: nothing, or it   *)
(* moves to a whole state that is not older.                               *)
Moves(s) ==
  \E c \in Snapshot :
    /\ cache' = [cache EXCEPT ![s] = c]
    /\ c = cache[s] \/ (Whole(c) /\ cache[s].revision <= c.revision)

(* Cache.Replace takes a whole snapshot, or leaves the cache alone. *)
LEMMA ReplaceMoves ==
  ASSUME Types, NEW s \in Sidecars, NEW c \in Snapshot, Whole(c),
         cache' = [cache EXCEPT ![s] = Replace(cache[s], c)]
  PROVE  /\ Moves(s)
         /\ cache'[s] = cache[s] \/ cache'[s] = c
         /\ c.revision <= cache'[s].revision
<1>1. cache[s] \in Snapshot /\ c.revision \in Nat /\ cache[s].revision \in Nat
  BY DEF Types, Snapshot
<1>2. cache'[s] = Replace(cache[s], c)
  BY DEF Types
<1>3. CASE c.revision < cache[s].revision
  <2>1. Replace(cache[s], c) = cache[s]
    BY <1>3 DEF Replace
  <2>2. Moves(s)
    BY <1>1, <2>1 DEF Moves
  <2> QED BY <1>1, <1>2, <1>3, <2>1, <2>2
<1>4. CASE ~(c.revision < cache[s].revision)
  <2>1. Replace(cache[s], c) = c
    BY <1>4 DEF Replace
  <2>2. cache[s].revision <= c.revision
    BY <1>1, <1>4
  <2>3. Moves(s)
    BY <2>1, <2>2 DEF Moves
  <2> QED BY <1>1, <1>2, <2>1, <2>3
<1> QED BY <1>3, <1>4

(* The steps that move the cache. *)
LEMMA CacheSteps ==
  ASSUME IInv, NEW s \in Sidecars, Receive(s) \/ RunReplaces(s) \/ ApplyEvent(s)
  PROVE  IInv' /\ Moves(s)
<1> DEFINE h == handler[s]
<1>0. Types /\ Wholes(s) /\ Direct(s) /\ Len(history) \in Nat
  BY DEF IInv, Types
<1>1. UNCHANGED <<path, history>>
  BY DEF Receive, RunReplaces, ApplyEvent
<1>2. ASSUME NEW c, Whole(c) PROVE Whole(c)'
  BY <1>1, <1>2 DEF Whole
<1>3. ASSUME Moves(s)
      PROVE  /\ cache' \in [Sidecars -> Snapshot]
             /\ \A t \in Sidecars \ {s} : cache'[t] = cache[t]
             /\ (cache[s] = EmptyCache \/ Whole(cache[s]))'
  <2>1. PICK c \in Snapshot : /\ cache' = [cache EXCEPT ![s] = c]
                              /\ c = cache[s] \/ Whole(c)
    BY <1>3 DEF Moves
  <2>2. /\ cache' \in [Sidecars -> Snapshot] /\ cache'[s] = c
        /\ \A t \in Sidecars \ {s} : cache'[t] = cache[t]
    BY <1>0, <2>1 DEF Types
  <2> QED BY <1>0, <1>2, <2>1, <2>2 DEF Wholes
<1>4. CASE Receive(s)
  <2>1. /\ wire[s] \in Seq(Snapshot) /\ wire[s] # <<>>
        /\ cache' = [cache EXCEPT ![s] = Replace(cache[s], Head(wire[s]))]
        /\ wire' = [wire EXCEPT ![s] = Tail(wire[s])]
        /\ handler' = handler
    BY <1>0, <1>4 DEF Receive, Types
  <2>2. /\ Head(wire[s]) \in Snapshot /\ Head(wire[s]) = wire[s][1] /\ Len(wire[s]) >= 1
        /\ Tail(wire[s]) \in Seq(Snapshot) /\ Len(Tail(wire[s])) = Len(wire[s]) - 1
        /\ \A i \in 1..Len(Tail(wire[s])) :
             i + 1 \in 1..Len(wire[s]) /\ Tail(wire[s])[i] = wire[s][i + 1]
    BY <2>1
  <2>3. Whole(Head(wire[s]))
    BY <1>0, <2>1, <2>2 DEF Wholes
  <2>4. Moves(s)
    BY <1>0, <2>1, <2>2, <2>3, ReplaceMoves
  <2>5. /\ wire' \in [Sidecars -> Seq(Snapshot)] /\ wire'[s] = Tail(wire[s])
        /\ \A t \in Sidecars \ {s} : wire'[t] = wire[t]
    BY <1>0, <2>1, <2>2 DEF Types
  <2>6. Types'
    BY <1>0, <1>1, <1>3, <2>1, <2>4, <2>5 DEF Types
  <2>7. \A i \in 1..Len(wire'[s]) : Whole(wire'[s][i])
    BY <1>0, <2>2, <2>5 DEF Wholes
  <2>8. Wholes(s)'
    BY <1>0, <1>2, <1>3, <2>1, <2>4, <2>7 DEF Wholes
  <2>9. Direct(s)'
    BY <1>0, <1>1, <2>1 DEF Direct
  <2> QED BY <1>1, <1>3, <2>1, <2>4, <2>5, <2>6, <2>8, <2>9, OneSidecar
<1>5. CASE RunReplaces(s)
  <2>1. /\ h \in Handler /\ h.snapshot \in Snapshot /\ h.pc = "sending"
        /\ Whole(h.snapshot)
        /\ cache' = [cache EXCEPT ![s] = Replace(cache[s], h.snapshot)]
        /\ handler' = [handler EXCEPT ![s] = [h EXCEPT !.pc = "opening"]]
        /\ wire' = wire
    BY <1>0, <1>5 DEF RunReplaces, Wholes, Types, Handler
  <2>2. Moves(s) /\ h.snapshot.revision <= cache'[s].revision
    BY <1>0, <2>1, ReplaceMoves
  <2> DEFINE g == [h EXCEPT !.pc = "opening"]
  <2>3. g \in Handler /\ g.pc = "opening" /\ g.snapshot = h.snapshot
    BY <2>1 DEF Handler, HandlerPC
  <2> HIDE DEF g
  <2>4. /\ handler' \in [Sidecars -> Handler] /\ handler'[s] = g
        /\ \A t \in Sidecars \ {s} : handler'[t] = handler[t]
    BY <1>0, <2>1, <2>3 DEF Types, g
  <2>5. Types'
    BY <1>0, <1>1, <1>3, <2>1, <2>2, <2>4 DEF Types
  <2>6. Wholes(s)'
    BY <1>0, <1>2, <1>3, <2>1, <2>2, <2>3, <2>4 DEF Wholes
  <2>7. Direct(s)'
    BY <1>0, <1>1, <2>1, <2>2, <2>3, <2>4 DEF Direct
  <2> QED BY <1>1, <1>3, <2>1, <2>2, <2>4, <2>5, <2>6, <2>7, OneSidecar
<1>6. CASE ApplyEvent(s)
  <2> DEFINE n == h.cursor
             g == [h EXCEPT !.cursor = n + 1]
  <2>1. /\ h \in Handler /\ n \in Nat /\ h.pc = "watching" /\ path[s] = "direct"
        /\ n <= Len(history)
        /\ cache' = [cache EXCEPT ![s] = Apply(cache[s], n)]
        /\ handler' = [handler EXCEPT ![s] = g]
        /\ wire' = wire
    BY <1>0, <1>6 DEF ApplyEvent, Types, Handler, revision
  <2>2. /\ n \in 2..Len(history) /\ wire[s] = <<>>
        /\ cache[s].revision < n => cache[s].endpoints = history[n - 1]
    BY <1>0, <2>1 DEF Direct
  <2>3. /\ g \in Handler /\ g.pc = "watching" /\ g.cursor = n + 1 /\ g.snapshot = h.snapshot
    BY <2>1 DEF Handler
  <2> HIDE DEF g, n
  <2>4. cache[s] \in Snapshot /\ cache[s].revision \in Nat
    BY <1>0 DEF Types, Snapshot
  <2>5. history[n] \in SUBSET Endpoints /\ history[n - 1] \in SUBSET Endpoints
    BY <1>0, <2>2 DEF Types
  <2>6. n > cache[s].revision => Apply(cache[s], n) = [revision |-> n, endpoints |-> history[n]]
    <3> SUFFICES ASSUME n > cache[s].revision
                 PROVE  Apply(cache[s], n) = [revision |-> n, endpoints |-> history[n]]
      OBVIOUS
    <3>1. ~(n <= cache[s].revision) /\ cache[s].endpoints = history[n - 1]
      BY <2>1, <2>2, <2>4
    <3>2. (history[n - 1] \cup (history[n] \ history[n - 1]))
            \ (history[n - 1] \ history[n]) = history[n]
      OBVIOUS
    <3> QED BY <3>1, <3>2 DEF Apply
  <2>7. n <= cache[s].revision => Apply(cache[s], n) = cache[s]
    BY DEF Apply
  <2>8. Moves(s) /\ cache'[s] = Apply(cache[s], n)
    <3>1. cache'[s] = Apply(cache[s], n)
      BY <1>0, <2>1 DEF Types
    <3>2. CASE n <= cache[s].revision
      BY <2>1, <2>4, <2>7, <3>1, <3>2 DEF Moves
    <3>3. CASE n > cache[s].revision
      <4> DEFINE c == [revision |-> n, endpoints |-> history[n]]
      <4>1. c \in Snapshot /\ Whole(c) /\ cache[s].revision <= c.revision
        BY <2>1, <2>2, <2>4, <2>5, <3>3 DEF Snapshot, Whole
      <4> HIDE DEF c
      <4> QED BY <2>1, <2>6, <3>1, <3>3, <4>1 DEF Moves, c
    <3> QED BY <2>1, <2>4, <3>1, <3>2, <3>3
  <2>9. /\ handler' \in [Sidecars -> Handler] /\ handler'[s] = g
        /\ \A t \in Sidecars \ {s} : handler'[t] = handler[t]
    BY <1>0, <2>1, <2>3 DEF Types
  <2>10. Types'
    BY <1>0, <1>1, <1>3, <2>1, <2>8, <2>9 DEF Types
  <2>11. Wholes(s)'
    BY <1>0, <1>2, <1>3, <2>1, <2>3, <2>8, <2>9 DEF Wholes
  <2>12. /\ n + 1 \in 2..(Len(history) + 1) /\ (n + 1) - 1 = n
         /\ cache'[s].revision < n + 1 => cache'[s].endpoints = history[n]
    <3>1. CASE n > cache[s].revision
      BY <1>0, <2>1, <2>2, <2>6, <2>8, <3>1
    <3>2. CASE n = cache[s].revision
      <4>1. cache'[s] = cache[s] /\ Whole(cache[s])
        BY <1>0, <2>2, <2>7, <2>8, <3>2 DEF Wholes, EmptyCache
      <4> QED BY <1>0, <2>1, <2>2, <3>2, <4>1, WholeFields
    <3>3. CASE n < cache[s].revision
      BY <1>0, <2>1, <2>2, <2>4, <2>7, <2>8, <3>3
    <3> QED BY <2>1, <2>4, <3>1, <3>2, <3>3
  <2>13. Direct(s)'
    BY <1>1, <2>1, <2>2, <2>3, <2>9, <2>12 DEF Direct
  <2> QED BY <1>1, <1>3, <2>1, <2>8, <2>9, <2>10, <2>11, <2>13, OneSidecar
<1> QED BY <1>4, <1>5, <1>6

(* The steps that leave every cache alone. *)
LEMMA QuietSteps ==
  ASSUME NEW s \in Sidecars,
         \/ ReceiveRegister(s) \/ FullSync(s) \/ OpenWatch(s) \/ WatchEvent(s)
         \/ WatchPasses(s) \/ HandlerFails(s) \/ Connect(s) \/ CallRun(s)
         \/ Send(s) \/ StreamEnds(s) \/ StreamBreaks(s)
  PROVE  UNCHANGED <<history, cache>>
  BY DEF ReceiveRegister, FullSync, OpenWatch, WatchEvent, WatchPasses, HandlerFails,
         Connect, CallRun, Begin, Send, StreamEnds, StreamBreaks, Disconnect

(* Every step keeps the invariant, and is a step of SnapshotCache or one   *)
(* that it does not see.                                                   *)
LEMMA NextInv ==
  ASSUME IInv, [Next]_vars
  PROVE  IInv' /\ [Abstract!Next]_(Abstract!vars)
<1>1. CASE UNCHANGED vars
  <2>1. UNCHANGED <<history, cache>> /\ IInv'
    BY <1>1, ZenonT(60) DEF vars, IInv, Types, Wholes, Whole, Direct
  <2> QED BY <2>1 DEF Abstract!vars
<1>2. CASE Commit
  <2>1. history[revision] \in SUBSET Endpoints
    BY DEF IInv, Types, revision
  <2>2. Abstract!Commit
    BY <1>2, <2>1 DEF Commit, Abstract!Commit
  <2> QED BY <1>2, <2>2, CommitInv DEF Abstract!Next
<1>3. ASSUME NEW s \in Sidecars,
             \/ ReceiveRegister(s) \/ FullSync(s) \/ OpenWatch(s) \/ WatchEvent(s)
             \/ WatchPasses(s) \/ HandlerFails(s) \/ Connect(s) \/ CallRun(s)
             \/ Send(s) \/ StreamEnds(s) \/ StreamBreaks(s)
      PROVE  IInv' /\ UNCHANGED <<history, cache>>
  BY <1>3, HandlerSteps, StreamSteps, QuietSteps
<1>4. ASSUME NEW s \in Sidecars, Receive(s) \/ RunReplaces(s) \/ ApplyEvent(s)
      PROVE  IInv' /\ [Abstract!Next]_(Abstract!vars)
  <2>1. IInv' /\ Moves(s)
    BY <1>4, CacheSteps
  <2>2. history' = history
    BY <1>4 DEF Receive, RunReplaces, ApplyEvent
  <2>3. PICK c \in Snapshot :
          /\ cache' = [cache EXCEPT ![s] = c]
          /\ c = cache[s] \/ (Whole(c) /\ cache[s].revision <= c.revision)
    BY <2>1 DEF Moves
  <2>4. CASE c = cache[s]
    <3>1. cache' = cache
      BY <2>3, <2>4 DEF IInv, Types
    <3> QED BY <2>1, <2>2, <3>1 DEF Abstract!vars
  <2>5. CASE Whole(c) /\ cache[s].revision <= c.revision
    <3>1. PICK r \in 1..Len(history) : c = [revision |-> r, endpoints |-> history[r]]
      BY <2>5 DEF Whole
    <3>2. r >= cache[s].revision
      <4>1. cache[s].revision \in Nat /\ r \in Nat /\ c.revision = r
        BY <3>1 DEF IInv, Types, Snapshot
      <4> QED BY <2>5, <4>1
    <3>3. Abstract!Advance(s)
      BY <2>2, <2>3, <3>1, <3>2 DEF Abstract!Advance
    <3> QED BY <2>1, <3>3 DEF Abstract!Next
  <2> QED BY <2>3, <2>4, <2>5
<1>5. Next => \/ Commit
              \/ \E s \in Sidecars :
                   \/ ReceiveRegister(s) \/ FullSync(s) \/ OpenWatch(s) \/ WatchEvent(s)
                   \/ WatchPasses(s) \/ HandlerFails(s) \/ Connect(s) \/ CallRun(s)
                   \/ Send(s) \/ StreamEnds(s) \/ StreamBreaks(s)
              \/ \E s \in Sidecars : Receive(s) \/ RunReplaces(s) \/ ApplyEvent(s)
  BY DEF Next, Handle, Run, RunClient
<1>6. UNCHANGED <<history, cache>> => [Abstract!Next]_(Abstract!vars)
  BY DEF Abstract!vars
<1> QED BY <1>1, <1>2, <1>3, <1>4, <1>5, <1>6

(* The control stream, and discovery.Run beside it, implement what is      *)
(* promised to the discovery cache.                                        *)
THEOREM StreamImplementsCache == Spec => ImplementsSnapshotCache
<1>1. Init => Abstract!Init
  BY DEF Init, Abstract!Init, EmptyCache, Abstract!EmptyCache
<1>2. IInv /\ [Next]_vars => IInv' /\ [Abstract!Next]_(Abstract!vars)
  BY NextInv
<1> QED BY InitInv, <1>1, <1>2, PTL DEF Spec, ImplementsSnapshotCache, Abstract!Spec

-----------------------------------------------------------------------------
(* The last snapshot that a sidecar has received or will receive. *)
LastOf(c, w) == IF w = <<>> THEN c ELSE w[Len(w)]

(* What is sent on a stream comes in the order it was read. *)
Ordered(c, w, g) ==
  /\ \A i \in 1..Len(w) : c.revision <= w[i].revision
  /\ \A i, j \in 1..Len(w) : i <= j => w[i].revision <= w[j].revision
  /\ g.pc = "sending" =>
       /\ c.revision <= g.snapshot.revision
       /\ \A i \in 1..Len(w) : w[i].revision <= g.snapshot.revision

(* The last of it is not behind the watch: it is at a later revision, or   *)
(* nothing has changed up to the one the watch looks at next.              *)
Followed(h, c, w, g) ==
  /\ g.cursor # 0 => g.cursor \in 2..(Len(h) + 1)
  /\ g.pc = "sending" /\ g.cursor # 0 => g.cursor - 1 <= g.snapshot.revision
  /\ g.pc = "opening" => LastOf(c, w) = g.snapshot
  /\ g.pc = "watching" =>
       /\ g.cursor # 0
       /\ LastOf(c, w).revision < g.cursor => LastOf(c, w).endpoints = h[g.cursor - 1]

Stream(s) ==
  path[s] = "stream" =>
    Ordered(cache[s], wire[s], handler[s]) /\ Followed(history, cache[s], wire[s], handler[s])

StreamInv == \A s \in Sidecars : Stream(s)

(* What is known of the registry, a cache, its stream and its handler. *)
Known(h, c, w, g) ==
  /\ h \in Seq(SUBSET Endpoints)
  /\ Len(h) \in Nat \ {0}
  /\ c \in Snapshot /\ w \in Seq(Snapshot) /\ g \in Handler
  /\ c.revision \in 0..Len(h)
  /\ c.revision # 0 => c.endpoints = h[c.revision]
  /\ \A i \in 1..Len(w) : w[i].revision \in 1..Len(h) /\ w[i].endpoints = h[w[i].revision]
  /\ g.pc \in {"sending", "opening"} =>
       g.snapshot.revision \in 1..Len(h) /\ g.snapshot.endpoints = h[g.snapshot.revision]

(* The first invariant, for one sidecar. *)
LEMMA KnownOf ==
  ASSUME IInv, NEW s \in Sidecars
  PROVE  Known(history, cache[s], wire[s], handler[s])
<1>1. Types /\ Wholes(s)
  BY DEF IInv
<1>2. Len(history) \in Nat \ {0}
  BY <1>1 DEF Types
<1>3. cache[s].revision \in 0..Len(history)
      /\ (cache[s].revision # 0 => cache[s].endpoints = history[cache[s].revision])
  <2>1. CASE cache[s] = EmptyCache
    BY <1>2, <2>1 DEF EmptyCache
  <2>2. CASE Whole(cache[s])
    BY <1>2, <2>2, WholeFields
  <2> QED BY <1>1, <2>1, <2>2 DEF Wholes
<1>4. \A i \in 1..Len(wire[s]) :
        wire[s][i].revision \in 1..Len(history) /\ wire[s][i].endpoints = history[wire[s][i].revision]
  BY <1>1, WholeFields DEF Wholes
<1>5. handler[s].pc \in {"sending", "opening"} =>
        /\ handler[s].snapshot.revision \in 1..Len(history)
        /\ handler[s].snapshot.endpoints = history[handler[s].snapshot.revision]
  BY <1>1, WholeFields DEF Wholes
<1> QED BY <1>1, <1>2, <1>3, <1>4, <1>5 DEF Known, Types

(* The last snapshot is one of the registry as well. *)
LEMMA LastKnown ==
  ASSUME NEW h, NEW c, NEW w, NEW g, Known(h, c, w, g)
  PROVE  /\ LastOf(c, w).revision \in 0..Len(h)
         /\ LastOf(c, w).revision # 0 => LastOf(c, w).endpoints = h[LastOf(c, w).revision]
<1>1. CASE w = <<>>
  BY <1>1 DEF Known, LastOf
<1>2. CASE w # <<>>
  <2>1. Len(w) \in 1..Len(w)
    BY <1>2 DEF Known
  <2> QED BY <1>2, <2>1 DEF Known, LastOf
<1> QED BY <1>1, <1>2

(* The handler reads the registry. *)
LEMMA ReadFollows ==
  ASSUME NEW h, NEW c, NEW w, NEW g, Known(h, c, w, g), Followed(h, c, w, g), Ordered(c, w, g),
         NEW f \in Handler, f.pc = "sending", f.cursor = g.cursor, f.snapshot.revision = Len(h)
  PROVE  Ordered(c, w, f) /\ Followed(h, c, w, f)
<1>1. c.revision <= Len(h) /\ \A i \in 1..Len(w) : w[i].revision <= Len(h)
  BY DEF Known
<1>2. Ordered(c, w, f)
  BY <1>1 DEF Ordered
<1>3. Followed(h, c, w, f)
  BY DEF Followed, Known
<1> QED BY <1>2, <1>3

(* The handler sends what it has read. *)
LEMMA SendFollows ==
  ASSUME NEW h, NEW c, NEW w, NEW g, Known(h, c, w, g), Followed(h, c, w, g), Ordered(c, w, g),
         g.pc = "sending",
         NEW f \in Handler, f.pc = IF g.cursor = 0 THEN "opening" ELSE "watching",
         f.cursor = g.cursor, f.snapshot = g.snapshot,
         NEW v, v = Append(w, g.snapshot)
  PROVE  Ordered(c, v, f) /\ Followed(h, c, v, f)
<1>0. g.snapshot \in Snapshot /\ w \in Seq(Snapshot) /\ Len(w) \in Nat
  BY DEF Known, Handler
<1>1. /\ Len(v) = Len(w) + 1
      /\ \A i \in 1..Len(w) : v[i] = w[i]
      /\ v[Len(v)] = g.snapshot
      /\ v # <<>>
  BY <1>0
<1>2. LastOf(c, v) = g.snapshot
  BY <1>1 DEF LastOf
<1>3. /\ c.revision <= g.snapshot.revision
      /\ \A i \in 1..Len(w) : c.revision <= w[i].revision /\ w[i].revision <= g.snapshot.revision
      /\ \A i, j \in 1..Len(w) : i <= j => w[i].revision <= w[j].revision
      /\ g.snapshot.revision \in Nat
  BY <1>0 DEF Ordered, Snapshot
<1>4. \A i \in 1..Len(v) : i \in 1..Len(w) \/ i = Len(v)
  BY <1>0, <1>1
<1>5. \A i \in 1..Len(v) : c.revision <= v[i].revision
  BY <1>1, <1>3, <1>4
<1>6. ASSUME NEW i \in 1..Len(v), NEW j \in 1..Len(v), i <= j
      PROVE  v[i].revision <= v[j].revision
  <2>1. CASE j \in 1..Len(w)
    <3>1. i \in 1..Len(w)
      BY <1>0, <1>6, <2>1
    <3> QED BY <1>1, <1>3, <1>6, <2>1, <3>1
  <2>2. CASE j = Len(v)
    <3>1. v[j] = g.snapshot
      BY <1>1, <2>2
    <3>2. CASE i \in 1..Len(w)
      BY <1>1, <1>3, <3>1, <3>2
    <3>3. CASE i = Len(v)
      BY <1>1, <1>3, <3>1, <3>3
    <3> QED BY <1>4, <3>2, <3>3
  <2> QED BY <1>4, <2>1, <2>2
<1>7. Ordered(c, v, f)
  BY <1>5, <1>6 DEF Ordered
<1>8. Followed(h, c, v, f)
  <2>1. f.cursor # 0 => f.cursor \in 2..(Len(h) + 1)
    BY DEF Followed
  <2>2. ASSUME f.pc = "watching"
        PROVE  f.cursor # 0 /\ (g.snapshot.revision < f.cursor => g.snapshot.endpoints = h[f.cursor - 1])
    <3>1. f.cursor # 0
      BY <2>2
    <3>2. f.cursor - 1 <= g.snapshot.revision
      BY <3>1 DEF Followed
    <3>3. g.snapshot.revision < f.cursor => g.snapshot.revision = f.cursor - 1
      BY <1>3, <2>1, <3>1, <3>2 DEF Known
    <3> QED BY <3>1, <3>3 DEF Known
  <2> QED BY <1>2, <2>1, <2>2 DEF Followed
<1> QED BY <1>7, <1>8

(* The watch goes on: it is opened behind the snapshot that was sent, or   *)
(* passes a revision that changed nothing.                                 *)
LEMMA WatchFollows ==
  ASSUME NEW h, NEW c, NEW w, NEW g, Known(h, c, w, g), Followed(h, c, w, g), Ordered(c, w, g),
         NEW f \in Handler, f.pc = "watching",
         \/ g.pc = "opening" /\ f.cursor = g.snapshot.revision + 1
         \/ /\ g.pc = "watching" /\ g.cursor <= Len(h) /\ f.cursor = g.cursor + 1
            /\ h[g.cursor] = h[g.cursor - 1]
  PROVE  Ordered(c, w, f) /\ Followed(h, c, w, f)
<1>0. /\ LastOf(c, w).revision \in 0..Len(h) /\ Len(h) \in Nat
      /\ LastOf(c, w).revision # 0 => LastOf(c, w).endpoints = h[LastOf(c, w).revision]
  <2>1. Len(h) \in Nat
    BY DEF Known
  <2> QED BY <2>1, LastKnown
<1>1. Ordered(c, w, f)
  BY DEF Ordered
<1>2. CASE g.pc = "opening" /\ f.cursor = g.snapshot.revision + 1
  <2>1. LastOf(c, w) = g.snapshot /\ g.snapshot.revision \in 1..Len(h)
        /\ g.snapshot.endpoints = h[g.snapshot.revision]
    BY <1>2 DEF Followed, Known
  <2>2. f.cursor \in 2..(Len(h) + 1) /\ f.cursor - 1 = g.snapshot.revision /\ f.cursor # 0
    BY <1>0, <1>2, <2>1
  <2> QED BY <1>1, <2>1, <2>2 DEF Followed
<1>3. CASE /\ g.pc = "watching" /\ g.cursor <= Len(h) /\ f.cursor = g.cursor + 1
           /\ h[g.cursor] = h[g.cursor - 1]
  <2>1. g.cursor \in 2..(Len(h) + 1)
        /\ (LastOf(c, w).revision < g.cursor => LastOf(c, w).endpoints = h[g.cursor - 1])
    BY <1>3 DEF Followed
  <2>2. f.cursor \in 2..(Len(h) + 1) /\ f.cursor - 1 = g.cursor /\ f.cursor # 0
    BY <1>0, <1>3, <2>1
  <2>3. LastOf(c, w).revision < f.cursor => LastOf(c, w).endpoints = h[f.cursor - 1]
    <3>1. CASE LastOf(c, w).revision < g.cursor
      BY <1>3, <2>1, <2>2, <3>1
    <3>2. CASE LastOf(c, w).revision = g.cursor
      BY <1>0, <2>1, <2>2, <3>2
    <3> QED BY <1>0, <2>1, <2>2, <3>1, <3>2
  <2> QED BY <1>1, <2>2, <2>3 DEF Followed
<1> QED BY <1>2, <1>3

(* Steps that leave the handler in none of these places. *)
LEMMA ElsewhereFollows ==
  ASSUME NEW h, NEW c, NEW w, NEW g, Known(h, c, w, g), Followed(h, c, w, g), Ordered(c, w, g),
         NEW f \in Handler, f.pc \notin {"sending", "opening", "watching"},
         \/ f.cursor \in {0, g.cursor}
         \/ f.cursor = g.cursor + 1 /\ g.cursor # 0 /\ g.cursor <= Len(h)
  PROVE  Ordered(c, w, f) /\ Followed(h, c, w, f)
<1>1. Ordered(c, w, f)
  BY DEF Ordered
<1>2. f.cursor # 0 => f.cursor \in 2..(Len(h) + 1)
  BY DEF Followed, Known
<1> QED BY <1>1, <1>2 DEF Followed

(* The sidecar receives the first message. *)
LEMMA ReceiveFollows ==
  ASSUME NEW h, NEW c, NEW w, NEW g, Known(h, c, w, g), Followed(h, c, w, g), Ordered(c, w, g),
         w # <<>>, NEW d, d = Replace(c, Head(w)), NEW v, v = Tail(w)
  PROVE  Ordered(d, v, g) /\ Followed(h, d, v, g)
<1>0. w \in Seq(Snapshot) /\ Len(w) \in Nat \ {0} /\ Head(w) = w[1] /\ 1 \in 1..Len(w)
  BY DEF Known
<1>1. /\ Len(v) = Len(w) - 1
      /\ \A i \in 1..Len(v) : v[i] = w[i + 1] /\ i + 1 \in 1..Len(w) /\ 1 <= i + 1
  BY <1>0
<1>2. /\ \A i \in 1..Len(w) : c.revision <= w[i].revision
      /\ \A i, j \in 1..Len(w) : i <= j => w[i].revision <= w[j].revision
      /\ g.pc = "sending" => \A i \in 1..Len(w) : w[i].revision <= g.snapshot.revision
  BY DEF Ordered
<1>3. d = w[1]
  <2>1. c.revision \in Nat /\ w[1].revision \in Nat /\ c.revision <= w[1].revision
    BY <1>0, <1>2 DEF Known, Snapshot
  <2> QED BY <1>0, <2>1 DEF Replace
<1>4. LastOf(d, v) = LastOf(c, w)
  <2>1. CASE Len(w) = 1
    <3>1. v = <<>>
      BY <1>0, <2>1
    <3> QED BY <1>3, <2>1, <3>1 DEF LastOf
  <2>2. CASE Len(w) # 1
    <3>0. Len(v) \in 1..Len(v) /\ Len(v) + 1 = Len(w) /\ Len(v) # 0
      BY <1>0, <1>1, <2>2
    <3>1. v # <<>> /\ w # <<>> /\ Len(v) \in 1..Len(v) /\ Len(v) + 1 = Len(w)
      BY <3>0
    <3> QED BY <1>1, <3>1 DEF LastOf
  <2> QED BY <2>1, <2>2
<1>5. \A i \in 1..Len(v) : d.revision <= v[i].revision
  BY <1>0, <1>1, <1>2, <1>3
<1>6. ASSUME NEW i \in 1..Len(v), NEW j \in 1..Len(v), i <= j
      PROVE  v[i].revision <= v[j].revision
  <2>1. i + 1 <= j + 1
    BY <1>6
  <2> QED BY <1>1, <1>2, <1>6, <2>1
<1>7. g.pc = "sending" =>
        d.revision <= g.snapshot.revision /\ \A i \in 1..Len(v) : v[i].revision <= g.snapshot.revision
  BY <1>0, <1>1, <1>2, <1>3
<1>8. Ordered(d, v, g)
  BY <1>5, <1>6, <1>7 DEF Ordered
<1>9. Followed(h, d, v, g)
  BY <1>4 DEF Followed
<1> QED BY <1>8, <1>9

(* Without a stream there is nothing to follow. *)
LEMMA NothingFollows ==
  ASSUME NEW h, NEW c, NEW pc \in HandlerPC \ {"sending", "opening", "watching"}
  PROVE  Ordered(c, <<>>, HandlerAt(pc)) /\ Followed(h, c, <<>>, HandlerAt(pc))
BY DEF Ordered, Followed, HandlerAt

(* The registry moves on. *)
LEMMA CommitFollows ==
  ASSUME NEW h, NEW c, NEW w, NEW g, Known(h, c, w, g), Followed(h, c, w, g),
         NEW e \in SUBSET Endpoints, NEW k, k = Append(h, e)
  PROVE  Followed(k, c, w, g)
<1>1. Len(h) \in Nat /\ h \in Seq(SUBSET Endpoints)
  BY DEF Known
<1>2. Len(k) = Len(h) + 1 /\ \A i \in 1..Len(h) : k[i] = h[i]
  BY <1>1
<1>3. g.cursor # 0 => g.cursor - 1 \in 1..Len(h) /\ g.cursor \in 2..(Len(k) + 1)
  BY <1>1, <1>2 DEF Followed
<1> QED BY <1>2, <1>3 DEF Followed

(* A step of one sidecar is checked for that sidecar only. *)
LEMMA OneStream ==
  ASSUME IInv, StreamInv, NEW s \in Sidecars, UNCHANGED <<path, history>>,
         \A t \in Sidecars \ {s} : /\ cache'[t] = cache[t] /\ wire'[t] = wire[t]
                                   /\ handler'[t] = handler[t],
         path[s] = "stream" =>
           /\ Ordered(cache'[s], wire'[s], handler'[s])
           /\ Followed(history, cache'[s], wire'[s], handler'[s])
  PROVE  StreamInv'
<1> SUFFICES ASSUME NEW t \in Sidecars, path'[t] = "stream"
             PROVE  /\ Ordered(cache'[t], wire'[t], handler'[t])
                    /\ Followed(history', cache'[t], wire'[t], handler'[t])
  BY DEF StreamInv, Stream
<1>1. CASE t = s
  BY <1>1
<1>2. CASE t # s
  <2>1. cache'[t] = cache[t] /\ wire'[t] = wire[t] /\ handler'[t] = handler[t]
    BY <1>2
  <2> QED BY <2>1 DEF StreamInv, Stream
<1> QED BY <1>1, <1>2

(* The handler's own steps. *)
LEMMA HandlerStream ==
  ASSUME IInv, StreamInv, NEW s \in Sidecars,
         \/ ReceiveRegister(s) \/ FullSync(s) \/ OpenWatch(s) \/ WatchEvent(s)
         \/ WatchPasses(s) \/ HandlerFails(s) \/ Connect(s) \/ CallRun(s)
  PROVE  StreamInv'
<1>0. /\ handler \in [Sidecars -> Handler] /\ Len(history) \in Nat
      /\ handler[s] \in Handler /\ handler[s].cursor \in Nat
      /\ history \in Seq(SUBSET Endpoints)
  BY DEF IInv, Types, Handler
<1>1. UNCHANGED <<path, history, cache, wire>>
  BY DEF ReceiveRegister, FullSync, OpenWatch, WatchEvent, WatchPasses, HandlerFails,
         Connect, CallRun, Begin
<1>2. PICK c, w, h, g : c = cache[s] /\ w = wire[s] /\ h = history /\ g = handler[s]
  OBVIOUS
<1>3. Known(h, c, w, g)
  BY <1>2, KnownOf
<1>4. /\ handler' \in [Sidecars -> Handler]
      /\ \A t \in Sidecars \ {s} : handler'[t] = handler[t]
  <2>1. IInv'
    BY HandlerSteps
  <2>2. \A t \in Sidecars \ {s} : handler'[t] = handler[t]
    BY <1>0 DEF ReceiveRegister, FullSync, OpenWatch, WatchEvent, WatchPasses, HandlerFails,
                Connect, CallRun, Begin
  <2> QED BY <2>1, <2>2 DEF IInv, Types
<1>5. PICK f \in Handler : f = handler'[s]
  BY <1>4
<1>6. ASSUME path[s] = "stream" PROVE Ordered(c, w, f) /\ Followed(h, c, w, f)
  <2>1. Ordered(c, w, g) /\ Followed(h, c, w, g)
    BY <1>2, <1>6 DEF StreamInv, Stream
  <2>2. CASE ReceiveRegister(s)
    <3>1. f.pc = "reading" /\ f.cursor = g.cursor
      BY <1>0, <1>2, <1>5, <2>2 DEF ReceiveRegister, Handler
    <3> QED BY <1>3, <2>1, <3>1, ElsewhereFollows
  <2>3. CASE FullSync(s)
    <3>1. f.pc = "sending" /\ f.cursor = g.cursor /\ f.snapshot = RangePrefix
      BY <1>0, <1>2, <1>5, <2>3 DEF FullSync, Handler
    <3>2. f.snapshot.revision = Len(h)
      BY <1>2, <3>1 DEF RangePrefix, revision
    <3> QED BY <1>3, <2>1, <3>1, <3>2, ReadFollows
  <2>4. CASE OpenWatch(s)
    <3>1. g.pc = "opening" /\ f.pc = "watching" /\ f.cursor = g.snapshot.revision + 1
      BY <1>0, <1>2, <1>5, <2>4 DEF OpenWatch, Handler
    <3> QED BY <1>3, <2>1, <3>1, WatchFollows
  <2>5. CASE WatchEvent(s)
    <3>1. /\ g.pc = "watching" /\ f.pc = "reading" /\ f.cursor = g.cursor + 1
          /\ g.cursor <= Len(h)
      BY <1>0, <1>2, <1>5, <2>5 DEF WatchEvent, Handler, revision
    <3>2. g.cursor # 0
      BY <2>1, <3>1 DEF Followed
    <3> QED BY <1>3, <2>1, <3>1, <3>2, ElsewhereFollows
  <2>6. CASE WatchPasses(s)
    <3>1. /\ g.pc = "watching" /\ f.pc = "watching" /\ f.cursor = g.cursor + 1
          /\ g.cursor <= Len(h) /\ h[g.cursor] = h[g.cursor - 1]
      BY <1>0, <1>2, <1>5, <2>6 DEF WatchPasses, Handler, revision
    <3> QED BY <1>3, <2>1, <3>1, WatchFollows
  <2>7. CASE HandlerFails(s) \/ Connect(s) \/ CallRun(s)
    <3>1. f.pc \in {"ended", "awaiting"} /\ f.cursor = 0
      BY <1>0, <1>5, <1>6, <2>7 DEF HandlerFails, Connect, CallRun, Begin, HandlerAt
    <3> QED BY <1>3, <2>1, <3>1, ElsewhereFollows
  <2> QED BY <2>2, <2>3, <2>4, <2>5, <2>6, <2>7
<1> QED BY <1>1, <1>2, <1>4, <1>5, <1>6, OneStream

(* The steps that put messages on the stream, take them off or lose them. *)
LEMMA MessageStream ==
  ASSUME IInv, StreamInv, NEW s \in Sidecars,
         Send(s) \/ Receive(s) \/ StreamEnds(s) \/ StreamBreaks(s)
  PROVE  StreamInv'
<1>0. /\ handler \in [Sidecars -> Handler] /\ handler[s] \in Handler
      /\ wire \in [Sidecars -> Seq(Snapshot)] /\ cache \in [Sidecars -> Snapshot]
  BY DEF IInv, Types
<1>1. UNCHANGED <<path, history>>
  BY DEF Send, Receive, StreamEnds, StreamBreaks, Disconnect
<1>2. \A t \in Sidecars \ {s} : /\ cache'[t] = cache[t] /\ wire'[t] = wire[t]
                                /\ handler'[t] = handler[t]
  BY <1>0 DEF Send, Receive, StreamEnds, StreamBreaks, Disconnect
<1>3. PICK c, w, h, g : c = cache[s] /\ w = wire[s] /\ h = history /\ g = handler[s]
  OBVIOUS
<1>4. Known(h, c, w, g)
  BY <1>3, KnownOf
<1>5. ASSUME path[s] = "stream"
      PROVE  Ordered(cache'[s], wire'[s], handler'[s]) /\ Followed(h, cache'[s], wire'[s], handler'[s])
  <2>1. Ordered(c, w, g) /\ Followed(h, c, w, g)
    BY <1>3, <1>5 DEF StreamInv, Stream
  <2>2. CASE Send(s)
    <3>1. handler'[s] \in Handler
      <4>1. IInv'
        BY <2>2, StreamSteps
      <4> QED BY <4>1 DEF IInv, Types
    <3>2. PICK f \in Handler : f = handler'[s]
      BY <3>1
    <3>3. /\ g.pc = "sending" /\ f.pc = IF g.cursor = 0 THEN "opening" ELSE "watching"
          /\ f.cursor = g.cursor /\ f.snapshot = g.snapshot
          /\ wire'[s] = Append(w, g.snapshot) /\ cache'[s] = c
      BY <1>0, <1>3, <2>2, <3>2 DEF Send, Handler
    <3> QED BY <1>4, <2>1, <3>2, <3>3, SendFollows
  <2>3. CASE Receive(s)
    <3>1. /\ w # <<>> /\ handler'[s] = g
          /\ cache'[s] = Replace(c, Head(w)) /\ wire'[s] = Tail(w)
      BY <1>0, <1>3, <2>3 DEF Receive
    <3> QED BY <1>4, <2>1, <3>1, ReceiveFollows
  <2>4. CASE StreamEnds(s) \/ StreamBreaks(s)
    <3>1. wire'[s] = <<>> /\ handler'[s] = HandlerAt("none")
      BY <1>0, <2>4 DEF StreamEnds, StreamBreaks, Disconnect
    <3> QED BY <3>1, NothingFollows DEF HandlerPC
  <2> QED BY <2>2, <2>3, <2>4
<1> QED BY <1>1, <1>2, <1>3, <1>5, OneStream

(* Every step of the specification. *)
LEMMA NextStream ==
  ASSUME IInv, StreamInv, [Next]_vars
  PROVE  StreamInv'
<1>1. CASE UNCHANGED vars
  BY <1>1 DEF vars, StreamInv, Stream
<1>2. CASE Commit
  <2>1. PICK e \in SUBSET Endpoints : history' = Append(history, e)
    <3>1. history[revision] \in SUBSET Endpoints
      BY DEF IInv, Types, revision
    <3> QED BY <1>2, <3>1 DEF Commit
  <2>2. UNCHANGED <<path, cache, wire, handler>>
    BY <1>2 DEF Commit
  <2>3. ASSUME NEW s \in Sidecars, path[s] = "stream"
        PROVE  Followed(history', cache[s], wire[s], handler[s])
               /\ Ordered(cache[s], wire[s], handler[s])
    <3>1. Known(history, cache[s], wire[s], handler[s])
      BY KnownOf
    <3>2. Ordered(cache[s], wire[s], handler[s]) /\ Followed(history, cache[s], wire[s], handler[s])
      BY <2>3 DEF StreamInv, Stream
    <3> QED BY <2>1, <3>1, <3>2, CommitFollows
  <2> QED BY <2>2, <2>3 DEF StreamInv, Stream
<1>3. ASSUME NEW s \in Sidecars, RunReplaces(s) \/ ApplyEvent(s)
      PROVE  StreamInv'
  <2>1. /\ handler \in [Sidecars -> Handler] /\ cache \in [Sidecars -> Snapshot]
    BY DEF IInv, Types
  <2>2. /\ path[s] = "direct" /\ UNCHANGED <<path, history, wire>>
        /\ \A t \in Sidecars \ {s} : cache'[t] = cache[t] /\ handler'[t] = handler[t]
    BY <1>3, <2>1 DEF RunReplaces, ApplyEvent
  <2> QED BY <2>2, OneStream
<1>4. Next => \/ Commit
              \/ \E s \in Sidecars :
                   \/ ReceiveRegister(s) \/ FullSync(s) \/ OpenWatch(s) \/ WatchEvent(s)
                   \/ WatchPasses(s) \/ HandlerFails(s) \/ Connect(s) \/ CallRun(s)
              \/ \E s \in Sidecars : Send(s) \/ Receive(s) \/ StreamEnds(s) \/ StreamBreaks(s)
              \/ \E s \in Sidecars : RunReplaces(s) \/ ApplyEvent(s)
  BY DEF Next, Handle, Run, RunClient
<1> QED BY <1>1, <1>2, <1>3, <1>4, HandlerStream, MessageStream

(* When the watch has nothing left to look at and the stream is drained,   *)
(* the cache is what the registry holds: no registration falls between a   *)
(* snapshot and the watch that follows it, for any number of sidecars,     *)
(* commits and failures.                                                   *)
THEOREM IdleIsCurrent == Spec => []IdleMeansCurrent
<1>1. Init => StreamInv
  BY DEF Init, StreamInv, Stream, Ordered, Followed, HandlerAt
<1>2. IInv /\ StreamInv => IdleMeansCurrent
  <2> SUFFICES ASSUME IInv, StreamInv, NEW s \in Sidecars,
                      handler[s].pc = "watching", handler[s].cursor > revision, wire[s] = <<>>
               PROVE  cache[s].endpoints = history[revision]
    BY DEF IdleMeansCurrent
  <2>1. cache[s].revision \in 0..Len(history) /\ Len(history) \in Nat
    BY KnownOf DEF Known
  <2>2. /\ handler[s].cursor \in 2..(Len(history) + 1)
        /\ cache[s].revision < handler[s].cursor => cache[s].endpoints = history[handler[s].cursor - 1]
    <3>1. CASE path[s] = "stream"
      BY <2>1, <3>1 DEF StreamInv, Stream, Followed, LastOf
    <3>2. CASE path[s] = "direct"
      BY <3>2 DEF IInv, Direct
    <3> QED BY <3>1, <3>2 DEF IInv, Types
  <2>3. handler[s].cursor - 1 = revision /\ cache[s].revision < handler[s].cursor
    BY <2>1, <2>2 DEF revision
  <2> QED BY <2>2, <2>3
<1>3. IInv /\ [Next]_vars => IInv'
  BY NextInv
<1>4. IInv /\ StreamInv /\ [Next]_vars => StreamInv'
  BY NextStream
<1> QED BY InitInv, <1>1, <1>2, <1>3, <1>4, PTL DEF Spec

-----------------------------------------------------------------------------
(* The part of the types that the invariants above leave out. *)
Limits ==
  /\ client \in [Sidecars -> {"disconnected", "streaming"}]
  /\ breaks \in 0..MaxBreaks
  /\ \A s \in Sidecars : /\ handler[s].snapshot.revision <= Len(history)
                         /\ handler[s].cursor <= Len(history) + 1

(* Every step stays within the limits. *)
LEMMA NextLimits ==
  ASSUME IInv, Limits, [Next]_vars
  PROVE  Limits'
<1>0. /\ handler \in [Sidecars -> Handler] /\ Len(history) \in Nat \ {0}
      /\ history \in Seq(SUBSET Endpoints) /\ breaks \in Nat /\ MaxBreaks \in Nat
  BY Bounds DEF IInv, Types, Limits
<1>1. CASE UNCHANGED vars
  BY <1>1 DEF vars, Limits
<1>2. CASE Commit
  <2>1. Len(history') = Len(history) + 1 /\ UNCHANGED <<client, breaks, handler>>
    BY <1>0, <1>2 DEF Commit
  <2>2. \A s \in Sidecars : handler[s].snapshot.revision \in Nat /\ handler[s].cursor \in Nat
    BY <1>0 DEF Handler, Snapshot
  <2> QED BY <1>0, <2>1, <2>2 DEF Limits
<1>3. ASSUME NEW s \in Sidecars,
             Handle(s) \/ Run(s) \/ RunClient(s) \/ CallRun(s) \/ HandlerFails(s) \/ StreamBreaks(s)
      PROVE  Limits'
  <2>0. /\ handler[s] \in Handler /\ handler[s].snapshot.revision \in Nat
        /\ handler[s].cursor \in Nat
        /\ handler[s].snapshot.revision <= Len(history) /\ handler[s].cursor <= Len(history) + 1
    BY <1>0 DEF Handler, Snapshot, Limits
  <2>1. history' = history
    BY <1>3 DEF Handle, Run, RunClient, ReceiveRegister, FullSync, Send, OpenWatch, WatchEvent,
                WatchPasses, RunReplaces, ApplyEvent,
                Connect, CallRun, Begin, Receive, StreamEnds, Disconnect,
                HandlerFails, StreamBreaks
  <2>2. client' \in [Sidecars -> {"disconnected", "streaming"}]
    BY <1>3 DEF Limits, Handle, Run, RunClient, ReceiveRegister, FullSync, Send, OpenWatch,
                WatchEvent, WatchPasses, RunReplaces, ApplyEvent,
                Connect, CallRun, Begin, Receive, StreamEnds,
                Disconnect, HandlerFails, StreamBreaks
  <2>3. breaks' \in 0..MaxBreaks
    <3>1. breaks' = breaks \/ (breaks < MaxBreaks /\ breaks' = breaks + 1)
      BY <1>3 DEF Handle, Run, RunClient, ReceiveRegister, FullSync, Send, OpenWatch,
                  WatchEvent, WatchPasses, RunReplaces, ApplyEvent,
                  Connect, CallRun, Begin, Receive, StreamEnds,
                  HandlerFails, StreamBreaks
    <3> QED BY <1>0, <3>1 DEF Limits
  <2>4. \A t \in Sidecars \ {s} : handler'[t] = handler[t]
    BY <1>0, <1>3 DEF Handle, Run, RunClient, ReceiveRegister, FullSync, Send, OpenWatch,
                WatchEvent, WatchPasses, RunReplaces, ApplyEvent,
                Connect, CallRun, Begin, Receive, StreamEnds,
                Disconnect, HandlerFails, StreamBreaks
  <2>5. /\ handler'[s].snapshot.revision <= Len(history)
        /\ handler'[s].cursor <= Len(history) + 1
    <3>1. CASE ReceiveRegister(s) \/ Send(s) \/ RunReplaces(s) \/ Receive(s)
      <4>1. handler'[s].snapshot = handler[s].snapshot /\ handler'[s].cursor = handler[s].cursor
        BY <1>0, <2>0, <3>1 DEF ReceiveRegister, Send, RunReplaces, Receive, Handler
      <4> QED BY <2>0, <4>1
    <3>2. CASE FullSync(s)
      <4>1. handler'[s].snapshot = RangePrefix /\ handler'[s].cursor = handler[s].cursor
        BY <1>0, <2>0, <3>2 DEF FullSync, Handler
      <4> QED BY <1>0, <2>0, <4>1 DEF RangePrefix, revision
    <3>3. CASE OpenWatch(s)
      <4>1. handler'[s].snapshot = handler[s].snapshot
            /\ handler'[s].cursor = handler[s].snapshot.revision + 1
        BY <1>0, <2>0, <3>3 DEF OpenWatch, Handler
      <4> QED BY <1>0, <2>0, <4>1
    <3>4. CASE WatchEvent(s) \/ WatchPasses(s) \/ ApplyEvent(s)
      <4>1. handler'[s].snapshot = handler[s].snapshot /\ handler'[s].cursor = handler[s].cursor + 1
            /\ handler[s].cursor <= Len(history)
        BY <1>0, <2>0, <3>4 DEF WatchEvent, WatchPasses, ApplyEvent, Handler, revision
      <4> QED BY <1>0, <2>0, <4>1
    <3>5. CASE HandlerFails(s) \/ Connect(s) \/ CallRun(s) \/ StreamEnds(s) \/ StreamBreaks(s)
      <4>1. handler'[s].snapshot.revision = 0 /\ handler'[s].cursor = 0
        BY <1>0, <2>0, <3>5 DEF HandlerFails,
                                Connect, CallRun, Begin, StreamEnds, StreamBreaks, Disconnect,
                                HandlerAt, EmptyCache
      <4> QED BY <1>0, <4>1
    <3> QED BY <1>3, <3>1, <3>2, <3>3, <3>4, <3>5 DEF Handle, Run, RunClient
  <2>6. ASSUME NEW t \in Sidecars
        PROVE  handler'[t].snapshot.revision <= Len(history) /\ handler'[t].cursor <= Len(history) + 1
    BY <2>4, <2>5 DEF Limits
  <2> QED BY <2>1, <2>2, <2>3, <2>6 DEF Limits
<1> QED BY <1>1, <1>2, <1>3 DEF Next

(* Every variable keeps its type and nobody is ahead of etcd: neither a    *)
(* cache, nor a snapshot on its way, nor a watch.                          *)
THEOREM TypeCorrect == Spec => []TypeOK
<1>1. Init => Limits
  BY Bounds DEF Init, Limits, HandlerAt, EmptyCache
<1>2. IInv /\ Limits => TypeOK
  <2> SUFFICES ASSUME IInv, Limits PROVE TypeOK
    OBVIOUS
  <2>1. ASSUME NEW s \in Sidecars
        PROVE  /\ cache[s].revision <= revision
               /\ \A i \in 1..Len(wire[s]) : wire[s][i].revision <= revision
    BY KnownOf DEF Known, revision
  <2> QED BY <2>1 DEF TypeOK, IInv, Types, Limits, revision
<1>3. IInv /\ [Next]_vars => IInv'
  BY NextInv
<1>4. IInv /\ Limits /\ [Next]_vars => Limits'
  BY NextLimits
<1> QED BY InitInv, <1>1, <1>2, <1>3, <1>4, PTL DEF Spec
=============================================================================
