---------------------------- MODULE ControlStream ----------------------------
(***************************************************************************)
(* Endpoint discovery: etcd, the control plane's stream handler            *)
(* (internal/controlstream/server.go over internal/discovery/etcd_source.  *)
(* go) and the sidecar's stream client with its discovery cache            *)
(* (internal/controlstream/client.go, internal/discovery/model.go).        *)
(*                                                                         *)
(* A sidecar has at most one stream.  The handler of a stream and the      *)
(* client meet only through `wire`, the ordered messages of the stream.    *)
(* When a stream breaks the client drops the connection, so what the old   *)
(* handler still does is seen by nobody.  The control plane keeps no state *)
(* of its own: a crash of it is the break of its streams.                  *)
(*                                                                         *)
(* A cache may also follow etcd directly: discovery.Run replaces it by a   *)
(* snapshot and applies the events of the watch to it.  The goroutine of   *)
(* Run is then in the place of the handler, and there is no stream.        *)
(***************************************************************************)
EXTENDS Naturals, Sequences

CONSTANTS Sidecars,
          Endpoints,     \* registrable endpoints (service, instance, address)
          MaxRevision,   \* bound on etcd revisions
          MaxBreaks      \* bound on broken streams and failed etcd requests

ASSUME Bounds == MaxRevision \in Nat /\ MaxBreaks \in Nat

VARIABLES path,      \* sidecar -> what feeds its cache: the stream or discovery.Run
          history,   \* etcd: history[r] = endpoints under the prefix at revision r
          cache,     \* sidecar -> discovery.Cache
          client,    \* sidecar -> whether it has a stream, or discovery.Run runs
          wire,      \* sidecar -> snapshots sent on the stream, not yet received
          handler,   \* sidecar -> Server.Stream for its stream
          breaks     \* failures so far

vars == <<path, history, cache, client, wire, handler, breaks>>

Snapshot == [revision : Nat, endpoints : SUBSET Endpoints]

EmptyCache == [revision |-> 0, endpoints |-> {}]

HandlerPC == {"none", "awaiting", "reading", "sending", "opening", "watching", "ended"}

(* snapshot: what sendSnapshot holds between FullSync and Send.  cursor:   *)
(* the next revision the etcd watch will look at, 0 before the watch.      *)
Handler == [pc : HandlerPC, snapshot : Snapshot, cursor : Nat]

HandlerAt(pc) == [pc |-> pc, snapshot |-> EmptyCache, cursor |-> 0]

revision == Len(history)

Init ==
  /\ path \in [Sidecars -> {"stream", "direct"}]
  /\ history = << {} >>
  /\ cache = [s \in Sidecars |-> EmptyCache]
  /\ client = [s \in Sidecars |-> "disconnected"]
  /\ wire = [s \in Sidecars |-> <<>>]
  /\ handler = [s \in Sidecars |-> HandlerAt("none")]
  /\ breaks = 0

-----------------------------------------------------------------------------
(* etcd: one transaction commits one revision.  The registry puts or       *)
(* deletes one key at a time, and a lease has one key.  A Put of the value *)
(* already there, or a transaction elsewhere in the key space, changes     *)
(* nothing under the prefix.                                               *)

Commit ==
  /\ revision < MaxRevision
  /\ \E e \in Endpoints :
       history' \in {Append(history, history[revision] \cup {e}),
                     Append(history, history[revision] \ {e})}
  /\ UNCHANGED <<path, cache, client, wire, handler, breaks>>

-----------------------------------------------------------------------------
(* The control plane's handler of one stream. *)

(* <-registered *)
ReceiveRegister(s) ==
  /\ handler[s].pc = "awaiting"
  /\ handler' = [handler EXCEPT ![s].pc = "reading"]
  /\ UNCHANGED <<path, history, cache, client, wire, breaks>>

(* Mutated form: the revision is asked for after the endpoints were read. *)
FullSyncTwoReads(s) ==
  /\ handler[s].pc = "reading"
  /\ handler' = [handler EXCEPT ![s].pc = "sending",
                                ![s].snapshot =
                                   [revision  |-> revision,
                                    endpoints |-> history[IF revision > 1
                                                          THEN revision - 1 ELSE 1]]]
  /\ UNCHANGED <<path, history, cache, client, wire, breaks>>

(* One range request, with the revision of the response header. *)
RangePrefix == [revision |-> revision, endpoints |-> history[revision]]

(* The first half of sendSnapshot. *)
FullSync(s) ==
  /\ handler[s].pc = "reading"
  /\ handler' = [handler EXCEPT ![s].pc = "sending", ![s].snapshot = RangePrefix]
  /\ UNCHANGED <<path, history, cache, client, wire, breaks>>

(* The second half.  The first snapshot is followed by Watch, a later one  *)
(* by the next event.                                                      *)
Send(s) ==
  /\ path[s] = "stream"
  /\ handler[s].pc = "sending"
  /\ wire' = [wire EXCEPT ![s] = Append(@, handler[s].snapshot)]
  /\ handler' = [handler EXCEPT ![s].pc = IF handler[s].cursor = 0
                                          THEN "opening" ELSE "watching"]
  /\ UNCHANGED <<path, history, cache, client, breaks>>

(* Mutated form: the watch starts at the revision etcd is at by then. *)
OpenWatchFromNow(s) ==
  /\ handler[s].pc = "opening"
  /\ handler' = [handler EXCEPT ![s].pc = "watching", ![s].cursor = revision + 1]
  /\ UNCHANGED <<path, history, cache, client, wire, breaks>>

(* Watch(ctx, revision+1, ...) *)
OpenWatch(s) ==
  /\ handler[s].pc = "opening"
  /\ handler' = [handler EXCEPT ![s].pc = "watching",
                                ![s].cursor = handler[s].snapshot.revision + 1]
  /\ UNCHANGED <<path, history, cache, client, wire, breaks>>

(* An event of the watch makes the handler read the snapshot again. *)
WatchEvent(s) ==
  /\ path[s] = "stream"
  /\ handler[s].pc = "watching"
  /\ handler[s].cursor <= revision
  /\ handler' = [handler EXCEPT ![s].pc = "reading", ![s].cursor = @ + 1]
  /\ UNCHANGED <<path, history, cache, client, wire, breaks>>

(* A revision without an event under the prefix. *)
WatchPasses(s) ==
  /\ handler[s].pc = "watching"
  /\ handler[s].cursor <= revision
  /\ history[handler[s].cursor] = history[handler[s].cursor - 1]
  /\ handler' = [handler EXCEPT ![s].cursor = @ + 1]
  /\ UNCHANGED <<path, history, cache, client, wire, breaks>>

(* FullSync or the watch fails: the handler returns, at once or because    *)
(* the callback cancelled the context of its watch.                        *)
HandlerFails(s) ==
  /\ handler[s].pc \in {"reading", "opening", "watching"}
  /\ breaks < MaxBreaks
  /\ breaks' = breaks + 1
  /\ handler' = [handler EXCEPT ![s] = HandlerAt("ended")]
  /\ UNCHANGED <<path, history, cache, client, wire>>

-----------------------------------------------------------------------------
(* The sidecar. *)

(* A stream is opened, or discovery.Run called: its goroutine is at pc. *)
Begin(s, pc) ==
  /\ client[s] = "disconnected"
  /\ client' = [client EXCEPT ![s] = "streaming"]
  /\ handler' = [handler EXCEPT ![s] = HandlerAt(pc)]
  /\ UNCHANGED <<path, history, cache, wire, breaks>>

(* Mutated form: Run returns after the first failure. *)
ConnectOnce(s) == path[s] = "stream" /\ breaks = 0 /\ Begin(s, "awaiting")

(* runOnce dials, opens the stream and sends SidecarRegister. *)
Connect(s) == path[s] = "stream" /\ Begin(s, "awaiting")

(* discovery.Run is called, for the first time or after it returned.  It   *)
(* begins with FullSync.  It does not retry, and no binary calls it, so    *)
(* nothing is assumed about when its caller does.                          *)
CallRun(s) == path[s] = "direct" /\ Begin(s, "reading")

(* Cache.Replace ignores a snapshot older than the cache. *)
Replace(c, snapshot) == IF snapshot.revision < c.revision THEN c ELSE snapshot

(* One turn of the receive loop of runOnce.  The Ack it sends is logged by *)
(* the control plane and used for nothing.                                 *)
Receive(s) ==
  /\ client[s] = "streaming"
  /\ wire[s] # <<>>
  /\ cache' = [cache EXCEPT ![s] = Replace(@, Head(wire[s]))]
  /\ wire' = [wire EXCEPT ![s] = Tail(@)]
  /\ UNCHANGED <<path, history, client, handler, breaks>>

(* discovery.Run: the snapshot of FullSync replaces the cache. *)
RunReplaces(s) ==
  /\ path[s] = "direct"
  /\ handler[s].pc = "sending"
  /\ cache' = [cache EXCEPT ![s] = Replace(@, handler[s].snapshot)]
  /\ handler' = [handler EXCEPT ![s].pc = "opening"]
  /\ UNCHANGED <<path, history, client, wire, breaks>>

(* Cache.Apply of the event of revision r, a Put or a Delete of one key.   *)
(* A Put of what is there already still moves the revision.                *)
Apply(c, r) ==
  IF r <= c.revision THEN c
  ELSE [revision  |-> r,
        endpoints |-> (c.endpoints \cup (history[r] \ history[r - 1]))
                        \ (history[r - 1] \ history[r])]

(* The watch of discovery.Run emits an event. *)
ApplyEvent(s) ==
  /\ path[s] = "direct"
  /\ handler[s].pc = "watching"
  /\ handler[s].cursor <= revision
  /\ cache' = [cache EXCEPT ![s] = Apply(@, handler[s].cursor)]
  /\ handler' = [handler EXCEPT ![s].cursor = @ + 1]
  /\ UNCHANGED <<path, history, client, wire, breaks>>

Disconnect(s) ==
  /\ client' = [client EXCEPT ![s] = "disconnected"]
  /\ wire' = [wire EXCEPT ![s] = <<>>]
  /\ handler' = [handler EXCEPT ![s] = HandlerAt("none")]
  /\ UNCHANGED <<path, history, cache>>

(* Recv reports the end of the stream once everything sent was received;   *)
(* discovery.Run returns the error of FullSync or of the watch.            *)
StreamEnds(s) ==
  /\ client[s] = "streaming"
  /\ wire[s] = <<>>
  /\ handler[s].pc = "ended"
  /\ Disconnect(s)
  /\ UNCHANGED breaks

(* The connection or the control plane fails; messages on the way are lost. *)
StreamBreaks(s) ==
  /\ path[s] = "stream"
  /\ client[s] = "streaming"
  /\ breaks < MaxBreaks
  /\ breaks' = breaks + 1
  /\ Disconnect(s)

-----------------------------------------------------------------------------

Handle(s) ==
  \/ ReceiveRegister(s)
  \/ FullSync(s)
  \/ Send(s)
  \/ OpenWatch(s)
  \/ WatchEvent(s)
  \/ WatchPasses(s)

Run(s) == RunReplaces(s) \/ ApplyEvent(s)

RunClient(s) == Connect(s) \/ Receive(s) \/ StreamEnds(s)

Next ==
  \/ Commit
  \/ \E s \in Sidecars : \/ Handle(s) \/ Run(s) \/ RunClient(s)
                         \/ CallRun(s) \/ HandlerFails(s) \/ StreamBreaks(s)

Spec == Init /\ [][Next]_vars

(* Goroutines that can run do run, and etcd answers.  Writes, failures and *)
(* calls of discovery.Run are the environment's and need not happen.       *)
FairSpec ==
  /\ Spec
  /\ \A s \in Sidecars : WF_vars(Handle(s) \/ Run(s)) /\ WF_vars(RunClient(s))

-----------------------------------------------------------------------------
(* Every variable keeps its type, and nobody is ahead of etcd: neither the *)
(* cache, nor a snapshot on its way, nor the watch.                        *)
TypeOK ==
  /\ path \in [Sidecars -> {"stream", "direct"}]
  /\ history \in Seq(SUBSET Endpoints)
  /\ Len(history) >= 1
  /\ cache \in [Sidecars -> Snapshot]
  /\ client \in [Sidecars -> {"disconnected", "streaming"}]
  /\ wire \in [Sidecars -> Seq(Snapshot)]
  /\ handler \in [Sidecars -> Handler]
  /\ breaks \in 0..MaxBreaks
  /\ \A s \in Sidecars :
       /\ cache[s].revision <= revision
       /\ \A i \in 1..Len(wire[s]) : wire[s][i].revision <= revision
       /\ handler[s].snapshot.revision <= revision
       /\ handler[s].cursor <= revision + 1

(* The revision of the newest snapshot the sidecar has or will receive. *)
Newest(s) == IF wire[s] = <<>> THEN cache[s].revision
             ELSE wire[s][Len(wire[s])].revision

(* No registration falls between a snapshot and the watch that follows it: *)
(* when the watch has nothing left to look at and the stream is drained,   *)
(* the cache is what the registry holds, even though FullSync, Send and    *)
(* the opening of the watch are three steps and writes go on between them. *)
IdleMeansCurrent ==
  \A s \in Sidecars :
    (/\ handler[s].pc = "watching"
     /\ handler[s].cursor > revision
     /\ wire[s] = <<>>)
      => cache[s].endpoints = history[revision]

(* The cache holds a state the registry was in, whole, and goes forward.   *)
Abstract == INSTANCE SnapshotCache
ImplementsSnapshotCache == Abstract!Spec

(* When writes and failures stop, every cache becomes and stays equal to   *)
(* the registry (writes and failures are bounded, so they do stop).  The   *)
(* client of the stream reconnects after every break; a cache that         *)
(* discovery.Run feeds is left as it is when Run has returned.             *)
CachesConverge ==
  <>[](\A s \in Sidecars : \/ cache[s].endpoints = history[revision]
                           \/ path[s] = "direct" /\ client[s] = "disconnected")
=============================================================================
