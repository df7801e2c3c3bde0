-------------------------------- MODULE Relay --------------------------------
(***************************************************************************)
(* The two TCP relays of a sidecar: the transparent proxy                  *)
(* (internal/transparentproxy/server.go), which dials the original         *)
(* destination of a redirected connection, and the mTLS ingress            *)
(* (internal/meshsecurity/relay.go), which completes a TLS handshake and   *)
(* dials the colocated server.  From then on both do the same: a goroutine *)
(* per direction copies until it fails or reads the end, and passes the    *)
(* end on with CloseWrite.                                                 *)
(*                                                                         *)
(* One connection and the accept loop it comes from.  The bytes of a       *)
(* direction are numbered, so counters say which of them have come how     *)
(* far.  A peer finishes by closing its write side (close_notify in TLS)   *)
(* and leaves by closing the socket, with a reset or without a word.       *)
(***************************************************************************)
EXTENDS Naturals

CONSTANT Bytes   \* a peer sends 0..Bytes

VARIABLES kind,     \* which of the two relays
          ctx,      \* the context of the process
          loop,     \* Serve or ServeRelay
          pc,       \* handle or relayConnection
          copier,   \* direction -> copyHalf or relayCopy
          flow,     \* direction -> how far its bytes and its end have come
          gone      \* peer -> whether it has left

vars == <<kind, ctx, loop, pc, copier, flow, gone>>

Directions == {"up", "down"}
Peers == {"client", "target"}

Source(d) == IF d = "up" THEN "client" ELSE "target"
Destination(d) == IF d = "up" THEN "target" ELSE "client"

(* sent by the source, read and written by the copier, received by the     *)
(* destination; fin: the source has finished; shut: CloseWrite towards the *)
(* destination was called; eof: the destination has seen the end.          *)
Flow == [sent : Nat, read : Nat, written : Nat, received : Nat,
         fin : BOOLEAN, shut : BOOLEAN, eof : BOOLEAN]

NoFlow == [sent |-> 0, read |-> 0, written |-> 0, received |-> 0,
           fin |-> FALSE, shut |-> FALSE, eof |-> FALSE]

Init ==
  /\ kind \in {"transparent", "mtls"}
  /\ ctx = "alive"
  /\ loop = "starting"
  /\ pc = "none"
  /\ copier = [d \in Directions |-> "none"]
  /\ flow = [d \in Directions |-> NoFlow]
  /\ gone = [p \in Peers |-> FALSE]

-----------------------------------------------------------------------------
(* The accept loop. *)

Cancel ==
  /\ ctx = "alive"
  /\ ctx' = "cancelled"
  /\ UNCHANGED <<kind, loop, pc, copier, flow, gone>>

(* ServeRelay refuses to run without a TLS configuration and a backend. *)
StartLoop ==
  /\ loop = "starting"
  /\ \/ loop' = "accepting"
     \/ kind = "mtls" /\ loop' = "failed"
  /\ UNCHANGED <<kind, ctx, pc, copier, flow, gone>>

Accept ==
  /\ loop = "accepting"
  /\ pc = "none"
  /\ pc' = IF kind = "mtls" THEN "handshaking" ELSE "resolving"
  /\ UNCHANGED <<kind, ctx, loop, copier, flow, gone>>

(* Accept fails: because the context's goroutine closed the listener, or   *)
(* for a reason of its own, which is returned as an error.                 *)
LoopReturns ==
  /\ loop = "accepting"
  /\ loop' = IF ctx = "cancelled" THEN "returned" ELSE "failed"
  /\ UNCHANGED <<kind, ctx, pc, copier, flow, gone>>

-----------------------------------------------------------------------------
(* The handler up to the two copiers.  Its deferred calls close what is    *)
(* open of the two connections.                                            *)

Goto(label) ==
  /\ pc' = label
  /\ UNCHANGED <<kind, ctx, loop, copier, flow, gone>>

(* resolver(downstream): SO_ORIGINAL_DST, IPv4 only. *)
Resolve ==
  /\ pc = "resolving"
  /\ Goto("dialing") \/ Goto("ended")

HandshakeSucceeds ==
  /\ pc = "handshaking"
  /\ ~gone["client"] /\ ~flow["up"].fin
  /\ Goto("dialing")

(* The client is refused, or VerifyConnection refuses its identity. *)
HandshakeRejected ==
  /\ pc = "handshaking"
  /\ Goto("ended")

(* HandshakeContext: the client ended the connection, or ctx is done. *)
HandshakeInterrupted ==
  /\ pc = "handshaking"
  /\ gone["client"] \/ flow["up"].fin \/ ctx = "cancelled"
  /\ Goto("ended")

(* Both dials have a timeout; that of the transparent proxy also ends with *)
(* ctx.                                                                    *)
Dial ==
  /\ pc = "dialing"
  /\ \/ Goto("ended")
     \/ /\ pc' = "copying"
        /\ copier' = [d \in Directions |-> "copying"]
        /\ UNCHANGED <<kind, ctx, loop, flow, gone>>

(* Mutated form: the handler returns when the first copier is done. *)
ReturnAfterOne ==
  /\ pc = "copying"
  /\ \E d \in Directions : copier[d] = "done"
  /\ Goto("ended")

(* wg.Wait() returns. *)
Return ==
  /\ pc = "copying"
  /\ \A d \in Directions : copier[d] = "done"
  /\ Goto("ended")

-----------------------------------------------------------------------------
(* A copier: io.Copy, then CloseWrite whatever io.Copy returned. *)

Copying(d) == copier[d] = "copying" /\ pc = "copying"

(* A read returns some of the bytes that have come. *)
Read(d) ==
  /\ Copying(d)
  /\ flow[d].written = flow[d].read
  /\ \E n \in (flow[d].read + 1)..flow[d].sent :
       flow' = [flow EXCEPT ![d].read = n]
  /\ UNCHANGED <<kind, ctx, loop, pc, copier, gone>>

(* A write to a peer that has left may still succeed. *)
Write(d) ==
  /\ Copying(d)
  /\ flow[d].written < flow[d].read
  /\ flow' = [flow EXCEPT ![d].written = flow[d].read]
  /\ UNCHANGED <<kind, ctx, loop, pc, copier, gone>>

ReadsEnd(d) ==
  /\ flow[d].fin
  /\ flow[d].read = flow[d].sent
  /\ flow[d].written = flow[d].read

ReadFails(d) == gone[Source(d)] /\ flow[d].written = flow[d].read

WriteFails(d) == gone[Destination(d)] /\ flow[d].written < flow[d].read

(* Mutated form: the end is not passed on. *)
CopyEndsSilently(d) ==
  /\ Copying(d)
  /\ ReadsEnd(d) \/ ReadFails(d) \/ WriteFails(d)
  /\ copier' = [copier EXCEPT ![d] = "done"]
  /\ UNCHANGED <<kind, ctx, loop, pc, flow, gone>>

CopyEnds(d) ==
  /\ Copying(d)
  /\ ReadsEnd(d) \/ ReadFails(d) \/ WriteFails(d)
  /\ copier' = [copier EXCEPT ![d] = "done"]
  /\ flow' = [flow EXCEPT ![d].shut = TRUE]
  /\ UNCHANGED <<kind, ctx, loop, pc, gone>>

-----------------------------------------------------------------------------
(* The peers, which are any programs. *)

(* The peer has a connection with the relay. *)
Connected(p) == IF p = "client" THEN pc # "none" ELSE copier["down"] # "none"

Outgoing(p) == IF p = "client" THEN "up" ELSE "down"
Incoming(p) == IF p = "client" THEN "down" ELSE "up"

PeerSends(p) ==
  LET d == Outgoing(p) IN
  /\ Connected(p) /\ ~gone[p] /\ ~flow[d].fin
  /\ pc # "ended"
  /\ flow[d].sent < Bytes
  /\ flow' = [flow EXCEPT ![d].sent = @ + 1]
  /\ UNCHANGED <<kind, ctx, loop, pc, copier, gone>>

PeerFinishes(p) ==
  /\ Connected(p) /\ ~gone[p] /\ ~flow[Outgoing(p)].fin
  /\ flow' = [flow EXCEPT ![Outgoing(p)].fin = TRUE]
  /\ UNCHANGED <<kind, ctx, loop, pc, copier, gone>>

(* The operating system of a peer that left may finish for it. *)
PeerLeaves(p) ==
  /\ Connected(p) /\ ~gone[p]
  /\ gone' = [gone EXCEPT ![p] = TRUE]
  /\ \E fin \in {flow[Outgoing(p)].fin, TRUE} :
       flow' = [flow EXCEPT ![Outgoing(p)].fin = fin]
  /\ UNCHANGED <<kind, ctx, loop, pc, copier>>

PeerReceives(p) ==
  LET d == Incoming(p) IN
  /\ ~gone[p]
  /\ flow[d].received < flow[d].written
  /\ flow' = [flow EXCEPT ![d].received = flow[d].written]
  /\ UNCHANGED <<kind, ctx, loop, pc, copier, gone>>

(* CloseWrite, or the close of the connection, reaches the peer behind the *)
(* bytes that were written.                                                *)
PeerSeesEnd(p) ==
  LET d == Incoming(p) IN
  /\ Connected(p) /\ ~gone[p] /\ ~flow[d].eof
  /\ flow[d].received = flow[d].written
  /\ flow[d].shut \/ pc = "ended"
  /\ flow' = [flow EXCEPT ![d].eof = TRUE]
  /\ UNCHANGED <<kind, ctx, loop, pc, copier, gone>>

-----------------------------------------------------------------------------

Loop == StartLoop \/ LoopReturns

Handle == Resolve \/ HandshakeInterrupted \/ Dial \/ Return

Copy(d) == Read(d) \/ Write(d) \/ CopyEnds(d)

Next ==
  \/ Cancel \/ Loop \/ Accept
  \/ Handle \/ HandshakeSucceeds \/ HandshakeRejected
  \/ \E d \in Directions : Copy(d)
  \/ \E p \in Peers : \/ PeerSends(p) \/ PeerFinishes(p) \/ PeerLeaves(p)
                      \/ PeerReceives(p) \/ PeerSeesEnd(p)

Spec == Init /\ [][Next]_vars

(* What a peer that stays does in the end: it takes what has come, and     *)
(* when it has seen the end of its input it finishes.                      *)
PeerAnswers(p) ==
  \/ PeerReceives(p)
  \/ PeerSeesEnd(p)
  \/ flow[Incoming(p)].eof /\ PeerFinishes(p)

-----------------------------------------------------------------------------
(* Every variable keeps its type, and no byte overtakes another. *)
TypeOK ==
  /\ kind \in {"transparent", "mtls"}
  /\ ctx \in {"alive", "cancelled"}
  /\ loop \in {"starting", "accepting", "returned", "failed"}
  /\ pc \in {"none", "resolving", "handshaking", "dialing", "copying", "ended"}
  /\ copier \in [Directions -> {"none", "copying", "done"}]
  /\ flow \in [Directions -> Flow]
  /\ gone \in [Peers -> BOOLEAN]
  /\ \A d \in Directions :
       /\ flow[d].received <= flow[d].written
       /\ flow[d].written <= flow[d].read
       /\ flow[d].read <= flow[d].sent

(* The relay does not make up an end: when both peers stayed and one of    *)
(* them sees the end of a relayed connection's direction, the other had    *)
(* finished it and every byte it sent has arrived.  In particular the end  *)
(* of one direction does not cut off the other, and the handler does not   *)
(* close the connections under a copier.                                   *)
CleanEndIsComplete ==
  \A d \in Directions :
    (/\ copier[d] # "none"
     /\ \A p \in Peers : ~gone[p]
     /\ flow[d].eof)
      => flow[d].fin /\ flow[d].received = flow[d].sent

(* No connection stays half open in the relay: when a peer has finished or *)
(* left, the end is passed on, the other peer answers it, and the handler  *)
(* returns, which closes both connections.  A handler that is not copying  *)
(* yet when the process is told to stop does not wait for its client.      *)
RelayEnds ==
  /\ (\E p \in Peers : flow[Outgoing(p)].fin \/ gone[p]) ~> (pc = "ended")
  /\ (ctx = "cancelled" /\ pc \in {"handshaking", "dialing"})
       ~> (pc \in {"copying", "ended"})
=============================================================================
