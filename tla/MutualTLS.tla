------------------------------ MODULE MutualTLS ------------------------------
(***************************************************************************)
(* Mutual TLS between sidecars (internal/meshsecurity/identity.go) on the  *)
(* connections of the upstream pool (internal/proxy/connection_pool.go):   *)
(* one calling sidecar, the addresses it finds in its discovery cache, and *)
(* the workloads that are at those addresses.                              *)
(*                                                                         *)
(* The cache may be stale and an address is reused, so a call for a        *)
(* service may go to any address, whoever is there by then.  A connection  *)
(* of the pool reconnects by itself; every handshake reads the leaf        *)
(* certificate and its key again, two files of a mounted Secret that is    *)
(* replaced from time to time, and each side checks the identity of the    *)
(* other.  The trust roots do not change while the sidecars run.           *)
(***************************************************************************)
EXTENDS Naturals

CONSTANTS Services,
          Stranger,      \* a workload whose leaf holds no mesh identity
          Nobody,        \* no workload
          Caller,        \* the calling sidecar
          Admits,        \* services whose allowlist names the caller
          Addresses,
          MaxMoves, MaxRotations, MaxBreaks   \* bounds on the environment

VARIABLES workload,   \* address -> who is there
          leaf,       \* owner -> the generation of its certificate and key files
          oldest,     \* owner -> the oldest generation that has not expired
          conn,       \* pool key -> its grpc.ClientConn
          delivered,  \* the last call that reached a workload
          moves, breaks

vars == <<workload, leaf, oldest, conn, delivered, moves, breaks>>

Owners == Services \cup {Stranger, Caller}

(* Mutated form: one connection per address, with the credentials of the   *)
(* service that was called there first.                                    *)
poolKeyOfTarget(service, target) == <<CHOOSE s \in Services : TRUE, target>>

(* poolKey and splitPoolKey: the service is part of the key. *)
poolKey(service, target) == <<service, target>>

(* The certificate read in the handshake; 0 when none is. *)
Conn == [pc : {"closed", "idle", "serverCert", "serverKnown", "clientCert", "ready"},
         cert : Nat]

ConnAt(pc) == [pc |-> pc, cert |-> 0]

NoCall == <<>>

Init ==
  /\ workload \in [Addresses -> Services \cup {Stranger, Nobody}]
  /\ leaf = [p \in Owners |-> 1]
  /\ oldest = [p \in Owners |-> 1]
  /\ conn = [k \in Services \X Addresses |-> ConnAt("closed")]
  /\ delivered = NoCall
  /\ moves = 0
  /\ breaks = 0

-----------------------------------------------------------------------------
(* The environment. *)

(* A pod ends and another gets its address; its connections are lost. *)
Move(a) ==
  /\ moves < MaxMoves
  /\ moves' = moves + 1
  /\ \E w \in (Services \cup {Stranger, Nobody}) \ {workload[a]} :
       workload' = [workload EXCEPT ![a] = w]
  /\ conn' = [k \in DOMAIN conn |-> IF k[2] = a /\ conn[k].pc # "closed"
                                    THEN ConnAt("idle") ELSE conn[k]]
  /\ UNCHANGED <<leaf, oldest, delivered, breaks>>

(* The Secret of p is replaced: the volume switches to the new files. *)
Rotate(p) ==
  /\ leaf[p] <= MaxRotations
  /\ leaf' = [leaf EXCEPT ![p] = @ + 1]
  /\ UNCHANGED <<workload, oldest, conn, delivered, moves, breaks>>

(* A leaf expires some time after its replacement. *)
Expire(p) ==
  /\ oldest[p] < leaf[p]
  /\ oldest' = [oldest EXCEPT ![p] = leaf[p]]
  /\ UNCHANGED <<workload, leaf, conn, delivered, moves, breaks>>

Break(k) ==
  /\ conn[k].pc = "ready"
  /\ breaks < MaxBreaks
  /\ breaks' = breaks + 1
  /\ conn' = [conn EXCEPT ![k] = ConnAt("idle")]
  /\ UNCHANGED <<workload, leaf, oldest, delivered, moves>>

-----------------------------------------------------------------------------
(* A handshake of connection k = <<service, address>>.  LoadX509KeyPair    *)
(* reads the certificate in one step and the key in the next, and fails    *)
(* when they are not a pair.                                               *)

To(k, c) ==
  /\ conn' = [conn EXCEPT ![k] = c]
  /\ UNCHANGED <<workload, leaf, oldest, delivered, moves, breaks>>

(* Mutated form: the key pair is loaded once, when the process starts. *)
LeafAtStart(p) == 1

(* What the files hold. *)
LeafFile(p) == leaf[p]

Verified(p, cert) == cert = LeafFile(p) /\ cert >= oldest[p]

(* The identities a leaf proves: one, if it holds exactly one spiffe URI   *)
(* with a host, and otherwise none.                                        *)
certificateIdentity(w) == IF w \in Services \cup {Caller} THEN {w} ELSE {}

(* peerIdentity, and the peer's identity is allowed. *)
requireIdentity(allowed, w) == certificateIdentity(w) \cap allowed # {}

(* GetCertificate of the server at the address reads the certificate. *)
ServerReadsCert(k) ==
  /\ conn[k].pc = "idle"
  /\ workload[k[2]] # Nobody
  /\ To(k, [pc |-> "serverCert", cert |-> LeafFile(workload[k[2]])])

(* The key is read, and the client verifies the chain, the server name and *)
(* the identity it expects of the service.                                 *)
ClientVerifies(k) ==
  LET w == workload[k[2]] IN
  /\ conn[k].pc = "serverCert"
  /\ To(k, ConnAt(IF Verified(w, conn[k].cert) /\ requireIdentity({k[1]}, w)
                  THEN "serverKnown" ELSE "idle"))

(* GetClientCertificate of the caller. *)
ClientReadsCert(k) ==
  /\ conn[k].pc = "serverKnown"
  /\ To(k, [pc |-> "clientCert", cert |-> LeafFile(Caller)])

(* The server verifies the chain and looks the caller up in its allowlist. *)
ServerVerifies(k) ==
  LET w == workload[k[2]]
      allowed == IF w \in Admits THEN {Caller} ELSE {} IN
  /\ conn[k].pc = "clientCert"
  /\ To(k, ConnAt(IF Verified(Caller, conn[k].cert) /\ requireIdentity(allowed, Caller)
                  THEN "ready" ELSE "idle"))

-----------------------------------------------------------------------------
(* The pool. *)

(* AcquireForService finds no connection: the dialer makes the credentials *)
(* of the service.                                                         *)
Dial(service, target) ==
  /\ conn[poolKey(service, target)].pc = "closed"
  /\ To(poolKey(service, target), ConnAt("idle"))

(* The dial times out, or an idle connection is closed. *)
Close(k) ==
  /\ conn[k].pc # "closed"
  /\ To(k, ConnAt("closed"))

(* A call goes out on a connection that AcquireForService returned. *)
Call(service, target) ==
  /\ conn[poolKey(service, target)].pc = "ready"
  /\ delivered' = <<service, workload[target]>>
  /\ UNCHANGED <<workload, leaf, oldest, conn, moves, breaks>>

-----------------------------------------------------------------------------

Handshake(k) ==
  \/ ServerReadsCert(k) \/ ClientVerifies(k)
  \/ ClientReadsCert(k) \/ ServerVerifies(k)

Next ==
  \/ \E a \in Addresses : Move(a)
  \/ \E p \in Owners : Rotate(p) \/ Expire(p)
  \/ \E k \in DOMAIN conn : Break(k) \/ Handshake(k) \/ Close(k)
  \/ \E s \in Services, a \in Addresses : Dial(s, a) \/ Call(s, a)

Spec == Init /\ [][Next]_vars

-----------------------------------------------------------------------------
(* Every variable keeps its type. *)
TypeOK ==
  /\ workload \in [Addresses -> Services \cup {Stranger, Nobody}]
  /\ leaf \in [Owners -> Nat]
  /\ oldest \in [Owners -> Nat]
  /\ \A p \in Owners : oldest[p] <= leaf[p]
  /\ conn \in [Services \X Addresses -> Conn]
  /\ delivered \in (Services \X (Services \cup {Stranger, Nobody})) \cup {NoCall}
  /\ moves \in Nat
  /\ breaks \in Nat

(* A call for a service reaches only a workload that proved to be of that  *)
(* service and that admits the caller, although the address may be stale,  *)
(* may be in use by another service by now, and may be the address of two  *)
(* services at once in the cache.                                          *)
TalksToService ==
  delivered # NoCall => delivered[2] = delivered[1] /\ delivered[1] \in Admits

(* The leaf certificates of both sides may be replaced and expire at any   *)
(* time, also between the two reads of a pair: a connection that lost its  *)
(* peer still becomes ready again while a service that admits the caller   *)
(* is there, without a restart of either side.                             *)
ReconnectsAfterRotation ==
  \A k \in Admits \X Addresses :
    (conn[k].pc # "closed" /\ workload[k[2]] = k[1]) ~>
      (conn[k].pc \in {"ready", "closed"} \/ workload[k[2]] # k[1])
=============================================================================
