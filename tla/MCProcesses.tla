----------------------------- MODULE MCProcesses -----------------------------
(***************************************************************************)
(* The life of the two processes, of the connections that outlive a call   *)
(* and of the registrations: SidecarProcess, ControlPlaneProcess, Relay,   *)
(* MutualTLS and Registration, which share no state.  `part` says which of *)
(* them a behaviour is about; the others stay as they began.               *)
(***************************************************************************)
EXTENDS SidecarProcess

CONSTANTS MaxRequests, MaxStreams,      \* ControlPlaneProcess
          Bytes,                        \* Relay
          Services, Stranger, Nobody, Caller, Admits, Addresses,   \* MutualTLS
          MaxMoves, MaxRotations, MaxBreaks,
          Registrars, Leases, NoLease, TTL, CallTimeout,           \* Registration
          MaxFailures, MaxLosses

ASSUME ProcessConstants ==
  /\ {MaxCalls, MaxRequests, MaxStreams, Bytes, MaxMoves, MaxRotations, MaxBreaks}
       \subseteq Nat
  /\ Admits \subseteq Services
  /\ {Stranger, Nobody, Caller} \cap Services = {}
  /\ Stranger # Nobody /\ Stranger # Caller /\ Nobody # Caller

VARIABLES part,
          cpStage, cpExit, cpCtx, http, requests, cpGrpc, streams, cpShutdown,
          kind, relayCtx, loop, pc, copier, flow, gone,
          workload, leaf, oldest, conn, delivered, moves, breaks,
          run, lease, due, budget, cancelled, ttl, kv, failures, losses

CP == INSTANCE ControlPlaneProcess WITH
        stage <- cpStage, exit <- cpExit, ctx <- cpCtx, grpc <- cpGrpc, shutdown <- cpShutdown
RL == INSTANCE Relay WITH ctx <- relayCtx
MT == INSTANCE MutualTLS
RG == INSTANCE Registration WITH pc <- run

ASSUME RegistrationConstants == RG!Constants

cpVars == <<cpStage, cpExit, cpCtx, http, requests, cpGrpc, streams, cpShutdown>>
rlVars == <<kind, relayCtx, loop, pc, copier, flow, gone>>
mtVars == <<workload, leaf, oldest, conn, delivered, moves, breaks>>
rgVars == <<run, lease, due, budget, cancelled, ttl, kv, failures, losses>>
allVars == <<part, vars, cpVars, rlVars, mtVars, rgVars>>

(* The state a part that is not explored keeps. *)
Idle(p) ==
  CASE p = "sidecar" -> config = {}
    [] p = "relay" -> kind = "transparent"
    [] p = "mtls" -> workload = [a \in Addresses |-> Nobody]

MCInit ==
  /\ part \in {"sidecar", "control_plane", "relay", "mtls", "registration"}
  /\ Init /\ CP!Init /\ RL!Init /\ MT!Init /\ RG!Init
  /\ \A p \in {"sidecar", "relay", "mtls"} \ {part} : Idle(p)

Sidecar(A) ==
  /\ part = "sidecar"
  /\ A
  /\ UNCHANGED <<part, cpVars, rlVars, mtVars, rgVars>>

ControlPlane(A) ==
  /\ part = "control_plane"
  /\ A
  /\ UNCHANGED <<part, vars, rlVars, mtVars, rgVars>>

Relaying(A) ==
  /\ part = "relay"
  /\ A
  /\ UNCHANGED <<part, vars, cpVars, mtVars, rgVars>>

Securing(A) ==
  /\ part = "mtls"
  /\ A
  /\ UNCHANGED <<part, vars, cpVars, rlVars, rgVars>>

Registering(A) ==
  /\ part = "registration"
  /\ A
  /\ UNCHANGED <<part, vars, cpVars, rlVars, mtVars>>

MCNext ==
  \/ Sidecar(Next) \/ ControlPlane(CP!Next) \/ Relaying(RL!Next) \/ Securing(MT!Next)
  \/ Registering(RG!Next)

(* What the scheduler owes: main and the goroutines of a process that has  *)
(* not ended, the handler and the copiers of a relay go on.  A peer that   *)
(* stays takes what comes, and answers the end of its input by finishing.  *)
(* Each of these steps happens a bounded number of times in a behaviour,   *)
(* so one condition on all of them says as much as one on each.            *)
Progress ==
  \/ Sidecar(exit = Running /\ (\/ Main \/ Shutdown
                                   \/ \E k \in Servers : CancelProcess(k)))
  \/ ControlPlane(cpExit = CP!Running /\ (CP!Main \/ CP!Shutdown))
  \/ Relaying(\/ RL!Handle
              \/ \E d \in RL!Directions : RL!Copy(d)
              \/ \E p \in RL!Peers : RL!PeerAnswers(p))

(* Calls return (the run proxy_returns), and a grpc.ClientConn that lost   *)
(* its connection tries again: with the next call on it, or the reaper     *)
(* closes it.                                                              *)
Fairness ==
  /\ WF_allVars(Progress)
  /\ WF_allVars(Sidecar(exit = Running /\ CallReturns))
  /\ \A k \in Services \X Addresses : WF_allVars(Securing(MT!Handshake(k)))

FairSpec == MCInit /\ [][MCNext]_allVars /\ Fairness

-----------------------------------------------------------------------------
(* A signal or a failed server ends the sidecar and the control plane,     *)
(* whatever stage they are in.                                             *)
ProcessesEnd == ShutdownEnds /\ CP!ShutdownEnds

(* The relays pass on an end only behind everything that was sent.         *)
CleanEndIsComplete == RL!CleanEndIsComplete

(* The relays leave no connection half open when a peer is through.        *)
RelayEnds == RL!RelayEnds

(* A call reaches only the service it is for, whatever is at the address.  *)
TalksToService == MT!TalksToService

(* Secure connections come back while certificates are replaced.           *)
ReconnectsAfterRotation == MT!ReconnectsAfterRotation

(* A registrar in keepAlive is registered under the lease it renews.       *)
KeepAliveMeansRegistered == RG!KeepAliveMeansRegistered
=============================================================================
