-------------------------- MODULE ProcessesProofs --------------------------
(***************************************************************************)
(* Proofs about the parts of MCProcesses, for every value of their         *)
(* constants.  The sidecar drains before it closes, and is not ready       *)
(* before it listens.  An end that a relay passes on is complete.  A call  *)
(* on a secure connection reaches only the service it is for.  A registrar *)
(* in keepAlive is registered.                                             *)
(***************************************************************************)
EXTENDS MCProcesses, TLAPS

(* The provers of a leaf that names none, and the time each is given. *)
USE ZenonT(8), SMTT(40)

-----------------------------------------------------------------------------
(* The sidecar process, for every combination of options and any number of *)
(* calls.                                                                  *)

(* The shutdown goroutine exists in the last two stages only; behind       *)
(* GracefulStop the server is stopped, a stopped server has no call, and   *)
(* the pool is closed behind GracefulStop.  Main returns from a server     *)
(* that is stopped or has failed.                                          *)
DrainInv ==
  /\ stage \notin {"serving", "served"} => shutdown = "off"
  /\ shutdown \in {"closing", "metrics", "done"} => grpc = "stopped"
  /\ pool = "closed" => shutdown \in {"metrics", "done"}
  /\ grpc = "stopped" => calls = 0
  /\ exit = 0 => grpc \in {"stopped", "failed"}

(* What main has started when it has come to a stage. *)
StageInv ==
  /\ stage \notin {"tracing", "starting", "listening"} => bound
  /\ "transparent" \in config
       /\ stage \in {"mtls", "configuring", "metrics", "pooling", "serving", "served"}
       => server["transparent"] # "off"
  /\ "mtls" \in config
       /\ stage \in {"configuring", "metrics", "pooling", "serving", "served"}
       => server["mtls"] # "off"
  /\ server["metrics"] # "off" => stage \in {"pooling", "serving", "served"}

SidecarInv == TypeOK /\ DrainInv /\ StageInv

(* The invariant holds before main has done anything. *)
LEMMA SidecarInit == Init => SidecarInv
<1> SUFFICES ASSUME Init PROVE SidecarInv
  OBVIOUS
<1>1. TypeOK
  BY DEF Init, TypeOK
<1>2. DrainInv /\ StageInv
  BY DEF Init, DrainInv, StageInv, Servers, Running
<1> QED BY <1>1, <1>2 DEF SidecarInv

(* The types are kept by every step. *)
LEMMA NextType == TypeOK /\ [Next]_vars => TypeOK'
<1> SUFFICES ASSUME TypeOK, [Next]_vars PROVE TypeOK'
  OBVIOUS
<1> USE DEF TypeOK
<1>1. CASE UNCHANGED vars
  BY <1>1 DEF vars
<1>2. CASE InitTracer \/ StartClients \/ Listen \/ Configure \/ StartPool \/ Serve
  BY <1>2 DEF InitTracer, StartClients, Listen, Configure, StartPool, Serve, Exit
<1>3. CASE StartTransparent
  BY <1>3 DEF StartTransparent, StartServer, Exit, Servers
<1>4. CASE StartMutualTLS
  BY <1>4 DEF StartMutualTLS, StartServer, Exit, Servers
<1>5. CASE StartMetrics
  BY <1>5 DEF StartMetrics, StartServer, Servers
<1>6. CASE MainReturns \/ ServeFails
  BY <1>6 DEF MainReturns, ServeFails, Exit
<1>7. CASE Signal \/ SnapshotReceived \/ Registered \/ RegistrarReturns
  <2>1. (ready \subseteq Flags)'
    BY <1>7, Zenon DEF Signal, SnapshotReceived, Registered, RegistrarReturns, Flags
  <2> QED
    BY <1>7, <2>1 DEF Signal, SnapshotReceived, Registered, RegistrarReturns
<1>8. CASE CallArrives \/ CallReturns
  BY <1>8 DEF CallArrives, CallReturns
<1>9. ASSUME NEW k \in Servers, ServerFails(k) \/ CancelProcess(k) \/ ServerReturns(k)
      PROVE  TypeOK'
  BY <1>9 DEF ServerFails, CancelProcess, ServerReturns
<1>10. CASE Shutdown
  BY <1>10 DEF Shutdown, ContextDone, GracefulStopReturns, ClosePool, StopMetrics, Servers
<1> QED
  BY <1>1, <1>2, <1>3, <1>4, <1>5, <1>6, <1>7, <1>8, <1>9, <1>10 DEF Next, Main

(* The order of the shutdown is kept by every step. *)
LEMMA NextDrain == TypeOK /\ DrainInv /\ [Next]_vars => DrainInv'
<1> SUFFICES ASSUME TypeOK, DrainInv, [Next]_vars PROVE DrainInv'
  OBVIOUS
<1> USE DEF TypeOK, DrainInv, Running
<1>1. CASE UNCHANGED vars
  BY <1>1 DEF vars
<1>2. CASE exit = Running /\ Main
  <2>1. CASE InitTracer \/ StartClients \/ Listen
    BY <1>2, <2>1 DEF InitTracer, StartClients, Listen, Exit
  <2>2. CASE StartTransparent \/ StartMutualTLS \/ Configure
    BY <1>2, <2>2 DEF StartTransparent, StartMutualTLS, Configure, StartServer, Exit
  <2>3. CASE StartMetrics \/ StartPool
    BY <1>2, <2>3 DEF StartMetrics, StartPool, StartServer, Exit
  <2>4. CASE Serve \/ MainReturns
    BY <1>2, <2>4 DEF Serve, MainReturns, Exit
  <2> QED BY <1>2, <2>1, <2>2, <2>3, <2>4 DEF Main
<1>3. CASE ServeFails
  BY <1>3 DEF ServeFails
<1>4. CASE exit = Running /\ Shutdown
  BY <1>4 DEF Shutdown, ContextDone, GracefulStopReturns, ClosePool, StopMetrics
<1>5. CASE Signal \/ SnapshotReceived \/ Registered \/ RegistrarReturns
  BY <1>5 DEF Signal, SnapshotReceived, Registered, RegistrarReturns
<1>6. CASE CallArrives \/ CallReturns
  BY <1>6 DEF CallArrives, CallReturns
<1>7. ASSUME NEW k \in Servers, ServerFails(k) \/ CancelProcess(k) \/ ServerReturns(k)
      PROVE  DrainInv'
  BY <1>7 DEF ServerFails, CancelProcess, ServerReturns
<1> QED
  BY <1>1, <1>2, <1>3, <1>4, <1>5, <1>6, <1>7 DEF Next

(* What main has started stays started. *)
LEMMA NextStage == TypeOK /\ StageInv /\ [Next]_vars => StageInv'
<1> SUFFICES ASSUME TypeOK, StageInv, [Next]_vars PROVE StageInv'
  OBVIOUS
<1> USE DEF TypeOK, StageInv, Servers
<1>1. CASE UNCHANGED vars
  BY <1>1 DEF vars
<1>2. CASE InitTracer \/ StartClients \/ Listen \/ Configure \/ StartPool \/ Serve
             \/ MainReturns \/ ServeFails
  BY <1>2 DEF InitTracer, StartClients, Listen, Configure, StartPool, Serve, MainReturns,
              ServeFails, Exit
<1>3. CASE StartTransparent \/ StartMutualTLS \/ StartMetrics
  BY <1>3 DEF StartTransparent, StartMutualTLS, StartMetrics, StartServer, Exit
<1>4. CASE Shutdown
  BY <1>4 DEF Shutdown, ContextDone, GracefulStopReturns, ClosePool, StopMetrics
<1>5. CASE Signal \/ SnapshotReceived \/ Registered \/ RegistrarReturns
  BY <1>5 DEF Signal, SnapshotReceived, Registered, RegistrarReturns
<1>6. CASE CallArrives \/ CallReturns
  BY <1>6 DEF CallArrives, CallReturns
<1>7. ASSUME NEW k \in Servers, ServerFails(k) \/ CancelProcess(k) \/ ServerReturns(k)
      PROVE  StageInv'
  BY <1>7 DEF ServerFails, CancelProcess, ServerReturns
<1> QED
  BY <1>1, <1>2, <1>3, <1>4, <1>5, <1>6, <1>7 DEF Next, Main

(* The invariant holds in every state of the process. *)
THEOREM SidecarInvariance == Spec => []SidecarInv
<1>1. SidecarInv /\ [Next]_vars => SidecarInv'
  BY NextType, NextDrain, NextStage DEF SidecarInv
<1> QED BY SidecarInit, <1>1, PTL DEF Spec

(* While a call is in flight the pool is open and main does not return,    *)
(* for any number of calls and whatever cancelled the context when.        *)
THEOREM DrainsFirst == Spec => []GracefulExit
<1>1. SidecarInv => GracefulExit
  BY DEF SidecarInv, DrainInv, GracefulExit
<1> QED BY SidecarInvariance, <1>1, PTL

(* /readyz does not answer 200 before every port is bound, for every       *)
(* combination of options.                                                 *)
THEOREM ReadyListens == Spec => []ReadyMeansListening
<1>1. SidecarInv => ReadyMeansListening
  BY DEF SidecarInv, StageInv, ReadyMeansListening, Readyz
<1> QED BY SidecarInvariance, <1>1, PTL

-----------------------------------------------------------------------------
(* The relays, however much the peers send and however the copiers, the    *)
(* handler, the peers and the context interleave.                          *)

Stayed == \A p \in RL!Peers : ~gone[p]

(* What makes CleanEndIsComplete inductive: while both peers stay, a       *)
(* copier is only done when it has copied a finished direction to the      *)
(* last byte; CloseWrite is called by a copier that is done; the handler   *)
(* of a relayed connection ends after both; and before there are copiers   *)
(* nobody has seen an end, unless the handler has returned without them.   *)
CopierInv(d) ==
  /\ copier[d] = "done" /\ Stayed => RL!ReadsEnd(d)
  /\ flow[d].shut => copier[d] = "done"
  /\ pc = "ended" /\ copier[d] # "none" => copier[d] = "done"
  /\ pc \notin {"copying", "ended"} => copier[d] = "none" /\ ~flow[d].eof
  /\ pc = "copying" => copier[d] # "none"
  /\ flow[d].eof /\ copier[d] # "none" =>
       copier[d] = "done" /\ (Stayed => flow[d].received = flow[d].written)

RelayInv == RL!TypeOK /\ \A d \in RL!Directions : CopierInv(d)

(* The invariant holds before the process has accepted anything. *)
LEMMA RelayInit == RL!Init => RelayInv
  BY DEF RL!Init, RelayInv, RL!TypeOK, CopierInv, Stayed, RL!Directions, RL!Peers,
         RL!Flow, RL!NoFlow, RL!ReadsEnd

(* Steps that change neither flow nor gone nor copier. *)
LEMMA ControlSteps ==
  ASSUME RelayInv,
         UNCHANGED <<kind, copier, flow, gone>>,
         relayCtx' \in {"alive", "cancelled"},
         loop' \in {"starting", "accepting", "returned", "failed"},
         \/ pc' = pc
         \/ pc = "none" /\ pc' \in {"resolving", "handshaking"}
         \/ pc \in {"resolving", "handshaking"} /\ pc' \in {"dialing", "ended"}
         \/ pc = "dialing" /\ pc' = "ended"
         \/ pc = "copying" /\ pc' = "ended" /\ \A d \in RL!Directions : copier[d] = "done"
  PROVE  RelayInv'
<1>1. RL!TypeOK'
  BY DEF RelayInv, RL!TypeOK
<1>2. ASSUME NEW d \in RL!Directions PROVE CopierInv(d)'
  BY <1>2 DEF RelayInv, RL!TypeOK, CopierInv, Stayed, RL!ReadsEnd
<1> QED BY <1>1, <1>2 DEF RelayInv

(* A step that moves one direction on to f. *)
LEMMA FlowTypes ==
  ASSUME RL!TypeOK, NEW d \in RL!Directions, NEW f \in RL!Flow,
         f.received <= f.written, f.written <= f.read, f.read <= f.sent,
         flow' = [flow EXCEPT ![d] = f],
         UNCHANGED <<kind, relayCtx, loop, pc, gone>>,
         copier' \in [RL!Directions -> {"none", "copying", "done"}]
  PROVE  RL!TypeOK'
<1>1. flow' \in [RL!Directions -> RL!Flow]
  BY DEF RL!TypeOK
<1>2. ASSUME NEW e \in RL!Directions
      PROVE  /\ flow'[e].received <= flow'[e].written
             /\ flow'[e].written <= flow'[e].read
             /\ flow'[e].read <= flow'[e].sent
  BY <1>2 DEF RL!TypeOK
<1> QED BY <1>1, <1>2 DEF RL!TypeOK

(* Every step of the relay and of the peers preserves the invariant. *)
LEMMA RelayNext == RelayInv /\ [RL!Next]_RL!vars => RelayInv'
<1> SUFFICES ASSUME RelayInv, [RL!Next]_RL!vars PROVE RelayInv'
  OBVIOUS
<1>1. CASE UNCHANGED RL!vars
  BY <1>1, ControlSteps DEF RL!vars, RelayInv, RL!TypeOK
<1>2. CASE RL!Cancel
  BY <1>2, ControlSteps DEF RL!Cancel, RelayInv, RL!TypeOK
<1>3. CASE RL!Loop
  BY <1>3, ControlSteps DEF RL!Loop, RL!StartLoop, RL!LoopReturns, RelayInv, RL!TypeOK
<1>4. CASE RL!Accept
  BY <1>4, ControlSteps DEF RL!Accept, RelayInv, RL!TypeOK
<1>5. CASE RL!Resolve
  BY <1>5, ControlSteps DEF RL!Resolve, RL!Goto, RelayInv, RL!TypeOK
<1>6. CASE RL!HandshakeSucceeds \/ RL!HandshakeRejected \/ RL!HandshakeInterrupted
  BY <1>6, ControlSteps
  DEF RL!HandshakeSucceeds, RL!HandshakeRejected, RL!HandshakeInterrupted, RL!Goto,
      RelayInv, RL!TypeOK
<1>7. CASE RL!Dial
  <2>1. CASE RL!Goto("ended")
    BY <1>7, <2>1, ControlSteps DEF RL!Dial, RL!Goto, RelayInv, RL!TypeOK
  <2>2. CASE /\ pc' = "copying"
             /\ copier' = [d \in RL!Directions |-> "copying"]
             /\ UNCHANGED <<kind, relayCtx, loop, flow, gone>>
    <3>1. RL!TypeOK'
      BY <1>7, <2>2 DEF RL!Dial, RelayInv, RL!TypeOK
    <3>2. ASSUME NEW d \in RL!Directions PROVE CopierInv(d)'
      BY <1>7, <2>2, <3>2 DEF RL!Dial, RelayInv, RL!TypeOK, CopierInv, Stayed, RL!ReadsEnd
    <3> QED BY <3>1, <3>2 DEF RelayInv
  <2> QED BY <1>7, <2>1, <2>2 DEF RL!Dial
<1>8. CASE RL!Return
  BY <1>8, ControlSteps DEF RL!Return, RL!Goto, RelayInv, RL!TypeOK
<1>9. ASSUME NEW d \in RL!Directions, RL!Copy(d) PROVE RelayInv'
  <2>1. RL!TypeOK'
    <3>1. CASE RL!Read(d)
      BY <1>9, <3>1 DEF RL!Read, RL!Copying, RelayInv, RL!TypeOK, RL!Flow
    <3>2. CASE RL!Write(d)
      BY <1>9, <3>2 DEF RL!Write, RL!Copying, RelayInv, RL!TypeOK, RL!Flow
    <3>3. CASE RL!CopyEnds(d)
      BY <1>9, <3>3, ZenonT(60) DEF RL!CopyEnds, RL!Copying, RelayInv, RL!TypeOK, RL!Flow
    <3> QED BY <1>9, <3>1, <3>2, <3>3 DEF RL!Copy
  <2>2. ASSUME NEW e \in RL!Directions PROVE CopierInv(e)'
    <3>1. CASE RL!Read(d)
      BY <1>9, <2>2, <3>1 DEF RL!Read, RL!Copying, RelayInv, RL!TypeOK, RL!Flow,
                              CopierInv, Stayed, RL!ReadsEnd
    <3>2. CASE RL!Write(d)
      BY <1>9, <2>2, <3>2 DEF RL!Write, RL!Copying, RelayInv, RL!TypeOK, RL!Flow,
                              CopierInv, Stayed, RL!ReadsEnd
    <3>3. CASE RL!CopyEnds(d)
      <4>1. Stayed => RL!ReadsEnd(d)
        BY <1>9, <3>3 DEF RL!CopyEnds, Stayed, RL!ReadFails, RL!WriteFails,
                          RL!Source, RL!Destination, RL!Peers
      <4> QED
        BY <1>9, <2>2, <3>3, <4>1
        DEF RL!CopyEnds, RL!Copying, RelayInv, RL!TypeOK, RL!Flow, CopierInv,
            Stayed, RL!ReadsEnd
    <3> QED BY <1>9, <3>1, <3>2, <3>3 DEF RL!Copy
  <2> QED BY <2>1, <2>2 DEF RelayInv
<1>10. ASSUME NEW p \in RL!Peers,
              \/ RL!PeerSends(p) \/ RL!PeerFinishes(p) \/ RL!PeerLeaves(p)
              \/ RL!PeerReceives(p) \/ RL!PeerSeesEnd(p)
       PROVE  RelayInv'
  <2> USE DEF RL!Peers, RL!Directions, RL!Outgoing, RL!Incoming
  <2>1. CASE RL!PeerSends(p)
    <3>1. RL!TypeOK'
      <4> DEFINE d == RL!Outgoing(p)
                 f == [flow[d] EXCEPT !.sent = @ + 1]
      <4>1. d \in RL!Directions /\ flow[d] \in RL!Flow
        BY <1>10 DEF RelayInv, RL!TypeOK
      <4>2. /\ f \in RL!Flow
            /\ f.received <= f.written /\ f.written <= f.read /\ f.read <= f.sent
        BY <2>1, <4>1 DEF RL!PeerSends, RelayInv, RL!TypeOK, RL!Flow
      <4>3. /\ flow' = [flow EXCEPT ![d] = f]
            /\ UNCHANGED <<kind, relayCtx, loop, pc, gone, copier>>
        BY <2>1, <4>1 DEF RL!PeerSends, RelayInv, RL!TypeOK
      <4> HIDE DEF f
      <4> QED BY <4>1, <4>2, <4>3, FlowTypes DEF RelayInv, RL!TypeOK
    <3>2. ASSUME NEW e \in RL!Directions PROVE CopierInv(e)'
      BY <1>10, <2>1, <3>2
      DEF RL!PeerSends, RL!Connected, RelayInv, RL!TypeOK, RL!Flow, CopierInv,
          Stayed, RL!ReadsEnd
    <3> QED BY <3>1, <3>2 DEF RelayInv
  <2>2. CASE RL!PeerFinishes(p)
    <3>1. RL!TypeOK'
      <4> DEFINE d == RL!Outgoing(p)
                 f == [flow[d] EXCEPT !.fin = TRUE]
      <4>1. d \in RL!Directions /\ flow[d] \in RL!Flow
        BY <1>10 DEF RelayInv, RL!TypeOK
      <4>2. /\ f \in RL!Flow
            /\ f.received <= f.written /\ f.written <= f.read /\ f.read <= f.sent
        BY <2>2, <4>1 DEF RL!PeerFinishes, RelayInv, RL!TypeOK, RL!Flow
      <4>3. /\ flow' = [flow EXCEPT ![d] = f]
            /\ UNCHANGED <<kind, relayCtx, loop, pc, gone, copier>>
        BY <2>2, <4>1 DEF RL!PeerFinishes, RelayInv, RL!TypeOK
      <4> HIDE DEF f
      <4> QED BY <4>1, <4>2, <4>3, FlowTypes DEF RelayInv, RL!TypeOK
    <3>2. ASSUME NEW e \in RL!Directions PROVE CopierInv(e)'
      BY <1>10, <2>2, <3>2
      DEF RL!PeerFinishes, RL!Connected, RelayInv, RL!TypeOK, RL!Flow, CopierInv,
          Stayed, RL!ReadsEnd
    <3> QED BY <3>1, <3>2 DEF RelayInv
  <2>3. CASE RL!PeerLeaves(p)
    <3>1. RL!TypeOK'
      <4> DEFINE d == RL!Outgoing(p)
      <4>1. PICK fin \in {flow[d].fin, TRUE} : flow' = [flow EXCEPT ![d].fin = fin]
        BY <2>3 DEF RL!PeerLeaves
      <4>2. d \in RL!Directions /\ flow[d] \in RL!Flow
        BY <1>10 DEF RelayInv, RL!TypeOK
      <4>3. fin \in BOOLEAN
        BY <4>1, <4>2 DEF RL!Flow
      <4>4. flow' \in [RL!Directions -> RL!Flow]
        BY <4>1, <4>2, <4>3 DEF RelayInv, RL!TypeOK, RL!Flow
      <4>5. ASSUME NEW e \in RL!Directions
            PROVE  /\ flow'[e].received <= flow'[e].written
                   /\ flow'[e].written <= flow'[e].read
                   /\ flow'[e].read <= flow'[e].sent
        BY <4>1, <4>2, <4>5 DEF RelayInv, RL!TypeOK, RL!Flow
      <4>6. gone' \in [RL!Peers -> BOOLEAN]
        BY <1>10, <2>3 DEF RL!PeerLeaves, RelayInv, RL!TypeOK
      <4> QED BY <2>3, <4>4, <4>5, <4>6 DEF RL!PeerLeaves, RelayInv, RL!TypeOK
    <3>2. ~Stayed'
      BY <1>10, <2>3 DEF RL!PeerLeaves, Stayed, RelayInv, RL!TypeOK
    <3>3. ASSUME NEW e \in RL!Directions PROVE CopierInv(e)'
      BY <1>10, <2>3, <3>2, <3>3
      DEF RL!PeerLeaves, RL!Connected, RelayInv, RL!TypeOK, RL!Flow, CopierInv
    <3> QED BY <3>1, <3>3 DEF RelayInv
  <2>4. CASE RL!PeerReceives(p)
    <3>1. RL!TypeOK'
      <4> DEFINE d == RL!Incoming(p)
                 f == [flow[d] EXCEPT !.received = flow[d].written]
      <4>1. d \in RL!Directions /\ flow[d] \in RL!Flow
        BY <1>10 DEF RelayInv, RL!TypeOK
      <4>2. /\ f \in RL!Flow
            /\ f.received <= f.written /\ f.written <= f.read /\ f.read <= f.sent
        BY <2>4, <4>1 DEF RL!PeerReceives, RelayInv, RL!TypeOK, RL!Flow
      <4>3. /\ flow' = [flow EXCEPT ![d] = f]
            /\ UNCHANGED <<kind, relayCtx, loop, pc, gone, copier>>
        BY <2>4, <4>1 DEF RL!PeerReceives, RelayInv, RL!TypeOK
      <4> HIDE DEF f
      <4> QED BY <4>1, <4>2, <4>3, FlowTypes DEF RelayInv, RL!TypeOK
    <3>2. ASSUME NEW e \in RL!Directions PROVE CopierInv(e)'
      BY <1>10, <2>4, <3>2
      DEF RL!PeerReceives, RelayInv, RL!TypeOK, RL!Flow, CopierInv, Stayed, RL!ReadsEnd
    <3> QED BY <3>1, <3>2 DEF RelayInv
  <2>5. CASE RL!PeerSeesEnd(p)
    <3>1. RL!TypeOK'
      <4> DEFINE d == RL!Incoming(p)
                 f == [flow[d] EXCEPT !.eof = TRUE]
      <4>1. d \in RL!Directions /\ flow[d] \in RL!Flow
        BY <1>10 DEF RelayInv, RL!TypeOK
      <4>2. /\ f \in RL!Flow
            /\ f.received <= f.written /\ f.written <= f.read /\ f.read <= f.sent
        BY <2>5, <4>1 DEF RL!PeerSeesEnd, RelayInv, RL!TypeOK, RL!Flow
      <4>3. /\ flow' = [flow EXCEPT ![d] = f]
            /\ UNCHANGED <<kind, relayCtx, loop, pc, gone, copier>>
        BY <2>5, <4>1 DEF RL!PeerSeesEnd, RelayInv, RL!TypeOK
      <4> HIDE DEF f
      <4> QED BY <4>1, <4>2, <4>3, FlowTypes DEF RelayInv, RL!TypeOK
    <3>2. ASSUME NEW e \in RL!Directions PROVE CopierInv(e)'
      BY <1>10, <2>5, <3>2
      DEF RL!PeerSeesEnd, RL!Connected, RelayInv, RL!TypeOK, RL!Flow, CopierInv,
          Stayed, RL!ReadsEnd
    <3> QED BY <3>1, <3>2 DEF RelayInv
  <2> QED BY <1>10, <2>1, <2>2, <2>3, <2>4, <2>5
<1> QED
  BY <1>1, <1>2, <1>3, <1>4, <1>5, <1>6, <1>7, <1>8, <1>9, <1>10 DEF RL!Next, RL!Handle

(* The types and the order of the bytes, for every number of bytes. *)
THEOREM RelayTypes == RL!Spec => []RL!TypeOK
<1>1. RelayInv => RL!TypeOK
  BY DEF RelayInv
<1> QED BY RelayInit, RelayNext, <1>1, PTL DEF RL!Spec

(* No relay makes up an end: both relays, for every number of bytes, never *)
(* show a peer the end of a direction that the other peer has not finished *)
(* or that has not arrived whole, as long as both stay.                    *)
THEOREM CompleteEnds == RL!Spec => []CleanEndIsComplete
<1>1. RelayInv => CleanEndIsComplete
  BY DEF RelayInv, RL!TypeOK, CopierInv, Stayed, RL!ReadsEnd, RL!Flow,
         CleanEndIsComplete, RL!CleanEndIsComplete
<1> QED BY RelayInit, RelayNext, <1>1, PTL DEF RL!Spec

-----------------------------------------------------------------------------
(* Secure connections, for any services and addresses, and however often   *)
(* pods move, leaves are replaced and connections break.                   *)

(* A handshake that has passed the client's check is with the service of   *)
(* the connection's key, and it stays so since a move loses the            *)
(* connection; behind the server's check the service admits the caller.    *)
PeerInv ==
  \A k \in Services \X Addresses :
    /\ conn[k].pc \in {"serverKnown", "clientCert", "ready"} => workload[k[2]] = k[1]
    /\ conn[k].pc = "ready" => k[1] \in Admits

SecureInv == MT!TypeOK /\ PeerInv /\ MT!TalksToService

(* A leaf proves an identity that is allowed only if it is its owner's. *)
LEMMA IdentityIsOwner ==
  ASSUME NEW allowed, NEW w, MT!requireIdentity(allowed, w)
  PROVE  w \in allowed
  BY DEF MT!requireIdentity, MT!certificateIdentity

(* One step of one connection, and none of another variable. *)
LEMMA ConnectionStep ==
  ASSUME SecureInv, NEW k \in Services \X Addresses, NEW c \in MT!Conn, MT!To(k, c),
         c.pc \in {"serverKnown", "clientCert", "ready"} => workload[k[2]] = k[1],
         c.pc = "ready" => k[1] \in Admits
  PROVE  SecureInv'
<1>1. MT!TypeOK'
  BY DEF SecureInv, MT!TypeOK, MT!To
<1>2. PeerInv'
  BY DEF SecureInv, MT!TypeOK, PeerInv, MT!To
<1> QED BY <1>1, <1>2 DEF SecureInv, MT!TalksToService, MT!To

(* The invariant holds before the first call. *)
LEMMA SecureInit == MT!Init => SecureInv
  BY DEF MT!Init, SecureInv, MT!TypeOK, PeerInv, MT!TalksToService, MT!ConnAt, MT!Conn

(* A handshake keeps the invariant. *)
LEMMA HandshakeInv ==
  ASSUME SecureInv, NEW k \in Services \X Addresses, MT!Handshake(k)
  PROVE  SecureInv'
<1>1. CASE MT!ServerReadsCert(k)
  <2> DEFINE c == [pc |-> "serverCert", cert |-> MT!LeafFile(workload[k[2]])]
  <2>1. c \in MT!Conn
    BY <1>1 DEF MT!ServerReadsCert, SecureInv, MT!TypeOK, MT!Conn, MT!LeafFile, MT!Owners
  <2> QED BY <1>1, <2>1, ConnectionStep DEF MT!ServerReadsCert
<1>2. CASE MT!ClientVerifies(k)
  <2>1. PICK to \in {"serverKnown", "idle"} :
          /\ MT!To(k, MT!ConnAt(to))
          /\ to = "serverKnown" => MT!requireIdentity({k[1]}, workload[k[2]])
    BY <1>2 DEF MT!ClientVerifies
  <2>2. MT!ConnAt(to) \in MT!Conn /\ MT!ConnAt(to).pc = to
    BY DEF MT!ConnAt, MT!Conn
  <2>3. to = "serverKnown" => workload[k[2]] = k[1]
    BY <2>1, IdentityIsOwner
  <2> QED BY <2>1, <2>2, <2>3, ConnectionStep
<1>3. CASE MT!ClientReadsCert(k)
  <2> DEFINE c == [pc |-> "clientCert", cert |-> MT!LeafFile(Caller)]
  <2>1. c \in MT!Conn
    BY DEF SecureInv, MT!TypeOK, MT!Conn, MT!LeafFile, MT!Owners
  <2>2. workload[k[2]] = k[1]
    BY <1>3 DEF MT!ClientReadsCert, SecureInv, PeerInv
  <2> QED BY <1>3, <2>1, <2>2, ConnectionStep DEF MT!ClientReadsCert
<1>4. CASE MT!ServerVerifies(k)
  <2> DEFINE allowed == IF workload[k[2]] \in Admits THEN {Caller} ELSE {}
  <2>1. PICK to \in {"ready", "idle"} :
          /\ MT!To(k, MT!ConnAt(to))
          /\ to = "ready" => MT!requireIdentity(allowed, Caller)
    BY <1>4 DEF MT!ServerVerifies
  <2>2. MT!ConnAt(to) \in MT!Conn /\ MT!ConnAt(to).pc = to
    BY DEF MT!ConnAt, MT!Conn
  <2>3. workload[k[2]] = k[1]
    BY <1>4 DEF MT!ServerVerifies, SecureInv, PeerInv
  <2>4. to = "ready" => k[1] \in Admits
    BY <2>1, <2>3, IdentityIsOwner
  <2> QED BY <2>1, <2>2, <2>3, <2>4, ConnectionStep
<1> QED BY <1>1, <1>2, <1>3, <1>4 DEF MT!Handshake

(* What happens around the sidecar keeps the invariant. *)
LEMMA EnvironmentInv ==
  ASSUME SecureInv, \/ \E a \in Addresses : MT!Move(a)
               \/ \E p \in MT!Owners : MT!Rotate(p) \/ MT!Expire(p)
  PROVE  SecureInv'
<1> USE DEF SecureInv, MT!TypeOK, PeerInv, MT!TalksToService
<1>1. ASSUME NEW a \in Addresses, MT!Move(a) PROVE SecureInv'
  <2>1. MT!TypeOK'
    BY <1>1 DEF MT!Move, MT!ConnAt, MT!Conn
  <2>2. PeerInv'
    BY <1>1 DEF MT!Move, MT!ConnAt, MT!Conn
  <2> QED BY <1>1, <2>1, <2>2 DEF MT!Move
<1>2. ASSUME NEW p \in MT!Owners, MT!Rotate(p) PROVE SecureInv'
  BY <1>2 DEF MT!Rotate
<1>3. ASSUME NEW p \in MT!Owners, MT!Expire(p) PROVE SecureInv'
  BY <1>3 DEF MT!Expire
<1> QED BY <1>1, <1>2, <1>3

(* Every step keeps the invariant. *)
LEMMA SecureNext == SecureInv /\ [MT!Next]_MT!vars => SecureInv'
<1> SUFFICES ASSUME SecureInv, [MT!Next]_MT!vars PROVE SecureInv'
  OBVIOUS
<1>0. DOMAIN conn = Services \X Addresses
  BY DEF SecureInv, MT!TypeOK
<1>1. CASE UNCHANGED MT!vars
  BY <1>1 DEF MT!vars, SecureInv, MT!TypeOK, PeerInv, MT!TalksToService
<1>2. CASE \/ \E a \in Addresses : MT!Move(a)
           \/ \E p \in MT!Owners : MT!Rotate(p) \/ MT!Expire(p)
  BY <1>2, EnvironmentInv
<1>3. ASSUME NEW k \in Services \X Addresses, MT!Break(k) PROVE SecureInv'
  BY <1>3 DEF MT!Break, SecureInv, MT!TypeOK, PeerInv, MT!TalksToService,
              MT!ConnAt, MT!Conn
<1>4. ASSUME NEW k \in Services \X Addresses, MT!Close(k) PROVE SecureInv'
  BY <1>4, ConnectionStep DEF MT!Close, MT!ConnAt, MT!Conn
<1>5. ASSUME NEW s \in Services, NEW a \in Addresses, MT!Dial(s, a) PROVE SecureInv'
  BY <1>5, ConnectionStep DEF MT!Dial, MT!poolKey, MT!ConnAt, MT!Conn
<1>6. ASSUME NEW s \in Services, NEW a \in Addresses, MT!Call(s, a) PROVE SecureInv'
  <2>1. workload[a] = s /\ s \in Admits
    BY <1>6 DEF MT!Call, MT!poolKey, SecureInv, PeerInv
  <2> QED BY <1>6, <2>1 DEF MT!Call, SecureInv, MT!TypeOK, PeerInv, MT!TalksToService
<1> QED BY <1>0, <1>1, <1>2, <1>3, <1>4, <1>5, <1>6, HandshakeInv DEF MT!Next

(* No call is delivered to a workload of another service, to a stranger or *)
(* to a service that does not admit the caller: for every cache, every     *)
(* reuse of an address and every point a certificate may change at.        *)
THEOREM CallsReachTheirService == MT!Spec => []TalksToService
<1>1. SecureInv => TalksToService
  BY DEF SecureInv, TalksToService
<1> QED BY SecureInit, SecureNext, <1>1, PTL DEF MT!Spec

-----------------------------------------------------------------------------
(* Registration, for any number of registrars, leases, failures and losses *)
(* of etcd's data, and for every lease that outlives a heartbeat interval  *)
(* and two calls.                                                          *)

LeasePC == RG!RegistrarPC \ {"granting", "delay", "stopped"}

(* How long a lease will live at least, by where its registrar is and how  *)
(* much is left of its call and its interval.  A lease that was granted or *)
(* renewed in the call that runs is as old as the call.  It outlives the   *)
(* rest of the interval and the call that renews it.                       *)
Margin(p, d, b, t) ==
  /\ p \in {"putting", "responding", "renewed"} => t + CallTimeout >= TTL + b
  /\ p = "keepalive" => t > d + CallTimeout
  /\ p = "renewing" => t > b

Held(r) ==
  /\ run[r] \in LeasePC \ RG!DeregisterCall => Margin(run[r], due[r], budget[r], ttl[lease[r]])
  /\ run[r] \in RG!HeartbeatCall \cup {"keepalive", "responding"} => kv[r] = lease[r]

(* No two registrars have the same lease. *)
LeaseInv ==
  /\ RG!TypeOK
  /\ \A r \in Registrars : run[r] \in LeasePC <=> lease[r] \in Leases
  /\ \A r, q \in Registrars : r # q /\ lease[r] \in Leases => lease[q] # lease[r]
  /\ losses = 0 => \A r \in Registrars : Held(r)

(* The interval fits between two calls. *)
LEMMA Timing ==
  /\ TTL \in Nat /\ CallTimeout \in Nat /\ MaxFailures \in Nat /\ MaxLosses \in Nat
  /\ RG!Interval \in Nat \ {0}
  /\ CallTimeout + RG!Interval + CallTimeout < TTL
  /\ NoLease \notin Leases
<1>1. TTL \in Nat /\ CallTimeout \in Nat /\ MaxFailures \in Nat /\ MaxLosses \in Nat
      /\ NoLease \notin Leases /\ CallTimeout + RG!Interval + CallTimeout < TTL
  BY RegistrationConstants DEF RG!Constants
<1>2. RG!Interval \in Nat \ {0}
  BY <1>1 DEF RG!Interval
<1> QED BY <1>1, <1>2

(* What a margin is worth. *)
LEMMA Margins ==
  ASSUME NEW d \in 0..RG!Interval, NEW b \in 0..CallTimeout, NEW t \in Nat
  PROVE  /\ Margin("renewed", d, b, TTL)
         /\ Margin("renewed", d, b, t) => Margin("keepalive", d, b, t)
         /\ Margin("putting", d, b, t) => Margin("responding", d, b, t)
         /\ \A p \in {"renewing", "renewed", "keepalive"} : Margin(p, d, b, t) => t > 0
<1>1. TTL + CallTimeout >= TTL + b
  BY Timing
<1>2. t + CallTimeout >= TTL + b => t > d + CallTimeout /\ t > 0
  BY Timing
<1>3. t > d + CallTimeout => t > 0
  BY Timing
<1>4. t > b => t > 0
  BY Timing
<1> QED BY <1>1, <1>2, <1>3, <1>4 DEF Margin

(* What a registrar may ask of etcd in one step. *)
EtcdStep(r) ==
  \/ UNCHANGED <<ttl, kv>>
  \/ \E l \in Leases : RG!Grantable(l) /\ RG!Grant(l) /\ (UNCHANGED kv \/ RG!Put(r, l))
  \/ lease[r] \in Leases /\ RG!Put(r, lease[r]) /\ UNCHANGED ttl
  \/ kv' = [kv EXCEPT ![r] = NoLease] /\ UNCHANGED ttl
  \/ lease[r] \in Leases /\ RG!KeepAliveOnce(lease[r]) /\ UNCHANGED kv
  \/ lease[r] \in Leases /\ RG!EndLeases({lease[r]})
  \/ lease[r] \in Leases /\ ttl' = [ttl EXCEPT ![lease[r]] = 0] /\ RG!Put(r, NoLease)

(* No request touches the lease of another registrar, or a key attached    *)
(* to it.                                                                  *)
LEMMA EtcdStepLocal ==
  ASSUME LeaseInv, NEW r \in Registrars, EtcdStep(r)
  PROVE  /\ ttl' \in [Leases -> 0..TTL]
         /\ kv' \in [Registrars -> Leases \cup {NoLease}]
         /\ \A t \in Registrars \ {r} : lease[t] \in Leases =>
              /\ ttl'[lease[t]] = ttl[lease[t]]
              /\ kv[t] = lease[t] => kv'[t] = kv[t]
<1>0. /\ ttl \in [Leases -> 0..TTL] /\ kv \in [Registrars -> Leases \cup {NoLease}]
      /\ \A t \in Registrars \ {r} : lease[r] \in Leases => lease[t] # lease[r]
  BY DEF LeaseInv, RG!TypeOK
<1>1. TTL \in 0..TTL /\ 0 \in 0..TTL
  BY Timing
<1>2. CASE UNCHANGED <<ttl, kv>>
  BY <1>0, <1>2
<1>3. CASE \E l \in Leases : RG!Grantable(l) /\ RG!Grant(l) /\ (UNCHANGED kv \/ RG!Put(r, l))
  BY <1>0, <1>1, <1>3 DEF RG!Grantable, RG!Grant, RG!Put
<1>4. CASE lease[r] \in Leases /\ RG!Put(r, lease[r]) /\ UNCHANGED ttl
  BY <1>0, <1>4 DEF RG!Put
<1>5. CASE kv' = [kv EXCEPT ![r] = NoLease] /\ UNCHANGED ttl
  BY <1>0, <1>5
<1>6. CASE lease[r] \in Leases /\ RG!KeepAliveOnce(lease[r]) /\ UNCHANGED kv
  BY <1>0, <1>1, <1>6 DEF RG!KeepAliveOnce
<1>7. CASE lease[r] \in Leases /\ RG!EndLeases({lease[r]})
  BY <1>0, <1>1, <1>7 DEF RG!EndLeases
<1>8. CASE lease[r] \in Leases /\ ttl' = [ttl EXCEPT ![lease[r]] = 0] /\ RG!Put(r, NoLease)
  BY <1>0, <1>1, <1>8 DEF RG!Put
<1> QED BY <1>2, <1>3, <1>4, <1>5, <1>6, <1>7, <1>8 DEF EtcdStep

(* The step takes r to the place p, with the lease l, d ticks before its   *)
(* ticker fires and b before its call times out.                           *)
Goes(r, p, l, d, b) ==
  /\ run' = [run EXCEPT ![r] = p] /\ lease' = [lease EXCEPT ![r] = l]
  /\ due' = [due EXCEPT ![r] = d] /\ budget' = [budget EXCEPT ![r] = b]
  /\ losses' = losses /\ cancelled' \in SUBSET Registrars /\ failures' \in 0..MaxFailures

(* A step of one registrar is checked for that registrar only. *)
LEMMA OneRegistrar ==
  ASSUME LeaseInv, NEW r \in Registrars, EtcdStep(r),
         NEW p \in RG!RegistrarPC, NEW l \in Leases \cup {NoLease},
         NEW d \in 0..RG!Interval, NEW b \in 0..CallTimeout, Goes(r, p, l, d, b),
         p \in LeasePC <=> l \in Leases,
         l \in Leases => \A t \in Registrars \ {r} : lease[t] # l,
         losses = 0 =>
           /\ p \in LeasePC \ RG!DeregisterCall => Margin(p, d, b, ttl'[l])
           /\ p \in RG!HeartbeatCall \cup {"keepalive", "responding"} => kv'[r] = l
  PROVE  LeaseInv'
<1>0. RG!TypeOK
  BY DEF LeaseInv
<1>1. RG!TypeOK'
  BY <1>0, EtcdStepLocal DEF RG!TypeOK, Goes
<1>2. /\ run'[r] = p /\ lease'[r] = l /\ due'[r] = d /\ budget'[r] = b
      /\ \A t \in Registrars \ {r} : /\ run'[t] = run[t] /\ lease'[t] = lease[t]
                                     /\ due'[t] = due[t] /\ budget'[t] = budget[t]
      /\ losses' = losses
  BY <1>0 DEF RG!TypeOK, Goes
<1>3. \A t \in Registrars : run'[t] \in LeasePC <=> lease'[t] \in Leases
  BY <1>2 DEF LeaseInv
<1>4. ASSUME NEW t \in Registrars, NEW q \in Registrars, t # q, lease'[t] \in Leases
      PROVE  lease'[q] # lease'[t]
  <2>1. CASE t = r
    BY <1>2, <1>4, <2>1
  <2>2. CASE q = r
    BY <1>2, <1>4, <2>2
  <2>3. CASE t # r /\ q # r
    BY <1>2, <1>4, <2>3 DEF LeaseInv
  <2> QED BY <2>1, <2>2, <2>3
<1>5. ASSUME losses = 0, NEW t \in Registrars PROVE Held(t)'
  <2>1. CASE t = r
    BY <1>2, <1>5, <2>1 DEF Held
  <2>2. CASE t # r
    <3>1. Held(t)
      BY <1>5 DEF LeaseInv
    <3>2. run[t] \in LeasePC => lease[t] \in Leases
      BY DEF LeaseInv
    <3>3. lease[t] \in Leases => ttl'[lease[t]] = ttl[lease[t]] /\ (kv[t] = lease[t] => kv'[t] = kv[t])
      BY <2>2, EtcdStepLocal
    <3>4. run'[t] = run[t] /\ lease'[t] = lease[t] /\ due'[t] = due[t] /\ budget'[t] = budget[t]
      BY <1>2, <2>2
    <3>5. RG!HeartbeatCall \cup {"keepalive", "responding"} \subseteq LeasePC
      BY DEF LeasePC, RG!RegistrarPC, RG!HeartbeatCall, RG!RegisterCall, RG!DeregisterCall
    <3> QED BY <3>1, <3>2, <3>3, <3>4, <3>5 DEF Held
  <2> QED BY <2>1, <2>2
<1> QED BY <1>1, <1>2, <1>3, <1>4, <1>5 DEF LeaseInv

(* A registrar that waits or has returned has no lease. *)
LEMMA Leaves ==
  ASSUME LeaseInv, NEW r \in Registrars, NEW p \in {"delay", "stopped"}, RG!Leave(r, p),
         EtcdStep(r), losses' = losses,
         cancelled' \in SUBSET Registrars, failures' \in 0..MaxFailures
  PROVE  LeaseInv'
<1>1. due \in [Registrars -> 0..RG!Interval] /\ budget \in [Registrars -> 0..CallTimeout]
  BY DEF LeaseInv, RG!TypeOK
<1>2. due[r] \in 0..RG!Interval /\ budget[r] \in 0..CallTimeout
  BY <1>1
<1>3. Goes(r, p, NoLease, due[r], budget[r])
  BY <1>1 DEF RG!Leave, RG!Goto, Goes
<1>4. /\ p \in RG!RegistrarPC /\ p \notin LeasePC /\ NoLease \notin Leases
      /\ p \notin RG!HeartbeatCall \cup {"keepalive", "responding"}
  BY Timing DEF LeasePC, RG!RegistrarPC, RG!HeartbeatCall
<1> QED BY <1>2, <1>3, <1>4, OneRegistrar

(* The failures of calls, cancellation and the end of the process. *)
LEMMA LeavingSteps ==
  ASSUME LeaseInv, NEW r \in Registrars,
         \/ RG!PutRefused(r) \/ RG!CancelledElsewhere(r) \/ RG!Revoke(r)
         \/ RG!CallFails(r) \/ RG!ProcessEnds(r)
  PROVE  LeaseInv'
<1>0. /\ cancelled \in SUBSET Registrars /\ failures \in 0..MaxFailures
      /\ run[r] \in LeasePC <=> lease[r] \in Leases
  BY DEF LeaseInv, RG!TypeOK
<1>1. RG!Fail => failures' \in 0..MaxFailures
  BY <1>0, Timing DEF RG!Fail
<1>2. run[r] = "revoking" => lease[r] \in Leases
  BY <1>0 DEF LeasePC, RG!RegistrarPC, RG!DeregisterCall
<1>3. RG!Alive(lease[r]) => lease[r] \in Leases
  BY DEF RG!Alive
<1>4. CASE RG!PutRefused(r) \/ RG!CancelledElsewhere(r)
  <2>1. \E p \in {"delay", "stopped"} : RG!Leave(r, p)
    BY <1>4 DEF RG!PutRefused, RG!CancelledElsewhere
  <2>2. UNCHANGED <<ttl, kv, losses, cancelled, failures>>
    BY <1>4 DEF RG!PutRefused, RG!CancelledElsewhere, RG!etcdVars
  <2> QED BY <1>0, <2>1, <2>2, Leaves DEF EtcdStep
<1>5. CASE RG!Revoke(r)
  <2>1. RG!Leave(r, "stopped") /\ EtcdStep(r) /\ UNCHANGED <<losses, cancelled, failures>>
    BY <1>2, <1>5 DEF RG!Revoke, EtcdStep
  <2> QED BY <1>0, <2>1, Leaves
<1>6. CASE RG!CallFails(r)
  <2>1. /\ \E p \in {"delay", "stopped"} : RG!Leave(r, p)
        /\ RG!Fail /\ UNCHANGED <<losses, cancelled>>
    BY <1>6 DEF RG!CallFails, RG!GrantFails, RG!PutFails, RG!RegisterFails, RG!HeartbeatFails,
                RG!DeregisterFails
  <2>2. EtcdStep(r)
    <3>1. CASE RG!GrantFails(r)
      BY <3>1 DEF RG!GrantFails, EtcdStep
    <3>2. CASE RG!PutFails(r)
      BY <1>3, <3>2 DEF RG!PutFails, EtcdStep, RG!etcdVars
    <3>3. CASE RG!RegisterFails(r) \/ RG!HeartbeatFails(r) \/ RG!DeregisterFails(r)
      BY <3>3 DEF RG!RegisterFails, RG!HeartbeatFails, RG!DeregisterFails, EtcdStep, RG!etcdVars
    <3> QED BY <1>6, <3>1, <3>2, <3>3 DEF RG!CallFails
  <2> QED BY <1>0, <1>1, <2>1, <2>2, Leaves
<1>7. CASE RG!ProcessEnds(r)
  <2>1. /\ RG!Leave(r, "stopped") /\ cancelled' \in SUBSET Registrars
        /\ UNCHANGED <<losses, failures>>
    BY <1>0, <1>7 DEF RG!ProcessEnds
  <2>2. EtcdStep(r)
    BY <1>3, <1>7 DEF RG!ProcessEnds, EtcdStep, RG!etcdVars
  <2> QED BY <1>0, <2>1, <2>2, Leaves
<1> QED BY <1>4, <1>5, <1>6, <1>7

(* Registering. *)
LEMMA RegisterSteps ==
  ASSUME LeaseInv, NEW r \in Registrars,
         RG!Retry(r) \/ RG!GrantWorks(r) \/ RG!PutWorks(r) \/ RG!RegisterReturns(r)
  PROVE  LeaseInv'
<1>0. /\ cancelled \in SUBSET Registrars /\ failures \in 0..MaxFailures
      /\ run[r] \in LeasePC <=> lease[r] \in Leases
      /\ lease[r] \in Leases => \A t \in Registrars \ {r} : lease[t] # lease[r]
      /\ lease \in [Registrars -> Leases \cup {NoLease}]
      /\ lease[r] \in Leases \cup {NoLease}
      /\ due \in [Registrars -> 0..RG!Interval] /\ due[r] \in 0..RG!Interval
      /\ budget \in [Registrars -> 0..CallTimeout] /\ budget[r] \in 0..CallTimeout
      /\ ttl \in [Leases -> 0..TTL] /\ kv \in [Registrars -> Leases \cup {NoLease}]
      /\ losses = 0 => Held(r)
  BY DEF LeaseInv, RG!TypeOK
<1>1. /\ due = [due EXCEPT ![r] = due[r]] /\ budget = [budget EXCEPT ![r] = budget[r]]
      /\ lease = [lease EXCEPT ![r] = lease[r]]
      /\ RG!Interval \in 0..RG!Interval /\ CallTimeout \in 0..CallTimeout
  BY <1>0, Timing
<1> USE DEF LeasePC, RG!RegistrarPC, RG!RegisterCall, RG!HeartbeatCall, RG!DeregisterCall
<1>2. CASE RG!Retry(r)
  <2>1. /\ run' = [run EXCEPT ![r] = "granting"] /\ budget' = [budget EXCEPT ![r] = CallTimeout]
        /\ UNCHANGED <<lease, due, cancelled, failures, losses>> /\ EtcdStep(r)
        /\ lease[r] \notin Leases
    BY <1>0, <1>2 DEF RG!Retry, RG!Goto, EtcdStep, RG!etcdVars
  <2>9. Goes(r, "granting", lease[r], due[r], CallTimeout)
    BY <1>0, <1>1, <2>1 DEF Goes
  <2> QED BY <1>0, <1>1, <2>1, <2>9, OneRegistrar
<1>3. CASE RG!GrantWorks(r)
  <2>1. PICK l \in Leases : /\ RG!Grantable(l) /\ RG!Grant(l)
                            /\ lease' = [lease EXCEPT ![r] = l]
    BY <1>3 DEF RG!GrantWorks
  <2>2. /\ run' = [run EXCEPT ![r] = "putting"]
        /\ UNCHANGED <<due, budget, cancelled, failures, losses>> /\ EtcdStep(r)
    BY <1>3, <2>1 DEF RG!GrantWorks, RG!Goto, EtcdStep
  <2>3. ttl'[l] = TTL /\ \A t \in Registrars : lease[t] # l
    BY <1>0, <2>1 DEF RG!Grant, RG!Grantable
  <2>4. Margin("putting", due[r], budget[r], ttl'[l])
    BY <1>0, <2>3, Timing DEF Margin
  <2>9. Goes(r, "putting", l, due[r], budget[r])
    BY <1>0, <1>1, <2>1, <2>2 DEF Goes
  <2> QED BY <1>0, <1>1, <2>1, <2>2, <2>3, <2>4, <2>9, OneRegistrar
<1>4. CASE RG!PutWorks(r)
  <2>1. /\ run[r] = "putting" /\ run' = [run EXCEPT ![r] = "responding"]
        /\ lease[r] \in Leases /\ RG!Put(r, lease[r])
        /\ UNCHANGED <<lease, due, budget, cancelled, failures, losses, ttl>> /\ EtcdStep(r)
    BY <1>4 DEF RG!PutWorks, RG!Goto, EtcdStep, RG!Alive
  <2>2. kv'[r] = lease[r]
    BY <1>0, <2>1 DEF RG!Put
  <2>3. ASSUME losses = 0
        PROVE  Margin("responding", due[r], budget[r], ttl'[lease[r]])
    <3>1. Margin("putting", due[r], budget[r], ttl[lease[r]])
      BY <1>0, <2>1, <2>3 DEF Held
    <3>2. ttl[lease[r]] \in Nat
      BY <1>0, <2>1, Timing
    <3>0. due[r] \in 0..RG!Interval /\ budget[r] \in 0..CallTimeout
      BY <1>0
    <3>3. Margin("responding", due[r], budget[r], ttl[lease[r]])
      BY <3>0, <3>1, <3>2, Margins
    <3>4. ttl'[lease[r]] = ttl[lease[r]]
      BY <2>1
    <3> QED BY <3>3, <3>4
  <2>9. Goes(r, "responding", lease[r], due[r], budget[r])
    BY <1>0, <1>1, <2>1 DEF Goes
  <2> QED BY <1>0, <1>1, <2>1, <2>2, <2>3, <2>9, OneRegistrar
<1>5. CASE RG!RegisterReturns(r)
  <2>1. /\ run[r] = "responding" /\ run' = [run EXCEPT ![r] = "keepalive"]
        /\ due' = [due EXCEPT ![r] = RG!Interval]
        /\ UNCHANGED <<lease, budget, cancelled, failures, losses, ttl, kv>> /\ EtcdStep(r)
    BY <1>5 DEF RG!RegisterReturns, RG!Goto, EtcdStep, RG!etcdVars
  <2>2. lease[r] \in Leases
    BY <1>0, <2>1
  <2>3. ASSUME losses = 0
        PROVE  /\ Margin("keepalive", RG!Interval, budget[r], ttl'[lease[r]])
               /\ kv'[r] = lease[r]
    <3>1. Margin("responding", due[r], budget[r], ttl[lease[r]]) /\ kv[r] = lease[r]
      BY <1>0, <2>1, <2>3 DEF Held
    <3>2. ttl[lease[r]] + CallTimeout >= TTL + budget[r]
      BY <3>1 DEF Margin
    <3>3. ttl[lease[r]] \in Nat
      BY <1>0, <2>2, Timing
    <3> QED BY <1>0, <2>1, <3>1, <3>2, <3>3, Timing DEF Margin
  <2>9. Goes(r, "keepalive", lease[r], RG!Interval, budget[r])
    BY <1>0, <1>1, <2>1 DEF Goes
  <2> QED BY <1>0, <1>1, <2>1, <2>2, <2>3, <2>9, OneRegistrar
<1> QED BY <1>2, <1>3, <1>4, <1>5

(* Renewing, and the first part of deregistering. *)
LEMMA RenewSteps ==
  ASSUME LeaseInv, NEW r \in Registrars,
         \/ RG!TickerFires(r) \/ RG!Renew(r) \/ RG!HeartbeatReturns(r)
         \/ RG!CancelledInKeepAlive(r) \/ RG!Delete(r)
  PROVE  LeaseInv'
<1>0. /\ cancelled \in SUBSET Registrars /\ failures \in 0..MaxFailures
      /\ run[r] \in LeasePC <=> lease[r] \in Leases
      /\ lease[r] \in Leases => \A t \in Registrars \ {r} : lease[t] # lease[r]
      /\ lease \in [Registrars -> Leases \cup {NoLease}]
      /\ lease[r] \in Leases \cup {NoLease}
      /\ due \in [Registrars -> 0..RG!Interval] /\ due[r] \in 0..RG!Interval
      /\ budget \in [Registrars -> 0..CallTimeout] /\ budget[r] \in 0..CallTimeout
      /\ ttl \in [Leases -> 0..TTL] /\ kv \in [Registrars -> Leases \cup {NoLease}]
      /\ losses = 0 => Held(r)
  BY DEF LeaseInv, RG!TypeOK
<1>1. /\ due = [due EXCEPT ![r] = due[r]] /\ budget = [budget EXCEPT ![r] = budget[r]]
      /\ lease = [lease EXCEPT ![r] = lease[r]]
      /\ RG!Interval \in 0..RG!Interval /\ CallTimeout \in 0..CallTimeout
  BY <1>0, Timing
<1> USE DEF LeasePC, RG!RegistrarPC, RG!RegisterCall, RG!HeartbeatCall, RG!DeregisterCall
<1>2. lease[r] \in Leases
  BY <1>0 DEF RG!TickerFires, RG!Renew, RG!HeartbeatReturns, RG!CancelledInKeepAlive, RG!Delete
<1>3. ttl[lease[r]] \in Nat
  BY <1>0, <1>2, Timing
<1>4. CASE RG!TickerFires(r)
  <2>1. /\ run[r] = "keepalive" /\ due[r] = 0 /\ run' = [run EXCEPT ![r] = "renewing"]
        /\ due' = [due EXCEPT ![r] = RG!Interval] /\ budget' = [budget EXCEPT ![r] = CallTimeout]
        /\ UNCHANGED <<lease, cancelled, failures, losses, ttl, kv>> /\ EtcdStep(r)
    BY <1>4 DEF RG!TickerFires, RG!Goto, EtcdStep, RG!etcdVars
  <2>2. ASSUME losses = 0
        PROVE  /\ Margin("renewing", RG!Interval, CallTimeout, ttl'[lease[r]])
               /\ kv'[r] = lease[r]
    <3>1. Margin("keepalive", due[r], budget[r], ttl[lease[r]]) /\ kv[r] = lease[r]
      BY <1>0, <2>1, <2>2 DEF Held
    <3>2. ttl[lease[r]] > due[r] + CallTimeout
      BY <3>1 DEF Margin
    <3>3. ttl[lease[r]] > CallTimeout
      BY <1>3, <2>1, <3>2, Timing
    <3> QED BY <2>1, <3>1, <3>3 DEF Margin
  <2>9. Goes(r, "renewing", lease[r], RG!Interval, CallTimeout)
    BY <1>0, <1>1, <2>1 DEF Goes
  <2> QED BY <1>0, <1>1, <1>2, <2>1, <2>2, <2>9, OneRegistrar
<1>5. CASE RG!Renew(r)
  <2>1. /\ run[r] = "renewing" /\ run' = [run EXCEPT ![r] = "renewed"]
        /\ RG!KeepAliveOnce(lease[r])
        /\ UNCHANGED <<lease, due, budget, cancelled, failures, losses, kv>> /\ EtcdStep(r)
    BY <1>2, <1>5 DEF RG!Renew, RG!Goto, EtcdStep
  <2>2. ASSUME losses = 0
        PROVE  /\ Margin("renewed", due[r], budget[r], ttl'[lease[r]])
               /\ kv'[r] = lease[r]
    <3>1. Margin("renewing", due[r], budget[r], ttl[lease[r]]) /\ kv[r] = lease[r]
      BY <1>0, <2>1, <2>2 DEF Held
    <3>2. ttl[lease[r]] > 0
      BY <1>0, <1>3, <3>1, Margins
    <3>3. ttl'[lease[r]] = TTL
      BY <1>0, <1>2, <2>1, <3>2 DEF RG!KeepAliveOnce
    <3>4. due[r] \in 0..RG!Interval /\ budget[r] \in 0..CallTimeout
      BY <1>0
    <3>5. Margin("renewed", due[r], budget[r], TTL)
      BY <1>3, <3>4, Margins
    <3>6. kv'[r] = lease[r]
      BY <2>1, <3>1
    <3> QED BY <3>3, <3>5, <3>6
  <2>9. Goes(r, "renewed", lease[r], due[r], budget[r])
    BY <1>0, <1>1, <2>1 DEF Goes
  <2> QED BY <1>0, <1>1, <1>2, <2>1, <2>2, <2>9, OneRegistrar
<1>6. CASE RG!HeartbeatReturns(r)
  <2>1. /\ run[r] = "renewed" /\ run' = [run EXCEPT ![r] = "keepalive"]
        /\ UNCHANGED <<lease, due, budget, cancelled, failures, losses, ttl, kv>> /\ EtcdStep(r)
    BY <1>6 DEF RG!HeartbeatReturns, RG!Goto, EtcdStep, RG!etcdVars
  <2>2. ASSUME losses = 0
        PROVE  /\ Margin("keepalive", due[r], budget[r], ttl'[lease[r]])
               /\ kv'[r] = lease[r]
    <3>1. Margin("renewed", due[r], budget[r], ttl[lease[r]]) /\ kv[r] = lease[r]
      BY <1>0, <2>1, <2>2 DEF Held
    <3>2. due[r] \in 0..RG!Interval /\ budget[r] \in 0..CallTimeout
      BY <1>0
    <3>3. Margin("keepalive", due[r], budget[r], ttl[lease[r]])
      BY <1>3, <3>1, <3>2, Margins
    <3>4. ttl'[lease[r]] = ttl[lease[r]] /\ kv'[r] = lease[r]
      BY <2>1, <3>1
    <3> QED BY <3>3, <3>4
  <2>9. Goes(r, "keepalive", lease[r], due[r], budget[r])
    BY <1>0, <1>1, <2>1 DEF Goes
  <2> QED BY <1>0, <1>1, <1>2, <2>1, <2>2, <2>9, OneRegistrar
<1>7. CASE RG!CancelledInKeepAlive(r) \/ RG!Delete(r)
  <2>1. /\ \E p \in RG!DeregisterCall : run' = [run EXCEPT ![r] = p]
        /\ UNCHANGED <<lease, due, budget, cancelled, failures, losses>> /\ EtcdStep(r)
    BY <1>7 DEF RG!CancelledInKeepAlive, RG!Delete, RG!Goto, EtcdStep, RG!etcdVars
  <2>2. PICK p \in RG!DeregisterCall : run' = [run EXCEPT ![r] = p]
    BY <2>1
  <2>3. /\ p \in LeasePC /\ p \in RG!RegistrarPC /\ p \notin LeasePC \ RG!DeregisterCall
        /\ p \notin RG!HeartbeatCall \cup {"keepalive", "responding"}
    <3>1. p = "deleting" \/ p = "revoking"
      BY <2>2
    <3>2. p \in LeasePC /\ p \in RG!RegistrarPC
      BY <3>1
    <3>3. p \notin RG!HeartbeatCall \cup {"keepalive", "responding"}
      BY <3>1
    <3>4. p \notin LeasePC \ RG!DeregisterCall
      BY <2>2
    <3> QED BY <3>2, <3>3, <3>4
  <2>9. Goes(r, p, lease[r], due[r], budget[r])
    BY <1>0, <1>1, <2>1, <2>2 DEF Goes
  <2> QED BY <1>0, <1>1, <1>2, <2>1, <2>2, <2>3, <2>9, OneRegistrar
<1> QED BY <1>4, <1>5, <1>6, <1>7

(* A tick takes one from a lease, and one from what its registrar still    *)
(* waits for.                                                              *)
LEMMA TickStep ==
  ASSUME LeaseInv, RG!Tick
  PROVE  LeaseInv'
<1>0. RG!TypeOK
  BY DEF LeaseInv
<1>1. UNCHANGED <<run, lease, cancelled, failures, losses>>
  BY DEF RG!Tick
<1>2. RG!TypeOK'
  <2>1. \A n \in Nat : RG!Countdown(n) \in 0..n
    BY DEF RG!Countdown
  <2>2. /\ due' \in [Registrars -> 0..RG!Interval]
        /\ budget' \in [Registrars -> 0..CallTimeout]
        /\ ttl' \in [Leases -> 0..TTL]
    BY <1>0, Timing DEF RG!Tick, RG!TypeOK, RG!Countdown
  <2>3. kv' \in [Registrars -> Leases \cup {NoLease}]
    BY <1>0 DEF RG!Tick, RG!TypeOK
  <2> QED BY <1>0, <1>1, <2>2, <2>3 DEF RG!TypeOK
<1>3. ASSUME losses = 0, NEW r \in Registrars PROVE Held(r)'
  <2>0. Held(r) /\ (run[r] \in LeasePC <=> lease[r] \in Leases) /\ ~RG!Overdue(r)
    BY <1>3 DEF LeaseInv, RG!Tick
  <2>1. /\ due[r] \in Nat /\ budget[r] \in Nat
        /\ due'[r] = RG!Countdown(due[r]) /\ budget'[r] = RG!Countdown(budget[r])
    BY <1>0, Timing DEF RG!TypeOK, RG!Tick
  <2>2. lease[r] \in Leases =>
          ttl[lease[r]] \in Nat /\ ttl'[lease[r]] = RG!Countdown(ttl[lease[r]])
    BY <1>0, Timing DEF RG!TypeOK, RG!Tick
  <2>3. CASE run[r] \in LeasePC \ RG!DeregisterCall
    <3>1. /\ lease[r] \in Leases
          /\ run[r] \in {"putting", "responding", "renewing", "renewed", "keepalive"}
          /\ Margin(run[r], due[r], budget[r], ttl[lease[r]])
      BY <2>0, <2>3 DEF Held, LeasePC, RG!RegistrarPC, RG!RegisterCall, RG!HeartbeatCall,
                        RG!DeregisterCall
    <3>2. run[r] = "keepalive" => due[r] > 0
      BY <2>0, <2>1 DEF RG!Overdue
    <3>3. run[r] \in {"putting", "responding", "renewing", "renewed"} => budget[r] > 0
      BY <2>0, <2>1 DEF RG!Overdue, RG!RegisterCall, RG!HeartbeatCall
    <3>4. PICK t \in Nat : t = ttl[lease[r]]
      BY <2>2, <3>1
    <3>5. PICK d \in Nat, b \in Nat : d = due[r] /\ b = budget[r]
      BY <2>1
    <3>6. t > 1
      <4>1. CASE run[r] = "keepalive"
        BY <3>1, <3>2, <3>4, <3>5, <4>1, Timing DEF Margin
      <4>2. CASE run[r] = "renewing"
        BY <3>1, <3>3, <3>4, <3>5, <4>2, Timing DEF Margin
      <4>3. CASE run[r] \in {"putting", "responding", "renewed"}
        <5>1. t + CallTimeout >= TTL + b /\ b > 0
          BY <3>1, <3>3, <3>4, <3>5, <4>3 DEF Margin
        <5> QED BY <3>4, <3>5, <5>1, Timing
      <4> QED BY <3>1, <4>1, <4>2, <4>3
    <3>7. ttl'[lease[r]] = t - 1
      BY <2>2, <3>1, <3>4, <3>6 DEF RG!Countdown
    <3>8. Margin(run[r], due'[r], budget'[r], t - 1)
      <4>1. CASE run[r] = "keepalive"
        <5>1. due'[r] = d - 1 /\ d > 0
          BY <2>1, <3>2, <3>5, <4>1 DEF RG!Countdown
        <5>2. t > d + CallTimeout
          BY <3>1, <3>4, <3>5, <4>1 DEF Margin
        <5> QED BY <3>4, <3>5, <4>1, <5>1, <5>2, Timing DEF Margin
      <4>2. CASE run[r] # "keepalive"
        <5>1. budget'[r] = b - 1 /\ b > 0
          BY <2>1, <3>1, <3>3, <3>5, <4>2 DEF RG!Countdown
        <5>2. /\ run[r] \in {"putting", "responding", "renewed"} => t + CallTimeout >= TTL + b
              /\ run[r] = "renewing" => t > b
          BY <3>1, <3>4, <3>5 DEF Margin
        <5> QED BY <3>4, <3>5, <4>2, <5>1, <5>2, Timing DEF Margin
      <4> QED BY <4>1, <4>2
    <3>9. kv[r] = lease[r] => kv'[r] = lease[r]
      BY <1>0, <3>1, <3>4, <3>6 DEF RG!Tick, RG!TypeOK
    <3> QED BY <1>1, <2>0, <3>7, <3>8, <3>9 DEF Held
  <2>4. CASE run[r] \notin LeasePC \ RG!DeregisterCall
    BY <1>1, <2>4 DEF Held, LeasePC, RG!RegistrarPC, RG!RegisterCall, RG!HeartbeatCall,
                      RG!DeregisterCall
  <2> QED BY <2>3, <2>4
<1> QED BY <1>1, <1>2, <1>3 DEF LeaseInv

(* etcd loses its data. *)
LEMMA LossStep ==
  ASSUME LeaseInv, RG!EtcdDataLoss
  PROVE  LeaseInv'
<1>1. /\ UNCHANGED <<run, lease, due, budget, cancelled, failures>>
      /\ losses' = losses + 1 /\ losses < MaxLosses
      /\ RG!EndLeases(Leases)
  BY DEF RG!EtcdDataLoss, RG!registrarVars
<1>2. losses \in 0..MaxLosses
  BY DEF LeaseInv, RG!TypeOK
<1>3. losses' \in 0..MaxLosses /\ losses' # 0
  BY <1>1, <1>2, Timing
<1>4. ttl' \in [Leases -> 0..TTL] /\ kv' \in [Registrars -> Leases \cup {NoLease}]
  BY <1>1, Timing DEF RG!EndLeases, LeaseInv, RG!TypeOK
<1>5. RG!TypeOK'
  BY <1>1, <1>3, <1>4 DEF LeaseInv, RG!TypeOK
<1> QED BY <1>1, <1>3, <1>5 DEF LeaseInv

(* Every step keeps the invariant. *)
LEMMA LeaseNext == LeaseInv /\ [RG!Next]_(RG!vars) => LeaseInv'
<1> SUFFICES ASSUME LeaseInv, [RG!Next]_(RG!vars) PROVE LeaseInv'
  OBVIOUS
<1>1. CASE UNCHANGED RG!vars
  BY <1>1 DEF RG!vars, RG!registrarVars, RG!etcdVars, LeaseInv, RG!TypeOK, Held
<1>2. ASSUME NEW r \in Registrars, RG!Cancel(r) PROVE LeaseInv'
  BY <1>2 DEF RG!Cancel, RG!registrarVars, RG!etcdVars, LeaseInv, RG!TypeOK, Held
<1>3. RG!Next =>
        \/ RG!Tick \/ RG!EtcdDataLoss
        \/ \E r \in Registrars :
             \/ RG!Cancel(r)
             \/ RG!PutRefused(r) \/ RG!CancelledElsewhere(r) \/ RG!Revoke(r)
             \/ RG!CallFails(r) \/ RG!ProcessEnds(r)
        \/ \E r \in Registrars :
             RG!Retry(r) \/ RG!GrantWorks(r) \/ RG!PutWorks(r) \/ RG!RegisterReturns(r)
        \/ \E r \in Registrars :
             \/ RG!TickerFires(r) \/ RG!Renew(r) \/ RG!HeartbeatReturns(r)
             \/ RG!CancelledInKeepAlive(r) \/ RG!Delete(r)
  BY DEF RG!Next, RG!RunStep
<1> QED BY <1>1, <1>2, <1>3, TickStep, LossStep, LeavingSteps, RegisterSteps, RenewSteps

(* The invariant holds before anybody has registered. *)
LEMMA LeaseInit == RG!Init => LeaseInv
<1> SUFFICES ASSUME RG!Init PROVE LeaseInv
  OBVIOUS
<1>1. RG!TypeOK
  BY Timing DEF RG!Init, RG!TypeOK, RG!RegistrarPC, RG!RegisterCall
<1>2. \A r \in Registrars : run[r] \notin LeasePC /\ lease[r] \notin Leases /\ Held(r)
  BY Timing DEF RG!Init, LeasePC, Held, RG!HeartbeatCall
<1> QED BY <1>1, <1>2 DEF LeaseInv

(* A registrar in keepAlive has its key in etcd, attached to the very      *)
(* lease it renews, and that lease is alive: no two successive heartbeats  *)
(* are so far apart that it ends, and no other registrar, no late or       *)
(* half-done call takes it away, as long as etcd keeps its data.           *)
THEOREM KeepAliveRegistered == RG!Spec => [](RG!TypeOK /\ KeepAliveMeansRegistered)
<1>1. LeaseInv => RG!TypeOK /\ KeepAliveMeansRegistered
  <2> SUFFICES ASSUME LeaseInv, losses = 0, NEW r \in Registrars,
                      run[r] \in RG!HeartbeatCall \cup {"keepalive"}
               PROVE  kv[r] = lease[r] /\ RG!Alive(lease[r])
    BY DEF KeepAliveMeansRegistered, RG!KeepAliveMeansRegistered, LeaseInv
  <2>1. run[r] \in LeasePC \ RG!DeregisterCall /\ run[r] \in {"renewing", "renewed", "keepalive"}
    BY DEF LeasePC, RG!RegistrarPC, RG!HeartbeatCall, RG!DeregisterCall
  <2>2. /\ lease[r] \in Leases /\ kv[r] = lease[r]
        /\ Margin(run[r], due[r], budget[r], ttl[lease[r]])
    BY <2>1 DEF LeaseInv, Held
  <2>3. ttl[lease[r]] \in Nat /\ due[r] \in 0..RG!Interval /\ budget[r] \in 0..CallTimeout
    BY <2>2, Timing DEF LeaseInv, RG!TypeOK
  <2>4. ttl[lease[r]] > 0
    BY <2>1, <2>2, <2>3, Margins
  <2> QED BY <2>2, <2>4 DEF RG!Alive
<1> QED BY LeaseInit, LeaseNext, <1>1, PTL DEF RG!Spec

-----------------------------------------------------------------------------
(* MCProcesses: a behaviour is one of each part. *)
LEMMA PartsRun == FairSpec => Spec /\ RL!Spec /\ MT!Spec /\ RG!Spec
<1>1. MCInit => Init /\ RL!Init /\ MT!Init /\ RG!Init
  BY DEF MCInit
<1>2. [MCNext]_allVars => /\ [Next]_vars /\ [RL!Next]_(RL!vars) /\ [MT!Next]_(MT!vars)
                          /\ [RG!Next]_(RG!vars)
  BY DEF MCNext, Sidecar, ControlPlane, Relaying, Securing, Registering, allVars, rlVars, mtVars,
         rgVars, RL!vars, MT!vars, RG!vars, RG!registrarVars, RG!etcdVars
<1> QED BY <1>1, <1>2, PTL DEF FairSpec, Spec, RL!Spec, MT!Spec, RG!Spec

(* The safety properties of the processes, their connections and their     *)
(* registrations hold in every behaviour that is explored.                 *)
THEOREM ProcessesSafe ==
  FairSpec => [](/\ GracefulExit /\ ReadyMeansListening
                 /\ CleanEndIsComplete /\ TalksToService /\ KeepAliveMeansRegistered)
  BY PartsRun, DrainsFirst, ReadyListens, CompleteEnds, CallsReachTheirService,
     KeepAliveRegistered, PTL
=============================================================================
