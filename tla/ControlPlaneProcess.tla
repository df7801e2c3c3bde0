------------------------- MODULE ControlPlaneProcess -------------------------
(***************************************************************************)
(* main of cmd/control-plane: the registry's HTTP server and the gRPC      *)
(* server of the control streams, and how the process ends.                *)
(*                                                                         *)
(* Of net/http this uses: ListenAndServe returns as soon as Shutdown is    *)
(* called, while Shutdown itself waits for the requests in flight.  Of     *)
(* grpc.Server: GracefulStop waits for the streams, Stop cuts them off.    *)
(***************************************************************************)
EXTENDS Integers

CONSTANTS MaxRequests, MaxStreams   \* bounds on what is in flight

Running == -1

VARIABLES stage,      \* where main is
          exit,       \* the exit code, or Running
          ctx,        \* the context of the process
          http,       \* the registry's server
          requests,   \* its requests in flight
          grpc,       \* the server of the control streams
          streams,    \* connected sidecars
          shutdown    \* the goroutine that waits for the context

vars == <<stage, exit, ctx, http, requests, grpc, streams, shutdown>>

Init ==
  /\ stage = "binding"
  /\ exit = Running
  /\ ctx = "alive"
  /\ http = "new"
  /\ requests = 0
  /\ grpc = "new"
  /\ streams = 0
  /\ shutdown = "off"

-----------------------------------------------------------------------------

Exit(code) ==
  /\ exit' = code
  /\ UNCHANGED <<stage, ctx, http, requests, grpc, streams, shutdown>>

(* net.Listen for the control streams; the two goroutines are started. *)
Bind ==
  /\ stage = "binding"
  /\ \/ Exit(1)
     \/ /\ grpc' = "serving"
        /\ shutdown' = "waiting"
        /\ stage' = "serving"
        /\ UNCHANGED <<exit, ctx, http, requests, streams>>

ListenAndServe ==
  /\ stage = "serving"
  /\ http = "new"
  /\ http' = "serving"
  /\ UNCHANGED <<stage, exit, ctx, requests, grpc, streams, shutdown>>

(* The port is taken, or Accept fails. *)
ListenAndServeFails ==
  /\ stage = "serving"
  /\ http \in {"new", "serving"}
  /\ Exit(IF ctx = "alive" THEN 1 ELSE 0)

(* ListenAndServe returns ErrServerClosed, and main returns. *)
MainReturns ==
  /\ stage = "serving"
  /\ http = "closed"
  /\ Exit(0)

Signal ==
  /\ ctx = "alive"
  /\ ctx' = "cancelled"
  /\ UNCHANGED <<stage, exit, http, requests, grpc, streams, shutdown>>

(* grpcServer.Serve fails: its goroutine cancels the context, unless it is *)
(* cancelled already.                                                      *)
GrpcServeFails ==
  /\ grpc = "serving"
  /\ grpc' = "failed"
  /\ ctx' = "cancelled"
  /\ UNCHANGED <<stage, exit, http, requests, streams, shutdown>>

-----------------------------------------------------------------------------
(* The shutdown goroutine. *)

(* srv.Shutdown closes the listener. *)
ContextDone ==
  /\ shutdown = "waiting"
  /\ ctx = "cancelled"
  /\ http' = "closed"
  /\ shutdown' = "requests"
  /\ UNCHANGED <<stage, exit, ctx, requests, grpc, streams>>

(* Shutdown has waited for the requests, or for five seconds. *)
ShutdownReturns ==
  /\ shutdown = "requests"
  /\ grpc' = "draining"
  /\ shutdown' = "streams"
  /\ UNCHANGED <<stage, exit, ctx, http, requests, streams>>

(* GracefulStop returns, or a second has passed and Stop cuts the streams. *)
DrainEnds ==
  /\ shutdown = "streams"
  /\ streams' = 0
  /\ grpc' = "stopped"
  /\ shutdown' = "done"
  /\ UNCHANGED <<stage, exit, ctx, http, requests>>

-----------------------------------------------------------------------------
(* The clients. *)

RequestArrives ==
  /\ http = "serving"
  /\ requests < MaxRequests
  /\ requests' = requests + 1
  /\ UNCHANGED <<stage, exit, ctx, http, grpc, streams, shutdown>>

RequestReturns ==
  /\ requests > 0
  /\ requests' = requests - 1
  /\ UNCHANGED <<stage, exit, ctx, http, grpc, streams, shutdown>>

SidecarConnects ==
  /\ grpc = "serving"
  /\ streams < MaxStreams
  /\ streams' = streams + 1
  /\ UNCHANGED <<stage, exit, ctx, http, requests, grpc, shutdown>>

StreamEnds ==
  /\ streams > 0
  /\ streams' = streams - 1
  /\ UNCHANGED <<stage, exit, ctx, http, requests, grpc, shutdown>>

-----------------------------------------------------------------------------

Main == Bind \/ ListenAndServe \/ MainReturns

Shutdown == ContextDone \/ ShutdownReturns \/ DrainEnds

(* Nothing runs any more when the process has ended. *)
Next ==
  /\ exit = Running
  /\ \/ Main \/ ListenAndServeFails
     \/ Shutdown
     \/ Signal \/ GrpcServeFails
     \/ RequestArrives \/ RequestReturns \/ SidecarConnects \/ StreamEnds

Spec == Init /\ [][Next]_vars

-----------------------------------------------------------------------------
(* Every variable keeps its type. *)
TypeOK ==
  /\ stage \in {"binding", "serving"}
  /\ exit \in {Running, 0, 1}
  /\ ctx \in {"alive", "cancelled"}
  /\ http \in {"new", "serving", "closed"}
  /\ requests \in 0..MaxRequests
  /\ grpc \in {"new", "serving", "draining", "stopped", "failed"}
  /\ streams \in 0..MaxStreams
  /\ shutdown \in {"off", "waiting", "requests", "streams", "done"}

(* A signal or a failed server ends the process. *)
ShutdownEnds == (ctx = "cancelled") ~> (exit # Running)

(* "Give active streams a short drain window, then force them to           *)
(* reconnect" (cmd/control-plane/main.go:53): a control plane that was     *)
(* told to stop, and whose HTTP server was shut down for it, does not      *)
(* return from main with a stream that was neither drained nor stopped.    *)
DrainsBeforeExit == exit = 0 /\ http = "closed" => streams = 0
=============================================================================
