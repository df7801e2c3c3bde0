---------------------------- MODULE SidecarProcess ----------------------------
(***************************************************************************)
(* main of cmd/sidecar: what the process starts, in which order, what ends *)
(* it, and what of it ends what else.  Main goes through its stages while  *)
(* the goroutines it has started run; they share the context, which a      *)
(* signal or any failed server cancels.  A goroutine that waits for the    *)
(* context closes the proxy down while main is still in Serve.             *)
(*                                                                         *)
(* Of grpc.Server this uses: GracefulStop refuses new calls and returns    *)
(* when the accepted ones have returned; Serve returns no earlier than     *)
(* that, and at once when the server was stopped before.                   *)
(***************************************************************************)
EXTENDS Integers

CONSTANT MaxCalls   \* bound on concurrent calls

(* What the flags may ask for. *)
Options == {"registration", "transparent", "mtls", "metrics", "pool"}

(* The servers beside the proxy, each in a goroutine of its own. *)
Servers == {"transparent", "mtls", "metrics"}

(* The flags of /readyz. *)
Flags == {"control", "registration"}

Running == -1

VARIABLES config,     \* the options in use
          stage,      \* where main is
          exit,       \* the exit code, or Running
          ctx,        \* the context of the process
          ready,      \* the flags of /readyz that are set
          registrar,  \* the goroutine of registration.Run
          server,     \* Servers -> its goroutine
          bound,      \* the listener of the proxy
          grpc,       \* the proxy's grpc.Server
          calls,      \* accepted calls that have not returned
          pool,       \* the upstream connection pool
          shutdown    \* the goroutine that waits for the context

vars == <<config, stage, exit, ctx, ready, registrar, server, bound, grpc, calls,
          pool, shutdown>>

Init ==
  /\ config \in SUBSET Options
  /\ stage = "tracing"
  /\ exit = Running
  /\ ctx = "alive"
  /\ ready = {}
  /\ registrar = "off"
  /\ server = [k \in Servers |-> "off"]
  /\ bound = FALSE
  /\ grpc = "new"
  /\ calls = 0
  /\ pool = "none"
  /\ shutdown = "off"

-----------------------------------------------------------------------------
(* The stages of main. *)

Exit(code) ==
  /\ exit' = code
  /\ UNCHANGED <<config, stage, ctx, ready, registrar, server, bound, grpc, calls,
                 pool, shutdown>>

InitTracer ==
  /\ stage = "tracing"
  /\ \/ Exit(2)
     \/ /\ stage' = "starting"
        /\ UNCHANGED <<config, exit, ctx, ready, registrar, server, bound, grpc,
                       calls, pool, shutdown>>

(* Mutated form: the metrics server is started with the clients. *)
StartClientsAndMetrics ==
  /\ stage = "starting"
  /\ registrar' = IF "registration" \in config THEN "running" ELSE "off"
  /\ server' = [server EXCEPT !["metrics"] = IF "metrics" \in config
                                             THEN "serving" ELSE "off"]
  /\ stage' = "listening"
  /\ UNCHANGED <<config, exit, ctx, ready, bound, grpc, calls, pool, shutdown>>

(* The registrar and the control stream are started before anything is     *)
(* listened to.                                                            *)
StartClients ==
  /\ stage = "starting"
  /\ registrar' = IF "registration" \in config THEN "running" ELSE "off"
  /\ stage' = "listening"
  /\ UNCHANGED <<config, exit, ctx, ready, server, bound, grpc, calls, pool, shutdown>>

Listen ==
  /\ stage = "listening"
  /\ \/ Exit(1)
     \/ /\ bound' = TRUE
        /\ stage' = "transparent"
        /\ UNCHANGED <<config, exit, ctx, ready, registrar, server, grpc, calls,
                       pool, shutdown>>

(* Go on to the next stage, with server k running if it is in use. *)
StartServer(k, next) ==
  /\ server' = [server EXCEPT ![k] = IF k \in config THEN "serving" ELSE "off"]
  /\ stage' = next
  /\ UNCHANGED <<config, exit, ctx, ready, registrar, bound, grpc, calls, pool, shutdown>>

StartTransparent ==
  /\ stage = "transparent"
  /\ \/ "transparent" \in config /\ Exit(1)
     \/ StartServer("transparent", "mtls")

(* mTLS needs the pool, a CA bundle and a leaf certificate, and a port. *)
StartMutualTLS ==
  /\ stage = "mtls"
  /\ \/ "mtls" \in config /\ Exit(2)
     \/ {"mtls", "pool"} \subseteq config /\ Exit(1)
     \/ /\ "mtls" \in config => "pool" \in config
        /\ StartServer("mtls", "configuring")

(* NewResolver, the lists of codes, the rules of the rate limiter. *)
Configure ==
  /\ stage = "configuring"
  /\ \/ Exit(2)
     \/ /\ stage' = "metrics"
        /\ UNCHANGED <<config, exit, ctx, ready, registrar, server, bound, grpc,
                       calls, pool, shutdown>>

StartMetrics ==
  /\ stage = "metrics"
  /\ StartServer("metrics", "pooling")

(* NewGRPCConnectionPool, the registration of the proxy, and the start of  *)
(* the shutdown goroutine.                                                 *)
StartPool ==
  /\ stage = "pooling"
  /\ \/ "pool" \in config /\ Exit(2)
     \/ /\ pool' = IF "pool" \in config THEN "open" ELSE "none"
        /\ shutdown' = "waiting"
        /\ stage' = "serving"
        /\ UNCHANGED <<config, exit, ctx, ready, registrar, server, bound, grpc, calls>>

Serve ==
  /\ stage = "serving"
  /\ stage' = "served"
  /\ grpc' = IF grpc = "new" THEN "serving" ELSE grpc
  /\ UNCHANGED <<config, exit, ctx, ready, registrar, server, bound, calls, pool, shutdown>>

(* Serve returns: after GracefulStop main does too. *)
MainReturns ==
  /\ stage = "served"
  /\ grpc = "stopped"
  /\ Exit(0)

(* Serve fails because Accept does, and main does not wait for the calls:  *)
(* with the context alive it exits with 1, otherwise it just returns.      *)
ServeFails ==
  /\ stage = "served"
  /\ grpc = "serving"
  /\ grpc' = "failed"
  /\ exit' = IF ctx = "alive" THEN 1 ELSE 0
  /\ UNCHANGED <<config, stage, ctx, ready, registrar, server, bound, calls, pool,
                 shutdown>>

-----------------------------------------------------------------------------
(* The goroutines. *)

Signal ==
  /\ ctx = "alive"
  /\ ctx' = "cancelled"
  /\ UNCHANGED <<config, stage, exit, ready, registrar, server, bound, grpc, calls,
                 pool, shutdown>>

(* OnSnapshot. *)
SnapshotReceived ==
  /\ stage \notin {"tracing", "starting"}
  /\ ready' = ready \cup {"control"}
  /\ UNCHANGED <<config, stage, exit, ctx, registrar, server, bound, grpc, calls,
                 pool, shutdown>>

(* OnRegistered, at the first registration and at later ones. *)
Registered ==
  /\ registrar = "running"
  /\ ready' = ready \cup {"registration"}
  /\ UNCHANGED <<config, stage, exit, ctx, registrar, server, bound, grpc, calls,
                 pool, shutdown>>

(* registration.Run returns: nil when the context is done, or an error for *)
(* a configuration it cannot use, and then the process is to end.          *)
RegistrarReturns ==
  /\ registrar = "running"
  /\ ctx = "cancelled" \/ "registration" \notin ready
  /\ registrar' = "stopped"
  /\ ctx' = "cancelled"
  /\ UNCHANGED <<config, stage, exit, ready, server, bound, grpc, calls, pool, shutdown>>

(* A server returns an error. *)
ServerFails(k) ==
  /\ server[k] = "serving"
  /\ ctx = "alive"
  /\ server' = [server EXCEPT ![k] = "failed"]
  /\ UNCHANGED <<config, stage, exit, ctx, ready, registrar, bound, grpc, calls,
                 pool, shutdown>>

(* Mutated form: the error of the transparent proxy is only logged. *)
CancelProcessUnlessTransparent(k) ==
  /\ server[k] = "failed"
  /\ server' = [server EXCEPT ![k] = "returned"]
  /\ ctx' = IF k = "transparent" THEN ctx ELSE "cancelled"
  /\ UNCHANGED <<config, stage, exit, ready, registrar, bound, grpc, calls, pool, shutdown>>

(* Its goroutine cancels the context. *)
CancelProcess(k) ==
  /\ server[k] = "failed"
  /\ server' = [server EXCEPT ![k] = "returned"]
  /\ ctx' = "cancelled"
  /\ UNCHANGED <<config, stage, exit, ready, registrar, bound, grpc, calls, pool, shutdown>>

(* The listeners of the two relays are closed with the context. *)
ServerReturns(k) ==
  /\ k # "metrics"
  /\ server[k] = "serving"
  /\ ctx = "cancelled"
  /\ server' = [server EXCEPT ![k] = "returned"]
  /\ UNCHANGED <<config, stage, exit, ctx, ready, registrar, bound, grpc, calls,
                 pool, shutdown>>

CallArrives ==
  /\ grpc = "serving"
  /\ calls < MaxCalls
  /\ calls' = calls + 1
  /\ UNCHANGED <<config, stage, exit, ctx, ready, registrar, server, bound, grpc,
                 pool, shutdown>>

CallReturns ==
  /\ calls > 0
  /\ calls' = calls - 1
  /\ UNCHANGED <<config, stage, exit, ctx, ready, registrar, server, bound, grpc,
                 pool, shutdown>>

-----------------------------------------------------------------------------
(* The shutdown goroutine. *)

ContextDone ==
  /\ shutdown = "waiting"
  /\ ctx = "cancelled"
  /\ shutdown' = "stopping"
  /\ grpc' = "draining"
  /\ UNCHANGED <<config, stage, exit, ctx, ready, registrar, server, bound, calls, pool>>

(* Mutated form: the pool is closed before the calls are drained. *)
ClosePoolFirst ==
  /\ shutdown = "stopping"
  /\ pool = "open"
  /\ pool' = "closed"
  /\ UNCHANGED <<config, stage, exit, ctx, ready, registrar, server, bound, grpc,
                 calls, shutdown>>

GracefulStopReturns ==
  /\ shutdown = "stopping"
  /\ calls = 0
  /\ grpc' = "stopped"
  /\ shutdown' = "closing"
  /\ UNCHANGED <<config, stage, exit, ctx, ready, registrar, server, bound, calls, pool>>

ClosePool ==
  /\ shutdown = "closing"
  /\ pool' = IF pool = "open" THEN "closed" ELSE pool
  /\ shutdown' = "metrics"
  /\ UNCHANGED <<config, stage, exit, ctx, ready, registrar, server, bound, grpc, calls>>

(* metricsServer.Shutdown, within two seconds. *)
StopMetrics ==
  /\ shutdown = "metrics"
  /\ server' = [server EXCEPT !["metrics"] = IF @ = "serving" THEN "returned" ELSE @]
  /\ shutdown' = "done"
  /\ UNCHANGED <<config, stage, exit, ctx, ready, registrar, bound, grpc, calls, pool>>

-----------------------------------------------------------------------------

Main ==
  \/ InitTracer \/ StartClients \/ Listen \/ StartTransparent \/ StartMutualTLS
  \/ Configure \/ StartMetrics \/ StartPool \/ Serve \/ MainReturns

Shutdown == ContextDone \/ GracefulStopReturns \/ ClosePool \/ StopMetrics

(* Nothing runs any more when the process has ended. *)
Next ==
  /\ exit = Running
  /\ \/ Main \/ ServeFails
     \/ Shutdown
     \/ Signal
     \/ SnapshotReceived \/ Registered \/ RegistrarReturns
     \/ CallArrives \/ CallReturns
     \/ \E k \in Servers : ServerFails(k) \/ CancelProcess(k) \/ ServerReturns(k)

Spec == Init /\ [][Next]_vars

-----------------------------------------------------------------------------
(* Every variable keeps its type. *)
TypeOK ==
  /\ config \subseteq Options
  /\ stage \in {"tracing", "starting", "listening", "transparent", "mtls", "configuring",
                "metrics", "pooling", "serving", "served"}
  /\ exit \in {Running, 0, 1, 2}
  /\ ctx \in {"alive", "cancelled"}
  /\ ready \subseteq Flags
  /\ registrar \in {"off", "running", "stopped"}
  /\ server \in [Servers -> {"off", "serving", "failed", "returned"}]
  /\ bound \in BOOLEAN
  /\ grpc \in {"new", "serving", "draining", "stopped", "failed"}
  /\ calls \in Nat
  /\ pool \in {"none", "open", "closed"}
  /\ shutdown \in {"off", "waiting", "stopping", "closing", "metrics", "done"}

(* Calls are drained before what they use goes away: while a call is in    *)
(* flight the pool is not closed and main does not return, unless the      *)
(* proxy's listener itself failed.                                         *)
GracefulExit == pool = "closed" \/ (exit = 0 /\ grpc # "failed") => calls = 0

(* /readyz answers 200: the metrics server serves and the flags are set    *)
(* (the required services are the cache's, and left out).                  *)
Readyz ==
  /\ exit = Running
  /\ server["metrics"] = "serving"
  /\ "control" \in ready
  /\ "registration" \in config => "registration" \in ready

(* A sidecar that reports itself ready takes traffic: unless it is already *)
(* being shut down, every port it was told to listen on is bound and the   *)
(* configuration of the proxy was accepted, although the flags of /readyz  *)
(* are set by goroutines that started before all of that.                  *)
ReadyMeansListening ==
  Readyz /\ ctx = "alive" =>
    /\ bound
    /\ \A k \in {"transparent", "mtls"} \cap config : server[k] # "off"
    /\ stage \in {"pooling", "serving", "served"}

(* A signal, a registrar that gives up or a failed server ends the         *)
(* process, whatever stage main was in when it happened.                   *)
ShutdownEnds ==
  (ctx = "cancelled" \/ \E k \in Servers : server[k] = "failed") ~> (exit # Running)
=============================================================================
