-------------------------- MODULE ControlStreamLoss --------------------------
(***************************************************************************)
(* ControlStream with an etcd that may lose its data: its volume is an     *)
(* emptyDir, so a Pod that is rebuilt starts again with an empty key space *)
(* and at the first revision.  The sidecars and their caches live on.      *)
(***************************************************************************)
EXTENDS ControlStream

CONSTANT MaxLosses   \* bound on losses of etcd's data

VARIABLE losses

(* A watch at the old etcd ends; a request on its way fails (HandlerFails) *)
(* or is answered by the new one.                                          *)
EtcdDataLoss ==
  /\ losses < MaxLosses
  /\ losses' = losses + 1
  /\ history' = << {} >>
  /\ handler' = [s \in Sidecars |-> IF handler[s].pc = "watching"
                                    THEN HandlerAt("ended") ELSE handler[s]]
  /\ UNCHANGED <<path, cache, client, wire, breaks>>

LossInit == Init /\ losses = 0

LossNext == EtcdDataLoss \/ (Next /\ UNCHANGED losses)

LossVars == <<vars, losses>>

LossFairSpec ==
  /\ LossInit
  /\ [][LossNext]_LossVars
  /\ \A s \in Sidecars : /\ WF_LossVars((Handle(s) \/ Run(s)) /\ UNCHANGED losses)
                         /\ WF_LossVars(RunClient(s) /\ UNCHANGED losses)

-----------------------------------------------------------------------------
(* "A new stream recovers the latest state of the control plane after its  *)
(* full snapshot" (docs/Stage-8-Control-Stream.md:17), also when etcd has  *)
(* come back empty: a cache that the control stream feeds becomes and      *)
(* stays equal to the registry once writes and failures have stopped.      *)
CachesRecover ==
  <>[](\A s \in Sidecars : path[s] = "stream" => cache[s].endpoints = history[revision])
=============================================================================
