---------------------------- MODULE BridgeProcess ----------------------------
(***************************************************************************)
(* BridgeProcessManager (crates/desktop-core/src/bridge_process.rs): the   *)
(* sidecar the shell launches on a fixed or a flexible port.  Every launch *)
(* has an instance id of its own, which the sidecar's health reports, and  *)
(* a control token of its own.                                             *)
(***************************************************************************)
EXTENDS Naturals

CONSTANT MaxLaunches    \* bound on the instances of a behaviour
ASSUME BridgeProcessAssumption == MaxLaunches \in Nat

VARIABLES bridge,       \* the manager
          sidecar,      \* its process: the instance that runs, or 0
          portTaken     \* another program listens on the preferred port

bridgeVars == <<bridge, sidecar, portTaken>>

Policies == {"Fixed", "Flexible"}
\* plan is the instance of the last launch plan (0 for none), port where it is.
BridgeType == [status : {"Stopped", "Starting", "Ready", "Degraded", "Failed"},
               policy : Policies, plan : 0..MaxLaunches, port : {"none", "preferred", "other"},
               child : BOOLEAN, call : {"idle", "health"}]

\* What the manager and the port may hold.
BridgeTypeOK == /\ bridge \in BridgeType
                /\ sidecar \in 0..MaxLaunches
                /\ portTaken \in BOOLEAN

BridgeInit == /\ bridge \in [status : {"Stopped"}, policy : Policies, plan : {0},
                             port : {"none"}, child : {FALSE}, call : {"idle"}]
              /\ sidecar = 0
              /\ portTaken \in BOOLEAN

BridgeRuns == bridge.child /\ sidecar # 0

\* choose_port: a fixed policy takes the preferred port or fails, a flexible one
\* falls back on whatever the system gives.
Port == IF ~portTaken THEN "preferred" ELSE "other"
PortChosen == bridge.policy = "Flexible" \/ ~portTaken

\* prepare_launch_plan may fail before anything changes but the control token;
\* then the log files and the process may, which leaves "Starting".
StartBridge ==
  /\ bridge.call = "idle" /\ ~BridgeRuns /\ bridge.plan < MaxLaunches
  /\ PortChosen
  /\ \/ /\ bridge' = [bridge EXCEPT !.status = "Starting", !.plan = @ + 1, !.port = Port,
                                    !.child = FALSE, !.call = "health"]
        /\ sidecar' = bridge.plan + 1
     \/ /\ bridge' = [bridge EXCEPT !.status = "Starting", !.plan = @ + 1, !.port = Port,
                                    !.child = FALSE]
        /\ sidecar' = 0
  /\ UNCHANGED portTaken

StartBridgeFails ==
  /\ bridge.call = "idle" /\ ~BridgeRuns
  /\ bridge' = [bridge EXCEPT !.child = FALSE]
  /\ UNCHANGED <<sidecar, portTaken>>

\* wait_for_health: Ready or Degraded by what the health says; an exit or the
\* timeout kills and reports failure.
BridgeHealthy ==
  /\ bridge.call = "health" /\ sidecar # 0
  /\ \E s \in {"Ready", "Degraded"} :
       bridge' = [bridge EXCEPT !.status = s, !.child = TRUE, !.call = "idle"]
  /\ UNCHANGED <<sidecar, portTaken>>

BridgeUnhealthy ==
  /\ bridge.call = "health"
  /\ bridge' = [bridge EXCEPT !.status = "Failed", !.call = "idle"]
  /\ sidecar' = 0
  /\ UNCHANGED portTaken

\* stop and terminate_now: the plan stays.
StopBridge ==
  /\ bridge.call = "idle"
  /\ bridge' = [bridge EXCEPT !.status = "Stopped", !.child = FALSE]
  /\ sidecar' = 0
  /\ UNCHANGED portTaken

\* The shell makes a new manager when it needs the other port policy.
Rebuild ==
  /\ bridge.call = "idle" /\ ~bridge.child
  /\ \E p \in Policies \ {bridge.policy} :
       bridge' = [bridge EXCEPT !.status = "Stopped", !.policy = p, !.port = "none"]
  /\ UNCHANGED <<sidecar, portTaken>>

\* status() never looks at the process: its end goes unnoticed here.
SidecarExits == /\ sidecar # 0
                /\ sidecar' = 0
                /\ UNCHANGED <<bridge, portTaken>>

PortMoves == /\ portTaken' = ~portTaken
             /\ sidecar = 0 \/ bridge.port = "other"
             /\ UNCHANGED <<bridge, sidecar>>
=============================================================================
