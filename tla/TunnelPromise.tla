---------------------------- MODULE TunnelPromise ----------------------------
(***************************************************************************)
(* What the desktop shell may rely on of a tunnel manager, whichever       *)
(* tunnel it runs: a manager that is asked to start owns one cloudflared   *)
(* process until the start has failed, the tunnel has broken or it has     *)
(* been stopped, and then owns none.  NamedTunnel and QuickTunnel          *)
(* implement it; DesktopShell is built on it.                              *)
(***************************************************************************)
CONSTANT Idle           \* the value of a manager that owns nothing yet
VARIABLE tunnel         \* [state, child]

States == {"stopped", "starting", "up", "failed"}
Children == {"none", "alive", "dead"}
Manager(s, c) == [state |-> s, child |-> c]

\* What a manager may be.
TypeOK == tunnel \in [state : States, child : Children]

Init == tunnel = Idle

Begin == /\ tunnel.state # "starting"
         /\ tunnel.child # "alive"
         /\ tunnel' = Manager("starting", "none")

Spawn == /\ tunnel = Manager("starting", "none")
         /\ tunnel' = Manager("starting", "alive")

Reach == /\ tunnel.state = "starting"
         /\ tunnel.child # "none"
         /\ tunnel' = [tunnel EXCEPT !.state = "up"]

GiveUp == /\ tunnel.state = "starting"
          /\ tunnel' = Manager("failed", "none")

\* Nothing could be started at all, or what was up is so no longer.
Refuse == /\ tunnel.state # "starting"
          /\ tunnel.child # "alive"
          /\ tunnel' = Manager("failed", "none")

Break == /\ tunnel.state = "up"
         /\ tunnel' = Manager("failed", "none")

Stop == /\ tunnel.state # "starting"
        /\ tunnel' = Manager("stopped", "none")

\* A rotation stops and starts under one lock.
Rotate == /\ tunnel.state = "up"
          /\ tunnel' = Manager("starting", "none")

Die == /\ tunnel.child = "alive"
       /\ tunnel' = [tunnel EXCEPT !.child = "dead"]

Next == Begin \/ Spawn \/ Reach \/ GiveUp \/ Refuse \/ Break \/ Stop \/ Rotate \/ Die

Spec == Init /\ [][Next]_tunnel
=============================================================================
