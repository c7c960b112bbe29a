----------------------------- MODULE QuickTunnel -----------------------------
(***************************************************************************)
(* QuickTunnelManager (crates/desktop-core/src/tunnel.rs): a cloudflared   *)
(* process that is given a temporary address, which it prints, which must  *)
(* answer the health check once before the tunnel counts, which may be     *)
(* lost for a while and which a rotation replaces.                         *)
(***************************************************************************)
EXTENDS Naturals

CONSTANT HealthFailures \* TUNNEL_HEALTH_FAILURES_BEFORE_ROTATE
ASSUME QuickTunnelAssumption == HealthFailures \in Nat \ {0}

VARIABLES quick,        \* the manager; call is where the call in progress stands
          quickProc     \* its cloudflared process

quickVars == <<quick, quickProc>>

QuickType == [status : {"Stopped", "Starting", "Ready", "Reconnecting", "Failed"},
              session : BOOLEAN, child : {"none", "frame", "held"},
              failures : 0..HealthFailures, call : {"idle", "launch", "url", "health", "refresh"}]

\* What the manager and its cloudflared may be.
QuickTypeOK == quick \in QuickType /\ quickProc \in {"none", "running", "exited"}

QuickInit == /\ quick = [status |-> "Stopped", session |-> FALSE, child |-> "none",
                         failures |-> 0, call |-> "idle"]
             /\ quickProc = "none"

QuickRunning == quick.child = "held" /\ quickProc = "running"
QuickGone == quick.child = "held" /\ quickProc = "exited"

\* Mutant of QuickWithout: the session ends and the child is left running.
QuickWithoutKill(status) ==
  /\ quick' = [quick EXCEPT !.status = status, !.session = FALSE, !.failures = 0,
                            !.call = "idle"]
  /\ UNCHANGED quickProc

QuickWithout(status) ==
  /\ quick' = [status |-> status, session |-> FALSE, child |-> "none",
               failures |-> 0, call |-> "idle"]
  /\ quickProc' = "none"

Restart == /\ quick' = [status |-> "Starting", session |-> FALSE, child |-> "none",
                        failures |-> 0, call |-> "launch"]
           /\ quickProc' = "none"

StartQuick == quick.call = "idle" /\ ~QuickRunning /\ Restart

\* rotate: only of a session, with the lock held from the stop to the end.
RotateQuick == quick.call = "idle" /\ quick.session /\ Restart

LaunchQuick ==
  /\ quick.call = "launch"
  /\ \/ /\ quick' = [quick EXCEPT !.child = "frame", !.call = "url"]
        /\ quickProc' = "running"
     \/ QuickWithout("Failed")

\* wait_for_public_url: the address comes, or the process exits, its output
\* fails or the startup timeout passes.
UrlPrinted == /\ quick.call = "url"
              /\ quick' = [quick EXCEPT !.call = "health"]
              /\ UNCHANGED quickProc

\* wait_for_public_health: polled until it answers; no look at the process
\* comes between the answer and Ready.
HealthAnswers == /\ quick.call = "health"
                 /\ quick' = [quick EXCEPT !.status = "Ready", !.session = TRUE,
                                           !.child = "held", !.call = "idle"]
                 /\ UNCHANGED quickProc

\* Mutant of StartFails: the wait for the health check has no deadline.
UrlFails == quick.call = "url" /\ QuickWithout("Failed")

StartFails == quick.call \in {"url", "health"} /\ QuickWithout("Failed")

\* status() and the first thing refresh_status does.
QuickNotices == quick.call = "idle" /\ QuickGone /\ QuickWithout("Failed")

RefreshQuick == /\ quick.call = "idle" /\ QuickRunning
                /\ quick.status \in {"Ready", "Reconnecting"} /\ quick.session
                /\ quick' = [quick EXCEPT !.call = "refresh"]
                /\ UNCHANGED quickProc

More(n) == IF n < HealthFailures THEN n + 1 ELSE n

\* The answer, or the error the client's timeout gives at the latest.
QuickAnswers ==
  /\ quick.call = "refresh"
  /\ quick' = [quick EXCEPT !.status = "Ready", !.failures = 0, !.call = "idle"]
  /\ UNCHANGED quickProc

QuickLost ==
  /\ quick.call = "refresh"
  /\ quick' = [quick EXCEPT !.status = "Reconnecting", !.failures = More(@), !.call = "idle"]
  /\ UNCHANGED quickProc

\* stop and terminate_now.
StopQuick == quick.call = "idle" /\ QuickWithout("Stopped")

QuickExits == /\ quickProc = "running"
              /\ quickProc' = "exited"
              /\ UNCHANGED quick

\* What the shell sees of it.
QuickPhase == CASE quick.call \notin {"idle", "refresh"} -> "starting"
                [] quick.session -> "up"
                [] quick.status = "Failed" -> "failed"
                [] OTHER -> "stopped"
QuickChild == CASE quick.child = "none" -> "none"
                [] quickProc = "running" -> "alive"
                [] OTHER -> "dead"
=============================================================================
