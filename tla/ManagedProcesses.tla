--------------------------- MODULE ManagedProcesses ---------------------------
(***************************************************************************)
(* The process managers of the desktop shell.  In one scene, side by side,  *)
(* the Bridge sidecar, the named tunnel in front of its fixed port and the  *)
(* quick tunnel: the named tunnel's health probes read the identity of     *)
(* whatever answers, the sidecar or a stranger that holds the port or that  *)
(* the public hostname still points to.  In the other, the launch of Codex. *)
(***************************************************************************)
EXTENDS NamedTunnel, QuickTunnel, BridgeProcess, CodexLaunch, SavedSetup

CONSTANT Stranger       \* the identity of a Bridge the shell did not start
ASSUME StrangerAssumption == Instances = (1..MaxLaunches) \cup {Stranger} /\ Unknown = 0

VARIABLE scene \* "access", "codex" or "setup"

vars == <<named, namedProc, rejected, quick, quickProc, bridge, sidecar, portTaken,
          codexVars, setupVars, scene>>

Init == /\ NamedInit /\ QuickInit /\ BridgeInit /\ CodexInit /\ SetupInit
        /\ scene \in {"access", "codex", "setup"}
        /\ scene # "codex" => installed /\ ~portHeld
        /\ scene # "access" => ~portTaken /\ bridge.policy = "Fixed"

\* What answers the local health check, and what the public one may reach.
Local == CASE sidecar # 0 /\ bridge.port = "preferred" -> {sidecar}
           [] portTaken -> {Stranger}
           [] OTHER -> {}
Public == Local \cup {Stranger} \cup ProbeFailures

\* What a call does when nothing outside answers: every wait is under a timeout
\* and every health request under its own.
NamedTimer == LocalFails \/ Launch \/ LaunchFails \/ CheckFails \/ RetryDue \/ Settled
              \/ PublicAnswers(Transient) \/ RefreshAnswers(Transient)
QuickTimer == LaunchQuick \/ StartFails \/ QuickLost
BridgeTimer == BridgeUnhealthy

NamedNext == NamedTimer \/ (\E i \in Local : LocalAnswers(i))
             \/ (\E a \in Public : PublicAnswers(a) \/ RefreshAnswers(a))
             \/ StartNamed \/ StartWithoutToken \/ NoticeExit \/ RefreshNamed
             \/ StopNamed \/ NamedExits \/ TokenRefused
QuickNext == QuickTimer \/ UrlPrinted \/ HealthAnswers \/ QuickAnswers
             \/ StartQuick \/ RotateQuick \/ QuickNotices \/ RefreshQuick
             \/ StopQuick \/ QuickExits
BridgeNext == BridgeTimer \/ BridgeHealthy \/ StartBridge \/ StartBridgeFails \/ StopBridge \/ Rebuild
              \/ SidecarExits \/ PortMoves

Access == /\ scene = "access"
          /\ \/ NamedNext /\ UNCHANGED <<quickVars, bridgeVars>>
             \/ QuickNext /\ UNCHANGED <<namedVars, bridgeVars>>
             \/ BridgeNext /\ UNCHANGED <<namedVars, quickVars>>

Next == \/ Access /\ UNCHANGED <<codexVars, setupVars, scene>>
        \/ /\ scene = "codex" /\ CodexNext
           /\ UNCHANGED <<namedVars, quickVars, bridgeVars, setupVars, scene>>
        \/ /\ scene = "setup" /\ SetupNext
           /\ UNCHANGED <<namedVars, quickVars, bridgeVars, codexVars, scene>>

\* The shell's runtime keeps running; nothing is assumed of what it waits for.
Spec == /\ Init /\ [][Next]_vars
        /\ WF_vars(NamedTimer /\ UNCHANGED <<quickVars, bridgeVars, codexVars, setupVars, scene>>)
        /\ WF_vars(QuickTimer /\ UNCHANGED <<namedVars, bridgeVars, codexVars, setupVars, scene>>)
        /\ WF_vars(BridgeTimer /\ UNCHANGED <<namedVars, quickVars, codexVars, setupVars, scene>>)
        /\ \A c \in CodexCalls :
             WF_vars(scene = "codex" /\ EnsureStep(c) /\
                    UNCHANGED <<namedVars, quickVars, bridgeVars, setupVars, scene>>)

\* A named tunnel that counts as up has a process, remembers the identity its
\* start verified and, when Ready, was last answered by that very instance
\* (NamedTunnelManager::start and refresh_runtime_health).
VerifiedUp ==
  named.call = "idle" /\ IsUp =>
    /\ named.child = "held"
    /\ named.ident \in Instances
    /\ named.status = "Ready" => named.seen = named.ident

\* No start, rotation or refresh keeps its manager locked for ever, and every call of
\* ensure_codex_ready returns (every wait of the managers is under a timeout).
CallsEnd == /\ named.call # "idle" ~> named.call = "idle"
            /\ quick.call # "idle" ~> quick.call = "idle"
            /\ bridge.call # "idle" ~> bridge.call = "idle"
            /\ \A c \in CodexCalls : ensure[c].pc # "idle" ~> ensure[c].pc = "idle"

\* Both managers keep what the shell relies on (fail_start, fail_runtime,
\* mark_child_exited, stop: every way out of "up" or "starting" gives up the
\* process).
NoTunnel == [state |-> "stopped", child |-> "none"]
NamedPromise == INSTANCE TunnelPromise WITH
  Idle <- NoTunnel, tunnel <- [state |-> NamedPhase, child |-> NamedChild]
QuickPromise == INSTANCE TunnelPromise WITH
  Idle <- NoTunnel, tunnel <- [state |-> QuickPhase, child |-> QuickChild]
NamedKeepsPromise == NamedPromise!Spec
QuickKeepsPromise == QuickPromise!Spec
=============================================================================
