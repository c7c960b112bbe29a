----------------------------- MODULE NamedTunnel -----------------------------
(***************************************************************************)
(* NamedTunnelManager (crates/desktop-core/src/named_tunnel.rs): starting  *)
(* cloudflared for a fixed hostname, verifying that the public hostname    *)
(* reaches the very Bridge instance that answers locally, retrying what    *)
(* may pass, watching the running tunnel, and stopping it.                 *)
(*                                                                         *)
(* The manager is behind a lock that a call holds to its end; "call" is    *)
(* where the call in progress stands, so calls never interleave, but the   *)
(* cloudflared process and the two health endpoints move under them.       *)
(***************************************************************************)
EXTENDS Naturals

CONSTANTS Instances,    \* the identities a health endpoint may report
          Unknown,      \* no identity
          Deterministic, Transient,     \* the two kinds of ProbeFailure
          MaxRetries    \* DEFAULT_MAX_NETWORK_RETRIES

\* A ProbeFailure is deterministic (DNS, 400/401/403/404, an invalid payload) or
\* may pass; DnsNotReady is counted with the refused routes.
ProbeFailures == {Deterministic, Transient}

ASSUME NamedTunnelAssumption ==
  /\ Unknown \notin Instances
  /\ Deterministic # Transient
  /\ ProbeFailures \cap (Instances \cup {Unknown}) = {}
  /\ MaxRetries \in Nat

VARIABLES named,        \* the manager
          namedProc,    \* its cloudflared process
          rejected      \* a line of its output says the token is refused

namedVars == <<named, namedProc, rejected>>

Calls == {"idle", "local", "launch", "probe", "settle", "retry", "refresh"}
NamedStatuses == {"Stopped", "VerifyingLocal", "VerifyingPublic", "Retrying",
                  "Ready", "Degraded", "Failed"}
Kinds == {"none", "TokenMissing", "TokenRejected", "LocalHealthUnavailable",
          "PublicRouteRejected", "WrongBridgeInstance", "NetworkUnavailable",
          "ChildExited", "InvalidConfiguration"}

FailureOf(f) == IF f = Deterministic THEN "PublicRouteRejected" ELSE "NetworkUnavailable"

\* "child" says who owns the process: the start's own frame until it is
\* verified, the manager afterwards.  "local" is the frame's local_identity,
\* "seen" what the last public probe answered.
NamedType == [status : NamedStatuses, attempt : Nat, kind : Kinds,
              child : {"none", "frame", "held"}, ident : Instances \cup {Unknown},
              call : Calls, local : Instances \cup {Unknown},
              seen : Instances \cup {Unknown} \cup ProbeFailures]

\* What the manager and its cloudflared may be.
NamedTypeOK == /\ named \in NamedType
               /\ namedProc \in {"none", "running", "exited"}
               /\ rejected \in BOOLEAN

NamedInit == /\ named = [status |-> "Stopped", attempt |-> 0, kind |-> "none",
                         child |-> "none", ident |-> Unknown, call |-> "idle",
                         local |-> Unknown, seen |-> Unknown]
             /\ namedProc = "none"
             /\ rejected = FALSE

Exited == named.child = "held" /\ namedProc = "exited"
Running == named.child = "held" /\ namedProc = "running"
IsUp == named.status \in {"Ready", "Degraded"}

\* Mutant of Without: the failure is noted and the child left running.
WithoutKill(kind) ==
  /\ named' = [named EXCEPT !.status = "Failed", !.attempt = 0, !.kind = kind,
                            !.ident = Unknown, !.call = "idle", !.local = Unknown,
                            !.seen = Unknown]
  /\ UNCHANGED <<namedProc, rejected>>

\* fail_without_child, and the kill of whatever process there was.
Without(kind) ==
  /\ named' = [named EXCEPT !.status = "Failed", !.attempt = 0, !.kind = kind,
                            !.child = "none", !.ident = Unknown, !.call = "idle",
                            !.local = Unknown, !.seen = Unknown]
  /\ namedProc' = "none"
  /\ rejected' = FALSE

\* start: a dead child is noticed first; a running one is AlreadyRunning.
StartNamed ==
  /\ named.call = "idle" /\ ~Running
  /\ named' = [named EXCEPT !.status = "VerifyingLocal", !.attempt = 0, !.kind = "none",
                            !.child = "none", !.ident = Unknown, !.call = "local"]
  /\ namedProc' = "none"
  /\ rejected' = FALSE

StartWithoutToken == /\ named.call = "idle" /\ ~Running
                     /\ Without("TokenMissing")

LocalAnswers(i) == /\ named.call = "local"
                   /\ named' = [named EXCEPT !.local = i, !.call = "launch"]
                   /\ UNCHANGED <<namedProc, rejected>>

LocalFails == named.call = "local" /\ Without("LocalHealthUnavailable")

\* The token file and the process.
Launch == /\ named.call = "launch"
          /\ named' = [named EXCEPT !.status = "VerifyingPublic", !.child = "frame",
                                    !.call = "probe"]
          /\ namedProc' = "running"
          /\ UNCHANGED rejected

LaunchFails == named.call = "launch" /\ Without("InvalidConfiguration")

\* fail_if_child_exited_or_token_rejected, which surrounds every wait: a
\* refused token is looked at before the exit it causes.
CheckOK == ~rejected /\ namedProc = "running"
CheckFails ==
  /\ named.call \in {"probe", "settle", "retry", "refresh"}
  /\ ~CheckOK
  /\ Without(IF rejected THEN "TokenRejected" ELSE "ChildExited")

\* Mutant of Same: any Bridge will do.
SameKind(answer) == answer \in Instances

Same(answer) == answer = named.local

LastAttempt == named.attempt = MaxRetries

\* The answer of one public probe of a start.
PublicAnswers(answer) ==
  /\ named.call = "probe" /\ CheckOK
  /\ \/ /\ Same(answer)
        /\ named' = [named EXCEPT !.call = "settle", !.seen = answer]
        /\ UNCHANGED <<namedProc, rejected>>
     \/ answer \in Instances /\ ~Same(answer) /\ Without("WrongBridgeInstance")
     \/ answer = Deterministic /\ Without(FailureOf(answer))
     \/ answer = Transient /\ LastAttempt /\ Without(FailureOf(answer))
     \/ /\ answer = Transient /\ ~LastAttempt
        /\ named' = [named EXCEPT !.status = "Retrying", !.attempt = @ + 1,
                                  !.call = "retry", !.seen = answer]
        /\ UNCHANGED <<namedProc, rejected>>

RetryDue == /\ named.call = "retry" /\ CheckOK
            /\ named' = [named EXCEPT !.status = "VerifyingPublic", !.call = "probe"]
            /\ UNCHANGED <<namedProc, rejected>>

\* The authentication settle window has passed: the manager takes the child.
Settled == /\ named.call = "settle" /\ CheckOK
           /\ named' = [named EXCEPT !.status = "Ready", !.attempt = 0, !.child = "held",
                                     !.ident = named.local, !.call = "idle"]
           /\ UNCHANGED <<namedProc, rejected>>

\* status(), and the first check of refresh_runtime_health.
NoticeExit == named.call = "idle" /\ Exited /\ Without("ChildExited")

\* refresh_runtime_health once the rate limit allows it, or forced.
RefreshNamed ==
  /\ named.call = "idle" /\ Running /\ IsUp
  /\ \/ rejected /\ Without("TokenRejected")
     \/ /\ ~rejected /\ named.ident # Unknown
        /\ named' = [named EXCEPT !.call = "refresh"]
        /\ UNCHANGED <<namedProc, rejected>>

RefreshAnswers(answer) ==
  /\ named.call = "refresh" /\ CheckOK
  /\ \/ /\ answer = named.ident
        /\ named' = [named EXCEPT !.status = "Ready", !.kind = "none", !.call = "idle",
                                  !.seen = answer]
        /\ UNCHANGED <<namedProc, rejected>>
     \/ answer \in Instances /\ answer # named.ident /\ Without("WrongBridgeInstance")
     \/ answer = Deterministic /\ Without(FailureOf(answer))
     \/ /\ answer = Transient
        /\ named' = [named EXCEPT !.status = "Degraded", !.kind = "none", !.call = "idle",
                                  !.seen = answer]
        /\ UNCHANGED <<namedProc, rejected>>

\* stop and terminate_now.
StopNamed == /\ named.call = "idle"
             /\ named' = [named EXCEPT !.status = "Stopped", !.attempt = 0, !.kind = "none",
                                       !.child = "none", !.ident = Unknown,
                                       !.local = Unknown, !.seen = Unknown]
             /\ namedProc' = "none"
             /\ rejected' = FALSE

\* The process: it may exit whenever it runs, and may first say why.
NamedExits == /\ namedProc = "running"
              /\ namedProc' = "exited"
              /\ UNCHANGED <<named, rejected>>
TokenRefused == /\ namedProc = "running" /\ ~rejected
                /\ rejected' = TRUE
                /\ UNCHANGED <<named, namedProc>>

\* What the shell sees of it.
NamedPhase == CASE named.call \notin {"idle", "refresh"} -> "starting"
                [] named.status \in {"Ready", "Degraded"} -> "up"
                [] named.status = "Failed" -> "failed"
                [] OTHER -> "stopped"
NamedChild == CASE named.child = "none" -> "none"
                [] namedProc = "running" -> "alive"
                [] OTHER -> "dead"
=============================================================================
