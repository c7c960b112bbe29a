------------------------------- MODULE PhoneApp -------------------------------
(***************************************************************************)
(* The phone application, scene by scene: a page that signs in, polls,        *)
(* refreshes and signs out (PhoneSession); a page that is signed in and shows   *)
(* one thread (PhoneThread); the alerts of a phone and its push subscription,    *)
(* whose page stays signed in (PhoneAlerts, PhoneSubscription).  The scenes     *)
(* share no state: what a scene needs of another is fixed.                      *)
(***************************************************************************)
EXTENDS PhoneSession, PhoneThread, PhoneAlerts, PhoneSubscription

VARIABLE scene \* "session", "thread", "alerts" or "subscription"

vars == <<sessionVars, threadVars, alertVars, subVars, scene>>

\* The thread of a page that is not about one.
Quiet == CHOOSE pair \in Bounds \X {"same", "own"} : pair[2] \in pair[1].listings

Init ==
  /\ SessionInit /\ ThreadInit /\ AlertInit /\ SubInit
  /\ scene \in {"session", "thread", "alerts", "subscription"}
  /\ scene # "thread" => items = << >> /\ <<left, listing>> = Quiet
  /\ scene # "session" => saved = "none" /\ link = "none" /\ row = "paired" /\ ~boot.expired
  /\ scene # "subscription" => permission = "default"

Next ==
  \/ scene = "session" /\ SessionNext /\ UNCHANGED <<threadVars, alertVars, subVars, scene>>
  \/ scene = "thread" /\ ThreadNext /\ UNCHANGED <<sessionVars, alertVars, subVars, scene>>
  \/ scene = "alerts" /\ AlertNext /\ UNCHANGED <<sessionVars, threadVars, subVars, scene>>
  \/ scene = "subscription" /\ SubNext /\ UNCHANGED <<sessionVars, threadVars, alertVars, scene>>

\* In a session timers fire and answers arrive; the Bridge may do what it does at any time.
SessionFairness ==
  /\ WF_sessionVars(scene = "session" /\ BootStep)
  /\ WF_sessionVars(scene = "session" /\ RefreshStep)
  /\ \A kind \in {"list", "events"} : WF_sessionVars(scene = "session" /\ PollStep(kind))

Spec == Init /\ [][Next]_vars /\ SessionFairness
=============================================================================
