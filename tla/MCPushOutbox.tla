---------------------------- MODULE MCPushOutbox -----------------------------
\* Constant values for model checking PushOutbox.
EXTENDS PushOutbox, TLC

CONSTANTS d1, o1, e1, p1, c1

OneDevice == {d1}
OneOrigin == {o1}
OneEvent == {e1}
OneEndpoint == {p1}
OneControl == {c1}

RevocationRequests == {"enable", "subscribe", "test", "revoke", "pair"}
LiveRequests == {"subscribe", "unsubscribe"}

\* A database an earlier process left behind: every device wants alerts and has a
\* live subscription, and some pushes are still owed.
WarmInit ==
  /\ \E owed \in SUBSET Keys :
       deliveries = [k \in Keys |->
         IF k \in owed THEN [status |-> "pending", attempts |-> 1, due |-> "now"] ELSE NoRow]
  /\ \E o \in Origins, p \in Endpoints :
       subs = [d \in Devices |-> [origin |-> o, endpoint |-> p, live |-> TRUE]]
  /\ enabled = Devices
  /\ revoked = {}
  /\ access = Elsewhere
  /\ wake = FALSE
  /\ wpc = "start" /\ job = NoJob /\ nap = "none"
  /\ alert = [e \in Events |->
       IF \E d \in Devices : deliveries[<<e, d>>] # NoRow THEN AlertDone ELSE AlertIdle]
  /\ ctl = [c \in Controls |-> CtlIdle]
  /\ req = [d \in Devices |-> NoRequest]
  /\ revoking = {}
  /\ restarts = 0
  /\ sends = [k \in Keys |-> IF deliveries[k] = NoRow THEN 0 ELSE 1]

WarmSpec == WarmInit /\ [][Next]_vars /\ Fairness

============================================================================
