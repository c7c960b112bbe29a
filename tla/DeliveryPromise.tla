--------------------------- MODULE DeliveryPromise ---------------------------
(***************************************************************************)
(* What the outbox promises about each <<event, device>>, without tables,    *)
(* locks, subscriptions or a worker loop:                                   *)
(*   - at most one attempt is under way at any time, for a push that was owed *)
(*     when the attempt began;                                              *)
(*   - a push counts as delivered only after it was handed to the transport  *)
(*     in that attempt;                                                     *)
(*   - what was delivered or dropped is owed again only as the result of the *)
(*     attempt that was under way meanwhile;                                *)
(*   - a push is tried at most Budget times, and once more per reboot.       *)
(***************************************************************************)
EXTENDS Naturals

CONSTANTS Events, Devices, Budget, Nobody

VARIABLES
  outcome,   \* per push: none, owed, delivered or dropped
  attempt,   \* the push an attempt is under way for, or Nobody
  out,       \* whether that attempt has reached the transport
  tries,     \* per push: how often it reached the transport
  reboots

pvars == <<outcome, attempt, out, tries, reboots>>

Pushes == Events \X Devices

Init ==
  /\ outcome = [p \in Pushes |-> "none"]
  /\ attempt = Nobody
  /\ out = FALSE
  /\ tries = [p \in Pushes |-> 0]
  /\ reboots = 0

Owe(p) ==
  /\ outcome[p] = "none"
  /\ outcome' = [outcome EXCEPT ![p] = "owed"]
  /\ UNCHANGED <<attempt, out, tries, reboots>>

Take(p) ==
  /\ attempt = Nobody /\ outcome[p] = "owed"
  /\ attempt' = p /\ out' = FALSE
  /\ UNCHANGED <<outcome, tries, reboots>>

Push ==
  /\ attempt # Nobody /\ ~out
  /\ tries[attempt] < Budget + reboots
  /\ out' = TRUE
  /\ tries' = [tries EXCEPT ![attempt] = @ + 1]
  /\ UNCHANGED <<outcome, attempt, reboots>>

\* A push forgotten during its attempt stays forgotten.
Settle(result) ==
  /\ attempt # Nobody
  /\ result \in {"delivered", "owed"} => out
  /\ outcome' = IF outcome[attempt] = "none"
                  THEN outcome
                  ELSE [outcome EXCEPT ![attempt] = result]
  /\ attempt' = Nobody /\ out' = FALSE
  /\ UNCHANGED <<tries, reboots>>

Abandon ==
  /\ attempt # Nobody
  /\ attempt' = Nobody /\ out' = FALSE
  /\ UNCHANGED <<outcome, tries, reboots>>

Withdraw ==
  /\ outcome' = [p \in Pushes |-> IF outcome[p] = "owed" THEN "dropped" ELSE outcome[p]]
  /\ UNCHANGED <<attempt, out, tries, reboots>>

Forget(d) ==
  /\ outcome' = [p \in Pushes |-> IF p[2] = d THEN "none" ELSE outcome[p]]
  /\ UNCHANGED <<attempt, out, tries, reboots>>

Reboot ==
  /\ attempt' = Nobody /\ out' = FALSE
  /\ reboots' = reboots + 1
  /\ UNCHANGED <<outcome, tries>>

Next ==
  \/ \E p \in Pushes : Owe(p) \/ Take(p)
  \/ Push
  \/ \E result \in {"owed", "delivered", "dropped"} : Settle(result)
  \/ Abandon \/ Withdraw \/ Reboot
  \/ \E d \in Devices : Forget(d)

Spec == Init /\ [][Next]_pvars

=============================================================================
