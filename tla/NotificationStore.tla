-------------------------- MODULE NotificationStore --------------------------
(***************************************************************************)
(* The statements of the notification database                             *)
(* (crates/bridge-core/src/notification_store.rs), each as a function from  *)
(* the table it reads to the table it leaves.  The store sits behind one    *)
(* mutex, so a statement (or a transaction) is one atomic step; the         *)
(* processes that call them are in PushOutbox.                              *)
(*                                                                         *)
(* A delivery row is keyed by <<event, device>>.  Of its next_attempt_at     *)
(* only "due" is kept: "later" is after the wall clock, "drain" is not after *)
(* the moment the worker's current drain began (the one moment it compares   *)
(* with), "now" is in between.                                              *)
(* A subscription row keeps the origin it was made on and its endpoint;     *)
(* "live" is invalidated_at IS NULL.                                        *)
(***************************************************************************)
EXTENDS Naturals

CONSTANTS
  Events,     \* alert event ids
  Devices,    \* paired device ids
  Origins,    \* HTTPS origins a named tunnel may serve
  Endpoints   \* push endpoints a browser may hand out

Keys == Events \X Devices

(***************************************************************************)
(* notification_deliveries                                                 *)
(***************************************************************************)
Statuses == {"pending", "sending", "sent", "invalid_subscription", "failed"}

\* Rows that still owe the device a push.
Open == {"pending", "sending"}

\* "none" is the absence of a row.
DeliveryRow == [status : Statuses \cup {"none"}, attempts : Nat, due : {"later", "now", "drain"}]

NoRow == [status |-> "none", attempts |-> 0, due |-> "later"]

\* Mutant: the stored status is one that delivery_from_row cannot read back.
EnqueueUnreadable(rows, k, due) ==
  IF rows[k].status = "none"
    THEN [rows EXCEPT ![k] = [status |-> "queued", attempts |-> 0, due |-> due]]
    ELSE rows

\* INSERT OR IGNORE: a row that exists is left alone.
EnqueueDelivery(rows, k, due) ==
  IF rows[k].status = "none"
    THEN [rows EXCEPT ![k] = [status |-> "pending", attempts |-> 0, due |-> due]]
    ELSE rows

\* Mutant: rows that failed are taken up again.
DueOrFailed(rows, k) == rows[k].status \in {"pending", "failed"} /\ rows[k].due = "drain"

\* WHERE status = 'pending' AND next_attempt_at <= now.
Due(rows, k) == rows[k].status = "pending" /\ rows[k].due = "drain"

\* A drain looks at the clock once, when it begins.
BeginDrain(rows) ==
  [k \in Keys |-> IF rows[k].due = "now" THEN [rows[k] EXCEPT !.due = "drain"] ELSE rows[k]]

\* The delay of a row is over.
Ripen(rows, k) == [rows EXCEPT ![k].due = "now"]

\* Mutant: the attempt is not counted.
ClaimUncounted(rows, k) == [rows EXCEPT ![k].status = "sending"]

ClaimDelivery(rows, k) ==
  [rows EXCEPT ![k] = [status |-> "sending", attempts |-> rows[k].attempts + 1, due |-> "drain"]]

\* Mutant: an upsert, which brings a deleted row back.
UpsertStatus(rows, k, status) == [rows EXCEPT ![k].status = status]

\* UPDATE ... WHERE event_id = .. AND device_id = ..: nothing happens to a row
\* deleted meanwhile, and the current status is not looked at.
UpdateStatus(rows, k, status) ==
  IF rows[k].status = "none" THEN rows ELSE [rows EXCEPT ![k].status = status]

MarkSent(rows, k) == UpdateStatus(rows, k, "sent")
MarkInvalidSubscription(rows, k) == UpdateStatus(rows, k, "invalid_subscription")
MarkFailed(rows, k) == UpdateStatus(rows, k, "failed")

\* Mutant: a retry starts counting anew.
RetryFromZero(rows, k) ==
  IF rows[k].status = "none"
    THEN rows
    ELSE [rows EXCEPT ![k] = [status |-> "pending", attempts |-> 0, due |-> "later"]]

MarkRetry(rows, k) ==
  IF rows[k].status = "none"
    THEN rows
    ELSE [rows EXCEPT ![k] = [status |-> "pending", attempts |-> rows[k].attempts, due |-> "later"]]

\* Mutant: every row is failed, whatever became of it.
FailAll(rows) ==
  [k \in Keys |-> IF rows[k].status = "none" THEN rows[k] ELSE [rows[k] EXCEPT !.status = "failed"]]

FailPending(rows) ==
  [k \in Keys |-> IF rows[k].status \in Open
                    THEN [rows[k] EXCEPT !.status = "failed"]
                    ELSE rows[k]]

\* Mutant: opening the database leaves the rows alone.
RecoverNothing(rows) == rows

\* Opening the database returns rows a dead process was sending.
RecoverSending(rows) ==
  [k \in Keys |-> IF rows[k].status = "sending"
                    THEN [rows[k] EXCEPT !.status = "pending"]
                    ELSE rows[k]]

\* Mutant: the row being sent is spared.
DeleteWaiting(rows, d) ==
  [k \in Keys |-> IF k[2] = d /\ rows[k].status # "sending" THEN NoRow ELSE rows[k]]

DeleteDeliveries(rows, d) ==
  [k \in Keys |-> IF k[2] = d THEN NoRow ELSE rows[k]]

(***************************************************************************)
(* push_subscriptions                                                      *)
(***************************************************************************)
Subscription == [origin : Origins, endpoint : Endpoints, live : BOOLEAN]

NoSubscription == [live |-> FALSE]

SaveSubscription(subs, d, origin, endpoint) ==
  [subs EXCEPT ![d] = [origin |-> origin, endpoint |-> endpoint, live |-> TRUE]]

\* By device, whichever endpoint is stored now.
InvalidateSubscription(subs, d) == [subs EXCEPT ![d].live = FALSE]

DeleteSubscription(subs, d) == [subs EXCEPT ![d] = NoSubscription]

=============================================================================
