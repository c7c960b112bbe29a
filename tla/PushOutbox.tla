----------------------------- MODULE PushOutbox ------------------------------
(***************************************************************************)
(* The Web Push outbox: who writes delivery rows and who sends them.        *)
(*                                                                         *)
(*   worker    the one PushDeliveryWorker task: drain, wait, drain ...       *)
(*   alert[e]  the dispatch of one alert event (or of a test alert)          *)
(*   ctl[c]    a POST of the desktop shell that changes the public access    *)
(*   req[d]    a phone's authenticated request on its settings/subscription  *)
(*   revoking  the devices whose revocation still has to clean up            *)
(*                                                                         *)
(* A process holds the store's mutex for one statement at a time, so it may  *)
(* be overtaken between any two of its steps.  The database survives         *)
(* Restart; everything else, the public access included, does not.           *)
(***************************************************************************)
EXTENDS NotificationStore, FiniteSets

CONSTANTS
  Controls,      \* control requests that may overlap
  Requests,      \* the requests phones make: a subset of RequestKinds
  MaxRestarts,   \* how often the sidecar may be restarted
  StoreMayFail   \* whether a database statement may return an error

RequestKinds == {"enable", "disable", "subscribe", "unsubscribe", "test", "revoke", "pair"}

ASSUME PushOutboxAssumption ==
  /\ Requests \subseteq RequestKinds
  /\ MaxRestarts \in Nat
  /\ StoreMayFail \in BOOLEAN

VARIABLES
  deliveries,   \* table notification_deliveries
  subs,         \* table push_subscriptions
  enabled,      \* devices whose settings row is enabled (for the alert's kind)
  revoked,      \* devices with devices.revoked_at set
  access,       \* PublicAccessState
  wake,         \* the permit of the Notify the worker waits on
  wpc, job, nap,\* the worker: where it is, the row it holds, the wait it chose
  alert, ctl, req, revoking,
  restarts,     \* number of restarts so far
  sends         \* history: pushes handed to the transport, per row

tables == <<deliveries, subs, enabled, revoked>>
worker == <<wpc, job, nap>>
handlers == <<alert, ctl, req, revoking>>
vars == <<deliveries, subs, enabled, revoked, access, wake, wpc, job, nap,
          alert, ctl, req, revoking, restarts, sends>>

(***************************************************************************)
(* Public access: only "Named, and on which origin" is ever tested, so Local *)
(* and Quick are one value.                                                 *)
(***************************************************************************)
Elsewhere == [mode |-> "other"]
Named(o) == [mode |-> "named", origin |-> o]
Contexts == {Elsewhere} \cup {Named(o) : o \in Origins}

IsNamed(context) == context.mode = "named"

Leaves(previous, next) == IsNamed(previous) /\ next # previous

(***************************************************************************)
(* Process states                                                          *)
(***************************************************************************)
WorkerSteps == {"start", "claim", "load", "check", "mismatch", "send", "await",
                "plan", "due", "doze", "sleep"}

\* Between claim and mark the worker works on a row.
Holding == {"load", "check", "mismatch", "send", "await"}

NoJob == [key |-> "none"]
Jobs == [key : Keys, attempts : Nat, sub : Subscription \cup {NoSubscription}]

\* "away": not Named; "idle": nothing pending; "timed": until the next row is due;
\* "blind": the table could not be read.
Naps == {"none", "away", "idle", "timed", "blind"}

AlertIdle == [pc |-> "idle", access |-> Elsewhere, todo |-> {}]
AlertDone == [pc |-> "done", access |-> Elsewhere, todo |-> {}]
AlertState == [pc : {"idle", "targets", "fanout", "done"},
               access : Contexts, todo : SUBSET Devices]

CtlIdle == [pc |-> "idle", prev |-> Elsewhere, next |-> Elsewhere]
CtlState == [pc : {"idle", "read", "updated"}, prev : Contexts, next : Contexts]

NoRequest == [op |-> "none"]
RequestState == {NoRequest}
                \cup [op : {"enable", "disable", "unsubscribe"}]
                \cup [op : {"subscribe", "save"}, origin : Origins]

\* What the tables, the worker and the handlers may hold.
TypeOK ==
  /\ deliveries \in [Keys -> DeliveryRow]
  /\ subs \in [Devices -> Subscription \cup {NoSubscription}]
  /\ enabled \in SUBSET Devices
  /\ revoked \in SUBSET Devices
  /\ access \in Contexts
  /\ wake \in BOOLEAN
  /\ wpc \in WorkerSteps
  /\ job \in Jobs \cup {NoJob}
  /\ wpc \in Holding => job \in Jobs
  /\ nap \in Naps
  /\ alert \in [Events -> AlertState]
  /\ ctl \in [Controls -> CtlState]
  /\ req \in [Devices -> RequestState]
  /\ revoking \in SUBSET Devices
  /\ restarts \in 0 .. MaxRestarts
  /\ sends \in [Keys -> Nat]

Init ==
  /\ deliveries = [k \in Keys |-> NoRow]
  /\ subs = [d \in Devices |-> NoSubscription]
  /\ enabled = {}
  /\ revoked = {}
  /\ access = Elsewhere
  /\ wake = FALSE
  /\ wpc = "start" /\ job = NoJob /\ nap = "none"
  /\ alert = [e \in Events |-> AlertIdle]
  /\ ctl = [c \in Controls |-> CtlIdle]
  /\ req = [d \in Devices |-> NoRequest]
  /\ revoking = {}
  /\ restarts = 0
  /\ sends = [k \in Keys |-> 0]

(***************************************************************************)
(* The worker (push_delivery_worker.rs)                                     *)
(***************************************************************************)
WorkerStart ==
  /\ wpc = "start"
  /\ deliveries' = BeginDrain(deliveries)
  /\ wpc' = IF IsNamed(access) THEN "claim" ELSE "plan"
  /\ UNCHANGED <<subs, enabled, revoked, access, wake, job, nap, handlers, restarts, sends>>

\* The oldest row due at the beginning of the drain is claimed; which one that is
\* depends on timestamps the model does not keep.
WorkerClaim ==
  /\ wpc = "claim"
  /\ \E k \in Keys :
       /\ Due(deliveries, k)
       /\ deliveries' = ClaimDelivery(deliveries, k)
       /\ job' = [key |-> k, attempts |-> deliveries'[k].attempts, sub |-> NoSubscription]
  /\ wpc' = "load"
  /\ UNCHANGED <<subs, enabled, revoked, access, wake, nap, handlers, restarts, sends>>

WorkerDrained ==
  /\ wpc = "claim"
  /\ \A k \in Keys : ~Due(deliveries, k)
  /\ wpc' = "plan"
  /\ UNCHANGED <<tables, access, wake, job, nap, handlers, restarts, sends>>

\* A payload that does not parse: no subscription is looked at.  Such a row is one
\* that another build left in the database; which row it may be is left open.
WorkerReject ==
  /\ wpc = "load"
  /\ deliveries' = MarkFailed(deliveries, job.key)
  /\ wpc' = "claim" /\ job' = NoJob
  /\ UNCHANGED <<subs, enabled, revoked, access, wake, nap, handlers, restarts, sends>>

WorkerLoad ==
  /\ wpc = "load"
  /\ LET sub == subs[job.key[2]] IN
       IF sub.live
         THEN /\ job' = [job EXCEPT !.sub = sub]
              /\ wpc' = "check"
              /\ UNCHANGED deliveries
         ELSE /\ deliveries' = MarkInvalidSubscription(deliveries, job.key)
              /\ job' = NoJob
              /\ wpc' = "claim"
  /\ UNCHANGED <<subs, enabled, revoked, access, wake, nap, handlers, restarts, sends>>

WorkerCheck ==
  /\ wpc = "check"
  /\ wpc' = IF access = Named(job.sub.origin) THEN "send" ELSE "mismatch"
  /\ UNCHANGED <<tables, access, wake, job, nap, handlers, restarts, sends>>

WorkerMismatch ==
  /\ wpc = "mismatch"
  /\ subs' = InvalidateSubscription(subs, job.key[2])
  /\ deliveries' = MarkInvalidSubscription(deliveries, job.key)
  /\ wpc' = "claim" /\ job' = NoJob
  /\ UNCHANGED <<enabled, revoked, access, wake, nap, handlers, restarts, sends>>

\* The request leaves; no lock is held until its answer is in.
WorkerSend ==
  /\ wpc = "send"
  /\ wpc' = "await"
  /\ sends' = [sends EXCEPT ![job.key] = @ + 1]
  /\ UNCHANGED <<tables, access, wake, job, nap, handlers, restarts>>

Outcomes == {"ok", "invalid_subscription", "retryable", "permanent"}

\* The answer (or the 10 s timeout) is in, and its result is written.
WorkerResult(outcome) ==
  /\ wpc = "await"
  /\ deliveries' =
       CASE outcome = "ok"                   -> MarkSent(deliveries, job.key)
         [] outcome = "invalid_subscription" -> MarkInvalidSubscription(deliveries, job.key)
         [] outcome = "retryable" /\ job.attempts <= 3 -> MarkRetry(deliveries, job.key)
         [] OTHER                            -> MarkFailed(deliveries, job.key)
  /\ subs' = IF outcome = "invalid_subscription"
               THEN InvalidateSubscription(subs, job.key[2])
               ELSE subs
  /\ wpc' = "claim" /\ job' = NoJob
  /\ UNCHANGED <<enabled, revoked, access, wake, nap, handlers, restarts, sends>>

\* next_wait: the mode is read first, the table after it, and only then does the
\* task start to wait.
WorkerPlan ==
  /\ wpc = "plan"
  /\ IF IsNamed(access)
       THEN wpc' = "due" /\ nap' = nap
       ELSE wpc' = "doze" /\ nap' = "away"
  /\ UNCHANGED <<tables, access, wake, job, handlers, restarts, sends>>

WorkerNextDue ==
  /\ wpc = "due"
  /\ \/ nap' = IF \E k \in Keys : deliveries[k].status = "pending" THEN "timed" ELSE "idle"
     \/ StoreMayFail /\ nap' = "blind"
  /\ wpc' = "doze"
  /\ UNCHANGED <<tables, access, wake, job, handlers, restarts, sends>>

WorkerSleep ==
  /\ wpc = "doze"
  /\ wpc' = "sleep"
  /\ UNCHANGED <<tables, access, wake, job, nap, handlers, restarts, sends>>

\* select!: the sleep ends (30 s at most) or the permit is there.
WorkerTimer ==
  /\ wpc = "sleep"
  /\ wpc' = "start" /\ nap' = "none"
  /\ UNCHANGED <<tables, access, wake, job, handlers, restarts, sends>>

WorkerWoken ==
  /\ wpc = "sleep" /\ wake
  /\ wake' = FALSE
  /\ wpc' = "start" /\ nap' = "none"
  /\ UNCHANGED <<tables, access, job, handlers, restarts, sends>>

\* A statement of the cycle fails: the cycle is abandoned and the row it held
\* stays "sending".  Of two statements the first may already be done.
WorkerError ==
  /\ StoreMayFail
  /\ wpc \in {"claim", "load", "mismatch", "await"}
  /\ \/ UNCHANGED subs
     \/ /\ wpc \in {"mismatch", "await"}
        /\ subs' = InvalidateSubscription(subs, job.key[2])
  /\ wpc' = "plan" /\ job' = NoJob
  /\ UNCHANGED <<deliveries, enabled, revoked, access, wake, nap, handlers, restarts, sends>>

WorkerStep ==
  \/ WorkerStart \/ WorkerClaim \/ WorkerDrained \/ WorkerReject \/ WorkerLoad
  \/ WorkerCheck \/ WorkerMismatch \/ WorkerSend \/ (\E outcome \in Outcomes : WorkerResult(outcome))
  \/ WorkerPlan \/ WorkerNextDue \/ WorkerSleep \/ WorkerTimer \/ WorkerWoken \/ WorkerError

\* The retry delay of a row is over.
Elapse(k) ==
  /\ deliveries[k].status = "pending" /\ deliveries[k].due = "later"
  /\ deliveries' = Ripen(deliveries, k)
  /\ UNCHANGED <<subs, enabled, revoked, access, wake, worker, handlers, restarts, sends>>

(***************************************************************************)
(* Dispatch of one alert (notification_dispatcher.rs): the access is read    *)
(* once, then the targets, then one enqueue per target.                     *)
(***************************************************************************)
AlertRaised(e) ==
  /\ alert[e].pc = "idle"
  /\ alert' = [alert EXCEPT ![e].pc = "targets", ![e].access = access]
  /\ UNCHANGED <<tables, access, wake, worker, ctl, req, revoking, restarts, sends>>

AlertTargets(e) ==
  /\ alert[e].pc = "targets"
  /\ alert' = [alert EXCEPT ![e].pc = "fanout", ![e].todo = enabled \ revoked]
  /\ UNCHANGED <<tables, access, wake, worker, ctl, req, revoking, restarts, sends>>

\* A test alert goes to the device that asked for it, whatever its settings.
TestAlert(e, d) ==
  /\ "test" \in Requests
  /\ d \notin revoked
  /\ alert[e].pc = "idle"
  /\ alert' = [alert EXCEPT ![e] = [pc |-> "fanout", access |-> access, todo |-> {d}]]
  /\ UNCHANGED <<tables, access, wake, worker, ctl, req, revoking, restarts, sends>>

Accepts(e, d) ==
  /\ IsNamed(alert[e].access)
  /\ subs[d].live
  /\ subs[d].origin = alert[e].access.origin

\* Mutant: only a worker that is already waiting hears of the row.
NotifyWaiters == wake \/ wpc = "sleep"

\* notify_one leaves a permit when nobody waits.  No await separates it from the
\* insertion, so it belongs to the same step.
NotifyWorker == TRUE

AlertEnqueue(e, d) ==
  /\ alert[e].pc = "fanout" /\ d \in alert[e].todo
  /\ alert' = [alert EXCEPT ![e].todo = @ \ {d}]
  /\ IF Accepts(e, d)
       THEN \E due \in {"now", "drain"} :   \* "drain": in the drain's own millisecond
              deliveries' = EnqueueDelivery(deliveries, <<e, d>>, due)
       ELSE UNCHANGED deliveries
  /\ wake' = IF deliveries' # deliveries THEN NotifyWorker ELSE wake
  /\ UNCHANGED <<subs, enabled, revoked, access, worker, ctl, req, revoking, restarts, sends>>

\* All targets done, or a statement failed and the rest is abandoned.
AlertDispatched(e) ==
  /\ alert[e].pc \in {"targets", "fanout"}
  /\ (alert[e].pc = "fanout" /\ alert[e].todo = {}) \/ StoreMayFail
  /\ alert' = [alert EXCEPT ![e] = AlertDone]
  /\ UNCHANGED <<tables, access, wake, worker, ctl, req, revoking, restarts, sends>>

(***************************************************************************)
(* set_public_access_context (http_api.rs)                                  *)
(***************************************************************************)
ControlRead(c, context) ==
  /\ ctl[c].pc = "idle"
  /\ ctl' = [ctl EXCEPT ![c] = [pc |-> "read", prev |-> access, next |-> context]]
  /\ UNCHANGED <<tables, access, wake, worker, alert, req, revoking, restarts, sends>>

ControlUpdate(c) ==
  /\ ctl[c].pc = "read"
  /\ access' = ctl[c].next
  /\ ctl' = IF Leaves(ctl[c].prev, ctl[c].next)
              THEN [ctl EXCEPT ![c].pc = "updated"]
              ELSE [ctl EXCEPT ![c] = CtlIdle]
  /\ UNCHANGED <<tables, wake, worker, alert, req, revoking, restarts, sends>>

ControlFailPending(c) ==
  /\ ctl[c].pc = "updated"
  /\ \/ deliveries' = FailPending(deliveries)
     \/ StoreMayFail /\ UNCHANGED deliveries
  /\ ctl' = [ctl EXCEPT ![c] = CtlIdle]
  /\ UNCHANGED <<subs, enabled, revoked, access, wake, worker, alert, req, revoking,
                 restarts, sends>>

(***************************************************************************)
(* Requests of a phone.  Authentication is the first step; the device may be *)
(* revoked before the last one.                                             *)
(***************************************************************************)
RequestBegin(d) ==
  /\ req[d] = NoRequest
  /\ d \notin revoked
  /\ \/ \E op \in Requests \cap {"enable", "disable", "unsubscribe"} :
          req' = [req EXCEPT ![d] = [op |-> op]]
     \/ /\ "subscribe" \in Requests
        /\ \E o \in Origins : req' = [req EXCEPT ![d] = [op |-> "subscribe", origin |-> o]]
  /\ UNCHANGED <<tables, access, wake, worker, alert, ctl, revoking, restarts, sends>>

PutSettings(d) ==
  /\ req[d].op \in {"enable", "disable"}
  /\ enabled' = IF req[d].op = "enable" THEN enabled \cup {d} ELSE enabled \ {d}
  /\ req' = [req EXCEPT ![d] = NoRequest]
  /\ UNCHANGED <<deliveries, subs, revoked, access, wake, worker, alert, ctl, revoking,
                 restarts, sends>>

\* require_named_push_origin: refused unless the phone is on the named origin.
SubscribeCheck(d) ==
  /\ req[d].op = "subscribe"
  /\ req' = [req EXCEPT ![d] = IF access = Named(req[d].origin)
                                 THEN [op |-> "save", origin |-> req[d].origin]
                                 ELSE NoRequest]
  /\ UNCHANGED <<tables, access, wake, worker, alert, ctl, revoking, restarts, sends>>

SubscribeSave(d, endpoint) ==
  /\ req[d].op = "save"
  /\ subs' = SaveSubscription(subs, d, req[d].origin, endpoint)
  /\ req' = [req EXCEPT ![d] = NoRequest]
  /\ UNCHANGED <<deliveries, enabled, revoked, access, wake, worker, alert, ctl, revoking,
                 restarts, sends>>

Unsubscribe(d) ==
  /\ req[d].op = "unsubscribe"
  /\ subs' = DeleteSubscription(subs, d)
  /\ deliveries' = DeleteDeliveries(deliveries, d)
  /\ req' = [req EXCEPT ![d] = NoRequest]
  /\ UNCHANGED <<enabled, revoked, access, wake, worker, alert, ctl, revoking,
                 restarts, sends>>

\* The statement of the request fails.
RequestError(d) ==
  /\ StoreMayFail
  /\ req[d].op \in {"enable", "disable", "unsubscribe", "save"}
  /\ req' = [req EXCEPT ![d] = NoRequest]
  /\ UNCHANGED <<tables, access, wake, worker, alert, ctl, revoking, restarts, sends>>

(***************************************************************************)
(* Revocation and pairing.  Revoking marks the device first and removes its  *)
(* notification data under another lock; pairing the same id clears the mark.*)
(***************************************************************************)
RevokeBegin(d) ==
  /\ "revoke" \in Requests
  /\ d \notin revoking
  /\ revoked' = revoked \cup {d}
  /\ revoking' = revoking \cup {d}
  /\ UNCHANGED <<deliveries, subs, enabled, access, wake, worker, alert, ctl, req,
                 restarts, sends>>

RevokeCleanup(d) ==
  /\ d \in revoking
  /\ \/ /\ enabled' = enabled \ {d}
        /\ subs' = DeleteSubscription(subs, d)
        /\ deliveries' = DeleteDeliveries(deliveries, d)
     \/ StoreMayFail /\ UNCHANGED <<enabled, subs, deliveries>>
  /\ revoking' = revoking \ {d}
  /\ UNCHANGED <<revoked, access, wake, worker, alert, ctl, req, restarts, sends>>

Pair(d) ==
  /\ "pair" \in Requests
  /\ d \in revoked
  /\ revoked' = revoked \ {d}
  /\ UNCHANGED <<deliveries, subs, enabled, access, wake, worker, alert, ctl, req, revoking,
                 restarts, sends>>

(***************************************************************************)
(* The sidecar dies and is started again on the same database.              *)
(***************************************************************************)
Restart ==
  /\ restarts < MaxRestarts
  /\ restarts' = restarts + 1
  /\ deliveries' = RecoverSending(deliveries)
  /\ access' = Elsewhere
  /\ wake' = FALSE
  /\ wpc' = "start" /\ job' = NoJob /\ nap' = "none"
  /\ alert' = [e \in Events |-> IF alert[e].pc = "idle" THEN AlertIdle ELSE AlertDone]
  /\ ctl' = [c \in Controls |-> CtlIdle]
  /\ req' = [d \in Devices |-> NoRequest]
  /\ revoking' = {}
  /\ UNCHANGED <<subs, enabled, revoked, sends>>

AlertStep(e) == AlertTargets(e) \/ (\E d \in Devices : AlertEnqueue(e, d)) \/ AlertDispatched(e)

ControlStep(c) == ControlUpdate(c) \/ ControlFailPending(c)

RequestStep(d) ==
  \/ PutSettings(d) \/ SubscribeCheck(d) \/ Unsubscribe(d) \/ RequestError(d)
  \/ \E endpoint \in Endpoints : SubscribeSave(d, endpoint)

Next ==
  \/ WorkerStep
  \/ \E k \in Keys : Elapse(k)
  \/ \E e \in Events : AlertRaised(e) \/ AlertStep(e) \/ (\E d \in Devices : TestAlert(e, d))
  \/ \E c \in Controls : ControlStep(c) \/ (\E context \in Contexts : ControlRead(c, context))
  \/ \E d \in Devices : \/ RequestBegin(d) \/ RequestStep(d)
                        \/ RevokeBegin(d) \/ RevokeCleanup(d) \/ Pair(d)
  \/ Restart

Spec == Init /\ [][Next]_vars

(***************************************************************************)
(* Fairness: the runtime keeps running a task that can take a step, and a    *)
(* timer ends.  Nothing obliges a phone, the desktop or Codex to do anything.*)
(***************************************************************************)
Fairness ==
  /\ WF_vars(WorkerStep)
  /\ \A k \in Keys : WF_vars(Elapse(k))
  /\ \A e \in Events : WF_vars(AlertStep(e))
  /\ \A c \in Controls : WF_vars(ControlStep(c))
  /\ \A d \in Devices : WF_vars(RequestStep(d)) /\ WF_vars(RevokeCleanup(d))

FairSpec == Spec /\ Fairness

(***************************************************************************)
(* Properties                                                              *)
(***************************************************************************)

\* A row is "sending" only while the worker holds it: no path through
\* process_delivery, no context change and no restart leaves one behind that
\* nobody will ever claim again.  A failing statement is what can.
SendingIsHeld ==
  ~StoreMayFail =>
    \A k \in Keys : deliveries[k].status = "sending" => wpc \in Holding /\ job.key = k

\* At most 4 pushes leave for one row (the first and RETRY_DELAYS_MS' three), and
\* one more for each restart that found it being sent, however sends, context
\* changes, deletions and failing statements interleave.
SendBudget == \A k \in Keys : sends[k] <= 4 + restarts

\* The two tables stay together: no delivery row outlives its device's
\* subscription row, although attempts are marked after the rows may be gone.
NoOrphanDelivery ==
  \A k \in Keys : subs[k[2]] = NoSubscription => deliveries[k] = NoRow

\* Lost wake-up: when the worker found nothing pending and went to sleep for
\* 30 s, an alert enqueued since then has left it a permit.
NoMissedWakeup ==
  /\ wpc \in {"doze", "sleep"} /\ nap = "idle"
  /\ \E k \in Keys : deliveries[k].status = "pending"
  => wake

\* A row recorded as sent, or as having no subscription, never changes again
\* until it is deleted: neither a context change nor a late result touches it.
SettledIsFinal ==
  [][\A k \in Keys :
       deliveries[k].status \in {"sent", "invalid_subscription"} =>
         deliveries'[k].status \in {deliveries[k].status, "none"}]_vars

\* A row failed by a context change is written again only by the attempt that was
\* out at that moment; a row that was waiting stays failed.
FailedUnlessInFlight ==
  [][\A k \in Keys :
       deliveries[k].status = "failed" /\ ~(wpc \in Holding /\ job.key = k) =>
         deliveries'[k].status \in {"failed", "none"}]_vars

\* Once its revocation is over, a device has no usable subscription.
RevokedHasNoSubscription ==
  \A d \in Devices : d \in revoked /\ d \notin revoking => ~subs[d].live

\* When the named tunnel stays up, no row stays pending: each is delivered, given
\* up after its retries, or deleted.
PendingIsSettled ==
  \A k \in Keys :
    <>[]IsNamed(access) =>
      (deliveries[k].status = "pending" ~> deliveries[k].status \notin Open)

(***************************************************************************)
(* The outbox implements DeliveryPromise.                                   *)
(***************************************************************************)
Nobody == << >>

OutcomeOf(status) ==
  CASE status = "none" -> "none"
    [] status \in Open -> "owed"
    [] status = "sent" -> "delivered"
    [] status \in {"failed", "invalid_subscription"} -> "dropped"

Promise == INSTANCE DeliveryPromise WITH
  Budget  <- 4,
  outcome <- [k \in Keys |-> OutcomeOf(deliveries[k].status)],
  attempt <- IF wpc \in Holding THEN job.key ELSE Nobody,
  out     <- (wpc = "await"),
  tries   <- sends,
  reboots <- restarts

KeepsPromise == Promise!Spec

=============================================================================
