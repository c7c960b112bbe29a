-------------------------- MODULE PushOutboxProofs ---------------------------
(***************************************************************************)
(* Theorems about PushOutbox, for every set of events, devices, origins,     *)
(* endpoints and controls, any number of restarts, with and without failing  *)
(* statements.                                                              *)
(***************************************************************************)
EXTENDS PushOutbox, TLAPS

Table == [Keys -> DeliveryRow]
SubscriptionTable == [Devices -> Subscription \cup {NoSubscription}]

(***************************************************************************)
(* What the statements of the store keep                                    *)
(***************************************************************************)

\* Every statement on one delivery row leaves a delivery table.
LEMMA DeliveryStatementsTyped ==
  \A rows \in Table, k \in Keys :
    /\ \A due \in {"now", "drain"} : EnqueueDelivery(rows, k, due) \in Table
    /\ ClaimDelivery(rows, k) \in Table
    /\ \A status \in Statuses : UpdateStatus(rows, k, status) \in Table
    /\ MarkRetry(rows, k) \in Table
<1> SUFFICES ASSUME NEW rows \in Table, NEW k \in Keys
             PROVE  /\ \A due \in {"now", "drain"} : EnqueueDelivery(rows, k, due) \in Table
                    /\ ClaimDelivery(rows, k) \in Table
                    /\ \A status \in Statuses : UpdateStatus(rows, k, status) \in Table
                    /\ MarkRetry(rows, k) \in Table
  OBVIOUS
<1> USE DEF Table, DeliveryRow, Statuses
<1>1. ASSUME NEW due \in {"now", "drain"} PROVE EnqueueDelivery(rows, k, due) \in Table
  BY DEF EnqueueDelivery
<1>2. ClaimDelivery(rows, k) \in Table
  BY DEF ClaimDelivery
<1>3. ASSUME NEW status \in Statuses PROVE UpdateStatus(rows, k, status) \in Table
  BY DEF UpdateStatus
<1>4. MarkRetry(rows, k) \in Table
  BY DEF MarkRetry
<1>5. QED
  BY <1>1, <1>2, <1>3, <1>4

\* Failing the queue leaves a delivery table.
LEMMA FailPendingTyped == \A rows \in Table : FailPending(rows) \in Table
  BY DEF FailPending, Table, DeliveryRow, Statuses, Open

\* The recovery at opening leaves a delivery table.
LEMMA RecoverSendingTyped == \A rows \in Table : RecoverSending(rows) \in Table
  BY DEF RecoverSending, Table, DeliveryRow, Statuses

\* The passing of time, for a drain or for one row, leaves a delivery table.
LEMMA ClockTyped ==
  \A rows \in Table : BeginDrain(rows) \in Table /\ \A k \in Keys : Ripen(rows, k) \in Table
  BY DEF BeginDrain, Ripen, Table, DeliveryRow

\* Deleting a device's rows leaves both tables typed.
LEMMA DeletionTyped ==
  /\ \A rows \in Table, d \in Devices : DeleteDeliveries(rows, d) \in Table
  /\ \A s \in SubscriptionTable, d \in Devices : DeleteSubscription(s, d) \in SubscriptionTable
<1>1. ASSUME NEW rows \in Table, NEW d \in Devices PROVE DeleteDeliveries(rows, d) \in Table
  BY DEF DeleteDeliveries, NoRow, Table, DeliveryRow
<1>2. ASSUME NEW s \in SubscriptionTable, NEW d \in Devices
      PROVE  DeleteSubscription(s, d) \in SubscriptionTable
  BY DEF DeleteSubscription, SubscriptionTable
<1>3. QED
  BY <1>1, <1>2

\* Invalidating a subscription leaves a subscription table, also where there is none.
LEMMA InvalidationTyped ==
  \A s \in SubscriptionTable, d \in Devices : InvalidateSubscription(s, d) \in SubscriptionTable
  BY DEF SubscriptionTable, Subscription, NoSubscription, InvalidateSubscription

\* Saving a subscription leaves a subscription table.
LEMMA SaveTyped ==
  \A s \in SubscriptionTable, d \in Devices, o \in Origins, p \in Endpoints :
    SaveSubscription(s, d, o, p) \in SubscriptionTable
  BY DEF SubscriptionTable, Subscription, SaveSubscription

\* The idle states of the processes are states of the processes.
LEMMA IdleTyped ==
  /\ NoRow \in DeliveryRow
  /\ AlertIdle \in AlertState /\ AlertDone \in AlertState
  /\ CtlIdle \in CtlState
  /\ NoRequest \in RequestState
<1>1. NoRow \in DeliveryRow
  BY DEF NoRow, DeliveryRow
<1>2. AlertIdle \in AlertState /\ AlertDone \in AlertState
  BY DEF AlertIdle, AlertDone, AlertState, Contexts
<1>3. CtlIdle \in CtlState
  BY DEF CtlIdle, CtlState, Contexts
<1>4. NoRequest \in RequestState
  BY DEF RequestState
<1>5. QED
  BY <1>1, <1>2, <1>3, <1>4

\* A subscribe request names an origin.
LEMMA SubscribeHasOrigin ==
  \A r \in RequestState : r.op \in {"subscribe", "save"} => r.origin \in Origins
  BY DEF RequestState, NoRequest

(***************************************************************************)
(* Type correctness                                                         *)
(***************************************************************************)

\* The variables stay in their types: in particular the worker holds a row exactly
\* between its claim and its mark.
THEOREM TypeCorrect == Spec => []TypeOK
<1> USE DEF TypeOK
<1>1. Init => TypeOK
  <2> SUFFICES ASSUME Init PROVE TypeOK
    OBVIOUS
  <2>1. restarts \in 0 .. MaxRestarts
    BY PushOutboxAssumption DEF Init
  <2>2. QED
    BY <2>1, IdleTyped DEF Init, Contexts, WorkerSteps, Holding, Naps
<1>2. TypeOK /\ [Next]_vars => TypeOK'
  <2> SUFFICES ASSUME TypeOK, [Next]_vars PROVE TypeOK'
    OBVIOUS
  <2> USE DEF vars, tables, worker, handlers, WorkerSteps
  <2>a. deliveries \in Table /\ subs \in SubscriptionTable
    BY DEF Table, SubscriptionTable
  <2>b. wpc \in Holding => job.key \in Keys /\ job.key[2] \in Devices
    BY DEF Jobs, Keys
  <2>1. CASE WorkerStart
    <3>1. deliveries' \in Table
      BY <2>1, <2>a, ClockTyped DEF WorkerStart
    <3>2. QED
      BY <2>1, <3>1 DEF WorkerStart, Holding, Table
  <2>2. CASE WorkerClaim
    <3>1. PICK k \in Keys :
            /\ deliveries' = ClaimDelivery(deliveries, k)
            /\ job' = [key |-> k, attempts |-> deliveries'[k].attempts, sub |-> NoSubscription]
      BY <2>2 DEF WorkerClaim
    <3>2. deliveries' \in Table
      BY <3>1, <2>a, DeliveryStatementsTyped
    <3>3. job' \in Jobs
      BY <3>1, <3>2 DEF Jobs, Table, DeliveryRow
    <3>4. QED
      BY <2>2, <3>2, <3>3 DEF WorkerClaim, Table, Holding
  <2>3. CASE WorkerDrained
    BY <2>3 DEF WorkerDrained, Holding
  <2>4. CASE WorkerLoad
    <3>1. CASE subs[job.key[2]].live
      <4>1. job' = [job EXCEPT !.sub = subs[job.key[2]]] /\ wpc' = "check"
        BY <3>1, <2>4 DEF WorkerLoad
      <4>2. job' \in Jobs
        BY <4>1, <2>a, <2>b, <2>4 DEF WorkerLoad, Jobs, Holding, SubscriptionTable
      <4>3. QED
        BY <3>1, <4>1, <4>2, <2>4 DEF WorkerLoad, Holding
    <3>2. CASE ~subs[job.key[2]].live
      <4>1. deliveries' = MarkInvalidSubscription(deliveries, job.key)
        BY <3>2, <2>4 DEF WorkerLoad
      <4>2. deliveries' \in Table
        BY <4>1, <2>4, <2>a, <2>b, DeliveryStatementsTyped
           DEF MarkInvalidSubscription, Statuses, WorkerLoad, Holding
      <4>3. QED
        BY <3>2, <4>2, <2>4 DEF WorkerLoad, Holding, Table
    <3>3. QED
      BY <3>1, <3>2
  <2>5. CASE WorkerCheck
    BY <2>5 DEF WorkerCheck, Holding
  <2>6. CASE WorkerMismatch
    <3>1. deliveries' \in Table
      BY <2>6, <2>a, <2>b, DeliveryStatementsTyped
         DEF WorkerMismatch, MarkInvalidSubscription, Statuses, Holding
    <3>2. subs' \in SubscriptionTable
      BY <2>6, <2>a, <2>b, InvalidationTyped DEF WorkerMismatch, Holding
    <3>3. QED
      BY <2>6, <3>1, <3>2 DEF WorkerMismatch, Holding, Table, SubscriptionTable
  <2>j. CASE WorkerReject
    <3>1. deliveries' \in Table
      BY <2>j, <2>a, <2>b, DeliveryStatementsTyped
         DEF WorkerReject, MarkFailed, Statuses, Holding
    <3>2. QED
      BY <2>j, <3>1 DEF WorkerReject, Holding, Table
  <2>7. CASE WorkerSend
    BY <2>7, <2>b DEF WorkerSend, Holding
  <2>8. ASSUME NEW outcome \in Outcomes, WorkerResult(outcome) PROVE TypeOK'
    <3>0. \/ deliveries' = MarkRetry(deliveries, job.key)
          \/ \E status \in Statuses : deliveries' = UpdateStatus(deliveries, job.key, status)
      BY <2>8 DEF WorkerResult, MarkSent, MarkInvalidSubscription, MarkFailed, Statuses
    <3>1. deliveries' \in Table
      BY <3>0, <2>8, <2>a, <2>b, DeliveryStatementsTyped DEF WorkerResult, Holding
    <3>2. subs' \in SubscriptionTable
      BY <2>8, <2>a, <2>b, InvalidationTyped DEF WorkerResult, Holding
    <3>3. QED
      BY <2>8, <3>1, <3>2 DEF WorkerResult, Holding, Table, SubscriptionTable
  <2>9. CASE WorkerPlan
    BY <2>9 DEF WorkerPlan, Holding, Naps
  <2>10. CASE WorkerNextDue
    BY <2>10 DEF WorkerNextDue, Holding, Naps
  <2>11. CASE WorkerSleep
    BY <2>11 DEF WorkerSleep, Holding
  <2>12. CASE WorkerTimer
    BY <2>12 DEF WorkerTimer, Holding, Naps
  <2>13. CASE WorkerWoken
    BY <2>13 DEF WorkerWoken, Holding, Naps
  <2>14. CASE WorkerError
    <3>1. subs' \in SubscriptionTable
      BY <2>14, <2>a, <2>b, InvalidationTyped DEF WorkerError, Holding
    <3>2. QED
      BY <2>14, <3>1 DEF WorkerError, Holding, SubscriptionTable
  <2>15. ASSUME NEW k \in Keys, Elapse(k) PROVE TypeOK'
    <3>1. deliveries' \in Table
      BY <2>15, <2>a, ClockTyped DEF Elapse
    <3>2. QED
      BY <2>15, <3>1 DEF Elapse, Table
  <2>16. ASSUME NEW e \in Events, AlertRaised(e) PROVE TypeOK'
    <3>1. [alert[e] EXCEPT !.pc = "targets", !.access = access] \in AlertState
      BY DEF AlertState
    <3>2. alert' = [alert EXCEPT ![e] = [alert[e] EXCEPT !.pc = "targets", !.access = access]]
      BY <2>16 DEF AlertRaised
    <3>3. QED
      BY <2>16, <3>1, <3>2 DEF AlertRaised
  <2>17. ASSUME NEW e \in Events, AlertTargets(e) PROVE TypeOK'
    <3>1. [alert[e] EXCEPT !.pc = "fanout", !.todo = enabled \ revoked] \in AlertState
      BY DEF AlertState
    <3>2. alert' = [alert EXCEPT ![e] = [alert[e] EXCEPT !.pc = "fanout", !.todo = enabled \ revoked]]
      BY <2>17 DEF AlertTargets
    <3>3. QED
      BY <2>17, <3>1, <3>2 DEF AlertTargets
  <2>18. ASSUME NEW e \in Events, NEW d \in Devices, TestAlert(e, d) PROVE TypeOK'
    <3>1. alert' \in [Events -> AlertState]
      BY <2>18 DEF TestAlert, AlertState
    <3>2. QED
      BY <2>18, <3>1 DEF TestAlert
  <2>19. ASSUME NEW e \in Events, NEW d \in Devices, AlertEnqueue(e, d) PROVE TypeOK'
    <3>1. <<e, d>> \in Keys
      BY DEF Keys
    <3>2. deliveries' \in Table
      BY <2>19, <3>1, <2>a, DeliveryStatementsTyped DEF AlertEnqueue
    <3>3. wake' \in BOOLEAN
      BY <2>19 DEF AlertEnqueue, NotifyWorker
    <3>4. QED
      BY <2>19, <3>2, <3>3 DEF AlertEnqueue, AlertState, Table
  <2>20. ASSUME NEW e \in Events, AlertDispatched(e) PROVE TypeOK'
    BY <2>20, IdleTyped DEF AlertDispatched
  <2>21. ASSUME NEW c \in Controls, NEW context \in Contexts, ControlRead(c, context)
         PROVE  TypeOK'
    BY <2>21 DEF ControlRead, CtlState
  <2>22. ASSUME NEW c \in Controls, ControlUpdate(c) PROVE TypeOK'
    BY <2>22, IdleTyped DEF ControlUpdate, CtlState
  <2>23. ASSUME NEW c \in Controls, ControlFailPending(c) PROVE TypeOK'
    <3>1. deliveries' \in Table
      BY <2>23, <2>a, FailPendingTyped DEF ControlFailPending
    <3>2. QED
      BY <2>23, <3>1, IdleTyped DEF ControlFailPending, Table
  <2>24. ASSUME NEW d \in Devices, RequestBegin(d) PROVE TypeOK'
    BY <2>24 DEF RequestBegin, RequestState
  <2>25. ASSUME NEW d \in Devices, PutSettings(d) PROVE TypeOK'
    BY <2>25, IdleTyped DEF PutSettings
  <2>26. ASSUME NEW d \in Devices, SubscribeCheck(d) PROVE TypeOK'
    BY <2>26, IdleTyped, SubscribeHasOrigin DEF SubscribeCheck, RequestState
  <2>27. ASSUME NEW d \in Devices, NEW endpoint \in Endpoints, SubscribeSave(d, endpoint)
         PROVE  TypeOK'
    <3>1. subs' \in SubscriptionTable
      BY <2>27, <2>a, SubscribeHasOrigin, SaveTyped DEF SubscribeSave
    <3>2. QED
      BY <2>27, <3>1, IdleTyped DEF SubscribeSave, SubscriptionTable
  <2>28. ASSUME NEW d \in Devices, Unsubscribe(d) PROVE TypeOK'
    <3>1. subs' \in SubscriptionTable /\ deliveries' \in Table
      BY <2>28, <2>a, DeletionTyped DEF Unsubscribe
    <3>2. QED
      BY <2>28, <3>1, IdleTyped DEF Unsubscribe, SubscriptionTable, Table
  <2>29. ASSUME NEW d \in Devices, RequestError(d) PROVE TypeOK'
    BY <2>29, IdleTyped DEF RequestError
  <2>30. ASSUME NEW d \in Devices, RevokeBegin(d) PROVE TypeOK'
    BY <2>30 DEF RevokeBegin
  <2>31. ASSUME NEW d \in Devices, RevokeCleanup(d) PROVE TypeOK'
    <3>1. subs' \in SubscriptionTable /\ deliveries' \in Table
      BY <2>31, <2>a, DeletionTyped DEF RevokeCleanup
    <3>2. QED
      BY <2>31, <3>1 DEF RevokeCleanup, SubscriptionTable, Table
  <2>32. ASSUME NEW d \in Devices, Pair(d) PROVE TypeOK'
    BY <2>32 DEF Pair
  <2>33. CASE Restart
    <3>1. deliveries' \in Table
      BY <2>33, <2>a, RecoverSendingTyped DEF Restart
    <3>2. restarts' \in 0 .. MaxRestarts
      BY <2>33, PushOutboxAssumption DEF Restart
    <3>3. QED
      BY <2>33, <3>1, <3>2, IdleTyped
         DEF Restart, Table, Holding, Naps, Contexts
  <2>34. CASE UNCHANGED vars
    BY <2>34 DEF Holding
  <2>35. QED
    BY <2>1, <2>2, <2>3, <2>4, <2>5, <2>6, <2>7, <2>8, <2>9, <2>10, <2>11, <2>12, <2>13,
       <2>14, <2>15, <2>16, <2>17, <2>18, <2>19, <2>20, <2>21, <2>22, <2>23, <2>24, <2>25,
       <2>26, <2>27, <2>28, <2>29, <2>30, <2>31, <2>32, <2>33, <2>34, <2>j
       DEF Next, WorkerStep, AlertStep, ControlStep, RequestStep
<1>3. QED
  BY <1>1, <1>2, PTL DEF Spec

(***************************************************************************)
(* The strengthening for what is sent, row by row: a row is untouched until  *)
(* its dispatch, the worker's copy of a count agrees with the row's, and both *)
(* bound the number of pushes.                                              *)
(***************************************************************************)
Held(k) == wpc \in Holding /\ job.key = k

\* The dispatch of k's event has not reached k's device yet.
Undispatched(k) ==
  \/ alert[k[1]].pc \in {"idle", "targets"}
  \/ alert[k[1]].pc = "fanout" /\ k[2] \in alert[k[1]].todo

UntouchedBefore(k) == Undispatched(k) => deliveries[k] = NoRow /\ sends[k] = 0 /\ ~Held(k)

HeldIsOpen(k) == Held(k) => deliveries[k].status \in {"sending", "failed", "none"}

HeldIsCounted(k) ==
  Held(k) => /\ deliveries[k].status # "none" => deliveries[k].attempts = job.attempts
             /\ job.attempts <= 4 + restarts
             /\ IF wpc = "await" THEN sends[k] <= job.attempts ELSE sends[k] < job.attempts

RowIsCounted(k) ==
  deliveries[k].status # "none" =>
    /\ sends[k] <= deliveries[k].attempts
    /\ deliveries[k].attempts <= 4 + restarts
    /\ deliveries[k].status = "pending" => deliveries[k].attempts <= 3 + restarts

RowInv(k) ==
  /\ UntouchedBefore(k)
  /\ HeldIsOpen(k)
  /\ HeldIsCounted(k)
  /\ RowIsCounted(k)
  /\ sends[k] <= 4 + restarts

OutboxInv == \A k \in Keys : RowInv(k)

\* Every step keeps every row's invariant.
LEMMA OutboxInvStep == TypeOK /\ OutboxInv /\ [Next]_vars => OutboxInv'
<1> SUFFICES ASSUME TypeOK, OutboxInv, [Next]_vars, NEW k \in Keys PROVE RowInv(k)'
  BY DEF OutboxInv
<1> USE DEF vars, tables, worker, handlers
<1>i. RowInv(k)
  BY DEF OutboxInv
<1>t. /\ deliveries[k] \in DeliveryRow /\ sends \in [Keys -> Nat] /\ restarts \in Nat
      /\ deliveries \in Table
      /\ wpc \in Holding => job.key \in Keys /\ job.attempts \in Nat
  BY PushOutboxAssumption DEF TypeOK, Jobs, Table
<1>f. ASSUME deliveries'[k] = deliveries[k], UNCHANGED <<wpc, job, sends, restarts>>,
             Undispatched(k)' => Undispatched(k)
      PROVE  RowInv(k)'
  BY <1>f, <1>i DEF RowInv, UntouchedBefore, HeldIsOpen, HeldIsCounted, RowIsCounted, Held
\* The worker lets go of its row, or never held one.
<1>r. ASSUME wpc' \notin Holding, UNCHANGED <<alert, sends, restarts>>,
             \/ deliveries'[k] = deliveries[k]
             \/ deliveries'[k] = [deliveries[k] EXCEPT !.due = "drain"] /\ deliveries[k].due = "now"
             \/ /\ Held(k) /\ deliveries[k].status # "none"
                /\ \E status \in {"sent", "failed", "invalid_subscription"} :
                      deliveries'[k] = [deliveries[k] EXCEPT !.status = status]
             \/ /\ Held(k) /\ job.attempts <= 3 /\ deliveries[k].status # "none"
                /\ deliveries'[k] = [status |-> "pending", attempts |-> deliveries[k].attempts,
                                     due |-> "later"]
      PROVE  RowInv(k)'
  <2>1. UNCHANGED alert /\ ~Held(k)'
    BY <1>r DEF Held
  <2>2. Undispatched(k)' = Undispatched(k)
    BY <2>1 DEF Undispatched
  <2>3. UntouchedBefore(k)'
    BY <1>r, <1>i, <2>1, <2>2 DEF RowInv, UntouchedBefore, NoRow
  <2>4. RowIsCounted(k)'
    BY <1>r, <1>i, <1>t DEF RowInv, RowIsCounted, HeldIsCounted, DeliveryRow
  <2>5. QED
    BY <1>r, <1>i, <2>1, <2>3, <2>4 DEF RowInv, HeldIsOpen, HeldIsCounted
<1>1. CASE WorkerStart
  <2>1. wpc' \notin Holding
    BY <1>1 DEF WorkerStart, Holding
  <2>2. QED
    BY <1>1, <1>r, <1>t, <2>1 DEF WorkerStart, BeginDrain
<1>2. CASE WorkerClaim
  <2>1. PICK j \in Keys :
          /\ Due(deliveries, j)
          /\ deliveries' = ClaimDelivery(deliveries, j)
          /\ job' = [key |-> j, attempts |-> deliveries'[j].attempts, sub |-> NoSubscription]
    BY <1>2 DEF WorkerClaim
  <2>2. /\ wpc' = "load" /\ wpc = "claim" /\ UNCHANGED <<alert, sends, restarts>>
    BY <1>2 DEF WorkerClaim
  <2>3. Undispatched(k)' = Undispatched(k)
    BY <2>2 DEF Undispatched
  <2>4. CASE j = k
    <3>1. /\ deliveries'[k] = [status |-> "sending", attempts |-> deliveries[k].attempts + 1,
                               due |-> "drain"]
          /\ job'.key = k /\ job'.attempts = deliveries[k].attempts + 1
      BY <2>1, <2>4, <1>t DEF ClaimDelivery, Table
    <3>2. deliveries[k].status = "pending"
      BY <2>1, <2>4 DEF Due
    <3>3. deliveries[k].attempts <= 3 + restarts /\ sends[k] <= deliveries[k].attempts
          /\ ~Undispatched(k)
      BY <3>2, <1>i DEF RowInv, RowIsCounted, UntouchedBefore, NoRow
    <3>4. deliveries[k].attempts \in Nat /\ sends[k] \in Nat
      BY <1>t DEF DeliveryRow
    <3>5. QED
      BY <3>1, <3>2, <3>3, <3>4, <2>2, <2>3, <1>t, <1>i
         DEF RowInv, UntouchedBefore, HeldIsOpen, HeldIsCounted, RowIsCounted
  <2>5. CASE j # k
    <3>1. deliveries'[k] = deliveries[k] /\ job'.key # k
      BY <2>1, <2>5, <1>t DEF ClaimDelivery, Table
    <3>2. QED
      BY <3>1, <2>2, <2>3, <1>i
         DEF RowInv, UntouchedBefore, HeldIsOpen, HeldIsCounted, RowIsCounted, Held
  <2>6. QED
    BY <2>4, <2>5
<1>3. CASE WorkerDrained
  <2>1. wpc' \notin Holding
    BY <1>3 DEF WorkerDrained, Holding
  <2>2. QED
    BY <1>3, <1>r, <2>1 DEF WorkerDrained
<1>4. CASE WorkerLoad
  <2>1. CASE subs[job.key[2]].live
    <3>1. /\ job' = [job EXCEPT !.sub = subs[job.key[2]]] /\ wpc' = "check" /\ wpc = "load"
          /\ UNCHANGED <<deliveries, alert, sends, restarts>>
      BY <2>1, <1>4 DEF WorkerLoad
    <3>2. Undispatched(k)' = Undispatched(k)
      BY <3>1 DEF Undispatched
    <3>3. job \in Jobs
      BY <3>1 DEF TypeOK, Holding
    <3>4. job'.key = job.key /\ job'.attempts = job.attempts
      BY <3>1, <3>3 DEF Jobs
    <3>5. Held(k)' <=> Held(k)
      BY <3>1, <3>4 DEF Held, Holding
    <3>6. QED
      BY <3>1, <3>2, <3>4, <3>5, <1>i
         DEF RowInv, UntouchedBefore, HeldIsOpen, HeldIsCounted, RowIsCounted
  <2>2. CASE ~subs[job.key[2]].live
    <3>1. /\ deliveries' = UpdateStatus(deliveries, job.key, "invalid_subscription")
          /\ wpc' = "claim" /\ wpc = "load" /\ UNCHANGED <<alert, sends, restarts>>
      BY <2>2, <1>4 DEF WorkerLoad, MarkInvalidSubscription
    <3>2. wpc' \notin Holding /\ wpc \in Holding
      BY <3>1 DEF Holding
    <3>3. QED
      BY <3>1, <3>2, <1>r, <1>t DEF UpdateStatus, Table, Held
  <2>3. QED
    BY <2>1, <2>2
<1>5. CASE WorkerCheck
  <2>1. /\ wpc = "check" /\ wpc' \in {"send", "mismatch"}
        /\ UNCHANGED <<deliveries, job, alert, sends, restarts>>
    BY <1>5 DEF WorkerCheck
  <2>2. Undispatched(k)' = Undispatched(k)
    BY <2>1 DEF Undispatched
  <2>3. Held(k)' <=> Held(k)
    BY <2>1 DEF Held, Holding
  <2>4. QED
    BY <2>1, <2>2, <2>3, <1>i
       DEF RowInv, UntouchedBefore, HeldIsOpen, HeldIsCounted, RowIsCounted
<1>6. CASE WorkerMismatch
  <2>1. /\ deliveries' = UpdateStatus(deliveries, job.key, "invalid_subscription")
        /\ wpc' = "claim" /\ wpc = "mismatch" /\ UNCHANGED <<alert, sends, restarts>>
    BY <1>6 DEF WorkerMismatch, MarkInvalidSubscription
  <2>2. wpc' \notin Holding /\ wpc \in Holding
    BY <2>1 DEF Holding
  <2>3. QED
    BY <2>1, <2>2, <1>r, <1>t DEF UpdateStatus, Table, Held
<1>j. CASE WorkerReject
  <2>1. /\ deliveries' = UpdateStatus(deliveries, job.key, "failed")
        /\ wpc' = "claim" /\ wpc = "load" /\ UNCHANGED <<alert, sends, restarts>>
    BY <1>j DEF WorkerReject, MarkFailed
  <2>2. wpc' \notin Holding /\ wpc \in Holding
    BY <2>1 DEF Holding
  <2>3. QED
    BY <2>1, <2>2, <1>r, <1>t DEF UpdateStatus, Table, Held
<1>7. CASE WorkerSend
  <2>1. /\ wpc = "send" /\ wpc' = "await" /\ sends' = [sends EXCEPT ![job.key] = @ + 1]
        /\ UNCHANGED <<deliveries, job, alert, restarts>>
    BY <1>7 DEF WorkerSend
  <2>2. Undispatched(k)' = Undispatched(k)
    BY <2>1 DEF Undispatched
  <2>3. Held(k)' <=> Held(k)
    BY <2>1 DEF Held, Holding
  <2>4. sends'[k] = IF job.key = k THEN sends[k] + 1 ELSE sends[k]
    BY <2>1, <1>t
  <2>5. job.key = k <=> Held(k)
    BY <2>1 DEF Held, Holding
  <2>6. CASE Held(k)
    <3>1. sends[k] < job.attempts /\ job.attempts <= 4 + restarts /\ ~Undispatched(k)
          /\ (deliveries[k].status # "none" => deliveries[k].attempts = job.attempts)
          /\ deliveries[k].status \in {"sending", "failed", "none"}
          /\ deliveries[k].status # "pending"
      BY <2>1, <2>6, <1>i DEF RowInv, HeldIsCounted, UntouchedBefore, HeldIsOpen
    <3>2. sends'[k] <= job.attempts
      BY <2>4, <2>5, <2>6, <3>1, <1>t DEF Held, Holding
    <3>3. sends'[k] <= 4 + restarts
      BY <3>1, <3>2, <1>t, <2>1, <2>4 DEF Holding
    <3>4. QED
      BY <3>1, <3>2, <3>3, <2>1, <2>2, <2>3, <1>i
         DEF RowInv, UntouchedBefore, HeldIsOpen, HeldIsCounted, RowIsCounted
  <2>7. CASE ~Held(k)
    BY <2>1, <2>2, <2>3, <2>4, <2>5, <2>7, <1>i
       DEF RowInv, UntouchedBefore, HeldIsOpen, HeldIsCounted, RowIsCounted
  <2>8. QED
    BY <2>6, <2>7
<1>8. ASSUME NEW outcome \in Outcomes, WorkerResult(outcome) PROVE RowInv(k)'
  <2>1. /\ wpc' = "claim" /\ wpc = "await" /\ UNCHANGED <<alert, sends, restarts>>
        /\ \/ /\ deliveries' = MarkRetry(deliveries, job.key)
              /\ job.attempts <= 3
           \/ \E status \in {"sent", "failed", "invalid_subscription"} :
                deliveries' = UpdateStatus(deliveries, job.key, status)
    BY <1>8 DEF WorkerResult, MarkSent, MarkInvalidSubscription, MarkFailed
  <2>2. wpc' \notin Holding /\ wpc \in Holding
    BY <2>1 DEF Holding
  <2>3. CASE deliveries' = MarkRetry(deliveries, job.key) /\ job.attempts <= 3
    BY <2>1, <2>2, <2>3, <1>r, <1>t DEF MarkRetry, Table, Held
  <2>4. ASSUME NEW status \in {"sent", "failed", "invalid_subscription"},
               deliveries' = UpdateStatus(deliveries, job.key, status)
        PROVE  RowInv(k)'
    BY <2>1, <2>2, <2>4, <1>r, <1>t DEF UpdateStatus, Table, Held
  <2>5. QED
    BY <2>1, <2>3, <2>4
<1>9. CASE WorkerPlan \/ WorkerNextDue \/ WorkerSleep \/ WorkerTimer \/ WorkerWoken \/ WorkerError
  <2>1. wpc' \notin Holding /\ UNCHANGED <<deliveries, alert, sends, restarts>>
    BY <1>9 DEF WorkerPlan, WorkerNextDue, WorkerSleep, WorkerTimer, WorkerWoken, WorkerError,
                Holding
  <2>2. QED
    BY <2>1, <1>r
<1>10. ASSUME NEW j \in Keys, Elapse(j) PROVE RowInv(k)'
  <2>1. /\ deliveries[j].status = "pending" /\ deliveries' = Ripen(deliveries, j)
        /\ UNCHANGED <<alert, wpc, job, sends, restarts>>
    BY <1>10 DEF Elapse
  <2>2. Undispatched(k)' = Undispatched(k) /\ (Held(k)' <=> Held(k))
    BY <2>1 DEF Undispatched, Held
  <2>3. /\ deliveries'[k].status = deliveries[k].status
        /\ deliveries'[k].attempts = deliveries[k].attempts
        /\ deliveries[k] = NoRow => deliveries'[k] = NoRow
    BY <2>1, <1>t DEF Ripen, Table, DeliveryRow, NoRow
  <2>4. QED
    BY <2>1, <2>2, <2>3, <1>i
       DEF RowInv, UntouchedBefore, HeldIsOpen, HeldIsCounted, RowIsCounted
<1>11. ASSUME NEW e \in Events, AlertRaised(e) PROVE RowInv(k)'
  <2>1. Undispatched(k)' => Undispatched(k)
    BY <1>11 DEF AlertRaised, Undispatched, TypeOK, Keys
  <2>2. QED
    BY <1>11, <1>f, <2>1 DEF AlertRaised
<1>12. ASSUME NEW e \in Events, AlertTargets(e) PROVE RowInv(k)'
  <2>1. Undispatched(k)' => Undispatched(k)
    BY <1>12 DEF AlertTargets, Undispatched, TypeOK, Keys
  <2>2. QED
    BY <1>12, <1>f, <2>1 DEF AlertTargets
<1>13. ASSUME NEW e \in Events, NEW d \in Devices, TestAlert(e, d) PROVE RowInv(k)'
  <2>1. Undispatched(k)' => Undispatched(k)
    BY <1>13 DEF TestAlert, Undispatched, TypeOK, Keys
  <2>2. QED
    BY <1>13, <1>f, <2>1 DEF TestAlert
<1>14. ASSUME NEW e \in Events, NEW d \in Devices, AlertEnqueue(e, d) PROVE RowInv(k)'
  <2>1. /\ alert[e].pc = "fanout" /\ d \in alert[e].todo
        /\ alert' = [alert EXCEPT ![e].todo = @ \ {d}]
        /\ UNCHANGED <<wpc, job, sends, restarts>>
    BY <1>14 DEF AlertEnqueue
  <2>2. Undispatched(k)' => Undispatched(k) /\ k # <<e, d>>
    BY <2>1 DEF Undispatched, TypeOK, Keys, AlertState
  <2>3. \/ deliveries' = deliveries
        \/ \E due \in {"now", "drain"} : deliveries' = EnqueueDelivery(deliveries, <<e, d>>, due)
    BY <1>14 DEF AlertEnqueue
  <2>4. CASE k # <<e, d>>
    <3>1. deliveries'[k] = deliveries[k]
      BY <2>3, <2>4, <1>t DEF EnqueueDelivery, Table
    <3>2. QED
      BY <3>1, <2>1, <2>2, <1>f
  <2>5. CASE k = <<e, d>>
    <3>1. Undispatched(k) /\ ~Undispatched(k)'
      BY <2>1, <2>2, <2>5 DEF Undispatched
    <3>2. deliveries[k] = NoRow /\ sends[k] = 0 /\ ~Held(k)
      BY <3>1, <1>i DEF RowInv, UntouchedBefore
    <3>3. \/ deliveries'[k] = NoRow
          \/ \E due \in {"now", "drain"} :
               deliveries'[k] = [status |-> "pending", attempts |-> 0, due |-> due]
      BY <2>3, <2>5, <3>2, <1>t DEF EnqueueDelivery, Table
    <3>4. deliveries'[k].status \in {"none", "pending"} /\ deliveries'[k].attempts = 0
      BY <3>3 DEF NoRow
    <3>5. ~Held(k)'
      BY <3>2, <2>1 DEF Held
    <3>6. QED
      BY <3>1, <3>2, <3>4, <3>5, <2>1, <1>t
         DEF RowInv, UntouchedBefore, HeldIsOpen, HeldIsCounted, RowIsCounted
  <2>6. QED
    BY <2>4, <2>5
<1>15. ASSUME NEW e \in Events, AlertDispatched(e) PROVE RowInv(k)'
  <2>1. Undispatched(k)' => Undispatched(k)
    BY <1>15 DEF AlertDispatched, AlertDone, Undispatched, TypeOK, Keys
  <2>2. QED
    BY <1>15, <1>f, <2>1 DEF AlertDispatched
\* A step that leaves the alerts and the worker alone and fails or deletes rows.
<1>d. ASSUME UNCHANGED <<alert, wpc, job, sends, restarts>>,
             \/ deliveries'[k] = deliveries[k]
             \/ deliveries'[k] = NoRow
             \/ /\ deliveries[k].status \in Open
                /\ deliveries'[k] = [deliveries[k] EXCEPT !.status = "failed"]
      PROVE  RowInv(k)'
  <2>1. Undispatched(k)' = Undispatched(k) /\ (Held(k)' <=> Held(k))
    BY <1>d DEF Undispatched, Held
  <2>2. CASE deliveries'[k] = deliveries[k]
    BY <2>1, <2>2, <1>d, <1>f
  <2>3. CASE deliveries'[k] = NoRow
    BY <2>1, <2>3, <1>d, <1>i
       DEF RowInv, UntouchedBefore, HeldIsOpen, HeldIsCounted, RowIsCounted, NoRow
  <2>4. CASE /\ deliveries[k].status \in Open
             /\ deliveries'[k] = [deliveries[k] EXCEPT !.status = "failed"]
    <3>1. deliveries'[k].status = "failed" /\ deliveries'[k].attempts = deliveries[k].attempts
      BY <2>4, <1>t DEF DeliveryRow
    <3>2. ~Undispatched(k)
      BY <2>4, <1>i DEF RowInv, UntouchedBefore, NoRow, Open
    <3>3. QED
      BY <2>1, <2>4, <3>1, <3>2, <1>d, <1>i
         DEF RowInv, UntouchedBefore, HeldIsOpen, HeldIsCounted, RowIsCounted, Open
  <2>5. QED
    BY <2>2, <2>3, <2>4, <1>d
<1>16. ASSUME NEW c \in Controls, ControlStep(c) \/ \E x \in Contexts : ControlRead(c, x)
       PROVE  RowInv(k)'
  <2>1. /\ UNCHANGED <<alert, wpc, job, sends, restarts>>
        /\ deliveries' = deliveries \/ deliveries' = FailPending(deliveries)
    BY <1>16 DEF ControlStep, ControlRead, ControlUpdate, ControlFailPending
  <2>2. QED
    BY <2>1, <1>d DEF FailPending
<1>17. ASSUME NEW d \in Devices,
              \/ RequestBegin(d) \/ RequestStep(d)
              \/ RevokeBegin(d) \/ RevokeCleanup(d) \/ Pair(d)
       PROVE  RowInv(k)'
  <2>1. /\ UNCHANGED <<alert, wpc, job, sends, restarts>>
        /\ deliveries' = deliveries \/ deliveries' = DeleteDeliveries(deliveries, d)
    BY <1>17 DEF RequestBegin, RequestStep, PutSettings, SubscribeCheck, SubscribeSave,
                 Unsubscribe, RequestError, RevokeBegin, RevokeCleanup, Pair
  <2>2. QED
    BY <2>1, <1>d DEF DeleteDeliveries
<1>18. CASE Restart
  <2>1. Undispatched(k)' => Undispatched(k)
    BY <1>18 DEF Restart, AlertIdle, AlertDone, Undispatched, Keys
  <2>2. ~Held(k)' /\ restarts' = restarts + 1 /\ sends' = sends
        /\ deliveries' = RecoverSending(deliveries)
    BY <1>18 DEF Restart, Held, Holding
  <2>3. deliveries'[k] = IF deliveries[k].status = "sending"
                           THEN [deliveries[k] EXCEPT !.status = "pending"]
                           ELSE deliveries[k]
    BY <2>2 DEF RecoverSending
  <2>4. deliveries'[k].attempts = deliveries[k].attempts
        /\ deliveries[k].attempts \in Nat /\ sends[k] \in Nat
        /\ (deliveries'[k].status = "none" <=> deliveries[k].status = "none")
        /\ (deliveries[k] = NoRow => deliveries'[k] = NoRow)
    BY <2>3, <1>t DEF DeliveryRow, NoRow
  <2>5. RowIsCounted(k)'
    BY <2>2, <2>3, <2>4, <1>i, <1>t DEF RowInv, RowIsCounted
  <2>6. sends'[k] <= 4 + restarts'
    BY <2>2, <2>4, <1>i, <1>t DEF RowInv
  <2>7. QED
    BY <2>1, <2>2, <2>4, <2>5, <2>6, <1>i
       DEF RowInv, UntouchedBefore, HeldIsOpen, HeldIsCounted
<1>19. CASE UNCHANGED vars
  <2>1. Undispatched(k)' = Undispatched(k)
    BY <1>19 DEF Undispatched
  <2>2. QED
    BY <1>19, <1>f, <2>1
<1>20. QED
  BY <1>1, <1>2, <1>3, <1>4, <1>5, <1>6, <1>7, <1>8, <1>9, <1>10, <1>11, <1>12, <1>13, <1>14,
     <1>15, <1>16, <1>17, <1>18, <1>19, <1>j
     DEF Next, WorkerStep, AlertStep

\* The strengthening is an invariant.
THEOREM OutboxInvariant == Spec => []OutboxInv
<1>1. Init => OutboxInv
  BY DEF Init, OutboxInv, RowInv, UntouchedBefore, HeldIsOpen, HeldIsCounted, RowIsCounted,
         Held, Holding, NoRow
<1>2. QED
  BY <1>1, TypeCorrect, OutboxInvStep, PTL DEF Spec

\* No row is ever pushed more than 4 times, plus once for each restart.
THEOREM SendBudgetHolds == Spec => []SendBudget
<1>1. OutboxInv => SendBudget
  BY DEF OutboxInv, RowInv, SendBudget
<1>2. QED
  BY <1>1, OutboxInvariant, PTL

(***************************************************************************)
(* What may happen to a row that is settled                                 *)
(***************************************************************************)

\* Only the worker that holds a row takes it out of a final status; anything else
\* can only delete it.
LEMMA FinalRowStep ==
  TypeOK /\ [Next]_vars =>
    \A k \in Keys :
      deliveries[k].status \in {"sent", "invalid_subscription", "failed"} /\ ~Held(k) =>
        deliveries'[k].status \in {deliveries[k].status, "none"}
<1> SUFFICES ASSUME TypeOK, [Next]_vars, NEW k \in Keys,
                    deliveries[k].status \in {"sent", "invalid_subscription", "failed"}, ~Held(k)
             PROVE  deliveries'[k].status \in {deliveries[k].status, "none"}
  OBVIOUS
<1> USE DEF vars, tables, worker, handlers
<1>t. deliveries \in Table /\ deliveries[k] \in DeliveryRow
  BY DEF TypeOK, Table
<1>u. ASSUME NEW status, wpc \in Holding, deliveries' = UpdateStatus(deliveries, job.key, status)
      PROVE  deliveries'[k] = deliveries[k]
  BY <1>u, <1>t DEF UpdateStatus, Table, Held
<1>1. CASE WorkerStart
  BY <1>1, <1>t DEF WorkerStart, BeginDrain, DeliveryRow
<1>2. CASE WorkerClaim
  BY <1>2, <1>t DEF WorkerClaim, Due, ClaimDelivery, Table
<1>3. CASE WorkerLoad
  BY <1>3, <1>u DEF WorkerLoad, MarkInvalidSubscription, Holding
<1>4. CASE WorkerMismatch
  BY <1>4, <1>u DEF WorkerMismatch, MarkInvalidSubscription, Holding
<1>j. CASE WorkerReject
  BY <1>j, <1>u DEF WorkerReject, MarkFailed, Holding
<1>5. ASSUME NEW outcome \in Outcomes, WorkerResult(outcome)
      PROVE  deliveries'[k] = deliveries[k]
  <2>1. /\ wpc \in Holding
        /\ \/ deliveries' = MarkRetry(deliveries, job.key)
           \/ \E status \in Statuses : deliveries' = UpdateStatus(deliveries, job.key, status)
    BY <1>5 DEF WorkerResult, MarkSent, MarkInvalidSubscription, MarkFailed, Statuses, Holding
  <2>2. CASE deliveries' = MarkRetry(deliveries, job.key)
    BY <2>1, <2>2, <1>t DEF MarkRetry, Table, Held
  <2>3. QED
    BY <2>1, <2>2, <1>u
<1>6. CASE \/ WorkerDrained \/ WorkerCheck \/ WorkerSend \/ WorkerPlan \/ WorkerNextDue
           \/ WorkerSleep \/ WorkerTimer \/ WorkerWoken \/ WorkerError
  BY <1>6 DEF WorkerDrained, WorkerCheck, WorkerSend, WorkerPlan, WorkerNextDue,
              WorkerSleep, WorkerTimer, WorkerWoken, WorkerError
<1>7. ASSUME NEW j \in Keys, Elapse(j) PROVE deliveries'[k] = deliveries[k]
  BY <1>7, <1>t DEF Elapse, Ripen, Table
<1>8. ASSUME NEW e \in Events, NEW d \in Devices, AlertEnqueue(e, d)
      PROVE  deliveries'[k] = deliveries[k]
  BY <1>8, <1>t DEF AlertEnqueue, EnqueueDelivery, Table
<1>9. ASSUME NEW e \in Events,
             \/ AlertRaised(e) \/ AlertTargets(e) \/ AlertDispatched(e)
             \/ \E d \in Devices : TestAlert(e, d)
      PROVE  deliveries' = deliveries
  BY <1>9 DEF AlertRaised, AlertTargets, AlertDispatched, TestAlert
<1>10. ASSUME NEW c \in Controls, ControlStep(c) \/ \E x \in Contexts : ControlRead(c, x)
       PROVE  deliveries'[k] = deliveries[k]
  BY <1>10 DEF ControlStep, ControlRead, ControlUpdate, ControlFailPending, FailPending, Open
<1>11. ASSUME NEW d \in Devices,
              \/ RequestBegin(d) \/ RequestStep(d)
              \/ RevokeBegin(d) \/ RevokeCleanup(d) \/ Pair(d)
       PROVE  deliveries'[k] \in {deliveries[k], NoRow}
  BY <1>11 DEF RequestBegin, RequestStep, PutSettings, SubscribeCheck, SubscribeSave,
               Unsubscribe, RequestError, RevokeBegin, RevokeCleanup, Pair, DeleteDeliveries
<1>12. CASE Restart
  BY <1>12 DEF Restart, RecoverSending
<1>13. CASE UNCHANGED vars
  BY <1>13
<1>14. NoRow.status = "none"
  BY DEF NoRow
<1>15. QED
  BY <1>1, <1>2, <1>3, <1>4, <1>5, <1>6, <1>7, <1>8, <1>9, <1>10, <1>11, <1>12, <1>13, <1>14,
     <1>j DEF Next, WorkerStep, AlertStep

\* A row recorded as sent, or as having no subscription, never changes again until it
\* is deleted.
THEOREM SettledStaysSettled == Spec => SettledIsFinal
<1>1. TypeOK /\ OutboxInv /\ [Next]_vars =>
        [\A k \in Keys :
           deliveries[k].status \in {"sent", "invalid_subscription"} =>
             deliveries'[k].status \in {deliveries[k].status, "none"}]_vars
  BY FinalRowStep DEF OutboxInv, RowInv, HeldIsOpen
<1>2. QED
  BY <1>1, TypeCorrect, OutboxInvariant, PTL DEF Spec, SettledIsFinal

\* A failed row is written again only by the attempt that was out when it failed.
THEOREM FailedStaysFailed == Spec => FailedUnlessInFlight
<1>1. TypeOK /\ [Next]_vars =>
        [\A k \in Keys :
           deliveries[k].status = "failed" /\ ~(wpc \in Holding /\ job.key = k) =>
             deliveries'[k].status \in {"failed", "none"}]_vars
  BY FinalRowStep DEF Held
<1>2. QED
  BY <1>1, TypeCorrect, PTL DEF Spec, FailedUnlessInFlight

(***************************************************************************)
(* The two tables                                                          *)
(***************************************************************************)

\* No delivery row outlives its device's subscription row.
THEOREM NoOrphans == Spec => []NoOrphanDelivery
<1>1. Init => NoOrphanDelivery
  BY DEF Init, NoOrphanDelivery
<1>2. TypeOK /\ NoOrphanDelivery /\ [Next]_vars => NoOrphanDelivery'
  <2> SUFFICES ASSUME TypeOK, NoOrphanDelivery, [Next]_vars, NEW k \in Keys,
                      subs'[k[2]] = NoSubscription
               PROVE  deliveries'[k] = NoRow
    BY DEF NoOrphanDelivery
  <2> USE DEF vars, tables, worker, handlers
  <2>t. /\ deliveries \in Table /\ deliveries[k] \in DeliveryRow
        /\ subs \in SubscriptionTable /\ k[2] \in Devices
    BY DEF TypeOK, Table, SubscriptionTable, Keys
  <2>n. NoRow.status = "none" /\ NoRow.due = "later" /\ NoSubscription.live = FALSE
    BY DEF NoRow, NoSubscription
  \* A statement on a row that exists changes nothing when there is none.
  <2>s. ASSUME subs[k[2]] = NoSubscription PROVE deliveries[k] = NoRow
    BY <2>s DEF NoOrphanDelivery
  <2>v. ASSUME NEW d \in Devices, subs' = InvalidateSubscription(subs, d)
        PROVE  subs[k[2]] = NoSubscription
    BY <2>v, <2>t DEF InvalidateSubscription, SubscriptionTable, Subscription, NoSubscription
  <2>u. ASSUME NEW status, NEW j, deliveries[k] = NoRow,
               deliveries' = UpdateStatus(deliveries, j, status)
        PROVE  deliveries'[k] = NoRow
    BY <2>u, <2>t, <2>n DEF UpdateStatus, Table
  <2>1. CASE WorkerStart
    BY <2>1, <2>s, <2>n DEF WorkerStart, BeginDrain
  <2>2. CASE WorkerClaim
    BY <2>2, <2>s, <2>n, <2>t DEF WorkerClaim, Due, ClaimDelivery, Table
  <2>3. CASE WorkerLoad
    BY <2>3, <2>s, <2>u DEF WorkerLoad, MarkInvalidSubscription
  <2>4. CASE WorkerMismatch
    <3>1. job.key[2] \in Devices
      BY <2>4 DEF WorkerMismatch, TypeOK, Holding, Jobs, Keys
    <3>2. QED
      BY <2>4, <3>1, <2>s, <2>u, <2>v DEF WorkerMismatch, MarkInvalidSubscription
  <2>j. CASE WorkerReject
    BY <2>j, <2>s, <2>u DEF WorkerReject, MarkFailed
  <2>5. ASSUME NEW outcome \in Outcomes, WorkerResult(outcome) PROVE deliveries'[k] = NoRow
    <3>1. /\ wpc \in Holding
          /\ subs' = subs \/ subs' = InvalidateSubscription(subs, job.key[2])
          /\ \/ deliveries' = MarkRetry(deliveries, job.key)
             \/ \E status \in Statuses : deliveries' = UpdateStatus(deliveries, job.key, status)
      BY <2>5 DEF WorkerResult, MarkSent, MarkInvalidSubscription, MarkFailed, Statuses, Holding
    <3>2. job.key[2] \in Devices
      BY <3>1 DEF TypeOK, Jobs, Keys
    <3>3. deliveries[k] = NoRow
      BY <3>1, <3>2, <2>s, <2>v
    <3>4. CASE deliveries' = MarkRetry(deliveries, job.key)
      BY <3>3, <3>4, <2>n, <2>t DEF MarkRetry, Table
    <3>5. QED
      BY <3>1, <3>3, <3>4, <2>u
  <2>6. CASE WorkerError
    <3>1. wpc \in {"mismatch", "await"} => job.key[2] \in Devices
      BY DEF TypeOK, Holding, Jobs, Keys
    <3>2. QED
      BY <2>6, <3>1, <2>s, <2>v DEF WorkerError
  <2>7. CASE \/ WorkerDrained \/ WorkerCheck \/ WorkerSend \/ WorkerPlan \/ WorkerNextDue
             \/ WorkerSleep \/ WorkerTimer \/ WorkerWoken
    BY <2>7, <2>s DEF WorkerDrained, WorkerCheck, WorkerSend, WorkerPlan, WorkerNextDue,
                      WorkerSleep, WorkerTimer, WorkerWoken
  <2>8. ASSUME NEW j \in Keys, Elapse(j) PROVE deliveries'[k] = NoRow
    BY <2>8, <2>s, <2>n, <2>t DEF Elapse, Ripen, Table
  \* Rows are inserted only for a device with a live subscription.
  <2>9. ASSUME NEW e \in Events, NEW d \in Devices, AlertEnqueue(e, d)
        PROVE  deliveries'[k] = NoRow
    <3>1. subs[k[2]] = NoSubscription /\ deliveries[k] = NoRow
      BY <2>9, <2>s DEF AlertEnqueue
    <3>2. Accepts(e, d) => k # <<e, d>>
      BY <3>1, <2>n DEF Accepts
    <3>3. QED
      BY <2>9, <3>1, <3>2, <2>t DEF AlertEnqueue, EnqueueDelivery, Table
  <2>10. ASSUME NEW e \in Events,
                \/ AlertRaised(e) \/ AlertTargets(e) \/ AlertDispatched(e)
                \/ \E d \in Devices : TestAlert(e, d)
         PROVE  deliveries'[k] = NoRow
    BY <2>10, <2>s DEF AlertRaised, AlertTargets, AlertDispatched, TestAlert
  <2>11. ASSUME NEW c \in Controls, ControlStep(c) \/ \E x \in Contexts : ControlRead(c, x)
         PROVE  deliveries'[k] = NoRow
    BY <2>11, <2>s, <2>n DEF ControlStep, ControlRead, ControlUpdate, ControlFailPending,
                            FailPending, Open
  <2>12. ASSUME NEW d \in Devices, NEW endpoint \in Endpoints, SubscribeSave(d, endpoint)
         PROVE  deliveries'[k] = NoRow
    BY <2>12, <2>s, <2>t DEF SubscribeSave, SaveSubscription, SubscriptionTable, NoSubscription
  <2>13. ASSUME NEW d \in Devices, Unsubscribe(d) \/ RevokeCleanup(d)
         PROVE  deliveries'[k] = NoRow
    BY <2>13, <2>s, <2>t DEF Unsubscribe, RevokeCleanup, DeleteSubscription, DeleteDeliveries,
                            SubscriptionTable
  <2>14. ASSUME NEW d \in Devices,
                \/ RequestBegin(d) \/ PutSettings(d) \/ SubscribeCheck(d) \/ RequestError(d)
                \/ RevokeBegin(d) \/ Pair(d)
         PROVE  deliveries'[k] = NoRow
    BY <2>14, <2>s DEF RequestBegin, PutSettings, SubscribeCheck, RequestError, RevokeBegin, Pair
  <2>15. CASE Restart
    BY <2>15, <2>s, <2>n DEF Restart, RecoverSending
  <2>16. CASE UNCHANGED vars
    BY <2>16, <2>s
  <2>17. QED
    BY <2>1, <2>2, <2>3, <2>4, <2>5, <2>6, <2>7, <2>8, <2>9, <2>10, <2>11, <2>12, <2>13,
       <2>14, <2>15, <2>16, <2>j DEF Next, WorkerStep, AlertStep, RequestStep
<1>3. QED
  BY <1>1, <1>2, TypeCorrect, PTL DEF Spec

(***************************************************************************)
(* Rows being sent                                                         *)
(***************************************************************************)

\* A deleted row is not being sent.
LEMMA NotSendingAfterDelete == NoRow.status # "sending"
  BY DEF NoRow

\* While statements succeed, a row is "sending" only while the worker holds it.
THEOREM SendingHeld == Spec => []SendingIsHeld
<1>1. Init => SendingIsHeld
  BY DEF Init, SendingIsHeld, NoRow
<1>2. TypeOK /\ SendingIsHeld /\ [Next]_vars => SendingIsHeld'
  <2> SUFFICES ASSUME TypeOK, SendingIsHeld, [Next]_vars, ~StoreMayFail,
                      NEW k \in Keys, deliveries'[k].status = "sending"
               PROVE  Held(k)'
    BY DEF SendingIsHeld, Held
  <2> USE DEF vars, tables, worker, handlers
  <2>t. deliveries \in Table /\ deliveries[k] \in DeliveryRow
    BY DEF TypeOK, Table
  <2>s. deliveries[k].status = "sending" => Held(k)
    BY DEF SendingIsHeld, Held
  \* After the mark, the row the worker held is no longer being sent.
  <2>u. ASSUME NEW status \in Statuses \ {"sending"}, wpc \in Holding,
               deliveries' = UpdateStatus(deliveries, job.key, status)
        PROVE  FALSE
    <3>1. CASE job.key = k
      BY <2>u, <2>t, <3>1 DEF UpdateStatus, Table, DeliveryRow
    <3>2. CASE job.key # k
      BY <2>u, <2>t, <2>s, <3>2 DEF UpdateStatus, Table, Held
    <3>3. QED
      BY <3>1, <3>2
  <2>k. ASSUME deliveries[k].status = "sending", UNCHANGED job, wpc' \in Holding
        PROVE  Held(k)'
    BY <2>k, <2>s DEF Held
  <2>1. CASE WorkerStart
    BY <2>1, <2>t, <2>s DEF WorkerStart, BeginDrain, Held, Holding, DeliveryRow
  <2>2. CASE WorkerClaim
    BY <2>2, <2>t, <2>s DEF WorkerClaim, ClaimDelivery, Held, Holding, Table
  <2>3. CASE WorkerLoad
    <3>1. CASE subs[job.key[2]].live
      <4>1. job' = [job EXCEPT !.sub = subs[job.key[2]]] /\ wpc' = "check" /\ wpc = "load"
            /\ UNCHANGED deliveries
        BY <2>3, <3>1 DEF WorkerLoad
      <4>2. job \in Jobs
        BY <4>1 DEF TypeOK, Holding
      <4>3. job'.key = job.key
        BY <4>1, <4>2 DEF Jobs
      <4>4. QED
        BY <4>1, <4>3, <2>s DEF Held, Holding
    <3>2. CASE ~subs[job.key[2]].live
      BY <2>3, <3>2, <2>u DEF WorkerLoad, MarkInvalidSubscription, Holding, Statuses
    <3>3. QED
      BY <3>1, <3>2
  <2>4. CASE WorkerMismatch
    BY <2>4, <2>u DEF WorkerMismatch, MarkInvalidSubscription, Holding, Statuses
  <2>j. CASE WorkerReject
    BY <2>j, <2>u DEF WorkerReject, MarkFailed, Holding, Statuses
  <2>5. CASE WorkerCheck \/ WorkerSend
    BY <2>5, <2>k DEF WorkerCheck, WorkerSend, Holding
  <2>6. ASSUME NEW outcome \in Outcomes, WorkerResult(outcome) PROVE FALSE
    <3>1. /\ wpc \in Holding
          /\ \/ deliveries' = MarkRetry(deliveries, job.key)
             \/ \E status \in Statuses \ {"sending"} :
                  deliveries' = UpdateStatus(deliveries, job.key, status)
      BY <2>6 DEF WorkerResult, MarkSent, MarkInvalidSubscription, MarkFailed, Statuses, Holding
    <3>2. CASE deliveries' = MarkRetry(deliveries, job.key)
      BY <3>1, <3>2, <2>t, <2>s DEF MarkRetry, Table, Held
    <3>3. QED
      BY <3>1, <3>2, <2>u
  <2>7. CASE \/ WorkerDrained \/ WorkerPlan \/ WorkerNextDue \/ WorkerSleep \/ WorkerTimer
             \/ WorkerWoken
    BY <2>7, <2>s DEF WorkerDrained, WorkerPlan, WorkerNextDue, WorkerSleep, WorkerTimer,
                      WorkerWoken, Held, Holding
  <2>8. CASE WorkerError
    BY <2>8 DEF WorkerError
  <2>9. ASSUME NEW j \in Keys, Elapse(j) PROVE Held(k)'
    BY <2>9, <2>t, <2>s DEF Elapse, Ripen, Table, DeliveryRow, Held
  <2>10. ASSUME NEW e \in Events, NEW d \in Devices, AlertEnqueue(e, d) PROVE Held(k)'
    BY <2>10, <2>t, <2>s DEF AlertEnqueue, EnqueueDelivery, Table, Held
  <2>11. ASSUME NEW e \in Events,
                \/ AlertRaised(e) \/ AlertTargets(e) \/ AlertDispatched(e)
                \/ \E d \in Devices : TestAlert(e, d)
         PROVE  Held(k)'
    BY <2>11, <2>s DEF AlertRaised, AlertTargets, AlertDispatched, TestAlert, Held
  <2>12. ASSUME NEW c \in Controls, ControlStep(c) \/ \E x \in Contexts : ControlRead(c, x)
         PROVE  Held(k)'
    BY <2>12, <2>t, <2>s DEF ControlStep, ControlRead, ControlUpdate, ControlFailPending,
                             FailPending, Open, DeliveryRow, Held
  <2>13. ASSUME NEW d \in Devices,
                \/ RequestBegin(d) \/ RequestStep(d)
                \/ RevokeBegin(d) \/ RevokeCleanup(d) \/ Pair(d)
         PROVE  Held(k)'
    BY <2>13, <2>s, NotSendingAfterDelete
       DEF RequestBegin, RequestStep, PutSettings, SubscribeCheck, SubscribeSave, Unsubscribe,
           RequestError, RevokeBegin, RevokeCleanup, Pair, DeleteDeliveries, Held
  <2>14. CASE Restart
    BY <2>14, <2>t DEF Restart, RecoverSending, DeliveryRow
  <2>15. CASE UNCHANGED vars
    BY <2>15, <2>s DEF Held
  <2>16. QED
    BY <2>1, <2>2, <2>3, <2>4, <2>5, <2>6, <2>7, <2>8, <2>9, <2>10, <2>11, <2>12, <2>13,
       <2>14, <2>15, <2>j DEF Next, WorkerStep, AlertStep
<1>3. QED
  BY <1>1, <1>2, TypeCorrect, PTL DEF Spec

(***************************************************************************)
(* The wake-up                                                             *)
(***************************************************************************)
Pending(rows) == {k \in Keys : rows[k].status = "pending"}
Dozing == wpc \in {"doze", "sleep"} /\ nap = "idle"

\* While the worker sleeps because nothing is pending, a row can only become pending
\* through an alert that leaves the permit.
THEOREM NoWakeupMissed == Spec => []NoMissedWakeup
<1>1. Init => NoMissedWakeup
  BY DEF Init, NoMissedWakeup
<1>2. TypeOK /\ NoMissedWakeup /\ [Next]_vars => NoMissedWakeup'
  <2> SUFFICES ASSUME TypeOK, NoMissedWakeup, [Next]_vars, Dozing', Pending(deliveries)' # {}
               PROVE  wake'
    BY DEF NoMissedWakeup, Dozing, Pending
  <2> USE DEF vars, tables, worker, handlers
  <2>t. deliveries \in Table
    BY DEF TypeOK, Table
  <2>s. Dozing /\ Pending(deliveries) # {} => wake
    BY DEF NoMissedWakeup, Dozing, Pending
  \* Whoever leaves the worker, the permit and the pending rows alone keeps it so.
  <2>k. ASSUME UNCHANGED <<wpc, nap, wake>>, Pending(deliveries)' \subseteq Pending(deliveries)
        PROVE  wake'
    BY <2>k, <2>s DEF Dozing
  <2>1. CASE \/ WorkerStart \/ WorkerClaim \/ WorkerDrained \/ WorkerLoad \/ WorkerCheck
             \/ WorkerReject \/ WorkerMismatch \/ WorkerSend \/ (\E outcome \in Outcomes : WorkerResult(outcome))
             \/ WorkerPlan \/ WorkerTimer \/ WorkerWoken \/ WorkerError \/ Restart
    BY <2>1 DEF WorkerStart, WorkerClaim, WorkerDrained, WorkerLoad, WorkerCheck, WorkerMismatch,
                WorkerReject, WorkerSend, WorkerResult, WorkerPlan, WorkerTimer, WorkerWoken, WorkerError,
                Restart, Dozing
  <2>2. CASE WorkerNextDue
    BY <2>2 DEF WorkerNextDue, Dozing, Pending
  <2>3. CASE WorkerSleep
    BY <2>3, <2>s DEF WorkerSleep, Dozing, Pending
  <2>4. ASSUME NEW j \in Keys, Elapse(j) PROVE wake'
    BY <2>4, <2>k, <2>t DEF Elapse, Ripen, Pending, Table, DeliveryRow
  <2>5. ASSUME NEW e \in Events, NEW d \in Devices, AlertEnqueue(e, d) PROVE wake'
    BY <2>5, <2>k DEF AlertEnqueue, NotifyWorker, Pending
  <2>6. ASSUME NEW e \in Events,
               \/ AlertRaised(e) \/ AlertTargets(e) \/ AlertDispatched(e)
               \/ \E d \in Devices : TestAlert(e, d)
        PROVE  wake'
    BY <2>6, <2>k DEF AlertRaised, AlertTargets, AlertDispatched, TestAlert, Pending
  <2>7. ASSUME NEW c \in Controls, ControlStep(c) \/ \E x \in Contexts : ControlRead(c, x)
        PROVE  wake'
    BY <2>7, <2>k, <2>t DEF ControlStep, ControlRead, ControlUpdate, ControlFailPending,
                           FailPending, Open, Pending, Table, DeliveryRow
  <2>8. ASSUME NEW d \in Devices,
               \/ RequestBegin(d) \/ RequestStep(d)
               \/ RevokeBegin(d) \/ RevokeCleanup(d) \/ Pair(d)
        PROVE  wake'
    BY <2>8, <2>k
       DEF RequestBegin, RequestStep, PutSettings, SubscribeCheck, SubscribeSave, Unsubscribe,
           RequestError, RevokeBegin, RevokeCleanup, Pair, DeleteDeliveries, NoRow, Pending
  <2>9. CASE UNCHANGED vars
    BY <2>9, <2>k DEF Pending
  <2>10. QED
    BY <2>1, <2>2, <2>3, <2>4, <2>5, <2>6, <2>7, <2>8, <2>9 DEF Next, WorkerStep, AlertStep
<1>3. QED
  BY <1>1, <1>2, TypeCorrect, PTL DEF Spec

-----------------------------------------------------------------------------
(***************************************************************************)
(* The outbox keeps its promise: every step of PushOutbox is a step of        *)
(* DeliveryPromise, or changes nothing DeliveryPromise can see.  A row's       *)
(* status stands for the outcome of its push, the row the worker holds for     *)
(* the attempt under way.                                                    *)
(***************************************************************************)


OutcomesOf(rows) == [k \in Keys |-> OutcomeOf(rows[k].status)]

Attempt == IF wpc \in Holding THEN job.key ELSE Nobody

\* A row is keyed by an event and a device; Nobody is not.
LEMMA KeyIsSomebody == \A k \in Keys : k # Nobody
  BY DEF Keys, Nobody

\* The outcome a status stands for.
LEMMA OutcomeValues ==
  /\ OutcomeOf("none") = "none"
  /\ OutcomeOf("pending") = "owed" /\ OutcomeOf("sending") = "owed"
  /\ OutcomeOf("sent") = "delivered"
  /\ OutcomeOf("failed") = "dropped" /\ OutcomeOf("invalid_subscription") = "dropped"
  BY DEF OutcomeOf, Open

\* Only a row that is not there has no outcome.
LEMMA OutcomeOfRow ==
  ASSUME NEW rows \in Table, NEW k \in Keys
  PROVE  /\ OutcomesOf(rows)[k] = OutcomeOf(rows[k].status)
         /\ OutcomesOf(rows)[k] = "none" <=> rows[k].status = "none"
<1>1. rows[k].status \in Statuses \cup {"none"} /\ OutcomesOf(rows)[k] = OutcomeOf(rows[k].status)
  BY DEF Table, DeliveryRow, OutcomesOf
<1>2. \A s \in Statuses : OutcomeOf(s) # "none"
  BY OutcomeValues DEF Statuses
<1>3. QED
  BY <1>1, <1>2, OutcomeValues

\* Recording a result changes the outcome of its row, and of no other.
LEMMA ResultOutcome ==
  ASSUME NEW rows \in Table, NEW k \in Keys, NEW status \in Statuses,
         NEW next,
         \/ rows[k].status = "none" /\ next = rows
         \/ /\ rows[k].status # "none"
            /\ \E row \in DeliveryRow : row.status = status /\ next = [rows EXCEPT ![k] = row]
  PROVE  OutcomesOf(next) = IF OutcomesOf(rows)[k] = "none"
                              THEN OutcomesOf(rows)
                              ELSE [OutcomesOf(rows) EXCEPT ![k] = OutcomeOf(status)]
<1>1. CASE rows[k].status = "none"
  BY <1>1, OutcomeOfRow
<1>2. CASE rows[k].status # "none"
  BY <1>2, OutcomeOfRow DEF OutcomesOf, Table
<1>3. QED
  BY <1>1, <1>2

\* The two statements that record a result are of that form.
LEMMA ResultStatements ==
  ASSUME NEW rows \in Table, NEW k \in Keys, rows[k].status # "none"
  PROVE  /\ \A status \in Statuses :
              \E row \in DeliveryRow : /\ row.status = status
                                       /\ UpdateStatus(rows, k, status) = [rows EXCEPT ![k] = row]
         /\ \E row \in DeliveryRow : /\ row.status = "pending"
                                     /\ MarkRetry(rows, k) = [rows EXCEPT ![k] = row]
<1>1. rows[k] \in DeliveryRow
  BY DEF Table
<1>2. ASSUME NEW status \in Statuses
      PROVE  \E row \in DeliveryRow : /\ row.status = status
                                      /\ UpdateStatus(rows, k, status) = [rows EXCEPT ![k] = row]
  <2>1. /\ [rows[k] EXCEPT !.status = status] \in DeliveryRow
        /\ [rows[k] EXCEPT !.status = status].status = status
    BY <1>1 DEF DeliveryRow
  <2>2. UpdateStatus(rows, k, status) = [rows EXCEPT ![k] = [rows[k] EXCEPT !.status = status]]
    BY DEF UpdateStatus, Table
  <2>3. QED
    BY <2>1, <2>2
<1>3. \E row \in DeliveryRow : row.status = "pending" /\ MarkRetry(rows, k) = [rows EXCEPT ![k] = row]
  <2> DEFINE row == [status |-> "pending", attempts |-> rows[k].attempts, due |-> "later"]
  <2>1. row \in DeliveryRow /\ row.status = "pending"
    BY <1>1 DEF DeliveryRow, Statuses
  <2>2. MarkRetry(rows, k) = [rows EXCEPT ![k] = row]
    BY DEF MarkRetry
  <2>3. QED
    BY <2>1, <2>2
<1>4. QED
  BY <1>2, <1>3

\* Claiming a row, the passing of time and the recovery of a restart change no outcome.
LEMMA SilentStatements ==
  ASSUME NEW rows \in Table
  PROVE  /\ OutcomesOf(BeginDrain(rows)) = OutcomesOf(rows)
         /\ OutcomesOf(RecoverSending(rows)) = OutcomesOf(rows)
         /\ \A k \in Keys : /\ OutcomesOf(Ripen(rows, k)) = OutcomesOf(rows)
                            /\ rows[k].status = "pending" =>
                                 OutcomesOf(ClaimDelivery(rows, k)) = OutcomesOf(rows)
<1>1. OutcomesOf(BeginDrain(rows)) = OutcomesOf(rows)
  BY DEF OutcomesOf, BeginDrain, Table, DeliveryRow
<1>2. OutcomesOf(RecoverSending(rows)) = OutcomesOf(rows)
  BY OutcomeValues DEF OutcomesOf, RecoverSending, Table, DeliveryRow
<1>3. ASSUME NEW k \in Keys PROVE OutcomesOf(Ripen(rows, k)) = OutcomesOf(rows)
  BY DEF OutcomesOf, Ripen, Table, DeliveryRow
<1>4. ASSUME NEW k \in Keys, rows[k].status = "pending"
      PROVE  OutcomesOf(ClaimDelivery(rows, k)) = OutcomesOf(rows)
  BY <1>4, OutcomeValues DEF OutcomesOf, ClaimDelivery, Table, DeliveryRow
<1>5. QED
  BY <1>1, <1>2, <1>3, <1>4

\* A step that touches neither the outcomes, nor the attempt, nor the counts is a
\* stutter of DeliveryPromise.
LEMMA Stutter ==
  ASSUME OutcomesOf(deliveries)' = OutcomesOf(deliveries), Attempt' = Attempt,
         (wpc = "await")' = (wpc = "await"), UNCHANGED <<sends, restarts>>
  PROVE  UNCHANGED Promise!pvars
  BY DEF Promise!pvars, OutcomesOf, Attempt

\* A worker that lets go of its row, with or without a result, settles or abandons it.
LEMMA LetGo ==
  ASSUME TypeOK, TypeOK', wpc \in Holding, wpc' \notin Holding, UNCHANGED <<sends, restarts>>,
         \/ UNCHANGED deliveries
         \/ \E status \in {"sent", "failed", "invalid_subscription"} :
              (status = "sent" => wpc = "await") /\ deliveries' = UpdateStatus(deliveries, job.key, status)
         \/ wpc = "await" /\ deliveries' = MarkRetry(deliveries, job.key)
  PROVE  Promise!Next
<1>t. /\ deliveries \in Table /\ job.key \in Keys /\ job.key # Nobody
      /\ wpc' # "await" /\ OutcomesOf(deliveries)' = OutcomesOf(deliveries')
  BY KeyIsSomebody DEF TypeOK, Table, Jobs, Holding, OutcomesOf
<1>s. ASSUME NEW status \in Statuses, status \in {"sent", "pending"} => wpc = "await",
             OutcomesOf(deliveries') = IF OutcomesOf(deliveries)[job.key] = "none"
                                         THEN OutcomesOf(deliveries)
                                         ELSE [OutcomesOf(deliveries) EXCEPT ![job.key] = OutcomeOf(status)],
             status # "sending"
      PROVE  Promise!Next
  <2>1. /\ OutcomeOf(status) \in {"owed", "delivered", "dropped"}
        /\ OutcomeOf(status) \in {"owed", "delivered"} => wpc = "await"
    BY <1>s, OutcomeValues DEF Statuses
  <2>2. Promise!Settle(OutcomeOf(status))
    BY <1>s, <1>t, <2>1 DEF Promise!Settle, OutcomesOf
  <2>3. QED
    BY <2>1, <2>2 DEF Promise!Next
<1>1. CASE UNCHANGED deliveries
  <2>1. Promise!Abandon
    BY <1>1, <1>t DEF Promise!Abandon
  <2>2. QED
    BY <2>1 DEF Promise!Next
<1>2. ASSUME NEW status \in {"sent", "failed", "invalid_subscription"},
             status = "sent" => wpc = "await", deliveries' = UpdateStatus(deliveries, job.key, status)
      PROVE  Promise!Next
  <2>1. status \in Statuses /\ status \notin {"pending", "sending"}
    BY DEF Statuses
  <2>2. \/ deliveries[job.key].status = "none" /\ deliveries' = deliveries
        \/ /\ deliveries[job.key].status # "none"
           /\ \E row \in DeliveryRow :
                row.status = status /\ deliveries' = [deliveries EXCEPT ![job.key] = row]
    <3>1. CASE deliveries[job.key].status = "none"
      BY <3>1, <1>2 DEF UpdateStatus
    <3>2. CASE deliveries[job.key].status # "none"
      BY <3>2, <1>2, <1>t, <2>1, ResultStatements
    <3>3. QED
      BY <3>1, <3>2
  <2>3. OutcomesOf(deliveries') = IF OutcomesOf(deliveries)[job.key] = "none"
                                    THEN OutcomesOf(deliveries)
                                    ELSE [OutcomesOf(deliveries) EXCEPT ![job.key] = OutcomeOf(status)]
    BY <2>1, <2>2, <1>t, ResultOutcome
  <2>4. QED
    BY <1>2, <2>1, <2>3, <1>s
<1>3. ASSUME wpc = "await", deliveries' = MarkRetry(deliveries, job.key)
      PROVE  Promise!Next
  <2>1. \/ deliveries[job.key].status = "none" /\ deliveries' = deliveries
        \/ /\ deliveries[job.key].status # "none"
           /\ \E row \in DeliveryRow :
                row.status = "pending" /\ deliveries' = [deliveries EXCEPT ![job.key] = row]
    <3>1. CASE deliveries[job.key].status = "none"
      BY <3>1, <1>3 DEF MarkRetry
    <3>2. CASE deliveries[job.key].status # "none"
      BY <3>2, <1>3, <1>t, ResultStatements
    <3>3. QED
      BY <3>1, <3>2
  <2>2. "pending" \in Statuses
    BY DEF Statuses
  <2>3. OutcomesOf(deliveries') = IF OutcomesOf(deliveries)[job.key] = "none"
                                    THEN OutcomesOf(deliveries)
                                    ELSE [OutcomesOf(deliveries) EXCEPT ![job.key] = OutcomeOf("pending")]
    BY <2>1, <2>2, <1>t, ResultOutcome
  <2>4. QED
    BY <1>3, <2>2, <2>3, <1>s
<1>4. QED
  BY <1>1, <1>2, <1>3

\* Every step of the outbox is a step of DeliveryPromise or invisible to it.
LEMMA PromiseStep ==
  ASSUME TypeOK, TypeOK', OutboxInv, [Next]_vars
  PROVE  [Promise!Next]_(Promise!pvars)
<1> USE DEF vars, tables, worker, handlers
<1>t. /\ deliveries \in Table
      /\ wpc \in Holding => job \in Jobs /\ job.key \in Keys
      /\ OutcomesOf(deliveries)' = OutcomesOf(deliveries')
  BY DEF TypeOK, Table, Jobs, OutcomesOf
<1>s. ASSUME OutcomesOf(deliveries') = OutcomesOf(deliveries),
             wpc \notin Holding, wpc' \notin Holding, UNCHANGED <<sends, restarts>>
      PROVE  UNCHANGED Promise!pvars
  <2>1. Attempt' = Attempt /\ wpc # "await" /\ wpc' # "await"
    BY <1>s DEF Attempt, Holding
  <2>2. QED
    BY <2>1, <1>s, <1>t, Stutter
<1>a. ASSUME OutcomesOf(deliveries') = OutcomesOf(deliveries), UNCHANGED <<wpc, job, sends, restarts>>
      PROVE  UNCHANGED Promise!pvars
  BY <1>a, <1>t, Stutter DEF Attempt
<1>1. CASE WorkerStart
  BY <1>1, <1>s, <1>t, SilentStatements DEF WorkerStart, Holding
<1>2. CASE WorkerClaim
  <2>1. PICK k \in Keys : /\ deliveries[k].status = "pending"
                          /\ deliveries' = ClaimDelivery(deliveries, k)
                          /\ job'.key = k
    BY <1>2 DEF WorkerClaim, Due
  <2>2. OutcomesOf(deliveries') = OutcomesOf(deliveries) /\ OutcomesOf(deliveries)[k] = "owed"
    BY <2>1, <1>t, SilentStatements, OutcomeOfRow, OutcomeValues
  <2>3. wpc \notin Holding /\ wpc' \in Holding /\ wpc' # "await" /\ UNCHANGED <<sends, restarts>>
    BY <1>2 DEF WorkerClaim, Holding
  <2>4. Promise!Take(k)
    BY <2>1, <2>2, <2>3, <1>t DEF Promise!Take, OutcomesOf
  <2>5. QED
    BY <2>4 DEF Promise!Next, Promise!Pushes, Keys
<1>3. CASE WorkerDrained
  BY <1>3, <1>s DEF WorkerDrained, Holding
<1>4. CASE WorkerLoad
  <2>1. CASE subs[job.key[2]].live
    <3>1. Attempt' = Attempt
      BY <1>4, <2>1, <1>t DEF WorkerLoad, Attempt, Holding, Jobs
    <3>2. QED
      BY <1>4, <2>1, <3>1, Stutter DEF WorkerLoad
  <2>2. CASE ~subs[job.key[2]].live
    BY <1>4, <2>2, LetGo DEF WorkerLoad, MarkInvalidSubscription, Holding
  <2>3. QED
    BY <2>1, <2>2
<1>5. CASE WorkerCheck
  <2>1. Attempt' = Attempt /\ wpc # "await" /\ wpc' # "await"
    BY <1>5 DEF WorkerCheck, Attempt, Holding
  <2>2. QED
    BY <1>5, <2>1, <1>t, Stutter DEF WorkerCheck
<1>6. CASE WorkerMismatch
  BY <1>6, LetGo DEF WorkerMismatch, MarkInvalidSubscription, Holding
<1>j. CASE WorkerReject
  BY <1>j, LetGo DEF WorkerReject, MarkFailed, Holding
<1>7. CASE WorkerSend
  <2>1. wpc \in Holding /\ wpc' \in Holding /\ job.key \in Keys /\ job.key # Nobody
    BY <1>7, <1>t, KeyIsSomebody DEF WorkerSend, Holding
  <2>2. sends[job.key] < 4 + restarts
    BY <1>7, <2>1, PushOutboxAssumption
       DEF WorkerSend, OutboxInv, RowInv, HeldIsCounted, Held, TypeOK, Jobs
  <2>3. Promise!Push
    BY <1>7, <2>1, <2>2 DEF WorkerSend, Promise!Push
  <2>4. QED
    BY <2>3 DEF Promise!Next
<1>8. ASSUME NEW outcome \in Outcomes, WorkerResult(outcome)
      PROVE  Promise!Next
  <2>1. \/ wpc = "await" /\ deliveries' = MarkRetry(deliveries, job.key)
        \/ \E status \in {"sent", "failed", "invalid_subscription"} :
             (status = "sent" => wpc = "await") /\ deliveries' = UpdateStatus(deliveries, job.key, status)
    BY <1>8 DEF WorkerResult, MarkSent, MarkInvalidSubscription, MarkFailed
  <2>2. wpc \in Holding /\ wpc' \notin Holding /\ UNCHANGED <<sends, restarts>>
    BY <1>8 DEF WorkerResult, Holding
  <2>3. QED
    BY <2>1, <2>2, LetGo
<1>9. CASE WorkerPlan \/ WorkerNextDue \/ WorkerSleep \/ WorkerTimer \/ WorkerWoken
  BY <1>9, <1>s DEF WorkerPlan, WorkerNextDue, WorkerSleep, WorkerTimer, WorkerWoken, Holding
<1>10. CASE WorkerError
  <2>1. wpc' \notin Holding /\ UNCHANGED <<deliveries, sends, restarts>>
    BY <1>10 DEF WorkerError, Holding
  <2>2. CASE wpc \in Holding
    BY <2>1, <2>2, LetGo
  <2>3. CASE wpc \notin Holding
    BY <2>1, <2>3, <1>s
  <2>4. QED
    BY <2>2, <2>3
<1>11. ASSUME NEW k \in Keys, Elapse(k) PROVE UNCHANGED Promise!pvars
  BY <1>11, <1>a, <1>t, SilentStatements DEF Elapse
<1>12. ASSUME NEW e \in Events, NEW d \in Devices, AlertEnqueue(e, d)
       PROVE  Promise!Next \/ UNCHANGED Promise!pvars
  <2>1. UNCHANGED <<wpc, job, sends, restarts>>
    BY <1>12 DEF AlertEnqueue
  <2>2. CASE deliveries' = deliveries
    BY <2>1, <2>2, <1>a
  <2>3. CASE deliveries' # deliveries
    <3> DEFINE k == <<e, d>>
    <3>1. k \in Keys /\ deliveries[k].status = "none"
      BY <1>12, <2>3 DEF AlertEnqueue, EnqueueDelivery, Keys
    <3>2. PICK due \in {"now", "drain"} :
            deliveries' = [deliveries EXCEPT ![k] = [status |-> "pending", attempts |-> 0, due |-> due]]
      BY <1>12, <2>3, <3>1 DEF AlertEnqueue, EnqueueDelivery
    <3>3. /\ OutcomesOf(deliveries)[k] = "none"
          /\ OutcomesOf(deliveries') = [OutcomesOf(deliveries) EXCEPT ![k] = "owed"]
      BY <3>1, <3>2, <1>t, OutcomeOfRow, OutcomeValues DEF OutcomesOf, Table
    <3>4. Promise!Owe(k)
      BY <3>3, <2>1, <1>t DEF Promise!Owe, OutcomesOf
    <3>5. QED
      BY <3>1, <3>4 DEF Promise!Next, Promise!Pushes, Keys
  <2>4. QED
    BY <2>2, <2>3
<1>13. ASSUME NEW e \in Events,
              \/ AlertRaised(e) \/ AlertTargets(e) \/ AlertDispatched(e)
              \/ \E d \in Devices : TestAlert(e, d)
       PROVE  UNCHANGED Promise!pvars
  BY <1>13, <1>a DEF AlertRaised, AlertTargets, AlertDispatched, TestAlert
<1>14. ASSUME NEW c \in Controls, ControlStep(c) \/ \E x \in Contexts : ControlRead(c, x)
       PROVE  Promise!Next \/ UNCHANGED Promise!pvars
  <2>1. UNCHANGED <<wpc, job, sends, restarts>>
    BY <1>14 DEF ControlStep, ControlRead, ControlUpdate, ControlFailPending
  <2>2. deliveries' \in {deliveries, FailPending(deliveries)}
    BY <1>14 DEF ControlStep, ControlRead, ControlUpdate, ControlFailPending
  <2>3. CASE deliveries' = deliveries
    BY <2>1, <2>3, <1>a
  <2>4. CASE deliveries' = FailPending(deliveries)
    <3>1. OutcomesOf(deliveries') =
            [k \in Keys |-> IF OutcomesOf(deliveries)[k] = "owed" THEN "dropped"
                                                                  ELSE OutcomesOf(deliveries)[k]]
      <4>1. ASSUME NEW k \in Keys
            PROVE  OutcomeOf(deliveries'[k].status) =
                     IF OutcomeOf(deliveries[k].status) = "owed" THEN "dropped"
                                                                 ELSE OutcomeOf(deliveries[k].status)
        <5>1. deliveries[k].status \in Statuses \cup {"none"} /\ deliveries[k] \in DeliveryRow
          BY <1>t DEF Table, DeliveryRow
        <5>2. CASE deliveries[k].status \in Open
          BY <5>1, <5>2, <2>4, OutcomeValues DEF FailPending, DeliveryRow, Open
        <5>3. CASE deliveries[k].status \notin Open
          BY <5>1, <5>3, <2>4, OutcomeValues DEF FailPending, Open, Statuses
        <5>4. QED
          BY <5>2, <5>3
      <4>2. QED
        BY <4>1 DEF OutcomesOf
    <3>2. Promise!Withdraw
      BY <3>1, <2>1, <1>t DEF Promise!Withdraw, Promise!Pushes, OutcomesOf, Keys
    <3>3. QED
      BY <3>2 DEF Promise!Next
  <2>5. QED
    BY <2>2, <2>3, <2>4
<1>15. ASSUME NEW d \in Devices,
              \/ RequestBegin(d) \/ RequestStep(d)
              \/ RevokeBegin(d) \/ RevokeCleanup(d) \/ Pair(d)
       PROVE  Promise!Next \/ UNCHANGED Promise!pvars
  <2>1. UNCHANGED <<wpc, job, sends, restarts>> /\ deliveries' \in {deliveries, DeleteDeliveries(deliveries, d)}
    BY <1>15 DEF RequestBegin, RequestStep, PutSettings, SubscribeCheck, SubscribeSave,
                 Unsubscribe, RequestError, RevokeBegin, RevokeCleanup, Pair
  <2>2. CASE deliveries' = deliveries
    BY <2>1, <2>2, <1>a
  <2>3. CASE deliveries' = DeleteDeliveries(deliveries, d)
    <3>1. OutcomesOf(deliveries') =
            [k \in Keys |-> IF k[2] = d THEN "none" ELSE OutcomesOf(deliveries)[k]]
      BY <2>3, OutcomeValues DEF OutcomesOf, DeleteDeliveries, NoRow
    <3>2. Promise!Forget(d)
      BY <3>1, <2>1, <1>t DEF Promise!Forget, Promise!Pushes, OutcomesOf, Keys
    <3>3. QED
      BY <3>2 DEF Promise!Next
  <2>4. QED
    BY <2>1, <2>2, <2>3
<1>16. CASE Restart
  <2>1. /\ OutcomesOf(deliveries') = OutcomesOf(deliveries)
        /\ wpc' \notin Holding /\ wpc' # "await" /\ restarts' = restarts + 1 /\ UNCHANGED sends
    BY <1>16, <1>t, SilentStatements DEF Restart, Holding
  <2>2. Promise!Reboot
    BY <2>1, <1>t DEF Promise!Reboot, OutcomesOf
  <2>3. QED
    BY <2>2 DEF Promise!Next
<1>17. CASE UNCHANGED vars
  BY <1>17, <1>a
<1>18. QED
  BY <1>1, <1>2, <1>3, <1>4, <1>5, <1>6, <1>7, <1>8, <1>9, <1>10, <1>11, <1>12, <1>13, <1>14,
     <1>15, <1>16, <1>17, <1>j
     DEF Next, WorkerStep, AlertStep

\* The outbox implements its promise: one attempt at a time, delivered only after a
\* push, owed again only by the attempt under way, at most 4 tries and one per restart.
THEOREM OutboxKeepsPromise == Spec => KeepsPromise
<1>1. Init => Promise!Init
  <2> SUFFICES ASSUME Init PROVE Promise!Init
    OBVIOUS
  <2>1. \A k \in Keys : OutcomeOf(deliveries[k].status) = "none"
    BY OutcomeValues DEF Init, NoRow
  <2>2. QED
    BY <2>1 DEF Init, Promise!Init, Promise!Pushes, Keys, Holding
<1>2. TypeOK /\ TypeOK' /\ OutboxInv /\ [Next]_vars => [Promise!Next]_(Promise!pvars)
  BY PromiseStep
<1>3. QED
  BY <1>1, <1>2, TypeCorrect, OutboxInvariant, PTL DEF Spec, KeepsPromise, Promise!Spec

=============================================================================
