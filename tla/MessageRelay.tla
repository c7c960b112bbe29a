----------------------------- MODULE MessageRelay -----------------------------
(***************************************************************************)
(* How a phone's message reaches Codex: the retries of the phone, the        *)
(* de-duplication by client message id in the bridge, and the delivery task   *)
(* that outlives the request it was started for.                            *)
(*                                                                         *)
(*   phone[m]  sendTextMessage: up to Attempts requests under one id          *)
(*   call[c]   one request, from its departure to its answer                 *)
(*   task[c]   the delivery spawned for the request c that claimed the id     *)
(*   entry     MessageDedupeCache.entries: a mutex, one look or write a step  *)
(*                                                                         *)
(* A message stands for its key: device, thread and client message id.       *)
(* A request the phone has given up may still be on its way, and the bridge    *)
(* drops the handler of a closed connection whenever it notices.             *)
(***************************************************************************)
EXTENDS Naturals, Sequences, Functions

CONSTANTS
  Messages,
  Attempts,     \* requests the phone makes for a message (3)
  MaxEntries,   \* MAX_MESSAGE_DEDUPE_ENTRIES (1024)
  MaxRestarts   \* bound: restarts of the bridge

ASSUME MessageRelayAssumption ==
  /\ Attempts \in Nat \ {0}
  /\ MaxEntries \in Nat \ {0}
  /\ MaxRestarts \in Nat

Calls == Messages \X (1 .. Attempts)

VARIABLES
  phone,      \* what the phone knows of the message
  call, task,
  entry,      \* MessageDedupeCache.entries
  order,      \* MessageDedupeCache.completed_order
  restarts,
  delivered,  \* history: times Codex got the message
  excuses     \* history: times the bridge could not know that Codex had it

vars == <<phone, call, task, entry, order, restarts, delivered, excuses>>
history == <<restarts, delivered, excuses>>

PhoneState == [pc : {"idle", "waiting", "backoff", "sent", "failed"}, attempt : 0 .. Attempts]

\* "transit" until its handler first looks at the cache, "claim" when it is to look again;
\* on: the claim whose Notify it waits for.
Nothing == << >>
CallState == [pc : {"none", "transit", "claim", "wait", "owner", "ok", "error", "gone"},
              on : Calls \cup {Nothing}]

\* "run" before and "effected" after Codex got the message; then the outcome is
\* recorded, and then the waiting requests are notified.
TaskSteps == {"none", "run", "effected", "notify_ok", "notify_error", "over"}

\* Steps at which the key is still claimed.
Claiming == {"run", "effected"}

Vacant == [state |-> "vacant", by |-> Nothing]
InFlight(c) == [state |-> "in_flight", by |-> c]
Completed == [state |-> "completed", by |-> Nothing]
Entries == {Vacant, Completed} \cup {InFlight(c) : c \in Calls}

\* What the phone, its requests, the tasks and the cache may hold.
TypeOK ==
  /\ phone \in [Messages -> PhoneState]
  /\ call \in [Calls -> CallState]
  /\ task \in [Calls -> TaskSteps]
  /\ entry \in [Messages -> Entries]
  /\ order \in Seq(Messages)
  /\ restarts \in 0 .. MaxRestarts
  /\ delivered \in [Messages -> Nat]
  /\ excuses \in [Messages -> Nat]

At(pc) == [pc |-> pc, on |-> Nothing]

Init ==
  /\ phone = [m \in Messages |-> [pc |-> "idle", attempt |-> 0]]
  /\ call = [c \in Calls |-> At("none")]
  /\ task = [c \in Calls |-> "none"]
  /\ entry = [m \in Messages |-> Vacant]
  /\ order = << >>
  /\ restarts = 0
  /\ delivered = [m \in Messages |-> 0]
  /\ excuses = [m \in Messages |-> 0]

(***************************************************************************)
(* The phone (api.ts, sendTextMessage)                                      *)
(***************************************************************************)
PhoneSend(m) ==
  /\ phone[m].pc \in {"idle", "backoff"}
  /\ LET attempt == phone[m].attempt + 1 IN
       /\ phone' = [phone EXCEPT ![m] = [pc |-> "waiting", attempt |-> attempt]]
       /\ call' = [call EXCEPT ![<<m, attempt>>] = At("transit")]
  /\ UNCHANGED <<task, entry, order, history>>

Current(m) == <<m, phone[m].attempt>>

Awaited(c) == phone[c[1]] = [pc |-> "waiting", attempt |-> c[2]]

\* An answer nobody waits for is lost.
Answer(c, pc) == At(IF Awaited(c) THEN pc ELSE "gone")

\* Mutant: one retry too many.
AfterLastFailure(m) ==
  [phone EXCEPT ![m].pc = IF phone[m].attempt <= Attempts THEN "backoff" ELSE "failed"]

AfterFailure(m) ==
  [phone EXCEPT ![m].pc = IF phone[m].attempt < Attempts THEN "backoff" ELSE "failed"]

Rejected(m) == [phone EXCEPT ![m].pc = "failed"]

\* Only a transient status (408, 429, 5xx) is tried again.
PhoneAnswered(m) ==
  /\ phone[m].pc = "waiting"
  /\ call[Current(m)].pc \in {"ok", "error"}
  /\ \/ call[Current(m)].pc = "ok" /\ phone' = [phone EXCEPT ![m].pc = "sent"]
     \/ call[Current(m)].pc = "error" /\ phone' \in {AfterFailure(m), Rejected(m)}
  /\ call' = [call EXCEPT ![Current(m)] = At("gone")]
  /\ UNCHANGED <<task, entry, order, history>>

\* fetch throws: the connection broke, wherever the request is.
PhoneCutOff(m) ==
  /\ phone[m].pc = "waiting"
  /\ phone' = AfterFailure(m)
  /\ call' = IF call[Current(m)].pc \in {"ok", "error"} THEN [call EXCEPT ![Current(m)] = At("gone")] ELSE call
  /\ UNCHANGED <<task, entry, order, history>>

\* ... and for a request that is gone it must.
PhoneNotices(m) == PhoneCutOff(m) /\ call[Current(m)].pc = "gone"

(***************************************************************************)
(* The request handler (http_api.rs, send_message)                          *)
(***************************************************************************)
\* claim_message_dedupe, one look at the cache.  The future a waiter waits for is made
\* under the cache's lock, so no notification after it is missed.
Claim(c) ==
  /\ call[c].pc \in {"transit", "claim"}
  /\ LET seen == entry[c[1]] IN
       \/ /\ seen.state = "completed"
          /\ call' = [call EXCEPT ![c] = Answer(c, "ok")]
          /\ UNCHANGED <<task, entry>>
       \/ /\ seen.state = "in_flight"
          /\ call' = [call EXCEPT ![c] = [pc |-> "wait", on |-> seen.by]]
          /\ UNCHANGED <<task, entry>>
       \/ /\ seen.state = "vacant"
          /\ call' = [call EXCEPT ![c] = At("owner")]
          /\ task' = [task EXCEPT ![c] = "run"]
          /\ entry' = [entry EXCEPT ![c[1]] = InFlight(c)]
  /\ UNCHANGED <<phone, order, history>>

\* Mutant: the claim is released with its handler.
CallDroppedReleases(c) ==
  /\ call[c].pc \in {"transit", "claim", "wait", "owner"}
  /\ ~Awaited(c)
  /\ call' = [call EXCEPT ![c] = At("gone")]
  /\ entry' = [entry EXCEPT ![c[1]] = IF call[c].pc = "owner" THEN Vacant ELSE @]
  /\ UNCHANGED <<phone, task, order, history>>

\* The handler of a request nobody waits for any more is dropped; its task is not.
CallDropped(c) ==
  /\ call[c].pc \in {"transit", "claim", "wait", "owner"}
  /\ ~Awaited(c)
  /\ call' = [call EXCEPT ![c] = At("gone")]
  /\ UNCHANGED <<phone, task, entry, order, history>>

(***************************************************************************)
(* The delivery task (deliver_user_message, then complete_ or fail_message_dedupe) *)
(***************************************************************************)
TaskEffect(c) ==
  /\ task[c] = "run"
  /\ task' = [task EXCEPT ![c] = "effected"]
  /\ delivered' = [delivered EXCEPT ![c[1]] = @ + 1]
  /\ UNCHANGED <<phone, call, entry, order, restarts, excuses>>

\* Mutant: the queue of completed keys is not kept.
RecordUnordered(m) == UNCHANGED <<order, excuses>> /\ entry' = [entry EXCEPT ![m] = Completed]

\* Mutant: a delivered key is removed as a failed one is.
RecordNothing(m) == UNCHANGED excuses /\ order' = order /\ entry' = [entry EXCEPT ![m] = Vacant]

\* The entry is completed and the oldest completed one makes room for it.
Record(m) ==
  LET queue == Append(order, m)
      completed == [entry EXCEPT ![m] = Completed]
      oldest == Head(queue)
  IN  IF Len(queue) <= MaxEntries
        THEN order' = queue /\ entry' = completed /\ UNCHANGED excuses
        ELSE /\ order' = Tail(queue)
             /\ entry' = IF completed[oldest] = Completed
                           THEN [completed EXCEPT ![oldest] = Vacant]
                           ELSE completed
             /\ excuses' = [excuses EXCEPT ![oldest] = @ + 1]

TaskCompletes(c) ==
  /\ task[c] = "effected"
  /\ Record(c[1])
  /\ task' = [task EXCEPT ![c] = "notify_ok"]
  /\ UNCHANGED <<phone, call, restarts, delivered>>

\* Mutant: a failed delivery leaves its claim behind.
Unclaim(m) == entry

Release(m) == [entry EXCEPT ![m] = Vacant]

\* Storing an attachment or the adapter's call fails; of a call that failed, Codex may
\* have got the message.
TaskFails(c) ==
  /\ task[c] \in Claiming
  /\ entry' = Release(c[1])
  /\ task' = [task EXCEPT ![c] = "notify_error"]
  /\ excuses' = IF task[c] = "effected" THEN [excuses EXCEPT ![c[1]] = @ + 1] ELSE excuses
  /\ UNCHANGED <<phone, call, order, restarts, delivered>>

Waiters(c) == {w \in Calls : call[w].pc = "wait" /\ call[w].on = c}

\* Mutant: a waiting request takes the notification for success.
TaskNotifiesSent(c) ==
  /\ task[c] \in {"notify_ok", "notify_error"}
  /\ call' = [w \in Calls |->
       IF w \in Waiters(c) THEN Answer(w, "ok")
       ELSE IF w = c /\ call[c].pc = "owner"
              THEN Answer(c, IF task[c] = "notify_ok" THEN "ok" ELSE "error")
              ELSE call[w]]
  /\ task' = [task EXCEPT ![c] = "over"]
  /\ UNCHANGED <<phone, entry, order, history>>

\* Every waiting request looks again; the one that started the task gets its result.
TaskNotifies(c) ==
  /\ task[c] \in {"notify_ok", "notify_error"}
  /\ call' = [w \in Calls |->
       IF w \in Waiters(c) THEN At("claim")
       ELSE IF w = c /\ call[c].pc = "owner"
              THEN Answer(c, IF task[c] = "notify_ok" THEN "ok" ELSE "error")
              ELSE call[w]]
  /\ task' = [task EXCEPT ![c] = "over"]
  /\ UNCHANGED <<phone, entry, order, history>>

(***************************************************************************)
(* The bridge is restarted: requests, tasks and the cache are gone.          *)
(***************************************************************************)
Restart ==
  /\ restarts < MaxRestarts
  /\ restarts' = restarts + 1
  /\ call' = [c \in Calls |-> IF call[c].pc \in {"none", "transit"} THEN call[c] ELSE At("gone")]
  /\ task' = [c \in Calls |-> IF task[c] = "none" THEN "none" ELSE "over"]
  /\ entry' = [m \in Messages |-> Vacant]
  /\ order' = << >>
  /\ UNCHANGED <<phone, delivered, excuses>>

PhoneStep(m) == PhoneSend(m) \/ PhoneAnswered(m) \/ PhoneCutOff(m)

TaskStep(c) == TaskEffect(c) \/ TaskCompletes(c) \/ TaskFails(c) \/ TaskNotifies(c)

Next ==
  \/ \E m \in Messages : PhoneStep(m)
  \/ \E c \in Calls : Claim(c) \/ CallDropped(c) \/ TaskStep(c)
  \/ Restart

Spec == Init /\ [][Next]_vars

(***************************************************************************)
(* Fairness: the runtime polls what is ready, the adapter's calls end, and    *)
(* the phone learns of an answer and of a broken connection.                 *)
(***************************************************************************)
Fairness ==
  /\ \A m \in Messages : /\ WF_vars(phone[m].pc = "backoff" /\ PhoneSend(m))
                         /\ WF_vars(PhoneAnswered(m)) /\ WF_vars(PhoneNotices(m))
  /\ \A c \in Calls : WF_vars(Claim(c)) /\ WF_vars(TaskStep(c))

FairSpec == Spec /\ Fairness

(***************************************************************************)
(* Properties                                                              *)
(***************************************************************************)

\* However requests are retried, delayed, cut off and dropped, Codex gets a message
\* once, and once more only for a delivery that was reported failed, a forgotten key
\* or a restart.
DuplicatesExplained == \A m \in Messages : delivered[m] <= 1 + excuses[m] + restarts

\* While a delivery is on its way no other request delivers the message too, the one
\* whose own phone has given it up included.
OneDelivery ==
  \A c, d \in Calls : c[1] = d[1] /\ task[c] \in Claiming /\ task[d] \in Claiming => c = d

\* What the phone shows as sent has reached Codex.
SentIsDelivered == \A m \in Messages : phone[m].pc = "sent" => delivered[m] >= 1

\* The cache remembers exactly the keys in its queue, each once: no key is remembered
\* for ever, and none is dropped before MaxEntries later ones.
QueueMatchesCache ==
  /\ Len(order) <= MaxEntries
  /\ IsInjective(order)
  /\ Range(order) = {m \in Messages : entry[m] = Completed}

\* The phone is never left waiting: not for a delivery another request claimed, not
\* when that delivery fails, and not over a restart.
SendEnds == \A m \in Messages : phone[m].pc = "waiting" ~> phone[m].pc \in {"sent", "failed"}

=============================================================================
