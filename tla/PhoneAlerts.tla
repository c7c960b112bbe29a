------------------------------ MODULE PhoneAlerts ------------------------------
(***************************************************************************)
(* How an alert reaches the user of one phone: its copy on the live stream    *)
(* and its pushes, which the Bridge may repeat, the service worker that claims  *)
(* an event before it shows it (service-worker-handlers.ts,                    *)
(* recent-event-store.ts), and the page that plays it                         *)
(* (foreground-alert-player.ts).  The device's settings let every alert through. *)
(***************************************************************************)
EXTENDS Naturals, Sequences, FiniteSets, SequencesExt

CONSTANTS Alerts,     \* event ids, each an alert
          Tests,      \* those of sendTestAlert
          MaxEntries, \* rows the recent events keep
          MaxSeen,    \* events the player remembers
          MaxPushes,  \* bound: pushes that arrive
          MaxFaults   \* bound: workers killed, pages lost, weeks passed, claims failed

ASSUME PhoneAlertsAssumption ==
  /\ Tests \subseteq Alerts
  /\ MaxEntries \in Nat \ {0} /\ MaxSeen \in Nat \ {0} /\ MaxPushes \in Nat /\ MaxFaults \in Nat

VARIABLES raised,  \* alerts the dispatcher has sent
          queued,  \* those with a delivery in the outbox
          copies,  \* alerts the socket still carries
          rows,    \* the recent events: how many were stored after each, whether it has expired
          jobs,    \* how many pushes of each alert the worker is to claim, has claimed
          pushes,  \* pushes that arrived
          page,    \* the page: its visibility, what its player has seen and its messages
          tray,    \* alerts with a notification on the screen
          faults,  \* faults so far
          alerted, \* history: how often an alert was shown, and played since the page was loaded
          since,   \* history: the other alerts the store and the player took since this one
          due      \* history: how often an alert was new to the store and to the player

alertVars ==
  <<raised, queued, copies, rows, jobs, pushes, page, tray, faults, alerted, since, due>>

Closed == [state |-> "closed", seen |-> << >>, mail |-> << >>]
Zero == [a \in Alerts |-> 0]
New == [a \in Alerts |-> {"age"}]
NoJobs == [claim |-> Zero, look |-> Zero]

AlertInit ==
  /\ raised = {} /\ queued = {} /\ copies = << >> /\ rows = << >> /\ jobs = NoJobs /\ pushes = 0
  /\ page = Closed /\ tray = {} /\ faults = 0
  /\ alerted = [shown |-> Zero, played |-> Zero]
  /\ since = [store |-> New, player |-> New] /\ due = [store |-> Zero, player |-> Zero]

Open == page.state # "closed"
Faulty == faults < MaxFaults /\ faults' = faults + 1
Plus(f, a) == [f EXCEPT ![a] = @ + 1]
Minus(f, a) == [f EXCEPT ![a] = @ - 1]
Newest(n, s) == IF Len(s) <= n THEN s ELSE SubSeq(s, Len(s) - n + 1, Len(s))

\* What a memory of n alerts may have lost, told from the alerts it took.
Lapsed(memory, a, n) == "age" \in memory[a] \/ Cardinality(memory[a]) >= n
Took(memory, a) == [b \in Alerts |-> IF b = a THEN {} ELSE memory[b] \cup {a}]

\* dispatch, dispatch_test_to_device: an alert is streamed to the page and, with an active
\* subscription, pushed; a test alert is streamed if it is not pushed.
Raise ==
  /\ \E a \in Alerts \ raised, push \in BOOLEAN :
       /\ raised' = raised \cup {a}
       /\ queued' = IF push THEN queued \cup {a} ELSE queued
       /\ copies' = IF Open /\ ~(a \in Tests /\ push) THEN Append(copies, a) ELSE copies
  /\ UNCHANGED <<rows, jobs, pushes, page, tray, faults, alerted, since, due>>

\* A push arrives; the outbox may send one again.
Push ==
  /\ pushes < MaxPushes /\ pushes' = pushes + 1
  /\ \E a \in queued : jobs' = [jobs EXCEPT !.claim = Plus(@, a)]
  /\ UNCHANGED <<raised, queued, copies, rows, page, tray, faults, alerted, since, due>>

Kept(a) == {b \in DOMAIN rows : ~rows[b].old} \cup {a}
After(a, b) == IF a = b THEN 0 ELSE rows[b].after + 1

\* Mutant of Fits: of too many rows the newest goes.
FitsOldest(a, b) ==
  Cardinality({c \in Kept(a) : After(a, c) > After(a, b)}) < MaxEntries

\* Of too many rows the oldest go.
Fits(a, b) == Cardinality({c \in Kept(a) : After(a, c) < After(a, b)}) < MaxEntries

\* The rows once an event is stored: those that expired go.
Stored(a) == [b \in {b \in Kept(a) : Fits(a, b)} |-> [after |-> After(a, b), old |-> FALSE]]

Held(a) == a \in DOMAIN rows /\ ~rows[a].old

\* claim: one transaction of the store, or one that fails and lets the event through.
Claim(a) ==
  /\ jobs.claim[a] > 0
  /\ \/ /\ Held(a) /\ jobs' = [jobs EXCEPT !.claim = Minus(@, a)]
        /\ UNCHANGED <<rows, since, due, faults>>
     \/ /\ ~Held(a) /\ rows' = Stored(a)
        /\ jobs' = [jobs EXCEPT !.claim = Minus(@, a), !.look = Plus(@, a)]
        /\ due' = IF Lapsed(since.store, a, MaxEntries) THEN [due EXCEPT !.store = Plus(@, a)] ELSE due
        /\ since' = [since EXCEPT !.store = Took(@, a)]
        /\ UNCHANGED faults
     \/ /\ Faulty
        /\ jobs' = [jobs EXCEPT !.claim = Minus(@, a), !.look = Plus(@, a)]
        /\ due' = [due EXCEPT !.store = Plus(@, a)]
        /\ UNCHANGED <<rows, since>>
  /\ UNCHANGED <<raised, queued, copies, pushes, page, tray, alerted>>

\* handlePush after its claim: a visible page is told, or the notification is shown.
Deliver(a) ==
  /\ jobs.look[a] > 0 /\ jobs' = [jobs EXCEPT !.look = Minus(@, a)]
  /\ IF page.state = "visible" /\ a \notin Tests
     THEN page' = [page EXCEPT !.mail = Append(@, a)] /\ UNCHANGED <<tray, alerted>>
     ELSE /\ tray' = tray \cup {a} /\ alerted' = [alerted EXCEPT !.shown = Plus(@, a)]
          /\ UNCHANGED page
  /\ UNCHANGED <<raised, queued, copies, rows, pushes, faults, since, due>>

\* handle of the page's player, for an alert of the stream or of the worker.
Play(a, mail) ==
  IF a \in Range(page.seen)
  THEN page' = [page EXCEPT !.mail = mail] /\ UNCHANGED <<alerted, since, due>>
  ELSE /\ page' = [page EXCEPT !.mail = mail, !.seen = Newest(MaxSeen, Append(@, a))]
       /\ alerted' = IF page.state = "visible" THEN [alerted EXCEPT !.played = Plus(@, a)] ELSE alerted
       /\ due' = IF Lapsed(since.player, a, MaxSeen) THEN [due EXCEPT !.player = Plus(@, a)] ELSE due
       /\ since' = [since EXCEPT !.player = Took(@, a)]

Listen ==
  /\ Open
  /\ \/ copies # << >> /\ copies' = Tail(copies) /\ Play(Head(copies), page.mail)
     \/ page.mail # << >> /\ Play(Head(page.mail), Tail(page.mail)) /\ UNCHANGED copies
  /\ UNCHANGED <<raised, queued, rows, jobs, pushes, tray, faults>>

\* A page begins with a player that has seen nothing.
Loaded == /\ page' = [Closed EXCEPT !.state = "visible"]
          /\ alerted' = [alerted EXCEPT !.played = Zero]
          /\ since' = [since EXCEPT !.player = New] /\ due' = [due EXCEPT !.player = Zero]

OpenPage ==
  /\ ~Open /\ Loaded
  /\ UNCHANGED <<raised, queued, copies, rows, jobs, pushes, tray, faults>>

\* handleNotificationClick: the page there is comes to the front, or one is opened.
Click ==
  /\ \E a \in tray : tray' = tray \ {a}
  /\ IF Open THEN page' = [page EXCEPT !.state = "visible"] /\ UNCHANGED <<alerted, since, due>> ELSE Loaded
  /\ UNCHANGED <<raised, queued, copies, rows, jobs, pushes, faults>>

Turn ==
  /\ Open
  /\ page' = [page EXCEPT !.state = IF page.state = "visible" THEN "hidden" ELSE "visible"]
  /\ UNCHANGED <<raised, queued, copies, rows, jobs, pushes, tray, faults, alerted, since, due>>

\* The page goes with its stream and its messages, or the worker with its jobs.
ClosePage ==
  /\ Open /\ Faulty /\ page' = Closed /\ copies' = << >>
  /\ UNCHANGED <<raised, queued, rows, jobs, pushes, tray, alerted, since, due>>

KillWorker ==
  /\ jobs # NoJobs /\ Faulty /\ jobs' = NoJobs
  /\ UNCHANGED <<raised, queued, copies, rows, pushes, page, tray, alerted, since, due>>

\* Seven days: every row has expired.
WeekPasses ==
  /\ DOMAIN rows # {} /\ Faulty
  /\ rows' = [a \in DOMAIN rows |-> [rows[a] EXCEPT !.old = TRUE]]
  /\ since' = [since EXCEPT !.store = [a \in Alerts |-> @[a] \cup {"age"}]]
  /\ UNCHANGED <<raised, queued, copies, jobs, pushes, page, tray, alerted, due>>

AlertNext ==
  \/ Raise \/ Push \/ Listen \/ OpenPage \/ Click \/ Turn \/ ClosePage \/ KillWorker \/ WeekPasses
  \/ \E a \in Alerts : Claim(a) \/ Deliver(a)

\* However often the Bridge repeats a push and whatever handlers run at once or are killed, a
\* phone shows an alert at most once, and a page plays it at most once though it hears of it
\* from the stream and from the worker, until as many other alerts as the store or the player
\* keeps came after it, or a week passed, or the store failed (claim, handlePush, handle).
AlertedOnce ==
  \A a \in Alerts : alerted.shown[a] <= due.store[a] /\ alerted.played[a] <= due.player[a]
=============================================================================
