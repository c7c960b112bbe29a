---------------------------- MODULE AlertPipeline ----------------------------
(***************************************************************************)
(* How a change of a Codex thread becomes an alert.  Two tasks watch the     *)
(* same thread and share its row of session_alert_state:                    *)
(*                                                                         *)
(*   mon     AlertMonitor: lists threads, then pending approvals, then        *)
(*           compares with the row                                          *)
(*   live    the notification forwarder: applies one notification at a time   *)
(*           to the snapshot in the event hub, then compares with the row     *)
(*   lister  a phone's GET /api/sessions, which overwrites that snapshot      *)
(*                                                                         *)
(* Codex itself (codex, feed) is the environment.  detect_alerts and the save *)
(* run under the store's mutex; the alerts are dispatched after it is         *)
(* released.  What a dispatch does is in PushOutbox.                         *)
(*                                                                         *)
(* One thread is modelled: threads have separate rows and snapshots.         *)
(***************************************************************************)
EXTENDS Naturals, Sequences, SequencesExt

CONSTANTS
  Statuses,     \* thread statuses Codex may show
  Prompts,      \* request ids Codex may ask approval under
  Stamped,      \* whether notifications carry the time of the change
  KnownLimit,   \* how many approval ids a row remembers (256)
  MaxClock,     \* bound: changes Codex makes
  MaxFeed,      \* bound: notifications on their way
  MaxRestarts   \* bound: restarts of the sidecar

AllStatuses == {"idle", "running", "waiting_for_input", "waiting_for_approval", "error"}

ASSUME AlertPipelineAssumption ==
  /\ Statuses \subseteq AllStatuses /\ "idle" \in Statuses
  /\ Stamped \in BOOLEAN
  /\ KnownLimit \in Nat \ {0}
  /\ MaxClock \in Nat /\ MaxFeed \in Nat /\ MaxRestarts \in Nat

VARIABLES
  codex,     \* the thread as Codex has it: status, time of its last change, open approvals
  feed,      \* notifications not applied yet
  clock,     \* changes Codex has made
  hub,       \* the thread's SessionSnapshot in the event hub
  table,     \* the thread's row of session_alert_state
  live, mon, lister,
  restarts,
  announced, \* history: alerts dispatched
  repeated,  \* history: alerts dispatched more than once
  lost       \* history: alerts detected and then dropped

vars == <<codex, feed, clock, hub, table, live, mon, lister, restarts, announced, repeated, lost>>
bridge == <<hub, table, live, mon, lister>>
dispatched == <<announced, repeated>>
history == <<restarts, dispatched, lost>>

(***************************************************************************)
(* Approval ids.  The live path knows an approval as "thread:request", the    *)
(* monitor as "request".  No request id reads as the number of a cycle:       *)
(* stable_event_id would hash both to one alert id.                          *)
(***************************************************************************)
LiveId(request) == <<"thread", request>>
PolledId(request) == <<"request", request>>

NoSnapshot == [status |-> "none", at |-> 0, approvals |-> << >>]
NoState == [status |-> "none", at |-> 0, cycle |-> 0, known |-> << >>, fallback |-> FALSE]

(***************************************************************************)
(* detect_alerts                                                           *)
(***************************************************************************)
NativeAlert(id) == <<"approval_required", "id", id>>
CycleAlert(kind, cycle) == <<kind, "cycle", cycle>>
CompletedAlert(from, to) == <<"completed", "times", <<from, to>>>>

\* Mutant: a snapshot as old as the row is ignored too.
StaleOrSame(previous, snapshot) == previous # NoState /\ snapshot.at <= previous.at

Stale(previous, snapshot) == previous # NoState /\ snapshot.at < previous.at

StateCycle(previous, snapshot) ==
  IF previous # NoState /\ previous.status # snapshot.status
    THEN previous.cycle + 1
    ELSE previous.cycle

\* The ids the row does not know, in the order they are listed.
Unknown(previous, native) ==
  LET unknown[i \in 0 .. Len(native)] ==
        IF i = 0 THEN << >>
        ELSE IF Contains(previous.known, native[i]) THEN unknown[i - 1]
        ELSE Append(unknown[i - 1], native[i])
  IN  unknown[Len(native)]

\* Mutant: only the ids of the latest observation are remembered.
KnownCurrent(previous, native) == native

\* The newest KnownLimit ids.
Known(previous, native) ==
  LET ids == previous.known \o Unknown(previous, native)
  IN  IF Len(ids) > KnownLimit THEN SubSeq(ids, Len(ids) - KnownLimit + 1, Len(ids)) ELSE ids

Enters(previous, snapshot, status) == previous.status # status /\ snapshot.status = status

FallsBack(previous, snapshot, native) ==
  /\ previous # NoState
  /\ Enters(previous, snapshot, "waiting_for_approval")
  /\ Unknown(previous, native) = << >>

\* fallback: the row's cycle was announced without an approval id.  The source keeps
\* the cycle's number, which is the row's own until the status changes.
NextState(previous, snapshot, native) ==
  [status   |-> snapshot.status,
   at       |-> snapshot.at,
   cycle    |-> StateCycle(previous, snapshot),
   known    |-> Known(previous, native),
   fallback |-> \/ FallsBack(previous, snapshot, native)
                \/ previous.fallback /\ snapshot.status = "waiting_for_approval"]

\* Mutant: the ids of a thread without earlier ids are taken for such late ones.
AbsorbsFirst(previous) == previous.known = << >>

\* An id that turns up after its prompt was announced without one is not announced again.
Absorbs(previous) == previous.fallback /\ previous.known = << >>

If(condition, alert) == IF condition THEN <<alert>> ELSE << >>

Alerts(previous, snapshot, native) ==
  LET ids == Unknown(previous, native)
      cycle == StateCycle(previous, snapshot)
  IN  IF previous = NoState THEN << >>
      ELSE (IF Absorbs(previous) THEN << >> ELSE [i \in DOMAIN ids |-> NativeAlert(ids[i])])
           \o If(previous.status = "running" /\ snapshot.status = "idle",
                 CompletedAlert(previous.at, snapshot.at))
           \o If(Enters(previous, snapshot, "waiting_for_input"),
                 CycleAlert("input_required", cycle))
           \o If(Enters(previous, snapshot, "error"), CycleAlert("error", cycle))
           \o If(FallsBack(previous, snapshot, native), CycleAlert("approval_required", cycle))

(***************************************************************************)
(* States                                                                  *)
(***************************************************************************)
Times == 0 .. 2 * MaxClock + 1

Snapshots == [status : AllStatuses, at : Times, approvals : Seq({LiveId(p) : p \in Prompts})]

Idle == [pc |-> "idle"]

\* What a task does after its comparison: dispatch what there is, one by one.
Dispatching(alerts) ==
  IF alerts = << >> THEN Idle ELSE [pc |-> "dispatch", alerts |-> alerts]

Polled == [status |-> codex.status, at |-> codex.at, approvals |-> << >>]

AlertKinds == {"completed", "approval_required", "input_required", "error"}

\* What each variable of the pipeline may hold.
TypeOK ==
  /\ codex.status \in Statuses /\ codex.at \in Times
  /\ clock \in 0 .. MaxClock
  /\ hub = NoSnapshot \/ hub \in Snapshots
  /\ table = NoState \/ /\ table.status \in AllStatuses /\ table.at \in Times
                        /\ table.cycle \in Nat /\ Len(table.known) <= KnownLimit
                        /\ table.fallback => table.status = "waiting_for_approval"
  /\ live.pc \in {"idle", "write", "detect", "dispatch"}
  /\ mon.pc \in {"idle", "listed", "detect", "dispatch"}
  /\ lister.pc \in {"idle", "write"}
  /\ restarts \in 0 .. MaxRestarts
  /\ \A alert \in announced : alert[1] \in AlertKinds
  /\ repeated \subseteq announced
  /\ Len(feed) <= MaxFeed

Init ==
  /\ codex = [status |-> "idle", at |-> 0, approvals |-> << >>, asked |-> {}]
  /\ feed = << >>
  /\ clock = 0
  /\ hub = NoSnapshot /\ table = NoState
  /\ live = Idle /\ mon = Idle /\ lister = Idle
  /\ restarts = 0
  /\ announced = {} /\ repeated = {} /\ lost = {}

(***************************************************************************)
(* Codex (external).  The n-th change happens at 2n; what is received after it,  *)
(* and before the next one, at 2n + 1.                                      *)
(***************************************************************************)
ChangeTime == 2 * (clock + 1)

\* A thread that stops waiting has no open approval.
CodexStatus(status) ==
  /\ clock < MaxClock /\ Len(feed) < MaxFeed
  /\ status \notin {codex.status, "waiting_for_approval"}
  /\ clock' = clock + 1
  /\ codex' = [codex EXCEPT !.status = status, !.at = ChangeTime, !.approvals = << >>]
  /\ feed' = Append(feed, [kind |-> "status", status |-> status, at |-> ChangeTime])
  /\ UNCHANGED <<bridge, history>>

\* The thread waits for an approval; the request comes a little later.
CodexWaits ==
  /\ clock < MaxClock /\ Len(feed) < MaxFeed
  /\ "waiting_for_approval" \in Statuses \ {codex.status}
  /\ clock' = clock + 1
  /\ codex' = [codex EXCEPT !.status = "waiting_for_approval", !.at = ChangeTime]
  /\ feed' = Append(feed, [kind |-> "status", status |-> "waiting_for_approval", at |-> ChangeTime])
  /\ UNCHANGED <<bridge, history>>

\* The request of a thread that waits already, or the one that makes it wait.
CodexAsks(request) ==
  /\ "waiting_for_approval" \in Statuses /\ Len(feed) < MaxFeed
  /\ request \notin codex.asked /\ codex.approvals = << >>
  /\ \/ codex.status = "waiting_for_approval" /\ UNCHANGED clock
     \/ codex.status # "waiting_for_approval" /\ clock < MaxClock /\ clock' = clock + 1
  /\ LET at == IF clock' = clock THEN codex.at ELSE ChangeTime IN
       /\ codex' = [status |-> "waiting_for_approval", at |-> at,
                    approvals |-> Append(codex.approvals, request),
                    asked |-> codex.asked \cup {request}]
       /\ feed' = Append(feed, [kind |-> "approval", request |-> request, at |-> at])
  /\ UNCHANGED <<bridge, history>>

CodexAnswered ==
  /\ codex.approvals # << >>
  /\ codex' = [codex EXCEPT !.approvals = << >>]
  /\ UNCHANGED <<feed, clock, bridge, history>>

\* The notification stream disconnects; what was under way is gone.
FeedLost ==
  /\ feed # << >>
  /\ feed' = << >>
  /\ UNCHANGED <<codex, clock, bridge, history>>

(***************************************************************************)
(* What a dispatch leaves in the history; the dispatch itself is PushOutbox's. *)
(***************************************************************************)
Announce(alert) ==
  /\ announced' = announced \cup {alert}
  /\ repeated' = repeated \cup (announced \cap {alert})

(***************************************************************************)
(* The live path (http_api.rs, apply_codex_notification)                    *)
(***************************************************************************)
ReceivedAt(n) == IF Stamped THEN n.at ELSE 2 * clock + 1

\* A request for approval is a change of the status too (normalizer.rs).
LiveStatus(n) == IF n.kind = "approval" THEN "waiting_for_approval" ELSE n.status

Merge(base, n) ==
  [status    |-> LiveStatus(n),
   at        |-> IF ReceivedAt(n) > base.at THEN ReceivedAt(n) ELSE base.at,
   approvals |-> IF n.kind = "approval" /\ ~Contains(base.approvals, LiveId(n.request))
                   THEN Append(base.approvals, LiveId(n.request))
                   ELSE base.approvals]

\* The hub's snapshot is read; without one, an idle thread is made up.
LiveTake ==
  /\ live.pc = "idle" /\ feed # << >>
  /\ LET n == Head(feed)
         base == IF hub = NoSnapshot
                   THEN [status |-> "idle", at |-> ReceivedAt(n), approvals |-> << >>]
                   ELSE hub
     IN  live' = [pc |-> "write", snapshot |-> Merge(base, n)]
  /\ feed' = Tail(feed)
  /\ UNCHANGED <<codex, clock, hub, table, mon, lister, history>>

LiveWrite ==
  /\ live.pc = "write"
  /\ hub' = live.snapshot
  /\ live' = [live EXCEPT !.pc = "detect"]
  /\ UNCHANGED <<codex, feed, clock, table, mon, lister, history>>

LiveDetect ==
  /\ live.pc = "detect"
  /\ LET snapshot == live.snapshot
         ignored == Stale(table, snapshot)
     IN  /\ table' = IF ignored THEN table ELSE NextState(table, snapshot, snapshot.approvals)
         /\ live' = Dispatching(IF ignored THEN << >>
                                            ELSE Alerts(table, snapshot, snapshot.approvals))
  /\ UNCHANGED <<codex, feed, clock, hub, mon, lister, history>>

\* The row cannot be read or saved: nothing is dispatched.
LiveFails ==
  /\ live.pc = "detect"
  /\ live' = Idle
  /\ UNCHANGED <<codex, feed, clock, hub, table, mon, lister, history>>

\* A dispatch that fails is ignored.
LiveDispatch ==
  /\ live.pc = "dispatch"
  /\ \/ Announce(Head(live.alerts)) /\ UNCHANGED lost
     \/ lost' = lost \cup {Head(live.alerts)} /\ UNCHANGED dispatched
  /\ live' = Dispatching(Tail(live.alerts))
  /\ UNCHANGED <<codex, feed, clock, hub, table, mon, lister, restarts>>

(***************************************************************************)
(* The monitor (alert_monitor.rs), with a device that wants every alert      *)
(***************************************************************************)
MonitorList ==
  /\ mon.pc = "idle"
  /\ mon' = [pc |-> "listed", snapshot |-> Polled]
  /\ UNCHANGED <<codex, feed, clock, hub, table, live, lister, history>>

MonitorApprovals ==
  /\ mon.pc = "listed"
  /\ mon' = [pc |-> "detect", snapshot |-> mon.snapshot,
             native |-> [i \in DOMAIN codex.approvals |-> PolledId(codex.approvals[i])]]
  /\ UNCHANGED <<codex, feed, clock, hub, table, live, lister, history>>

MonitorDetect ==
  /\ mon.pc = "detect"
  /\ LET ignored == Stale(table, mon.snapshot) IN
       /\ table' = IF ignored THEN table ELSE NextState(table, mon.snapshot, mon.native)
       /\ mon' = Dispatching(IF ignored THEN << >> ELSE Alerts(table, mon.snapshot, mon.native))
  /\ UNCHANGED <<codex, feed, clock, hub, live, lister, history>>

MonitorDispatch ==
  /\ mon.pc = "dispatch"
  /\ Announce(Head(mon.alerts))
  /\ mon' = Dispatching(Tail(mon.alerts))
  /\ UNCHANGED <<codex, feed, clock, hub, table, live, lister, restarts, lost>>

\* An adapter call, a statement or a dispatch fails: the rest of the cycle is abandoned.
MonitorFails ==
  /\ \/ mon.pc \in {"listed", "detect"} /\ UNCHANGED lost
     \/ /\ mon.pc = "dispatch"
        /\ lost' = lost \cup ToSet(mon.alerts)
  /\ mon' = Idle
  /\ UNCHANGED <<codex, feed, clock, hub, table, live, lister, restarts, dispatched>>

(***************************************************************************)
(* list_sessions: writes what it listed, or rewrites what it found cached,    *)
(* after an await.                                                          *)
(***************************************************************************)
ListerRead ==
  /\ lister.pc = "idle"
  /\ \E snapshot \in {Polled, hub} \ {NoSnapshot} : lister' = [pc |-> "write", snapshot |-> snapshot]
  /\ UNCHANGED <<codex, feed, clock, hub, table, live, mon, history>>

ListerWrite ==
  /\ lister.pc = "write"
  /\ hub' = lister.snapshot
  /\ lister' = Idle
  /\ UNCHANGED <<codex, feed, clock, table, live, mon, history>>

(***************************************************************************)
(* The sidecar is restarted: only the row survives.                         *)
(***************************************************************************)
Detected(process) == IF process.pc = "dispatch" THEN ToSet(process.alerts) ELSE {}

Restart ==
  /\ restarts < MaxRestarts
  /\ restarts' = restarts + 1
  /\ hub' = NoSnapshot /\ feed' = << >>
  /\ live' = Idle /\ mon' = Idle /\ lister' = Idle
  /\ lost' = lost \cup Detected(live) \cup Detected(mon)
  /\ UNCHANGED <<codex, clock, table, dispatched>>

LiveStep == LiveTake \/ LiveWrite \/ LiveDetect \/ LiveFails \/ LiveDispatch

MonitorStep == MonitorList \/ MonitorApprovals \/ MonitorDetect \/ MonitorDispatch

Next ==
  \/ \E status \in Statuses : CodexStatus(status)
  \/ CodexWaits \/ (\E request \in Prompts : CodexAsks(request)) \/ CodexAnswered \/ FeedLost
  \/ LiveStep \/ MonitorStep \/ MonitorFails
  \/ ListerRead \/ ListerWrite
  \/ Restart

Spec == Init /\ [][Next]_vars

(***************************************************************************)
(* Fairness: both tasks keep running, and an adapter or a database asked      *)
(* again and again answers the monitor in the end.                          *)
(***************************************************************************)
Fairness ==
  /\ WF_vars(LiveStep)
  /\ WF_vars(MonitorStep)
  /\ SF_vars(MonitorApprovals)
  /\ SF_vars(MonitorDetect)

FairSpec == Spec /\ Fairness

(***************************************************************************)
(* Properties                                                              *)
(***************************************************************************)
CycleKinds(status) ==
  CASE status = "waiting_for_input" -> {"input_required"}
    [] status = "error" -> {"error"}
    [] OTHER -> {}

IsTimed(alert) == alert[2] = "times"

\* Whatever the order of polls, notifications, listings, failures and restarts, no
\* alert id built from a cycle or an approval id is dispatched twice: both tasks go
\* through one row, and the row is saved before the dispatch.
RaisedOnce == \A alert \in repeated : IsTimed(alert)

\* With notifications that carry their times, a state in which the thread stays is
\* found in the end and its alert has been dispatched (or was lost in a failure),
\* whatever notifications were dropped and whatever the hub's snapshot was worth.
StateIsAnnounced ==
  \A status \in Statuses :
    <>[](codex.status = status) =>
      []<>(/\ table.status = status
           /\ table.cycle > 0 =>
                \A kind \in CycleKinds(status) :
                  CycleAlert(kind, table.cycle) \in announced \cup lost)

\* A request for approval that stays open is found in the end: it is in an alert of
\* its own, or under the alert of the row's wait for approval, unless the thread's
\* first observation already showed it.
PromptIsAnnounced ==
  \A request \in Prompts :
    LET ids == {LiveId(request), PolledId(request)}
    IN  <>[]Contains(codex.approvals, request) =>
          <>(\/ \E id \in ids : NativeAlert(id) \in announced \cup lost
             \/ CycleAlert("approval_required", table.cycle) \in announced \cup lost
             \/ table.cycle = 0 /\ ids \cap ToSet(table.known) # {})

=============================================================================
