------------------------------- MODULE EventHub -------------------------------
(***************************************************************************)
(* The event hub of the Bridge and the phones' streams that hang on it      *)
(* (bridge-core/src/event_hub.rs, websocket_stream in http_api.rs).         *)
(*                                                                         *)
(* The broadcast channel is the log of everything published: a receiver is  *)
(* the place where it reads next, and the channel keeps the last Capacity   *)
(* entries.  One thread is modelled, so the map of snapshots is the         *)
(* snapshot of that thread and a replay has at most one entry.              *)
(***************************************************************************)
EXTENDS Naturals, Sequences

CONSTANTS Streams,   \* connections of the phones
          Devices,   \* the devices they may belong to
          Capacity   \* how many events the channel keeps (256)

VARIABLES log,       \* everything that was published
          snapshot,  \* the latest snapshot of the thread
          streams    \* the subscribers

NoSnapshot == [status |-> "none", titled |-> FALSE, prompts |-> {}]
NoDevice == "none"

Event(kind, what) == [kind |-> kind, what |-> what]
Snap(s) == Event("snapshot", s)
Disconnect(d) == Event("disconnect", d)

Off == [at |-> "off", device |-> NoDevice, replay |-> << >>, first |-> 0, next |-> 0,
        view |-> NoSnapshot, heard |-> << >>]

HubInit == /\ log = << >> /\ snapshot = NoSnapshot
           /\ streams = [s \in Streams |-> Off]

Publish(event) == log' = Append(log, event)

\* set_snapshot stores under the lock ...
Store(s) == snapshot' = s
\* ... and publishes after it.
Announce(s) == Publish(Snap(s))

(***************************************************************************)
(* A subscription: the receiver, then the copy of the snapshots.            *)
(***************************************************************************)
Move(s, next) == streams' = [streams EXCEPT ![s] = next]

\* The upgrade was let through for device d; the socket is not up yet.
Upgraded(s, d) == Move(s, [Off EXCEPT !.at = "upgraded", !.device = d])

Receiver(s) == [streams[s] EXCEPT !.first = Len(log) + 1, !.next = Len(log) + 1]

Register(s) == /\ streams[s].at = "upgraded"
               /\ Move(s, [Receiver(s) EXCEPT !.at = "registered"])

Copied(s) == [streams[s] EXCEPT !.at = "open",
                                !.replay = IF snapshot = NoSnapshot THEN << >>
                                           ELSE << snapshot >>]

\* Mutant of CopySnapshots: the receiver is made after the copy.
CopiesThenRegisters(s) ==
  /\ streams[s].at = "registered"
  /\ Move(s, IF streams[s].first # 0 THEN [Copied(s) EXCEPT !.at = "registered", !.first = 0]
             ELSE [Receiver(s) EXCEPT !.at = "open"])

CopySnapshots(s) == streams[s].at = "registered" /\ Move(s, Copied(s))

(***************************************************************************)
(* recv: the replay first, then what the channel still has.                 *)
(***************************************************************************)
Ended(s) == [Off EXCEPT !.at = "ended"]
Behind(s) == (Len(log) + 1) - streams[s].next
Lagged(s) == Behind(s) > Capacity

\* Mutant of Cuts: only a stream that has nothing else to read is cut.
CutsAtEnd(s, event) ==
  /\ event.kind = "disconnect" /\ event.what = streams[s].device
  /\ streams[s].next = Len(log)

Cuts(s, event) == event.kind = "disconnect" /\ event.what = streams[s].device

\* What the phone makes of an event: its view of the thread, what it heard of it.
Shown(stream, event) ==
  CASE event.kind = "snapshot" -> [stream EXCEPT !.view = event.what]
    [] event.kind = "session" -> [stream EXCEPT !.heard = Append(@, event.what)]
    [] OTHER -> stream

Replay(s) == /\ streams[s].at = "open" /\ streams[s].replay # << >>
             /\ Move(s, [streams[s] EXCEPT !.view = Head(streams[s].replay), !.replay = Tail(@)])

Receive(s) ==
  /\ streams[s].at = "open" /\ streams[s].replay = << >> /\ Behind(s) > 0
  /\ LET event == log[streams[s].next]
     IN  Move(s, IF Lagged(s) \/ Cuts(s, event) THEN Ended(s)
                 ELSE Shown([streams[s] EXCEPT !.next = @ + 1], event))

\* The phone goes away.
Closes(s) == streams[s].at = "open" /\ Move(s, Ended(s))

\* What the log and the streams may hold.
HubTypeOK ==
  /\ \A i \in DOMAIN log : log[i].kind \in {"snapshot", "session", "message", "approval",
                                             "resolved", "disconnect"}
  /\ \A s \in Streams :
       /\ streams[s].at \in {"off", "upgraded", "registered", "open", "ended"}
       /\ streams[s].device \in Devices \cup {NoDevice}
       /\ streams[s].next \in 0 .. Len(log) + 1 /\ streams[s].first <= streams[s].next
       /\ Len(streams[s].replay) <= 1
=============================================================================
