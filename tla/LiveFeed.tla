------------------------------- MODULE LiveFeed -------------------------------
(***************************************************************************)
(* What a phone sees live of a Codex thread: the forwarder that applies     *)
(* Codex's notifications, the requests that write snapshots or decide        *)
(* approvals (bridge-core/src/http_api.rs), the hub they all publish to,     *)
(* and the streams of the paired phones.                                     *)
(*                                                                         *)
(* One thread.  The alerts of a notification are in AlertPipeline, the       *)
(* history of the thread in SessionHistory.  A scene is the set of actors    *)
(* that meet in a behaviour; the last three are those of BridgeFeed.         *)
(***************************************************************************)
EXTENDS Naturals, Sequences, TLC

CONSTANTS Scenes, Devices, Streams, Capacity, Prompts,
          BridgeKinds, MaxPages, MaxSets,
          MaxNotes,     \* bound: notifications Codex emits
          MaxLists,     \* bound: listings of the sessions
          MaxRequests   \* bound: other requests of the phones

Actors == {"codex", "breaks", "list", "create", "approve", "revoke",
           "images", "threads", "tools"}

VARIABLES scene,
          page, link, log, snapshot, streams, pairing, row, token,
          codex,     \* the thread in the application: status, open prompts, notes emitted
          forwarder, lister, creator,
          pending,   \* pending_approvals
          calls,     \* what each device does about approvals
          revoking,  \* devices whose row is revoked and whose stream is not cut yet
          requests,  \* how many requests the phones have sent
          taken,     \* history: the decision Codex took on each prompt
          failed     \* history: prompts on which a call to Codex failed

Link == INSTANCE CodexLink
Hub == INSTANCE EventHub
Phones == INSTANCE PairedDevices

ASSUME LiveFeedAssumption == /\ Scenes \subseteq SUBSET Actors
                             /\ BridgeKinds \subseteq Link!AllBridgeKinds
                             /\ Capacity \in Nat \ {0}
                             /\ MaxPages \in Nat \ {0} /\ MaxSets \in Nat
                             /\ MaxNotes \in Nat /\ MaxLists \in Nat
                             /\ MaxRequests \in Nat

linkVars == <<page, link>>
hubVars == <<log, snapshot, streams>>
phoneVars == <<pairing, row, token, revoking>>
writerVars == <<forwarder, lister, creator>>
approvalVars == <<pending, calls, taken, failed>>
feedVars == <<scene, linkVars, hubVars, phoneVars, codex, writerVars, approvalVars, requests>>

\* What the normalizer tells apart: a turn that begins or ends, any item of it
\* (deltas, tools), a prompt.
Kinds == {"turn/started", "turn/completed", "item", "requestApproval"}

\* live_status_for_event of the event a notification becomes.
StatusOf(kind) ==
  CASE kind \in {"turn/started", "item"} -> "running"
    [] kind = "turn/completed" -> "idle"
    [] kind = "requestApproval" -> "waiting_for_approval"
IsStatus(kind) == kind # "item"

Statuses == {"none", "idle", "running", "waiting_for_approval"}

Idle == [pc |-> "idle", got |-> Hub!NoSnapshot]
Quiet == [pc |-> "idle", note |-> [n |-> 0, kind |-> "item", prompt |-> "none"],
          mute |-> FALSE, got |-> Hub!NoSnapshot]
NoList == [pc |-> "idle", again |-> FALSE, got |-> Hub!NoSnapshot]
NoCall == [pc |-> "idle", prompt |-> "none", say |-> "none"]
Decisions == {"approve", "reject"}

FeedInit ==
  /\ scene \in Scenes
  /\ Link!LinkInit /\ Hub!HubInit
  /\ IF "revoke" \in scene
     THEN Phones!PairingInit
     ELSE /\ pairing = "used" /\ row = [d \in Devices |-> "paired"]
          /\ token = [d \in Devices |-> "live"]
  /\ codex = [status |-> "idle", open |-> {}, asked |-> {}, said |-> 0]
  /\ forwarder = Quiet /\ lister = NoList /\ creator = Idle
  /\ pending = {} /\ calls = [d \in Devices |-> NoCall] /\ revoking = {}
  /\ requests = 0
  /\ taken = << >> /\ failed = {}

Asks == requests < MaxRequests /\ requests' = requests + 1
AsksList == requests < MaxLists /\ requests' = requests + 1

(***************************************************************************)
(* Codex emits notifications of the thread; one that nobody is attached for *)
(* is lost.                                                                 *)
(***************************************************************************)
Note(kind, prompt) == [n |-> codex.said + 1, kind |-> kind, prompt |-> prompt]

Emits(kind, prompt) ==
  /\ page.up /\ codex.said < MaxNotes
  /\ link' = Link!Emitted(Note(kind, prompt))
  /\ codex' = [codex EXCEPT !.said = @ + 1, !.status = StatusOf(kind),
                            !.open = IF prompt = "none" THEN @ ELSE @ \cup {prompt},
                            !.asked = IF prompt = "none" THEN @ ELSE @ \cup {prompt}]
  /\ UNCHANGED <<scene, page, hubVars, phoneVars, writerVars, approvalVars, requests>>

CodexEmits ==
  \/ "codex" \in scene /\ \E kind \in Kinds \ {"requestApproval"} : Emits(kind, "none")
  \/ /\ "approve" \in scene
     /\ \E prompt \in Prompts \ codex.asked : Emits("requestApproval", prompt)

(***************************************************************************)
(* The link.                                                               *)
(***************************************************************************)
Environment == "breaks" \in scene
               /\ (Link!Quits \/ Link!Starts \/ Link!Loads \/ Link!Reloads \/ Link!Breaks)

LinkStep == /\ Link!Connecting \/ Environment
            /\ UNCHANGED <<scene, hubVars, phoneVars, codex, writerVars, approvalVars, requests>>

(***************************************************************************)
(* apply_codex_notification, between its awaits.                            *)
(***************************************************************************)
Goes(pc) == forwarder' = [forwarder EXCEPT !.pc = pc]
forwarderOthers == <<scene, page, phoneVars, codex, lister, creator, calls, taken, failed,
                     requests, streams>>

\* A status the snapshot already shows is not published again.
Take ==
  /\ forwarder.pc = "idle" /\ Link!Waiting
  /\ LET note == Head(link.inbox)
     IN  forwarder' = [Quiet EXCEPT !.note = note,
                         !.pc = IF note.kind = "requestApproval" THEN "record" ELSE "read",
                         !.mute = IsStatus(note.kind) /\ snapshot.status = StatusOf(note.kind)]
  /\ link' = Link!Taken
  /\ UNCHANGED <<forwarderOthers, log, snapshot, pending>>

\* record_live_approval
Record ==
  /\ forwarder.pc = "record"
  /\ pending' = pending \cup {forwarder.note.prompt}
  /\ Hub!Publish(Hub!Event("approval", forwarder.note.prompt))
  /\ Goes("read")
  /\ UNCHANGED <<forwarderOthers, link, snapshot>>

\* update_snapshot_from_live_event: a thread without a snapshot gets one.
Merged(note) ==
  [snapshot EXCEPT !.status = StatusOf(note.kind),
                   !.prompts = IF note.prompt = "none" THEN @ ELSE @ \cup {note.prompt}]

Read ==
  /\ forwarder.pc = "read"
  /\ forwarder' = [forwarder EXCEPT !.pc = "store", !.got = Merged(forwarder.note)]
  /\ UNCHANGED <<forwarderOthers, link, log, snapshot, pending>>

StoreLive ==
  /\ forwarder.pc = "store"
  /\ Hub!Store(forwarder.got) /\ Goes("announce")
  /\ UNCHANGED <<forwarderOthers, link, log, pending>>

AnnounceLive ==
  /\ forwarder.pc = "announce"
  /\ Hub!Announce(forwarder.got)
  /\ IF forwarder.mute THEN forwarder' = Quiet ELSE Goes("event")
  /\ UNCHANGED <<forwarderOthers, link, snapshot, pending>>

PublishEvent ==
  /\ forwarder.pc = "event"
  /\ Hub!Publish(Hub!Event("session", forwarder.note.n))
  /\ forwarder' = Quiet
  /\ UNCHANGED <<forwarderOthers, link, snapshot, pending>>

Forward == Take \/ Record \/ Read \/ StoreLive \/ AnnounceLive \/ PublishEvent

(***************************************************************************)
(* list_sessions: what Codex lists, enriched and stored; then what the hub  *)
(* has, enriched and stored once more.                                      *)
(***************************************************************************)
listerOthers == <<scene, linkVars, phoneVars, codex, forwarder, creator, approvalVars, streams>>

Lists(pc) == lister' = [lister EXCEPT !.pc = pc]

\* snapshot_from_thread: a thread that carries no name has only its id for a title.
Listed(status, titled) == [status |-> status, titled |-> titled, prompts |-> {}]

Fetch ==
  /\ "list" \in scene /\ lister.pc = "idle" /\ Link!Answers /\ AsksList
  /\ \E titled \in BOOLEAN :
       lister' = [pc |-> "enrich", again |-> FALSE, got |-> Listed(codex.status, titled)]
  /\ UNCHANGED <<listerOthers, log, snapshot>>

\* A snapshot from the hub is stored again only if it was enriched.
EnrichedTo(titled) ==
  IF lister.again /\ ~titled THEN NoList
  ELSE [lister EXCEPT !.pc = "store", !.got.titled = titled]

\* merge_snapshot_metadata with the cached snapshot; a thread that has no title
\* yet is resumed, unless that was tried a moment ago.
Enrich ==
  /\ lister.pc = "enrich"
  /\ LET known == lister.got.titled \/ snapshot.titled
     IN  \/ lister' = EnrichedTo(known)
         \/ ~known /\ Lists("resume")
  /\ UNCHANGED <<listerOthers, log, snapshot, requests>>

Resume ==
  /\ lister.pc = "resume"
  /\ \E found \in {Link!Answers, FALSE} : lister' = EnrichedTo(found)
  /\ UNCHANGED <<listerOthers, log, snapshot, requests>>

StoreListed ==
  /\ lister.pc = "store"
  /\ Hub!Store(lister.got) /\ Lists("announce")
  /\ UNCHANGED <<listerOthers, log, requests>>

AnnounceListed ==
  /\ lister.pc = "announce"
  /\ Hub!Announce(lister.got)
  /\ IF lister.again THEN lister' = NoList ELSE Lists("reread")
  /\ UNCHANGED <<listerOthers, snapshot, requests>>

Reread ==
  /\ lister.pc = "reread"
  /\ lister' = IF snapshot.titled THEN NoList
               ELSE [pc |-> "enrich", again |-> TRUE, got |-> snapshot]
  /\ UNCHANGED <<listerOthers, log, snapshot, requests>>

List == Fetch \/ Enrich \/ Resume \/ StoreListed \/ AnnounceListed \/ Reread

(***************************************************************************)
(* create_session: Codex starts the thread and its notifications may come   *)
(* before the request stores the snapshot of a running thread.              *)
(***************************************************************************)
Creates(pc) == creator' = [creator EXCEPT !.pc = pc]
creatorOthers == <<scene, page, phoneVars, forwarder, lister, approvalVars, streams>>

StartThread ==
  /\ "create" \in scene /\ creator.pc = "idle" /\ codex.said = 0 /\ Link!Answers
  /\ creator' = [pc |-> "store",
                 got |-> Listed("running", TRUE)]
  /\ codex' = [codex EXCEPT !.status = "running", !.said = 1]
  /\ link' = Link!Emitted(Note("turn/started", "none"))
  /\ UNCHANGED <<creatorOthers, log, snapshot, requests>>

StoreCreated ==
  /\ creator.pc = "store"
  /\ Hub!Store(creator.got) /\ Creates("announce")
  /\ UNCHANGED <<creatorOthers, link, codex, log, requests>>

AnnounceCreated ==
  /\ creator.pc = "announce"
  /\ Hub!Announce(creator.got) /\ Creates("echo")
  /\ UNCHANGED <<creatorOthers, link, codex, snapshot, requests>>

\* The message that began the thread is an event of the Bridge's own.
Echo ==
  /\ creator.pc = "echo"
  /\ Hub!Publish(Hub!Event("message", "first"))
  /\ creator' = Idle
  /\ UNCHANGED <<creatorOthers, link, codex, snapshot, requests>>

Create == StartThread \/ StoreCreated \/ AnnounceCreated \/ Echo

(***************************************************************************)
(* Approvals.  Codex takes the first decision on a prompt.                  *)
(***************************************************************************)
Calls(d, next) == calls' = [calls EXCEPT ![d] = next]
approvalOthers == <<scene, linkVars, snapshot, streams, phoneVars, writerVars>>

\* list_approvals fetches what is open ...
FetchApprovals(d) ==
  /\ "approve" \in scene /\ calls[d].pc = "idle" /\ Link!AnswersApprovals /\ Asks
  /\ Calls(d, [pc |-> "fetched", open |-> codex.open])
  /\ UNCHANGED <<approvalOthers, codex, log, pending, taken, failed>>

\* ... and replaces what the Bridge had.
ReplaceApprovals(d) ==
  /\ calls[d].pc = "fetched"
  /\ pending' = calls[d].open
  /\ Calls(d, NoCall)
  /\ UNCHANGED <<approvalOthers, codex, log, taken, failed, requests>>

\* respondToApproval finds the request, and answers it after that.
Find(d, prompt, say) ==
  /\ "approve" \in scene /\ calls[d].pc = "idle" /\ Link!AnswersApprovals /\ Asks
  /\ prompt \in codex.open
  /\ Calls(d, [pc |-> "answer", prompt |-> prompt, say |-> say])
  /\ UNCHANGED <<approvalOthers, codex, log, pending, taken, failed>>

Took(prompt, say) == [p \in DOMAIN taken \cup {prompt} |->
                        IF p \in DOMAIN taken THEN taken[p] ELSE say]

\* The call may fail before Codex is reached or on the way back.
Answer(d) ==
  /\ calls[d].pc = "answer"
  /\ \E reached, told \in BOOLEAN :
       LET prompt == calls[d].prompt
       IN  /\ told => reached
           /\ codex' = [codex EXCEPT !.open = IF reached THEN @ \ {prompt} ELSE @]
           /\ taken' = IF reached THEN Took(prompt, calls[d].say) ELSE taken
           /\ Calls(d, IF told THEN [calls[d] EXCEPT !.pc = "remove"] ELSE NoCall)
           /\ failed' = IF told THEN failed ELSE failed \cup {prompt}
  /\ UNCHANGED <<approvalOthers, log, pending, requests>>

\* Mutant of Remove: only what was pending in the Bridge is resolved.
RemoveKnown(d) ==
  /\ calls[d].pc = "remove"
  /\ pending' = pending \ {calls[d].prompt}
  /\ Calls(d, IF calls[d].prompt \in pending THEN [calls[d] EXCEPT !.pc = "resolve"] ELSE NoCall)
  /\ UNCHANGED <<approvalOthers, codex, log, taken, failed, requests>>

\* The Bridge forgets the prompt, pending or not, and tells the phones.
Remove(d) ==
  /\ calls[d].pc = "remove"
  /\ pending' = pending \ {calls[d].prompt}
  /\ Calls(d, [calls[d] EXCEPT !.pc = "resolve"])
  /\ UNCHANGED <<approvalOthers, codex, log, taken, failed, requests>>

Resolve(d) ==
  /\ calls[d].pc = "resolve"
  /\ Hub!Publish(Hub!Event("resolved", [prompt |-> calls[d].prompt, say |-> calls[d].say]))
  /\ Calls(d, NoCall)
  /\ UNCHANGED <<approvalOthers, codex, pending, taken, failed, requests>>

Decide(d) == \/ \E prompt \in Prompts, say \in Decisions : Find(d, prompt, say)
             \/ Answer(d) \/ Remove(d) \/ Resolve(d)

(***************************************************************************)
(* Pairing, sessions, revocation.                                           *)
(***************************************************************************)
phoneOthers == <<scene, linkVars, snapshot, codex, writerVars, approvalVars>>

Pairing ==
  /\ "revoke" \in scene
  /\ \/ /\ Phones!CreateToken /\ Asks
     \/ \E d \in Devices : Phones!RegisterDevice(d) /\ UNCHANGED requests
     \/ \E d \in Devices : Phones!CreateSession(d) /\ token[d] # "live" /\ UNCHANGED requests
     \/ Phones!Expires /\ UNCHANGED requests
  /\ UNCHANGED <<phoneOthers, log, streams, revoking>>

\* revoke_device: the row, then the streams (then the notification data, in
\* PushOutbox).
Revoke(d) ==
  /\ "revoke" \in scene /\ Asks
  /\ Phones!RevokeRow(d) /\ revoking' = revoking \cup {d}
  /\ UNCHANGED <<phoneOthers, log, streams>>

CutStreams(d) ==
  /\ d \in revoking /\ revoking' = revoking \ {d}
  /\ Hub!Publish(Hub!Disconnect(d))
  /\ UNCHANGED <<phoneOthers, streams, pairing, row, token, requests>>

(***************************************************************************)
(* The streams.                                                            *)
(***************************************************************************)
streamOthers == <<scene, linkVars, log, snapshot, phoneVars, codex, writerVars, approvalVars,
                  requests>>

\* require_websocket_auth lets the upgrade pass.
Upgrade(s, d) == /\ streams[s].at = "off" /\ Phones!Valid(d)
                 /\ Hub!Upgraded(s, d)
                 /\ UNCHANGED streamOthers

Stream(s) == /\ Hub!Register(s) \/ Hub!CopySnapshots(s) \/ Hub!Replay(s) \/ Hub!Receive(s)
                \/ Hub!Closes(s)
             /\ UNCHANGED streamOthers

FeedNext ==
  \/ CodexEmits \/ LinkStep
  \/ Forward \/ List \/ Create
  \/ \E d \in Devices : FetchApprovals(d) \/ ReplaceApprovals(d) \/ Decide(d)
  \/ Pairing \/ \E d \in Devices : Revoke(d) \/ CutStreams(d)
  \/ \E s \in Streams : (\E d \in Devices : Upgrade(s, d)) \/ Stream(s)


(***************************************************************************)
(* Properties.                                                             *)
(***************************************************************************)
\* What each actor may be doing, and what the snapshot may say.
FeedTypeOK ==
  /\ Link!LinkTypeOK /\ Hub!HubTypeOK /\ Phones!PairingTypeOK
  /\ codex.status \in Statuses /\ codex.open \subseteq codex.asked
  /\ snapshot \in [status : Statuses, titled : BOOLEAN, prompts : SUBSET Prompts]
  /\ forwarder.pc \in {"idle", "record", "read", "store", "announce", "event"}
  /\ lister.pc \in {"idle", "enrich", "resume", "store", "announce", "reread"}
  /\ creator.pc \in {"idle", "store", "announce", "echo"}
  /\ pending \subseteq Prompts
  /\ \A d \in Devices : calls[d].pc \in {"idle", "fetched", "answer", "remove", "resolve"}

Announcing == "announce" \in {forwarder.pc, lister.pc, creator.pc}
Snapshots == {i \in DOMAIN log : log[i].kind = "snapshot"}
Newest == CHOOSE i \in Snapshots : \A j \in Snapshots : j <= i

\* A phone that has read all there is shows the Bridge's snapshot of the thread,
\* whenever its stream began and whoever wrote meanwhile (subscribe_with_device
\* registers before it copies, set_snapshot stores before it publishes), unless
\* two writers crossed between storing and publishing.
ViewConverges ==
  ~Announcing /\ (Snapshots # {} => log[Newest].what = snapshot) =>
    \A s \in Streams :
      streams[s].at = "open" /\ streams[s].replay = << >> /\ Hub!Behind(s) = 0
      => streams[s].view = snapshot

\* Once a stream has come to the disconnection of its device it hears nothing
\* more, however far behind it was (revoke_device, EventSubscriber::recv).
RevokedIsCut ==
  \A s \in Streams :
    streams[s].at = "open" =>
      \A i \in streams[s].first .. streams[s].next - 1 :
        log[i].kind = "disconnect" => log[i].what # streams[s].device

\* A phone hears the notifications of a thread in the order Codex sent them, and
\* none twice, over reconnections and reloads of the page, where a host bridge
\* is installed (a direct client's bridge forgets its callback sets).
FeedInOrder ==
  BridgeKinds = {"host"} =>
    \A s \in Streams :
      \A i, j \in DOMAIN streams[s].heard : i < j => streams[s].heard[i] < streams[s].heard[j]

Resolutions(prompt) == {log[i].what.say : i \in {i \in DOMAIN log :
                          log[i].kind = "resolved" /\ log[i].what.prompt = prompt}}

\* Of every prompt that Codex took a decision on, that decision has been told to the
\* phones, whichever devices decided it at once and whatever a listing had made
\* of the Bridge's own map meanwhile, unless a call to Codex failed.
DecisionReported ==
  \A prompt \in DOMAIN taken \ failed :
    (\A d \in Devices : calls[d].pc \in {"answer", "remove", "resolve"} =>
                          calls[d].prompt # prompt)
    => taken[prompt] \in Resolutions(prompt)
=============================================================================
