# Codex Mobile Bridge in TLA+

TLA+ specifications, model-checking configurations and machine-checked proofs for the
Codex Mobile Bridge: a Rust sidecar (`crates/bridge-core`, `apps/bridge-sidecar`) that lets a
paired phone (`apps/mobile-pwa`) follow and steer Codex Desktop, and a desktop shell
(`crates/desktop-core`, `apps/desktop-shell`) that runs the sidecar and publishes it through a
tunnel. All paths below are relative to the repository's root.

1. [The system](#1-the-system) · 2. [Modules](#2-modules) · 3. [What is checked](#3-what-is-checked) ·
4. [What is proved](#4-what-is-proved) · 5. [What the models show of the code's limits](#5-what-the-models-show-of-the-codes-limits) ·
6. [Not modelled](#6-not-modelled)

## 1. The system

| component | state | operations | talks to | hard behaviour |
|---|---|---|---|---|
| Notification store (`notification_store.rs`) | SQLite tables: settings, alert states, subscriptions, deliveries | one statement per call, under one mutex | everything about alerts | callers are overtaken between two statements; the tables outlive a crash |
| Push outbox (`notification_dispatcher.rs`, `push_delivery_worker.rs`, `web_push.rs`) | delivery rows, the worker's position, a `Notify` permit | enqueue, claim, send, mark, retry, fail all | store, push services | answers that arrive late, retries, a crash between claim and mark, lost wake-ups |
| Public access (`public_access.rs`) | mode and origin | read, update | shell, outbox, subscribe route | the context is read, then used after an await |
| Alert detection (`alert_detector.rs`, `alert_monitor.rs`, `http_api.rs`) | one row per thread, snapshots in the hub | detect, save, dispatch | Codex adapter, live feed, store | two observers of one row with information of different age; lost notifications |
| Message relay (`http_api.rs`, `api.ts`) | `MessageDedupeCache` | claim, deliver, complete, fail | phone, Codex adapter | retries racing with their own earlier request, dropped handlers, eviction |
| Event hub (`event_hub.rs`) | snapshots, broadcast channel | subscribe, set, publish, disconnect | WebSocket clients | subscribe-then-replay, store-then-publish, lagging receivers |
| Event cache and paging (`http_api.rs`, `normalizer.rs`) | 256 events per thread, adapter pages | record, merge, page | adapter, phone | polls, older pages and live events rewriting one cache while a phone walks it by cursors |
| Approvals (`approval.rs`, `http_api.rs`) | pending approvals | list, record, decide | adapter, hub | a list fetched before a decision replaces the state after it |
| Pairing and devices (`pairing.rs`, `storage.rs`) | one-use tokens, devices, session tokens | create, complete, refresh, revoke | every request | expiry boundaries, use after revocation |
| Codex adapter (`cdp.rs`, `codex_rpc.rs`) | the injected bridge, one connection | subscribe, list, send, respond | Codex Desktop | calls that fail after their effect, reloads of the page under an open socket |
| Bridge sidecar (`apps/bridge-sidecar`) | tasks | start, forward notifications | all of the above | reconnecting, restart |
| Desktop shell (`apps/desktop-shell/src-tauri`) | remote-access mode, managers | commands, supervisor, status, exit | bridge process, tunnels | overlapping commands, snapshots applied late |
| Named tunnel, quick tunnel, bridge process, Codex launch (`crates/desktop-core`) | child process, status, retries | start, verify, refresh, stop | cloudflared, sidecar, Codex | retries against stops, children that die, foreign answers |
| Phone application (`apps/mobile-pwa/src/App.tsx`) | session, sessions list, events of a thread | poll, refresh, send, merge, sign out | bridge | pages, stream and pending messages merged in any order |
| Phone notifications (`notifications/`, `service-worker.ts`) | IndexedDB of recent events, push subscription | claim an event, enable, repair, disable | push service, bridge | one alert over two channels; a subscription with three holders |
| Local assets (`local_assets.rs`) | image tokens with an age, by path and by token | register, resolve, evict | every page and event with images, phone | handlers that hand out tokens one by one while others evict and phones load |
| Thread list and workspaces (`codex_rpc.rs`, `http_api.rs`, `workspace.rs`) | the hub's sessions, the subtasks | list page by page, sort, offer, check, start | Codex, file system, phone | threads that are used between two pages, links that move after the check |
| Tool activity (`normalizer.rs`) | none of its own | tell of a tool when it starts, ends and is listed | Codex, phone | three tellers of one tool; details must name no place on the Mac |
| Saved setup (Keychain, profile file, `vapid_key.rs`, `secret_file.rs`) | token, VAPID key, profile, key file of a start | save, delete, make or load the key, hand it over | shell, sidecar | two stores written one after the other; crashes between them |
| Diagnostics (`diagnostics.rs` and the bundle) | none | redact and write texts | | |

What makes the components correct:

* **Outbox**: every alert owed to a device is sent, given up after its retries or deleted with
  the device; never sent more than its budget; never sent again once it was delivered; rows
  do not outlive subscriptions; no wake-up is lost.
* **Alerts**: whichever observer sees a change, its alert is dispatched once, and a state that
  stays is announced even if its notification was lost.
* **Relay**: Codex gets a message once unless there is a reason that the bridge cannot see
  through; a message shown as sent was delivered; the phone is told in the end.
* **Live feed**: a phone that has read everything shows the bridge's snapshot; what it hears it
  hears in order and once; a revoked phone is cut off; every decision taken is told.
* **History**: a phone that has scrolled to the beginning has every message; no answer shows a
  tool as running that had settled before the request.
* **Images, workspaces, tools**: an image is served under the token its phone was told for as long as
  the token lives, unless as many other images as the registry holds were used since; a thread that
  stayed where it was during the listing is listed; a session starts only where the Bridge offered to; what is
  told of a tool names no place on the Mac and shows no settled tool as running.
* **Saved setup**: every sidecar serves with the one VAPID key, and a profile that is found has its token.
* **Tunnels and shell**: one tunnel at a time, every process has an owner, what counts as up was
  verified, and mode, link and sidecar agree with the tunnel.
* **Phone**: a message being sent stays on the screen; a poll at rest leaves the thread as Codex
  has it; a paired phone recovers and a revoked one shows nothing; an alert is shown and played
  once; "active" notifications reach this browser.

## 2. Modules

| module | models | composed in |
|---|---|---|
| `NotificationStore` | the SQL statements on deliveries and subscriptions, as operators on tables | `PushOutbox` |
| `PushOutbox` | worker, alert dispatch, context changes, phone requests, revocation, restart | |
| `DeliveryPromise` | abstract: what the outbox promises of each push | implemented by `PushOutbox` |
| `AlertPipeline` | `detect_alerts`, monitor, live path and session listing on one thread's row | |
| `MessageRelay` | `sendTextMessage`, `MessageDedupeCache`, the delivery task | |
| `CodexLink` | Codex's page, the injected bridge and its callback sets, the forwarder's connection | `LiveFeed` |
| `EventHub` | broadcast log, snapshots, one cursor per stream, lag, disconnection | `LiveFeed` |
| `PairedDevices` | pairing tokens, device rows, session tokens | `LiveFeed` |
| `LiveFeed` | forwarder, `list_sessions`, `create_session`, approvals, revocation, the phones' streams | `BridgeFeed` |
| `LocalAssets` | `LocalAssetRegistry`, the handlers that register a page's images, the loads | `BridgeFeed` |
| `ThreadListing` | `list_threads` over its pages, the sessions answered, a session begun in an offered workspace | `BridgeFeed` |
| `ToolActivity` | `tool_activity_from_item` with its labels of paths, the three tellers of one tool | `BridgeFeed` |
| `BridgeFeed` | the four above side by side | |
| `SessionHistory` | the event cache, Codex's pages, the phone's poll and its walk to older events | |
| `TunnelPromise` | abstract: what the shell may rely on of a tunnel manager | implemented by both tunnels; `DesktopShell` is built on it |
| `NamedTunnel`, `QuickTunnel`, `BridgeProcess`, `CodexLaunch` | one manager each, with its child process | `ManagedProcesses` |
| `SavedSetup` | the profile, the Keychain, the VAPID key and its way into a sidecar | `ManagedProcesses` |
| `DesktopShell` | remote-access commands, poll, supervisor, recheck, context pushes, exit | |
| `PhoneSession` | sign-in, polls, the shared refresh, sign-out | `PhoneApp` |
| `ThreadView` | how the phone merges an event into what it shows, as operators | `PhoneThread` |
| `PhoneThread` | one thread: sends, echoes, deltas, pages, resets | `PhoneApp` |
| `PhoneAlerts` | pushes, service worker, shared store, foreground player | `PhoneApp` |
| `PhoneSubscription` | browser, Bridge row and page of one push subscription | `PhoneApp` |
| `*Proofs` | the theorems about the module they are named for, section 4 | |
| `MC*` | values of the constants for TLC | |

Correspondence to the code:

* **A step is what runs under one lock, or between two awaits.** `process_delivery` is
  `WorkerReject` (a payload that cannot be read), `WorkerLoad`, `WorkerCheck`, `WorkerMismatch`,
  `WorkerSend` and `WorkerResult`, because the store's mutex is released between them; `claim_next_due_delivery` is one step because it is
  one statement. `worker.job`, `forwarder`, `lister`, `op`, `req`, `poll` hold what the code keeps in
  local variables across an await.
* **Both observers of alerts** read, compare and save under the mutex, and dispatch after it; where a
  statement fails nothing is dispatched (`LiveFails`, `MonitorFails`). A live request for approval is two
  changes of the snapshot in one step: its id is added, and the status becomes waiting (`LiveStatus`),
  whether or not the status was told before.
  **The relay's handler and task are separate** (`call`, `task`), as `tokio::spawn` makes them.
* **The broadcast channel** is the log of everything published; a receiver is an index into it, and
  lags when more than `Capacity` entries lie before it. `set_snapshot` stores and publishes in two
  steps; `subscribe_with_device` registers and copies in two steps.
* **The managers' lock** is held by a call to its end, so calls of one manager never interleave
  (`named.call`), but its process and the health endpoints move under it. The shell's commands
  exclude each other by `remote_access_operation`; poll, supervisor and exit do not take it.
* **JavaScript** is modelled between awaits: a handler's step runs to its next request, and effects
  that a render would run at once belong to the step that changes the state they depend on.
* **Restart** keeps what is in SQLite, the keychain, `localStorage` and IndexedDB and loses the rest.

Abstractions, each chosen so that the properties cannot tell the difference:

* Local and Quick access are one value for the outbox, `Elsewhere`: only "Named, and which origin" is
  tested. Times of deliveries are `now` and `drain` or `later`; times of threads are numbers, 2n for
  Codex's n-th change and 2n+1 for a receipt after it, so that they order as milliseconds may.
* A failing statement or request is a choice wherever `?` or a `catch` stands, before its effect
  or after it. Payloads, error texts and categories are left out where they influence no state.
* A message is its de-duplication key in the relay and a sequence of words in `PhoneThread`; an event
  is its place in the thread in `SessionHistory`, because the cache sorts by time and the ids in pages
  and notifications agree there (they need not in `PhoneThread`: `listing`). A turn of `PhoneThread` has
  one answer, so `shouldReplaceLiveTurnEvent` (`App.tsx:3642`) never meets an earlier answer of the same turn
  whose text is the beginning of a later one: `ThreadShown` says nothing of such turns. A request of the
  history and its first fetch are one step.
* `LiveFeed`, `AlertPipeline` and `SessionHistory` each follow one thread, since threads
  share nothing but the tasks that serve them.
* In `ToolActivity` a text is a sequence of symbols: separators that the code tells apart, and words. The
  length limits are numbers of symbols.
* In `PhoneAlerts` the stored events are a function from an alert to its rank by age, and what waits for a
  worker or a page is counted per alert: two pushes of one alert differ in nothing.
* Where actors that share no state stand in one module (`BridgeFeed`, `LiveFeed`, `ManagedProcesses`,
  `PhoneApp`, `DesktopShell`), a *scene* or *cast* chosen at the start says which of them meet.
* The phone, Codex, cloudflared, browser and user are environments: they do anything their
  protocol allows, at any time.

## 3. What is checked

No run takes more than four minutes on two cores.

| run | instance | shows |
|---|---|---|
| `outbox` | `PushOutbox`, one device, alert, origin, endpoint and control call; all requests; one restart; failing statements | `NoMissedWakeup`, and the refinement `KeepsPromise` |
| `outbox_live` | from a database an earlier process left, no failing statements, fairness | `SendingIsHeld`; `PendingIsSettled`: with a named tunnel that stays, every pending row is settled |
| `outbox_revoked` | violation expected | a subscription is stored after its device's revocation has cleaned up |
| `alert_row` | `AlertPipeline`, three statuses, three changes, two notifications on their way | `StateIsAnnounced` |
| `alert_prompts` | one approval request, two changes, two notifications on their way, one restart | `RaisedOnce`, `PromptIsAnnounced` |
| `message_relay` | two messages, two requests each, a cache of one key, one restart | `OneDelivery`, `DuplicatesExplained`, `SentIsDelivered`, `SendEnds` |
| `managers` | named tunnel, quick tunnel and sidecar side by side with a stranger on the port or the hostname; or two launches of Codex and three instances; or one profile, three starts of a sidecar and two crashes | `VerifiedUp`, `OneCodex`, `SameKey`, `ProfileHasToken`, `CallsEnd`, and both refinements of `TunnelPromise` |
| `desktop_shell` | any two commands, every step able to fail, against poll, supervisor or recheck, and the exit | `Exclusive`, `LinkHasTunnel`, `ModeMatchesTunnel`, `ContextConverges`, `DeadLinkGoes` |
| `live_feed` | `BridgeFeed`: five meetings of the live feed's actors (two devices, one stream, one prompt, a channel of three), the images, the threads, the tools | `ViewConverges`, `RevokedIsCut`, `FeedInOrder`, `DecisionReported`, `FreshIsServed`, `ListingComplete`, `StartedWhereOffered`, `DetailsAreSafe` |
| `session_history` | three threads (a tool listed, a tool not listed, five turns), pages of two turns, one older page per request, one notification on its way, one restart, one failure | `WalkComplete`, `SettledTools`, `WalkEnds` |
| `history_cursor` | violation expected | a cursor is answered by a reset although nothing changed |
| `phone_app` | four scenes: session, thread, alerts, subscription | `Recovers`, `SignedOut`, `SendingIsShown`, `ThreadShown`, `AlertedOnce`, `ActiveIsTrue` |

The modules state more than the runs check. The type invariants hold in the same configurations (add
`INVARIANT TypeOK`); so do `SendBudget`, `NoOrphanDelivery`, `SettledIsFinal` and `FailedUnlessInFlight` of
`PushOutbox`, `QueueMatchesCache` of `MessageRelay` and the two action properties `FullPageShown` and
`MessagesSettle` of `PhoneThread` (add them as `PROPERTY` to `PhoneApp.cfg`), which section 4 proves for every
instance.

Why the bounds are enough to be interesting:

* **Outbox.** Every interaction is between the processes of one row (its worker, its dispatch,
  its device's requests, the context), so one key reaches them all; different keys only share the
  worker, which the proofs cover for any number. One restart can come at every step.
* **Alerts.** Three changes are one more than the two a lost notification and its successor need; a
  feed of two lets one notification overtake a poll and another be lost. `MaxClock` bounds the cycles. With
  a prompt, two changes let the thread wait and go on, and the request come with the wait or after it, seen by
  either observer first; `MaxClock = 3` with one notification on its way, which lets it wait twice, passes as
  well. A restart is in that run only, to keep the other short; `MaxRestarts = 1` in
  `AlertPipeline_row.cfg` passes too. Both take minutes.
* **Relay.** Two requests are the least with a retry, and a cache of one key the least with an
  eviction while a retry is under way.
* **Managers.** `MaxRetries`, `HealthFailures` and `MaxLaunches` of two: the last retry, the last
  failure before a rotation and a second sidecar with another identity. A third instance of Codex
  is the least with one the user starts between two launches. Three starts and two crashes let a
  sidecar outlive the shell that made its key, and another start make the file of its own.
* **Shell.** Two commands, so every ordered pair, each cut by the exit or interleaved with one
  refresher; commands exclude each other, so a third adds only a longer history.
* **Live feed.** A channel of three entries is overrun by one notification with its events; two pages
  of Codex give a reconnection, two notes an order. Two devices decide and list prompts. The
  devices are symmetric.
* **Images.** Three images, a registry of two and two handlers: an answer that fills the registry,
  another that evicts from it, and an image that is loaded in between. A life of one clock step ends
  within the two steps there are.
* **Threads.** Pages of one thread, two pages and three threads, one of them a subtask, one without a
  directory, one behind a link: a thread moves across a page boundary, a page is the last that is asked for,
  and a link leads elsewhere after the check.
* **Tools.** Every text of up to three symbols and some of five and seven, for details of four symbols
  and one named file: each separator before and after each path, cut and uncut.
* **History.** A page of two turns can be overtaken in one of them; a limit of one older event makes
  every event a boundary of the phone's walk; one older page per request lets a request spend all it may fetch on
  what is cached, in the thread of five turns. The other threads have a tool that leaves the first page, and
  one that outlives the page that misses it. Without any of its three exceptions `WalkComplete` fails here.
* **Phone.** `TwoSendsOrFaults`: either a second message with the same words while the first is
  answered, or one after a turn of two words, with a broken stream and a lost cursor. `MaxEvents = 2` lets a failure
  meet an ended token. Two alerts, one of them a test, with a store of one row reach the eviction;
  two endpoints are the least with a stale one, two lost requests the least with a failed clean-up.

Deadlock is checked where the modelled system never rests (`outbox*`, `alert_*`, `managers`). The
other configurations switch it off: a shell that has exited, a bounded
number of phones' requests, a thread that is complete and a page without a session really stop.

### Fairness

Only where the code guarantees it:

* `PushOutbox`, `AlertPipeline`, `MessageRelay`: a tokio task that can take a step takes it
  (`WF_vars(WorkerStep)`, `LiveStep`, `MonitorStep`, `Claim`, `TaskStep`), timers end
  (`Elapse`, the phone's back-off) and an answered or broken `fetch` returns. `SF_vars(MonitorApprovals)`
  and `SF_vars(MonitorDetect)` say that an adapter polled for ever answers and a database tried for ever
  saves in the end. `PendingIsSettled` assumes
  `<>[]IsNamed(access)`, because nothing obliges the shell to keep a tunnel.
* `ManagedProcesses`: every wait of a manager is under a timeout, so the timer of each manager is
  weakly fair by itself, and so is each call of `ensure_codex_ready`. No answer is assumed.
* `DesktopShell`: commands and refreshes in progress go on (`Step`), the supervisor's timer fires and
  tokio's fair mutexes are handed out in order (`SF_vars(Supervision)`). The poll is not fair:
  its window may be closed.
* `SessionHistory`: the poll repeats, the user goes on scrolling (`SF_vars(LoadOlder)`), and requests
  are answered (`SF_vars(Serve(s))`: the cache's lock is handed out in order).
* `PhoneApp`: the start, the refresh and the two polls go on; the user's requests need not.
* `LiveFeed` and `BridgeFeed` have no liveness property, and their specifications no fairness.

## 4. What is proved

TLAPS checks the following for every value of the constants that the modules' assumptions allow
(bounds such as `MaxRestarts`, `MaxNotes` and `MaxLaunches` included, which only bound TLC).

**`PushOutboxProofs`**. `TypeCorrect` is inductive by itself. The other invariants are not:
`sends[k] <= 4 + restarts` says nothing of the job the worker holds. `OutboxInv` adds, for each row,
`UntouchedBefore` (before the dispatch reaches its device there is no row, no send, no job),
`HeldIsOpen` (while the worker holds it, the row is sending, failed under its feet, or gone),
`HeldIsCounted` (the worker's copy of the count is the row's, and the sends made are fewer than it
before the send and at most it after) and `RowIsCounted` (a pending row has at most `3 + restarts`
attempts, any row `4 + restarts`). From it follow `SendBudgetHolds`, `SettledStaysSettled` and
`FailedStaysFailed`; `NoOrphans`, `SendingHeld` and `NoWakeupMissed` have inductive arguments of
their own: a row becomes pending under a worker that sleeps only by an alert that leaves the permit.

Its second part proves the refinement, `OutboxKeepsPromise == Spec => KeepsPromise`. A claim is `Take`, a send
`Push`, the recording of a result `Settle` (or `Abandon`, when it fails or its row is gone), a
context change `Withdraw`, a deletion `Forget`, a restart `Reboot`, everything else a stutter.

**`MessageRelayProofs`**. `RelayInv` is the conjunction of the types, `PhoneCounts`, `ClaimMatch` (a
task between its claim and its result is the one its entry names), `Account` (a vacant key, and a
claim that has not reached Codex, have no delivery that is not excused) and `Evidence` (a completed
entry, a finished task, an `ok` answer and a phone that shows "sent" each imply a delivery).
`OneAtATime`, `DuplicatesHaveAReason` and `SentMeansDelivered` are consequences; `QueueIsCache` is
proved on top of it with two lemmas about queues without repetitions.

**`ManagedProcessesProofs`**. `ManagersInv` says, for each stage of a call, what the manager has:
before the launch no process, from the launch on one it owns, after the local probe an identity
that a local instance gave, and `Ready` only with the answer of that identity. `UpIsVerified` and
`OneCodexRuns` follow. `NamedIsTunnel` and `QuickIsTunnel` prove that each manager implements
`TunnelPromise`: every early return of a start and every failure of a running tunnel gives up
the process. `DesktopShell` is written against `TunnelPromise`'s actions. `SetupInv` is about what is kept on the
Mac: the key of a start that has saved it, of every key file and of every sidecar is the Keychain's, which is
made only while there is none, and a command that writes or renames the profile has stored its token
first, while one that deletes removes the profile first. `OneVapidKey` and `ProfileKeepsToken` follow, for any number of
crashes.

**`LiveFeedProofs`** is about `BridgeFeed` and has eight invariants.

* `StreamsInv`: the log is a sequence, a stream lies within it, and what it has read since it
  registered does not contain the disconnect of its device. `RevokedHearsNothing` follows.
* `DecisionsInv`: each decision taken on a prompt whose calls did not fail is in the log, or a call
  of some device is past the answer and about to publish it. `DecisionsTold` follows.
* `ViewInv`: a stream shows the newest snapshot it has read, or, while none was published since it
  registered, the one it copied, which is the hub's unless a writer is between storing and
  publishing. `ViewsConverge` follows. The last part needs the order of the two steps of
  subscribing: a stream that copied first and registered later would break it.
* `OrderInv` is about the way from Codex's page to a stream: what the connection holds back and what
  lies unread behind it are in Codex's order, and later than all that was passed on (`Queues`); what was
  published is in that order too, and earlier than what the forwarder has in hand (`PublishedInOrder`); a
  page has one set of callbacks at most (`OneSet`), however often the stream broke, the page was reloaded or
  the forwarder connected again. What a stream has heard is what it read of the log (`Hears`).
  `NotificationsInOrder` follows, with the hypothesis that a host bridge is installed, and without it
  the code does repeat (section 5).
* `AssetsInv`: the registry's two maps name each other (`Coherent`), and it has every token ever issued but
  those that are too old or have `MaxEntries` rivals, while what was used after a token is a rival of
  it (`Serves`): an eviction takes the token that was used longest ago, and a full registry
  makes all others its rivals. `ImagesAreServed` follows.
* `WorkspacesInv`: a start under way holds the canonical directory that was compared with the offers, not the
  path the phone named. `WorkspaceOffered` follows, wherever links lead in the meantime.
* `ListInv`: a thread that is due is listed already, or lies below the cursor with fewer threads before it
  than the pages that are left can hold (`PagesInv`); afterwards it is listed, or has its snapshot and mark
  (`ShownInv`). A page that has not come to a thread is full (`FullPage`), so each takes `PageSize` threads from
  before it, and a thread that is used moves above all cursors. `Ranked`, that the members of a finite set with
  different weights have the ranks 0, 1, 2 and so on, is proved by counting instead of induction.
  `ListsAreComplete` follows.
* `ToolsInv`: the tool keeps its item, and what was told of it last names no place. It is inductive at
  once: the work is in what the texts become. A text that passed `contains_absolute_path` names no
  place (`CheckedIsSafe`, by the stretch of symbols around a slash). Cutting one keeps it so
  (`PrefixIsSafe`), and so does joining two by something that ends a word (`JoinedIsSafe`), while tidying is done
  before the check. A label of a path has no slash at all. What tidying and joining do to every text is shown
  by induction on the place in the text: `Tidy` and `FilesDetail` are recursive functions, `Recursion`
  shows that functions so defined exist, and `Climbs` is the induction. `DetailsNameNoPlace` follows.
  The texts of an item are assumed to be sequences of strings, which is what the model writes a text as.

**`SessionHistoryProofs`**. `HistoryInv`: only tools settle; a request's fetched first page shows
none of the tools that had settled at its beginning as running, and carries those of a turn that
goes on; while the cache is locked by the request, none of them runs in it. The last part is what
`replace_adapter_turn_events` and the merge preserve together. `SettledIsNotRunning` follows.

`WalkInv` is about what is missing. The messages in the cache are *whole*: none is missing between two of
them, nor between Codex's cursor and one of them (`Dense`, `Reaches`), and one lies behind that cursor. While a
request has the lock this holds of the cached tools too, because the first page has just dropped those of
other turns; in between, a notification may add a tool anywhere. `EnterIsWhole` is the hard lemma: a first page is fetched before
the lock and may be older than the cache it is merged into, and it replaces its turns and keeps Codex's
cursor if older pages were loaded. A window of a whole cache is whole (`PaginatedIsWhole`, from one
lemma for each kind of window and the two library facts on finite sets they need), the phone's requests are
about its cursors, and so an answer joins what the phone has (`PhoneReceives`). `WalkIsComplete` follows. The
three exceptions stand in the invariant as they do in the property: `gap` is excepted for the cache, `spent`
for the answers, `crossed` for the phone. An assumption on the threads is used, `InTurns`: their turns
follow each other and each begins with its message.

**`PhoneAppProofs`**. `ActiveNotifications`, from `SubInv`: the types, what each stage of a
handler knows (`SubOp`), that the endpoint of a valid row is the browser's unless one of the named
histories holds (`SameEndpoint`), and what "active" meant when it was shown (`ActiveMeans`). `AlertsAlertOnce`,
from `AlertsInv`: for each alert, the times it was shown, together with the claims that are still to
be shown, are no more than the times it was new to the store, and the times it was played no more than
those it was new to the player (`Accounted`); an alert that was not forgotten has its row,
with only rows after it that were stored since (`RowHeld`), and its place in the player's memory.

`MessagesStayShown`, from `SendInv`: whatever is shown, on its way to the phone or in a page says what is so
(`AllTrue`: an event of the phone's own name has that message's words and one of Codex's its item's, and a message
that is not pending is one Codex has), and the message being sent has its words among the view's or among
what Codex has heard (`SentOrShown`). Truth is what the merges need: an event may replace another of the same
id, or one it reconciles with, only because both say the same, and a page can take a pending message away only
by listing its words. What `appendOrMergeSessionEvent` does to a view is one lemma (`Takes`, `AppendOrMergeIs`); merging,
sorting and filtering a list are folds over it (`FoldIs`), and what a fold preserves is shown by induction on
the place in the list.

`HistoryIsReplaced`, from `ReplaceInv`: items are in the order of their turns' times, and Codex's clock is past
them (`Ages`); what is pending on the screen is being sent or was taken by Codex (`Waits`); and a page without a
cursor lists the thread as it was when the page was made (`PageWhole`). So such a page has the words of
everything that is pending, nothing is carried over (`NothingCarried`), and merging and sorting the page gives the page
again (`WholePageStays`: no two of its events are alike or out of order). The theorem says less than
`ThreadShown` about when, since it is about pages that replace the history, and more about what came before:
neither `astray` nor an unfinished answer nor a queue of notifications is excepted.

`MessagesAreSettled` is about both kinds of page, and about messages only: a poll that finds the thread as it
is while no request is open leaves exactly the messages Codex has on the screen, none of them pending. Its invariant
`SettleInv` relates the three partial views of the thread by the polls' cursor. What the polls have passed is on
the screen under Codex's own names (`Polled`); a page on its way says what lies between the cursor and its
end, and everything if it replaces the history (`PageSays`); and a message that is pending has not been taken, or has
a place behind the cursor (`Beyond`). An incremental page then says what it passes, so that it takes
with it whatever stays pending before its end (`ReceiveSettles`). The lemma it rests on, `TakenStays`, is that an
echo never displaces a message Codex has listed, whichever comes first: this is the second guard of
`appendOrMergeSessionEvent`'s reconciliation, and `Takes` had to be strengthened to say it. Where the stream led the phone astray
the property still holds: a lost or late notification may spoil an answer, never a message.

**`DesktopShellProofs`**. `TunnelsExclude`, `LinksHaveTunnels` and `ModesMatchTunnels`, from `ShellInv`. The
three properties speak of the shell at rest, and the commands pass through states in which
they fail, so the invariant says for each position of each command what it has done so far: which tunnel
it has stopped before it starts the other, what the mode was when it read it, which snapshot it holds.
Its conjunct `NamedAway` had to be extended to the failing branch of `restart_named_access` before it was
inductive. The tunnels are `TunnelPromise`'s, so that the result holds for whatever the managers
do within it, and `ManagedProcessesProofs` shows that they stay within it.

**`AlertPipelineProofs`**. `CyclesRaisedOnce` (no failure or wait of one cycle is raised twice; a completion is named by
its times) holds of every specification's behaviour; `AlertsRaisedOnce == Spec => []RaisedOnce` has
the hypothesis that a row has room for the ids of all approval requests (`Cardinality(Ids) <=
KnownLimit`), and without it the code does repeat alerts (section 5). `AlertInv` says that whatever waits
for its dispatch or has been dispatched went through the row and is recorded there
(`AllRecorded`), and that it is in one place only (`InOnePlace`), whichever observer carries it. The lemmas
about `Unknown`, which takes the known ids out of an observed list, argue by the first position at which
the recursion could go wrong.

Only model-checked:

* everything temporal beyond a safety property, since liveness under fairness is out of the
  prover's reach: `PendingIsSettled`, `StateIsAnnounced`, `PromptIsAnnounced`, `SendEnds`, `CallsEnd`,
  `ContextConverges`, `DeadLinkGoes`, `WalkEnds`, `Recovers`, `SignedOut`;
* `ThreadShown`, where the page is an incremental one, as far as it is about answers and about order: the messages
  are `MessagesAreSettled`'s, and the pages that replace the history `HistoryIsReplaced`'s. The rest needs an
  invariant that relates the whole view to the thread, one event for each item and in its order, with deltas
  and live events matched to their items while either may come first, which we do not have.

Induction over data is done where it was needed by writing recursion as functions on 0 .. n and arguing by a
least counterexample (`Climbs`, from the library's `WFMin`); what takes an operator as a parameter, as the
library's induction theorems do, the provers cannot use.

## 5. What the models show of the code's limits

Two runs expect a violation: `PROJECT.json` quotes the sentences of the documents they refute
(`outbox_revoked`, `history_cursor`). The following also came out of the models. Each is a
behaviour of the code that a property has to except, or that a wider property would fail on; none
is more than what the code does under the schedule named.

**Outbox and alerts.** A push in flight re-opens a row that a context change had failed
(`FailedUnlessInFlight`). A 410 for an older endpoint invalidates the device's current row
(`dropped`). A statement that fails after a claim strands its row in `sending` until the next start
(`SendingIsHeld` and `PendingIsSettled` take `StoreMayFail = FALSE`). A dispatch that fails after its row was
saved loses the alert (`lost`). One approval request is announced under two ids, the live and the
polled one, as two alerts. With notifications stamped at receipt (`Stamped = FALSE`) a change whose
notification was lost may never be announced. Of more than 256 known approval ids the oldest are
forgotten while pending (`docs/superpowers/plans/2026-07-18-multi-state-alerts-foreground.md:962`), and
announced again when they are seen again: `AlertsRaisedOnce` assumes room for all. An approval
whose request id reads like the number of a cycle ("1") would be given the alert id of that cycle's prompt by
`stable_event_id`, which hashes both as one string; the model takes no id to read so. A
panic in a delivery task leaves its key in flight, and later requests for it wait for ever.

**Live feed.** A WebSocket that was authenticated before its device's revocation and subscribes after the
disconnect streams on. `list_sessions` and `create_session` may store a status read before a
newer notification. Two writers that cross between storing and publishing leave phones with the
older snapshot (`ViewConverges` excepts it). Contradictory decisions of two devices are both
accepted and both told. A decision does not take its id out of the snapshot's pending ids.
A reload of Codex's page under an open debugging socket leaves the forwarder without
callbacks; a restart of the application leaves the adapter with its old target. A device
that is paired again makes its old session tokens good again. With a direct client's bridge a
subscription made again duplicates the callbacks (`FeedInOrder` is for the host bridge).
Two overlapping handlers of `set_public_access_context` (`http_api.rs:795`) each read the context and
update it in two steps, so that rows may be failed for a context that has already gone.

**Images, threads, tools.** The images of older pages keep tokens that end 30 minutes after they
were made, and a page with more than 256 images hands out tokens that are already dead. The hub never
forgets a snapshot, so an archived thread stays listed; a subtask the Bridge was only notified of passes for a
session until a listing marks it. A thread that is used while pages are fetched may be missed, and nothing
after 20 pages is listed (`ListingComplete` excepts both). A tool without a status of its own that is listed in a running
turn is told as running. Of a word, a path after its second ":" is not recognised as one.

**Saved setup.** A crash in the middle of a start leaves a `vapid-key-*` file, one in the middle of a save
the temporary file of the profile. A save that fails after its token was stored leaves the new token with the
old profile; a delete that fails at the Keychain leaves the token.

**History.** `WalkComplete` has three exceptions, and each has its behaviours.

* `gap`, the cache loses messages. Turns between the cache and a first page that shares no turn with it are
  never fetched. A first page that waited for the lock while its last turn grew takes the later messages of that turn out of
  the cache, and leaves those of a turn after it, or a tool that the page does not carry.
* `spent`, an answer is wrong. Until the first older page is loaded Codex's cursor follows the first page,
  and so may come to lie inside the turns that are cached. A request that spends its pages on turns
  that are cached already finds nothing before its event and is told that there is nothing
  (`has_more_before` is set only if the page has the first cached event, `http_api.rs:1487`), although Codex has older
  turns. The same happens with four pages without events.
* `crossed`, the phone loses messages. A reset by the poll while an older page is on its way, or by an older page
  while a poll is: the second answer is about cursors that are gone.

A phone that opens a thread without events keeps "nothing before": the model begins with one event or more. A page
fetched before a tool settled may show it as running until the next query. Tools of older turns leave
the cache and are not fetched again.

**Shell and managers.** A second, forced quit during a probe or start leaves a cloudflared behind
(`docs/superpowers/plans/2026-07-18-fixed-domain-named-tunnel.md:1888` has both gone). A refresh
that applies an old snapshot turns Quick into NamedFailed, and `stop_named` then clears the mode under a
running quick tunnel. `start_quick_access` whose pairing fails after its child died leaves Quick and the old
link with a stopped tunnel. A delete whose keychain call fails leaves the mode Named with a
stopped tunnel. Two overlapping `ensure_codex_ready`, or a user's start between check and launch,
give a second Codex (`raced`); another program on the debug port counts as attached. `status()` of the
Bridge manager reports its last state without a look at the child (`bridge_process.rs:169`): a sidecar
that died stays "running".

**Phone.** `markSessionDataRecovered` shows "Writable" after a reconnection though health said read-only.
The WebSocket has no `onclose`. After "not running" or "Inject failed" the list is not polled until
a reload (`Stuck`). An answer to a creation, or an older page, after the sign-out puts data back
(`stray`). A pairing whose first health request fails shows an error although a session was saved.
`/api/health` takes any caller, so the refresh in `getHealthWithRefresh` is never reached. A pending
message disappears under a page that lists an earlier message with the same words
(`SendingIsShown` excepts it); an event heard after its item was polled, or an answer whose
completion was lost with the stream, stays as it is (`astray`). An alert is lost when the
worker is killed after its claim, when it is handed to a page that hides before handling it, or when a
visible page has it as seen; one that was played from the stream is shown again by a push if the
page hid in between. Onboarding that makes an endpoint and cannot save it may show "active" later
while the Bridge holds a dead one (`unsaved`); an answer overtaken by a handler shows an older state
(`overtaken`).

Five hazards of `PROJECT.json` have no property, because nothing in the code prevents them: a notification
stamped at receipt that hides a later change (`http_api.rs:437`), an alert lost between the save and the
dispatch (`alert_monitor.rs:100`), writers of a snapshot that cross (`event_hub.rs:131`), an older list that
brings a decided approval back to the pending ones (`http_api.rs:1364`), and the cloudflared after a forced
quit (`main.rs:2314`).

## 6. Not modelled

`PROJECT.json` lists every component with its status. Left out:

* **Local assets, workspaces, diagnostics, VAPID key; secrets and the diagnostics bundle** (partly): diagnostics
  and their redaction, how image paths are found in a message and scrubbed from it, paths of Windows, a
  directory that is replaced by a link between check and start, and two claims within one millisecond.
* **Codex adapter** (partly): how a method is looked up in the page and how payloads are mapped.
  `normalizer.rs` appears as what its events are merged by and as what is told of a tool, not as the
  mapping of Codex's JSON.
* **Notification routes** (partly): the read-only ones.
* **Alert detection** (partly): the eviction of known ids is modelled, and not reached by the runs.
* **Bridge sidecar** (partly): command line, logging, serving.
* **Phone application** (partly): the view of images, pins, preferences, approvals on the screen, rendering.
  Of notifications, where a click leads and the settings' filters.
* **Desktop shell user interface** (partly): its poll and commands are in `DesktopShell`.
* Approvals made up in development mode.
* A request of several threads at once, and two phones on one history: the second phone does to
  the cache what a poll does.
