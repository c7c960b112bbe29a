------------------------------ MODULE CodexLink ------------------------------
(***************************************************************************)
(* The link to the Codex application over its debugging port: the page, the *)
(* bridge that is injected into it, and the notification stream of the      *)
(* sidecar (bridge-core/src/cdp.rs, run_notification_forwarder in           *)
(* bridge-sidecar/src/main.rs).                                             *)
(*                                                                         *)
(* What the application itself does (it starts, quits, reloads its page and *)
(* emits notifications) is the environment.  How long the forwarder sleeps  *)
(* before it connects again is left out, not that it does.                  *)
(***************************************************************************)
EXTENDS Naturals, Sequences

CONSTANTS BridgeKinds,  \* what this build of Codex offers to a bridge
          MaxPages,     \* bound: times the application is started
          MaxSets       \* bound: callback sets in one page

\* A host bridge reports every capability, a direct client's none.
AllBridgeKinds == {"host", "direct"}

VARIABLES page,   \* the page: load, offered and installed bridge, its callback sets
          link    \* the forwarder's connection: its stage, its socket, what it holds back

Reply == [n |-> 0, kind |-> "reply"]
Down == [at |-> "waiting", live |-> FALSE, held |-> << >>, inbox |-> << >>]

\* Every page starts without a bridge, and offers one only when it has loaded.
Fresh(gen, kind) == [up |-> TRUE, gen |-> gen, offers |-> kind, loaded |-> FALSE,
                     bridge |-> "none", subs |-> 0, known |-> 0]

LinkInit == /\ \E kind \in BridgeKinds :
                 page = [Fresh(1, kind) EXCEPT !.loaded = TRUE, !.bridge = kind]
            /\ link = Down

(***************************************************************************)
(* The application.                                                        *)
(***************************************************************************)
\* codex_target_score: the application's page is a target under either of its names.
IsTarget == page.up

\* A connection that breaks may take with it what was not read yet.
Broken(lost) == [link EXCEPT !.live = FALSE, !.inbox = IF lost THEN << >> ELSE @]

Quits == /\ page.up
         /\ page' = [page EXCEPT !.up = FALSE, !.loaded = FALSE, !.bridge = "none",
                                 !.subs = 0, !.known = 0]
         /\ \E lost \in BOOLEAN : link' = Broken(lost)

Starts == /\ ~page.up /\ page.gen < MaxPages
          /\ \E kind \in BridgeKinds : page' = Fresh(page.gen + 1, kind)
          /\ UNCHANGED link

Loads == page.up /\ ~page.loaded /\ page' = [page EXCEPT !.loaded = TRUE] /\ UNCHANGED link

\* The target stays and so does the socket; the bridge and its callbacks are gone.
Reloads == /\ page.up /\ page.loaded
           /\ page' = Fresh(page.gen, page.offers)
           /\ UNCHANGED link

Breaks == link.live /\ (\E lost \in BOOLEAN : link' = Broken(lost)) /\ UNCHANGED page

\* One call of the binding for every callback set, to whoever is attached.
Emitted(note) ==
  [link EXCEPT !.inbox = IF link.live THEN @ \o [i \in 1 .. page.subs |-> note] ELSE @]

(***************************************************************************)
(* The connection of the forwarder: targets, injection, socket and binding, *)
(* subscription.  Whatever fails, it sleeps and begins again.               *)
(***************************************************************************)
Stage(at) == link' = [link EXCEPT !.at = at]
FailsAt(stages) == link.at \in stages /\ link' = Down /\ UNCHANGED page

FindTarget == link.at = "waiting" /\ IsTarget /\ Stage("found") /\ UNCHANGED page

\* The script leaves a bridge with every capability alone; any other one is
\* replaced by one that knows of no callback set.
Installed == IF page.bridge = "host" THEN page
             ELSE [page EXCEPT !.bridge = page.offers, !.known = 0]

Inject == /\ link.at = "found" /\ page.loaded
          /\ page' = Installed
          /\ Stage("injected")

Attach == /\ link.at = "injected" /\ page.up
          /\ link' = [Down EXCEPT !.at = "attached", !.live = TRUE]
          /\ UNCHANGED page

\* Mutant of Subscribed: the callback set of the last subscription stays.
SubscribedTwice(p) == [p EXCEPT !.subs = @ + 1, !.known = 1]

\* subscribeNotifications drops the callback set it knows and adds one.
Subscribed(p) == [p EXCEPT !.subs = (@ - p.known) + 1, !.known = 1]

Subscribe == /\ link.at = "attached" /\ link.live /\ page.bridge # "none"
             /\ page.subs < MaxSets \/ page.known = 1
             /\ page' = Subscribed(page)
             /\ link' = [link EXCEPT !.at = "asked", !.inbox = Append(@, Reply)]

\* What arrives before the reply is held back ...
Hold == /\ link.at \in {"attached", "asked"}
        /\ link.inbox # << >> /\ Head(link.inbox) # Reply
        /\ link' = [link EXCEPT !.held = Append(@, Head(link.inbox)), !.inbox = Tail(@)]
        /\ UNCHANGED page

\* ... and delivered first.
Delivered(held, inbox) == held \o inbox

Confirm == /\ link.at = "asked"
           /\ link.inbox # << >> /\ Head(link.inbox) = Reply
           /\ link' = [link EXCEPT !.at = "open", !.held = << >>,
                                   !.inbox = Delivered(link.held, Tail(link.inbox))]
           /\ UNCHANGED page

\* A step fails: nothing found or injected, no socket, an exception in the page.
ConnectFails == FailsAt({"found", "injected", "attached"}) \/ (~link.live /\ FailsAt({"asked"}))

\* next_notification: the next one, and the end of the stream after the last.
Waiting == link.at = "open" /\ link.inbox # << >>
Taken == [link EXCEPT !.inbox = Tail(@)]
StreamEnds == ~link.live /\ link.inbox = << >> /\ FailsAt({"open"})

Connecting == FindTarget \/ Inject \/ Attach \/ Subscribe \/ Hold \/ Confirm \/ ConnectFails
              \/ StreamEnds

(***************************************************************************)
(* A request of the adapter goes to the target that was found at the start  *)
(* and needs the bridge there; approvals need a host bridge.                *)
(***************************************************************************)
Answers == page.up /\ page.gen = 1 /\ page.bridge # "none"
AnswersApprovals == Answers /\ page.bridge = "host"

\* What the page and the connection may hold.
LinkTypeOK ==
  /\ page \in [up : BOOLEAN, gen : 1 .. MaxPages, offers : BridgeKinds, loaded : BOOLEAN,
               bridge : BridgeKinds \cup {"none"}, subs : 0 .. MaxSets, known : {0, 1}]
  /\ link.at \in {"waiting", "found", "injected", "attached", "asked", "open"}
  /\ link.live \in BOOLEAN
=============================================================================
