---------------------------- MODULE SessionHistory ----------------------------
(***************************************************************************)
(* The history of a Codex thread, page by page: the turns Codex lists, the  *)
(* event cache of the Bridge and its windows (list_session_events and        *)
(* adapter_events_for_query in bridge-core/src/http_api.rs), and the phone   *)
(* that polls for what is new and scrolls up for what is old (App.tsx).      *)
(*                                                                         *)
(* An event is the number of its item in the thread, so that the order of   *)
(* the numbers is the order the cache sorts by.  Its id is the same in a     *)
(* page and in a notification.  What the phone hears on its stream is in     *)
(* LiveFeed.  Of two phones, the second does to the cache what a poll does.  *)
(***************************************************************************)
EXTENDS Naturals, FiniteSets, FiniteSetsExt, Sequences

CONSTANTS Scripts,      \* what becomes of the thread: its items, in order
          Beginnings,   \* how many turns Codex has had at the start
          PageTurns,    \* turns in a page of Codex
          MaxPages,     \* MAX_ADAPTER_HISTORY_PAGES_PER_REQUEST
          OlderLimit,   \* INITIAL_EVENT_PAGE_LIMIT of the phone
          SinceLimit,   \* INCREMENTAL_EVENT_PAGE_LIMIT
          MaxNews,      \* bound: notifications under way at once
          MaxRestarts,  \* bound: restarts of the Bridge
          MaxFails      \* bound: calls to Codex that fail

\* An item is a message of a turn or a tool it runs; Codex may list tools or not.
Items == [turn : Nat \ {0}, tool : BOOLEAN]

\* The turns follow each other, and a turn starts with the message that asks for it.
InTurns(items) ==
  \A i \in DOMAIN items : /\ \A j \in 1 .. i : items[j].turn <= items[i].turn
                          /\ \E j \in 1 .. i : items[j].turn = items[i].turn /\ ~items[j].tool

ASSUME HistoryAssumption ==
  /\ \A s \in Scripts : s.items \in Seq(Items) /\ s.lists \in BOOLEAN /\ InTurns(s.items)
  /\ PageTurns \in Nat \ {0} /\ MaxPages \in Nat \ {0}
  /\ OlderLimit \in Nat \ {0} /\ SinceLimit \in Nat \ {0}
  /\ MaxNews \in Nat /\ MaxRestarts \in Nat /\ MaxFails \in Nat

VARIABLES script,  \* the thread this behaviour is about
          codex,   \* how far it is: items, tools that are settled, whether its turn is over
          news,    \* tool notifications under way
          cache,   \* adapter_event_cache of the thread
          phone,   \* the phone's history and cursors
          req,     \* its two requests: the poll, and the one for older events
          faults,  \* restarts and failures so far
          marks    \* history: the thread is as it was; what a walk may miss a message by

vars == <<script, codex, news, cache, phone, req, faults, marks>>

Slots == {"poll", "older"}

TurnOf(i) == script.items[i].turn
IsTool(i) == script.items[i].tool
Said == 1 .. codex.items
LastTurn == IF codex.items = 0 THEN 0 ELSE TurnOf(codex.items)
NoEvent == 0
Lowest(S) == IF S = {} THEN NoEvent ELSE Min(S)
Highest(S) == IF S = {} THEN NoEvent ELSE Max(S)

(***************************************************************************)
(* Codex: the thread goes on, and its turns are listed from the newest.     *)
(***************************************************************************)
\* A page ends at turn hi; its cursor is the turn before it, 0 for none.
Page(hi) ==
  LET lo == IF hi > PageTurns THEN hi - PageTurns + 1 ELSE 1
      listed == {i \in Said : TurnOf(i) \in lo .. hi /\ (IsTool(i) => script.lists)}
  IN  [turns |-> lo .. hi, next |-> lo - 1, events |-> listed,
       running |-> {i \in listed : IsTool(i) /\ i \notin codex.settled},
       active |-> {t \in lo .. hi : t = LastTurn /\ ~codex.done}]

Tell(item, how) ==
  \/ IsTool(item) /\ Len(news) < MaxNews /\ news' = Append(news, [item |-> item, how |-> how])
  \/ UNCHANGED news

codexOthers == <<script, cache, phone, req, faults>>
Moves == marks' = [marks EXCEPT !.still = FALSE]

NextItem ==
  /\ codex.items < Len(script.items)
  /\ LET item == codex.items + 1
     IN  /\ codex.done <=> TurnOf(item) # LastTurn
         /\ codex' = [codex EXCEPT !.items = item, !.done = FALSE]
         /\ Tell(item, "started")
  /\ Moves /\ UNCHANGED codexOthers

ToolSettles(item) ==
  /\ IsTool(item) /\ item \notin codex.settled
  /\ codex' = [codex EXCEPT !.settled = @ \cup {item}]
  /\ Tell(item, "completed")
  /\ Moves /\ UNCHANGED codexOthers

TurnEnds ==
  /\ ~codex.done
  /\ \A i \in Said : IsTool(i) => i \in codex.settled
  /\ LastTurn < (IF codex.items = Len(script.items) THEN LastTurn + 1 ELSE TurnOf(codex.items + 1))
  /\ codex' = [codex EXCEPT !.done = TRUE]
  /\ Moves /\ UNCHANGED <<codexOthers, news>>

(***************************************************************************)
(* The cache.                                                              *)
(***************************************************************************)
Empty == [events |-> {}, running |-> {}, next |-> 0, older |-> FALSE]
Locked == \E s \in Slots : req[s].pc = "locked"

\* merge_adapter_events: by id, an event that comes replaces the one that is there.
MergedWith(events, running) ==
  [cache EXCEPT !.events = @ \cup events, !.running = (@ \ events) \cup running]

\* Mutant of Kept: every tool the page does not carry stays.
KeptAll(page) ==
  {e \in cache.events : IF TurnOf(e) \notin page.turns THEN ~IsTool(e)
                        ELSE e \notin page.events /\ IsTool(e)}

\* replace_adapter_turn_events: of the turns of the page a tool stays that the page
\* does not carry, if it is settled or its turn active; of the others, no tool.
Kept(page) ==
  {e \in cache.events : IF TurnOf(e) \notin page.turns THEN ~IsTool(e)
                        ELSE /\ e \notin page.events /\ IsTool(e)
                             /\ e \in cache.running => TurnOf(e) \in page.active}

Replaced(page) ==
  LET kept == Kept(page)
  IN  [cache EXCEPT !.events = kept \cup page.events,
                    !.running = (@ \cap kept) \cup page.running,
                    !.next = IF cache.older THEN @ ELSE page.next]

\* cache_live_adapter_event
Notified ==
  /\ news # << >> /\ ~Locked
  /\ LET note == Head(news)
     IN  cache' = MergedWith({note.item}, IF note.how = "started" THEN {note.item} ELSE {})
  /\ news' = Tail(news)
  /\ UNCHANGED <<script, codex, phone, req, faults, marks>>

(***************************************************************************)
(* A window of the cached events.                                          *)
(***************************************************************************)
Latest(S, limit) == {x \in S : Cardinality({y \in S : y >= x}) <= limit}
Before(S, cursor, limit) == {x \in S : x < cursor
                                       /\ Cardinality({y \in S : x <= y /\ y < cursor}) <= limit}
\* The event of the cursor is sent again, and at least one more.
Since(S, cursor, limit) == {x \in S : x >= cursor
                              /\ Cardinality({y \in S : cursor <= y /\ y <= x})
                                 <= (IF limit > 2 THEN limit ELSE 2)}

Window(S, ask) ==
  IF ask.by = "latest" \/ ask.cursor \notin S
  THEN Latest(S, IF ask.by = "since" THEN SinceLimit ELSE OlderLimit)
  ELSE IF ask.by = "before" THEN Before(S, ask.cursor, OlderLimit)
  ELSE Since(S, ask.cursor, SinceLimit)

\* Mutant of Paginated: what is left in Codex is not asked for.
PaginatedCached(ask) ==
  LET page == Window(cache.events, ask)
  IN  [events |-> page,
       running |-> page \cap cache.running,
       reset |-> ask.by # "latest" /\ ask.cursor \notin cache.events,
       before |-> Lowest(page), after |-> Highest(page),
       more |-> \E x \in cache.events : page # {} /\ x < Min(page)]

\* paginate_session_events, and what is left in Codex before the first event.
Paginated(ask) ==
  LET S == cache.events
      page == Window(S, ask)
  IN  [events |-> page,
       running |-> page \cap cache.running,
       reset |-> ask.by # "latest" /\ ask.cursor \notin S,
       before |-> Lowest(page), after |-> Highest(page),
       more |-> \/ \E x \in S : page # {} /\ x < Min(page)
                \/ cache.next # 0 /\ Lowest(page) = Lowest(S)]

(***************************************************************************)
(* A request: the first page of Codex before the lock of the cache is       *)
(* taken, older pages under it.                                            *)
(***************************************************************************)
Quiet == [pc |-> "idle"]
Goes(s, next) == req' = [req EXCEPT ![s] = next]
Fails == faults.fails < MaxFails /\ faults' = [faults EXCEPT !.fails = @ + 1]
Ask(by, cursor) == [by |-> by, cursor |-> cursor]

\* History: the tools a request that begins now should not see running.
Ended == {i \in codex.settled : script.lists \/ TurnOf(i) # LastTurn \/ codex.done}

Begin(s, ask) ==
  /\ req[s] = Quiet
  /\ Goes(s, [pc |-> "fetched", ask |-> ask, page |-> Page(LastTurn), ended |-> Ended])
  /\ UNCHANGED <<script, codex, news, cache, phone, faults, marks>>

\* loadEvents and handleLoadOlderEvents
Poll == Begin("poll", IF phone.on /\ phone.after # NoEvent THEN Ask("since", phone.after)
                      ELSE Ask("latest", NoEvent))
LoadOlder == /\ phone.on /\ phone.more /\ phone.before # NoEvent
             /\ Begin("older", Ask("before", phone.before))

\* History: a first page that has no turn in common with the pages before it, newer
\* than they are or overtaken by one of them, may leave a gap; so may one that was
\* overtaken in one of its turns, if something later stays than a message it misses.
Leaps(page) ==
  \/ LET paged == {TurnOf(e) : e \in {e \in cache.events : ~IsTool(e)}}
     IN  paged # {} /\ paged \cap page.turns = {}
  \/ \E e \in Kept(page), i \in Said \ page.events :
       ~IsTool(i) /\ TurnOf(i) \in page.turns /\ i < e

Enter(s) ==
  /\ req[s].pc = "fetched" /\ ~Locked
  /\ cache' = Replaced(req[s].page)
  /\ Goes(s, [pc |-> "locked", ask |-> req[s].ask, left |-> MaxPages, ended |-> req[s].ended])
  /\ marks' = [marks EXCEPT !.gap = @ \/ Leaps(req[s].page)]
  /\ UNCHANGED <<script, codex, news, phone, faults>>

\* Fewer events are cached before the cursor than the window takes.
Wants(s) ==
  LET ask == req[s].ask
  IN  /\ ask.by = "before" /\ ask.cursor \in cache.events
      /\ Cardinality({e \in cache.events : e < ask.cursor}) < OlderLimit
      /\ cache.next # 0 /\ req[s].left > 0

Fetched(page) == [MergedWith(page.events, page.running) EXCEPT !.next = page.next, !.older = TRUE]

FetchOlder(s) ==
  /\ req[s].pc = "locked" /\ Wants(s)
  /\ cache' = Fetched(Page(cache.next))
  /\ Goes(s, [req[s] EXCEPT !.left = @ - 1])
  /\ UNCHANGED <<script, codex, news, phone, faults, marks>>

\* History: the request has fetched all the pages it may and come to no event.
Spent(ask) == /\ ask.by = "before" /\ ask.cursor \in cache.events /\ cache.next # 0
              /\ Window(cache.events, ask) = {}

Answer(s) ==
  /\ req[s].pc = "locked" /\ ~Wants(s)
  /\ marks' = [marks EXCEPT !.spent = @ \/ Spent(req[s].ask)]
  /\ Goes(s, [pc |-> "answered", ask |-> req[s].ask, page |-> Paginated(req[s].ask),
              ended |-> req[s].ended])
  /\ UNCHANGED <<script, codex, news, cache, phone, faults>>

\* A call to Codex fails, or the request or its answer is lost.
Fail(s) ==
  /\ req[s] # Quiet /\ (req[s].pc = "locked" => Wants(s))
  /\ Goes(s, Quiet) /\ Fails
  /\ UNCHANGED <<script, codex, news, cache, phone, marks>>

(***************************************************************************)
(* The phone takes an answer in: a page that is the first or a reset        *)
(* replaces its history, any other is merged.                               *)
(***************************************************************************)
Canonical(page) == ~phone.on \/ page.reset

AtPoll(page) ==
  [on |-> TRUE,
   hist |-> IF Canonical(page) THEN page.events ELSE phone.hist \cup page.events,
   before |-> IF Canonical(page) THEN page.before
              ELSE IF phone.before # NoEvent THEN phone.before ELSE page.before,
   after |-> IF page.after # NoEvent THEN page.after ELSE phone.after,
   more |-> IF Canonical(page) THEN page.more ELSE phone.more]

\* Mutant of AtOlder: the cursor is not moved.
AtOlderStays(page) ==
  [phone EXCEPT !.hist = IF page.reset THEN page.events ELSE @ \cup page.events,
                !.after = IF page.reset THEN page.after ELSE @,
                !.more = page.more]

AtOlder(page) ==
  [phone EXCEPT !.hist = IF page.reset THEN page.events ELSE @ \cup page.events,
                !.before = IF page.reset \/ page.before # NoEvent THEN page.before ELSE @,
                !.after = IF page.reset THEN page.after ELSE @,
                !.more = page.more]

Receive(s) ==
  /\ req[s].pc = "answered"
  /\ LET page == req[s].page
     IN  /\ phone' = IF s = "poll" THEN AtPoll(page) ELSE AtOlder(page)
         /\ marks' = [marks EXCEPT !.crossed =
                        @ \/ ((IF s = "poll" THEN Canonical(page) ELSE page.reset)
                              /\ \E t \in Slots \ {s} : req[t] # Quiet)]
  /\ Goes(s, Quiet)
  /\ UNCHANGED <<script, codex, news, cache, faults>>

\* The Bridge starts anew: its cache and the requests it was at are gone.
Restart ==
  /\ faults.restarts < MaxRestarts
  /\ faults' = [faults EXCEPT !.restarts = @ + 1]
  /\ cache' = Empty /\ news' = << >>
  /\ req' = [s \in Slots |-> IF req[s].pc = "answered" THEN req[s] ELSE Quiet]
  /\ Moves
  /\ UNCHANGED <<script, codex, phone>>

Init ==
  /\ script \in Scripts
  /\ \E turns \in Beginnings, n \in 1 .. Len(script.items) :
       /\ \A i \in DOMAIN script.items : i <= n <=> TurnOf(i) <= turns
       /\ codex = [items |-> n, done |-> TRUE, settled |-> {i \in 1 .. n : IsTool(i)}]
  /\ news = << >> /\ cache = Empty
  /\ phone = [on |-> FALSE, hist |-> {}, before |-> NoEvent, after |-> NoEvent, more |-> FALSE]
  /\ req = [s \in Slots |-> Quiet]
  /\ faults = [restarts |-> 0, fails |-> 0]
  /\ marks = [still |-> TRUE, gap |-> FALSE, spent |-> FALSE, crossed |-> FALSE]

Serve(s) == Enter(s) \/ FetchOlder(s) \/ Answer(s) \/ Receive(s)
CodexStep == NextItem \/ (\E item \in Said : ToolSettles(item)) \/ TurnEnds

Next == CodexStep \/ Notified \/ Poll \/ LoadOlder \/ Restart
        \/ \E s \in Slots : Serve(s) \/ Fail(s)

\* The phone polls while the thread is shown and its user goes on scrolling up;
\* a request that is in the Bridge goes on.
Fairness == /\ WF_vars(Poll) /\ SF_vars(LoadOlder)
            /\ \A s \in Slots : SF_vars(Serve(s))

Spec == Init /\ [][Next]_vars /\ Fairness

(***************************************************************************)
(* Properties.                                                             *)
(***************************************************************************)
Events == DOMAIN script.items

\* What Codex, the cache, the phone and its requests may hold.
TypeOK ==
  /\ codex.items \in 0 .. Len(script.items) /\ codex.settled \subseteq Said
  /\ cache.events \subseteq Events /\ cache.running \subseteq cache.events
  /\ cache.next \in 0 .. LastTurn /\ cache.older \in BOOLEAN
  /\ phone.hist \subseteq Events
  /\ phone.before \in phone.hist \cup {NoEvent} /\ phone.after \in Events \cup {NoEvent}
  /\ \A s \in Slots : req[s].pc \in {"idle", "fetched", "locked", "answered"}
  /\ Cardinality({s \in Slots : req[s].pc = "locked"}) <= 1

\* A phone that is told there is nothing before its first event has every message of
\* the thread up to its newest one, whatever was polled, restarted or reset on the
\* way and whatever left the cache with its turn (list_session_events,
\* handleLoadOlderEvents); but for the gaps a first page may leave in the cache, a walk
\* that spent its pages on what was cached, and an answer that crosses a reset.
WalkComplete ==
  phone.on /\ ~phone.more /\ ~marks.gap /\ ~marks.spent /\ ~marks.crossed =>
    {i \in Events : ~IsTool(i) /\ i <= phone.after} \subseteq phone.hist

\* An answer shows no tool as running that was settled when its request began, in a
\* turn that was over or that Codex lists its tools of: whatever notifications were
\* lost or late and whatever an older page overwrote (replace_adapter_turn_events).
SettledTools ==
  \A s \in Slots : req[s].pc = "answered" => req[s].page.running \cap req[s].ended = {}

\* A phone that goes on scrolling up comes to the beginning of the thread, also
\* when its cursor is dropped from the cache on the way and its walk starts over.
WalkEnds == <>(phone.on /\ ~phone.more)

\* README_EN.md:192: older history is loaded through the cursors.  A cursor that was
\* handed out is good as long as neither Codex nor the Bridge has moved.
CursorHolds == marks.still /\ req["older"].pc = "answered" => ~req["older"].page.reset
=============================================================================
