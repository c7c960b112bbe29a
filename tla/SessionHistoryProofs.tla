-------------------------- MODULE SessionHistoryProofs --------------------------
(***************************************************************************)
(* Proofs about the history of a thread, for every thread, page size and     *)
(* number of restarts and failures: no answer shows a tool as running that    *)
(* had settled when its request began, and a phone that is told there is       *)
(* nothing before its first event has every message up to its last.            *)
(***************************************************************************)
EXTENDS SessionHistory, FiniteSetTheorems, WellFoundedInduction, TLAPS

\* Only tools settle, and none before it was said.
CodexInv == /\ DOMAIN codex = {"items", "done", "settled"}
            /\ codex.items \in Nat
            /\ \A i \in codex.settled : i \in Said /\ IsTool(i)

\* What a page fetched from Codex says of the tools that had settled: they do not
\* run in it, and if their turn goes on the page carries them.
PageIsTrue(page, ended) ==
  \A i \in ended : /\ i \notin page.running
                   /\ TurnOf(i) \in page.turns /\ TurnOf(i) \in page.active => i \in page.events

\* The cache is true for a request from its entry to its answer.
RequestIsTrue(s) ==
  /\ req[s].pc \in {"fetched", "locked", "answered"} => req[s].ended \subseteq codex.settled
  /\ req[s].pc = "fetched" => PageIsTrue(req[s].page, req[s].ended)
  /\ req[s].pc = "locked" => cache.running \cap req[s].ended = {}
  /\ req[s].pc = "answered" => req[s].page.running \cap req[s].ended = {}

OneLocked == \A s, t \in Slots : req[s].pc = "locked" /\ req[t].pc = "locked" => s = t

HistoryInv == /\ CodexInv
              /\ DOMAIN cache = {"events", "running", "next", "older"}
              /\ DOMAIN req = Slots
              /\ \A s \in Slots : RequestIsTrue(s)
              /\ OneLocked

-----------------------------------------------------------------------------
\* A page carries no settled tool as running, whenever it is fetched.
LEMMA PageRunning ==
  ASSUME NEW hi
  PROVE  Page(hi).running \cap codex.settled = {}
BY DEF Page

\* The first page is true of the tools that had settled when it was fetched.
LEMMA FirstPageIsTrue ==
  ASSUME CodexInv
  PROVE  PageIsTrue(Page(LastTurn), Ended) /\ Ended \subseteq codex.settled
<1> DEFINE page == Page(LastTurn)
<1>1. ASSUME NEW i \in Ended
      PROVE  /\ i \notin page.running
             /\ TurnOf(i) \in page.turns /\ TurnOf(i) \in page.active => i \in page.events
  <2>1. i \in codex.settled /\ i \in Said BY <1>1 DEF Ended, CodexInv
  <2>2. i \notin page.running BY <2>1, PageRunning
  <2>3. ASSUME TurnOf(i) \in page.turns, TurnOf(i) \in page.active
        PROVE  i \in page.events
    <3>1. TurnOf(i) = LastTurn /\ ~codex.done BY <2>3 DEF Page
    <3>2. script.lists BY <1>1, <3>1 DEF Ended
    <3> QED BY <2>1, <2>3, <3>2 DEF Page
  <2> QED BY <2>2, <2>3
<1>2. Ended \subseteq codex.settled BY DEF Ended
<1> QED BY <1>1, <1>2 DEF PageIsTrue

\* Taken over into the cache, it leaves no such tool running there.
LEMMA ReplacedIsTrue ==
  ASSUME DOMAIN cache = {"events", "running", "next", "older"},
         NEW page, NEW ended, PageIsTrue(page, ended), \A i \in ended : IsTool(i)
  PROVE  /\ DOMAIN Replaced(page) = {"events", "running", "next", "older"}
         /\ Replaced(page).running \cap ended = {}
<1>1. /\ DOMAIN Replaced(page) = {"events", "running", "next", "older"}
      /\ Replaced(page).running = (cache.running \cap Kept(page)) \cup page.running
  BY DEF Replaced
<1>2. ASSUME NEW i \in ended, i \in cache.running, i \in Kept(page)
      PROVE  FALSE
  BY <1>2 DEF Kept, PageIsTrue
<1>3. ASSUME NEW i \in ended, i \in page.running
      PROVE  FALSE
  BY <1>3 DEF PageIsTrue
<1> QED BY <1>1, <1>2, <1>3

\* Tools that have settled stay settled, and the thread stays the same.
CodexMoves == /\ UNCHANGED script
              /\ codex.settled \subseteq codex'.settled
              /\ CodexInv'

LEMMA CodexStepMoves ==
  ASSUME HistoryInv, CodexStep
  PROVE  CodexMoves /\ UNCHANGED <<cache, req>>
<1>1. CodexInv BY DEF HistoryInv
<1>2. CASE NextItem
  <2>1. codex' = [codex EXCEPT !.items = codex.items + 1, !.done = FALSE]
        /\ UNCHANGED <<script, cache, req>>
    BY <1>2 DEF NextItem, codexOthers
  <2> QED BY <1>1, <2>1 DEF CodexInv, CodexMoves, Said, IsTool
<1>3. ASSUME NEW item \in Said, ToolSettles(item)
      PROVE  CodexMoves /\ UNCHANGED <<cache, req>>
  <2>1. codex' = [codex EXCEPT !.settled = codex.settled \cup {item}] /\ IsTool(item)
        /\ UNCHANGED <<script, cache, req>>
    BY <1>3 DEF ToolSettles, codexOthers
  <2> QED BY <1>1, <2>1 DEF CodexInv, CodexMoves, Said, IsTool
<1>4. CASE TurnEnds
  <2>1. codex' = [codex EXCEPT !.done = TRUE] /\ UNCHANGED <<script, cache, req>>
    BY <1>4 DEF TurnEnds, codexOthers
  <2> QED BY <1>1, <2>1 DEF CodexInv, CodexMoves, Said, IsTool
<1> QED BY <1>2, <1>3, <1>4 DEF CodexStep

\* Whoever leaves the cache and the requests alone, or only ends requests, keeps
\* what is true of them.
LEMMA QuietStep ==
  ASSUME HistoryInv, CodexMoves, DOMAIN cache' = DOMAIN cache, DOMAIN req' = Slots,
         \A s \in Slots : \/ req'[s] = req[s] /\ (req[s].pc = "locked" => UNCHANGED cache)
                          \/ req'[s] = Quiet
  PROVE  HistoryInv'
<1>1. ASSUME NEW s \in Slots
      PROVE  RequestIsTrue(s)'
  <2>1. RequestIsTrue(s) BY DEF HistoryInv
  <2>2. CASE req'[s] = Quiet BY <2>2 DEF RequestIsTrue, Quiet
  <2>3. CASE req'[s] = req[s] /\ (req[s].pc = "locked" => UNCHANGED cache)
    BY <2>1, <2>3 DEF RequestIsTrue, CodexMoves, PageIsTrue, TurnOf
  <2> QED BY <2>2, <2>3
<1>2. OneLocked' BY DEF HistoryInv, OneLocked, Quiet
<1> QED BY <1>1, <1>2 DEF HistoryInv, CodexMoves

\* One request moves on, the other stands still.
LEMMA RequestMoves ==
  ASSUME HistoryInv, UNCHANGED <<script, codex>>, NEW s \in Slots, NEW next,
         req' = [req EXCEPT ![s] = next], RequestIsTrue(s)',
         DOMAIN cache' = DOMAIN cache,
         next.pc = "locked" => ~Locked \/ req[s].pc = "locked",
         UNCHANGED cache \/ \A t \in Slots \ {s} : req[t].pc # "locked"
  PROVE  HistoryInv'
<1>1. ASSUME NEW t \in Slots \ {s}
      PROVE  RequestIsTrue(t)'
  <2>1. RequestIsTrue(t) /\ req'[t] = req[t] BY DEF HistoryInv
  <2> QED BY <2>1 DEF RequestIsTrue, PageIsTrue, TurnOf
<1>2. CodexInv' BY DEF HistoryInv, CodexInv, Said, IsTool
<1>3. OneLocked' BY DEF HistoryInv, OneLocked, Locked
<1> QED BY <1>1, <1>2, <1>3 DEF HistoryInv

LEMMA RequestSteps ==
  ASSUME HistoryInv, NEW s \in Slots, Enter(s) \/ FetchOlder(s) \/ Answer(s)
  PROVE  HistoryInv'
<1> DEFINE ended == req[s].ended
<1>1. RequestIsTrue(s) /\ CodexInv /\ OneLocked /\ DOMAIN req = Slots
      /\ DOMAIN cache = {"events", "running", "next", "older"}
  BY DEF HistoryInv
<1>2. CASE Enter(s)
  <2> DEFINE next == [pc |-> "locked", ask |-> req[s].ask, left |-> MaxPages, ended |-> ended]
  <2>1. /\ req' = [req EXCEPT ![s] = next] /\ cache' = Replaced(req[s].page)
        /\ UNCHANGED <<script, codex>> /\ req[s].pc = "fetched" /\ ~Locked
    BY <1>2 DEF Enter, Goes
  <2>2. PageIsTrue(req[s].page, ended) /\ ended \subseteq codex.settled
    BY <1>1, <2>1 DEF RequestIsTrue
  <2>3. \A i \in ended : IsTool(i) BY <1>1, <2>2 DEF CodexInv
  <2>4. DOMAIN cache' = DOMAIN cache /\ cache'.running \cap ended = {}
    BY <1>1, <2>1, <2>2, <2>3, ReplacedIsTrue
  <2>5. next.pc = "locked" /\ next.ended = ended OBVIOUS
  <2> HIDE DEF next
  <2>6. RequestIsTrue(s)' BY <1>1, <2>1, <2>2, <2>4, <2>5 DEF RequestIsTrue
  <2>7. \A t \in Slots : req[t].pc # "locked" BY <2>1 DEF Locked
  <2> QED BY <2>1, <2>4, <2>5, <2>6, <2>7, RequestMoves
<1>3. CASE FetchOlder(s)
  <2> DEFINE next == [req[s] EXCEPT !.left = req[s].left - 1]
             page == Page(cache.next)
  <2>1. /\ req' = [req EXCEPT ![s] = next] /\ cache' = Fetched(page)
        /\ UNCHANGED <<script, codex>> /\ req[s].pc = "locked"
    BY <1>3 DEF FetchOlder, Goes
  <2>2. /\ DOMAIN cache' = DOMAIN cache
        /\ cache'.running = (cache.running \ page.events) \cup page.running
    BY <1>1, <2>1 DEF Fetched, MergedWith
  <2>3. page.running \cap codex.settled = {} BY PageRunning
  <2>4. cache.running \cap ended = {} /\ ended \subseteq codex.settled
    BY <1>1, <2>1 DEF RequestIsTrue
  <2>5. next.pc = "locked" /\ next.ended = ended BY <2>1
  <2> HIDE DEF next, page
  <2>6. RequestIsTrue(s)' BY <1>1, <2>1, <2>2, <2>3, <2>4, <2>5 DEF RequestIsTrue
  <2>7. \A t \in Slots \ {s} : req[t].pc # "locked" BY <1>1, <2>1 DEF OneLocked
  <2> QED BY <2>1, <2>2, <2>5, <2>6, <2>7, RequestMoves
<1>4. CASE Answer(s)
  <2> DEFINE next == [pc |-> "answered", ask |-> req[s].ask, page |-> Paginated(req[s].ask),
                      ended |-> ended]
  <2>1. /\ req' = [req EXCEPT ![s] = next]
        /\ UNCHANGED <<script, codex, cache>> /\ req[s].pc = "locked"
    BY <1>4 DEF Answer, Goes
  <2>2. Paginated(req[s].ask).running \subseteq cache.running BY DEF Paginated
  <2>3. cache.running \cap ended = {} /\ ended \subseteq codex.settled
    BY <1>1, <2>1 DEF RequestIsTrue
  <2>4. next.pc = "answered" /\ next.ended = ended /\ next.page.running \subseteq cache.running
    BY <2>2
  <2> HIDE DEF next
  <2>5. RequestIsTrue(s)' BY <1>1, <2>1, <2>3, <2>4 DEF RequestIsTrue
  <2> QED BY <2>1, <2>4, <2>5, RequestMoves
<1> QED BY <1>2, <1>3, <1>4

LEMMA RequestBegins ==
  ASSUME HistoryInv, Poll \/ LoadOlder
  PROVE  HistoryInv'
<1>0. PICK s \in Slots : \E ask : Begin(s, ask) BY DEF Poll, LoadOlder, Slots
<1>1. PICK ask : Begin(s, ask) BY <1>0
<1> DEFINE next == [pc |-> "fetched", ask |-> ask, page |-> Page(LastTurn), ended |-> Ended]
<1>2. req' = [req EXCEPT ![s] = next] /\ UNCHANGED <<script, codex, cache>>
  BY <1>1 DEF Begin, Goes
<1>3. /\ next.pc = "fetched" /\ PageIsTrue(next.page, next.ended)
      /\ next.ended \subseteq codex.settled
  BY FirstPageIsTrue DEF HistoryInv
<1> HIDE DEF next
<1>4. RequestIsTrue(s)' BY <1>2, <1>3 DEF HistoryInv, RequestIsTrue, PageIsTrue, TurnOf
<1> QED BY <1>2, <1>3, <1>4, RequestMoves

-----------------------------------------------------------------------------
\* From its first page to its answer, a request sees no tool running that had settled
\* when it began, whatever other requests and notifications do to the cache.
THEOREM HistoryInvariant == Spec => []HistoryInv
<1>1. Init => HistoryInv
  <2> SUFFICES ASSUME Init PROVE HistoryInv OBVIOUS
  <2>1. PICK n \in 1 .. Len(script.items) :
          codex = [items |-> n, done |-> TRUE, settled |-> {i \in 1 .. n : IsTool(i)}]
    BY DEF Init
  <2>2. CodexInv BY <2>1 DEF CodexInv, Said
  <2>3. cache = Empty /\ req = [s \in Slots |-> Quiet] BY DEF Init
  <2> QED BY <2>2, <2>3 DEF HistoryInv, Empty, Quiet, RequestIsTrue, OneLocked
<1>2. HistoryInv /\ [Next]_vars => HistoryInv'
  <2> SUFFICES ASSUME HistoryInv, [Next]_vars PROVE HistoryInv' OBVIOUS
  <2>1. ASSUME UNCHANGED <<script, codex>>
        PROVE  CodexMoves
    BY <2>1 DEF HistoryInv, CodexMoves, CodexInv, Said, IsTool
  <2>2. CASE CodexStep
    BY <2>2, CodexStepMoves, QuietStep DEF HistoryInv
  <2>3. CASE Notified
    <3>1. DOMAIN cache' = DOMAIN cache BY <2>3 DEF Notified, MergedWith
    <3>2. \A s \in Slots : req'[s] = req[s] /\ req[s].pc # "locked" BY <2>3 DEF Notified, Locked
    <3> QED BY <2>1, <2>3, <3>1, <3>2, QuietStep DEF Notified, HistoryInv
  <2>4. CASE Poll \/ LoadOlder BY <2>4, RequestBegins
  <2>5. CASE Restart
    <3>1. DOMAIN cache' = DOMAIN cache BY <2>5 DEF Restart, Empty, HistoryInv
    <3>2. \A s \in Slots : \/ req'[s] = req[s] /\ req[s].pc # "locked"
                           \/ req'[s] = Quiet
      BY <2>5 DEF Restart
    <3> QED BY <2>1, <2>5, <3>1, <3>2, QuietStep DEF Restart, HistoryInv
  <2>6. ASSUME NEW s \in Slots, Enter(s) \/ FetchOlder(s) \/ Answer(s)
        PROVE  HistoryInv'
    BY <2>6, RequestSteps
  <2>7. ASSUME NEW s \in Slots, Receive(s) \/ Fail(s)
        PROVE  HistoryInv'
    <3>1. UNCHANGED <<script, codex, cache>> /\ req' = [req EXCEPT ![s] = Quiet]
      BY <2>7 DEF Receive, Fail, Goes
    <3> QED BY <2>1, <3>1, QuietStep DEF HistoryInv
  <2>8. CASE UNCHANGED vars BY <2>1, <2>8, QuietStep DEF vars, HistoryInv
  <2> QED BY <2>2, <2>3, <2>4, <2>5, <2>6, <2>7, <2>8 DEF Next, Serve
<1> QED BY <1>1, <1>2, PTL DEF Spec

\* So no answer shows as running a tool that had settled when its request began.
THEOREM SettledIsNotRunning == Spec => []SettledTools
<1>1. HistoryInv => SettledTools BY DEF HistoryInv, RequestIsTrue, SettledTools
<1> QED BY <1>1, HistoryInvariant, PTL

(***************************************************************************)
(* The walk through the history.  A set of cached events is whole if no       *)
(* message is missing between two of them, nor between the cursor of the       *)
(* cache and one of them.                                                     *)
(***************************************************************************)
Messages(S) == {e \in S : ~IsTool(e)}

Dense(S) == \A a, b \in S, j \in Events : a < j /\ j < b /\ ~IsTool(j) => j \in S

Reaches(S, next) ==
  \A e \in S, i \in Events : i <= e /\ ~IsTool(i) /\ TurnOf(i) > next => i \in S

Whole(S, next) == /\ Dense(S) /\ Reaches(S, next)
                  /\ \E m \in S : ~IsTool(m) /\ TurnOf(m) > next

\* While a request has the lock, the tools in the cache do not stand apart either.
CacheIsWhole ==
  /\ Messages(cache.events) # {} => Whole(Messages(cache.events), cache.next)
  /\ cache.older => Messages(cache.events) # {}
  /\ Locked => Whole(cache.events, cache.next)

\* A page of the turns up to hi, of a thread of n items, and the first page of it.
Lists(page, hi, n) ==
  /\ page.next \in Nat /\ page.turns = (page.next + 1) .. hi
  /\ \A e \in page.events : e \in 1 .. n /\ TurnOf(e) \in page.turns
  /\ \A i \in 1 .. n : ~IsTool(i) /\ TurnOf(i) \in page.turns => i \in page.events

FirstPage(page, n) == Lists(page, TurnOf(n), n) /\ page.next < TurnOf(n)

\* An answer misses no message between its events, nor before the cursor it goes back
\* from; if it says that there is nothing before it, there is no message.
AnswerIsWhole(ask, page) ==
  /\ page.before = NoEvent => ask.by = "before" /\ ~page.reset
  /\ page.before # NoEvent =>
       \A i \in Events : ~IsTool(i) /\ page.before <= i /\ i <= page.after => i \in page.events
  /\ page.before # NoEvent => page.after # NoEvent
  /\ ask.by = "since" /\ ~page.reset => page.before = ask.cursor
  /\ ask.by = "before" /\ ~page.reset /\ page.before # NoEvent =>
       \A i \in Events : ~IsTool(i) /\ page.before <= i /\ i < ask.cursor => i \in page.events
  /\ ~page.more =>
       \A i \in Events : i < (IF page.before = NoEvent THEN ask.cursor ELSE page.before) => IsTool(i)

AnswersAreWhole == \A s \in Slots : req[s].pc = "answered" => AnswerIsWhole(req[s].ask, req[s].page)

\* The phone has every message between its cursors, which its requests are about.
PhoneIsWhole ==
  /\ phone.on =>
       /\ phone.before # NoEvent /\ phone.after # NoEvent
       /\ \A i \in Events : ~IsTool(i) /\ phone.before <= i /\ i <= phone.after => i \in phone.hist
       /\ ~phone.more => \A i \in Events : i < phone.before => IsTool(i)
  /\ req["older"] # Quiet => phone.on /\ req["older"].ask = Ask("before", phone.before)
  /\ req["poll"] # Quiet =>
       req["poll"].ask = IF phone.on THEN Ask("since", phone.after) ELSE Ask("latest", NoEvent)

NewsAreTools ==
  /\ news \in Seq([item : Nat, how : {"started", "completed"}])
  /\ \A k \in 1 .. Len(news) : news[k].item \in Said /\ IsTool(news[k].item)

RequestTypes(s) ==
  /\ req[s] # Quiet => req[s].ask.cursor \in Nat
  /\ req[s].pc = "fetched" => \E n \in Said : FirstPage(req[s].page, n)
  /\ req[s].pc = "answered" => req[s].page.before \in Nat /\ req[s].page.after \in Nat

WalkTypes ==
  /\ script \in Scripts /\ codex.items \in Events
  /\ cache.events \subseteq Said /\ cache.next \in Nat
  /\ NewsAreTools
  /\ DOMAIN phone = {"on", "hist", "before", "after", "more"}
  /\ phone.before \in Nat /\ phone.after \in Nat
  /\ DOMAIN marks = {"still", "gap", "spent", "crossed"}
  /\ \A s \in Slots : RequestTypes(s)

WalkInv ==
  /\ WalkTypes
  /\ ~marks.gap => CacheIsWhole
  /\ ~marks.gap /\ ~marks.spent => AnswersAreWhole
  /\ ~marks.gap /\ ~marks.spent /\ ~marks.crossed => PhoneIsWhole

-----------------------------------------------------------------------------
\* The items of a thread are in the order of its turns, and a turn begins with a message.
LEMMA ScriptFacts ==
  ASSUME script \in Scripts
  PROVE  /\ Events \subseteq Nat /\ Events = 1 .. Len(script.items) /\ Len(script.items) \in Nat
         /\ \A i \in Events : TurnOf(i) \in Nat \ {0}
         /\ \A i, j \in Events : i <= j => TurnOf(i) <= TurnOf(j)
         /\ \A i \in Events : \E j \in Events : j <= i /\ TurnOf(j) = TurnOf(i) /\ ~IsTool(j)
<1>1. script.items \in Seq(Items) /\ InTurns(script.items) BY HistoryAssumption
<1>2. Events = 1 .. Len(script.items) /\ Len(script.items) \in Nat
  BY <1>1 DEF Events
<1>3. ASSUME NEW i \in Events PROVE TurnOf(i) \in Nat \ {0}
  <2>1. script.items[i] \in Items BY <1>1, <1>2
  <2> QED BY <2>1 DEF TurnOf, Items
<1>4. \A i, j \in Events : i <= j => TurnOf(i) <= TurnOf(j)
  BY <1>1, <1>2 DEF InTurns, TurnOf, Events
<1>5. \A i \in Events : \E j \in Events : j <= i /\ TurnOf(j) = TurnOf(i) /\ ~IsTool(j)
  <2> SUFFICES ASSUME NEW i \in Events
               PROVE  \E j \in Events : j <= i /\ TurnOf(j) = TurnOf(i) /\ ~IsTool(j)
    OBVIOUS
  <2>1. PICK j \in 1 .. i : script.items[j].turn = script.items[i].turn /\ ~script.items[j].tool
    BY <1>1 DEF InTurns, Events
  <2> QED BY <1>2, <2>1 DEF TurnOf, IsTool
<1> QED BY <1>2, <1>3, <1>4, <1>5

LEMMA TurnsInOrder ==
  ASSUME script \in Scripts, NEW i \in Events, NEW j \in Events
  PROVE  /\ i \in Nat /\ j \in Nat /\ TurnOf(i) \in Nat \ {0} /\ TurnOf(j) \in Nat \ {0}
         /\ i <= j => TurnOf(i) <= TurnOf(j)
         /\ TurnOf(i) < TurnOf(j) => i < j
         /\ i < j \/ j < i \/ i = j
<1>1. /\ i \in Nat /\ j \in Nat /\ TurnOf(i) \in Nat \ {0} /\ TurnOf(j) \in Nat \ {0}
      /\ (i <= j => TurnOf(i) <= TurnOf(j)) /\ (j <= i => TurnOf(j) <= TurnOf(i))
  BY ScriptFacts
<1> QED BY <1>1

\* What has been said is the beginning of the thread.
LEMMA SaidFacts ==
  ASSUME WalkTypes
  PROVE  /\ script \in Scripts /\ Said \subseteq Events /\ Events \subseteq Nat
         /\ codex.items \in Nat /\ codex.items \in Said /\ Said = 1 .. codex.items
         /\ \A e \in Said, i \in Events : i <= e => i \in Said
<1>1. script \in Scripts /\ codex.items \in Events BY DEF WalkTypes
<1>2. Events = 1 .. Len(script.items) /\ Len(script.items) \in Nat BY <1>1, ScriptFacts
<1>3. Said = 1 .. codex.items BY DEF Said
<1> QED BY <1>1, <1>2, <1>3

\* What a page lists, whichever turn it ends at.
LEMMA PageLists ==
  ASSUME WalkTypes, NEW hi \in Nat
  PROVE  /\ Lists(Page(hi), hi, codex.items)
         /\ hi # 0 => Page(hi).next < hi
         /\ hi = 0 => Page(hi).next = 0
<1> DEFINE lo == IF hi > PageTurns THEN hi - PageTurns + 1 ELSE 1
           listed == {i \in Said : TurnOf(i) \in lo .. hi /\ (IsTool(i) => script.lists)}
<1>1. Page(hi).turns = lo .. hi /\ Page(hi).next = lo - 1 /\ Page(hi).events = listed
  BY DEF Page
<1>2. PageTurns \in Nat \ {0} BY HistoryAssumption
<1>3. lo - 1 \in Nat /\ lo \in Nat /\ (hi # 0 => lo - 1 < hi) /\ (hi = 0 => lo - 1 = 0)
      /\ (lo - 1) + 1 = lo
  BY <1>2
<1>4. Said = 1 .. codex.items BY DEF Said
<1> HIDE DEF lo
<1> QED BY <1>1, <1>3, <1>4 DEF Lists

\* A set of natural numbers has a least one, and a greatest if it has a bound.
LEMMA LeastNatural ==
  ASSUME NEW S \in SUBSET Nat, S # {}
  PROVE  \E m \in S : \A x \in S : m <= x
<1>1. PICK m \in S : \A x \in S : ~(<<x, m>> \in OpToRel(<, Nat))
  BY NatLessThanWellFounded, WFMin
<1>2. ASSUME NEW x \in S PROVE ~(x < m) BY <1>1 DEF OpToRel
<1>3. ASSUME NEW x \in S PROVE m <= x BY <1>2
<1> QED BY <1>3

LEMMA LargestNatural ==
  ASSUME NEW S \in SUBSET Nat, S # {}, NEW n \in Nat, \A x \in S : x <= n
  PROVE  \E m \in S : \A x \in S : x <= m
<1> DEFINE T == {k \in Nat : \E x \in S : k = n - x}
<1>1. \A y \in S : n - y \in T OBVIOUS
<1>2. T # {} /\ T \subseteq Nat BY <1>1
<1>3. PICK k \in T : \A y \in T : k <= y BY <1>2, LeastNatural
<1>4. PICK m \in S : k = n - m BY <1>3
<1>5. \A y \in S : n - m <= n - y BY <1>1, <1>3, <1>4
<1> QED BY <1>5

\* The first and the last of a set of events.
LEMMA Bounds ==
  ASSUME NEW n \in Nat, NEW S, S \subseteq 1 .. n
  PROVE  /\ S = {} => Lowest(S) = NoEvent /\ Highest(S) = NoEvent
         /\ S # {} => /\ Lowest(S) \in S /\ \A x \in S : Lowest(S) <= x
                      /\ Highest(S) \in S /\ \A x \in S : x <= Highest(S)
<1>1. S = {} => Lowest(S) = NoEvent /\ Highest(S) = NoEvent BY DEF Lowest, Highest
<1>2. CASE S # {}
  <2>1. \E m \in S : \A x \in S : m <= x BY <1>2, LeastNatural
  <2>2. \E m \in S : \A x \in S : m >= x
    <3>0. S \subseteq Nat /\ \A x \in S : x <= n OBVIOUS
    <3>1. PICK m \in S : \A x \in S : x <= m BY <1>2, <3>0, LargestNatural
    <3>2. \A x \in S : m >= x BY <3>1
    <3> QED BY <3>2
  <2>3. Lowest(S) = Min(S) /\ Highest(S) = Max(S) BY <1>2 DEF Lowest, Highest
  <2>4. Min(S) \in S /\ \A x \in S : Min(S) <= x BY <2>1 DEF Min
  <2>5. Max(S) \in S /\ \A x \in S : Max(S) >= x BY <2>2 DEF Max
  <2>6. \A x \in S : Max(S) >= x => x <= Max(S) BY <2>5
  <2> QED BY <1>2, <2>3, <2>4, <2>5, <2>6
<1> QED BY <1>1, <1>2

-----------------------------------------------------------------------------
\* The messages of a whole set are whole.
LEMMA MessagesAreWhole ==
  ASSUME NEW S, NEW next, Whole(S, next)
  PROVE  Whole(Messages(S), next) /\ Messages(S) # {}
BY DEF Whole, Dense, Reaches, Messages

\* What a first page leaves of the cache: beside the tools of its own turns, the
\* messages of the other turns; what it keeps of its turns is in it or later.
LEMMA EnterKeeps ==
  ASSUME NEW page, ~Leaps(page), cache.events \subseteq Said
  PROVE  /\ \A e \in Kept(page) : e \in cache.events /\ (IsTool(e) => TurnOf(e) \in page.turns)
         /\ \A e \in Messages(cache.events) :
              TurnOf(e) \notin page.turns => e \in Kept(page)
         /\ \A e \in Kept(page), i \in Said :
              ~IsTool(i) /\ TurnOf(i) \in page.turns /\ i < e => i \in page.events
         /\ Messages(cache.events) # {} =>
              \E p \in Messages(cache.events) : TurnOf(p) \in page.turns
<1>1. \A e \in Kept(page) : e \in cache.events /\ (IsTool(e) => TurnOf(e) \in page.turns)
  BY DEF Kept
<1>2. \A e \in Messages(cache.events) : TurnOf(e) \notin page.turns => e \in Kept(page)
  BY DEF Kept, Messages
<1>3. \A e \in Kept(page), i \in Said :
        ~IsTool(i) /\ TurnOf(i) \in page.turns /\ i < e => i \in page.events
  BY DEF Leaps
<1>4. Messages(cache.events) # {} =>
        \E p \in Messages(cache.events) : TurnOf(p) \in page.turns
  BY DEF Leaps, Messages
<1> QED BY <1>1, <1>2, <1>3, <1>4

\* So the cache is whole behind a first page that does not leap.
LEMMA EnterIsWhole ==
  ASSUME WalkTypes, CacheIsWhole, NEW page, NEW n \in Said, FirstPage(page, n), ~Leaps(page),
         DOMAIN cache = {"events", "running", "next", "older"}
  PROVE  Whole(Replaced(page).events, Replaced(page).next)
<1> DEFINE M == Messages(cache.events)
           hi == TurnOf(n)
           S == Kept(page) \cup page.events
           next == IF cache.older THEN cache.next ELSE page.next
<1>1. Replaced(page).events = S /\ Replaced(page).next = next BY DEF Replaced
<1>2. /\ script \in Scripts /\ Said \subseteq Events /\ Events \subseteq Nat
      /\ \A e \in Said, i \in Events : i <= e => i \in Said
      /\ n \in Events /\ n \in Nat /\ Said = 1 .. codex.items /\ codex.items \in Nat
  BY SaidFacts
<1>3. /\ cache.events \subseteq Said /\ M \subseteq cache.events
      /\ \A m \in M : ~IsTool(m) /\ m \in Events
      /\ cache.next \in Nat
  BY <1>2 DEF WalkTypes, Messages
<1>4. hi \in Nat /\ page.next \in Nat /\ page.next < hi /\ page.turns = (page.next + 1) .. hi
  BY <1>2, TurnsInOrder DEF FirstPage, Lists
<1>5. /\ \A e \in page.events : e \in 1 .. n /\ TurnOf(e) \in page.turns
      /\ \A i \in 1 .. n : ~IsTool(i) /\ TurnOf(i) \in page.turns => i \in page.events
  BY DEF FirstPage, Lists
<1>6. page.events \subseteq Said BY <1>2, <1>5
<1>7. /\ \A e \in Kept(page) : e \in cache.events /\ (IsTool(e) => TurnOf(e) \in page.turns)
      /\ \A e \in M : TurnOf(e) \notin page.turns => e \in Kept(page)
      /\ \A e \in Kept(page), i \in Said :
           ~IsTool(i) /\ TurnOf(i) \in page.turns /\ i < e => i \in page.events
      /\ M # {} => \E p \in M : TurnOf(p) \in page.turns
  BY <1>3, EnterKeeps
<1>8. M # {} => Dense(M) /\ Reaches(M, cache.next) /\ \E m \in M : TurnOf(m) > cache.next
  BY DEF CacheIsWhole, Whole
<1>9. cache.older => M # {} BY DEF CacheIsWhole
<1>10. S \subseteq Said /\ S \subseteq Events BY <1>2, <1>3, <1>6, <1>7
\* An event of other turns is a message that was cached, and so was one of the page's.
<1>11. ASSUME NEW e \in S, TurnOf(e) \notin page.turns
       PROVE  e \in M /\ M # {}
  BY <1>5, <1>7, <1>11 DEF Messages
<1> HIDE DEF hi, M, S
<1>12. \A t \in Nat : (t \in page.turns <=> page.next < t /\ t <= hi) BY <1>4
\* A message of the page's turns before any event that is there is in the page.
<1>13. ASSUME NEW i \in Events, NEW e \in S, i <= e, ~IsTool(i), TurnOf(i) \in page.turns
       PROVE  i \in S
  <2>1. i \in Said /\ i \in Nat /\ e \in Nat BY <1>2, <1>10, <1>13
  <2>2. CASE e \in page.events
    <3>1. e <= n BY <1>2, <1>5, <2>2
    <3>2. i \in 1 .. n BY <1>2, <1>13, <2>1, <3>1
    <3> QED BY <1>5, <1>13, <3>2 DEF S
  <2>3. CASE e \in Kept(page) /\ i < e BY <1>7, <1>13, <2>1, <2>3 DEF S
  <2>4. CASE i = e BY <1>13, <2>4
  <2> QED BY <1>13, <2>1, <2>2, <2>3, <2>4 DEF S
\* A cached message before the turns of the page, or after them, has stayed.
<1>14. ASSUME NEW j \in Events, ~IsTool(j), TurnOf(j) <= page.next, M # {},
              (\E a \in M : a < j) \/ (cache.older /\ TurnOf(j) > cache.next)
       PROVE  j \in S
  <2>1. PICK p \in M : TurnOf(p) \in page.turns BY <1>7, <1>14
  <2>2. p \in Events /\ TurnOf(j) \in Nat /\ TurnOf(p) \in Nat BY <1>2, <1>3, TurnsInOrder
  <2>3. TurnOf(j) < TurnOf(p) /\ TurnOf(j) \notin page.turns
    BY <1>4, <1>12, <1>14, <2>1, <2>2
  <2>4. j < p /\ j \in Nat /\ p \in Nat BY <1>2, <2>2, <2>3, TurnsInOrder
  <2>5. j \in M BY <1>8, <1>14, <2>1, <2>4 DEF Dense, Reaches
  <2> QED BY <1>7, <2>3, <2>5 DEF S
<1>15. ASSUME NEW j \in Events, ~IsTool(j), TurnOf(j) > hi, NEW b \in S, j <= b
       PROVE  j \in S
  <2>1. b \in Events BY <1>10
  <2>2. j \in Nat /\ b \in Nat /\ TurnOf(j) \in Nat /\ TurnOf(b) \in Nat /\ TurnOf(j) <= TurnOf(b)
    BY <1>2, <1>15, <2>1, TurnsInOrder
  <2>3. TurnOf(b) \notin page.turns /\ TurnOf(j) \notin page.turns
    BY <1>4, <1>12, <1>15, <2>2
  <2>4. b \in M /\ M # {} BY <1>11, <2>3
  <2>5. PICK p \in M : TurnOf(p) \in page.turns BY <1>7, <2>4
  <2>6. p \in Events /\ TurnOf(p) \in Nat BY <1>2, <1>3, TurnsInOrder
  <2>7. TurnOf(p) < TurnOf(j) BY <1>4, <1>12, <1>15, <2>2, <2>5, <2>6
  <2>8. p < j BY <1>2, <2>6, <2>7, TurnsInOrder
  <2>9. CASE j = b BY <2>9
  <2>10. CASE j < b
    <3>1. j \in M BY <1>8, <1>15, <2>4, <2>5, <2>8, <2>10 DEF Dense
    <3> QED BY <1>7, <2>3, <3>1 DEF S
  <2> QED BY <1>15, <2>2, <2>9, <2>10
<1>16. Dense(S)
  <2> SUFFICES ASSUME NEW a \in S, NEW b \in S, NEW j \in Events, a < j, j < b, ~IsTool(j)
               PROVE  j \in S
    BY DEF Dense
  <2>1. a \in Events /\ b \in Events BY <1>10
  <2>2. /\ a \in Nat /\ b \in Nat /\ j \in Nat /\ TurnOf(j) \in Nat /\ TurnOf(a) \in Nat
        /\ TurnOf(a) <= TurnOf(j) /\ j <= b
    BY <1>2, <2>1, TurnsInOrder
  <2>3. CASE TurnOf(j) \in page.turns BY <1>13, <2>2, <2>3
  <2>4. CASE TurnOf(j) <= page.next
    <3>1. TurnOf(a) \notin page.turns BY <1>4, <1>12, <2>2, <2>4
    <3>2. a \in M /\ M # {} BY <1>11, <3>1
    <3> QED BY <1>14, <2>4, <3>2
  <2>5. CASE TurnOf(j) > hi BY <1>15, <2>2, <2>5
  <2> QED BY <1>4, <1>12, <2>2, <2>3, <2>4, <2>5
<1>17. Reaches(S, next)
  <2> SUFFICES ASSUME NEW e \in S, NEW i \in Events, i <= e, ~IsTool(i), TurnOf(i) > next
               PROVE  i \in S
    BY DEF Reaches
  <2>1. TurnOf(i) \in Nat BY <1>2, TurnsInOrder
  <2>2. CASE TurnOf(i) \in page.turns BY <1>13, <2>2
  <2>3. CASE TurnOf(i) <= page.next
    <3>1. cache.older /\ TurnOf(i) > cache.next BY <1>3, <1>4, <2>1, <2>3
    <3> QED BY <1>9, <1>14, <2>3, <3>1
  <2>4. CASE TurnOf(i) > hi BY <1>15, <2>4
  <2> QED BY <1>4, <1>12, <2>1, <2>2, <2>3, <2>4
<1>18. \E m \in S : ~IsTool(m) /\ TurnOf(m) > next
  <2>1. PICK q \in Events : q <= n /\ TurnOf(q) = hi /\ ~IsTool(q)
    BY <1>2, ScriptFacts DEF hi
  <2>2. q \in 1 .. n /\ TurnOf(q) \in page.turns
    <3>1. Events = 1 .. Len(script.items) BY <1>2, ScriptFacts
    <3>2. q \in 1 .. n BY <1>2, <2>1, <3>1
    <3>3. hi \in page.turns BY <1>4
    <3> QED BY <2>1, <3>2, <3>3
  <2>3. q \in S BY <1>5, <2>1, <2>2 DEF S
  <2>4. CASE ~cache.older BY <1>4, <2>1, <2>3, <2>4
  <2>5. CASE cache.older
    <3>1. PICK h \in M : TurnOf(h) > cache.next BY <1>8, <1>9, <2>5
    <3>2. h \in Events /\ ~IsTool(h) /\ TurnOf(h) \in Nat BY <1>2, <1>3, TurnsInOrder
    <3>3. CASE TurnOf(h) \notin page.turns BY <1>7, <2>5, <3>1, <3>2, <3>3 DEF S
    <3>4. CASE TurnOf(h) \in page.turns
      <4>1. hi > cache.next BY <1>3, <1>4, <1>12, <3>1, <3>2, <3>4
      <4> QED BY <2>1, <2>3, <2>5, <4>1
    <3> QED BY <3>3, <3>4
  <2> QED BY <2>4, <2>5
<1> QED BY <1>1, <1>16, <1>17, <1>18 DEF Whole

\* It stays whole when the turns before its cursor are fetched.
LEMMA FetchIsWhole ==
  ASSUME WalkTypes, Whole(cache.events, cache.next), cache.next # 0,
         DOMAIN cache = {"events", "running", "next", "older"}
  PROVE  Whole(Fetched(Page(cache.next)).events, Fetched(Page(cache.next)).next)
<1> DEFINE page == Page(cache.next)
           S == cache.events \cup page.events
<1>1. Fetched(page).events = S /\ Fetched(page).next = page.next
  BY DEF Fetched, MergedWith
<1>2. /\ script \in Scripts /\ Said \subseteq Events /\ Events \subseteq Nat
      /\ \A e \in Said, i \in Events : i <= e => i \in Said
      /\ Said = 1 .. codex.items
  BY SaidFacts
<1>3. cache.events \subseteq Said /\ cache.next \in Nat BY DEF WalkTypes
<1>4. Lists(page, cache.next, codex.items) /\ page.next < cache.next BY <1>3, PageLists
<1> HIDE DEF page
<1>5. page.next \in Nat /\ page.turns = (page.next + 1) .. cache.next BY <1>4 DEF Lists
<1>6. /\ \A e \in page.events : e \in Said /\ TurnOf(e) \in page.turns
      /\ \A i \in Said : ~IsTool(i) /\ TurnOf(i) \in page.turns => i \in page.events
  BY <1>2, <1>4 DEF Lists
<1>7. \A t \in Nat : (t \in page.turns <=> page.next < t /\ t <= cache.next) BY <1>3, <1>5
<1>8. S \subseteq Said BY <1>3, <1>6
<1>9. PICK t \in cache.events : ~IsTool(t) /\ TurnOf(t) > cache.next BY DEF Whole
<1>10. Dense(cache.events) /\ Reaches(cache.events, cache.next) BY DEF Whole
<1> HIDE DEF S
<1>11. Reaches(S, page.next)
  <2> SUFFICES ASSUME NEW e \in S, NEW i \in Events, i <= e, ~IsTool(i), TurnOf(i) > page.next
               PROVE  i \in S
    BY DEF Reaches
  <2>1. e \in Events /\ e \in Said /\ i \in Said BY <1>2, <1>8
  <2>2. TurnOf(i) \in Nat /\ TurnOf(e) \in Nat /\ TurnOf(i) <= TurnOf(e)
    BY <1>2, <2>1, TurnsInOrder
  <2>3. CASE TurnOf(i) <= cache.next BY <1>6, <1>7, <2>1, <2>2, <2>3 DEF S
  <2>4. CASE TurnOf(i) > cache.next
    <3>1. TurnOf(e) \notin page.turns BY <1>3, <1>7, <2>2, <2>4
    <3>2. e \in cache.events BY <1>6, <3>1 DEF S
    <3> QED BY <1>10, <2>4, <3>2 DEF Reaches, S
  <2> QED BY <1>3, <2>2, <2>3, <2>4
<1>12. Dense(S)
  <2> SUFFICES ASSUME NEW a \in S, NEW b \in S, NEW j \in Events, a < j, j < b, ~IsTool(j)
               PROVE  j \in S
    BY DEF Dense
  <2>1. a \in Events /\ b \in Events /\ t \in Events BY <1>2, <1>3, <1>8
  <2>2. /\ TurnOf(j) \in Nat /\ TurnOf(a) \in Nat /\ TurnOf(t) \in Nat
        /\ TurnOf(a) <= TurnOf(j) /\ j <= b
    BY <1>2, <2>1, TurnsInOrder
  <2>3. CASE TurnOf(j) > page.next BY <1>11, <2>2, <2>3 DEF Reaches
  <2>4. CASE TurnOf(j) <= page.next
    <3>1. TurnOf(a) \notin page.turns BY <1>5, <1>7, <2>2, <2>4
    <3>2. a \in cache.events BY <1>6, <3>1 DEF S
    <3>3. TurnOf(j) < TurnOf(t) BY <1>3, <1>4, <1>5, <1>9, <2>2, <2>4
    <3>4. j < t BY <1>2, <2>1, <3>3, TurnsInOrder
    <3> QED BY <1>10, <3>2, <3>4 DEF Dense, S
  <2> QED BY <1>5, <2>2, <2>3, <2>4
<1>13. t \in S /\ TurnOf(t) > page.next
  <2>1. TurnOf(t) \in Nat BY <1>2, <1>3, TurnsInOrder
  <2> QED BY <1>3, <1>4, <1>5, <1>9, <2>1 DEF S
<1> QED BY <1>1, <1>9, <1>11, <1>12, <1>13 DEF Whole, page

-----------------------------------------------------------------------------
\* A smaller set of events has no more members.
LEMMA Fewer ==
  ASSUME NEW n \in Nat, NEW S, S \subseteq 1 .. n, NEW T, T \subseteq S
  PROVE  Cardinality(T) \in Nat /\ Cardinality(S) \in Nat /\ Cardinality(T) <= Cardinality(S)
<1>1. IsFiniteSet(1 .. n) BY FS_Interval
<1>2. IsFiniteSet(S) BY <1>1, FS_Subset
<1>3. IsFiniteSet(T) /\ Cardinality(T) <= Cardinality(S) BY <1>2, FS_Subset
<1> QED BY <1>2, <1>3, FS_CardinalityType

\* The latest events, up to the last one.
LEMMA LatestWindow ==
  ASSUME NEW n \in Nat, NEW S, S \subseteq 1 .. n, NEW limit \in Nat \ {0}
  PROVE  /\ Latest(S, limit) \subseteq S
         /\ \A x \in Latest(S, limit), y \in S : x <= y => y \in Latest(S, limit)
         /\ S # {} => Latest(S, limit) # {}
<1> DEFINE From(x) == {y \in S : y >= x}
<1>0. \A x \in S : x \in Nat /\ x <= n /\ x \in 1 .. n OBVIOUS
<1>1. ASSUME NEW x \in Latest(S, limit), NEW y \in S, x <= y
      PROVE  y \in Latest(S, limit)
  <2>1. x \in S /\ Cardinality(From(x)) <= limit BY DEF Latest
  <2>2. From(x) \subseteq 1 .. n /\ From(y) \subseteq From(x)
    <3>1. x \in Nat /\ y \in Nat BY <1>0, <1>1, <2>1
    <3>2. \A z \in From(y) : z \in S /\ z \in Nat BY <1>0
    <3>3. ASSUME NEW z \in From(y) PROVE z \in From(x) BY <1>1, <3>1, <3>2, <3>3
    <3>4. From(x) \subseteq S OBVIOUS
    <3> QED BY <3>3, <3>4
  <2>3. Cardinality(From(y)) \in Nat /\ Cardinality(From(x)) \in Nat
        /\ Cardinality(From(y)) <= Cardinality(From(x))
    BY <2>2, Fewer
  <2> QED BY <2>1, <2>3 DEF Latest
<1>2. ASSUME S # {}
      PROVE  Latest(S, limit) # {}
  <2>1. S \in SUBSET Nat /\ \A x \in S : x <= n BY <1>0
  <2>2. PICK m \in S : \A x \in S : x <= m BY <1>2, <2>1, LargestNatural
  <2>3. From(m) = {m}
    <3>1. ASSUME NEW y \in S, y >= m PROVE y = m
      <4>1. y <= m /\ y \in Nat /\ m \in Nat BY <1>0, <2>2
      <4> QED BY <3>1, <4>1
    <3>2. m >= m BY <1>0
    <3> QED BY <3>1, <3>2
  <2>4. Cardinality(From(m)) = 1 BY <2>3, FS_Singleton
  <2>5. m \in Latest(S, limit) BY <2>4 DEF Latest
  <2> QED BY <2>5
<1> QED BY <1>1, <1>2 DEF Latest

\* The events before a cursor, up to the one before it.
LEMMA BeforeWindow ==
  ASSUME NEW n \in Nat, NEW S, S \subseteq 1 .. n, NEW limit \in Nat \ {0}, NEW cursor \in Nat
  PROVE  /\ Before(S, cursor, limit) \subseteq S
         /\ \A x \in Before(S, cursor, limit) : x < cursor
         /\ \A x \in Before(S, cursor, limit), y \in S :
              x <= y /\ y < cursor => y \in Before(S, cursor, limit)
         /\ Before(S, cursor, limit) = {} => \A x \in S : ~(x < cursor)
<1> DEFINE From(x) == {y \in S : x <= y /\ y < cursor}
<1>0. \A x \in S : x \in Nat /\ x <= n /\ x \in 1 .. n OBVIOUS
<1>1. ASSUME NEW x \in Before(S, cursor, limit), NEW y \in S, x <= y, y < cursor
      PROVE  y \in Before(S, cursor, limit)
  <2>1. x \in S /\ Cardinality(From(x)) <= limit BY DEF Before
  <2>2. From(x) \subseteq 1 .. n /\ From(y) \subseteq From(x)
    <3>1. x \in Nat /\ y \in Nat BY <1>0, <1>1, <2>1
    <3>2. \A z \in From(y) : z \in S /\ z \in Nat BY <1>0
    <3>3. ASSUME NEW z \in From(y) PROVE z \in From(x) BY <1>1, <3>1, <3>2, <3>3
    <3>4. From(x) \subseteq S OBVIOUS
    <3> QED BY <3>3, <3>4
  <2>3. Cardinality(From(y)) \in Nat /\ Cardinality(From(x)) \in Nat
        /\ Cardinality(From(y)) <= Cardinality(From(x))
    BY <2>2, Fewer
  <2> QED BY <1>1, <2>1, <2>3 DEF Before
<1>2. ASSUME NEW z \in S, z < cursor
      PROVE  Before(S, cursor, limit) # {}
  <2> DEFINE T == {x \in S : x < cursor}
  <2>1. T \in SUBSET Nat /\ T # {} /\ \A x \in T : x <= n BY <1>0, <1>2
  <2>2. PICK m \in T : \A x \in T : x <= m BY <2>1, LargestNatural
  <2>3. From(m) = {m} BY <1>0, <2>1, <2>2
  <2>4. Cardinality(From(m)) = 1 BY <2>3, FS_Singleton
  <2>5. m \in Before(S, cursor, limit) BY <2>2, <2>4 DEF Before
  <2> QED BY <2>5
<1> QED BY <1>1, <1>2 DEF Before

\* The events from a cursor on, the cursor's first.
LEMMA SinceWindow ==
  ASSUME NEW n \in Nat, NEW S, S \subseteq 1 .. n, NEW limit \in Nat \ {0}, NEW cursor \in S
  PROVE  /\ Since(S, cursor, limit) \subseteq S
         /\ \A x \in Since(S, cursor, limit) : cursor <= x
         /\ \A x \in Since(S, cursor, limit), y \in S :
              y <= x /\ cursor <= y => y \in Since(S, cursor, limit)
         /\ cursor \in Since(S, cursor, limit)
<1> DEFINE To(x) == {y \in S : cursor <= y /\ y <= x}
           most == IF limit > 2 THEN limit ELSE 2
<1>0. \A x \in S : x \in Nat /\ x <= n /\ x \in 1 .. n OBVIOUS
<1>1. ASSUME NEW x \in Since(S, cursor, limit), NEW y \in S, y <= x, cursor <= y
      PROVE  y \in Since(S, cursor, limit)
  <2>1. x \in S /\ Cardinality(To(x)) <= most BY DEF Since
  <2>2. To(x) \subseteq 1 .. n /\ To(y) \subseteq To(x)
    <3>1. x \in Nat /\ y \in Nat BY <1>0, <1>1, <2>1
    <3>2. \A z \in To(y) : z \in S /\ z \in Nat BY <1>0
    <3>3. ASSUME NEW z \in To(y) PROVE z \in To(x) BY <1>1, <3>1, <3>2, <3>3
    <3>4. To(x) \subseteq S OBVIOUS
    <3> QED BY <3>3, <3>4
  <2>3. Cardinality(To(y)) \in Nat /\ Cardinality(To(x)) \in Nat
        /\ Cardinality(To(y)) <= Cardinality(To(x))
    BY <2>2, Fewer
  <2>4. most \in Nat OBVIOUS
  <2>5. Cardinality(To(y)) <= most BY <2>1, <2>3, <2>4
  <2> QED BY <1>1, <2>5 DEF Since
<1>2. cursor \in Since(S, cursor, limit)
  <2>1. To(cursor) = {cursor}
    <3>1. ASSUME NEW y \in S, cursor <= y, y <= cursor PROVE y = cursor
      <4>1. y \in Nat /\ cursor \in Nat BY <1>0
      <4> QED BY <3>1, <4>1
    <3>2. cursor <= cursor BY <1>0
    <3> QED BY <3>1, <3>2
  <2>2. Cardinality(To(cursor)) = 1 BY <2>1, FS_Singleton
  <2>3. Cardinality(To(cursor)) <= most BY <2>2
  <2> QED BY <2>3 DEF Since
<1> QED BY <1>1, <1>2 DEF Since

\* Whatever is asked for, an answer has all the events between its first and its last.
LEMMA WindowIsConvex ==
  ASSUME NEW n \in Nat, NEW S, S \subseteq 1 .. n, NEW ask, ask.cursor \in Nat
  PROVE  /\ Window(S, ask) \subseteq S
         /\ \A a, b \in Window(S, ask), x \in S : a <= x /\ x <= b => x \in Window(S, ask)
         /\ S # {} /\ ~(ask.by = "before" /\ ask.cursor \in S) => Window(S, ask) # {}
<1>0. OlderLimit \in Nat \ {0} /\ SinceLimit \in Nat \ {0} BY HistoryAssumption
<1>4. \A x \in S : x \in Nat OBVIOUS
<1>1. CASE ask.by = "latest" \/ ask.cursor \notin S
  <2>1. PICK limit \in Nat \ {0} : Window(S, ask) = Latest(S, limit)
    BY <1>0, <1>1 DEF Window
  <2>2. /\ Latest(S, limit) \subseteq S
        /\ \A x \in Latest(S, limit), y \in S : x <= y => y \in Latest(S, limit)
        /\ S # {} => Latest(S, limit) # {}
    BY LatestWindow
  <2> QED BY <1>1, <1>4, <2>1, <2>2 
<1>2. CASE ask.by = "before" /\ ask.cursor \in S
  <2>1. Window(S, ask) = Before(S, ask.cursor, OlderLimit) BY <1>2 DEF Window
  <2>2. /\ Before(S, ask.cursor, OlderLimit) \subseteq S
        /\ \A x \in Before(S, ask.cursor, OlderLimit) : x < ask.cursor
        /\ \A x \in Before(S, ask.cursor, OlderLimit), y \in S :
             x <= y /\ y < ask.cursor => y \in Before(S, ask.cursor, OlderLimit)
    BY <1>0, BeforeWindow
  <2>3. ASSUME NEW a \in Window(S, ask), NEW b \in Window(S, ask), NEW x \in S, a <= x, x <= b
        PROVE  x \in Window(S, ask)
    <3>1. x \in Nat /\ b \in Nat /\ b < ask.cursor BY <1>4, <2>1, <2>2, <2>3
    <3>2. x < ask.cursor BY <2>3, <3>1
    <3> QED BY <2>1, <2>2, <2>3, <3>2
  <2> QED BY <1>2, <2>1, <2>2, <2>3
<1>3. CASE ask.by # "latest" /\ ask.by # "before" /\ ask.cursor \in S
  <2>1. Window(S, ask) = Since(S, ask.cursor, SinceLimit) BY <1>3 DEF Window
  <2>2. /\ Since(S, ask.cursor, SinceLimit) \subseteq S
        /\ \A x \in Since(S, ask.cursor, SinceLimit) : ask.cursor <= x
        /\ \A x \in Since(S, ask.cursor, SinceLimit), y \in S :
             y <= x /\ ask.cursor <= y => y \in Since(S, ask.cursor, SinceLimit)
        /\ ask.cursor \in Since(S, ask.cursor, SinceLimit)
    BY <1>0, <1>3, SinceWindow
  <2>3. ASSUME NEW a \in Window(S, ask), NEW b \in Window(S, ask), NEW x \in S, a <= x, x <= b
        PROVE  x \in Window(S, ask)
    <3>1. x \in Nat /\ a \in Nat /\ ask.cursor <= a BY <1>4, <2>1, <2>2, <2>3
    <3>2. ask.cursor <= x BY <2>3, <3>1
    <3> QED BY <2>1, <2>2, <2>3, <3>2
  <2> QED BY <2>1, <2>2, <2>3
<1> QED BY <1>1, <1>2, <1>3

\* An answer from a whole cache is whole, unless the request has spent its pages.
LEMMA PaginatedIsWhole ==
  ASSUME WalkTypes, Whole(cache.events, cache.next),
         NEW ask, ask.cursor \in Nat, ~Spent(ask)
  PROVE  AnswerIsWhole(ask, Paginated(ask))
<1> DEFINE S == cache.events
           W == Window(S, ask)
           page == Paginated(ask)
<1>1. /\ page.events = W /\ page.before = Lowest(W) /\ page.after = Highest(W)
      /\ page.reset <=> ask.by # "latest" /\ ask.cursor \notin S
  BY DEF Paginated
<1>2. page.more <=> (\E x \in S : W # {} /\ x < Min(W)) \/ (cache.next # 0 /\ Lowest(W) = Lowest(S))
  BY DEF Paginated
<1>3. /\ script \in Scripts /\ Events \subseteq Nat /\ Said \subseteq Events
      /\ codex.items \in Nat /\ Said = 1 .. codex.items
  BY SaidFacts
<1>4. S \subseteq 1 .. codex.items /\ cache.next \in Nat BY <1>3 DEF WalkTypes
<1>5. /\ Dense(S) /\ Reaches(S, cache.next) /\ S # {} BY DEF Whole
<1>6. /\ W \subseteq S
      /\ \A a, b \in W, x \in S : a <= x /\ x <= b => x \in W
      /\ ~(ask.by = "before" /\ ask.cursor \in S) => W # {}
  BY <1>3, <1>4, <1>5, WindowIsConvex
<1>7. /\ W = {} => Lowest(W) = 0 /\ Highest(W) = 0
      /\ W # {} => /\ Lowest(W) \in W /\ \A x \in W : Lowest(W) <= x
                   /\ Highest(W) \in W /\ \A x \in W : x <= Highest(W)
  BY <1>3, <1>4, <1>6, Bounds DEF NoEvent
<1>8. Lowest(S) \in S /\ \A x \in S : Lowest(S) <= x BY <1>3, <1>4, <1>5, Bounds
<1>9. W # {} => Lowest(W) = Min(W) BY DEF Lowest
<1>10. \A x \in S : x \in Nat \ {0} /\ x \in Events BY <1>3, <1>4
<1>11. page.before \in Nat /\ page.after \in Nat
       /\ (page.before = NoEvent <=> W = {}) /\ (page.before # NoEvent => page.after # NoEvent)
  BY <1>1, <1>6, <1>7, <1>10 DEF NoEvent
<1> HIDE DEF S, W, page
<1>12. page.before = NoEvent => ask.by = "before" /\ ~page.reset BY <1>1, <1>6, <1>11
<1>13. ASSUME page.before # NoEvent, NEW i \in Events, ~IsTool(i), page.before <= i, i <= page.after
       PROVE  i \in page.events
  <2>1. page.before \in W /\ page.after \in W BY <1>1, <1>7, <1>11, <1>13
  <2>2. i \in S BY <1>3, <1>5, <1>6, <1>11, <1>13, <2>1 DEF Dense
  <2> QED BY <1>1, <1>6, <1>13, <2>1, <2>2
<1>14. ASSUME ask.by = "since", ~page.reset
       PROVE  page.before = ask.cursor
  <2>1. ask.cursor \in S BY <1>1, <1>14
  <2>2. W = Since(S, ask.cursor, SinceLimit) BY <1>14, <2>1 DEF Window, W
  <2>3. SinceLimit \in Nat \ {0} BY HistoryAssumption
  <2>4. (\A x \in W : ask.cursor <= x) /\ ask.cursor \in W
    BY <1>3, <1>4, <2>1, <2>2, <2>3, SinceWindow DEF S
  <2>5. Lowest(W) = ask.cursor BY <1>6, <1>7, <1>10, <2>4
  <2> QED BY <1>1, <2>5
<1>15. ASSUME ask.by = "before", ~page.reset
       PROVE  /\ ask.cursor \in S
              /\ \A x \in W, y \in S : x <= y /\ y < ask.cursor => y \in W
              /\ \A x \in W : x < ask.cursor
              /\ W = {} => \A x \in S : ~(x < ask.cursor)
  <2>1. ask.cursor \in S BY <1>1, <1>15
  <2>2. W = Before(S, ask.cursor, OlderLimit) BY <1>15, <2>1 DEF Window, W
  <2>3. OlderLimit \in Nat \ {0} BY HistoryAssumption
  <2> QED BY <1>3, <1>4, <2>1, <2>2, <2>3, BeforeWindow DEF S
<1>16. ASSUME ask.by = "before", ~page.reset, page.before # NoEvent,
              NEW i \in Events, ~IsTool(i), page.before <= i, i < ask.cursor
       PROVE  i \in page.events
  <2>1. page.before \in W /\ ask.cursor \in S BY <1>1, <1>7, <1>11, <1>15, <1>16
  <2>2. i \in S BY <1>3, <1>5, <1>6, <1>11, <1>16, <2>1 DEF Dense
  <2> QED BY <1>1, <1>15, <1>16, <2>1, <2>2
<1>17. ASSUME ~page.more, NEW i \in Events,
              i < (IF page.before = NoEvent THEN ask.cursor ELSE page.before)
       PROVE  IsTool(i)
  <2> SUFFICES ASSUME ~IsTool(i) PROVE FALSE OBVIOUS
  <2>0. TurnOf(i) > 0 /\ i \in Nat
    <3>1. TurnOf(i) \in Nat \ {0} /\ i \in Nat BY <1>3, TurnsInOrder
    <3> QED BY <3>1
  <2>1. CASE W # {}
    <3>1. page.before \in W /\ page.before \in S /\ page.before = Min(W) /\ i < page.before
      BY <1>1, <1>6, <1>7, <1>9, <1>11, <1>17, <2>1
    <3>2. \A x \in S : ~(x < page.before) BY <1>2, <1>17, <2>1, <3>1
    <3>3. Lowest(S) = Lowest(W) BY <1>1, <1>8, <1>10, <3>1, <3>2
    <3>4. cache.next = 0 BY <1>2, <1>17, <3>3
    <3>5. i <= page.before BY <1>10, <2>0, <3>1
    <3>6. i \in S BY <1>5, <2>0, <3>1, <3>4, <3>5 DEF Reaches
    <3> QED BY <3>1, <3>2, <3>6
  <2>2. CASE W = {}
    <3>1. ask.by = "before" /\ ~page.reset /\ i < ask.cursor BY <1>11, <1>12, <1>17, <2>2
    <3>2. ask.cursor \in S /\ \A x \in S : ~(x < ask.cursor) BY <1>15, <2>2, <3>1
    <3>3. cache.next = 0 BY <2>2, <3>1, <3>2 DEF Spent, W, S
    <3>4. i <= ask.cursor BY <2>0, <3>1
    <3>5. i \in S BY <1>5, <2>0, <3>2, <3>3, <3>4 DEF Reaches
    <3> QED BY <3>1, <3>2, <3>5
  <2> QED BY <2>1, <2>2
<1> QED BY <1>11, <1>12, <1>13, <1>14, <1>16, <1>17 DEF AnswerIsWhole, page

-----------------------------------------------------------------------------
\* A page that was the first stays one as the thread goes on.
LEMMA FirstPageStays ==
  ASSUME UNCHANGED script, NEW s \in Slots, req'[s] = req[s], Said \subseteq Said',
         RequestTypes(s)
  PROVE  RequestTypes(s)'
<1>1. CASE req[s].pc = "fetched"
  <2>1. PICK n \in Said : FirstPage(req[s].page, n) BY <1>1 DEF RequestTypes
  <2>2. FirstPage(req[s].page, n)' BY <2>1 DEF FirstPage, Lists, TurnOf, IsTool
  <2> QED BY <1>1, <2>1, <2>2 DEF RequestTypes, Quiet
<1> QED BY <1>1 DEF RequestTypes, Quiet

LEMMA NewsIsTold ==
  ASSUME WalkTypes, UNCHANGED script, Said \subseteq Said',
         NEW item \in Nat, NEW how \in {"started", "completed"}, item \in Said', Tell(item, how)
  PROVE  NewsAreTools'
<1> DEFINE Note == [item : Nat, how : {"started", "completed"}]
           note == [item |-> item, how |-> how]
<1>1. /\ news \in Seq(Note)
      /\ \A k \in 1 .. Len(news) : news[k].item \in Said /\ IsTool(news[k].item)
  BY DEF WalkTypes, NewsAreTools
<1>2. CASE UNCHANGED news BY <1>1, <1>2 DEF NewsAreTools, IsTool
<1>3. CASE IsTool(item) /\ news' = Append(news, note)
  <2>1. note \in Note /\ note.item = item OBVIOUS
  <2> HIDE DEF note, Note
  <2>2. /\ news' \in Seq(Note) /\ Len(news') = Len(news) + 1 /\ Len(news) \in Nat
        /\ \A k \in 1 .. Len(news') : news'[k] = IF k = Len(news) + 1 THEN note ELSE news[k]
    BY <1>1, <1>3, <2>1
  <2>3. ASSUME NEW k \in 1 .. Len(news')
        PROVE  news'[k].item \in Said' /\ script'.items[news'[k].item].tool
    <3>1. k \in 1 .. Len(news) \/ k = Len(news) + 1 BY <2>2
    <3>2. CASE k \in 1 .. Len(news)
      <4>1. news'[k] = news[k] /\ news[k].item \in Said /\ IsTool(news[k].item)
        BY <1>1, <2>2, <3>2
      <4> QED BY <4>1 DEF IsTool
    <3>3. CASE k = Len(news) + 1
      <4>1. news'[k] = note BY <2>2, <3>3
      <4> QED BY <1>3, <2>1, <4>1 DEF IsTool
    <3> QED BY <3>1, <3>2, <3>3
  <2> QED BY <2>2, <2>3 DEF Note, NewsAreTools, IsTool
<1> QED BY <1>2, <1>3 DEF Tell

LEMMA CodexKeepsTypes ==
  ASSUME WalkTypes, HistoryInv, CodexStep
  PROVE  /\ WalkTypes' /\ UNCHANGED <<script, cache, req, phone>>
         /\ marks'.gap = marks.gap /\ marks'.spent = marks.spent /\ marks'.crossed = marks.crossed
<1>1. /\ script \in Scripts /\ Said \subseteq Events /\ Events \subseteq Nat
      /\ codex.items \in Nat /\ Said = 1 .. codex.items /\ codex.items \in Said
  BY SaidFacts
<1>2. Events = 1 .. Len(script.items) /\ Len(script.items) \in Nat BY <1>1, ScriptFacts
<1>3. DOMAIN codex = {"items", "done", "settled"} BY DEF HistoryInv, CodexInv
<1>4. ASSUME UNCHANGED <<script, cache, phone, req>>, codex'.items \in Events,
             codex'.items >= codex.items, Moves, NewsAreTools'
      PROVE  /\ WalkTypes' /\ UNCHANGED <<script, cache, req, phone>>
             /\ marks'.gap = marks.gap /\ marks'.spent = marks.spent
             /\ marks'.crossed = marks.crossed
  <2>1. Said \subseteq Said' BY <1>1, <1>2, <1>4 DEF Said
  <2>2. \A s \in Slots : RequestTypes(s)' BY <1>4, <2>1, FirstPageStays DEF WalkTypes
  <2>3. /\ DOMAIN marks' = {"still", "gap", "spent", "crossed"}
        /\ marks'.gap = marks.gap /\ marks'.spent = marks.spent /\ marks'.crossed = marks.crossed
    BY <1>4 DEF Moves, WalkTypes
  <2> QED BY <1>4, <2>1, <2>2, <2>3 DEF WalkTypes, Events
<1>5. CASE NextItem
  <2>1. /\ codex.items < Len(script.items) /\ codex'.items = codex.items + 1
        /\ Tell(codex.items + 1, "started") /\ Moves /\ UNCHANGED <<script, cache, phone, req>>
    BY <1>3, <1>5 DEF NextItem, codexOthers
  <2>2. Said \subseteq Said' /\ codex.items + 1 \in Said' /\ codex'.items \in Events
        /\ codex.items + 1 \in Nat /\ codex'.items >= codex.items
    BY <1>1, <1>2, <2>1 DEF Said
  <2> QED BY <1>4, <2>1, <2>2, NewsIsTold
<1>6. ASSUME NEW item \in Said, ToolSettles(item)
      PROVE  codex'.items = codex.items /\ Tell(item, "completed") /\ Moves
             /\ UNCHANGED <<script, cache, phone, req>>
  BY <1>3, <1>6 DEF ToolSettles, codexOthers
<1>7. ASSUME NEW item \in Said, ToolSettles(item)
      PROVE  /\ WalkTypes' /\ UNCHANGED <<script, cache, req, phone>>
             /\ marks'.gap = marks.gap /\ marks'.spent = marks.spent
             /\ marks'.crossed = marks.crossed
  <2>1. codex'.items = codex.items /\ Tell(item, "completed") /\ Moves
        /\ UNCHANGED <<script, cache, phone, req>>
    BY <1>6, <1>7
  <2>2. Said \subseteq Said' /\ item \in Said' /\ item \in Nat /\ codex'.items \in Events
        /\ codex'.items >= codex.items
    BY <1>1, <2>1 DEF Said
  <2> QED BY <1>4, <2>1, <2>2, NewsIsTold
<1>8. CASE TurnEnds
  <2>1. /\ codex'.items = codex.items /\ Moves /\ UNCHANGED <<script, cache, phone, req, news>>
    BY <1>3, <1>8 DEF TurnEnds, codexOthers
  <2>2. codex'.items \in Events /\ codex'.items >= codex.items /\ Said' = Said
    BY <1>1, <2>1 DEF Said
  <2>3. NewsAreTools' BY <2>1, <2>2 DEF WalkTypes, NewsAreTools, IsTool
  <2> QED BY <1>4, <2>1, <2>2, <2>3
<1> QED BY <1>5, <1>7, <1>8 DEF CodexStep

\* Whoever leaves Codex, its notifications and the phone alone keeps the types, if the
\* cache holds what was said and the request that moves is as it should be.
LEMMA BridgeKeepsTypes ==
  ASSUME WalkTypes, UNCHANGED <<script, codex>>,
         \/ UNCHANGED news \/ news' = << >>
         \/ news # << >> /\ news' = Tail(news),
         cache'.events \subseteq Said, cache'.next \in Nat,
         DOMAIN phone' = DOMAIN phone, phone'.before \in Nat, phone'.after \in Nat,
         DOMAIN marks' = DOMAIN marks,
         \A s \in Slots : req'[s] = req[s] \/ RequestTypes(s)'
  PROVE  WalkTypes'
<1>1. Said' = Said /\ Events' = Events BY DEF Said, Events
<1>2. \A s \in Slots : RequestTypes(s)' BY <1>1, FirstPageStays DEF WalkTypes
<1>3. NewsAreTools'
  <2>1. CASE UNCHANGED news BY <1>1, <2>1 DEF WalkTypes, NewsAreTools, IsTool
  <2>2. CASE news' = << >> BY <2>2 DEF NewsAreTools
  <2>3. CASE news # << >> /\ news' = Tail(news)
    <3> DEFINE Note == [item : Nat, how : {"started", "completed"}]
    <3>1. /\ news \in Seq(Note)
          /\ \A k \in 1 .. Len(news) : news[k].item \in Said /\ IsTool(news[k].item)
      BY DEF WalkTypes, NewsAreTools
    <3> HIDE DEF Note
    <3>2. /\ news' \in Seq(Note) /\ Len(news') = Len(news) - 1 /\ Len(news) \in Nat
          /\ \A k \in 1 .. Len(news') : news'[k] = news[k + 1] /\ k + 1 \in 1 .. Len(news)
      BY <2>3, <3>1
    <3> QED BY <1>1, <3>1, <3>2 DEF NewsAreTools, IsTool, Note
  <2> QED BY <2>1, <2>2, <2>3
<1> QED BY <1>1, <1>2, <1>3 DEF WalkTypes

\* The types at the steps of the Bridge.
LEMMA NotifiedKeepsTypes ==
  ASSUME WalkTypes, HistoryInv, Notified
  PROVE  /\ WalkTypes' /\ ~Locked'
         /\ cache'.next = cache.next /\ cache'.older = cache.older
         /\ Messages(cache.events)' = Messages(cache.events)
<1>1. /\ news # << >> /\ ~Locked /\ news' = Tail(news)
      /\ UNCHANGED <<script, codex, phone, req, faults, marks>>
  BY DEF Notified
<1>2. DOMAIN cache = {"events", "running", "next", "older"} BY DEF HistoryInv
<1>3. Head(news).item \in Said /\ IsTool(Head(news).item)
  <2>1. news \in Seq([item : Nat, how : {"started", "completed"}])
    BY DEF WalkTypes, NewsAreTools
  <2>2. 1 \in 1 .. Len(news) /\ Head(news) = news[1] BY <1>1, <2>1
  <2> QED BY <2>2 DEF WalkTypes, NewsAreTools
<1>4. /\ cache'.events = cache.events \cup {Head(news).item}
      /\ cache'.next = cache.next /\ cache'.older = cache.older
  BY <1>2 DEF Notified, MergedWith
<1>5. cache'.events \subseteq Said /\ cache'.next \in Nat BY <1>3, <1>4 DEF WalkTypes
<1>6. WalkTypes' BY <1>1, <1>5, BridgeKeepsTypes DEF WalkTypes
<1>7. Messages(cache.events)' = Messages(cache.events)
  BY <1>1, <1>3, <1>4 DEF Messages, IsTool
<1>8. ~Locked' BY <1>1 DEF Locked
<1> QED BY <1>4, <1>6, <1>7, <1>8

LEMMA BeginKeepsTypes ==
  ASSUME WalkTypes, HistoryInv, NEW s \in Slots, NEW ask, ask.cursor \in Nat, Begin(s, ask)
  PROVE  /\ WalkTypes' /\ (Locked' => Locked)
         /\ UNCHANGED <<script, codex, cache, phone, marks>>
         /\ req[s] = Quiet /\ req'[s].pc = "fetched" /\ req'[s].ask = ask /\ req'[s] # Quiet
         /\ \A t \in Slots \ {s} : req'[t] = req[t]
<1> DEFINE next == [pc |-> "fetched", ask |-> ask, page |-> Page(LastTurn), ended |-> Ended]
<1>1. /\ req' = [req EXCEPT ![s] = next] /\ req[s] = Quiet
      /\ UNCHANGED <<script, codex, news, cache, phone, faults, marks>>
  BY DEF Begin, Goes
<1>2. DOMAIN req = Slots BY DEF HistoryInv
<1>3. next.pc = "fetched" /\ next.ask = ask /\ next.page = Page(LastTurn) OBVIOUS
<1>4. next # Quiet BY <1>3 DEF Quiet
<1> HIDE DEF next
<1>5. req'[s] = next /\ \A t \in Slots \ {s} : req'[t] = req[t] BY <1>1, <1>2
<1>6. /\ script \in Scripts /\ codex.items \in Said /\ Said \subseteq Events
      /\ codex.items \in Nat /\ codex.items # 0
  BY SaidFacts DEF Said
<1>7. LastTurn = TurnOf(codex.items) BY <1>6 DEF LastTurn
<1>8. TurnOf(codex.items) \in Nat \ {0} BY <1>6, ScriptFacts
<1>9. FirstPage(Page(LastTurn), codex.items) BY <1>7, <1>8, PageLists DEF FirstPage
<1>10. RequestTypes(s)'
  BY <1>1, <1>3, <1>5, <1>6, <1>9
  DEF RequestTypes, FirstPage, Lists, Said, TurnOf, IsTool
<1>11. WalkTypes' BY <1>1, <1>5, <1>10, BridgeKeepsTypes DEF WalkTypes
<1>12. Locked' => Locked BY <1>3, <1>5 DEF Locked
<1> QED BY <1>1, <1>3, <1>4, <1>5, <1>11, <1>12

LEMMA EnterKeepsTypes ==
  ASSUME WalkTypes, HistoryInv, NEW s \in Slots, Enter(s)
  PROVE  /\ WalkTypes' /\ cache' = Replaced(req[s].page) /\ req[s] # Quiet
         /\ req[s].pc = "fetched" /\ ~Locked
         /\ UNCHANGED <<script, codex, phone>>
         /\ marks'.gap = (marks.gap \/ Leaps(req[s].page)) /\ marks'.spent = marks.spent
         /\ marks'.crossed = marks.crossed
         /\ req'[s].pc = "locked" /\ req'[s].ask = req[s].ask
         /\ \A t \in Slots \ {s} : req'[t] = req[t]
<1> DEFINE next == [pc |-> "locked", ask |-> req[s].ask, left |-> MaxPages,
                    ended |-> req[s].ended]
           page == req[s].page
<1>1. /\ req' = [req EXCEPT ![s] = next] /\ cache' = Replaced(page)
      /\ marks' = [marks EXCEPT !.gap = marks.gap \/ Leaps(page)]
      /\ UNCHANGED <<script, codex, news, phone, faults>>
      /\ req[s].pc = "fetched" /\ ~Locked
  BY DEF Enter, Goes
<1>2. DOMAIN req = Slots /\ DOMAIN cache = {"events", "running", "next", "older"}
  BY DEF HistoryInv
<1>3. next.pc = "locked" /\ next.ask = req[s].ask OBVIOUS
<1> HIDE DEF next
<1>4. req'[s] = next /\ \A t \in Slots \ {s} : req'[t] = req[t] BY <1>1, <1>2
<1>5. req[s] # Quiet BY <1>1 DEF Quiet
<1>6. RequestTypes(s) /\ cache.events \subseteq Said /\ cache.next \in Nat BY DEF WalkTypes
<1>7. PICK n \in Said : FirstPage(page, n) BY <1>1, <1>6 DEF RequestTypes
<1>8. page.events \subseteq Said /\ page.next \in Nat
  <2>1. Said = 1 .. codex.items /\ codex.items \in Nat BY SaidFacts
  <2>2. \A e \in 1 .. n : e \in Said BY <1>7, <2>1
  <2>3. (\A e \in page.events : e \in 1 .. n) /\ page.next \in Nat BY <1>7 DEF FirstPage, Lists
  <2> QED BY <2>2, <2>3
<1>9. cache'.events \subseteq Said /\ cache'.next \in Nat
  BY <1>1, <1>6, <1>8 DEF Replaced, Kept
<1>10. RequestTypes(s)' BY <1>3, <1>4, <1>5, <1>6 DEF RequestTypes
<1>11. /\ DOMAIN marks' = DOMAIN marks
       /\ marks'.gap = (marks.gap \/ Leaps(page)) /\ marks'.spent = marks.spent
       /\ marks'.crossed = marks.crossed
  BY <1>1 DEF WalkTypes
<1>12. WalkTypes' BY <1>1, <1>4, <1>9, <1>10, <1>11, BridgeKeepsTypes DEF WalkTypes
<1> QED BY <1>1, <1>3, <1>4, <1>5, <1>11, <1>12

LEMMA FetchKeepsTypes ==
  ASSUME WalkTypes, HistoryInv, NEW s \in Slots, FetchOlder(s)
  PROVE  /\ WalkTypes' /\ cache' = Fetched(Page(cache.next)) /\ req[s] # Quiet
         /\ Locked /\ cache.next # 0
         /\ UNCHANGED <<script, codex, phone, marks>>
         /\ req'[s].pc = "locked" /\ req'[s].ask = req[s].ask
         /\ \A t \in Slots \ {s} : req'[t] = req[t]
<1> DEFINE next == [req[s] EXCEPT !.left = req[s].left - 1]
           page == Page(cache.next)
<1>1. /\ req' = [req EXCEPT ![s] = next] /\ cache' = Fetched(page)
      /\ UNCHANGED <<script, codex, news, phone, faults, marks>>
      /\ req[s].pc = "locked" /\ cache.next # 0
  BY DEF FetchOlder, Goes, Wants
<1>2. DOMAIN req = Slots /\ DOMAIN cache = {"events", "running", "next", "older"}
  BY DEF HistoryInv
<1>3. next.pc = "locked" /\ next.ask = req[s].ask BY <1>1
<1> HIDE DEF next
<1>4. req'[s] = next /\ \A t \in Slots \ {s} : req'[t] = req[t] BY <1>1, <1>2
<1>5. req[s] # Quiet BY <1>1 DEF Quiet
<1>6. RequestTypes(s) /\ cache.events \subseteq Said /\ cache.next \in Nat BY DEF WalkTypes
<1>7. page.events \subseteq Said /\ page.next \in Nat
  <2>1. Said = 1 .. codex.items BY SaidFacts
  <2> QED BY <1>6, <2>1, PageLists DEF Lists
<1>8. cache'.events \subseteq Said /\ cache'.next \in Nat
  BY <1>1, <1>2, <1>6, <1>7 DEF Fetched, MergedWith
<1>9. RequestTypes(s)' BY <1>3, <1>4, <1>5, <1>6 DEF RequestTypes
<1>10. WalkTypes' BY <1>1, <1>4, <1>8, <1>9, BridgeKeepsTypes DEF WalkTypes
<1>11. Locked BY <1>1 DEF Locked
<1> QED BY <1>1, <1>3, <1>4, <1>5, <1>10, <1>11

LEMMA AnswerKeepsTypes ==
  ASSUME WalkTypes, HistoryInv, NEW s \in Slots, Answer(s),
         Paginated(req[s].ask).before \in Nat, Paginated(req[s].ask).after \in Nat
  PROVE  /\ WalkTypes' /\ (Locked' => Locked) /\ req[s] # Quiet /\ Locked
         /\ UNCHANGED <<script, codex, cache, phone>>
         /\ marks'.gap = marks.gap /\ marks'.spent = (marks.spent \/ Spent(req[s].ask))
         /\ marks'.crossed = marks.crossed
         /\ req'[s].pc = "answered" /\ req'[s].ask = req[s].ask
         /\ req'[s].page = Paginated(req[s].ask)
         /\ \A t \in Slots \ {s} : req'[t] = req[t]
<1> DEFINE next == [pc |-> "answered", ask |-> req[s].ask, page |-> Paginated(req[s].ask),
                    ended |-> req[s].ended]
<1>1. /\ req' = [req EXCEPT ![s] = next]
      /\ marks' = [marks EXCEPT !.spent = marks.spent \/ Spent(req[s].ask)]
      /\ UNCHANGED <<script, codex, news, cache, phone, faults>>
      /\ req[s].pc = "locked"
  BY DEF Answer, Goes
<1>2. DOMAIN req = Slots BY DEF HistoryInv
<1>3. next.pc = "answered" /\ next.ask = req[s].ask /\ next.page = Paginated(req[s].ask)
  OBVIOUS
<1> HIDE DEF next
<1>4. req'[s] = next /\ \A t \in Slots \ {s} : req'[t] = req[t] BY <1>1, <1>2
<1>5. req[s] # Quiet BY <1>1 DEF Quiet
<1>6. RequestTypes(s) /\ cache.events \subseteq Said /\ cache.next \in Nat BY DEF WalkTypes
<1>7. RequestTypes(s)' BY <1>3, <1>4, <1>5, <1>6 DEF RequestTypes
<1>8. /\ DOMAIN marks' = DOMAIN marks
      /\ marks'.gap = marks.gap /\ marks'.spent = (marks.spent \/ Spent(req[s].ask))
      /\ marks'.crossed = marks.crossed
  BY <1>1 DEF WalkTypes
<1>9. WalkTypes' BY <1>1, <1>4, <1>6, <1>7, <1>8, BridgeKeepsTypes DEF WalkTypes
<1>10. Locked BY <1>1 DEF Locked
<1> QED BY <1>1, <1>3, <1>4, <1>5, <1>8, <1>9, <1>10

LEMMA ReceiveKeepsTypes ==
  ASSUME WalkTypes, HistoryInv, NEW s \in Slots, Receive(s)
  PROVE  /\ WalkTypes' /\ (Locked' => Locked) /\ req[s] # Quiet
         /\ UNCHANGED <<script, codex, cache>>
         /\ phone' = (IF s = "poll" THEN AtPoll(req[s].page) ELSE AtOlder(req[s].page))
         /\ marks'.gap = marks.gap /\ marks'.spent = marks.spent
         /\ marks'.crossed = (marks.crossed \/
              ((IF s = "poll" THEN Canonical(req[s].page) ELSE req[s].page.reset)
               /\ \E t \in Slots \ {s} : req[t] # Quiet))
         /\ req[s].pc = "answered" /\ req'[s] = Quiet
         /\ \A t \in Slots \ {s} : req'[t] = req[t]
<1> DEFINE page == req[s].page
           crossed == marks.crossed \/
                        ((IF s = "poll" THEN Canonical(page) ELSE page.reset)
                         /\ \E t \in Slots \ {s} : req[t] # Quiet)
<1>1. /\ req[s].pc = "answered" /\ req' = [req EXCEPT ![s] = Quiet]
      /\ phone' = (IF s = "poll" THEN AtPoll(page) ELSE AtOlder(page))
      /\ marks' = [marks EXCEPT !.crossed = crossed]
      /\ UNCHANGED <<script, codex, news, cache, faults>>
  BY DEF Receive, Goes
<1> HIDE DEF crossed
<1>2. DOMAIN req = Slots BY DEF HistoryInv
<1>3. req'[s] = Quiet /\ \A t \in Slots \ {s} : req'[t] = req[t] BY <1>1, <1>2
<1>4. req[s] # Quiet BY <1>1 DEF Quiet
<1>5. /\ DOMAIN marks' = DOMAIN marks /\ marks'.gap = marks.gap /\ marks'.spent = marks.spent
      /\ marks'.crossed = crossed
  BY <1>1 DEF WalkTypes
<1>6. page.before \in Nat /\ page.after \in Nat BY <1>1 DEF WalkTypes, RequestTypes
<1>7. /\ DOMAIN phone = {"on", "hist", "before", "after", "more"}
      /\ phone.before \in Nat /\ phone.after \in Nat
      /\ cache.events \subseteq Said /\ cache.next \in Nat
  BY DEF WalkTypes
<1>8. DOMAIN phone' = DOMAIN phone /\ phone'.before \in Nat /\ phone'.after \in Nat
  <2> HIDE DEF page
  <2>1. CASE phone' = AtPoll(page) BY <1>6, <1>7, <2>1 DEF AtPoll
  <2>2. CASE phone' = AtOlder(page) BY <1>6, <1>7, <2>2 DEF AtOlder
  <2> QED BY <1>1, <2>1, <2>2
<1>9. RequestTypes(s)' BY <1>3 DEF RequestTypes, Quiet
<1>10. WalkTypes' BY <1>1, <1>3, <1>5, <1>7, <1>8, <1>9, BridgeKeepsTypes
<1>11. Locked' => Locked BY <1>3 DEF Locked, Quiet
<1> QED BY <1>1, <1>3, <1>4, <1>5, <1>10, <1>11 DEF crossed

LEMMA FailKeepsTypes ==
  ASSUME WalkTypes, HistoryInv, NEW s \in Slots, Fail(s)
  PROVE  /\ WalkTypes' /\ (Locked' => Locked)
         /\ UNCHANGED <<script, cache, phone, marks>>
         /\ req'[s] = Quiet /\ \A t \in Slots \ {s} : req'[t] = req[t]
<1>1. /\ req' = [req EXCEPT ![s] = Quiet]
      /\ UNCHANGED <<script, codex, news, cache, phone, marks>>
  BY DEF Fail, Goes
<1>2. DOMAIN req = Slots BY DEF HistoryInv
<1>3. req'[s] = Quiet /\ \A t \in Slots \ {s} : req'[t] = req[t] BY <1>1, <1>2
<1>4. RequestTypes(s)' BY <1>3 DEF RequestTypes, Quiet
<1>5. WalkTypes' BY <1>1, <1>3, <1>4, BridgeKeepsTypes DEF WalkTypes
<1>6. Locked' => Locked BY <1>3 DEF Locked, Quiet
<1> QED BY <1>1, <1>3, <1>5, <1>6

LEMMA RestartKeepsTypes ==
  ASSUME WalkTypes, HistoryInv, Restart
  PROVE  /\ WalkTypes' /\ ~Locked' /\ UNCHANGED <<script, phone>> /\ cache' = Empty
         /\ marks'.gap = marks.gap /\ marks'.spent = marks.spent /\ marks'.crossed = marks.crossed
         /\ \A s \in Slots : req'[s] = req[s] \/ req'[s] = Quiet
<1>1. /\ cache' = Empty /\ news' = << >> /\ Moves /\ UNCHANGED <<script, codex, phone>>
      /\ \A s \in Slots : (req'[s] = req[s] /\ req[s].pc = "answered") \/ req'[s] = Quiet
  BY DEF Restart
<1>2. /\ DOMAIN marks' = DOMAIN marks
      /\ marks'.gap = marks.gap /\ marks'.spent = marks.spent /\ marks'.crossed = marks.crossed
  BY <1>1 DEF Moves, WalkTypes
<1>3. cache'.events \subseteq Said /\ cache'.next \in Nat BY <1>1 DEF Empty
<1>4. \A s \in Slots : req'[s] = req[s] \/ RequestTypes(s)'
  BY <1>1 DEF RequestTypes, Quiet
<1>5. WalkTypes' BY <1>1, <1>2, <1>3, <1>4, BridgeKeepsTypes DEF WalkTypes
<1>6. ~Locked' BY <1>1 DEF Locked, Quiet
<1> QED BY <1>1, <1>2, <1>5, <1>6

-----------------------------------------------------------------------------
\* What is whole stays so where nothing but tools comes into the cache, where no answer
\* is new, and where the phone's requests stay the ones they were.
LEMMA CacheStays ==
  ASSUME CacheIsWhole, UNCHANGED script, cache'.next = cache.next, cache'.older = cache.older,
         Messages(cache.events)' = Messages(cache.events),
         ~Locked' \/ (Locked /\ UNCHANGED cache)
  PROVE  CacheIsWhole'
<1>1. ASSUME NEW S, NEW next, Whole(S, next)
      PROVE  /\ \A a, b \in S, j \in Events' : a < j /\ j < b /\ ~script'.items[j].tool => j \in S
             /\ \A e \in S, i \in Events' :
                  i <= e /\ ~script'.items[i].tool /\ script'.items[i].turn > next => i \in S
             /\ \E m \in S : ~script'.items[m].tool /\ script'.items[m].turn > next
  BY <1>1 DEF Whole, Dense, Reaches, TurnOf, IsTool, Events
<1>2. ASSUME Messages(cache.events)' # {}
      PROVE  Whole(Messages(cache.events), cache.next)'
  <2> DEFINE M == Messages(cache.events)
             next == cache.next
  <2>1. Whole(M, next) BY <1>2 DEF CacheIsWhole
  <2>2. M' = M /\ next' = next OBVIOUS
  <2> HIDE DEF M, next
  <2>3. Whole(M, next)' BY <1>1, <2>1, <2>2 DEF Whole, Dense, Reaches, TurnOf, IsTool
  <2> QED BY <2>3 DEF M, next
<1>3. cache'.older => Messages(cache.events)' # {} BY DEF CacheIsWhole
<1>4. Locked' => Whole(cache.events, cache.next)'
  <2> SUFFICES ASSUME Locked' PROVE Whole(cache.events, cache.next)' OBVIOUS
  <2>1. Whole(cache.events, cache.next) /\ UNCHANGED cache BY DEF CacheIsWhole
  <2> QED BY <1>1, <2>1 DEF Whole, Dense, Reaches, TurnOf, IsTool
<1> QED BY <1>2, <1>3, <1>4 DEF CacheIsWhole

LEMMA AnswersStay ==
  ASSUME AnswersAreWhole, UNCHANGED script,
         \A s \in Slots : req'[s] = req[s] \/ req'[s].pc # "answered"
  PROVE  AnswersAreWhole'
<1> SUFFICES ASSUME NEW s \in Slots, req'[s].pc = "answered"
             PROVE  AnswerIsWhole(req[s].ask, req[s].page)'
  BY DEF AnswersAreWhole
<1>1. req'[s] = req[s] /\ AnswerIsWhole(req[s].ask, req[s].page) BY DEF AnswersAreWhole
<1> QED BY <1>1 DEF AnswerIsWhole, IsTool, Events

LEMMA PhoneStays ==
  ASSUME PhoneIsWhole, UNCHANGED <<script, phone>>,
         \A s \in Slots : req'[s] = Quiet \/ (req[s] # Quiet /\ req'[s].ask = req[s].ask)
  PROVE  PhoneIsWhole'
BY DEF PhoneIsWhole, Slots, IsTool, Events, Ask

\* A request asks for an event by its number, and is about the phone as it is then.
LEMMA RequestAsks ==
  ASSUME WalkTypes, Poll \/ LoadOlder
  PROVE  \E s \in Slots : \E ask : ask.cursor \in Nat /\ Begin(s, ask)
<1>1. phone.before \in Nat /\ phone.after \in Nat /\ NoEvent \in Nat
  BY DEF WalkTypes, NoEvent
<1>2. CASE Poll
  <2> DEFINE ask == IF phone.on /\ phone.after # NoEvent THEN Ask("since", phone.after)
                    ELSE Ask("latest", NoEvent)
  <2>1. Begin("poll", ask) BY <1>2 DEF Poll
  <2>2. ask.cursor \in Nat BY <1>1 DEF Ask
  <2> QED BY <2>1, <2>2 DEF Slots
<1>3. CASE LoadOlder
  <2> DEFINE ask == Ask("before", phone.before)
  <2>1. Begin("older", ask) BY <1>3 DEF LoadOlder
  <2>2. ask.cursor \in Nat BY <1>1 DEF Ask
  <2> QED BY <2>1, <2>2 DEF Slots
<1> QED BY <1>2, <1>3

LEMMA PhoneAsks ==
  ASSUME WalkTypes, HistoryInv, PhoneIsWhole, Poll \/ LoadOlder
  PROVE  PhoneIsWhole'
<1>1. /\ DOMAIN phone = {"on", "hist", "before", "after", "more"}
      /\ phone.before \in Nat /\ phone.after \in Nat /\ NoEvent \in Nat
  BY DEF WalkTypes, NoEvent
<1>2. CASE Poll
  <2> DEFINE ask == IF phone.on THEN Ask("since", phone.after) ELSE Ask("latest", NoEvent)
  <2>1. Begin("poll", ask) BY <1>2 DEF Poll, PhoneIsWhole
  <2>2. ask.cursor \in Nat BY <1>1 DEF Ask
  <2>3. ask = (IF phone.on THEN Ask("since", phone.after) ELSE Ask("latest", NoEvent)) OBVIOUS
  <2> HIDE DEF ask
  <2>4. /\ UNCHANGED <<script, phone>> /\ req'["poll"].ask = ask
        /\ req'["older"] = req["older"]
    BY <1>1, <2>1, <2>2, BeginKeepsTypes DEF Slots
  <2> QED BY <2>3, <2>4 DEF PhoneIsWhole, IsTool, Events, Ask
<1>3. CASE LoadOlder
  <2> DEFINE ask == Ask("before", phone.before)
  <2>1. Begin("older", ask) /\ phone.on BY <1>3 DEF LoadOlder
  <2>2. ask.cursor \in Nat BY <1>1 DEF Ask
  <2>3. ask = Ask("before", phone.before) OBVIOUS
  <2> HIDE DEF ask
  <2>4. /\ UNCHANGED <<script, phone>> /\ req'["older"].ask = ask
        /\ req'["poll"] = req["poll"]
    BY <1>1, <2>1, <2>2, BeginKeepsTypes DEF Slots
  <2> QED BY <2>1, <2>3, <2>4 DEF PhoneIsWhole, IsTool, Events, Ask
<1> QED BY <1>2, <1>3

\* A whole answer leaves the phone whole, whichever request it is of: a page that
\* replaces the history has both cursors, and any other joins what the phone has.
LEMMA PhoneReceives ==
  ASSUME WalkTypes, HistoryInv, AnswersAreWhole, PhoneIsWhole,
         NEW s \in Slots, Receive(s), ~marks'.crossed
  PROVE  PhoneIsWhole'
<1> DEFINE page == req[s].page
           ask == req[s].ask
           other == IF s = "poll" THEN "older" ELSE "poll"
<1>1. /\ UNCHANGED script /\ req[s] # Quiet /\ req[s].pc = "answered"
      /\ phone' = (IF s = "poll" THEN AtPoll(page) ELSE AtOlder(page))
      /\ req'[s] = Quiet /\ req'[other] = req[other]
      /\ (IF s = "poll" THEN Canonical(page) ELSE page.reset) => req[other] = Quiet
  BY ReceiveKeepsTypes DEF Slots
<1>2. AnswerIsWhole(ask, page) BY <1>1 DEF AnswersAreWhole
<1>3. /\ phone.before \in Nat /\ phone.after \in Nat
      /\ page.before \in Nat /\ page.after \in Nat
      /\ DOMAIN phone = {"on", "hist", "before", "after", "more"}
      /\ Events \subseteq Nat
  BY <1>1, SaidFacts DEF WalkTypes, RequestTypes
<1>4. phone.on =>
        /\ phone.before # NoEvent /\ phone.after # NoEvent
        /\ \A i \in Events : ~IsTool(i) /\ phone.before <= i /\ i <= phone.after => i \in phone.hist
        /\ ~phone.more => \A i \in Events : i < phone.before => IsTool(i)
  BY DEF PhoneIsWhole
<1>5. /\ (\A i : IsTool(i)' <=> IsTool(i)) /\ Events' = Events
  BY <1>1 DEF IsTool, Events
<1> DEFINE Holds(p) ==
             /\ p.before # NoEvent /\ p.after # NoEvent
             /\ \A i \in Events : ~IsTool(i) /\ p.before <= i /\ i <= p.after => i \in p.hist
             /\ ~p.more => \A i \in Events : i < p.before => IsTool(i)
\* The page is all the phone has now.
<1>6. ASSUME page.reset \/ ask.by # "before",
             phone'.before = page.before, phone'.after = page.after,
             phone'.hist = page.events, phone'.more = page.more
      PROVE  Holds(phone')
  <2> HIDE DEF page, ask
  <2>1. page.before # NoEvent /\ page.after # NoEvent BY <1>2, <1>6 DEF AnswerIsWhole
  <2>2. \A i \in Events : ~IsTool(i) /\ page.before <= i /\ i <= page.after => i \in page.events
    BY <1>2, <2>1 DEF AnswerIsWhole
  <2>3. ~page.more => \A i \in Events : i < page.before => IsTool(i)
    BY <1>2, <2>1 DEF AnswerIsWhole
  <2> QED BY <1>6, <2>1, <2>2, <2>3
<1>7. CASE s = "poll" /\ Canonical(page)
  <2>1. ask.by # "before" BY <1>1, <1>7 DEF PhoneIsWhole, Ask
  <2>2. page.after # NoEvent BY <1>2, <2>1 DEF AnswerIsWhole
  <2>3. /\ phone'.on /\ phone'.before = page.before /\ phone'.after = page.after
        /\ phone'.hist = page.events /\ phone'.more = page.more
    BY <1>1, <1>7, <2>2 DEF AtPoll
  <2>4. Holds(phone') BY <1>6, <2>1, <2>3
  <2>5. req'["poll"] = Quiet /\ req'["older"] = Quiet BY <1>1, <1>7
  <2> QED BY <1>5, <2>4, <2>5 DEF PhoneIsWhole
<1>8. CASE s = "poll" /\ ~Canonical(page)
  <2>1. phone.on /\ ~page.reset BY <1>8 DEF Canonical
  <2>2. ask = Ask("since", phone.after) BY <1>1, <1>8, <2>1 DEF PhoneIsWhole
  <2>3. ask.by = "since" /\ ask.cursor = phone.after BY <2>2 DEF Ask
  <2>4. page.before = phone.after /\ page.before # NoEvent /\ page.after # NoEvent
    BY <1>2, <1>4, <2>1, <2>3 DEF AnswerIsWhole
  <2>5. /\ phone'.on /\ phone'.before = phone.before /\ phone'.after = page.after
        /\ phone'.hist = phone.hist \cup page.events /\ phone'.more = phone.more
    BY <1>1, <1>4, <1>8, <2>1, <2>4 DEF AtPoll
  <2>6. ASSUME NEW i \in Events, ~IsTool(i), phone.before <= i, i <= page.after
        PROVE  i \in phone.hist \cup page.events
    <3>1. i <= phone.after \/ page.before <= i BY <1>3, <2>4
    <3>2. page.before <= i => i \in page.events BY <1>2, <2>4, <2>6 DEF AnswerIsWhole
    <3> QED BY <1>4, <2>1, <2>6, <3>1, <3>2
  <2>7. Holds(phone') BY <1>4, <2>1, <2>4, <2>5, <2>6
  <2>8. req'["poll"] = Quiet /\ req'["older"] = req["older"] BY <1>1, <1>8
  <2> QED BY <1>5, <2>5, <2>7, <2>8 DEF PhoneIsWhole, Ask
<1>9. s = "older" => phone.on /\ ask = Ask("before", phone.before) BY <1>1 DEF PhoneIsWhole
<1>10. CASE s = "older" /\ page.reset
  <2>1. /\ phone'.on /\ phone'.before = page.before /\ phone'.after = page.after
        /\ phone'.hist = page.events /\ phone'.more = page.more
    BY <1>1, <1>3, <1>9, <1>10 DEF AtOlder
  <2>2. Holds(phone') BY <1>6, <1>10, <2>1
  <2>3. req'["poll"] = Quiet /\ req'["older"] = Quiet BY <1>1, <1>10
  <2> QED BY <1>5, <2>2, <2>3 DEF PhoneIsWhole
<1>11. CASE s = "older" /\ ~page.reset
  <2>1. phone.on /\ ask.by = "before" /\ ask.cursor = phone.before BY <1>9, <1>11 DEF Ask
  <2>2. /\ phone'.on /\ phone'.after = phone.after
        /\ phone'.before = (IF page.before # NoEvent THEN page.before ELSE phone.before)
        /\ phone'.hist = phone.hist \cup page.events /\ phone'.more = page.more
    BY <1>1, <1>3, <1>11, <2>1 DEF AtOlder
  <2>3. ASSUME NEW i \in Events, ~IsTool(i), phone'.before <= i, i <= phone.after
        PROVE  i \in phone.hist \cup page.events
    <3>1. CASE page.before = NoEvent BY <1>4, <2>1, <2>2, <2>3, <3>1
    <3>2. CASE page.before # NoEvent /\ i < phone.before
      BY <1>2, <1>11, <2>1, <2>2, <2>3, <3>2 DEF AnswerIsWhole
    <3>3. CASE ~(i < phone.before)
      <4>1. phone.before <= i BY <1>3, <3>3
      <4> QED BY <1>4, <2>1, <2>3, <4>1
    <3> QED BY <3>1, <3>2, <3>3
  <2>4. ~page.more => \A i \in Events : i < phone'.before => IsTool(i)
    BY <1>2, <2>1, <2>2 DEF AnswerIsWhole
  <2>5. Holds(phone') BY <1>4, <2>1, <2>2, <2>3, <2>4
  <2>6. req'["older"] = Quiet /\ req'["poll"] = req["poll"] BY <1>1, <1>11
  <2> QED BY <1>5, <2>1, <2>2, <2>5, <2>6 DEF PhoneIsWhole, Ask
<1> QED BY <1>7, <1>8, <1>10, <1>11 DEF Slots

\* A cache that is whole to its last event is so in its messages.
LEMMA WholeCache ==
  ASSUME UNCHANGED script, NEW new, cache' = new, Whole(new.events, new.next)
  PROVE  CacheIsWhole'
<1>1. Whole(Messages(new.events), new.next) /\ Messages(new.events) # {} BY MessagesAreWhole
<1>2. /\ Whole(new.events, new.next)'
      /\ Whole(Messages(new.events), new.next)' /\ (Messages(new.events) # {})'
  BY <1>1 DEF Whole, Dense, Reaches, TurnOf, IsTool, Events, Messages
<1> QED BY <1>2 DEF CacheIsWhole

\* The cursors of an answer are numbers of events, or none.
LEMMA PaginatedNumbers ==
  ASSUME WalkTypes, NEW ask, ask.cursor \in Nat
  PROVE  Paginated(ask).before \in Nat /\ Paginated(ask).after \in Nat
<1> DEFINE W == Window(cache.events, ask)
<1>1. Paginated(ask).before = Lowest(W) /\ Paginated(ask).after = Highest(W) BY DEF Paginated
<1>2. codex.items \in Nat /\ cache.events \subseteq 1 .. codex.items
  BY SaidFacts DEF WalkTypes
<1>3. W \subseteq 1 .. codex.items BY <1>2, WindowIsConvex
<1> HIDE DEF W
<1>4. \A x \in W : x \in Nat BY <1>3
<1>5. CASE W = {} BY <1>1, <1>2, <1>3, <1>5, Bounds DEF NoEvent
<1>6. CASE W # {}
  <2>1. Lowest(W) \in W /\ Highest(W) \in W BY <1>2, <1>3, <1>6, Bounds
  <2> QED BY <1>1, <1>4, <2>1
<1> QED BY <1>5, <1>6

-----------------------------------------------------------------------------
\* Every step keeps the walk whole: what the cache holds behind its cursor, what the
\* requests have been answered, what the phone has between its cursors.
LEMMA WalkSteps ==
  ASSUME WalkInv, HistoryInv, [Next]_vars
  PROVE  WalkInv'
<1>0. WalkTypes /\ DOMAIN cache = {"events", "running", "next", "older"}
  BY DEF WalkInv, HistoryInv
<1>1. /\ ~marks.gap => CacheIsWhole
      /\ ~marks.gap /\ ~marks.spent => AnswersAreWhole
      /\ ~marks.gap /\ ~marks.spent /\ ~marks.crossed => PhoneIsWhole
  BY DEF WalkInv
<1>2. CASE CodexStep
  <2>1. /\ WalkTypes' /\ UNCHANGED <<script, cache, req, phone>>
        /\ marks'.gap = marks.gap /\ marks'.spent = marks.spent /\ marks'.crossed = marks.crossed
    BY <1>0, <1>2, CodexKeepsTypes
  <2>2. ~marks'.gap => CacheIsWhole'
    <3>1. Messages(cache.events)' = Messages(cache.events) BY <2>1 DEF Messages, IsTool
    <3>2. Locked' <=> Locked BY <2>1 DEF Locked
    <3> QED BY <1>1, <2>1, <3>1, <3>2, CacheStays
  <2>3. ~marks'.gap /\ ~marks'.spent => AnswersAreWhole' BY <1>1, <2>1, AnswersStay
  <2>4. ~marks'.gap /\ ~marks'.spent /\ ~marks'.crossed => PhoneIsWhole'
    BY <1>1, <2>1, PhoneStays
  <2> QED BY <2>1, <2>2, <2>3, <2>4 DEF WalkInv
<1>3. CASE Notified
  <2>1. /\ WalkTypes' /\ ~Locked' /\ UNCHANGED <<script, req, phone, marks>>
        /\ cache'.next = cache.next /\ cache'.older = cache.older
        /\ Messages(cache.events)' = Messages(cache.events)
    BY <1>0, <1>3, NotifiedKeepsTypes DEF Notified
  <2>2. ~marks'.gap => CacheIsWhole' BY <1>1, <2>1, CacheStays
  <2>3. ~marks'.gap /\ ~marks'.spent => AnswersAreWhole' BY <1>1, <2>1, AnswersStay
  <2>4. ~marks'.gap /\ ~marks'.spent /\ ~marks'.crossed => PhoneIsWhole'
    BY <1>1, <2>1, PhoneStays
  <2> QED BY <2>1, <2>2, <2>3, <2>4 DEF WalkInv
<1>4. CASE Poll \/ LoadOlder
  <2>1. PICK s \in Slots : \E ask : ask.cursor \in Nat /\ Begin(s, ask) BY <1>0, <1>4, RequestAsks
  <2>2. PICK ask : ask.cursor \in Nat /\ Begin(s, ask) BY <2>1
  <2>3. /\ WalkTypes' /\ (Locked' => Locked) /\ UNCHANGED <<script, cache, phone, marks>>
        /\ req'[s].pc = "fetched" /\ \A t \in Slots \ {s} : req'[t] = req[t]
    BY <1>0, <2>2, BeginKeepsTypes
  <2>4. ~marks'.gap => CacheIsWhole'
    <3>1. Messages(cache.events)' = Messages(cache.events) BY <2>3 DEF Messages, IsTool
    <3> QED BY <1>1, <2>3, <3>1, CacheStays
  <2>5. ~marks'.gap /\ ~marks'.spent => AnswersAreWhole' BY <1>1, <2>3, AnswersStay
  <2>6. ~marks'.gap /\ ~marks'.spent /\ ~marks'.crossed => PhoneIsWhole'
    BY <1>0, <1>1, <1>4, <2>3, PhoneAsks
  <2> QED BY <2>3, <2>4, <2>5, <2>6 DEF WalkInv
<1>5. CASE Restart
  <2>1. /\ WalkTypes' /\ ~Locked' /\ UNCHANGED <<script, phone>> /\ cache' = Empty
        /\ marks'.gap = marks.gap /\ marks'.spent = marks.spent /\ marks'.crossed = marks.crossed
        /\ \A s \in Slots : req'[s] = req[s] \/ req'[s] = Quiet
    BY <1>0, <1>5, RestartKeepsTypes
  <2>2. CacheIsWhole' BY <2>1 DEF CacheIsWhole, Messages, Empty
  <2>3. ~marks'.gap /\ ~marks'.spent => AnswersAreWhole' BY <1>1, <2>1, AnswersStay DEF Quiet
  <2>4. ~marks'.gap /\ ~marks'.spent /\ ~marks'.crossed => PhoneIsWhole'
    BY <1>1, <2>1, PhoneStays
  <2> QED BY <2>1, <2>2, <2>3, <2>4 DEF WalkInv
<1>6. ASSUME NEW s \in Slots, Enter(s) PROVE WalkInv'
  <2>1. /\ WalkTypes' /\ cache' = Replaced(req[s].page) /\ req[s] # Quiet
        /\ req[s].pc = "fetched" /\ UNCHANGED <<script, phone>>
        /\ marks'.gap = (marks.gap \/ Leaps(req[s].page)) /\ marks'.spent = marks.spent
        /\ marks'.crossed = marks.crossed
        /\ req'[s].pc = "locked" /\ req'[s].ask = req[s].ask
        /\ \A t \in Slots \ {s} : req'[t] = req[t]
    BY <1>0, <1>6, EnterKeepsTypes
  <2>2. PICK n \in Said : FirstPage(req[s].page, n) BY <1>0, <2>1 DEF WalkTypes, RequestTypes
  <2>3. ASSUME ~marks'.gap PROVE CacheIsWhole'
    <3>1. Whole(Replaced(req[s].page).events, Replaced(req[s].page).next)
      BY <1>0, <1>1, <2>1, <2>2, <2>3, EnterIsWhole
    <3> QED BY <2>1, <3>1, WholeCache
  <2>4. ~marks'.gap /\ ~marks'.spent => AnswersAreWhole' BY <1>1, <2>1, AnswersStay
  <2>5. ~marks'.gap /\ ~marks'.spent /\ ~marks'.crossed => PhoneIsWhole'
    BY <1>1, <2>1, PhoneStays
  <2> QED BY <2>1, <2>3, <2>4, <2>5 DEF WalkInv
<1>7. ASSUME NEW s \in Slots, FetchOlder(s) PROVE WalkInv'
  <2>1. /\ WalkTypes' /\ cache' = Fetched(Page(cache.next)) /\ req[s] # Quiet
        /\ Locked /\ cache.next # 0 /\ UNCHANGED <<script, phone, marks>>
        /\ req'[s].pc = "locked" /\ req'[s].ask = req[s].ask
        /\ \A t \in Slots \ {s} : req'[t] = req[t]
    BY <1>0, <1>7, FetchKeepsTypes
  <2>2. ASSUME ~marks'.gap PROVE CacheIsWhole'
    <3>1. Whole(cache.events, cache.next) BY <1>1, <2>1, <2>2 DEF CacheIsWhole
    <3>2. Whole(Fetched(Page(cache.next)).events, Fetched(Page(cache.next)).next)
      BY <1>0, <2>1, <3>1, FetchIsWhole
    <3> QED BY <2>1, <3>2, WholeCache
  <2>3. ~marks'.gap /\ ~marks'.spent => AnswersAreWhole' BY <1>1, <2>1, AnswersStay
  <2>4. ~marks'.gap /\ ~marks'.spent /\ ~marks'.crossed => PhoneIsWhole'
    BY <1>1, <2>1, PhoneStays
  <2> QED BY <2>1, <2>2, <2>3, <2>4 DEF WalkInv
<1>8. ASSUME NEW s \in Slots, Answer(s) PROVE WalkInv'
  <2> DEFINE ask == req[s].ask
  <2>1. req[s].pc = "locked" /\ Locked /\ ask.cursor \in Nat
    BY <1>0, <1>8 DEF Answer, Locked, WalkTypes, RequestTypes, Quiet
  <2>2. Paginated(ask).before \in Nat /\ Paginated(ask).after \in Nat
    BY <1>0, <2>1, PaginatedNumbers
  <2>3. /\ WalkTypes' /\ (Locked' => Locked) /\ req[s] # Quiet
        /\ UNCHANGED <<script, cache, phone>>
        /\ marks'.gap = marks.gap /\ marks'.spent = (marks.spent \/ Spent(ask))
        /\ marks'.crossed = marks.crossed
        /\ req'[s].pc = "answered" /\ req'[s].ask = ask /\ req'[s].page = Paginated(ask)
        /\ \A t \in Slots \ {s} : req'[t] = req[t]
    BY <1>0, <1>8, <2>2, AnswerKeepsTypes
  <2> HIDE DEF ask
  <2>4. ~marks'.gap => CacheIsWhole'
    <3>1. Messages(cache.events)' = Messages(cache.events) BY <2>3 DEF Messages, IsTool
    <3> QED BY <1>1, <2>3, <3>1, CacheStays
  <2>5. ASSUME ~marks'.gap, ~marks'.spent PROVE AnswersAreWhole'
    <3>1. Whole(cache.events, cache.next) BY <1>1, <2>1, <2>3, <2>5 DEF CacheIsWhole
    <3>2. AnswerIsWhole(ask, Paginated(ask))
      BY <1>0, <2>1, <2>3, <2>5, <3>1, PaginatedIsWhole
    <3>3. AnswerIsWhole(req[s].ask, req[s].page)'
      <4> DEFINE page == Paginated(ask)
      <4>1. AnswerIsWhole(ask, page) BY <3>2
      <4>2. req'[s].ask = ask /\ req'[s].page = page BY <2>3
      <4> HIDE DEF page
      <4> QED BY <2>3, <4>1, <4>2 DEF AnswerIsWhole, IsTool, Events
    <3>4. ASSUME NEW t \in Slots \ {s}, req'[t].pc = "answered"
          PROVE  AnswerIsWhole(req[t].ask, req[t].page)'
      <4>1. req'[t] = req[t] /\ AnswerIsWhole(req[t].ask, req[t].page)
        BY <1>1, <2>3, <2>5, <3>4 DEF AnswersAreWhole
      <4> QED BY <2>3, <4>1 DEF AnswerIsWhole, IsTool, Events
    <3> QED BY <3>3, <3>4 DEF AnswersAreWhole
  <2>6. ~marks'.gap /\ ~marks'.spent /\ ~marks'.crossed => PhoneIsWhole'
    BY <1>1, <2>3, PhoneStays DEF ask
  <2> QED BY <2>3, <2>4, <2>5, <2>6 DEF WalkInv
<1>9. ASSUME NEW s \in Slots, Receive(s) PROVE WalkInv'
  <2>1. /\ WalkTypes' /\ (Locked' => Locked) /\ UNCHANGED <<script, cache>>
        /\ marks'.gap = marks.gap /\ marks'.spent = marks.spent
        /\ (marks.crossed => marks'.crossed)
        /\ req'[s] = Quiet /\ \A t \in Slots \ {s} : req'[t] = req[t]
    BY <1>0, <1>9, ReceiveKeepsTypes
  <2>2. ~marks'.gap => CacheIsWhole'
    <3>1. Messages(cache.events)' = Messages(cache.events) BY <2>1 DEF Messages, IsTool
    <3> QED BY <1>1, <2>1, <3>1, CacheStays
  <2>3. ~marks'.gap /\ ~marks'.spent => AnswersAreWhole' BY <1>1, <2>1, AnswersStay DEF Quiet
  <2>4. ~marks'.gap /\ ~marks'.spent /\ ~marks'.crossed => PhoneIsWhole'
    BY <1>0, <1>1, <1>9, <2>1, PhoneReceives
  <2> QED BY <2>1, <2>2, <2>3, <2>4 DEF WalkInv
<1>10. ASSUME NEW s \in Slots, Fail(s) PROVE WalkInv'
  <2>1. /\ WalkTypes' /\ (Locked' => Locked) /\ UNCHANGED <<script, cache, phone, marks>>
        /\ req'[s] = Quiet /\ \A t \in Slots \ {s} : req'[t] = req[t]
    BY <1>0, <1>10, FailKeepsTypes
  <2>2. ~marks'.gap => CacheIsWhole'
    <3>1. Messages(cache.events)' = Messages(cache.events) BY <2>1 DEF Messages, IsTool
    <3> QED BY <1>1, <2>1, <3>1, CacheStays
  <2>3. ~marks'.gap /\ ~marks'.spent => AnswersAreWhole' BY <1>1, <2>1, AnswersStay DEF Quiet
  <2>4. ~marks'.gap /\ ~marks'.spent /\ ~marks'.crossed => PhoneIsWhole'
    BY <1>1, <2>1, PhoneStays
  <2> QED BY <2>1, <2>2, <2>3, <2>4 DEF WalkInv
<1>11. CASE UNCHANGED vars
  <2>1. UNCHANGED <<script, codex, news, cache, phone, req, marks>> BY <1>11 DEF vars
  <2>2. WalkTypes'
    BY <1>0, <2>1, BridgeKeepsTypes DEF WalkTypes
  <2>3. ~marks'.gap => CacheIsWhole'
    <3>1. Messages(cache.events)' = Messages(cache.events) BY <2>1 DEF Messages, IsTool
    <3>2. Locked' <=> Locked BY <2>1 DEF Locked
    <3> QED BY <1>1, <2>1, <3>1, <3>2, CacheStays
  <2>4. ~marks'.gap /\ ~marks'.spent => AnswersAreWhole' BY <1>1, <2>1, AnswersStay
  <2>5. ~marks'.gap /\ ~marks'.spent /\ ~marks'.crossed => PhoneIsWhole'
    BY <1>1, <2>1, PhoneStays
  <2> QED BY <2>2, <2>3, <2>4, <2>5 DEF WalkInv
<1> QED BY <1>2, <1>3, <1>4, <1>5, <1>6, <1>7, <1>8, <1>9, <1>10, <1>11 DEF Next, Serve

\* The walk is whole in every state, as long as none of its three exceptions has come.
THEOREM WalkInvariant == Spec => []WalkInv
<1>1. Init => WalkInv
  <2> SUFFICES ASSUME Init PROVE WalkInv OBVIOUS
  <2>1. PICK n \in 1 .. Len(script.items) :
          codex = [items |-> n, done |-> TRUE, settled |-> {i \in 1 .. n : IsTool(i)}]
    BY DEF Init
  <2>2. script \in Scripts /\ Events = 1 .. Len(script.items) BY ScriptFacts DEF Init
  <2>3. /\ news = << >> /\ cache = Empty /\ req = [s \in Slots |-> Quiet]
        /\ phone = [on |-> FALSE, hist |-> {}, before |-> NoEvent, after |-> NoEvent, more |-> FALSE]
        /\ marks = [still |-> TRUE, gap |-> FALSE, spent |-> FALSE, crossed |-> FALSE]
    BY DEF Init
  <2>4. \A s \in Slots : req[s] = Quiet /\ req[s].pc = "idle" BY <2>3 DEF Quiet
  <2>5. NewsAreTools BY <2>3 DEF NewsAreTools
  <2>6. \A s \in Slots : RequestTypes(s) BY <2>4 DEF RequestTypes
  <2>7. WalkTypes BY <2>1, <2>2, <2>3, <2>5, <2>6 DEF WalkTypes, Empty, NoEvent
  <2>8. CacheIsWhole BY <2>3, <2>4 DEF CacheIsWhole, Empty, Messages, Locked
  <2>9. AnswersAreWhole BY <2>4 DEF AnswersAreWhole
  <2>10. PhoneIsWhole BY <2>3, <2>4 DEF PhoneIsWhole, Slots
  <2> QED BY <2>7, <2>8, <2>9, <2>10 DEF WalkInv
<1>2. WalkInv /\ HistoryInv /\ [Next]_vars => WalkInv' BY WalkSteps
<1> QED BY <1>1, <1>2, HistoryInvariant, PTL DEF Spec

\* A phone that is told there is nothing before its first event has every message up to
\* its newest (list_session_events, handleLoadOlderEvents): between its cursors none is
\* missing, and none is before them.
THEOREM WalkIsComplete == Spec => []WalkComplete
<1>1. WalkInv => WalkComplete
  <2> SUFFICES ASSUME WalkInv, phone.on, ~phone.more, ~marks.gap, ~marks.spent, ~marks.crossed,
                      NEW i \in Events, ~IsTool(i), i <= phone.after
               PROVE  i \in phone.hist
    BY DEF WalkComplete
  <2>1. WalkTypes /\ PhoneIsWhole BY DEF WalkInv
  <2>2. i \in Nat /\ phone.before \in Nat BY <2>1, SaidFacts DEF WalkTypes
  <2>3. ~(i < phone.before) BY <2>1 DEF PhoneIsWhole
  <2>4. phone.before <= i BY <2>2, <2>3
  <2> QED BY <2>1, <2>4 DEF PhoneIsWhole
<1> QED BY <1>1, WalkInvariant, PTL
=============================================================================
