------------------------------ MODULE PhoneThread ------------------------------
(***************************************************************************)
(* One thread on one phone (App.tsx): its user sends messages, Codex answers *)
(* them, the Bridge echoes and forwards, and the phone merges its own         *)
(* pending message, the stream and the polls into what it shows.              *)
(*                                                                         *)
(* The retries of a send and the Bridge's deduplication are in MessageRelay,  *)
(* the hub and its streams in LiveFeed, the windows of a page in               *)
(* SessionHistory: here a page holds the events from the cursor on, and the    *)
(* Bridge may have lost the cursor.                                           *)
(***************************************************************************)
EXTENDS ThreadView, FiniteSets

CONSTANTS Texts,      \* what the user writes
          Bounds      \* what one behaviour may hold: [sends, breaks, resets, listings, answers],
                      \* its messages, breaks of the stream, pages without the cursor, what its
                      \* listing may be and the words of Codex's answer in each turn

ASSUME PhoneThreadAssumption ==
  \A bound \in Bounds :
    /\ Len(bound.answers) \in Nat /\ bound.sends \in 1 .. Len(bound.answers)
    /\ bound.breaks \in Nat /\ bound.resets \in Nat
    /\ bound.listings \in (SUBSET {"same", "own"}) \ {{}}

VARIABLES items,   \* the thread in Codex
          listing, \* whether its pages name the items as its notifications do
          bridge,  \* what the Bridge has done with each message of the phone
          stream,  \* the events on their way to the phone
          view,    \* eventsByThread
          sync,    \* eventSyncByThread: initialized, afterCursor
          sending, \* the message handleSubmit is about, 0 for none
          poll,    \* the request of loadEvents
          clock,   \* what createdAt is taken from
          left,    \* how much of its bound is left
          astray   \* history: an event was heard when the polls had passed its item,
                   \* or the completion of an answer was lost with the stream

threadVars == <<items, listing, bridge, stream, view, sync, sending, poll, clock, left, astray>>

Item(by, text, turn, over) == [by |-> by, text |-> text, turn |-> turn, over |-> over, at |-> clock]
Event(id, by, text, turn) ==
  [id |-> id, by |-> by, text |-> text, turn |-> turn, delta |-> FALSE, pending |-> FALSE,
   at |-> clock, order |-> 0]
Client(c) == Event(<<"client", c>>, "user", bridge[c].text, 0)
Live(n, item) == Event(<<"live", n>>, item.by, item.text, item.turn)

\* An event of a page: of the item as it is now, at the time its turn began.
Listed(n) ==
  [Live(n, items[n]) EXCEPT !.id = IF listing = "same" THEN @ ELSE <<"item", n>>,
                            !.at = items[n].at, !.order = n]

Answers == left.answers

Streams(event) == stream' = [stream EXCEPT !.queue = IF stream.up THEN Append(@, event) ELSE @]
Ticks == clock' = clock + 1
Turns == Cardinality({n \in DOMAIN items : items[n].by = "user"})
Answered == items # << >> => Last(items).over

\* Codex begins with a thread of some turns that were answered in full.
ThreadInit ==
  /\ left \in Bounds
  /\ clock = Len(Answers) + 1
  /\ \E turns \in 0 .. Len(Answers) - left.sends, text \in Texts :
       items = [n \in 1 .. 2 * turns |->
                 LET turn == (n + 1) \div 2
                 IN  [by |-> IF n % 2 = 1 THEN "user" ELSE "assistant", turn |-> turn,
                      text |-> IF n % 2 = 1 THEN <<text>> ELSE Answers[turn],
                      over |-> TRUE, at |-> turn]]
  /\ listing \in left.listings
  /\ bridge = << >> /\ view = << >> /\ sending = 0
  /\ stream = [up |-> TRUE, queue |-> << >>]
  /\ sync = [on |-> FALSE, after |-> 0]
  /\ poll = [pc |-> "idle"]
  /\ astray = FALSE

(***************************************************************************)
(* Sending a message.                                                      *)
(***************************************************************************)
\* handleSubmit: the message is shown as pending and posted.
Submit(text) ==
  /\ sending = 0 /\ left.sends > 0
  /\ LET c == Len(bridge) + 1
         local == [Event(<<"client", c>>, "user", <<text>>, 0) EXCEPT !.pending = TRUE]
     IN  /\ bridge' = Append(bridge, [pc |-> "posted", text |-> <<text>>])
         /\ sending' = c
         /\ view' = Shows(view, local)
  /\ left' = [left EXCEPT !.sends = @ - 1] /\ Ticks
  /\ UNCHANGED <<items, listing, stream, sync, poll, astray>>

Reaches(c, pc) == bridge' = [bridge EXCEPT ![c].pc = pc]

\* deliver_user_message: Codex begins a turn and notifies; the echo comes after.  What
\* the Bridge refuses is not taken, as what it has not got to yet.
Accept(c) ==
  /\ bridge[c].pc = "posted" /\ Answered
  /\ LET item == Item("user", bridge[c].text, Turns + 1, TRUE)
     IN  /\ items' = Append(items, [item EXCEPT !.over = FALSE])
         /\ Streams(Live(Len(items) + 1, item))
  /\ Reaches(c, "taken") /\ Ticks
  /\ UNCHANGED <<listing, view, sync, sending, poll, left, astray>>

Echo(c) ==
  /\ bridge[c].pc = "taken" /\ Reaches(c, "echoed")
  /\ Streams(Client(c)) /\ Ticks
  /\ UNCHANGED <<items, listing, view, sync, sending, poll, left, astray>>

Sent ==
  /\ sending # 0 /\ bridge[sending].pc = "echoed"
  /\ sending' = 0
  /\ UNCHANGED <<items, listing, bridge, stream, view, sync, poll, clock, left, astray>>

\* Mutant of NotSent: the message stays.
NotSentKept ==
  /\ sending # 0
  /\ sending' = 0
  /\ UNCHANGED <<items, listing, bridge, stream, view, sync, poll, clock, left, astray>>

\* The Bridge refuses, or no attempt brings its answer back.
NotSent ==
  /\ sending # 0
  /\ view' = Only(view, {e \in ToSet(view) : e.id # <<"client", sending>>})
  /\ sending' = 0
  /\ UNCHANGED <<items, listing, bridge, stream, sync, poll, clock, left, astray>>

(***************************************************************************)
(* Codex answers, word by word, and notifies.                              *)
(***************************************************************************)
Speak ==
  /\ ~Answered
  /\ LET turn == Last(items).turn
         begun == Last(items).by = "assistant"
         said == IF begun THEN Len(Last(items).text) ELSE 0
         n == IF begun THEN Len(items) ELSE Len(items) + 1
     IN  /\ said < Len(Answers[turn])
         /\ LET word == <<Answers[turn][said + 1]>>
            IN  /\ items' = IF begun
                            THEN [items EXCEPT ![n].text = @ \o word]
                            ELSE Append([items EXCEPT ![n - 1].over = TRUE],
                                        [Item("assistant", word, turn, FALSE)
                                           EXCEPT !.at = Last(items).at])
                /\ Streams([Event(<<"live", n>>, "assistant", word, turn) EXCEPT !.delta = TRUE])
  /\ Ticks
  /\ UNCHANGED <<listing, bridge, view, sync, sending, poll, left, astray>>

Finish ==
  /\ ~Answered
  /\ LET last == Last(items)
     IN  /\ last.by = "assistant" /\ last.text = Answers[last.turn]
         /\ items' = [items EXCEPT ![Len(items)].over = TRUE]
         /\ Streams(Live(Len(items), last))
  /\ astray' = (astray \/ ~stream.up)
  /\ Ticks
  /\ UNCHANGED <<listing, bridge, view, sync, sending, poll, left>>

(***************************************************************************)
(* The stream.                                                             *)
(***************************************************************************)
Hear ==
  /\ stream.queue # << >>
  /\ LET e == Head(stream.queue)
     IN  /\ view' = Shows(view, e)
         /\ astray' = (astray \/ (e.id[1] = "live" /\ e.id[2] < sync.after))
  /\ stream' = [stream EXCEPT !.queue = Tail(@)]
  /\ UNCHANGED <<items, listing, bridge, sync, sending, poll, clock, left>>

\* The socket closes; the hub keeps no events for the next one.
Break ==
  /\ stream.up /\ left.breaks > 0
  /\ stream' = [up |-> FALSE, queue |-> << >>]
  /\ left' = [left EXCEPT !.breaks = @ - 1]
  /\ astray' = (astray \/ \E e \in ToSet(stream.queue) : IsAnswer(e))
  /\ UNCHANGED <<items, listing, bridge, view, sync, sending, poll, clock>>

Connect ==
  /\ ~stream.up /\ stream' = [stream EXCEPT !.up = TRUE]
  /\ UNCHANGED <<items, listing, bridge, view, sync, sending, poll, clock, left, astray>>

(***************************************************************************)
(* loadEvents.  The page is what Codex lists when the Bridge asks it; the    *)
(* answer may be late.                                                      *)
(***************************************************************************)
Page(from) == [n \in 1 .. Len(items) + 1 - from |-> Listed(from + n - 1)]

Poll ==
  /\ poll.pc = "idle"
  /\ \E lost \in {FALSE} \cup {sync.on /\ sync.after # 0 /\ left.resets > 0} :
       LET since == sync.on /\ sync.after # 0 /\ ~lost
       IN  /\ poll' = [pc |-> "answered", canonical |-> (~sync.on \/ lost), items |-> items,
                       page |-> Page(IF since THEN sync.after ELSE 1)]
           /\ left' = IF lost THEN [left EXCEPT !.resets = @ - 1] ELSE left
  /\ UNCHANGED <<items, listing, bridge, stream, view, sync, sending, clock, astray>>

Receive ==
  /\ poll.pc = "answered"
  /\ view' = IF poll.canonical THEN MergePolled(view, poll.page)
             ELSE MergeIncremental(view, poll.page)
  /\ sync' = [on |-> TRUE, after |-> IF poll.page # << >> THEN Len(poll.items) ELSE sync.after]
  /\ poll' = [pc |-> "idle"]
  /\ UNCHANGED <<items, listing, bridge, stream, sending, clock, left, astray>>

ThreadNext ==
  \/ \E text \in Texts : Submit(text)
  \/ \E c \in DOMAIN bridge : Accept(c) \/ Echo(c)
  \/ Sent \/ NotSent \/ Speak \/ Finish \/ Hear \/ Break \/ Connect \/ Poll \/ Receive

(***************************************************************************)
(* Properties.                                                             *)
(***************************************************************************)
\* Nothing is under way, and the phone is about to merge a page of the thread
\* as it is.
Current ==
  /\ Answered /\ sending = 0 /\ stream.queue = << >>
  /\ \A c \in DOMAIN bridge : bridge[c].pc # "taken"
  /\ poll.pc = "answered" /\ poll.items = items

Says(events) == [i \in DOMAIN events |-> <<events[i].by, events[i].text>>]
AtRest(events) == \A i \in DOMAIN events : ~events[i].pending

\* A poll that finds everything at rest leaves the phone with the thread as Codex has
\* it: every message and every answer once and in order, whichever of the pending
\* message, its echo, the notifications, earlier pages and failures came first
\* (appendOrMergeSessionEvent, mergePolledSessionEvents, mergeIncrementalSessionEvents).
ThreadShown ==
  [][Current /\ Receive /\ ~astray => Says(view') = Says(items) /\ AtRest(view')]_threadVars

\* A poll that replaces the history leaves the phone with the thread as Codex has it,
\* whatever it showed before, and even if the stream had led it astray
\* (mergePolledSessionEvents).
FullPageShown ==
  [][Receive /\ poll.canonical /\ poll.items = items /\ sending = 0
       => Says(view') = Says(items) /\ AtRest(view')]_threadVars

\* A poll that is up to date leaves the phone with exactly the messages that Codex has, and
\* none of them as being sent, whichever page it gets and whatever the stream has missed
\* (mergePolledSessionEvents, mergeIncrementalSessionEvents).
MessagesSettle ==
  [][Receive /\ poll.items = items /\ sending = 0
       => /\ UserTexts(view') = {items[n].text : n \in {n \in DOMAIN items : items[n].by = "user"}}
          /\ AtRest(view')]_threadVars

\* A message that is being sent is on the screen until the request is over, whatever
\* echoes, pages and resets come meanwhile.
SendingIsShown ==
  /\ sending # 0 /\ bridge[sending].pc = "posted"
  /\ \A n \in DOMAIN items : items[n].text # bridge[sending].text
  => bridge[sending].text \in UserTexts(view)
=============================================================================
