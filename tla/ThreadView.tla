------------------------------ MODULE ThreadView ------------------------------
(***************************************************************************)
(* How the phone merges what it learns of a thread into the events it shows  *)
(* (App.tsx): its own message while it is being sent, the Bridge's echo of    *)
(* it, Codex's live events with their deltas, and the pages of a poll.        *)
(*                                                                         *)
(* An event is [id, by, text, turn, delta, pending, at, order]:  by is        *)
(* "user" or "assistant";  text a sequence of words;  turn and order are 0    *)
(* where the event names none.  A message of the phone and its echo have the   *)
(* id <<"client", n>>;  an event of Codex has <<"live", n>> in a notification   *)
(* and may have another, <<"item", n>>, in a page.  The events of one thread    *)
(* meet within the reconciliation window.  Reasoning and plans are merged as    *)
(* answers are, tools by their id alone.                                       *)
(***************************************************************************)
EXTENDS Naturals, Sequences, SequencesExt

IsUser(e) == e.by = "user" /\ ~e.delta
IsAnswer(e) == e.by = "assistant" /\ ~e.delta
Echoed(e) == IsUser(e) /\ e.id[1] = "client"
Canonical(e) == IsUser(e) /\ ~e.pending /\ ~Echoed(e)
UserTexts(view) == {e.text : e \in {e \in ToSet(view) : IsUser(e)}}

\* The events of a view that are kept, in their order.
Only(view, kept) ==
  LET only[i \in 0 .. Len(view)] ==
        IF i = 0 THEN << >>
        ELSE IF view[i] \in kept THEN Append(only[i - 1], view[i]) ELSE only[i - 1]
  IN  only[Len(view)]

\* shouldReconcileUserMessages
Reconciles(old, new) ==
  /\ IsUser(old) /\ IsUser(new) /\ old.text = new.text
  /\ IF old.pending THEN ~new.pending ELSE Echoed(old) \/ Echoed(new)

\* A delta continues an answer; one that continues none becomes an answer.
Streamed(e, delta) == [e EXCEPT !.text = @ \o delta.text, !.at = delta.at]
Begun(e) == [e EXCEPT !.delta = FALSE]

\* appendOrMergeSessionEvent, of an id the phone has
MergedById(view, i, e) ==
  ReplaceAt(view, i, IF e.delta /\ IsAnswer(view[i]) THEN Streamed(view[i], e) ELSE e)

\* A user message that another one stands for: the one Codex lists stays, and an
\* echo is not turned back into a pending message.
Reconciled(view, i, e) ==
  IF (e.pending /\ Echoed(view[i])) \/ (Echoed(e) /\ Canonical(view[i]))
  THEN view ELSE ReplaceAt(view, i, e)

Appended(view, e) ==
  IF e.delta /\ view # << >> /\ IsAnswer(Last(view))
  THEN ReplaceAt(view, Len(view), Streamed(Last(view), e))
  ELSE Append(view, Begun(e))

AppendOrMerge(view, e) ==
  LET same == SelectInSeq(view, LAMBDA old : old.id = e.id)
      twin == SelectInSeq(view, LAMBDA old : Reconciles(old, e))
  IN  IF same # 0 THEN MergedById(view, same, e)
      ELSE IF twin # 0 THEN Reconciled(view, twin, e)
      ELSE Appended(view, e)

Merged(events) ==
  LET merged[i \in 0 .. Len(events)] ==
        IF i = 0 THEN << >> ELSE AppendOrMerge(merged[i - 1], events[i])
  IN  merged[Len(events)]

\* compareSessionEvents; the sort is stable.
Precedes(a, b) == \/ a.at < b.at
                  \/ a.at = b.at /\ a.turn = b.turn /\ a.order # 0 /\ a.order < b.order
Inserted(sorted, e) ==
  LET later == SelectInSeq(sorted, LAMBDA x : Precedes(e, x))
  IN  IF later = 0 THEN Append(sorted, e) ELSE InsertAt(sorted, later, e)
Sorted(view) ==
  LET sorted[i \in 0 .. Len(view)] ==
        IF i = 0 THEN << >> ELSE Inserted(sorted[i - 1], view[i])
  IN  sorted[Len(view)]

Shows(view, e) == Sorted(AppendOrMerge(view, e))

\* Mutant of Carried: nothing is.
CarriedNone(view, page) == << >>

\* What a page that replaces the history leaves of it.
Carried(view, page) ==
  Only(view, {e \in ToSet(view) : e.pending /\ e.text \notin UserTexts(page)})

\* mergePolledSessionEvents
MergePolled(view, page) == Sorted(Merged(page \o Carried(view, page)))

\* shouldReplaceLiveTurnEvent
Replaces(new, old) ==
  \/ old.id = new.id
  \/ /\ old.turn # 0 /\ old.turn = new.turn
     /\ \/ IsUser(old) /\ IsUser(new) /\ old.text = new.text
        \/ /\ IsAnswer(old) /\ IsAnswer(new)
           /\ (IsPrefix(old.text, new.text) \/ IsPrefix(new.text, old.text))

\* Mutant of Retained: only an event of the same id is replaced.
RetainedLive(view, page) ==
  Only(view, {e \in ToSet(view) : /\ \A new \in ToSet(page) : e.id # new.id
                                  /\ e.pending => e.text \notin UserTexts(page)})

\* What an incremental page leaves of the history.
Retained(view, page) ==
  Only(view, {e \in ToSet(view) : /\ \A new \in ToSet(page) : ~Replaces(new, e)
                                  /\ e.pending => e.text \notin UserTexts(page)})

\* mergeIncrementalSessionEvents
MergeIncremental(view, page) == Sorted(Merged(Retained(view, page) \o page))
=============================================================================
