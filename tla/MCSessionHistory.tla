---------------------------- MODULE MCSessionHistory ----------------------------
\* Constant values for model checking SessionHistory: the threads.
EXTENDS SessionHistory

Message(t) == [turn |-> t, tool |-> FALSE]
Tool(t) == [turn |-> t, tool |-> TRUE]

\* A thread with a tool that leaves the first page, its tools listed; one with a tool that
\* runs after two messages of its turn, not listed; and one that outgrows what one
\* request may fetch.
Threads ==
  {[items |-> << Message(1), Tool(1), Message(2), Message(3) >>, lists |-> TRUE],
   [items |-> << Message(1), Message(2), Message(3), Message(3), Tool(3) >>, lists |-> FALSE],
   [items |-> << Message(1), Message(2), Message(3), Message(4), Message(5) >>, lists |-> TRUE]}

\* The thread of the run that drops a cursor.
Thread == << Message(1), Message(2), Tool(2), Message(3) >>
ListedThread == {[items |-> Thread, lists |-> TRUE]}
=============================================================================
