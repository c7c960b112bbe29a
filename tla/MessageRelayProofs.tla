------------------------- MODULE MessageRelayProofs --------------------------
(***************************************************************************)
(* Theorems about MessageRelay, for every set of messages, any number of     *)
(* requests per message, any size of the cache and any number of restarts.   *)
(***************************************************************************)
EXTENDS MessageRelay, SequenceTheorems, TLAPS

(***************************************************************************)
(* The inductive invariant                                                  *)
(***************************************************************************)

\* The phone counts its requests: another one is only due while there is one left.
PhoneCounts ==
  \A m \in Messages :
    /\ phone[m].pc = "idle" => phone[m].attempt = 0
    /\ phone[m].pc = "waiting" => phone[m].attempt \in 1 .. Attempts
    /\ phone[m].pc = "backoff" => phone[m].attempt < Attempts

\* A task between its claim and its result is the one the cache names.
ClaimMatch == \A c \in Calls : task[c] \in Claiming <=> entry[c[1]] = InFlight(c)

\* A key that nobody has claimed, or whose claim has not reached Codex, has no delivery
\* that is not excused.
Account ==
  \A m \in Messages :
    /\ delivered[m] <= 1 + excuses[m] + restarts
    /\ entry[m] = Vacant => delivered[m] <= excuses[m] + restarts
    /\ \A c \in Calls : c[1] = m /\ task[c] = "run" => delivered[m] <= excuses[m] + restarts

\* Whoever says that a message is sent has seen it delivered.
Evidence ==
  /\ \A m \in Messages : entry[m] = Completed \/ phone[m].pc = "sent" => delivered[m] >= 1
  /\ \A c \in Calls : task[c] \in {"effected", "notify_ok"} \/ call[c].pc = "ok" => delivered[c[1]] >= 1

RelayInv == TypeOK /\ PhoneCounts /\ ClaimMatch /\ Account /\ Evidence

(***************************************************************************)
(* Values                                                                  *)
(***************************************************************************)

\* The entries of a key tell a claim from no claim and from a delivered key.
LEMMA EntriesDiffer ==
  /\ Vacant # Completed
  /\ \A c \in Calls : InFlight(c) # Vacant /\ InFlight(c) # Completed
  /\ \A c, d \in Calls : InFlight(c) = InFlight(d) => c = d
  /\ \A c \in Calls : Vacant \in Entries /\ Completed \in Entries /\ InFlight(c) \in Entries
  BY DEF Vacant, Completed, InFlight, Entries

\* A state of an entry names the entry.
LEMMA EntryOfState ==
  \A x \in Entries :
    /\ x.state = "vacant" => x = Vacant
    /\ x.state = "completed" => x = Completed
    /\ x.state = "in_flight" => x.by \in Calls /\ x = InFlight(x.by)
  BY DEF Vacant, Completed, InFlight, Entries

\* A call is a message and a number.
LEMMA CallIsPair ==
  /\ \A c \in Calls : c[1] \in Messages /\ c[2] \in 1 .. Attempts /\ c = <<c[1], c[2]>>
  /\ \A m \in Messages, i \in 1 .. Attempts : <<m, i>> \in Calls /\ <<m, i>>[1] = m
  BY DEF Calls

\* What a request is set to is a state of a request.
LEMMA CallStates ==
  /\ \A pc \in {"none", "transit", "claim", "owner", "ok", "error", "gone"} :
       At(pc) \in CallState /\ At(pc).pc = pc
  /\ \A c \in Calls : [pc |-> "wait", on |-> c] \in CallState
  BY DEF At, CallState

\* An answer is given or lost.
LEMMA Answers ==
  \A c \in Calls, pc \in {"ok", "error"} :
    Answer(c, pc) \in CallState /\ Answer(c, pc).pc \in {pc, "gone"}
  BY CallStates DEF Answer

(***************************************************************************)
(* The steps, one lemma for each action                                     *)
(***************************************************************************)

\* The empty cache, no request and no delivery.
LEMMA InitKeeps == Init => RelayInv
<1> SUFFICES ASSUME Init PROVE RelayInv
  OBVIOUS
<1>1. TypeOK
  BY MessageRelayAssumption, CallStates, EntriesDiffer DEF Init, TypeOK, PhoneState, TaskSteps, Entries
<1>2. PhoneCounts
  BY MessageRelayAssumption DEF Init, PhoneCounts
<1>3. ClaimMatch
  BY CallIsPair, EntriesDiffer DEF Init, ClaimMatch, Claiming
<1>4. Account
  <2>1. ASSUME NEW m \in Messages
        PROVE  delivered[m] <= excuses[m] + restarts /\ delivered[m] <= 1 + excuses[m] + restarts
    <3>1. delivered[m] = 0 /\ excuses[m] = 0 /\ restarts = 0
      BY DEF Init
    <3>2. QED
      BY <3>1
  <2>2. QED
    BY <2>1 DEF Account
<1>5. Evidence
  BY CallIsPair, EntriesDiffer, CallStates DEF Init, Evidence
<1>6. QED
  BY <1>1, <1>2, <1>3, <1>4, <1>5 DEF RelayInv

\* A request that leaves is one the phone had left.
LEMMA SendKeeps == \A m \in Messages : RelayInv /\ PhoneSend(m) => RelayInv'
<1> SUFFICES ASSUME NEW m \in Messages, RelayInv, PhoneSend(m) PROVE RelayInv'
  OBVIOUS
<1> USE DEF RelayInv, history
<1> DEFINE next == phone[m].attempt + 1
<1>a. phone[m].attempt \in Nat /\ phone[m].attempt < Attempts
  <2>1. phone[m].attempt \in 0 .. Attempts
    BY DEF TypeOK, PhoneState
  <2>2. CASE phone[m].pc = "idle"
    <3>1. phone[m].attempt = 0
      BY <2>2 DEF PhoneCounts
    <3>2. QED
      BY <3>1, MessageRelayAssumption
  <2>3. CASE phone[m].pc = "backoff"
    <3>1. phone[m].attempt < Attempts
      BY <2>3 DEF PhoneCounts
    <3>2. QED
      BY <2>1, <3>1
  <2>4. phone[m].pc \in {"idle", "backoff"}
    BY DEF PhoneSend
  <2>5. QED
    BY <2>2, <2>3, <2>4
<1>b. next \in 1 .. Attempts
  BY <1>a, MessageRelayAssumption
<1>1. next \in 1 .. Attempts /\ <<m, next>> \in Calls
  BY <1>b, CallIsPair
<1>2. /\ phone' = [phone EXCEPT ![m] = [pc |-> "waiting", attempt |-> next]]
      /\ call' = [call EXCEPT ![<<m, next>>] = At("transit")]
      /\ UNCHANGED <<task, entry, order, restarts, delivered, excuses>>
  BY DEF PhoneSend
<1> HIDE DEF next
<1>3. TypeOK'
  BY <1>1, <1>2, CallStates, MessageRelayAssumption DEF TypeOK, PhoneState
<1>4. PhoneCounts'
  BY <1>1, <1>2 DEF PhoneCounts, TypeOK
<1>5. ClaimMatch' /\ Account'
  BY <1>2 DEF ClaimMatch, Account
<1>6. Evidence'
  BY <1>1, <1>2, CallStates DEF Evidence, TypeOK
<1>7. QED
  BY <1>3, <1>4, <1>5, <1>6

\* The phone shows a message as sent only on an answer that says so.
LEMMA PhoneKeeps == \A m \in Messages : RelayInv /\ (PhoneAnswered(m) \/ PhoneCutOff(m)) => RelayInv'
<1> SUFFICES ASSUME NEW m \in Messages, RelayInv, PhoneAnswered(m) \/ PhoneCutOff(m) PROVE RelayInv'
  OBVIOUS
<1> USE DEF RelayInv, history
<1>1. Current(m) \in Calls /\ Current(m)[1] = m /\ phone[m].attempt \in 1 .. Attempts
  BY CallIsPair DEF Current, PhoneAnswered, PhoneCutOff, PhoneCounts
<1>2. /\ call' \in {call, [call EXCEPT ![Current(m)] = At("gone")]}
      /\ UNCHANGED <<task, entry, order, restarts, delivered, excuses>>
  BY DEF PhoneAnswered, PhoneCutOff
<1>3. PICK pc \in {"sent", "failed", "backoff"} :
        /\ phone' = [phone EXCEPT ![m].pc = pc]
        /\ pc = "sent" => call[Current(m)].pc = "ok"
        /\ pc = "backoff" => phone[m].attempt < Attempts
  BY DEF PhoneAnswered, PhoneCutOff, AfterFailure, Rejected
<1>4. phone'[m].pc = pc /\ phone'[m].attempt = phone[m].attempt
  BY <1>3 DEF TypeOK, PhoneState
<1>5. TypeOK'
  BY <1>1, <1>2, <1>3, CallStates DEF TypeOK, PhoneState
<1>6. PhoneCounts'
  BY <1>3, <1>4 DEF PhoneCounts, TypeOK
<1>7. ClaimMatch' /\ Account'
  BY <1>2 DEF ClaimMatch, Account
<1>8. \A c \in Calls : call'[c].pc = "ok" => call[c].pc = "ok"
  BY <1>1, <1>2, CallStates DEF TypeOK
<1>9. \A n \in Messages : phone'[n].pc = "sent" => delivered[n] >= 1
  <2> SUFFICES ASSUME NEW n \in Messages, phone'[n].pc = "sent" PROVE delivered[n] >= 1
    OBVIOUS
  <2>1. CASE n = m
    BY <2>1, <1>1, <1>3, <1>4 DEF Evidence
  <2>2. CASE n # m
    BY <2>2, <1>3 DEF Evidence, TypeOK
  <2>3. QED
    BY <2>1, <2>2
<1>10. Evidence'
  BY <1>2, <1>8, <1>9 DEF Evidence
<1>11. QED
  BY <1>5, <1>6, <1>7, <1>10

\* A request that claims a key finds it vacant, so the message has no delivery to account for.
LEMMA ClaimKeeps == \A c \in Calls : RelayInv /\ Claim(c) => RelayInv'
<1> SUFFICES ASSUME NEW c \in Calls, RelayInv, Claim(c) PROVE RelayInv'
  OBVIOUS
<1> USE DEF RelayInv, history
<1>0. c[1] \in Messages /\ entry[c[1]] \in Entries
  BY CallIsPair DEF TypeOK
<1>1. CASE entry[c[1]].state = "completed"
  <2>1. /\ entry[c[1]] = Completed
        /\ call' = [call EXCEPT ![c] = Answer(c, "ok")]
        /\ UNCHANGED <<phone, task, entry, order, restarts, delivered, excuses>>
    BY <1>0, <1>1, EntryOfState DEF Claim
  <2>2. TypeOK' /\ PhoneCounts' /\ ClaimMatch' /\ Account'
    BY <2>1, Answers DEF TypeOK, PhoneCounts, ClaimMatch, Account
  <2>3. Evidence'
    BY <1>0, <2>1, Answers DEF TypeOK, Evidence
  <2>4. QED
    BY <2>2, <2>3
<1>2. CASE entry[c[1]].state = "in_flight"
  <2>1. /\ entry[c[1]].by \in Calls
        /\ call' = [call EXCEPT ![c] = [pc |-> "wait", on |-> entry[c[1]].by]]
        /\ UNCHANGED <<phone, task, entry, order, restarts, delivered, excuses>>
    BY <1>0, <1>2, EntryOfState DEF Claim
  <2>2. TypeOK' /\ PhoneCounts' /\ ClaimMatch' /\ Account'
    BY <2>1, CallStates DEF TypeOK, PhoneCounts, ClaimMatch, Account
  <2>3. Evidence'
    BY <2>1 DEF TypeOK, Evidence
  <2>4. QED
    BY <2>2, <2>3
<1>3. CASE entry[c[1]].state = "vacant"
  <2>1. /\ entry[c[1]] = Vacant
        /\ call' = [call EXCEPT ![c] = At("owner")]
        /\ task' = [task EXCEPT ![c] = "run"]
        /\ entry' = [entry EXCEPT ![c[1]] = InFlight(c)]
        /\ UNCHANGED <<phone, order, restarts, delivered, excuses>>
    BY <1>0, <1>3, EntryOfState DEF Claim
  <2>2. TypeOK' /\ PhoneCounts'
    BY <1>0, <2>1, CallStates, EntriesDiffer DEF TypeOK, PhoneCounts, TaskSteps
  <2>3. ClaimMatch'
    <3> SUFFICES ASSUME NEW d \in Calls
                 PROVE  task'[d] \in Claiming <=> entry'[d[1]] = InFlight(d)
      BY DEF ClaimMatch
    <3>1. CASE d = c
      BY <3>1, <1>0, <2>1 DEF TypeOK, Claiming
    <3>2. CASE d # c /\ d[1] = c[1]
      BY <3>2, <1>0, <2>1, EntriesDiffer DEF TypeOK, ClaimMatch
    <3>3. CASE d[1] # c[1]
      BY <3>3, <1>0, <2>1, CallIsPair DEF TypeOK, ClaimMatch
    <3>4. QED
      BY <3>1, <3>2, <3>3
  <2>4. Account'
    BY <1>0, <2>1, EntriesDiffer, CallIsPair DEF TypeOK, Account
  <2>5. Evidence'
    BY <1>0, <2>1, EntriesDiffer, CallIsPair, CallStates DEF TypeOK, Evidence
  <2>6. QED
    BY <2>2, <2>3, <2>4, <2>5
<1>4. QED
  BY <1>1, <1>2, <1>3 DEF Claim

\* A dropped handler takes nothing with it.
LEMMA DropKeeps == \A c \in Calls : RelayInv /\ CallDropped(c) => RelayInv'
<1> SUFFICES ASSUME NEW c \in Calls, RelayInv, CallDropped(c) PROVE RelayInv'
  OBVIOUS
<1> USE DEF RelayInv, history
<1>1. TypeOK' /\ PhoneCounts' /\ ClaimMatch' /\ Account'
  BY CallStates DEF CallDropped, TypeOK, PhoneCounts, ClaimMatch, Account
<1>2. Evidence'
  BY CallStates DEF CallDropped, TypeOK, Evidence
<1>3. QED
  BY <1>1, <1>2

\* A task that reaches Codex is the only one to reach it.
LEMMA EffectKeeps == \A c \in Calls : RelayInv /\ TaskEffect(c) => RelayInv'
<1> SUFFICES ASSUME NEW c \in Calls, RelayInv, TaskEffect(c) PROVE RelayInv'
  OBVIOUS
<1> USE DEF RelayInv, history
<1>1. /\ c[1] \in Messages /\ task[c] = "run" /\ entry[c[1]] = InFlight(c)
      /\ task' = [task EXCEPT ![c] = "effected"]
      /\ delivered' = [delivered EXCEPT ![c[1]] = @ + 1]
      /\ UNCHANGED <<phone, call, entry, order, restarts, excuses>>
  BY CallIsPair DEF TaskEffect, ClaimMatch, Claiming
<1>2. TypeOK' /\ PhoneCounts'
  BY <1>1 DEF TypeOK, PhoneCounts, TaskSteps
<1>3. ClaimMatch'
  BY <1>1 DEF ClaimMatch, TypeOK, Claiming
<1>4. \A d \in Calls : d[1] = c[1] => task'[d] # "run"
  BY <1>1, EntriesDiffer DEF ClaimMatch, Claiming, TypeOK
<1>5. Account'
  <2> SUFFICES ASSUME NEW m \in Messages
               PROVE  /\ delivered'[m] <= 1 + excuses[m] + restarts
                      /\ entry[m] = Vacant => delivered'[m] <= excuses[m] + restarts
                      /\ \A d \in Calls : d[1] = m /\ task'[d] = "run" =>
                           delivered'[m] <= excuses[m] + restarts
    BY <1>1 DEF Account
  <2>1. CASE m = c[1]
    BY <2>1, <1>1, <1>4, EntriesDiffer DEF Account, TypeOK
  <2>2. CASE m # c[1]
    BY <2>2, <1>1 DEF Account, TypeOK
  <2>3. QED
    BY <2>1, <2>2
<1>6. Evidence'
  <2>1. \A m \in Messages : delivered'[m] >= delivered[m] /\ delivered'[c[1]] >= 1
    BY <1>1 DEF TypeOK
  <2>2. \A m \in Messages : delivered[m] >= 1 => delivered'[m] >= 1
    BY <2>1, <1>1 DEF TypeOK
  <2>3. \A d \in Calls : d # c => task'[d] = task[d]
    BY <1>1 DEF TypeOK
  <2>4. QED
    BY <1>1, <2>1, <2>2, <2>3, CallIsPair DEF Evidence
<1>7. QED
  BY <1>2, <1>3, <1>5, <1>6

\* A failing delivery leaves its key vacant, and what it delivered is excused.
LEMMA FailKeeps == \A c \in Calls : RelayInv /\ TaskFails(c) => RelayInv'
<1> SUFFICES ASSUME NEW c \in Calls, RelayInv, TaskFails(c) PROVE RelayInv'
  OBVIOUS
<1> USE DEF RelayInv, history
<1>1. /\ c[1] \in Messages /\ task[c] \in Claiming /\ entry[c[1]] = InFlight(c)
      /\ task' = [task EXCEPT ![c] = "notify_error"]
      /\ entry' = [entry EXCEPT ![c[1]] = Vacant]
      /\ UNCHANGED <<phone, call, order, restarts, delivered>>
  BY CallIsPair DEF TaskFails, ClaimMatch, Release
<1>2. /\ excuses' \in [Messages -> Nat]
      /\ \A m \in Messages : excuses'[m] >= excuses[m]
      /\ task[c] = "effected" => excuses'[c[1]] = excuses[c[1]] + 1
  BY <1>1 DEF TaskFails, TypeOK
<1>3. TypeOK' /\ PhoneCounts'
  BY <1>1, <1>2, EntriesDiffer DEF TypeOK, PhoneCounts, TaskSteps
<1>4. ClaimMatch'
  <2> SUFFICES ASSUME NEW d \in Calls
               PROVE  task'[d] \in Claiming <=> entry'[d[1]] = InFlight(d)
    BY DEF ClaimMatch
  <2>1. CASE d = c
    BY <2>1, <1>1, EntriesDiffer DEF TypeOK, Claiming
  <2>2. CASE d # c /\ d[1] = c[1]
    BY <2>2, <1>1, EntriesDiffer DEF TypeOK, ClaimMatch
  <2>3. CASE d[1] # c[1]
    BY <2>3, <1>1, CallIsPair DEF TypeOK, ClaimMatch
  <2>4. QED
    BY <2>1, <2>2, <2>3
<1> \A m \in Messages : delivered[m] \in Nat /\ excuses[m] \in Nat /\ excuses'[m] \in Nat /\ restarts \in Nat
  BY <1>2 DEF TypeOK
<1>5. delivered[c[1]] <= excuses'[c[1]] + restarts
  <2>1. CASE task[c] = "run"
    <3>1. delivered[c[1]] <= excuses[c[1]] + restarts
      BY <2>1, <1>1 DEF Account
    <3>2. QED
      BY <3>1, <1>1, <1>2
  <2>2. CASE task[c] = "effected"
    <3>1. delivered[c[1]] <= 1 + excuses[c[1]] + restarts
      BY <1>1 DEF Account
    <3>2. QED
      BY <3>1, <2>2, <1>1, <1>2
  <2>3. QED
    BY <2>1, <2>2, <1>1 DEF Claiming
<1>6. Account'
  <2> SUFFICES ASSUME NEW m \in Messages
               PROVE  /\ delivered[m] <= 1 + excuses'[m] + restarts
                      /\ entry'[m] = Vacant => delivered[m] <= excuses'[m] + restarts
                      /\ \A d \in Calls : d[1] = m /\ task'[d] = "run" =>
                           delivered[m] <= excuses'[m] + restarts
    BY <1>1 DEF Account
  <2>1. CASE m = c[1]
    BY <2>1, <1>5
  <2>2. CASE m # c[1]
    <3>1. excuses'[m] >= excuses[m]
      BY <1>2
    <3>2. entry'[m] = entry[m] /\ \A d \in Calls : d[1] = m => task'[d] = task[d]
      BY <2>2, <1>1 DEF TypeOK
    <3>3. QED
      BY <3>1, <3>2 DEF Account
  <2>3. QED
    BY <2>1, <2>2
<1>7. Evidence'
  BY <1>1, EntriesDiffer, CallIsPair DEF Evidence, TypeOK
<1>8. QED
  BY <1>3, <1>4, <1>6, <1>7

\* A notification tells the owner what its task has seen, and the others to look again.
LEMMA NotifyKeeps == \A c \in Calls : RelayInv /\ TaskNotifies(c) => RelayInv'
<1> SUFFICES ASSUME NEW c \in Calls, RelayInv, TaskNotifies(c) PROVE RelayInv'
  OBVIOUS
<1> USE DEF RelayInv, history
<1> DEFINE result == IF task[c] = "notify_ok" THEN "ok" ELSE "error"
<1>1. /\ task[c] \in {"notify_ok", "notify_error"}
      /\ task' = [task EXCEPT ![c] = "over"]
      /\ call' = [w \in Calls |->
           IF w \in Waiters(c) THEN At("claim")
           ELSE IF w = c /\ call[c].pc = "owner" THEN Answer(c, result) ELSE call[w]]
      /\ UNCHANGED <<phone, entry, order, restarts, delivered, excuses>>
  BY DEF TaskNotifies
<1>2. Answer(c, result) \in CallState /\ Answer(c, result).pc \in {result, "gone"}
  BY Answers
<1> HIDE DEF result
<1>3. call' \in [Calls -> CallState]
  BY <1>1, <1>2, CallStates DEF TypeOK
<1>4. TypeOK' /\ PhoneCounts'
  BY <1>1, <1>3 DEF TypeOK, PhoneCounts, TaskSteps
<1>5. ClaimMatch'
  BY <1>1 DEF ClaimMatch, TypeOK, Claiming
<1>6. Account'
  BY <1>1 DEF Account, TypeOK
<1>7. \A w \in Calls : call'[w].pc = "ok" => call[w].pc = "ok" \/ (w = c /\ task[c] = "notify_ok")
  <2> SUFFICES ASSUME NEW w \in Calls, call'[w].pc = "ok"
               PROVE  call[w].pc = "ok" \/ (w = c /\ task[c] = "notify_ok")
    OBVIOUS
  <2>1. CASE w \in Waiters(c)
    BY <2>1, <1>1, CallStates
  <2>2. CASE w \notin Waiters(c) /\ w = c /\ call[c].pc = "owner"
    BY <2>2, <1>1, <1>2 DEF result
  <2>3. CASE w \notin Waiters(c) /\ ~(w = c /\ call[c].pc = "owner")
    BY <2>3, <1>1
  <2>4. QED
    BY <2>1, <2>2, <2>3
<1>8. Evidence'
  BY <1>1, <1>7 DEF Evidence, TypeOK
<1>9. QED
  BY <1>4, <1>5, <1>6, <1>8

\* A restart empties the cache, and is the excuse for what it forgets.
LEMMA RestartKeeps == RelayInv /\ Restart => RelayInv'
<1> SUFFICES ASSUME RelayInv, Restart PROVE RelayInv'
  OBVIOUS
<1> USE DEF RelayInv
<1>1. restarts' \in 0 .. MaxRestarts /\ restarts' = restarts + 1 /\ restarts \in Nat
  BY MessageRelayAssumption DEF Restart, TypeOK
<1>2. /\ \A c \in Calls : task'[c] \in {"none", "over"} /\ (call'[c].pc = "ok" => FALSE)
      /\ \A m \in Messages : entry'[m] = Vacant
      /\ UNCHANGED <<phone, delivered, excuses>>
  BY CallStates DEF Restart, TypeOK
<1>3. TypeOK' /\ PhoneCounts'
  BY <1>1, CallStates, EntriesDiffer DEF Restart, TypeOK, PhoneCounts, TaskSteps, Entries
<1>4. ClaimMatch'
  BY <1>2, CallIsPair, EntriesDiffer DEF ClaimMatch, Claiming
<1>5. Account'
  BY <1>1, <1>2 DEF Account, TypeOK
<1>6. Evidence'
  BY <1>2, EntriesDiffer DEF Evidence
<1>7. QED
  BY <1>3, <1>4, <1>5, <1>6

\* Recording a key completes it and lets at most one key go, which is counted.
LEMMA RecordDoes ==
  ASSUME TypeOK, NEW m \in Messages, Record(m)
  PROVE  /\ order' \in Seq(Messages)
         /\ \E oldest \in Messages :
              /\ excuses' \in {excuses, [excuses EXCEPT ![oldest] = @ + 1]}
              /\ \/ entry' = [entry EXCEPT ![m] = Completed]
                 \/ /\ entry' = [[entry EXCEPT ![m] = Completed] EXCEPT ![oldest] = Vacant]
                    /\ excuses' = [excuses EXCEPT ![oldest] = @ + 1]
                    /\ oldest = m \/ entry[oldest] = Completed
<1> DEFINE queue == Append(order, m)
           completed == [entry EXCEPT ![m] = Completed]
           oldest == Head(queue)
<1>1. queue \in Seq(Messages) /\ queue # << >>
  <2>1. order \in Seq(Messages)
    BY DEF TypeOK
  <2>2. QED
    BY <2>1, AppendProperties
<1>2. oldest \in Messages /\ Tail(queue) \in Seq(Messages)
  BY <1>1, HeadTailProperties
<1>3. \/ order' = queue /\ entry' = completed /\ UNCHANGED excuses
      \/ /\ order' = Tail(queue)
         /\ entry' = IF completed[oldest] = Completed
                       THEN [completed EXCEPT ![oldest] = Vacant] ELSE completed
         /\ excuses' = [excuses EXCEPT ![oldest] = @ + 1]
  BY DEF Record
<1>4. completed[oldest] = Completed => oldest = m \/ entry[oldest] = Completed
  BY <1>2 DEF TypeOK
<1> HIDE DEF queue, completed, oldest
<1>5. order' \in Seq(Messages)
  BY <1>1, <1>2, <1>3
<1>6. CASE order' = queue /\ entry' = completed /\ UNCHANGED excuses
  BY <1>2, <1>5, <1>6 DEF completed
<1>7. CASE /\ entry' = IF completed[oldest] = Completed
                         THEN [completed EXCEPT ![oldest] = Vacant] ELSE completed
           /\ excuses' = [excuses EXCEPT ![oldest] = @ + 1]
  BY <1>2, <1>4, <1>5, <1>7 DEF completed
<1>8. QED
  BY <1>3, <1>6, <1>7

\* A delivery that is recorded is one delivery, and the key that makes room is excused.
LEMMA CompleteKeeps == \A c \in Calls : RelayInv /\ TaskCompletes(c) => RelayInv'
<1> SUFFICES ASSUME NEW c \in Calls, RelayInv, TaskCompletes(c) PROVE RelayInv'
  OBVIOUS
<1> USE DEF RelayInv
<1> DEFINE m == c[1]
<1>1. /\ m \in Messages /\ task[c] = "effected" /\ entry[m] = InFlight(c) /\ delivered[m] >= 1
      /\ task' = [task EXCEPT ![c] = "notify_ok"]
      /\ Record(m)
      /\ UNCHANGED <<phone, call, restarts, delivered>>
  BY CallIsPair DEF TaskCompletes, ClaimMatch, Claiming, Evidence
<1> HIDE DEF m
<1>2. order' \in Seq(Messages)
  BY <1>1, RecordDoes
<1>3. PICK oldest \in Messages :
        /\ excuses' \in {excuses, [excuses EXCEPT ![oldest] = @ + 1]}
        /\ \/ entry' = [entry EXCEPT ![m] = Completed]
           \/ /\ entry' = [[entry EXCEPT ![m] = Completed] EXCEPT ![oldest] = Vacant]
              /\ excuses' = [excuses EXCEPT ![oldest] = @ + 1]
              /\ oldest = m \/ entry[oldest] = Completed
  BY <1>1, RecordDoes
<1>4. /\ excuses' \in [Messages -> Nat]
      /\ \A n \in Messages : excuses'[n] >= excuses[n]
  <2> excuses \in [Messages -> Nat]
    BY DEF TypeOK
  <2>1. CASE excuses' = excuses
    BY <2>1
  <2>2. CASE excuses' = [excuses EXCEPT ![oldest] = @ + 1]
    BY <2>2
  <2>3. QED
    BY <1>3, <2>1, <2>2
<1>a. entry' \in [Messages -> Entries]
  <2>1. Completed \in Entries /\ Vacant \in Entries
    BY EntriesDiffer
  <2>2. entry \in [Messages -> Entries]
    BY DEF TypeOK
  <2>3. QED
    BY <1>1, <1>3, <2>1, <2>2
<1>b. task' \in [Calls -> TaskSteps]
  BY <1>1 DEF TypeOK, TaskSteps
<1>c. UNCHANGED <<phone, call, restarts>> /\ delivered' \in [Messages -> Nat]
  BY <1>1 DEF TypeOK
<1>5. TypeOK' /\ PhoneCounts'
  <2>1. TypeOK'
    BY <1>2, <1>4, <1>a, <1>b, <1>c DEF TypeOK
  <2>2. PhoneCounts'
    BY <1>c DEF PhoneCounts
  <2>3. QED
    BY <2>1, <2>2
\* What becomes of the keys.
<1>6. /\ entry'[m] \in {Completed, Vacant}
      /\ \A n \in Messages : n # m =>
           entry'[n] = entry[n] \/ (entry[n] = Completed /\ entry'[n] = Vacant)
      /\ \A n \in Messages : entry'[n] = Vacant => entry[n] = Vacant \/ excuses'[n] = excuses[n] + 1
  <2> USE DEF TypeOK
  <2>1. CASE entry' = [entry EXCEPT ![m] = Completed]
    BY <2>1, <1>1, EntriesDiffer
  <2>2. CASE /\ entry' = [[entry EXCEPT ![m] = Completed] EXCEPT ![oldest] = Vacant]
             /\ excuses' = [excuses EXCEPT ![oldest] = @ + 1]
             /\ oldest = m \/ entry[oldest] = Completed
    BY <2>2, <1>1, EntriesDiffer
  <2>3. QED
    BY <1>3, <2>1, <2>2
<1>7. ClaimMatch'
  <2> SUFFICES ASSUME NEW d \in Calls
               PROVE  task'[d] \in Claiming <=> entry'[d[1]] = InFlight(d)
    BY DEF ClaimMatch
  <2>1. CASE d = c
    BY <2>1, <1>1, <1>6, EntriesDiffer DEF TypeOK, Claiming, m
  <2>2. CASE d # c /\ d[1] = m
    BY <2>2, <1>1, <1>6, EntriesDiffer DEF TypeOK, ClaimMatch
  <2>3. CASE d[1] # m
    BY <2>3, <1>1, <1>6, CallIsPair, EntriesDiffer DEF TypeOK, ClaimMatch, m
  <2>4. QED
    BY <2>1, <2>2, <2>3
<1>8. Account'
  <2> SUFFICES ASSUME NEW n \in Messages
               PROVE  /\ delivered[n] <= 1 + excuses'[n] + restarts
                      /\ entry'[n] = Vacant => delivered[n] <= excuses'[n] + restarts
                      /\ \A d \in Calls : d[1] = n /\ task'[d] = "run" =>
                           delivered[n] <= excuses'[n] + restarts
    BY <1>1 DEF Account
  <2>1. delivered[n] \in Nat /\ excuses[n] \in Nat /\ excuses'[n] \in Nat /\ restarts \in Nat
    BY <1>4 DEF TypeOK
  <2>2. delivered[n] <= 1 + excuses[n] + restarts /\ excuses'[n] >= excuses[n]
    BY <1>4 DEF Account
  <2>3. ASSUME entry'[n] = Vacant PROVE delivered[n] <= excuses'[n] + restarts
    <3>1. CASE entry[n] = Vacant
      <4>1. delivered[n] <= excuses[n] + restarts
        BY <3>1 DEF Account
      <4>2. QED
        BY <4>1, <2>1, <2>2
    <3>2. CASE excuses'[n] = excuses[n] + 1
      BY <3>2, <2>1, <2>2
    <3>3. QED
      BY <2>3, <3>1, <3>2, <1>6
  <2>4. ASSUME NEW d \in Calls, d[1] = n, task'[d] = "run"
        PROVE  delivered[n] <= excuses'[n] + restarts
    <3>1. task[d] = "run"
      BY <2>4, <1>1 DEF TypeOK
    <3>2. delivered[n] <= excuses[n] + restarts
      BY <3>1, <2>4 DEF Account
    <3>3. QED
      BY <3>2, <2>1, <2>2
  <2>5. QED
    BY <2>1, <2>2, <2>3, <2>4
<1>9. Evidence'
  <2>1. \A n \in Messages : entry'[n] = Completed => delivered[n] >= 1
    BY <1>1, <1>6, EntriesDiffer DEF Evidence
  <2>2. \A d \in Calls : task'[d] \in {"effected", "notify_ok"} => delivered[d[1]] >= 1
    BY <1>1 DEF Evidence, TypeOK, m
  <2>3. QED
    BY <1>1, <2>1, <2>2 DEF Evidence
<1>10. QED
  BY <1>5, <1>7, <1>8, <1>9

(***************************************************************************)
(* The queue of completed keys                                              *)
(***************************************************************************)

\* Appending a key that is not in a queue without repetitions gives another such queue.
LEMMA AppendFresh ==
  ASSUME NEW S, NEW q \in Seq(S), NEW x \in S, x \notin Range(q), IsInjective(q)
  PROVE  IsInjective(Append(q, x)) /\ Range(Append(q, x)) = Range(q) \cup {x}
<1> USE DEF IsInjective, Range
<1> DEFINE r == Append(q, x)
<1>1. /\ r \in Seq(S) /\ Len(r) = Len(q) + 1 /\ Len(q) \in Nat
      /\ \A i \in 1 .. Len(q) : r[i] = q[i]
      /\ r[Len(q) + 1] = x
  BY AppendProperties
<1>2. DOMAIN r = 1 .. Len(q) + 1 /\ DOMAIN q = 1 .. Len(q)
  BY <1>1
<1> HIDE DEF r
<1>3. \A i \in DOMAIN r : (i \in DOMAIN q /\ r[i] = q[i]) \/ (i = Len(q) + 1 /\ r[i] = x)
  BY <1>1, <1>2
<1>4. \A i, j \in DOMAIN r : r[i] = r[j] => i = j
  BY <1>3
<1>5. {r[i] : i \in DOMAIN r} = {q[i] : i \in DOMAIN q} \cup {x}
  <2>1. \A i \in DOMAIN q : i \in DOMAIN r /\ r[i] = q[i]
    BY <1>1, <1>2
  <2>2. Len(q) + 1 \in DOMAIN r /\ r[Len(q) + 1] = x
    BY <1>1, <1>2
  <2>3. QED
    BY <1>3, <2>1, <2>2
<1>6. QED
  BY <1>4, <1>5 DEF r

\* Taking the head off a queue without repetitions takes that key, and only that key.
LEMMA TailForgetsHead ==
  ASSUME NEW S, NEW q \in Seq(S), q # << >>, IsInjective(q)
  PROVE  IsInjective(Tail(q)) /\ Range(Tail(q)) = Range(q) \ {Head(q)}
<1> USE DEF IsInjective, Range
<1> DEFINE r == Tail(q)
<1>1. /\ r \in Seq(S) /\ Len(r) = Len(q) - 1 /\ Len(q) \in Nat \ {0}
      /\ \A i \in 1 .. Len(r) : r[i] = q[i + 1]
  BY HeadTailProperties, EmptySeq
<1>2. DOMAIN r = 1 .. Len(q) - 1 /\ DOMAIN q = 1 .. Len(q) /\ Head(q) = q[1]
  BY <1>1
<1> HIDE DEF r
<1>3. \A i \in DOMAIN r : i + 1 \in DOMAIN q /\ i + 1 # 1 /\ r[i] = q[i + 1]
  BY <1>1, <1>2
<1>4. \A i, j \in DOMAIN r : r[i] = r[j] => i = j
  <2> SUFFICES ASSUME NEW i \in DOMAIN r, NEW j \in DOMAIN r, r[i] = r[j] PROVE i = j
    OBVIOUS
  <2>1. i + 1 = j + 1
    BY <1>3
  <2>2. QED
    BY <2>1, <1>1, <1>2
<1>5. {r[i] : i \in DOMAIN r} = {q[i] : i \in DOMAIN q} \ {Head(q)}
  <2>1. \A i \in DOMAIN q : i # 1 => i - 1 \in DOMAIN r /\ r[i - 1] = q[i]
    BY <1>1, <1>2
  <2>2. 1 \in DOMAIN q
    BY <1>1, <1>2
  <2>3. ASSUME NEW x \in {r[i] : i \in DOMAIN r} PROVE x \in {q[i] : i \in DOMAIN q} \ {Head(q)}
    <3>1. PICK i \in DOMAIN r : x = r[i]
      OBVIOUS
    <3>2. i + 1 \in DOMAIN q /\ x = q[i + 1] /\ i + 1 # 1
      BY <1>3, <3>1
    <3>3. x # q[1]
      BY <3>2, <2>2
    <3>4. QED
      BY <3>2, <3>3, <1>2
  <2>4. ASSUME NEW x \in {q[i] : i \in DOMAIN q} \ {Head(q)} PROVE x \in {r[i] : i \in DOMAIN r}
    BY <2>1, <1>2
  <2>5. QED
    BY <2>3, <2>4
<1>6. QED
  BY <1>4, <1>5 DEF r

\* Recording keeps the queue within its limit and the cache equal to it.
LEMMA RecordKeepsQueue ==
  ASSUME TypeOK, QueueMatchesCache, NEW m \in Messages, entry[m] # Completed, Record(m)
  PROVE  QueueMatchesCache'
<1> DEFINE queue == Append(order, m)
           completed == [entry EXCEPT ![m] = Completed]
           oldest == Head(queue)
           keys == {n \in Messages : entry[n] = Completed}
<1>1. order \in Seq(Messages) /\ Len(order) \in Nat /\ entry \in [Messages -> Entries]
  BY DEF TypeOK
<1>2. m \notin Range(order)
  BY DEF QueueMatchesCache
<1>3. IsInjective(queue) /\ Range(queue) = keys \cup {m}
  BY <1>1, <1>2, AppendFresh DEF QueueMatchesCache
<1>4. queue \in Seq(Messages) /\ queue # << >> /\ Len(queue) = Len(order) + 1
  BY <1>1, AppendProperties
<1>5. {n \in Messages : completed[n] = Completed} = keys \cup {m}
  BY <1>1
<1>6. \/ Len(queue) <= MaxEntries /\ order' = queue /\ entry' = completed
      \/ /\ order' = Tail(queue)
         /\ entry' = IF completed[oldest] = Completed
                       THEN [completed EXCEPT ![oldest] = Vacant] ELSE completed
  BY DEF Record
<1>7. completed \in [Messages -> Entries \cup {Completed}]
  BY <1>1
<1> HIDE DEF queue, completed, oldest, keys
<1>8. CASE Len(queue) <= MaxEntries /\ order' = queue /\ entry' = completed
  BY <1>3, <1>5, <1>8 DEF QueueMatchesCache
<1>9. CASE /\ order' = Tail(queue)
           /\ entry' = IF completed[oldest] = Completed
                         THEN [completed EXCEPT ![oldest] = Vacant] ELSE completed
  <2>1. IsInjective(order') /\ Range(order') = (keys \cup {m}) \ {oldest}
    BY <1>3, <1>4, <1>9, TailForgetsHead DEF oldest
  <2>2. oldest \in Range(queue)
    <3>1. oldest = queue[1] /\ 1 \in DOMAIN queue
      BY <1>1, <1>4 DEF oldest
    <3>2. QED
      BY <3>1 DEF Range
  <2>3. completed[oldest] = Completed /\ oldest \in Messages
    BY <1>3, <1>5, <2>2
  <2>4. {n \in Messages : entry'[n] = Completed} = (keys \cup {m}) \ {oldest}
    BY <1>5, <1>7, <1>9, <2>3, EntriesDiffer
  <2>5. Len(order') <= MaxEntries
    <3>1. Len(order') = Len(queue) - 1
      BY <1>4, <1>9, HeadTailProperties
    <3>2. QED
      BY <3>1, <1>1, <1>4, MessageRelayAssumption DEF QueueMatchesCache
  <2>6. QED
    BY <2>1, <2>4, <2>5 DEF QueueMatchesCache
<1>10. QED
  BY <1>6, <1>8, <1>9

(***************************************************************************)
(* Theorems                                                                *)
(***************************************************************************)

\* Every step of a phone, a request, a delivery and a restart keeps the invariant.
THEOREM RelayInvariant == Spec => []RelayInv
<1>1. Init => RelayInv
  BY InitKeeps
<1>2. RelayInv /\ [Next]_vars => RelayInv'
  <2> SUFFICES ASSUME RelayInv, [Next]_vars PROVE RelayInv'
    OBVIOUS
  <2>1. CASE \E m \in Messages : PhoneStep(m)
    BY <2>1, SendKeeps, PhoneKeeps DEF PhoneStep
  <2>2. CASE \E c \in Calls : Claim(c) \/ CallDropped(c)
    BY <2>2, ClaimKeeps, DropKeeps
  <2>3. CASE \E c \in Calls : TaskStep(c)
    BY <2>3, EffectKeeps, CompleteKeeps, FailKeeps, NotifyKeeps DEF TaskStep
  <2>4. CASE Restart
    BY <2>4, RestartKeeps
  <2>5. CASE UNCHANGED vars
    BY <2>5 DEF vars, RelayInv, TypeOK, PhoneCounts, ClaimMatch, Account, Evidence
  <2>6. QED
    BY <2>1, <2>2, <2>3, <2>4, <2>5 DEF Next
<1>3. QED
  BY <1>1, <1>2, PTL DEF Spec

\* The variables stay in their types: in particular a phone never makes more requests than
\* sendTextMessage has attempts.
THEOREM RelayTypeCorrect == Spec => []TypeOK
<1>1. RelayInv => TypeOK
  BY DEF RelayInv
<1>2. QED
  BY <1>1, RelayInvariant, PTL

\* claim_message_dedupe lets one delivery of a message run at a time.
THEOREM OneAtATime == Spec => []OneDelivery
<1>1. RelayInv => OneDelivery
  BY EntriesDiffer DEF RelayInv, ClaimMatch, OneDelivery
<1>2. QED
  BY <1>1, RelayInvariant, PTL

\* A message reaches Codex once, and again only for a named reason, however many requests
\* the phone makes and however they are delayed.
THEOREM DuplicatesHaveAReason == Spec => []DuplicatesExplained
<1>1. RelayInv => DuplicatesExplained
  BY DEF RelayInv, Account, DuplicatesExplained
<1>2. QED
  BY <1>1, RelayInvariant, PTL

\* A message shown as sent has reached Codex, also when the answer is another request's.
THEOREM SentMeansDelivered == Spec => []SentIsDelivered
<1>1. RelayInv => SentIsDelivered
  BY DEF RelayInv, Evidence, SentIsDelivered
<1>2. QED
  BY <1>1, RelayInvariant, PTL

\* The cache remembers the delivered keys of its queue and no others, and never more than
\* MAX_MESSAGE_DEDUPE_ENTRIES.
THEOREM QueueIsCache == Spec => []QueueMatchesCache
<1>1. Init => QueueMatchesCache
  <2> SUFFICES ASSUME Init PROVE QueueMatchesCache
    OBVIOUS
  <2>1. order = << >> /\ \A m \in Messages : entry[m] = Vacant
    BY DEF Init
  <2>2. QED
    BY <2>1, EntriesDiffer, MessageRelayAssumption DEF QueueMatchesCache, IsInjective, Range
<1>2. RelayInv /\ QueueMatchesCache /\ [Next]_vars => QueueMatchesCache'
  <2> SUFFICES ASSUME RelayInv, QueueMatchesCache, [Next]_vars PROVE QueueMatchesCache'
    OBVIOUS
  <2> USE DEF RelayInv, history
  <2>1. ASSUME order' = order, \A m \in Messages : entry'[m] = Completed <=> entry[m] = Completed
        PROVE  QueueMatchesCache'
    BY <2>1 DEF QueueMatchesCache
  <2>2. CASE UNCHANGED <<entry, order>>
    BY <2>1, <2>2
  <2>3. ASSUME NEW m \in Messages, PhoneStep(m) PROVE QueueMatchesCache'
    BY <2>2, <2>3 DEF PhoneStep, PhoneSend, PhoneAnswered, PhoneCutOff
  <2>4. ASSUME NEW c \in Calls, CallDropped(c) \/ TaskEffect(c) \/ TaskNotifies(c) PROVE QueueMatchesCache'
    BY <2>2, <2>4 DEF CallDropped, TaskEffect, TaskNotifies
  <2>5. ASSUME NEW c \in Calls, Claim(c) PROVE QueueMatchesCache'
    <3>1. c[1] \in Messages /\ entry[c[1]] \in Entries
      BY CallIsPair DEF TypeOK
    <3>2. CASE UNCHANGED entry
      BY <2>2, <2>5, <3>2 DEF Claim
    <3>3. CASE entry[c[1]].state = "vacant" /\ entry' = [entry EXCEPT ![c[1]] = InFlight(c)]
      <4>1. entry[c[1]] = Vacant /\ order' = order
        BY <2>5, <3>1, <3>3, EntryOfState DEF Claim
      <4>2. QED
        BY <2>1, <3>1, <3>3, <4>1, EntriesDiffer DEF TypeOK
    <3>4. QED
      BY <2>5, <3>2, <3>3 DEF Claim
  <2>6. ASSUME NEW c \in Calls, TaskFails(c) PROVE QueueMatchesCache'
    <3>1. c[1] \in Messages /\ entry[c[1]] = InFlight(c)
      BY <2>6, CallIsPair DEF TaskFails, ClaimMatch
    <3>2. order' = order /\ entry' = [entry EXCEPT ![c[1]] = Vacant]
      BY <2>6 DEF TaskFails, Release
    <3>3. QED
      BY <2>1, <3>1, <3>2, EntriesDiffer DEF TypeOK
  <2>7. ASSUME NEW c \in Calls, TaskCompletes(c) PROVE QueueMatchesCache'
    <3>1. c[1] \in Messages /\ entry[c[1]] = InFlight(c) /\ Record(c[1])
      BY <2>7, CallIsPair DEF TaskCompletes, ClaimMatch, Claiming
    <3>2. QED
      BY <3>1, RecordKeepsQueue, EntriesDiffer
  <2>8. ASSUME Restart PROVE QueueMatchesCache'
    <3>1. order' = << >> /\ \A m \in Messages : entry'[m] = Vacant
      BY <2>8 DEF Restart
    <3>2. QED
      BY <3>1, EntriesDiffer, MessageRelayAssumption DEF QueueMatchesCache, IsInjective, Range
  <2>9. CASE UNCHANGED vars
    BY <2>2, <2>9 DEF vars
  <2>10. QED
    BY <2>3, <2>4, <2>5, <2>6, <2>7, <2>8, <2>9 DEF Next, TaskStep
<1>3. QED
  BY <1>1, <1>2, RelayInvariant, PTL DEF Spec

=============================================================================
