---------------------------- MODULE LiveFeedProofs ----------------------------
(***************************************************************************)
(* Proofs about what the Bridge serves of Codex's threads, for any number of   *)
(* devices, streams, prompts, notifications, images and threads: a stream that  *)
(* has come to the disconnection of its device hears nothing more; every         *)
(* decision that Codex took is told; a phone that has read everything shows the  *)
(* thread, and has heard of it in order; images are served as long as their       *)
(* tokens live; sessions start only in workspaces; and what is told of a tool    *)
(* names no place on the Mac.                                                *)
(***************************************************************************)
EXTENDS BridgeFeed, SequenceTheorems, FiniteSetTheorems, WellFoundedInduction, TLAPS

\* What another scene does changes nothing of the feed.
LEMMA FeedSteps == [Next]_vars => [FeedNext]_feedVars
<1> SUFFICES ASSUME [Next]_vars PROVE FeedNext \/ UNCHANGED feedVars OBVIOUS
<1>1. CASE UNCHANGED vars BY <1>1 DEF vars
<1> QED BY <1>1 DEF Next

StreamFields == {"at", "device", "replay", "first", "next", "view", "heard"}

\* The log is a sequence, of whatever was published.
IsLog(s) == Len(s) \in Nat /\ s = [i \in 1 .. Len(s) |-> s[i]]

\* What a stream has read: nothing before it was registered, and never the
\* disconnection of its own device.
Reads(stream) ==
  /\ DOMAIN stream = StreamFields
  /\ stream.first \in Nat /\ stream.next \in Nat
  /\ stream.first = 0 => stream.next = 0 /\ stream.at \notin {"registered", "open"}
  /\ stream.first <= stream.next /\ stream.next <= Len(log) + 1
  /\ \A i \in stream.first .. stream.next - 1 :
       log[i].kind = "disconnect" => log[i].what # stream.device

StreamsInv == /\ IsLog(log)
              /\ DOMAIN streams = Streams
              /\ \A s \in Streams : Reads(streams[s])

-----------------------------------------------------------------------------
\* Publishing leaves what was published where it is.
LEMMA AppendKeeps ==
  ASSUME NEW s, IsLog(s), NEW e
  PROVE  /\ IsLog(Append(s, e)) /\ Len(Append(s, e)) = Len(s) + 1
         /\ \A i \in 1 .. Len(s) : Append(s, e)[i] = s[i]
         /\ Append(s, e)[Len(s) + 1] = e
<1> DEFINE S == {s[i] : i \in 1 .. Len(s)} \cup {e}
<1>1. s \in Seq(S)
  <2>1. s \in [1 .. Len(s) -> S] BY DEF IsLog
  <2> QED BY <2>1, IsASeq DEF IsLog
<1>2. e \in S OBVIOUS
<1> HIDE DEF S
<1>3. /\ Append(s, e) \in Seq(S) /\ Len(Append(s, e)) = Len(s) + 1
      /\ \A i \in 1 .. Len(s) : Append(s, e)[i] = s[i]
      /\ Append(s, e)[Len(s) + 1] = e
  BY <1>1, <1>2, AppendProperties
<1> DEFINE t == Append(s, e)
<1>4. t = [i \in 1 .. Len(t) |-> t[i]] /\ Len(t) \in Nat
  <2> HIDE DEF t
  <2>1. t \in Seq(S) BY <1>3 DEF t
  <2>2. t \in [1 .. Len(t) -> S] /\ Len(t) \in Nat BY <2>1, LenProperties
  <2> QED BY <2>2
<1>5. IsLog(t) BY <1>4 DEF IsLog
<1> QED BY <1>3, <1>5

\* The steps of everyone but the streams: they publish one event or none.
LogGrows == UNCHANGED log \/ \E event : log' = Append(log, event)
Publishes == UNCHANGED streams /\ LogGrows
USE DEF LogGrows

\* Which steps those are.
LEMMA OthersPublish ==
  ASSUME \/ CodexEmits \/ LinkStep \/ Forward \/ List \/ Create
         \/ \E d \in Devices : FetchApprovals(d) \/ ReplaceApprovals(d) \/ Decide(d)
         \/ Pairing \/ \E d \in Devices : Revoke(d) \/ CutStreams(d)
         \/ UNCHANGED feedVars
  PROVE  Publishes
<1>1. CASE CodexEmits BY <1>1 DEF CodexEmits, Emits, hubVars, Publishes
<1>2. CASE LinkStep BY <1>2 DEF LinkStep, hubVars, Publishes
<1>3. CASE Forward
  <2>1. CASE Take BY <2>1 DEF Take, forwarderOthers, Publishes
  <2>2. CASE Record BY <2>2 DEF Record, forwarderOthers, Hub!Publish, Publishes
  <2>3. CASE Read BY <2>3 DEF Read, forwarderOthers, Publishes
  <2>4. CASE StoreLive BY <2>4 DEF StoreLive, forwarderOthers, Publishes
  <2>5. CASE AnnounceLive
    BY <2>5 DEF AnnounceLive, forwarderOthers, Hub!Announce, Hub!Publish, Publishes
  <2>6. CASE PublishEvent BY <2>6 DEF PublishEvent, forwarderOthers, Hub!Publish, Publishes
  <2> QED BY <1>3, <2>1, <2>2, <2>3, <2>4, <2>5, <2>6 DEF Forward
<1>4. CASE List
  <2>1. CASE AnnounceListed
    BY <2>1 DEF AnnounceListed, listerOthers, Hub!Announce, Hub!Publish, Publishes
  <2>2. CASE Fetch \/ Enrich \/ Resume \/ StoreListed \/ Reread
    BY <2>2 DEF Fetch, Enrich, Resume, StoreListed, Reread, listerOthers, Publishes
  <2> QED BY <1>4, <2>1, <2>2 DEF List
<1>5. CASE Create
  BY <1>5 DEF Create, StartThread, StoreCreated, AnnounceCreated, Echo, creatorOthers,
              Hub!Announce, Hub!Publish, Publishes
<1>6. ASSUME NEW d \in Devices, FetchApprovals(d) \/ ReplaceApprovals(d) \/ Decide(d)
      PROVE  Publishes
  BY <1>6 DEF FetchApprovals, ReplaceApprovals, Decide, Find, Answer, Remove, Resolve,
              approvalOthers, Hub!Publish, Publishes
<1>7. CASE Pairing BY <1>7 DEF Pairing, Publishes
<1>8. ASSUME NEW d \in Devices, Revoke(d) \/ CutStreams(d)
      PROVE  Publishes
  BY <1>8 DEF Revoke, CutStreams, Hub!Publish, Publishes
<1>9. CASE UNCHANGED feedVars BY <1>9 DEF feedVars, hubVars, Publishes
<1> QED BY <1>1, <1>2, <1>3, <1>4, <1>5, <1>6, <1>7, <1>8, <1>9

\* What was read stays what it was.
LEMMA PublishKeepsReads ==
  ASSUME StreamsInv, Publishes
  PROVE  StreamsInv'
<1>1. CASE UNCHANGED log BY <1>1 DEF StreamsInv, Publishes, IsLog, Reads
<1>2. ASSUME NEW event, log' = Append(log, event)
      PROVE  StreamsInv'
  <2>1. /\ IsLog(log)' /\ Len(log') = Len(log) + 1 /\ Len(log) \in Nat
        /\ \A i \in 1 .. Len(log) : log'[i] = log[i]
    BY <1>2, AppendKeeps DEF StreamsInv, IsLog
  <2>2. ASSUME NEW s \in Streams
        PROVE  Reads(streams[s])'
    <3> DEFINE stream == streams[s]
    <3>1. Reads(stream) /\ stream' = stream BY <2>2 DEF StreamsInv, Publishes
    <3> HIDE DEF stream
    <3>2. ASSUME NEW i \in stream.first .. stream.next - 1
          PROVE  log'[i].kind = "disconnect" => log'[i].what # stream.device
      <4>1. i \in 1 .. Len(log) BY <2>1, <3>1, <3>2 DEF Reads
      <4> QED BY <2>1, <3>1, <3>2, <4>1 DEF Reads
    <3>3. stream.next <= Len(log') + 1 BY <2>1, <3>1 DEF Reads
    <3>4. Reads(stream)' BY <3>1, <3>2, <3>3 DEF Reads
    <3> QED BY <3>4 DEF stream
  <2> QED BY <1>2, <2>1, <2>2 DEF StreamsInv, Publishes
<1> QED BY <1>1, <1>2 DEF Publishes

\* One stream moves, and what it has read then is right.
LEMMA MovesKeepReads ==
  ASSUME StreamsInv, UNCHANGED log, NEW s \in Streams, NEW next,
         streams' = [streams EXCEPT ![s] = next], Reads(next)
  PROVE  StreamsInv'
BY DEF StreamsInv, Reads

\* A stream that has not begun, or has ended, has read nothing.
LEMMA NothingRead ==
  ASSUME StreamsInv
  PROVE  /\ \A d : Reads([Hub!Off EXCEPT !.at = "upgraded", !.device = d])
         /\ Reads([Hub!Off EXCEPT !.at = "ended"])
  BY DEF StreamsInv, IsLog, Reads, StreamFields, Hub!Off

\* A stream that moves reads on, and stops at the disconnection of its device.
LEMMA StreamReads ==
  ASSUME StreamsInv, NEW s \in Streams, Stream(s)
  PROVE  StreamsInv'
<1> DEFINE stream == streams[s]
<1>1. Reads(stream) /\ Len(log) \in Nat BY DEF StreamsInv, IsLog
<1>2. UNCHANGED log BY DEF Stream, streamOthers
<1>3. CASE Hub!Register(s)
  <2> DEFINE next == [Hub!Receiver(s) EXCEPT !.at = "registered"]
  <2>1. streams' = [streams EXCEPT ![s] = next] BY <1>3 DEF Hub!Register, Hub!Move
  <2>2. /\ DOMAIN next = StreamFields /\ next.first = Len(log) + 1 /\ next.next = Len(log) + 1
        /\ next.at = "registered"
    BY <1>1 DEF Hub!Receiver, Reads, StreamFields
  <2> HIDE DEF next
  <2>3. Reads(next) BY <1>1, <2>2 DEF Reads
  <2> QED BY <1>2, <2>1, <2>3, MovesKeepReads
<1>4. CASE Hub!CopySnapshots(s)
  <2> DEFINE next == Hub!Copied(s)
  <2>1. streams' = [streams EXCEPT ![s] = next] /\ stream.at = "registered"
    BY <1>4 DEF Hub!CopySnapshots, Hub!Move
  <2>2. /\ DOMAIN next = StreamFields /\ next.first = stream.first /\ next.next = stream.next
        /\ next.device = stream.device
    BY <1>1 DEF Hub!Copied, Reads, StreamFields
  <2> HIDE DEF next, stream
  <2>3. Reads(next) BY <1>1, <2>1, <2>2 DEF Reads
  <2> QED BY <1>2, <2>1, <2>3, MovesKeepReads
<1>5. CASE Hub!Replay(s)
  <2> DEFINE next == [streams[s] EXCEPT !.view = Head(streams[s].replay), !.replay = Tail(@)]
  <2>1. streams' = [streams EXCEPT ![s] = next] /\ stream.at = "open"
    BY <1>5 DEF Hub!Replay, Hub!Move
  <2>2. /\ DOMAIN next = StreamFields /\ next.first = stream.first /\ next.next = stream.next
        /\ next.device = stream.device
    BY <1>1 DEF Reads, StreamFields
  <2> HIDE DEF next, stream
  <2>3. Reads(next) BY <1>1, <2>1, <2>2 DEF Reads
  <2> QED BY <1>2, <2>1, <2>3, MovesKeepReads
<1>6. CASE Hub!Closes(s)
  BY <1>2, <1>6, NothingRead, MovesKeepReads DEF Hub!Closes, Hub!Move, Hub!Ended
<1>7. CASE Hub!Receive(s)
  <2> DEFINE event == log[streams[s].next]
             next == Hub!Shown([streams[s] EXCEPT !.next = @ + 1], event)
  <2>1. CASE Hub!Lagged(s) \/ Hub!Cuts(s, event)
    BY <1>2, <1>7, <2>1, NothingRead, MovesKeepReads DEF Hub!Receive, Hub!Move, Hub!Ended
  <2>2. CASE ~(Hub!Lagged(s) \/ Hub!Cuts(s, event))
    <3>1. streams' = [streams EXCEPT ![s] = next] BY <1>7, <2>2 DEF Hub!Receive, Hub!Move
    <3>2. log[stream.next].kind = "disconnect" => log[stream.next].what # stream.device
      BY <2>2 DEF Hub!Cuts
    <3>3. stream.next <= Len(log) BY <1>1, <1>7 DEF Hub!Receive, Hub!Behind, Reads
    <3>4. stream.first # 0 BY <1>1, <1>7 DEF Hub!Receive, Reads
    <3>5. /\ DOMAIN next = StreamFields /\ next.first = stream.first
          /\ next.next = stream.next + 1 /\ next.device = stream.device
      BY <1>1 DEF Hub!Shown, Reads, StreamFields
    <3> HIDE DEF next, stream
    <3>6. ASSUME NEW i \in stream.first .. stream.next
          PROVE  log[i].kind = "disconnect" => log[i].what # stream.device
      <4>1. CASE i = stream.next BY <3>2, <4>1
      <4>2. CASE i # stream.next
        <5>1. i \in stream.first .. stream.next - 1 BY <1>1, <4>2 DEF Reads
        <5> QED BY <1>1, <5>1 DEF Reads
      <4> QED BY <4>1, <4>2
    <3>7. next.first .. next.next - 1 = stream.first .. stream.next BY <1>1, <3>5 DEF Reads
    <3>8. Reads(next) BY <1>1, <3>3, <3>4, <3>5, <3>6, <3>7 DEF Reads
    <3> QED BY <1>2, <3>1, <3>8, MovesKeepReads
  <2> QED BY <2>1, <2>2
<1> QED BY <1>3, <1>4, <1>5, <1>6, <1>7 DEF Stream

-----------------------------------------------------------------------------
\* At first no stream has read anything.
LEMMA StreamsInvStarts == Init => StreamsInv
<1> SUFFICES ASSUME Init PROVE StreamsInv OBVIOUS
<1>1. log = << >> /\ streams = [s \in Streams |-> Hub!Off] BY DEF Init, FeedInit, Hub!HubInit
<1>2. IsLog(log) BY <1>1 DEF IsLog
<1>3. Reads(Hub!Off) BY <1>1 DEF Reads, StreamFields, Hub!Off
<1> QED BY <1>1, <1>2, <1>3 DEF StreamsInv

\* Every step keeps what the streams have read.
LEMMA StreamsInvStep == StreamsInv /\ [FeedNext]_feedVars => StreamsInv'
<1> SUFFICES ASSUME StreamsInv, [FeedNext]_feedVars PROVE StreamsInv' OBVIOUS
<1>1. CASE \/ CodexEmits \/ LinkStep \/ Forward \/ List \/ Create
           \/ \E d \in Devices : FetchApprovals(d) \/ ReplaceApprovals(d) \/ Decide(d)
           \/ Pairing \/ \E d \in Devices : Revoke(d) \/ CutStreams(d)
           \/ UNCHANGED feedVars
  BY <1>1, OthersPublish, PublishKeepsReads
<1>2. ASSUME NEW s \in Streams, NEW d \in Devices, Upgrade(s, d)
      PROVE  StreamsInv'
  BY <1>2, NothingRead, MovesKeepReads DEF Upgrade, streamOthers, Hub!Upgraded, Hub!Move
<1>3. ASSUME NEW s \in Streams, Stream(s)
      PROVE  StreamsInv'
  BY <1>3, StreamReads
<1> QED BY <1>1, <1>2, <1>3 DEF FeedNext

\* No stream ever reads past the disconnection of its device, however far behind it
\* is when revoke_device publishes it (EventSubscriber::recv).
THEOREM StreamsInvariant == Spec => []StreamsInv
BY StreamsInvStarts, StreamsInvStep, FeedSteps, PTL DEF Spec

\* So a phone that was revoked hears nothing that was published after it was cut.
THEOREM RevokedHearsNothing == Spec => []RevokedIsCut
<1>1. StreamsInv => RevokedIsCut BY DEF StreamsInv, Reads, RevokedIsCut
<1> QED BY <1>1, StreamsInvariant, PTL

-----------------------------------------------------------------------------
\* A decision that Codex took has been told, or is about to be by the request that
\* made it.
Telling(d, prompt, say) == /\ calls[d].pc \in {"remove", "resolve"}
                           /\ calls[d].prompt = prompt /\ calls[d].say = say

ToldOrTelling(prompt) == \/ taken[prompt] \in Resolutions(prompt)
                         \/ \E d \in Devices : Telling(d, prompt, taken[prompt])

Answering == \A d \in Devices :
               calls[d].pc \in {"answer", "remove", "resolve"}
               => DOMAIN calls[d] = {"pc", "prompt", "say"}

DecisionsInv == /\ IsLog(log)
                /\ DOMAIN calls = Devices /\ Answering
                /\ \A prompt \in DOMAIN taken \ failed : ToldOrTelling(prompt)

\* What was told stays told.
LEMMA ResolutionsGrow ==
  ASSUME IsLog(log), LogGrows
  PROVE  \A prompt : Resolutions(prompt) \subseteq Resolutions(prompt)'
<1>1. CASE UNCHANGED log BY <1>1 DEF Resolutions
<1>2. ASSUME NEW event, log' = Append(log, event), NEW prompt
      PROVE  Resolutions(prompt) \subseteq Resolutions(prompt)'
  <2>1. /\ DOMAIN log = 1 .. Len(log) /\ DOMAIN log' = 1 .. (Len(log) + 1) /\ Len(log) \in Nat
        /\ \A i \in 1 .. Len(log) : log'[i] = log[i]
    <3>1. DOMAIN log = 1 .. Len(log) /\ Len(log) \in Nat BY DEF IsLog
    <3>2. /\ IsLog(log)' /\ Len(log') = Len(log) + 1
          /\ \A i \in 1 .. Len(log) : log'[i] = log[i]
      BY <1>2, AppendKeeps
    <3>3. DOMAIN log' = 1 .. Len(log') BY <3>2 DEF IsLog
    <3> QED BY <3>1, <3>2, <3>3
  <2> QED BY <2>1 DEF Resolutions
<1> QED BY <1>1, <1>2

\* Which steps have nothing to do with decisions.
LEMMA OthersDecideNothing ==
  ASSUME \/ CodexEmits \/ LinkStep \/ Forward \/ List \/ Create
         \/ Pairing \/ \E d \in Devices : Revoke(d) \/ CutStreams(d)
         \/ UNCHANGED feedVars
  PROVE  UNCHANGED <<calls, taken, failed>>
<1>1. CASE CodexEmits \/ LinkStep
  BY <1>1 DEF CodexEmits, Emits, LinkStep, approvalVars
<1>2. CASE Forward
  BY <1>2 DEF Forward, Take, Record, Read, StoreLive, AnnounceLive, PublishEvent, forwarderOthers
<1>3. CASE List
  BY <1>3 DEF List, Fetch, Enrich, Resume, StoreListed, AnnounceListed, Reread, listerOthers,
              approvalVars
<1>4. CASE Create
  BY <1>4 DEF Create, StartThread, StoreCreated, AnnounceCreated, Echo, creatorOthers,
              approvalVars
<1>5. CASE Pairing \/ \E d \in Devices : Revoke(d) \/ CutStreams(d)
  BY <1>5 DEF Pairing, Revoke, CutStreams, phoneOthers, approvalVars
<1>6. CASE UNCHANGED feedVars BY <1>6 DEF feedVars, approvalVars
<1> QED BY <1>1, <1>2, <1>3, <1>4, <1>5, <1>6

\* What a step that decides nothing does to the log does no harm.
LEMMA UnmovedKeepsDecisions ==
  ASSUME DecisionsInv, LogGrows, UNCHANGED <<calls, taken, failed>>
  PROVE  DecisionsInv'
<1>1. IsLog(log)'
  <2>1. CASE UNCHANGED log BY <2>1 DEF DecisionsInv, IsLog
  <2>2. ASSUME NEW event, log' = Append(log, event)
        PROVE  IsLog(log)'
    BY <2>2, AppendKeeps DEF DecisionsInv
  <2> QED BY <2>1, <2>2
<1>2. ASSUME NEW prompt \in DOMAIN taken \ failed
      PROVE  ToldOrTelling(prompt)'
  <2>1. CASE taken[prompt] \in Resolutions(prompt)
    BY <2>1, ResolutionsGrow DEF DecisionsInv, ToldOrTelling
  <2>2. ASSUME NEW e \in Devices, Telling(e, prompt, taken[prompt])
        PROVE  Telling(e, prompt, taken[prompt])'
    BY <2>2 DEF Telling
  <2> QED BY <1>2, <2>1, <2>2 DEF DecisionsInv, ToldOrTelling
<1> QED BY <1>1, <1>2 DEF DecisionsInv, Answering

\* A call that has nothing to tell yet may change.
LEMMA CallMovesKeepDecisions ==
  ASSUME DecisionsInv, UNCHANGED <<log, taken, failed>>, NEW d \in Devices, NEW next,
         calls' = [calls EXCEPT ![d] = next], calls[d].pc \in {"idle", "fetched"},
         next.pc \in {"answer", "remove", "resolve"} => DOMAIN next = {"pc", "prompt", "say"}
  PROVE  DecisionsInv'
<1>1. IsLog(log)' /\ DOMAIN calls' = Devices BY DEF DecisionsInv, IsLog
<1>2. Answering' BY DEF DecisionsInv, Answering
<1>3. ASSUME NEW prompt, NEW say, NEW e \in Devices, Telling(e, prompt, say)
      PROVE  Telling(e, prompt, say)'
  BY <1>3 DEF DecisionsInv, Telling
<1>4. \A prompt \in DOMAIN taken \ failed : ToldOrTelling(prompt)'
  BY <1>3 DEF DecisionsInv, ToldOrTelling, Resolutions
<1> QED BY <1>1, <1>2, <1>4 DEF DecisionsInv

\* So do the calls that list approvals or look a prompt up.
LEMMA OtherCallsKeepDecisions ==
  ASSUME DecisionsInv, NEW d \in Devices,
         FetchApprovals(d) \/ ReplaceApprovals(d)
         \/ \E prompt \in Prompts, say \in Decisions : Find(d, prompt, say)
  PROVE  DecisionsInv'
<1>1. calls[d].pc \in {"idle", "fetched"} /\ UNCHANGED <<log, taken, failed>>
  BY DEF FetchApprovals, ReplaceApprovals, Find, approvalOthers
<1>2. CASE FetchApprovals(d)
  <2> DEFINE next == [pc |-> "fetched", open |-> codex.open]
  <2>1. calls' = [calls EXCEPT ![d] = next] BY <1>2 DEF FetchApprovals, Calls
  <2>2. next.pc = "fetched" OBVIOUS
  <2> HIDE DEF next
  <2> QED BY <1>1, <2>1, <2>2, CallMovesKeepDecisions
<1>3. CASE ReplaceApprovals(d)
  <2>1. calls' = [calls EXCEPT ![d] = NoCall] BY <1>3 DEF ReplaceApprovals, Calls
  <2>2. NoCall.pc = "idle" BY DEF NoCall
  <2> QED BY <1>1, <2>1, <2>2, CallMovesKeepDecisions
<1>4. ASSUME NEW prompt \in Prompts, NEW say \in Decisions, Find(d, prompt, say)
      PROVE  DecisionsInv'
  <2> DEFINE next == [pc |-> "answer", prompt |-> prompt, say |-> say]
  <2>1. calls' = [calls EXCEPT ![d] = next] BY <1>4 DEF Find, Calls
  <2>2. DOMAIN next = {"pc", "prompt", "say"} OBVIOUS
  <2> HIDE DEF next
  <2> QED BY <1>1, <2>1, <2>2, CallMovesKeepDecisions
<1> QED BY <1>2, <1>3, <1>4

\* Answering: a decision is taken, and unless the call fails the same call goes on to
\* tell it.
LEMMA AnswerKeepsDecisions ==
  ASSUME DecisionsInv, NEW d \in Devices, Answer(d)
  PROVE  DecisionsInv'
<1> DEFINE asked == calls[d].prompt
<1>1. PICK reached \in BOOLEAN, answered \in BOOLEAN :
        /\ answered => reached
        /\ taken' = IF reached THEN Took(asked, calls[d].say) ELSE taken
        /\ calls' = [calls EXCEPT ![d] = IF answered THEN [calls[d] EXCEPT !.pc = "remove"]
                                         ELSE NoCall]
        /\ failed' = IF answered THEN failed ELSE failed \cup {asked}
  BY DEF Answer, Calls
<1>2. UNCHANGED log BY DEF Answer, approvalOthers
<1>3. DOMAIN calls[d] = {"pc", "prompt", "say"} /\ calls[d].pc = "answer"
  BY DEF Answer, DecisionsInv, Answering
<1>4. IsLog(log)' BY <1>2 DEF DecisionsInv, IsLog
<1>5. DOMAIN calls' = Devices /\ Answering'
  BY <1>1, <1>3 DEF DecisionsInv, Answering, NoCall
<1>6. ASSUME NEW prompt \in (DOMAIN taken \ failed)'
      PROVE  ToldOrTelling(prompt)'
  <2>1. CASE prompt \in DOMAIN taken
    <3>1. taken'[prompt] = taken[prompt] /\ prompt \notin failed
      BY <1>1, <1>6, <2>1 DEF Took
    <3>2. CASE taken[prompt] \in Resolutions(prompt)
      BY <1>2, <3>1, <3>2 DEF ToldOrTelling, Resolutions
    <3>3. ASSUME NEW e \in Devices, Telling(e, prompt, taken[prompt])
          PROVE  Telling(e, prompt, taken[prompt])'
      BY <1>1, <1>3, <3>1, <3>3 DEF DecisionsInv, Telling
    <3> QED BY <2>1, <3>1, <3>2, <3>3 DEF DecisionsInv, ToldOrTelling
  <2>2. CASE prompt \notin DOMAIN taken
    <3>1. prompt = asked /\ taken'[prompt] = calls[d].say /\ reached
      BY <1>1, <1>6, <2>2 DEF Took
    <3>2. answered BY <1>1, <1>6, <3>1
    <3>3. calls'[d] = [calls[d] EXCEPT !.pc = "remove"] BY <1>1, <3>2 DEF DecisionsInv
    <3>4. Telling(d, prompt, taken[prompt])' BY <1>3, <3>1, <3>3 DEF Telling
    <3> QED BY <3>4 DEF ToldOrTelling
  <2> QED BY <2>1, <2>2
<1> QED BY <1>4, <1>5, <1>6 DEF DecisionsInv

\* Telling: the call forgets the prompt and publishes its decision.
LEMMA TellingKeepsDecisions ==
  ASSUME DecisionsInv, NEW d \in Devices, Remove(d) \/ Resolve(d)
  PROVE  DecisionsInv'
<1>1. CASE Remove(d)
  <2>1. /\ calls' = [calls EXCEPT ![d] = [calls[d] EXCEPT !.pc = "resolve"]]
        /\ UNCHANGED <<log, taken, failed>>
    BY <1>1 DEF Remove, Calls
  <2>2. DOMAIN calls[d] = {"pc", "prompt", "say"} BY <1>1 DEF Remove, DecisionsInv, Answering
  <2>3. ASSUME NEW prompt, NEW say, NEW e \in Devices, Telling(e, prompt, say)
        PROVE  Telling(e, prompt, say)'
    BY <2>1, <2>2, <2>3 DEF DecisionsInv, Telling
  <2>4. DOMAIN calls' = Devices /\ Answering' BY <2>1, <2>2 DEF DecisionsInv, Answering
  <2>5. IsLog(log)' BY <2>1 DEF DecisionsInv, IsLog
  <2>6. \A prompt \in DOMAIN taken \ failed : ToldOrTelling(prompt)'
    BY <2>1, <2>3 DEF DecisionsInv, ToldOrTelling, Resolutions
  <2> QED BY <2>1, <2>4, <2>5, <2>6 DEF DecisionsInv
<1>2. CASE Resolve(d)
  <2> DEFINE event == [kind |-> "resolved",
                       what |-> [prompt |-> calls[d].prompt, say |-> calls[d].say]]
  <2>1. /\ calls' = [calls EXCEPT ![d] = NoCall] /\ log' = Append(log, event)
        /\ UNCHANGED <<taken, failed>>
    BY <1>2 DEF Resolve, Calls, Hub!Publish, Hub!Event
  <2>2. /\ IsLog(log)' /\ Len(log') = Len(log) + 1 /\ Len(log) \in Nat
        /\ log'[Len(log) + 1] = event
    BY <2>1, AppendKeeps DEF DecisionsInv, IsLog
  <2>3. DOMAIN calls' = Devices /\ Answering' BY <2>1 DEF DecisionsInv, Answering, NoCall
  <2>4. ASSUME NEW prompt \in DOMAIN taken \ failed
        PROVE  ToldOrTelling(prompt)'
    <3>1. CASE taken[prompt] \in Resolutions(prompt)
      BY <2>1, <3>1, ResolutionsGrow DEF DecisionsInv, ToldOrTelling
    <3>2. CASE Telling(d, prompt, taken[prompt])
      <4>1. event.kind = "resolved" /\ event.what.prompt = prompt
            /\ event.what.say = taken[prompt]
        BY <3>2 DEF Telling
      <4>2. Len(log) + 1 \in DOMAIN log' BY <2>2 DEF IsLog
      <4>3. (taken[prompt] \in Resolutions(prompt))'
        BY <2>1, <2>2, <4>1, <4>2 DEF Resolutions
      <4> QED BY <4>3 DEF ToldOrTelling
    <3>3. ASSUME NEW e \in Devices \ {d}, Telling(e, prompt, taken[prompt])
          PROVE  Telling(e, prompt, taken[prompt])'
      BY <2>1, <3>3 DEF DecisionsInv, Telling
    <3> QED BY <2>1, <2>4, <3>1, <3>2, <3>3 DEF DecisionsInv, ToldOrTelling
  <2> QED BY <2>1, <2>2, <2>3, <2>4 DEF DecisionsInv
<1> QED BY <1>1, <1>2

\* Every decision taken by a call that did not fail is told, or about to be.
THEOREM DecisionsInvariant == Spec => []DecisionsInv
<1>1. Init => DecisionsInv
  <2> SUFFICES ASSUME Init PROVE DecisionsInv OBVIOUS
  <2>1. log = << >> /\ calls = [d \in Devices |-> NoCall] /\ taken = << >>
    BY DEF Init, FeedInit, Hub!HubInit
  <2>2. IsLog(log) BY <2>1 DEF IsLog
  <2>3. Answering BY <2>1 DEF Answering, NoCall
  <2>4. DOMAIN taken = {} BY <2>1
  <2> QED BY <2>1, <2>2, <2>3, <2>4 DEF DecisionsInv
<1>2. DecisionsInv /\ [Next]_vars => DecisionsInv'
  <2> SUFFICES ASSUME DecisionsInv, [FeedNext]_feedVars PROVE DecisionsInv' BY FeedSteps
  <2>1. ASSUME LogGrows, UNCHANGED <<calls, taken, failed>>
        PROVE  DecisionsInv'
    BY <2>1, UnmovedKeepsDecisions
  <2>2. ASSUME NEW d \in Devices, FetchApprovals(d) \/ ReplaceApprovals(d) \/ Decide(d)
        PROVE  DecisionsInv'
    <3>1. ASSUME FetchApprovals(d) \/ ReplaceApprovals(d)
                 \/ \E prompt \in Prompts, say \in Decisions : Find(d, prompt, say)
          PROVE  DecisionsInv'
      BY <2>2, <3>1, OtherCallsKeepDecisions
    <3> QED BY <2>2, <3>1, AnswerKeepsDecisions, TellingKeepsDecisions DEF Decide
  <2>3. ASSUME NEW s \in Streams, (\E d \in Devices : Upgrade(s, d)) \/ Stream(s)
        PROVE  DecisionsInv'
    <3>1. LogGrows /\ UNCHANGED <<calls, taken, failed>>
      BY <2>3 DEF Upgrade, Stream, streamOthers, approvalVars
    <3> QED BY <2>1, <3>1
  <2>4. CASE \/ CodexEmits \/ LinkStep \/ Forward \/ List \/ Create
             \/ Pairing \/ \E d \in Devices : Revoke(d) \/ CutStreams(d)
             \/ UNCHANGED feedVars
    <3>1. LogGrows BY <2>4, OthersPublish DEF Publishes
    <3>2. UNCHANGED <<calls, taken, failed>>
      BY <2>4, OthersDecideNothing
    <3> QED BY <2>1, <3>1, <3>2
  <2> QED BY <2>2, <2>3, <2>4 DEF FeedNext
<1> QED BY <1>1, <1>2, PTL DEF Spec

\* So once no call of a prompt is under way, the decision that Codex took on it has
\* been told, whichever devices decided it at once.
THEOREM DecisionsTold == Spec => []DecisionReported
<1>1. DecisionsInv => DecisionReported
  BY DEF DecisionsInv, ToldOrTelling, Telling, DecisionReported
<1> QED BY <1>1, DecisionsInvariant, PTL

-----------------------------------------------------------------------------
(***************************************************************************)
(* What a phone shows.  A stream has the newest snapshot of those it has     *)
(* read, or the one it copied when it began; and while no snapshot was        *)
(* published since it registered, the one it copied is the hub's, unless a    *)
(* writer that has stored another one is about to publish it.                *)
(***************************************************************************)
IsSnapshot(i) == log[i].kind = "snapshot"
NoneFrom(first) == \A i \in first .. Len(log) : ~IsSnapshot(i)
Shows(stream) == IF stream.replay = << >> THEN stream.view ELSE Head(stream.replay)

\* The newest snapshot of those a stream has read.
IsLastRead(stream, i) == /\ i \in stream.first .. stream.next - 1 /\ IsSnapshot(i)
                         /\ \A j \in i + 1 .. stream.next - 1 : ~IsSnapshot(j)

Begins(stream) ==
  /\ stream.at \in {"upgraded", "registered"} => stream.view = Hub!NoSnapshot
  /\ stream.at = "registered" => stream.next = stream.first

Sees(stream) ==
  /\ Begins(stream)
  /\ stream.at = "open" =>
       /\ NoneFrom(stream.first) /\ ~Announcing => Shows(stream) = snapshot
       /\ \A i : IsLastRead(stream, i) => stream.view = log[i].what
       /\ stream.replay # << >> => Tail(stream.replay) = << >> /\ stream.next = stream.first

HasNewest == Snapshots # {} => \E i \in Snapshots : \A j \in Snapshots : j <= i

WritersShaped == "pc" \in DOMAIN forwarder /\ "pc" \in DOMAIN lister /\ "pc" \in DOMAIN creator

ViewInv == /\ StreamsInv /\ HasNewest /\ WritersShaped
           /\ \A s \in Streams : Sees(streams[s])

\* What the steps of everyone but the streams do to a view.
Stores == UNCHANGED <<log, streams>> /\ Announcing'
Announces == /\ UNCHANGED <<streams, snapshot>>
             /\ \E x : log' = Append(log, [kind |-> "snapshot", what |-> x])
Ignores == /\ UNCHANGED <<streams, snapshot>> /\ (Announcing => Announcing')
           /\ \/ UNCHANGED log
              \/ \E e : e.kind # "snapshot" /\ log' = Append(log, e)
Touches == Stores \/ Announces \/ Ignores

LEMMA OthersTouch ==
  ASSUME WritersShaped,
         \/ CodexEmits \/ LinkStep \/ Forward \/ List \/ Create
         \/ \E d \in Devices : FetchApprovals(d) \/ ReplaceApprovals(d) \/ Decide(d)
         \/ Pairing \/ \E d \in Devices : Revoke(d) \/ CutStreams(d)
         \/ UNCHANGED feedVars
  PROVE  Touches /\ WritersShaped'
<1> USE DEF Touches, Announcing
<1>w. ASSUME UNCHANGED writerVars
      PROVE  WritersShaped' /\ (Announcing => Announcing')
  BY <1>w DEF writerVars, WritersShaped
<1>1. CASE CodexEmits BY <1>1, <1>w DEF CodexEmits, Emits, hubVars, Ignores
<1>2. CASE LinkStep BY <1>2, <1>w DEF LinkStep, hubVars, Ignores
<1>3. CASE Forward
  <2>1. CASE Take BY <2>1 DEF Take, forwarderOthers, Ignores, Quiet, WritersShaped
  <2>2. CASE Record
    <3>1. log' = Append(log, [kind |-> "approval", what |-> forwarder.note.prompt])
      BY <2>2 DEF Record, Hub!Publish, Hub!Event
    <3> QED BY <2>2, <3>1 DEF Record, forwarderOthers, Ignores, Goes, WritersShaped
  <2>3. CASE Read BY <2>3 DEF Read, forwarderOthers, Ignores, WritersShaped
  <2>4. CASE StoreLive
    <3>1. forwarder'.pc = "announce" BY <2>4 DEF StoreLive, Goes, WritersShaped
    <3> QED BY <2>4, <3>1 DEF StoreLive, forwarderOthers, Stores, Goes, WritersShaped
  <2>5. CASE AnnounceLive
    <3>1. log' = Append(log, [kind |-> "snapshot", what |-> forwarder.got])
      BY <2>5 DEF AnnounceLive, Hub!Announce, Hub!Publish, Hub!Snap, Hub!Event
    <3>2. WritersShaped' BY <2>5 DEF AnnounceLive, forwarderOthers, Goes, Quiet, WritersShaped
    <3> QED BY <2>5, <3>1, <3>2 DEF AnnounceLive, forwarderOthers, Announces
  <2>6. CASE PublishEvent
    <3>1. log' = Append(log, [kind |-> "session", what |-> forwarder.note.n])
      BY <2>6 DEF PublishEvent, Hub!Publish, Hub!Event
    <3> QED BY <2>6, <3>1 DEF PublishEvent, forwarderOthers, Ignores, Quiet, WritersShaped
  <2> QED BY <1>3, <2>1, <2>2, <2>3, <2>4, <2>5, <2>6 DEF Forward
<1>4. CASE List
  <2>1. CASE AnnounceListed
    <3>1. log' = Append(log, [kind |-> "snapshot", what |-> lister.got])
      BY <2>1 DEF AnnounceListed, Hub!Announce, Hub!Publish, Hub!Snap, Hub!Event
    <3>2. WritersShaped' BY <2>1 DEF AnnounceListed, listerOthers, Lists, NoList, WritersShaped
    <3> QED BY <2>1, <3>1, <3>2 DEF AnnounceListed, listerOthers, Announces
  <2>2. CASE StoreListed
    <3>1. lister'.pc = "announce" BY <2>2 DEF StoreListed, Lists, WritersShaped
    <3> QED BY <2>2, <3>1 DEF StoreListed, listerOthers, Stores, Lists, WritersShaped
  <2>3. CASE Fetch BY <2>3 DEF Fetch, listerOthers, Ignores, WritersShaped
  <2>4. CASE Enrich \/ Resume
    <3>1. \A titled : "pc" \in DOMAIN EnrichedTo(titled) BY DEF EnrichedTo, NoList, WritersShaped
    <3> QED BY <2>4, <3>1 DEF Enrich, Resume, Lists, listerOthers, Ignores, WritersShaped
  <2>5. CASE Reread BY <2>5 DEF Reread, listerOthers, Ignores, NoList, WritersShaped
  <2> QED BY <1>4, <2>1, <2>2, <2>3, <2>4, <2>5 DEF List
<1>5. CASE Create
  <2>1. CASE StartThread BY <2>1 DEF StartThread, creatorOthers, Ignores, WritersShaped
  <2>2. CASE StoreCreated
    <3>1. creator'.pc = "announce" BY <2>2 DEF StoreCreated, Creates, WritersShaped
    <3> QED BY <2>2, <3>1 DEF StoreCreated, creatorOthers, Stores, Creates, WritersShaped
  <2>3. CASE AnnounceCreated
    <3>1. log' = Append(log, [kind |-> "snapshot", what |-> creator.got])
      BY <2>3 DEF AnnounceCreated, Hub!Announce, Hub!Publish, Hub!Snap, Hub!Event
    <3>2. WritersShaped' BY <2>3 DEF AnnounceCreated, creatorOthers, Creates, WritersShaped
    <3> QED BY <2>3, <3>1, <3>2 DEF AnnounceCreated, creatorOthers, Announces
  <2>4. CASE Echo
    <3>1. log' = Append(log, [kind |-> "message", what |-> "first"])
      BY <2>4 DEF Echo, Hub!Publish, Hub!Event
    <3> QED BY <2>4, <3>1 DEF Echo, creatorOthers, Ignores, Idle, WritersShaped
  <2> QED BY <1>5, <2>1, <2>2, <2>3, <2>4 DEF Create
<1>6. ASSUME NEW d \in Devices, FetchApprovals(d) \/ ReplaceApprovals(d) \/ Decide(d)
      PROVE  Touches /\ WritersShaped'
  <2>1. CASE Resolve(d)
    <3>1. log' = Append(log, [kind |-> "resolved",
                              what |-> [prompt |-> calls[d].prompt, say |-> calls[d].say]])
      BY <2>1 DEF Resolve, Hub!Publish, Hub!Event
    <3> QED BY <2>1, <3>1, <1>w DEF Resolve, approvalOthers, Ignores
  <2>2. ASSUME \/ FetchApprovals(d) \/ ReplaceApprovals(d) \/ Answer(d) \/ Remove(d)
               \/ \E prompt \in Prompts, say \in Decisions : Find(d, prompt, say)
        PROVE  Touches /\ WritersShaped'
    BY <2>2, <1>w DEF FetchApprovals, ReplaceApprovals, Find, Answer, Remove, approvalOthers,
                      Ignores
  <2> QED BY <1>6, <2>1, <2>2 DEF Decide
<1>7. CASE Pairing BY <1>7, <1>w DEF Pairing, phoneOthers, Ignores
<1>8. ASSUME NEW d \in Devices, Revoke(d) \/ CutStreams(d)
      PROVE  Touches /\ WritersShaped'
  <2>1. CASE Revoke(d) BY <2>1, <1>w DEF Revoke, phoneOthers, Ignores
  <2>2. CASE CutStreams(d)
    <3>1. log' = Append(log, [kind |-> "disconnect", what |-> d])
      BY <2>2 DEF CutStreams, Hub!Publish, Hub!Disconnect, Hub!Event
    <3> QED BY <2>2, <3>1, <1>w DEF CutStreams, phoneOthers, Ignores
  <2> QED BY <1>8, <2>1, <2>2
<1>9. CASE UNCHANGED feedVars BY <1>9, <1>w DEF feedVars, hubVars, Ignores
<1> QED BY <1>1, <1>2, <1>3, <1>4, <1>5, <1>6, <1>7, <1>8, <1>9

\* The log grows by one event, and the rest of it stays.
LEMMA LogStep ==
  ASSUME IsLog(log), NEW e, log' = Append(log, e)
  PROVE  /\ Len(log) \in Nat /\ Len(log') = Len(log) + 1 /\ DOMAIN log = 1 .. Len(log)
         /\ DOMAIN log' = 1 .. Len(log')
         /\ log'[Len(log) + 1] = e /\ \A i \in 1 .. Len(log) : log'[i] = log[i]
<1>1. /\ IsLog(log)' /\ Len(log') = Len(log) + 1 /\ log'[Len(log) + 1] = e
      /\ \A i \in 1 .. Len(log) : log'[i] = log[i]
  BY AppendKeeps
<1>2. Len(log) \in Nat /\ DOMAIN log = 1 .. Len(log) BY DEF IsLog
<1>3. DOMAIN log' = 1 .. Len(log') BY <1>1 DEF IsLog
<1> QED BY <1>1, <1>2, <1>3

\* Of the snapshots published there is always a newest one.
LEMMA NewestStays ==
  ASSUME IsLog(log), HasNewest, LogGrows
  PROVE  HasNewest'
<1>1. CASE UNCHANGED log BY <1>1 DEF HasNewest, Snapshots
<1>2. ASSUME NEW e, log' = Append(log, e)
      PROVE  HasNewest'
  <2> DEFINE top == Len(log) + 1
  <2>1. /\ Len(log) \in Nat /\ Len(log') = top /\ DOMAIN log = 1 .. Len(log)
        /\ DOMAIN log' = 1 .. top
        /\ log'[top] = e /\ \A i \in 1 .. Len(log) : log'[i] = log[i]
    BY <1>2, LogStep
  <2>2. Snapshots' = Snapshots \cup (IF e.kind = "snapshot" THEN {top} ELSE {})
    BY <2>1 DEF Snapshots
  <2>3. \A i \in Snapshots : i \in Nat /\ i <= top BY <2>1 DEF Snapshots
  <2> QED BY <2>1, <2>2, <2>3 DEF HasNewest
<1> QED BY <1>1, <1>2

\* What others do keeps what a stream sees.
LEMMA TouchKeepsView ==
  ASSUME StreamsInv, NEW s \in Streams, Sees(streams[s]), Touches
  PROVE  Sees(streams[s])'
<1> DEFINE stream == streams[s]
<1>1. Reads(stream) /\ IsLog(log) /\ Len(log) \in Nat BY DEF StreamsInv, IsLog
<1>2. stream' = stream BY DEF Touches, Stores, Announces, Ignores
<1>3. Sees(stream) OBVIOUS
<1> SUFFICES ASSUME stream.at = "open" PROVE Sees(stream)' BY <1>2 DEF Sees, Begins
<1> HIDE DEF stream
<1>4. stream.first \in Nat /\ stream.first >= 1 /\ stream.next \in Nat
      /\ stream.first <= stream.next /\ stream.next <= Len(log) + 1
  BY <1>1 DEF Reads
<1>5. CASE Stores BY <1>2, <1>3, <1>5 DEF Stores, Sees, Begins, NoneFrom, IsLastRead, IsSnapshot, Shows
<1>6. ASSUME NEW e, log' = Append(log, e), UNCHANGED snapshot,
             e.kind = "snapshot" \/ (Announcing => Announcing')
      PROVE  Sees(stream)'
  <2>1. /\ Len(log') = Len(log) + 1 /\ log'[Len(log) + 1] = e
        /\ \A i \in 1 .. Len(log) : log'[i] = log[i]
    BY <1>1, <1>6, LogStep
  <2>2. \A i \in 1 .. Len(log) : IsSnapshot(i)' <=> IsSnapshot(i) BY <2>1 DEF IsSnapshot
  <2>3. \A i : IsLastRead(stream, i)' => IsLastRead(stream, i) /\ log'[i] = log[i]
    <3>1. SUFFICES ASSUME NEW i, IsLastRead(stream, i)'
                   PROVE  IsLastRead(stream, i) /\ log'[i] = log[i]
      OBVIOUS
    <3>2. i \in stream.first .. stream.next - 1 /\ i \in 1 .. Len(log)
      BY <1>2, <1>4, <3>1 DEF IsLastRead
    <3>3. \A j \in i + 1 .. stream.next - 1 : j \in 1 .. Len(log) BY <1>4, <3>2
    <3> QED BY <1>2, <2>1, <2>2, <3>1, <3>2, <3>3 DEF IsLastRead
  <2>4. NoneFrom(stream.first)' => NoneFrom(stream.first) /\ e.kind # "snapshot"
    <3>1. ASSUME NoneFrom(stream.first)'
          PROVE  NoneFrom(stream.first) /\ e.kind # "snapshot"
      <4>1. \A i \in stream.first .. Len(log) + 1 : ~IsSnapshot(i)'
        BY <1>2, <2>1, <3>1 DEF NoneFrom
      <4>2. Len(log) + 1 \in stream.first .. Len(log) + 1 BY <1>1, <1>4 DEF Reads
      <4>3. e.kind # "snapshot" BY <2>1, <4>1, <4>2 DEF IsSnapshot
      <4>4. \A i \in stream.first .. Len(log) : i \in 1 .. Len(log) /\ i \in stream.first .. Len(log) + 1
        BY <1>1, <1>4
      <4> QED BY <2>2, <4>1, <4>3, <4>4 DEF NoneFrom
    <3> QED BY <3>1
  <2> QED BY <1>2, <1>3, <1>6, <2>3, <2>4 DEF Sees, Begins, Shows
<1>7. CASE Announces BY <1>6, <1>7 DEF Announces
<1>8. CASE Ignores /\ UNCHANGED log
  BY <1>2, <1>3, <1>8 DEF Ignores, Sees, Begins, NoneFrom, IsLastRead, IsSnapshot, Shows
<1>9. CASE Ignores /\ \E e : e.kind # "snapshot" /\ log' = Append(log, e)
  BY <1>6, <1>9 DEF Ignores
<1>10. Sees(stream)' BY <1>5, <1>7, <1>8, <1>9 DEF Touches, Ignores
<1> QED BY <1>10 DEF stream

\* A stream that moves sees the hub's snapshot when it begins, and then the newest
\* one it has read.
LEMMA StreamSees ==
  ASSUME StreamsInv, NEW s \in Streams, Sees(streams[s]), Stream(s)
  PROVE  Sees(streams'[s]) /\ \A t \in Streams \ {s} : streams'[t] = streams[t]
<1> DEFINE stream == streams[s]
<1>1. /\ Reads(stream) /\ Sees(stream) /\ Len(log) \in Nat
      /\ DOMAIN stream = StreamFields /\ DOMAIN streams = Streams
  BY DEF StreamsInv, IsLog, Reads
<1>2. \A t \in Streams \ {s} : streams'[t] = streams[t]
  BY <1>1 DEF Stream, Hub!Register, Hub!CopySnapshots, Hub!Replay, Hub!Receive, Hub!Closes, Hub!Move
<1>3. CASE Hub!Register(s)
  <2>1. /\ streams'[s].at = "registered" /\ streams'[s].view = stream.view
        /\ streams'[s].next = streams'[s].first
    BY <1>1, <1>3 DEF Hub!Register, Hub!Move, Hub!Receiver, StreamFields
  <2>2. stream.view = Hub!NoSnapshot BY <1>1, <1>3 DEF Hub!Register, Sees, Begins
  <2> QED BY <1>2, <2>1, <2>2 DEF Sees, Begins
<1>4. CASE Hub!CopySnapshots(s)
  <2> DEFINE next == Hub!Copied(s)
  <2>1. streams'[s] = next /\ stream.at = "registered"
    BY <1>1, <1>4 DEF Hub!CopySnapshots, Hub!Move
  <2>2. /\ next.at = "open" /\ next.first = stream.first /\ next.next = stream.next
        /\ next.view = stream.view
        /\ next.replay = IF snapshot = Hub!NoSnapshot THEN << >> ELSE << snapshot >>
    BY <1>1 DEF Hub!Copied, StreamFields
  <2>3. stream.view = Hub!NoSnapshot /\ stream.next = stream.first
    BY <1>1, <2>1 DEF Sees, Begins
  <2>4. /\ Head(<< snapshot >>) = snapshot /\ Tail(<< snapshot >>) = << >> /\ << snapshot >> # << >>
    OBVIOUS
  <2>5. stream.first .. stream.next - 1 = {} BY <1>1, <2>3 DEF Reads
  <2> HIDE DEF next, stream
  <2>6. Sees(next) BY <2>2, <2>3, <2>4, <2>5 DEF Sees, Begins, Shows, IsLastRead
  <2> QED BY <1>2, <2>1, <2>6
<1>5. CASE Hub!Replay(s)
  <2> DEFINE next == [streams[s] EXCEPT !.view = Head(streams[s].replay), !.replay = Tail(@)]
  <2>1. streams'[s] = next /\ stream.at = "open" /\ stream.replay # << >>
    BY <1>1, <1>5 DEF Hub!Replay, Hub!Move
  <2>2. /\ next.at = "open" /\ next.first = stream.first /\ next.next = stream.next
        /\ next.view = Head(stream.replay) /\ next.replay = Tail(stream.replay)
    BY <1>1, <2>1 DEF StreamFields
  <2> HIDE DEF next, stream
  <2>3. Tail(stream.replay) = << >> /\ stream.next = stream.first BY <1>1, <2>1 DEF Sees
  <2>4. stream.first .. stream.next - 1 = {} BY <1>1, <2>3 DEF Reads
  <2>5. Sees(next) BY <1>1, <2>1, <2>2, <2>3, <2>4 DEF Sees, Begins, Shows, IsLastRead
  <2> QED BY <1>2, <2>1, <2>5
<1>6. CASE Hub!Closes(s)
  <2>1. streams'[s].at = "ended"
    BY <1>1, <1>6 DEF Hub!Closes, Hub!Move, Hub!Ended, Hub!Off
  <2> QED BY <1>2, <2>1 DEF Sees, Begins
<1>7. CASE Hub!Receive(s)
  <2> DEFINE event == log[streams[s].next]
             next == Hub!Shown([streams[s] EXCEPT !.next = @ + 1], event)
  <2>1. CASE Hub!Lagged(s) \/ Hub!Cuts(s, event)
    <3>1. streams'[s].at = "ended"
      BY <1>1, <1>7, <2>1 DEF Hub!Receive, Hub!Move, Hub!Ended, Hub!Off
    <3> QED BY <1>2, <3>1 DEF Sees, Begins
  <2>2. CASE ~(Hub!Lagged(s) \/ Hub!Cuts(s, event))
    <3>1. streams'[s] = next /\ stream.at = "open" /\ stream.replay = << >>
      BY <1>1, <1>7, <2>2 DEF Hub!Receive, Hub!Move
    <3>2. stream.next \in stream.first .. Len(log) /\ stream.first \in Nat /\ stream.next \in Nat
      BY <1>1, <1>7 DEF Hub!Receive, Hub!Behind, Reads
    <3>3. /\ next.at = "open" /\ next.first = stream.first /\ next.next = stream.next + 1
          /\ next.replay = << >>
          /\ next.view = IF IsSnapshot(stream.next) THEN log[stream.next].what ELSE stream.view
      BY <1>1, <3>1 DEF Hub!Shown, IsSnapshot, StreamFields
    <3> HIDE DEF next, stream
    <3>4. CASE IsSnapshot(stream.next)
      <4>1. ~NoneFrom(next.first) BY <3>2, <3>3, <3>4 DEF NoneFrom
      <4>2. \A i : IsLastRead(next, i) => i = stream.next
        <5>1. SUFFICES ASSUME NEW i, IsLastRead(next, i) PROVE i = stream.next
          OBVIOUS
        <5>2. i \in stream.first .. stream.next BY <3>2, <3>3, <5>1 DEF IsLastRead
        <5>3. stream.next \notin i + 1 .. next.next - 1 BY <3>4, <5>1 DEF IsLastRead
        <5> QED BY <3>2, <3>3, <5>2, <5>3
      <4>3. next.view = log[stream.next].what BY <3>3, <3>4
      <4>4. Sees(next) BY <3>3, <4>1, <4>2, <4>3 DEF Sees, Begins
      <4> QED BY <1>2, <3>1, <4>4
    <3>5. CASE ~IsSnapshot(stream.next)
      <4>1. \A i : IsLastRead(next, i) => IsLastRead(stream, i)
        <5>1. SUFFICES ASSUME NEW i, IsLastRead(next, i) PROVE IsLastRead(stream, i)
          OBVIOUS
        <5>2. i \in stream.first .. stream.next /\ IsSnapshot(i)
          BY <3>2, <3>3, <5>1 DEF IsLastRead
        <5>3. i \in stream.first .. stream.next - 1 BY <3>2, <3>5, <5>2
        <5>4. \A j \in i + 1 .. stream.next - 1 : j \in i + 1 .. next.next - 1
          BY <3>2, <3>3, <5>3
        <5> QED BY <5>1, <5>2, <5>3, <5>4 DEF IsLastRead
      <4>2. next.view = stream.view /\ Shows(next) = Shows(stream) BY <3>1, <3>3, <3>5 DEF Shows
      <4>3. Sees(next) BY <1>1, <3>1, <3>3, <4>1, <4>2 DEF Sees, Begins
      <4> QED BY <1>2, <3>1, <4>3
    <3> QED BY <3>4, <3>5
  <2> QED BY <2>1, <2>2
<1> QED BY <1>2, <1>3, <1>4, <1>5, <1>6, <1>7 DEF Stream

-----------------------------------------------------------------------------
\* Every stream shows the newest snapshot it has read, or the one it began with.
THEOREM ViewInvariant == Spec => []ViewInv
<1>1. Init => ViewInv
  <2> SUFFICES ASSUME Init, StreamsInv PROVE ViewInv BY StreamsInvStarts
  <2>1. log = << >> /\ streams = [s \in Streams |-> Hub!Off] BY DEF Init, FeedInit, Hub!HubInit
  <2>2. HasNewest BY <2>1 DEF HasNewest, Snapshots
  <2>3. WritersShaped BY DEF Init, FeedInit, WritersShaped, Quiet, NoList, Idle
  <2>4. Sees(Hub!Off) BY DEF Sees, Begins, Hub!Off
  <2> QED BY <2>1, <2>2, <2>3, <2>4 DEF ViewInv
<1>2. ViewInv /\ [Next]_vars => ViewInv'
  <2> SUFFICES ASSUME ViewInv, [FeedNext]_feedVars PROVE ViewInv' BY FeedSteps
  <2>1. StreamsInv' BY StreamsInvStep DEF ViewInv
  <2>2. CASE \/ CodexEmits \/ LinkStep \/ Forward \/ List \/ Create
             \/ \E d \in Devices : FetchApprovals(d) \/ ReplaceApprovals(d) \/ Decide(d)
             \/ Pairing \/ \E d \in Devices : Revoke(d) \/ CutStreams(d)
             \/ UNCHANGED feedVars
    <3>1. Touches /\ WritersShaped' BY <2>2, OthersTouch DEF ViewInv
    <3>2. HasNewest' BY <2>2, OthersPublish, NewestStays DEF ViewInv, StreamsInv, Publishes
    <3>3. \A s \in Streams : Sees(streams[s])' BY <3>1, TouchKeepsView DEF ViewInv
    <3> QED BY <2>1, <3>1, <3>2, <3>3 DEF ViewInv
  <2>3. ASSUME UNCHANGED streamOthers, \A s \in Streams : Sees(streams'[s])
        PROVE  ViewInv'
    <3>1. UNCHANGED <<log, snapshot, forwarder, lister, creator>>
      BY <2>3 DEF streamOthers, writerVars
    <3>2. HasNewest' /\ WritersShaped'
      BY <3>1 DEF ViewInv, HasNewest, Snapshots, WritersShaped
    <3>3. \A s \in Streams : Sees(streams[s])'
      BY <2>3, <3>1 DEF Sees, Begins, NoneFrom, IsLastRead, IsSnapshot, Announcing, Shows
    <3> QED BY <2>1, <3>2, <3>3 DEF ViewInv
  <2>4. ASSUME NEW s \in Streams, NEW d \in Devices, Upgrade(s, d)
        PROVE  ViewInv'
    <3>1. streams' = [streams EXCEPT ![s] = [Hub!Off EXCEPT !.at = "upgraded", !.device = d]]
      BY <2>4 DEF Upgrade, Hub!Upgraded, Hub!Move
    <3>2. Sees([Hub!Off EXCEPT !.at = "upgraded", !.device = d]) BY DEF Sees, Begins, Hub!Off
    <3>3. \A t \in Streams : Sees(streams'[t]) BY <3>1, <3>2 DEF ViewInv, StreamsInv
    <3> QED BY <2>3, <2>4, <3>3 DEF Upgrade
  <2>5. ASSUME NEW s \in Streams, Stream(s)
        PROVE  ViewInv'
    <3>1. \A t \in Streams : Sees(streams'[t]) BY <2>5, StreamSees DEF ViewInv
    <3> QED BY <2>3, <2>5, <3>1 DEF Stream
  <2> QED BY <2>2, <2>4, <2>5 DEF FeedNext
<1> QED BY <1>1, <1>2, PTL DEF Spec

\* So a phone that has read everything shows the hub's snapshot of the thread.
THEOREM ViewsConverge == Spec => []ViewConverges
<1>1. ViewInv => ViewConverges
  <2> SUFFICES ASSUME ViewInv, ~Announcing, Snapshots # {} => log[Newest].what = snapshot,
                      NEW s \in Streams, streams[s].at = "open", streams[s].replay = << >>,
                      Hub!Behind(s) = 0
               PROVE  streams[s].view = snapshot
    BY DEF ViewConverges
  <2> DEFINE stream == streams[s]
  <2>1. Reads(stream) /\ Sees(stream) /\ IsLog(log) /\ Len(log) \in Nat /\ HasNewest
    BY DEF ViewInv, StreamsInv, IsLog
  <2>2. stream.next = Len(log) + 1 /\ stream.first \in Nat /\ stream.first >= 1
    BY <2>1 DEF Hub!Behind, Reads
  <2>3. stream.at = "open" /\ stream.replay = << >> OBVIOUS
  <2> HIDE DEF stream
  <2>4. ASSUME NoneFrom(stream.first)
        PROVE  stream.view = snapshot
    BY <2>1, <2>3, <2>4 DEF Sees, Shows
  <2>5. ASSUME NEW i \in stream.first .. Len(log), IsSnapshot(i)
        PROVE  stream.view = snapshot
    <3>1. DOMAIN log = 1 .. Len(log) BY <2>1 DEF IsLog
    <3>2. i \in Snapshots BY <2>1, <2>2, <2>5, <3>1 DEF Snapshots, IsSnapshot
    <3>3. Newest \in Snapshots /\ \A j \in Snapshots : j <= Newest
      BY <2>1, <3>2 DEF HasNewest, Newest
    <3>4. Newest \in stream.first .. Len(log) /\ IsSnapshot(Newest)
      BY <2>1, <2>2, <2>5, <3>1, <3>2, <3>3 DEF Snapshots, IsSnapshot
    <3>5. \A j \in Newest + 1 .. Len(log) : ~IsSnapshot(j)
      BY <2>1, <2>2, <3>1, <3>3, <3>4 DEF Snapshots, IsSnapshot
    <3>6. IsLastRead(stream, Newest) BY <2>1, <2>2, <3>4, <3>5 DEF IsLastRead
    <3> QED BY <2>1, <2>3, <3>2, <3>6 DEF Sees
  <2>6. stream.view = snapshot BY <2>4, <2>5 DEF NoneFrom
  <2> QED BY <2>6 DEF stream
<1> QED BY <1>1, ViewInvariant, PTL

-----------------------------------------------------------------------------
\* The notifications on their way: in Codex's order in what the connection holds back and
\* then in what was not read yet, all of them later than those passed on; and the reply
\* to the subscription, once.
Ascending(s) == \A i, j \in 1 .. Len(s) : i < j /\ s[i].n # 0 /\ s[j].n # 0 => s[i].n < s[j].n

Later(s, passed, said) ==
  \A i \in 1 .. Len(s) : s[i].n # 0 => s[i].n <= said /\ \A n \in passed : n < s[i].n

Queues(conn, passed, said) ==
  /\ DOMAIN conn = {"at", "live", "held", "inbox"}
  /\ conn.held = << >> \/ conn.at \in {"attached", "asked"}
  /\ IsLog(conn.held) /\ Ascending(conn.held) /\ Later(conn.held, passed, said)
  /\ IsLog(conn.inbox) /\ Ascending(conn.inbox) /\ Later(conn.inbox, passed, said)
  /\ \A i \in 1 .. Len(conn.held) : conn.held[i].n \in Nat \ {0}
  /\ \A j \in 1 .. Len(conn.inbox) :
       conn.inbox[j].n \in Nat /\ (conn.inbox[j].n = 0 => conn.inbox[j] = Link!Reply)
  /\ \A i \in 1 .. Len(conn.held), j \in 1 .. Len(conn.inbox) :
       conn.inbox[j].n # 0 => conn.held[i].n < conn.inbox[j].n
  /\ \A i, j \in 1 .. Len(conn.inbox) :
       conn.inbox[i].n = 0 /\ conn.inbox[j].n = 0 => i = j /\ conn.at = "asked"

\* A page with a host bridge knows its only callback set.
OneSet ==
  /\ DOMAIN page = {"up", "gen", "offers", "loaded", "bridge", "subs", "known"}
  /\ page.offers = "host" /\ page.bridge \in {"none", "host"}
  /\ page.subs \in {0, 1} /\ page.known = page.subs
  /\ page.bridge = "none" => page.subs = 0

\* What was published of the notifications, and what is passed on in all.
SessionsIn(events) == {i \in 1 .. Len(events) : events[i].kind = "session"}
Passed == {forwarder.note.n} \cup {log[i].what : i \in SessionsIn(log)}

PublishedInOrder ==
  /\ \A i \in SessionsIn(log) : log[i].what \in Nat
  /\ \A i, j \in SessionsIn(log) : i < j => log[i].what < log[j].what
  /\ forwarder.pc # "idle" => \A i \in SessionsIn(log) : log[i].what < forwarder.note.n

\* What is on its way is later than what was passed on, and Codex has said it all.
LineInOrder ==
  /\ DOMAIN forwarder = {"pc", "note", "mute", "got"} /\ "said" \in DOMAIN codex
  /\ codex.said \in Nat /\ (\A n \in Passed : n \in 0 .. codex.said)
  /\ Queues(link, Passed, codex.said) /\ OneSet
  /\ PublishedInOrder

\* What a stream has heard was published before the place where it reads.
Hears(stream) ==
  /\ IsLog(stream.heard)
  /\ \A i \in 1 .. Len(stream.heard) :
       \E k \in SessionsIn(log) : k < stream.next /\ log[k].what = stream.heard[i]
  /\ \A i, j \in 1 .. Len(stream.heard) : i < j => stream.heard[i] < stream.heard[j]

OrderInv ==
  BridgeKinds = {"host"} =>
    StreamsInv /\ LineInOrder /\ \A s \in Streams : Hears(streams[s])

\* A queue without its first entry.
LEMMA TailIs ==
  ASSUME NEW s, IsLog(s), s # << >>
  PROVE  /\ IsLog(Tail(s)) /\ Len(s) \in Nat /\ Len(s) >= 1 /\ Len(Tail(s)) = Len(s) - 1
         /\ Head(s) = s[1] /\ \A i \in 1 .. Len(Tail(s)) : Tail(s)[i] = s[i + 1]
<1> DEFINE S == {s[i] : i \in 1 .. Len(s)}
<1>1. s \in Seq(S)
  <2>1. s \in [1 .. Len(s) -> S] BY DEF IsLog
  <2> QED BY <2>1, IsASeq DEF IsLog
<1> HIDE DEF S
<1> DEFINE t == Tail(s)
<1>2. /\ t \in Seq(S) /\ Len(t) = Len(s) - 1 /\ Len(s) \in Nat
      /\ \A i \in 1 .. Len(t) : t[i] = s[i + 1]
  BY <1>1, HeadTailProperties, LenProperties
<1>3. Head(s) = s[1] BY <1>1
<1>4. Len(t) \in Nat BY <1>2, LenProperties
<1> HIDE DEF t
<1>5. t = [i \in 1 .. Len(t) |-> t[i]]
  <2>1. t \in [1 .. Len(t) -> S] BY <1>2, LenProperties
  <2> QED BY <2>1
<1>6. IsLog(t) BY <1>4, <1>5 DEF IsLog
<1> QED BY <1>2, <1>3, <1>4, <1>6 DEF t

\* One queue after another.
LEMMA JoinIs ==
  ASSUME NEW s, IsLog(s), NEW t, IsLog(t)
  PROVE  /\ IsLog(s \o t) /\ Len(s \o t) = Len(s) + Len(t) /\ Len(s) \in Nat /\ Len(t) \in Nat
         /\ \A i \in 1 .. Len(s \o t) :
              (s \o t)[i] = IF i <= Len(s) THEN s[i] ELSE t[i - Len(s)]
<1> DEFINE S == {s[i] : i \in 1 .. Len(s)} \cup {t[i] : i \in 1 .. Len(t)}
           u == s \o t
<1>1. s \in Seq(S)
  <2>1. s \in [1 .. Len(s) -> S] BY DEF IsLog
  <2> QED BY <2>1, IsASeq DEF IsLog
<1>2. t \in Seq(S)
  <2>1. t \in [1 .. Len(t) -> S] BY DEF IsLog
  <2> QED BY <2>1, IsASeq DEF IsLog
<1> HIDE DEF S
<1>3. /\ u \in Seq(S) /\ Len(u) = Len(s) + Len(t)
      /\ \A i \in 1 .. Len(s) + Len(t) : u[i] = IF i <= Len(s) THEN s[i] ELSE t[i - Len(s)]
  BY <1>1, <1>2, ConcatProperties
<1> HIDE DEF u
<1>4. Len(u) \in Nat /\ u = [i \in 1 .. Len(u) |-> u[i]]
  <2>1. u \in [1 .. Len(u) -> S] /\ Len(u) \in Nat BY <1>3, LenProperties
  <2> QED BY <2>1
<1>5. IsLog(u) BY <1>4 DEF IsLog
<1> QED BY <1>3, <1>5 DEF u, IsLog

-----------------------------------------------------------------------------
\* Codex emits the next notification: it goes to the end of the queue.
LEMMA EmittedQueues ==
  ASSUME NEW passed, NEW said \in Nat, Queues(link, passed, said), OneSet,
         \A n \in passed : n \in 0 .. said,
         NEW note, note.n = said + 1, link' = Link!Emitted(note)
  PROVE  Queues(link', passed, said + 1)
<1> DEFINE inbox == link'.inbox
<1>1. /\ DOMAIN link = {"at", "live", "held", "inbox"} /\ IsLog(link.inbox)
      /\ page.subs \in {0, 1}
  BY DEF Queues, OneSet
<1>2. /\ DOMAIN link' = {"at", "live", "held", "inbox"} /\ link'.held = link.held
      /\ link'.at = link.at
  BY <1>1 DEF Link!Emitted
<1>6. inbox = IF link.live THEN link.inbox \o [i \in 1 .. page.subs |-> note] ELSE link.inbox
  BY <1>1 DEF Link!Emitted
<1>5. Later(link'.held, passed, said + 1) BY <1>2 DEF Queues, Later
<1> HIDE DEF inbox
<1>3. CASE ~link.live
  <2>1. inbox = link.inbox BY <1>3, <1>6
  <2>2. Later(link.inbox, passed, said + 1) BY DEF Queues, Later
  <2> QED BY <1>2, <1>5, <2>1, <2>2 DEF Queues, inbox
<1>4. CASE link.live
  <2>1. /\ IsLog(inbox) /\ Len(link.inbox) \in Nat /\ Len(inbox) = Len(link.inbox) + page.subs
        /\ \A i \in 1 .. Len(inbox) : inbox[i] = IF i <= Len(link.inbox) THEN link.inbox[i] ELSE note
    <3> DEFINE copies == [i \in 1 .. page.subs |-> note]
    <3>1. inbox = link.inbox \o copies /\ copies \in [1 .. page.subs -> {note}]
      BY <1>4, <1>6
    <3> HIDE DEF copies
    <3>2. copies \in Seq({note}) /\ page.subs \in Nat BY <1>1, <3>1, IsASeq
    <3>3. Len(copies) = page.subs BY <3>1, <3>2, LenProperties
    <3>4. IsLog(copies) /\ \A i \in 1 .. page.subs : copies[i] = note
      BY <3>1, <3>2, <3>3 DEF IsLog
    <3>5. /\ IsLog(inbox) /\ Len(link.inbox) \in Nat /\ Len(inbox) = Len(link.inbox) + page.subs
          /\ \A i \in 1 .. Len(inbox) :
               inbox[i] = IF i <= Len(link.inbox) THEN link.inbox[i] ELSE copies[i - Len(link.inbox)]
      <4> DEFINE u == link.inbox \o copies
      <4>1. /\ IsLog(u) /\ Len(u) = Len(link.inbox) + Len(copies) /\ Len(link.inbox) \in Nat
            /\ \A i \in 1 .. Len(u) :
                 u[i] = IF i <= Len(link.inbox) THEN link.inbox[i] ELSE copies[i - Len(link.inbox)]
        BY <1>1, <3>4, JoinIs
      <4> HIDE DEF u
      <4>2. inbox = u BY <3>1 DEF u
      <4> QED BY <3>3, <4>1, <4>2
    <3>6. ASSUME NEW i \in 1 .. Len(inbox)
          PROVE  inbox[i] = IF i <= Len(link.inbox) THEN link.inbox[i] ELSE note
      <4>1. i > Len(link.inbox) => i - Len(link.inbox) \in 1 .. page.subs
        BY <1>1, <3>5, <3>6
      <4> QED BY <3>4, <3>5, <3>6, <4>1
    <3> QED BY <3>5, <3>6
  <2>2. Ascending(inbox)
    BY <1>1, <2>1 DEF Queues, Later, Ascending
  <2>3. Later(inbox, passed, said + 1) BY <1>1, <2>1 DEF Queues, Later
  <2>5. \A j \in 1 .. Len(inbox) : inbox[j].n \in Nat /\ (inbox[j].n = 0 => inbox[j] = Link!Reply)
    BY <1>1, <2>1 DEF Queues
  <2>6. \A i \in 1 .. Len(link'.held), j \in 1 .. Len(inbox) :
          inbox[j].n # 0 => link'.held[i].n < inbox[j].n
    BY <1>1, <1>2, <2>1 DEF Queues, Later
  <2>7. \A i, j \in 1 .. Len(inbox) :
          inbox[i].n = 0 /\ inbox[j].n = 0 => i = j /\ link'.at = "asked"
    BY <1>1, <1>2, <2>1 DEF Queues
  <2> QED BY <1>2, <1>5, <2>1, <2>2, <2>3, <2>5, <2>6, <2>7 DEF Queues, inbox
<1> QED BY <1>3, <1>4

\* The first notification of the queue is taken, and the rest is later.
LEMMA TakenQueues ==
  ASSUME NEW passed, NEW said \in Nat, Queues(link, passed, said), Link!Waiting,
         link' = Link!Taken
  PROVE  /\ Head(link.inbox).n \in 1 .. said /\ \A n \in passed : n < Head(link.inbox).n
         /\ Queues(link', passed \cup {Head(link.inbox).n}, said)
<1> DEFINE inbox == link'.inbox
           n == Head(link.inbox).n
<1>1. /\ DOMAIN link = {"at", "live", "held", "inbox"} /\ IsLog(link.inbox)
      /\ link.inbox # << >> /\ link.at = "open"
  BY DEF Queues, Link!Waiting
<1>2. /\ DOMAIN link' = {"at", "live", "held", "inbox"} /\ link'.held = link.held
      /\ link'.at = link.at /\ inbox = Tail(link.inbox)
  BY <1>1 DEF Link!Taken
<1>3. /\ IsLog(inbox) /\ Len(link.inbox) \in Nat /\ Len(link.inbox) >= 1
      /\ Len(inbox) = Len(link.inbox) - 1
      /\ Head(link.inbox) = link.inbox[1]
      /\ \A i \in 1 .. Len(inbox) : inbox[i] = link.inbox[i + 1]
  BY <1>1, <1>2, TailIs
<1>4. n = link.inbox[1].n BY <1>3
<1> HIDE DEF inbox, n
<1>5. n \in Nat \ {0} BY <1>1, <1>3, <1>4 DEF Queues
<1>6. n <= said /\ \A m \in passed : m < n BY <1>3, <1>4, <1>5 DEF Queues, Later
<1>7. Ascending(inbox) BY <1>3 DEF Queues, Ascending
<1>8. Later(inbox, passed \cup {n}, said)
  BY <1>3, <1>4, <1>5 DEF Queues, Ascending, Later
<1>9. /\ link.held = << >> /\ Len(link.held) = 0
      /\ Ascending(link.held) /\ Later(link.held, passed \cup {n}, said)
  BY <1>1 DEF Queues, Ascending, Later
<1>10. /\ \A j \in 1 .. Len(inbox) : inbox[j].n \in Nat /\ (inbox[j].n = 0 => inbox[j] = Link!Reply)
       /\ \A i, j \in 1 .. Len(inbox) :
            inbox[i].n = 0 /\ inbox[j].n = 0 => i = j /\ link'.at = "asked"
  BY <1>1, <1>2, <1>3 DEF Queues
<1>11. Queues(link', passed \cup {n}, said)
  BY <1>1, <1>2, <1>3, <1>7, <1>8, <1>9, <1>10 DEF Queues, inbox
<1> QED BY <1>5, <1>6, <1>11 DEF n

\* Nothing is queued on a connection that begins or fails.
LEMMA EmptyQueues ==
  ASSUME NEW conn, NEW passed, NEW said,
         DOMAIN conn = {"at", "live", "held", "inbox"}, conn.held = << >>, conn.inbox = << >>
  PROVE  Queues(conn, passed, said)
<1>1. IsLog(conn.held) /\ Len(conn.held) = 0 /\ IsLog(conn.inbox) /\ Len(conn.inbox) = 0
  BY DEF IsLog
<1> QED BY <1>1 DEF Queues, Ascending, Later

\* A connection that breaks keeps its queues or loses what was not read.
LEMMA BrokenQueues ==
  ASSUME NEW passed, NEW said, Queues(link, passed, said),
         NEW lost \in BOOLEAN, link' = Link!Broken(lost)
  PROVE  Queues(link', passed, said)
<1>1. /\ DOMAIN link' = {"at", "live", "held", "inbox"} /\ link'.held = link.held
      /\ link'.at = link.at /\ link'.inbox = IF lost THEN << >> ELSE link.inbox
  BY DEF Queues, Link!Broken
<1>2. CASE lost
  <2>1. link'.inbox = << >> BY <1>1, <1>2
  <2>2. IsLog(link'.inbox) /\ Len(link'.inbox) = 0 BY <2>1 DEF IsLog
  <2> QED BY <1>1, <2>2 DEF Queues, Ascending, Later
<1>3. CASE ~lost
  <2>1. link'.inbox = link.inbox BY <1>1, <1>3
  <2> QED BY <1>1, <2>1 DEF Queues
<1> QED BY <1>2, <1>3

\* The reply to the subscription is the only one there is.
LEMMA SubscribedQueues ==
  ASSUME NEW passed, NEW said, Queues(link, passed, said), Link!Subscribe
  PROVE  Queues(link', passed, said)
<1> DEFINE inbox == link'.inbox
<1>1. DOMAIN link = {"at", "live", "held", "inbox"} /\ IsLog(link.inbox) /\ link.at = "attached"
  BY DEF Queues, Link!Subscribe
<1>2. /\ DOMAIN link' = {"at", "live", "held", "inbox"} /\ link'.held = link.held
      /\ link'.at = "asked" /\ inbox = Append(link.inbox, Link!Reply)
  BY <1>1 DEF Link!Subscribe
<1>3. /\ IsLog(inbox) /\ Len(inbox) = Len(link.inbox) + 1 /\ inbox[Len(link.inbox) + 1] = Link!Reply
      /\ \A i \in 1 .. Len(link.inbox) : inbox[i] = link.inbox[i]
  BY <1>1, <1>2, AppendKeeps
<1>4. Link!Reply.n = 0 BY DEF Link!Reply
<1> HIDE DEF inbox
<1>5. \A i \in 1 .. Len(link.inbox) : link.inbox[i].n \in Nat \ {0} BY <1>1 DEF Queues, IsLog
<1>6. \A i \in 1 .. Len(inbox) : /\ inbox[i].n \in Nat
                                 /\ inbox[i].n = 0 <=> i = Len(link.inbox) + 1
                                 /\ inbox[i].n = 0 => inbox[i] = Link!Reply
                                 /\ inbox[i].n # 0 => inbox[i] = link.inbox[i] /\ i \in 1 .. Len(link.inbox)
  BY <1>1, <1>3, <1>4, <1>5 DEF IsLog
<1>7. Ascending(inbox) /\ Later(inbox, passed, said) BY <1>6 DEF Queues, Ascending, Later
<1>8. \A i, j \in 1 .. Len(inbox) :
        inbox[i].n = 0 /\ inbox[j].n = 0 => i = j /\ link'.at = "asked"
  BY <1>2, <1>6
<1>9. \A i \in 1 .. Len(link.held), j \in 1 .. Len(inbox) :
        inbox[j].n # 0 => link.held[i].n < inbox[j].n
  BY <1>6 DEF Queues
<1> QED BY <1>2, <1>3, <1>6, <1>7, <1>8, <1>9 DEF Queues, inbox

\* What comes before the reply is held back in order ...
LEMMA HeldQueues ==
  ASSUME NEW passed, NEW said, Queues(link, passed, said), Link!Hold
  PROVE  Queues(link', passed, said)
<1> DEFINE inbox == link'.inbox
           held == link'.held
           first == Head(link.inbox)
<1>1. /\ DOMAIN link = {"at", "live", "held", "inbox"} /\ IsLog(link.inbox) /\ IsLog(link.held)
      /\ link.at \in {"attached", "asked"} /\ link.inbox # << >> /\ first # Link!Reply
  BY DEF Queues, Link!Hold
<1>2. /\ DOMAIN link' = {"at", "live", "held", "inbox"} /\ link'.at = link.at
      /\ held = Append(link.held, first) /\ inbox = Tail(link.inbox)
  BY <1>1 DEF Link!Hold
<1>3. /\ IsLog(inbox) /\ Len(link.inbox) \in Nat /\ Len(link.inbox) >= 1
      /\ Len(inbox) = Len(link.inbox) - 1 /\ first = link.inbox[1]
      /\ \A i \in 1 .. Len(inbox) : inbox[i] = link.inbox[i + 1]
  BY <1>1, <1>2, TailIs
<1>4. /\ IsLog(held) /\ Len(held) = Len(link.held) + 1 /\ held[Len(link.held) + 1] = first
      /\ \A i \in 1 .. Len(link.held) : held[i] = link.held[i]
  BY <1>1, <1>2, AppendKeeps
<1>5. Len(link.held) \in Nat BY <1>1 DEF IsLog
<1>6. first.n \in Nat \ {0} /\ \A i \in 1 .. Len(link.held) : link.held[i].n < first.n
  BY <1>1, <1>3 DEF Queues
<1>7. first.n <= said /\ \A n \in passed : n < first.n BY <1>3, <1>6 DEF Queues, Later
<1> HIDE DEF inbox, held, first
<1>8. \A i \in 1 .. Len(held) :
        held[i] = first \/ (i \in 1 .. Len(link.held) /\ held[i] = link.held[i])
  BY <1>4, <1>5
<1>9. \A i \in 1 .. Len(held) : held[i].n \in Nat \ {0}
  <2>1. \A i \in 1 .. Len(link.held) : link.held[i].n \in Nat \ {0} BY DEF Queues
  <2> QED BY <1>6, <1>8, <2>1
<1>10. Later(held, passed, said) BY <1>7, <1>8 DEF Queues, Later
<1>11. Ascending(held) BY <1>4, <1>5, <1>6 DEF Queues, Ascending
<1>12. Ascending(inbox) /\ Later(inbox, passed, said) BY <1>3 DEF Queues, Ascending, Later
<1>13. \A j \in 1 .. Len(inbox) : inbox[j].n # 0 => first.n < inbox[j].n
  BY <1>3, <1>6 DEF Queues, Ascending
<1>14. \A i \in 1 .. Len(held), j \in 1 .. Len(inbox) :
         inbox[j].n # 0 => held[i].n < inbox[j].n
  <2>1. \A i \in 1 .. Len(link.held), j \in 1 .. Len(inbox) :
          inbox[j].n # 0 => link.held[i].n < inbox[j].n
    BY <1>3 DEF Queues
  <2> QED BY <1>8, <1>13, <2>1
<1>15. \A j \in 1 .. Len(inbox) : inbox[j].n \in Nat /\ (inbox[j].n = 0 => inbox[j] = Link!Reply)
  BY <1>3 DEF Queues
<1>16. \A i, j \in 1 .. Len(inbox) :
         inbox[i].n = 0 /\ inbox[j].n = 0 => i = j /\ link'.at = "asked"
  BY <1>2, <1>3 DEF Queues
<1> QED BY <1>1, <1>2, <1>3, <1>4, <1>9, <1>10, <1>11, <1>12, <1>14, <1>15, <1>16
        DEF Queues, inbox, held

\* ... and delivered before what came after it.
LEMMA ConfirmedQueues ==
  ASSUME NEW passed, NEW said, Queues(link, passed, said), Link!Confirm
  PROVE  Queues(link', passed, said)
<1> DEFINE inbox == link'.inbox
           rest == Tail(link.inbox)
<1>1. /\ DOMAIN link = {"at", "live", "held", "inbox"} /\ IsLog(link.inbox) /\ IsLog(link.held)
      /\ link.inbox # << >> /\ Head(link.inbox) = Link!Reply
  BY DEF Queues, Link!Confirm
<1>2. /\ DOMAIN link' = {"at", "live", "held", "inbox"} /\ link'.at = "open"
      /\ link'.held = << >> /\ inbox = link.held \o rest
  BY <1>1 DEF Link!Confirm, Link!Delivered
<1>3. /\ IsLog(rest) /\ Len(link.inbox) \in Nat /\ Len(link.inbox) >= 1
      /\ Len(rest) = Len(link.inbox) - 1 /\ link.inbox[1] = Link!Reply
      /\ \A i \in 1 .. Len(rest) : rest[i] = link.inbox[i + 1]
  BY <1>1, TailIs
<1>4. Link!Reply.n = 0 BY DEF Link!Reply
<1> HIDE DEF rest
<1>5. /\ Ascending(rest) /\ Later(rest, passed, said)
      /\ \A j \in 1 .. Len(rest) : rest[j].n \in Nat \ {0}
      /\ \A i \in 1 .. Len(link.held), j \in 1 .. Len(rest) : link.held[i].n < rest[j].n
  <2>1. \A j \in 1 .. Len(rest) : rest[j].n \in Nat /\ rest[j].n # 0 BY <1>3, <1>4 DEF Queues
  <2>2. Ascending(rest) BY <1>3 DEF Queues, Ascending
  <2>3. Later(rest, passed, said) BY <1>3 DEF Queues, Later
  <2>4. \A i \in 1 .. Len(link.held), j \in 1 .. Len(rest) : link.held[i].n < rest[j].n
    BY <1>3, <2>1 DEF Queues
  <2> QED BY <2>1, <2>2, <2>3, <2>4
<1>6. /\ IsLog(inbox) /\ Len(inbox) = Len(link.held) + Len(rest) /\ Len(link.held) \in Nat
      /\ Len(rest) \in Nat
      /\ \A i \in 1 .. Len(inbox) :
           inbox[i] = IF i <= Len(link.held) THEN link.held[i] ELSE rest[i - Len(link.held)]
  <2> DEFINE u == link.held \o rest
  <2>1. /\ IsLog(u) /\ Len(u) = Len(link.held) + Len(rest) /\ Len(link.held) \in Nat
        /\ Len(rest) \in Nat
        /\ \A i \in 1 .. Len(u) :
             u[i] = IF i <= Len(link.held) THEN link.held[i] ELSE rest[i - Len(link.held)]
    BY <1>1, <1>3, JoinIs
  <2> HIDE DEF u, inbox
  <2>2. inbox = u BY <1>2 DEF u
  <2> QED BY <2>1, <2>2
<1> HIDE DEF inbox
<1>7. \A i \in 1 .. Len(inbox) :
        \/ i \in 1 .. Len(link.held) /\ inbox[i] = link.held[i]
        \/ i - Len(link.held) \in 1 .. Len(rest) /\ inbox[i] = rest[i - Len(link.held)]
  BY <1>6
<1>8. \A i \in 1 .. Len(inbox) : inbox[i].n \in Nat \ {0} BY <1>5, <1>7 DEF Queues
<1>9. Later(inbox, passed, said) BY <1>5, <1>7 DEF Queues, Later
<1>10. Ascending(inbox)
  <2> SUFFICES ASSUME NEW i \in 1 .. Len(inbox), NEW j \in 1 .. Len(inbox), i < j
               PROVE  inbox[i].n < inbox[j].n
    BY DEF Ascending
  <2>1. CASE j <= Len(link.held)
    <3>1. /\ i \in 1 .. Len(link.held) /\ j \in 1 .. Len(link.held)
          /\ inbox[i] = link.held[i] /\ inbox[j] = link.held[j]
      BY <1>6, <2>1
    <3> QED BY <3>1 DEF Queues, Ascending
  <2>2. CASE i > Len(link.held)
    <3> DEFINE k == i - Len(link.held)
               l == j - Len(link.held)
    <3>1. k \in 1 .. Len(rest) /\ l \in 1 .. Len(rest) /\ k < l BY <1>6, <2>2
    <3>2. inbox[i] = rest[k] /\ inbox[j] = rest[l] BY <1>6, <2>2
    <3> HIDE DEF k, l
    <3> QED BY <1>5, <3>1, <3>2 DEF Ascending
  <2>3. CASE i <= Len(link.held) /\ j > Len(link.held)
    <3>1. i \in 1 .. Len(link.held) /\ inbox[i] = link.held[i] BY <1>6, <2>3
    <3>2. j - Len(link.held) \in 1 .. Len(rest) /\ inbox[j] = rest[j - Len(link.held)]
      BY <1>6, <2>3
    <3> QED BY <1>5, <3>1, <3>2
  <2> QED BY <1>6, <2>1, <2>2, <2>3
<1>11. IsLog(link'.held) /\ Len(link'.held) = 0 BY <1>2 DEF IsLog
<1> QED BY <1>2, <1>6, <1>8, <1>9, <1>10, <1>11 DEF Queues, Ascending, Later, inbox

\* A connection that goes on to its next stage with nothing held back.
LEMMA StagedQueues ==
  ASSUME NEW passed, NEW said, Queues(link, passed, said), NEW at,
         link.at \notin {"attached", "asked"}, link' = [link EXCEPT !.at = at]
  PROVE  Queues(link', passed, said)
<1>1. /\ DOMAIN link' = {"at", "live", "held", "inbox"} /\ link'.held = link.held
      /\ link'.inbox = link.inbox /\ link.held = << >>
  BY DEF Queues
<1>2. \A j \in 1 .. Len(link.inbox) : link.inbox[j].n # 0 BY DEF Queues
<1> QED BY <1>1, <1>2 DEF Queues

\* Every step of the link keeps its queues in order, and the page at one callback set.
LEMMA LinkStepOrder ==
  ASSUME BridgeKinds = {"host"}, NEW passed, NEW said, Queues(link, passed, said), OneSet,
         LinkStep
  PROVE  Queues(link', passed, said) /\ OneSet'
<1>1. /\ DOMAIN page = {"up", "gen", "offers", "loaded", "bridge", "subs", "known"}
      /\ page.offers = "host" /\ page.bridge \in {"none", "host"}
      /\ page.subs \in {0, 1} /\ page.known = page.subs
      /\ page.bridge = "none" => page.subs = 0
  BY DEF OneSet
<1>2. Queues(Link!Down, passed, said) BY EmptyQueues DEF Link!Down
<1>3. CASE Link!FindTarget
  <2>1. Queues(link', passed, said) BY <1>3, StagedQueues DEF Link!FindTarget, Link!Stage
  <2> QED BY <1>3, <2>1 DEF Link!FindTarget, OneSet
<1>4. CASE Link!Inject
  <2>1. Queues(link', passed, said) BY <1>4, StagedQueues DEF Link!Inject, Link!Stage
  <2>2. OneSet' BY <1>1, <1>4 DEF Link!Inject, Link!Installed, OneSet
  <2> QED BY <2>1, <2>2
<1>5. CASE Link!Attach
  <2>1. Queues(link', passed, said)
    <3>1. /\ DOMAIN link' = {"at", "live", "held", "inbox"}
          /\ link'.held = << >> /\ link'.inbox = << >>
      BY <1>5 DEF Link!Attach, Link!Down
    <3> QED BY <3>1, EmptyQueues
  <2> QED BY <1>5, <2>1 DEF Link!Attach, OneSet
<1>6. CASE Link!Subscribe
  <2>1. Queues(link', passed, said) BY <1>6, SubscribedQueues
  <2>2. page' = [page EXCEPT !.subs = (@ - page.known) + 1, !.known = 1] /\ page.bridge # "none"
    BY <1>6 DEF Link!Subscribe, Link!Subscribed
  <2>3. (page.subs - page.known) + 1 = 1 BY <1>1
  <2>4. OneSet' BY <1>1, <2>2, <2>3 DEF OneSet
  <2> QED BY <2>1, <2>4
<1>7. CASE Link!Hold BY <1>7, HeldQueues DEF Link!Hold, OneSet
<1>8. CASE Link!Confirm BY <1>8, ConfirmedQueues DEF Link!Confirm, OneSet
<1>9. CASE Link!ConnectFails \/ Link!StreamEnds
  BY <1>2, <1>9 DEF Link!ConnectFails, Link!StreamEnds, Link!FailsAt, OneSet
<1>10. CASE Link!Quits \/ Link!Breaks
  <2>1. Queues(link', passed, said) BY <1>10, BrokenQueues DEF Link!Quits, Link!Breaks
  <2>2. OneSet' BY <1>1, <1>10 DEF Link!Quits, Link!Breaks, OneSet
  <2> QED BY <2>1, <2>2
<1>11. CASE Link!Starts \/ Link!Loads \/ Link!Reloads
  <2>1. UNCHANGED link BY <1>11 DEF Link!Starts, Link!Loads, Link!Reloads
  <2>2. OneSet' BY <1>1, <1>11 DEF Link!Starts, Link!Loads, Link!Reloads, Link!Fresh, OneSet
  <2> QED BY <2>1, <2>2
<1> QED BY <1>3, <1>4, <1>5, <1>6, <1>7, <1>8, <1>9, <1>10, <1>11
        DEF LinkStep, Environment, Link!Connecting

-----------------------------------------------------------------------------
\* What was passed on earlier need not be remembered.
LEMMA FewerPassed ==
  ASSUME NEW conn, NEW said, NEW passed, Queues(conn, passed, said),
         NEW fewer, \A n \in fewer : n \in passed \/ n = 0
  PROVE  Queues(conn, fewer, said)
<1>1. \A i \in 1 .. Len(conn.held) : conn.held[i].n \in Nat BY DEF Queues
<1>2. \A i \in 1 .. Len(conn.inbox) : conn.inbox[i].n \in Nat BY DEF Queues
<1>3. Later(conn.held, fewer, said) BY <1>1 DEF Queues, Later
<1>4. Later(conn.inbox, fewer, said) BY <1>2 DEF Queues, Later
<1> QED BY <1>3, <1>4 DEF Queues

\* Steps that take nothing from the link: if they publish a notification, it is the one
\* that was taken last, and it is not published again.
Passes ==
  /\ UNCHANGED <<page, link>> /\ DOMAIN codex' = DOMAIN codex /\ codex'.said = codex.said
  /\ \/ UNCHANGED log
     \/ \E e : /\ log' = Append(log, e)
               /\ e.kind = "session" =>
                    forwarder.pc # "idle" /\ forwarder'.pc = "idle" /\ e.what = forwarder.note.n
  /\ DOMAIN forwarder' = DOMAIN forwarder
  /\ forwarder'.note.n \in {forwarder.note.n, 0}
  /\ forwarder'.pc # "idle" => forwarder.pc # "idle" /\ forwarder'.note.n = forwarder.note.n

\* They leave everything in order.
LEMMA PassesInOrder ==
  ASSUME IsLog(log), LineInOrder, Passes
  PROVE  LineInOrder'
<1>1. CASE UNCHANGED log
  <2>1. \A n \in Passed' : n \in Passed \/ n = 0 BY <1>1 DEF Passes, Passed, SessionsIn
  <2>2. Queues(link, Passed', codex.said) BY <2>1, FewerPassed DEF LineInOrder
  <2>3. \A m \in Passed' : m \in 0 .. codex.said
    <3>1. (\A n \in Passed : n \in 0 .. codex.said) /\ codex.said \in Nat BY DEF LineInOrder
    <3> QED BY <2>1, <3>1
  <2>4. PublishedInOrder' BY <1>1 DEF LineInOrder, PublishedInOrder, Passes, SessionsIn
  <2> QED BY <2>2, <2>3, <2>4 DEF LineInOrder, Passes, OneSet
<1>2. ASSUME NEW e, log' = Append(log, e),
             e.kind = "session" =>
               forwarder.pc # "idle" /\ forwarder'.pc = "idle" /\ e.what = forwarder.note.n
      PROVE  LineInOrder'
  <2> DEFINE top == Len(log) + 1
  <2>1. /\ Len(log) \in Nat /\ Len(log') = top
        /\ log'[top] = e /\ \A i \in 1 .. Len(log) : log'[i] = log[i]
    BY <1>2, LogStep
  <2>2. SessionsIn(log') = SessionsIn(log) \cup (IF e.kind = "session" THEN {top} ELSE {})
    BY <2>1 DEF SessionsIn
  <2>3. \A i \in SessionsIn(log) : i \in 1 .. Len(log) /\ log'[i] = log[i] /\ i < top
    BY <2>1 DEF SessionsIn
  <2> HIDE DEF top
  <2>4. \A n \in Passed' : n \in Passed \/ n = 0
    BY <1>2, <2>1, <2>2, <2>3 DEF Passes, Passed
  <2>5. Queues(link, Passed', codex.said) BY <2>4, FewerPassed DEF LineInOrder
  <2>6. \A m \in Passed' : m \in 0 .. codex.said
    <3>1. (\A n \in Passed : n \in 0 .. codex.said) /\ codex.said \in Nat BY DEF LineInOrder
    <3> QED BY <2>4, <3>1
  <2>7. forwarder.note.n \in Nat BY DEF LineInOrder, Passed
  <2>8. PublishedInOrder'
    <3>1. \A i \in SessionsIn(log') : log'[i].what \in Nat
      BY <1>2, <2>1, <2>2, <2>3, <2>7 DEF LineInOrder, PublishedInOrder
    <3>2. ASSUME NEW i \in SessionsIn(log'), NEW j \in SessionsIn(log'), i < j
          PROVE  log'[i].what < log'[j].what
      <4>1. i \in SessionsIn(log) BY <2>1, <2>2, <2>3, <3>2
      <4>2. CASE j \in SessionsIn(log)
        BY <2>3, <3>2, <4>1, <4>2 DEF LineInOrder, PublishedInOrder
      <4>3. CASE j \notin SessionsIn(log)
        BY <1>2, <2>1, <2>2, <2>3, <4>1, <4>3 DEF LineInOrder, PublishedInOrder
      <4> QED BY <4>2, <4>3
    <3>3. ASSUME forwarder'.pc # "idle", NEW i \in SessionsIn(log')
          PROVE  log'[i].what < forwarder'.note.n
      BY <1>2, <2>2, <2>3, <3>3 DEF LineInOrder, PublishedInOrder, Passes
    <3> QED BY <3>1, <3>2, <3>3 DEF PublishedInOrder
  <2> QED BY <2>5, <2>6, <2>8 DEF LineInOrder, Passes, OneSet
<1> QED BY <1>1, <1>2 DEF Passes

\* A notification is emitted, by the thread or with its beginning.
LEMMA EmitsInOrder ==
  ASSUME LineInOrder, UNCHANGED <<page, log, forwarder>>, NEW note, note.n = codex.said + 1,
         link' = Link!Emitted(note), DOMAIN codex' = DOMAIN codex, codex'.said = codex.said + 1
  PROVE  LineInOrder'
<1>1. UNCHANGED Passed BY DEF Passed, SessionsIn
<1>2. Queues(link', Passed, codex.said + 1) BY EmittedQueues DEF LineInOrder
<1>3. (\A n \in Passed : n \in 0 .. codex.said + 1) BY DEF LineInOrder
<1>4. OneSet' /\ PublishedInOrder' BY DEF LineInOrder, OneSet, PublishedInOrder, SessionsIn
<1> QED BY <1>1, <1>2, <1>3, <1>4 DEF LineInOrder

\* The forwarder takes the next notification.
LEMMA TakeInOrder ==
  ASSUME LineInOrder, Take
  PROVE  LineInOrder'
<1> DEFINE n == Head(link.inbox).n
<1>1. /\ Link!Waiting /\ link' = Link!Taken /\ UNCHANGED <<page, codex, log>>
      /\ DOMAIN forwarder' = {"pc", "note", "mute", "got"} /\ forwarder'.note.n = n
  BY DEF Take, forwarderOthers, Quiet
<1>2. n \in 1 .. codex.said /\ \A m \in Passed : m < n BY <1>1, TakenQueues DEF LineInOrder
<1>3. Queues(link', Passed \cup {n}, codex.said) BY <1>1, TakenQueues DEF LineInOrder
<1> HIDE DEF n
<1>4. SessionsIn(log') = SessionsIn(log) BY <1>1
<1>5. \A m \in Passed' : m \in Passed \cup {n} BY <1>1, <1>4 DEF Passed
<1>6. Queues(link', Passed', codex.said) BY <1>3, <1>5, FewerPassed
<1>7. \A m \in Passed' : m \in 0 .. codex.said
  <2>1. (\A m \in Passed : m \in 0 .. codex.said) /\ codex.said \in Nat BY DEF LineInOrder
  <2> QED BY <1>2, <1>5, <2>1
<1>8. PublishedInOrder' BY <1>1, <1>2, <1>4 DEF LineInOrder, PublishedInOrder, Passed
<1>9. OneSet' BY <1>1 DEF LineInOrder, OneSet
<1> QED BY <1>1, <1>6, <1>7, <1>8, <1>9 DEF LineInOrder

\* Everyone else passes on at most what was taken.
LEMMA OthersPass ==
  ASSUME DOMAIN forwarder = {"pc", "note", "mute", "got"}, "said" \in DOMAIN codex,
         \/ Forward /\ ~Take
         \/ List \/ StoreCreated \/ AnnounceCreated \/ Echo
         \/ \E d \in Devices : FetchApprovals(d) \/ ReplaceApprovals(d) \/ Decide(d)
         \/ Pairing \/ \E d \in Devices : Revoke(d) \/ CutStreams(d)
         \/ \E s \in Streams : (\E d \in Devices : Upgrade(s, d)) \/ Stream(s)
         \/ UNCHANGED feedVars
  PROVE  Passes
<1> DEFINE Still == /\ UNCHANGED <<page, link, forwarder>>
                    /\ DOMAIN codex' = DOMAIN codex /\ codex'.said = codex.said
           Adds == UNCHANGED log \/ \E e : log' = Append(log, e) /\ e.kind # "session"
<1>1. Still /\ Adds => Passes
  <2> SUFFICES ASSUME Still, Adds PROVE Passes OBVIOUS
  <2> QED BY DEF Passes
<1>2. CASE Forward /\ ~Take
  <2>1. CASE Record
    <3>1. log' = Append(log, [kind |-> "approval", what |-> forwarder.note.prompt])
      BY <2>1 DEF Record, Hub!Publish, Hub!Event
    <3> QED BY <2>1, <3>1 DEF Record, Goes, forwarderOthers, Passes
  <2>2. CASE Read BY <2>2 DEF Read, forwarderOthers, Passes
  <2>3. CASE StoreLive BY <2>3 DEF StoreLive, Goes, forwarderOthers, Passes
  <2>4. CASE AnnounceLive
    <3>1. log' = Append(log, [kind |-> "snapshot", what |-> forwarder.got])
      BY <2>4 DEF AnnounceLive, Hub!Announce, Hub!Publish, Hub!Snap, Hub!Event
    <3> QED BY <2>4, <3>1 DEF AnnounceLive, Goes, Quiet, forwarderOthers, Passes
  <2>5. CASE PublishEvent
    <3>1. log' = Append(log, [kind |-> "session", what |-> forwarder.note.n])
      BY <2>5 DEF PublishEvent, Hub!Publish, Hub!Event
    <3> QED BY <2>5, <3>1 DEF PublishEvent, Quiet, forwarderOthers, Passes
  <2> QED BY <1>2, <2>1, <2>2, <2>3, <2>4, <2>5 DEF Forward
<1>3. CASE List
  <2>1. CASE AnnounceListed
    <3>1. log' = Append(log, [kind |-> "snapshot", what |-> lister.got])
      BY <2>1 DEF AnnounceListed, Hub!Announce, Hub!Publish, Hub!Snap, Hub!Event
    <3> QED BY <1>1, <2>1, <3>1 DEF AnnounceListed, listerOthers, linkVars
  <2>2. CASE Fetch \/ Enrich \/ Resume \/ StoreListed \/ Reread
    BY <1>1, <2>2 DEF Fetch, Enrich, Resume, StoreListed, Reread, listerOthers, linkVars
  <2> QED BY <1>3, <2>1, <2>2 DEF List
<1>4. CASE StoreCreated \/ AnnounceCreated \/ Echo
  <2>1. CASE StoreCreated BY <1>1, <2>1 DEF StoreCreated, creatorOthers
  <2>2. CASE AnnounceCreated
    <3>1. log' = Append(log, [kind |-> "snapshot", what |-> creator.got])
      BY <2>2 DEF AnnounceCreated, Hub!Announce, Hub!Publish, Hub!Snap, Hub!Event
    <3> QED BY <1>1, <2>2, <3>1 DEF AnnounceCreated, creatorOthers
  <2>3. CASE Echo
    <3>1. log' = Append(log, [kind |-> "message", what |-> "first"])
      BY <2>3 DEF Echo, Hub!Publish, Hub!Event
    <3> QED BY <1>1, <2>3, <3>1 DEF Echo, creatorOthers
  <2> QED BY <1>4, <2>1, <2>2, <2>3
<1>5. ASSUME NEW d \in Devices, FetchApprovals(d) \/ ReplaceApprovals(d) \/ Decide(d)
      PROVE  Passes
  <2>1. CASE Resolve(d)
    <3>1. log' = Append(log, [kind |-> "resolved",
                              what |-> [prompt |-> calls[d].prompt, say |-> calls[d].say]])
      BY <2>1 DEF Resolve, Hub!Publish, Hub!Event
    <3> QED BY <1>1, <2>1, <3>1 DEF Resolve, approvalOthers, linkVars, writerVars
  <2>2. ASSUME \/ FetchApprovals(d) \/ ReplaceApprovals(d) \/ Answer(d) \/ Remove(d)
               \/ \E prompt \in Prompts, say \in Decisions : Find(d, prompt, say)
        PROVE  Passes
    BY <1>1, <2>2 DEF FetchApprovals, ReplaceApprovals, Find, Answer, Remove, approvalOthers,
                      linkVars, writerVars
  <2> QED BY <1>5, <2>1, <2>2 DEF Decide
<1>6. CASE Pairing BY <1>1, <1>6 DEF Pairing, phoneOthers, linkVars, writerVars
<1>7. ASSUME NEW d \in Devices, Revoke(d) \/ CutStreams(d)
      PROVE  Passes
  <2>1. CASE Revoke(d) BY <1>1, <2>1 DEF Revoke, phoneOthers, linkVars, writerVars
  <2>2. CASE CutStreams(d)
    <3>1. log' = Append(log, [kind |-> "disconnect", what |-> d])
      BY <2>2 DEF CutStreams, Hub!Publish, Hub!Disconnect, Hub!Event
    <3> QED BY <1>1, <2>2, <3>1 DEF CutStreams, phoneOthers, linkVars, writerVars
  <2> QED BY <1>7, <2>1, <2>2
<1>8. CASE \/ UNCHANGED feedVars
           \/ \E s \in Streams : (\E d \in Devices : Upgrade(s, d)) \/ Stream(s)
  <2>1. UNCHANGED <<page, link, forwarder, codex, log>>
    BY <1>8 DEF feedVars, hubVars, Upgrade, Stream, streamOthers, linkVars, writerVars
  <2> QED BY <1>1, <2>1
<1> QED BY <1>2, <1>3, <1>4, <1>5, <1>6, <1>7, <1>8

\* What was heard stays where it was published.
LEMMA StillHeard ==
  ASSUME IsLog(log), Publishes, NEW s \in Streams, Hears(streams[s])
  PROVE  Hears(streams[s])'
<1> DEFINE stream == streams[s]
<1>1. stream' = stream BY DEF Publishes
<1>2. Hears(stream) OBVIOUS
<1> HIDE DEF stream
<1>3. ASSUME UNCHANGED log
      PROVE  Hears(stream)'
  BY <1>1, <1>2, <1>3 DEF Hears, SessionsIn
<1>4. ASSUME NEW e, log' = Append(log, e)
      PROVE  Hears(stream)'
  <2>1. /\ Len(log) \in Nat /\ Len(log') = Len(log) + 1
        /\ \A i \in 1 .. Len(log) : log'[i] = log[i]
    BY <1>4, LogStep
  <2>2. \A k \in SessionsIn(log) : k \in SessionsIn(log') /\ log'[k] = log[k]
    BY <2>1 DEF SessionsIn
  <2>3. \A i \in 1 .. Len(stream.heard) :
          \E k \in SessionsIn(log') : k < stream.next /\ log'[k].what = stream.heard[i]
    <3> SUFFICES ASSUME NEW i \in 1 .. Len(stream.heard)
                 PROVE  \E k \in SessionsIn(log') : k < stream.next /\ log'[k].what = stream.heard[i]
      OBVIOUS
    <3>1. PICK k \in SessionsIn(log) : k < stream.next /\ log[k].what = stream.heard[i]
      BY <1>2 DEF Hears
    <3> QED BY <2>2, <3>1
  <2> QED BY <1>1, <1>2, <2>3 DEF Hears
<1>5. Hears(stream)' BY <1>3, <1>4 DEF Publishes, LogGrows
<1> QED BY <1>5 DEF stream

\* A stream that moves hears the next notification, or nothing new.
LEMMA StreamHears ==
  ASSUME StreamsInv, LineInOrder, NEW s \in Streams, Hears(streams[s]), Stream(s)
  PROVE  Hears(streams'[s]) /\ \A t \in Streams \ {s} : streams'[t] = streams[t]
<1> DEFINE stream == streams[s]
<1>1. /\ Reads(stream) /\ Hears(stream) /\ IsLog(log) /\ Len(log) \in Nat
      /\ DOMAIN stream = StreamFields /\ DOMAIN streams = Streams
  BY DEF StreamsInv, IsLog, Reads
<1>2. \A t \in Streams \ {s} : streams'[t] = streams[t]
  BY <1>1 DEF Stream, Hub!Register, Hub!CopySnapshots, Hub!Replay, Hub!Receive, Hub!Closes, Hub!Move
<1>3. Hears(Hub!Ended(s))
  <2>1. Hub!Ended(s).heard = << >> BY DEF Hub!Ended, Hub!Off
  <2>2. IsLog(Hub!Ended(s).heard) /\ Len(Hub!Ended(s).heard) = 0 BY <2>1 DEF IsLog
  <2> QED BY <2>2 DEF Hears
<1>4. ASSUME NEW next, next.heard = stream.heard, next.next >= stream.next, next.next \in Nat
      PROVE  Hears(next)
  BY <1>1, <1>4 DEF Hears, Reads, SessionsIn
<1>5. CASE Hub!Register(s)
  <2> DEFINE next == [Hub!Receiver(s) EXCEPT !.at = "registered"]
  <2>1. streams'[s] = next BY <1>1, <1>5 DEF Hub!Register, Hub!Move
  <2>2. next.heard = stream.heard /\ next.next = Len(log) + 1
    BY <1>1 DEF Hub!Receiver, StreamFields
  <2> HIDE DEF next, stream
  <2>3. Hears(next) BY <1>1, <1>4, <2>2 DEF Reads
  <2> QED BY <1>2, <2>1, <2>3
<1>6. CASE Hub!CopySnapshots(s)
  <2> DEFINE next == Hub!Copied(s)
  <2>1. streams'[s] = next BY <1>1, <1>6 DEF Hub!CopySnapshots, Hub!Move
  <2>2. next.heard = stream.heard /\ next.next = stream.next
    BY <1>1 DEF Hub!Copied, StreamFields
  <2> HIDE DEF next, stream
  <2>3. Hears(next) BY <1>1, <1>4, <2>2 DEF Reads
  <2> QED BY <1>2, <2>1, <2>3
<1>7. CASE Hub!Replay(s)
  <2> DEFINE next == [streams[s] EXCEPT !.view = Head(streams[s].replay), !.replay = Tail(@)]
  <2>1. streams'[s] = next BY <1>1, <1>7 DEF Hub!Replay, Hub!Move
  <2>2. next.heard = stream.heard /\ next.next = stream.next BY <1>1 DEF StreamFields
  <2> HIDE DEF next, stream
  <2>3. Hears(next) BY <1>1, <1>4, <2>2 DEF Reads
  <2> QED BY <1>2, <2>1, <2>3
<1>8. CASE Hub!Closes(s)
  BY <1>1, <1>2, <1>3, <1>8 DEF Hub!Closes, Hub!Move
<1>9. CASE Hub!Receive(s)
  <2> DEFINE event == log[streams[s].next]
             next == Hub!Shown([streams[s] EXCEPT !.next = @ + 1], event)
  <2>1. CASE Hub!Lagged(s) \/ Hub!Cuts(s, event)
    BY <1>1, <1>2, <1>3, <1>9, <2>1 DEF Hub!Receive, Hub!Move
  <2>2. CASE ~(Hub!Lagged(s) \/ Hub!Cuts(s, event))
    <3>1. streams'[s] = next BY <1>1, <1>9, <2>2 DEF Hub!Receive, Hub!Move
    <3>2. stream.next \in 1 .. Len(log)
      BY <1>1, <1>9 DEF Hub!Receive, Hub!Behind, Reads
    <3>3. /\ next.next = stream.next + 1
          /\ next.heard = IF event.kind = "session" THEN Append(stream.heard, event.what)
                          ELSE stream.heard
      BY <1>1 DEF Hub!Shown, StreamFields
    <3> HIDE DEF next, stream
    <3>4. CASE event.kind # "session"
      <4>1. Hears(next) BY <1>1, <1>4, <3>2, <3>3, <3>4
      <4> QED BY <1>2, <3>1, <4>1
    <3>5. CASE event.kind = "session"
      <4> DEFINE line == next.heard
                 place == stream.next
      <4>1. event = log[place] BY DEF stream
      <4>2. place \in SessionsIn(log) BY <3>2, <3>5, <4>1 DEF SessionsIn
      <4> HIDE DEF event
      <4>3. /\ IsLog(stream.heard) /\ Len(stream.heard) \in Nat
            /\ line = Append(stream.heard, event.what)
        BY <1>1, <3>3, <3>5 DEF Hears, IsLog
      <4>4. /\ IsLog(line) /\ Len(line) = Len(stream.heard) + 1
            /\ line[Len(stream.heard) + 1] = event.what
            /\ \A i \in 1 .. Len(stream.heard) : line[i] = stream.heard[i]
        BY <4>3, AppendKeeps
      <4>5. \A i \in 1 .. Len(stream.heard) :
              \E k \in SessionsIn(log) : k < place /\ log[k].what = stream.heard[i]
        BY <1>1 DEF Hears
      <4>6. \A i \in 1 .. Len(stream.heard) : stream.heard[i] < event.what
        BY <4>1, <4>2, <4>5 DEF LineInOrder, PublishedInOrder
      <4>7. \A i, j \in 1 .. Len(stream.heard) : i < j => stream.heard[i] < stream.heard[j]
        BY <1>1 DEF Hears
      <4> HIDE DEF line, place
      <4>8. \A k \in SessionsIn(log) : k \in Nat BY DEF SessionsIn
      <4>9. ASSUME NEW i \in 1 .. Len(line)
            PROVE  \E k \in SessionsIn(log) : k < place + 1 /\ log[k].what = line[i]
        <5>1. CASE i \in 1 .. Len(stream.heard)
          <6>1. PICK k \in SessionsIn(log) : k < place /\ log[k].what = stream.heard[i]
            BY <4>5, <5>1
          <6>2. k < place + 1 BY <4>2, <4>8, <6>1
          <6> QED BY <4>4, <5>1, <6>1, <6>2
        <5>2. CASE i = Len(stream.heard) + 1
          <6>1. place < place + 1 BY <4>2, <4>8
          <6> QED BY <4>1, <4>2, <4>4, <5>2, <6>1
        <5> QED BY <4>3, <4>4, <4>9, <5>1, <5>2
      <4>10. ASSUME NEW i \in 1 .. Len(line), NEW j \in 1 .. Len(line), i < j
             PROVE  line[i] < line[j]
        <5>1. i \in 1 .. Len(stream.heard) BY <4>3, <4>4, <4>10
        <5> QED BY <4>3, <4>4, <4>6, <4>7, <4>10, <5>1
      <4>11. next.next = place + 1 BY <3>3 DEF place
      <4>12. Hears(next) BY <4>4, <4>9, <4>10, <4>11 DEF Hears, line
      <4> QED BY <1>2, <3>1, <4>12
    <3> QED BY <3>4, <3>5
  <2> QED BY <2>1, <2>2
<1> QED BY <1>5, <1>6, <1>7, <1>8, <1>9 DEF Stream

\* Whatever breaks, quits or reloads, notifications stay in the order Codex sent them: on
\* the link, in what the Bridge published, and in what each stream has heard.
THEOREM OrderInvariant == Spec => []OrderInv
<1>1. Init => OrderInv
  <2> SUFFICES ASSUME Init, BridgeKinds = {"host"}, StreamsInv
               PROVE  LineInOrder /\ \A s \in Streams : Hears(streams[s])
    BY StreamsInvStarts DEF OrderInv
  <2>1. log = << >> /\ streams = [s \in Streams |-> Hub!Off] BY DEF Init, FeedInit, Hub!HubInit
  <2>2. SessionsIn(log) = {} BY <2>1 DEF SessionsIn
  <2>3. /\ DOMAIN forwarder = {"pc", "note", "mute", "got"} /\ forwarder.note.n = 0
        /\ forwarder.pc = "idle" /\ DOMAIN codex = {"status", "open", "asked", "said"}
        /\ codex.said = 0
    BY DEF Init, FeedInit, Quiet
  <2>4. \A n \in Passed : n = 0 BY <2>2, <2>3 DEF Passed
  <2>5. Queues(link, Passed, codex.said)
    BY EmptyQueues DEF Init, FeedInit, Link!LinkInit, Link!Down
  <2>6. OneSet BY DEF Init, FeedInit, Link!LinkInit, Link!Fresh, OneSet
  <2>7. PublishedInOrder BY <2>2, <2>3 DEF PublishedInOrder
  <2>8. LineInOrder BY <2>3, <2>4, <2>5, <2>6, <2>7 DEF LineInOrder
  <2>9. Hears(Hub!Off)
    <3>1. Hub!Off.heard = << >> BY DEF Hub!Off
    <3>2. IsLog(Hub!Off.heard) /\ Len(Hub!Off.heard) = 0 BY <3>1 DEF IsLog
    <3> QED BY <3>2 DEF Hears
  <2> QED BY <2>1, <2>8, <2>9
<1>2. OrderInv /\ [Next]_vars => OrderInv'
  <2> SUFFICES ASSUME BridgeKinds = {"host"}, StreamsInv, LineInOrder,
                      \A s \in Streams : Hears(streams[s]), [FeedNext]_feedVars
               PROVE  StreamsInv' /\ LineInOrder' /\ \A s \in Streams : Hears(streams[s])'
    BY FeedSteps DEF OrderInv
  <2>1. StreamsInv' BY StreamsInvStep
  <2>2. IsLog(log) BY DEF StreamsInv
  <2>3. LineInOrder'
    <3>1. CASE CodexEmits
      <4>1. PICK kind, prompt : Emits(kind, prompt) BY <3>1 DEF CodexEmits
      <4>2. DOMAIN codex' = DOMAIN codex /\ codex'.said = codex.said + 1
        BY <4>1 DEF Emits, LineInOrder
      <4>3. /\ UNCHANGED <<page, log, forwarder>>
            /\ link' = Link!Emitted(Note(kind, prompt)) /\ Note(kind, prompt).n = codex.said + 1
        BY <4>1 DEF Emits, Note, hubVars, writerVars
      <4> QED BY <4>2, <4>3, EmitsInOrder
    <3>2. CASE StartThread
      <4>1. codex.said = 0 /\ codex' = [codex EXCEPT !.status = "running", !.said = 1]
        BY <3>2 DEF StartThread
      <4>2. DOMAIN codex' = DOMAIN codex /\ codex'.said = codex.said + 1
        BY <4>1 DEF LineInOrder
      <4>3. /\ UNCHANGED <<page, log, forwarder>>
            /\ link' = Link!Emitted(Note("turn/started", "none"))
            /\ Note("turn/started", "none").n = codex.said + 1
        BY <3>2 DEF StartThread, creatorOthers, Note
      <4> QED BY <4>2, <4>3, EmitsInOrder
    <3>3. CASE LinkStep
      <4>1. UNCHANGED <<log, forwarder, codex>> BY <3>3 DEF LinkStep, hubVars, writerVars
      <4>2. Queues(link', Passed, codex.said) /\ OneSet' BY <3>3, LinkStepOrder DEF LineInOrder
      <4>3. UNCHANGED Passed /\ PublishedInOrder'
        BY <4>1 DEF LineInOrder, Passed, PublishedInOrder, SessionsIn
      <4> QED BY <4>1, <4>2, <4>3 DEF LineInOrder
    <3>4. CASE Take BY <3>4, TakeInOrder
    <3>5. CASE ~(CodexEmits \/ StartThread \/ LinkStep \/ Take)
      <4>1. Passes BY <3>5, OthersPass DEF LineInOrder, FeedNext, Create
      <4> QED BY <2>2, <4>1, PassesInOrder
    <3> QED BY <3>1, <3>2, <3>3, <3>4, <3>5
  <2>4. ASSUME NEW s \in Streams
        PROVE  Hears(streams[s])'
    <3>1. CASE Publishes BY <2>2, <3>1, StillHeard
    <3>2. ASSUME NEW t \in Streams, Stream(t) PROVE Hears(streams[s])'
      <4>1. Hears(streams'[s]) BY <3>2, StreamHears
      <4>2. UNCHANGED log BY <3>2 DEF Stream, streamOthers
      <4> QED BY <4>1, <4>2 DEF Hears, SessionsIn
    <3>3. ASSUME NEW t \in Streams, NEW d \in Devices, Upgrade(t, d) PROVE Hears(streams[s])'
      <4> DEFINE next == [Hub!Off EXCEPT !.at = "upgraded", !.device = d]
      <4>1. /\ UNCHANGED log /\ DOMAIN streams = Streams
            /\ streams' = [streams EXCEPT ![t] = next]
        BY <3>3 DEF Upgrade, streamOthers, Hub!Upgraded, Hub!Move, StreamsInv
      <4>2. Hears(next)
        <5>1. next.heard = << >> BY DEF Hub!Off
        <5> HIDE DEF next
        <5>2. IsLog(next.heard) /\ Len(next.heard) = 0 BY <5>1 DEF IsLog
        <5> QED BY <5>2 DEF Hears
      <4> HIDE DEF next
      <4>3. Hears(streams'[s]) BY <4>1, <4>2
      <4> QED BY <4>1, <4>3 DEF Hears, SessionsIn
    <3> QED BY <3>1, <3>2, <3>3, OthersPublish DEF FeedNext
  <2> QED BY <2>1, <2>3, <2>4
<1> QED BY <1>1, <1>2, PTL DEF Spec

\* So a phone hears the notifications of a thread in the order Codex sent them, and none
\* twice, where a host bridge is installed.
THEOREM NotificationsInOrder == Spec => []FeedInOrder
<1>1. OrderInv => FeedInOrder
  <2> SUFFICES ASSUME OrderInv, BridgeKinds = {"host"}, NEW s \in Streams,
                      NEW i \in DOMAIN streams[s].heard, NEW j \in DOMAIN streams[s].heard, i < j
               PROVE  streams[s].heard[i] < streams[s].heard[j]
    BY DEF FeedInOrder
  <2>1. Hears(streams[s]) BY DEF OrderInv
  <2>2. DOMAIN streams[s].heard = 1 .. Len(streams[s].heard) BY <2>1 DEF Hears, IsLog
  <2> QED BY <2>1, <2>2 DEF Hears
<1> QED BY <1>1, OrderInvariant, PTL

-----------------------------------------------------------------------------
\* What a request knows of workspaces: a directory it is about to start a session in
\* was offered when it was checked, and is no link.
ListingFields == {"pc", "for", "cursor", "seen", "threads", "page", "ids", "path"}

WorkspacesInv ==
  /\ present \subseteq Dirs
  /\ DOMAIN listing = ListingFields /\ DOMAIN started = {"at", "offered"}
  /\ listing.pc = "start" => listing.path \in Dirs \cap started.offered
  /\ StartedWhereOffered

\* What is canonical is a directory, the root, or gone, and a directory stays itself.
LEMMA CanonicalPath ==
  ASSUME present \subseteq Dirs
  PROVE  /\ \A path : Canonical(path) \in Dirs \cup {Root, "gone"}
         /\ \A path \in Dirs : Canonical(path) \in {path, "gone"}
BY ThreadListingAssumption DEF Canonical, Leads

\* A request for a path that is valid goes on with a directory that is offered.
LEMMA ValidatedIsOffered ==
  ASSUME present \subseteq Dirs, NEW path, NEW valid \in Validated(path)
  PROVE  valid \in Dirs \cap Offered
<1>1. /\ valid = Canonical(path) /\ Canonical(path) \notin {"gone", Root}
      /\ \E t \in listing.threads : Canonical(path) \in Workspaces(Cwd[t])
  BY DEF Validated
<1>2. valid \in Dirs BY <1>1, CanonicalPath
<1>3. valid \in Offered BY <1>1 DEF Offered
<1> QED BY <1>2, <1>3

\* Steps of the listing that neither check nor start anything.
LEMMA OtherListingSteps ==
  ASSUME WorkspacesInv, UNCHANGED <<present, started>>, DOMAIN listing' = ListingFields,
         listing'.pc = "start" => listing'.path = listing.path /\ listing.pc = "start"
  PROVE  WorkspacesInv'
BY DEF WorkspacesInv, StartedWhereOffered

\* What other scenes do changes nothing of the listing.
LEMMA ListingSteps == [Next]_vars => [ListingNext]_listingVars
<1> SUFFICES ASSUME [Next]_vars PROVE ListingNext \/ UNCHANGED listingVars OBVIOUS
<1>1. CASE UNCHANGED vars BY <1>1 DEF vars
<1> QED BY <1>1 DEF Next

\* Sessions are started only where they may be, for any threads, links and moves.
THEOREM WorkspaceOffered == Spec => []StartedWhereOffered
<1>1. Init => WorkspacesInv
  BY DEF Init, ListingInit, WorkspacesInv, NoListing, NotStarted, ListingFields,
         StartedWhereOffered
<1>2. WorkspacesInv /\ [Next]_vars => WorkspacesInv'
  <2> SUFFICES ASSUME WorkspacesInv, [ListingNext]_listingVars PROVE WorkspacesInv'
    BY ListingSteps
  <2> USE DEF ListingFields
  <2>1. DOMAIN NoListing = ListingFields /\ NoListing.pc = "idle" BY DEF NoListing
  <2>2. CASE UNCHANGED listingVars
    BY <2>2 DEF listingVars, WorkspacesInv, StartedWhereOffered
  <2>3. ASSUME NEW t \in Threads, Use(t) \/ Archive(t) \/ Notifies(t)
        PROVE  WorkspacesInv'
    <3>1. UNCHANGED <<listing, present, started>>
      BY <2>3 DEF Use, Archive, Touch, codexOthers, Notifies
    <3> QED BY <3>1 DEF WorkspacesInv, StartedWhereOffered
  <2>4. ASSUME NEW for, NEW path, Ask(for, path)
        PROVE  WorkspacesInv'
    <3>1. /\ listing' = [NoListing EXCEPT !.pc = "pages", !.for = for, !.path = path]
          /\ UNCHANGED present /\ started' = NotStarted
      BY <2>4 DEF Ask, requestOthers
    <3>2. DOMAIN listing' = ListingFields /\ listing'.pc = "pages" BY <3>1 DEF NoListing
    <3>3. DOMAIN started' = {"at", "offered"} /\ started'.at = "none" BY <3>1 DEF NotStarted
    <3> QED BY <3>1, <3>2, <3>3 DEF WorkspacesInv, StartedWhereOffered
  <2>5. CASE FetchThreads
    <3>1. UNCHANGED <<present, started>> BY <2>5 DEF FetchThreads, requestOthers
    <3>2. "pc" \in DOMAIN listing BY DEF WorkspacesInv
    <3>3. DOMAIN listing' = DOMAIN listing /\ listing'.pc # "start"
      BY <2>5, <3>2 DEF FetchThreads
    <3>4. DOMAIN listing' = ListingFields BY <3>3 DEF WorkspacesInv
    <3> QED BY <3>1, <3>3, <3>4, OtherListingSteps
  <2>6. CASE FailListing
    BY <2>1, <2>6, OtherListingSteps DEF FailListing, requestOthers
  <2>7. CASE ShowThread
    <3>1. /\ UNCHANGED <<present, started>>
          /\ \E t \in listing.threads : listing' = [listing EXCEPT !.threads = @ \ {t}]
      BY <2>7 DEF ShowThread, requestOthers
    <3>2. DOMAIN listing' = ListingFields /\ listing'.pc = listing.pc /\ listing'.path = listing.path
      BY <3>1 DEF WorkspacesInv
    <3> QED BY <3>1, <3>2, OtherListingSteps
  <2>8. CASE ReadMarks
    <3>1. UNCHANGED <<present, started>> /\ listing' = [listing EXCEPT !.pc = "reply", !.ids = marked]
      BY <2>8 DEF ReadMarks, requestOthers
    <3>2. DOMAIN listing' = ListingFields /\ listing'.pc = "reply"
      BY <3>1 DEF WorkspacesInv
    <3> QED BY <3>1, <3>2, OtherListingSteps
  <2>9. CASE ReplyList
    <3>1. UNCHANGED <<present, started>> /\ listing' = [NoListing EXCEPT !.pc = "answered"]
      BY <2>9 DEF ReplyList, requestOthers
    <3>2. DOMAIN listing' = ListingFields /\ listing'.pc = "answered"
      BY <2>1, <3>1
    <3> QED BY <3>1, <3>2, OtherListingSteps
  <2>10. CASE Rest
    BY <2>1, <2>10, OtherListingSteps DEF Rest, requestOthers
  <2>11. CASE Validate
    <3>1. UNCHANGED present BY <2>11 DEF Validate, requestOthers
    <3>2. CASE Validated(listing.path) = {}
      BY <2>1, <2>11, <3>1, <3>2, OtherListingSteps DEF Validate
    <3>3. CASE Validated(listing.path) # {}
      <4>1. PICK path \in Validated(listing.path) :
              listing' = [listing EXCEPT !.pc = "start", !.path = path]
        BY <2>11, <3>3 DEF Validate
      <4>2. started' = [NotStarted EXCEPT !.offered = Offered] BY <2>11, <3>3 DEF Validate
      <4>3. path \in Dirs \cap Offered BY <4>1, ValidatedIsOffered DEF WorkspacesInv
      <4>4. DOMAIN listing' = ListingFields /\ listing'.path = path
        BY <4>1 DEF WorkspacesInv
      <4>5. DOMAIN started' = {"at", "offered"} /\ started'.at = "none" /\ started'.offered = Offered
        BY <4>2 DEF NotStarted
      <4> QED BY <3>1, <4>3, <4>4, <4>5 DEF WorkspacesInv, StartedWhereOffered
    <3> QED BY <3>2, <3>3
  <2>12. CASE StartSession
    <3>1. /\ listing.pc = "start" /\ UNCHANGED present /\ listing' = NoListing
          /\ started' = [started EXCEPT !.at = Canonical(listing.path)]
      BY <2>12 DEF StartSession, requestOthers
    <3>2. Canonical(listing.path) \in {listing.path, "gone"}
      BY <3>1, CanonicalPath DEF WorkspacesInv
    <3>3. /\ DOMAIN started' = {"at", "offered"} /\ started'.offered = started.offered
          /\ started'.at \in {listing.path, "gone"}
      BY <3>1, <3>2 DEF WorkspacesInv
    <3> QED BY <2>1, <3>1, <3>3 DEF WorkspacesInv, StartedWhereOffered
  <2>13. CASE Moves
    <3>1. UNCHANGED <<listing, started>> BY <2>13 DEF Moves
    <3>2. present' \subseteq Dirs BY <2>13 DEF Moves, WorkspacesInv
    <3> QED BY <3>1, <3>2 DEF WorkspacesInv, StartedWhereOffered
  <2> QED BY <2>2, <2>3, <2>4, <2>5, <2>6, <2>7, <2>8, <2>9, <2>10, <2>11, <2>12, <2>13
      DEF ListingNext
<1>3. WorkspacesInv => StartedWhereOffered BY DEF WorkspacesInv
<1> QED BY <1>1, <1>2, <1>3, PTL DEF Spec
-----------------------------------------------------------------------------
\* In a finite set whose members have different weights, the members with so many heavier
\* ones there are, for every such number: the heaviest, the one after it, and so on.
LEMMA Ranked ==
  ASSUME NEW S, IsFiniteSet(S), NEW w, \A u \in S : w[u] \in Nat,
         \A u, v \in S : w[u] = w[v] => u = v,
         NEW k \in Nat, k < Cardinality(S)
  PROVE  \E u \in S : Cardinality({v \in S : w[v] > w[u]}) = k
<1> DEFINE Heavier(u) == {v \in S : w[v] > w[u]}
           n == Cardinality(S)
           r == [u \in S |-> Cardinality(Heavier(u))]
<1>1. n \in Nat BY FS_CardinalityType
<1>2. \A u \in S : /\ IsFiniteSet(Heavier(u)) /\ Cardinality(Heavier(u)) \in Nat
                   /\ Cardinality(Heavier(u)) < n
  <2> SUFFICES ASSUME NEW u \in S
               PROVE  /\ IsFiniteSet(Heavier(u)) /\ Cardinality(Heavier(u)) \in Nat
                      /\ Cardinality(Heavier(u)) < n
    OBVIOUS
  <2>1. Heavier(u) \in SUBSET S /\ u \notin Heavier(u) OBVIOUS
  <2>2. /\ IsFiniteSet(Heavier(u)) /\ Cardinality(Heavier(u)) <= n
        /\ n = Cardinality(Heavier(u)) => S = Heavier(u)
    BY <2>1, FS_Subset
  <2>3. Cardinality(Heavier(u)) \in Nat BY <2>2, FS_CardinalityType
  <2> QED BY <1>1, <2>1, <2>2, <2>3
<1>3. \A u, v \in S : w[u] > w[v] => Cardinality(Heavier(u)) < Cardinality(Heavier(v))
  <2> SUFFICES ASSUME NEW u \in S, NEW v \in S, w[u] > w[v]
               PROVE  Cardinality(Heavier(u)) < Cardinality(Heavier(v))
    OBVIOUS
  <2>1. Heavier(u) \in SUBSET Heavier(v) /\ u \in Heavier(v) /\ u \notin Heavier(u) OBVIOUS
  <2>2. /\ Cardinality(Heavier(u)) <= Cardinality(Heavier(v))
        /\ Cardinality(Heavier(v)) = Cardinality(Heavier(u)) => Heavier(v) = Heavier(u)
    BY <1>2, <2>1, FS_Subset
  <2>3. Heavier(v) # Heavier(u) BY <2>1
  <2>4. Cardinality(Heavier(u)) \in Nat /\ Cardinality(Heavier(v)) \in Nat BY <1>2
  <2> HIDE DEF Heavier
  <2> QED BY <2>2, <2>3, <2>4
<1>4. \A u, v \in S : r[u] = r[v] => u = v
  <2> SUFFICES ASSUME NEW u \in S, NEW v \in S, u # v PROVE r[u] # r[v] OBVIOUS
  <2>1. w[u] > w[v] \/ w[v] > w[u] OBVIOUS
  <2>2. r[u] = Cardinality(Heavier(u)) /\ r[v] = Cardinality(Heavier(v)) OBVIOUS
  <2> HIDE DEF Heavier, r
  <2> QED BY <1>2, <1>3, <2>1, <2>2
<1>5. r \in [S -> 0 .. n - 1]
  <2>1. \A u \in S : Cardinality(Heavier(u)) \in 0 .. n - 1 BY <1>1, <1>2
  <2> HIDE DEF Heavier, n
  <2> QED BY <2>1
<1>6. IsFiniteSet(0 .. n - 1) /\ Cardinality(0 .. n - 1) = n
  <2>1. 0 \in Int /\ n - 1 \in Int BY <1>1
  <2> HIDE DEF n
  <2>2. /\ IsFiniteSet(0 .. (n - 1))
        /\ Cardinality(0 .. (n - 1)) = IF 0 > n - 1 THEN 0 ELSE (n - 1) - 0 + 1
    BY <2>1, FS_Interval
  <2> QED BY <1>1, <2>2
<1>7. r \in Injection(S, 0 .. n - 1)
  <2> HIDE DEF r, n
  <2> QED BY <1>4, <1>5 DEF Injection, IsInjective
<1>8. r \in Surjection(S, 0 .. n - 1)
  <2> HIDE DEF r
  <2> QED BY <1>6, <1>7, FS_Injection
<1>9. PICK u \in S : r[u] = k
  <2>1. k \in 0 .. n - 1 BY <1>1
  <2> HIDE DEF r, n
  <2> QED BY <1>8, <2>1 DEF Surjection
<1> QED BY <1>9

-----------------------------------------------------------------------------
\* The threads below a cursor that are more recent than t.
Above(t, cursor) == {u \in Below(cursor) : recency[u] > recency[t]}

\* Recencies are numbers, and different where there is one.
Recencies ==
  /\ recency \in [Threads -> Nat] /\ touches \in 0 .. MaxTouches
  /\ \A t \in Threads : recency[t] <= Cardinality(Threads) + touches
  /\ \A t, u \in Threads : recency[t] = recency[u] => t = u \/ recency[t] = 0

LEMMA FiniteLists ==
  \A cursor : /\ IsFiniteSet(Below(cursor)) /\ IsFiniteSet(PageBelow(cursor))
              /\ \A t : IsFiniteSet(Above(t, cursor)) /\ Cardinality(Above(t, cursor)) \in Nat
<1> SUFFICES ASSUME NEW cursor
             PROVE  /\ IsFiniteSet(Below(cursor)) /\ IsFiniteSet(PageBelow(cursor))
                    /\ \A t : /\ IsFiniteSet(Above(t, cursor))
                              /\ Cardinality(Above(t, cursor)) \in Nat
  OBVIOUS
<1>1. Below(cursor) \in SUBSET Threads /\ PageBelow(cursor) \in SUBSET Threads
  BY DEF Below, PageBelow
<1>2. \A t : Above(t, cursor) \in SUBSET Threads BY DEF Below, Above
<1>3. IsFiniteSet(Threads) BY ThreadListingAssumption
<1>4. \A t : IsFiniteSet(Above(t, cursor)) BY <1>2, <1>3, FS_Subset
<1> QED BY <1>1, <1>3, <1>4, FS_Subset, FS_CardinalityType

\* A page that t has not come to is full, with threads that are more recent than t.
LEMMA FullPage ==
  ASSUME Recencies, NEW cursor \in Nat, NEW t \in Below(cursor) \ PageBelow(cursor)
  PROVE  /\ PageBelow(cursor) \subseteq Above(t, cursor)
         /\ Cardinality(PageBelow(cursor)) >= PageSize
<1> DEFINE got == PageBelow(cursor)
           top == Above(t, cursor)
           r == [u \in got |-> Cardinality(Above(u, cursor))]
<1>1. Cardinality(top) \in Nat /\ Cardinality(top) >= PageSize /\ IsFiniteSet(top)
  <2>1. Cardinality(top) \in Nat /\ IsFiniteSet(top) BY FiniteLists
  <2>2. ~(Cardinality(top) < PageSize) BY DEF PageBelow, Above
  <2> QED BY <2>1, <2>2, ThreadListingAssumption
<1>2. \A u \in got : u \in Below(cursor) /\ Cardinality(Above(u, cursor)) < PageSize
  BY DEF PageBelow, Above
<1>3. \A u \in Below(cursor) : u \in Threads /\ recency[u] \in Nat
  BY DEF Recencies, Below
<1>4. got \subseteq top
  <2> SUFFICES ASSUME NEW u \in got, ~(recency[u] > recency[t]) PROVE FALSE
    BY <1>2 DEF Above
  <2>1. u \in Below(cursor) /\ recency[u] \in Nat /\ recency[t] \in Nat BY <1>2, <1>3
  <2>2. top \in SUBSET Above(u, cursor) BY <1>3, <2>1 DEF Above
  <2>3. Cardinality(top) <= Cardinality(Above(u, cursor)) BY <2>2, FiniteLists, FS_Subset
  <2>4. Cardinality(Above(u, cursor)) \in Nat /\ Cardinality(Above(u, cursor)) < PageSize
    BY <1>2, FiniteLists
  <2> HIDE DEF top
  <2> QED BY <1>1, <2>3, <2>4, ThreadListingAssumption
<1>5. r \in Surjection(got, 0 .. PageSize - 1)
  <2>1. \A u \in got : Cardinality(Above(u, cursor)) \in 0 .. PageSize - 1
    BY <1>2, FiniteLists, ThreadListingAssumption
  <2>2. r \in [got -> 0 .. PageSize - 1] BY <2>1
  <2>3. ASSUME NEW k \in 0 .. PageSize - 1 PROVE \E u \in got : r[u] = k
    <3>1. k \in Nat /\ k < Cardinality(top) BY <1>1, ThreadListingAssumption
    <3>2. /\ \A u \in top : recency[u] \in Nat
          /\ \A u, v \in top : recency[u] = recency[v] => u = v
      BY <1>3 DEF Above, Below, Recencies
    <3> HIDE DEF top
    <3>3. \E u \in top : Cardinality({v \in top : recency[v] > recency[u]}) = k
      <4>1. IsFiniteSet(top) BY <1>1
      <4> QED BY <3>1, <3>2, <4>1, Ranked
    <3>4. PICK u \in top : Cardinality({v \in top : recency[v] > recency[u]}) = k
      BY <3>3
    <3> USE DEF top
    <3>5. u \in Below(cursor) /\ recency[u] > recency[t] /\ recency[t] \in Nat
      BY <1>3 DEF Above
    <3>6. {v \in top : recency[v] > recency[u]} = Above(u, cursor) BY <1>3, <3>5 DEF Above
    <3>7. Cardinality(Above(u, cursor)) = k BY <3>4, <3>6
    <3>8. k < PageSize BY ThreadListingAssumption
    <3>9. u \in got BY <3>5, <3>7, <3>8 DEF PageBelow, Above
    <3> QED BY <3>7, <3>9
  <2> HIDE DEF r
  <2> QED BY <2>2, <2>3 DEF Surjection
<1>6. Cardinality(0 .. PageSize - 1) = PageSize
  <2>1. /\ IsFiniteSet(0 .. (PageSize - 1))
        /\ Cardinality(0 .. (PageSize - 1)) = IF 0 > PageSize - 1 THEN 0 ELSE (PageSize - 1) - 0 + 1
    BY ThreadListingAssumption, FS_Interval
  <2> QED BY <2>1, ThreadListingAssumption
<1>7. Cardinality(0 .. PageSize - 1) <= Cardinality(got)
  <2> HIDE DEF r
  <2> QED BY <1>5, FiniteLists, FS_Surjection
<1>8. Cardinality(got) \in Nat BY FiniteLists, FS_CardinalityType
<1> HIDE DEF got, top
<1>9. Cardinality(got) >= PageSize BY <1>6, <1>7, <1>8, ThreadListingAssumption
<1> QED BY <1>4, <1>9 DEF got, top

\* The cursor after a page is the recency of one of its threads, and of none above it.
LEMMA NextCursor ==
  ASSUME Recencies, NEW cursor \in Nat, PageBelow(cursor) # {}
  PROVE  /\ Oldest(PageBelow(cursor)) \in PageBelow(cursor)
         /\ \A u \in PageBelow(cursor) : recency[u] >= recency[Oldest(PageBelow(cursor))]
<1> DEFINE got == PageBelow(cursor)
<1>1. \A u \in got : u \in Threads /\ recency[u] \in Nat \ {0}
  BY DEF Recencies, PageBelow, Below
<1>2. \A u, v \in got : recency[u] = recency[v] => u = v
  BY <1>1 DEF Recencies
<1>3. IsFiniteSet(got) BY FiniteLists
<1> HIDE DEF got
<1>4. Cardinality(got) \in Nat \ {0} BY <1>3, FS_CardinalityType, FS_EmptySet DEF got
<1>5. Cardinality(got) - 1 \in Nat /\ Cardinality(got) - 1 < Cardinality(got) BY <1>4
<1>6. PICK t \in got : Cardinality({v \in got : recency[v] > recency[t]}) = Cardinality(got) - 1
  BY <1>1, <1>2, <1>3, <1>5, Ranked
<1>7. \A u \in got : recency[u] >= recency[t]
  <2> DEFINE rest == got \ {t}
             more == {v \in got : recency[v] > recency[t]}
  <2>1. IsFiniteSet(rest) /\ Cardinality(rest) = Cardinality(got) - 1
    BY <1>3, FS_RemoveElement
  <2>2. more \in SUBSET rest BY <1>1
  <2>3. Cardinality(more) = Cardinality(rest) BY <1>6, <2>1
  <2>4. rest = more
    <3> HIDE DEF rest, more
    <3> QED BY <2>1, <2>2, <2>3, FS_Subset
  <2> QED BY <1>1, <2>4
<1>8. \E u \in got : \A v \in got : recency[v] >= recency[u] BY <1>7
<1> QED BY <1>8 DEF Oldest, got

\* A thread that a page did not come to has as many fewer before it.
LEMMA AfterPage ==
  ASSUME Recencies, NEW cursor \in Nat, NEW n \in Nat \ {0},
         NEW t \in Below(cursor) \ PageBelow(cursor),
         Cardinality(Above(t, cursor)) < PageSize * n,
         NEW next, next = recency[Oldest(PageBelow(cursor))]
  PROVE  /\ PageBelow(cursor) # {} /\ n # 1
         /\ t \in Below(next) /\ Cardinality(Above(t, next)) < PageSize * (n - 1)
<1> DEFINE got == PageBelow(cursor)
           before == Above(t, cursor)
           after == Above(t, next)
<1>1. /\ got \subseteq before /\ Cardinality(got) >= PageSize /\ Cardinality(got) \in Nat
      /\ IsFiniteSet(got) /\ IsFiniteSet(before) /\ IsFiniteSet(after)
      /\ Cardinality(before) \in Nat /\ Cardinality(after) \in Nat
  BY FullPage, FiniteLists, FS_CardinalityType
<1>2. got # {} BY <1>1, FS_EmptySet, ThreadListingAssumption
<1>3. Oldest(got) \in got /\ \A u \in got : recency[u] >= next BY <1>2, NextCursor
<1>4. next \in Nat /\ \A u \in Threads : recency[u] \in Nat
  BY <1>3 DEF Recencies, PageBelow, Below
<1>5. t \in Below(next) BY <1>1, <1>3, <1>4 DEF Above, Below
<1>6. next <= cursor BY <1>3, <1>4 DEF PageBelow, Below
<1>7. after \subseteq before \ got BY <1>3, <1>4, <1>6 DEF Above, Below
<1>8. Cardinality(after) <= Cardinality(before) - Cardinality(got)
  <2> HIDE DEF got, before, after
  <2>1. IsFiniteSet(before \ got) /\ Cardinality(after) <= Cardinality(before \ got)
    BY <1>1, <1>7, FS_Difference, FS_Subset
  <2>2. Cardinality(before \ got) = Cardinality(before) - Cardinality(before \cap got)
    BY <1>1, FS_Difference
  <2>3. before \cap got = got BY <1>1
  <2> QED BY <2>1, <2>2, <2>3
<1>9. n # 1
  <2> SUFFICES ASSUME n = 1 PROVE FALSE OBVIOUS
  <2>1. Cardinality(before) < PageSize BY ThreadListingAssumption
  <2> QED BY <2>1 DEF PageBelow, Above
<1>10. PageSize * n = PageSize * (n - 1) + PageSize
  <2>1. \A p, m \in Nat : p * (m + 1) = p * m + p OBVIOUS
  <2>2. n - 1 \in Nat /\ n = (n - 1) + 1 OBVIOUS
  <2> QED BY <2>1, <2>2, ThreadListingAssumption
<1>11. PageSize * (n - 1) \in Nat BY ThreadListingAssumption
<1> HIDE DEF got, before, after
<1>12. Cardinality(after) < PageSize * (n - 1)
  BY <1>1, <1>8, <1>10, <1>11, ThreadListingAssumption DEF before
<1> QED BY <1>2, <1>5, <1>9, <1>12 DEF got, after

-----------------------------------------------------------------------------
\* A thread that is still to come, with so many pages to go.
Ahead(t, cursor, n) ==
  t \in Below(cursor) /\ Cardinality(Above(t, cursor)) < PageSize * n

\* While pages are fetched: the cursors go down, and what is due is listed or to come.
PagesInv ==
  listing.pc = "pages" =>
    /\ listing.page \in 0 .. MaxThreadPages - 1 /\ listing.cursor \in Nat
    /\ listing.seen \subseteq Nat /\ \A c \in listing.seen : c >= listing.cursor
    /\ listing.page = 0 => due = {} /\ listing.cursor = First
    /\ listing.page # 0 =>
         /\ listing.cursor <= Cardinality(Threads) + touches
         /\ \A t \in due : \/ t \in listing.threads
                           \/ Ahead(t, listing.cursor, MaxThreadPages - listing.page)

\* While the answer is made: what is due is listed, or has its snapshot and its mark.
ShownInv ==
  /\ listing.pc = "show" =>
       \A t \in due : t \in listing.threads \/ (t \in hub /\ (t \in Subagents => t \in marked))
  /\ listing.pc = "reply" =>
       /\ listing.ids \subseteq Subagents
       /\ \A t \in due : t \in hub /\ (t \in Subagents => t \in listing.ids)

ListInv == /\ Recencies /\ DOMAIN listing = ListingFields
           /\ due \subseteq Threads /\ marked \subseteq Subagents
           /\ PagesInv /\ ShownInv /\ ListingComplete

LEMMA TouchKeepsList ==
  ASSUME ListInv, NEW t \in Threads, Use(t) \/ Archive(t)
  PROVE  ListInv'
<1>1. PICK at \in {0, Cardinality(Threads) + touches + 1} : Touch(t, at)
  BY DEF Use, Archive
<1> USE <1>1 DEF Touch, codexOthers
<1> DEFINE N == Cardinality(Threads)
<1>2. N \in Nat BY ThreadListingAssumption, FS_CardinalityType
<1> HIDE DEF N
<1>3. /\ touches \in Nat /\ touches' = touches + 1 /\ touches' \in 0 .. MaxTouches
      /\ UNCHANGED <<listing, hub, marked, sessions>>
  BY ThreadListingAssumption DEF ListInv, Recencies
<1>4. /\ at \in Nat /\ (at = 0 \/ at = N + touches + 1)
      /\ recency' = [recency EXCEPT ![t] = at] /\ recency \in [Threads -> Nat]
      /\ \A u \in Threads : recency[u] <= N + touches
      /\ \A u, v \in Threads : recency[u] = recency[v] => u = v \/ recency[u] = 0
  BY <1>1, <1>2, <1>3 DEF ListInv, Recencies, N
<1>5. recency' \in [Threads -> Nat] BY <1>4
<1>6. \A u \in Threads : recency'[u] <= N + touches' BY <1>2, <1>3, <1>4
<1>7. \A u, v \in Threads : recency'[u] = recency'[v] => u = v \/ recency'[u] = 0
  <2> SUFFICES ASSUME NEW u \in Threads, NEW v \in Threads, recency'[u] = recency'[v], u # v
               PROVE  recency'[u] = 0
    OBVIOUS
  <2>1. CASE u # t /\ v # t BY <1>4, <2>1
  <2>2. CASE u = t \/ v = t BY <1>2, <1>3, <1>4, <2>2
  <2> QED BY <2>1, <2>2
<1>8. Recencies' BY <1>3, <1>5, <1>6, <1>7 DEF Recencies, N
<1>9. /\ due' \subseteq due
      /\ listing.pc = "pages" => due' = due \ {t}
  BY <1>1 DEF Touch
<1>10. PagesInv'
  <2> SUFFICES ASSUME listing.pc = "pages" PROVE PagesInv' BY <1>3 DEF PagesInv
  <2>1. /\ listing.page \in 0 .. MaxThreadPages - 1 /\ listing.cursor \in Nat
        /\ listing.seen \subseteq Nat /\ \A c \in listing.seen : c >= listing.cursor
        /\ listing.page = 0 => due = {} /\ listing.cursor = First
        /\ listing.page # 0 =>
             /\ listing.cursor <= N + touches
             /\ \A u \in due : \/ u \in listing.threads
                               \/ Ahead(u, listing.cursor, MaxThreadPages - listing.page)
    BY DEF ListInv, PagesInv, N
  <2>2. ASSUME listing.page # 0, NEW u \in due', u \notin listing.threads
        PROVE  Ahead(u, listing.cursor, MaxThreadPages - listing.page)'
    <3> DEFINE cursor == listing.cursor
               n == MaxThreadPages - listing.page
    <3>1. Ahead(u, cursor, n) /\ u \in Threads /\ u # t /\ cursor <= N + touches
      BY <1>9, <2>1, <2>2 DEF ListInv
    <3>2. recency'[u] = recency[u] BY <1>4, <3>1
    <3>3. /\ Below(cursor)' \subseteq Below(cursor)
          /\ \A v \in Below(cursor)' : recency'[v] = recency[v]
      <4> SUFFICES ASSUME NEW v \in Threads, recency'[v] # 0, recency'[v] < cursor
                   PROVE  v \in Below(cursor) /\ recency'[v] = recency[v]
        BY <1>3 DEF Below
      <4>1. v # t BY <1>2, <1>3, <1>4, <2>1, <3>1
      <4> QED BY <1>4, <4>1 DEF Below
    <3>4. u \in Below(cursor)' BY <1>3, <3>1, <3>2 DEF Ahead, Below
    <3>5. Above(u, cursor)' \in SUBSET Above(u, cursor) BY <1>3, <3>2, <3>3 DEF Above
    <3> DEFINE now == Above(u, cursor)'
    <3>6. /\ IsFiniteSet(Above(u, cursor)) /\ Cardinality(Above(u, cursor)) \in Nat
      BY FiniteLists
    <3>7. Cardinality(now) <= Cardinality(Above(u, cursor)) /\ IsFiniteSet(now)
      <4> HIDE DEF now
      <4> QED BY <3>5, <3>6, FS_Subset DEF now
    <3>8. Cardinality(now) \in Nat
      <4> HIDE DEF now
      <4> QED BY <3>7, FS_CardinalityType
    <3>9. Cardinality(Above(u, cursor)) < PageSize * n /\ n \in Nat
      BY <2>1, <3>1, ThreadListingAssumption DEF Ahead
    <3>10. PageSize * n \in Nat BY <3>9, ThreadListingAssumption
    <3>11. Cardinality(now) < PageSize * n
      <4> HIDE DEF now, n, cursor
      <4> QED BY <3>6, <3>7, <3>8, <3>9, <3>10
    <3> QED BY <1>3, <3>4, <3>11 DEF Ahead
  <2>3. listing.page = 0 => due' = {} /\ (listing.cursor = First)' BY <1>3, <1>9, <2>1 DEF First
  <2>4. listing.page # 0 => listing.cursor <= N + touches' BY <1>2, <1>3, <2>1
  <2> QED BY <1>3, <2>1, <2>2, <2>3, <2>4 DEF PagesInv, N
<1>11. ShownInv' BY <1>3, <1>9 DEF ListInv, ShownInv
<1>12. ListingComplete' BY <1>3, <1>9 DEF ListInv, ListingComplete
<1> QED BY <1>3, <1>8, <1>9, <1>10, <1>11, <1>12 DEF ListInv

LEMMA FetchKeepsList ==
  ASSUME ListInv, FetchThreads
  PROVE  ListInv'
<1> DEFINE cursor == listing.cursor
           fetched == PageBelow(cursor)
           more == fetched # {} /\ fetched # Below(cursor)
           left == MaxThreadPages - listing.page
<1>1. PICK stuck \in BOOLEAN :
        LET next == IF stuck THEN cursor ELSE recency[Oldest(fetched)]
            over == ~more \/ next \in listing.seen \/ listing.page + 1 = MaxThreadPages
        IN  /\ stuck => more /\ listing.page > 0
            /\ listing' = [listing EXCEPT !.threads = @ \cup fetched, !.page = @ + 1,
                             !.pc = IF over THEN "show" ELSE "pages",
                             !.seen = IF more THEN @ \cup {next} ELSE @,
                             !.cursor = IF over THEN @ ELSE next]
            /\ due' = IF listing.page = 0 THEN Reachable ELSE IF stuck THEN {} ELSE due
  BY DEF FetchThreads
<1> DEFINE next == IF stuck THEN cursor ELSE recency[Oldest(fetched)]
           over == ~more \/ next \in listing.seen \/ listing.page + 1 = MaxThreadPages
<1>2. listing.pc = "pages" /\ UNCHANGED <<recency, touches, hub, marked, sessions>>
  BY DEF FetchThreads, requestOthers
<1>3. /\ DOMAIN listing = ListingFields /\ Recencies /\ due \subseteq Threads
      /\ listing.page \in 0 .. MaxThreadPages - 1 /\ cursor \in Nat
      /\ listing.seen \subseteq Nat /\ \A c \in listing.seen : c >= cursor
      /\ listing.page = 0 => cursor = First
      /\ listing.page # 0 => /\ cursor <= Cardinality(Threads) + touches
                             /\ \A t \in due : t \in listing.threads \/ Ahead(t, cursor, left)
  BY <1>2 DEF ListInv, PagesInv
<1>4. /\ DOMAIN listing' = ListingFields
      /\ listing'.threads = listing.threads \cup fetched /\ listing'.page = listing.page + 1
      /\ listing'.pc = (IF over THEN "show" ELSE "pages")
      /\ listing'.seen = (IF more THEN listing.seen \cup {next} ELSE listing.seen)
      /\ listing'.cursor = (IF over THEN cursor ELSE next)
  <2> HIDE DEF more, fetched, cursor, next, over
  <2> QED BY <1>1, <1>3 DEF ListingFields, next, over, cursor
<1>5. /\ listing.page = 0 => due' = Reachable
      /\ listing.page # 0 => due' = due \/ due' = {}
      /\ stuck => listing.page # 0 /\ due' = {} /\ more
  BY <1>1, <1>3
<1>6. due' \subseteq Threads BY <1>3, <1>5 DEF Reachable, Below
\* What is due was to come before this page.
<1>7. \A t \in due' : t \in listing.threads \/ Ahead(t, cursor, left)
  <2>1. CASE listing.page = 0
    <3>1. left = MaxThreadPages BY <2>1, ThreadListingAssumption
    <3>2. \A t \in Reachable : Ahead(t, First, MaxThreadPages) BY DEF Reachable, Ahead, Above
    <3> QED BY <1>3, <1>5, <2>1, <3>1, <3>2
  <2>2. CASE listing.page # 0 BY <1>3, <1>5, <2>2
  <2> QED BY <2>1, <2>2
\* After it, it is listed or there is another page.
<1>8. ASSUME NEW t \in due', t \notin listing'.threads
      PROVE  ~over /\ Ahead(t, next, left - 1)
  <2>1. t \in Below(cursor) \ fetched /\ Cardinality(Above(t, cursor)) < PageSize * left
    BY <1>4, <1>7, <1>8 DEF Ahead
  <2>2. ~stuck /\ next = recency[Oldest(fetched)] BY <1>5, <1>8
  <2>3. left \in Nat \ {0} BY <1>3, ThreadListingAssumption
  <2>4. /\ fetched # {} /\ left # 1
        /\ t \in Below(next) /\ Cardinality(Above(t, next)) < PageSize * (left - 1)
    <3> HIDE DEF cursor, left, next
    <3> QED BY <1>3, <2>1, <2>2, <2>3, AfterPage DEF fetched
  <2>5. more BY <2>1, <2>4
  <2>6. listing.page + 1 # MaxThreadPages BY <1>3, <2>4, ThreadListingAssumption
  <2>7. Oldest(fetched) \in fetched
    <3> HIDE DEF cursor
    <3> QED BY <1>3, <2>4, NextCursor DEF fetched
  <2>8. next \in Nat /\ next < cursor
    BY <1>3, <2>2, <2>7 DEF Recencies, PageBelow, Below
  <2>9. next \notin listing.seen
    <3> HIDE DEF next, cursor
    <3> QED BY <1>3, <2>8
  <2> QED BY <2>4, <2>5, <2>6, <2>9 DEF Ahead
\* The cursor goes down, or stays for the last time.
<1>9. more => next \in Nat /\ next <= cursor /\ next <= Cardinality(Threads) + touches
  <2> SUFFICES ASSUME more
               PROVE  next \in Nat /\ next <= cursor /\ next <= Cardinality(Threads) + touches
    OBVIOUS
  <2>1. CASE stuck BY <1>3, <1>5, <2>1
  <2>2. CASE ~stuck
    <3>1. Oldest(fetched) \in fetched
      <4> HIDE DEF cursor
      <4> QED BY <1>3, NextCursor DEF fetched
    <3>2. /\ Oldest(fetched) \in Threads /\ recency[Oldest(fetched)] < cursor
          /\ recency[Oldest(fetched)] \in Nat
          /\ recency[Oldest(fetched)] <= Cardinality(Threads) + touches
      BY <1>3, <3>1 DEF Recencies, PageBelow, Below
    <3> QED BY <1>3, <2>2, <3>2
  <2> QED BY <2>1, <2>2
<1>10. PagesInv'
  <2> SUFFICES ASSUME ~over PROVE PagesInv' BY <1>4 DEF PagesInv
  <2>1. /\ more /\ listing'.pc = "pages" /\ listing'.cursor = next
        /\ listing'.seen = listing.seen \cup {next} /\ listing'.page \in 1 .. MaxThreadPages - 1
    BY <1>3, <1>4, ThreadListingAssumption
  <2>2. \A c \in listing'.seen : c \in Nat /\ c >= listing'.cursor
    <3> HIDE DEF cursor, next, more
    <3> QED BY <1>3, <1>9, <2>1
  <2>3. MaxThreadPages - listing'.page = left - 1 /\ listing'.page # 0
    BY <1>3, <1>4, <2>1, ThreadListingAssumption
  <2>4. \A t \in due' : t \in listing'.threads \/ Ahead(t, next, left - 1) BY <1>8
  <2>5. ASSUME NEW t \in due', t \notin listing'.threads
        PROVE  Ahead(t, listing.cursor, MaxThreadPages - listing.page)'
    <3>1. Ahead(t, next, left - 1) BY <2>4, <2>5
    <3> HIDE DEF next, left
    <3>2. Below(listing.cursor)' = Below(next) BY <1>2, <2>1 DEF Below
    <3>3. Above(t, listing.cursor)' = Above(t, next) BY <1>2, <3>2 DEF Above
    <3>4. (MaxThreadPages - listing.page)' = left - 1 BY <2>3
    <3> QED BY <3>1, <3>2, <3>3, <3>4 DEF Ahead
  <2>6. /\ listing'.page \in 0 .. MaxThreadPages - 1 /\ listing'.cursor \in Nat
        /\ listing'.cursor <= Cardinality(Threads) + touches'
    <3> HIDE DEF next, cursor, more
    <3> QED BY <1>2, <1>9, <2>1
  <2> HIDE DEF next, cursor, more, left, over
  <2> QED BY <2>2, <2>3, <2>5, <2>6 DEF PagesInv
<1>11. ShownInv'
  <2>1. listing'.pc \in {"show", "pages"} BY <1>4
  <2>2. listing'.pc = "show" => \A t \in due' : t \in listing'.threads BY <1>4, <1>8
  <2> QED BY <2>1, <2>2 DEF ShownInv
<1>12. ListingComplete' BY <1>4 DEF ListingComplete
<1>13. Recencies' BY <1>2, <1>3 DEF Recencies
<1> QED BY <1>2, <1>4, <1>6, <1>10, <1>11, <1>12, <1>13 DEF ListInv

\* Steps from a request that ends or begins: nothing is due of it yet.
LEMMA OtherKeepsList ==
  ASSUME ListInv, UNCHANGED <<recency, touches>>, DOMAIN listing' = ListingFields,
         due' \subseteq Threads, marked' \subseteq Subagents, PagesInv', ShownInv',
         ListingComplete'
  PROVE  ListInv'
BY DEF ListInv, Recencies

\* A request that is given up, or is over.
LEMMA IdleKeepsList ==
  ASSUME ListInv, UNCHANGED <<recency, touches, marked>>, DOMAIN listing' = ListingFields,
         due' \subseteq due, listing'.pc \in {"idle", "start"}
  PROVE  ListInv'
<1>1. due' \subseteq Threads /\ marked' \subseteq Subagents BY DEF ListInv
<1>2. PagesInv' /\ ShownInv' /\ ListingComplete' BY DEF PagesInv, ShownInv, ListingComplete
<1> QED BY <1>1, <1>2, OtherKeepsList

LEMMA ListStep ==
  ASSUME ListInv, [ListingNext]_listingVars
  PROVE  ListInv'
<1>1. DOMAIN NoListing = ListingFields /\ NoListing.pc = "idle"
  BY DEF NoListing, ListingFields
<1>2. /\ DOMAIN listing = ListingFields /\ due \subseteq Threads /\ marked \subseteq Subagents
  BY DEF ListInv
<1>3. CASE UNCHANGED listingVars
  <2>1. UNCHANGED <<recency, listing, due, hub, marked, sessions, touches>>
    BY <1>3 DEF listingVars
  <2>2. PagesInv' = PagesInv BY <2>1 DEF PagesInv, Ahead, Above, Below, First
  <2>3. ShownInv' = ShownInv BY <2>1 DEF ShownInv
  <2>4. ListingComplete' = ListingComplete BY <2>1 DEF ListingComplete
  <2> QED BY <1>2, <2>1, <2>2, <2>3, <2>4, OtherKeepsList DEF ListInv
<1>4. ASSUME NEW t \in Threads, Use(t) \/ Archive(t) PROVE ListInv'
  BY <1>4, TouchKeepsList
<1>5. ASSUME NEW t \in Threads, Notifies(t) PROVE ListInv'
  <2>1. /\ UNCHANGED <<recency, listing, due, marked, sessions, touches>> /\ hub \subseteq hub'
    BY <1>5 DEF Notifies
  <2>2. PagesInv' = PagesInv BY <2>1 DEF PagesInv, Ahead, Above, Below, First
  <2>3. ShownInv => ShownInv' BY <2>1 DEF ShownInv
  <2>4. ListingComplete' = ListingComplete BY <2>1 DEF ListingComplete
  <2> QED BY <1>2, <2>1, <2>2, <2>3, <2>4, OtherKeepsList DEF ListInv
<1>6. ASSUME NEW for, NEW path, Ask(for, path) PROVE ListInv'
  <2>1. /\ listing' = [NoListing EXCEPT !.pc = "pages", !.for = for, !.path = path]
        /\ due' = {} /\ UNCHANGED <<recency, touches, marked>>
    BY <1>6 DEF Ask, requestOthers
  <2>2. /\ DOMAIN listing' = ListingFields /\ listing'.pc = "pages" /\ listing'.cursor = First
        /\ listing'.seen = {} /\ listing'.page = 0
    BY <2>1 DEF NoListing, ListingFields
  <2>3. First \in Nat BY ThreadListingAssumption, FS_CardinalityType DEF First
  <2>4. PagesInv' BY <2>1, <2>2, <2>3, ThreadListingAssumption DEF PagesInv, First
  <2>5. ShownInv' /\ ListingComplete' BY <2>2 DEF ShownInv, ListingComplete
  <2> QED BY <1>2, <2>1, <2>2, <2>4, <2>5, OtherKeepsList
<1>7. CASE FetchThreads BY <1>7, FetchKeepsList
<1>8. CASE FailListing
  BY <1>1, <1>8, IdleKeepsList DEF FailListing, requestOthers
<1>9. CASE ShowThread
  <2>1. PICK t \in listing.threads : /\ hub' = hub \cup {t} /\ marked' = marked \cup ({t} \cap Subagents)
                                    /\ listing' = [listing EXCEPT !.threads = @ \ {t}]
    BY <1>9 DEF ShowThread
  <2>2. listing.pc = "show" /\ UNCHANGED <<recency, touches, due>>
    BY <1>9 DEF ShowThread, requestOthers
  <2>3. /\ DOMAIN listing' = ListingFields /\ listing'.pc = "show"
        /\ listing'.threads = listing.threads \ {t}
    BY <1>2, <2>1, <2>2 DEF ListingFields
  <2>4. ShownInv' BY <2>1, <2>2, <2>3 DEF ListInv, ShownInv
  <2>5. PagesInv' /\ ListingComplete' BY <2>3 DEF PagesInv, ListingComplete
  <2> QED BY <1>2, <2>1, <2>2, <2>3, <2>4, <2>5, OtherKeepsList
<1>10. CASE ReadMarks
  <2>1. /\ listing.pc = "show" /\ listing.threads = {}
        /\ listing' = [listing EXCEPT !.pc = "reply", !.ids = marked]
        /\ UNCHANGED <<recency, touches, due, hub, marked>>
    BY <1>10 DEF ReadMarks, requestOthers
  <2>2. DOMAIN listing' = ListingFields /\ listing'.pc = "reply" /\ listing'.ids = marked
    BY <1>2, <2>1 DEF ListingFields
  <2>3. ShownInv' BY <1>2, <2>1, <2>2 DEF ListInv, ShownInv
  <2>4. PagesInv' /\ ListingComplete' BY <2>2 DEF PagesInv, ListingComplete
  <2> QED BY <1>2, <2>1, <2>2, <2>3, <2>4, OtherKeepsList
<1>11. CASE ReplyList
  <2>1. /\ listing.pc = "reply" /\ sessions' = {Session(t) : t \in hub}
        /\ listing' = [NoListing EXCEPT !.pc = "answered"]
        /\ UNCHANGED <<recency, touches, due, marked>>
    BY <1>11 DEF ReplyList, requestOthers
  <2>2. DOMAIN listing' = ListingFields /\ listing'.pc = "answered"
    BY <1>1, <2>1 DEF ListingFields
  <2>3. \A t \in due : t \in hub /\ (t \in Subagents <=> t \in listing.ids)
    BY <2>1 DEF ListInv, ShownInv
  <2>4. \A t \in due : Session(t) = [thread |-> t, subagent |-> t \in Subagents]
    BY <2>3 DEF Session
  <2>5. ListingComplete' BY <2>1, <2>3, <2>4 DEF ListingComplete
  <2>6. PagesInv' /\ ShownInv' BY <2>2 DEF PagesInv, ShownInv
  <2> QED BY <1>2, <2>1, <2>2, <2>5, <2>6, OtherKeepsList
<1>12. CASE Rest
  BY <1>1, <1>12, IdleKeepsList DEF Rest, requestOthers
<1>13. CASE Validate
  <2>1. UNCHANGED <<recency, touches, due, marked>> BY <1>13 DEF Validate, requestOthers
  <2>2. listing' = NoListing \/ \E path : listing' = [listing EXCEPT !.pc = "start", !.path = path]
    BY <1>13 DEF Validate
  <2>3. DOMAIN listing' = ListingFields /\ listing'.pc \in {"idle", "start"}
    BY <1>1, <1>2, <2>2 DEF ListingFields
  <2> QED BY <2>1, <2>3, IdleKeepsList
<1>14. CASE StartSession
  BY <1>1, <1>14, IdleKeepsList DEF StartSession, requestOthers
<1>15. CASE Moves
  <2>1. UNCHANGED <<recency, listing, due, hub, marked, sessions, touches>>
    BY <1>15 DEF Moves
  <2>2. PagesInv' = PagesInv BY <2>1 DEF PagesInv, Ahead, Above, Below, First
  <2>3. ShownInv' = ShownInv BY <2>1 DEF ShownInv
  <2>4. ListingComplete' = ListingComplete BY <2>1 DEF ListingComplete
  <2> QED BY <1>2, <2>1, <2>2, <2>3, <2>4, OtherKeepsList DEF ListInv
<1> QED BY <1>3, <1>4, <1>5, <1>6, <1>7, <1>8, <1>9, <1>10, <1>11, <1>12, <1>13, <1>14, <1>15
    DEF ListingNext

\* For any threads, page size, page limit and uses of threads: the list has every thread
\* that the page limit reaches and that stays as it is while the pages are fetched.
THEOREM ListsAreComplete == Spec => []ListingComplete
<1>1. Init => ListInv
  <2> SUFFICES ASSUME Init PROVE ListInv OBVIOUS
  <2>1. /\ recency \in [Threads -> 0 .. Cardinality(Threads)] /\ touches = 0
        /\ \A t, u \in Threads : recency[t] = recency[u] => t = u \/ recency[t] = 0
        /\ listing = NoListing /\ due = {} /\ marked = {}
    BY DEF Init, ListingInit
  <2>2. Cardinality(Threads) \in Nat BY ThreadListingAssumption, FS_CardinalityType
  <2> DEFINE N == Cardinality(Threads)
  <2> HIDE DEF N
  <2>3. recency \in [Threads -> Nat] /\ \A t \in Threads : recency[t] <= N + touches
    BY <2>1, <2>2 DEF N
  <2>4. Recencies BY <2>1, <2>3, ThreadListingAssumption DEF Recencies, N
  <2>5. DOMAIN listing = ListingFields /\ listing.pc = "idle"
    BY <2>1 DEF NoListing, ListingFields
  <2>6. PagesInv /\ ShownInv /\ ListingComplete
    BY <2>5 DEF PagesInv, ShownInv, ListingComplete
  <2> QED BY <2>1, <2>4, <2>5, <2>6 DEF ListInv
<1>2. ListInv /\ [Next]_vars => ListInv' BY ListingSteps, ListStep
<1>3. ListInv => ListingComplete BY DEF ListInv
<1> QED BY <1>1, <1>2, <1>3, PTL DEF Spec
-----------------------------------------------------------------------------
\* A registry says the same both ways: every entry is found under its path, and every path
\* leads to an entry.
Coherent(r) ==
  /\ DOMAIN r = {"byPath", "byToken", "sequence"} /\ r.sequence \in Nat
  /\ \A t \in Tokens(r) :
       /\ DOMAIN r.byToken[t] = {"path", "created", "used"}
       /\ r.byToken[t].created \in Nat /\ r.byToken[t].used \in 0 .. r.sequence
       /\ r.byToken[t].path \in DOMAIN r.byPath /\ r.byPath[r.byToken[t].path] = t
  /\ \A p \in DOMAIN r.byPath : r.byPath[p] \in Tokens(r) /\ r.byToken[r.byPath[p]].path = p

\* The history of the tokens.
IsHistory(hist) ==
  /\ IsLog(hist)
  /\ \A t \in DOMAIN hist : /\ DOMAIN hist[t] = {"image", "born", "rivals"}
                            /\ hist[t].born \in Nat /\ IsFiniteSet(hist[t].rivals)

\* A token may be missing only when it is too old or has too many rivals.
MayMiss(of) == clock - of.born > Ttl \/ Cardinality(of.rivals) >= MaxEntries

\* The registry has every token of the history but those, and what was used after a token
\* are rivals of it.
Serves(r, hist) ==
  /\ Tokens(r) \subseteq DOMAIN hist
  /\ \A t \in Tokens(r) :
       /\ r.byToken[t].path = hist[t].image /\ r.byToken[t].created = hist[t].born
       /\ \A u \in Newer(r, t) : r.byToken[u].path \in hist[t].rivals
  /\ \A t \in DOMAIN hist \ Tokens(r) : MayMiss(hist[t])

AssetsInv == clock \in Nat /\ IsHistory(issued) /\ Coherent(assets) /\ Serves(assets, issued)

-----------------------------------------------------------------------------
\* Entries that are removed leave the others as they were.
LEMMA WithoutTokens ==
  ASSUME NEW r, Coherent(r), NEW gone \in SUBSET Tokens(r)
  PROVE  LET w == Without(r, gone)
         IN  /\ Coherent(w) /\ Tokens(w) = Tokens(r) \ gone
             /\ \A t \in Tokens(w) : w.byToken[t] = r.byToken[t] /\ Newer(w, t) \subseteq Newer(r, t)
<1> DEFINE w == Without(r, gone)
           paths == {r.byToken[t].path : t \in gone}
<1>1. /\ DOMAIN w = {"byPath", "byToken", "sequence"} /\ w.sequence = r.sequence
      /\ w.byToken = Restrict(r.byToken, DOMAIN r.byToken \ gone)
      /\ w.byPath = Restrict(r.byPath, DOMAIN r.byPath \ paths)
  BY DEF Without, Coherent
<1> HIDE DEF w
<1>2. /\ Tokens(w) = Tokens(r) \ gone
      /\ \A t \in Tokens(w) : t \in Tokens(r) /\ w.byToken[t] = r.byToken[t]
  BY <1>1 DEF Tokens, Restrict
<1>3. /\ DOMAIN w.byPath = DOMAIN r.byPath \ paths
      /\ \A p \in DOMAIN w.byPath : w.byPath[p] = r.byPath[p]
  BY <1>1 DEF Restrict
<1>4. \A t \in Tokens(w) :
        /\ DOMAIN w.byToken[t] = {"path", "created", "used"}
        /\ w.byToken[t].created \in Nat /\ w.byToken[t].used \in 0 .. w.sequence
  BY <1>1, <1>2 DEF Coherent
<1>5. ASSUME NEW t \in Tokens(w)
      PROVE  w.byToken[t].path \in DOMAIN w.byPath /\ w.byPath[w.byToken[t].path] = t
  <2>1. r.byToken[t].path \in DOMAIN r.byPath /\ r.byPath[r.byToken[t].path] = t
    BY <1>2, <1>5 DEF Coherent
  <2>2. r.byToken[t].path \notin paths BY <1>2, <1>5, <2>1 DEF Coherent
  <2> QED BY <1>2, <1>3, <1>5, <2>1, <2>2
<1>6. Coherent(w)
  <2>1. ASSUME NEW p \in DOMAIN w.byPath
        PROVE  w.byPath[p] \in Tokens(w) /\ w.byToken[w.byPath[p]].path = p
    BY <1>2, <1>3, <2>1 DEF Coherent
  <2>2. r.sequence \in Nat BY DEF Coherent
  <2> HIDE DEF paths
  <2> QED BY <1>1, <1>4, <1>5, <2>1, <2>2 DEF Coherent
<1>7. \A t \in Tokens(w) : Newer(w, t) \subseteq Newer(r, t) BY <1>2 DEF Newer
<1>8. /\ Coherent(w) /\ Tokens(w) = Tokens(r) \ gone
      /\ \A t \in Tokens(w) : w.byToken[t] = r.byToken[t] /\ Newer(w, t) \subseteq Newer(r, t)
  BY <1>2, <1>6, <1>7
<1> QED BY <1>8 DEF w

\* So a registry still serves when only entries go that may be missing.
LEMMA WithoutServes ==
  ASSUME NEW r, Coherent(r), NEW hist, Serves(r, hist), NEW gone \in SUBSET Tokens(r),
         \A t \in gone : MayMiss(hist[t])
  PROVE  Coherent(Without(r, gone)) /\ Serves(Without(r, gone), hist)
<1> DEFINE w == Without(r, gone)
<1>1. /\ Coherent(w) /\ Tokens(w) = Tokens(r) \ gone
      /\ \A t \in Tokens(w) : w.byToken[t] = r.byToken[t] /\ Newer(w, t) \subseteq Newer(r, t)
  BY WithoutTokens
<1> HIDE DEF w
<1>2. \A t \in Tokens(w) : \A u \in Newer(w, t) : /\ w.byToken[u] = r.byToken[u]
                                                  /\ u \in Newer(r, t)
  BY <1>1 DEF Newer
<1>3. Serves(w, hist) BY <1>1, <1>2 DEF Serves
<1> QED BY <1>1, <1>3 DEF w

\* What has expired may be missing.
LEMMA PrunedServes ==
  ASSUME NEW r, Coherent(r), NEW hist, Serves(r, hist)
  PROVE  Coherent(Pruned(r)) /\ Serves(Pruned(r), hist)
<1> DEFINE gone == {t \in Tokens(r) : Expired(r.byToken[t])}
<1>1. gone \in SUBSET Tokens(r) OBVIOUS
<1>2. \A t \in gone : MayMiss(hist[t]) BY DEF Expired, MayMiss, Serves
<1> HIDE DEF gone
<1>3. Coherent(Without(r, gone)) /\ Serves(Without(r, gone), hist)
  BY <1>1, <1>2, WithoutServes
<1> QED BY <1>3 DEF Pruned, gone

\* What makes room has as many rivals as the registry holds: what was used after a token has
\* as many paths as tokens.
LEMMA EnforcedServes ==
  ASSUME NEW r, Coherent(r), NEW hist, IsHistory(hist), Serves(r, hist)
  PROVE  Coherent(Enforced(r)) /\ Serves(Enforced(r), hist)
<1> DEFINE gone == {t \in Tokens(r) : Cardinality(Newer(r, t)) >= MaxEntries}
<1>1. ASSUME NEW t \in gone PROVE MayMiss(hist[t])
  <2> DEFINE newer == Newer(r, t)
             rivals == hist[t].rivals
             f == [u \in newer |-> r.byToken[u].path]
  <2>1. IsFiniteSet(rivals) /\ Cardinality(newer) >= MaxEntries
    BY <1>1 DEF IsHistory, Serves
  <2>2. newer \subseteq Tokens(r) BY DEF Newer
  <2>3. f \in [newer -> rivals] BY <1>1 DEF Serves
  <2>4. \A u, v \in newer : f[u] = f[v] => u = v BY <2>2 DEF Coherent
  <2>5. DOMAIN f = newer OBVIOUS
  <2> HIDE DEF f, newer, rivals
  <2>6. f \in Injection(newer, rivals) BY <2>3, <2>4, <2>5 DEF Injection, IsInjective
  <2>7. IsFiniteSet(newer) /\ Cardinality(newer) <= Cardinality(rivals)
    BY <2>1, <2>6, FS_Injection
  <2>8. Cardinality(newer) \in Nat /\ Cardinality(rivals) \in Nat
    BY <2>1, <2>7, FS_CardinalityType
  <2>9. Cardinality(rivals) >= MaxEntries BY <2>1, <2>7, <2>8, LocalAssetsAssumption
  <2> QED BY <2>9 DEF MayMiss, rivals
<1>2. gone \in SUBSET Tokens(r) OBVIOUS
<1> HIDE DEF gone
<1>3. Coherent(Without(r, gone)) /\ Serves(Without(r, gone), hist)
  BY <1>1, <1>2, WithoutServes
<1> QED BY <1>3 DEF Enforced, gone

\* What a use writes down: everything else has one rival more, perhaps one it had.
LEMMA UsedHistory ==
  ASSUME NEW hist, IsHistory(hist), NEW tok \in DOMAIN hist
  PROVE  LET used == Used(hist, tok)
         IN  /\ IsHistory(used) /\ DOMAIN used = DOMAIN hist /\ used[tok].rivals = {}
             /\ \A t \in DOMAIN hist : used[t].image = hist[t].image /\ used[t].born = hist[t].born
             /\ \A t \in DOMAIN hist \ {tok} :
                  /\ used[t].rivals = hist[t].rivals \cup {hist[tok].image}
                  /\ MayMiss(hist[t]) => MayMiss(used[t])
<1> DEFINE used == Used(hist, tok)
<1>1. used = [t \in DOMAIN hist |-> used[t]] /\ DOMAIN used = DOMAIN hist BY DEF Used
<1>2. \A t \in DOMAIN hist :
        used[t] = [hist[t] EXCEPT !.rivals =
                     IF t = tok THEN {} ELSE hist[t].rivals \cup {hist[tok].image}]
  BY DEF Used
<1> HIDE DEF used
<1>3. \A t \in DOMAIN hist :
        /\ DOMAIN used[t] = {"image", "born", "rivals"}
        /\ used[t].image = hist[t].image /\ used[t].born = hist[t].born
        /\ used[t].rivals = IF t = tok THEN {} ELSE hist[t].rivals \cup {hist[tok].image}
  BY <1>2 DEF IsHistory
<1>4. \A t \in DOMAIN hist : IsFiniteSet(used[t].rivals)
  <2> SUFFICES ASSUME NEW t \in DOMAIN hist PROVE IsFiniteSet(used[t].rivals) OBVIOUS
  <2>1. IsFiniteSet(hist[t].rivals) BY DEF IsHistory
  <2>2. IsFiniteSet(hist[t].rivals \cup {hist[tok].image}) BY <2>1, FS_AddElement
  <2> QED BY <1>3, <2>2, FS_EmptySet
<1>5. IsLog(used)
  <2>1. DOMAIN hist = 1 .. Len(hist) /\ Len(hist) \in Nat BY DEF IsHistory, IsLog
  <2> DEFINE S == {used[t] : t \in 1 .. Len(hist)}
  <2>2. used \in [1 .. Len(hist) -> S] BY <1>1, <2>1
  <2> HIDE DEF S
  <2>3. used \in Seq(S) BY <2>1, <2>2, IsASeq
  <2>4. Len(used) \in Nat /\ DOMAIN used = 1 .. Len(used) BY <2>3, LenProperties
  <2> QED BY <1>1, <2>4 DEF IsLog
<1>6. IsHistory(used) BY <1>1, <1>3, <1>4, <1>5 DEF IsHistory
<1>7. ASSUME NEW t \in DOMAIN hist \ {tok}, MayMiss(hist[t])
      PROVE  MayMiss(used[t])
  <2>1. IsFiniteSet(hist[t].rivals) BY DEF IsHistory
  <2>2. used[t].rivals = hist[t].rivals \cup {hist[tok].image} /\ used[t].born = hist[t].born
    BY <1>3
  <2>3. Cardinality(hist[t].rivals) \in Nat BY <2>1, FS_CardinalityType
  <2>4. Cardinality(hist[t].rivals \cup {hist[tok].image})
          \in {Cardinality(hist[t].rivals), Cardinality(hist[t].rivals) + 1}
    BY <2>1, FS_AddElement
  <2> QED BY <1>7, <2>2, <2>3, <2>4, LocalAssetsAssumption DEF MayMiss
<1>8. /\ IsHistory(used) /\ DOMAIN used = DOMAIN hist /\ used[tok].rivals = {}
      /\ \A t \in DOMAIN hist : used[t].image = hist[t].image /\ used[t].born = hist[t].born
      /\ \A t \in DOMAIN hist \ {tok} :
           /\ used[t].rivals = hist[t].rivals \cup {hist[tok].image}
           /\ MayMiss(hist[t]) => MayMiss(used[t])
  BY <1>1, <1>3, <1>6, <1>7
<1> QED BY <1>8 DEF used

\* A registry q in which a token was used after all that registry r has serves with it.
LEMMA UseServes ==
  ASSUME NEW r, NEW q, Coherent(r), NEW hist, IsHistory(hist), NEW tok \in DOMAIN hist,
         Tokens(q) = Tokens(r) \cup {tok}, Tokens(r) \subseteq DOMAIN hist,
         q.byToken[tok].path = hist[tok].image,
         q.byToken[tok].created = hist[tok].born,
         q.byToken[tok].used = r.sequence + 1,
         \A t \in Tokens(r) \ {tok} :
           /\ q.byToken[t] = r.byToken[t]
           /\ r.byToken[t].path = hist[t].image /\ r.byToken[t].created = hist[t].born
           /\ \A u \in Newer(r, t) : r.byToken[u].path \in hist[t].rivals,
         \A t \in DOMAIN hist \ Tokens(q) : MayMiss(hist[t])
  PROVE  Serves(q, Used(hist, tok)) /\ IsHistory(Used(hist, tok))
<1> DEFINE used == Used(hist, tok)
<1>1. /\ IsHistory(used) /\ DOMAIN used = DOMAIN hist /\ used[tok].rivals = {}
      /\ \A t \in DOMAIN hist : used[t].image = hist[t].image /\ used[t].born = hist[t].born
      /\ \A t \in DOMAIN hist \ {tok} :
           /\ used[t].rivals = hist[t].rivals \cup {hist[tok].image}
           /\ MayMiss(hist[t]) => MayMiss(used[t])
  BY UsedHistory
<1> HIDE DEF used
<1>2. r.sequence \in Nat /\ \A t \in Tokens(r) : r.byToken[t].used \in 0 .. r.sequence
  BY DEF Coherent
<1>3. Newer(q, tok) = {}
  <2> SUFFICES ASSUME NEW u \in Newer(q, tok) PROVE FALSE OBVIOUS
  <2>1. u \in Tokens(q) /\ q.byToken[u].used > r.sequence + 1 BY DEF Newer
  <2>2. u # tok BY <1>2, <2>1
  <2>3. u \in Tokens(r) /\ q.byToken[u] = r.byToken[u] BY <2>1, <2>2
  <2> QED BY <1>2, <2>1, <2>3
<1>4. ASSUME NEW t \in Tokens(r) \ {tok}, NEW u \in Newer(q, t)
      PROVE  q.byToken[u].path \in used[t].rivals
  <2>1. CASE u = tok BY <1>1, <2>1
  <2>2. CASE u # tok
    <3>1. u \in Tokens(r) /\ q.byToken[u] = r.byToken[u] BY <1>4, <2>2 DEF Newer
    <3>2. u \in Newer(r, t) BY <1>4, <3>1 DEF Newer
    <3> QED BY <1>1, <3>1, <3>2
  <2> QED BY <2>1, <2>2
<1>5. \A t \in DOMAIN used \ Tokens(q) : MayMiss(used[t]) BY <1>1
<1>6. \A t \in Tokens(q) : q.byToken[t].path = used[t].image /\ q.byToken[t].created = used[t].born
  BY <1>1
<1>7. Tokens(q) \subseteq DOMAIN used BY <1>1
<1>8. \A t \in Tokens(q) : \A u \in Newer(q, t) : q.byToken[u].path \in used[t].rivals
  BY <1>3, <1>4
<1>9. Serves(q, used) BY <1>5, <1>6, <1>7, <1>8 DEF Serves
<1> QED BY <1>1, <1>9 DEF used

\* A use ranks the token before the others.
LEMMA TouchedServes ==
  ASSUME NEW r, Coherent(r), NEW hist, IsHistory(hist), Serves(r, hist), NEW tok \in Tokens(r)
  PROVE  /\ Coherent(Touched(r, tok)) /\ Serves(Touched(r, tok), Used(hist, tok))
         /\ IsHistory(Used(hist, tok))
<1> DEFINE q == Touched(r, tok)
<1>1. /\ DOMAIN q = {"byPath", "byToken", "sequence"} /\ q.sequence = r.sequence + 1
      /\ q.byPath = r.byPath
      /\ q.byToken = [r.byToken EXCEPT ![tok].used = r.sequence + 1]
  BY DEF Touched, Coherent
<1> HIDE DEF q
<1>2. Tokens(q) = Tokens(r) BY <1>1 DEF Tokens
<1>3. \A t \in Tokens(r) \ {tok} : q.byToken[t] = r.byToken[t] BY <1>1 DEF Tokens
<1>4. /\ DOMAIN q.byToken[tok] = {"path", "created", "used"}
      /\ q.byToken[tok].path = r.byToken[tok].path
      /\ q.byToken[tok].created = r.byToken[tok].created
      /\ q.byToken[tok].used = r.sequence + 1
  BY <1>1 DEF Tokens, Coherent
<1>5. Coherent(q)
  <2>1. r.sequence \in Nat /\ q.sequence \in Nat BY <1>1 DEF Coherent
  <2>2. ASSUME NEW t \in Tokens(q)
        PROVE  /\ DOMAIN q.byToken[t] = {"path", "created", "used"}
               /\ q.byToken[t].created \in Nat /\ q.byToken[t].used \in 0 .. q.sequence
               /\ q.byToken[t].path = r.byToken[t].path
    BY <1>1, <1>2, <1>3, <1>4, <2>1, <2>2 DEF Coherent
  <2>3. /\ \A t \in Tokens(q) : /\ q.byToken[t].path \in DOMAIN q.byPath
                                /\ q.byPath[q.byToken[t].path] = t
        /\ \A p \in DOMAIN q.byPath : /\ q.byPath[p] \in Tokens(q)
                                      /\ q.byToken[q.byPath[p]].path = p
    BY <1>1, <1>2, <2>2 DEF Coherent
  <2> QED BY <1>1, <2>1, <2>2, <2>3 DEF Coherent
<1>6. Serves(q, Used(hist, tok)) /\ IsHistory(Used(hist, tok))
  <2>1. /\ tok \in DOMAIN hist /\ Tokens(q) = Tokens(r) \cup {tok}
        /\ Tokens(r) \subseteq DOMAIN hist
    BY <1>2 DEF Serves
  <2>2. /\ q.byToken[tok].path = hist[tok].image
        /\ q.byToken[tok].created = hist[tok].born
    BY <1>4 DEF Serves
  <2>3. \A t \in Tokens(r) \ {tok} :
          /\ q.byToken[t] = r.byToken[t]
          /\ r.byToken[t].path = hist[t].image /\ r.byToken[t].created = hist[t].born
          /\ \A u \in Newer(r, t) : r.byToken[u].path \in hist[t].rivals
    BY <1>3 DEF Serves
  <2>4. \A t \in DOMAIN hist \ Tokens(q) : MayMiss(hist[t]) BY <1>2 DEF Serves
  <2> QED BY <1>4, <2>1, <2>2, <2>3, <2>4, UseServes
<1> QED BY <1>5, <1>6 DEF q

\* A token that is issued for a path without one, and what makes room for it.
LEMMA AddedServes ==
  ASSUME NEW r, Coherent(r), NEW hist, IsHistory(hist), Serves(r, hist), clock \in Nat,
         NEW image, image \notin DOMAIN r.byPath
  PROVE  LET tok == Len(hist) + 1
             now == Used(Append(hist, [image |-> image, born |-> clock, rivals |-> {}]), tok)
         IN  /\ Coherent(Enforced(Added(r, image, tok)))
             /\ Serves(Enforced(Added(r, image, tok)), now) /\ IsHistory(now)
<1> DEFINE tok == Len(hist) + 1
           entry == [image |-> image, born |-> clock, rivals |-> {}]
           longer == Append(hist, entry)
           q == Added(r, image, tok)
<1>1. /\ IsLog(longer) /\ Len(longer) = tok /\ Len(hist) \in Nat
      /\ \A i \in 1 .. Len(hist) : longer[i] = hist[i]
      /\ longer[tok] = entry /\ DOMAIN hist = 1 .. Len(hist)
  BY AppendKeeps DEF IsHistory, IsLog
<1>2. DOMAIN longer = DOMAIN hist \cup {tok} /\ tok \notin DOMAIN hist
  BY <1>1 DEF IsLog
<1>3. entry.image = image /\ entry.born = clock /\ entry.rivals = {}
      /\ DOMAIN entry = {"image", "born", "rivals"}
  OBVIOUS
<1>4. tok \notin Tokens(r) BY <1>2 DEF Serves
<1>5. /\ DOMAIN q = {"byPath", "byToken", "sequence"} /\ q.sequence = r.sequence + 1
      /\ Tokens(q) = Tokens(r) \cup {tok} /\ DOMAIN q.byPath = DOMAIN r.byPath \cup {image}
      /\ q.byToken[tok] = [path |-> image, created |-> clock, used |-> r.sequence + 1]
      /\ \A t \in Tokens(r) \ {tok} : q.byToken[t] = r.byToken[t]
      /\ q.byPath[image] = tok /\ \A p \in DOMAIN r.byPath : q.byPath[p] = r.byPath[p]
  BY DEF Added, Tokens
<1> HIDE DEF tok, entry, longer, q
<1>6. /\ DOMAIN q.byToken[tok] = {"path", "created", "used"}
      /\ q.byToken[tok].path = image /\ q.byToken[tok].created = clock
      /\ q.byToken[tok].used = r.sequence + 1
  BY <1>5
<1>7. IsHistory(longer)
  <2> SUFFICES ASSUME NEW t \in DOMAIN longer
               PROVE  /\ DOMAIN longer[t] = {"image", "born", "rivals"}
                      /\ longer[t].born \in Nat /\ IsFiniteSet(longer[t].rivals)
    BY <1>1 DEF IsHistory
  <2>1. CASE t = tok BY <1>1, <1>3, <2>1, FS_EmptySet
  <2>2. CASE t # tok
    <3>1. t \in DOMAIN hist /\ longer[t] = hist[t] BY <1>1, <1>2, <2>2
    <3> QED BY <3>1 DEF IsHistory
  <2> QED BY <2>1, <2>2
<1>8. Coherent(q)
  <2>1. r.sequence \in Nat /\ q.sequence \in Nat BY <1>5 DEF Coherent
  <2>2. ASSUME NEW t \in Tokens(q)
        PROVE  /\ DOMAIN q.byToken[t] = {"path", "created", "used"}
               /\ q.byToken[t].created \in Nat /\ q.byToken[t].used \in 0 .. q.sequence
    <3>1. CASE t = tok BY <1>5, <1>6, <2>1, <3>1
    <3>2. CASE t # tok BY <1>5, <2>1, <3>2 DEF Coherent
    <3> QED BY <3>1, <3>2
  <2>3. ASSUME NEW t \in Tokens(q)
        PROVE  q.byToken[t].path \in DOMAIN q.byPath /\ q.byPath[q.byToken[t].path] = t
    BY <1>5, <1>6, <2>3 DEF Coherent
  <2>4. ASSUME NEW p \in DOMAIN q.byPath
        PROVE  q.byPath[p] \in Tokens(q) /\ q.byToken[q.byPath[p]].path = p
    <3>1. CASE p = image BY <1>5, <1>6, <3>1
    <3>2. CASE p # image
      <4>1. /\ p \in DOMAIN r.byPath /\ q.byPath[p] = r.byPath[p] /\ r.byPath[p] \in Tokens(r)
            /\ r.byToken[r.byPath[p]].path = p
        BY <1>5, <2>4, <3>2 DEF Coherent
      <4> QED BY <1>4, <1>5, <4>1
    <3> QED BY <3>1, <3>2
  <2> QED BY <1>5, <2>1, <2>2, <2>3, <2>4 DEF Coherent
<1>9. Serves(q, Used(longer, tok)) /\ IsHistory(Used(longer, tok))
  <2>1. tok \in DOMAIN longer /\ Tokens(r) \subseteq DOMAIN longer
    BY <1>2 DEF Serves
  <2>2. q.byToken[tok].path = longer[tok].image /\ q.byToken[tok].created = longer[tok].born
    BY <1>1, <1>3, <1>6
  <2>3. \A t \in DOMAIN hist : longer[t] = hist[t] BY <1>1
  <2>4. \A t \in Tokens(r) \ {tok} :
          /\ q.byToken[t] = r.byToken[t]
          /\ r.byToken[t].path = longer[t].image /\ r.byToken[t].created = longer[t].born
          /\ \A u \in Newer(r, t) : r.byToken[u].path \in longer[t].rivals
    BY <1>5, <2>3 DEF Serves
  <2>5. \A t \in DOMAIN longer \ Tokens(q) : MayMiss(longer[t])
    BY <1>2, <1>5, <2>3 DEF Serves
  <2> QED BY <1>5, <1>6, <1>7, <2>1, <2>2, <2>4, <2>5, UseServes
<1>10. /\ Coherent(Enforced(q)) /\ Serves(Enforced(q), Used(longer, tok))
       /\ IsHistory(Used(longer, tok))
  BY <1>8, <1>9, EnforcedServes
<1> QED BY <1>10 DEF q, longer, entry, tok

\* What a handler registers.
LEMMA RegisterServes ==
  ASSUME AssetsInv, NEW h \in Handlers, RegisterNext(h)
  PROVE  AssetsInv'
<1> DEFINE image == Head(answer[h].left)
           pruned == Pruned(assets)
<1>1. Coherent(pruned) /\ Serves(pruned, issued) /\ IsHistory(issued) /\ clock \in Nat
  BY PrunedServes DEF AssetsInv
<1>2. UNCHANGED clock BY DEF RegisterNext
<1>3. CASE Known(pruned, image)
  <2> DEFINE tok == pruned.byPath[image]
  <2>1. assets' = Touched(pruned, tok) /\ issued' = Used(issued, tok)
    BY <1>3 DEF RegisterNext, Registered
  <2>2. tok \in Tokens(pruned) BY <1>3 DEF Known
  <2> HIDE DEF tok, pruned
  <2>3. Coherent(assets') /\ Serves(assets', issued') /\ IsHistory(issued')
    BY <1>1, <2>1, <2>2, TouchedServes
  <2> QED BY <1>1, <1>2, <2>3 DEF AssetsInv, Serves, MayMiss, IsHistory
<1>4. CASE ~Known(pruned, image)
  <2>1. /\ assets' = Enforced(Added(pruned, image, Len(issued) + 1))
        /\ issued' = Used(Append(issued, [image |-> image, born |-> clock, rivals |-> {}]),
                          Len(issued) + 1)
    BY <1>4 DEF RegisterNext, Registered
  <2>2. image \notin DOMAIN pruned.byPath BY <1>1, <1>4 DEF Known, Coherent
  <2> HIDE DEF image, pruned
  <2>3. Coherent(assets') /\ Serves(assets', issued') /\ IsHistory(issued')
    BY <1>1, <2>1, <2>2, AddedServes
  <2> QED BY <1>1, <1>2, <2>3 DEF AssetsInv, Serves, MayMiss, IsHistory
<1> QED BY <1>3, <1>4

\* What a phone loads.
LEMMA LoadServes ==
  ASSUME AssetsInv, NEW tok \in told, Load(tok)
  PROVE  AssetsInv'
<1> DEFINE pruned == Pruned(assets)
<1>1. Coherent(pruned) /\ Serves(pruned, issued) /\ IsHistory(issued) /\ clock \in Nat
  BY PrunedServes DEF AssetsInv
<1>2. UNCHANGED clock BY DEF Load
<1>3. CASE tok \in Tokens(pruned)
  <2>1. assets' = Touched(pruned, tok) /\ issued' = Used(issued, tok)
    BY <1>3 DEF Load
  <2> HIDE DEF pruned
  <2>2. Coherent(assets') /\ Serves(assets', issued') /\ IsHistory(issued')
    BY <1>1, <1>3, <2>1, TouchedServes
  <2> QED BY <1>1, <1>2, <2>2 DEF AssetsInv, Serves, MayMiss, IsHistory
<1>4. CASE tok \notin Tokens(pruned)
  <2>1. assets' = pruned /\ issued' = issued BY <1>4 DEF Load
  <2> HIDE DEF pruned
  <2> QED BY <1>1, <1>2, <2>1 DEF AssetsInv, Serves, MayMiss, IsHistory
<1> QED BY <1>3, <1>4

\* Images are served as long as their tokens live, for any registry size, lifetime, handlers
\* and pages.
THEOREM ImagesAreServed == Spec => []FreshIsServed
<1>1. Init => AssetsInv
  <2> SUFFICES ASSUME Init PROVE AssetsInv OBVIOUS
  <2>1. /\ assets = [byPath |-> << >>, byToken |-> << >>, sequence |-> 0]
        /\ clock = 0 /\ issued = << >>
    BY DEF Init, AssetsInit
  <2>2. DOMAIN << >> = {} /\ Len(<< >>) = 0 /\ << >> = [i \in 1 .. 0 |-> << >>[i]] OBVIOUS
  <2>3. IsHistory(issued) BY <2>1, <2>2 DEF IsHistory, IsLog
  <2>4. Coherent(assets) /\ Serves(assets, issued)
    BY <2>1, <2>2 DEF Coherent, Serves, Tokens
  <2> QED BY <2>1, <2>3, <2>4 DEF AssetsInv
<1>2. AssetsInv /\ [Next]_vars => AssetsInv'
  <2> SUFFICES ASSUME AssetsInv, [AssetsNext]_assetVars PROVE AssetsInv'
    <3>1. [Next]_vars => [AssetsNext]_assetVars
      <4> SUFFICES ASSUME [Next]_vars PROVE AssetsNext \/ UNCHANGED assetVars OBVIOUS
      <4>1. CASE UNCHANGED vars BY <4>1 DEF vars
      <4> QED BY <4>1 DEF Next
    <3> QED BY <3>1
  <2>1. CASE UNCHANGED <<assets, clock, issued>>
    BY <2>1 DEF AssetsInv, IsHistory, Serves, MayMiss
  <2>2. ASSUME NEW h \in Handlers, BeginPage(h) \/ ReplyPage(h)
        PROVE  AssetsInv'
    BY <2>1, <2>2 DEF BeginPage, ReplyPage
  <2>3. ASSUME NEW h \in Handlers, RegisterNext(h) PROVE AssetsInv' BY <2>3, RegisterServes
  <2>4. ASSUME NEW tok \in told, Load(tok) PROVE AssetsInv' BY <2>4, LoadServes
  <2>5. CASE TimePasses
    <3>1. clock' = clock + 1 /\ UNCHANGED <<assets, issued>> /\ clock \in Nat
      BY <2>5 DEF TimePasses, AssetsInv
    <3>2. IsHistory(issued) /\ Coherent(assets) /\ Serves(assets, issued) BY DEF AssetsInv
    <3>3. \A t \in DOMAIN issued : MayMiss(issued[t]) => MayMiss(issued[t])'
      BY <3>1, <3>2, LocalAssetsAssumption DEF MayMiss, IsHistory
    <3> QED BY <3>1, <3>2, <3>3 DEF AssetsInv, IsHistory, Serves
  <2>6. CASE UNCHANGED assetVars BY <2>1, <2>6 DEF assetVars
  <2> QED BY <2>2, <2>3, <2>4, <2>5, <2>6 DEF AssetsNext
<1>3. AssetsInv => FreshIsServed
  <2> SUFFICES ASSUME AssetsInv, NEW tok \in DOMAIN issued, clock - issued[tok].born <= Ttl,
                      Cardinality(issued[tok].rivals) < MaxEntries
               PROVE  /\ tok \in Tokens(assets)
                      /\ assets.byToken[tok].path = issued[tok].image
    BY DEF FreshIsServed
  <2>1. IsFiniteSet(issued[tok].rivals) /\ issued[tok].born \in Nat /\ clock \in Nat
    BY DEF AssetsInv, IsHistory
  <2>2. Cardinality(issued[tok].rivals) \in Nat BY <2>1, FS_CardinalityType
  <2>3. ~MayMiss(issued[tok]) BY <2>1, <2>2, LocalAssetsAssumption DEF MayMiss
  <2> QED BY <2>3 DEF AssetsInv, Serves
<1> QED BY <1>1, <1>2, <1>3, PTL DEF Spec

-----------------------------------------------------------------------------
(***************************************************************************)
(* What a phone is told of a tool names no place on the Mac                 *)
(***************************************************************************)
Words == {" ", ",", ":", "...", "workspace", "many", "files", "in", "dot", "title"}
Symbols == STRING \cup Words
Strings == Seq(Symbols)

\* A text without a "/" names no place.
Plain(text) == text \in Strings /\ \A i \in 1 .. Len(text) : text[i] # "/"

\* A text is a function of its places.
LEMMA TextDomain ==
  ASSUME NEW text \in Strings
  PROVE  DOMAIN text = 1 .. Len(text) /\ Len(text) \in Nat /\ \A i \in 1 .. Len(text) : text[i] \in Symbols
BY LenProperties, ElementOfSeq DEF Strings

\* A plain text is safe.
LEMMA PlainIsSafe ==
  ASSUME NEW text, Plain(text)
  PROVE  text \in Strings /\ NoPlaceIn(text)
BY TextDomain DEF Plain, NoPlaceIn

\* A set that holds 0 and every successor of its members holds every number.
LEMMA Induction ==
  ASSUME NEW S, 0 \in S, \A n \in Nat : n \in S => n + 1 \in S
  PROVE  Nat \subseteq S
<1> DEFINE T == Nat \ S
<1>1. SUFFICES ASSUME T # {} PROVE FALSE
  OBVIOUS
<1>2. PICK x \in T : \A y \in T : ~(<<y, x>> \in OpToRel(<, Nat))
  BY <1>1, NatLessThanWellFounded, WFMin
<1>3. x # 0 /\ x - 1 \in Nat /\ x - 1 < x
  BY SMT
<1>4. x - 1 \notin T
  BY <1>2, <1>3 DEF OpToRel
<1>5. QED
  BY <1>3, <1>4


\* A set of natural numbers has a least one, and a greatest if it has a bound.
LEMMA LeastNatural ==
  ASSUME NEW S, S \subseteq Nat, S # {}
  PROVE  \E m \in S : \A x \in S : m <= x
<1>1. PICK m \in S : \A x \in S : ~(<<x, m>> \in OpToRel(<, Nat))
  BY NatLessThanWellFounded, WFMin
<1>2. ASSUME NEW x \in S PROVE ~(x < m) BY <1>1 DEF OpToRel
<1>3. ASSUME NEW x \in S PROVE m <= x BY <1>2
<1> QED BY <1>3

LEMMA LargestNatural ==
  ASSUME NEW S, S \subseteq Nat, S # {}, NEW n \in Nat, \A x \in S : x <= n
  PROVE  \E m \in S : \A x \in S : x <= m
<1> DEFINE T == {k \in Nat : \E x \in S : k = n - x}
<1>1. \A y \in S : n - y \in T OBVIOUS
<1>2. T # {} /\ T \subseteq Nat BY <1>1
<1>3. PICK k \in T : \A y \in T : k <= y BY <1>2, LeastNatural
<1>4. PICK m \in S : k = n - m BY <1>3
<1>5. \A y \in S : n - m <= n - y BY <1>1, <1>3, <1>4
<1> QED BY <1>5

\* Every place of a text that holds no separator is in a stretch.
LEMMA StretchAround ==
  ASSUME NEW text \in Strings, NEW without, NEW i \in 1 .. Len(text), text[i] \notin without
  PROVE  \E p \in Stretches(text, without) : p[1] <= i /\ i <= p[2]
<1> DEFINE n == Len(text)
           Free(a, b) == \A k \in a .. b : text[k] \notin without
           Before == {a \in 1 .. i : Free(a, i)}
           After == {b \in 0 .. n - i : Free(i, i + b)}
<1>1. n \in Nat /\ DOMAIN text = 1 .. n BY TextDomain
<1> HIDE DEF n
<1>2. i \in 1 .. n BY DEF n
<1>3. i \in Before /\ Before \subseteq Nat BY <1>1, <1>2
<1>4. 0 \in After /\ After \subseteq Nat /\ \A b \in After : b <= n - i /\ n - i \in Nat BY <1>1, <1>2
<1>5. PICK a \in Before : \A x \in Before : a <= x BY <1>3, LeastNatural
<1>6. PICK b \in After : \A x \in After : x <= b BY <1>1, <1>2, <1>4, LargestNatural
<1> DEFINE p == <<a, i + b>>
<1>7. a \in 1 .. i /\ b \in 0 .. n - i /\ Free(a, i) /\ Free(i, i + b) BY <1>5, <1>6
<1>8. Free(a, i + b) BY <1>1, <1>2, <1>7
<1>9. a = 1 \/ text[a - 1] \in without
  <2> SUFFICES ASSUME a # 1, text[a - 1] \notin without PROVE FALSE OBVIOUS
  <2>1. a - 1 \in Before BY <1>2, <1>7
  <2> QED BY <1>5, <1>7, <2>1
<1>10. i + b = n \/ text[i + b + 1] \in without
  <2> SUFFICES ASSUME i + b # n, text[i + b + 1] \notin without PROVE FALSE OBVIOUS
  <2>1. b + 1 \in 0 .. n - i /\ i + (b + 1) = i + b + 1 BY <1>1, <1>2, <1>7
  <2>2. b + 1 \in After BY <1>1, <1>2, <1>7, <2>1
  <2> QED BY <1>6, <1>7, <2>2
<1>11. p \in (DOMAIN text) \X (DOMAIN text) /\ p[1] = a /\ p[2] = i + b /\ a <= i /\ i <= i + b
  BY <1>1, <1>2, <1>7
<1> HIDE DEF Before, After
<1>12. p \in Stretches(text, without)
  BY <1>8, <1>9, <1>10, <1>11 DEF Stretches, n
<1> QED BY <1>11, <1>12

\* The part of a text in a stretch.
LEMMA PartIs ==
  ASSUME NEW text \in Strings, NEW without, NEW p \in Stretches(text, without)
  PROVE  /\ p[1] \in 1 .. Len(text) /\ p[2] \in p[1] .. Len(text)
         /\ \A i \in p[1] .. p[2] : text[i] \notin without
         /\ Part(text, p) \in Strings /\ Len(Part(text, p)) = p[2] - p[1] + 1
         /\ \A k \in 1 .. p[2] - p[1] + 1 : Part(text, p)[k] = text[p[1] + k - 1]
<1>1. DOMAIN text = 1 .. Len(text) /\ Len(text) \in Nat BY TextDomain
<1>2. p[1] \in 1 .. Len(text) /\ p[2] \in 1 .. Len(text) /\ p[1] <= p[2]
      /\ \A i \in p[1] .. p[2] : text[i] \notin without
  BY <1>1 DEF Stretches
<1>3. /\ SubSeq(text, p[1], p[2]) \in Seq(Symbols) /\ Len(SubSeq(text, p[1], p[2])) = p[2] - p[1] + 1
      /\ \A k \in 1 .. p[2] - p[1] + 1 : SubSeq(text, p[1], p[2])[k] = text[p[1] + k - 1]
  BY <1>1, <1>2, SubSeqProperties DEF Strings
<1> QED BY <1>2, <1>3 DEF Part, Strings

\* A text that names no place has none in it.
LEMMA CheckedIsSafe ==
  ASSUME NEW text \in Strings, ~NamesPlace(text)
  PROVE  NoPlaceIn(text)
<1> DEFINE Starts(i) == i = 1 \/ text[i - 1] \in Separators
<1>1. DOMAIN text = 1 .. Len(text) /\ Len(text) \in Nat BY TextDomain
<1> SUFFICES ASSUME NEW i \in 1 .. Len(text), text[i] = "/"
             PROVE  /\ ~Starts(i)
                    /\ text[i - 1] = ":" =>
                         \/ i > 2 /\ text[i - 2] = "http" /\ Starts(i - 2)
                         \/ \E j \in 1 .. i - 2 : text[j] = ":" /\ \A k \in j .. i - 2 : ~Starts(k + 1)
  BY <1>1 DEF NoPlaceIn
<1>2. PICK p \in Stretches(text, Separators) : p[1] <= i /\ i <= p[2]
  BY StretchAround DEF Separators
<1> DEFINE a == p[1]
           word == Part(text, p)
<1>3. /\ a \in 1 .. Len(text) /\ p[2] \in a .. Len(text)
      /\ \A k \in a .. p[2] : text[k] \notin Separators
      /\ word \in Strings /\ Len(word) = p[2] - a + 1
      /\ \A k \in 1 .. p[2] - a + 1 : word[k] = text[a + k - 1]
  BY PartIs
<1>4. a = 1 \/ text[a - 1] \in Separators BY DEF Stretches
<1>5. /\ ~IsAbsolute(word)
      /\ \A c \in Colons(word) :
           /\ \A j \in Colons(word) : c <= j
           /\ IsAbsolute(SplitAtColon(word, c)[2])
           => SplitAtColon(word, c)[1] = <<"http">>
  BY DEF NamesPlace
<1> HIDE DEF word, a
<1>6. a \in Nat /\ p[2] \in Nat /\ a <= i /\ i <= p[2] BY <1>1, <1>2, <1>3 DEF a
<1>7. DOMAIN word = 1 .. p[2] - a + 1 BY <1>3, TextDomain
<1>8. i # a
  <2> SUFFICES ASSUME i = a PROVE FALSE OBVIOUS
  <2>1. 1 \in 1 .. p[2] - a + 1 /\ a + 1 - 1 = a BY <1>6
  <2>2. word[1] = "/" BY <1>3, <2>1
  <2>3. word # << >> BY <1>3, <1>6
  <2> QED BY <1>5, <2>2, <2>3 DEF IsAbsolute
<1>9. ~Starts(i) BY <1>3, <1>6, <1>8
<1>10. ASSUME text[i - 1] = ":",
              ~ \E j \in 1 .. i - 2 : text[j] = ":" /\ \A k \in j .. i - 2 : ~Starts(k + 1)
       PROVE  i > 2 /\ text[i - 2] = "http" /\ Starts(i - 2)
  <2> DEFINE c == i - a
             path == SplitAtColon(word, c)[2]
             scheme == SplitAtColon(word, c)[1]
  <2>1. c \in Nat /\ c \in 1 .. p[2] - a /\ word[c] = ":" /\ a + c = i
    <3>1. c \in Nat /\ c \in 1 .. p[2] - a /\ a + c = i BY <1>6, <1>8
    <3>2. c \in 1 .. p[2] - a + 1 /\ a + c - 1 = i - 1 BY <1>6, <1>8
    <3>3. word[c] = text[i - 1] BY <1>3, <3>2
    <3> QED BY <1>10, <3>1, <3>3
  <2>2. \A j \in a .. i - 2 : text[j] # ":"
    <3> SUFFICES ASSUME NEW j \in a .. i - 2, text[j] = ":" PROVE FALSE OBVIOUS
    <3>1. \A k \in j .. i - 2 : k \in a .. p[2] /\ k + 1 # 1 /\ k + 1 - 1 = k
      <4>1. a >= 1 BY <1>3
      <4> QED BY <1>6, <4>1
    <3>2. \A k \in j .. i - 2 : ~Starts(k + 1) BY <3>1, <1>3
    <3>3. j \in 1 .. i - 2 BY <1>3, <1>6
    <3> QED BY <3>2, <3>3, <1>10
  <2>3. c \in Colons(word) BY <1>7, <2>1, <1>6 DEF Colons
  <2>4. \A j \in Colons(word) : c <= j
    <3> SUFFICES ASSUME NEW j \in 1 .. p[2] - a + 1, word[j] = ":", j < c PROVE FALSE
      BY <1>7, <2>1, <1>6 DEF Colons
    <3>1. word[j] = text[a + j - 1] /\ a + j - 1 \in a .. i - 2 BY <1>3, <1>6, <2>1
    <3> QED BY <2>2, <3>1
  <2>5. /\ scheme = SubSeq(word, 1, c - 1) /\ path = SubSeq(word, c + 1, Len(word))
        /\ Len(scheme) = c - 1 /\ \A k \in 1 .. c - 1 : scheme[k] = word[k]
        /\ Len(path) = Len(word) - c /\ path[1] = word[c + 1] /\ path \in Seq(Symbols)
    <3>1. scheme = SubSeq(word, 1, c - 1) /\ path = SubSeq(word, c + 1, Len(word)) BY DEF SplitAtColon
    <3>2. /\ Len(SubSeq(word, 1, c - 1)) = c - 1
          /\ \A k \in 1 .. c - 1 : SubSeq(word, 1, c - 1)[k] = word[1 + k - 1]
      <4>1. \A k \in 1 .. c - 1 : k \in 1 .. Len(word) BY <1>3, <1>6, <2>1
      <4>2. \A k \in 1 .. c - 1 : word[k] \in Symbols BY <1>3, <4>1, TextDomain
      <4>3. c - 1 \in Int /\ 1 \in Int /\ (IF 1 <= c - 1 THEN c - 1 - 1 + 1 ELSE 0) = c - 1
            /\ c - 1 - 1 + 1 = c - 1
        BY <2>1
      <4> QED BY <4>2, <4>3, SubSeqProperties
    <3>3. \A k \in 1 .. c - 1 : 1 + k - 1 = k BY <2>1
    <3>4. /\ Len(SubSeq(word, c + 1, Len(word))) = Len(word) - (c + 1) + 1
          /\ SubSeq(word, c + 1, Len(word))[1] = word[c + 1 + 1 - 1]
          /\ SubSeq(word, c + 1, Len(word)) \in Seq(Symbols)
      <4>1. c + 1 \in 1 .. Len(word) /\ Len(word) \in 1 .. Len(word) /\ Len(word) \in Nat
        BY <1>3, <1>6, <2>1
      <4>2. 1 \in 1 .. Len(word) - (c + 1) + 1 /\ c + 1 <= Len(word) BY <4>1
      <4>3. \A k \in c + 1 .. Len(word) : word[k] \in Symbols BY <1>3, <4>1, TextDomain
      <4> QED BY <4>1, <4>2, <4>3, SubSeqProperties
    <3>5. Len(word) - (c + 1) + 1 = Len(word) - c /\ c + 1 + 1 - 1 = c + 1
      <4>1. \A m, n \in Int : m - (n + 1) + 1 = m - n /\ n + 1 + 1 - 1 = n + 1 OBVIOUS
      <4>2. Len(word) \in Int BY <1>3, <1>6
      <4>3. c \in Int BY <2>1
      <4> HIDE DEF c
      <4> QED BY <4>1, <4>2, <4>3
    <3> QED BY <3>1, <3>2, <3>3, <3>4, <3>5
  <2> HIDE DEF scheme, path, c
  <2>6. path[1] = "/" /\ path # << >>
    <3>1. c + 1 \in 1 .. p[2] - a + 1 /\ a + (c + 1) - 1 = i BY <1>6, <2>1
    <3>2. word[c + 1] = "/" BY <3>1, <1>3
    <3>3. Len(path) # 0 BY <1>3, <1>6, <2>1, <2>5
    <3> QED BY <2>5, <3>2, <3>3
  <2>7. scheme = <<"http">>
    <3>1. IsAbsolute(path) BY <2>6 DEF IsAbsolute
    <3> QED BY <1>5, <2>3, <2>4, <3>1 DEF scheme, path
  <2>8. Len(scheme) = 1 /\ scheme[1] = "http" BY <2>7
  <2>9. c = 2 /\ word[1] = "http" BY <2>1, <2>5, <2>8
  <2>10. a = i - 2 /\ text[a] = "http"
    <3>1. a = i - 2 BY <1>6, <2>1, <2>9
    <3>2. 1 \in 1 .. p[2] - a + 1 /\ a + 1 - 1 = a BY <1>6
    <3>3. word[1] = text[a] BY <1>3, <3>2
    <3> QED BY <2>9, <3>1, <3>3
  <2> QED BY <1>3, <1>4, <1>6, <2>10 DEF a
<1> QED BY <1>9, <1>10

\* What is put together of two texts.
LEMMA Concatenation ==
  ASSUME NEW a \in Strings, NEW b \in Strings
  PROVE  /\ a \o b \in Strings /\ Len(a \o b) = Len(a) + Len(b)
         /\ \A i \in 1 .. Len(a) : (a \o b)[i] = a[i]
         /\ \A i \in 1 .. Len(b) : (a \o b)[Len(a) + i] = b[i]
<1>1. Len(a) \in Nat /\ Len(b) \in Nat BY TextDomain
<1>2. /\ a \o b \in Seq(Symbols) /\ Len(a \o b) = Len(a) + Len(b)
      /\ \A i \in 1 .. Len(a) + Len(b) :
           (a \o b)[i] = IF i <= Len(a) THEN a[i] ELSE b[i - Len(a)]
  BY ConcatProperties DEF Strings
<1>3. \A i \in 1 .. Len(a) : i \in 1 .. Len(a) + Len(b) /\ i <= Len(a) BY <1>1
<1>4. \A i \in 1 .. Len(b) : /\ Len(a) + i \in 1 .. Len(a) + Len(b) /\ ~(Len(a) + i <= Len(a))
                             /\ Len(a) + i - Len(a) = i
  BY <1>1
<1> QED BY <1>2, <1>3, <1>4 DEF Strings

\* No place is made by putting a safe text after one that ends a word, or a plain one
\* after any.
LEMMA ConcatenationIsSafe ==
  ASSUME NEW a \in Strings, NEW b \in Strings, NoPlaceIn(a), NoPlaceIn(b),
         \/ Plain(b)
         \/ Len(a) # 0 /\ a[Len(a)] \in Separators
  PROVE  a \o b \in Strings /\ NoPlaceIn(a \o b)
<1> DEFINE text == a \o b
           m == Len(a)
           n == Len(b)
           Starts(t, i) == i = 1 \/ t[i - 1] \in Separators
           Fine(t, i) ==
             /\ ~Starts(t, i)
             /\ t[i - 1] = ":" =>
                  \/ i > 2 /\ t[i - 2] = "http" /\ Starts(t, i - 2)
                  \/ \E j \in 1 .. i - 2 : t[j] = ":" /\ \A k \in j .. i - 2 : ~Starts(t, k + 1)
<1>1. m \in Nat /\ n \in Nat /\ DOMAIN a = 1 .. m /\ DOMAIN b = 1 .. n BY TextDomain
<1>2. /\ text \in Strings /\ Len(text) = m + n
      /\ \A i \in 1 .. m : text[i] = a[i]
      /\ \A i \in 1 .. n : text[m + i] = b[i]
  BY Concatenation
<1>3. DOMAIN text = 1 .. m + n BY <1>2, TextDomain
<1>4. \A i \in 1 .. m : a[i] = "/" => Fine(a, i) BY <1>1 DEF NoPlaceIn
<1>5. \A i \in 1 .. n : b[i] = "/" => Fine(b, i) BY <1>1 DEF NoPlaceIn
<1> HIDE DEF text, m, n
<1>6. ASSUME NEW i \in 1 .. m, text[i] = "/"
      PROVE  Fine(text, i)
  <2>1. Fine(a, i) BY <1>2, <1>4, <1>6
  <2>2. \A k \in 1 .. i : Starts(text, k) <=> Starts(a, k) BY <1>1, <1>2, <1>6
  <2>3. ~Starts(text, i) BY <2>1, <2>2
  <2>4. ASSUME text[i - 1] = ":"
        PROVE  \/ i > 2 /\ text[i - 2] = "http" /\ Starts(text, i - 2)
               \/ \E j \in 1 .. i - 2 : text[j] = ":" /\ \A k \in j .. i - 2 : ~Starts(text, k + 1)
    <3>1. i # 1 BY <2>3
    <3>2. a[i - 1] = ":" BY <1>1, <1>2, <2>4, <3>1
    <3>3. CASE i > 2 /\ a[i - 2] = "http" /\ Starts(a, i - 2)
      <4>1. i - 2 \in 1 .. m /\ i - 2 \in 1 .. i BY <3>3, <1>1
      <4> QED BY <1>2, <2>2, <3>3, <4>1
    <3>4. ASSUME NEW j \in 1 .. i - 2, a[j] = ":", \A k \in j .. i - 2 : ~Starts(a, k + 1)
          PROVE  text[j] = ":" /\ \A k \in j .. i - 2 : ~Starts(text, k + 1)
      <4>1. j \in 1 .. m /\ \A k \in j .. i - 2 : k + 1 \in 1 .. i BY <1>1
      <4> HIDE DEF Starts
      <4> QED BY <1>2, <2>2, <3>4, <4>1
    <3> HIDE DEF Starts
    <3> QED BY <2>1, <3>2, <3>3, <3>4
  <2> HIDE DEF Starts
  <2> QED BY <2>3, <2>4
<1>7. ASSUME NEW i \in 1 .. n, text[m + i] = "/"
      PROVE  Fine(text, m + i)
  <2>1. b[i] = "/" /\ Fine(b, i) BY <1>2, <1>5, <1>7
  <2>2. m # 0 /\ a[m] \in Separators BY <2>1 DEF Plain, m, n
  <2>3. \A k \in 1 .. i : Starts(text, m + k) <=> Starts(b, k)
    <3> SUFFICES ASSUME NEW k \in 1 .. i PROVE Starts(text, m + k) <=> Starts(b, k) OBVIOUS
    <3>1. CASE k = 1
      <4>1. (m + k) - 1 = m /\ m \in 1 .. m BY <1>1, <2>2, <3>1
      <4>2. text[(m + k) - 1] = a[m] BY <1>2, <4>1
      <4>3. text[(m + k) - 1] \in Separators BY <2>2, <4>2
      <4> QED BY <3>1, <4>3
    <3>2. CASE k # 1
      <4>1. k - 1 \in 1 .. n /\ (m + k) - 1 = m + (k - 1) /\ m + k # 1 BY <1>1, <3>2
      <4>2. text[(m + k) - 1] = b[k - 1] BY <1>2, <4>1
      <4> QED BY <1>1, <3>2, <4>1, <4>2
    <3> QED BY <3>1, <3>2
  <2>4. i \in 1 .. i BY <1>1
  <2>5. ~Starts(text, m + i) /\ i # 1 BY <2>1, <2>3, <2>4
  <2>6. i - 1 \in 1 .. n /\ (m + i) - 1 = m + (i - 1) BY <1>1, <2>5
  <2>7. ASSUME text[(m + i) - 1] = ":"
        PROVE  \/ m + i > 2 /\ text[(m + i) - 2] = "http" /\ Starts(text, (m + i) - 2)
               \/ \E j \in 1 .. (m + i) - 2 :
                    text[j] = ":" /\ \A k \in j .. (m + i) - 2 : ~Starts(text, k + 1)
    <3>1. b[i - 1] = ":" BY <1>2, <2>6, <2>7
    <3>2. CASE i > 2 /\ b[i - 2] = "http" /\ Starts(b, i - 2)
      <4>1. i - 2 \in 1 .. n /\ i - 2 \in 1 .. i /\ m + (i - 2) = (m + i) - 2 /\ m + i > 2 BY <3>2, <1>1
      <4> HIDE DEF Starts
      <4>2. text[m + (i - 2)] = "http" /\ Starts(text, m + (i - 2)) BY <1>2, <2>3, <3>2, <4>1
      <4> QED BY <4>1, <4>2
    <3>3. ASSUME NEW j \in 1 .. i - 2, b[j] = ":", \A k \in j .. i - 2 : ~Starts(b, k + 1)
          PROVE  \E l \in 1 .. (m + i) - 2 :
                   text[l] = ":" /\ \A k \in l .. (m + i) - 2 : ~Starts(text, k + 1)
      <4>1. j \in 1 .. n /\ m + j \in 1 .. (m + i) - 2 BY <1>1
      <4>2. text[m + j] = ":" BY <1>2, <3>3, <4>1
      <4>3. ASSUME NEW k \in m + j .. (m + i) - 2 PROVE ~Starts(text, k + 1)
        <5>1. k - m \in j .. i - 2 /\ k - m + 1 \in 1 .. i /\ m + (k - m + 1) = k + 1 BY <1>1, <4>3
        <5> HIDE DEF Starts
        <5> QED BY <2>3, <3>3, <5>1
      <4> HIDE DEF Starts
      <4> QED BY <4>1, <4>2, <4>3
    <3> HIDE DEF Starts
    <3> QED BY <2>1, <3>1, <3>2, <3>3
  <2> HIDE DEF Starts
  <2> QED BY <2>5, <2>7
<1>8. ASSUME NEW i \in 1 .. m + n, text[i] = "/"
      PROVE  Fine(text, i)
  <2>1. CASE i <= m
    <3>1. i \in 1 .. m BY <1>1, <2>1
    <3> HIDE DEF Fine
    <3> QED BY <1>6, <1>8, <3>1
  <2>2. CASE ~(i <= m)
    <3>1. i - m \in 1 .. n /\ m + (i - m) = i BY <1>1, <2>2
    <3> HIDE DEF Fine
    <3> QED BY <1>7, <1>8, <3>1
  <2> QED BY <2>1, <2>2
<1> HIDE DEF Fine
<1>9. \A i \in DOMAIN text : text[i] = "/" => Fine(text, i) BY <1>3, <1>8
<1> QED BY <1>2, <1>9 DEF NoPlaceIn, Fine, text

\* A function on 0 .. n that begins with a value and goes on from each to the next exists.
IsStep(step, n, S) == step \in [S \X (1 .. n) -> S]
Recurs(f, n, S, base, step) ==
  f \in [0 .. n -> S] /\ f[0] = base /\ \A i \in 1 .. n : f[i] = step[<<f[i - 1], i>>]

LEMMA Recursion ==
  ASSUME NEW n \in Nat, NEW S, NEW base \in S, NEW step, IsStep(step, n, S)
  PROVE  \E f : Recurs(f, n, S, base, step)
<1> DEFINE Follows(f, k) == f \in [0 .. k -> S] /\ f[0] = base
                         /\ \A i \in 1 .. k : f[i] = step[<<f[i - 1], i>>]
           Good == {k \in Nat : k <= n => \E f : Follows(f, k)}
<1>1. 0 \in Good
  <2>1. Follows([i \in 0 .. 0 |-> base], 0) OBVIOUS
  <2> HIDE DEF Follows
  <2> QED BY <2>1
<1>2. ASSUME NEW k \in Nat, k \in Good PROVE k + 1 \in Good
  <2> SUFFICES ASSUME k + 1 <= n PROVE \E g : Follows(g, k + 1) OBVIOUS
  <2>1. PICK f : Follows(f, k) BY <1>2
  <2> DEFINE g == [i \in 0 .. k + 1 |-> IF i = k + 1 THEN step[<<f[k], k + 1>>] ELSE f[i]]
  <2>2. step[<<f[k], k + 1>>] \in S
    <3>1. k \in 0 .. k /\ k + 1 \in 1 .. n OBVIOUS
    <3>2. f[k] \in S BY <2>1, <3>1
    <3>3. <<f[k], k + 1>> \in S \X (1 .. n) BY <3>1, <3>2
    <3> QED BY <3>3 DEF IsStep
  <2>3. \A i \in 0 .. k : g[i] = f[i] /\ g[i] \in S BY <2>1
  <2>4. g[k + 1] = step[<<f[k], k + 1>>] OBVIOUS
  <2>5. g \in [0 .. k + 1 -> S]
    <3>1. \A i \in 0 .. k + 1 : i \in 0 .. k \/ i = k + 1 OBVIOUS
    <3>2. \A i \in 0 .. k + 1 : g[i] \in S BY <2>2, <2>3, <2>4, <3>1
    <3>3. g = [i \in 0 .. k + 1 |-> g[i]] OBVIOUS
    <3> HIDE DEF g
    <3> QED BY <3>2, <3>3
  <2> HIDE DEF g
  <2>6. g[0] = base
    <3>1. 0 \in 0 .. k OBVIOUS
    <3> QED BY <2>1, <2>3, <3>1
  <2>7. ASSUME NEW i \in 1 .. k + 1 PROVE g[i] = step[<<g[i - 1], i>>]
    <3>1. /\ i - 1 \in 0 .. k
          /\ (i \in 1 .. k /\ i \in 0 .. k) \/ (i = k + 1 /\ i - 1 = k)
      OBVIOUS
    <3>2. g[i - 1] = f[i - 1] BY <2>3, <3>1
    <3>3. CASE i \in 1 .. k /\ i \in 0 .. k BY <2>1, <2>3, <3>2, <3>3
    <3>4. CASE i = k + 1 /\ i - 1 = k BY <2>4, <3>2, <3>4
    <3> QED BY <3>1, <3>3, <3>4
  <2>8. Follows(g, k + 1) BY <2>5, <2>6, <2>7
  <2> HIDE DEF Follows
  <2> QED BY <2>8
<1> HIDE DEF Good
<1>3. n \in Good BY <1>1, <1>2, Induction
<1> QED BY <1>3 DEF Good, Recurs

\* What holds at 0 and goes on from each place to the next holds up to n.
LEMMA Climbs ==
  ASSUME NEW n \in Nat, NEW T, 0 \in T, \A i \in 1 .. n : i - 1 \in T => i \in T
  PROVE  \A i \in 0 .. n : i \in T
<1> DEFINE Good == {k \in Nat : k <= n => k \in T}
<1>1. 0 \in Good OBVIOUS
<1>2. ASSUME NEW k \in Nat, k \in Good PROVE k + 1 \in Good
  <2> SUFFICES ASSUME k + 1 <= n PROVE k + 1 \in T OBVIOUS
  <2>1. k \in T /\ k + 1 \in 1 .. n /\ (k + 1) - 1 = k BY <1>2
  <2> QED BY <2>1
<1> HIDE DEF Good
<1>3. Nat \subseteq Good BY <1>1, <1>2, Induction
<1> QED BY <1>3 DEF Good

-----------------------------------------------------------------------------
\* One more symbol, or a blank and one more.
TidyStep(done, text, i) ==
  IF text[i] = " " THEN done
  ELSE IF done # << >> /\ text[i - 1] = " " THEN done \o <<" ", text[i]>>
  ELSE Append(done, text[i])
Tidies(f, text) ==
  f = [i \in 0 .. Len(text) |->
         IF i = 0 THEN << >>
         ELSE IF text[i] = " " THEN f[i - 1]
         ELSE IF f[i - 1] # << >> /\ text[i - 1] = " " THEN f[i - 1] \o <<" ", text[i]>>
         ELSE Append(f[i - 1], text[i])]

HasBlank(S) == " " \in S

\* The short sequences of a set.
LEMMA FewIn ==
  ASSUME NEW S, NEW c \in S, NEW d \in S, NEW e \in S
  PROVE  <<c>> \in Seq(S) /\ <<c, d>> \in Seq(S) /\ <<c, d, e>> \in Seq(S)
OBVIOUS

\* A step of tidying stays in the set.
LEMMA TidyStepIn ==
  ASSUME NEW S, HasBlank(S), NEW text \in Seq(S), NEW done \in Seq(S), NEW i \in 1 .. Len(text)
  PROVE  TidyStep(done, text, i) \in Seq(S)
<1>1. text[i] \in S BY ElementOfSeq
<1> DEFINE pair == <<" ", text[i]>>
<1>2. " " \in S BY Zenon DEF HasBlank
<1>3. pair \in Seq(S) BY <1>1, <1>2, FewIn, Zenon
<1> HIDE DEF pair
<1>4. done \o pair \in Seq(S) BY <1>3, ConcatProperties
<1>5. Append(done, text[i]) \in Seq(S) BY <1>1, AppendProperties
<1>6. TidyStep(done, text, i) \in {done, done \o pair, Append(done, text[i])}
  BY DEF TidyStep, pair
<1> QED BY <1>4, <1>5, <1>6

\* Tidying a text puts nothing in it but blanks.
LEMMA TidyIn ==
  ASSUME NEW S, HasBlank(S), NEW text \in Seq(S)
  PROVE  Tidy(text) \in Seq(S)
<1> DEFINE n == Len(text)
           step == [p \in Seq(S) \X (1 .. n) |-> TidyStep(p[1], text, p[2])]
<1>1. n \in Nat /\ << >> \in Seq(S) BY LenProperties
<1>2. \E f : Tidies(f, text)
  <2>1. step \in [Seq(S) \X (1 .. n) -> Seq(S)]
    <3>1. \A p \in Seq(S) \X (1 .. n) : TidyStep(p[1], text, p[2]) \in Seq(S) BY TidyStepIn
    <3> QED BY <3>1
  <2>3. \A done \in Seq(S), i \in 1 .. n : step[<<done, i>>] = TidyStep(done, text, i) OBVIOUS
  <2> HIDE DEF step, n
  <2>4. PICK f \in [0 .. n -> Seq(S)] :
          f[0] = << >> /\ \A i \in 1 .. n : f[i] = step[<<f[i - 1], i>>]
    <3>1. IsStep(step, n, Seq(S)) BY <2>1 DEF IsStep
    <3>2. \E f : Recurs(f, n, Seq(S), << >>, step) BY <1>1, <3>1, Recursion, Zenon
    <3> QED BY <3>2 DEF Recurs
  <2>5. \A i \in 0 .. n : f[i] = IF i = 0 THEN << >> ELSE TidyStep(f[i - 1], text, i)
    <3> SUFFICES ASSUME NEW i \in 0 .. n, i # 0 PROVE f[i] = TidyStep(f[i - 1], text, i) BY <2>4
    <3>1. i \in 1 .. n /\ i - 1 \in 0 .. n BY <1>1
    <3> QED BY <2>3, <2>4, <3>1
  <2>6. f = [i \in 0 .. n |-> f[i]] OBVIOUS
  <2>7. Tidies(f, text) BY <2>5, <2>6 DEF Tidies, TidyStep, n
  <2> QED BY <2>7
<1> DEFINE u == CHOOSE f : Tidies(f, text)
<1>3. Tidies(u, text) BY <1>2, Zenon
<1>4. Tidy(text) = u[n] BY DEF Tidy, Tidies
<1> HIDE DEF u, n
<1>5. u[0] = << >> /\ \A i \in 1 .. n : u[i] = TidyStep(u[i - 1], text, i)
  <2> DEFINE e(i) == IF i = 0 THEN << >> ELSE TidyStep(u[i - 1], text, i)
  <2>1. u = [i \in 0 .. n |-> e(i)] BY <1>3 DEF Tidies, TidyStep, n
  <2> HIDE DEF e
  <2>2. \A i \in 0 .. n : u[i] = e(i) BY <2>1
  <2>3. 0 \in 0 .. n /\ \A i \in 1 .. n : i \in 0 .. n /\ i # 0 BY <1>1
  <2> QED BY <2>2, <2>3 DEF e
<1> DEFINE Good == {i \in Nat : u[i] \in Seq(S)}
<1>6. 0 \in Good BY <1>1, <1>5
<1>7. ASSUME NEW i \in 1 .. n, i - 1 \in Good PROVE i \in Good
  <2>1. i \in Nat /\ u[i - 1] \in Seq(S) BY <1>7
  <2>2. TidyStep(u[i - 1], text, i) \in Seq(S) BY <2>1, TidyStepIn DEF n
  <2> QED BY <1>5, <2>1, <2>2
<1>8. n \in Good
  <2> HIDE DEF Good
  <2>1. \A i \in 0 .. n : i \in Good BY <1>1, <1>6, <1>7, Climbs
  <2> QED BY <1>1, <2>1
<1> QED BY <1>4, <1>8

-----------------------------------------------------------------------------
NoSlash == Symbols \ {"/"}
SafeTexts == {text \in Strings : NoPlaceIn(text)}

\* The plain texts are the sequences without a slash.
LEMMA PlainTexts ==
  ASSUME NEW text
  PROVE  Plain(text) <=> text \in Seq(NoSlash)
<1>1. ASSUME Plain(text) PROVE text \in Seq(NoSlash)
  <2>1. Len(text) \in Nat /\ text = [i \in 1 .. Len(text) |-> text[i]]
    <3>1. text \in [1 .. Len(text) -> Symbols] /\ Len(text) \in Nat
      BY <1>1, LenProperties DEF Plain, Strings
    <3> QED BY <3>1
  <2>2. \A i \in 1 .. Len(text) : text[i] \in NoSlash BY <1>1, TextDomain DEF Plain, NoSlash
  <2>3. text \in [1 .. Len(text) -> NoSlash] BY <2>1, <2>2
  <2> QED BY <2>1, <2>3, IsASeq
<1>2. ASSUME text \in Seq(NoSlash) PROVE Plain(text)
  <2>1. Len(text) \in Nat /\ text \in [1 .. Len(text) -> NoSlash] BY <1>2, LenProperties
  <2>2. \A i \in 1 .. Len(text) : text[i] \in Symbols /\ text[i] # "/" BY <2>1 DEF NoSlash
  <2>3. text \in [1 .. Len(text) -> Symbols] BY <2>1, <2>2
  <2>4. text \in Seq(Symbols) BY <2>1, <2>3, IsASeq
  <2> QED BY <2>2, <2>4 DEF Plain, Strings
<1> QED BY <1>1, <1>2

\* So are they safe texts.
LEMMA PlainTextsAreSafe ==
  ASSUME NEW text, Plain(text)
  PROVE  text \in SafeTexts
BY PlainIsSafe DEF SafeTexts

\* Tidying makes no slash.
LEMMA Tidied ==
  ASSUME NEW text \in Strings
  PROVE  Tidy(text) \in Strings /\ (Plain(text) => Plain(Tidy(text)))
<1>1. HasBlank(Symbols) /\ HasBlank(NoSlash) BY DEF HasBlank, NoSlash, Symbols, Words
<1>2. Tidy(text) \in Seq(Symbols) BY <1>1, TidyIn DEF Strings
<1>3. text \in Seq(NoSlash) => Tidy(text) \in Seq(NoSlash) BY <1>1, TidyIn
<1> QED BY <1>2, <1>3, PlainTexts DEF Strings

\* The beginning of a safe text is safe, and so is a text cut short.
LEMMA PrefixIsSafe ==
  ASSUME NEW text \in Strings, NEW n \in 0 .. Len(text)
  PROVE  /\ SubSeq(text, 1, n) \in Strings
         /\ NoPlaceIn(text) => NoPlaceIn(SubSeq(text, 1, n))
         /\ Plain(text) => Plain(SubSeq(text, 1, n))
<1> DEFINE cut == SubSeq(text, 1, n)
<1>1. Len(text) \in Nat /\ DOMAIN text = 1 .. Len(text) BY TextDomain
<1>2. n \in Nat /\ n <= Len(text) BY <1>1
<1>3. /\ cut \in Seq(Symbols) /\ Len(cut) = n - 1 + 1
      /\ \A i \in 1 .. n - 1 + 1 : cut[i] = text[1 + i - 1]
  BY <1>1, <1>2, SubSeqProperties DEF Strings
<1>4. n - 1 + 1 = n /\ \A i \in 1 .. n : 1 + i - 1 = i BY <1>2
<1>5. /\ cut \in Strings /\ Len(cut) = n /\ DOMAIN cut = 1 .. n
      /\ \A i \in 1 .. n : cut[i] = text[i] /\ i \in 1 .. Len(text)
  BY <1>1, <1>2, <1>3, <1>4, TextDomain DEF Strings
<1> HIDE DEF cut
<1>6. ASSUME NoPlaceIn(text) PROVE NoPlaceIn(cut)
  <2> DEFINE Starts(t, i) == i = 1 \/ t[i - 1] \in Separators
  <2> SUFFICES ASSUME NEW i \in 1 .. n, cut[i] = "/"
               PROVE  /\ ~Starts(cut, i)
                      /\ cut[i - 1] = ":" =>
                           \/ i > 2 /\ cut[i - 2] = "http" /\ Starts(cut, i - 2)
                           \/ \E j \in 1 .. i - 2 :
                                cut[j] = ":" /\ \A k \in j .. i - 2 : ~Starts(cut, k + 1)
    BY <1>5 DEF NoPlaceIn
  <2>1. /\ ~Starts(text, i)
        /\ text[i - 1] = ":" =>
             \/ i > 2 /\ text[i - 2] = "http" /\ Starts(text, i - 2)
             \/ \E j \in 1 .. i - 2 :
                  text[j] = ":" /\ \A k \in j .. i - 2 : ~Starts(text, k + 1)
    BY <1>1, <1>5, <1>6 DEF NoPlaceIn
  <2>2. \A k \in 1 .. i : Starts(cut, k) <=> Starts(text, k) BY <1>2, <1>5
  <2>3. i # 1 /\ i \in 1 .. i /\ i - 1 \in 1 .. n /\ cut[i - 1] = text[i - 1] BY <1>2, <1>5, <2>1
  <2>4. i > 2 => i - 2 \in 1 .. n /\ i - 2 \in 1 .. i /\ cut[i - 2] = text[i - 2] BY <1>2, <1>5
  <2> HIDE DEF Starts
  <2>5. ASSUME NEW j \in 1 .. i - 2, text[j] = ":", \A k \in j .. i - 2 : ~Starts(text, k + 1)
        PROVE  cut[j] = ":" /\ \A k \in j .. i - 2 : ~Starts(cut, k + 1)
    <3>1. j \in 1 .. n /\ \A k \in j .. i - 2 : k + 1 \in 1 .. i BY <1>2
    <3> QED BY <1>5, <2>2, <2>5, <3>1
  <2> QED BY <2>1, <2>2, <2>3, <2>4, <2>5
<1>7. Plain(text) => Plain(cut) BY <1>5 DEF Plain
<1> QED BY <1>5, <1>6, <1>7 DEF cut

\* bounded_plain_text
LEMMA BoundedIsSafe ==
  ASSUME NEW text \in Strings
  PROVE  /\ NoPlaceIn(text) => Bounded(text) \in SafeTexts
         /\ Plain(text) => Plain(Bounded(text))
<1>1. CASE Len(text) > MaxChars
  <2> DEFINE cut == SubSeq(text, 1, MaxChars)
             more == <<"...">>
  <2>1. MaxChars \in 0 .. Len(text) BY <1>1, TextDomain, ToolActivityAssumption
  <2>2. /\ cut \in Strings /\ (NoPlaceIn(text) => NoPlaceIn(cut)) /\ (Plain(text) => Plain(cut))
    BY <2>1, PrefixIsSafe
  <2>3. Plain(more)
    <3>1. "..." \in NoSlash BY DEF NoSlash, Symbols, Words
    <3>2. more \in Seq(NoSlash) BY <3>1, FewIn, Zenon
    <3> QED BY <3>2, PlainTexts
  <2>4. more \in Strings /\ NoPlaceIn(more) BY <2>3, PlainIsSafe
  <2>5. Bounded(text) = cut \o more BY <1>1 DEF Bounded
  <2> HIDE DEF cut, more
  <2>6. NoPlaceIn(text) => Bounded(text) \in SafeTexts
    BY <2>2, <2>3, <2>4, <2>5, ConcatenationIsSafe DEF SafeTexts
  <2>7. ASSUME Plain(text) PROVE Plain(cut \o more)
    <3>1. cut \in Seq(NoSlash) /\ more \in Seq(NoSlash) BY <2>2, <2>3, <2>7, PlainTexts
    <3>2. cut \o more \in Seq(NoSlash) BY <3>1, ConcatProperties
    <3> QED BY <3>2, PlainTexts
  <2> QED BY <2>5, <2>6, <2>7
<1>2. CASE ~(Len(text) > MaxChars) BY <1>2 DEF Bounded, SafeTexts
<1> QED BY <1>1, <1>2

\* bounded_safe_detail and humanize_identifier give safe texts.
LEMMA SafeIsSafe ==
  ASSUME NEW text \in Strings
  PROVE  Safe(text) \subseteq SafeTexts /\ Humanized(text) \subseteq SafeTexts
<1>1. ASSUME NEW t \in Strings PROVE Safe(t) \subseteq SafeTexts
  <2>1. Tidy(t) \in Strings BY Tidied
  <2>2. ~NamesPlace(Tidy(t)) => Bounded(Tidy(t)) \in SafeTexts BY <2>1, CheckedIsSafe, BoundedIsSafe
  <2> QED BY <2>2 DEF Safe
<1>2. Spaced(text) \in Strings
  <2>1. DOMAIN text = 1 .. Len(text) /\ Len(text) \in Nat /\ \A i \in 1 .. Len(text) : text[i] \in Symbols
    BY TextDomain
  <2>2. \A i \in 1 .. Len(text) : (IF text[i] = "-" THEN " " ELSE text[i]) \in Symbols
    BY <2>1 DEF Symbols, Words
  <2>3. Spaced(text) \in [1 .. Len(text) -> Symbols] BY <2>1, <2>2 DEF Spaced
  <2> QED BY <2>1, <2>3, IsASeq DEF Strings
<1> QED BY <1>1, <1>2 DEF Humanized

-----------------------------------------------------------------------------
\* A part between two slashes is plain.
LEMMA PartIsPlain ==
  ASSUME NEW path \in Strings, NEW p \in Stretches(path, {"/"})
  PROVE  Plain(Part(path, p))
<1>1. /\ p[1] \in 1 .. Len(path) /\ p[2] \in p[1] .. Len(path)
      /\ \A i \in p[1] .. p[2] : path[i] \notin {"/"}
      /\ Part(path, p) \in Strings /\ Len(Part(path, p)) = p[2] - p[1] + 1
      /\ \A k \in 1 .. p[2] - p[1] + 1 : Part(path, p)[k] = path[p[1] + k - 1]
  BY PartIs
<1>2. Len(path) \in Nat BY TextDomain
<1>3. \A k \in 1 .. p[2] - p[1] + 1 : p[1] + k - 1 \in p[1] .. p[2] BY <1>1, <1>2
<1>4. \A k \in 1 .. p[2] - p[1] + 1 : Part(path, p)[k] # "/" BY <1>1, <1>3
<1> QED BY <1>1, <1>4 DEF Plain

\* safe_path_label
LEMMA LabelIsPlain ==
  ASSUME NEW path \in Strings
  PROVE  Plain(Label(path))
<1> DEFINE names == {Tidy(Part(path, p)) : p \in Final(Stretches(path, {"/"}))} \ {<< >>}
<1>1. ASSUME NEW name \in names PROVE Plain(Bounded(name))
  <2>1. PICK p \in Final(Stretches(path, {"/"})) : name = Tidy(Part(path, p)) BY <1>1
  <2>2. p \in Stretches(path, {"/"}) BY DEF Final
  <2>3. Plain(Part(path, p)) /\ Part(path, p) \in Strings BY <2>2, PartIsPlain DEF Plain
  <2>4. Plain(name) /\ name \in Strings BY <2>1, <2>3, Tidied
  <2> QED BY <2>4, BoundedIsSafe
<1>2. CASE names = {}
  <2>1. Label(path) = <<"workspace">> BY <1>2 DEF Label
  <2>2. "workspace" \in NoSlash BY DEF NoSlash, Symbols, Words
  <2>3. <<"workspace">> \in Seq(NoSlash) BY <2>2, FewIn, Zenon
  <2>4. Plain(<<"workspace">>) BY <2>3, PlainTexts
  <2> QED BY <2>1, <2>4
<1>3. CASE names # {}
  <2> DEFINE bounded == {Bounded(n) : n \in names}
  <2>1. Label(path) = CHOOSE name \in bounded : TRUE BY <1>3 DEF Label
  <2>2. bounded # {} BY <1>3
  <2>3. \A name \in bounded : Plain(name) BY <1>1
  <2> HIDE DEF bounded
  <2>4. (CHOOSE name \in bounded : TRUE) \in bounded BY <2>2
  <2> QED BY <2>1, <2>3, <2>4
<1> QED BY <1>2, <1>3

\* agent_task_label
LEMMA TaskLabelIsPlain ==
  ASSUME NEW path \in Strings, NEW label \in TaskLabel(path)
  PROVE  Plain(label)
<1> DEFINE Cleaned(t) == [i \in DOMAIN t |-> IF t[i] \in {":", "-", ","} THEN " " ELSE t[i]]
           named == {p \in Stretches(path, {"/"}) : Tidy(Part(path, p)) # << >>}
<1>1. PICK p \in Final(named) : label = Tidy(Cleaned(Part(path, p))) BY DEF TaskLabel
<1>2. p \in Stretches(path, {"/"}) BY DEF Final
<1>3. ASSUME NEW t, Plain(t) PROVE Plain(Cleaned(t))
  <2>1. /\ t \in Strings /\ DOMAIN t = 1 .. Len(t) /\ Len(t) \in Nat
        /\ \A i \in 1 .. Len(t) : t[i] \in Symbols /\ t[i] # "/"
    BY <1>3, TextDomain DEF Plain
  <2>2. \A i \in 1 .. Len(t) : t[i] \in NoSlash /\ " " \in NoSlash BY <2>1 DEF NoSlash, Symbols, Words
  <2>3. Cleaned(t) = [i \in 1 .. Len(t) |-> IF t[i] \in {":", "-", ","} THEN " " ELSE t[i]] BY <2>1
  <2>4. \A i \in 1 .. Len(t) : (IF t[i] \in {":", "-", ","} THEN " " ELSE t[i]) \in NoSlash BY <2>2
  <2>5. Cleaned(t) \in [1 .. Len(t) -> NoSlash] BY <2>3, <2>4
  <2> HIDE DEF Cleaned
  <2>6. Cleaned(t) \in Seq(NoSlash) BY <2>1, <2>5, IsASeq
  <2> QED BY <2>6, PlainTexts
<1> HIDE DEF Cleaned
<1>4. Plain(Cleaned(Part(path, p))) BY <1>2, <1>3, PartIsPlain
<1> QED BY <1>1, <1>4, Tidied DEF Plain

\* A text, something between that ends a word, and another.
LEMMA JoinedIsSafe ==
  ASSUME NEW one, one \subseteq SafeTexts, NEW other, other \subseteq SafeTexts,
         NEW between, Plain(between), Len(between) # 0, between[Len(between)] \in Separators
  PROVE  Joined(one, between, other) \subseteq SafeTexts
<1>1. ASSUME NEW a \in one, NEW b \in other PROVE a \o between \o b \in SafeTexts
  <2>1. a \in Strings /\ NoPlaceIn(a) /\ b \in Strings /\ NoPlaceIn(b) BY DEF SafeTexts
  <2>2. between \in Strings /\ NoPlaceIn(between) BY PlainIsSafe
  <2>3. a \o between \in Strings /\ NoPlaceIn(a \o between) BY <2>1, <2>2, ConcatenationIsSafe
  <2> DEFINE front == a \o between
  <2>4. Len(front) # 0 /\ front[Len(front)] \in Separators
    <3>1. Len(between) \in 1 .. Len(between) /\ Len(a) \in Nat /\ Len(between) \in Nat
      BY <2>1, <2>2, TextDomain
    <3>2. Len(front) = Len(a) + Len(between) /\ front[Len(a) + Len(between)] = between[Len(between)]
      BY <2>1, <2>2, <3>1, Concatenation
    <3> QED BY <3>1, <3>2
  <2> HIDE DEF front
  <2>5. front \in Strings /\ NoPlaceIn(front) BY <2>3 DEF front
  <2>6. front \o b \in Strings /\ NoPlaceIn(front \o b) BY <2>1, <2>4, <2>5, ConcatenationIsSafe
  <2> QED BY <2>6 DEF SafeTexts, front
<1>2. one \cup other \subseteq SafeTexts OBVIOUS
<1>3. ASSUME NEW text \in Joined(one, between, other) PROVE text \in SafeTexts
  <2>1. CASE one = {} \/ other = {} BY <1>2, <2>1 DEF Joined
  <2>2. CASE ~(one = {} \/ other = {})
    <3>1. PICK a \in one, b \in other : text = a \o between \o b BY <2>2 DEF Joined
    <3> QED BY <1>1, <3>1
  <2> QED BY <2>1, <2>2
<1> QED BY <1>3

\* changed_file_detail joins plain labels.
JoinStep(done, paths, new, i) ==
  IF i \notin new THEN done
  ELSE IF i = 1 THEN Label(paths[i])
  ELSE done \o <<",", " ">> \o Label(paths[i])
Joins(f, paths, new) ==
  f = [i \in 0 .. Len(paths) |->
         IF i = 0 THEN << >>
         ELSE IF i \notin new THEN f[i - 1]
         ELSE IF i = 1 THEN Label(paths[i])
         ELSE f[i - 1] \o <<",", " ">> \o Label(paths[i])]

\* A step of joining stays plain.
LEMMA JoinStepIsPlain ==
  ASSUME NEW paths \in Seq(Strings), NEW new, NEW done \in Seq(NoSlash), NEW i \in 1 .. Len(paths)
  PROVE  JoinStep(done, paths, new, i) \in Seq(NoSlash)
<1> DEFINE comma == <<",", " ">>
<1>1. Label(paths[i]) \in Seq(NoSlash)
  <2>1. paths[i] \in Strings BY ElementOfSeq
  <2> QED BY <2>1, LabelIsPlain, PlainTexts
<1>2. comma \in Seq(NoSlash)
  <2>1. "," \in NoSlash /\ " " \in NoSlash BY DEF NoSlash, Symbols, Words
  <2> QED BY <2>1, FewIn, Zenon
<1> HIDE DEF comma
<1>3. done \o comma \in Seq(NoSlash) BY <1>2, ConcatProperties
<1>4. (done \o comma) \o Label(paths[i]) \in Seq(NoSlash) BY <1>1, <1>3, ConcatProperties
<1>5. JoinStep(done, paths, new, i) \in
        {done, Label(paths[i]), (done \o comma) \o Label(paths[i])}
  BY DEF JoinStep, comma
<1> QED BY <1>1, <1>4, <1>5

\* changed_file_detail
LEMMA FilesDetailIsPlain ==
  ASSUME NEW paths \in Seq(Strings), NEW detail \in FilesDetail(paths)
  PROVE  Plain(detail)
<1> DEFINE n == Len(paths)
           new == {i \in DOMAIN paths : \A j \in 1 .. i - 1 : Label(paths[j]) # Label(paths[i])}
           step == [p \in Seq(NoSlash) \X (1 .. n) |-> JoinStep(p[1], paths, new, p[2])]
           u == CHOOSE f : Joins(f, paths, new)
<1>1. n \in Nat /\ << >> \in Seq(NoSlash) BY LenProperties
<1>2. detail = <<"many", " ", "files">> \/ detail = u[n]
  <2>1. \/ detail = <<"many", " ", "files">>
        \/ detail = (CHOOSE f : Joins(f, paths, new))[n]
    BY DEF FilesDetail, Joins
  <2> QED BY <2>1
<1> HIDE DEF new
<1>3. \E f : Joins(f, paths, new)
  <2>1. step \in [Seq(NoSlash) \X (1 .. n) -> Seq(NoSlash)]
    <3>1. \A p \in Seq(NoSlash) \X (1 .. n) : JoinStep(p[1], paths, new, p[2]) \in Seq(NoSlash)
      BY JoinStepIsPlain
    <3> QED BY <3>1
  <2>2. \A done \in Seq(NoSlash), i \in 1 .. n : step[<<done, i>>] = JoinStep(done, paths, new, i)
    OBVIOUS
  <2> HIDE DEF step, n
  <2>3. PICK f : Recurs(f, n, Seq(NoSlash), << >>, step)
    <3>1. IsStep(step, n, Seq(NoSlash)) BY <2>1 DEF IsStep
    <3> QED BY <1>1, <3>1, Recursion, Zenon
  <2>4. /\ f \in [0 .. n -> Seq(NoSlash)] /\ f[0] = << >>
        /\ \A i \in 1 .. n : f[i] = step[<<f[i - 1], i>>]
    BY <2>3 DEF Recurs
  <2>5. \A i \in 0 .. n : f[i] = IF i = 0 THEN << >> ELSE JoinStep(f[i - 1], paths, new, i)
    <3> SUFFICES ASSUME NEW i \in 0 .. n, i # 0 PROVE f[i] = JoinStep(f[i - 1], paths, new, i) BY <2>4
    <3>1. i \in 1 .. n /\ i - 1 \in 0 .. n BY <1>1
    <3> QED BY <2>2, <2>4, <3>1
  <2>6. f = [i \in 0 .. n |-> f[i]] BY <2>4
  <2>7. Joins(f, paths, new) BY <2>5, <2>6 DEF Joins, JoinStep, n
  <2> QED BY <2>7
<1>4. Joins(u, paths, new) BY <1>3, Zenon
<1> HIDE DEF u, n
<1>5. u[0] = << >> /\ \A i \in 1 .. n : u[i] = JoinStep(u[i - 1], paths, new, i)
  <2> DEFINE e(i) == IF i = 0 THEN << >> ELSE JoinStep(u[i - 1], paths, new, i)
  <2>1. u = [i \in 0 .. n |-> e(i)] BY <1>4 DEF Joins, JoinStep, n
  <2> HIDE DEF e
  <2>2. \A i \in 0 .. n : u[i] = e(i) BY <2>1
  <2>3. 0 \in 0 .. n /\ \A i \in 1 .. n : i \in 0 .. n /\ i # 0 BY <1>1
  <2> QED BY <2>2, <2>3 DEF e
<1> DEFINE Good == {i \in Nat : u[i] \in Seq(NoSlash)}
<1>6. 0 \in Good BY <1>1, <1>5
<1>7. ASSUME NEW i \in 1 .. n, i - 1 \in Good PROVE i \in Good
  <2>1. i \in Nat /\ u[i - 1] \in Seq(NoSlash) BY <1>7
  <2>2. JoinStep(u[i - 1], paths, new, i) \in Seq(NoSlash) BY <2>1, JoinStepIsPlain DEF n
  <2> QED BY <1>5, <2>1, <2>2
<1>8. n \in Good
  <2> HIDE DEF Good
  <2>1. \A i \in 0 .. n : i \in Good BY <1>1, <1>6, <1>7, Climbs
  <2> QED BY <1>1, <2>1
<1>9. <<"many", " ", "files">> \in Seq(NoSlash)
  <2>1. "many" \in NoSlash /\ " " \in NoSlash /\ "files" \in NoSlash BY DEF NoSlash, Symbols, Words
  <2> QED BY <2>1, FewIn, Zenon
<1> QED BY <1>2, <1>8, <1>9, PlainTexts

-----------------------------------------------------------------------------
\* The texts of an item are of these symbols.
LEMMA MoreSymbols ==
  ASSUME NEW text \in Seq(STRING)
  PROVE  text \in Strings
<1>1. Len(text) \in Nat /\ text \in [1 .. Len(text) -> STRING] BY LenProperties
<1>2. text \in [1 .. Len(text) -> Symbols] BY <1>1 DEF Symbols
<1> QED BY <1>1, <1>2, IsASeq DEF Strings

\* So are all the texts of an item.
LEMMA ItemTexts ==
  ASSUME NEW item \in Items
  PROVE  item.name \subseteq Strings /\ item.path \subseteq Strings /\ item.paths \in Seq(Strings)
<1>1. /\ item.name \subseteq Seq(STRING) /\ item.path \subseteq Seq(STRING)
      /\ item.paths \in Seq(Seq(STRING))
  BY ToolActivityAssumption
<1>2. Len(item.paths) \in Nat /\ item.paths \in [1 .. Len(item.paths) -> Seq(STRING)]
  BY <1>1, LenProperties
<1>3. item.paths \in [1 .. Len(item.paths) -> Strings] BY <1>2, MoreSymbols
<1>4. item.paths \in Seq(Strings) BY <1>2, <1>3, IsASeq
<1> QED BY <1>1, <1>4, MoreSymbols

\* The detail of an item is safe.
LEMMA DetailIsSafe ==
  ASSUME NEW item \in Items
  PROVE  Detail(item) \subseteq SafeTexts
<1>1. item.name \subseteq Strings /\ item.path \subseteq Strings /\ item.paths \in Seq(Strings)
  BY ItemTexts
<1>2. ASSUME NEW texts, texts \subseteq Strings
      PROVE  /\ SafeOf(texts) \subseteq SafeTexts /\ HumanizedOf(texts) \subseteq SafeTexts
             /\ Labels(texts) \subseteq SafeTexts /\ NotBlank(texts) \subseteq Strings
  <2>1. SafeOf(texts) \subseteq SafeTexts BY <1>2, SafeIsSafe DEF SafeOf
  <2>2. HumanizedOf(texts) \subseteq SafeTexts BY <1>2, SafeIsSafe DEF HumanizedOf
  <2>3. Labels(texts) \subseteq SafeTexts BY <1>2, LabelIsPlain, PlainTextsAreSafe DEF Labels
  <2>4. NotBlank(texts) \subseteq Strings BY <1>2 DEF NotBlank
  <2> QED BY <2>1, <2>2, <2>3, <2>4
<1>3. ASSUME NEW word \in {"in", "dot"}
      PROVE  /\ Plain(<<" ", word, " ">>) /\ Len(<<" ", word, " ">>) # 0
             /\ <<" ", word, " ">>[Len(<<" ", word, " ">>)] \in Separators
  <2> DEFINE between == <<" ", word, " ">>
  <2>1. word \in NoSlash /\ " " \in NoSlash BY DEF NoSlash, Symbols, Words
  <2>2. between \in Seq(NoSlash) BY <2>1, FewIn, Zenon
  <2>3. Len(between) = 3 OBVIOUS
  <2>4. between[3] = " " OBVIOUS
  <2> HIDE DEF between
  <2>5. Plain(between) BY <2>2, PlainTexts
  <2>6. Len(between) # 0 BY <2>3
  <2>7. between[Len(between)] = " " BY <2>3, <2>4, Zenon
  <2>8. between[Len(between)] \in Separators BY <2>7, Zenon DEF Separators
  <2> QED BY <2>5, <2>6, <2>8 DEF between
<1>4. CommandDetail(item) \subseteq SafeTexts
  <2>1. SafeOf(item.name) \subseteq SafeTexts /\ Labels(item.path) \subseteq SafeTexts
        /\ Labels(NotBlank(item.path)) \subseteq SafeTexts
    BY <1>1, <1>2
  <2>2. Joined(SafeOf(item.name), <<" ", "in", " ">>, Labels(NotBlank(item.path))) \subseteq SafeTexts
    <3> DEFINE between == <<" ", "in", " ">>
    <3>1. Plain(between) /\ Len(between) # 0 /\ between[Len(between)] \in Separators BY <1>3
    <3> HIDE DEF between
    <3>2. Joined(SafeOf(item.name), between, Labels(NotBlank(item.path))) \subseteq SafeTexts
      BY <2>1, <3>1, JoinedIsSafe
    <3> QED BY <3>2 DEF between
  <2> QED BY <2>1, <2>2 DEF CommandDetail
<1>5. Joined(SafeOf(item.path), <<" ", "dot", " ">>, HumanizedOf(NotBlank(item.name))) \subseteq SafeTexts
  <2> DEFINE between == <<" ", "dot", " ">>
  <2>1. Plain(between) /\ Len(between) # 0 /\ between[Len(between)] \in Separators BY <1>3
  <2>2. SafeOf(item.path) \subseteq SafeTexts /\ HumanizedOf(NotBlank(item.name)) \subseteq SafeTexts
    BY <1>1, <1>2
  <2> HIDE DEF between
  <2>3. Joined(SafeOf(item.path), between, HumanizedOf(NotBlank(item.name))) \subseteq SafeTexts
    BY <2>1, <2>2, JoinedIsSafe
  <2> QED BY <2>3 DEF between
<1>6. FilesDetail(item.paths) \subseteq SafeTexts BY <1>1, FilesDetailIsPlain, PlainTextsAreSafe
<1>7. UNION {TaskLabel(path) : path \in item.path} \subseteq SafeTexts
  BY <1>1, TaskLabelIsPlain, PlainTextsAreSafe
<1>8. /\ SafeOf(item.name) \subseteq SafeTexts /\ Labels(item.path) \subseteq SafeTexts
      /\ HumanizedOf(item.name) \subseteq SafeTexts
  BY <1>1, <1>2
<1> QED BY <1>4, <1>5, <1>6, <1>7, <1>8 DEF Detail

\* What is told of an item is safe.
LEMMA ToldIsSafe ==
  ASSUME NEW item \in Items, NEW own, NEW lifecycle
  PROVE  NoPlaceIn(Activity(item, own, lifecycle).text)
<1> DEFINE head == <<"title", ":", " ">>
           detail == Detail(item)
<1>1. detail \subseteq SafeTexts BY DetailIsSafe
<1>2. Activity(item, own, lifecycle).text = Text(detail) BY DEF Activity
<1>3. "title" \in NoSlash /\ ":" \in NoSlash /\ " " \in NoSlash BY DEF NoSlash, Symbols, Words
<1>4. Plain(<<"title">>)
  <2>1. <<"title">> \in Seq(NoSlash) BY <1>3, FewIn, Zenon
  <2> QED BY <2>1, PlainTexts
<1>5. Plain(head) /\ Len(head) # 0 /\ head[Len(head)] \in Separators
  <2>1. head \in Seq(NoSlash) BY <1>3, FewIn, Zenon
  <2>2. Len(head) = 3 OBVIOUS
  <2>3. head[3] = " " OBVIOUS
  <2>4. Plain(head) BY <2>1, PlainTexts
  <2> HIDE DEF head
  <2>5. Len(head) # 0 BY <2>2
  <2>6. head[Len(head)] = " " BY <2>2, <2>3, Zenon
  <2>7. head[Len(head)] \in Separators BY <2>6, Zenon DEF Separators
  <2> QED BY <2>4, <2>5, <2>7
<1>6. CASE detail = {}
  <2>1. Text(detail) = <<"title">> BY <1>6 DEF Text
  <2> QED BY <1>2, <1>4, <2>1, PlainIsSafe
<1>7. CASE detail # {}
  <2> DEFINE text == CHOOSE t \in detail : TRUE
  <2>1. Text(detail) = head \o text BY <1>7 DEF Text
  <2>2. text \in detail BY <1>7
  <2> HIDE DEF text, head, detail
  <2>3. text \in Strings /\ NoPlaceIn(text) BY <1>1, <2>2 DEF SafeTexts
  <2>4. NoPlaceIn(head \o text) BY <1>5, <2>3, PlainIsSafe, ConcatenationIsSafe
  <2> QED BY <1>2, <2>1, <2>4
<1> QED BY <1>6, <1>7

ToolsInv == "item" \in DOMAIN tool /\ tool.item \in Items /\ NoPlaceIn(heard.text)

\* Every step of the tool tells something safe or nothing.
LEMMA ToolsStep == ToolsInv /\ [ToolsNext]_toolVars => ToolsInv'
<1> SUFFICES ASSUME ToolsInv, [ToolsNext]_toolVars PROVE ToolsInv' OBVIOUS
<1> USE DEF ToolsInv
<1>1. \A own, lifecycle : NoPlaceIn(Activity(tool.item, own, lifecycle).text) BY ToldIsSafe
<1>2. DOMAIN tool' = DOMAIN tool /\ tool'.item = tool.item
  BY DEF ToolsNext, ToolBegins, ToolEnds, TurnEnds, ToolListed, toolVars
<1>3. heard' = heard \/ \E own, lifecycle : heard' = Activity(tool.item, own, lifecycle)
  BY Zenon DEF ToolsNext, ToolBegins, ToolEnds, TurnEnds, ToolListed, toolVars, Tells
<1> QED BY <1>1, <1>2, <1>3

\* A tool keeps its item, and what was told of it last is safe.
LEMMA ToolsSteps == [Next]_vars => [ToolsNext]_toolVars
<1> SUFFICES ASSUME [Next]_vars PROVE ToolsNext \/ UNCHANGED toolVars OBVIOUS
<1>1. CASE UNCHANGED vars BY <1>1 DEF vars
<1> QED BY <1>1 DEF Next

\* In what a phone is told of a tool, no word, and nothing right after the first ":" of a
\* word other than a web address, begins with "/", whatever the item's texts are and
\* however they were humanised, cut, labelled and joined (tool_activity_from_item,
\* bounded_safe_detail, contains_absolute_path, safe_path_label).
THEOREM DetailsNameNoPlace == Spec => []DetailsAreSafe
<1>1. Init => ToolsInv
  <2> SUFFICES ASSUME ToolsInit PROVE ToolsInv BY DEF Init
  <2>1. "item" \in DOMAIN tool /\ tool.item \in Items BY DEF ToolsInit
  <2>2. heard.text = << >> BY DEF ToolsInit, Nothing
  <2>3. NoPlaceIn(<< >>) BY DEF NoPlaceIn
  <2> QED BY <2>1, <2>2, <2>3 DEF ToolsInv
<1>2. ToolsInv /\ [Next]_vars => ToolsInv' BY ToolsStep, ToolsSteps
<1>3. ToolsInv => DetailsAreSafe BY DEF ToolsInv, DetailsAreSafe
<1> QED BY <1>1, <1>2, <1>3, PTL DEF Spec
=============================================================================
