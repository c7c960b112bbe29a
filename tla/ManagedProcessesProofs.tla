------------------------ MODULE ManagedProcessesProofs ------------------------
(***************************************************************************)
(* Proofs about the process managers of the desktop shell, for any number   *)
(* of retries, launches and calls: what counts as up was verified, at most   *)
(* one Codex runs, and both tunnels keep TunnelPromise.                      *)
(***************************************************************************)
EXTENDS ManagedProcesses, TLAPS

(***************************************************************************)
(* The named tunnel.                                                       *)
(***************************************************************************)
Frame == {"probe", "settle", "retry"}

\* Who owns the process at each stage of a call, and what is known there.
NamedStage ==
  /\ named.child = "none" <=> namedProc = "none"
  /\ named.call \in {"local", "launch"} => named.child = "none"
  /\ named.call \in Frame => named.child = "frame"
  /\ named.call \in Frame \cup {"launch"} => named.local \in Instances
  /\ named.call = "settle" => named.seen = named.local
  /\ named.call \in {"idle", "refresh"} => (named.child = "held" <=> IsUp)
  /\ named.call \notin {"idle", "refresh"} => ~IsUp /\ named.status # "Failed"
  /\ named.call = "refresh" => IsUp
  /\ named.call \in {"idle", "refresh"} => named.child # "frame"

\* An up tunnel remembers whom its start verified, and whom it last heard.
NamedVerified ==
  IsUp => /\ named.ident \in Instances
          /\ named.status = "Ready" => named.seen = named.ident

NamedInv == NamedTypeOK /\ NamedStage /\ NamedVerified

\* Giving up the process is always allowed.
LEMMA WithoutIsSafe ==
  ASSUME NamedInv, NEW kind \in Kinds, Without(kind)
  PROVE  NamedInv'
<1>1. /\ named'.status = "Failed" /\ named'.attempt = 0 /\ named'.kind = kind
      /\ named'.child = "none" /\ named'.ident = Unknown /\ named'.call = "idle"
      /\ named'.local = Unknown /\ named'.seen = Unknown
  BY DEF NamedInv, NamedTypeOK, NamedType, Without
<1>2. NamedTypeOK'
  BY DEF NamedInv, NamedTypeOK, NamedType, Without, NamedStatuses, Calls
<1>3. QED
  BY <1>1, <1>2 DEF NamedInv, NamedStage, NamedVerified, Frame, IsUp, Without

\* The failures that are given up with are kinds.
LEMMA FailureKinds ==
  /\ {"TokenMissing", "TokenRejected", "LocalHealthUnavailable", "WrongBridgeInstance",
      "ChildExited", "InvalidConfiguration"} \subseteq Kinds
  /\ \A f : FailureOf(f) \in Kinds
  BY DEF Kinds, FailureOf

\* The answer of a public probe of a start.
LEMMA PublicAnswerIsSafe ==
  ASSUME NamedInv, NEW answer, PublicAnswers(answer)
  PROVE  NamedInv'
<1>1. CASE /\ Same(answer)
           /\ named' = [named EXCEPT !.call = "settle", !.seen = answer]
           /\ UNCHANGED <<namedProc, rejected>>
  <2>1. named.call = "probe" /\ named.local \in Instances /\ answer = named.local
    BY <1>1 DEF NamedInv, NamedStage, Frame, PublicAnswers, Same
  <2>2. NamedTypeOK'
    BY <1>1, <2>1 DEF NamedInv, NamedTypeOK, NamedType, Calls
  <2>3. QED
    BY <1>1, <2>1, <2>2 DEF NamedInv, NamedTypeOK, NamedType, NamedStage, NamedVerified, Frame, IsUp
<1>2. CASE \/ Without("WrongBridgeInstance")
           \/ Without(FailureOf(answer))
  BY <1>2, WithoutIsSafe, FailureKinds
<1>3. CASE /\ answer = Transient
           /\ named' = [named EXCEPT !.status = "Retrying", !.attempt = @ + 1,
                                     !.call = "retry", !.seen = answer]
           /\ UNCHANGED <<namedProc, rejected>>
  <2>1. named.call = "probe"
    BY DEF PublicAnswers
  <2>2. named.attempt + 1 \in Nat
    BY DEF NamedInv, NamedTypeOK, NamedType
  <2>3. NamedTypeOK'
    BY <1>3, <2>2 DEF NamedInv, NamedTypeOK, NamedType, Calls, NamedStatuses, ProbeFailures
  <2>4. QED
    BY <1>3, <2>1, <2>3 DEF NamedInv, NamedTypeOK, NamedType, NamedStage, NamedVerified, Frame, IsUp
<1>4. QED
  BY <1>1, <1>2, <1>3 DEF PublicAnswers

\* The answer of a refresh.
LEMMA RefreshAnswerIsSafe ==
  ASSUME NamedInv, NEW answer, RefreshAnswers(answer)
  PROVE  NamedInv'
<1>t. /\ named.call = "refresh" /\ IsUp /\ named.child = "held" /\ named.ident \in Instances
  BY DEF NamedInv, NamedStage, NamedVerified, RefreshAnswers
<1>1. CASE /\ answer = named.ident
           /\ named' = [named EXCEPT !.status = "Ready", !.kind = "none", !.call = "idle",
                                     !.seen = answer]
           /\ UNCHANGED <<namedProc, rejected>>
  <2>1. NamedTypeOK'
    BY <1>1, <1>t DEF NamedInv, NamedTypeOK, NamedType, Calls, NamedStatuses, Kinds
  <2>2. QED
    BY <1>1, <1>t, <2>1 DEF NamedInv, NamedTypeOK, NamedType, NamedStage, NamedVerified, Frame, IsUp
<1>2. CASE \/ Without("WrongBridgeInstance")
           \/ Without(FailureOf(answer))
  BY <1>2, WithoutIsSafe, FailureKinds
<1>3. CASE /\ answer = Transient
           /\ named' = [named EXCEPT !.status = "Degraded", !.kind = "none", !.call = "idle",
                                     !.seen = answer]
           /\ UNCHANGED <<namedProc, rejected>>
  <2>1. NamedTypeOK'
    BY <1>3 DEF NamedInv, NamedTypeOK, NamedType, Calls, NamedStatuses, Kinds, ProbeFailures
  <2>2. QED
    BY <1>3, <1>t, <2>1 DEF NamedInv, NamedTypeOK, NamedType, NamedStage, NamedVerified, Frame, IsUp
<1>4. QED
  BY <1>1, <1>2, <1>3 DEF RefreshAnswers

\* The sidecar is none or one of the launches, so what answers locally is an instance.
LEMMA LocalIsInstance == ASSUME BridgeTypeOK PROVE Local \subseteq Instances
<1>1. Instances = (1..MaxLaunches) \cup {Stranger} /\ MaxLaunches \in Nat
  BY StrangerAssumption, BridgeProcessAssumption
<1>2. sidecar # 0 => sidecar \in Instances
  BY <1>1 DEF BridgeTypeOK
<1>3. QED
  BY <1>1, <1>2 DEF Local

LEMMA NamedInitial == NamedInit => NamedInv
<1> SUFFICES ASSUME NamedInit PROVE NamedInv
  OBVIOUS
<1>1. NamedTypeOK
  BY DEF NamedInit, NamedTypeOK, NamedType, NamedStatuses, Kinds, Calls
<1>2. NamedStage /\ NamedVerified
  BY DEF NamedInit, NamedStage, NamedVerified, Frame, IsUp
<1>3. QED
  BY <1>1, <1>2 DEF NamedInv

LEMMA NamedStep ==
  ASSUME NamedInv, BridgeTypeOK, NamedNext PROVE NamedInv'
<1> USE DEF NamedInv
<1>1. CASE LocalFails \/ LaunchFails \/ CheckFails \/ StartWithoutToken \/ NoticeExit
  BY <1>1, WithoutIsSafe, FailureKinds
     DEF LocalFails, LaunchFails, CheckFails, StartWithoutToken, NoticeExit
<1>2. CASE StartNamed
  <2>1. NamedTypeOK'
    BY <1>2 DEF StartNamed, NamedTypeOK, NamedType, Calls, NamedStatuses, Kinds
  <2>2. QED
    BY <1>2, <2>1 DEF StartNamed, NamedTypeOK, NamedType, NamedStage, NamedVerified, Frame, IsUp
<1>3. ASSUME NEW i \in Local, LocalAnswers(i) PROVE NamedInv'
  <2>1. i \in Instances
    BY LocalIsInstance
  <2>2. NamedTypeOK'
    BY <1>3, <2>1 DEF LocalAnswers, NamedTypeOK, NamedType, Calls
  <2>3. QED
    BY <1>3, <2>1, <2>2 DEF LocalAnswers, NamedTypeOK, NamedType, NamedStage, NamedVerified, Frame, IsUp
<1>4. CASE Launch
  <2>1. NamedTypeOK'
    BY <1>4 DEF Launch, NamedTypeOK, NamedType, Calls, NamedStatuses
  <2>2. QED
    BY <1>4, <2>1 DEF Launch, NamedTypeOK, NamedType, NamedStage, NamedVerified, Frame, IsUp
<1>5. CASE RetryDue
  <2>1. NamedTypeOK'
    BY <1>5 DEF RetryDue, NamedTypeOK, NamedType, Calls, NamedStatuses
  <2>2. QED
    BY <1>5, <2>1 DEF RetryDue, NamedTypeOK, NamedType, NamedStage, NamedVerified, Frame, IsUp
<1>6. CASE Settled
  <2>1. NamedTypeOK'
    BY <1>6 DEF Settled, NamedTypeOK, NamedType, Calls, NamedStatuses
  <2>2. QED
    BY <1>6, <2>1 DEF Settled, CheckOK, NamedTypeOK, NamedType, NamedStage, NamedVerified, Frame, IsUp
<1>7. ASSUME NEW a, PublicAnswers(a) \/ RefreshAnswers(a) PROVE NamedInv'
  BY <1>7, PublicAnswerIsSafe, RefreshAnswerIsSafe
<1>8. CASE RefreshNamed
  <2>1. CASE Without("TokenRejected")
    BY <2>1, WithoutIsSafe, FailureKinds
  <2>2. CASE /\ named' = [named EXCEPT !.call = "refresh"] /\ named.call = "idle" /\ IsUp
             /\ UNCHANGED <<namedProc, rejected>>
    <3>1. NamedTypeOK'
      BY <2>2 DEF NamedTypeOK, NamedType, Calls
    <3>2. QED
      BY <2>2, <3>1 DEF NamedTypeOK, NamedType, NamedStage, NamedVerified, Frame, IsUp
  <2>3. QED
    BY <1>8, <2>1, <2>2 DEF RefreshNamed
<1>9. CASE StopNamed
  <2>1. NamedTypeOK'
    BY <1>9 DEF StopNamed, NamedTypeOK, NamedType, NamedStatuses, Kinds
  <2>2. QED
    BY <1>9, <2>1 DEF StopNamed, NamedTypeOK, NamedType, NamedStage, NamedVerified, Frame, IsUp
<1>10. CASE NamedExits \/ TokenRefused
  BY <1>10 DEF NamedExits, TokenRefused, NamedTypeOK, NamedStage, NamedVerified, Frame, IsUp
<1>11. QED
  BY <1>1, <1>2, <1>3, <1>4, <1>5, <1>6, <1>7, <1>8, <1>9, <1>10 DEF NamedNext, NamedTimer

(***************************************************************************)
(* The quick tunnel.                                                       *)
(***************************************************************************)
\* Who owns the process at each stage of a call; a session owns one.
QuickStage ==
  /\ quick.child = "none" <=> quickProc = "none"
  /\ quick.call = "launch" => quick.child = "none"
  /\ quick.call \in {"url", "health"} => quick.child = "frame"
  /\ quick.call \in {"idle", "refresh"} => (quick.child = "held" <=> quick.session)
  /\ quick.call \in {"idle", "refresh"} => quick.child # "frame"
  /\ quick.call \notin {"idle", "refresh"} => ~quick.session
  /\ quick.call = "refresh" => quick.session
  /\ quick.session => quick.status \in {"Ready", "Reconnecting"}
  /\ quick.call \notin {"idle", "refresh"} => quick.status = "Starting"

QuickInv == QuickTypeOK /\ QuickStage

LEMMA QuickInitial == QuickInit => QuickInv
  BY QuickTunnelAssumption DEF QuickInit, QuickInv, QuickTypeOK, QuickType, QuickStage

LEMMA MoreFailures == \A n \in 0..HealthFailures : More(n) \in 0..HealthFailures
  BY QuickTunnelAssumption DEF More

LEMMA QuickStep ==
  ASSUME QuickInv, QuickNext PROVE QuickInv'
<1> USE DEF QuickInv, QuickTypeOK, QuickStage
<1>z. 0 \in 0..HealthFailures
  BY QuickTunnelAssumption
<1>1. ASSUME NEW status \in {"Failed", "Stopped"}, QuickWithout(status) PROVE QuickInv'
  BY <1>1, <1>z DEF QuickWithout, QuickType
<1>2. CASE Restart
  BY <1>2, <1>z DEF Restart, QuickType
<1>3. CASE StartFails \/ QuickNotices \/ StopQuick
  BY <1>1, <1>3 DEF StartFails, QuickNotices, StopQuick
<1>4. CASE StartQuick \/ RotateQuick
  BY <1>2, <1>4 DEF StartQuick, RotateQuick
<1>5. CASE LaunchQuick
  <2>1. CASE /\ quick' = [quick EXCEPT !.child = "frame", !.call = "url"]
             /\ quickProc' = "running" /\ quick.call = "launch"
    BY <2>1 DEF QuickType
  <2>2. QED
    BY <1>1, <1>5, <2>1 DEF LaunchQuick
<1>6. CASE UrlPrinted
  BY <1>6 DEF UrlPrinted, QuickType
<1>7. CASE HealthAnswers
  BY <1>7 DEF HealthAnswers, QuickType
<1>8. CASE RefreshQuick
  BY <1>8 DEF RefreshQuick, QuickType
<1>9. CASE QuickAnswers
  BY <1>9, <1>z DEF QuickAnswers, QuickType
<1>10. CASE QuickLost
  <2>1. More(quick.failures) \in 0..HealthFailures
    BY MoreFailures DEF QuickType
  <2>2. QED
    BY <1>10, <2>1 DEF QuickLost, QuickType
<1>11. CASE QuickExits
  BY <1>11 DEF QuickExits
<1>12. QED
  BY <1>3, <1>4, <1>5, <1>6, <1>7, <1>8, <1>9, <1>10, <1>11 DEF QuickNext, QuickTimer

(***************************************************************************)
(* The Bridge.                                                             *)
(***************************************************************************)
LEMMA BridgeInitial == BridgeInit => BridgeTypeOK
<1>1. 0 \in 0..MaxLaunches
  BY BridgeProcessAssumption
<1>2. QED
  BY <1>1 DEF BridgeInit, BridgeTypeOK, BridgeType, Policies

LEMMA BridgeStep ==
  ASSUME BridgeTypeOK, BridgeNext PROVE BridgeTypeOK'
<1> USE DEF BridgeTypeOK, BridgeType
<1>z. 0 \in 0..MaxLaunches
  BY BridgeProcessAssumption
<1>1. CASE StartBridge
  <2>1. bridge.plan + 1 \in 0..MaxLaunches
    BY <1>1, BridgeProcessAssumption DEF StartBridge
  <2>2. Port \in {"none", "preferred", "other"}
    BY DEF Port
  <2>3. QED
    BY <1>1, <1>z, <2>1, <2>2 DEF StartBridge
<1>2. CASE StartBridgeFails \/ StopBridge \/ BridgeUnhealthy
  BY <1>2, <1>z DEF StartBridgeFails, StopBridge, BridgeUnhealthy
<1>3. CASE BridgeHealthy
  BY <1>3 DEF BridgeHealthy
<1>4. CASE Rebuild
  BY <1>4 DEF Rebuild, Policies
<1>5. CASE SidecarExits \/ PortMoves
  BY <1>5, <1>z DEF SidecarExits, PortMoves
<1>6. QED
  BY <1>1, <1>2, <1>3, <1>4, <1>5 DEF BridgeNext, BridgeTimer

(***************************************************************************)
(* Codex.                                                                  *)
(***************************************************************************)
\* What the instances and the calls may be.
CodexTypeOK ==
  /\ codex \in [CodexIds -> {"starting", "open", "plain", "gone"}]
  /\ made \in 0..MaxCodex
  /\ ensure \in [CodexCalls -> [pc : {"idle", "check", "attach", "launch", "wait"},
                               outcome : Outcomes \cup {"none"}, saw : SUBSET CodexIds]]
  /\ raced \subseteq CodexIds

\* A call that is about to launch saw nothing running, and the instances still to
\* come are gone.
CodexInv ==
  /\ CodexTypeOK
  /\ \A i \in CodexIds : i > made => codex[i] = "gone"
  /\ \A c \in CodexCalls : ensure[c].pc = "launch" => ensure[c].saw = {}
  /\ OneCodex

LEMMA CodexInitial == CodexInit => CodexInv
<1>1. 0 \in 0..MaxCodex
  BY CodexLaunchAssumption
<1>2. QED
  BY <1>1 DEF CodexInit, CodexInv, CodexTypeOK, NotCalled, Outcomes, OneCodex, CodexUp

\* What a call does to itself alone.
LEMMA CodexCallStep ==
  ASSUME CodexInv, NEW c \in CodexCalls, UNCHANGED <<codex, made, raced>>,
         NEW e \in [pc : {"idle", "check", "attach", "launch", "wait"},
                    outcome : Outcomes \cup {"none"}, saw : SUBSET CodexIds],
         e.pc = "launch" => e.saw = {}, ensure' = [ensure EXCEPT ![c] = e]
  PROVE  CodexInv'
  BY DEF CodexInv, CodexTypeOK, OneCodex, CodexUp

\* A new instance where nothing else runs, or one that counts as raced.
LEMMA CodexNewStep ==
  ASSUME CodexInv, NEW state \in {"starting", "plain"}, made < MaxCodex, made' = made + 1,
         codex' = [codex EXCEPT ![made + 1] = state],
         \/ CodexUp = {} /\ raced' = raced
         \/ raced' = raced \cup {made + 1}
  PROVE  /\ codex' \in [CodexIds -> {"starting", "open", "plain", "gone"}]
         /\ made' \in 0..MaxCodex /\ raced' \subseteq CodexIds
         /\ \A i \in CodexIds : i > made' => codex'[i] = "gone"
         /\ OneCodex'
<1>1. made \in 0..MaxCodex /\ made + 1 \in CodexIds /\ MaxCodex \in Nat
  BY CodexLaunchAssumption DEF CodexInv, CodexTypeOK, CodexIds
<1>2. made' \in 0..MaxCodex /\ raced' \subseteq CodexIds
  BY <1>1 DEF CodexInv, CodexTypeOK
<1>3. codex' \in [CodexIds -> {"starting", "open", "plain", "gone"}]
  BY <1>1 DEF CodexInv, CodexTypeOK
<1>4. ASSUME NEW i \in CodexIds, i > made' PROVE codex'[i] = "gone"
  <2>1. i > made /\ i # made + 1
    BY <1>1, <1>4 DEF CodexIds
  <2>2. QED
    BY <2>1, <1>1 DEF CodexInv, CodexTypeOK
<1>5. CodexUp' = CodexUp \cup {made + 1}
  BY <1>1 DEF CodexUp, CodexInv, CodexTypeOK
<1>6. OneCodex'
  <2>1. \A i, j \in CodexUp \ raced : i = j
    BY DEF CodexInv, OneCodex
  <2>2. \A i, j \in CodexUp' \ raced' : i = j
    BY <1>5, <2>1
  <2>3. QED
    BY <2>2 DEF OneCodex
<1>7. QED
  BY <1>2, <1>3, <1>4, <1>6

LEMMA CodexStep ==
  ASSUME CodexInv, CodexNext PROVE CodexInv'
<1>t. \A c \in CodexCalls :
        ensure[c] \in [pc : {"idle", "check", "attach", "launch", "wait"},
                      outcome : Outcomes \cup {"none"}, saw : SUBSET CodexIds]
  BY DEF CodexInv, CodexTypeOK
<1>a. /\ NotCalled.pc = "idle"
      /\ \A o \in Outcomes : /\ [NotCalled EXCEPT !.outcome = o].pc = "idle"
                            /\ [NotCalled EXCEPT !.outcome = o]
                                 \in [pc : {"idle", "check", "attach", "launch", "wait"},
                                     outcome : Outcomes \cup {"none"}, saw : SUBSET CodexIds]
  BY DEF NotCalled
<1>b. ASSUME NEW c \in CodexCalls, NEW o \in Outcomes, Returns(c, o),
             UNCHANGED <<codex, made, raced>>
      PROVE  CodexInv'
  BY <1>a, <1>b, CodexCallStep DEF Returns
<1>1. ASSUME NEW c \in CodexCalls, Ensure(c) PROVE CodexInv'
  <2>1. CASE ensure' = [ensure EXCEPT ![c] = [NotCalled EXCEPT !.pc = "check"]]
    <3>1. UNCHANGED <<codex, made, raced>>
      BY <1>1 DEF Ensure, World
    <3>2. QED
      BY <2>1, <3>1, CodexCallStep DEF NotCalled
  <2>2. CASE Returns(c, "InstallInstructions")
    BY <1>1, <2>2, <1>b DEF Ensure, World, Outcomes
  <2>3. QED
    BY <1>1, <2>1, <2>2 DEF Ensure
<1>2. ASSUME NEW c \in CodexCalls, Check(c) PROVE CodexInv'
  <2>1. UNCHANGED <<codex, made, raced>>
    BY <1>2 DEF Check, World
  <2>2. CASE Returns(c, "ManualInstructions")
    BY <2>1, <2>2, <1>b DEF Outcomes
  <2>3. CASE ensure' = [ensure EXCEPT ![c] =
                  [@ EXCEPT !.pc = IF IsRunning THEN "attach" ELSE "launch", !.saw = CodexUp]]
    <3>1. CodexUp \subseteq CodexIds /\ (~IsRunning => CodexUp = {})
      BY DEF CodexUp, IsRunning
    <3> DEFINE e == [ensure[c] EXCEPT !.pc = IF IsRunning THEN "attach" ELSE "launch", !.saw = CodexUp]
    <3>2. /\ e \in [pc : {"idle", "check", "attach", "launch", "wait"},
                    outcome : Outcomes \cup {"none"}, saw : SUBSET CodexIds]
          /\ e.pc = "launch" => e.saw = {}
      BY <1>t, <3>1
    <3>3. ensure' = [ensure EXCEPT ![c] = e]
      BY <2>3
    <3>4. QED
      BY <2>1, <3>2, <3>3, CodexCallStep
  <2>4. QED
    BY <1>2, <2>2, <2>3 DEF Check
<1>3. ASSUME NEW c \in CodexCalls, Attach(c) PROVE CodexInv'
  <2>1. PICK o \in {"Attached", "NeedsUserRestartConfirmation"} : Returns(c, o)
    BY <1>3 DEF Attach
  <2>2. QED
    BY <1>3, <2>1, <1>b DEF Attach, World, Outcomes
<1>4. ASSUME NEW c \in CodexCalls, LaunchCodex(c) PROVE CodexInv'
  <2>1. CASE /\ made < MaxCodex /\ made' = made + 1 /\ ensure[c].pc = "launch"
             /\ codex' = [codex EXCEPT ![made + 1] = "starting"]
             /\ ensure' = [ensure EXCEPT ![c].pc = "wait"]
             /\ raced' = IF CodexUp # {} /\ CodexUp \cap ensure[c].saw = {}
                           THEN raced \cup {made + 1} ELSE raced
    <3>1. ensure[c].saw = {}
      BY <2>1 DEF CodexInv
    <3>2. \/ CodexUp = {} /\ raced' = raced
          \/ raced' = raced \cup {made + 1}
      BY <2>1, <3>1
    <3>3. /\ ensure' \in [CodexCalls -> [pc : {"idle", "check", "attach", "launch", "wait"},
                                 outcome : Outcomes \cup {"none"}, saw : SUBSET CodexIds]]
          /\ \A x \in CodexCalls : ensure'[x].pc = "launch" => ensure'[x].saw = {}
      BY <2>1 DEF CodexInv, CodexTypeOK
    <3>4. QED
      BY <2>1, <3>2, <3>3, CodexNewStep DEF CodexInv, CodexTypeOK
  <2>2. CASE Returns(c, "ManualInstructions") /\ UNCHANGED <<codex, made, raced>>
    BY <2>2, <1>b DEF Outcomes
  <2>3. QED
    BY <1>4, <2>1, <2>2 DEF LaunchCodex
<1>5. ASSUME NEW c \in CodexCalls, Waited(c) \/ WaitExpires(c) PROVE CodexInv'
  <2>1. PICK o \in {"Launched", "ManualInstructions"} : Returns(c, o)
    BY <1>5 DEF Waited, WaitExpires
  <2>2. QED
    BY <1>5, <2>1, <1>b DEF Waited, WaitExpires, World, Outcomes
<1>6. CASE Settles \/ CodexQuits
  <2>1. PICK i \in CodexUp, state \in {"open", "plain", "gone"} : codex' = [codex EXCEPT ![i] = state]
    BY <1>6 DEF Settles, CodexQuits
  <2>2. UNCHANGED <<made, ensure, raced>>
    BY <1>6 DEF Settles, CodexQuits
  <2>3. CodexUp' \subseteq CodexUp /\ codex' \in [CodexIds -> {"starting", "open", "plain", "gone"}]
    BY <2>1 DEF CodexUp, CodexInv, CodexTypeOK
  <2>4. \A j \in CodexIds : j > made => codex'[j] = "gone"
    BY <2>1 DEF CodexUp, CodexInv, CodexTypeOK
  <2>5. QED
    BY <2>2, <2>3, <2>4 DEF CodexInv, CodexTypeOK, OneCodex
<1>7. CASE UserStarts
  <2>1. CodexUp = {} /\ raced' = raced /\ UNCHANGED ensure
    BY <1>7 DEF UserStarts, IsRunning
  <2>2. QED
    BY <1>7, <2>1, CodexNewStep DEF UserStarts, CodexInv, CodexTypeOK
<1>8. CASE PortChanges
  BY <1>8 DEF PortChanges, CodexInv, CodexTypeOK, OneCodex, CodexUp
<1>9. QED
  BY <1>1, <1>2, <1>3, <1>4, <1>5, <1>6, <1>7, <1>8 DEF CodexNext, EnsureStep

(***************************************************************************)
(* What the shell keeps on the Mac.                                        *)
(***************************************************************************)
\* One key everywhere: in the Keychain, in the start that has read or saved it, in the files
\* handed over and in the sidecars; before a first key is saved nothing has any.
KeyInv ==
  /\ key \in Nat /\ starts \in Nat
  /\ boot \in [pc : {"idle", "save", "file", "spawn", "health"}, key : Nat]
  /\ boot.pc = "save" => key = 0 /\ boot.key # 0
  /\ boot.pc \in {"file", "spawn", "health"} => boot.key = key /\ key # 0
  /\ \A f \in keyFiles : f.key = key /\ key # 0
  /\ SameKey

\* The token is there while a profile is, and while one is about to be written; it is deleted
\* once no profile is left.
ProfileInv ==
  /\ setup \in [pc : {"idle", "write", "rename", "forget"}, profile : Profiles \cup {"none"}]
  /\ stored \in BOOLEAN
  /\ setup.pc \in {"write", "rename"} => stored
  /\ setup.pc = "forget" => prefs = "none"
  /\ ProfileHasToken

SetupInv == KeyInv /\ ProfileInv

LEMMA SetupInitial == SetupInit => SetupInv
<1> SUFFICES ASSUME SetupInit PROVE SetupInv
  OBVIOUS
<1>1. KeyInv
  BY DEF SetupInit, KeyInv, SameKey, NoBoot
<1>2. stored \in BOOLEAN
  BY Zenon DEF SetupInit
<1>3. ProfileInv
  BY <1>2 DEF SetupInit, ProfileInv, ProfileHasToken, NoCommand
<1>4. QED
  BY <1>1, <1>3 DEF SetupInv

\* Each command and each step of a start, the sidecars' own and a crash keep both.
LEMMA SetupStep == SetupInv /\ SetupNext => SetupInv'
<1> SUFFICES ASSUME SetupInv, SetupNext PROVE SetupInv'
  OBVIOUS
<1> USE DEF SetupInv, KeyInv, ProfileInv, SameKey, ProfileHasToken, NoBoot, NoCommand, Drops
<1>p. ASSUME UNCHANGED <<stored, prefs, setup>> PROVE ProfileInv'
  BY <1>p
<1>k. ASSUME UNCHANGED <<key, bootVars>> PROVE KeyInv'
  BY <1>k DEF bootVars
<1>1. CASE SaveToken \/ WriteProfile \/ RenameProfile \/ DeleteProfile \/ DeleteToken
  <2>1. UNCHANGED <<key, bootVars>>
    BY <1>1 DEF SaveToken, WriteProfile, RenameProfile, DeleteProfile, DeleteToken, keychainVars
  <2>2. ProfileInv'
    <3>1. CASE SaveToken
      <4>1. stored' \in BOOLEAN /\ (stored => stored')
        BY <3>1, Zenon DEF SaveToken
      <4>2. \/ stored' /\ \E profile \in Profiles : setup' = [pc |-> "write", profile |-> profile]
            \/ UNCHANGED setup
        BY <3>1, Zenon DEF SaveToken
      <4>3. UNCHANGED prefs /\ setup.pc = "idle"
        BY <3>1 DEF SaveToken
      <4>4. QED
        BY <4>1, <4>2, <4>3
    <3>2. CASE WriteProfile \/ RenameProfile
      BY <3>2 DEF WriteProfile, RenameProfile, keychainVars
    <3>3. CASE DeleteProfile
      BY <3>3 DEF DeleteProfile, keychainVars
    <3>4. CASE DeleteToken
      <4>1. stored' \in BOOLEAN
        BY <3>4, Zenon DEF DeleteToken
      <4>2. QED
        BY <3>4, <4>1 DEF DeleteToken
    <3>5. QED
      BY <1>1, <3>1, <3>2, <3>3, <3>4
  <2>3. QED
    BY <2>1, <2>2, <1>k
<1>2. CASE LoadKey
  BY <1>2, <1>p DEF LoadKey, bootOthers
<1>3. CASE SaveKey
  <2>1. keyFiles = {} /\ used = {}
    BY <1>3 DEF SaveKey
  <2>2. QED
    BY <1>3, <2>1, <1>p DEF SaveKey, bootOthers
<1>4. CASE CreateKeyFile
  BY <1>4, <1>p DEF CreateKeyFile, Files, bootOthers
<1>5. CASE SpawnSidecar \/ SidecarHealthy \/ SidecarFails
  BY <1>5, <1>p DEF SpawnSidecar, SidecarHealthy, SidecarFails, Files, bootOthers
<1>6. ASSUME NEW s \in sidecars, ReadKey(s) \/ Ends(s) PROVE SetupInv'
  BY <1>6, <1>p DEF ReadKey, Ends, Files, bootOthers
<1>7. CASE Crash
  BY <1>7 DEF Crash, keychainVars
<1>8. QED
  BY <1>1, <1>2, <1>3, <1>4, <1>5, <1>6, <1>7 DEF SetupNext

(***************************************************************************)
(* The managers together.                                                  *)
(***************************************************************************)
ManagersInv == NamedInv /\ QuickInv /\ BridgeTypeOK /\ CodexInv /\ SetupInv

\* Each manager's own steps keep its part, and no other step touches it.
LEMMA ManagersStep == ManagersInv /\ [Next]_vars => ManagersInv'
<1> SUFFICES ASSUME ManagersInv, [Next]_vars PROVE ManagersInv'
  OBVIOUS
<1> USE DEF ManagersInv
<1>n. ASSUME UNCHANGED namedVars PROVE NamedInv'
  BY <1>n DEF namedVars, NamedInv, NamedTypeOK, NamedStage, NamedVerified, IsUp
<1>q. ASSUME UNCHANGED quickVars PROVE QuickInv'
  BY <1>q DEF quickVars, QuickInv, QuickTypeOK, QuickStage
<1>b. ASSUME UNCHANGED bridgeVars PROVE BridgeTypeOK'
  BY <1>b DEF bridgeVars, BridgeTypeOK
<1>c. ASSUME UNCHANGED codexVars PROVE CodexInv'
  BY <1>c DEF codexVars, CodexInv, CodexTypeOK, OneCodex, CodexUp
<1>s. ASSUME UNCHANGED setupVars PROVE SetupInv'
  BY <1>s DEF setupVars, SetupInv, KeyInv, ProfileInv, SameKey, ProfileHasToken
<1>1. CASE NamedNext /\ UNCHANGED <<quickVars, bridgeVars, codexVars, setupVars>>
  BY <1>1, <1>q, <1>b, <1>c, <1>s, NamedStep
<1>2. CASE QuickNext /\ UNCHANGED <<namedVars, bridgeVars, codexVars, setupVars>>
  BY <1>2, <1>n, <1>b, <1>c, <1>s, QuickStep
<1>3. CASE BridgeNext /\ UNCHANGED <<namedVars, quickVars, codexVars, setupVars>>
  BY <1>3, <1>n, <1>q, <1>c, <1>s, BridgeStep
<1>4. CASE CodexNext /\ UNCHANGED <<namedVars, quickVars, bridgeVars, setupVars>>
  BY <1>4, <1>n, <1>q, <1>b, <1>s, CodexStep
<1>5. CASE SetupNext /\ UNCHANGED <<namedVars, quickVars, bridgeVars, codexVars>>
  BY <1>5, <1>n, <1>q, <1>b, <1>c, SetupStep
<1>6. CASE UNCHANGED vars
  BY <1>6, <1>n, <1>q, <1>b, <1>c, <1>s DEF vars, namedVars, quickVars, bridgeVars
<1>7. QED
  BY <1>1, <1>2, <1>3, <1>4, <1>5, <1>6 DEF Next, Access

\* The inductive invariant of the managers: who owns which process at every stage of a call.
THEOREM ManagersInvariant == Spec => []ManagersInv
<1>1. Init => ManagersInv
  BY NamedInitial, QuickInitial, BridgeInitial, CodexInitial, SetupInitial DEF Init, ManagersInv
<1>2. QED
  BY <1>1, ManagersStep, PTL DEF Spec

\* A named tunnel that counts as up has its process and the identity its start verified, and
\* when Ready was last answered by that instance (NamedTunnelManager).
THEOREM UpIsVerified == Spec => []VerifiedUp
<1>1. ManagersInv => VerifiedUp
  BY DEF ManagersInv, NamedInv, NamedStage, NamedVerified, VerifiedUp
<1>2. QED
  BY <1>1, ManagersInvariant, PTL

\* The shell never runs one Codex beside another, for any number of calls and instances, but
\* for a launch whose check came before the other (CodexLaunchManager::ensure_ready).
THEOREM OneCodexRuns == Spec => []OneCodex
<1>1. ManagersInv => OneCodex
  BY DEF ManagersInv, CodexInv
<1>2. QED
  BY <1>1, ManagersInvariant, PTL

\* Every sidecar that ever served had the Keychain's key, for any number of starts, failures
\* and crashes (VapidKeyManager::load_or_create, from_secret_file).
THEOREM OneVapidKey == Spec => []SameKey
<1>1. ManagersInv => SameKey
  BY DEF ManagersInv, SetupInv, KeyInv
<1>2. QED
  BY <1>1, ManagersInvariant, PTL

\* Whatever save or deletion failed or was cut short, a profile that is found has its token
\* (save_named_tunnel_profile, delete_named_tunnel_profile).
THEOREM ProfileKeepsToken == Spec => []ProfileHasToken
<1>1. ManagersInv => ProfileHasToken
  BY DEF ManagersInv, SetupInv, ProfileInv
<1>2. QED
  BY <1>1, ManagersInvariant, PTL

(***************************************************************************)
(* The promise of a tunnel.                                                *)
(***************************************************************************)
NamedSeen == [state |-> NamedPhase, child |-> NamedChild]
QuickSeen == [state |-> QuickPhase, child |-> QuickChild]
InCall == {"idle", "refresh"}

\* What the shell sees of the managers, in terms of their fields.
NamedView ==
  /\ NamedPhase = IF named.call \notin InCall THEN "starting" ELSE IF IsUp THEN "up"
                  ELSE IF named.status = "Failed" THEN "failed" ELSE "stopped"
  /\ NamedChild = IF named.child = "none" THEN "none"
                  ELSE IF namedProc = "running" THEN "alive" ELSE "dead"
QuickView ==
  /\ QuickPhase = IF quick.call \notin InCall THEN "starting" ELSE IF quick.session THEN "up"
                  ELSE IF quick.status = "Failed" THEN "failed" ELSE "stopped"
  /\ QuickChild = IF quick.child = "none" THEN "none"
                  ELSE IF quickProc = "running" THEN "alive" ELSE "dead"

LEMMA Views == ManagersInv => NamedView /\ QuickView
<1>1. NamedInv => NamedView
  BY DEF NamedInv, NamedStage, NamedView, NamedPhase, NamedChild, InCall, IsUp
<1>2. QuickInv => QuickView
  BY DEF QuickInv, QuickStage, QuickView, QuickPhase, QuickChild, InCall
<1>3. QED
  BY <1>1, <1>2 DEF ManagersInv

\* Giving the process up is what the promise calls it at each phase.
LEMMA NamedGivesUp ==
  ASSUME NamedInv, NamedView, NamedView', NEW kind, Without(kind),
         named.call = "idle" => NamedChild # "alive" \/ IsUp
  PROVE  NamedPromise!Next
<1>1. NamedPhase' = "failed" /\ NamedChild' = "none"
  BY DEF NamedInv, NamedTypeOK, NamedType, Without, NamedView, InCall, IsUp
<1>2. CASE named.call \notin InCall
  BY <1>1, <1>2 DEF NamedView, NamedPromise!Next, NamedPromise!GiveUp, NamedPromise!Manager
<1>3. CASE named.call \in InCall /\ IsUp
  BY <1>1, <1>3 DEF NamedView, NamedPromise!Next, NamedPromise!Break, NamedPromise!Manager
<1>4. CASE named.call = "idle" /\ ~IsUp
  BY <1>1, <1>4 DEF NamedView, InCall, NamedPromise!Next, NamedPromise!Refuse, NamedPromise!Manager
<1>5. QED
  BY <1>2, <1>3, <1>4 DEF NamedInv, NamedStage, InCall

LEMMA NamedRefines ==
  ASSUME NamedInv, NamedView, NamedView', NamedNext PROVE NamedPromise!Next \/ UNCHANGED NamedSeen
<1>u. ASSUME UNCHANGED <<NamedPhase, NamedChild>> PROVE UNCHANGED NamedSeen
  BY <1>u DEF NamedSeen
<1>1. CASE LocalFails \/ LaunchFails \/ CheckFails \/ StartWithoutToken \/ NoticeExit
  <2>1. named.call = "idle" => NamedChild # "alive" \/ IsUp
    BY <1>1 DEF LocalFails, LaunchFails, CheckFails, StartWithoutToken, NoticeExit, Running, Exited,
                NamedInv, NamedTypeOK, NamedType, NamedStage, NamedView
  <2>2. QED
    BY <1>1, <2>1, NamedGivesUp
       DEF LocalFails, LaunchFails, CheckFails, StartWithoutToken, NoticeExit
<1>2. CASE StartNamed
  <2>1. /\ NamedPhase # "starting" /\ NamedChild # "alive"
        /\ NamedPhase' = "starting" /\ NamedChild' = "none"
    BY <1>2 DEF StartNamed, Running, NamedInv, NamedTypeOK, NamedType, NamedStage, NamedView, InCall, IsUp
  <2>2. QED
    BY <2>1 DEF NamedPromise!Begin, NamedPromise!Manager, NamedPromise!Next
<1>3. ASSUME NEW i \in Local, LocalAnswers(i) PROVE UNCHANGED NamedSeen
  BY <1>3, <1>u DEF LocalAnswers, NamedInv, NamedTypeOK, NamedType, NamedView, InCall, IsUp
<1>4. CASE Launch
  <2>1. /\ NamedPhase = "starting" /\ NamedChild = "none"
        /\ NamedPhase' = "starting" /\ NamedChild' = "alive"
    BY <1>4 DEF Launch, NamedInv, NamedTypeOK, NamedType, NamedStage, NamedView, InCall
  <2>2. QED
    BY <2>1 DEF NamedPromise!Spawn, NamedPromise!Manager, NamedPromise!Next
<1>5. CASE RetryDue
  BY <1>5, <1>u DEF RetryDue, NamedInv, NamedTypeOK, NamedType, NamedView, InCall
<1>6. CASE Settled
  <2>1. /\ NamedPhase = "starting" /\ NamedChild = "alive"
        /\ NamedPhase' = "up" /\ NamedChild' = "alive"
    BY <1>6 DEF Settled, CheckOK, NamedInv, NamedTypeOK, NamedType, NamedStage, Frame, NamedView, InCall, IsUp
  <2>2. QED
    BY <2>1 DEF NamedPromise!Reach, NamedPromise!Next
<1>7. ASSUME NEW a, PublicAnswers(a) PROVE NamedPromise!Next \/ UNCHANGED NamedSeen
  <2>1. CASE \/ Without("WrongBridgeInstance") \/ Without(FailureOf(a))
    BY <1>7, <2>1, NamedGivesUp DEF PublicAnswers
  <2>2. CASE /\ UNCHANGED <<namedProc, named.child>>
             /\ named'.call \in {"settle", "retry"}
    BY <1>7, <2>2, <1>u DEF PublicAnswers, NamedView, InCall
  <2>3. QED
    BY <1>7, <2>1, <2>2 DEF PublicAnswers, NamedInv, NamedTypeOK, NamedType
<1>8. ASSUME NEW a, RefreshAnswers(a) PROVE NamedPromise!Next \/ UNCHANGED NamedSeen
  <2>1. CASE \/ Without("WrongBridgeInstance") \/ Without(FailureOf(a))
    BY <1>8, <2>1, NamedGivesUp DEF RefreshAnswers
  <2>2. CASE /\ UNCHANGED <<namedProc, named.child>>
             /\ named'.call = "idle" /\ named'.status \in {"Ready", "Degraded"}
    BY <1>8, <2>2, <1>u DEF RefreshAnswers, NamedInv, NamedStage, NamedView, InCall, IsUp
  <2>3. QED
    BY <1>8, <2>1, <2>2 DEF RefreshAnswers, NamedInv, NamedTypeOK, NamedType
<1>9. CASE RefreshNamed
  <2>1. CASE Without("TokenRejected")
    BY <1>9, <2>1, NamedGivesUp DEF RefreshNamed
  <2>2. CASE named' = [named EXCEPT !.call = "refresh"] /\ UNCHANGED namedProc
    BY <1>9, <2>2, <1>u DEF RefreshNamed, NamedInv, NamedTypeOK, NamedType, NamedView, InCall, IsUp
  <2>3. QED
    BY <1>9, <2>1, <2>2 DEF RefreshNamed
<1>10. CASE StopNamed
  <2>1. NamedPhase # "starting" /\ NamedPhase' = "stopped" /\ NamedChild' = "none"
    BY <1>10 DEF StopNamed, NamedInv, NamedTypeOK, NamedType, NamedView, InCall, IsUp
  <2>2. QED
    BY <2>1 DEF NamedPromise!Stop, NamedPromise!Manager, NamedPromise!Next
<1>11. CASE NamedExits
  <2>1. NamedChild = "alive" /\ NamedChild' = "dead" /\ NamedPhase' = NamedPhase
    BY <1>11 DEF NamedExits, NamedInv, NamedStage, NamedView, IsUp
  <2>2. QED
    BY <2>1 DEF NamedPromise!Die, NamedPromise!Next
<1>12. CASE TokenRefused
  BY <1>12, <1>u DEF TokenRefused, NamedView, IsUp
<1>13. QED
  BY <1>1, <1>2, <1>3, <1>4, <1>5, <1>6, <1>7, <1>8, <1>9, <1>10, <1>11, <1>12
     DEF NamedNext, NamedTimer

\* The named tunnel keeps what the shell relies on of a tunnel, however its process, its
\* token and the health endpoints behave (NamedTunnelManager).
THEOREM NamedIsTunnel == Spec => NamedKeepsPromise
<1>1. Init => NamedPromise!Init
  BY DEF Init, NamedInit, NamedPromise!Init, NamedPhase, NamedChild, NoTunnel
<1>2. ManagersInv /\ NamedView /\ NamedView' /\ [Next]_vars => [NamedPromise!Next]_NamedSeen
  <2> SUFFICES ASSUME ManagersInv, NamedView, NamedView', [Next]_vars PROVE [NamedPromise!Next]_NamedSeen
    OBVIOUS
  <2>1. CASE NamedNext
    BY <2>1, NamedRefines DEF ManagersInv
  <2>2. CASE UNCHANGED namedVars
    BY <2>2 DEF namedVars, NamedSeen, NamedPhase, NamedChild
  <2>3. QED
    BY <2>1, <2>2 DEF Next, Access, vars, namedVars
<1>3. QED
  BY <1>1, <1>2, ManagersInvariant, Views, PTL DEF Spec, NamedKeepsPromise, NamedPromise!Spec, NamedSeen

LEMMA QuickRefines ==
  ASSUME QuickInv, QuickView, QuickView', QuickNext PROVE QuickPromise!Next \/ UNCHANGED QuickSeen
<1> USE DEF QuickInv, QuickTypeOK, QuickStage, QuickView, InCall
<1>u. ASSUME UNCHANGED <<QuickPhase, QuickChild>> PROVE UNCHANGED QuickSeen
  BY <1>u DEF QuickSeen
<1>1. CASE StartFails
  <2>1. QuickPhase = "starting" /\ QuickPhase' = "failed" /\ QuickChild' = "none"
    BY <1>1 DEF StartFails, QuickWithout
  <2>2. QED
    BY <2>1 DEF QuickPromise!GiveUp, QuickPromise!Manager, QuickPromise!Next
<1>2. CASE QuickNotices
  <2>1. QuickPhase = "up" /\ QuickPhase' = "failed" /\ QuickChild' = "none"
    BY <1>2 DEF QuickNotices, QuickGone, QuickWithout
  <2>2. QED
    BY <2>1 DEF QuickPromise!Break, QuickPromise!Manager, QuickPromise!Next
<1>3. CASE StopQuick
  <2>1. QuickPhase # "starting" /\ QuickPhase' = "stopped" /\ QuickChild' = "none"
    BY <1>3 DEF StopQuick, QuickWithout
  <2>2. QED
    BY <2>1 DEF QuickPromise!Stop, QuickPromise!Manager, QuickPromise!Next
<1>4. CASE StartQuick
  <2>1. /\ QuickPhase # "starting" /\ QuickChild # "alive"
        /\ QuickPhase' = "starting" /\ QuickChild' = "none"
    BY <1>4 DEF StartQuick, QuickRunning, Restart, QuickType
  <2>2. QED
    BY <2>1 DEF QuickPromise!Begin, QuickPromise!Manager, QuickPromise!Next
<1>5. CASE RotateQuick
  <2>1. QuickPhase = "up" /\ QuickPhase' = "starting" /\ QuickChild' = "none"
    BY <1>5 DEF RotateQuick, Restart
  <2>2. QED
    BY <2>1 DEF QuickPromise!Rotate, QuickPromise!Manager, QuickPromise!Next
<1>6. CASE LaunchQuick
  <2>1. QuickPhase = "starting" /\ QuickChild = "none"
    BY <1>6 DEF LaunchQuick
  <2>2. \/ QuickPhase' = "starting" /\ QuickChild' = "alive"
        \/ QuickPhase' = "failed" /\ QuickChild' = "none"
    <3>1. CASE quick' = [quick EXCEPT !.child = "frame", !.call = "url"] /\ quickProc' = "running"
      BY <3>1 DEF QuickType
    <3>2. CASE QuickWithout("Failed")
      BY <3>2 DEF QuickWithout
    <3>3. QED
      BY <1>6, <3>1, <3>2 DEF LaunchQuick
  <2>3. QED
    BY <2>1, <2>2 DEF QuickPromise!Spawn, QuickPromise!GiveUp, QuickPromise!Manager,
                      QuickPromise!Next
<1>7. CASE HealthAnswers
  <2>1. /\ QuickPhase = "starting" /\ QuickChild # "none"
        /\ QuickPhase' = "up" /\ QuickChild' = QuickChild
    BY <1>7 DEF HealthAnswers, QuickType
  <2>2. QED
    BY <2>1 DEF QuickPromise!Reach, QuickPromise!Next
<1>8. CASE UrlPrinted \/ RefreshQuick
  BY <1>8, <1>u DEF UrlPrinted, RefreshQuick, QuickType
<1>9. CASE QuickAnswers \/ QuickLost
  BY <1>9, <1>u DEF QuickAnswers, QuickLost, QuickType
<1>10. CASE QuickExits
  <2>1. QuickChild = "alive" /\ QuickChild' = "dead" /\ QuickPhase' = QuickPhase
    BY <1>10 DEF QuickExits
  <2>2. QED
    BY <2>1 DEF QuickPromise!Die, QuickPromise!Next
<1>11. QED
  BY <1>1, <1>2, <1>3, <1>4, <1>5, <1>6, <1>7, <1>8, <1>9, <1>10 DEF QuickNext, QuickTimer

\* The quick tunnel keeps it too, through rotations and lost health answers
\* (QuickTunnelManager).
THEOREM QuickIsTunnel == Spec => QuickKeepsPromise
<1>1. Init => QuickPromise!Init
  BY DEF Init, QuickInit, QuickPromise!Init, QuickPhase, QuickChild, NoTunnel
<1>2. ManagersInv /\ QuickView /\ QuickView' /\ [Next]_vars => [QuickPromise!Next]_QuickSeen
  <2> SUFFICES ASSUME ManagersInv, QuickView, QuickView', [Next]_vars PROVE [QuickPromise!Next]_QuickSeen
    OBVIOUS
  <2>1. CASE QuickNext
    BY <2>1, QuickRefines DEF ManagersInv
  <2>2. CASE UNCHANGED quickVars
    BY <2>2 DEF quickVars, QuickSeen, QuickPhase, QuickChild
  <2>3. QED
    BY <2>1, <2>2 DEF Next, Access, vars, quickVars
<1>3. QED
  BY <1>1, <1>2, ManagersInvariant, Views, PTL DEF Spec, QuickKeepsPromise, QuickPromise!Spec, QuickSeen
=============================================================================
