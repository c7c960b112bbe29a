---------------------------- MODULE PhoneAppProofs ----------------------------
(***************************************************************************)
(* Proofs about the phone: when it says that notifications are active, they  *)
(* are, for any number of endpoints and of requests that fail; an alert is      *)
(* shown and played once, for any number of alerts, pushes and faults; a       *)
(* message that is being sent stays on the screen, whatever the phone merges;   *)
(* and a poll that replaces a thread's history shows the thread as Codex has it. *)
(***************************************************************************)
EXTENDS PhoneApp, SequenceTheorems, FiniteSetTheorems, WellFoundedInduction, TLAPS

Enabling == {"permit", "refused", "key", "subscribe", "save", "settings", "test"}
Deleting == {"delete", "unsubscribe"}
SubStates == {"none", "unavailable", "not_enabled", "active", "needs_repair", "blocked"}
SubHandlers == {"none", "change", "disable", "enable", "onboard", "repair"}
SubStages == {"idle"} \cup Enabling \cup Deleting

OpType == [kind : SubHandlers, pc : SubStages, failed : BOOLEAN, was : SubStates, endpoint : Nat]
USE DEF OpType

\* What browser, Bridge and page may hold of the subscription.
SubTypeOK ==
  /\ browser \in Nat /\ made \in Nat /\ push \in Nat
  /\ permission \in {"default", "granted", "denied"}
  /\ server \in [endpoint : Nat, valid : BOOLEAN]
  /\ op \in OpType
  /\ dropped \in BOOLEAN /\ unsaved \in BOOLEAN /\ overtaken \in BOOLEAN
  /\ known \in SubStates /\ answer \in SubStates

\* Where a handler may stand, and the endpoint it is about to save.
SubOp ==
  /\ op.kind = "none" => op.pc = "idle"
  /\ op.kind = "change" => op.pc = "settings"
  /\ op.kind = "disable" => op.pc \in Deleting \cup {"settings"}
  /\ op.kind \in {"enable", "onboard"} => op.pc \in Enabling
  /\ op.kind = "repair" => op.pc \in Enabling \cup Deleting
  /\ op.pc = "save" => op.endpoint # 0 /\ browser \in {0, op.endpoint}

\* Handlers that may end without looking at the subscription again.
Leaves == \/ op.kind \in {"none", "onboard", "change"} \/ op.pc = "test"
          \/ op.kind = "disable" /\ op.pc = "settings"

\* The Bridge and the browser mean the same endpoint, but for one that was never saved.
SameEndpoint == /\ server.valid => server.endpoint # 0
                /\ server.valid /\ browser # 0 /\ ~unsaved => server.endpoint = browser

\* What "active" stands for while no handler under way will look again.
ActiveMeans ==
  Leaves /\ shown = "active" /\ ~dropped =>
    /\ browser # 0 /\ permission = "granted"
    /\ ~unsaved /\ ~overtaken => server.valid

SubInv == SubTypeOK /\ SubOp /\ SameEndpoint /\ ActiveMeans

LEMMA SubInitial == SubInit => SubInv
<1> SUFFICES ASSUME SubInit PROVE SubInv
  OBVIOUS
<1>1. SubTypeOK
  BY DEF SubInit, SubTypeOK, Idle, SubHandlers, SubStages, SubStates
<1>2. SubOp /\ SameEndpoint /\ ActiveMeans
  BY DEF SubInit, Idle, SubOp, SameEndpoint, ActiveMeans
<1>3. QED
  BY <1>1, <1>2 DEF SubInv

\* inspect says "active" only of an endpoint the browser has, with permission.
LEMMA InspectActive ==
  ASSUME NEW state, Inspect(state) = "active"
  PROVE  state = "active" /\ browser # 0 /\ permission = "granted"
  BY DEF Inspect

LEMMA ServerActive ==
  /\ ServerState \in SubStates
  /\ ServerState = "active" => server.endpoint # 0 /\ server.valid
<1>1. CASE server.endpoint = 0
  BY <1>1 DEF ServerState, SubStates
<1>2. CASE server.endpoint # 0 /\ server.valid
  BY <1>2 DEF ServerState, SubStates
<1>3. CASE server.endpoint # 0 /\ ~server.valid
  BY <1>3 DEF ServerState, SubStates
<1>4. QED
  BY <1>1, <1>2, <1>3

LEMMA IdleOp == Idle \in OpType /\ Idle.kind = "none" /\ Idle.pc = "idle"
  BY DEF Idle, SubHandlers, SubStages, SubStates

\* What a handler may do to the rows, done or failed.
RowsMove ==
  /\ UNCHANGED <<browser, made, push, permission>>
  /\ \/ UNCHANGED Rows
     \/ At("save") /\ SaveRow
     \/ At("delete") /\ DeleteRow

LEMMA RowsStep ==
  ASSUME SubInv, RowsMove
  PROVE  /\ server' \in [endpoint : Nat, valid : BOOLEAN] /\ unsaved' \in BOOLEAN
         /\ SameEndpoint'
         /\ Leaves /\ shown = "active" /\ ~dropped /\ ~unsaved' /\ ~overtaken => server'.valid
         /\ op.pc # "delete" /\ server.valid => server'.valid
<1>1. CASE UNCHANGED Rows
  BY <1>1 DEF SubInv, SubTypeOK, SameEndpoint, ActiveMeans, RowsMove, Rows
<1>2. CASE At("save") /\ SaveRow
  BY <1>2 DEF SubInv, SubTypeOK, SubOp, SameEndpoint, RowsMove, SaveRow, At
<1>3. CASE At("delete") /\ DeleteRow
  <2>1. ~Leaves
    BY <1>3 DEF SubInv, SubTypeOK, SubOp, SubHandlers, Leaves, At, Enabling
  <2>2. QED
    BY <1>3, <2>1 DEF SubInv, SubTypeOK, SameEndpoint, RowsMove, DeleteRow, At
<1>4. QED
  BY <1>1, <1>2, <1>3 DEF RowsMove

\* A look at the subscription: what it shows is so, whoever is under way.
LEMMA ShowStep ==
  ASSUME SubInv, NEW k \in SubStates, NEW state, NEW late \in BOOLEAN, RowsMove,
         Show(k, state, late),
         state = "active" => browser # 0 /\ permission = "granted" /\ (late \/ server'.valid),
         op' \in OpType,
         answer' \in SubStates, SubOp'
  PROVE  SubInv'
<1>1. SubTypeOK' /\ SameEndpoint'
  BY RowsStep DEF SubInv, SubTypeOK, RowsMove, Show
<1>2. ActiveMeans'
  BY DEF ActiveMeans, RowsMove, Show
<1>3. QED
  BY <1>1, <1>2 DEF SubInv

\* What inspect says after a failed reading is never "active".
LEMMA LookStep ==
  ASSUME SubInv, NEW k \in SubStates, NEW state, NEW late \in BOOLEAN, RowsMove,
         Look(k, state, late),
         Inspect(state) = "active" => browser # 0 /\ permission = "granted" /\ (late \/ server'.valid),
         op' \in OpType,
         answer' \in SubStates, SubOp'
  PROVE  SubInv'
<1>1. PICK seen : Show(k, seen, late) /\ seen \in {Inspect(state), InspectUnread(state)}
  BY DEF Look
<1>2. seen = "active" => Inspect(state) = "active"
  BY <1>1 DEF InspectUnread
<1>3. QED
  BY <1>1, <1>2, ShowStep

\* A step that looks at nothing.
LEMMA QuietStep ==
  ASSUME SubInv, AsShown, Leaves' => Leaves, RowsMove,
         op' \in OpType,
         answer' \in SubStates, SubOp'
  PROVE  SubInv'
<1>1. SubTypeOK' /\ SameEndpoint'
  BY RowsStep DEF SubInv, SubTypeOK, RowsMove, AsShown
<1>2. ActiveMeans'
  BY RowsStep DEF SubInv, ActiveMeans, RowsMove, AsShown
<1>3. QED
  BY <1>1, <1>2 DEF SubInv

\* What an error leaves: nothing is looked at, or what is looked at is shown.
LEMMA ThrowsStep ==
  ASSUME SubInv, Throws, op.kind # "none", RowsMove, UNCHANGED answer
  PROVE  SubInv'
<1>a. answer' \in SubStates /\ known \in SubStates
  BY DEF SubInv, SubTypeOK
<1>0. ASSUME op' = Idle PROVE SubOp'
  BY <1>0, IdleOp DEF SubOp
<1>1. CASE op.kind = "enable" /\ op' = Idle /\ Look(known, op.was, op.was # ServerState)
  <2>1. op.pc # "delete"
    BY <1>1 DEF SubInv, SubOp, Enabling
  <2>2. Inspect(op.was) = "active" =>
          browser # 0 /\ permission = "granted" /\ (op.was # ServerState \/ server'.valid)
    BY <2>1, InspectActive, ServerActive, RowsStep
  <2>3. QED
    BY <1>1, IdleOp, <1>a, <1>0, <2>2, LookStep
<1>2. CASE op' = Idle /\ Show(known, "needs_repair", FALSE)
  BY <1>2, IdleOp, <1>a, <1>0, ShowStep
<1>3. CASE /\ op.kind = "disable" /\ At("delete") /\ AsShown
           /\ op' = [op EXCEPT !.pc = "unsubscribe", !.failed = TRUE]
  <2>1. /\ op'.kind = "disable" /\ op'.pc = "unsubscribe"
        /\ op' \in OpType
    BY <1>3 DEF SubInv, SubTypeOK, SubStages, Deleting
  <2>2. SubOp' /\ ~Leaves'
    BY <2>1 DEF SubOp, Leaves, Deleting
  <2>3. QED
    BY <1>3, <1>a, <2>1, <2>2, QuietStep
<1>4. CASE /\ op' = Idle /\ AsShown
           /\ op.kind \notin {"enable", "repair"}
           /\ ~(op.kind = "disable" /\ op.pc \in Deleting)
  <2>1. Leaves
    BY <1>4 DEF SubInv, SubTypeOK, SubOp, SubHandlers, Leaves
  <2>2. QED
    BY <1>4, IdleOp, <1>a, <1>0, <2>1, QuietStep
<1>5. QED
  BY <1>1, <1>2, <1>3, <1>4 DEF Throws, At, Deleting

\* A handler goes on to its next request.
LEMMA ThenStep ==
  ASSUME SubInv, NEW pc \in SubStages, Then(pc), AsShown, RowsMove, UNCHANGED answer,
         Leaves' => Leaves, SubOp'
  PROVE  SubInv'
<1>1. op' \in OpType
  BY DEF SubInv, SubTypeOK, Then
<1>2. QED
  BY <1>1, QuietStep DEF SubInv, SubTypeOK

LEMMA SubStep == ASSUME SubInv, SubNext PROVE SubInv'
<1>0. ASSUME op' = Idle PROVE SubOp'
  BY <1>0, IdleOp DEF SubOp
<1>t. /\ op \in OpType
      /\ answer \in SubStates /\ known \in SubStates /\ SubOp
  BY DEF SubInv, SubTypeOK
<1>1. CASE Load
  <2>1. RowsMove
    BY <1>1 DEF Load, RowsMove, Browser, Rows
  <2>2. QED
    BY <1>1, IdleOp, <1>0, <2>1, ShowStep, ServerActive DEF Load, SubStates
<1>2. CASE Renew
  <2>1. RowsMove /\ SubOp'
    BY <1>2, <1>t DEF Renew, RowsMove, Browser, Rows, SubOp
  <2>2. QED
    BY <1>2, <1>t, <2>1, QuietStep, ServerActive DEF Renew, Leaves
<1>3. CASE Answer
  <2>1. RowsMove /\ SubOp' /\ server' = server
    BY <1>3, <1>t DEF Answer, RowsMove, Browser, Rows, SubOp
  <2>2. answer' \in SubStates
    BY <1>3 DEF Answer, SubStates
  <2>3. CASE Look(answer, answer, answer # ServerState)
    BY <1>3, <1>t, <2>1, <2>2, <2>3, LookStep, InspectActive, ServerActive DEF Answer
  <2>4. CASE AsShown
    BY <1>3, <1>t, <2>1, <2>2, <2>4, QuietStep DEF Answer, Leaves
  <2>5. QED
    BY <1>3, <2>3, <2>4 DEF Answer
<1>4. CASE Begin
  <2>1. RowsMove /\ AsShown /\ UNCHANGED answer /\ Leaves
    BY <1>4, IdleOp DEF Begin, Starts, RowsMove, Browser, Rows, Leaves
  <2>2. PICK kind \in {"enable", "onboard", "repair", "disable", "change"}, pc \in {"permit", "delete", "settings"} :
          /\ op = Idle /\ op' = [op EXCEPT !.kind = kind, !.pc = pc, !.was = known]
          /\ kind \in {"enable", "onboard"} => pc = "permit"
          /\ kind = "repair" => pc = "delete"
          /\ kind \in {"disable", "change"} => pc = "settings"
    BY <1>4 DEF Begin, Starts
  <2>3. op' \in OpType
    BY <1>t, <2>2 DEF SubHandlers, SubStages, Enabling, Deleting
  <2>4. op'.kind = kind /\ op'.pc = pc
    BY <1>t, <2>2
  <2>5. SubOp'
    BY <2>2, <2>4 DEF SubOp, Enabling, Deleting
  <2>6. QED
    BY <1>t, <2>1, <2>3, <2>5, QuietStep
<1>5. CASE Dismiss
  <2>1. RowsMove /\ SubOp'
    BY <1>5, <1>t DEF Dismiss, RowsMove, Browser, Rows, SubOp
  <2>2. QED
    BY <1>5, <1>t, <2>1, QuietStep DEF Dismiss, Leaves
<1>6. CASE Permit
  <2>1. /\ op.kind \in {"enable", "onboard", "repair"} /\ op'.kind = op.kind
        /\ op'.pc \in {"key", "refused"} /\ op'.endpoint = op.endpoint
        /\ op' \in OpType
    BY <1>6, <1>t DEF Permit, At, Then, SubOp, SubHandlers, SubStages, Enabling, Deleting
  <2>2. SubOp'
    BY <2>1 DEF SubOp, Enabling, Deleting
  <2>3. SubTypeOK' /\ SameEndpoint'
    BY <1>6, <2>1 DEF Permit, Rows, AsShown, SubInv, SubTypeOK, SameEndpoint
  <2>4. (permission = "granted" => permission' = "granted") /\ (Leaves' => Leaves)
    BY <1>6, <2>1 DEF Permit, Leaves
  <2>5. ActiveMeans'
    BY <1>6, <2>4 DEF Permit, Rows, AsShown, SubInv, ActiveMeans
  <2>6. QED
    BY <2>2, <2>3, <2>5 DEF SubInv
<1>7. CASE Refused
  <2>1. RowsMove /\ op.kind # "none"
    BY <1>7, <1>t DEF Refused, RowsMove, Browser, Rows, SubOp, At
  <2>2. QED
    BY <1>7, <2>1, ThrowsStep DEF Refused
<1>8. CASE GetKey
  <2>1. /\ RowsMove /\ op.kind \in {"enable", "onboard", "repair"} /\ op'.kind = op.kind
        /\ op'.pc = "subscribe"
    BY <1>8, <1>t DEF GetKey, At, Then, RowsMove, Browser, Rows, SubOp, SubHandlers, Enabling, Deleting
  <2>2. SubOp' /\ (Leaves' => Leaves)
    BY <2>1 DEF SubOp, Leaves, Enabling, Deleting
  <2>3. QED
    BY <1>8, <2>1, <2>2, ThenStep DEF GetKey, SubStages, Enabling
<1>9. CASE Subscribe
  <2>1. /\ op.kind \in {"enable", "onboard", "repair"} /\ op'.kind = op.kind
        /\ op'.pc = "save" /\ op'.endpoint = browser'
        /\ browser' \in Nat /\ browser' # 0 /\ made' \in Nat
        /\ op' \in OpType
    <3>1. browser' \in Nat /\ browser' # 0 /\ made' \in Nat
      BY <1>9 DEF Subscribe, SubInv, SubTypeOK
    <3>2. op.kind \in {"enable", "onboard", "repair"}
      BY <1>9, <1>t DEF Subscribe, At, SubOp, SubHandlers, Enabling, Deleting
    <3>3. op' = [op EXCEPT !.pc = "save", !.endpoint = browser']
      BY <1>9 DEF Subscribe
    <3>4. QED
      BY <3>1, <3>2, <3>3, <1>t DEF SubStages, Enabling
  <2>2. SubOp' /\ (Leaves' => Leaves)
    BY <2>1 DEF SubOp, Leaves, Enabling, Deleting
  <2>3. unsaved' = (unsaved \/ (browser = 0 /\ server.endpoint # 0)) /\ unsaved' \in BOOLEAN
    BY <1>9 DEF Subscribe, SubInv, SubTypeOK
  <2>4. SubTypeOK'
    BY <1>9, <2>1, <2>3 DEF Subscribe, AsShown, SubInv, SubTypeOK
  <2>5. SameEndpoint'
    BY <1>9, <2>3 DEF Subscribe, SubInv, SameEndpoint
  <2>6. ActiveMeans'
    BY <1>9, <2>1, <2>2, <2>3 DEF Subscribe, AsShown, SubInv, ActiveMeans
  <2>7. QED
    BY <2>2, <2>4, <2>5, <2>6 DEF SubInv
<1>10. CASE Save
  <2>1. /\ RowsMove /\ op.kind \in {"enable", "onboard", "repair"} /\ op'.kind = op.kind
        /\ op'.pc = "settings"
    BY <1>10, <1>t DEF Save, At, Then, RowsMove, Browser, SubOp, SubHandlers, Enabling, Deleting
  <2>2. SubOp' /\ (Leaves' => Leaves)
    BY <2>1 DEF SubOp, Leaves, Enabling, Deleting
  <2>3. QED
    BY <1>10, <2>1, <2>2, ThenStep DEF Save, SubStages, Enabling
<1>11. CASE Delete
  <2>1. /\ RowsMove /\ op.kind \in {"disable", "repair"} /\ op'.kind = op.kind
        /\ op'.pc = "unsubscribe"
    BY <1>11, <1>t DEF Delete, At, Then, RowsMove, Browser, SubOp, SubHandlers, Enabling, Deleting
  <2>2. SubOp' /\ (Leaves' => Leaves)
    BY <2>1 DEF SubOp, Leaves, Enabling, Deleting
  <2>3. QED
    BY <1>11, <2>1, <2>2, ThenStep DEF Delete, SubStages, Deleting
<1>12. CASE Unsubscribe
  <2>1. /\ op.kind \in {"disable", "repair"} /\ browser' = 0 /\ answer' = answer
        /\ UNCHANGED <<made, permission, push, server, unsaved>>
    BY <1>12, <1>t DEF Unsubscribe, Rows, At, SubOp, SubHandlers, Enabling, Deleting
  <2>2. SameEndpoint'
    BY <2>1 DEF SubInv, SameEndpoint
  <2>3. CASE op.kind = "repair" /\ Then("permit") /\ AsShown
    <3>1. /\ op'.kind = "repair" /\ op'.pc = "permit"
          /\ op' \in OpType
      BY <2>3, <1>t DEF Then, SubStages, Enabling
    <3>2. SubOp' /\ ~Leaves'
      BY <3>1 DEF SubOp, Leaves, Enabling, Deleting
    <3>3. QED
      BY <2>1, <2>2, <2>3, <3>1, <3>2 DEF SubInv, SubTypeOK, ActiveMeans, AsShown
  <2>4. CASE /\ op' = Idle
             /\ \/ Show(known, "needs_repair", FALSE)
                \/ Show("not_enabled", "not_enabled", FALSE)
    <3>0. known' \in SubStates /\ dropped' = FALSE /\ overtaken' = FALSE
      BY <2>4, <1>t DEF Show, SubStates
    <3>1. SubTypeOK'
      BY <2>1, <2>4, <3>0, IdleOp DEF SubInv, SubTypeOK
    <3>2. QED
      BY <1>0, <2>2, <2>4, <3>1 DEF SubInv, ActiveMeans, Show
  <2>5. QED
    BY <1>12, <2>1, <2>3, <2>4 DEF Unsubscribe, Throws, At
<1>13. CASE Settings
  <2>1. RowsMove /\ Look(ServerState, ServerState, FALSE) /\ server' = server
    BY <1>13 DEF Settings, RowsMove, Browser, Rows
  <2>2. \/ op' = Idle
        \/ op.kind = "disable" /\ Then("delete")
        \/ op.kind \in {"enable", "onboard", "repair"} /\ Then("test")
    BY <1>13, <1>t DEF Settings, At, SubOp, SubHandlers
  <2>3. /\ SubOp'
        /\ op' \in OpType
    BY IdleOp, <1>0, <1>t, <2>2 DEF Then, SubOp, SubStages, Enabling, Deleting
  <2>4. QED
    BY <1>13, <1>t, <2>1, <2>3, LookStep, InspectActive, ServerActive DEF Settings
<1>14. CASE Test
  <2>1. RowsMove /\ Leaves
    BY <1>14 DEF Test, RowsMove, Browser, Rows, Leaves, At
  <2>2. QED
    BY <1>14, IdleOp, <1>0, <1>t, <2>1, QuietStep DEF Test
<1>15. CASE Lost
  <2>1. RowsMove /\ op.kind # "none"
    BY <1>15, <1>t DEF Lost, RowsMove, Browser, SubOp
  <2>2. QED
    BY <1>15, <2>1, ThrowsStep DEF Lost
<1>16. CASE BrowserDrops
  <2>1. SubOp' /\ SameEndpoint' /\ ActiveMeans'
    BY <1>16, <1>t DEF BrowserDrops, Rows, SubInv, SubOp, SameEndpoint, ActiveMeans
  <2>2. SubTypeOK'
    BY <1>16 DEF BrowserDrops, Rows, SubInv, SubTypeOK
  <2>3. QED
    BY <2>1, <2>2 DEF SubInv
<1>17. CASE SendPush \/ PushArrives
  BY <1>17 DEF SendPush, PushArrives, Rows, Displayed, SubInv, SubTypeOK, SubOp, SameEndpoint,
               ActiveMeans, Leaves
<1>18. CASE Rejected
  <2>1. SubTypeOK' /\ SubOp' /\ SameEndpoint'
    BY <1>18 DEF Rejected, Displayed, SubInv, SubTypeOK, SubOp, SameEndpoint
  <2>2. ActiveMeans'
    BY <1>18 DEF Rejected, Displayed, SubInv, SubTypeOK, SameEndpoint, ActiveMeans, Leaves
  <2>3. QED
    BY <2>1, <2>2 DEF SubInv
<1>19. QED
  BY <1>1, <1>2, <1>3, <1>4, <1>5, <1>6, <1>7, <1>8, <1>9, <1>10, <1>11, <1>12, <1>13, <1>14,
     <1>15, <1>16, <1>17, <1>18 DEF SubNext

\* When the page says that notifications are active, the Bridge sends to the endpoint this
\* browser listens on, but for what the page has no way to know of
\* (PushSubscriptionController::inspect and the handlers of App.tsx).
THEOREM ActiveNotifications == Spec => []ActiveIsTrue
<1>1. Init => SubInv
  BY SubInitial DEF Init
<1>2. SubInv /\ [Next]_vars => SubInv'
  <2> SUFFICES ASSUME SubInv, [Next]_vars PROVE SubInv'
    OBVIOUS
  <2>1. CASE SubNext
    BY <2>1, SubStep
  <2>2. CASE UNCHANGED subVars
    BY <2>2 DEF subVars, SubInv, SubTypeOK, SubOp, SameEndpoint, ActiveMeans, Leaves
  <2>3. QED
    BY <2>1, <2>2 DEF Next, vars, subVars
<1>3. SubInv => ActiveIsTrue
  BY DEF SubInv, SameEndpoint, ActiveMeans, ActiveIsTrue, Leaves, Idle
<1>4. QED
  BY <1>1, <1>2, <1>3, PTL DEF Spec
-----------------------------------------------------------------------------
Counts == [Alerts -> Nat]
Memories == [Alerts -> SUBSET (Alerts \cup {"age"})]

\* What worker and page may hold of the alerts.
AlertTypeOK ==
  /\ queued \subseteq Alerts /\ raised \subseteq Alerts /\ copies \in Seq(Alerts)
  /\ \A a \in DOMAIN rows : /\ DOMAIN rows[a] = {"after", "old"}
                            /\ rows[a].after \in Nat /\ rows[a].old \in BOOLEAN
  /\ jobs \in [claim : Counts, look : Counts]
  /\ page \in [state : {"closed", "visible", "hidden"}, seen : Seq(Alerts), mail : Seq(Alerts)]
  /\ alerted \in [shown : Counts, played : Counts] /\ due \in [store : Counts, player : Counts]
  /\ since \in [store : Memories, player : Memories]
  /\ \A a \in Alerts : IsFiniteSet(since.store[a]) /\ IsFiniteSet(since.player[a])

\* An alert that was not forgotten has a row, and what was stored since are the rows after it.
RowHeld(a) ==
  Lapsed(since.store, a, MaxEntries) \/
    /\ Held(a)
    /\ \A b \in DOMAIN rows :
         ~rows[b].old /\ rows[b].after < rows[a].after => b \in since.store[a]

\* The player remembers an alert that was not forgotten, before those it took since.
Remembers(seen, memory, a) ==
  Lapsed(memory, a, MaxSeen) \/
    \E i \in DOMAIN seen : seen[i] = a /\ \A j \in i + 1 .. Len(seen) : seen[j] \in memory[a]

SeenOnce == \A i, j \in DOMAIN page.seen : page.seen[i] = page.seen[j] => i = j

\* What the worker has claimed is shown later, once for each claim.
Accounted == \A a \in Alerts : /\ alerted.shown[a] + jobs.look[a] <= due.store[a]
                               /\ alerted.played[a] <= due.player[a]

AlertsInv == /\ AlertTypeOK /\ Accounted
             /\ \A a \in Alerts : RowHeld(a)
             /\ SeenOnce /\ (Open => \A a \in Alerts : Remembers(page.seen, since.player, a))

\* What a memory takes it keeps, of everything else.
LEMMA TookMore ==
  ASSUME NEW memory \in Memories, \A b \in Alerts : IsFiniteSet(memory[b]), NEW a \in Alerts
  PROVE  /\ Took(memory, a) \in Memories /\ Took(memory, a)[a] = {}
         /\ \A b \in Alerts : IsFiniteSet(Took(memory, a)[b])
         /\ \A b \in Alerts \ {a} :
              /\ Took(memory, a)[b] = memory[b] \cup {a}
              /\ \A n \in Nat : Lapsed(memory, b, n) => Lapsed(Took(memory, a), b, n)
<1> DEFINE took == Took(memory, a)
<1>1. took \in Memories /\ took[a] = {} /\ \A b \in Alerts \ {a} : took[b] = memory[b] \cup {a}
  BY DEF Took, Memories
<1> HIDE DEF took
<1>2. ASSUME NEW b \in Alerts PROVE IsFiniteSet(took[b])
  <2>1. CASE b = a BY <1>1, <2>1, FS_EmptySet
  <2>2. CASE b # a
    <3>1. IsFiniteSet(memory[b] \cup {a}) BY FS_AddElement
    <3> QED BY <1>1, <2>2, <3>1
  <2> QED BY <2>1, <2>2
<1>3. ASSUME NEW b \in Alerts \ {a}, NEW n \in Nat, Lapsed(memory, b, n)
      PROVE  Lapsed(took, b, n)
  <2>1. took[b] = memory[b] \cup {a} BY <1>1
  <2>2. Cardinality(memory[b]) \in Nat BY FS_CardinalityType
  <2>3. Cardinality(memory[b] \cup {a}) \in {Cardinality(memory[b]), Cardinality(memory[b]) + 1}
    BY FS_AddElement
  <2> QED BY <1>3, <2>1, <2>2, <2>3 DEF Lapsed
<1> QED BY <1>1, <1>2, <1>3 DEF took

\* A set within a memory that has not lapsed is small.
LEMMA SmallMemory ==
  ASSUME NEW memory, NEW b, IsFiniteSet(memory[b]), NEW n \in Nat, ~Lapsed(memory, b, n),
         NEW S \in SUBSET memory[b]
  PROVE  IsFiniteSet(S) /\ Cardinality(S) \in Nat /\ Cardinality(S) < n
<1>1. IsFiniteSet(S) /\ Cardinality(S) <= Cardinality(memory[b]) BY FS_Subset
<1>2. Cardinality(S) \in Nat /\ Cardinality(memory[b]) \in Nat BY <1>1, FS_CardinalityType
<1> QED BY <1>1, <1>2 DEF Lapsed

\* Storing an event keeps the rows of those that the memory has.
LEMMA StoredHolds ==
  ASSUME AlertTypeOK, \A a \in Alerts : RowHeld(a), NEW a \in Alerts,
         rows' = Stored(a), since' = [since EXCEPT !.store = Took(@, a)]
  PROVE  \A b \in Alerts : RowHeld(b)'
<1> DEFINE memory == since.store
           took == Took(memory, a)
<1>1. memory \in Memories /\ \A b \in Alerts : IsFiniteSet(memory[b]) BY DEF AlertTypeOK
<1>2. since'.store = took BY DEF AlertTypeOK
<1>3. /\ took[a] = {} /\ \A b \in Alerts : IsFiniteSet(took[b])
      /\ \A b \in Alerts \ {a} :
           /\ took[b] = memory[b] \cup {a}
           /\ \A n \in Nat : Lapsed(memory, b, n) => Lapsed(took, b, n)
  BY <1>1, TookMore
<1>4. \A b \in DOMAIN rows : rows[b].after \in Nat BY DEF AlertTypeOK
<1>5. /\ DOMAIN rows' = {b \in Kept(a) : Fits(a, b)}
      /\ \A b \in DOMAIN rows' : rows'[b].after = After(a, b) /\ rows'[b].old = FALSE
  BY DEF Stored
<1>6. MaxEntries \in Nat /\ MaxEntries > 0 BY PhoneAlertsAssumption
<1>7. \A b \in Kept(a) : After(a, b) \in Nat /\ (b # a => After(a, b) > 0)
  BY <1>4 DEF Kept, After
<1> HIDE DEF took, memory
<1>8. RowHeld(a)'
  <2>1. After(a, a) = 0 /\ a \in Kept(a) BY DEF After, Kept
  <2>2. {c \in Kept(a) : After(a, c) < After(a, a)} = {} BY <1>7, <2>1
  <2>3. Fits(a, a) BY <1>6, <2>2, FS_EmptySet DEF Fits
  <2>4. a \in DOMAIN rows' /\ rows'[a].after = 0 /\ rows'[a].old = FALSE
    BY <1>5, <2>1, <2>3
  <2>5. \A c \in DOMAIN rows' : ~(rows'[c].after < rows'[a].after)
    BY <1>5, <1>7, <2>4
  <2> QED BY <2>4, <2>5 DEF RowHeld, Held
<1>9. ASSUME NEW b \in Alerts \ {a}, ~Lapsed(took, b, MaxEntries)
      PROVE  /\ Held(b)'
             /\ \A c \in DOMAIN rows' :
                  ~rows'[c].old /\ rows'[c].after < rows'[b].after => c \in took[b]
  <2>1. ~Lapsed(memory, b, MaxEntries) BY <1>3, <1>6, <1>9
  <2>2. /\ b \in DOMAIN rows /\ ~rows[b].old
        /\ \A c \in DOMAIN rows : ~rows[c].old /\ rows[c].after < rows[b].after => c \in memory[b]
    BY <2>1 DEF RowHeld, Held, memory
  <2>3. b \in Kept(a) /\ After(a, b) = rows[b].after + 1 BY <1>9, <2>2 DEF Kept, After
  <2> DEFINE newer == {c \in Kept(a) : After(a, c) < After(a, b)}
  <2>4. newer \subseteq took[b]
    <3> SUFFICES ASSUME NEW c \in newer, c # a PROVE c \in memory[b] BY <1>3
    <3>1. c \in DOMAIN rows /\ ~rows[c].old /\ After(a, c) = rows[c].after + 1
      BY DEF Kept, After
    <3> QED BY <1>4, <2>2, <2>3, <3>1
  <2>5. Cardinality(newer) < MaxEntries BY <1>3, <1>6, <1>9, <2>4, SmallMemory
  <2>6. Fits(a, b) BY <2>5 DEF Fits
  <2>7. b \in DOMAIN rows' /\ rows'[b].after = After(a, b) /\ rows'[b].old = FALSE
    BY <1>5, <2>3, <2>6
  <2>8. \A c \in DOMAIN rows' : rows'[c].after < rows'[b].after => c \in newer
    BY <1>5, <2>7
  <2> HIDE DEF newer
  <2> QED BY <2>4, <2>7, <2>8 DEF Held
<1> QED BY <1>2, <1>8, <1>9 DEF RowHeld

\* The player's memory with one alert more: the alert is last, and as many are before it as fit.
LEMMA NewestSeen ==
  ASSUME NEW seen \in Seq(Alerts), NEW a \in Alerts
  PROVE  LET all == Append(seen, a)
             now == Newest(MaxSeen, all)
             cut == Len(seen) + 1 - Len(now)
         IN  /\ now \in Seq(Alerts) /\ Len(now) \in Nat /\ cut \in Nat
             /\ Len(now) <= MaxSeen /\ (cut > 0 => Len(now) = MaxSeen)
             /\ all \in Seq(Alerts) /\ Len(all) = Len(seen) + 1 /\ all[Len(seen) + 1] = a
             /\ \A i \in 1 .. Len(seen) : all[i] = seen[i]
             /\ \A i \in 1 .. Len(now) : now[i] = all[i + cut]
<1> DEFINE all == Append(seen, a)
           now == Newest(MaxSeen, all)
           cut == Len(seen) + 1 - Len(now)
<1>1. /\ all \in Seq(Alerts) /\ Len(all) = Len(seen) + 1 /\ all[Len(seen) + 1] = a
      /\ \A i \in 1 .. Len(seen) : all[i] = seen[i]
  BY AppendProperties
<1>2. Len(seen) \in Nat BY LenProperties
<1>3. MaxSeen \in Nat /\ MaxSeen > 0 BY PhoneAlertsAssumption
<1>4. now = IF Len(all) <= MaxSeen THEN all ELSE SubSeq(all, Len(all) - MaxSeen + 1, Len(all))
  BY DEF Newest
<1> HIDE DEF all, now
<1>c. cut = Len(seen) + 1 - Len(now) OBVIOUS
<1> HIDE DEF cut
<1>5. /\ now \in Seq(Alerts) /\ Len(now) \in Nat /\ cut \in Nat
      /\ Len(now) <= MaxSeen /\ (cut > 0 => Len(now) = MaxSeen)
      /\ \A i \in 1 .. Len(now) : now[i] = all[i + cut]
  <2>1. CASE Len(all) <= MaxSeen
    <3>1. now = all /\ Len(now) = Len(seen) + 1 /\ cut = 0 BY <1>1, <1>2, <1>4, <1>c, <2>1
    <3>2. \A i \in 1 .. Len(now) : i + cut = i BY <1>2, <3>1
    <3>3. \A i \in 1 .. Len(now) : now[i] = all[i + cut] BY <3>1, <3>2
    <3>4. Len(now) \in Nat /\ cut \in Nat /\ Len(now) <= MaxSeen /\ ~(cut > 0)
      BY <1>1, <1>2, <1>3, <2>1, <3>1
    <3> QED BY <1>1, <3>1, <3>3, <3>4
  <2>2. CASE Len(all) > MaxSeen
    <3> DEFINE m == Len(all) - MaxSeen + 1
               n == Len(all)
    <3>1. m \in Int /\ n \in Int /\ m >= 1 /\ n - m + 1 = MaxSeen BY <1>1, <1>2, <1>3, <2>2
    <3>2. \A i \in m .. n : all[i] \in Alerts
      <4>1. \A i \in 1 .. Len(all) : all[i] \in Alerts BY <1>1, ElementOfSeq
      <4> QED BY <3>1, <4>1
    <3> HIDE DEF m, n
    <3>3. /\ SubSeq(all, m, n) \in Seq(Alerts)
          /\ Len(SubSeq(all, m, n)) = IF m <= n THEN n - m + 1 ELSE 0
          /\ \A i \in 1 .. n - m + 1 : SubSeq(all, m, n)[i] = all[m + i - 1]
      BY <3>1, <3>2, SubSeqProperties
    <3>4. now = SubSeq(all, m, n) BY <1>1, <1>2, <1>3, <1>4, <2>2 DEF m, n
    <3>5. Len(now) = MaxSeen BY <1>3, <3>1, <3>3, <3>4
    <3>6. cut = m - 1 BY <1>1, <1>2, <1>3, <1>c, <3>5 DEF m
    <3>7. \A i \in 1 .. Len(now) : now[i] = all[i + cut]
      <4> SUFFICES ASSUME NEW i \in 1 .. Len(now) PROVE now[i] = all[i + cut] OBVIOUS
      <4>1. now[i] = all[m + i - 1] BY <3>1, <3>3, <3>4, <3>5
      <4>2. m + i - 1 = i + cut BY <1>3, <3>1, <3>5, <3>6
      <4> QED BY <4>1, <4>2
    <3>8. cut \in Nat BY <3>1, <3>6
    <3> QED BY <1>3, <3>3, <3>4, <3>5, <3>7, <3>8
  <2> QED BY <1>1, <1>2, <1>3, <2>1, <2>2
<1>6. /\ now \in Seq(Alerts) /\ Len(now) \in Nat /\ cut \in Nat
      /\ Len(now) <= MaxSeen /\ (cut > 0 => Len(now) = MaxSeen)
      /\ all \in Seq(Alerts) /\ Len(all) = Len(seen) + 1 /\ all[Len(seen) + 1] = a
      /\ \A i \in 1 .. Len(seen) : all[i] = seen[i]
      /\ \A i \in 1 .. Len(now) : now[i] = all[i + cut]
  BY <1>1, <1>5
<1> QED BY <1>6 DEF all, now, cut

\* A player that takes an alert it has not seen remembers the others that have not lapsed.
LEMMA PlayedRemembers ==
  ASSUME NEW seen \in Seq(Alerts), \A i, j \in DOMAIN seen : seen[i] = seen[j] => i = j,
         NEW memory \in Memories, \A b \in Alerts : IsFiniteSet(memory[b]),
         \A b \in Alerts : Remembers(seen, memory, b),
         NEW a \in Alerts, a \notin Range(seen)
  PROVE  LET now == Newest(MaxSeen, Append(seen, a))
         IN  /\ now \in Seq(Alerts) /\ \A i, j \in DOMAIN now : now[i] = now[j] => i = j
             /\ \A b \in Alerts : Remembers(now, Took(memory, a), b)
<1> DEFINE all == Append(seen, a)
           now == Newest(MaxSeen, all)
           cut == Len(seen) + 1 - Len(now)
           took == Took(memory, a)
<1>1. /\ now \in Seq(Alerts) /\ Len(now) \in Nat /\ cut \in Nat
      /\ Len(now) <= MaxSeen /\ (cut > 0 => Len(now) = MaxSeen)
      /\ all \in Seq(Alerts) /\ Len(all) = Len(seen) + 1 /\ all[Len(seen) + 1] = a
      /\ \A i \in 1 .. Len(seen) : all[i] = seen[i]
      /\ \A i \in 1 .. Len(now) : now[i] = all[i + cut]
  BY NewestSeen
<1>2. /\ took[a] = {} /\ \A b \in Alerts : IsFiniteSet(took[b])
      /\ \A b \in Alerts \ {a} :
           /\ took[b] = memory[b] \cup {a}
           /\ \A n \in Nat : Lapsed(memory, b, n) => Lapsed(took, b, n)
  BY TookMore
<1>3. Len(seen) \in Nat /\ DOMAIN seen = 1 .. Len(seen) BY LenProperties
<1>4. MaxSeen \in Nat /\ MaxSeen > 0 BY PhoneAlertsAssumption
<1> HIDE DEF all, now, took
<1>5. DOMAIN now = 1 .. Len(now) BY <1>1, LenProperties
<1>6. \A i \in 1 .. Len(seen) : seen[i] # a BY <1>3 DEF Range
<1>7. \A i, j \in 1 .. Len(seen) + 1 : all[i] = all[j] => i = j
  <2> SUFFICES ASSUME NEW i \in 1 .. Len(seen) + 1, NEW j \in 1 .. Len(seen) + 1, all[i] = all[j]
               PROVE  i = j
    OBVIOUS
  <2>1. CASE i = Len(seen) + 1 \/ j = Len(seen) + 1
    <3>1. \A k \in 1 .. Len(seen) : all[k] # a BY <1>1, <1>6
    <3>2. \A k \in 1 .. Len(seen) + 1 : k = Len(seen) + 1 \/ k \in 1 .. Len(seen) BY <1>3
    <3> QED BY <1>1, <2>1, <3>1, <3>2
  <2>2. CASE i # Len(seen) + 1 /\ j # Len(seen) + 1
    <3>1. i \in 1 .. Len(seen) /\ j \in 1 .. Len(seen) BY <1>3, <2>2
    <3>2. seen[i] = seen[j] BY <1>1, <3>1
    <3> QED BY <1>3, <3>1, <3>2
  <2> QED BY <2>1, <2>2
<1>8. \A i, j \in DOMAIN now : now[i] = now[j] => i = j
  <2> SUFFICES ASSUME NEW i \in DOMAIN now, NEW j \in DOMAIN now, now[i] = now[j] PROVE i = j
    OBVIOUS
  <2>1. i \in 1 .. Len(now) /\ j \in 1 .. Len(now) BY <1>5
  <2>2. all[i + cut] = all[j + cut] BY <1>1, <2>1
  <2>3. i + cut \in 1 .. Len(seen) + 1 /\ j + cut \in 1 .. Len(seen) + 1
    <3>1. Len(now) \in Nat /\ Len(seen) \in Nat /\ cut \in Nat BY <1>1, <1>3
    <3>2. i \in Nat /\ j \in Nat /\ 1 <= i /\ i <= Len(now) /\ 1 <= j /\ j <= Len(now)
      BY <2>1, <3>1
    <3> QED BY <3>1, <3>2
  <2>4. i + cut = j + cut BY <1>7, <2>2, <2>3
  <2> QED BY <1>1, <2>1, <2>4
<1>9. Remembers(now, took, a)
  <2>1. Len(now) \in DOMAIN now
    <3>1. Len(now) > 0 BY <1>1, <1>3, <1>4
    <3> QED BY <1>1, <1>5, <3>1
  <2>2. now[Len(now)] = all[Len(seen) + 1] BY <1>1, <1>3, <1>5, <2>1
  <2>3. \A j \in Len(now) + 1 .. Len(now) : FALSE BY <1>1
  <2> QED BY <1>1, <2>1, <2>2, <2>3 DEF Remembers
<1>10. ASSUME NEW b \in Alerts \ {a}, ~Lapsed(took, b, MaxSeen)
       PROVE  Remembers(now, took, b)
  <2>1. ~Lapsed(memory, b, MaxSeen) BY <1>2, <1>4, <1>10
  <2>2. PICK i \in DOMAIN seen : seen[i] = b /\ \A j \in i + 1 .. Len(seen) : seen[j] \in memory[b]
    BY <2>1 DEF Remembers
  <2>3. i \in Nat /\ 1 <= i /\ i <= Len(seen) BY <1>3, <2>2
  <2> DEFINE J == i + 1 .. Len(seen) + 1
             f == [j \in J |-> all[j]]
  <2>4. \A j \in J : all[j] \in took[b]
    <3> SUFFICES ASSUME NEW j \in J PROVE all[j] \in took[b] OBVIOUS
    <3>1. CASE j = Len(seen) + 1 BY <1>1, <1>2, <1>10, <3>1
    <3>2. CASE j # Len(seen) + 1
      <4>1. j \in i + 1 .. Len(seen) /\ j \in 1 .. Len(seen) BY <1>3, <2>3, <3>2
      <4>2. seen[j] \in memory[b] BY <2>2, <4>1
      <4>3. all[j] = seen[j] BY <1>1, <4>1
      <4> QED BY <1>2, <1>10, <4>2, <4>3
    <3> QED BY <3>1, <3>2
  <2>5. \A j, k \in J : all[j] = all[k] => j = k BY <1>3, <1>7, <2>3
  <2>6. f \in [J -> took[b]] /\ DOMAIN f = J /\ \A j, k \in J : f[j] = f[k] => j = k
    BY <2>4, <2>5
  <2> HIDE DEF f
  <2>7. f \in Injection(J, took[b]) BY <2>6 DEF Injection, IsInjective
  <2>8. IsFiniteSet(took[b]) BY <1>2
  <2>9. Cardinality(J) <= Cardinality(took[b]) BY <2>7, <2>8, FS_Injection
  <2>10. Cardinality(J) = Len(seen) + 1 - i
    <3>1. i + 1 \in Int /\ Len(seen) + 1 \in Int BY <1>3, <2>3
    <3> HIDE DEF J
    <3>2. Cardinality(J) = IF i + 1 > Len(seen) + 1 THEN 0 ELSE (Len(seen) + 1) - (i + 1) + 1
      BY <3>1, FS_Interval DEF J
    <3> QED BY <1>3, <2>3, <3>2
  <2>11. Cardinality(took[b]) \in Nat /\ Cardinality(took[b]) < MaxSeen
    BY <1>4, <1>10, <2>8, SmallMemory
  <2>12. Len(seen) + 1 - i < MaxSeen BY <1>3, <1>4, <2>3, <2>9, <2>10, <2>11
  <2>13. i - cut \in 1 .. Len(now) BY <1>1, <1>3, <1>4, <2>3, <2>12
  <2>14. now[i - cut] = b
    <3>1. now[i - cut] = all[i - cut + cut] BY <1>1, <2>13
    <3>2. i - cut + cut = i BY <1>1, <2>3
    <3>3. all[i] = seen[i] BY <1>1, <2>3
    <3> QED BY <2>2, <3>1, <3>2, <3>3
  <2>15. ASSUME NEW j \in i - cut + 1 .. Len(now)
         PROVE  now[j] \in took[b]
    <3>1. j \in 1 .. Len(now) /\ j + cut \in J BY <1>1, <1>3, <2>3, <2>13
    <3> HIDE DEF J
    <3> QED BY <1>1, <2>4, <3>1
  <2> QED BY <1>5, <2>13, <2>14, <2>15 DEF Remembers
<1>11. \A b \in Alerts : Remembers(now, took, b)
  <2>1. \A b \in Alerts \ {a} : Remembers(now, took, b) BY <1>10 DEF Remembers
  <2> QED BY <1>9, <2>1
<1>12. /\ now \in Seq(Alerts) /\ \A i, j \in DOMAIN now : now[i] = now[j] => i = j
       /\ \A b \in Alerts : Remembers(now, took, b)
  BY <1>1, <1>8, <1>11
<1> QED BY <1>12 DEF now, all, took

LEMMA CountSteps ==
  ASSUME NEW f \in Counts, NEW a \in Alerts
  PROVE  /\ f[a] \in Nat /\ Plus(f, a) \in Counts /\ Plus(f, a)[a] = f[a] + 1
         /\ f[a] > 0 => Minus(f, a) \in Counts /\ Minus(f, a)[a] = f[a] - 1
         /\ \A b \in Alerts \ {a} : Plus(f, a)[b] = f[b] /\ Minus(f, a)[b] = f[b]
BY DEF Counts, Plus, Minus

LEMMA AlertInitial == AlertInit => AlertsInv
<1> SUFFICES ASSUME AlertInit PROVE AlertsInv OBVIOUS
<1>1. /\ copies = << >> /\ DOMAIN rows = {} /\ page = Closed /\ jobs = NoJobs
      /\ alerted = [shown |-> Zero, played |-> Zero] /\ due = [store |-> Zero, player |-> Zero]
      /\ since = [store |-> New, player |-> New] /\ queued = {} /\ raised = {}
  BY DEF AlertInit
<1>2. Zero \in Counts /\ New \in Memories /\ \A a \in Alerts : Zero[a] = 0 /\ New[a] = {"age"}
  BY DEF Zero, New, Counts, Memories
<1>3. IsFiniteSet({"age"}) BY FS_Singleton
<1>4. AlertTypeOK
  <2>1. /\ jobs \in [claim : Counts, look : Counts]
        /\ alerted \in [shown : Counts, played : Counts] /\ due \in [store : Counts, player : Counts]
        /\ since \in [store : Memories, player : Memories]
    BY <1>1, <1>2 DEF NoJobs
  <2>2. \A a \in Alerts : IsFiniteSet(since.store[a]) /\ IsFiniteSet(since.player[a])
    BY <1>1, <1>2, <1>3
  <2>3. page \in [state : {"closed", "visible", "hidden"}, seen : Seq(Alerts), mail : Seq(Alerts)]
    BY <1>1 DEF Closed
  <2> QED BY <1>1, <2>1, <2>2, <2>3 DEF AlertTypeOK
<1>5. Accounted BY <1>1, <1>2 DEF Accounted, NoJobs
<1>6. \A a \in Alerts : RowHeld(a) BY <1>1, <1>2 DEF RowHeld, Lapsed
<1>7. SeenOnce /\ ~Open BY <1>1 DEF SeenOnce, Open, Closed
<1> QED BY <1>4, <1>5, <1>6, <1>7 DEF AlertsInv

\* Steps that leave the store as it is, or the player.
StoreSame == UNCHANGED <<rows, since.store>>
PlayerSame == UNCHANGED <<page, since.player>>

LEMMA RowsStay ==
  ASSUME AlertsInv, StoreSame PROVE \A a \in Alerts : RowHeld(a)'
BY DEF AlertsInv, RowHeld, Lapsed, Held, StoreSame

LEMMA PageStays ==
  ASSUME AlertsInv, PlayerSame
  PROVE  SeenOnce' /\ (Open' => \A a \in Alerts : Remembers(page.seen, since.player, a)')
BY DEF AlertsInv, SeenOnce, Open, Remembers, Lapsed, PlayerSame

\* A claim: a row is there, or is stored, or the event goes through without one.
LEMMA ClaimAlert ==
  ASSUME AlertsInv, NEW a \in Alerts, Claim(a)
  PROVE  AlertsInv'
<1>1. /\ UNCHANGED <<raised, queued, copies, page, alerted>> /\ jobs.claim[a] > 0
      /\ AlertTypeOK /\ Accounted /\ jobs.claim \in Counts /\ jobs.look \in Counts
      /\ due.store \in Counts /\ due.player \in Counts /\ since.store \in Memories
      /\ alerted.shown \in Counts
  BY DEF Claim, AlertsInv, AlertTypeOK
<1>2. CASE Held(a) /\ jobs' = [jobs EXCEPT !.claim = Minus(@, a)] /\ UNCHANGED <<rows, since, due>>
  <2>1. jobs' \in [claim : Counts, look : Counts] /\ jobs'.look = jobs.look
    BY <1>1, <1>2, CountSteps DEF AlertTypeOK
  <2>2. AlertTypeOK' BY <1>1, <1>2, <2>1 DEF AlertTypeOK
  <2>3. Accounted' BY <1>1, <1>2, <2>1 DEF Accounted
  <2> QED BY <1>1, <1>2, <2>2, <2>3, RowsStay, PageStays DEF AlertsInv, StoreSame, PlayerSame
<1>3. ASSUME jobs' = [jobs EXCEPT !.claim = Minus(@, a), !.look = Plus(@, a)],
             due' = [due EXCEPT !.store = Plus(@, a)]
      PROVE  /\ jobs' \in [claim : Counts, look : Counts] /\ due' \in [store : Counts, player : Counts]
             /\ Accounted'
  <2>1. /\ jobs' \in [claim : Counts, look : Counts] /\ jobs'.look = Plus(jobs.look, a)
        /\ due' \in [store : Counts, player : Counts] /\ due'.store = Plus(due.store, a)
        /\ due'.player = due.player
    BY <1>1, <1>3, CountSteps DEF AlertTypeOK
  <2>2. ASSUME NEW b \in Alerts PROVE alerted.shown[b] + jobs'.look[b] <= due'.store[b]
    <3>1. /\ alerted.shown[b] + jobs.look[b] <= due.store[b]
          /\ alerted.shown[b] \in Nat /\ jobs.look[b] \in Nat /\ due.store[b] \in Nat
      BY <1>1, CountSteps DEF Accounted
    <3>2. CASE b = a
      <4>1. jobs'.look[b] = jobs.look[b] + 1 /\ due'.store[b] = due.store[b] + 1
        BY <1>1, <2>1, <3>2, CountSteps
      <4> QED BY <3>1, <4>1
    <3>3. CASE b # a
      <4>1. b \in Alerts \ {a} BY <3>3
      <4>2. Plus(jobs.look, a)[b] = jobs.look[b] BY <1>1, <4>1, CountSteps
      <4>3. Plus(due.store, a)[b] = due.store[b] BY <1>1, <4>1, CountSteps
      <4> QED BY <2>1, <3>1, <4>2, <4>3
    <3> QED BY <3>2, <3>3
  <2>3. \A b \in Alerts : alerted'.played[b] <= due'.player[b] BY <1>1, <2>1 DEF Accounted
  <2> QED BY <1>1, <2>1, <2>2, <2>3 DEF Accounted
<1>4. CASE /\ ~Held(a) /\ rows' = Stored(a)
           /\ jobs' = [jobs EXCEPT !.claim = Minus(@, a), !.look = Plus(@, a)]
           /\ due' = IF Lapsed(since.store, a, MaxEntries) THEN [due EXCEPT !.store = Plus(@, a)]
                     ELSE due
           /\ since' = [since EXCEPT !.store = Took(@, a)]
  <2>1. Lapsed(since.store, a, MaxEntries) BY <1>4 DEF AlertsInv, RowHeld
  <2>2. due' = [due EXCEPT !.store = Plus(@, a)] BY <1>4, <2>1
  <2>3. /\ since'.store = Took(since.store, a) /\ since'.player = since.player
        /\ since' \in [store : Memories, player : Memories]
        /\ \A b \in Alerts : IsFiniteSet(since'.store[b]) /\ IsFiniteSet(since'.player[b])
    <3>1. /\ Took(since.store, a) \in Memories
          /\ \A b \in Alerts : IsFiniteSet(Took(since.store, a)[b])
      BY <1>1, TookMore DEF AlertTypeOK
    <3>2. since'.store = Took(since.store, a) /\ since'.player = since.player
      BY <1>1, <1>4 DEF AlertTypeOK
    <3> QED BY <1>1, <1>4, <3>1, <3>2 DEF AlertTypeOK
  <2>4. \A b \in DOMAIN rows' : /\ DOMAIN rows'[b] = {"after", "old"}
                                /\ rows'[b].after \in Nat /\ rows'[b].old \in BOOLEAN
    <3>1. rows' = [b \in {b \in Kept(a) : Fits(a, b)} |-> [after |-> After(a, b), old |-> FALSE]]
      BY <1>4 DEF Stored
    <3>2. \A b \in Kept(a) : After(a, b) \in Nat BY <1>1 DEF Kept, After, AlertTypeOK
    <3> QED BY <3>1, <3>2
  <2>5. AlertTypeOK'
    BY <1>1, <1>3, <1>4, <2>2, <2>3, <2>4 DEF AlertTypeOK
  <2>6. Accounted' BY <1>3, <1>4, <2>2
  <2>7. \A b \in Alerts : RowHeld(b)' BY <1>1, <1>4, StoredHolds DEF AlertsInv
  <2> QED BY <1>1, <2>3, <2>5, <2>6, <2>7, PageStays DEF AlertsInv, PlayerSame
<1>5. CASE /\ jobs' = [jobs EXCEPT !.claim = Minus(@, a), !.look = Plus(@, a)]
           /\ due' = [due EXCEPT !.store = Plus(@, a)] /\ UNCHANGED <<rows, since>>
  <2>1. AlertTypeOK' /\ Accounted' BY <1>1, <1>3, <1>5 DEF AlertTypeOK
  <2> QED BY <1>1, <1>5, <2>1, RowsStay, PageStays DEF AlertsInv, StoreSame, PlayerSame
<1> QED BY <1>2, <1>4, <1>5 DEF Claim

\* What was claimed is shown, or told to the page.
LEMMA DeliverAlert ==
  ASSUME AlertsInv, NEW a \in Alerts, Deliver(a)
  PROVE  AlertsInv'
<1>1. /\ UNCHANGED <<raised, queued, copies, rows, since, due>> /\ jobs.look[a] > 0
      /\ AlertTypeOK /\ Accounted /\ jobs.claim \in Counts /\ jobs.look \in Counts
      /\ alerted.shown \in Counts /\ alerted.played \in Counts /\ due.store \in Counts
      /\ page.mail \in Seq(Alerts)
      /\ jobs' = [jobs EXCEPT !.look = Minus(@, a)]
  BY DEF Deliver, AlertsInv, AlertTypeOK
<1>2. /\ jobs' \in [claim : Counts, look : Counts]
      /\ jobs'.look[a] = jobs.look[a] - 1 /\ \A b \in Alerts \ {a} : jobs'.look[b] = jobs.look[b]
  <2>1. /\ Minus(jobs.look, a) \in Counts /\ Minus(jobs.look, a)[a] = jobs.look[a] - 1
        /\ \A b \in Alerts \ {a} : Minus(jobs.look, a)[b] = jobs.look[b]
    BY <1>1, CountSteps
  <2>2. jobs' \in [claim : Counts, look : Counts] /\ jobs'.look = Minus(jobs.look, a)
    BY <1>1, <2>1 DEF AlertTypeOK
  <2> QED BY <2>1, <2>2
<1>3. \A b \in Alerts : RowHeld(b)' BY <1>1, RowsStay DEF StoreSame
<1>4. \A b \in Alerts : /\ alerted.shown[b] + jobs.look[b] <= due.store[b]
                        /\ alerted.played[b] <= due.player[b]
                        /\ alerted.shown[b] \in Nat /\ jobs.look[b] \in Nat /\ due.store[b] \in Nat
  BY <1>1, CountSteps DEF Accounted
<1>5. CASE page' = [page EXCEPT !.mail = Append(@, a)] /\ UNCHANGED alerted
  <2>1. Append(page.mail, a) \in Seq(Alerts) BY <1>1, AppendProperties
  <2>2. /\ page' \in [state : {"closed", "visible", "hidden"}, seen : Seq(Alerts), mail : Seq(Alerts)]
        /\ page'.seen = page.seen /\ page'.state = page.state
    BY <1>1, <1>5, <2>1 DEF AlertTypeOK
  <2>3. AlertTypeOK' BY <1>1, <1>2, <1>5, <2>2 DEF AlertTypeOK
  <2>4. Accounted'
    <3> SUFFICES ASSUME NEW b \in Alerts PROVE alerted.shown[b] + jobs'.look[b] <= due.store[b]
      BY <1>1, <1>4, <1>5 DEF Accounted
    <3>1. jobs'.look[b] \in Nat /\ jobs'.look[b] <= jobs.look[b] BY <1>1, <1>2, <1>4
    <3> QED BY <1>4, <3>1
  <2>5. SeenOnce' /\ (Open' => \A b \in Alerts : Remembers(page.seen, since.player, b)')
    BY <1>1, <2>2 DEF AlertsInv, SeenOnce, Open, Remembers, Lapsed
  <2> QED BY <1>3, <2>3, <2>4, <2>5 DEF AlertsInv
<1>6. CASE alerted' = [alerted EXCEPT !.shown = Plus(@, a)] /\ UNCHANGED page
  <2>1. /\ alerted' \in [shown : Counts, played : Counts] /\ alerted'.shown = Plus(alerted.shown, a)
        /\ alerted'.played = alerted.played
    BY <1>1, <1>6, CountSteps DEF AlertTypeOK
  <2>2. AlertTypeOK' BY <1>1, <1>2, <1>6, <2>1 DEF AlertTypeOK
  <2>3. ASSUME NEW b \in Alerts PROVE alerted'.shown[b] + jobs'.look[b] <= due.store[b]
    <3>1. CASE b = a
      <4>1. alerted'.shown[b] = alerted.shown[b] + 1 /\ jobs'.look[b] = jobs.look[b] - 1
        BY <1>1, <1>2, <2>1, <3>1, CountSteps
      <4> QED BY <1>4, <4>1
    <3>2. CASE b # a
      <4>1. b \in Alerts \ {a} BY <3>2
      <4>2. Plus(alerted.shown, a)[b] = alerted.shown[b] BY <1>1, <4>1, CountSteps
      <4>3. jobs'.look[b] = jobs.look[b] BY <1>2, <4>1
      <4> QED BY <1>4, <2>1, <4>2, <4>3
    <3> QED BY <3>1, <3>2
  <2>4. Accounted' BY <1>1, <1>4, <2>1, <2>3 DEF Accounted
  <2> QED BY <1>1, <1>3, <1>6, <2>2, <2>4, PageStays DEF AlertsInv, PlayerSame
<1> QED BY <1>5, <1>6 DEF Deliver

\* The player takes an alert it has not seen, and plays it if the page is visible.
LEMMA PlayAlert ==
  ASSUME AlertsInv, Open, NEW a \in Alerts, NEW mail \in Seq(Alerts), Play(a, mail),
         UNCHANGED <<raised, queued, rows, jobs>>, copies' \in Seq(Alerts)
  PROVE  AlertsInv'
<1>1. /\ AlertTypeOK /\ Accounted /\ SeenOnce /\ page.seen \in Seq(Alerts)
      /\ since.player \in Memories /\ \A b \in Alerts : IsFiniteSet(since.player[b])
      /\ alerted.played \in Counts /\ due.player \in Counts
      /\ \A b \in Alerts : Remembers(page.seen, since.player, b)
  BY DEF AlertsInv, AlertTypeOK
<1>2. CASE page' = [page EXCEPT !.mail = mail] /\ UNCHANGED <<alerted, since, due>>
  <2>1. /\ page' \in [state : {"closed", "visible", "hidden"}, seen : Seq(Alerts), mail : Seq(Alerts)]
        /\ page'.seen = page.seen /\ page'.state = page.state
    BY <1>1, <1>2 DEF AlertTypeOK
  <2>2. AlertTypeOK' BY <1>1, <1>2, <2>1 DEF AlertTypeOK
  <2>3. Accounted' BY <1>1, <1>2 DEF Accounted
  <2>4. SeenOnce' /\ (Open' => \A b \in Alerts : Remembers(page.seen, since.player, b)')
    BY <1>1, <1>2, <2>1 DEF SeenOnce, Remembers, Lapsed
  <2> QED BY <1>2, <2>2, <2>3, <2>4, RowsStay DEF AlertsInv, StoreSame
<1>3. CASE a \notin Range(page.seen)
  <2> DEFINE now == Newest(MaxSeen, Append(page.seen, a))
             took == Took(since.player, a)
  <2>1. /\ page' = [page EXCEPT !.mail = mail, !.seen = now]
        /\ alerted' \in {alerted, [alerted EXCEPT !.played = Plus(@, a)]}
        /\ since' = [since EXCEPT !.player = took]
    BY <1>3 DEF Play
  <2>2. Lapsed(since.player, a, MaxSeen)
    <3>1. \A i \in DOMAIN page.seen : page.seen[i] # a BY <1>3 DEF Range
    <3> QED BY <1>1, <3>1 DEF Remembers
  <2>3. due' = [due EXCEPT !.player = Plus(@, a)] BY <1>3, <2>2 DEF Play
  <2>4. /\ now \in Seq(Alerts) /\ \A i, j \in DOMAIN now : now[i] = now[j] => i = j
        /\ \A b \in Alerts : Remembers(now, took, b)
    BY <1>1, <1>3, PlayedRemembers DEF SeenOnce
  <2>5. took \in Memories /\ \A b \in Alerts : IsFiniteSet(took[b]) BY <1>1, TookMore
  <2> HIDE DEF now, took
  <2>6. /\ page' \in [state : {"closed", "visible", "hidden"}, seen : Seq(Alerts), mail : Seq(Alerts)]
        /\ page'.seen = now
    BY <1>1, <2>1, <2>4 DEF AlertTypeOK
  <2>7. /\ since' \in [store : Memories, player : Memories] /\ since'.player = took
        /\ since'.store = since.store
    BY <1>1, <2>1, <2>5 DEF AlertTypeOK
  <2>8. Plus(due.player, a) \in Counts /\ Plus(alerted.played, a) \in Counts
    BY <1>1, CountSteps
  <2>9. /\ due' \in [store : Counts, player : Counts] /\ due'.player = Plus(due.player, a)
        /\ due'.store = due.store
    BY <1>1, <2>3, <2>8 DEF AlertTypeOK
  <2>10. /\ alerted' \in [shown : Counts, played : Counts] /\ alerted'.shown = alerted.shown
         /\ alerted'.played \in {alerted.played, Plus(alerted.played, a)}
    BY <1>1, <2>1, <2>8 DEF AlertTypeOK
  <2>11. AlertTypeOK' BY <1>1, <2>5, <2>6, <2>7, <2>9, <2>10 DEF AlertTypeOK
  <2>12. ASSUME NEW b \in Alerts PROVE alerted'.played[b] <= due'.player[b]
    <3>1. alerted.played[b] <= due.player[b] /\ alerted.played[b] \in Nat /\ due.player[b] \in Nat
      BY <1>1, CountSteps DEF Accounted
    <3>2. Plus(due.player, a)[b] = IF b = a THEN due.player[b] + 1 ELSE due.player[b]
      BY <1>1 DEF Plus, Counts
    <3>3. Plus(alerted.played, a)[b] = IF b = a THEN alerted.played[b] + 1 ELSE alerted.played[b]
      BY <1>1 DEF Plus, Counts
    <3> QED BY <2>9, <2>10, <3>1, <3>2, <3>3
  <2>13. Accounted' BY <1>1, <2>9, <2>10, <2>12 DEF Accounted
  <2>14. SeenOnce' BY <2>4, <2>6 DEF SeenOnce
  <2>15. \A b \in Alerts : Remembers(page.seen, since.player, b)' BY <2>4, <2>6, <2>7
  <2>16. \A b \in Alerts : RowHeld(b)' BY <2>7, RowsStay DEF StoreSame
  <2> QED BY <2>11, <2>13, <2>14, <2>15, <2>16 DEF AlertsInv
<1> QED BY <1>2, <1>3 DEF Play

\* A page that is loaded has seen and played nothing.
LEMMA LoadedPage ==
  ASSUME AlertsInv, Loaded, UNCHANGED <<raised, queued, copies, rows, jobs>>
  PROVE  AlertsInv'
<1>1. /\ AlertTypeOK /\ Accounted /\ due.store \in Counts /\ alerted.shown \in Counts
      /\ since.store \in Memories
  BY DEF AlertsInv, AlertTypeOK
<1>2. Zero \in Counts /\ New \in Memories /\ \A a \in Alerts : Zero[a] = 0 /\ New[a] = {"age"}
  BY DEF Zero, New, Counts, Memories
<1>3. /\ page'.seen = << >> /\ page'.state = "visible"
      /\ page' \in [state : {"closed", "visible", "hidden"}, seen : Seq(Alerts), mail : Seq(Alerts)]
  <2>1. page' = [state |-> "visible", seen |-> << >>, mail |-> << >>] BY DEF Loaded, Closed
  <2>2. << >> \in Seq(Alerts) OBVIOUS
  <2> QED BY <2>1, <2>2
<1>4. /\ alerted' \in [shown : Counts, played : Counts] /\ alerted'.shown = alerted.shown
      /\ alerted'.played = Zero
      /\ due' \in [store : Counts, player : Counts] /\ due'.store = due.store /\ due'.player = Zero
      /\ since' \in [store : Memories, player : Memories] /\ since'.store = since.store
      /\ since'.player = New
  BY <1>1, <1>2 DEF Loaded, AlertTypeOK
<1>5. IsFiniteSet({"age"}) BY FS_Singleton
<1>6. AlertTypeOK' BY <1>1, <1>2, <1>3, <1>4, <1>5 DEF AlertTypeOK
<1>7. Accounted' BY <1>1, <1>2, <1>4 DEF Accounted
<1>8. SeenOnce' /\ \A a \in Alerts : Remembers(page.seen, since.player, a)'
  BY <1>2, <1>3, <1>4 DEF SeenOnce, Remembers, Lapsed
<1>9. \A a \in Alerts : RowHeld(a)' BY <1>4, RowsStay DEF StoreSame
<1> QED BY <1>6, <1>7, <1>8, <1>9 DEF AlertsInv

LEMMA AlertSteps == AlertsInv /\ AlertNext => AlertsInv'
<1> SUFFICES ASSUME AlertsInv, AlertNext PROVE AlertsInv' OBVIOUS
<1>t. AlertTypeOK /\ Accounted BY DEF AlertsInv
<1>1. CASE Raise
  <2>1. UNCHANGED <<rows, jobs, page, alerted, since, due>> BY <1>1 DEF Raise
  <2>2. queued' \subseteq Alerts /\ raised' \subseteq Alerts BY <1>1, <1>t DEF Raise, AlertTypeOK
  <2>3. copies' \in Seq(Alerts)
    <3>1. copies \in Seq(Alerts) BY <1>t DEF AlertTypeOK
    <3>2. \A a \in Alerts : Append(copies, a) \in Seq(Alerts) BY <3>1, AppendProperties
    <3> QED BY <1>1, <3>1, <3>2 DEF Raise
  <2>4. AlertTypeOK' /\ Accounted' BY <1>t, <2>1, <2>2, <2>3 DEF AlertTypeOK, Accounted
  <2> QED BY <2>1, <2>4, RowsStay, PageStays DEF AlertsInv, StoreSame, PlayerSame
<1>2. CASE Push
  <2>1. UNCHANGED <<raised, queued, copies, rows, page, alerted, since, due>> BY <1>2 DEF Push
  <2>2. PICK a \in Alerts : jobs' = [jobs EXCEPT !.claim = Plus(@, a)]
    BY <1>2, <1>t DEF Push, AlertTypeOK
  <2>3. Plus(jobs.claim, a) \in Counts BY <1>t, CountSteps DEF AlertTypeOK
  <2>4. jobs' \in [claim : Counts, look : Counts] /\ jobs'.look = jobs.look
    BY <1>t, <2>2, <2>3 DEF AlertTypeOK
  <2>5. AlertTypeOK' /\ Accounted' BY <1>t, <2>1, <2>4 DEF AlertTypeOK, Accounted
  <2> QED BY <2>1, <2>5, RowsStay, PageStays DEF AlertsInv, StoreSame, PlayerSame
<1>3. CASE Listen
  <2>1. /\ Open /\ UNCHANGED <<raised, queued, rows, jobs>> /\ copies \in Seq(Alerts)
        /\ page.mail \in Seq(Alerts)
    BY <1>3, <1>t DEF Listen, AlertTypeOK
  <2>2. CASE copies # << >> /\ copies' = Tail(copies) /\ Play(Head(copies), page.mail)
    BY <2>1, <2>2, HeadTailProperties, PlayAlert
  <2>3. CASE page.mail # << >> /\ Play(Head(page.mail), Tail(page.mail)) /\ UNCHANGED copies
    <3>1. Head(page.mail) \in Alerts /\ Tail(page.mail) \in Seq(Alerts)
      BY <2>1, <2>3, HeadTailProperties
    <3> QED BY <2>1, <2>3, <3>1, PlayAlert
  <2> QED BY <1>3, <2>2, <2>3 DEF Listen
<1>4. CASE OpenPage BY <1>4, LoadedPage DEF OpenPage
<1>5. ASSUME NEW state \in {"visible", "hidden"}, page' = [page EXCEPT !.state = state], Open,
             UNCHANGED <<raised, queued, copies, rows, jobs, alerted, since, due>>
      PROVE  AlertsInv'
  <2>1. /\ page' \in [state : {"closed", "visible", "hidden"}, seen : Seq(Alerts), mail : Seq(Alerts)]
        /\ page'.seen = page.seen
    BY <1>t, <1>5 DEF AlertTypeOK
  <2>2. AlertTypeOK' /\ Accounted' BY <1>t, <1>5, <2>1 DEF AlertTypeOK, Accounted
  <2>3. SeenOnce' /\ \A a \in Alerts : Remembers(page.seen, since.player, a)'
    BY <1>5, <2>1 DEF AlertsInv, SeenOnce, Remembers, Lapsed
  <2> QED BY <1>5, <2>2, <2>3, RowsStay DEF AlertsInv, StoreSame
<1>6. CASE Click
  <2>1. UNCHANGED <<raised, queued, copies, rows, jobs>> BY <1>6 DEF Click
  <2>2. CASE Open BY <1>5, <1>6, <2>1, <2>2 DEF Click
  <2>3. CASE ~Open BY <1>6, <2>1, <2>3, LoadedPage DEF Click
  <2> QED BY <2>2, <2>3
<1>7. CASE Turn BY <1>5, <1>7 DEF Turn
<1>8. CASE ClosePage
  <2>1. /\ UNCHANGED <<raised, queued, rows, jobs, alerted, since, due>>
        /\ copies' = << >> /\ page' = Closed
    BY <1>8 DEF ClosePage
  <2>2. /\ page' \in [state : {"closed", "visible", "hidden"}, seen : Seq(Alerts), mail : Seq(Alerts)]
        /\ page'.seen = << >> /\ page'.state = "closed"
    BY <2>1 DEF Closed
  <2>3. AlertTypeOK' /\ Accounted' BY <1>t, <2>1, <2>2 DEF AlertTypeOK, Accounted
  <2>4. SeenOnce' /\ ~Open' BY <2>2 DEF SeenOnce, Open
  <2> QED BY <2>1, <2>3, <2>4, RowsStay DEF AlertsInv, StoreSame
<1>9. CASE KillWorker
  <2>1. UNCHANGED <<raised, queued, copies, rows, page, alerted, since, due>> /\ jobs' = NoJobs
    BY <1>9 DEF KillWorker
  <2>2. jobs' \in [claim : Counts, look : Counts] /\ \A a \in Alerts : jobs'.look[a] = 0
    BY <2>1 DEF NoJobs, Zero, Counts
  <2>3. AlertTypeOK' BY <1>t, <2>1, <2>2 DEF AlertTypeOK
  <2>4. Accounted'
    <3>1. \A a \in Alerts : alerted.shown[a] \in Nat /\ jobs.look[a] \in Nat /\ due.store[a] \in Nat
      BY <1>t DEF AlertTypeOK, Counts
    <3> QED BY <1>t, <2>1, <2>2, <3>1 DEF Accounted
  <2> QED BY <2>1, <2>3, <2>4, RowsStay, PageStays DEF AlertsInv, StoreSame, PlayerSame
<1>10. CASE WeekPasses
  <2>1. /\ UNCHANGED <<raised, queued, copies, jobs, page, alerted, due>>
        /\ rows' = [a \in DOMAIN rows |-> [rows[a] EXCEPT !.old = TRUE]]
        /\ since' = [since EXCEPT !.store = [a \in Alerts |-> since.store[a] \cup {"age"}]]
    BY <1>10 DEF WeekPasses
  <2>2. \A a \in DOMAIN rows' : /\ DOMAIN rows'[a] = {"after", "old"}
                                /\ rows'[a].after \in Nat /\ rows'[a].old \in BOOLEAN
    BY <1>t, <2>1 DEF AlertTypeOK
  <2>3. /\ since'.store = [a \in Alerts |-> since.store[a] \cup {"age"}]
        /\ since'.player = since.player /\ since' \in [store : Memories, player : Memories]
    BY <1>t, <2>1 DEF AlertTypeOK, Memories
  <2>4. \A a \in Alerts : IsFiniteSet(since.store[a] \cup {"age"})
    BY <1>t, FS_AddElement DEF AlertTypeOK
  <2>5. \A a \in Alerts : since'.store[a] = since.store[a] \cup {"age"} BY <2>3
  <2>6. \A a \in Alerts : IsFiniteSet(since'.store[a]) /\ IsFiniteSet(since'.player[a])
    BY <1>t, <2>3, <2>4, <2>5 DEF AlertTypeOK
  <2>7. AlertTypeOK' BY <1>t, <2>1, <2>2, <2>3, <2>6 DEF AlertTypeOK
  <2>8. Accounted' BY <1>t, <2>1 DEF Accounted
  <2>9. \A a \in Alerts : RowHeld(a)' BY <2>5 DEF RowHeld, Lapsed
  <2> QED BY <2>1, <2>3, <2>7, <2>8, <2>9, PageStays DEF AlertsInv, PlayerSame
<1>11. CASE \E a \in Alerts : Claim(a) \/ Deliver(a)
  BY <1>11, ClaimAlert, DeliverAlert
<1> QED BY <1>1, <1>2, <1>3, <1>4, <1>6, <1>7, <1>8, <1>9, <1>10, <1>11 DEF AlertNext

\* A phone shows and plays an alert no oftener than store and player may have forgotten it,
\* whatever sizes they have and however often pushes are repeated (claim, handlePush, handle).
THEOREM AlertsAlertOnce == Spec => []AlertedOnce
<1>1. Init => AlertsInv BY AlertInitial DEF Init
<1>2. AlertsInv /\ [Next]_vars => AlertsInv'
  <2> SUFFICES ASSUME AlertsInv, [Next]_vars PROVE AlertsInv' OBVIOUS
  <2>1. CASE AlertNext BY <2>1, AlertSteps
  <2>2. CASE UNCHANGED alertVars
    <3>1. UNCHANGED <<raised, queued, copies, rows, jobs, page, alerted, since, due>>
      BY <2>2 DEF alertVars
    <3>2. AlertTypeOK' /\ Accounted' BY <3>1 DEF AlertsInv, AlertTypeOK, Accounted
    <3> QED BY <3>1, <3>2, RowsStay, PageStays DEF AlertsInv, StoreSame, PlayerSame
  <2> QED BY <2>1, <2>2 DEF Next, vars
<1>3. AlertsInv => AlertedOnce
  <2> SUFFICES ASSUME AlertsInv, NEW a \in Alerts
               PROVE  alerted.shown[a] <= due.store[a] /\ alerted.played[a] <= due.player[a]
    BY DEF AlertedOnce
  <2>1. alerted.shown[a] \in Nat /\ jobs.look[a] \in Nat /\ due.store[a] \in Nat
    BY DEF AlertsInv, AlertTypeOK, Counts
  <2> QED BY <2>1 DEF AlertsInv, Accounted
<1> QED BY <1>1, <1>2, <1>3, PTL DEF Spec

-----------------------------------------------------------------------------
(***************************************************************************)
(* A message that is being sent is on the screen                            *)
(***************************************************************************)
\* A list is a sequence of whatever it holds.
IsList(s) == s \in Seq(ToSet(s))

LEMMA ListIs ==
  ASSUME NEW s, NEW S, s \in Seq(S)
  PROVE  /\ IsList(s) /\ Len(s) \in Nat /\ DOMAIN s = 1 .. Len(s)
         /\ ToSet(s) \subseteq S /\ ToSet(s) = {s[i] : i \in 1 .. Len(s)}
<1>1. Len(s) \in Nat /\ s \in [1 .. Len(s) -> S] BY LenProperties
<1>2. ToSet(s) = {s[i] : i \in 1 .. Len(s)} BY <1>1 DEF ToSet
<1>3. s \in [1 .. Len(s) -> ToSet(s)] BY <1>1, <1>2
<1>4. s \in Seq(ToSet(s)) BY <1>1, <1>3, IsASeq
<1> QED BY <1>1, <1>2, <1>4 DEF IsList

LEMMA LeastNatural ==
  ASSUME NEW S, S \subseteq Nat, S # {}
  PROVE  \E m \in S : \A x \in S : m <= x
<1>1. PICK m \in S : \A x \in S : ~(<<x, m>> \in OpToRel(<, Nat))
  BY NatLessThanWellFounded, WFMin
<1>2. ASSUME NEW x \in S PROVE ~(x < m) BY <1>1 DEF OpToRel
<1>3. ASSUME NEW x \in S PROVE m <= x BY <1>2
<1> QED BY <1>3

LEMMA LeastIs ==
  ASSUME NEW S, S \subseteq Nat, S # {}
  PROVE  Min(S) \in S
<1>1. \E m \in S : \A x \in S : m <= x BY LeastNatural
<1> QED BY <1>1 DEF Min

\* The places that AppendOrMerge looks for.
SameAt(shownAs, e) == SelectInSeq(shownAs, LAMBDA old : old.id = e.id)
TwinAt(shownAs, e) == SelectInSeq(shownAs, LAMBDA old : Reconciles(old, e))

LEMMA SameIs ==
  ASSUME NEW old, IsList(old), NEW e
  PROVE  /\ SameAt(old, e) # 0 => SameAt(old, e) \in 1 .. Len(old) /\ old[SameAt(old, e)].id = e.id
         /\ SameAt(old, e) = 0 => \A i \in 1 .. Len(old) : old[i].id # e.id
<1> DEFINE I == {i \in 1 .. Len(old) : old[i].id = e.id}
<1>1. SameAt(old, e) = IF I # {} THEN Min(I) ELSE 0 BY DEF SameAt, SelectInSeq
<1>2. I \subseteq Nat /\ \A i \in I : i # 0 BY ListIs DEF IsList
<1>3. I # {} => Min(I) \in I BY <1>2, LeastIs
<1> QED BY <1>1, <1>2, <1>3

LEMMA TwinIs ==
  ASSUME NEW old, IsList(old), NEW e, TwinAt(old, e) # 0
  PROVE  TwinAt(old, e) \in 1 .. Len(old) /\ Reconciles(old[TwinAt(old, e)], e)
<1> DEFINE I == {i \in 1 .. Len(old) : Reconciles(old[i], e)}
<1>1. TwinAt(old, e) = IF I # {} THEN Min(I) ELSE 0 BY DEF TwinAt, SelectInSeq
<1>2. I \subseteq Nat BY ListIs DEF IsList
<1>3. I # {} => Min(I) \in I BY <1>2, LeastIs
<1> QED BY <1>1, <1>3

\* Appending and replacing, of lists.
LEMMA AppendedList ==
  ASSUME NEW s, IsList(s), NEW e
  PROVE  IsList(Append(s, e)) /\ ToSet(Append(s, e)) = ToSet(s) \cup {e}
<1> DEFINE S == ToSet(s) \cup {e}
           t == Append(s, e)
<1>1. s \in Seq(S)
  <2>1. Len(s) \in Nat /\ s \in [1 .. Len(s) -> ToSet(s)] BY LenProperties DEF IsList
  <2>2. s \in [1 .. Len(s) -> S] BY <2>1
  <2> QED BY <2>1, <2>2, IsASeq
<1>2. e \in S OBVIOUS
<1>3. Len(s) \in Nat /\ ToSet(s) = {s[i] : i \in 1 .. Len(s)} BY ListIs DEF IsList
<1> HIDE DEF S
<1>4. /\ t \in Seq(S) /\ Len(t) = Len(s) + 1
      /\ \A i \in 1 .. Len(s) : t[i] = s[i] /\ t[Len(s) + 1] = e
  BY <1>1, <1>2, AppendProperties
<1>5. t[Len(s) + 1] = e BY <1>1, <1>2, AppendProperties
<1> HIDE DEF t
<1>6. IsList(t) /\ ToSet(t) = {t[i] : i \in 1 .. Len(t)} BY <1>4, ListIs
<1>7. \A i \in 1 .. Len(s) + 1 : i \in 1 .. Len(s) \/ i = Len(s) + 1 BY <1>3
<1>8. \A i \in 1 .. Len(s) : i \in 1 .. Len(s) + 1 BY <1>3
<1>9. Len(s) + 1 \in 1 .. Len(s) + 1 BY <1>3
<1>10. ToSet(t) = ToSet(s) \cup {e} BY <1>3, <1>4, <1>5, <1>6, <1>7, <1>8, <1>9
<1> QED BY <1>6, <1>10 DEF t

LEMMA ReplacedList ==
  ASSUME NEW s, IsList(s), NEW i \in 1 .. Len(s), NEW e
  PROVE  /\ IsList(ReplaceAt(s, i, e)) /\ ToSet(ReplaceAt(s, i, e)) \subseteq ToSet(s) \cup {e}
         /\ e \in ToSet(ReplaceAt(s, i, e))
         /\ \A x \in ToSet(s) : x = s[i] \/ x \in ToSet(ReplaceAt(s, i, e))
<1> DEFINE S == ToSet(s) \cup {e}
           t == ReplaceAt(s, i, e)
<1>1. /\ Len(s) \in Nat /\ s \in [1 .. Len(s) -> ToSet(s)]
      /\ ToSet(s) = {s[k] : k \in 1 .. Len(s)}
  BY ListIs, LenProperties DEF IsList
<1>2. t = [s EXCEPT ![i] = e] BY DEF ReplaceAt
<1>3. t \in [1 .. Len(s) -> S] BY <1>1, <1>2
<1>4. t[i] = e /\ \A k \in 1 .. Len(s) : k # i => t[k] = s[k] BY <1>1, <1>2
<1> HIDE DEF S, t
<1>5. t \in Seq(S) /\ Len(t) = Len(s) BY <1>1, <1>3, IsASeq, LenProperties
<1>6. IsList(t) /\ ToSet(t) \subseteq S /\ ToSet(t) = {t[k] : k \in 1 .. Len(s)} BY <1>5, ListIs
<1>7. \A x \in ToSet(s) : x = s[i] \/ x \in ToSet(t) BY <1>1, <1>4, <1>6
<1> QED BY <1>4, <1>6, <1>7 DEF S, t

LEMMA InsertedList ==
  ASSUME NEW s, IsList(s), NEW i \in 1 .. Len(s), NEW e
  PROVE  IsList(InsertAt(s, i, e)) /\ ToSet(InsertAt(s, i, e)) = ToSet(s) \cup {e}
<1> DEFINE S == ToSet(s) \cup {e}
           front == SubSeq(s, 1, i - 1)
           back == SubSeq(s, i, Len(s))
           one == <<e>>
           t == InsertAt(s, i, e)
           n == Len(s)
<1>1. /\ n \in Nat /\ ToSet(s) = {s[k] : k \in 1 .. n} /\ i \in Nat /\ i <= n /\ i >= 1
      /\ \A k \in 1 .. n : s[k] \in S
  BY ListIs DEF IsList
<1>2. t = (front \o one) \o back BY DEF InsertAt
<1>3. e \in S OBVIOUS
<1> HIDE DEF S, n
<1>4. /\ front \in Seq(S) /\ Len(front) = i - 1 /\ \A k \in 1 .. i - 1 : front[k] = s[k]
  <2>1. i - 1 \in Int /\ 1 \in Int /\ \A k \in 1 .. i - 1 : k \in 1 .. n /\ 1 + k - 1 = k BY <1>1
  <2>2. /\ front \in Seq(S) /\ Len(front) = IF 1 <= i - 1 THEN i - 1 - 1 + 1 ELSE 0
        /\ \A k \in 1 .. i - 1 - 1 + 1 : front[k] = s[1 + k - 1]
    BY <1>1, <2>1, SubSeqProperties
  <2>3. i - 1 - 1 + 1 = i - 1 /\ (1 <= i - 1 \/ i - 1 = 0) BY <1>1
  <2> HIDE DEF front
  <2> QED BY <2>1, <2>2, <2>3
<1>5. /\ back \in Seq(S) /\ Len(back) = n - i + 1 /\ \A k \in 1 .. n - i + 1 : back[k] = s[i + k - 1]
  <2>1. i \in Int /\ n \in Int /\ i <= n /\ \A k \in i .. n : k \in 1 .. n BY <1>1
  <2> QED BY <1>1, <2>1, SubSeqProperties DEF n
<1>6. one \in Seq(S) /\ Len(one) = 1 /\ one[1] = e BY <1>3
<1> HIDE DEF front, back, one, t
<1>7. /\ front \o one \in Seq(S) /\ Len(front \o one) = i
      /\ \A k \in 1 .. i - 1 : (front \o one)[k] = s[k]
      /\ (front \o one)[i] = e
  <2>1. /\ front \o one \in Seq(S) /\ Len(front \o one) = Len(front) + Len(one)
        /\ \A k \in 1 .. Len(front) + Len(one) :
             (front \o one)[k] = IF k <= Len(front) THEN front[k] ELSE one[k - Len(front)]
    BY <1>4, <1>6, ConcatProperties
  <2>2. Len(front) + Len(one) = i /\ i - Len(front) = 1 /\ ~(i <= Len(front)) BY <1>1, <1>4, <1>6
  <2>3. \A k \in 1 .. i - 1 : k \in 1 .. i /\ k <= Len(front) BY <1>1, <1>4
  <2>4. i \in 1 .. i BY <1>1
  <2> QED BY <1>4, <1>6, <2>1, <2>2, <2>3, <2>4
<1> DEFINE head == front \o one
<1> HIDE DEF head
<1>8. head \in Seq(S) /\ Len(head) = i /\ (\A k \in 1 .. i - 1 : head[k] = s[k]) /\ head[i] = e
      /\ t = head \o back
  BY <1>2, <1>7 DEF head
<1>9. /\ t \in Seq(S) /\ Len(t) = n + 1
      /\ \A k \in 1 .. i - 1 : t[k] = s[k]
      /\ t[i] = e
      /\ \A k \in i .. n : t[k + 1] = s[k]
  <2>1. /\ t \in Seq(S) /\ Len(t) = Len(head) + Len(back)
        /\ \A k \in 1 .. Len(head) + Len(back) :
             t[k] = IF k <= Len(head) THEN head[k] ELSE back[k - Len(head)]
    BY <1>5, <1>8, ConcatProperties
  <2>2. Len(head) + Len(back) = n + 1 BY <1>1, <1>5, <1>8
  <2>3. \A k \in 1 .. i : t[k] = head[k]
    <3>1. \A k \in 1 .. i : k \in 1 .. n + 1 /\ k <= Len(head) BY <1>1, <1>8
    <3> QED BY <2>1, <2>2, <3>1
  <2>4. \A k \in i .. n : t[k + 1] = s[k]
    <3> SUFFICES ASSUME NEW k \in i .. n PROVE t[k + 1] = s[k] OBVIOUS
    <3>1. k + 1 \in 1 .. n + 1 /\ ~(k + 1 <= Len(head)) /\ (k + 1) - Len(head) = k - i + 1
      BY <1>1, <1>8
    <3>2. t[k + 1] = back[k - i + 1] BY <2>1, <2>2, <3>1
    <3>3. k - i + 1 \in 1 .. n - i + 1 /\ i + (k - i + 1) - 1 = k BY <1>1
    <3> QED BY <1>5, <3>2, <3>3
  <2>5. i \in 1 .. i /\ \A k \in 1 .. i - 1 : k \in 1 .. i BY <1>1
  <2> QED BY <1>8, <2>1, <2>2, <2>3, <2>4, <2>5
<1>10. IsList(t) /\ ToSet(t) = {t[k] : k \in 1 .. n + 1} BY <1>9, ListIs
<1>11. ASSUME NEW x \in ToSet(t) PROVE x \in ToSet(s) \cup {e}
  <2>1. PICK k \in 1 .. n + 1 : x = t[k] BY <1>10
  <2>2. k \in 1 .. i - 1 \/ k = i \/ (k - 1 \in i .. n /\ (k - 1) + 1 = k) BY <1>1
  <2>3. \A m \in (1 .. i - 1) \cup (i .. n) : m \in 1 .. n BY <1>1
  <2> QED BY <1>1, <1>9, <2>1, <2>2, <2>3
<1>12. ASSUME NEW x \in ToSet(s) \cup {e} PROVE x \in ToSet(t)
  <2>1. CASE x = e
    <3>1. i \in 1 .. n + 1 BY <1>1
    <3> QED BY <1>9, <1>10, <2>1, <3>1
  <2>2. CASE x # e
    <3>1. PICK k \in 1 .. n : x = s[k] BY <1>1, <2>2
    <3>2. (k \in 1 .. i - 1 /\ k \in 1 .. n + 1) \/ (k \in i .. n /\ k + 1 \in 1 .. n + 1) BY <1>1
    <3> QED BY <1>9, <1>10, <3>1, <3>2
  <2> QED BY <2>1, <2>2
<1> QED BY <1>10, <1>11, <1>12 DEF t

-----------------------------------------------------------------------------
\* A set that holds 0 and every successor of its members holds every number.
LEMMA Induction ==
  ASSUME NEW S, 0 \in S, \A n \in Nat : n \in S => n + 1 \in S
  PROVE  Nat \subseteq S
<1> DEFINE T == Nat \ S
<1>1. SUFFICES ASSUME T # {} PROVE FALSE
  OBVIOUS
<1>2. PICK x \in T : \A y \in T : x <= y
  BY <1>1, LeastNatural
<1>3. x # 0 /\ x - 1 \in Nat /\ ~(x <= x - 1) /\ (x - 1) + 1 = x
  BY SMT
<1>4. x - 1 \notin T
  BY <1>2, <1>3
<1> QED BY <1>3, <1>4

\* What holds at 0 and goes on from each place to the next holds up to n.
LEMMA Climbs ==
  ASSUME NEW n \in Nat, NEW T, 0 \in T, \A i \in 1 .. n : i - 1 \in T => i \in T
  PROVE  n \in T
<1> DEFINE Reached == {k \in Nat : k <= n => k \in T}
<1>1. 0 \in Reached OBVIOUS
<1>2. ASSUME NEW k \in Nat, k \in Reached PROVE k + 1 \in Reached
  <2> SUFFICES ASSUME k + 1 <= n PROVE k + 1 \in T OBVIOUS
  <2>1. k \in T /\ k + 1 \in 1 .. n /\ (k + 1) - 1 = k BY <1>2
  <2> QED BY <2>1
<1> HIDE DEF Reached
<1>3. Nat \subseteq Reached BY <1>1, <1>2, Induction
<1> QED BY <1>3 DEF Reached

\* The three ways in which a list is made of another, one event after the other.
Folded(way, kept, done, e) ==
  IF way = "merge" THEN AppendOrMerge(done, e)
  ELSE IF way = "sort" THEN Inserted(done, e)
  ELSE IF e \in kept THEN Append(done, e) ELSE done
Folds(f, n, way, kept, events) ==
  f = [i \in 0 .. n |-> IF i = 0 THEN << >> ELSE Folded(way, kept, f[i - 1], events[i])]

LEMMA FoldSteps ==
  ASSUME NEW f, NEW n, NEW way, NEW kept, NEW events, Folds(f, n, way, kept, events)
  PROVE  \A i \in 0 .. n : f[i] = IF i = 0 THEN << >> ELSE Folded(way, kept, f[i - 1], events[i])
<1> DEFINE e(i) == IF i = 0 THEN << >> ELSE Folded(way, kept, f[i - 1], events[i])
<1>1. f = [i \in 0 .. n |-> e(i)] BY DEF Folds
<1> HIDE DEF e
<1>2. \A i \in 0 .. n : f[i] = e(i) BY <1>1
<1> QED BY <1>2 DEF e

LEMMA FoldExists ==
  ASSUME NEW n \in Nat, NEW way, NEW kept, NEW events
  PROVE  \E f : Folds(f, n, way, kept, events)
<1> DEFINE Reached == {k \in Nat : \E f : Folds(f, k, way, kept, events)}
<1>1. 0 \in Reached
  <2> DEFINE f == [i \in 0 .. 0 |-> << >>]
  <2>1. Folds(f, 0, way, kept, events) BY DEF Folds
  <2> QED BY <2>1
<1>2. ASSUME NEW k \in Nat, k \in Reached PROVE k + 1 \in Reached
  <2>1. PICK f : Folds(f, k, way, kept, events) BY <1>2
  <2> DEFINE g == [i \in 0 .. k + 1 |-> IF i = k + 1 THEN Folded(way, kept, f[k], events[i]) ELSE f[i]]
             step(h, i) == IF i = 0 THEN << >> ELSE Folded(way, kept, h[i - 1], events[i])
  <2>2. \A i \in 0 .. k : f[i] = step(f, i) BY <2>1, FoldSteps
  <2>3. \A i \in 0 .. k : g[i] = f[i] OBVIOUS
  <2>4. \A i \in 0 .. k + 1 : g[i] = step(g, i)
    <3> SUFFICES ASSUME NEW i \in 0 .. k + 1 PROVE g[i] = step(g, i) OBVIOUS
    <3>1. CASE i = 0
      <4>1. 0 \in 0 .. k /\ g[0] = f[0] BY <2>3
      <4> QED BY <3>1, <4>1, <2>2
    <3>2. CASE i # 0 /\ i # k + 1
      <4>1. i \in 0 .. k /\ i - 1 \in 0 .. k BY <3>2
      <4>2. g[i] = f[i] /\ g[i - 1] = f[i - 1] BY <4>1, <2>3
      <4> QED BY <3>2, <4>1, <4>2, <2>2
    <3>3. CASE i = k + 1
      <4>1. i - 1 = k /\ k \in 0 .. k /\ i # 0 BY <3>3
      <4>2. g[i - 1] = f[k] BY <2>3, <4>1
      <4>3. g[i] = Folded(way, kept, f[k], events[i]) BY <3>3
      <4> QED BY <4>1, <4>2, <4>3
    <3> QED BY <3>1, <3>2, <3>3
  <2>5. g = [i \in 0 .. k + 1 |-> g[i]] OBVIOUS
  <2>6. [i \in 0 .. k + 1 |-> g[i]] = [i \in 0 .. k + 1 |-> step(g, i)] BY <2>4
  <2>7. Folds(g, k + 1, way, kept, events) BY <2>5, <2>6 DEF Folds
  <2> QED BY <2>7
<1> HIDE DEF Reached
<1>3. Nat \subseteq Reached BY <1>1, <1>2, Induction
<1> QED BY <1>3 DEF Reached

\* Each of Merged, Sorted and Only is the last value of such a function.
LEMMA FoldIs ==
  ASSUME NEW events, Len(events) \in Nat, NEW kept
  PROVE  /\ \E f : Folds(f, Len(events), "merge", kept, events) /\ Merged(events) = f[Len(events)]
         /\ \E f : Folds(f, Len(events), "sort", kept, events) /\ Sorted(events) = f[Len(events)]
         /\ \E f : Folds(f, Len(events), "only", kept, events) /\ Only(events, kept) = f[Len(events)]
<1> DEFINE m == CHOOSE f : Folds(f, Len(events), "merge", kept, events)
           s == CHOOSE f : Folds(f, Len(events), "sort", kept, events)
           o == CHOOSE f : Folds(f, Len(events), "only", kept, events)
<1>1. /\ Folds(m, Len(events), "merge", kept, events)
      /\ Folds(s, Len(events), "sort", kept, events)
      /\ Folds(o, Len(events), "only", kept, events)
  BY FoldExists, Zenon
<1>2. Merged(events) = m[Len(events)] BY DEF Merged, Folds, Folded
<1>3. Sorted(events) = s[Len(events)] BY DEF Sorted, Folds, Folded
<1>4. Only(events, kept) = o[Len(events)] BY DEF Only, Folds, Folded
<1> HIDE DEF m, s, o
<1> QED BY <1>1, <1>2, <1>3, <1>4

-----------------------------------------------------------------------------
LEMMA FoldStarts ==
  ASSUME NEW f, NEW n \in Nat, NEW way, NEW kept, NEW events, Folds(f, n, way, kept, events)
  PROVE  f[0] = << >> /\ \A i \in 1 .. n : f[i] = Folded(way, kept, f[i - 1], events[i])
<1>1. 0 \in 0 .. n /\ \A i \in 1 .. n : i \in 0 .. n /\ i # 0 OBVIOUS
<1> QED BY <1>1, FoldSteps

\* What a list holds up to a place.
Upto(events, i) == {events[j] : j \in 1 .. i}

LEMMA UptoIs ==
  ASSUME NEW events, IsList(events)
  PROVE  /\ Len(events) \in Nat /\ Upto(events, 0) = {} /\ Upto(events, Len(events)) = ToSet(events)
         /\ \A i \in 1 .. Len(events) : Upto(events, i) = Upto(events, i - 1) \cup {events[i]}
<1>1. Len(events) \in Nat /\ ToSet(events) = {events[j] : j \in 1 .. Len(events)}
  BY ListIs DEF IsList
<1>2. Upto(events, 0) = {} BY DEF Upto
<1>3. ASSUME NEW i \in 1 .. Len(events) PROVE Upto(events, i) = Upto(events, i - 1) \cup {events[i]}
  <2>1. \A j \in 1 .. i : j \in 1 .. i - 1 \/ j = i BY <1>1
  <2>2. i \in 1 .. i /\ \A j \in 1 .. i - 1 : j \in 1 .. i BY <1>1
  <2> QED BY <2>1, <2>2 DEF Upto
<1> QED BY <1>1, <1>2, <1>3 DEF Upto

LEMMA EmptyList == IsList(<< >>) /\ ToSet(<< >>) = {}
<1> DEFINE none == << >>
<1>1. none \in Seq({}) OBVIOUS
<1> HIDE DEF none
<1>2. IsList(none) /\ ToSet(none) \subseteq {} BY <1>1, ListIs
<1> QED BY <1>2 DEF none

\* What is kept of a view.
LEMMA OnlyIs ==
  ASSUME NEW events, IsList(events), NEW kept
  PROVE  IsList(Only(events, kept)) /\ ToSet(Only(events, kept)) = ToSet(events) \cap kept
<1> DEFINE n == Len(events)
<1>1. n \in Nat BY UptoIs
<1>2. PICK f : Folds(f, n, "only", kept, events) /\ Only(events, kept) = f[n] BY <1>1, FoldIs
<1>3. /\ f[0] = << >>
      /\ \A i \in 1 .. n : f[i] = IF events[i] \in kept THEN Append(f[i - 1], events[i]) ELSE f[i - 1]
  BY <1>1, <1>2, FoldStarts DEF Folded
<1> DEFINE T == {i \in Nat : IsList(f[i]) /\ ToSet(f[i]) = Upto(events, i) \cap kept}
<1>4. 0 \in T BY <1>3, UptoIs, EmptyList
<1>5. ASSUME NEW i \in 1 .. n, i - 1 \in T PROVE i \in T
  <2>1. IsList(f[i - 1]) /\ ToSet(f[i - 1]) = Upto(events, i - 1) \cap kept BY <1>5
  <2>2. Upto(events, i) = Upto(events, i - 1) \cup {events[i]} /\ i \in Nat BY UptoIs
  <2>3. CASE events[i] \in kept
    <3>1. f[i] = Append(f[i - 1], events[i]) BY <1>3, <2>3
    <3>2. IsList(f[i]) /\ ToSet(f[i]) = ToSet(f[i - 1]) \cup {events[i]} BY <2>1, <3>1, AppendedList
    <3> QED BY <2>1, <2>2, <2>3, <3>2
  <2>4. CASE events[i] \notin kept
    <3>1. f[i] = f[i - 1] BY <1>3, <2>4
    <3> QED BY <2>1, <2>2, <2>4, <3>1
  <2> QED BY <2>3, <2>4
<1> HIDE DEF T
<1>6. n \in T BY <1>1, <1>4, <1>5, Climbs
<1>7. IsList(f[n]) /\ ToSet(f[n]) = Upto(events, n) \cap kept BY <1>6 DEF T
<1> QED BY <1>2, <1>7, UptoIs

\* Sorting drops nothing and adds nothing.
LEMMA InsertedIs ==
  ASSUME NEW done, IsList(done), NEW e
  PROVE  IsList(Inserted(done, e)) /\ ToSet(Inserted(done, e)) = ToSet(done) \cup {e}
<1> DEFINE I == {i \in 1 .. Len(done) : Precedes(e, done[i])}
           place == IF I # {} THEN Min(I) ELSE 0
<1>1. Inserted(done, e) = IF place = 0 THEN Append(done, e) ELSE InsertAt(done, place, e)
  BY DEF Inserted, SelectInSeq
<1>2. I \subseteq Nat BY ListIs DEF IsList
<1>3. I # {} => Min(I) \in I BY <1>2, LeastIs
<1>4. place # 0 => place \in 1 .. Len(done) BY <1>3
<1> HIDE DEF place
<1> QED BY <1>1, <1>4, AppendedList, InsertedList

LEMMA SortedIs ==
  ASSUME NEW events, IsList(events)
  PROVE  IsList(Sorted(events)) /\ ToSet(Sorted(events)) = ToSet(events)
<1> DEFINE n == Len(events)
<1>1. n \in Nat BY UptoIs
<1>2. PICK f : Folds(f, n, "sort", {}, events) /\ Sorted(events) = f[n] BY <1>1, FoldIs
<1>3. f[0] = << >> /\ \A i \in 1 .. n : f[i] = Inserted(f[i - 1], events[i])
  BY <1>1, <1>2, FoldStarts DEF Folded
<1> DEFINE T == {i \in Nat : IsList(f[i]) /\ ToSet(f[i]) = Upto(events, i)}
<1>4. 0 \in T BY <1>3, UptoIs, EmptyList
<1>5. ASSUME NEW i \in 1 .. n, i - 1 \in T PROVE i \in T
  <2>1. IsList(f[i - 1]) /\ ToSet(f[i - 1]) = Upto(events, i - 1) BY <1>5
  <2>2. IsList(f[i]) /\ ToSet(f[i]) = ToSet(f[i - 1]) \cup {events[i]} BY <1>3, <2>1, InsertedIs
  <2>3. Upto(events, i) = Upto(events, i - 1) \cup {events[i]} /\ i \in Nat BY UptoIs
  <2> QED BY <2>1, <2>2, <2>3
<1> HIDE DEF T
<1>6. n \in T BY <1>1, <1>4, <1>5, Climbs
<1>7. IsList(f[n]) /\ ToSet(f[n]) = Upto(events, n) BY <1>6 DEF T
<1> QED BY <1>2, <1>7, UptoIs

-----------------------------------------------------------------------------
\* What appendOrMergeSessionEvent makes of a view: the other events stay, and the new
\* one is in it, or stands for another, or continues an answer.  A message that Codex
\* lists is not reconciled away.
Takes(old, e, new) ==
  /\ IsList(new)
  /\ \A x \in ToSet(new) :
       \/ x \in ToSet(old)
       \/ x = Begun(e)
       \/ x = e /\ (e.delta => \E y \in ToSet(old) : y.id = e.id /\ ~IsAnswer(y))
       \/ \E y \in ToSet(old) : e.delta /\ IsAnswer(y) /\ x = Streamed(y, e)
  /\ \A y \in ToSet(old) :
       \/ y \in ToSet(new) \/ IsAnswer(y)
       \/ e \in ToSet(new) /\ (y.id = e.id \/ (Reconciles(y, e) /\ ~Canonical(y)))
  /\ ~e.delta => \/ e \in ToSet(new) \/ Begun(e) \in ToSet(new)
                 \/ ~Canonical(e) /\ \E y \in ToSet(new) : Reconciles(y, e)

LEMMA AppendOrMergeIs ==
  ASSUME NEW old, IsList(old), NEW e
  PROVE  Takes(old, e, AppendOrMerge(old, e))
<1> DEFINE new == AppendOrMerge(old, e)
           same == SameAt(old, e)
           twin == TwinAt(old, e)
<1>1. new = IF same # 0 THEN MergedById(old, same, e)
            ELSE IF twin # 0 THEN Reconciled(old, twin, e) ELSE Appended(old, e)
  BY DEF AppendOrMerge, SameAt, TwinAt
<1>2. \A i \in 1 .. Len(old) : old[i] \in ToSet(old) BY ListIs DEF IsList
<1>3. Len(old) \in Nat BY ListIs DEF IsList
<1> HIDE DEF new, same, twin
<1> SUFFICES Takes(old, e, new) BY DEF new
<1>4. CASE same # 0
  <2>1. same \in 1 .. Len(old) /\ old[same].id = e.id BY <1>4, SameIs DEF same
  <2> DEFINE y == old[same]
             x == IF e.delta /\ IsAnswer(y) THEN Streamed(y, e) ELSE e
  <2>2. new = ReplaceAt(old, same, x) BY <1>1, <1>4 DEF MergedById
  <2>3. y \in ToSet(old) /\ y.id = e.id BY <1>2, <2>1
  <2> HIDE DEF x
  <2>4. /\ IsList(new) /\ ToSet(new) \subseteq ToSet(old) \cup {x} /\ x \in ToSet(new)
        /\ \A z \in ToSet(old) : z = y \/ z \in ToSet(new)
    BY <2>1, <2>2, ReplacedList
  <2> HIDE DEF y
  <2>5. CASE e.delta /\ IsAnswer(y)
    <3>1. x = Streamed(y, e) BY <2>5 DEF x
    <3> QED BY <2>3, <2>4, <2>5, <3>1 DEF Takes
  <2>6. CASE ~(e.delta /\ IsAnswer(y))
    <3>1. x = e BY <2>6 DEF x
    <3> QED BY <2>3, <2>4, <2>6, <3>1 DEF Takes
  <2> QED BY <2>5, <2>6
<1>5. CASE same = 0 /\ twin # 0
  <2>1. twin \in 1 .. Len(old) /\ Reconciles(old[twin], e) BY <1>5, TwinIs DEF twin
  <2> DEFINE y == old[twin]
  <2>2. ~e.delta BY <2>1 DEF Reconciles, IsUser
  <2>3. \/ new = old /\ ~Canonical(e)
        \/ new = ReplaceAt(old, twin, e) /\ ~Canonical(y)
    BY <1>1, <1>5, <2>1 DEF Reconciled, Reconciles, Canonical
  <2>4. y \in ToSet(old) /\ Reconciles(y, e) BY <1>2, <2>1
  <2>5. CASE new = old /\ ~Canonical(e) BY <2>2, <2>4, <2>5 DEF Takes
  <2>6. CASE new = ReplaceAt(old, twin, e) /\ ~Canonical(y)
    <3>1. /\ IsList(new) /\ ToSet(new) \subseteq ToSet(old) \cup {e} /\ e \in ToSet(new)
          /\ \A z \in ToSet(old) : z = y \/ z \in ToSet(new)
      BY <2>1, <2>6, ReplacedList
    <3> HIDE DEF y
    <3> QED BY <2>2, <2>4, <2>6, <3>1 DEF Takes
  <2> QED BY <2>3, <2>5, <2>6
<1>6. CASE same = 0 /\ twin = 0
  <2>1. new = Appended(old, e) BY <1>1, <1>6
  <2>2. CASE e.delta /\ old # << >> /\ IsAnswer(Last(old))
    <3> DEFINE y == old[Len(old)]
               x == Streamed(y, e)
    <3>1. y = Last(old) /\ IsAnswer(y) BY <2>2 DEF Last
    <3>2. Len(old) \in 1 .. Len(old)
      <4>1. Len(old) # 0 BY <2>2, EmptySeq DEF IsList
      <4> QED BY <1>3, <4>1
    <3>3. new = ReplaceAt(old, Len(old), x) BY <2>1, <2>2, <3>1 DEF Appended
    <3>4. y \in ToSet(old) BY <1>2, <3>2
    <3> HIDE DEF x
    <3>5. /\ IsList(new) /\ ToSet(new) \subseteq ToSet(old) \cup {x}
          /\ \A z \in ToSet(old) : z = y \/ z \in ToSet(new)
      BY <3>2, <3>3, ReplacedList
    <3> HIDE DEF y
    <3> QED BY <2>2, <3>1, <3>4, <3>5 DEF x, Takes
  <2>3. CASE ~(e.delta /\ old # << >> /\ IsAnswer(Last(old)))
    <3>1. new = Append(old, Begun(e)) BY <2>1, <2>3 DEF Appended
    <3>2. IsList(new) /\ ToSet(new) = ToSet(old) \cup {Begun(e)} BY <3>1, AppendedList
    <3> QED BY <3>2 DEF Takes
  <2> QED BY <2>2, <2>3
<1> QED BY <1>4, <1>5, <1>6

-----------------------------------------------------------------------------
EventFields == {"id", "by", "text", "turn", "delta", "pending", "at", "order"}
ItemFields == {"by", "text", "turn", "over", "at"}

\* What Codex has heard from the user.
SaidIn(its) == {its[n].text : n \in {n \in DOMAIN its : its[n].by = "user"}}

\* An event says what is so: one of the phone's messages has its words, one of Codex's its
\* item's, and a message that is not pending is one Codex has.
TrueOf(e, its, br) ==
  /\ DOMAIN e = EventFields /\ e.by \in {"user", "assistant"}
  /\ e.id[1] \in {"client", "live", "item"}
  /\ e.id[1] = "client" => /\ e.id[2] \in DOMAIN br /\ e.by = "user" /\ ~e.delta
                           /\ e.text = br[e.id[2]].text /\ e.turn = 0
  /\ e.id[1] # "client" => /\ e.id[2] \in DOMAIN its /\ e.by = its[e.id[2]].by /\ ~e.pending
                           /\ e.by = "user" => ~e.delta /\ e.text = its[e.id[2]].text
  /\ IsUser(e) /\ ~e.pending => e.text \in SaidIn(its)

TrueEvents(list, its, br) == IsList(list) /\ \A e \in ToSet(list) : TrueOf(e, its, br)
TrueView(list, its, br) == TrueEvents(list, its, br) /\ \A e \in ToSet(list) : ~e.delta

\* Two events of one id have one author, and the same words if it is the user.
LEMMA SameWords ==
  ASSUME NEW its, NEW br, NEW e, TrueOf(e, its, br), NEW y, TrueOf(y, its, br), y.id = e.id
  PROVE  y.by = e.by /\ (y.by = "user" => y.text = e.text /\ ~e.delta)
BY DEF TrueOf

LEMMA BegunIsTrue ==
  ASSUME NEW its, NEW br, NEW e, TrueOf(e, its, br)
  PROVE  /\ TrueOf(Begun(e), its, br) /\ ~Begun(e).delta
         /\ IsUser(e) => IsUser(Begun(e)) /\ Begun(e).text = e.text
<1> DEFINE b == Begun(e)
<1>1. /\ DOMAIN b = EventFields /\ b.id = e.id /\ b.by = e.by /\ b.text = e.text /\ b.turn = e.turn
      /\ b.pending = e.pending /\ b.delta = FALSE
  BY DEF Begun, TrueOf, EventFields
<1>2. e.delta => e.by # "user" BY DEF TrueOf
<1> HIDE DEF b
<1>3. TrueOf(b, its, br) BY <1>1, <1>2 DEF TrueOf, IsUser
<1> QED BY <1>1, <1>3 DEF b, IsUser

LEMMA StreamedIsTrue ==
  ASSUME NEW its, NEW br, NEW y, TrueOf(y, its, br), IsAnswer(y), NEW e
  PROVE  TrueOf(Streamed(y, e), its, br) /\ ~Streamed(y, e).delta
<1> DEFINE b == Streamed(y, e)
<1>1. /\ DOMAIN b = EventFields /\ b.id = y.id /\ b.by = y.by /\ b.turn = y.turn
      /\ b.pending = y.pending /\ b.delta = y.delta
  BY DEF Streamed, TrueOf, EventFields
<1>2. y.by = "assistant" /\ ~y.delta BY DEF IsAnswer
<1> HIDE DEF b
<1>3. TrueOf(b, its, br) BY <1>1, <1>2 DEF TrueOf, IsUser
<1> QED BY <1>1, <1>2, <1>3 DEF b

\* Taking an event in keeps a view true, and every message in it.
LEMMA TakenIsTrue ==
  ASSUME NEW its, NEW br, NEW old, TrueView(old, its, br), NEW e, TrueOf(e, its, br)
  PROVE  /\ TrueView(AppendOrMerge(old, e), its, br)
         /\ UserTexts(old) \subseteq UserTexts(AppendOrMerge(old, e))
         /\ IsUser(e) => e.text \in UserTexts(AppendOrMerge(old, e))
<1> DEFINE new == AppendOrMerge(old, e)
<1>1. Takes(old, e, new) BY AppendOrMergeIs DEF TrueView, TrueEvents
<1>2. \A y \in ToSet(old) : TrueOf(y, its, br) /\ ~y.delta BY DEF TrueView, TrueEvents
<1> HIDE DEF new
<1>3. ASSUME NEW x \in ToSet(new) PROVE TrueOf(x, its, br) /\ ~x.delta
  <2>1. CASE x \in ToSet(old) BY <1>2, <2>1
  <2>2. CASE x = Begun(e) BY <2>2, BegunIsTrue
  <2>3. CASE x = e /\ (e.delta => \E y \in ToSet(old) : y.id = e.id /\ ~IsAnswer(y))
    <3> SUFFICES ASSUME e.delta PROVE FALSE BY <2>3
    <3>1. PICK y \in ToSet(old) : y.id = e.id /\ ~IsAnswer(y) BY <2>3
    <3>2. TrueOf(y, its, br) /\ ~y.delta BY <1>2
    <3>3. y.by = "user" BY <3>1, <3>2 DEF IsAnswer, TrueOf
    <3> QED BY <3>1, <3>2, <3>3, SameWords
  <2>4. CASE \E y \in ToSet(old) : e.delta /\ IsAnswer(y) /\ x = Streamed(y, e)
    BY <1>2, <2>4, StreamedIsTrue
  <2> QED BY <1>1, <2>1, <2>2, <2>3, <2>4 DEF Takes
<1>4. ASSUME NEW t \in UserTexts(old) PROVE t \in UserTexts(new)
  <2>1. PICK y \in ToSet(old) : IsUser(y) /\ y.text = t BY DEF UserTexts
  <2>2. ~IsAnswer(y) BY <2>1 DEF IsAnswer, IsUser
  <2>3. CASE y \in ToSet(new) BY <2>1, <2>3 DEF UserTexts
  <2>4. CASE e \in ToSet(new) /\ y.id = e.id
    <3>1. IsUser(e) /\ e.text = t BY <1>2, <2>1, <2>4, SameWords DEF IsUser
    <3> QED BY <2>4, <3>1 DEF UserTexts
  <2>5. CASE e \in ToSet(new) /\ Reconciles(y, e)
    BY <2>1, <2>5 DEF UserTexts, Reconciles
  <2> QED BY <1>1, <2>2, <2>3, <2>4, <2>5 DEF Takes
<1>5. ASSUME IsUser(e) PROVE e.text \in UserTexts(new)
  <2>1. ~e.delta BY <1>5 DEF IsUser
  <2>2. CASE e \in ToSet(new) BY <1>5, <2>2 DEF UserTexts
  <2>3. CASE Begun(e) \in ToSet(new)
    <3>1. IsUser(Begun(e)) /\ Begun(e).text = e.text BY <1>5, BegunIsTrue
    <3> QED BY <2>3, <3>1 DEF UserTexts
  <2>4. CASE \E y \in ToSet(new) : Reconciles(y, e) BY <2>4 DEF UserTexts, Reconciles
  <2> QED BY <1>1, <2>1, <2>2, <2>3, <2>4 DEF Takes
<1>6. TrueView(new, its, br) BY <1>1, <1>3 DEF TrueView, TrueEvents, Takes
<1> QED BY <1>4, <1>5, <1>6 DEF new

\* Merging true events gives a true view, with every message of them.
LEMMA MergedIsTrue ==
  ASSUME NEW its, NEW br, NEW events, TrueEvents(events, its, br)
  PROVE  TrueView(Merged(events), its, br) /\ UserTexts(events) \subseteq UserTexts(Merged(events))
<1> DEFINE n == Len(events)
           Said(i) == {x.text : x \in {x \in Upto(events, i) : IsUser(x)}}
<1>0. IsList(events) BY DEF TrueEvents
<1>1. n \in Nat BY <1>0, UptoIs
<1>2. PICK f : Folds(f, n, "merge", {}, events) /\ Merged(events) = f[n] BY <1>1, FoldIs
<1>3. f[0] = << >> /\ \A i \in 1 .. n : f[i] = AppendOrMerge(f[i - 1], events[i])
  BY <1>1, <1>2, FoldStarts DEF Folded
<1> DEFINE T == {i \in Nat : TrueView(f[i], its, br) /\ Said(i) \subseteq UserTexts(f[i])}
<1>4. 0 \in T
  <2>1. TrueView(f[0], its, br) BY <1>3, EmptyList DEF TrueView, TrueEvents
  <2>2. Said(0) = {} BY <1>0, UptoIs
  <2> QED BY <2>1, <2>2
<1>5. ASSUME NEW i \in 1 .. n, i - 1 \in T PROVE i \in T
  <2>1. TrueView(f[i - 1], its, br) /\ Said(i - 1) \subseteq UserTexts(f[i - 1]) BY <1>5
  <2>2. TrueOf(events[i], its, br)
    <3>1. events[i] \in ToSet(events) BY <1>0, ListIs DEF IsList
    <3> QED BY <3>1 DEF TrueEvents
  <2>3. /\ TrueView(f[i], its, br) /\ UserTexts(f[i - 1]) \subseteq UserTexts(f[i])
        /\ IsUser(events[i]) => events[i].text \in UserTexts(f[i])
    BY <1>3, <2>1, <2>2, TakenIsTrue
  <2>4. Upto(events, i) = Upto(events, i - 1) \cup {events[i]} /\ i \in Nat BY <1>0, UptoIs
  <2>5. Said(i) \subseteq Said(i - 1) \cup (IF IsUser(events[i]) THEN {events[i].text} ELSE {})
    BY <2>4
  <2> HIDE DEF Said
  <2> QED BY <2>1, <2>3, <2>4, <2>5
<1> HIDE DEF T
<1>6. n \in T BY <1>1, <1>4, <1>5, Climbs
<1>7. TrueView(f[n], its, br) /\ Said(n) \subseteq UserTexts(f[n]) BY <1>6 DEF T
<1>8. Said(n) = UserTexts(events) BY <1>0, UptoIs DEF UserTexts
<1> QED BY <1>2, <1>7, <1>8

LEMMA SortedIsTrue ==
  ASSUME NEW its, NEW br, NEW list, TrueView(list, its, br)
  PROVE  TrueView(Sorted(list), its, br) /\ UserTexts(Sorted(list)) = UserTexts(list)
BY SortedIs DEF TrueView, TrueEvents, UserTexts

LEMMA OnlyIsTrue ==
  ASSUME NEW its, NEW br, NEW list, TrueView(list, its, br), NEW kept
  PROVE  TrueView(Only(list, kept), its, br)
BY OnlyIs DEF TrueView, TrueEvents

LEMMA ListsTogether ==
  ASSUME NEW a, IsList(a), NEW b, IsList(b)
  PROVE  IsList(a \o b) /\ ToSet(a \o b) = ToSet(a) \cup ToSet(b)
<1> DEFINE S == ToSet(a) \cup ToSet(b)
           t == a \o b
           m == Len(a)
           n == Len(b)
<1>1. /\ m \in Nat /\ n \in Nat /\ a \in [1 .. m -> ToSet(a)] /\ b \in [1 .. n -> ToSet(b)]
      /\ ToSet(a) = {a[k] : k \in 1 .. m} /\ ToSet(b) = {b[k] : k \in 1 .. n}
  BY ListIs, LenProperties DEF IsList
<1>2. a \in Seq(S) /\ b \in Seq(S)
  <2>1. a \in [1 .. m -> S] /\ b \in [1 .. n -> S] BY <1>1
  <2> QED BY <1>1, <2>1, IsASeq
<1> HIDE DEF S
<1>3. /\ t \in Seq(S) /\ Len(t) = m + n
      /\ \A k \in 1 .. m + n : t[k] = IF k <= m THEN a[k] ELSE b[k - m]
  BY <1>2, ConcatProperties
<1> HIDE DEF t, m, n
<1>4. IsList(t) /\ ToSet(t) = {t[k] : k \in 1 .. m + n} BY <1>3, ListIs
<1>5. \A k \in 1 .. m : k \in 1 .. m + n /\ t[k] = a[k] BY <1>1, <1>3
<1>6. \A k \in 1 .. n : m + k \in 1 .. m + n /\ t[m + k] = b[k]
  <2> SUFFICES ASSUME NEW k \in 1 .. n PROVE m + k \in 1 .. m + n /\ t[m + k] = b[k] OBVIOUS
  <2>1. m + k \in 1 .. m + n /\ ~(m + k <= m) /\ (m + k) - m = k BY <1>1
  <2> QED BY <1>3, <2>1
<1>7. \A k \in 1 .. m + n : k \in 1 .. m \/ (k - m \in 1 .. n /\ m + (k - m) = k) BY <1>1
<1>8. ToSet(t) \subseteq ToSet(a) \cup ToSet(b) BY <1>1, <1>4, <1>5, <1>6, <1>7
<1>9. ToSet(a) \cup ToSet(b) \subseteq ToSet(t) BY <1>1, <1>4, <1>5, <1>6
<1> QED BY <1>4, <1>8, <1>9 DEF t

-----------------------------------------------------------------------------
\* Showing one more event.
LEMMA ShownIsTrue ==
  ASSUME NEW its, NEW br, NEW old, TrueView(old, its, br), NEW e, TrueOf(e, its, br)
  PROVE  /\ TrueView(Shows(old, e), its, br) /\ UserTexts(old) \subseteq UserTexts(Shows(old, e))
         /\ IsUser(e) => e.text \in UserTexts(Shows(old, e))
BY TakenIsTrue, SortedIsTrue DEF Shows

\* A page lists what Codex has: no message of the phone as the phone named it.
TruePage(listed, its, br) == TrueView(listed, its, br) /\ \A e \in ToSet(listed) : e.id[1] # "client"

\* What a page says of messages is what Codex has heard.
LEMMA PageIsSaid ==
  ASSUME NEW its, NEW br, NEW listed, TruePage(listed, its, br)
  PROVE  UserTexts(listed) \subseteq SaidIn(its)
<1> SUFFICES ASSUME NEW e \in ToSet(listed), IsUser(e) PROVE e.text \in SaidIn(its)
  BY DEF UserTexts
<1>1. TrueOf(e, its, br) /\ e.id[1] # "client" BY DEF TruePage, TrueView, TrueEvents
<1> QED BY <1>1 DEF TrueOf

\* A message that Codex has not heard is shown as pending, under the phone's name for it.
LEMMA UnheardIsPending ==
  ASSUME NEW its, NEW br, NEW e, TrueOf(e, its, br), IsUser(e), e.text \notin SaidIn(its)
  PROVE  e.pending /\ e.id[1] = "client" /\ e.turn = 0
BY DEF TrueOf

LEMMA TrueTogether ==
  ASSUME NEW its, NEW br, NEW a, TrueView(a, its, br), NEW b, TrueView(b, its, br)
  PROVE  TrueEvents(a \o b, its, br) /\ UserTexts(a \o b) = UserTexts(a) \cup UserTexts(b)
<1>1. IsList(a) /\ IsList(b) BY DEF TrueView, TrueEvents
<1>2. IsList(a \o b) /\ ToSet(a \o b) = ToSet(a) \cup ToSet(b) BY <1>1, ListsTogether
<1> DEFINE t == a \o b
<1> HIDE DEF t
<1>3. TrueEvents(t, its, br) BY <1>2 DEF TrueView, TrueEvents, t
<1>4. UserTexts(t) = UserTexts(a) \cup UserTexts(b) BY <1>2 DEF UserTexts, t
<1> QED BY <1>3, <1>4 DEF t

\* Neither kind of page takes away a message that Codex has not heard.
LEMMA PagesKeepUnheard ==
  ASSUME NEW its, NEW br, NEW old, TrueView(old, its, br), NEW listed, TruePage(listed, its, br)
  PROVE  /\ TrueView(MergePolled(old, listed), its, br) /\ TrueView(MergeIncremental(old, listed), its, br)
         /\ \A t \in UserTexts(old) : t \in SaidIn(its) \/ /\ t \in UserTexts(MergePolled(old, listed))
                                                           /\ t \in UserTexts(MergeIncremental(old, listed))
<1> DEFINE carried == Carried(old, listed)
           retained == Retained(old, listed)
<1>1. TrueView(listed, its, br) BY DEF TruePage
<1>2. TrueView(carried, its, br) /\ TrueView(retained, its, br)
  BY OnlyIsTrue DEF Carried, Retained
<1>3. ASSUME NEW t \in UserTexts(old), t \notin SaidIn(its)
      PROVE  t \in UserTexts(carried) /\ t \in UserTexts(retained)
  <2>1. PICK e \in ToSet(old) : IsUser(e) /\ e.text = t BY DEF UserTexts
  <2>2. TrueOf(e, its, br) BY DEF TrueView, TrueEvents
  <2>3. e.pending /\ e.id[1] = "client" /\ e.turn = 0 BY <1>3, <2>1, <2>2, UnheardIsPending
  <2>4. e.text \notin UserTexts(listed) BY <1>3, <2>1, PageIsSaid
  <2>5. \A new \in ToSet(listed) : ~Replaces(new, e) BY <2>3 DEF Replaces, TruePage
  <2>6. IsList(old) BY DEF TrueView, TrueEvents
  <2>7. e \in ToSet(carried) BY <2>3, <2>4, <2>6, OnlyIs DEF Carried
  <2>8. e \in ToSet(retained) BY <2>4, <2>5, <2>6, OnlyIs DEF Retained
  <2> QED BY <2>1, <2>7, <2>8 DEF UserTexts
<1> DEFINE first == listed \o carried
           second == retained \o listed
<1> HIDE DEF carried, retained
<1>4. /\ TrueEvents(first, its, br) /\ UserTexts(carried) \subseteq UserTexts(first)
      /\ TrueEvents(second, its, br) /\ UserTexts(retained) \subseteq UserTexts(second)
  BY <1>1, <1>2, TrueTogether
<1> HIDE DEF first, second
<1>5. /\ TrueView(Sorted(Merged(first)), its, br) /\ UserTexts(first) \subseteq UserTexts(Sorted(Merged(first)))
      /\ TrueView(Sorted(Merged(second)), its, br) /\ UserTexts(second) \subseteq UserTexts(Sorted(Merged(second)))
  BY <1>4, MergedIsTrue, SortedIsTrue
<1>6. MergePolled(old, listed) = Sorted(Merged(first)) /\ MergeIncremental(old, listed) = Sorted(Merged(second))
  BY DEF MergePolled, MergeIncremental, first, second, carried, retained
<1> QED BY <1>3, <1>4, <1>5, <1>6

-----------------------------------------------------------------------------
\* Codex and the Bridge add to what they have: they change no message.
Grown(its, br, its2, br2) ==
  /\ DOMAIN its \subseteq DOMAIN its2 /\ DOMAIN br \subseteq DOMAIN br2
  /\ \A n \in DOMAIN its : its2[n].by = its[n].by /\ (its[n].by = "user" => its2[n].text = its[n].text)
  /\ \A c \in DOMAIN br : br2[c].text = br[c].text

LEMMA GrownIsSaid ==
  ASSUME NEW its, NEW br, NEW its2, NEW br2, Grown(its, br, its2, br2)
  PROVE  SaidIn(its) \subseteq SaidIn(its2)
BY DEF Grown, SaidIn

LEMMA GrownIsTrue ==
  ASSUME NEW its, NEW br, NEW its2, NEW br2, Grown(its, br, its2, br2), NEW e, TrueOf(e, its, br)
  PROVE  TrueOf(e, its2, br2)
<1>1. SaidIn(its) \subseteq SaidIn(its2) BY GrownIsSaid
<1>2. /\ DOMAIN e = EventFields /\ e.by \in {"user", "assistant"}
      /\ e.id[1] \in {"client", "live", "item"}
  BY DEF TrueOf
<1>3. IsUser(e) /\ ~e.pending => e.text \in SaidIn(its2) BY <1>1 DEF TrueOf
<1>4. e.id[1] = "client" => /\ e.id[2] \in DOMAIN br2 /\ e.by = "user" /\ ~e.delta
                            /\ e.text = br2[e.id[2]].text /\ e.turn = 0
  BY DEF TrueOf, Grown
<1>5. e.id[1] # "client" => /\ e.id[2] \in DOMAIN its2 /\ e.by = its2[e.id[2]].by /\ ~e.pending
                            /\ e.by = "user" => ~e.delta /\ e.text = its2[e.id[2]].text
  BY DEF TrueOf, Grown
<1> QED BY <1>2, <1>3, <1>4, <1>5 DEF TrueOf

LEMMA GrownListsAreTrue ==
  ASSUME NEW its, NEW br, NEW its2, NEW br2, Grown(its, br, its2, br2), NEW list
  PROVE  /\ TrueEvents(list, its, br) => TrueEvents(list, its2, br2)
         /\ TrueView(list, its, br) => TrueView(list, its2, br2)
         /\ TruePage(list, its, br) => TruePage(list, its2, br2)
BY GrownIsTrue DEF TrueEvents, TrueView, TruePage

\* Appending to a list, by its places.
LEMMA AppendedAt ==
  ASSUME NEW s, IsList(s), NEW e
  PROVE  /\ Len(Append(s, e)) = Len(s) + 1 /\ DOMAIN Append(s, e) = 1 .. Len(s) + 1
         /\ Append(s, e)[Len(s) + 1] = e /\ \A i \in 1 .. Len(s) : Append(s, e)[i] = s[i]
<1> DEFINE S == ToSet(s) \cup {e}
<1>1. s \in Seq(S)
  <2>1. Len(s) \in Nat /\ s \in [1 .. Len(s) -> ToSet(s)] BY LenProperties DEF IsList
  <2>2. s \in [1 .. Len(s) -> S] BY <2>1
  <2> QED BY <2>1, <2>2, IsASeq
<1>2. e \in S OBVIOUS
<1> HIDE DEF S
<1> QED BY <1>1, <1>2, AppendProperties, LenProperties

LEMMA ChangedList ==
  ASSUME NEW s, IsList(s), NEW i \in 1 .. Len(s), NEW e
  PROVE  IsList([s EXCEPT ![i] = e]) /\ Len([s EXCEPT ![i] = e]) = Len(s)
<1> DEFINE S == ToSet(s) \cup {e}
           t == [s EXCEPT ![i] = e]
<1>1. Len(s) \in Nat /\ s \in [1 .. Len(s) -> ToSet(s)] BY LenProperties DEF IsList
<1>2. t \in [1 .. Len(s) -> S] BY <1>1
<1> HIDE DEF S, t
<1>3. t \in Seq(S) /\ Len(t) = Len(s) BY <1>1, <1>2, IsASeq, LenProperties
<1> QED BY <1>3, ListIs DEF t

-----------------------------------------------------------------------------
\* What a thread and the phone's view of it are made of.
ThreadTypes ==
  /\ IsList(items)
  /\ \A n \in DOMAIN items : DOMAIN items[n] = ItemFields /\ items[n].by \in {"user", "assistant"}
  /\ IsList(bridge) /\ \A c \in DOMAIN bridge : DOMAIN bridge[c] = {"pc", "text"}
  /\ DOMAIN stream = {"up", "queue"} /\ sending \in 0 .. Len(bridge)
  /\ sync.after \in 0 .. Len(items) /\ poll.pc \in {"idle", "answered"}
  /\ poll.pc = "answered" => Len(poll.items) \in 0 .. Len(items)

\* All that is shown, on its way or in a page is so.
AllTrue ==
  /\ TrueView(view, items, bridge) /\ TrueEvents(stream.queue, items, bridge)
  /\ poll.pc = "answered" => TruePage(poll.page, items, bridge)
  /\ \A c \in DOMAIN bridge : bridge[c].pc = "posted" \/ bridge[c].text \in SaidIn(items)

\* A message that is being sent is shown unless Codex has heard its words.
SentOrShown ==
  sending # 0 => \/ bridge[sending].pc # "posted" \/ bridge[sending].text \in SaidIn(items)
                 \/ bridge[sending].text \in UserTexts(view)

SendInv == ThreadTypes /\ AllTrue /\ SentOrShown

LEMMA ItemsList ==
  ASSUME ThreadTypes
  PROVE  /\ Len(items) \in Nat /\ DOMAIN items = 1 .. Len(items)
         /\ Len(bridge) \in Nat /\ DOMAIN bridge = 1 .. Len(bridge)
BY ListIs DEF ThreadTypes, IsList

LEMMA SendInitial == ThreadInit => SendInv
<1> SUFFICES ASSUME ThreadInit PROVE SendInv OBVIOUS
<1>1. /\ bridge = << >> /\ view = << >> /\ sending = 0 /\ stream = [up |-> TRUE, queue |-> << >>]
      /\ sync = [on |-> FALSE, after |-> 0] /\ poll = [pc |-> "idle"]
  BY DEF ThreadInit
<1>2. /\ IsList(items)
      /\ \A n \in DOMAIN items : DOMAIN items[n] = ItemFields /\ items[n].by \in {"user", "assistant"}
  <2>1. PICK turns \in 0 .. Len(Answers) - left.sends, text \in Texts :
          items = [n \in 1 .. 2 * turns |->
                    LET turn == (n + 1) \div 2
                    IN  [by |-> IF n % 2 = 1 THEN "user" ELSE "assistant", turn |-> turn,
                         text |-> IF n % 2 = 1 THEN <<text>> ELSE Answers[turn],
                         over |-> TRUE, at |-> turn]]
    BY DEF ThreadInit
  <2> DEFINE item(n) == LET turn == (n + 1) \div 2
                        IN  [by |-> IF n % 2 = 1 THEN "user" ELSE "assistant", turn |-> turn,
                             text |-> IF n % 2 = 1 THEN <<text>> ELSE Answers[turn],
                             over |-> TRUE, at |-> turn]
             S == {item(n) : n \in 1 .. 2 * turns}
  <2>2. turns \in Nat OBVIOUS
  <2>3. 2 * turns \in Nat BY <2>2
  <2>4. \A n \in 1 .. 2 * turns : DOMAIN item(n) = ItemFields /\ item(n).by \in {"user", "assistant"}
    BY DEF ItemFields
  <2>5. items = [n \in 1 .. 2 * turns |-> item(n)] BY <2>1
  <2> HIDE DEF item
  <2>6. items \in [1 .. 2 * turns -> S] BY <2>5
  <2> HIDE DEF S
  <2>7. items \in Seq(S) BY <2>3, <2>6, IsASeq
  <2>8. IsList(items) BY <2>7, ListIs
  <2>9. \A n \in DOMAIN items : n \in 1 .. 2 * turns /\ items[n] = item(n) BY <2>5
  <2> QED BY <2>4, <2>8, <2>9
<1>3. Len(items) \in Nat BY <1>2, ListIs DEF IsList
<1>4. DOMAIN bridge = {} /\ Len(bridge) = 0 /\ IsList(bridge) BY <1>1, EmptyList
<1>5. ThreadTypes BY <1>1, <1>2, <1>3, <1>4 DEF ThreadTypes
<1>6. AllTrue BY <1>1, <1>4, EmptyList DEF AllTrue, TrueView, TrueEvents
<1>7. SentOrShown BY <1>1 DEF SentOrShown
<1> QED BY <1>5, <1>6, <1>7 DEF SendInv

\* A step that only adds to what Codex and the Bridge have leaves true what was true.
LEMMA StaysTrue ==
  ASSUME AllTrue, Grown(items, bridge, items', bridge')
  PROVE  /\ TrueView(view, items', bridge') /\ TrueEvents(stream.queue, items', bridge')
         /\ poll.pc = "answered" => TruePage(poll.page, items', bridge')
         /\ SaidIn(items) \subseteq SaidIn(items')
BY GrownListsAreTrue, GrownIsSaid DEF AllTrue

LEMMA SameIsGrown ==
  ASSUME NEW its, NEW br
  PROVE  Grown(its, br, its, br)
BY DEF Grown

\* What is sent to the phone joins what is on its way.
LEMMA StreamsTrue ==
  ASSUME NEW event, ThreadTypes, Streams(event), TrueOf(event, items', bridge'),
         TrueEvents(stream.queue, items', bridge')
  PROVE  DOMAIN stream' = {"up", "queue"} /\ TrueEvents(stream'.queue, items', bridge')
<1>1. /\ DOMAIN stream' = {"up", "queue"}
      /\ stream'.queue = IF stream.up THEN Append(stream.queue, event) ELSE stream.queue
  BY DEF Streams, ThreadTypes
<1>2. /\ IsList(Append(stream.queue, event))
      /\ ToSet(Append(stream.queue, event)) = ToSet(stream.queue) \cup {event}
  BY AppendedList DEF TrueEvents
<1> DEFINE longer == Append(stream.queue, event)
<1> HIDE DEF longer
<1>3. TrueEvents(longer, items', bridge') BY <1>2 DEF TrueEvents, longer
<1> QED BY <1>1, <1>3 DEF longer

LEMMA SubmitStep ==
  ASSUME SendInv, NEW text \in Texts, Submit(text)
  PROVE  SendInv'
<1> DEFINE c == Len(bridge) + 1
           local == [Event(<<"client", c>>, "user", <<text>>, 0) EXCEPT !.pending = TRUE]
           message == [pc |-> "posted", text |-> <<text>>]
<1>1. /\ bridge' = Append(bridge, message) /\ sending' = c /\ view' = Shows(view, local)
      /\ items' = items /\ stream' = stream /\ sync' = sync /\ poll' = poll
  BY DEF Submit
<1>2. ThreadTypes /\ AllTrue BY DEF SendInv
<1>3. /\ Len(bridge) \in Nat /\ DOMAIN bridge = 1 .. Len(bridge) /\ IsList(bridge)
  BY <1>2, ItemsList DEF ThreadTypes
<1> HIDE DEF message
<1>4. /\ Len(bridge') = c /\ DOMAIN bridge' = 1 .. c /\ bridge'[c] = message
      /\ \A i \in 1 .. Len(bridge) : bridge'[i] = bridge[i]
      /\ IsList(bridge')
  BY <1>1, <1>3, AppendedAt, AppendedList
<1>5. message.text = <<text>> /\ message.pc = "posted" /\ DOMAIN message = {"pc", "text"}
  BY DEF message
<1>6. c \in 1 .. c /\ c # 0 /\ \A i \in 1 .. c : i \in 1 .. Len(bridge) \/ i = c BY <1>3
<1>7. Grown(items, bridge, items', bridge')
  <2>1. \A i \in 1 .. Len(bridge) : i \in 1 .. c BY <1>3
  <2> QED BY <1>1, <1>3, <1>4, <2>1 DEF Grown
<1>8. /\ local.id = <<"client", c>> /\ local.by = "user" /\ local.text = <<text>> /\ local.turn = 0
      /\ ~local.delta /\ local.pending /\ DOMAIN local = EventFields
  BY DEF Event, EventFields
<1> HIDE DEF local
<1>9. local.id[1] = "client" /\ local.id[2] = c BY <1>8
<1>10. TrueOf(local, items', bridge')
  BY <1>4, <1>5, <1>6, <1>8, <1>9 DEF TrueOf
<1>11. IsUser(local) BY <1>8 DEF IsUser
<1>12. /\ TrueView(view, items', bridge') /\ TrueEvents(stream.queue, items', bridge')
       /\ poll.pc = "answered" => TruePage(poll.page, items', bridge')
  BY <1>2, <1>7, StaysTrue
<1>13. TrueView(view', items', bridge') /\ local.text \in UserTexts(view')
  BY <1>1, <1>10, <1>11, <1>12, ShownIsTrue
<1> HIDE DEF c
<1>14. \A i \in 1 .. c : DOMAIN bridge'[i] = {"pc", "text"}
  BY <1>2, <1>3, <1>4, <1>5, <1>6 DEF ThreadTypes
<1>15. ThreadTypes'
  <2>1. c \in 0 .. c BY <1>3 DEF c
  <2> QED BY <1>1, <1>2, <1>4, <1>14, <2>1 DEF ThreadTypes
<1>16. AllTrue'
  <2>1. \A i \in 1 .. c : bridge'[i].pc = "posted" \/ bridge'[i].text \in SaidIn(items)
    BY <1>2, <1>3, <1>4, <1>5, <1>6 DEF AllTrue
  <2> QED BY <1>1, <1>4, <1>12, <1>13, <2>1 DEF AllTrue
<1>17. SentOrShown' BY <1>1, <1>4, <1>5, <1>8, <1>13 DEF SentOrShown
<1> QED BY <1>15, <1>16, <1>17 DEF SendInv

-----------------------------------------------------------------------------
\* The Bridge goes on with a message: its words stay.
LEMMA ReachesIs ==
  ASSUME ThreadTypes, NEW c \in DOMAIN bridge, NEW pc, Reaches(c, pc)
  PROVE  /\ IsList(bridge') /\ Len(bridge') = Len(bridge) /\ DOMAIN bridge' = DOMAIN bridge
         /\ \A i \in DOMAIN bridge : /\ DOMAIN bridge'[i] = {"pc", "text"} /\ bridge'[i].text = bridge[i].text
                                     /\ i # c => bridge'[i] = bridge[i]
         /\ bridge'[c].pc = pc
<1> DEFINE e == [bridge[c] EXCEPT !.pc = pc]
<1>1. bridge' = [bridge EXCEPT ![c] = e] BY DEF Reaches
<1>2. DOMAIN bridge = 1 .. Len(bridge) BY ItemsList
<1>3. \A i \in DOMAIN bridge : DOMAIN bridge[i] = {"pc", "text"} BY DEF ThreadTypes
<1>4. DOMAIN e = {"pc", "text"} /\ e.text = bridge[c].text /\ e.pc = pc BY <1>3
<1> HIDE DEF e
<1>5. IsList(bridge') /\ Len(bridge') = Len(bridge) BY <1>1, <1>2, ChangedList DEF ThreadTypes
<1> QED BY <1>1, <1>3, <1>4, <1>5

\* A message stays shown while nothing that is shown of the user goes.
LEMMA StaysShown ==
  ASSUME ThreadTypes, SentOrShown, sending' = sending,
         \A c \in DOMAIN bridge : /\ bridge'[c].text = bridge[c].text
                                  /\ bridge'[c].pc = "posted" => bridge[c].pc = "posted",
         SaidIn(items) \subseteq SaidIn(items'),
         \A t \in UserTexts(view) : t \in SaidIn(items) \/ t \in UserTexts(view')
  PROVE  SentOrShown'
<1> SUFFICES ASSUME sending # 0
             PROVE  \/ bridge'[sending].pc # "posted" \/ bridge'[sending].text \in SaidIn(items')
                    \/ bridge'[sending].text \in UserTexts(view')
  BY DEF SentOrShown
<1>1. sending \in DOMAIN bridge BY ItemsList DEF ThreadTypes
<1> QED BY <1>1 DEF SentOrShown

LEMMA AcceptStep ==
  ASSUME SendInv, NEW c \in DOMAIN bridge, Accept(c)
  PROVE  SendInv'
<1> DEFINE item == Item("user", bridge[c].text, Turns + 1, TRUE)
           taken == [item EXCEPT !.over = FALSE]
           n == Len(items) + 1
<1>1. /\ items' = Append(items, taken) /\ Streams(Live(n, item)) /\ Reaches(c, "taken")
      /\ view' = view /\ sync' = sync /\ sending' = sending /\ poll' = poll
  BY DEF Accept
<1>2. ThreadTypes /\ AllTrue /\ SentOrShown BY DEF SendInv
<1>3. Len(items) \in Nat /\ DOMAIN items = 1 .. Len(items) BY <1>2, ItemsList
<1>4. DOMAIN taken = ItemFields /\ taken.by = "user" /\ taken.text = bridge[c].text
  BY DEF Item, ItemFields
<1> DEFINE event == Live(n, item)
<1>5. /\ DOMAIN event = EventFields /\ event.id = <<"live", n>> /\ event.by = "user"
      /\ event.text = bridge[c].text /\ ~event.delta /\ ~event.pending
  BY DEF Live, Item, Event, EventFields
<1> HIDE DEF taken, event, item
<1>6. event.id[1] = "live" /\ event.id[2] = n BY <1>5
<1>7. /\ IsList(items') /\ Len(items') = n /\ DOMAIN items' = 1 .. n /\ items'[n] = taken
      /\ \A i \in 1 .. Len(items) : items'[i] = items[i]
  BY <1>1, <1>2, AppendedAt, AppendedList DEF ThreadTypes
<1>8. n \in 1 .. n /\ \A i \in 1 .. n : i \in 1 .. Len(items) \/ i = n BY <1>3
<1>9. /\ IsList(bridge') /\ Len(bridge') = Len(bridge) /\ DOMAIN bridge' = DOMAIN bridge
      /\ \A i \in DOMAIN bridge : /\ DOMAIN bridge'[i] = {"pc", "text"} /\ bridge'[i].text = bridge[i].text
                                  /\ i # c => bridge'[i] = bridge[i]
      /\ bridge'[c].pc = "taken"
  BY <1>1, <1>2, ReachesIs
<1>10. Grown(items, bridge, items', bridge')
  <2>1. \A i \in 1 .. Len(items) : i \in 1 .. n BY <1>3
  <2> QED BY <1>3, <1>7, <1>9, <2>1 DEF Grown
<1>11. bridge[c].text \in SaidIn(items') BY <1>4, <1>7, <1>8 DEF SaidIn
<1>12. TrueOf(event, items', bridge')
  BY <1>4, <1>5, <1>6, <1>7, <1>8, <1>11 DEF TrueOf
<1>13. /\ TrueView(view, items', bridge') /\ TrueEvents(stream.queue, items', bridge')
       /\ poll.pc = "answered" => TruePage(poll.page, items', bridge')
       /\ SaidIn(items) \subseteq SaidIn(items')
  BY <1>2, <1>10, StaysTrue
<1>14. DOMAIN stream' = {"up", "queue"} /\ TrueEvents(stream'.queue, items', bridge')
  BY <1>1, <1>2, <1>12, <1>13, StreamsTrue DEF event
<1>15. ThreadTypes'
  <2>1. \A i \in 1 .. n : DOMAIN items'[i] = ItemFields /\ items'[i].by \in {"user", "assistant"}
    BY <1>2, <1>3, <1>4, <1>7, <1>8 DEF ThreadTypes
  <2>2. sync.after \in 0 .. n /\ (poll.pc = "answered" => Len(poll.items) \in 0 .. n)
    BY <1>2, <1>3 DEF ThreadTypes
  <2> HIDE DEF n
  <2> QED BY <1>1, <1>2, <1>7, <1>9, <1>14, <2>1, <2>2 DEF ThreadTypes
<1>16. AllTrue'
  <2>1. \A i \in DOMAIN bridge : bridge'[i].pc = "posted" \/ bridge'[i].text \in SaidIn(items')
    BY <1>2, <1>9, <1>11, <1>13 DEF AllTrue
  <2> QED BY <1>1, <1>9, <1>13, <1>14, <2>1 DEF AllTrue
<1>17. SentOrShown'
  <2>1. \A i \in DOMAIN bridge : bridge'[i].pc = "posted" => bridge[i].pc = "posted" BY <1>9
  <2> QED BY <1>1, <1>2, <1>9, <1>13, <2>1, StaysShown
<1> QED BY <1>15, <1>16, <1>17 DEF SendInv

LEMMA EchoStep ==
  ASSUME SendInv, NEW c \in DOMAIN bridge, Echo(c)
  PROVE  SendInv'
<1> DEFINE event == Client(c)
<1>1. /\ bridge[c].pc = "taken" /\ Reaches(c, "echoed") /\ Streams(event) /\ items' = items
      /\ view' = view /\ sync' = sync /\ sending' = sending /\ poll' = poll
  BY DEF Echo
<1>2. ThreadTypes /\ AllTrue /\ SentOrShown BY DEF SendInv
<1>3. /\ DOMAIN event = EventFields /\ event.id = <<"client", c>> /\ event.by = "user" /\ event.turn = 0
      /\ event.text = bridge[c].text /\ ~event.delta /\ ~event.pending
  BY DEF Client, Event, EventFields
<1>4. event.id[1] = "client" /\ event.id[2] = c BY <1>3
<1>5. /\ IsList(bridge') /\ Len(bridge') = Len(bridge) /\ DOMAIN bridge' = DOMAIN bridge
      /\ \A i \in DOMAIN bridge : /\ DOMAIN bridge'[i] = {"pc", "text"} /\ bridge'[i].text = bridge[i].text
                                  /\ i # c => bridge'[i] = bridge[i]
      /\ bridge'[c].pc = "echoed"
  BY <1>1, <1>2, ReachesIs
<1> HIDE DEF event
<1>6. Grown(items, bridge, items', bridge') BY <1>1, <1>5 DEF Grown
<1>7. bridge[c].text \in SaidIn(items) BY <1>1, <1>2 DEF AllTrue
<1>8. TrueOf(event, items', bridge') BY <1>1, <1>3, <1>4, <1>5, <1>7 DEF TrueOf
<1>9. /\ TrueView(view, items', bridge') /\ TrueEvents(stream.queue, items', bridge')
      /\ poll.pc = "answered" => TruePage(poll.page, items', bridge')
  BY <1>2, <1>6, StaysTrue
<1>10. DOMAIN stream' = {"up", "queue"} /\ TrueEvents(stream'.queue, items', bridge')
  BY <1>1, <1>2, <1>8, <1>9, StreamsTrue
<1>11. ThreadTypes' BY <1>1, <1>2, <1>5, <1>10 DEF ThreadTypes
<1>12. AllTrue'
  <2>1. \A i \in DOMAIN bridge : bridge'[i].pc = "posted" \/ bridge'[i].text \in SaidIn(items)
    BY <1>2, <1>5, <1>7 DEF AllTrue
  <2> QED BY <1>1, <1>5, <1>9, <1>10, <2>1 DEF AllTrue
<1>13. SentOrShown'
  <2>1. \A i \in DOMAIN bridge : bridge'[i].pc = "posted" => bridge[i].pc = "posted" BY <1>5
  <2> QED BY <1>1, <1>2, <1>5, <2>1, StaysShown
<1> QED BY <1>11, <1>12, <1>13 DEF SendInv

\* The request is over, well or not.
LEMMA SentSteps ==
  ASSUME SendInv, Sent \/ NotSent
  PROVE  SendInv'
<1>1. /\ sending' = 0 /\ items' = items /\ bridge' = bridge /\ stream' = stream /\ sync' = sync
      /\ poll' = poll /\ (view' = view \/ \E kept : view' = Only(view, kept))
  BY DEF Sent, NotSent
<1>2. ThreadTypes /\ AllTrue BY DEF SendInv
<1>3. TrueView(view', items, bridge) BY <1>1, <1>2, OnlyIsTrue DEF AllTrue
<1>4. ThreadTypes'
  <2>1. 0 \in 0 .. Len(bridge) BY <1>2, ItemsList
  <2> QED BY <1>1, <1>2, <2>1 DEF ThreadTypes
<1>5. AllTrue' BY <1>1, <1>2, <1>3 DEF AllTrue
<1>6. SentOrShown' BY <1>1 DEF SentOrShown
<1> QED BY <1>4, <1>5, <1>6 DEF SendInv

-----------------------------------------------------------------------------
\* The last item of a thread that Codex is answering.
LEMMA LastItem ==
  ASSUME ThreadTypes, ~Answered
  PROVE  /\ Len(items) \in DOMAIN items /\ Last(items) = items[Len(items)]
         /\ Len(items) \in Nat /\ Len(items) # 0 /\ DOMAIN items = 1 .. Len(items)
<1>1. Len(items) \in Nat /\ DOMAIN items = 1 .. Len(items) BY ItemsList
<1>2. items # << >> BY DEF Answered
<1>3. Len(items) # 0 BY <1>2, EmptySeq DEF ThreadTypes, IsList
<1> QED BY <1>1, <1>3 DEF Last

Changed(s, k, e) == [s EXCEPT ![k] = e]

\* An item goes on: its author and its time stay, and what a user said.
SameWordsOf(e, item) == /\ DOMAIN e = ItemFields /\ e.by = item.by /\ e.at = item.at
                        /\ item.by = "user" => e.text = item.text

LEMMA LastChanges ==
  ASSUME ThreadTypes, NEW k \in DOMAIN items, NEW e, SameWordsOf(e, items[k]),
         NEW its, its = Changed(items, k, e)
  PROVE  /\ IsList(its) /\ Len(its) = Len(items) /\ DOMAIN its = DOMAIN items /\ its[k] = e
         /\ \A n \in DOMAIN its : DOMAIN its[n] = ItemFields /\ its[n].by \in {"user", "assistant"}
         /\ Grown(items, bridge, its, bridge) /\ \A n \in DOMAIN items : its[n].at = items[n].at
<1>1. IsList(its) /\ Len(its) = Len(items)
  BY ItemsList, ChangedList DEF ThreadTypes, Changed
<1>2. DOMAIN its = DOMAIN items /\ its[k] = e /\ \A n \in DOMAIN items : n # k => its[n] = items[n]
  BY DEF Changed
<1>3. \A n \in DOMAIN its : DOMAIN its[n] = ItemFields /\ its[n].by \in {"user", "assistant"}
  BY <1>2 DEF ThreadTypes, SameWordsOf
<1>4. Grown(items, bridge, its, bridge) BY <1>2 DEF Grown, SameWordsOf
<1>5. \A n \in DOMAIN items : its[n].at = items[n].at BY <1>2 DEF SameWordsOf
<1> QED BY <1>1, <1>2, <1>3, <1>4, <1>5

\* An item joins the thread.
LEMMA ItemJoins ==
  ASSUME NEW its, IsList(its), NEW br, NEW e
  PROVE  /\ Grown(its, br, Append(its, e), br) /\ IsList(Append(its, e))
         /\ Len(Append(its, e)) = Len(its) + 1 /\ DOMAIN Append(its, e) = 1 .. Len(its) + 1
         /\ Append(its, e)[Len(its) + 1] = e /\ \A i \in 1 .. Len(its) : Append(its, e)[i] = its[i]
<1>1. Len(its) \in Nat /\ DOMAIN its = 1 .. Len(its) BY ListIs DEF IsList
<1>2. \A i \in 1 .. Len(its) : i \in 1 .. Len(its) + 1 BY <1>1
<1>3. /\ Len(Append(its, e)) = Len(its) + 1 /\ DOMAIN Append(its, e) = 1 .. Len(its) + 1
      /\ Append(its, e)[Len(its) + 1] = e /\ \A i \in 1 .. Len(its) : Append(its, e)[i] = its[i]
  BY AppendedAt
<1>4. IsList(Append(its, e)) BY AppendedList
<1> DEFINE longer == Append(its, e)
<1> HIDE DEF longer
<1>5. Grown(its, br, longer, br) BY <1>1, <1>2, <1>3 DEF Grown, longer
<1> QED BY <1>3, <1>4, <1>5 DEF longer

LEMMA GrownTwice ==
  ASSUME NEW a, NEW b, NEW c, NEW br, Grown(a, br, b, br), Grown(b, br, c, br)
  PROVE  Grown(a, br, c, br)
BY DEF Grown

\* Codex goes on with its answer and says so.
LEMMA AnswerGoesOn ==
  ASSUME SendInv, IsList(items'), Len(items') \in {Len(items), Len(items) + 1},
         \A n \in DOMAIN items' : DOMAIN items'[n] = ItemFields /\ items'[n].by \in {"user", "assistant"},
         Grown(items, bridge, items', bridge'), NEW event, Streams(event), TrueOf(event, items', bridge'),
         UNCHANGED <<bridge, view, sync, sending, poll>>
  PROVE  SendInv'
<1>1. ThreadTypes /\ AllTrue /\ SentOrShown BY DEF SendInv
<1>2. /\ TrueView(view, items', bridge') /\ TrueEvents(stream.queue, items', bridge')
      /\ poll.pc = "answered" => TruePage(poll.page, items', bridge')
      /\ SaidIn(items) \subseteq SaidIn(items')
  BY <1>1, StaysTrue
<1>3. DOMAIN stream' = {"up", "queue"} /\ TrueEvents(stream'.queue, items', bridge')
  BY <1>1, <1>2, StreamsTrue
<1>4. ThreadTypes'
  <2>1. Len(items) \in Nat BY <1>1, ItemsList
  <2>2. sync.after \in 0 .. Len(items') /\ (poll.pc = "answered" => Len(poll.items) \in 0 .. Len(items'))
    BY <1>1, <2>1 DEF ThreadTypes
  <2> QED BY <1>1, <1>3, <2>2 DEF ThreadTypes
<1>5. AllTrue' BY <1>1, <1>2, <1>3 DEF AllTrue
<1>6. SentOrShown' BY <1>1, <1>2, StaysShown
<1> QED BY <1>4, <1>5, <1>6 DEF SendInv

LEMMA SpeakStep ==
  ASSUME SendInv, Speak
  PROVE  SendInv'
<1> DEFINE turn == Last(items).turn
           begun == Last(items).by = "assistant"
           said == IF begun THEN Len(Last(items).text) ELSE 0
           n == IF begun THEN Len(items) ELSE Len(items) + 1
           word == <<Answers[turn][said + 1]>>
           event == [Event(<<"live", n>>, "assistant", word, turn) EXCEPT !.delta = TRUE]
           more == [items[n] EXCEPT !.text = @ \o word]
           over == [items[n - 1] EXCEPT !.over = TRUE]
           first == [Item("assistant", word, turn, FALSE) EXCEPT !.at = Last(items).at]
           done == Changed(items, n - 1, over)
<1>1. /\ ~Answered /\ Streams(event)
      /\ items' = IF begun THEN [items EXCEPT ![n] = more] ELSE Append(done, first)
      /\ bridge' = bridge /\ view' = view /\ sync' = sync /\ sending' = sending /\ poll' = poll
  BY DEF Speak, Changed
<1>2. ThreadTypes /\ AllTrue BY DEF SendInv
<1>3. /\ Len(items) \in DOMAIN items /\ Last(items) = items[Len(items)]
      /\ Len(items) \in Nat /\ Len(items) # 0 /\ DOMAIN items = 1 .. Len(items)
  BY <1>1, <1>2, LastItem
<1> HIDE DEF n, word, turn
<1>4. /\ DOMAIN event = EventFields /\ event.id = <<"live", n>> /\ event.by = "assistant" /\ ~event.pending
  BY DEF Event, EventFields
<1>5. DOMAIN first = ItemFields /\ first.by = "assistant" BY DEF Item, ItemFields
<1> HIDE DEF event, first
<1>6. event.id[1] = "live" /\ event.id[2] = n BY <1>4
<1>7. \A its : n \in DOMAIN its /\ its[n].by = "assistant" => TrueOf(event, its, bridge)
  BY <1>4, <1>6 DEF TrueOf, IsUser
<1>8. CASE begun
  <2>1. n = Len(items) BY <1>8 DEF n
  <2>2. n \in DOMAIN items /\ items[n].by = "assistant" /\ DOMAIN items[n] = ItemFields
    BY <1>2, <1>3, <1>8, <2>1 DEF ThreadTypes
  <2>3. SameWordsOf(more, items[n]) BY <2>2 DEF ItemFields, SameWordsOf
  <2> HIDE DEF more
  <2>4. items' = Changed(items, n, more) BY <1>1, <1>8 DEF Changed
  <2>5. /\ IsList(items') /\ Len(items') = Len(items) /\ DOMAIN items' = DOMAIN items /\ items'[n] = more
        /\ \A i \in DOMAIN items' : DOMAIN items'[i] = ItemFields /\ items'[i].by \in {"user", "assistant"}
        /\ Grown(items, bridge, items', bridge)
    BY <1>2, <2>2, <2>3, <2>4, LastChanges
  <2>6. TrueOf(event, items', bridge) BY <1>7, <2>2, <2>3, <2>5 DEF SameWordsOf
  <2> QED BY <1>1, <2>5, <2>6, AnswerGoesOn
<1>9. CASE ~begun
  <2>1. n = Len(items) + 1 /\ n - 1 = Len(items) BY <1>3, <1>9 DEF n
  <2>2. DOMAIN items[n - 1] = ItemFields /\ n - 1 \in DOMAIN items BY <1>2, <1>3, <2>1 DEF ThreadTypes
  <2>3. SameWordsOf(over, items[n - 1]) BY <2>2 DEF ItemFields, SameWordsOf
  <2> HIDE DEF over
  <2>4. /\ IsList(done) /\ Len(done) = Len(items) /\ DOMAIN done = DOMAIN items
        /\ \A i \in DOMAIN done : DOMAIN done[i] = ItemFields /\ done[i].by \in {"user", "assistant"}
        /\ Grown(items, bridge, done, bridge)
    BY <1>2, <2>2, <2>3, LastChanges
  <2>5. items' = Append(done, first) BY <1>1, <1>9
  <2> HIDE DEF done
  <2>6. /\ Grown(done, bridge, items', bridge) /\ IsList(items')
        /\ Len(items') = Len(done) + 1 /\ DOMAIN items' = 1 .. Len(done) + 1
        /\ items'[Len(done) + 1] = first /\ \A i \in 1 .. Len(done) : items'[i] = done[i]
    BY <2>4, <2>5, ItemJoins
  <2>7. Grown(items, bridge, items', bridge) BY <2>4, <2>6, GrownTwice
  <2>8. n \in DOMAIN items' /\ items'[n] = first BY <1>3, <2>1, <2>4, <2>6
  <2>9. \A i \in DOMAIN items' : DOMAIN items'[i] = ItemFields /\ items'[i].by \in {"user", "assistant"}
    <3>1. \A i \in 1 .. Len(items) + 1 : i \in 1 .. Len(items) \/ i = Len(items) + 1 BY <1>3
    <3> QED BY <1>3, <1>5, <2>4, <2>6, <3>1
  <2>10. TrueOf(event, items', bridge) BY <1>5, <1>7, <2>8
  <2>11. Len(items') = Len(items) + 1 BY <2>4, <2>6
  <2> QED BY <1>1, <2>6, <2>7, <2>9, <2>10, <2>11, AnswerGoesOn
<1> QED BY <1>8, <1>9

LEMMA FinishStep ==
  ASSUME SendInv, Finish
  PROVE  SendInv'
<1> DEFINE n == Len(items)
           last == Last(items)
           event == Live(n, last)
           over == [items[n] EXCEPT !.over = TRUE]
<1>1. /\ ~Answered /\ last.by = "assistant" /\ Streams(event) /\ items' = [items EXCEPT ![n] = over]
      /\ bridge' = bridge /\ view' = view /\ sync' = sync /\ sending' = sending /\ poll' = poll
  BY DEF Finish
<1>2. ThreadTypes BY DEF SendInv
<1>3. n \in DOMAIN items /\ last = items[n] BY <1>1, <1>2, LastItem
<1>4. DOMAIN items[n] = ItemFields BY <1>2, <1>3 DEF ThreadTypes
<1>5. DOMAIN over = ItemFields /\ over.by = items[n].by /\ over.text = items[n].text /\ over.at = items[n].at
  BY <1>4 DEF ItemFields
<1> HIDE DEF last, n
<1>6. /\ DOMAIN event = EventFields /\ event.id = <<"live", n>> /\ event.by = "assistant" /\ ~event.pending
  BY <1>1 DEF Live, Event, EventFields
<1> HIDE DEF event, over
<1>7. event.id[1] = "live" /\ event.id[2] = n BY <1>6
<1>8. /\ IsList(items') /\ Len(items') = Len(items) /\ DOMAIN items' = DOMAIN items /\ items'[n] = over
      /\ \A i \in DOMAIN items' : DOMAIN items'[i] = ItemFields /\ items'[i].by \in {"user", "assistant"}
      /\ Grown(items, bridge, items', bridge)
  <2>1. items' = Changed(items, n, over) BY <1>1 DEF Changed
  <2>2. SameWordsOf(over, items[n]) BY <1>5 DEF SameWordsOf
  <2> QED BY <1>2, <1>3, <2>1, <2>2, LastChanges
<1>9. TrueOf(event, items', bridge)
  BY <1>1, <1>3, <1>5, <1>6, <1>7, <1>8 DEF TrueOf, IsUser
<1> QED BY <1>1, <1>8, <1>9, AnswerGoesOn

-----------------------------------------------------------------------------
LEMMA HeadAndTail ==
  ASSUME NEW s, IsList(s), s # << >>
  PROVE  Head(s) \in ToSet(s) /\ IsList(Tail(s)) /\ ToSet(Tail(s)) \subseteq ToSet(s)
<1>1. s \in Seq(ToSet(s)) BY DEF IsList
<1>2. Head(s) \in ToSet(s) /\ Tail(s) \in Seq(ToSet(s)) BY <1>1, HeadTailProperties
<1> QED BY <1>2, ListIs

LEMMA HearStep ==
  ASSUME SendInv, Hear
  PROVE  SendInv'
<1> DEFINE e == Head(stream.queue)
           rest == Tail(stream.queue)
<1>1. /\ stream.queue # << >> /\ view' = Shows(view, e) /\ stream' = [stream EXCEPT !.queue = rest]
      /\ items' = items /\ bridge' = bridge /\ sync' = sync /\ sending' = sending /\ poll' = poll
  BY DEF Hear
<1>2. ThreadTypes /\ AllTrue /\ SentOrShown BY DEF SendInv
<1>3. IsList(stream.queue) BY <1>2 DEF AllTrue, TrueEvents
<1>4. e \in ToSet(stream.queue) /\ IsList(rest) /\ ToSet(rest) \subseteq ToSet(stream.queue)
  BY <1>1, <1>3, HeadAndTail
<1>5. DOMAIN stream' = {"up", "queue"} /\ stream'.queue = rest BY <1>1, <1>2 DEF ThreadTypes
<1> HIDE DEF e, rest
<1>6. TrueOf(e, items, bridge) /\ TrueEvents(rest, items, bridge)
  BY <1>2, <1>4 DEF AllTrue, TrueEvents
<1>7. TrueView(view', items, bridge) /\ UserTexts(view) \subseteq UserTexts(view')
  BY <1>1, <1>2, <1>6, ShownIsTrue DEF AllTrue
<1>8. ThreadTypes' BY <1>1, <1>2, <1>5 DEF ThreadTypes
<1>9. AllTrue' BY <1>1, <1>2, <1>5, <1>6, <1>7 DEF AllTrue
<1>10. SentOrShown' BY <1>1, <1>2, <1>7, StaysShown
<1> QED BY <1>8, <1>9, <1>10 DEF SendInv

LEMMA StreamSteps ==
  ASSUME SendInv, Break \/ Connect
  PROVE  SendInv'
<1>1. /\ items' = items /\ bridge' = bridge /\ view' = view /\ sync' = sync /\ sending' = sending
      /\ poll' = poll
  BY DEF Break, Connect
<1>2. ThreadTypes /\ AllTrue /\ SentOrShown BY DEF SendInv
<1>3. DOMAIN stream' = {"up", "queue"} /\ stream'.queue \in {stream.queue, << >>}
  BY <1>2 DEF ThreadTypes, Break, Connect
<1>4. TrueEvents(<< >>, items, bridge) BY EmptyList DEF TrueEvents
<1>5. TrueEvents(stream'.queue, items, bridge) BY <1>2, <1>3, <1>4 DEF AllTrue
<1>6. ThreadTypes' BY <1>1, <1>2, <1>3 DEF ThreadTypes
<1>7. AllTrue' BY <1>1, <1>2, <1>5 DEF AllTrue
<1>8. SentOrShown' BY <1>1, <1>2, StaysShown
<1> QED BY <1>6, <1>7, <1>8 DEF SendInv

\* A page lists items of the thread as they are.
LEMMA ListedIsTrue ==
  ASSUME ThreadTypes, NEW n \in DOMAIN items
  PROVE  TrueOf(Listed(n), items, bridge) /\ Listed(n).id[1] # "client" /\ ~Listed(n).delta
<1> DEFINE e == Listed(n)
<1>1. /\ DOMAIN e = EventFields /\ e.by = items[n].by /\ e.text = items[n].text /\ ~e.delta /\ ~e.pending
      /\ e.id \in {<<"live", n>>, <<"item", n>>}
  BY DEF Listed, Live, Event, EventFields
<1> HIDE DEF e
<1>2. e.id[1] \in {"live", "item"} /\ e.id[2] = n BY <1>1
<1>3. e.by \in {"user", "assistant"} BY <1>1 DEF ThreadTypes
<1>4. IsUser(e) => e.text \in SaidIn(items) BY <1>1 DEF IsUser, SaidIn
<1>5. TrueOf(e, items, bridge) BY <1>1, <1>2, <1>3, <1>4 DEF TrueOf
<1> QED BY <1>1, <1>2, <1>5 DEF e

LEMMA PageIsTrue ==
  ASSUME ThreadTypes, NEW from \in 1 .. Len(items) + 1
  PROVE  TruePage(Page(from), items, bridge)
<1> DEFINE n == Len(items) + 1 - from
           e(i) == Listed(from + i - 1)
           S == {e(i) : i \in 1 .. n}
           listed == Page(from)
<1>1. Len(items) \in Nat /\ DOMAIN items = 1 .. Len(items) BY ItemsList
<1>2. n \in Nat /\ \A i \in 1 .. n : from + i - 1 \in 1 .. Len(items) BY <1>1
<1>3. \A i \in 1 .. n : TrueOf(e(i), items, bridge) /\ e(i).id[1] # "client" /\ ~e(i).delta
  BY <1>1, <1>2, ListedIsTrue
<1>4. listed = [i \in 1 .. n |-> e(i)] BY DEF Page
<1> HIDE DEF e, listed, n
<1>5. listed \in [1 .. n -> S] BY <1>4
<1>6. \A x \in S : TrueOf(x, items, bridge) /\ x.id[1] # "client" /\ ~x.delta BY <1>3
<1> HIDE DEF S
<1>7. listed \in Seq(S) BY <1>2, <1>5, IsASeq
<1>8. IsList(listed) /\ ToSet(listed) \subseteq S BY <1>7, ListIs
<1>9. TruePage(listed, items, bridge) BY <1>6, <1>8 DEF TruePage, TrueView, TrueEvents
<1> QED BY <1>9 DEF listed

LEMMA PageStep ==
  ASSUME SendInv, Poll
  PROVE  SendInv'
<1>1. /\ items' = items /\ bridge' = bridge /\ view' = view /\ sync' = sync /\ sending' = sending
      /\ stream' = stream
  BY DEF Poll
<1>2. ThreadTypes /\ AllTrue /\ SentOrShown BY DEF SendInv
<1>3. Len(items) \in Nat BY <1>2, ItemsList
<1>4. PICK from : /\ from = 1 \/ (from = sync.after /\ sync.after # 0)
                  /\ poll'.pc = "answered" /\ poll'.items = items /\ poll'.page = Page(from)
  BY DEF Poll
<1>5. from \in 1 .. Len(items) + 1 BY <1>2, <1>3, <1>4 DEF ThreadTypes
<1>6. TruePage(poll'.page, items, bridge) BY <1>2, <1>4, <1>5, PageIsTrue
<1>7. Len(items) \in 0 .. Len(items) BY <1>3
<1>8. ThreadTypes' BY <1>1, <1>2, <1>4, <1>7 DEF ThreadTypes
<1>9. AllTrue' BY <1>1, <1>2, <1>6 DEF AllTrue
<1>10. SentOrShown' BY <1>1, <1>2, StaysShown
<1> QED BY <1>8, <1>9, <1>10 DEF SendInv

LEMMA ReceiveStep ==
  ASSUME SendInv, Receive
  PROVE  SendInv'
<1>1. /\ items' = items /\ bridge' = bridge /\ sending' = sending /\ stream' = stream
      /\ poll.pc = "answered" /\ poll'.pc = "idle"
      /\ view' \in {MergePolled(view, poll.page), MergeIncremental(view, poll.page)}
      /\ sync'.after \in {Len(poll.items), sync.after}
  BY DEF Receive
<1>2. ThreadTypes /\ AllTrue /\ SentOrShown BY DEF SendInv
<1>3. TrueView(view, items, bridge) /\ TruePage(poll.page, items, bridge) BY <1>1, <1>2 DEF AllTrue
<1>4. /\ TrueView(view', items, bridge)
      /\ \A t \in UserTexts(view) : t \in SaidIn(items) \/ t \in UserTexts(view')
  BY <1>1, <1>3, PagesKeepUnheard
<1>5. ThreadTypes' BY <1>1, <1>2 DEF ThreadTypes
<1>6. AllTrue' BY <1>1, <1>2, <1>4 DEF AllTrue
<1>7. SentOrShown' BY <1>1, <1>2, <1>4, StaysShown
<1> QED BY <1>5, <1>6, <1>7 DEF SendInv

LEMMA SendNext ==
  ASSUME SendInv, [ThreadNext]_threadVars
  PROVE  SendInv'
<1>1. ASSUME NEW text \in Texts, Submit(text) PROVE SendInv' BY <1>1, SubmitStep
<1>2. ASSUME NEW c \in DOMAIN bridge, Accept(c) PROVE SendInv' BY <1>2, AcceptStep
<1>3. ASSUME NEW c \in DOMAIN bridge, Echo(c) PROVE SendInv' BY <1>3, EchoStep
<1>4. CASE Sent \/ NotSent BY <1>4, SentSteps
<1>5. CASE Speak BY <1>5, SpeakStep
<1>6. CASE Finish BY <1>6, FinishStep
<1>7. CASE Hear BY <1>7, HearStep
<1>8. CASE Break \/ Connect BY <1>8, StreamSteps
<1>9. CASE Poll BY <1>9, PageStep
<1>10. CASE Receive BY <1>10, ReceiveStep
<1>11. CASE UNCHANGED threadVars
  BY <1>11 DEF threadVars, SendInv, ThreadTypes, AllTrue, SentOrShown
<1> QED
  BY <1>1, <1>2, <1>3, <1>4, <1>5, <1>6, <1>7, <1>8, <1>9, <1>10, <1>11 DEF ThreadNext

LEMMA SendShows == SendInv => SendingIsShown
<1> SUFFICES ASSUME SendInv, sending # 0, bridge[sending].pc = "posted",
                    \A n \in DOMAIN items : items[n].text # bridge[sending].text
             PROVE  bridge[sending].text \in UserTexts(view)
  BY DEF SendingIsShown
<1>1. bridge[sending].text \notin SaidIn(items) BY DEF SaidIn
<1> QED BY <1>1 DEF SendInv, SentOrShown

\* A message is on the screen from the moment it is sent until the request is over or
\* Codex lists its words, whatever echoes, notifications, pages and resets the phone
\* merges meanwhile, for any messages, answers and faults (handleSubmit,
\* mergePolledSessionEvents, mergeIncrementalSessionEvents).
THEOREM MessagesStayShown == Spec => []SendingIsShown
<1>1. Init => SendInv
  BY SendInitial DEF Init
<1>2. SendInv /\ [Next]_vars => SendInv'
  <2>1. [Next]_vars => [ThreadNext]_threadVars
    BY DEF Next, vars
  <2> QED BY <2>1, SendNext
<1>3. QED
  BY <1>1, <1>2, SendShows, PTL DEF Spec
-----------------------------------------------------------------------------
(***************************************************************************)
(* A page that replaces the history                                         *)
(***************************************************************************)
\* The first events of a list.
Firsts(events, i) == [k \in 1 .. i |-> events[k]]

LEMMA FrontIs ==
  ASSUME NEW events, IsList(events), NEW i \in 0 .. Len(events)
  PROVE  /\ IsList(Firsts(events, i)) /\ Len(Firsts(events, i)) = i
         /\ Firsts(events, i) \in Seq(ToSet(events))
         /\ \A k \in 1 .. i : Firsts(events, i)[k] = events[k]
<1> DEFINE S == ToSet(events)
           f == Firsts(events, i)
<1>1. Len(events) \in Nat /\ events \in [1 .. Len(events) -> S] BY LenProperties DEF IsList
<1>2. i \in Nat /\ \A k \in 1 .. i : k \in 1 .. Len(events) BY <1>1
<1>3. f \in [1 .. i -> S] /\ \A k \in 1 .. i : f[k] = events[k] BY <1>1, <1>2 DEF Firsts
<1> HIDE DEF S, f
<1>4. f \in Seq(S) BY <1>2, <1>3, IsASeq
<1>5. Len(f) = i BY <1>2, <1>3, <1>4, LenProperties
<1>6. IsList(f) BY <1>4, ListIs
<1> QED BY <1>3, <1>4, <1>5, <1>6 DEF f, S

\* One event more.
LEMMA FrontGrows ==
  ASSUME NEW events, IsList(events), NEW i \in 1 .. Len(events)
  PROVE  Firsts(events, i) = Append(Firsts(events, i - 1), events[i])
<1> DEFINE S == ToSet(events)
           old == Firsts(events, i - 1)
           new == Firsts(events, i)
           longer == Append(old, events[i])
<1>1. Len(events) \in Nat /\ i - 1 \in 0 .. Len(events) /\ i \in 0 .. Len(events) /\ events[i] \in S
  BY ListIs DEF IsList
<1>2. /\ old \in Seq(S) /\ Len(old) = i - 1 /\ \A k \in 1 .. i - 1 : old[k] = events[k]
      /\ new \in Seq(S) /\ Len(new) = i /\ \A k \in 1 .. i : new[k] = events[k]
  BY <1>1, FrontIs
<1> HIDE DEF S, old, new
<1>3. /\ longer \in Seq(S) /\ Len(longer) = Len(old) + 1 /\ longer[Len(old) + 1] = events[i]
      /\ \A k \in 1 .. Len(old) : longer[k] = old[k]
  BY <1>1, <1>2, AppendProperties
<1> HIDE DEF longer
<1>4. Len(old) + 1 = i /\ \A k \in 1 .. i : k \in 1 .. i - 1 \/ k = i BY <1>1, <1>2
<1>5. Len(longer) = i /\ \A k \in 1 .. i : longer[k] = events[k] BY <1>2, <1>3, <1>4
<1>6. new = longer BY <1>2, <1>3, <1>5, SeqEqual
<1> QED BY <1>6 DEF new, old, longer

\* A fold that appends at every place gives the list again.
LEMMA FoldRepeats ==
  ASSUME NEW events, IsList(events), NEW way, NEW f,
         Folds(f, Len(events), way, {}, events),
         \A i \in 1 .. Len(events) :
           Folded(way, {}, Firsts(events, i - 1), events[i]) = Append(Firsts(events, i - 1), events[i])
  PROVE  f[Len(events)] = events
<1> DEFINE n == Len(events)
           T == {i \in Nat : f[i] = Firsts(events, i)}
<1>1. n \in Nat BY UptoIs
<1>2. f[0] = << >> /\ \A i \in 1 .. n : f[i] = Folded(way, {}, f[i - 1], events[i])
  BY <1>1, FoldStarts
<1>3. 0 \in T
  <2>1. 0 \in 0 .. n BY <1>1
  <2>2. Firsts(events, 0) \in Seq(ToSet(events)) /\ Len(Firsts(events, 0)) = 0 BY <2>1, FrontIs
  <2>3. Firsts(events, 0) = << >> BY <2>2, EmptySeq
  <2> QED BY <1>2, <2>3
<1>4. ASSUME NEW i \in 1 .. n, i - 1 \in T PROVE i \in T
  <2>1. f[i - 1] = Firsts(events, i - 1) BY <1>4
  <2>2. f[i] = Append(Firsts(events, i - 1), events[i]) BY <1>2, <2>1
  <2>3. Firsts(events, i) = Append(Firsts(events, i - 1), events[i]) BY FrontGrows
  <2>4. i \in Nat BY <1>1
  <2> QED BY <2>2, <2>3, <2>4
<1> HIDE DEF T
<1>5. n \in T BY <1>1, <1>3, <1>4, Climbs
<1>6. f[n] = Firsts(events, n) BY <1>5 DEF T
<1>7. Firsts(events, n) = events
  <2>1. n \in 0 .. n BY <1>1
  <2>2. events \in Seq(ToSet(events)) BY DEF IsList
  <2>3. /\ Firsts(events, n) \in Seq(ToSet(events)) /\ Len(Firsts(events, n)) = n
        /\ \A k \in 1 .. n : Firsts(events, n)[k] = events[k]
    BY <2>1, FrontIs
  <2> QED BY <2>2, <2>3, SeqEqual
<1> QED BY <1>6, <1>7

\* An event that no other is like is appended.
LEMMA NoneAlike ==
  ASSUME NEW old, IsList(old), NEW e, ~e.delta, Begun(e) = e,
         \A i \in 1 .. Len(old) : old[i].id # e.id /\ ~Reconciles(old[i], e)
  PROVE  AppendOrMerge(old, e) = Append(old, e)
<1>1. SameAt(old, e) = 0
  <2> DEFINE I == {i \in 1 .. Len(old) : old[i].id = e.id}
  <2>1. SameAt(old, e) = IF I # {} THEN Min(I) ELSE 0 BY DEF SameAt, SelectInSeq
  <2>2. I = {} OBVIOUS
  <2> HIDE DEF I
  <2> QED BY <2>1, <2>2
<1>2. TwinAt(old, e) = 0
  <2> DEFINE I == {i \in 1 .. Len(old) : Reconciles(old[i], e)}
  <2>1. TwinAt(old, e) = IF I # {} THEN Min(I) ELSE 0 BY DEF TwinAt, SelectInSeq
  <2>2. I = {} OBVIOUS
  <2> HIDE DEF I
  <2> QED BY <2>1, <2>2
<1>3. AppendOrMerge(old, e) = Appended(old, e) BY <1>1, <1>2 DEF AppendOrMerge, SameAt, TwinAt
<1> QED BY <1>3 DEF Appended

\* An event that precedes no other is sorted behind them.
LEMMA NoneLater ==
  ASSUME NEW done, IsList(done), NEW e, \A i \in 1 .. Len(done) : ~Precedes(e, done[i])
  PROVE  Inserted(done, e) = Append(done, e)
<1> DEFINE I == {i \in 1 .. Len(done) : Precedes(e, done[i])}
           place == IF I # {} THEN Min(I) ELSE 0
<1>1. Inserted(done, e) = IF place = 0 THEN Append(done, e) ELSE InsertAt(done, place, e)
  BY DEF Inserted, SelectInSeq
<1>2. I = {} OBVIOUS
<1> HIDE DEF I
<1>3. place = 0 BY <1>2
<1> HIDE DEF place
<1> QED BY <1>1, <1>3

\* The events of a page that lists a whole thread.
ListedAs(n, item, naming) ==
  [id |-> IF naming = "same" THEN <<"live", n>> ELSE <<"item", n>>, by |-> item.by,
   text |-> item.text, turn |-> item.turn, delta |-> FALSE, pending |-> FALSE, at |-> item.at, order |-> n]
WholePage(its, naming) == [n \in 1 .. Len(its) |-> ListedAs(n, its[n], naming)]

\* The turns of a thread began one after the other.
Aged(its) == /\ \A n \in 1 .. Len(its) : its[n].at \in Nat
             /\ \A m, n \in 1 .. Len(its) : m < n => its[m].at <= its[n].at

\* Its events, one for each item.
LEMMA WholePageIs ==
  ASSUME NEW its, IsList(its), NEW naming
  PROVE  /\ IsList(WholePage(its, naming)) /\ Len(WholePage(its, naming)) = Len(its) /\ Len(its) \in Nat
         /\ \A n \in 1 .. Len(its) : WholePage(its, naming)[n] = ListedAs(n, its[n], naming)
<1> DEFINE e(n) == ListedAs(n, its[n], naming)
           n == Len(its)
           whole == WholePage(its, naming)
           S == {e(i) : i \in 1 .. n}
<1>1. n \in Nat BY ListIs DEF IsList
<1>2. whole = [i \in 1 .. n |-> e(i)] BY DEF WholePage
<1> HIDE DEF e, n, whole
<1>3. whole \in [1 .. n -> S] /\ \A i \in 1 .. n : whole[i] = e(i) BY <1>2
<1> HIDE DEF S
<1>4. whole \in Seq(S) /\ Len(whole) = n BY <1>1, <1>3, IsASeq, LenProperties
<1>5. IsList(whole) BY <1>4, ListIs
<1> QED BY <1>1, <1>3, <1>4, <1>5 DEF whole, n, e

\* Merging and sorting such a page changes nothing.
LEMMA WholePageStays ==
  ASSUME NEW its, IsList(its), Aged(its), NEW naming
  PROVE  Sorted(Merged(WholePage(its, naming))) = WholePage(its, naming)
<1> DEFINE p == WholePage(its, naming)
           n == Len(p)
<1>1. IsList(p) /\ n = Len(its) /\ n \in Nat /\ \A i \in 1 .. n : p[i] = ListedAs(i, its[i], naming)
  BY WholePageIs
<1>2. \A i \in 1 .. n : /\ ~p[i].delta /\ ~p[i].pending /\ Begun(p[i]) = p[i]
                        /\ p[i].at = its[i].at /\ p[i].order = i
                        /\ p[i].id = IF naming = "same" THEN <<"live", i>> ELSE <<"item", i>>
  <2> SUFFICES ASSUME NEW i \in 1 .. n
               PROVE  /\ ~p[i].delta /\ ~p[i].pending /\ Begun(p[i]) = p[i]
                      /\ p[i].at = its[i].at /\ p[i].order = i
                      /\ p[i].id = IF naming = "same" THEN <<"live", i>> ELSE <<"item", i>>
    OBVIOUS
  <2> DEFINE e == ListedAs(i, its[i], naming)
  <2>1. p[i] = e BY <1>1
  <2> HIDE DEF p, n
  <2>2. ~e.delta /\ ~e.pending /\ e.at = its[i].at /\ e.order = i BY DEF ListedAs
  <2>3. e.id = IF naming = "same" THEN <<"live", i>> ELSE <<"item", i>> BY DEF ListedAs
  <2>4. Begun(e) = e
    <3>1. e = [x \in DOMAIN e |-> e[x]] /\ "delta" \in DOMAIN e /\ e["delta"] = FALSE BY DEF ListedAs
    <3> HIDE DEF e
    <3>2. Begun(e) = [x \in DOMAIN e |-> IF x = "delta" THEN FALSE ELSE e[x]] BY DEF Begun
    <3> QED BY <3>1, <3>2, Zenon
  <2> HIDE DEF e
  <2> QED BY <2>1, <2>2, <2>3, <2>4
<1> HIDE DEF p, n
<1>3. \A i \in 1 .. n : p[i].id[1] # "client" /\ p[i].id[2] = i
  <2> SUFFICES ASSUME NEW i \in 1 .. n PROVE p[i].id[1] # "client" /\ p[i].id[2] = i OBVIOUS
  <2>1. p[i].id = IF naming = "same" THEN <<"live", i>> ELSE <<"item", i>> BY <1>2
  <2>2. CASE naming = "same" BY <2>1, <2>2
  <2>3. CASE naming # "same" BY <2>1, <2>3
  <2> QED BY <2>2, <2>3
<1>4. \A i, j \in 1 .. n : ~Reconciles(p[i], p[j])
  BY <1>2, <1>3 DEF Reconciles, Echoed
<1>5. \A i, j \in 1 .. n : i < j => ~Precedes(p[j], p[i]) /\ p[i].id # p[j].id
  <2> SUFFICES ASSUME NEW i \in 1 .. n, NEW j \in 1 .. n, i < j
               PROVE  ~Precedes(p[j], p[i]) /\ p[i].id # p[j].id
    OBVIOUS
  <2>1. p[i].id # p[j].id BY <1>3
  <2>2. its[i].at \in Nat /\ its[j].at \in Nat /\ its[i].at <= its[j].at BY <1>1 DEF Aged
  <2>3. p[i].at = its[i].at /\ p[j].at = its[j].at /\ p[i].order = i /\ p[j].order = j BY <1>2
  <2>4. ~(p[j].at < p[i].at) BY <2>2, <2>3
  <2>5. ~(p[j].order < p[i].order) BY <2>3
  <2> QED BY <2>1, <2>4, <2>5 DEF Precedes
<1>6. ASSUME NEW i \in 1 .. n
      PROVE  LET firsts == Firsts(p, i - 1)
             IN  /\ IsList(firsts) /\ Len(firsts) = i - 1
                 /\ \A k \in 1 .. i - 1 : firsts[k] = p[k] /\ k \in 1 .. n /\ k < i
  <2>1. i - 1 \in 0 .. n /\ \A k \in 1 .. i - 1 : k \in 1 .. n /\ k < i BY <1>1
  <2> QED BY <1>1, <2>1, FrontIs DEF n
<1>7. Merged(p) = p
  <2>1. PICK f : Folds(f, n, "merge", {}, p) /\ Merged(p) = f[n] BY <1>1, FoldIs DEF n
  <2>2. ASSUME NEW i \in 1 .. n
        PROVE  Folded("merge", {}, Firsts(p, i - 1), p[i]) = Append(Firsts(p, i - 1), p[i])
    <3> DEFINE firsts == Firsts(p, i - 1)
    <3>1. /\ IsList(firsts) /\ Len(firsts) = i - 1
          /\ \A k \in 1 .. i - 1 : firsts[k] = p[k] /\ k \in 1 .. n /\ k < i
      BY <1>6
    <3> HIDE DEF firsts
    <3>2. \A k \in 1 .. Len(firsts) : firsts[k].id # p[i].id /\ ~Reconciles(firsts[k], p[i])
      BY <1>4, <1>5, <3>1
    <3>3. ~p[i].delta /\ Begun(p[i]) = p[i] BY <1>2
    <3>4. AppendOrMerge(firsts, p[i]) = Append(firsts, p[i]) BY <3>1, <3>2, <3>3, NoneAlike
    <3> QED BY <3>4 DEF Folded, firsts
  <2> QED BY <1>1, <2>1, <2>2, FoldRepeats DEF n
<1>8. Sorted(p) = p
  <2>1. PICK f : Folds(f, n, "sort", {}, p) /\ Sorted(p) = f[n] BY <1>1, FoldIs DEF n
  <2>2. ASSUME NEW i \in 1 .. n
        PROVE  Folded("sort", {}, Firsts(p, i - 1), p[i]) = Append(Firsts(p, i - 1), p[i])
    <3> DEFINE firsts == Firsts(p, i - 1)
    <3>1. /\ IsList(firsts) /\ Len(firsts) = i - 1
          /\ \A k \in 1 .. i - 1 : firsts[k] = p[k] /\ k \in 1 .. n /\ k < i
      BY <1>6
    <3> HIDE DEF firsts
    <3>2. \A k \in 1 .. Len(firsts) : ~Precedes(p[i], firsts[k]) BY <1>5, <3>1
    <3>3. Inserted(firsts, p[i]) = Append(firsts, p[i]) BY <3>1, <3>2, NoneLater
    <3> QED BY <3>3 DEF Folded, firsts
  <2> QED BY <1>1, <2>1, <2>2, FoldRepeats DEF n
<1> QED BY <1>7, <1>8 DEF p

-----------------------------------------------------------------------------
\* Items are as old as their turns, and none is of the future.
Ages == Aged(items) /\ clock \in Nat /\ \A n \in 1 .. Len(items) : items[n].at <= clock

\* Codex begins with turns that are older than its clock.
LEMMA AgesInitial == ThreadInit => Ages
<1> SUFFICES ASSUME ThreadInit PROVE Ages OBVIOUS
<1>1. left \in Bounds /\ clock = Len(Answers) + 1 BY DEF ThreadInit
<1>2. Len(Answers) \in Nat /\ left.sends \in 1 .. Len(Answers)
  BY <1>1, PhoneThreadAssumption DEF Answers
<1>3. PICK turns \in 0 .. Len(Answers) - left.sends, text \in Texts :
        items = [n \in 1 .. 2 * turns |->
                  LET turn == (n + 1) \div 2
                  IN  [by |-> IF n % 2 = 1 THEN "user" ELSE "assistant", turn |-> turn,
                       text |-> IF n % 2 = 1 THEN <<text>> ELSE Answers[turn],
                       over |-> TRUE, at |-> turn]]
  BY DEF ThreadInit
<1>4. turns \in Nat /\ turns < Len(Answers) BY <1>2
<1> DEFINE item(n) == LET turn == (n + 1) \div 2
                      IN  [by |-> IF n % 2 = 1 THEN "user" ELSE "assistant", turn |-> turn,
                           text |-> IF n % 2 = 1 THEN <<text>> ELSE Answers[turn],
                           over |-> TRUE, at |-> turn]
           last == 2 * turns
           S == {item(n) : n \in 1 .. last}
<1>5. items = [n \in 1 .. last |-> item(n)] BY <1>3
<1>6. \A n \in 1 .. last : item(n).at = (n + 1) \div 2 OBVIOUS
<1> HIDE DEF item
<1>7. items \in [1 .. last -> S] /\ \A n \in 1 .. last : items[n].at = (n + 1) \div 2 BY <1>5, <1>6
<1> HIDE DEF S
<1>8. Len(items) = last
  <2>1. last \in Nat BY <1>4
  <2> HIDE DEF last
  <2>2. items \in Seq(S) BY <1>7, <2>1, IsASeq
  <2> QED BY <1>7, <2>1, <2>2, LenProperties
<1>9. \A n \in 1 .. last : (n + 1) \div 2 \in Nat /\ (n + 1) \div 2 <= turns BY <1>4
<1>10. \A m, n \in 1 .. last : m < n => (m + 1) \div 2 <= (n + 1) \div 2 BY <1>4
<1>11. Aged(items) BY <1>7, <1>8, <1>9, <1>10 DEF Aged
<1>12. clock \in Nat /\ turns <= clock BY <1>1, <1>2, <1>4
<1>13. \A n \in 1 .. last : items[n].at <= clock
  <2> SUFFICES ASSUME NEW n \in 1 .. last PROVE items[n].at <= clock OBVIOUS
  <2>1. items[n].at \in Nat /\ items[n].at <= turns BY <1>7, <1>9
  <2> QED BY <1>4, <1>12, <2>1
<1> QED BY <1>8, <1>11, <1>12, <1>13 DEF Ages

\* The thread stays as old as it is, or an item joins that is no older than the last.
LEMMA AgesGrow ==
  ASSUME Ages, Len(items) \in Nat, clock' \in Nat, clock <= clock',
         \A n \in 1 .. Len(items) : items'[n].at = items[n].at,
         \/ Len(items') = Len(items)
         \/ /\ Len(items') = Len(items) + 1
            /\ items'[Len(items) + 1].at \in Nat /\ items'[Len(items) + 1].at <= clock
            /\ \A n \in 1 .. Len(items) : items[n].at <= items'[Len(items) + 1].at
  PROVE  Ages'
<1> DEFINE l == Len(items)
           at(n) == items[n].at
           at2(n) == items'[n].at
<1>1. /\ \A n \in 1 .. l : at(n) \in Nat /\ at(n) <= clock
      /\ \A m, n \in 1 .. l : m < n => at(m) <= at(n)
      /\ clock \in Nat
  BY DEF Ages, Aged
<1>2. \A n \in 1 .. l : at2(n) = at(n) OBVIOUS
<1>3. l \in Nat OBVIOUS
<1>4. CASE Len(items') = l
  BY <1>1, <1>2, <1>3, <1>4 DEF Ages, Aged
<1>5. CASE Len(items') = l + 1
  <2>1. at2(l + 1) \in Nat /\ at2(l + 1) <= clock /\ \A n \in 1 .. l : at(n) <= at2(l + 1) BY <1>3, <1>5
  <2> HIDE DEF at, at2, l
  <2>2. \A n \in 1 .. l + 1 : n \in 1 .. l \/ n = l + 1 BY <1>3
  <2>3. \A n \in 1 .. l + 1 : at2(n) \in Nat /\ at2(n) <= clock' BY <1>1, <1>2, <2>1, <2>2
  <2>4. \A m, n \in 1 .. l + 1 : m < n => at2(m) <= at2(n)
    <3> SUFFICES ASSUME NEW m \in 1 .. l + 1, NEW n \in 1 .. l + 1, m < n PROVE at2(m) <= at2(n) OBVIOUS
    <3>1. m \in 1 .. l BY <1>3
    <3> QED BY <1>1, <1>2, <2>1, <2>2, <3>1
  <2> QED BY <1>5, <2>3, <2>4 DEF at2, Ages, Aged
<1> QED BY <1>4, <1>5

\* Every step keeps the items in the order of their turns.
LEMMA AgesStep ==
  ASSUME SendInv, Ages, [ThreadNext]_threadVars
  PROVE  Ages'
<1>1. ThreadTypes BY DEF SendInv
<1>2. Len(items) \in Nat /\ DOMAIN items = 1 .. Len(items) BY <1>1, ItemsList
<1>3. clock \in Nat /\ clock <= clock /\ clock + 1 \in Nat /\ clock <= clock + 1 BY DEF Ages
<1>4. CASE items' = items /\ clock' \in {clock, clock + 1} BY <1>2, <1>3, <1>4, AgesGrow
<1>5. ASSUME NEW c \in DOMAIN bridge, Accept(c) PROVE Ages'
  <2> DEFINE item == Item("user", bridge[c].text, Turns + 1, TRUE)
             taken == [item EXCEPT !.over = FALSE]
  <2>1. items' = Append(items, taken) /\ clock' = clock + 1 BY <1>5 DEF Accept, Ticks
  <2>2. taken.at = clock BY DEF Item
  <2> HIDE DEF taken
  <2>3. /\ Len(items') = Len(items) + 1 /\ items'[Len(items) + 1] = taken
        /\ \A i \in 1 .. Len(items) : items'[i] = items[i]
    BY <1>1, <2>1, AppendedAt DEF ThreadTypes
  <2>4. \A n \in 1 .. Len(items) : items[n].at <= clock BY DEF Ages
  <2> QED BY <1>2, <1>3, <2>1, <2>2, <2>3, <2>4, AgesGrow
<1>6. CASE Speak
  <2> DEFINE turn == Last(items).turn
             begun == Last(items).by = "assistant"
             said == IF begun THEN Len(Last(items).text) ELSE 0
             n == IF begun THEN Len(items) ELSE Len(items) + 1
             word == <<Answers[turn][said + 1]>>
             more == [items[n] EXCEPT !.text = @ \o word]
             over == [items[n - 1] EXCEPT !.over = TRUE]
             first == [Item("assistant", word, turn, FALSE) EXCEPT !.at = Last(items).at]
             done == Changed(items, n - 1, over)
  <2>1. /\ ~Answered /\ clock' = clock + 1
        /\ items' = IF begun THEN Changed(items, n, more) ELSE Append(done, first)
    BY <1>6 DEF Speak, Ticks, Changed
  <2>2. Len(items) \in DOMAIN items /\ Last(items) = items[Len(items)] BY <1>1, <2>1, LastItem
  <2>3. first.at = Last(items).at BY DEF Item
  <2> HIDE DEF n, word, turn, first
  <2>4. CASE begun
    <3>1. n = Len(items) BY <2>4 DEF n
    <3>2. n \in DOMAIN items /\ items[n].by = "assistant" /\ DOMAIN items[n] = ItemFields
      BY <1>1, <2>2, <2>4, <3>1 DEF ThreadTypes
    <3>3. SameWordsOf(more, items[n]) BY <3>2 DEF ItemFields, SameWordsOf
    <3> HIDE DEF more
    <3>4. items' = Changed(items, n, more) BY <2>1, <2>4
    <3>5. Len(items') = Len(items) /\ \A i \in DOMAIN items : items'[i].at = items[i].at
      BY <1>1, <3>2, <3>3, <3>4, LastChanges
    <3> QED BY <1>2, <1>3, <2>1, <3>5, AgesGrow
  <2>5. CASE ~begun
    <3>1. n - 1 = Len(items) BY <1>2, <2>5 DEF n
    <3>2. DOMAIN items[n - 1] = ItemFields /\ n - 1 \in DOMAIN items BY <1>1, <2>2, <3>1 DEF ThreadTypes
    <3>3. SameWordsOf(over, items[n - 1]) BY <3>2 DEF ItemFields, SameWordsOf
    <3> HIDE DEF over
    <3>4. IsList(done) /\ Len(done) = Len(items) /\ \A i \in DOMAIN items : done[i].at = items[i].at
      BY <1>1, <3>2, <3>3, LastChanges
    <3>5. items' = Append(done, first) BY <2>1, <2>5
    <3> HIDE DEF done
    <3>6. /\ Len(items') = Len(done) + 1 /\ items'[Len(done) + 1] = first
          /\ \A i \in 1 .. Len(done) : items'[i] = done[i]
      BY <3>4, <3>5, AppendedAt
    <3>7. items'[Len(items) + 1].at = items[Len(items)].at BY <2>2, <2>3, <3>4, <3>6
    <3>8. /\ items[Len(items)].at \in Nat /\ items[Len(items)].at <= clock
          /\ \A i \in 1 .. Len(items) : items[i].at <= items[Len(items)].at
      <4>1. /\ \A i \in 1 .. Len(items) : items[i].at \in Nat /\ items[i].at <= clock
            /\ \A i, k \in 1 .. Len(items) : i < k => items[i].at <= items[k].at
        BY DEF Ages, Aged
      <4>2. Len(items) \in 1 .. Len(items) BY <1>2, <2>2
      <4>3. \A i \in 1 .. Len(items) : i < Len(items) \/ i = Len(items)
        <5>1. Len(items) \in Nat BY <1>2
        <5> QED BY <5>1
      <4>4. items[Len(items)].at \in Nat /\ items[Len(items)].at <= items[Len(items)].at BY <4>1, <4>2
      <4> QED BY <4>1, <4>2, <4>3, <4>4
    <3> QED BY <1>2, <1>3, <2>1, <3>4, <3>6, <3>7, <3>8, AgesGrow
  <2> QED BY <2>4, <2>5
<1>7. CASE Finish
  <2> DEFINE n == Len(items)
             over == [items[n] EXCEPT !.over = TRUE]
  <2>1. ~Answered /\ clock' = clock + 1 /\ items' = Changed(items, n, over)
    BY <1>7 DEF Finish, Ticks, Changed
  <2>2. n \in DOMAIN items BY <1>1, <2>1, LastItem
  <2>3. DOMAIN items[n] = ItemFields BY <1>1, <2>2 DEF ThreadTypes
  <2>4. SameWordsOf(over, items[n]) BY <2>3 DEF ItemFields, SameWordsOf
  <2> HIDE DEF over
  <2>5. Len(items') = Len(items) /\ \A i \in DOMAIN items : items'[i].at = items[i].at
    BY <1>1, <2>1, <2>2, <2>4, LastChanges
  <2> QED BY <1>2, <1>3, <2>1, <2>5, AgesGrow
<1>8. ASSUME \/ \E text \in Texts : Submit(text)
             \/ \E c \in DOMAIN bridge : Echo(c)
             \/ Sent \/ NotSent \/ Hear \/ Break \/ Connect \/ Poll \/ Receive
             \/ UNCHANGED threadVars
      PROVE  items' = items /\ clock' \in {clock, clock + 1}
  BY <1>8 DEF Submit, Echo, Sent, NotSent, Hear, Break, Connect, Poll, Receive, Ticks, threadVars
<1> QED BY <1>4, <1>5, <1>6, <1>7, <1>8 DEF ThreadNext

-----------------------------------------------------------------------------
\* The pending events of a list are among some ids.
PendingIn(list, ids) == \A e \in ToSet(list) : e.pending => e.id \in ids

\* Taking an event in makes no other event pending: appending, merging, sorting and pages.
LEMMA TakenPending ==
  ASSUME NEW its, NEW br, NEW old, TrueView(old, its, br), NEW e, TrueOf(e, its, br),
         NEW ids, PendingIn(old, ids), e.pending => e.id \in ids
  PROVE  PendingIn(AppendOrMerge(old, e), ids)
<1> DEFINE new == AppendOrMerge(old, e)
<1>1. Takes(old, e, new) BY AppendOrMergeIs DEF TrueView, TrueEvents
<1> HIDE DEF new
<1> SUFFICES ASSUME NEW x \in ToSet(new), x.pending PROVE x.id \in ids BY DEF PendingIn, new
<1>2. CASE x \in ToSet(old) BY <1>2 DEF PendingIn
<1>3. CASE x = Begun(e)
  <2>1. x.id = e.id /\ x.pending = e.pending BY <1>3 DEF Begun, TrueOf, EventFields
  <2> QED BY <2>1
<1>4. CASE x = e BY <1>4
<1>5. CASE \E y \in ToSet(old) : x = Streamed(y, e)
  <2>1. PICK y \in ToSet(old) : x = Streamed(y, e) BY <1>5
  <2>2. TrueOf(y, its, br) BY DEF TrueView, TrueEvents
  <2>3. x.id = y.id /\ x.pending = y.pending BY <2>1, <2>2 DEF Streamed, TrueOf, EventFields
  <2> QED BY <2>3 DEF PendingIn
<1> QED BY <1>1, <1>2, <1>3, <1>4, <1>5 DEF Takes

LEMMA MergedPending ==
  ASSUME NEW its, NEW br, NEW events, TrueEvents(events, its, br), NEW ids, PendingIn(events, ids)
  PROVE  PendingIn(Merged(events), ids)
<1> DEFINE n == Len(events)
<1>0. IsList(events) BY DEF TrueEvents
<1>1. n \in Nat BY <1>0, UptoIs
<1>2. PICK f : Folds(f, n, "merge", {}, events) /\ Merged(events) = f[n] BY <1>1, FoldIs
<1>3. f[0] = << >> /\ \A i \in 1 .. n : f[i] = AppendOrMerge(f[i - 1], events[i])
  BY <1>1, <1>2, FoldStarts DEF Folded
<1> DEFINE T == {i \in Nat : TrueView(f[i], its, br) /\ PendingIn(f[i], ids)}
<1>4. 0 \in T BY <1>3, EmptyList DEF TrueView, TrueEvents, PendingIn
<1>5. ASSUME NEW i \in 1 .. n, i - 1 \in T PROVE i \in T
  <2>1. TrueView(f[i - 1], its, br) /\ PendingIn(f[i - 1], ids) BY <1>5
  <2>2. events[i] \in ToSet(events) BY <1>0, ListIs DEF IsList
  <2>3. TrueOf(events[i], its, br) /\ (events[i].pending => events[i].id \in ids)
    BY <2>2 DEF TrueEvents, PendingIn
  <2>4. TrueView(f[i], its, br) BY <1>3, <2>1, <2>3, TakenIsTrue
  <2>5. PendingIn(f[i], ids) BY <1>3, <2>1, <2>3, TakenPending
  <2>6. i \in Nat BY <1>1
  <2> QED BY <2>4, <2>5, <2>6
<1> HIDE DEF T
<1>6. n \in T BY <1>1, <1>4, <1>5, Climbs
<1> QED BY <1>2, <1>6 DEF T

LEMMA SortedPending ==
  ASSUME NEW list, IsList(list), NEW ids, PendingIn(list, ids)
  PROVE  PendingIn(Sorted(list), ids)
BY SortedIs DEF PendingIn

LEMMA ShownPending ==
  ASSUME NEW its, NEW br, NEW old, TrueView(old, its, br), NEW e, TrueOf(e, its, br),
         NEW ids, PendingIn(old, ids), e.pending => e.id \in ids
  PROVE  PendingIn(Shows(old, e), ids)
<1> DEFINE new == AppendOrMerge(old, e)
<1>1. IsList(new) BY TakenIsTrue DEF TrueView, TrueEvents
<1>2. PendingIn(new, ids) BY TakenPending
<1> HIDE DEF new
<1> QED BY <1>1, <1>2, SortedPending DEF Shows, new

\* A page leaves pending only what was, and what the page does not say.
LEMMA PagesPending ==
  ASSUME NEW its, NEW br, NEW old, TrueView(old, its, br), NEW listed, TruePage(listed, its, br),
         NEW ids, \A e \in ToSet(old) : e.pending /\ e.text \notin UserTexts(listed) => e.id \in ids
  PROVE  PendingIn(MergePolled(old, listed), ids) /\ PendingIn(MergeIncremental(old, listed), ids)
<1> DEFINE carried == Carried(old, listed)
           retained == Retained(old, listed)
<1>1. TrueView(listed, its, br) /\ IsList(listed) BY DEF TruePage, TrueView, TrueEvents
<1>2. IsList(old) BY DEF TrueView, TrueEvents
<1>3. /\ TrueView(carried, its, br) /\ IsList(carried) /\ PendingIn(carried, ids)
      /\ TrueView(retained, its, br) /\ IsList(retained) /\ PendingIn(retained, ids)
  BY <1>2, OnlyIsTrue, OnlyIs DEF Carried, Retained, PendingIn
<1>4. PendingIn(listed, ids) BY DEF TruePage, TrueView, TrueEvents, TrueOf, PendingIn
<1> DEFINE first == listed \o carried
           second == retained \o listed
<1> HIDE DEF carried, retained
<1>5. /\ TrueEvents(first, its, br) /\ ToSet(first) = ToSet(listed) \cup ToSet(carried)
      /\ TrueEvents(second, its, br) /\ ToSet(second) = ToSet(retained) \cup ToSet(listed)
  BY <1>1, <1>3, TrueTogether, ListsTogether
<1> HIDE DEF first, second
<1>6. PendingIn(first, ids) /\ PendingIn(second, ids) BY <1>3, <1>4, <1>5 DEF PendingIn
<1>7. PendingIn(Merged(first), ids) /\ PendingIn(Merged(second), ids) BY <1>5, <1>6, MergedPending
<1>8. IsList(Merged(first)) /\ IsList(Merged(second))
  BY <1>5, MergedIsTrue DEF TrueView, TrueEvents
<1>9. PendingIn(Sorted(Merged(first)), ids) /\ PendingIn(Sorted(Merged(second)), ids)
  BY <1>7, <1>8, SortedPending
<1> QED BY <1>9 DEF MergePolled, MergeIncremental, first, second, carried, retained

\* What is pending on the screen is being sent, or the Bridge has taken it.
Awaited == {<<"client", c>> : c \in {c \in DOMAIN bridge : c = sending \/ bridge[c].pc # "posted"}}
Waits == PendingIn(view, Awaited) /\ \A e \in ToSet(stream.queue) : ~e.pending

\* What the phone waits for only grows, but for the request that is over.
LEMMA AwaitedGrows ==
  ASSUME DOMAIN bridge \subseteq DOMAIN bridge',
         \A c \in DOMAIN bridge : c = sending \/ bridge[c].pc # "posted"
                                    => c = sending' \/ bridge'[c].pc # "posted"
  PROVE  Awaited \subseteq Awaited'
BY DEF Awaited

LEMMA MorePending ==
  ASSUME NEW list, NEW ids, NEW more, PendingIn(list, ids), ids \subseteq more
  PROVE  PendingIn(list, more)
BY DEF PendingIn

\* Nothing that is on its way to the phone is pending.
LEMMA StreamsPending ==
  ASSUME NEW event, ThreadTypes, Streams(event), ~event.pending, IsList(stream.queue),
         \A e \in ToSet(stream.queue) : ~e.pending
  PROVE  \A e \in ToSet(stream'.queue) : ~e.pending
<1>1. stream'.queue = IF stream.up THEN Append(stream.queue, event) ELSE stream.queue
  BY DEF Streams, ThreadTypes
<1>2. ToSet(Append(stream.queue, event)) = ToSet(stream.queue) \cup {event} BY AppendedList
<1> QED BY <1>1, <1>2

\* Every step keeps pending only what is being sent or was taken.
LEMMA WaitsStep ==
  ASSUME SendInv, Waits, [ThreadNext]_threadVars
  PROVE  Waits'
<1>1. ThreadTypes /\ AllTrue BY DEF SendInv
<1>2. TrueView(view, items, bridge) /\ IsList(stream.queue) BY <1>1 DEF AllTrue, TrueEvents
<1>3. PendingIn(view, Awaited) /\ \A e \in ToSet(stream.queue) : ~e.pending BY DEF Waits
<1>4. ASSUME view' = view, Awaited \subseteq Awaited', \A e \in ToSet(stream'.queue) : ~e.pending
      PROVE  Waits'
  <2>1. PendingIn(view, Awaited') BY <1>3, <1>4, MorePending
  <2> QED BY <1>4, <2>1 DEF Waits
<1>5. ASSUME NEW text \in Texts, Submit(text) PROVE Waits'
  <2> DEFINE c == Len(bridge) + 1
             local == [Event(<<"client", c>>, "user", <<text>>, 0) EXCEPT !.pending = TRUE]
             message == [pc |-> "posted", text |-> <<text>>]
  <2>1. /\ bridge' = Append(bridge, message) /\ sending' = c /\ view' = Shows(view, local)
        /\ items' = items /\ stream' = stream /\ sending = 0
    BY <1>5 DEF Submit
  <2>2. /\ Len(bridge) \in Nat /\ DOMAIN bridge = 1 .. Len(bridge) /\ IsList(bridge)
    BY <1>1, ItemsList DEF ThreadTypes
  <2> HIDE DEF message
  <2>3. DOMAIN bridge' = 1 .. c /\ bridge'[c] = message /\ \A i \in 1 .. Len(bridge) : bridge'[i] = bridge[i]
    BY <2>1, <2>2, AppendedAt
  <2>4. c \in 1 .. c /\ \A i \in 1 .. Len(bridge) : i \in 1 .. c /\ i # 0 BY <2>2
  <2>5. Awaited \subseteq Awaited' BY <2>1, <2>2, <2>3, <2>4, AwaitedGrows
  <2>6. /\ local.id = <<"client", c>> /\ local.by = "user" /\ local.text = <<text>> /\ local.turn = 0
        /\ ~local.delta /\ local.pending /\ DOMAIN local = EventFields
    BY DEF Event, EventFields
  <2>7. message.text = <<text>> BY DEF message
  <2> HIDE DEF local
  <2>8. local.id[1] = "client" /\ local.id[2] = c BY <2>6
  <2>9. TrueOf(local, items, bridge') BY <2>3, <2>4, <2>6, <2>7, <2>8 DEF TrueOf
  <2>10. Grown(items, bridge, items, bridge') BY <2>2, <2>3, <2>4 DEF Grown
  <2>11. TrueView(view, items, bridge') BY <1>2, <2>10, GrownListsAreTrue
  <2>12. local.id \in Awaited' BY <2>1, <2>3, <2>4, <2>6 DEF Awaited
  <2>13. PendingIn(view, Awaited') BY <1>3, <2>5, MorePending
  <2>14. PendingIn(view', Awaited')
    <3> DEFINE ids == Awaited'
               br == bridge'
    <3> HIDE DEF ids, br
    <3>1. TrueView(view, items, br) /\ TrueOf(local, items, br) /\ PendingIn(view, ids) /\ local.id \in ids
      BY <2>9, <2>11, <2>12, <2>13 DEF ids, br
    <3>2. PendingIn(Shows(view, local), ids) BY <3>1, ShownPending
    <3> QED BY <2>1, <3>2 DEF ids
  <2> QED BY <1>3, <2>1, <2>14 DEF Waits
<1>6. ASSUME NEW c \in DOMAIN bridge, Accept(c) PROVE Waits'
  <2> DEFINE item == Item("user", bridge[c].text, Turns + 1, TRUE)
             event == Live(Len(items) + 1, item)
  <2>1. Streams(event) /\ Reaches(c, "taken") /\ view' = view /\ sending' = sending BY <1>6 DEF Accept
  <2>2. ~event.pending BY DEF Live, Event
  <2> HIDE DEF event
  <2>3. DOMAIN bridge' = DOMAIN bridge /\ \A i \in DOMAIN bridge : i # c => bridge'[i] = bridge[i]
    BY <1>1, <2>1, ReachesIs
  <2>4. bridge'[c].pc = "taken" BY <1>1, <2>1, ReachesIs
  <2>5. Awaited \subseteq Awaited' BY <2>1, <2>3, <2>4, AwaitedGrows
  <2>6. \A e \in ToSet(stream'.queue) : ~e.pending BY <1>1, <1>2, <1>3, <2>1, <2>2, StreamsPending
  <2> QED BY <1>4, <2>1, <2>5, <2>6
<1>7. ASSUME NEW c \in DOMAIN bridge, Echo(c) PROVE Waits'
  <2> DEFINE event == Client(c)
  <2>1. Streams(event) /\ Reaches(c, "echoed") /\ view' = view /\ sending' = sending BY <1>7 DEF Echo
  <2>2. ~event.pending BY DEF Client, Event
  <2> HIDE DEF event
  <2>3. DOMAIN bridge' = DOMAIN bridge /\ \A i \in DOMAIN bridge : i # c => bridge'[i] = bridge[i]
    BY <1>1, <2>1, ReachesIs
  <2>4. bridge'[c].pc = "echoed" BY <1>1, <2>1, ReachesIs
  <2>5. Awaited \subseteq Awaited' BY <2>1, <2>3, <2>4, AwaitedGrows
  <2>6. \A e \in ToSet(stream'.queue) : ~e.pending BY <1>1, <1>2, <1>3, <2>1, <2>2, StreamsPending
  <2> QED BY <1>4, <2>1, <2>5, <2>6
<1>8. CASE Sent
  <2>1. bridge' = bridge /\ view' = view /\ stream' = stream /\ bridge[sending].pc = "echoed"
    BY <1>8 DEF Sent
  <2>2. Awaited \subseteq Awaited' BY <2>1, AwaitedGrows
  <2> QED BY <1>3, <1>4, <2>1, <2>2
<1>9. CASE NotSent
  <2> DEFINE kept == {e \in ToSet(view) : e.id # <<"client", sending>>}
  <2>1. bridge' = bridge /\ view' = Only(view, kept) /\ stream' = stream /\ sending' = 0 BY <1>9 DEF NotSent
  <2>2. ToSet(view') = ToSet(view) \cap kept BY <1>2, <2>1, OnlyIs DEF TrueView, TrueEvents
  <2>3. ASSUME NEW e \in ToSet(view'), e.pending PROVE e.id \in Awaited'
    <3>1. e.id \in Awaited /\ e.id # <<"client", sending>> BY <1>3, <2>2, <2>3 DEF PendingIn
    <3>2. PICK c \in DOMAIN bridge : e.id = <<"client", c>> /\ (c = sending \/ bridge[c].pc # "posted")
      BY <3>1 DEF Awaited
    <3>3. bridge'[c].pc # "posted" /\ c \in DOMAIN bridge' BY <2>1, <3>1, <3>2
    <3> QED BY <3>2, <3>3 DEF Awaited
  <2>4. PendingIn(view', Awaited') BY <2>3 DEF PendingIn
  <2> QED BY <1>3, <2>1, <2>4 DEF Waits
<1>10. CASE Speak
  <2>1. PICK n, word, turn : Streams([Event(<<"live", n>>, "assistant", word, turn) EXCEPT !.delta = TRUE])
    BY <1>10 DEF Speak
  <2> DEFINE event == [Event(<<"live", n>>, "assistant", word, turn) EXCEPT !.delta = TRUE]
  <2>2. ~event.pending BY DEF Event
  <2> HIDE DEF event
  <2>3. Streams(event) BY <2>1 DEF event
  <2>4. view' = view /\ bridge' = bridge /\ sending' = sending BY <1>10 DEF Speak
  <2>5. Awaited \subseteq Awaited' BY <2>4, AwaitedGrows
  <2>6. \A e \in ToSet(stream'.queue) : ~e.pending BY <1>1, <1>2, <1>3, <2>2, <2>3, StreamsPending
  <2> QED BY <1>4, <2>4, <2>5, <2>6
<1>11. CASE Finish
  <2> DEFINE event == Live(Len(items), Last(items))
  <2>1. Streams(event) /\ view' = view /\ bridge' = bridge /\ sending' = sending BY <1>11 DEF Finish
  <2>2. ~event.pending BY DEF Live, Event
  <2> HIDE DEF event
  <2>3. Awaited \subseteq Awaited' BY <2>1, AwaitedGrows
  <2>4. \A e \in ToSet(stream'.queue) : ~e.pending BY <1>1, <1>2, <1>3, <2>1, <2>2, StreamsPending
  <2> QED BY <1>4, <2>1, <2>3, <2>4
<1>12. CASE Hear
  <2> DEFINE e == Head(stream.queue)
             rest == Tail(stream.queue)
  <2>1. /\ stream.queue # << >> /\ view' = Shows(view, e) /\ stream' = [stream EXCEPT !.queue = rest]
        /\ bridge' = bridge /\ sending' = sending
    BY <1>12 DEF Hear
  <2>2. e \in ToSet(stream.queue) /\ ToSet(rest) \subseteq ToSet(stream.queue) BY <1>2, <2>1, HeadAndTail
  <2>3. stream'.queue = rest BY <1>1, <2>1 DEF ThreadTypes
  <2>4. Awaited' = Awaited BY <2>1 DEF Awaited
  <2> HIDE DEF e, rest
  <2>5. TrueOf(e, items, bridge) /\ ~e.pending BY <1>1, <1>3, <2>2 DEF AllTrue, TrueEvents
  <2>6. PendingIn(view', Awaited) BY <1>2, <1>3, <2>1, <2>5, ShownPending
  <2> QED BY <1>3, <2>2, <2>3, <2>4, <2>6 DEF Waits
<1>13. CASE Break \/ Connect
  <2>1. view' = view /\ bridge' = bridge /\ sending' = sending BY <1>13 DEF Break, Connect
  <2>2. stream'.queue \in {stream.queue, << >>} BY <1>1, <1>13 DEF ThreadTypes, Break, Connect
  <2>3. \A e \in ToSet(stream'.queue) : ~e.pending BY <1>3, <2>2, EmptyList
  <2>4. Awaited \subseteq Awaited' BY <2>1, AwaitedGrows
  <2> QED BY <1>4, <2>1, <2>3, <2>4
<1>14. CASE Receive
  <2>1. /\ bridge' = bridge /\ sending' = sending /\ stream' = stream /\ poll.pc = "answered"
        /\ view' \in {MergePolled(view, poll.page), MergeIncremental(view, poll.page)}
    BY <1>14 DEF Receive
  <2>2. TruePage(poll.page, items, bridge) BY <1>1, <2>1 DEF AllTrue
  <2>3. PendingIn(view', Awaited) BY <1>2, <1>3, <2>1, <2>2, PagesPending DEF PendingIn
  <2>4. Awaited' = Awaited BY <2>1 DEF Awaited
  <2> QED BY <1>3, <2>1, <2>3, <2>4 DEF Waits
<1>15. CASE Poll \/ UNCHANGED threadVars
  <2>1. view' = view /\ bridge' = bridge /\ sending' = sending /\ stream' = stream
    BY <1>15 DEF Poll, threadVars
  <2>2. Awaited \subseteq Awaited' BY <2>1, AwaitedGrows
  <2> QED BY <1>3, <1>4, <2>1, <2>2
<1> QED
  BY <1>5, <1>6, <1>7, <1>8, <1>9, <1>10, <1>11, <1>12, <1>13, <1>14, <1>15 DEF ThreadNext

-----------------------------------------------------------------------------
\* A page that replaces the history lists the whole thread as it was.
PageWhole ==
  poll.pc = "answered" /\ poll.canonical => poll.page = WholePage(poll.items, listing)

EventOf(id, by, text, turn, at, order) ==
  [id |-> id, by |-> by, text |-> text, turn |-> turn, delta |-> FALSE, pending |-> FALSE,
   at |-> at, order |-> order]

Named(r, id, at, order) == [r EXCEPT !.id = id, !.at = at, !.order = order]

\* The event of an item under another name, at another time.
LEMMA EventNamed ==
  ASSUME NEW id, NEW by, NEW text, NEW turn, NEW at, NEW order,
         NEW id2, NEW at2, NEW order2
  PROVE  Named(EventOf(id, by, text, turn, at, order), id2, at2, order2)
         = EventOf(id2, by, text, turn, at2, order2)
<1> DEFINE r == EventOf(id, by, text, turn, at, order)
           q == EventOf(id2, by, text, turn, at2, order2)
           v(x) == IF x = "order" THEN order2 ELSE IF x = "at" THEN at2 ELSE IF x = "id" THEN id2 ELSE r[x]
<1>1. DOMAIN r = EventFields /\ DOMAIN q = EventFields BY DEF EventOf, EventFields
<1>2. q = [x \in DOMAIN q |-> q[x]] BY DEF EventOf
<1>3. /\ q.id = id2 /\ q.at = at2 /\ q.order = order2 /\ q.by = r.by /\ q.text = r.text
      /\ q.turn = r.turn /\ q.delta = r.delta /\ q.pending = r.pending
  BY DEF EventOf
<1> HIDE DEF r, q
<1>4. "id" \in DOMAIN r /\ "at" \in DOMAIN r /\ "order" \in DOMAIN r BY <1>1 DEF EventFields
<1>5. [r EXCEPT !.id = id2, !.at = at2, !.order = order2] = [x \in DOMAIN r |-> v(x)] BY <1>4
<1> HIDE DEF v
<1>6. [x \in DOMAIN r |-> v(x)] = [x \in DOMAIN q |-> q[x]]
  <2>1. \A x \in EventFields : q[x] = v(x) BY <1>3 DEF v, EventFields
  <2> QED BY <1>1, <2>1
<1>7. Named(r, id2, at2, order2) = [r EXCEPT !.id = id2, !.at = at2, !.order = order2]
  BY Zenon DEF Named
<1> QED BY <1>2, <1>5, <1>6, <1>7 DEF r, q

\* A page from the first item on is such a page.
LEMMA PageIsWhole ==
  ASSUME ThreadTypes
  PROVE  Page(1) = WholePage(items, listing)
<1> DEFINE n == Len(items)
           e(i) == ListedAs(i, items[i], listing)
<1>1. n \in Nat BY ItemsList
<1>2. \A i \in 1 .. n : Listed(i) = e(i)
  <2> SUFFICES ASSUME NEW i \in 1 .. n PROVE Listed(i) = e(i) OBVIOUS
  <2> DEFINE r == EventOf(<<"live", i>>, items[i].by, items[i].text, items[i].turn, clock, 0)
             kept == IF listing = "same" THEN r.id ELSE <<"item", i>>
             id == IF listing = "same" THEN <<"live", i>> ELSE <<"item", i>>
  <2>1. Live(i, items[i]) = r BY DEF Live, Event, EventOf
  <2>2. r.id = <<"live", i>> BY DEF EventOf
  <2> HIDE DEF r
  <2>3. Listed(i) = [r EXCEPT !.id = id, !.at = items[i].at, !.order = i]
    <3>1. kept = id BY <2>2
    <3>2. Listed(i) = [r EXCEPT !.id = kept, !.at = items[i].at, !.order = i]
      <4> DEFINE l == Live(i, items[i])
      <4>1. Listed(i) = [l EXCEPT !.id = IF listing = "same" THEN l.id ELSE <<"item", i>>,
                                  !.at = items[i].at, !.order = i]
        BY Zenon DEF Listed
      <4> HIDE DEF l
      <4>2. l = r BY <2>1 DEF l
      <4> QED BY <4>1, <4>2, Zenon
    <3> HIDE DEF kept, id
    <3> QED BY <3>1, <3>2, Zenon
  <2>4. Listed(i) = EventOf(id, items[i].by, items[i].text, items[i].turn, items[i].at, i)
    <3> HIDE DEF id
    <3>1. Named(r, id, items[i].at, i)
          = EventOf(id, items[i].by, items[i].text, items[i].turn, items[i].at, i)
      BY EventNamed DEF r
    <3>2. Named(r, id, items[i].at, i) = Listed(i) BY <2>3, Zenon DEF Named
    <3> QED BY <3>1, <3>2, Zenon
  <2> QED BY <2>4 DEF ListedAs, EventOf
<1>3. n + 1 - 1 = n /\ \A i \in 1 .. n : 1 + i - 1 = i BY <1>1
<1>4. Page(1) = [i \in 1 .. n |-> e(i)]
  <2>1. Page(1) = [i \in 1 .. n + 1 - 1 |-> Listed(1 + i - 1)] BY DEF Page
  <2>2. [i \in 1 .. n + 1 - 1 |-> Listed(1 + i - 1)] = [i \in 1 .. n |-> e(i)]
    <3> HIDE DEF n, e
    <3>1. 1 .. n + 1 - 1 = 1 .. n BY <1>3
    <3>2. \A i \in 1 .. n + 1 - 1 : Listed(1 + i - 1) = e(i) BY <1>2, <1>3, <3>1
    <3> QED BY <3>1, <3>2
  <2> QED BY <2>1, <2>2
<1> QED BY <1>4 DEF WholePage

\* A page without a cursor lists everything, and stays as it is until it is received.
LEMMA PageWholeStep ==
  ASSUME SendInv, PageWhole, [ThreadNext]_threadVars
  PROVE  PageWhole'
<1>1. ThreadTypes BY DEF SendInv
<1>2. CASE Poll
  <2>1. listing' = listing /\ poll'.items = items BY <1>2 DEF Poll
  <2>2. ASSUME poll'.canonical PROVE poll'.page = Page(1)
    <3>1. PICK gone \in {FALSE} \cup {sync.on /\ sync.after # 0 /\ left.resets > 0} :
            poll' = [pc |-> "answered", canonical |-> (~sync.on \/ gone), items |-> items,
                     page |-> Page(IF sync.on /\ sync.after # 0 /\ ~gone THEN sync.after ELSE 1)]
      BY <1>2 DEF Poll
    <3>2. ~sync.on \/ gone BY <2>2, <3>1
    <3>3. poll'.page = Page(IF sync.on /\ sync.after # 0 /\ ~gone THEN sync.after ELSE 1) BY <3>1
    <3> QED BY <3>2, <3>3
  <2> QED BY <1>1, <2>1, <2>2, PageIsWhole DEF PageWhole
<1>3. CASE Receive
  <2>1. poll'.pc = "idle" BY <1>3 DEF Receive
  <2> QED BY <2>1 DEF PageWhole
<1>4. ASSUME \/ \E text \in Texts : Submit(text)
             \/ \E c \in DOMAIN bridge : Accept(c) \/ Echo(c)
             \/ Sent \/ NotSent \/ Speak \/ Finish \/ Hear \/ Break \/ Connect
             \/ UNCHANGED threadVars
      PROVE  poll' = poll /\ listing' = listing
  BY <1>4 DEF Submit, Accept, Echo, Sent, NotSent, Speak, Finish, Hear, Break, Connect, threadVars
<1>5. CASE poll' = poll /\ listing' = listing BY <1>5 DEF PageWhole
<1> QED BY <1>2, <1>3, <1>4, <1>5 DEF ThreadNext

\* Everything the phone needs to know of a thread to replace its history.
ReplaceInv == SendInv /\ Ages /\ Waits /\ PageWhole

LEMMA ReplaceInitial == ThreadInit => ReplaceInv
<1> SUFFICES ASSUME ThreadInit PROVE ReplaceInv OBVIOUS
<1>1. view = << >> /\ stream = [up |-> TRUE, queue |-> << >>] /\ poll = [pc |-> "idle"]
  BY DEF ThreadInit
<1>2. Waits BY <1>1, EmptyList DEF Waits, PendingIn
<1>3. PageWhole BY <1>1 DEF PageWhole
<1> QED BY <1>2, <1>3, SendInitial, AgesInitial DEF ReplaceInv

\* Nothing is pending that such a page does not have: all of it is replaced.
LEMMA NothingCarried ==
  ASSUME ReplaceInv, poll.pc = "answered", poll.canonical, poll.items = items, sending = 0
  PROVE  Carried(view, poll.page) = << >>
<1> DEFINE kept == {e \in ToSet(view) : e.pending /\ e.text \notin UserTexts(poll.page)}
<1>1. ThreadTypes /\ AllTrue /\ Waits BY DEF ReplaceInv, SendInv
<1>2. poll.page = WholePage(items, listing) BY DEF ReplaceInv, PageWhole
<1>3. IsList(items) /\ DOMAIN items = 1 .. Len(items) BY <1>1, ItemsList DEF ThreadTypes
<1>4. SaidIn(items) \subseteq UserTexts(poll.page)
  <2> SUFFICES ASSUME NEW n \in 1 .. Len(items), items[n].by = "user"
               PROVE  items[n].text \in UserTexts(poll.page)
    BY <1>3 DEF SaidIn
  <2> DEFINE e == ListedAs(n, items[n], listing)
  <2>1. e.by = "user" /\ ~e.delta /\ e.text = items[n].text BY DEF ListedAs
  <2> HIDE DEF e
  <2>2. /\ IsList(poll.page) /\ Len(poll.page) = Len(items) /\ poll.page[n] = e
    BY <1>2, <1>3, WholePageIs DEF e
  <2>3. e \in ToSet(poll.page) BY <2>2, ListIs DEF IsList
  <2> QED BY <2>1, <2>3 DEF UserTexts, IsUser
<1>5. \A e \in ToSet(view) : e.pending => e.text \in SaidIn(items)
  <2> SUFFICES ASSUME NEW e \in ToSet(view), e.pending PROVE e.text \in SaidIn(items) OBVIOUS
  <2>1. e.id \in Awaited BY <1>1 DEF Waits, PendingIn
  <2>2. PICK c \in DOMAIN bridge : e.id = <<"client", c>> /\ (c = sending \/ bridge[c].pc # "posted")
    BY <2>1 DEF Awaited
  <2>3. c # 0 BY <1>1, ItemsList
  <2>4. bridge[c].text \in SaidIn(items) BY <1>1, <2>2, <2>3 DEF AllTrue
  <2>5. TrueOf(e, items, bridge) BY <1>1 DEF AllTrue, TrueView, TrueEvents
  <2>6. e.id[1] = "client" /\ e.id[2] = c BY <2>2
  <2> QED BY <2>4, <2>5, <2>6 DEF TrueOf
<1>6. kept = {} BY <1>4, <1>5
<1>7. IsList(view) BY <1>1 DEF AllTrue, TrueView, TrueEvents
<1> HIDE DEF kept
<1> DEFINE left2 == Only(view, kept)
<1>8. IsList(left2) /\ ToSet(left2) = {} BY <1>6, <1>7, OnlyIs
<1> HIDE DEF left2
<1>9. left2 = << >>
  <2>1. left2 \in Seq(ToSet(left2)) BY <1>8 DEF IsList
  <2>2. Len(left2) \in Nat /\ ToSet(left2) = {left2[i] : i \in 1 .. Len(left2)} BY <1>8, ListIs DEF IsList
  <2>3. Len(left2) = 0
    <3> SUFFICES ASSUME Len(left2) # 0 PROVE FALSE OBVIOUS
    <3>1. 1 \in 1 .. Len(left2) BY <2>2
    <3> QED BY <1>8, <2>2, <3>1
  <2> QED BY <2>1, <2>3, EmptySeq
<1> QED BY <1>9 DEF Carried, left2, kept

\* What the phone then shows is the page, and the page is the thread.
LEMMA FullPageReceived ==
  ASSUME ReplaceInv, Receive, poll.canonical, poll.items = items, sending = 0
  PROVE  Says(view') = Says(items) /\ AtRest(view')
<1> DEFINE p == WholePage(items, listing)
<1>1. ThreadTypes /\ Ages BY DEF ReplaceInv, SendInv
<1>2. poll.pc = "answered" /\ view' = MergePolled(view, poll.page) BY DEF Receive
<1>3. poll.page = p /\ Carried(view, poll.page) = << >>
  BY <1>2, NothingCarried DEF ReplaceInv, PageWhole
<1>4. IsList(items) /\ DOMAIN items = 1 .. Len(items) BY <1>1, ItemsList DEF ThreadTypes
<1>5. /\ IsList(p) /\ Len(p) = Len(items) /\ Len(items) \in Nat
      /\ \A n \in 1 .. Len(items) : p[n] = ListedAs(n, items[n], listing)
  BY <1>4, WholePageIs
<1>6. Sorted(Merged(p)) = p BY <1>1, <1>4, WholePageStays DEF Ages
<1> HIDE DEF p
<1>7. p \o << >> = p BY <1>5, ConcatEmptySeq DEF IsList
<1>8. view' = p BY <1>2, <1>3, <1>6, <1>7 DEF MergePolled
<1>9. DOMAIN p = 1 .. Len(items) BY <1>5, ListIs DEF IsList
<1>10. \A n \in 1 .. Len(items) : p[n].by = items[n].by /\ p[n].text = items[n].text /\ ~p[n].pending
  <2> SUFFICES ASSUME NEW n \in 1 .. Len(items)
               PROVE  p[n].by = items[n].by /\ p[n].text = items[n].text /\ ~p[n].pending
    OBVIOUS
  <2> DEFINE e == ListedAs(n, items[n], listing)
  <2>1. e.by = items[n].by /\ e.text = items[n].text /\ ~e.pending BY DEF ListedAs
  <2> HIDE DEF e
  <2>2. p[n] = e BY <1>5 DEF e
  <2> QED BY <2>1, <2>2
<1>11. Says(p) = Says(items) BY <1>4, <1>9, <1>10 DEF Says
<1>12. AtRest(p) BY <1>9, <1>10 DEF AtRest
<1> QED BY <1>8, <1>11, <1>12

LEMMA ReplaceNext ==
  ASSUME ReplaceInv, [ThreadNext]_threadVars
  PROVE  ReplaceInv'
<1>1. SendInv /\ Ages /\ Waits /\ PageWhole BY DEF ReplaceInv
<1>2. SendInv' BY <1>1, SendNext
<1>3. Ages' BY <1>1, AgesStep
<1>4. Waits' BY <1>1, WaitsStep
<1>5. PageWhole' BY <1>1, PageWholeStep
<1> QED BY <1>2, <1>3, <1>4, <1>5 DEF ReplaceInv

\* A poll that replaces the history leaves the phone with the thread as Codex has it,
\* every message and answer once, in order and none pending, for any thread, whatever
\* the phone showed before and even if its stream had led it astray
\* (mergePolledSessionEvents, sortSessionEvents).
THEOREM HistoryIsReplaced == Spec => FullPageShown
<1>1. Init => ReplaceInv
  BY ReplaceInitial DEF Init
<1>2. [Next]_vars => [ThreadNext]_threadVars
  BY DEF Next, vars
<1>3. ReplaceInv /\ [Next]_vars => ReplaceInv'
  BY <1>2, ReplaceNext
<1>4. ReplaceInv /\ [Next]_vars
      => [Receive /\ poll.canonical /\ poll.items = items /\ sending = 0
            => Says(view') = Says(items) /\ AtRest(view')]_threadVars
  BY FullPageReceived
<1>5. QED
  BY <1>1, <1>3, <1>4, PTL DEF Spec, FullPageShown

-----------------------------------------------------------------------------
(***************************************************************************)
(* Every message that Codex has is shown, and none as being sent            *)
(***************************************************************************)
\* What a list says under Codex's own names for messages.
ListedTexts(list) == {e.text : e \in {e \in ToSet(list) : Canonical(e)}}

LEMMA ListedIsCanonical ==
  ASSUME NEW its, NEW br, NEW e, TrueOf(e, its, br)
  PROVE  Canonical(e) <=> (IsUser(e) /\ e.id[1] # "client")
BY DEF Canonical, Echoed, TrueOf

\* Taking an event in takes no such message away.
LEMMA TakenStays ==
  ASSUME NEW its, NEW br, NEW old, TrueView(old, its, br), NEW e, TrueOf(e, its, br)
  PROVE  /\ ListedTexts(old) \subseteq ListedTexts(AppendOrMerge(old, e))
         /\ Canonical(e) => e.text \in ListedTexts(AppendOrMerge(old, e))
<1> DEFINE new == AppendOrMerge(old, e)
<1>1. Takes(old, e, new) BY AppendOrMergeIs DEF TrueView, TrueEvents
<1>2. \A y \in ToSet(old) : TrueOf(y, its, br) BY DEF TrueView, TrueEvents
<1> HIDE DEF new
<1>3. ASSUME NEW y \in ToSet(old), Canonical(y) PROVE y.text \in ListedTexts(new)
  <2>1. ~IsAnswer(y) /\ IsUser(y) /\ y.id[1] # "client" BY <1>2, <1>3, ListedIsCanonical DEF IsAnswer, IsUser
  <2>2. CASE y \in ToSet(new) BY <1>3, <2>2 DEF ListedTexts
  <2>3. CASE e \in ToSet(new) /\ y.id = e.id
    <3>1. IsUser(e) /\ e.text = y.text BY <1>2, <2>1, <2>3, SameWords DEF IsUser
    <3>2. Canonical(e) BY <2>1, <2>3, <3>1, ListedIsCanonical
    <3> QED BY <2>3, <3>1, <3>2 DEF ListedTexts
  <2> QED BY <1>1, <1>3, <2>1, <2>2, <2>3 DEF Takes
<1>4. ASSUME Canonical(e) PROVE e.text \in ListedTexts(new)
  <2>1. ~e.delta /\ IsUser(e) /\ e.id[1] # "client" BY <1>4, ListedIsCanonical DEF IsUser
  <2>2. CASE e \in ToSet(new) BY <1>4, <2>2 DEF ListedTexts
  <2>3. CASE Begun(e) \in ToSet(new)
    <3>1. TrueOf(Begun(e), its, br) /\ IsUser(Begun(e)) /\ Begun(e).text = e.text BY <2>1, BegunIsTrue
    <3>2. Begun(e).id = e.id BY DEF Begun, TrueOf, EventFields
    <3>3. Canonical(Begun(e)) BY <2>1, <3>1, <3>2, ListedIsCanonical
    <3> QED BY <2>3, <3>1, <3>3 DEF ListedTexts
  <2> QED BY <1>1, <1>4, <2>1, <2>2, <2>3 DEF Takes
<1> QED BY <1>3, <1>4 DEF ListedTexts, new

LEMMA MergedStays ==
  ASSUME NEW its, NEW br, NEW events, TrueEvents(events, its, br)
  PROVE  ListedTexts(events) \subseteq ListedTexts(Merged(events))
<1> DEFINE n == Len(events)
           Said(i) == {x.text : x \in {x \in Upto(events, i) : Canonical(x)}}
<1>0. IsList(events) BY DEF TrueEvents
<1>1. n \in Nat BY <1>0, UptoIs
<1>2. PICK f : Folds(f, n, "merge", {}, events) /\ Merged(events) = f[n] BY <1>1, FoldIs
<1>3. f[0] = << >> /\ \A i \in 1 .. n : f[i] = AppendOrMerge(f[i - 1], events[i])
  BY <1>1, <1>2, FoldStarts DEF Folded
<1> DEFINE T == {i \in Nat : TrueView(f[i], its, br) /\ Said(i) \subseteq ListedTexts(f[i])}
<1>4. 0 \in T
  <2>1. TrueView(f[0], its, br) BY <1>3, EmptyList DEF TrueView, TrueEvents
  <2>2. Said(0) = {} BY <1>0, UptoIs
  <2> QED BY <2>1, <2>2
<1>5. ASSUME NEW i \in 1 .. n, i - 1 \in T PROVE i \in T
  <2>1. TrueView(f[i - 1], its, br) /\ Said(i - 1) \subseteq ListedTexts(f[i - 1]) BY <1>5
  <2>2. TrueOf(events[i], its, br)
    <3>1. events[i] \in ToSet(events) BY <1>0, ListIs DEF IsList
    <3> QED BY <3>1 DEF TrueEvents
  <2>3. TrueView(f[i], its, br) BY <1>3, <2>1, <2>2, TakenIsTrue
  <2>4. /\ ListedTexts(f[i - 1]) \subseteq ListedTexts(f[i])
        /\ Canonical(events[i]) => events[i].text \in ListedTexts(f[i])
    BY <1>3, <2>1, <2>2, TakenStays
  <2>5. Upto(events, i) = Upto(events, i - 1) \cup {events[i]} /\ i \in Nat BY <1>0, UptoIs
  <2>6. Said(i) \subseteq Said(i - 1) \cup (IF Canonical(events[i]) THEN {events[i].text} ELSE {})
    BY <2>5
  <2> HIDE DEF Said
  <2> QED BY <2>1, <2>3, <2>4, <2>5, <2>6
<1> HIDE DEF T
<1>6. n \in T BY <1>1, <1>4, <1>5, Climbs
<1>7. Said(n) \subseteq ListedTexts(f[n]) BY <1>6 DEF T
<1>8. Said(n) = ListedTexts(events) BY <1>0, UptoIs DEF ListedTexts
<1> QED BY <1>2, <1>7, <1>8

LEMMA ShownStays ==
  ASSUME NEW its, NEW br, NEW old, TrueView(old, its, br), NEW e, TrueOf(e, its, br)
  PROVE  ListedTexts(old) \subseteq ListedTexts(Shows(old, e))
<1> DEFINE new == AppendOrMerge(old, e)
<1>1. ListedTexts(old) \subseteq ListedTexts(new) BY TakenStays
<1>2. IsList(new) BY TakenIsTrue DEF TrueView, TrueEvents
<1> HIDE DEF new
<1>3. ToSet(Sorted(new)) = ToSet(new) BY <1>2, SortedIs
<1>4. ListedTexts(Sorted(new)) = ListedTexts(new) BY <1>3 DEF ListedTexts
<1> QED BY <1>1, <1>4 DEF Shows, new

\* A page shows what it lists, and an incremental page leaves what was listed before.
LEMMA PagesStay ==
  ASSUME NEW its, NEW br, NEW old, TrueView(old, its, br), NEW listed, TruePage(listed, its, br)
  PROVE  /\ UserTexts(listed) \subseteq ListedTexts(MergePolled(old, listed))
         /\ UserTexts(listed) \cup ListedTexts(old) \subseteq ListedTexts(MergeIncremental(old, listed))
<1> DEFINE carried == Carried(old, listed)
           retained == Retained(old, listed)
<1>1. TrueView(listed, its, br) /\ IsList(listed) BY DEF TruePage, TrueView, TrueEvents
<1>2. IsList(old) BY DEF TrueView, TrueEvents
<1>3. /\ TrueView(carried, its, br) /\ IsList(carried)
      /\ TrueView(retained, its, br) /\ IsList(retained)
  BY <1>2, OnlyIsTrue, OnlyIs DEF Carried, Retained
<1>4. ASSUME NEW e \in ToSet(listed), IsUser(e) PROVE Canonical(e)
  <2>1. TrueOf(e, its, br) /\ e.id[1] # "client" BY DEF TruePage, TrueView, TrueEvents
  <2> QED BY <1>4, <2>1, ListedIsCanonical
<1>5. UserTexts(listed) \subseteq ListedTexts(listed) BY <1>4 DEF UserTexts, ListedTexts
<1>6. ListedTexts(old) \subseteq ListedTexts(retained) \cup UserTexts(listed)
  <2> SUFFICES ASSUME NEW y \in ToSet(old), Canonical(y), y \notin ToSet(retained)
               PROVE  y.text \in UserTexts(listed)
    BY DEF ListedTexts
  <2>1. IsUser(y) /\ ~y.pending /\ ~IsAnswer(y) BY DEF Canonical, IsUser, IsAnswer
  <2>2. PICK e \in ToSet(listed) : Replaces(e, y) BY <1>2, <2>1, OnlyIs DEF Retained
  <2>3. TrueOf(y, its, br) /\ TrueOf(e, its, br) BY DEF TruePage, TrueView, TrueEvents
  <2>4. CASE y.id = e.id
    <3>1. IsUser(e) /\ e.text = y.text BY <2>1, <2>3, <2>4, SameWords DEF IsUser
    <3> QED BY <3>1 DEF UserTexts
  <2>5. CASE IsUser(e) /\ y.text = e.text BY <2>5 DEF UserTexts
  <2> QED BY <2>1, <2>2, <2>4, <2>5 DEF Replaces
<1> DEFINE first == listed \o carried
           second == retained \o listed
<1> HIDE DEF carried, retained
<1>7. /\ TrueEvents(first, its, br) /\ ToSet(first) = ToSet(listed) \cup ToSet(carried)
      /\ TrueEvents(second, its, br) /\ ToSet(second) = ToSet(retained) \cup ToSet(listed)
  BY <1>1, <1>3, TrueTogether, ListsTogether
<1> HIDE DEF first, second
<1>8. /\ ListedTexts(listed) \subseteq ListedTexts(first)
      /\ ListedTexts(listed) \cup ListedTexts(retained) \subseteq ListedTexts(second)
  BY <1>7 DEF ListedTexts
<1>9. /\ ListedTexts(first) \subseteq ListedTexts(Merged(first))
      /\ ListedTexts(second) \subseteq ListedTexts(Merged(second))
  BY <1>7, MergedStays
<1>10. IsList(Merged(first)) /\ IsList(Merged(second))
  BY <1>7, MergedIsTrue DEF TrueView, TrueEvents
<1>11. ToSet(Sorted(Merged(first))) = ToSet(Merged(first)) /\ ToSet(Sorted(Merged(second))) = ToSet(Merged(second))
  BY <1>10, SortedIs
<1>12. /\ ListedTexts(Sorted(Merged(first))) = ListedTexts(Merged(first))
       /\ ListedTexts(Sorted(Merged(second))) = ListedTexts(Merged(second))
  BY <1>11 DEF ListedTexts
<1>13. MergePolled(old, listed) = Sorted(Merged(first)) /\ MergeIncremental(old, listed) = Sorted(Merged(second))
  BY DEF MergePolled, MergeIncremental, first, second, carried, retained
<1> QED BY <1>5, <1>6, <1>8, <1>9, <1>12, <1>13

-----------------------------------------------------------------------------
\* What the user says in some items of a thread.
Among(its, first, last) ==
  {its[n].text : n \in {n \in DOMAIN its : first <= n /\ n <= last /\ its[n].by = "user"}}

\* What the polls have passed is shown under Codex's names.
Polled == Among(items, 1, sync.after) \subseteq ListedTexts(view)

\* A page says what the polls have not passed, and all of it if it replaces the history.
PageSays ==
  poll.pc = "answered" =>
    /\ Among(items, sync.after, Len(poll.items)) \subseteq UserTexts(poll.page)
    /\ poll.canonical => Among(items, 1, Len(poll.items)) \subseteq UserTexts(poll.page)
    /\ poll.page = << >> => Len(poll.items) = sync.after

\* A message that is pending on the screen has not been taken, or the polls have not passed it.
Ahead ==
  {<<"client", c>> : c \in {c \in DOMAIN bridge :
      \/ bridge[c].pc = "posted"
      \/ bridge[c].text \in Among(items, sync.after + 1, Len(items))}}
Beyond == PendingIn(view, Ahead)

SettleInv == SendInv /\ Waits /\ Polled /\ PageSays /\ Beyond

\* Items that a thread has stay as they are said.
LEMMA AmongGrown ==
  ASSUME NEW its, NEW its2, NEW br, Grown(its, br, its2, br), Len(its) \in Nat, DOMAIN its = 1 .. Len(its),
         DOMAIN its2 = 1 .. Len(its2), Len(its2) \in Nat,
         NEW a \in Nat, NEW b \in 0 .. Len(its)
  PROVE  Among(its2, a, b) = Among(its, a, b)
<1>1. \A n \in DOMAIN its : n \in DOMAIN its2 /\ its2[n].by = its[n].by
                            /\ (its[n].by = "user" => its2[n].text = its[n].text)
  BY DEF Grown
<1>2. \A n \in DOMAIN its2 : n <= b => n \in DOMAIN its OBVIOUS
<1>3. Among(its2, a, b) \subseteq Among(its, a, b) BY <1>1, <1>2 DEF Among
<1>4. Among(its, a, b) \subseteq Among(its2, a, b) BY <1>1 DEF Among
<1> QED BY <1>3, <1>4

LEMMA AmongMore ==
  ASSUME NEW its, NEW its2, NEW br, Grown(its, br, its2, br), Len(its) \in Nat, DOMAIN its = 1 .. Len(its),
         Len(its2) \in Nat, Len(its) <= Len(its2), NEW a \in Nat
  PROVE  Among(its, a, Len(its)) \subseteq Among(its2, a, Len(its2))
<1> SUFFICES ASSUME NEW n \in DOMAIN its, a <= n, its[n].by = "user"
             PROVE  its[n].text \in Among(its2, a, Len(its2))
  BY DEF Among
<1>1. n \in DOMAIN its2 /\ its2[n].by = "user" /\ its2[n].text = its[n].text BY DEF Grown
<1>2. n <= Len(its2)
  <2>1. n \in Nat /\ n <= Len(its) OBVIOUS
  <2> QED BY <2>1
<1> QED BY <1>1, <1>2 DEF Among

LEMMA AmongAll ==
  ASSUME NEW its, Len(its) \in Nat, DOMAIN its = 1 .. Len(its)
  PROVE  /\ Among(its, 1, Len(its)) = SaidIn(its) /\ Among(its, Len(its) + 1, Len(its)) = {}
         /\ Among(its, 1, 0) = {}
<1>1. \A n \in DOMAIN its : 1 <= n /\ n <= Len(its) /\ ~(Len(its) + 1 <= n) /\ ~(n <= 0) OBVIOUS
<1> QED BY <1>1 DEF Among, SaidIn

LEMMA AmongParts ==
  ASSUME NEW its, Len(its) \in Nat, DOMAIN its = 1 .. Len(its),
         NEW a \in 0 .. Len(its), NEW b \in 0 .. Len(its)
  PROVE  /\ Among(its, 1, b) \subseteq Among(its, 1, a) \cup Among(its, a, b)
         /\ Among(its, a + 1, Len(its)) \subseteq Among(its, a, b) \cup Among(its, b + 1, Len(its))
<1>1. \A n \in DOMAIN its : /\ n <= b => n <= a \/ (a <= n /\ n <= b)
                            /\ a + 1 <= n => (a <= n /\ n <= b) \/ b + 1 <= n
  OBVIOUS
<1> QED BY <1>1 DEF Among

\* Every step leaves the thread with what was said in it, and may add to it.
LEMMA ItemsGrow ==
  ASSUME SendInv, [ThreadNext]_threadVars
  PROVE  /\ Grown(items, bridge, items', bridge) /\ Len(items) \in Nat /\ Len(items') \in Nat
         /\ DOMAIN items = 1 .. Len(items) /\ DOMAIN items' = 1 .. Len(items') /\ Len(items) <= Len(items')
<1>1. ThreadTypes /\ ThreadTypes' BY SendNext DEF SendInv
<1>2. /\ Len(items) \in Nat /\ DOMAIN items = 1 .. Len(items) /\ IsList(items)
      /\ Len(items') \in Nat /\ DOMAIN items' = 1 .. Len(items')
  <2>1. Len(items) \in Nat /\ DOMAIN items = 1 .. Len(items) /\ IsList(items) BY <1>1, ItemsList DEF ThreadTypes
  <2>2. IsList(items') BY <1>1 DEF ThreadTypes
  <2>3. Len(items') \in Nat /\ DOMAIN items' = 1 .. Len(items') BY <2>2, ListIs DEF IsList
  <2> QED BY <2>1, <2>3
<1> SUFFICES Grown(items, bridge, items', bridge) /\ Len(items) <= Len(items') BY <1>2
<1>3. CASE items' = items BY <1>2, <1>3, SameIsGrown
<1>4. ASSUME NEW e, items' = Append(items, e)
      PROVE  Grown(items, bridge, items', bridge) /\ Len(items) <= Len(items')
  BY <1>2, <1>4, ItemJoins
<1>5. ASSUME NEW c \in DOMAIN bridge, Accept(c)
      PROVE  Grown(items, bridge, items', bridge) /\ Len(items) <= Len(items')
  BY <1>4, <1>5 DEF Accept
<1>6. CASE Speak
  <2> DEFINE turn == Last(items).turn
             begun == Last(items).by = "assistant"
             said == IF begun THEN Len(Last(items).text) ELSE 0
             n == IF begun THEN Len(items) ELSE Len(items) + 1
             word == <<Answers[turn][said + 1]>>
             more == [items[n] EXCEPT !.text = @ \o word]
             over == [items[n - 1] EXCEPT !.over = TRUE]
             first == [Item("assistant", word, turn, FALSE) EXCEPT !.at = Last(items).at]
             done == Changed(items, n - 1, over)
  <2>1. /\ ~Answered
        /\ items' = IF begun THEN Changed(items, n, more) ELSE Append(done, first)
    BY <1>6 DEF Speak, Changed
  <2>2. Len(items) \in DOMAIN items /\ Last(items) = items[Len(items)] BY <1>1, <2>1, LastItem
  <2> HIDE DEF n, word, turn, first
  <2>3. CASE begun
    <3>1. n = Len(items) BY <2>3 DEF n
    <3>2. n \in DOMAIN items /\ items[n].by = "assistant" /\ DOMAIN items[n] = ItemFields
      BY <1>1, <2>2, <2>3, <3>1 DEF ThreadTypes
    <3>3. SameWordsOf(more, items[n]) BY <3>2 DEF ItemFields, SameWordsOf
    <3> HIDE DEF more
    <3>4. items' = Changed(items, n, more) BY <2>1, <2>3
    <3>5. Len(items') = Len(items) /\ Grown(items, bridge, items', bridge)
      BY <1>1, <3>2, <3>3, <3>4, LastChanges
    <3> QED BY <1>2, <3>5
  <2>4. CASE ~begun
    <3>1. n - 1 = Len(items) BY <1>2, <2>4 DEF n
    <3>2. DOMAIN items[n - 1] = ItemFields /\ n - 1 \in DOMAIN items BY <1>1, <2>2, <3>1 DEF ThreadTypes
    <3>3. SameWordsOf(over, items[n - 1]) BY <3>2 DEF ItemFields, SameWordsOf
    <3> HIDE DEF over
    <3>4. IsList(done) /\ Len(done) = Len(items) /\ Grown(items, bridge, done, bridge)
      BY <1>1, <3>2, <3>3, LastChanges
    <3>5. items' = Append(done, first) BY <2>1, <2>4
    <3> HIDE DEF done
    <3>6. Grown(done, bridge, items', bridge) /\ Len(items') = Len(done) + 1 BY <3>4, <3>5, ItemJoins
    <3> QED BY <1>2, <3>4, <3>6, GrownTwice
  <2> QED BY <2>3, <2>4
<1>7. CASE Finish
  <2> DEFINE n == Len(items)
             over == [items[n] EXCEPT !.over = TRUE]
  <2>1. ~Answered /\ items' = Changed(items, n, over) BY <1>7 DEF Finish, Changed
  <2>2. n \in DOMAIN items BY <1>1, <2>1, LastItem
  <2>3. DOMAIN items[n] = ItemFields BY <1>1, <2>2 DEF ThreadTypes
  <2>4. SameWordsOf(over, items[n]) BY <2>3 DEF ItemFields, SameWordsOf
  <2> HIDE DEF over
  <2>5. Len(items') = Len(items) /\ Grown(items, bridge, items', bridge)
    BY <1>1, <2>1, <2>2, <2>4, LastChanges
  <2> QED BY <1>2, <2>5
<1>8. ASSUME \/ \E text \in Texts : Submit(text)
             \/ \E c \in DOMAIN bridge : Echo(c)
             \/ Sent \/ NotSent \/ Hear \/ Break \/ Connect \/ Poll \/ Receive
             \/ UNCHANGED threadVars
      PROVE  items' = items
  BY <1>8 DEF Submit, Echo, Sent, NotSent, Hear, Break, Connect, Poll, Receive, threadVars
<1> QED BY <1>3, <1>5, <1>6, <1>7, <1>8 DEF ThreadNext

-----------------------------------------------------------------------------
\* What the polls have passed stays shown while nothing that is listed goes.
LEMMA PolledStays ==
  ASSUME SendInv, Polled, [ThreadNext]_threadVars, sync' = sync,
         ListedTexts(view) \subseteq ListedTexts(view')
  PROVE  Polled'
<1>1. sync.after \in 0 .. Len(items) BY DEF SendInv, ThreadTypes
<1>2. /\ Grown(items, bridge, items', bridge) /\ Len(items) \in Nat /\ Len(items') \in Nat
      /\ DOMAIN items = 1 .. Len(items) /\ DOMAIN items' = 1 .. Len(items')
  BY ItemsGrow
<1>3. Among(items', 1, sync.after) = Among(items, 1, sync.after) BY <1>1, <1>2, AmongGrown
<1> QED BY <1>3 DEF Polled

\* A page stays as good as it was while it is on its way.
LEMMA PageSaysStays ==
  ASSUME SendInv, PageSays, [ThreadNext]_threadVars, sync' = sync, poll' = poll
  PROVE  PageSays'
<1> SUFFICES ASSUME poll.pc = "answered" PROVE PageSays' BY DEF PageSays
<1>1. sync.after \in 0 .. Len(items) /\ Len(poll.items) \in 0 .. Len(items) BY DEF SendInv, ThreadTypes
<1>2. /\ Grown(items, bridge, items', bridge) /\ Len(items) \in Nat /\ Len(items') \in Nat
      /\ DOMAIN items = 1 .. Len(items) /\ DOMAIN items' = 1 .. Len(items')
  BY ItemsGrow
<1>3. sync.after \in Nat BY <1>1, <1>2
<1>4. /\ Among(items', 1, Len(poll.items)) = Among(items, 1, Len(poll.items))
      /\ Among(items', sync.after, Len(poll.items)) = Among(items, sync.after, Len(poll.items))
  BY <1>1, <1>2, <1>3, AmongGrown
<1> QED BY <1>4 DEF PageSays

\* What the polls have not passed grows.
LEMMA AheadGrows ==
  ASSUME SendInv, [ThreadNext]_threadVars, sync' = sync, DOMAIN bridge \subseteq DOMAIN bridge',
         \A c \in DOMAIN bridge :
           /\ bridge'[c].text = bridge[c].text
           /\ bridge[c].pc = "posted" => \/ bridge'[c].pc = "posted"
                                         \/ bridge[c].text \in Among(items', sync.after + 1, Len(items'))
  PROVE  Ahead \subseteq Ahead'
<1>1. sync.after \in 0 .. Len(items) BY DEF SendInv, ThreadTypes
<1>2. /\ Grown(items, bridge, items', bridge) /\ Len(items) \in Nat /\ Len(items') \in Nat
      /\ DOMAIN items = 1 .. Len(items) /\ Len(items) <= Len(items')
  BY ItemsGrow
<1>3. sync.after + 1 \in Nat BY <1>1, <1>2
<1>4. Among(items, sync.after + 1, Len(items)) \subseteq Among(items', sync.after + 1, Len(items'))
  BY <1>2, <1>3, AmongMore
<1> QED BY <1>4 DEF Ahead

LEMMA SettleInitial == ThreadInit => SettleInv
<1> SUFFICES ASSUME ThreadInit PROVE SettleInv OBVIOUS
<1>1. /\ view = << >> /\ stream = [up |-> TRUE, queue |-> << >>] /\ poll = [pc |-> "idle"]
      /\ sync = [on |-> FALSE, after |-> 0]
  BY DEF ThreadInit
<1>2. SendInv BY SendInitial
<1>3. Waits BY <1>1, EmptyList DEF Waits, PendingIn
<1>4. Beyond BY <1>1, EmptyList DEF Beyond, PendingIn
<1>5. PageSays BY <1>1 DEF PageSays
<1>6. Polled
  <2>1. Len(items) \in Nat /\ DOMAIN items = 1 .. Len(items) BY <1>2, ItemsList DEF SendInv
  <2> QED BY <1>1, <2>1, AmongAll DEF Polled
<1> QED BY <1>2, <1>3, <1>4, <1>5, <1>6 DEF SettleInv

\* What the Bridge has of the messages: their words stay, and one that it takes is in the thread.
LEMMA BridgeGoesOn ==
  ASSUME SettleInv, NEW c \in DOMAIN bridge, Accept(c) \/ Echo(c)
  PROVE  SettleInv'
<1>1. SendInv /\ Waits /\ Polled /\ PageSays /\ Beyond /\ ThreadTypes BY DEF SettleInv, SendInv
<1>2. [ThreadNext]_threadVars BY DEF ThreadNext
<1>3. view' = view /\ sync' = sync /\ poll' = poll BY DEF Accept, Echo
<1>4. Polled' /\ PageSays' BY <1>1, <1>2, <1>3, PolledStays, PageSaysStays
<1>5. PICK pc : Reaches(c, pc) BY DEF Accept, Echo
<1>6. /\ DOMAIN bridge' = DOMAIN bridge
      /\ \A i \in DOMAIN bridge : bridge'[i].text = bridge[i].text /\ (i # c => bridge'[i] = bridge[i])
  BY <1>1, <1>5, ReachesIs
<1>7. bridge[c].pc = "posted" => bridge[c].text \in Among(items', sync.after + 1, Len(items'))
  <2> SUFFICES ASSUME bridge[c].pc = "posted"
               PROVE  bridge[c].text \in Among(items', sync.after + 1, Len(items'))
    OBVIOUS
  <2> DEFINE item == Item("user", bridge[c].text, Turns + 1, TRUE)
             taken == [item EXCEPT !.over = FALSE]
             n == Len(items) + 1
  <2>1. items' = Append(items, taken) BY DEF Accept, Echo
  <2>2. taken.by = "user" /\ taken.text = bridge[c].text BY DEF Item
  <2> HIDE DEF taken
  <2>3. Len(items') = n /\ DOMAIN items' = 1 .. n /\ items'[n] = taken
    BY <1>1, <2>1, AppendedAt DEF ThreadTypes
  <2>4. sync.after + 1 <= n /\ n <= n /\ n \in 1 .. n
    <3>1. Len(items) \in Nat /\ sync.after \in 0 .. Len(items) BY <1>1, ItemsList DEF ThreadTypes
    <3> QED BY <3>1
  <2> QED BY <2>2, <2>3, <2>4 DEF Among
<1>8. Ahead \subseteq Ahead' BY <1>1, <1>2, <1>3, <1>6, <1>7, AheadGrows
<1>9. Beyond' BY <1>1, <1>3, <1>8, MorePending DEF Beyond
<1>10. SendInv' /\ Waits' BY <1>1, <1>2, SendNext, WaitsStep
<1> QED BY <1>4, <1>9, <1>10 DEF SettleInv

LEMMA SubmitSettles ==
  ASSUME SettleInv, NEW text \in Texts, Submit(text)
  PROVE  SettleInv'
<1> DEFINE c == Len(bridge) + 1
           local == [Event(<<"client", c>>, "user", <<text>>, 0) EXCEPT !.pending = TRUE]
           message == [pc |-> "posted", text |-> <<text>>]
<1>1. /\ SendInv /\ Waits /\ Polled /\ PageSays /\ Beyond
      /\ ThreadTypes /\ TrueView(view, items, bridge)
  BY DEF SettleInv, SendInv, AllTrue
<1>2. [ThreadNext]_threadVars BY DEF ThreadNext
<1>3. /\ bridge' = Append(bridge, message) /\ view' = Shows(view, local)
      /\ items' = items /\ sync' = sync /\ poll' = poll
  BY DEF Submit
<1>4. Len(bridge) \in Nat /\ DOMAIN bridge = 1 .. Len(bridge) /\ IsList(bridge)
  BY <1>1, ItemsList DEF ThreadTypes
<1>5. message.text = <<text>> /\ message.pc = "posted" OBVIOUS
<1> HIDE DEF message
<1>6. DOMAIN bridge' = 1 .. c /\ bridge'[c] = message /\ \A i \in 1 .. Len(bridge) : bridge'[i] = bridge[i]
  BY <1>3, <1>4, AppendedAt
<1>7. c \in 1 .. c /\ \A i \in 1 .. Len(bridge) : i \in 1 .. c BY <1>4
<1>8. /\ local.id = <<"client", c>> /\ local.by = "user" /\ local.text = <<text>> /\ local.turn = 0
      /\ ~local.delta /\ local.pending /\ DOMAIN local = EventFields
  BY DEF Event, EventFields
<1> HIDE DEF local
<1>9. local.id[1] = "client" /\ local.id[2] = c BY <1>8
<1> DEFINE br == bridge'
<1>10. TrueOf(local, items, br) BY <1>5, <1>6, <1>7, <1>8, <1>9 DEF TrueOf
<1>11. Grown(items, bridge, items, br) BY <1>4, <1>6, <1>7 DEF Grown
<1> HIDE DEF br
<1>12. TrueView(view, items, br) BY <1>1, <1>11, GrownListsAreTrue
<1>13. ListedTexts(view) \subseteq ListedTexts(Shows(view, local)) BY <1>10, <1>12, ShownStays
<1>14. Polled' /\ PageSays' BY <1>1, <1>2, <1>3, <1>13, PolledStays, PageSaysStays
<1>15. Ahead \subseteq Ahead' BY <1>1, <1>2, <1>3, <1>4, <1>6, <1>7, AheadGrows
<1>16. local.id \in Ahead' BY <1>5, <1>6, <1>7, <1>8 DEF Ahead
<1>17. Beyond'
  <2> DEFINE ids == Ahead'
  <2>1. PendingIn(view, ids) BY <1>1, <1>15, MorePending DEF Beyond
  <2>2. local.id \in ids BY <1>16
  <2> HIDE DEF ids
  <2>3. PendingIn(Shows(view, local), ids) BY <1>10, <1>12, <2>1, <2>2, ShownPending
  <2> QED BY <1>3, <2>3 DEF Beyond, ids
<1>18. SendInv' /\ Waits' BY <1>1, <1>2, SendNext, WaitsStep
<1> QED BY <1>14, <1>17, <1>18 DEF SettleInv

-----------------------------------------------------------------------------
\* Steps in which the Bridge gets nothing, and nothing becomes pending.
LEMMA ViewSettles ==
  ASSUME SettleInv, [ThreadNext]_threadVars, bridge' = bridge, sync' = sync,
         ListedTexts(view) \subseteq ListedTexts(view'),
         \A ids : PendingIn(view, ids) => PendingIn(view', ids)
  PROVE  Polled' /\ Beyond' /\ SendInv' /\ Waits'
<1>1. SendInv /\ Waits /\ Polled /\ Beyond BY DEF SettleInv
<1>2. Ahead \subseteq Ahead' BY <1>1, AheadGrows
<1>3. PendingIn(view', Ahead) BY <1>1 DEF Beyond
<1>4. Beyond' BY <1>2, <1>3, MorePending DEF Beyond
<1> QED BY <1>1, <1>4, PolledStays, SendNext, WaitsStep

\* Only the screen of the phone changes, or the thread and what is on its way.
LEMMA OthersSettle ==
  ASSUME SettleInv, \/ Sent \/ NotSent \/ Speak \/ Finish \/ Hear \/ Break \/ Connect
                    \/ UNCHANGED threadVars
  PROVE  SettleInv'
<1>1. /\ SendInv /\ PageSays /\ AllTrue /\ TrueView(view, items, bridge)
      /\ IsList(view) /\ IsList(stream.queue)
  BY DEF SettleInv, SendInv, AllTrue, TrueView, TrueEvents
<1>2. [ThreadNext]_threadVars BY DEF ThreadNext
<1>3. bridge' = bridge /\ sync' = sync /\ poll' = poll
  BY DEF Sent, NotSent, Speak, Finish, Hear, Break, Connect, threadVars
<1>4. /\ ListedTexts(view) \subseteq ListedTexts(view')
      /\ \A ids : PendingIn(view, ids) => PendingIn(view', ids)
  <2>1. CASE view' = view BY <2>1
  <2>2. CASE NotSent
    <3> DEFINE kept == {e \in ToSet(view) : e.id # <<"client", sending>>}
    <3>1. view' = Only(view, kept) BY <2>2 DEF NotSent
    <3>2. ToSet(view') = ToSet(view) \cap kept BY <1>1, <3>1, OnlyIs
    <3>3. ASSUME NEW e \in ToSet(view), Canonical(e) PROVE e \in ToSet(view')
      <4>1. TrueOf(e, items, bridge) BY <1>1 DEF TrueView, TrueEvents
      <4>2. e.id[1] # "client" BY <3>3, <4>1, ListedIsCanonical
      <4>3. e.id # <<"client", sending>> BY <4>2
      <4> QED BY <3>2, <4>3
    <3>4. ToSet(view') \subseteq ToSet(view) BY <3>2
    <3> QED BY <3>3, <3>4 DEF ListedTexts, PendingIn
  <2>3. CASE Hear
    <3> DEFINE e == Head(stream.queue)
    <3>1. stream.queue # << >> /\ view' = Shows(view, e) BY <2>3 DEF Hear
    <3>2. e \in ToSet(stream.queue) BY <1>1, <3>1, HeadAndTail
    <3> HIDE DEF e
    <3>3. TrueOf(e, items, bridge) BY <1>1, <3>2 DEF AllTrue, TrueEvents
    <3>4. ~e.pending BY <3>2 DEF SettleInv, Waits
    <3> QED BY <1>1, <3>1, <3>3, <3>4, ShownStays, ShownPending
  <2> QED BY <2>1, <2>2, <2>3 DEF Sent, Speak, Finish, Break, Connect, threadVars
<1>5. PageSays' BY <1>1, <1>2, <1>3, PageSaysStays
<1>6. Polled' /\ Beyond' /\ SendInv' /\ Waits' BY <1>2, <1>3, <1>4, ViewSettles
<1> QED BY <1>5, <1>6 DEF SettleInv

\* A page says what the user said in the items it lists.
LEMMA PageSaysItems ==
  ASSUME ThreadTypes, NEW from \in 1 .. Len(items) + 1
  PROVE  /\ Among(items, from, Len(items)) \subseteq UserTexts(Page(from))
         /\ Page(from) = << >> => from = Len(items) + 1
<1> DEFINE m == Len(items) + 1 - from
           listed == Page(from)
<1>1. Len(items) \in Nat /\ DOMAIN items = 1 .. Len(items) BY ItemsList
<1>2. listed = [i \in 1 .. m |-> Listed(from + i - 1)] BY DEF Page
<1>3. m \in Nat /\ from \in Nat BY <1>1
<1>4. ASSUME NEW n \in DOMAIN items, from <= n, items[n].by = "user" PROVE items[n].text \in UserTexts(listed)
  <2> DEFINE i == n + 1 - from
  <2>1. i \in 1 .. m /\ from + i - 1 = n BY <1>1, <1>3, <1>4
  <2>2. listed[i] = Listed(n) /\ i \in DOMAIN listed
    <3> HIDE DEF m, i
    <3> QED BY <1>2, <2>1
  <2>3. Listed(n).by = "user" /\ Listed(n).text = items[n].text /\ ~Listed(n).delta
    BY <1>4 DEF Listed, Live, Event
  <2>4. listed[i] \in ToSet(listed) BY <2>2 DEF ToSet
  <2> QED BY <2>2, <2>3, <2>4 DEF UserTexts, IsUser
<1>5. listed = << >> => m = 0
  <2> SUFFICES ASSUME listed = << >>, m # 0 PROVE FALSE OBVIOUS
  <2>1. 1 \in 1 .. m BY <1>3
  <2> HIDE DEF m
  <2>2. 1 \in DOMAIN listed BY <1>2, <2>1
  <2> HIDE DEF listed
  <2>3. DOMAIN listed = {} OBVIOUS
  <2> QED BY <2>2, <2>3
<1>6. m = 0 => from = Len(items) + 1 BY <1>1, <1>3
<1> HIDE DEF listed
<1> QED BY <1>4, <1>5, <1>6 DEF Among, listed

LEMMA PollSettles ==
  ASSUME SettleInv, Poll
  PROVE  SettleInv'
<1>1. SendInv /\ ThreadTypes BY DEF SettleInv, SendInv
<1>2. [ThreadNext]_threadVars BY DEF ThreadNext
<1>3. bridge' = bridge /\ view' = view /\ sync' = sync /\ items' = items BY DEF Poll
<1>4. Polled' /\ Beyond' /\ SendInv' /\ Waits' BY <1>2, <1>3, ViewSettles
<1>5. Len(items) \in Nat /\ DOMAIN items = 1 .. Len(items) /\ sync.after \in 0 .. Len(items)
  BY <1>1, ItemsList DEF ThreadTypes
<1>6. PICK from : /\ from = 1 \/ (from = sync.after /\ sync.after # 0 /\ ~poll'.canonical)
                  /\ poll'.items = items /\ poll'.page = Page(from)
  <2>1. PICK gone \in {FALSE} \cup {sync.on /\ sync.after # 0 /\ left.resets > 0} :
          poll' = [pc |-> "answered", canonical |-> (~sync.on \/ gone), items |-> items,
                   page |-> Page(IF sync.on /\ sync.after # 0 /\ ~gone THEN sync.after ELSE 1)]
    BY DEF Poll
  <2>2. /\ poll'.canonical <=> (~sync.on \/ gone)
        /\ poll'.items = items
        /\ poll'.page = Page(IF sync.on /\ sync.after # 0 /\ ~gone THEN sync.after ELSE 1)
    BY <2>1
  <2> QED BY <2>2
<1>7. from \in 1 .. Len(items) + 1 BY <1>5, <1>6
<1>8. /\ Among(items, from, Len(items)) \subseteq UserTexts(poll'.page)
      /\ poll'.page = << >> => from = Len(items) + 1
  BY <1>1, <1>6, <1>7, PageSaysItems
<1>9. Among(items, sync.after, Len(items)) \subseteq Among(items, from, Len(items))
  <2>1. \A n \in DOMAIN items : sync.after <= n => from <= n BY <1>5, <1>6
  <2> QED BY <2>1 DEF Among
<1>10. from = Len(items) + 1 => Len(items) = sync.after BY <1>5, <1>6
<1>11. PageSays' BY <1>3, <1>6, <1>8, <1>9, <1>10 DEF PageSays
<1> QED BY <1>4, <1>11 DEF SettleInv

-----------------------------------------------------------------------------
\* A page brings the screen to where the page ends.
LEMMA ReceiveSettles ==
  ASSUME SettleInv, Receive
  PROVE  SettleInv' /\ sync'.after = Len(poll.items) /\ items' = items
<1> DEFINE said == UserTexts(poll.page)
           after == sync.after
           last == Len(poll.items)
<1>1. /\ SendInv /\ ThreadTypes /\ Waits /\ Polled /\ PageSays /\ Beyond
      /\ TrueView(view, items, bridge)
  BY DEF SettleInv, SendInv, AllTrue
<1>2. /\ bridge' = bridge /\ items' = items /\ poll.pc = "answered" /\ poll'.pc = "idle"
      /\ view' = IF poll.canonical THEN MergePolled(view, poll.page)
                 ELSE MergeIncremental(view, poll.page)
      /\ sync'.after = IF poll.page # << >> THEN last ELSE after
  BY DEF Receive
<1>3. TruePage(poll.page, items, bridge) BY <1>1, <1>2 DEF SendInv, AllTrue
<1>4. /\ Len(items) \in Nat /\ DOMAIN items = 1 .. Len(items)
      /\ after \in 0 .. Len(items) /\ last \in 0 .. Len(items)
  BY <1>1, <1>2, ItemsList DEF ThreadTypes
<1>5. /\ Among(items, after, last) \subseteq said
      /\ poll.canonical => Among(items, 1, last) \subseteq said
      /\ poll.page = << >> => last = after
  BY <1>1, <1>2 DEF PageSays
<1>6. sync'.after = last BY <1>2, <1>5
<1>7. /\ said \subseteq ListedTexts(MergePolled(view, poll.page))
      /\ said \cup ListedTexts(view) \subseteq ListedTexts(MergeIncremental(view, poll.page))
  BY <1>1, <1>3, PagesStay
<1> HIDE DEF said
<1>8. /\ Among(items, 1, last) \subseteq Among(items, 1, after) \cup Among(items, after, last)
      /\ Among(items, after + 1, Len(items))
           \subseteq Among(items, after, last) \cup Among(items, last + 1, Len(items))
  BY <1>4, AmongParts
<1>9. Among(items, 1, after) \subseteq ListedTexts(view) BY <1>1 DEF Polled
<1> HIDE DEF after, last
<1>10. Among(items, 1, last) \subseteq ListedTexts(view')
  <2>1. CASE poll.canonical BY <1>2, <1>5, <1>7, <2>1
  <2>2. CASE ~poll.canonical BY <1>2, <1>5, <1>7, <1>8, <1>9, <2>2
  <2> QED BY <2>1, <2>2
<1>11. Polled' BY <1>2, <1>6, <1>10 DEF Polled
<1>12. ASSUME NEW e \in ToSet(view), e.pending, e.text \notin said PROVE e.id \in Ahead'
  <2>1. e.id \in Ahead BY <1>1, <1>12 DEF Beyond, PendingIn
  <2>2. PICK c \in DOMAIN bridge : /\ e.id = <<"client", c>>
                                   /\ \/ bridge[c].pc = "posted"
                                      \/ bridge[c].text \in Among(items, after + 1, Len(items))
    BY <2>1 DEF Ahead, after
  <2>3. TrueOf(e, items, bridge) BY <1>1 DEF TrueView, TrueEvents
  <2>4. e.id[1] = "client" /\ e.id[2] = c BY <2>2
  <2>5. e.text = bridge[c].text BY <2>3, <2>4 DEF TrueOf
  <2>6. bridge[c].pc = "posted" \/ bridge[c].text \in Among(items, last + 1, Len(items))
    BY <1>5, <1>8, <1>12, <2>2, <2>5
  <2> QED BY <1>2, <1>6, <2>2, <2>6 DEF Ahead
<1>13. Beyond'
  <2> DEFINE ids == Ahead'
  <2>1. \A e \in ToSet(view) : e.pending /\ e.text \notin said => e.id \in ids BY <1>12
  <2> HIDE DEF ids
  <2>2. PendingIn(MergePolled(view, poll.page), ids) /\ PendingIn(MergeIncremental(view, poll.page), ids)
    BY <1>1, <1>3, <2>1, PagesPending DEF said
  <2> QED BY <1>2, <2>2 DEF Beyond, ids
<1>14. PageSays' BY <1>2 DEF PageSays
<1>15. SendInv' /\ Waits'
  <2>1. [ThreadNext]_threadVars BY DEF ThreadNext
  <2> QED BY <1>1, <2>1, SendNext, WaitsStep
<1> QED BY <1>2, <1>6, <1>11, <1>13, <1>14, <1>15 DEF SettleInv, last

LEMMA SettleNext ==
  ASSUME SettleInv, [ThreadNext]_threadVars
  PROVE  SettleInv'
<1>1. ASSUME NEW text \in Texts, Submit(text) PROVE SettleInv' BY <1>1, SubmitSettles
<1>2. ASSUME NEW c \in DOMAIN bridge, Accept(c) \/ Echo(c) PROVE SettleInv' BY <1>2, BridgeGoesOn
<1>3. CASE Sent \/ NotSent \/ Speak \/ Finish \/ Hear \/ Break \/ Connect \/ UNCHANGED threadVars
  BY <1>3, OthersSettle
<1>4. CASE Poll BY <1>4, PollSettles
<1>5. CASE Receive BY <1>5, ReceiveSettles
<1> QED BY <1>1, <1>2, <1>3, <1>4, <1>5 DEF ThreadNext

\* The phone is up to date, and sends nothing: all that was said is shown, and nothing waits.
LEMMA UpToDate ==
  SettleInv /\ sync.after = Len(items) /\ sending = 0
    => UserTexts(view) = SaidIn(items) /\ AtRest(view)
<1> SUFFICES ASSUME SettleInv, sync.after = Len(items), sending = 0
             PROVE  UserTexts(view) = SaidIn(items) /\ AtRest(view)
  OBVIOUS
<1>1. /\ SendInv /\ ThreadTypes /\ Waits /\ Polled /\ Beyond
      /\ TrueView(view, items, bridge) /\ IsList(view)
  BY DEF SettleInv, SendInv, AllTrue, TrueView, TrueEvents
<1>2. /\ Len(items) \in Nat /\ DOMAIN items = 1 .. Len(items)
      /\ Len(bridge) \in Nat /\ DOMAIN bridge = 1 .. Len(bridge)
  BY <1>1, ItemsList
<1>3. Among(items, 1, Len(items)) = SaidIn(items) /\ Among(items, Len(items) + 1, Len(items)) = {}
  BY <1>2, AmongAll
<1>4. ASSUME NEW e \in ToSet(view), e.pending PROVE FALSE
  <2>1. e.id \in Ahead /\ e.id \in Awaited BY <1>1, <1>4 DEF Beyond, Waits, PendingIn
  <2>2. PICK c \in DOMAIN bridge : e.id = <<"client", c>> /\ bridge[c].pc = "posted"
    BY <1>3, <2>1 DEF Ahead
  <2>3. PICK d \in DOMAIN bridge : e.id = <<"client", d>> /\ (d = sending \/ bridge[d].pc # "posted")
    BY <2>1 DEF Awaited
  <2>4. c = d BY <2>2, <2>3
  <2>5. d # 0 BY <1>2
  <2> QED BY <2>2, <2>3, <2>4, <2>5
<1>5. UserTexts(view) \subseteq SaidIn(items)
  <2> SUFFICES ASSUME NEW e \in ToSet(view), IsUser(e) PROVE e.text \in SaidIn(items) BY DEF UserTexts
  <2>1. TrueOf(e, items, bridge) BY <1>1 DEF TrueView, TrueEvents
  <2> QED BY <1>4, <2>1 DEF TrueOf
<1>6. SaidIn(items) \subseteq UserTexts(view)
  <2>1. ListedTexts(view) \subseteq UserTexts(view) BY DEF ListedTexts, UserTexts, Canonical
  <2> QED BY <1>1, <1>3, <2>1 DEF Polled
<1>7. AtRest(view)
  <2>1. \A i \in DOMAIN view : view[i] \in ToSet(view) BY DEF ToSet
  <2> QED BY <1>4, <2>1 DEF AtRest
<1> QED BY <1>5, <1>6, <1>7

\* Once a poll finds nothing that it does not list, and no request is open, the phone shows
\* exactly the messages that Codex has and none as being sent: for any thread and any page,
\* with a cursor or without, whatever the stream brought, missed or still holds
\* (mergePolledSessionEvents, mergeIncrementalSessionEvents).
THEOREM MessagesAreSettled == Spec => MessagesSettle
<1>1. Init => SettleInv
  BY SettleInitial DEF Init
<1>2. [Next]_vars => [ThreadNext]_threadVars
  BY DEF Next, vars
<1>3. SettleInv /\ [Next]_vars => SettleInv'
  BY <1>2, SettleNext
<1>4. SettleInv /\ [Next]_vars
      => [Receive /\ poll.items = items /\ sending = 0
            => /\ UserTexts(view') = {items[n].text : n \in {n \in DOMAIN items : items[n].by = "user"}}
               /\ AtRest(view')]_threadVars
  <2> SUFFICES ASSUME SettleInv, Receive, poll.items = items, sending = 0
               PROVE  UserTexts(view') = SaidIn(items) /\ AtRest(view')
    BY DEF SaidIn
  <2>1. SettleInv' /\ sync'.after = Len(items') /\ items' = items BY ReceiveSettles
  <2>2. (SettleInv /\ sync.after = Len(items) /\ sending = 0)' BY <2>1 DEF Receive
  <2>3. (UserTexts(view) = SaidIn(items) /\ AtRest(view))' BY <2>2, UpToDate, PTL
  <2> QED BY <2>1, <2>3
<1>5. QED
  BY <1>1, <1>3, <1>4, PTL DEF Spec, MessagesSettle
=============================================================================
