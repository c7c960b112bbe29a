--------------------------- MODULE PhoneSubscription ---------------------------
(***************************************************************************)
(* The push subscription of one phone as its three holders see it: the        *)
(* browser, the Bridge's row (http_api.rs, notification_store.rs) and what     *)
(* the page shows (App.tsx, push-subscription-controller.ts).  The page is      *)
(* served on the fixed address, by a browser that supports push.               *)
(*                                                                         *)
(* An endpoint is a number, 0 for none.  A request may fail before the Bridge   *)
(* has done what it asks or after, and the page may be loaded anew at any       *)
(* moment.                                                                  *)
(***************************************************************************)
EXTENDS Naturals

CONSTANTS MaxEndpoints,  \* bound: subscriptions the browser makes
          MaxLost        \* bound: requests and calls to the browser that fail

ASSUME PhoneSubscriptionAssumption == MaxEndpoints \in Nat /\ MaxLost \in Nat

VARIABLES browser,    \* the endpoint of pushManager.getSubscription
          made,       \* endpoints the browser has made
          permission, \* Notification.permission
          server,     \* the endpoint of the Bridge's row and whether it is valid
          known,      \* pushSubscriptionState
          shown,      \* systemNotificationState
          answer,     \* the state in the settings the effect of a session waits for, or "none"
          sheet,      \* whether the onboarding sheet has not been dismissed
          op,         \* the handler under way: notificationBusy
          lost,       \* requests that failed
          push,       \* the endpoint the worker's push under way goes to, 0 for none
          dropped,    \* history: since the page looked, the browser lost its endpoint or the
                      \* Bridge gave its row up for a push to an earlier one
          unsaved,    \* history: the browser made an endpoint while the Bridge kept an older one
          overtaken   \* history: what is shown comes from an answer a handler overtook

subVars ==
  <<browser, made, permission, server, known, shown, answer, sheet, op, lost, push, dropped, unsaved,
    overtaken>>

\* "was" is pushSubscriptionState as the handler found it; "endpoint" is the subscription it saves.
Idle == [kind |-> "none", pc |-> "idle", failed |-> FALSE, was |-> "none", endpoint |-> 0]

\* subscription_state of notification_settings_response
ServerState == IF server.endpoint = 0 THEN "not_enabled"
               ELSE IF server.valid THEN "active" ELSE "needs_repair"

\* Mutant of Inspect: the Bridge's word is enough.
InspectServerOnly(state) == IF state = "unavailable" THEN "unavailable" ELSE state

Inspect(state) ==
  CASE state = "unavailable" -> "unavailable"
    [] state # "unavailable" /\ permission = "denied" -> "blocked"
    [] state = "active" /\ permission = "granted" /\ browser # 0 -> "active"
    [] state = "not_enabled" /\ permission = "default" /\ browser = 0 -> "not_enabled"
    [] OTHER -> "needs_repair"

\* What inspect says when the browser's subscription cannot be read.
InspectUnread(state) ==
  IF Inspect(state) \in {"unavailable", "blocked"} THEN Inspect(state) ELSE "needs_repair"

SubInit ==
  /\ browser = 0 /\ made = 0 /\ permission \in {"default", "denied"}
  /\ server = [endpoint |-> 0, valid |-> FALSE]
  /\ known = "unavailable" /\ shown = "unavailable" /\ answer = "not_enabled" /\ sheet = TRUE
  /\ op = Idle /\ lost = 0 /\ push = 0 /\ dropped = FALSE /\ unsaved = FALSE /\ overtaken = FALSE

Show(known1, shown1, late) ==
  known' = known1 /\ shown' = shown1 /\ overtaken' = late /\ dropped' = FALSE
Look(known1, state, late) ==
  \E seen \in {Inspect(state), InspectUnread(state)} : Show(known1, seen, late)
AsShown == UNCHANGED <<known, shown, overtaken, dropped>>
Rows == <<server, unsaved>>
Browser == <<browser, made, permission, push>>

\* The page is loaded anew: what was under way is gone, and the settings are asked for.
Load ==
  /\ answer' = ServerState /\ Show("unavailable", "unavailable", FALSE) /\ op' = Idle
  /\ UNCHANGED <<Browser, Rows, sheet, lost>>

\* A session that was refreshed asks for the settings again, beside a handler.
Renew ==
  /\ op # Idle /\ answer' = ServerState /\ AsShown
  /\ UNCHANGED <<Browser, Rows, sheet, op, lost>>

\* The answer; one that failed changes nothing.
Answer ==
  /\ answer # "none" /\ answer' = "none"
  /\ \/ Look(answer, answer, answer # ServerState) /\ UNCHANGED lost
     \/ lost < MaxLost /\ lost' = lost + 1 /\ AsShown
  /\ UNCHANGED <<Browser, Rows, sheet, op>>

Starts(kind, pc) ==
  op = Idle /\ op' = [op EXCEPT !.kind = kind, !.pc = pc, !.was = known]

\* handleEnableSystemNotifications, handleEnableNotificationOnboarding,
\* handleRepairSystemNotifications, handleDisableAlerts, handleSaveNotificationSettings
Begin ==
  /\ \/ shown = "not_enabled" /\ Starts("enable", "permit")
     \/ sheet /\ known # "unavailable" /\ Starts("onboard", "permit")
     \/ shown = "needs_repair" /\ Starts("repair", "delete")
     \/ Starts("disable", "settings")
     \/ Starts("change", "settings")
  /\ AsShown /\ UNCHANGED <<Browser, Rows, answer, sheet, lost>>

\* handleDismissNotificationOnboarding
Dismiss ==
  /\ sheet /\ known # "unavailable" /\ sheet' = FALSE
  /\ AsShown /\ UNCHANGED <<Browser, Rows, answer, op, lost>>

At(pc) == op.pc = pc
Then(pc) == op' = [op EXCEPT !.pc = pc]

\* What each handler does with an error.
Throws ==
  CASE op.kind = "enable" -> op' = Idle /\ Look(known, op.was, op.was # ServerState)
    [] op.kind = "repair" -> op' = Idle /\ Show(known, "needs_repair", FALSE)
    [] op.kind = "disable" /\ At("delete") ->
         op' = [op EXCEPT !.pc = "unsubscribe", !.failed = TRUE] /\ AsShown
    [] op.kind = "disable" /\ At("unsubscribe") -> op' = Idle /\ Show(known, "needs_repair", FALSE)
    [] OTHER -> op' = Idle /\ AsShown

Permit ==
  /\ At("permit")
  /\ permission' \in IF permission = "default" THEN {"default", "granted", "denied"} ELSE {permission}
  /\ Then(IF permission' = "granted" THEN "key" ELSE "refused")
  /\ AsShown /\ UNCHANGED <<browser, made, push, Rows, answer, sheet, lost>>

\* permission_denied
Refused ==
  /\ At("refused") /\ Throws
  /\ UNCHANGED <<Browser, Rows, answer, sheet, lost>>

GetKey ==
  /\ At("key") /\ Then("subscribe") /\ AsShown
  /\ UNCHANGED <<Browser, Rows, answer, sheet, lost>>

\* An endpoint the browser has is used again.
Subscribe ==
  /\ At("subscribe") /\ (browser = 0 => made < MaxEndpoints)
  /\ browser' = (IF browser = 0 THEN made + 1 ELSE browser)
  /\ made' = (IF browser = 0 THEN made + 1 ELSE made)
  /\ op' = [op EXCEPT !.pc = "save", !.endpoint = browser']
  /\ unsaved' = (unsaved \/ (browser = 0 /\ server.endpoint # 0))
  /\ AsShown /\ UNCHANGED <<permission, push, server, answer, sheet, lost>>

\* save_push_subscription
SaveRow == server' = [endpoint |-> op.endpoint, valid |-> TRUE] /\ unsaved' = FALSE

Save ==
  /\ At("save") /\ Then("settings") /\ SaveRow
  /\ AsShown /\ UNCHANGED <<Browser, answer, sheet, lost>>

\* delete_push_subscription
DeleteRow == server' = [endpoint |-> 0, valid |-> FALSE] /\ unsaved' = FALSE

Delete ==
  /\ At("delete") /\ Then("unsubscribe") /\ DeleteRow
  /\ AsShown /\ UNCHANGED <<Browser, answer, sheet, lost>>

\* repair goes on with enable; disable tells what it did.
Unsubscribe ==
  /\ At("unsubscribe") /\ browser' = 0
  /\ IF op.kind = "repair" THEN Then("permit") /\ AsShown
     ELSE IF op.failed THEN Throws
     ELSE op' = Idle /\ Show("not_enabled", "not_enabled", FALSE)
  /\ UNCHANGED <<made, permission, push, Rows, answer, sheet, lost>>

\* applyNotificationResponse
Settings ==
  /\ At("settings") /\ Look(ServerState, ServerState, FALSE)
  /\ CASE op.kind = "disable" -> Then("delete")
       [] op.kind = "change" -> op' = Idle
       [] OTHER -> Then("test")
  /\ sheet' = (sheet /\ op.kind # "onboard")
  /\ UNCHANGED <<Browser, Rows, answer, lost>>

\* sendTestAlert
Test ==
  /\ At("test") /\ op' = Idle /\ AsShown
  /\ UNCHANGED <<Browser, Rows, answer, sheet, lost>>

\* A request fails, before or after the Bridge did what it asks, or the browser fails.
Lost ==
  /\ op.pc \in {"key", "subscribe", "save", "delete", "unsubscribe", "settings", "test"}
  /\ lost < MaxLost /\ lost' = lost + 1
  /\ \/ UNCHANGED Rows
     \/ At("save") /\ SaveRow
     \/ At("delete") /\ DeleteRow
  /\ Throws
  /\ UNCHANGED <<Browser, answer, sheet>>

\* The browser drops its subscription, alone or with the permission the user takes back.
BrowserDrops ==
  /\ browser # 0 /\ browser' = 0 /\ dropped' = TRUE /\ permission' \in {permission, "denied"}
  /\ UNCHANGED <<made, push, Rows, known, shown, overtaken, answer, sheet, op, lost>>

Displayed == <<known, shown, overtaken, answer, sheet, op, lost>>

\* The worker sends to the endpoint it loaded ...
SendPush ==
  /\ push = 0 /\ server.valid /\ push' = server.endpoint
  /\ UNCHANGED <<browser, made, permission, Rows, dropped, Displayed>>

PushArrives ==
  /\ push # 0 /\ push' = 0
  /\ UNCHANGED <<browser, made, permission, Rows, dropped, Displayed>>

\* ... and when that one is gone it invalidates the row of the device, whatever is in it now.
Rejected ==
  /\ push # 0 /\ push # browser /\ push' = 0
  /\ server' = [server EXCEPT !.valid = FALSE]
  /\ dropped' = (dropped \/ server.endpoint # push)
  /\ UNCHANGED <<browser, made, permission, unsaved, Displayed>>

SubNext ==
  \/ Load \/ Renew \/ Answer \/ Begin \/ Dismiss \/ Permit \/ Refused \/ GetKey \/ Subscribe \/ Save
  \/ Delete \/ Unsubscribe \/ Settings \/ Test \/ Lost \/ BrowserDrops
  \/ SendPush \/ PushArrives \/ Rejected

\* When the page says that notifications are active and nothing is under way, the Bridge
\* sends to the endpoint this browser listens on, whatever handlers were cut off or failed
\* half-way; but for an endpoint the browser lost, or the Bridge gave up for an earlier one,
\* since the page looked, for one it made and could not save while the Bridge kept an older
\* one, and for a page told by an answer that a handler overtook (inspect, enable, repair,
\* disable).
ActiveIsTrue ==
  shown = "active" /\ op = Idle /\ ~dropped /\ ~unsaved /\ ~overtaken =>
    server.valid /\ browser # 0 /\ server.endpoint = browser /\ permission = "granted"
=============================================================================
