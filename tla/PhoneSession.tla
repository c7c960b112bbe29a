----------------------------- MODULE PhoneSession -----------------------------
(***************************************************************************)
(* One page of the phone and its session with the Bridge (App.tsx): how it    *)
(* starts, by a pairing link or by the session it saved, the polls of the      *)
(* sessions and of a thread's events, the refresh their refusals share, and     *)
(* what the user's own requests do to the connection it shows.                 *)
(*                                                                         *)
(* A session is what its token is worth: none, good, or ended with its time to  *)
(* live or with the Bridge that minted it;  the Bridge takes a good one while     *)
(* the phone's row is paired (pairing.rs).  Health is open to every caller and    *)
(* says what it says.  The approvals that are asked for with the sessions fare    *)
(* as these do.                                                              *)
(***************************************************************************)
EXTENDS Naturals

CONSTANT MaxEvents \* bound: failed requests, ends of tokens, requests of the user

ASSUME PhoneSessionAssumption == MaxEvents \in Nat

VARIABLES row,     \* the phone's row at the Bridge
          link,    \* the pairing token of the page's address
          saved,   \* the session in localStorage
          boot,    \* loadConnection: where it is, the session it found and the one it has
          device,  \* deviceSession
          label,   \* connection.label
          loaded,  \* liveSessions is not null
          refresh, \* sessionRefreshPromiseRef
          calls,   \* the requests under way
          fails,   \* sessionListFailureCountRef, sessionEventsFailureCountRef
          spent,   \* how much of the bound is used
          stray    \* history: a thread was created and listed after the sign-out

sessionVars == <<row, link, saved, boot, device, label, loaded, refresh, calls, fails,
                 spent, stray>>

Writable == {"Connected", "Writable"}
Good == Writable \cup {"Read-only"}
Stuck == {"ChatGPT/Codex not running", "Inject failed", "Unpaired"}
HealthLabels == {"Writable", "Read-only", "ChatGPT/Codex not running"}

\* canSyncSessionData; the events are polled whatever the label says.
CanSync(d, l) == d # "none" /\ l \notin Stuck
Polls(kind, d, l, shown) == IF kind = "list" THEN CanSync(d, l) ELSE d # "none" /\ shown

Accepts(session) == session = "good" /\ row = "paired"
Spends == spent < MaxEvents /\ spent' = spent + 1

\* connectionStateForError: of a failure, the count-th in a row, or of a refusal.
ErrorLabel(what, count) ==
  IF what = "lost" /\ count < 3 THEN "Reconnecting" ELSE "Connection error"

\* markSessionDataRecovered
Recovered == IF label \in {"Connection error", "Reconnecting"} THEN "Writable" ELSE label

\* The page after a change of its state: an effect whose inputs changed cancels its
\* request and begins anew.  A cancelled request matters only if it may still refresh.
None == [kind \in {"list", "events"} |-> 0]
Cancelled(requests) ==
  {[c EXCEPT !.live = @ /\ c.kind \notin {"list", "events"}] : c \in requests}
Becomes(d, l, shown, requests, counts) ==
  LET Stays(kind) == d = device /\ Polls(kind, d, l, shown)
      kept == {c \in requests : c.kind \in {"list", "events"} => Stays(c.kind)}
  IN  /\ device' = d /\ label' = l /\ loaded' = shown
      /\ calls' = {c \in kept \cup Cancelled(requests \ kept) :
                     c.live \/ (~c.again /\ c.pc \in {"sent", "refused", "waiting"})}
      /\ fails' = [kind \in {"list", "events"} |-> IF Stays(kind) THEN counts[kind] ELSE 0]

Labelled(l, requests) == Becomes(device, l, loaded, requests, fails)

(***************************************************************************)
(* loadConnection.                                                         *)
(***************************************************************************)
\* What it does with a saved session before its first request.
Begins(session, expired) ==
  IF session = "none" THEN [pc |-> "done", label |-> "Unpaired"]
  ELSE IF expired THEN [pc |-> "refresh", label |-> "Pairing"]
  ELSE [pc |-> "health", label |-> "Connected"]

SessionInit ==
  /\ saved \in {"none", "good", "ended"} /\ link \in {"none", "fresh", "stale"}
  /\ row \in {"paired", "revoked"}
  /\ \E expired \in BOOLEAN :
       LET begins == IF link # "none" THEN [pc |-> "pair", label |-> "Pairing"]
                     ELSE Begins(saved, expired)
       IN  /\ boot = [pc |-> begins.pc, found |-> saved, has |-> saved, expired |-> expired]
           /\ label = begins.label
  /\ device = "none" /\ loaded = FALSE /\ calls = {}
  /\ refresh = [pc |-> "none", token |-> "none"]
  /\ fails = None
  /\ spent = 0
  /\ stray = FALSE

BootGoes(pc, session) == boot' = [boot EXCEPT !.pc = pc, !.has = session]
BootOnly == UNCHANGED <<refresh, stray>>

\* completePairingWithDevice
Pair ==
  /\ boot.pc = "pair" /\ link = "fresh" /\ link' = "stale"
  /\ row' = "paired" /\ saved' = "good" /\ BootGoes("health", "good")
  /\ BootOnly /\ UNCHANGED <<device, label, loaded, calls, fails, spent>>

\* The link is used or too old: the saved session serves, if there is one.
PairRefused ==
  /\ boot.pc = "pair" /\ link = "stale"
  /\ LET begins == Begins(boot.found, boot.expired)
     IN  IF boot.found = "none"
         THEN BootGoes("done", "none") /\ Labelled("Connection error", calls)
         ELSE BootGoes(begins.pc, boot.found) /\ Labelled(begins.label, calls)
  /\ link' = "none" /\ BootOnly /\ UNCHANGED <<row, saved, spent>>

BootRefresh ==
  /\ boot.pc = "refresh" /\ row = "paired"
  /\ saved' = "good" /\ BootGoes("health", "good")
  /\ BootOnly /\ UNCHANGED <<row, link, device, label, loaded, calls, fails, spent>>

BootRefreshRefused ==
  /\ boot.pc = "refresh" /\ row # "paired"
  /\ BootGoes("done", "none") /\ Labelled("Connection error", calls)
  /\ BootOnly /\ UNCHANGED <<row, link, saved, spent>>

BootHealth ==
  /\ boot.pc = "health"
  /\ \E l \in HealthLabels : Becomes(boot.has, l, loaded, calls, fails)
  /\ BootGoes("done", boot.has)
  /\ BootOnly /\ UNCHANGED <<row, link, saved, spent>>

\* The catch of loadConnection: it goes on with the session it found.  Of a pairing
\* that failed the Bridge may know.
BootFails ==
  /\ boot.pc # "done" /\ Spends
  /\ IF boot.pc = "pair" /\ link = "fresh"
     THEN \/ UNCHANGED <<row, link>>
          \/ link' = "stale" /\ row' = "paired"
     ELSE UNCHANGED <<row, link>>
  /\ IF boot.found = "none" THEN Labelled("Connection error", calls)
     ELSE Becomes(boot.found, ErrorLabel("lost", 1), loaded, calls, fails)
  /\ BootGoes("done", "none") /\ BootOnly /\ UNCHANGED saved

(***************************************************************************)
(* The requests.  A call is [kind, token, live, again, pc]: live until its   *)
(* effect is cancelled, again once it has been sent with a refreshed token.  *)
(***************************************************************************)
Call(kind) == [kind |-> kind, token |-> device, live |-> TRUE, again |-> FALSE, pc |-> "sent"]
Others(c) == calls \ {c}
Goes(c, pc) == Others(c) \cup {[c EXCEPT !.pc = pc]}

\* loadSessionList, loadEvents: one at a time in each effect.
Ask(kind) ==
  /\ Polls(kind, device, label, loaded)
  /\ \A c \in calls : ~(c.kind = kind /\ c.live)
  /\ calls' = calls \cup {Call(kind)}
  /\ UNCHANGED <<row, link, saved, boot, device, label, loaded, refresh, fails, spent, stray>>

\* handleCreateSession;  handleSubmit and handleApprovalDecision do not refresh.
Act(kind) ==
  /\ device # "none" /\ loaded /\ Spends
  /\ kind \in {"create", "send"} => label \in Writable
  /\ calls' = calls \cup {Call(kind)}
  /\ UNCHANGED <<row, link, saved, boot, device, label, loaded, refresh, fails, stray>>

Reply(c) ==
  /\ c.pc = "sent"
  /\ calls' = Goes(c, IF Accepts(c.token) THEN "ok" ELSE "refused")
  /\ UNCHANGED <<row, link, saved, boot, device, label, loaded, refresh, fails, spent, stray>>

Lose(c) ==
  /\ c.pc = "sent" /\ Spends /\ calls' = Goes(c, "lost")
  /\ UNCHANGED <<row, link, saved, boot, device, label, loaded, refresh, fails, stray>>

TakeAnswer(c) ==
  /\ c.pc = "ok"
  /\ CASE c.kind = "list" /\ c.live ->
            Becomes(device, Recovered, TRUE, Others(c), [fails EXCEPT !["list"] = 0])
       [] c.kind = "events" /\ c.live ->
            Becomes(device, Recovered, loaded, Others(c), [fails EXCEPT !["events"] = 0])
       [] c.kind = "create" -> Becomes(device, Recovered, TRUE, Others(c), fails)
       [] OTHER -> Labelled(label, Others(c))
  /\ stray' = (stray \/ (c.kind = "create" /\ device = "none"))
  /\ UNCHANGED <<row, link, saved, boot, refresh, spent>>

\* What the catch of a request does with its error.
Caught(c, what) ==
  IF c.kind \in {"list", "events"} /\ c.live
  THEN LET count == IF fails[c.kind] < 3 THEN fails[c.kind] + 1 ELSE 3
       IN  Becomes(device, ErrorLabel(what, count), loaded, Others(c),
                   [fails EXCEPT ![c.kind] = count])
  ELSE Labelled(IF c.kind \in {"send", "decide"} THEN ErrorLabel(what, 1) ELSE label, Others(c))

TakeFailure(c) ==
  /\ c.pc = "lost" \/ (c.pc = "refused" /\ (c.again \/ c.kind \in {"send", "decide"}))
  /\ Caught(c, c.pc)
  /\ UNCHANGED <<row, link, saved, boot, refresh, spent, stray>>

\* withSessionRefresh: the first refusal begins the refresh that the others share.
TakeRefusal(c) ==
  /\ c.pc = "refused" /\ ~c.again /\ c.kind \in {"list", "events", "create"}
  /\ IF refresh.pc = "none"
     THEN refresh' = [refresh EXCEPT !.pc = "asked"] /\ Labelled("Pairing", Goes(c, "waiting"))
     ELSE UNCHANGED refresh /\ Labelled(label, Goes(c, "waiting"))
  /\ UNCHANGED <<row, link, saved, boot, spent, stray>>

(***************************************************************************)
(* refreshActiveSession.                                                   *)
(***************************************************************************)
Waiting == {c \in calls : c.pc = "waiting"}
Over == refresh' = [pc |-> "none", token |-> "none"]

Refresh ==
  /\ refresh.pc = "asked" /\ row = "paired"
  /\ saved' = "good" /\ refresh' = [pc |-> "health", token |-> "good"]
  /\ UNCHANGED <<row, link, boot, device, label, loaded, calls, fails, spent, stray>>

\* The page goes on with the new session, and every request that waits is sent again,
\* unless it is one that writes and the Bridge is not writable.
Refreshed ==
  /\ refresh.pc = "health"
  /\ \E l \in HealthLabels :
       LET writes == {c \in Waiting : c.kind = "create" /\ l \notin Writable}
           sent == {[c EXCEPT !.token = refresh.token, !.again = TRUE, !.pc = "sent"] :
                      c \in Waiting \ writes}
       IN  IF device = "none" THEN Labelled(l, (calls \ Waiting) \cup sent)
           ELSE Becomes(refresh.token, l, loaded, Cancelled((calls \ Waiting) \cup sent), None)
  /\ Over /\ UNCHANGED <<row, link, saved, boot, spent, stray>>

\* Mutant of RefreshRefused: the sessions stay.
RefreshRefusedKept ==
  /\ refresh.pc = "asked" /\ row # "paired"
  /\ Becomes("none", "Connection error", loaded, calls \ Waiting, fails)
  /\ Over /\ UNCHANGED <<row, link, saved, boot, spent, stray>>

\* clearAuthenticatedSessionData
RefreshRefused ==
  /\ refresh.pc = "asked" /\ row # "paired"
  /\ Becomes("none", "Connection error", FALSE, calls \ Waiting, fails)
  /\ Over /\ UNCHANGED <<row, link, saved, boot, spent, stray>>

\* Mutant of RefreshFails: the promise that failed is kept.
RefreshFailsHeld ==
  /\ refresh.pc \in {"asked", "health"} /\ Spends
  /\ Labelled(ErrorLabel("lost", 1),
              (calls \ Waiting) \cup {[c EXCEPT !.pc = "lost"] : c \in Waiting})
  /\ refresh' = [refresh EXCEPT !.pc = "failed"]
  /\ UNCHANGED <<row, link, saved, boot, stray>>

RefreshFails ==
  /\ refresh.pc # "none" /\ Spends
  /\ Labelled(ErrorLabel("lost", 1),
              (calls \ Waiting) \cup {[c EXCEPT !.pc = "lost"] : c \in Waiting})
  /\ Over /\ UNCHANGED <<row, link, saved, boot, stray>>

(***************************************************************************)
(* The Bridge.                                                             *)
(***************************************************************************)
\* The time to live of every token passes, or the Bridge starts anew.
Ended(session) == IF session = "good" THEN "ended" ELSE session

TokensEnd ==
  /\ Spends
  /\ saved' = Ended(saved) /\ device' = Ended(device)
  /\ boot' = [boot EXCEPT !.found = Ended(@), !.has = Ended(@)]
  /\ refresh' = [refresh EXCEPT !.token = Ended(@)]
  /\ calls' = {[c EXCEPT !.token = Ended(@)] : c \in calls}
  /\ UNCHANGED <<row, link, label, loaded, fails, stray>>

Revoke ==
  /\ row = "paired" /\ boot.pc = "done"
  /\ row' = "revoked"
  /\ UNCHANGED <<link, saved, boot, device, label, loaded, refresh, calls, fails, spent, stray>>

BootStep == Pair \/ PairRefused \/ BootRefresh \/ BootRefreshRefused \/ BootHealth
RefreshStep == Refresh \/ Refreshed \/ RefreshRefused
CallStep(c) == Reply(c) \/ TakeAnswer(c) \/ TakeFailure(c) \/ TakeRefusal(c)
PollStep(kind) == Ask(kind) \/ \E c \in calls : c.kind = kind /\ c.live /\ CallStep(c)

SessionNext ==
  \/ BootStep \/ BootFails
  \/ \E kind \in {"list", "events"} : Ask(kind)
  \/ \E kind \in {"create", "send", "decide"} : Act(kind)
  \/ \E c \in calls : CallStep(c) \/ Lose(c)
  \/ RefreshStep \/ RefreshFails
  \/ TokensEnd \/ Revoke

(***************************************************************************)
(* Properties.                                                             *)
(***************************************************************************)
\* A phone that is paired and has a session gets through failures, ended tokens and the
\* Bridge's restarts without its user: in the end it shows its sessions and says that it
\* is connected, unless health said that Codex is not there, which ends the polling
\* (refreshActiveSession, withSessionRefresh, loadSessionList, markSessionDataRecovered).
Recovers ==
  <>[](device # "none" /\ row = "paired" /\ label \notin Stuck => loaded /\ label \in Good)

\* A phone whose access is revoked shows no sessions in the end, whichever request met the
\* refusal first and however they overlapped; but for a thread whose creation was answered
\* after the sign-out (clearAuthenticatedSessionData, the cancelled effects).
SignedOut == <>[](row = "revoked" /\ ~stray => ~loaded)
=============================================================================
