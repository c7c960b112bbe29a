---------------------------- MODULE ThreadListing ----------------------------
(***************************************************************************)
(* How the Bridge lists Codex's threads (AppServerJsonRpcClient::list_threads *)
(* in bridge-core/src/codex_rpc.rs) while they are used, and two requests      *)
(* that rest on the list: the sessions, with their subtasks marked            *)
(* (http_api.rs list_sessions), and a new session in a workspace of theirs     *)
(* (create_session, workspace.rs).                                           *)
(*                                                                         *)
(* One request is at work.  The titles and the order of the snapshots of one  *)
(* thread are in LiveFeed; the order of the list is left out.                 *)
(***************************************************************************)
EXTENDS Naturals, FiniteSets

CONSTANTS Threads, Subagents,  \* threads of the application, its subtasks among them
          Cwd,                 \* the working directory of each, a path or "none"
          Dirs, Links,         \* paths of directories, of links to them
          PageSize,            \* THREAD_LIST_PAGE_SIZE (100)
          MaxThreadPages,      \* MAX_THREAD_LIST_PAGES (20)
          MaxTouches,          \* bound: uses of threads
          MaxMoves             \* bound: changes of the file system

Root == "/"
Paths == Dirs \cup Links \cup {Root, "relative"}

ASSUME ThreadListingAssumption ==
  /\ IsFiniteSet(Threads) /\ Subagents \subseteq Threads
  /\ Cwd \in [Threads -> Paths \cup {"none"}]
  /\ Dirs \cap Links = {} /\ {Root, "relative", "none", "gone"} \cap (Dirs \cup Links) = {}
  /\ PageSize \in Nat \ {0} /\ MaxThreadPages \in Nat \ {0}
  /\ MaxTouches \in Nat /\ MaxMoves \in Nat

VARIABLES recency,   \* when each thread was last used, 0 if there is none
          listing,   \* the request: what for, cursor, cursors seen, threads, page
          due,       \* history: threads the list must have
          hub,       \* threads the hub has a snapshot of
          marked,    \* subagent_thread_ids
          sessions,  \* the sessions answered
          present,   \* directories there are
          target,    \* the directory each link leads to
          started,   \* where a session was started, the workspaces offered when it was checked
          touches, moves

listingVars == <<recency, listing, due, hub, marked, sessions, present, target, started,
                 touches, moves>>

First == Cardinality(Threads) + MaxTouches + 1  \* above every recency
NoListing == [pc |-> "idle", for |-> "sessions", cursor |-> First, seen |-> {},
              threads |-> {}, page |-> 0, ids |-> {}, path |-> "none"]
NotStarted == [at |-> "none", offered |-> {}]

ListingInit ==
  /\ recency \in [Threads -> 0 .. Cardinality(Threads)]
  /\ \A t, u \in Threads : recency[t] = recency[u] => t = u \/ recency[t] = 0
  /\ listing = NoListing /\ due = {} /\ hub = {} /\ marked = {} /\ sessions = {}
  /\ present = Dirs /\ target \in [Links -> Dirs \cup {Root}] /\ started = NotStarted
  /\ touches = 0 /\ moves = 0

(***************************************************************************)
(* The application: threads are begun, used and archived; a thread may send  *)
(* a notification, which gives it a snapshot.                               *)
(***************************************************************************)
codexOthers == <<listing, hub, marked, sessions, present, target, started, moves>>

\* A thread that moves while pages are fetched may be missed.
Touch(t, at) == /\ touches < MaxTouches /\ touches' = touches + 1
                /\ recency' = [recency EXCEPT ![t] = at]
                /\ due' = IF listing.pc = "pages" THEN due \ {t} ELSE due
                /\ UNCHANGED codexOthers

Use(t) == Touch(t, Cardinality(Threads) + touches + 1)
Archive(t) == recency[t] # 0 /\ Touch(t, 0)

Notifies(t) == /\ recency[t] # 0 /\ hub' = hub \cup {t}
               /\ UNCHANGED <<recency, listing, due, marked, sessions, present, target, started,
                              touches, moves>>

(***************************************************************************)
(* list_threads, page by page.  Codex's cursor is the recency of the page's   *)
(* last thread.                                                             *)
(***************************************************************************)
Below(cursor) == {t \in Threads : recency[t] # 0 /\ recency[t] < cursor}
PageBelow(cursor) ==
  {t \in Below(cursor) : Cardinality({u \in Below(cursor) : recency[u] > recency[t]}) < PageSize}

requestOthers == <<recency, present, target, touches, moves>>

Ask(for, path) ==
  /\ listing.pc = "idle"
  /\ listing' = [NoListing EXCEPT !.pc = "pages", !.for = for, !.path = path]
  /\ due' = {} /\ sessions' = {} /\ started' = NotStarted
  /\ UNCHANGED <<requestOthers, hub, marked>>

\* The threads the first page and those after it can hold.
Reachable == {t \in Below(First) :
                Cardinality({u \in Below(First) : recency[u] > recency[t]})
                  < PageSize * MaxThreadPages}

Oldest(page) == CHOOSE t \in page : \A u \in page : recency[u] >= recency[t]

\* The listing ends with the last page, with a cursor seen before (none must come,
\* stuck), with the page limit, or full.
FetchThreads ==
  /\ listing.pc = "pages"
  /\ \E stuck \in BOOLEAN :
       LET page == PageBelow(listing.cursor)
           more == page # {} /\ page # Below(listing.cursor)
           next == IF stuck THEN listing.cursor ELSE recency[Oldest(page)]
           over == \/ ~more \/ next \in listing.seen
                   \/ listing.page + 1 = MaxThreadPages
       IN  /\ stuck => more /\ listing.page > 0
           /\ listing' = [listing EXCEPT !.threads = @ \cup page, !.page = @ + 1,
                            !.pc = IF over THEN "show" ELSE "pages",
                            !.seen = IF more THEN @ \cup {next} ELSE @,
                            !.cursor = IF over THEN @ ELSE next]
           /\ due' = IF listing.page = 0 THEN Reachable ELSE IF stuck THEN {} ELSE due
  /\ UNCHANGED <<requestOthers, hub, marked, sessions, started>>

\* Mutant of FailListing: a page that fails ends the list.
FailQuietly == /\ listing.pc = "pages" /\ listing' = [listing EXCEPT !.pc = "show"]
               /\ UNCHANGED <<requestOthers, due, hub, marked, sessions, started>>

\* A call that fails, or one thread without an id, fails the request.
FailListing == /\ listing.pc = "pages" /\ listing' = NoListing /\ due' = {}
        /\ UNCHANGED <<requestOthers, hub, marked, sessions, started>>

(***************************************************************************)
(* list_sessions: each thread listed is classified and stored; the answer is  *)
(* what the hub has, with the classification of a moment before.             *)
(***************************************************************************)
ShowThread == /\ listing.pc = "show" /\ listing.for = "sessions"
        /\ \E t \in listing.threads : /\ hub' = hub \cup {t} /\ marked' = marked \cup ({t} \cap Subagents)
                                     /\ listing' = [listing EXCEPT !.threads = @ \ {t}]
        /\ UNCHANGED <<requestOthers, due, sessions, started>>

ReadMarks == /\ listing.pc = "show" /\ listing.for = "sessions" /\ listing.threads = {}
             /\ listing' = [listing EXCEPT !.pc = "reply", !.ids = marked]
             /\ UNCHANGED <<requestOthers, due, hub, marked, sessions, started>>

\* A subtask that was only notified of passes for a session.
Session(t) == [thread |-> t, subagent |-> t \in listing.ids]

ReplyList == /\ listing.pc = "reply"
             /\ sessions' = {Session(t) : t \in hub}
             /\ listing' = [NoListing EXCEPT !.pc = "answered"]
             /\ UNCHANGED <<requestOthers, due, hub, marked, started>>

\* The phone has read the answer.
Rest == /\ listing.pc = "answered" /\ listing' = NoListing
        /\ UNCHANGED <<requestOthers, due, hub, marked, sessions, started>>

(***************************************************************************)
(* Workspaces.  canonicalize follows links and fails on what is not there.    *)
(***************************************************************************)
Leads(path) == IF path \in Links THEN target[path] ELSE path
Canonical(path) == IF Leads(path) \in present \cup {Root} THEN Leads(path) ELSE "gone"

\* is_allowed_path_shape: absolute and not the root.
Shaped(path) == path \notin {"none", "relative", Root}

\* canonical_workspace
Workspaces(path) == IF Shaped(path) THEN {Canonical(path)} \ {Root, "gone"} ELSE {}

\* workspace_options
Offered == UNION {Workspaces(Cwd[t]) : t \in listing.threads}

\* Mutant of Validated: the session is started in the path as it was asked for.
ValidatedAsAsked(path) ==
  IF Shaped(path) /\ Canonical(path) \notin {"gone", Root}
     /\ \E t \in listing.threads : Canonical(path) \in Workspaces(Cwd[t])
  THEN {path} ELSE {}

\* validate_workspace: the canonical directory, not the path that was asked for.
Validated(path) ==
  IF Shaped(path) /\ Canonical(path) \notin {"gone", Root}
     /\ \E t \in listing.threads : Canonical(path) \in Workspaces(Cwd[t])
  THEN {Canonical(path)} ELSE {}

\* create_session: checked ...
Validate ==
  /\ listing.pc = "show" /\ listing.for = "create"
  /\ IF Validated(listing.path) = {} THEN listing' = NoListing /\ UNCHANGED started
     ELSE /\ \E path \in Validated(listing.path) :
               listing' = [listing EXCEPT !.pc = "start", !.path = path]
          /\ started' = [NotStarted EXCEPT !.offered = Offered]
  /\ UNCHANGED <<requestOthers, due, hub, marked, sessions>>

\* ... and started, where the path leads by then.
StartSession == /\ listing.pc = "start"
         /\ started' = [started EXCEPT !.at = Canonical(listing.path)]
         /\ listing' = NoListing
         /\ UNCHANGED <<requestOthers, due, hub, marked, sessions>>

\* Directories are removed and made anew, links are set to others.
Moves == /\ moves < MaxMoves /\ moves' = moves + 1
         /\ \/ \E d \in Dirs : present' = (present \ {d}) \cup ({d} \ present)
               /\ UNCHANGED target
            \/ \E l \in Links, d \in Dirs \cup {Root} : target' = [target EXCEPT ![l] = d]
               /\ UNCHANGED present
         /\ UNCHANGED <<recency, listing, due, hub, marked, sessions, started, touches>>

ListingNext ==
  \/ \E t \in Threads : Use(t) \/ Archive(t) \/ Notifies(t)
  \/ Ask("sessions", "none") \/ \E path \in Paths \cup {"none"} : Ask("create", path)
  \/ FetchThreads \/ FailListing \/ ShowThread \/ ReadMarks \/ ReplyList \/ Rest
  \/ Validate \/ StartSession \/ Moves

(***************************************************************************)
(* Properties.                                                             *)
(***************************************************************************)
\* A list of the sessions has every thread that the page limit reaches and that was
\* neither used nor archived while the pages were fetched, with its subtasks marked,
\* whatever others moved meanwhile (list_threads, remember_subagent_classification).
ListingComplete ==
  listing.pc = "answered" =>
    \A t \in due : [thread |-> t, subagent |-> t \in Subagents] \in sessions

\* A session is started only in a directory that was offered as a workspace when the
\* request was checked, or not at all, wherever links lead by then (validate_workspace,
\* workspace_options).
StartedWhereOffered == started.at \in started.offered \cup {"none", "gone"}
=============================================================================
