----------------------------- MODULE DesktopShell -----------------------------
(***************************************************************************)
(* The remote access of the desktop shell                                  *)
(* (apps/desktop-shell/src-tauri/src/main.rs): the commands that move      *)
(* between no public entry, a quick tunnel and a named one, the status     *)
(* poll and the supervisor that refresh what they show, and the exit.      *)
(*                                                                         *)
(* Commands exclude each other by remote_access_operation; the poll, the   *)
(* supervisor and the exit do not take it, and only the lock of each       *)
(* manager, which a start or a probe holds to its end, stands between      *)
(* them.  Every step below is what happens between two awaits.             *)
(***************************************************************************)
EXTENDS Naturals, Sequences

CONSTANTS Casts,        \* which of the refreshers run together in a behaviour
          MaxCommands   \* bound on the commands of a behaviour

\* The status poll, the supervisor and the health recheck the user asks for.
AllRefreshers == {"poll", "supervisor", "recheck"}

ASSUME ShellAssumption == Casts \subseteq SUBSET AllRefreshers /\ MaxCommands \in Nat

VARIABLES named, quick, \* the tunnel managers, as TunnelPromise sees them
          bridge,       \* the sidecar manager and its process
          context,      \* what the running sidecar was last told
          profile,      \* a named tunnel is configured
          mode, link, failure,  \* active_remote_mode, last_pairing_source, last_named_failure
          op,           \* the command that holds the operation lock
          ref,          \* the refreshers
          wire,         \* the PUT of the remote-access context of each of them
          exit,         \* where the exit stands
          commands      \* how many commands were given

vars == <<named, quick, bridge, context, profile, mode, link, failure, op, ref, wire,
          exit, commands>>

Absent == [state |-> "absent", child |-> "none"]
Stopped == [state |-> "stopped", child |-> "none"]
Named == INSTANCE TunnelPromise WITH Idle <- Absent, tunnel <- named
Quick == INSTANCE TunnelPromise WITH Idle <- Stopped, tunnel <- quick

Modes == {"None", "Quick", "Named", "NamedFailed"}
NamedModes == {"Named", "NamedFailed"}
Links == {"none", "local", "quick", "named"}
Contexts == {"local", "quick", "named"}
Refreshers == DOMAIN ref
Procs == DOMAIN wire

(***************************************************************************)
(* The commands, as the sequences of their steps.                          *)
(***************************************************************************)
Do(verb, arg) == [verb |-> verb, arg |-> arg]

\* transition_remote_access: the mode an action ends in.
Resulting(action, succeeded) ==
  CASE action = "StartNamed" -> IF succeeded THEN "Named" ELSE "NamedFailed"
    [] action = "StartTemporary" -> IF succeeded THEN "Quick" ELSE "NamedFailed"
    [] action = "Stop" -> "None"

\* The tunnel is brought up and gives its address to a pairing link ...
Bring(t) == << Do("start", t), Do("launch", t), Do("reach", t), Do("pair", t) >>
\* ... and is then shown, and told to the sidecar.
Activate(t, m) == << Do("link", t), Do("mode", m), Do("tell", t) >>
Failing(action) == << Do("mode", Resulting(action, FALSE)), Do("sync", "bridge") >>
\* Mutant of Leave: the link of the tunnel that is left stays.
LeaveLinked(t) == << Do("stop", t) >>

Leave(t) == << Do("stop", t), Do("unlink", t) >>

\* Mutant of Arrive: the quick tunnel goes on.
ArriveOnly == << Do("unlink", "named"), Do("unlink", "quick") >>

Arrive == << Do("unlink", "named"), Do("stop", "quick"), Do("unlink", "quick") >>
Prepare == << Do("profile", "set"), Do("bridge", "Fixed"), Do("healthy", "bridge"),
              Do("profile", "token") >>
LaunchNamed == Bring("named") \o Activate("named", Resulting("StartNamed", TRUE))
\* The manager is stopped first when the mode is a named one, just before the
\* start otherwise.
StartNamed == Arrive \o Prepare \o << Do("stop", "named") >> \o LaunchNamed
RestartNamed == Arrive \o << Do("stop", "named") >> \o Prepare \o LaunchNamed

LaunchQuick == << Do("bridge", "Flexible"), Do("healthy", "bridge") >>
               \o Bring("quick") \o Activate("quick", Resulting("StartTemporary", TRUE))
StartTemporary == Leave("named") \o << Do("stop", "quick") >> \o LaunchQuick
RotateQuick == << Do("rotate", "quick"), Do("launch", "quick"), Do("reach", "quick"),
                  Do("pair", "quick"), Do("link", "quick"), Do("tell", "quick") >>
StopQuick == << Do("stop", "quick"), Do("leave", "Quick"), Do("unlink", "quick"),
                Do("sync", "bridge") >>
StopNamed == << Do("stop", "named"), Do("leave", "Named"), Do("unlink", "named"),
                Do("sync", "bridge") >>
StopRemote == << Do("stop", "named"), Do("stop", "quick"), Do("mode", Resulting("Stop", TRUE)),
                 Do("unlink", "named"), Do("unlink", "quick"), Do("tell", "local") >>
StopBridge == StopRemote \o << Do("stop", "bridge"), Do("unlink", "all") >>
StartFixed == << Do("profile", "set"), Do("bridge", "Fixed"), Do("healthy", "bridge"),
                 Do("sync", "bridge") >>
StartFlexible == << Do("bridge", "Flexible"), Do("healthy", "bridge"), Do("sync", "bridge") >>
ResaveProfile == Leave("named") \o << Do("mode", "None"), Do("sync", "bridge"),
                                      Do("save", "profile") >>
DeleteProfile == Leave("named") \o << Do("delete", "profile"), Do("leave", "Named"),
                                      Do("sync", "bridge") >>
LinkTo(t) == << Do("look", t), Do("pair", t), Do("link", t) >>
FailNamed == << Do("unlink", "named") >> \o Failing("StartNamed")
FailTemporary == << Do("unlink", "named"), Do("unlink", "quick") >> \o Failing("StartTemporary")

Program ==
  [ start_named |-> StartNamed, restart_named |-> RestartNamed,
    start_temporary |-> StartTemporary, start_quick |-> LaunchQuick,
    rotate_quick |-> RotateQuick, stop_quick |-> StopQuick, stop_named |-> StopNamed,
    stop_remote |-> StopRemote, stop_bridge |-> StopBridge,
    start_fixed |-> StartFixed, start_flexible |-> StartFlexible,
    save_profile |-> << Do("save", "profile") >>, resave_profile |-> ResaveProfile,
    delete_profile |-> DeleteProfile,
    link_local |-> << Do("pair", "local"), Do("link", "local") >>,
    link_quick |-> LinkTo("quick"), link_named |-> LinkTo("named"),
    \* what a failure goes on with
    fail_named |-> FailNamed, drop_named |-> << Do("stop", "named") >> \o FailNamed,
    fail_temporary |-> FailTemporary,
    drop_temporary |-> << Do("stop", "quick") >> \o FailTemporary,
    drop_quick |-> << Do("stop", "quick") >>,
    drop_rotated |-> << Do("stop", "quick"), Do("mode", "None"), Do("unlink", "quick"),
                        Do("sync", "bridge") >> ]

Commands == {"start_named", "restart_named", "start_temporary", "start_quick",
             "rotate_quick", "stop_quick", "stop_named", "stop_remote", "stop_bridge",
             "start_fixed", "start_flexible", "save_profile", "resave_profile",
             "delete_profile", "link_local", "link_quick", "link_named"}

\* What a command does when a step of it fails; the others just return.
Otherwise(cmd, verb) ==
  CASE cmd \in {"start_named", "restart_named"} ->
         IF verb = "pair" THEN "drop_named" ELSE "fail_named"
    [] cmd = "start_temporary" -> IF verb = "pair" THEN "drop_temporary" ELSE "fail_temporary"
    [] cmd = "start_quick" -> IF verb = "pair" THEN "drop_quick" ELSE "idle"
    [] cmd = "rotate_quick" -> IF verb = "pair" THEN "drop_rotated" ELSE "idle"
    [] OTHER -> "idle"

\* The guards a command checks before its first step, the mode above all.
Allowed(cmd) ==
  CASE cmd \in {"restart_named", "start_fixed", "resave_profile"} -> mode \in NamedModes
    [] cmd \in {"start_named", "start_quick", "start_flexible", "save_profile"} ->
         mode \notin NamedModes
    [] cmd = "rotate_quick" -> mode = "Quick" /\ quick.state = "up"
    [] cmd = "link_local" -> mode = "None"
    [] cmd = "link_quick" -> mode = "Quick"
    [] cmd = "link_named" -> mode = "Named"
    [] OTHER -> TRUE

Running == op.cmd # "idle"
Ended == exit \in {"gone", "cut"}
Here == Program[op.cmd][op.pc]
Finished == [cmd |-> "idle", pc |-> 1]
Then == IF op.pc = Len(Program[op.cmd]) THEN Finished ELSE [op EXCEPT !.pc = @ + 1]
Fallback == LET f == Otherwise(op.cmd, Here.verb)
            IN  IF f = "idle" THEN Finished ELSE [cmd |-> f, pc |-> 1]

Idle == [pc |-> "idle", snap |-> "none", cur |-> "None"]
Silent == [at |-> "none", ctx |-> "None", gen |-> 0]

Init == /\ named = Absent /\ quick = Stopped
        /\ bridge = [state |-> "none", policy |-> "Flexible", live |-> FALSE, gen |-> 0]
        /\ context = "local" /\ profile = TRUE   \* delete_profile leads to the others
        /\ mode = "None" /\ link = "none" /\ failure = FALSE
        /\ op = Finished
        /\ \E cast \in Casts : /\ ref = [r \in cast |-> Idle]
                              /\ wire = [p \in cast \cup {"command"} |-> Silent]
        /\ exit = "no" /\ commands = 0

(***************************************************************************)
(* The locks of the managers: a start and a health probe hold them.        *)
(***************************************************************************)
NamedFree == named.state # "starting" /\ \A r \in Refreshers : ref[r].pc # "probe"
QuickFree == quick.state # "starting" /\ \A r \in Refreshers : ref[r].pc # "quick probe"
BridgeFree == bridge.state # "starting"
Free(t) == IF t = "named" THEN NamedFree ELSE QuickFree
Tunnel(t) == IF t = "named" THEN named ELSE quick

\* One action of the manager of tunnel t.
OnNamed(t) == t = "named" /\ UNCHANGED quick
OnQuick(t) == t = "quick" /\ UNCHANGED named
Begin(t) == (OnNamed(t) /\ Named!Begin) \/ (OnQuick(t) /\ Quick!Begin)
Spawn(t) == (OnNamed(t) /\ Named!Spawn) \/ (OnQuick(t) /\ Quick!Spawn)
Reach(t) == (OnNamed(t) /\ Named!Reach) \/ (OnQuick(t) /\ Quick!Reach)
GiveUp(t) == (OnNamed(t) /\ Named!GiveUp) \/ (OnQuick(t) /\ Quick!GiveUp)
Break(t) == (OnNamed(t) /\ Named!Break) \/ (OnQuick(t) /\ Quick!Break)
\* stop_named_process, stop_quick_if_running: a manager there is not stays away.
Stop(t) == \/ OnNamed(t) /\ (IF named = Absent THEN UNCHANGED named ELSE Named!Stop)
           \/ OnQuick(t) /\ Quick!Stop

tunnels == <<named, quick>>
shown == <<mode, link, failure>>
rest == <<profile, ref, exit, commands>>

(***************************************************************************)
(* The steps of the command in progress.                                   *)
(***************************************************************************)
At(verb) == /\ ~Ended
            /\ Running /\ op.cmd # "recheck" /\ wire["command"].at = "none"
            /\ Here.verb = verb
Goes == op' = Then
Fails == op' = Fallback

Command(cmd) ==
  /\ ~Ended /\ commands < MaxCommands
  /\ ~Running /\ wire["command"].at = "none"
  /\ Allowed(cmd)
  /\ op' = [cmd |-> cmd, pc |-> 1]
  /\ commands' = commands + 1
  /\ UNCHANGED <<tunnels, bridge, context, profile, shown, ref, wire, exit>>

StopStep ==
  /\ At("stop")
  /\ \/ /\ Here.arg \in {"named", "quick"}
        /\ Free(Here.arg) /\ Stop(Here.arg) /\ Goes
        /\ UNCHANGED bridge
     \/ /\ Here.arg = "bridge" /\ BridgeFree
        /\ IF bridge.state = "none"
           THEN Fails /\ UNCHANGED bridge
           ELSE Goes /\ bridge' = [bridge EXCEPT !.state = "down", !.live = FALSE]
        /\ UNCHANGED tunnels
  /\ UNCHANGED <<context, shown, wire, rest>>

StartStep ==
  /\ At("start") /\ Free(Here.arg)
  /\ \/ Tunnel(Here.arg).child # "alive" /\ Begin(Here.arg) /\ Goes
     \/ Fails /\ UNCHANGED tunnels
  /\ UNCHANGED <<bridge, context, shown, wire, rest>>

RotateStep ==
  /\ At("rotate") /\ QuickFree
  /\ \/ Quick!Rotate /\ Goes /\ UNCHANGED named
     \/ quick.state # "up" /\ Fails /\ UNCHANGED tunnels
  /\ UNCHANGED <<bridge, context, shown, wire, rest>>

LaunchStep ==
  /\ At("launch")
  /\ \/ Spawn(Here.arg) /\ Goes
     \/ GiveUp(Here.arg) /\ Fails
  /\ UNCHANGED <<bridge, context, shown, wire, rest>>

ReachStep ==
  /\ At("reach")
  /\ \/ Reach(Here.arg) /\ Goes
     \/ GiveUp(Here.arg) /\ Fails
  /\ UNCHANGED <<bridge, context, shown, wire, rest>>

\* status() of a tunnel a link is wanted for.
LookStep ==
  /\ At("look") /\ Free(Here.arg)
  /\ \/ /\ Tunnel(Here.arg).state = "up" /\ Tunnel(Here.arg).child = "alive" /\ Goes
        /\ UNCHANGED tunnels
     \/ Tunnel(Here.arg).child = "dead" /\ Break(Here.arg) /\ Fails
     \/ Tunnel(Here.arg).state # "up" /\ Fails /\ UNCHANGED tunnels
  /\ UNCHANGED <<bridge, context, shown, wire, rest>>

\* ensure_bridge_for_mode: a manager of the other policy, or one that is not
\* Ready, is stopped and rebuilt; a Ready one is believed.
Believed == bridge.state = "ready" /\ bridge.policy = Here.arg
Down == IF bridge.state = "none" THEN bridge ELSE [bridge EXCEPT !.state = "down", !.live = FALSE]

BridgeStep ==
  /\ At("bridge") /\ BridgeFree
  /\ \/ Believed /\ Goes /\ UNCHANGED <<bridge, context>>
     \/ ~Believed /\ Fails /\ bridge' = Down /\ UNCHANGED context
     \/ /\ ~Believed /\ Goes
        /\ bridge' = [state |-> "starting", policy |-> Here.arg, live |-> TRUE,
                      gen |-> bridge.gen + 1]
        /\ context' = "local"
  /\ UNCHANGED <<tunnels, shown, wire, rest>>

HealthyStep ==
  /\ At("healthy")
  /\ \/ bridge.state = "ready" /\ Goes /\ UNCHANGED bridge
     \/ /\ bridge.state = "starting" /\ bridge.live /\ Goes
        /\ bridge' = [bridge EXCEPT !.state = "ready"]
     \/ /\ bridge.state = "starting" /\ Fails
        /\ bridge' = [bridge EXCEPT !.state = "down", !.live = FALSE]
  /\ UNCHANGED <<tunnels, context, shown, wire, rest>>

\* The pairing token comes from the running sidecar.
PairStep ==
  /\ At("pair") /\ BridgeFree
  /\ (bridge.live /\ Goes) \/ Fails
  /\ UNCHANGED <<tunnels, bridge, context, shown, wire, rest>>

ProfileStep ==
  /\ At("profile")
  /\ Here.arg = "set" => profile
  /\ Goes
  /\ UNCHANGED <<tunnels, bridge, context, shown, wire, rest>>

\* Nothing configured, an unreadable file, no token, no keychain.
ProfileMissing ==
  /\ At("profile") /\ Fails
  /\ UNCHANGED <<tunnels, bridge, context, shown, wire, rest>>

SaveStep ==
  /\ At("save")
  /\ \/ Goes /\ profile' = TRUE
     \/ Fails /\ UNCHANGED profile
  /\ UNCHANGED <<tunnels, bridge, context, shown, wire, ref, exit, commands>>

\* The file is deleted before the token, and either may fail.
DeleteStep ==
  /\ At("delete")
  /\ \/ Goes /\ profile' = FALSE
     \/ Fails /\ profile' \in {profile, FALSE}
  /\ UNCHANGED <<tunnels, bridge, context, shown, wire, ref, exit, commands>>

Unlinked(t) == IF link = t \/ t = "all" THEN "none" ELSE link

Left(arg) == IF arg = "Named" THEN NamedModes ELSE {arg}

\* Every command that writes the mode writes the failure right after it, but
\* for the end of a quick tunnel.
ShowStep ==
  /\ \/ /\ At("mode") /\ UNCHANGED link
        /\ mode' = Here.arg
        /\ failure' = IF op.cmd = "drop_rotated" THEN failure ELSE Here.arg = "NamedFailed"
     \/ /\ At("leave") /\ UNCHANGED link
        /\ mode' = IF mode \in Left(Here.arg) THEN "None" ELSE mode
        /\ failure' = IF Here.arg = "Named" THEN FALSE ELSE failure
     \/ At("link") /\ link' = Here.arg /\ UNCHANGED <<mode, failure>>
     \/ At("unlink") /\ link' = Unlinked(Here.arg) /\ UNCHANGED <<mode, failure>>
  /\ Goes
  /\ UNCHANGED <<tunnels, bridge, context, wire, rest>>
(***************************************************************************)
(* Telling the sidecar what the public entry is.                           *)
(***************************************************************************)
Ask(p, m) == wire' = [wire EXCEPT ![p] = [at |-> "origin", ctx |-> m, gen |-> 0]]

\* sync_active_bridge_remote_access_context reads the mode first.
SyncStep == /\ At("sync")
            /\ Ask("command", mode)
            /\ Goes
            /\ UNCHANGED <<tunnels, bridge, context, shown, rest>>

\* sync_bridge_remote_access_context of what the command just did.
TellStep == /\ At("tell")
            /\ wire' = [wire EXCEPT !["command"] = [at |-> "lock", ctx |-> Here.arg, gen |-> 0]]
            /\ Goes
            /\ UNCHANGED <<tunnels, bridge, context, shown, rest>>

\* Mutant of Address: only the quick tunnel's.
AddressQuick(m) == IF m = "Quick" /\ quick.state = "up" /\ quick.child = "alive"
                   THEN "quick" ELSE "local"

\* Then the address of that mode's tunnel: a named manager that has failed
\* still knows it, a quick one does not, and no address means "local".
Address(m) == CASE m = "Quick" /\ quick.state = "up" /\ quick.child = "alive" -> "quick"
                [] m = "Named" /\ named.state \in {"up", "failed"} -> "named"
                [] OTHER -> "local"

Origin(p) ==
  /\ ~Ended /\ wire[p].at = "origin"
  /\ wire[p].ctx = "Quick" => QuickFree
  /\ wire[p].ctx = "Named" => NamedFree
  /\ wire' = [wire EXCEPT ![p] = [@ EXCEPT !.at = "lock", !.ctx = Address(wire[p].ctx)]]
  /\ UNCHANGED <<bridge, context, shown, op, rest>>
  /\ IF wire[p].ctx = "Quick" /\ quick.child = "dead" THEN Break("quick")
     ELSE IF wire[p].ctx = "Named" /\ named.child = "dead" THEN Break("named")
     ELSE UNCHANGED tunnels

\* Then the bridge manager, for the address and the token of its last launch.
Send(p) ==
  /\ ~Ended /\ wire[p].at = "lock" /\ BridgeFree
  /\ wire' = [wire EXCEPT ![p] = IF bridge.gen = 0 THEN Silent
                                 ELSE [@ EXCEPT !.at = "wire", !.gen = bridge.gen]]
  /\ UNCHANGED <<tunnels, bridge, context, shown, op, rest>>

\* The PUT reaches the sidecar it was addressed to, or nobody.
PutArrives(p) ==
  /\ ~Ended /\ wire[p].at = "wire"
  /\ wire' = [wire EXCEPT ![p] = Silent]
  /\ context' = IF bridge.live /\ bridge.gen = wire[p].gen THEN wire[p].ctx ELSE context
  /\ UNCHANGED <<tunnels, bridge, shown, op, rest>>

(***************************************************************************)
(* The status poll, the supervisor and the health recheck.                 *)
(***************************************************************************)
others == <<bridge, context, profile, exit, commands>>
To(r, pc) == [ref[r] EXCEPT !.pc = pc]
Move(r, next) == ref' = [ref EXCEPT ![r] = next]
After(r) == IF r = "poll" THEN [Idle EXCEPT !.pc = "quick"] ELSE Idle
Seen(r, s) == [ref[r] EXCEPT !.pc = "apply", !.snap = s]

\* get_app_status reads the bridge manager first.
PollBegins ==
  /\ ~Ended /\ "poll" \in Refreshers /\ ref["poll"].pc = "idle" /\ BridgeFree
  /\ Move("poll", To("poll", "named"))
  /\ UNCHANGED <<tunnels, shown, op, wire, others>>

\* A recheck is a command, and holds the operation lock.
RecheckBegins ==
  /\ ~Ended /\ "recheck" \in Refreshers /\ ref["recheck"].pc = "idle"
  /\ ~Running /\ wire["command"].at = "none" /\ commands < MaxCommands
  /\ op' = [cmd |-> "recheck", pc |-> 1] /\ commands' = commands + 1
  /\ Move("recheck", To("recheck", "named"))
  /\ UNCHANGED <<tunnels, shown, wire, bridge, context, profile, exit>>

\* Mutant of Supervise: a manager that has failed is passed over.
SuperviseUp ==
  /\ exit = "no" /\ "supervisor" \in Refreshers
  /\ ref["supervisor"].pc = "idle" /\ NamedFree
  /\ named.state = "up" /\ named.child = "alive" /\ Move("supervisor", To("supervisor", "named"))
  /\ UNCHANGED <<tunnels, shown, op, wire, others>>

\* The supervisor looks at the status, without a probe, every 15 seconds.
Supervise ==
  /\ exit = "no" /\ "supervisor" \in Refreshers
  /\ ref["supervisor"].pc = "idle" /\ NamedFree
  /\ \/ named.child = "dead" /\ Break("named") /\ Move("supervisor", Seen("supervisor", "failed"))
     \/ named.state = "failed" /\ Move("supervisor", Seen("supervisor", "failed"))
        /\ UNCHANGED tunnels
     \/ named.state = "up" /\ named.child = "alive" /\ Move("supervisor", To("supervisor", "named"))
        /\ UNCHANGED tunnels
  /\ UNCHANGED <<shown, op, wire, others>>

\* refresh_runtime_health: a dead child is noticed, the rate limit answers at
\* once, and a probe keeps the lock; a manager that is not there ends it.
Refresh(r) ==
  /\ ~Ended /\ ref[r].pc = "named" /\ NamedFree
  /\ \/ named.child = "dead" /\ Break("named") /\ Move(r, Seen(r, "failed"))
     \/ named.state = "absent" /\ Move(r, After(r)) /\ UNCHANGED tunnels
     \/ /\ named.state # "absent" /\ named.child # "dead"
        /\ named.state = "up" => r # "recheck"
        /\ Move(r, Seen(r, named.state)) /\ UNCHANGED tunnels
     \/ /\ named.state = "up" /\ named.child = "alive"
        /\ Move(r, To(r, "probe")) /\ UNCHANGED tunnels
  /\ op' = IF r = "recheck" /\ named.state = "absent" THEN Finished ELSE op
  /\ UNCHANGED <<shown, wire, others>>

Probed(r) ==
  /\ ~Ended /\ ref[r].pc = "probe"
  /\ \/ Break("named") /\ Move(r, Seen(r, "failed"))
     \/ named.child = "alive" /\ Move(r, Seen(r, "up")) /\ UNCHANGED tunnels
  /\ UNCHANGED <<shown, op, wire, others>>

\* apply_named_runtime_snapshot reads the mode ...
Apply(r) ==
  /\ ~Ended /\ ref[r].pc = "apply"
  /\ IF mode \in NamedModes
     THEN Move(r, [To(r, "write") EXCEPT !.cur = mode]) /\ UNCHANGED op
     ELSE Move(r, After(r)) /\ op' = (IF r = "recheck" THEN Finished ELSE op)
  /\ UNCHANGED <<tunnels, shown, wire, others>>

\* Mutant of RuntimeMode: a failed tunnel ends the named mode.
RuntimeModeNone(cur, snap) == IF snap = "failed" THEN "None" ELSE cur

\* ... writes what follows from it (named_runtime_mode) ...
RuntimeMode(cur, snap) == IF cur = "Named" /\ snap = "failed" THEN "NamedFailed" ELSE cur
Write(r) ==
  /\ ~Ended /\ ref[r].pc = "write"
  /\ LET next == RuntimeMode(ref[r].cur, ref[r].snap)
     IN  mode' = IF next # ref[r].cur THEN next ELSE mode
  /\ Move(r, To(r, "note"))
  /\ UNCHANGED <<tunnels, link, failure, op, wire, others>>

\* ... drops the link of a failed tunnel, notes or forgets the failure ...
Note(r) ==
  /\ ~Ended /\ ref[r].pc = "note"
  /\ \/ /\ ref[r].snap = "failed"
        /\ link' = Unlinked("named") /\ failure' = TRUE
     \/ /\ ref[r].snap = "up" /\ ref[r].cur = "Named"
        /\ failure' = FALSE /\ UNCHANGED link
     \/ /\ ref[r].snap # "failed" /\ ~(ref[r].snap = "up" /\ ref[r].cur = "Named")
        /\ UNCHANGED <<link, failure>>
  /\ Move(r, To(r, "sync"))
  /\ UNCHANGED <<tunnels, mode, op, wire, others>>

\* ... and tells the sidecar, always.
Sync(r) ==
  /\ ~Ended /\ ref[r].pc = "sync"
  /\ Ask(r, mode)
  /\ Move(r, To(r, "told"))
  /\ UNCHANGED <<tunnels, shown, op, others>>

Told(r) ==
  /\ ~Ended /\ ref[r].pc = "told" /\ wire[r].at = "none"
  /\ Move(r, After(r))
  /\ op' = IF r = "recheck" THEN Finished ELSE op
  /\ UNCHANGED <<tunnels, shown, wire, others>>

\* The poll goes on to the quick tunnel and drops the link of one that is not up.
RefreshQuick(r) ==
  /\ ~Ended /\ ref[r].pc = "quick" /\ QuickFree
  /\ \/ /\ quick.child = "dead" /\ Break("quick")
        /\ Move(r, [To(r, "drop") EXCEPT !.snap = "failed"])
     \/ /\ quick.state = "up" /\ quick.child = "alive"
        /\ Move(r, To(r, "quick probe")) /\ UNCHANGED tunnels
     \/ /\ quick.state # "up"
        /\ Move(r, [To(r, "drop") EXCEPT !.snap = quick.state]) /\ UNCHANGED tunnels
  /\ UNCHANGED <<shown, op, wire, others>>

QuickProbed(r) ==
  /\ ~Ended /\ ref[r].pc = "quick probe"
  /\ Move(r, Idle)
  /\ UNCHANGED <<tunnels, shown, op, wire, others>>

DropStale(r) ==
  /\ ~Ended /\ ref[r].pc = "drop"
  /\ link' = Unlinked("quick")
  /\ Move(r, Idle)
  /\ UNCHANGED <<tunnels, mode, failure, op, wire, others>>

(***************************************************************************)
(* The exit.                                                               *)
(***************************************************************************)
shellRest == <<context, profile, shown, op, ref, wire, commands>>

\* The first request starts the cleanup, a second one exits at once.
ExitRequested == /\ exit = "no" /\ exit' = "named"
                 /\ UNCHANGED <<tunnels, bridge, shellRest>>

Shutdown ==
  /\ \/ exit = "named" /\ NamedFree /\ Stop("named") /\ exit' = "quick" /\ UNCHANGED bridge
     \/ exit = "quick" /\ QuickFree /\ Stop("quick") /\ exit' = "bridge" /\ UNCHANGED bridge
     \/ /\ exit = "bridge" /\ BridgeFree /\ bridge' = Down /\ exit' = "last"
        /\ UNCHANGED tunnels
  /\ UNCHANGED shellRest

\* terminate_managed_processes_now tries each lock once, then the process ends.
Kill(t) == [t EXCEPT !.child = "none", !.state = "stopped"]
Terminate ==
  /\ exit # "no" /\ ~Ended
  /\ exit' = IF exit = "last" THEN "gone" ELSE "cut"
  /\ named' = IF NamedFree /\ named # Absent THEN Kill(named) ELSE named
  /\ quick' = IF QuickFree THEN Kill(quick) ELSE quick
  /\ bridge' = IF BridgeFree THEN Down ELSE bridge
  /\ UNCHANGED shellRest

(***************************************************************************)
(* The processes end by themselves.                                        *)
(***************************************************************************)
Dies == /\ \/ Named!Die /\ UNCHANGED <<quick, bridge>>
           \/ Quick!Die /\ UNCHANGED <<named, bridge>>
           \/ /\ bridge.live /\ bridge' = [bridge EXCEPT !.live = FALSE]
              /\ UNCHANGED tunnels
        /\ UNCHANGED <<exit, shellRest>>

Step == \/ StopStep \/ StartStep \/ RotateStep \/ LaunchStep \/ ReachStep \/ LookStep
        \/ BridgeStep \/ HealthyStep \/ PairStep \/ ProfileStep \/ ProfileMissing
        \/ SaveStep \/ DeleteStep \/ ShowStep \/ SyncStep \/ TellStep

Refreshing(r) == \/ Refresh(r) \/ Probed(r) \/ Apply(r) \/ Write(r) \/ Note(r) \/ Sync(r)
                 \/ Told(r) \/ RefreshQuick(r) \/ QuickProbed(r) \/ DropStale(r)

Telling(p) == Origin(p) \/ Send(p) \/ PutArrives(p)

Next == \/ \E cmd \in Commands : Command(cmd)
        \/ Step
        \/ PollBegins \/ RecheckBegins \/ Supervise
        \/ \E r \in Refreshers : Refreshing(r)
        \/ \E p \in Procs : Telling(p)
        \/ ExitRequested \/ Shutdown \/ Terminate
        \/ Dies

Spec == Init /\ [][Next]_vars

\* The runtime runs every task, its mutexes are handed out in order of arrival
\* and the supervisor's timer fires; the poll comes from a window that may close.
Supervision == Supervise \/ \E r \in Refreshers \ {"poll"} : Refreshing(r) \/ Telling(r)

FairSpec == Spec /\ WF_vars(Step) /\ SF_vars(Supervision) /\ SF_vars(Telling("command"))

(***************************************************************************)
(* Properties.                                                             *)
(***************************************************************************)
\* What each variable of the shell may hold.
TypeOK ==
  /\ named \in [state : Named!States \cup {"absent"}, child : Named!Children]
  /\ quick \in [state : Quick!States, child : Quick!Children]
  /\ bridge \in [state : {"none", "down", "starting", "ready"}, policy : {"Flexible", "Fixed"},
                 live : BOOLEAN, gen : Nat]
  /\ context \in Contexts /\ profile \in BOOLEAN
  /\ mode \in Modes /\ link \in Links /\ failure \in BOOLEAN
  /\ op \in [cmd : DOMAIN Program \cup {"idle", "recheck"}, pc : Nat]
  /\ Refreshers \in Casts /\ Procs = Refreshers \cup {"command"}
  /\ ref \in [Refreshers -> [pc : {"idle", "named", "probe", "apply", "write", "note", "sync",
                                   "told", "quick", "quick probe", "drop"},
                             snap : {"none"} \cup Named!States, cur : Modes]]
  /\ wire \in [Procs -> [at : {"none", "origin", "lock", "wire"}, ctx : Modes \cup Contexts,
                         gen : Nat]]
  /\ exit \in {"no", "named", "quick", "bridge", "last", "gone", "cut"}
  /\ commands \in Nat

\* At most one of the two tunnels runs a cloudflared (start_named_tunnel_inner
\* stops the quick one, start_temporary_tunnel the named one, and
\* start_quick_access is refused in the named modes).
Exclusive == ~(named.child = "alive" /\ quick.child = "alive")

\* Between commands, a pairing link for the fixed address is shown only while
\* its tunnel is up or has failed, never after it was stopped
\* (clear_pairing_link_for_source in every command that stops it).
LinkHasTunnel ==
  ~Running /\ exit = "no" /\ link = "named" => named.state \in {"up", "failed"}

\* Between commands, a named tunnel that runs is in a named mode, and no quick
\* one runs in the named mode (a refresh that applies an old snapshot may have
\* turned the quick mode into NamedFailed).
ModeMatchesTunnel ==
  ~Running /\ exit = "no" =>
    /\ named.child # "none" => mode \in NamedModes
    /\ mode = "Named" => quick.child = "none"

Supervised == "supervisor" \in Refreshers

\* A named tunnel that stays up is known to the running sidecar
\* (start_named_tunnel_supervisor tells it again and again).
ContextConverges ==
  (mode = "Named" /\ named.state = "up") ~>
    (context = "named" \/ mode # "Named" \/ named.state # "up" \/ ~bridge.live \/ exit # "no"
     \/ ~Supervised)

\* The link of a named tunnel that has failed does not stay on the screen
\* (the supervisor applies what it sees, apply_named_runtime_snapshot).
DeadLinkGoes ==
  (link = "named" /\ named.state = "failed") ~>
    (link # "named" \/ named.state # "failed" \/ exit # "no" \/ ~Supervised)
=============================================================================
