-------------------------- MODULE DesktopShellProofs --------------------------
(***************************************************************************)
(* The tunnels of the shell never run together, agree with the mode, and    *)
(* the link of the fixed address is never shown for a tunnel that was       *)
(* stopped.  What makes it inductive is where, inside the command that      *)
(* holds the operation lock, each of these may not hold yet.                *)
(***************************************************************************)
EXTENDS DesktopShell, TLAPS

\* The command in progress is one of cmds, and between two of its steps.
In(cmds, first, last) == op.cmd \in cmds /\ first <= op.pc /\ op.pc <= last
From(cmds, first) == op.cmd \in cmds /\ op.pc >= first

Starters == {"start_named", "restart_named"}
Removers == {"stop_named", "stop_remote", "stop_bridge", "resave_profile", "delete_profile"}
QuickUsers == {"start_quick", "rotate_quick"}

\* What the refreshers' steps need of their state: only a recheck is a command.
PCs == {"idle", "named", "probe", "apply", "write", "note", "sync", "told", "quick",
        "quick probe", "drop"}
RefreshersOK ==
  /\ ref \in [Refreshers -> [pc : PCs, snap : {"none"} \cup Named!States, cur : Modes]]
  /\ "recheck" \in Refreshers /\ ref["recheck"].pc # "idle" => op.cmd = "recheck"

TunnelsOK == /\ named \in [state : Named!States \cup {"absent"}, child : Named!Children]
             /\ quick \in [state : Quick!States, child : Quick!Children]

\* The command stands at one of its steps.
ProgramOK == /\ op.cmd \in DOMAIN Program \cup {"idle", "recheck"}
             /\ op.cmd \in DOMAIN Program => op.pc \in 1 .. Len(Program[op.cmd])
             /\ op = [cmd |-> op.cmd, pc |-> op.pc]

\* Where a named cloudflared runs, the mode is a named one, or is about to be.
NamedInMode ==
  named.child # "none" =>
    mode \in NamedModes \/ In(Starters, 11, 14) \/ In({"drop_named"}, 1, 1)

\* Where a quick one runs the mode is not Named, or is about not to be.
QuickInMode ==
  mode = "Named" =>
    quick.child = "none" \/ In({"start_temporary"}, 8, 11) \/ In({"drop_temporary"}, 1, 1)

\* What a command has stopped, or was only allowed without, stays away to its end.
NamedAway ==
  (\/ From(Removers \cup {"start_temporary"}, 2)
   \/ op.cmd \in QuickUsers \cup {"fail_temporary", "drop_temporary", "drop_rotated"}
   \/ In({"start_named"}, 9, 10) \/ In({"restart_named"}, 5, 10))
    => named.child = "none"
QuickAway == From(Starters, 3) => quick.child = "none"
NotNamed == op.cmd \in QuickUsers => mode # "Named"

\* A link to the fixed address has its tunnel, unless the command that stopped
\* the tunnel has still to drop the link.
LinkWindow == \/ In({"stop_named"}, 2, 3)
              \/ In({"stop_remote", "stop_bridge"}, 2, 4)
              \/ In({"resave_profile", "delete_profile", "start_temporary"}, 2, 2)
HasTunnel == named.state \in {"up", "failed"} \/ exit # "no"
LinkKept == link = "named" => HasTunnel \/ LinkWindow
\* Where a start has no link yet, and a link about to be shown has its tunnel.
NoLinkYet == In(Starters, 2, 13) \/ op.cmd = "drop_named" => link # "named"
LinkToCome == In(Starters, 12, 13) \/ In({"link_named"}, 2, 3) => HasTunnel

ShownOK == mode \in Modes /\ link \in Links
           /\ exit \in {"no", "named", "quick", "bridge", "last", "gone", "cut"}

ShellInv == /\ RefreshersOK /\ TunnelsOK /\ ProgramOK /\ ShownOK
            /\ Exclusive /\ NamedInMode /\ QuickInMode /\ NamedAway /\ QuickAway /\ NotNamed
            /\ LinkKept /\ NoLinkYet /\ LinkToCome

(***************************************************************************)
(* The commands, step by step: what Program spells out of its parts.        *)
(***************************************************************************)
\* Where a command of that many steps stands, and what it does there.
Of(n) == op.pc \in 1 .. n /\ Len(Program[op.cmd]) = n
On(pc, verb, arg) == op.pc = pc /\ Here = Do(verb, arg)

\* The commands that bring a tunnel up.
StartsRead ==
  /\ op.cmd = "start_named" =>
       /\ Of(15)
       /\ \/ On(1, "unlink", "named") \/ On(2, "stop", "quick")
          \/ On(3, "unlink", "quick") \/ On(4, "profile", "set")
          \/ On(5, "bridge", "Fixed") \/ On(6, "healthy", "bridge")
          \/ On(7, "profile", "token") \/ On(8, "stop", "named")
          \/ On(9, "start", "named") \/ On(10, "launch", "named")
          \/ On(11, "reach", "named") \/ On(12, "pair", "named")
          \/ On(13, "link", "named") \/ On(14, "mode", "Named")
          \/ On(15, "tell", "named")
  /\ op.cmd = "restart_named" =>
       /\ Of(15)
       /\ \/ On(1, "unlink", "named") \/ On(2, "stop", "quick")
          \/ On(3, "unlink", "quick") \/ On(4, "stop", "named")
          \/ On(5, "profile", "set") \/ On(6, "bridge", "Fixed")
          \/ On(7, "healthy", "bridge") \/ On(8, "profile", "token")
          \/ On(9, "start", "named") \/ On(10, "launch", "named")
          \/ On(11, "reach", "named") \/ On(12, "pair", "named")
          \/ On(13, "link", "named") \/ On(14, "mode", "Named")
          \/ On(15, "tell", "named")
  /\ op.cmd = "start_temporary" =>
       /\ Of(12)
       /\ \/ On(1, "stop", "named") \/ On(2, "unlink", "named")
          \/ On(3, "stop", "quick") \/ On(4, "bridge", "Flexible")
          \/ On(5, "healthy", "bridge") \/ On(6, "start", "quick")
          \/ On(7, "launch", "quick") \/ On(8, "reach", "quick")
          \/ On(9, "pair", "quick") \/ On(10, "link", "quick")
          \/ On(11, "mode", "Quick") \/ On(12, "tell", "quick")
  /\ op.cmd = "start_quick" =>
       /\ Of(9)
       /\ \/ On(1, "bridge", "Flexible") \/ On(2, "healthy", "bridge")
          \/ On(3, "start", "quick") \/ On(4, "launch", "quick")
          \/ On(5, "reach", "quick") \/ On(6, "pair", "quick") \/ On(7, "link", "quick")
          \/ On(8, "mode", "Quick") \/ On(9, "tell", "quick")
  /\ op.cmd = "rotate_quick" =>
       /\ Of(6)
       /\ \/ On(1, "rotate", "quick") \/ On(2, "launch", "quick")
          \/ On(3, "reach", "quick") \/ On(4, "pair", "quick") \/ On(5, "link", "quick")
          \/ On(6, "tell", "quick")

LEMMA StartsAreRead == ProgramOK => StartsRead
<1> SUFFICES ASSUME ProgramOK PROVE StartsRead
  OBVIOUS
<1>1. CASE op.cmd = "start_named"
  <2>1. Program[op.cmd] = StartNamed /\ op.cmd \in DOMAIN Program
    BY <1>1 DEF Program
  <2>2. Len(StartNamed) = 15
    BY DEF StartNamed, Arrive, Prepare, LaunchNamed, Bring, Activate,
               Resulting
  <2>3. QED
    BY <1>1, <2>1, <2>2
       DEF StartsRead, ProgramOK, Of, On, Here, StartNamed, Arrive, Prepare,
           LaunchNamed, Bring, Activate, Resulting
<1>2. CASE op.cmd = "restart_named"
  <2>1. Program[op.cmd] = RestartNamed /\ op.cmd \in DOMAIN Program
    BY <1>2 DEF Program
  <2>2. Len(RestartNamed) = 15
    BY DEF RestartNamed, Arrive, Prepare, LaunchNamed, Bring, Activate,
               Resulting
  <2>3. QED
    BY <1>2, <2>1, <2>2
       DEF StartsRead, ProgramOK, Of, On, Here, RestartNamed, Arrive, Prepare,
           LaunchNamed, Bring, Activate, Resulting
<1>3. CASE op.cmd = "start_temporary"
  <2>1. Program[op.cmd] = StartTemporary /\ op.cmd \in DOMAIN Program
    BY <1>3 DEF Program
  <2>2. Len(StartTemporary) = 12
    BY DEF StartTemporary, Leave, LaunchQuick, Bring, Activate, Resulting
  <2>3. QED
    BY <1>3, <2>1, <2>2
       DEF StartsRead, ProgramOK, Of, On, Here, StartTemporary, Leave, LaunchQuick,
           Bring, Activate, Resulting
<1>4. CASE op.cmd = "start_quick"
  <2>1. Program[op.cmd] = LaunchQuick /\ op.cmd \in DOMAIN Program
    BY <1>4 DEF Program
  <2>2. Len(LaunchQuick) = 9
    BY DEF LaunchQuick, Bring, Activate, Resulting
  <2>3. QED
    BY <1>4, <2>1, <2>2
       DEF StartsRead, ProgramOK, Of, On, Here, LaunchQuick, Bring, Activate, Resulting
<1>5. CASE op.cmd = "rotate_quick"
  <2>1. Program[op.cmd] = RotateQuick /\ op.cmd \in DOMAIN Program
    BY <1>5 DEF Program
  <2>2. Len(RotateQuick) = 6
    BY DEF RotateQuick
  <2>3. QED
    BY <1>5, <2>1, <2>2
       DEF StartsRead, ProgramOK, Of, On, Here, RotateQuick
<1>6. CASE op.cmd \notin {"start_named", "restart_named", "start_temporary",
                         "start_quick", "rotate_quick"}
  BY <1>6 DEF StartsRead
<1>7. QED
  BY <1>1, <1>2, <1>3, <1>4, <1>5, <1>6

\* The commands that end one.
EndsRead ==
  /\ op.cmd = "stop_quick" =>
       /\ Of(4)
       /\ \/ On(1, "stop", "quick") \/ On(2, "leave", "Quick")
          \/ On(3, "unlink", "quick") \/ On(4, "sync", "bridge")
  /\ op.cmd = "stop_named" =>
       /\ Of(4)
       /\ \/ On(1, "stop", "named") \/ On(2, "leave", "Named")
          \/ On(3, "unlink", "named") \/ On(4, "sync", "bridge")
  /\ op.cmd = "stop_remote" =>
       /\ Of(6)
       /\ \/ On(1, "stop", "named") \/ On(2, "stop", "quick") \/ On(3, "mode", "None")
          \/ On(4, "unlink", "named") \/ On(5, "unlink", "quick")
          \/ On(6, "tell", "local")
  /\ op.cmd = "stop_bridge" =>
       /\ Of(8)
       /\ \/ On(1, "stop", "named") \/ On(2, "stop", "quick") \/ On(3, "mode", "None")
          \/ On(4, "unlink", "named") \/ On(5, "unlink", "quick")
          \/ On(6, "tell", "local") \/ On(7, "stop", "bridge") \/ On(8, "unlink", "all")
  /\ op.cmd = "resave_profile" =>
       /\ Of(5)
       /\ \/ On(1, "stop", "named") \/ On(2, "unlink", "named") \/ On(3, "mode", "None")
          \/ On(4, "sync", "bridge") \/ On(5, "save", "profile")
  /\ op.cmd = "delete_profile" =>
       /\ Of(5)
       /\ \/ On(1, "stop", "named") \/ On(2, "unlink", "named")
          \/ On(3, "delete", "profile") \/ On(4, "leave", "Named")
          \/ On(5, "sync", "bridge")

LEMMA EndsAreRead == ProgramOK => EndsRead
<1> SUFFICES ASSUME ProgramOK PROVE EndsRead
  OBVIOUS
<1>1. CASE op.cmd = "stop_quick"
  <2>1. Program[op.cmd] = StopQuick /\ op.cmd \in DOMAIN Program
    BY <1>1 DEF Program
  <2>2. Len(StopQuick) = 4
    BY DEF StopQuick
  <2>3. QED
    BY <1>1, <2>1, <2>2 DEF EndsRead, ProgramOK, Of, On, Here, StopQuick
<1>2. CASE op.cmd = "stop_named"
  <2>1. Program[op.cmd] = StopNamed /\ op.cmd \in DOMAIN Program
    BY <1>2 DEF Program
  <2>2. Len(StopNamed) = 4
    BY DEF StopNamed
  <2>3. QED
    BY <1>2, <2>1, <2>2 DEF EndsRead, ProgramOK, Of, On, Here, StopNamed
<1>3. CASE op.cmd = "stop_remote"
  <2>1. Program[op.cmd] = StopRemote /\ op.cmd \in DOMAIN Program
    BY <1>3 DEF Program
  <2>2. Len(StopRemote) = 6
    BY DEF StopRemote, Resulting
  <2>3. QED
    BY <1>3, <2>1, <2>2 DEF EndsRead, ProgramOK, Of, On, Here, StopRemote, Resulting
<1>4. CASE op.cmd = "stop_bridge"
  <2>1. Program[op.cmd] = StopBridge /\ op.cmd \in DOMAIN Program
    BY <1>4 DEF Program
  <2>2. Len(StopBridge) = 8
    BY DEF StopBridge, StopRemote, Resulting
  <2>3. QED
    BY <1>4, <2>1, <2>2 DEF EndsRead, ProgramOK, Of, On, Here, StopBridge, StopRemote, Resulting
<1>5. CASE op.cmd = "resave_profile"
  <2>1. Program[op.cmd] = ResaveProfile /\ op.cmd \in DOMAIN Program
    BY <1>5 DEF Program
  <2>2. Len(ResaveProfile) = 5
    BY DEF ResaveProfile, Leave
  <2>3. QED
    BY <1>5, <2>1, <2>2 DEF EndsRead, ProgramOK, Of, On, Here, ResaveProfile, Leave
<1>6. CASE op.cmd = "delete_profile"
  <2>1. Program[op.cmd] = DeleteProfile /\ op.cmd \in DOMAIN Program
    BY <1>6 DEF Program
  <2>2. Len(DeleteProfile) = 5
    BY DEF DeleteProfile, Leave
  <2>3. QED
    BY <1>6, <2>1, <2>2 DEF EndsRead, ProgramOK, Of, On, Here, DeleteProfile, Leave
<1>7. CASE op.cmd \notin {"stop_quick", "stop_named", "stop_remote", "stop_bridge",
                         "resave_profile", "delete_profile"}
  BY <1>7 DEF EndsRead
<1>8. QED
  BY <1>1, <1>2, <1>3, <1>4, <1>5, <1>6, <1>7

\* The other commands.
OthersRead ==
  /\ op.cmd = "start_fixed" =>
       /\ Of(4)
       /\ \/ On(1, "profile", "set") \/ On(2, "bridge", "Fixed")
          \/ On(3, "healthy", "bridge") \/ On(4, "sync", "bridge")
  /\ op.cmd = "start_flexible" =>
       /\ Of(3)
       /\ \/ On(1, "bridge", "Flexible") \/ On(2, "healthy", "bridge")
          \/ On(3, "sync", "bridge")
  /\ op.cmd = "save_profile" =>
       /\ Of(1)
       /\ \/ On(1, "save", "profile")
  /\ op.cmd = "link_local" =>
       /\ Of(2)
       /\ \/ On(1, "pair", "local") \/ On(2, "link", "local")
  /\ op.cmd = "link_quick" =>
       /\ Of(3)
       /\ \/ On(1, "look", "quick") \/ On(2, "pair", "quick") \/ On(3, "link", "quick")
  /\ op.cmd = "link_named" =>
       /\ Of(3)
       /\ \/ On(1, "look", "named") \/ On(2, "pair", "named") \/ On(3, "link", "named")

LEMMA OthersAreRead == ProgramOK => OthersRead
<1> SUFFICES ASSUME ProgramOK PROVE OthersRead
  OBVIOUS
<1>1. CASE op.cmd = "start_fixed"
  BY <1>1 DEF OthersRead, ProgramOK, Of, On, Here, Program, StartFixed
<1>2. CASE op.cmd = "start_flexible"
  BY <1>2 DEF OthersRead, ProgramOK, Of, On, Here, Program, StartFlexible
<1>3. CASE op.cmd = "save_profile"
  BY <1>3 DEF OthersRead, ProgramOK, Of, On, Here, Program
<1>4. CASE op.cmd = "link_local"
  BY <1>4 DEF OthersRead, ProgramOK, Of, On, Here, Program
<1>5. CASE op.cmd = "link_quick"
  BY <1>5 DEF OthersRead, ProgramOK, Of, On, Here, Program, LinkTo
<1>6. CASE op.cmd = "link_named"
  BY <1>6 DEF OthersRead, ProgramOK, Of, On, Here, Program, LinkTo
<1>7. CASE op.cmd \notin {"start_fixed", "start_flexible", "save_profile", "link_local",
                         "link_quick", "link_named"}
  BY <1>7 DEF OthersRead
<1>8. QED
  BY <1>1, <1>2, <1>3, <1>4, <1>5, <1>6, <1>7

\* What the start of a named tunnel that failed goes on with.
NamedFailuresRead ==
  /\ op.cmd = "fail_named" =>
       /\ Of(3)
       /\ \/ On(1, "unlink", "named") \/ On(2, "mode", "NamedFailed")
          \/ On(3, "sync", "bridge")
  /\ op.cmd = "drop_named" =>
       /\ Of(4)
       /\ \/ On(1, "stop", "named") \/ On(2, "unlink", "named")
          \/ On(3, "mode", "NamedFailed") \/ On(4, "sync", "bridge")

LEMMA NamedFailuresAreRead == ProgramOK => NamedFailuresRead
<1> SUFFICES ASSUME ProgramOK PROVE NamedFailuresRead
  OBVIOUS
<1>1. CASE op.cmd = "fail_named"
  BY <1>1 DEF NamedFailuresRead, ProgramOK, Of, On, Here, Program, FailNamed, Failing,
     Resulting
<1>2. CASE op.cmd = "drop_named"
  BY <1>2 DEF NamedFailuresRead, ProgramOK, Of, On, Here, Program, FailNamed, Failing,
     Resulting
<1>3. CASE op.cmd \notin {"fail_named", "drop_named"}
  BY <1>3 DEF NamedFailuresRead
<1>4. QED
  BY <1>1, <1>2, <1>3

\* What the start of a quick tunnel that failed goes on with.
QuickFailuresRead ==
  /\ op.cmd = "fail_temporary" =>
       /\ Of(4)
       /\ \/ On(1, "unlink", "named") \/ On(2, "unlink", "quick")
          \/ On(3, "mode", "NamedFailed") \/ On(4, "sync", "bridge")
  /\ op.cmd = "drop_temporary" =>
       /\ Of(5)
       /\ \/ On(1, "stop", "quick") \/ On(2, "unlink", "named")
          \/ On(3, "unlink", "quick") \/ On(4, "mode", "NamedFailed")
          \/ On(5, "sync", "bridge")
  /\ op.cmd = "drop_quick" =>
       /\ Of(1)
       /\ \/ On(1, "stop", "quick")
  /\ op.cmd = "drop_rotated" =>
       /\ Of(4)
       /\ \/ On(1, "stop", "quick") \/ On(2, "mode", "None") \/ On(3, "unlink", "quick")
          \/ On(4, "sync", "bridge")

LEMMA QuickFailuresAreRead == ProgramOK => QuickFailuresRead
<1> SUFFICES ASSUME ProgramOK PROVE QuickFailuresRead
  OBVIOUS
<1>1. CASE op.cmd = "fail_temporary"
  BY <1>1 DEF QuickFailuresRead, ProgramOK, Of, On, Here, Program, FailTemporary,
     Failing, Resulting
<1>2. CASE op.cmd = "drop_temporary"
  BY <1>2 DEF QuickFailuresRead, ProgramOK, Of, On, Here, Program, FailTemporary,
     Failing, Resulting
<1>3. CASE op.cmd = "drop_quick"
  BY <1>3 DEF QuickFailuresRead, ProgramOK, Of, On, Here, Program
<1>4. CASE op.cmd = "drop_rotated"
  BY <1>4 DEF QuickFailuresRead, ProgramOK, Of, On, Here, Program
<1>5. CASE op.cmd \notin {"fail_temporary", "drop_temporary", "drop_quick",
                         "drop_rotated"}
  BY <1>5 DEF QuickFailuresRead
<1>6. QED
  BY <1>1, <1>2, <1>3, <1>4, <1>5

(***************************************************************************)
(* The same by what is done: where the commands do it, and to what.         *)
(***************************************************************************)
Place(cmds, pc, arg) == op.cmd \in cmds /\ op.pc = pc /\ Here.arg = arg

StopPlaces ==
  \/ Place({"stop_bridge"}, 7, "bridge")
  \/ Place({"start_temporary", "stop_named", "stop_remote", "stop_bridge",
            "resave_profile", "delete_profile", "drop_named"}, 1, "named")
  \/ Place({"restart_named"}, 4, "named")
  \/ Place({"start_named"}, 8, "named")
  \/ Place({"stop_quick", "drop_temporary", "drop_quick", "drop_rotated"}, 1, "quick")
  \/ Place({"start_named", "restart_named", "stop_remote", "stop_bridge"}, 2, "quick")
  \/ Place({"start_temporary"}, 3, "quick")

StartPlaces ==
  \/ Place(Starters, 9, "named")
  \/ Place({"start_quick"}, 3, "quick")
  \/ Place({"start_temporary"}, 6, "quick")

RotatePlaces ==
  \/ Place({"rotate_quick"}, 1, "quick")

LaunchPlaces ==
  \/ Place(Starters, 10, "named")
  \/ Place({"rotate_quick"}, 2, "quick")
  \/ Place({"start_quick"}, 4, "quick")
  \/ Place({"start_temporary"}, 7, "quick")

ReachPlaces ==
  \/ Place(Starters, 11, "named")
  \/ Place({"rotate_quick"}, 3, "quick")
  \/ Place({"start_quick"}, 5, "quick")
  \/ Place({"start_temporary"}, 8, "quick")

LookPlaces ==
  \/ Place({"link_named"}, 1, "named")
  \/ Place({"link_quick"}, 1, "quick")

BridgePlaces ==
  \/ Place({"start_fixed"}, 2, "Fixed")
  \/ Place({"start_named"}, 5, "Fixed")
  \/ Place({"restart_named"}, 6, "Fixed")
  \/ Place({"start_quick", "start_flexible"}, 1, "Flexible")
  \/ Place({"start_temporary"}, 4, "Flexible")

HealthyPlaces ==
  \/ Place({"start_quick", "start_flexible"}, 2, "bridge")
  \/ Place({"start_fixed"}, 3, "bridge")
  \/ Place({"start_temporary"}, 5, "bridge")
  \/ Place({"start_named"}, 6, "bridge")
  \/ Place({"restart_named"}, 7, "bridge")

PairPlaces ==
  \/ Place({"link_local"}, 1, "local")
  \/ Place({"link_named"}, 2, "named")
  \/ Place(Starters, 12, "named")
  \/ Place({"link_quick"}, 2, "quick")
  \/ Place({"rotate_quick"}, 4, "quick")
  \/ Place({"start_quick"}, 6, "quick")
  \/ Place({"start_temporary"}, 9, "quick")

ProfilePlaces ==
  \/ Place({"start_fixed"}, 1, "set")
  \/ Place({"start_named"}, 4, "set")
  \/ Place({"restart_named"}, 5, "set")
  \/ Place({"start_named"}, 7, "token")
  \/ Place({"restart_named"}, 8, "token")

SavePlaces ==
  \/ Place({"save_profile"}, 1, "profile")
  \/ Place({"resave_profile"}, 5, "profile")

DeletePlaces ==
  \/ Place({"delete_profile"}, 3, "profile")

ModePlaces ==
  \/ Place(Starters, 14, "Named")
  \/ Place({"fail_named"}, 2, "NamedFailed")
  \/ Place({"drop_named", "fail_temporary"}, 3, "NamedFailed")
  \/ Place({"drop_temporary"}, 4, "NamedFailed")
  \/ Place({"drop_rotated"}, 2, "None")
  \/ Place({"stop_remote", "stop_bridge", "resave_profile"}, 3, "None")
  \/ Place({"start_quick"}, 8, "Quick")
  \/ Place({"start_temporary"}, 11, "Quick")

LeavePlaces ==
  \/ Place({"stop_named"}, 2, "Named")
  \/ Place({"delete_profile"}, 4, "Named")
  \/ Place({"stop_quick"}, 2, "Quick")

LinkPlaces ==
  \/ Place({"link_local"}, 2, "local")
  \/ Place({"link_named"}, 3, "named")
  \/ Place(Starters, 13, "named")
  \/ Place({"link_quick"}, 3, "quick")
  \/ Place({"rotate_quick"}, 5, "quick")
  \/ Place({"start_quick"}, 7, "quick")
  \/ Place({"start_temporary"}, 10, "quick")

UnlinkPlaces ==
  \/ Place({"stop_bridge"}, 8, "all")
  \/ Place({"start_named", "restart_named", "fail_named", "fail_temporary"}, 1, "named")
  \/ Place({"start_temporary", "resave_profile", "delete_profile", "drop_named",
            "drop_temporary"}, 2, "named")
  \/ Place({"stop_named"}, 3, "named")
  \/ Place({"stop_remote", "stop_bridge"}, 4, "named")
  \/ Place({"fail_temporary"}, 2, "quick")
  \/ Place({"start_named", "restart_named", "stop_quick", "drop_temporary",
            "drop_rotated"}, 3, "quick")
  \/ Place({"stop_remote", "stop_bridge"}, 5, "quick")

SyncPlaces ==
  \/ Place({"start_flexible", "fail_named"}, 3, "bridge")
  \/ Place({"stop_quick", "stop_named", "resave_profile", "start_fixed", "drop_named",
            "fail_temporary", "drop_rotated"}, 4, "bridge")
  \/ Place({"delete_profile", "drop_temporary"}, 5, "bridge")

TellPlaces ==
  \/ Place({"stop_remote", "stop_bridge"}, 6, "local")
  \/ Place(Starters, 15, "named")
  \/ Place({"rotate_quick"}, 6, "quick")
  \/ Place({"start_quick"}, 9, "quick")
  \/ Place({"start_temporary"}, 12, "quick")

\* How long the commands are that touch what the invariant speaks of.
Lengths ==
  /\ op.cmd \in Starters => Len(Program[op.cmd]) = 15
  /\ op.cmd = "start_temporary" => Len(Program[op.cmd]) = 12
  /\ op.cmd = "stop_remote" => Len(Program[op.cmd]) = 6
  /\ op.cmd = "stop_bridge" => Len(Program[op.cmd]) = 8
  /\ op.cmd \in {"resave_profile", "delete_profile", "drop_temporary"} =>
       Len(Program[op.cmd]) = 5
  /\ op.cmd \in {"stop_named", "drop_named"} => Len(Program[op.cmd]) = 4
  /\ op.cmd = "link_named" => Len(Program[op.cmd]) = 3
  /\ op.cmd \in DOMAIN Program => Len(Program[op.cmd]) \in 1 .. 15

\* The commands and what their failures go on with.
LEMMA Names ==
  DOMAIN Program = Commands \cup {"fail_named", "drop_named", "fail_temporary",
                                  "drop_temporary", "drop_quick", "drop_rotated"}
  BY DEF Program, Commands

\* Every step of every command has its place in these lists.
LEMMA Places ==
  ASSUME ProgramOK, op.cmd \in DOMAIN Program
  PROVE  /\ Lengths
         /\ Here.verb = "stop" => StopPlaces
         /\ Here.verb = "start" => StartPlaces
         /\ Here.verb = "rotate" => RotatePlaces
         /\ Here.verb = "launch" => LaunchPlaces
         /\ Here.verb = "reach" => ReachPlaces
         /\ Here.verb = "look" => LookPlaces
         /\ Here.verb = "bridge" => BridgePlaces
         /\ Here.verb = "healthy" => HealthyPlaces
         /\ Here.verb = "pair" => PairPlaces
         /\ Here.verb = "profile" => ProfilePlaces
         /\ Here.verb = "save" => SavePlaces
         /\ Here.verb = "delete" => DeletePlaces
         /\ Here.verb = "mode" => ModePlaces
         /\ Here.verb = "leave" => LeavePlaces
         /\ Here.verb = "link" => LinkPlaces
         /\ Here.verb = "unlink" => UnlinkPlaces
         /\ Here.verb = "sync" => SyncPlaces
         /\ Here.verb = "tell" => TellPlaces
<1> USE StartsAreRead, EndsAreRead, OthersAreRead, NamedFailuresAreRead,
        QuickFailuresAreRead, Names DEF StartsRead, EndsRead, OthersRead,
        NamedFailuresRead, QuickFailuresRead, Of, On, Do, Place, Starters, Commands
<1>1. Lengths
  BY DEF Lengths
<1>2. Here.verb = "stop" => StopPlaces
  BY DEF StopPlaces
<1>3. Here.verb = "start" => StartPlaces
  BY DEF StartPlaces
<1>4. Here.verb = "rotate" => RotatePlaces
  BY DEF RotatePlaces
<1>5. Here.verb = "launch" => LaunchPlaces
  BY DEF LaunchPlaces
<1>6. Here.verb = "reach" => ReachPlaces
  BY DEF ReachPlaces
<1>7. Here.verb = "look" => LookPlaces
  BY DEF LookPlaces
<1>8. Here.verb = "bridge" => BridgePlaces
  BY DEF BridgePlaces
<1>9. Here.verb = "healthy" => HealthyPlaces
  BY DEF HealthyPlaces
<1>10. Here.verb = "pair" => PairPlaces
  BY DEF PairPlaces
<1>11. Here.verb = "profile" => ProfilePlaces
  BY DEF ProfilePlaces
<1>12. Here.verb = "save" => SavePlaces
  BY DEF SavePlaces
<1>13. Here.verb = "delete" => DeletePlaces
  BY DEF DeletePlaces
<1>14. Here.verb = "mode" => ModePlaces
  BY DEF ModePlaces
<1>15. Here.verb = "leave" => LeavePlaces
  BY DEF LeavePlaces
<1>16. Here.verb = "link" => LinkPlaces
  BY DEF LinkPlaces
<1>17. Here.verb = "unlink" => UnlinkPlaces
  BY DEF UnlinkPlaces
<1>18. Here.verb = "sync" => SyncPlaces
  BY DEF SyncPlaces
<1>19. Here.verb = "tell" => TellPlaces
  BY DEF TellPlaces
<1>20. QED
  BY <1>1, <1>2, <1>3, <1>4, <1>5, <1>6, <1>7, <1>8, <1>9, <1>10, <1>11, <1>12, <1>13,
     <1>14, <1>15, <1>16, <1>17, <1>18, <1>19
(***************************************************************************)
(* What a step makes of the command.                                       *)
(***************************************************************************)
OneOn == op'.cmd = op.cmd /\ op'.pc = op.pc + 1
Done ==
  /\ op'.cmd = "idle"
  /\ op.cmd \in Starters => op.pc = 15
  /\ op.cmd = "start_temporary" => op.pc = 12
  /\ op.cmd = "stop_remote" => op.pc = 6
  /\ op.cmd = "stop_bridge" => op.pc = 8
  /\ op.cmd \in {"resave_profile", "delete_profile", "drop_temporary"} => op.pc = 5
  /\ op.cmd \in {"stop_named", "drop_named"} => op.pc = 4
Falls == op'.cmd = Otherwise(op.cmd, Here.verb) /\ op'.pc = 1

\* No command is empty.
LEMMA EveryLength == \A cmd \in DOMAIN Program : 1 \in 1 .. Len(Program[cmd])
<1>1. /\ Len(Program["start_named"]) = 15 /\ Len(Program["restart_named"]) = 15
      /\ Len(Program["start_temporary"]) = 12 /\ Len(Program["start_quick"]) = 9
      /\ Len(Program["rotate_quick"]) = 6
  BY DEF Program, StartNamed, RestartNamed, StartTemporary, LaunchQuick, RotateQuick,
     Arrive, Prepare, LaunchNamed, Leave, Bring, Activate
<1>2. /\ Len(Program["stop_quick"]) = 4 /\ Len(Program["stop_named"]) = 4
      /\ Len(Program["stop_remote"]) = 6 /\ Len(Program["stop_bridge"]) = 8
      /\ Len(Program["resave_profile"]) = 5 /\ Len(Program["delete_profile"]) = 5
  BY DEF Program, StopQuick, StopNamed, StopRemote, StopBridge, ResaveProfile,
     DeleteProfile, Leave
<1>3. /\ Len(Program["start_fixed"]) = 4 /\ Len(Program["start_flexible"]) = 3
      /\ Len(Program["save_profile"]) = 1 /\ Len(Program["link_local"]) = 2
      /\ Len(Program["link_quick"]) = 3 /\ Len(Program["link_named"]) = 3
  BY DEF Program, StartFixed, StartFlexible, LinkTo
<1>4. /\ Len(Program["fail_named"]) = 3 /\ Len(Program["fail_temporary"]) = 4
      /\ Len(Program["drop_quick"]) = 1 /\ Len(Program["drop_rotated"]) = 4
  BY DEF Program, FailNamed, FailTemporary, Failing
<1>5. Len(Program["drop_named"]) = 4
  BY DEF Program, FailNamed, Failing
<1>6. Len(Program["drop_temporary"]) = 5
  BY DEF Program, FailTemporary, Failing
<1>7. \A cmd \in DOMAIN Program : Len(Program[cmd]) \in 1 .. 15
  <2>1. {1, 2, 3, 4, 5, 6, 8, 9, 12, 15} \subseteq 1 .. 15
    OBVIOUS
  <2>2. ASSUME NEW cmd \in Commands
        PROVE  Len(Program[cmd]) \in {1, 2, 3, 4, 5, 6, 8, 9, 12, 15}
    BY <1>1, <1>2, <1>3 DEF Commands
  <2>3. QED
    BY <1>4, <1>5, <1>6, <2>1, <2>2, Names
<1>8. \A n \in 1 .. 15 : 1 \in 1 .. n
  OBVIOUS
<1>9. QED
  BY <1>7, <1>8

\* A step of a command leads to the next one or to the end, or to what a failure
\* goes on with; none of the refreshers is a recheck meanwhile.
LEMMA Moves ==
  ASSUME ShellInv, Running, op.cmd # "recheck"
  PROVE  /\ op.cmd \in DOMAIN Program /\ op.pc \in 1 .. 15
         /\ Goes => ProgramOK' /\ (OneOn \/ Done)
         /\ Fails => ProgramOK' /\ Falls
         /\ (Goes \/ Fails) /\ UNCHANGED ref => RefreshersOK'
<1>1. op.cmd \in DOMAIN Program /\ op.cmd # "idle"
  BY DEF ShellInv, ProgramOK, Running
<1>2. Lengths /\ Len(Program[op.cmd]) \in 1 .. 15
  BY <1>1, Places DEF ShellInv, Lengths
<1>3. op.pc \in 1 .. Len(Program[op.cmd])
  BY <1>1 DEF ShellInv, ProgramOK
<1>4. ASSUME Goes PROVE ProgramOK' /\ (OneOn \/ Done)
  <2>1. CASE op.pc = Len(Program[op.cmd])
    BY <2>1, <1>2, <1>4, Names
       DEF Goes, Then, Finished, ProgramOK, Done, Commands, Lengths
  <2>2. CASE op.pc # Len(Program[op.cmd])
    <3>1. op' = [cmd |-> op.cmd, pc |-> op.pc + 1]
      BY <2>2, <1>4 DEF Goes, Then, ShellInv, ProgramOK
    <3>2. QED
      BY <3>1, <2>2, <1>1, <1>2, <1>3 DEF ProgramOK, OneOn
  <2>3. QED
    BY <2>1, <2>2
<1>5. ASSUME Fails PROVE ProgramOK' /\ Falls
  <2>1. /\ op' = [cmd |-> Otherwise(op.cmd, Here.verb), pc |-> 1]
        /\ Otherwise(op.cmd, Here.verb) \in {"idle", "drop_named", "fail_named",
             "drop_temporary", "fail_temporary", "drop_quick", "drop_rotated"}
    BY <1>5 DEF Fails, Fallback, Finished, Otherwise
  <2>2. \A c \in {"drop_named", "fail_named", "drop_temporary", "fail_temporary",
                  "drop_quick", "drop_rotated"} :
          c \in DOMAIN Program /\ 1 \in 1 .. Len(Program[c])
    BY EveryLength, Names
  <2>3. "idle" \notin DOMAIN Program
    BY Names DEF Commands
  <2>4. QED
    BY <2>1, <2>2, <2>3 DEF ProgramOK, Falls
<1>6. ASSUME Goes \/ Fails, UNCHANGED ref PROVE RefreshersOK'
  BY <1>6, <1>1, Names DEF ShellInv, RefreshersOK, Refreshers, Commands
<1>7. op.pc \in 1 .. 15
  <2>1. \A n \in 1 .. 15 : \A i \in 1 .. n : i \in 1 .. 15
    OBVIOUS
  <2>2. QED
    BY <2>1, <1>2, <1>3
<1>8. QED
  BY <1>1, <1>2, <1>7, <1>4, <1>5, <1>6

(***************************************************************************)
(* The steps that start, reach or stop no tunnel and show nothing.         *)
(***************************************************************************)
QuietVerbs ==
  {"look", "bridge", "healthy", "pair", "profile", "save", "delete", "sync", "tell"}
seen == <<tunnels, mode, link, exit, ref>>

\* They are at none of the places the invariant turns on, but for the look at a tunnel
\* that a link is wanted for and the last step of a preparation.
QuietPlaces ==
  /\ op.cmd \in Starters => (4 <= op.pc /\ op.pc <= 8) \/ op.pc = 12 \/ op.pc = 15
  /\ op.cmd = "start_named" => op.pc # 8
  /\ op.cmd = "restart_named" => op.pc # 4
  /\ op.cmd = "start_temporary" => op.pc = 4 \/ op.pc = 5 \/ op.pc = 9 \/ op.pc = 12
  /\ op.cmd \in {"stop_named", "drop_named"} => op.pc = 4
  /\ op.cmd \in {"stop_remote", "stop_bridge"} => op.pc >= 6
  /\ op.cmd \in {"resave_profile", "delete_profile", "drop_temporary"} => op.pc >= 3
  /\ op.cmd = "link_named" => op.pc <= 2
  /\ op.cmd = "link_named" /\ op.pc = 1 => Here.verb = "look" /\ Here.arg = "named"
  /\ op.cmd \in Starters => (Here.verb = "pair" <=> op.pc = 12)
  /\ op.cmd = "start_temporary" => (Here.verb = "pair" <=> op.pc = 9)

\* They have, by their places.
LEMMA QuietSteps ==
  ASSUME ShellInv, Running, op.cmd # "recheck",
         Here.verb \in QuietVerbs \/ (Here.verb = "stop" /\ Here.arg = "bridge")
  PROVE  QuietPlaces
<1>1. /\ op.cmd \in DOMAIN Program
      /\ Here.verb = "look" => LookPlaces
      /\ Here.verb = "bridge" => BridgePlaces
      /\ Here.verb = "healthy" => HealthyPlaces
      /\ Here.verb = "pair" => PairPlaces
      /\ Here.verb = "profile" => ProfilePlaces
      /\ Here.verb = "save" => SavePlaces
      /\ Here.verb = "delete" => DeletePlaces
      /\ Here.verb = "sync" => SyncPlaces
      /\ Here.verb = "tell" => TellPlaces
      /\ Here.verb = "stop" => StopPlaces
  BY Moves, Places DEF ShellInv
<1>2. QED
  BY <1>1 DEF LookPlaces, BridgePlaces, HealthyPlaces, PairPlaces, ProfilePlaces,
     SavePlaces, DeletePlaces, SyncPlaces, TellPlaces, StopPlaces, Place, QuietVerbs,
     QuietPlaces, Starters

\* A quiet step that goes on keeps the invariant ...
LEMMA QuietGoes ==
  ASSUME ShellInv, Running, op.cmd # "recheck", Goes, UNCHANGED seen,
         Here.verb = "look" => Tunnel(Here.arg).state = "up",
         Here.verb \in QuietVerbs \/ (Here.verb = "stop" /\ Here.arg = "bridge")
  PROVE  ShellInv'
<1>1. op.pc \in 1 .. 15 /\ ProgramOK' /\ RefreshersOK' /\ (OneOn \/ Done) /\ QuietPlaces
  BY Moves, QuietSteps DEF seen
<1> USE <1>1 DEF ShellInv, QuietPlaces, OneOn, Done, In, From, Starters, Removers,
        QuickUsers, seen, tunnels
<1>2. TunnelsOK'
  BY DEF TunnelsOK, Named!States, Quick!States, Named!Children, Quick!Children
<1>3. ShownOK'
  BY DEF ShownOK, Modes, Links, NamedModes
<1>4. Exclusive'
  BY DEF Exclusive
<1>5. NamedInMode'
  BY DEF NamedInMode, NamedModes
<1>6. QuickInMode'
  BY DEF QuickInMode, NamedModes
<1>7. NamedAway'
  BY DEF NamedAway
<1>8. QuickAway'
  BY DEF QuickAway
<1>9. NotNamed'
  BY DEF NotNamed
<1>10. LinkKept'
  BY DEF LinkKept, LinkWindow, HasTunnel
<1>11. NoLinkYet'
  BY DEF NoLinkYet
<1>12. LinkToCome'
  BY DEF LinkToCome, HasTunnel, Tunnel
<1>13. QED
  BY <1>1, <1>2, <1>3, <1>4, <1>5, <1>6, <1>7, <1>8, <1>9, <1>10, <1>11, <1>12
     DEF ShellInv

\* What a failure goes on with.
Failed ==
  \/ op.cmd \notin Starters \cup {"start_temporary"} /\ op'.cmd \in {"idle", "drop_quick"}
  \/ op.cmd \in Starters /\ op'.cmd = IF op.pc = 12 THEN "drop_named" ELSE "fail_named"
  \/ /\ op.cmd = "start_temporary"
     /\ op'.cmd = IF op.pc = 9 THEN "drop_temporary" ELSE "fail_temporary"
  \/ op.cmd = "rotate_quick" /\ op'.cmd = "drop_rotated"

\* ... and so does one that fails.
LEMMA QuietFails ==
  ASSUME ShellInv, Running, op.cmd # "recheck", Fails, UNCHANGED seen,
         Here.verb \in QuietVerbs \/ (Here.verb = "stop" /\ Here.arg = "bridge")
  PROVE  ShellInv'
<1>1. op.pc \in 1 .. 15 /\ ProgramOK' /\ RefreshersOK' /\ QuietPlaces /\ Falls
  BY Moves, QuietSteps DEF seen
<1>2. op'.pc = 1 /\ Failed
  BY <1>1 DEF Falls, Failed, Otherwise, QuietPlaces, Starters
<1> USE <1>1, <1>2 DEF ShellInv, QuietPlaces, Failed, In, From, Starters, Removers,
        QuickUsers, seen, tunnels
<1>3. TunnelsOK'
  BY DEF TunnelsOK, Named!States, Quick!States, Named!Children, Quick!Children
<1>4. ShownOK'
  BY DEF ShownOK, Modes, Links, NamedModes
<1>5. Exclusive'
  BY DEF Exclusive
<1>6. NamedInMode'
  BY DEF NamedInMode, NamedModes
<1>7. QuickInMode'
  BY DEF QuickInMode, NamedModes
<1>8. NamedAway'
  BY DEF NamedAway
<1>9. QuickAway'
  BY DEF QuickAway
<1>10. NotNamed'
  BY DEF NotNamed
<1>11. LinkKept'
  BY DEF LinkKept, LinkWindow, HasTunnel
<1>12. NoLinkYet'
  BY DEF NoLinkYet
<1>13. LinkToCome'
  BY DEF LinkToCome, HasTunnel
<1>14. QED
  BY <1>1, <1>2, <1>3, <1>4, <1>5, <1>6, <1>7, <1>8, <1>9, <1>10, <1>11, <1>12, <1>13
     DEF ShellInv

(***************************************************************************)
(* What happens beside the command: a tunnel breaks, dies or, once the exit *)
(* has begun, is stopped; the mode falls to NamedFailed; a link goes.      *)
(***************************************************************************)
NamedFades == \/ named' = named
              \/ named.state = "up" /\ named' = [state |-> "failed", child |-> "none"]
              \/ named.child = "alive" /\ named' = [named EXCEPT !.child = "dead"]
              \/ exit' # "no" /\ named' = [state |-> "stopped", child |-> "none"]
QuickFades == \/ quick' = quick
              \/ quick' = [state |-> "stopped", child |-> "none"]
              \/ quick' = [state |-> "failed", child |-> "none"]
              \/ quick.child = "alive" /\ quick' = [quick EXCEPT !.child = "dead"]
Beside == /\ NamedFades /\ QuickFades
          /\ mode' \in {mode, "NamedFailed"}
          /\ link' \in {link, "none"}
          /\ exit' = exit \/ exit' \in {"named", "quick", "bridge", "last", "gone", "cut"}
          /\ exit # "no" => exit' # "no"

\* None of it disturbs the invariant, wherever the command stands.
LEMMA BesideKeeps ==
  ASSUME ShellInv, Beside, RefreshersOK',
         \/ op' = op
         \/ /\ op.cmd \in {"idle", "recheck", "link_named", "link_quick"}
            /\ op' \in [cmd : {"idle", "recheck"}, pc : {1}]
  PROVE  ShellInv'
<1>1. ProgramOK'
  BY Names DEF ShellInv, ProgramOK, Commands
<1> USE <1>1 DEF ShellInv, Beside, NamedFades, QuickFades, NamedModes, In, From,
        Starters, Removers, QuickUsers
<1>2. TunnelsOK'
  BY DEF TunnelsOK, Named!States, Quick!States, Named!Children, Quick!Children
<1>3. ShownOK'
  BY DEF ShownOK, Modes, Links, NamedModes
<1>4. Exclusive'
  BY DEF Exclusive
<1>5. NamedInMode'
  BY DEF NamedInMode, NamedModes
<1>6. QuickInMode'
  BY DEF QuickInMode, NamedModes
<1>7. NamedAway'
  BY DEF NamedAway
<1>8. QuickAway'
  BY DEF QuickAway
<1>9. NotNamed'
  BY DEF NotNamed
<1>10. LinkKept'
  BY DEF LinkKept, LinkWindow, HasTunnel, TunnelsOK
<1>11. NoLinkYet'
  BY DEF NoLinkYet
<1>12. LinkToCome'
  BY DEF LinkToCome, HasTunnel, TunnelsOK
<1>13. QED
  BY <1>1, <1>2, <1>3, <1>4, <1>5, <1>6, <1>7, <1>8, <1>9, <1>10, <1>11, <1>12
     DEF ShellInv

(***************************************************************************)
(* The steps that bring a tunnel up, one by one.                           *)
(***************************************************************************)
\* A start only claims its manager.
LEMMA StartKeeps == ASSUME ShellInv, StartStep PROVE ShellInv'
<1>1. /\ StartPlaces /\ op.pc \in 1 .. 15 /\ ProgramOK' /\ RefreshersOK'
      /\ Goes => OneOn \/ Done
      /\ Fails => Falls
  BY Moves, Places DEF StartStep, At, ShellInv, shown, rest
<1> USE <1>1 DEF ShellInv, StartStep, StartPlaces, Place, OneOn, Done, Falls, Otherwise,
        In, From, Starters, Removers, QuickUsers, Tunnel, Begin, OnNamed, OnQuick,
        Named!Begin, Quick!Begin, Named!Manager, Quick!Manager, tunnels, shown, rest
<1>2. TunnelsOK'
  BY DEF TunnelsOK, Named!States, Quick!States, Named!Children, Quick!Children
<1>3. ShownOK'
  BY DEF ShownOK, Modes, Links, NamedModes
<1>4. Exclusive'
  BY DEF Exclusive
<1>5. NamedInMode'
  BY DEF NamedInMode, NamedModes
<1>6. QuickInMode'
  BY DEF QuickInMode, NamedModes
<1>7. NamedAway'
  BY DEF NamedAway
<1>8. QuickAway'
  BY DEF QuickAway
<1>9. NotNamed'
  BY DEF NotNamed
<1>10. LinkKept'
  BY DEF LinkKept, LinkWindow, HasTunnel, NoLinkYet
<1>11. NoLinkYet'
  BY DEF NoLinkYet
<1>12. LinkToCome'
  BY DEF LinkToCome, HasTunnel
<1>13. QED
  BY <1>1, <1>2, <1>3, <1>4, <1>5, <1>6, <1>7, <1>8, <1>9, <1>10, <1>11, <1>12
     DEF ShellInv

\* A rotation starts the quick tunnel anew under one lock.
LEMMA RotateKeeps == ASSUME ShellInv, RotateStep PROVE ShellInv'
<1>1. /\ RotatePlaces /\ op.pc \in 1 .. 15 /\ ProgramOK' /\ RefreshersOK'
      /\ Goes => OneOn \/ Done
      /\ Fails => Falls
  BY Moves, Places DEF RotateStep, At, ShellInv, shown, rest
<1> USE <1>1 DEF ShellInv, RotateStep, RotatePlaces, Place, OneOn, Done, Falls,
        Otherwise, In, From, Starters, Removers, QuickUsers, Quick!Rotate,
        Quick!Manager, tunnels, shown, rest
<1>2. TunnelsOK'
  BY DEF TunnelsOK, Named!States, Quick!States, Named!Children, Quick!Children
<1>3. ShownOK'
  BY DEF ShownOK, Modes, Links, NamedModes
<1>4. Exclusive'
  BY DEF Exclusive
<1>5. NamedInMode'
  BY DEF NamedInMode, NamedModes
<1>6. QuickInMode'
  BY DEF QuickInMode, NamedModes
<1>7. NamedAway'
  BY DEF NamedAway
<1>8. QuickAway'
  BY DEF QuickAway
<1>9. NotNamed'
  BY DEF NotNamed
<1>10. LinkKept'
  BY DEF LinkKept, LinkWindow, HasTunnel
<1>11. NoLinkYet'
  BY DEF NoLinkYet
<1>12. LinkToCome'
  BY DEF LinkToCome, HasTunnel
<1>13. QED
  BY <1>1, <1>2, <1>3, <1>4, <1>5, <1>6, <1>7, <1>8, <1>9, <1>10, <1>11, <1>12
     DEF ShellInv

\* A cloudflared is spawned only where the other one is away.
LEMMA LaunchKeeps == ASSUME ShellInv, LaunchStep PROVE ShellInv'
<1>1. /\ LaunchPlaces /\ op.pc \in 1 .. 15 /\ ProgramOK' /\ RefreshersOK'
      /\ Goes => OneOn \/ Done
      /\ Fails => Falls
  BY Moves, Places DEF LaunchStep, At, ShellInv, shown, rest
<1> USE <1>1 DEF ShellInv, LaunchStep, LaunchPlaces, Place, OneOn, Done, Falls,
        Otherwise, In, From, Starters, Removers, QuickUsers, Spawn, GiveUp, OnNamed,
        OnQuick, Named!Spawn, Quick!Spawn, Named!GiveUp, Quick!GiveUp, Named!Manager,
        Quick!Manager, tunnels, shown, rest
<1>2. TunnelsOK'
  BY DEF TunnelsOK, Named!States, Quick!States, Named!Children, Quick!Children
<1>3. ShownOK'
  BY DEF ShownOK, Modes, Links, NamedModes
<1>4. Exclusive'
  BY DEF Exclusive, NamedAway, QuickAway
<1>5. NamedInMode'
  BY DEF NamedInMode, NamedModes
<1>6. QuickInMode'
  BY DEF QuickInMode, NamedModes, NotNamed
<1>7. NamedAway'
  BY DEF NamedAway
<1>8. QuickAway'
  BY DEF QuickAway
<1>9. NotNamed'
  BY DEF NotNamed
<1>10. LinkKept'
  BY DEF LinkKept, LinkWindow, HasTunnel, NoLinkYet
<1>11. NoLinkYet'
  BY DEF NoLinkYet
<1>12. LinkToCome'
  BY DEF LinkToCome, HasTunnel
<1>13. QED
  BY <1>1, <1>2, <1>3, <1>4, <1>5, <1>6, <1>7, <1>8, <1>9, <1>10, <1>11, <1>12
     DEF ShellInv

\* The named tunnel that is reached may get its link.
LEMMA ReachKeeps == ASSUME ShellInv, ReachStep PROVE ShellInv'
<1>1. /\ ReachPlaces /\ op.pc \in 1 .. 15 /\ ProgramOK' /\ RefreshersOK'
      /\ Goes => OneOn \/ Done
      /\ Fails => Falls
  BY Moves, Places DEF ReachStep, At, ShellInv, shown, rest
<1> USE <1>1 DEF ShellInv, ReachStep, ReachPlaces, Place, OneOn, Done, Falls, Otherwise,
        In, From, Starters, Removers, QuickUsers, Reach, GiveUp, OnNamed, OnQuick,
        Named!Reach, Quick!Reach, Named!GiveUp, Quick!GiveUp, Named!Manager,
        Quick!Manager, tunnels, shown, rest
<1>2. TunnelsOK'
  BY DEF TunnelsOK, Named!States, Quick!States, Named!Children, Quick!Children
<1>3. ShownOK'
  BY DEF ShownOK, Modes, Links, NamedModes
<1>4. Exclusive'
  BY DEF Exclusive, TunnelsOK
<1>5. NamedInMode'
  BY DEF NamedInMode, NamedModes
<1>6. QuickInMode'
  BY DEF QuickInMode, NamedModes
<1>7. NamedAway'
  BY DEF NamedAway
<1>8. QuickAway'
  BY DEF QuickAway
<1>9. NotNamed'
  BY DEF NotNamed
<1>10. LinkKept'
  BY DEF LinkKept, LinkWindow, HasTunnel, NoLinkYet
<1>11. NoLinkYet'
  BY DEF NoLinkYet
<1>12. LinkToCome'
  BY DEF LinkToCome, HasTunnel, TunnelsOK
<1>13. QED
  BY <1>1, <1>2, <1>3, <1>4, <1>5, <1>6, <1>7, <1>8, <1>9, <1>10, <1>11, <1>12
     DEF ShellInv

\* A tunnel is stopped; the bridge is not one.
LEMMA StopTunnelKeeps ==
  ASSUME ShellInv, Running, op.cmd # "recheck", Here.verb = "stop", Goes,
         UNCHANGED <<mode, link, exit, ref>>,
         \/ /\ Here.arg = "named" /\ UNCHANGED quick
            /\ named' \in {named, [state |-> "stopped", child |-> "none"]}
            /\ named'.child = "none"
         \/ /\ Here.arg = "quick" /\ UNCHANGED named
            /\ quick' = [state |-> "stopped", child |-> "none"]
  PROVE  ShellInv'
<1>1. StopPlaces /\ op.pc \in 1 .. 15 /\ ProgramOK' /\ RefreshersOK' /\ (OneOn \/ Done)
  BY Moves, Places DEF ShellInv
<1> USE <1>1 DEF ShellInv, StopPlaces, Place, OneOn, Done, In, From, Starters, Removers,
        QuickUsers
<1>2. TunnelsOK'
  BY DEF TunnelsOK, Named!States, Quick!States, Named!Children, Quick!Children
<1>3. ShownOK'
  BY DEF ShownOK, Modes, Links, NamedModes
<1>4. Exclusive'
  BY DEF Exclusive
<1>5. NamedInMode'
  BY DEF NamedInMode, NamedModes
<1>6. QuickInMode'
  BY DEF QuickInMode, NamedModes
<1>7. NamedAway'
  BY DEF NamedAway
<1>8. QuickAway'
  BY DEF QuickAway
<1>9. NotNamed'
  BY DEF NotNamed
<1>10. LinkKept'
  BY DEF LinkKept, LinkWindow, HasTunnel, NoLinkYet
<1>11. NoLinkYet'
  BY DEF NoLinkYet
<1>12. LinkToCome'
  BY DEF LinkToCome, HasTunnel
<1>13. QED
  BY <1>1, <1>2, <1>3, <1>4, <1>5, <1>6, <1>7, <1>8, <1>9, <1>10, <1>11, <1>12
     DEF ShellInv

\* The stop step, of a tunnel or of the bridge.
LEMMA StopKeeps == ASSUME ShellInv, StopStep PROVE ShellInv'
<1>1. CASE Here.arg = "bridge"
  BY <1>1, QuietGoes, QuietFails DEF StopStep, At, seen, shown, rest, OnNamed, OnQuick
<1>2. CASE Here.arg \in {"named", "quick"} /\ Goes
  BY <1>2, StopTunnelKeeps
     DEF StopStep, At, Stop, OnNamed, OnQuick, Named!Stop, Quick!Stop, Named!Manager,
         Quick!Manager, Absent, shown, rest
<1>3. QED
  BY <1>1, <1>2 DEF StopStep

(***************************************************************************)
(* The steps that show something.                                          *)
(***************************************************************************)
\* The mode is written.
LEMMA ModeKeeps ==
  ASSUME ShellInv, Running, op.cmd # "recheck", Here.verb = "mode", Goes,
         UNCHANGED <<named, quick, exit, ref>>,
         mode' = Here.arg, UNCHANGED link
  PROVE  ShellInv'
<1>1. ModePlaces /\ op.pc \in 1 .. 15 /\ ProgramOK' /\ RefreshersOK' /\ (OneOn \/ Done)
  BY Moves, Places DEF ShellInv
<1> USE <1>1 DEF ShellInv, ModePlaces, Place, OneOn, Done, In, From, Starters, Removers,
        QuickUsers, NamedModes
<1>2. TunnelsOK'
  BY DEF TunnelsOK, Named!States, Quick!States, Named!Children, Quick!Children
<1>3. ShownOK'
  BY DEF ShownOK, Modes, Links, NamedModes
<1>4. Exclusive'
  BY DEF Exclusive
<1>5. NamedInMode'
  BY DEF NamedInMode, NamedModes, NamedAway
<1>6. QuickInMode'
  BY DEF QuickInMode, NamedModes, QuickAway
<1>7. NamedAway'
  BY DEF NamedAway
<1>8. QuickAway'
  BY DEF QuickAway
<1>9. NotNamed'
  BY DEF NotNamed
<1>10. LinkKept'
  BY DEF LinkKept, LinkWindow, HasTunnel
<1>11. NoLinkYet'
  BY DEF NoLinkYet
<1>12. LinkToCome'
  BY DEF LinkToCome, HasTunnel
<1>13. QED
  BY <1>1, <1>2, <1>3, <1>4, <1>5, <1>6, <1>7, <1>8, <1>9, <1>10, <1>11, <1>12
     DEF ShellInv

\* The mode of a tunnel that was stopped is left.
LEMMA LeaveKeeps ==
  ASSUME ShellInv, Running, op.cmd # "recheck", Here.verb = "leave", Goes,
         UNCHANGED <<named, quick, exit, ref>>,
         mode' = IF mode \in Left(Here.arg) THEN "None" ELSE mode, UNCHANGED link
  PROVE  ShellInv'
<1>1. LeavePlaces /\ op.pc \in 1 .. 15 /\ ProgramOK' /\ RefreshersOK' /\ (OneOn \/ Done)
  BY Moves, Places DEF ShellInv
<1> USE <1>1 DEF ShellInv, LeavePlaces, Place, OneOn, Done, In, From, Starters,
        Removers, QuickUsers, NamedModes
<1>2. TunnelsOK'
  BY DEF TunnelsOK, Named!States, Quick!States, Named!Children, Quick!Children
<1>3. ShownOK'
  BY DEF ShownOK, Modes, Links, NamedModes, Left
<1>4. Exclusive'
  BY DEF Exclusive
<1>5. NamedInMode'
  BY DEF NamedInMode, NamedModes, NamedAway, Left
<1>6. QuickInMode'
  BY DEF QuickInMode, NamedModes, Left
<1>7. NamedAway'
  BY DEF NamedAway
<1>8. QuickAway'
  BY DEF QuickAway
<1>9. NotNamed'
  BY DEF NotNamed, Left
<1>10. LinkKept'
  BY DEF LinkKept, LinkWindow, HasTunnel
<1>11. NoLinkYet'
  BY DEF NoLinkYet
<1>12. LinkToCome'
  BY DEF LinkToCome, HasTunnel
<1>13. QED
  BY <1>1, <1>2, <1>3, <1>4, <1>5, <1>6, <1>7, <1>8, <1>9, <1>10, <1>11, <1>12
     DEF ShellInv

\* A link is shown.
LEMMA LinkKeeps ==
  ASSUME ShellInv, Running, op.cmd # "recheck", Here.verb = "link", Goes,
         UNCHANGED <<named, quick, exit, ref>>,
         link' = Here.arg, UNCHANGED mode
  PROVE  ShellInv'
<1>1. LinkPlaces /\ op.pc \in 1 .. 15 /\ ProgramOK' /\ RefreshersOK' /\ (OneOn \/ Done)
  BY Moves, Places DEF ShellInv
<1> USE <1>1 DEF ShellInv, LinkPlaces, Place, OneOn, Done, In, From, Starters, Removers,
        QuickUsers, NamedModes
<1>2. TunnelsOK'
  BY DEF TunnelsOK, Named!States, Quick!States, Named!Children, Quick!Children
<1>3. ShownOK'
  BY DEF ShownOK, Modes, Links, NamedModes
<1>4. Exclusive'
  BY DEF Exclusive
<1>5. NamedInMode'
  BY DEF NamedInMode, NamedModes
<1>6. QuickInMode'
  BY DEF QuickInMode, NamedModes
<1>7. NamedAway'
  BY DEF NamedAway
<1>8. QuickAway'
  BY DEF QuickAway
<1>9. NotNamed'
  BY DEF NotNamed
<1>10. LinkKept'
  BY DEF LinkKept, LinkWindow, HasTunnel, LinkToCome
<1>11. NoLinkYet'
  BY DEF NoLinkYet
<1>12. LinkToCome'
  BY DEF LinkToCome, HasTunnel
<1>13. QED
  BY <1>1, <1>2, <1>3, <1>4, <1>5, <1>6, <1>7, <1>8, <1>9, <1>10, <1>11, <1>12
     DEF ShellInv

\* A link goes, after its tunnel has.
LEMMA UnlinkKeeps ==
  ASSUME ShellInv, Running, op.cmd # "recheck", Here.verb = "unlink", Goes,
         UNCHANGED <<named, quick, exit, ref>>,
         link' = Unlinked(Here.arg), UNCHANGED mode
  PROVE  ShellInv'
<1>1. UnlinkPlaces /\ op.pc \in 1 .. 15 /\ ProgramOK' /\ RefreshersOK' /\ (OneOn \/ Done)
  BY Moves, Places DEF ShellInv
<1> USE <1>1 DEF ShellInv, UnlinkPlaces, Place, OneOn, Done, In, From, Starters,
        Removers, QuickUsers, NamedModes
<1>2. TunnelsOK'
  BY DEF TunnelsOK, Named!States, Quick!States, Named!Children, Quick!Children
<1>3. ShownOK'
  BY DEF ShownOK, Modes, Links, NamedModes, Unlinked
<1>4. Exclusive'
  BY DEF Exclusive
<1>5. NamedInMode'
  BY DEF NamedInMode, NamedModes
<1>6. QuickInMode'
  BY DEF QuickInMode, NamedModes
<1>7. NamedAway'
  BY DEF NamedAway
<1>8. QuickAway'
  BY DEF QuickAway
<1>9. NotNamed'
  BY DEF NotNamed
<1>10. LinkKept'
  BY DEF LinkKept, LinkWindow, HasTunnel, Unlinked
<1>11. NoLinkYet'
  BY DEF NoLinkYet, Unlinked
<1>12. LinkToCome'
  BY DEF LinkToCome, HasTunnel
<1>13. QED
  BY <1>1, <1>2, <1>3, <1>4, <1>5, <1>6, <1>7, <1>8, <1>9, <1>10, <1>11, <1>12
     DEF ShellInv

\* All of them.
LEMMA ShowKeeps == ASSUME ShellInv, ShowStep PROVE ShellInv'
  BY ModeKeeps, LeaveKeeps, LinkKeeps, UnlinkKeeps DEF ShowStep, At, tunnels, rest

\* A look that finds the tunnel gone breaks it and ends the command.
LEMMA LookKeeps == ASSUME ShellInv, LookStep PROVE ShellInv'
<1>1. LookPlaces /\ op.pc \in 1 .. 15 /\ ProgramOK' /\ RefreshersOK'
      /\ op.cmd \in {"link_named", "link_quick"}
      /\ (Fails => op' = Finished)
  BY Moves, Places DEF LookStep, At, ShellInv, shown, rest, Falls, LookPlaces, Place,
     Otherwise, Starters, Fails, Fallback
<1>2. CASE UNCHANGED tunnels
  BY <1>1, <1>2, QuietGoes, QuietFails
     DEF LookStep, At, seen, shown, rest, QuietVerbs, LookPlaces, Place, Tunnel
<1>3. CASE \E t \in {"named", "quick"} : Break(t) /\ Fails
  BY <1>1, <1>3, BesideKeeps
     DEF LookStep, At, shown, rest, Break, OnNamed, OnQuick, Named!Break, Quick!Break,
         Named!Manager, Quick!Manager, Beside, NamedFades, QuickFades, Finished,
         ShellInv, ShownOK
<1>4. QED
  BY <1>1, <1>2, <1>3 DEF LookStep, LookPlaces, Place

(***************************************************************************)
(* The status poll, the supervisor and the health recheck.                 *)
(***************************************************************************)
RefStates == [pc : PCs, snap : {"none"} \cup Named!States, cur : Modes]

\* A refresher goes on; a recheck that ends gives the operation lock back.
LEMMA RefresherMoves ==
  ASSUME ShellInv, NEW r \in Refreshers, NEW next \in RefStates, Move(r, next),
         r = "recheck" => ref[r].pc # "idle",
         op' = op \/ (r = "recheck" /\ next.pc = "idle" /\ op' = Finished)
  PROVE  /\ RefreshersOK'
         /\ op' = op \/ (op.cmd = "recheck" /\ op' = Finished)
<1>1. ref' \in [Refreshers -> RefStates] /\ DOMAIN ref' = Refreshers
  BY DEF Move, ShellInv, RefreshersOK, RefStates, Refreshers
<1>2. CASE r = "recheck"
  BY <1>1, <1>2 DEF Move, ShellInv, RefreshersOK, RefStates, Refreshers, Finished
<1>3. CASE r # "recheck"
  BY <1>1, <1>3 DEF Move, ShellInv, RefreshersOK, RefStates, Refreshers
<1>4. QED
  BY <1>2, <1>3

\* The states a refresher goes on to.
LEMMA NextStates ==
  ASSUME ShellInv, NEW r \in Refreshers
  PROVE  /\ ref[r] \in RefStates /\ Idle \in RefStates
         /\ \A pc \in PCs : To(r, pc) \in RefStates /\ To(r, pc).pc = pc
         /\ \A s \in Named!States : Seen(r, s) \in RefStates
         /\ \A pc \in PCs, s \in Named!States : [To(r, pc) EXCEPT !.snap = s] \in RefStates
         /\ \A pc \in PCs : [To(r, pc) EXCEPT !.cur = mode] \in RefStates
         /\ After(r) \in RefStates
         /\ r = "recheck" => After(r).pc = "idle"
<1>1. ref[r] \in RefStates
  BY DEF ShellInv, RefreshersOK, RefStates
<1>2. mode \in Modes
  BY DEF ShellInv, ShownOK
<1>3. QED
  BY <1>1, <1>2 DEF RefStates, Idle, To, Seen, After, PCs, Modes, Named!States

\* Every step of a refresher stays beside the command.
LEMMA RefresherKeeps ==
  ASSUME ShellInv, NEW r \in Refreshers, Refreshing(r)
  PROVE  ShellInv'
<1>1. ASSUME NEW next, Move(r, next), next \in RefStates, ref[r].pc # "idle", Beside,
             op' = op \/ (r = "recheck" /\ next.pc = "idle" /\ op' = Finished)
      PROVE  ShellInv'
  BY <1>1, RefresherMoves, BesideKeeps DEF Finished
<1> USE NextStates DEF Beside, NamedFades, QuickFades, PCs, Named!States, tunnels,
        others, shown, To, Idle
<1>i. mode \in Modes /\ exit \in {"no", "named", "quick", "bridge", "last", "gone", "cut"}
      /\ named.state \in Named!States \cup {"absent"} /\ quick.state \in Named!States
  BY DEF ShellInv, ShownOK, TunnelsOK, Quick!States
<1>2. CASE Refresh(r)
  <2>1. \E next \in RefStates :
          /\ Move(r, next)
          /\ op' = op \/ (r = "recheck" /\ next.pc = "idle" /\ op' = Finished)
    BY <1>2, <1>i DEF Refresh, Break, OnNamed, OnQuick, Named!Break
  <2>2. Beside /\ ref[r].pc # "idle"
    BY <1>2, <1>i DEF Refresh, Break, OnNamed, OnQuick, Named!Break, Named!Manager
  <2>3. QED
    BY <1>1, <2>1, <2>2
<1>3. CASE Probed(r)
  <2>1. \E next \in RefStates : Move(r, next) /\ op' = op
    BY <1>3 DEF Probed
  <2>2. Beside /\ ref[r].pc # "idle"
    BY <1>3, <1>i DEF Probed, Break, OnNamed, OnQuick, Named!Break, Named!Manager
  <2>3. QED
    BY <1>1, <2>1, <2>2
<1>4. CASE Apply(r)
  <2>1. \E next \in RefStates :
          /\ Move(r, next)
          /\ op' = op \/ (r = "recheck" /\ next.pc = "idle" /\ op' = Finished)
    BY <1>4, <1>i DEF Apply
  <2>2. Beside /\ ref[r].pc # "idle"
    BY <1>4, <1>i DEF Apply
  <2>3. QED
    BY <1>1, <2>1, <2>2
<1>5. CASE Write(r)
  <2>1. \E next \in RefStates : Move(r, next) /\ op' = op
    BY <1>5 DEF Write
  <2>2. Beside /\ ref[r].pc # "idle"
    BY <1>5, <1>i DEF Write, RuntimeMode
  <2>3. QED
    BY <1>1, <2>1, <2>2
<1>6. CASE Note(r)
  <2>1. \E next \in RefStates : Move(r, next) /\ op' = op
    BY <1>6 DEF Note
  <2>2. Beside /\ ref[r].pc # "idle"
    BY <1>6, <1>i DEF Note, Unlinked
  <2>3. QED
    BY <1>1, <2>1, <2>2
<1>7. CASE Sync(r)
  <2>1. \E next \in RefStates : Move(r, next) /\ op' = op
    BY <1>7 DEF Sync
  <2>2. Beside /\ ref[r].pc # "idle"
    BY <1>7, <1>i DEF Sync
  <2>3. QED
    BY <1>1, <2>1, <2>2
<1>8. CASE Told(r)
  <2>1. \E next \in RefStates :
          /\ Move(r, next)
          /\ op' = op \/ (r = "recheck" /\ next.pc = "idle" /\ op' = Finished)
    BY <1>8 DEF Told
  <2>2. Beside /\ ref[r].pc # "idle"
    BY <1>8, <1>i DEF Told
  <2>3. QED
    BY <1>1, <2>1, <2>2
<1>9. CASE RefreshQuick(r)
  <2>1. \E next \in RefStates : Move(r, next) /\ op' = op
    BY <1>9, <1>i DEF RefreshQuick
  <2>2. QuickFades /\ UNCHANGED <<named, shown, exit>>
    BY <1>9 DEF RefreshQuick, Break, OnNamed, OnQuick, Quick!Break, Quick!Manager
  <2>3. Beside /\ ref[r].pc # "idle"
    BY <1>9, <2>2, <1>i DEF RefreshQuick
  <2>4. QED
    BY <1>1, <2>1, <2>3
<1>10. CASE QuickProbed(r)
  <2>1. Move(r, Idle) /\ op' = op
    BY <1>10 DEF QuickProbed
  <2>2. Beside /\ ref[r].pc # "idle"
    BY <1>10, <1>i DEF QuickProbed
  <2>3. QED
    BY <1>1, <2>1, <2>2
<1>11. CASE DropStale(r)
  <2>1. Move(r, Idle) /\ op' = op
    BY <1>11 DEF DropStale
  <2>2. Beside /\ ref[r].pc # "idle"
    BY <1>11, <1>i DEF DropStale, Unlinked
  <2>3. QED
    BY <1>1, <2>1, <2>2
<1>12. QED
  BY <1>2, <1>3, <1>4, <1>5, <1>6, <1>7, <1>8, <1>9, <1>10, <1>11 DEF Refreshing

(***************************************************************************)
(* The beginnings of a refresh, what is told to the sidecar, the exit and  *)
(* the processes.                                                          *)
(***************************************************************************)
\* The refreshers and the command stand still.
LEMMA SameRefreshers == ASSUME ShellInv, UNCHANGED <<ref, op>> PROVE RefreshersOK'
  BY DEF ShellInv, RefreshersOK, Refreshers

\* What changes neither the command nor a refresher.
LEMMA BesideOnly == ASSUME ShellInv, Beside, UNCHANGED <<ref, op>> PROVE ShellInv'
  BY SameRefreshers, BesideKeeps

\* The poll and the supervisor begin.
LEMMA BeginningKeeps == ASSUME ShellInv, PollBegins \/ Supervise PROVE ShellInv'
<1> USE NextStates DEF Beside, NamedFades, QuickFades, PCs, Named!States, tunnels,
        others, shown, To, Idle
<1>1. CASE PollBegins
  <2>1. \E r \in Refreshers, next \in RefStates : r # "recheck" /\ Move(r, next) /\ op' = op
    BY <1>1 DEF PollBegins
  <2>2. Beside
    BY <1>1 DEF PollBegins
  <2>3. QED
    BY <2>1, <2>2, RefresherMoves, BesideKeeps
<1>2. CASE Supervise
  <2>1. \E r \in Refreshers, next \in RefStates : r # "recheck" /\ Move(r, next) /\ op' = op
    BY <1>2 DEF Supervise
  <2>2. Beside
    BY <1>2 DEF Supervise, Break, OnNamed, OnQuick, Named!Break, Named!Manager
  <2>3. QED
    BY <2>1, <2>2, RefresherMoves, BesideKeeps
<1>3. QED
  BY <1>1, <1>2

\* The recheck takes the operation lock.
LEMMA RecheckKeeps == ASSUME ShellInv, RecheckBegins PROVE ShellInv'
<1>1. To("recheck", "named") \in RefStates
  BY NextStates DEF RecheckBegins, PCs
<1>2. RefreshersOK'
  BY <1>1 DEF RecheckBegins, ShellInv, RefreshersOK, RefStates, Move, Refreshers
<1>3. Beside
  BY DEF RecheckBegins, Beside, NamedFades, QuickFades, tunnels, shown
<1>4. QED
  BY <1>2, <1>3, BesideKeeps DEF RecheckBegins, Running

\* Telling the sidecar may notice a dead tunnel.
LEMMA TellingKeeps == ASSUME ShellInv, NEW p, Telling(p) PROVE ShellInv'
<1>1. UNCHANGED <<ref, op>>
  BY DEF Telling, Origin, Send, PutArrives, rest
<1>2. UNCHANGED <<shown, exit>>
  BY DEF Telling, Origin, Send, PutArrives, rest
<1>3. NamedFades /\ QuickFades
  BY DEF Telling, Origin, Send, PutArrives, NamedFades, QuickFades, tunnels, Break,
     OnNamed, OnQuick, Named!Break, Quick!Break, Named!Manager, Quick!Manager
<1>4. QED
  BY <1>1, <1>2, <1>3, BesideOnly DEF Beside, shown

\* The exit stops what it gets the lock of.
LEMMA ExitKeeps == ASSUME ShellInv, ExitRequested \/ Shutdown \/ Terminate PROVE ShellInv'
<1>1. /\ UNCHANGED <<ref, op>> /\ UNCHANGED shown
      /\ exit' \in {"named", "quick", "bridge", "last", "gone", "cut"}
  BY DEF ExitRequested, Shutdown, Terminate, shellRest
<1>2. NamedFades
  BY <1>1 DEF ExitRequested, Shutdown, Terminate, NamedFades, tunnels, Stop, OnNamed,
     OnQuick, Named!Stop, Named!Manager, Kill, ShellInv, TunnelsOK
<1>3. QuickFades
  BY <1>1 DEF ExitRequested, Shutdown, Terminate, QuickFades, tunnels, Stop, OnNamed,
     OnQuick, Quick!Stop, Quick!Manager, Kill, ShellInv, TunnelsOK
<1>4. QED
  BY <1>1, <1>2, <1>3, BesideOnly DEF Beside, shown

\* A process ends by itself.
LEMMA DiesKeeps == ASSUME ShellInv, Dies PROVE ShellInv'
<1>1. UNCHANGED <<ref, op, shown, exit>>
  BY DEF Dies, shellRest
<1>2. NamedFades /\ QuickFades
  BY DEF Dies, NamedFades, QuickFades, tunnels, Named!Die, Quick!Die
<1>3. QED
  BY <1>1, <1>2, BesideOnly DEF Beside, shown

(***************************************************************************)
(* A command begins.                                                       *)
(***************************************************************************)
\* The guards of a command are what its first steps need.
LEMMA CommandKeeps == ASSUME ShellInv, NEW cmd \in Commands, Command(cmd) PROVE ShellInv'
<1>1. /\ op.cmd = "idle" /\ op' = [cmd |-> cmd, pc |-> 1] /\ UNCHANGED seen
      /\ Allowed(cmd)
  BY DEF Command, Running, seen, shown
<1>2. RefreshersOK'
  BY <1>1 DEF ShellInv, RefreshersOK, Refreshers, seen
<1>3. ProgramOK'
  BY <1>1, EveryLength, Names DEF ProgramOK
<1>4. Allowed(cmd) => /\ cmd = "start_quick" => mode \notin NamedModes
                      /\ cmd = "rotate_quick" => mode = "Quick"
  BY DEF Allowed
<1> USE <1>1, <1>4 DEF ShellInv, In, From, Starters, Removers, QuickUsers, seen,
        tunnels, Commands, NamedModes
<1>5. TunnelsOK'
  BY DEF TunnelsOK, Named!States, Quick!States, Named!Children, Quick!Children
<1>6. ShownOK'
  BY DEF ShownOK, Modes, Links, NamedModes
<1>7. Exclusive'
  BY DEF Exclusive
<1>8. NamedInMode'
  BY DEF NamedInMode, NamedModes
<1>9. QuickInMode'
  BY DEF QuickInMode, NamedModes
<1>10. NamedAway'
  BY DEF NamedAway, NamedInMode
<1>11. QuickAway'
  BY DEF QuickAway
<1>12. NotNamed'
  BY DEF NotNamed
<1>13. LinkKept'
  BY DEF LinkKept, LinkWindow, HasTunnel
<1>14. NoLinkYet'
  BY DEF NoLinkYet
<1>15. LinkToCome'
  BY DEF LinkToCome, HasTunnel
<1>16. QED
  BY <1>1, <1>2, <1>3, <1>4, <1>5, <1>6, <1>7, <1>8, <1>9, <1>10, <1>11, <1>12, <1>13,
     <1>14, <1>15 DEF ShellInv

\* Every step of a command.
LEMMA StepKeeps == ASSUME ShellInv, Step PROVE ShellInv'
<1>1. CASE \/ BridgeStep \/ HealthyStep \/ PairStep \/ ProfileStep \/ ProfileMissing
           \/ SaveStep \/ DeleteStep \/ SyncStep \/ TellStep
  <2>1. /\ Running /\ op.cmd # "recheck" /\ (Goes \/ Fails)
        /\ Here.verb \in QuietVerbs /\ Here.verb # "look"
    BY <1>1 DEF BridgeStep, HealthyStep, PairStep, ProfileStep, ProfileMissing,
       SaveStep, DeleteStep, SyncStep, TellStep, At, QuietVerbs
  <2>2. UNCHANGED seen
    BY <1>1 DEF BridgeStep, HealthyStep, PairStep, ProfileStep, ProfileMissing,
       SaveStep, DeleteStep, SyncStep, TellStep, seen, shown, rest
  <2>3. CASE Goes
    BY <2>1, <2>2, <2>3, QuietGoes DEF seen
  <2>4. CASE Fails
    BY <2>1, <2>2, <2>4, QuietFails DEF seen
  <2>5. QED
    BY <2>1, <2>3, <2>4
<1>2. QED
  BY <1>1, StopKeeps, StartKeeps, RotateKeeps, LaunchKeeps, ReachKeeps, LookKeeps,
     ShowKeeps
     DEF Step

\* Nothing runs at first.
LEMMA Initially == Init => ShellInv
<1> SUFFICES ASSUME Init PROVE ShellInv
  OBVIOUS
<1>1. op = [cmd |-> "idle", pc |-> 1]
  BY DEF Init, Finished
<1>2. ProgramOK
  BY <1>1, Names DEF ProgramOK, Commands
<1>3. RefreshersOK
  BY DEF Init, RefreshersOK, Refreshers, Idle, PCs, Modes
<1>4. TunnelsOK /\ ShownOK /\ named.child = "none" /\ quick.child = "none"
  BY DEF Init, TunnelsOK, ShownOK, Absent, Stopped, Named!States, Quick!States,
     Named!Children, Quick!Children, Modes, Links
<1>5. QED
  BY <1>1, <1>2, <1>3, <1>4
     DEF Init, ShellInv, Exclusive, NamedInMode, QuickInMode, NamedAway, QuickAway,
         NotNamed, LinkKept, NoLinkYet, LinkToCome, In, From, Starters, QuickUsers,
         Removers

\* Every step of the shell.
LEMMA Keeps == ShellInv /\ [Next]_vars => ShellInv'
<1> SUFFICES ASSUME ShellInv, [Next]_vars PROVE ShellInv'
  OBVIOUS
<1>1. CASE UNCHANGED vars
  <2>1. Beside /\ UNCHANGED <<ref, op>>
    BY <1>1 DEF vars, Beside, NamedFades, QuickFades
  <2>2. QED
    BY <2>1, BesideOnly
<1>2. QED
  BY <1>1, CommandKeeps, StepKeeps, BeginningKeeps, RecheckKeeps, RefresherKeeps,
     TellingKeeps, ExitKeeps, DiesKeeps
     DEF Next

(***************************************************************************)
(* What the user of the shell sees.                                        *)
(***************************************************************************)
\* The inductive invariant: what the tunnels, the mode and the link of the shell owe to each
\* other at every step of every command, whatever the refreshers and the exit do meanwhile.
THEOREM ShellInvariant == Spec => []ShellInv
<1>1. QED
  BY Initially, Keeps, PTL DEF Spec

\* The shell never runs two cloudflared at once, for any number of commands and whatever
\* refreshers run beside them (start_named_tunnel_inner and start_temporary_tunnel stop the
\* other tunnel first, start_quick_access is refused in the named modes).
THEOREM TunnelsExclude == Spec => []Exclusive
<1>1. ShellInv => Exclusive
  BY DEF ShellInv
<1>2. QED
  BY <1>1, ShellInvariant, PTL

\* Between commands a pairing link for the fixed address has its tunnel
\* (clear_pairing_link_for_source in every command that stops it).
THEOREM LinksHaveTunnels == Spec => []LinkHasTunnel
<1>1. ShellInv => LinkHasTunnel
  BY DEF ShellInv, LinkKept, LinkWindow, HasTunnel, LinkHasTunnel, Running, In
<1>2. QED
  BY <1>1, ShellInvariant, PTL

\* Between commands a named tunnel that runs is in a named mode, and no quick one runs in
\* the named mode (transition_remote_access and named_runtime_mode).
THEOREM ModesMatchTunnels == Spec => []ModeMatchesTunnel
<1>1. ShellInv => ModeMatchesTunnel
  BY DEF ShellInv, NamedInMode, QuickInMode, ModeMatchesTunnel, Running, In, Starters
<1>2. QED
  BY <1>1, ShellInvariant, PTL
=============================================================================
