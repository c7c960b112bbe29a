----------------------------- MODULE SavedSetup -----------------------------
(***************************************************************************)
(* What the desktop shell keeps on the Mac: the profile of the named tunnel   *)
(* in a file, its token and the VAPID key of the pushes in the Keychain        *)
(* (crates/desktop-core), and the file that hands the key to a sidecar         *)
(* (apps/desktop-shell main.rs, secret_file.rs, bridge-core vapid.rs).        *)
(*                                                                         *)
(* The commands on the profile hold one lock, the start of the Bridge another. *)
(* The shell may crash between any two calls; a sidecar may outlive it.        *)
(***************************************************************************)
EXTENDS Naturals

CONSTANTS Profiles,   \* profiles the user may save, as NamedTunnelProfile::new takes them
          MaxStarts,  \* bound: starts of a sidecar, keys made
          MaxCrashes  \* bound: crashes of the shell

ASSUME SavedSetupAssumption == /\ "none" \notin Profiles
                               /\ MaxStarts \in Nat /\ MaxCrashes \in Nat

VARIABLES key,       \* the VAPID key in the Keychain, 0 for none
          stored,    \* whether the Keychain has a tunnel token
          prefs,     \* the file of the profile
          setup,     \* the command on the profile
          boot,      \* the start of the Bridge: key and number
          starts,    \* how many there were
          keyFiles,  \* the key files on disk: number and key
          pending,   \* the number of the shell's own key file, 0 for none
          sidecars,  \* the sidecars running: number, key (0 until it is read)
          child,     \* the number of the shell's own sidecar, 0 for none
          used,      \* history: the keys sidecars served with
          crashes

setupVars == <<key, stored, prefs, setup, boot, starts, keyFiles, pending, sidecars, child,
               used, crashes>>
keychainVars == <<key, stored>>
bootVars == <<boot, starts, keyFiles, pending, sidecars, child, used>>

NoCommand == [pc |-> "idle", profile |-> "none"]
NoBoot == [pc |-> "idle", key |-> 0]

SetupInit ==
  /\ key = 0 /\ stored = FALSE /\ prefs = "none" /\ setup = NoCommand
  /\ boot = NoBoot /\ starts = 0 /\ keyFiles = {} /\ pending = 0
  /\ sidecars = {} /\ child = 0 /\ used = {} /\ crashes = 0

(***************************************************************************)
(* The profile.  A call of the Keychain that fails may have been carried out. *)
(***************************************************************************)
\* save_named_tunnel_profile: a token that is given is stored first; without one there
\* must be one already.
SaveToken ==
  /\ setup.pc = "idle"
  /\ \/ stored' = TRUE /\ \E profile \in Profiles : setup' = [pc |-> "write", profile |-> profile]
     \/ stored' \in {stored, TRUE} /\ UNCHANGED setup
  /\ UNCHANGED <<key, prefs, bootVars, crashes>>

\* RemoteAccessConfigStore::save writes a file of its own, after the tunnel has stopped ...
WriteProfile ==
  /\ setup.pc = "write"
  /\ \/ setup' = [setup EXCEPT !.pc = "rename"] \/ setup' = NoCommand
  /\ UNCHANGED <<keychainVars, prefs, bootVars, crashes>>

\* ... and renames it.
RenameProfile ==
  /\ setup.pc = "rename"
  /\ prefs' \in {prefs, setup.profile}
  /\ setup' = NoCommand
  /\ UNCHANGED <<keychainVars, bootVars, crashes>>

\* Mutant of DeleteProfile: the token goes first.
DeleteTokenFirst ==
  /\ setup.pc = "idle"
  /\ stored' = FALSE /\ setup' = [NoCommand EXCEPT !.pc = "forget"]
  /\ UNCHANGED <<key, prefs, bootVars, crashes>>

\* delete_named_tunnel_profile: the file, and then the token.
DeleteProfile ==
  /\ setup.pc = "idle"
  /\ \/ prefs' = "none" /\ setup' = [NoCommand EXCEPT !.pc = "forget"]
     \/ UNCHANGED <<prefs, setup>>
  /\ UNCHANGED <<keychainVars, bootVars, crashes>>

DeleteToken ==
  /\ setup.pc = "forget"
  /\ stored' \in {stored, FALSE}
  /\ setup' = NoCommand
  /\ UNCHANGED <<key, prefs, bootVars, crashes>>

(***************************************************************************)
(* The start of the Bridge: ensure_bridge_for_mode.                         *)
(***************************************************************************)
bootOthers == <<stored, prefs, setup, crashes>>
SidecarOf(n) == {s \in sidecars : s.n = n}
Files(n) == {f \in keyFiles : f.n = n}

\* The manager that is replaced is stopped; load_or_create reads the key or makes one.
LoadKey ==
  /\ boot.pc = "idle" /\ starts < MaxStarts
  /\ starts' = starts + 1 /\ sidecars' = sidecars \ SidecarOf(child) /\ child' = 0
  /\ boot' \in {NoBoot, IF key # 0 THEN [pc |-> "file", key |-> key]
                        ELSE [pc |-> "save", key |-> starts + 1]}
  /\ UNCHANGED <<key, keyFiles, pending, used, bootOthers>>

\* Mutant of SaveKey: a Keychain that fails does not stop the start.
SaveKeyOrGoOn ==
  /\ boot.pc = "save"
  /\ key' \in {key, boot.key} /\ boot' = [boot EXCEPT !.pc = "file"]
  /\ UNCHANGED <<starts, keyFiles, pending, sidecars, child, used, bootOthers>>

SaveKey ==
  /\ boot.pc = "save"
  /\ \/ key' = boot.key /\ boot' = [boot EXCEPT !.pc = "file"]
     \/ key' \in {key, boot.key} /\ boot' = NoBoot
  /\ UNCHANGED <<starts, keyFiles, pending, sidecars, child, used, bootOthers>>

\* TemporarySecretFile::create; the file of a start before it is dropped.
CreateKeyFile ==
  /\ boot.pc = "file"
  /\ \/ /\ keyFiles' = (keyFiles \ Files(pending)) \cup {[n |-> starts, key |-> boot.key]}
        /\ pending' = starts /\ boot' = [boot EXCEPT !.pc = "spawn"]
     \/ boot' = NoBoot /\ UNCHANGED <<keyFiles, pending>>
  /\ UNCHANGED <<key, starts, sidecars, child, used, bootOthers>>

\* The shell drops its key file whatever came of the start.
Drops == keyFiles' = keyFiles \ Files(pending) /\ pending' = 0 /\ boot' = NoBoot

SpawnSidecar ==
  /\ boot.pc = "spawn"
  /\ \/ /\ sidecars' = sidecars \cup {[n |-> starts, key |-> 0]} /\ child' = starts
        /\ boot' = [boot EXCEPT !.pc = "health"] /\ UNCHANGED <<keyFiles, pending>>
     \/ Drops /\ UNCHANGED <<sidecars, child>>
  /\ UNCHANGED <<key, starts, used, bootOthers>>

\* wait_for_health: the sidecar serves, which it does with its key, or another program
\* answers on its port.
SidecarHealthy ==
  /\ boot.pc = "health"
  /\ Drops
  /\ UNCHANGED <<key, starts, sidecars, child, used, bootOthers>>

SidecarFails ==
  /\ boot.pc = "health"
  /\ sidecars' = sidecars \ SidecarOf(child) /\ child' = 0
  /\ Drops
  /\ UNCHANGED <<key, starts, used, bootOthers>>

(***************************************************************************)
(* The sidecar reads the key and removes the file, before anything else.      *)
(***************************************************************************)
ReadKey(s) ==
  /\ s.key = 0
  /\ \E f \in Files(s.n) :
       /\ sidecars' = (sidecars \ {s}) \cup {[s EXCEPT !.key = f.key]}
       /\ used' = used \cup {f.key} /\ keyFiles' = keyFiles \ {f}
  /\ UNCHANGED <<key, boot, starts, pending, child, bootOthers>>

\* It ends, for want of its file too.
Ends(s) == /\ sidecars' = sidecars \ {s}
           /\ UNCHANGED <<key, boot, starts, keyFiles, pending, child, used, bootOthers>>

\* The shell crashes or exits: its files stay, its sidecar may.
Crash == /\ crashes < MaxCrashes /\ crashes' = crashes + 1
         /\ setup' = NoCommand /\ boot' = NoBoot /\ pending' = 0 /\ child' = 0
         /\ sidecars' \in {sidecars, sidecars \ SidecarOf(child)}
         /\ UNCHANGED <<keychainVars, prefs, starts, keyFiles, used>>

SetupNext ==
  \/ SaveToken \/ WriteProfile \/ RenameProfile \/ DeleteProfile \/ DeleteToken
  \/ LoadKey \/ SaveKey \/ CreateKeyFile \/ SpawnSidecar \/ SidecarHealthy \/ SidecarFails
  \/ (\E s \in sidecars : ReadKey(s) \/ Ends(s)) \/ Crash

(***************************************************************************)
(* Properties.                                                             *)
(***************************************************************************)
\* Every sidecar that ever served had the one key of the Keychain, on which the
\* subscriptions of the phones rest, over failures and crashes at any point
\* (VapidKeyManager::load_or_create, TemporarySecretFile, from_secret_file).
SameKey == used \subseteq {key} \ {0}

\* The profile that a start of the shell finds has its token, wherever a save or a
\* deletion stopped (save_named_tunnel_profile, delete_named_tunnel_profile).
ProfileHasToken == prefs # "none" => stored
=============================================================================
