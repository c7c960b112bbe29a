------------------------------ MODULE CodexLaunch ------------------------------
(***************************************************************************)
(* CodexLaunchManager (crates/desktop-core/src/codex_launch.rs) and the       *)
(* command ensure_codex_ready of the shell: attach to the Codex application     *)
(* that runs, or launch one with its debug port open.  Nothing serialises the   *)
(* command's calls, and the user starts and quits Codex at will.               *)
(***************************************************************************)
EXTENDS Naturals

CONSTANTS CodexCalls, \* calls of ensure_codex_ready
          MaxCodex    \* bound: instances of Codex in a behaviour

ASSUME CodexLaunchAssumption == MaxCodex \in Nat

VARIABLES installed, \* a candidate path of the application exists
          codex,     \* the instances: "starting" with the flag, "open" on the port or "plain"
          made,      \* instances so far
          portHeld,  \* another program answers on the debug port
          ensure,    \* the calls: where each is, what it returned and (history) what ran at its check
          raced      \* history: the instances launched though another had come since the check

codexVars == <<installed, codex, made, portHeld, ensure, raced>>

CodexIds == 1..MaxCodex
Outcomes == {"InstallInstructions", "Attached", "Launched",
             "NeedsUserRestartConfirmation", "ManualInstructions"}
NotCalled == [pc |-> "idle", outcome |-> "none", saw |-> {}]

CodexInit ==
  /\ installed \in BOOLEAN /\ portHeld \in BOOLEAN /\ raced = {}
  /\ made = 0 /\ codex = [i \in CodexIds |-> "gone"]
  /\ ensure = [c \in CodexCalls |-> NotCalled]

CodexUp == {i \in CodexIds : codex[i] # "gone"}

\* Mutant of IsRunning: a Codex counts once its port answers.
IsRunningByPort == \E i \in CodexUp : codex[i] = "open"

\* is_running: by its process name or its path, whatever its flags.
IsRunning == CodexUp # {}

\* cdp_ready: somebody answers on the port.
CdpReady == portHeld \/ \E i \in CodexUp : codex[i] = "open"

Returns(c, outcome) == ensure' = [ensure EXCEPT ![c] = [NotCalled EXCEPT !.outcome = outcome]]
World == <<installed, codex, made, portHeld>>

\* find_app, and then is_running, which may fail.
Ensure(c) ==
  /\ ensure[c].pc = "idle"
  /\ IF installed THEN ensure' = [ensure EXCEPT ![c] = [NotCalled EXCEPT !.pc = "check"]]
     ELSE Returns(c, "InstallInstructions")
  /\ UNCHANGED <<World, raced>>

Check(c) ==
  /\ ensure[c].pc = "check"
  /\ \/ ensure' = [ensure EXCEPT ![c] =
            [@ EXCEPT !.pc = IF IsRunning THEN "attach" ELSE "launch", !.saw = CodexUp]]
     \/ Returns(c, "ManualInstructions")
  /\ UNCHANGED <<World, raced>>

\* attach_or_request_restart: Codex is never restarted without the user.
Attach(c) ==
  /\ ensure[c].pc = "attach"
  /\ Returns(c, IF CdpReady THEN "Attached" ELSE "NeedsUserRestartConfirmation")
  /\ UNCHANGED <<World, raced>>

\* launch_with_debug_port: open -n makes a new instance.
LaunchCodex(c) ==
  /\ ensure[c].pc = "launch"
  /\ \/ /\ made < MaxCodex /\ made' = made + 1
        /\ codex' = [codex EXCEPT ![made + 1] = "starting"]
        /\ ensure' = [ensure EXCEPT ![c].pc = "wait"]
        /\ raced' = IF CodexUp # {} /\ CodexUp \cap ensure[c].saw = {} THEN raced \cup {made + 1} ELSE raced
     \/ Returns(c, "ManualInstructions") /\ UNCHANGED <<codex, made, raced>>
  /\ UNCHANGED <<installed, portHeld>>

\* wait_for_cdp_ready: a probe that succeeds, or the one after the deadline that does not.
Waited(c) ==
  /\ ensure[c].pc = "wait" /\ CdpReady /\ Returns(c, "Launched")
  /\ UNCHANGED <<World, raced>>

WaitExpires(c) ==
  /\ ensure[c].pc = "wait" /\ ~CdpReady /\ Returns(c, "ManualInstructions")
  /\ UNCHANGED <<World, raced>>

\* What an instance becomes: its port opens unless another holds it.
Settles ==
  /\ \E i \in CodexUp :
       /\ codex[i] = "starting"
       /\ codex' = [codex EXCEPT ![i] = IF CdpReady THEN "plain" ELSE "open"]
  /\ UNCHANGED <<installed, made, portHeld, ensure, raced>>

CodexQuits ==
  /\ \E i \in CodexUp : codex' = [codex EXCEPT ![i] = "gone"]
  /\ UNCHANGED <<installed, made, portHeld, ensure, raced>>

\* The user starts Codex, without the flag.
UserStarts ==
  /\ made < MaxCodex /\ made' = made + 1 /\ ~IsRunning
  /\ codex' = [codex EXCEPT ![made + 1] = "plain"]
  /\ UNCHANGED <<installed, portHeld, ensure, raced>>

PortChanges ==
  /\ portHeld' = ~portHeld /\ \A i \in CodexUp : codex[i] # "open"
  /\ UNCHANGED <<installed, codex, made, ensure, raced>>
EnsureStep(c) == Check(c) \/ Attach(c) \/ LaunchCodex(c) \/ Waited(c) \/ WaitExpires(c)

CodexNext ==
  \/ \E c \in CodexCalls : Ensure(c) \/ EnsureStep(c)
  \/ Settles \/ CodexQuits \/ UserStarts \/ PortChanges

\* The shell never runs one Codex beside another, though a launch may time out while its
\* instance is still starting and be asked for again; but for a launch by a call whose check
\* came before that other Codex (ensure_ready, is_running).
OneCodex == \A i, j \in CodexUp \ raced : i = j
=============================================================================
