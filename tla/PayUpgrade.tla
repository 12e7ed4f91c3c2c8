----------------------------- MODULE PayUpgrade -----------------------------
(***************************************************************************)
(* qualification/discrete-pay/persistent-upgrade.py: the upgrade of the    *)
(* four Pay applications to a pinned candidate, its deliberate failed      *)
(* trial, the rollback and the acceptance.                                 *)
(*                                                                         *)
(* A command holds upgrade.lock from start to end, so at most one is at    *)
(* work; pc is the step it is about to take.  It may die before any step   *)
(* (an exception of a failing call, the supervisor's limits, a kill), and  *)
(* the host may reboot, which starts the applications from whatever unit   *)
(* files are on disk.                                                      *)
(*                                                                         *)
(* Data abstracted: a unit file, install.json, acceptance.json and a       *)
(* running process are the release they name; plan.json is the record of   *)
(* its flags, with phase "none" while the file does not exist.  The order  *)
(* in which one loop handles the four units is left open.  The hash checks *)
(* of the candidate, the probe and the financial fingerprint either pass   *)
(* or kill the command.                                                    *)
(***************************************************************************)
EXTENDS Naturals, FiniteSets

CONSTANTS
  Roles,        \* the applications: facade, gateway, public, worker
  MaxDeaths,    \* bound: commands that die before their end
  MaxReboots    \* bound: reboots of the host

ASSUME BoundAssumption == MaxDeaths \in Nat /\ MaxReboots \in Nat
ASSUME RoleAssumption  == Roles # {}
ASSUME FiniteAssumption == IsFiniteSet(Roles)

VARIABLES
  unit,         \* unit files: release each role's file names
  loaded,       \* what systemd has loaded of them
  running,      \* release of each running process, or "down"
  install,      \* install.json: "old", "new" or "accepted"
  evidence,     \* acceptance.json: evidence for "old" or "new"
  work,         \* the upgrade's work directory exists
  plan,         \* plan.json
  pc,           \* next step of the command at work, "idle" if there is none
  cmd,          \* that command: "trial", "activate" or "recover"
  touched,      \* history: a candidate process has run on the ledger
  milestone,    \* history: 1 candidate verified, 2 then the old release, 3 then
                \* the candidate again
  deaths, reboots

files   == <<unit, install, evidence, work>>
service == <<loaded, running, touched>>
bounds  == <<deaths, reboots>>
vars    == <<files, service, plan, pc, cmd, milestone, bounds>>

Releases == {"old", "new"}
Phases   == {"none", "prepared", "switching", "candidate-verified", "rolled-back", "accepted"}
Plans    == [phase : Phases, recover : BOOLEAN, accepted : BOOLEAN, injected : BOOLEAN,
             proven : BOOLEAN, backups : {"none", "clean", "touched"}]

ActivatePCs == {"backup", "units", "install", "reload", "start", "verify", "record"}
AcceptPCs   == {"restart", "restarting", "reverify", "acceptInstall", "acceptEvidence", "accept"}
RecoverPCs  == {"undo", "undoUnits", "undoInstall", "undoEvidence", "undoReload",
                "undoStart", "undoVerify", "undone"}
PCs == {"idle", "prepare", "mark", "stop", "inject"} \cup ActivatePCs \cup AcceptPCs
       \cup RecoverPCs

All(f, value) == \A r \in Roles : f[r] = value

(* The system before the upgrade, as the plan records it.                  *)
Every(value) == [r \in Roles |-> value]
System  == [unit |-> unit, loaded |-> loaded, running |-> running,
            install |-> install, evidence |-> evidence]
Before  == [unit |-> Every("old"), loaded |-> Every("old"), running |-> Every("old"),
            install |-> "old", evidence |-> "old"]
After   == [unit |-> Every("new"), loaded |-> Every("new"), running |-> Every("new"),
            install |-> "accepted", evidence |-> "new"]

Init ==
  /\ unit = Every("old") /\ loaded = Every("old") /\ running = Every("old")
  /\ install = "old" /\ evidence = "old" /\ work = FALSE
  /\ plan = [phase |-> "none", recover |-> FALSE, accepted |-> FALSE,
             injected |-> FALSE, proven |-> FALSE, backups |-> "none"]
  /\ pc = "idle" /\ cmd = "recover"
  /\ touched = FALSE /\ milestone = 0 /\ deaths = 0 /\ reboots = 0

-----------------------------------------------------------------------------
(* The calls activate and recover share: systemctl stop and start act on   *)
(* one unit at a time, private_write replaces one file atomically.         *)
StopUnits(here, next) ==
  /\ pc = here
  /\ IF All(running, "down")
       THEN pc' = next /\ UNCHANGED running
       ELSE /\ \E r \in Roles : running[r] # "down" /\ running' = [running EXCEPT ![r] = "down"]
            /\ UNCHANGED pc
  /\ UNCHANGED <<files, loaded, touched, plan, cmd, milestone, bounds>>

WriteUnits(here, release, next) ==
  /\ pc = here
  /\ IF All(unit, release)
       THEN pc' = next /\ UNCHANGED unit
       ELSE /\ \E r \in Roles : unit[r] # release /\ unit' = [unit EXCEPT ![r] = release]
            /\ UNCHANGED pc
  /\ UNCHANGED <<install, evidence, work, service, plan, cmd, milestone, bounds>>

WriteInstall(here, value, next) ==
  /\ pc = here /\ install' = value /\ pc' = next
  /\ UNCHANGED <<unit, evidence, work, service, plan, cmd, milestone, bounds>>

WriteEvidence(here, release, next) ==
  /\ pc = here /\ evidence' = release /\ pc' = next
  /\ UNCHANGED <<unit, install, work, service, plan, cmd, milestone, bounds>>

ReloadUnits(here, next) ==
  /\ pc = here /\ loaded' = unit /\ pc' = next
  /\ UNCHANGED <<files, running, touched, plan, cmd, milestone, bounds>>

StartUnits(here, next) ==
  /\ pc = here
  /\ IF \A r \in Roles : running[r] # "down"
       THEN pc' = next /\ UNCHANGED <<running, touched>>
       ELSE /\ \E r \in Roles :
                 /\ running[r] = "down"
                 /\ running' = [running EXCEPT ![r] = loaded[r]]
                 /\ touched' = (touched \/ loaded[r] = "new")
            /\ UNCHANGED pc
  /\ UNCHANGED <<files, loaded, plan, cmd, milestone, bounds>>

(* verify_running: every unit file and every process is of the release.    *)
(* While that is not so it retries, until it gives up and the command dies. *)
VerifyRunning(here, release, next) ==
  /\ pc = here
  /\ All(unit, release) /\ All(running, release)
  /\ milestone' = IF milestone < 3 /\ (milestone % 2 = 0) = (release = "new")
                  THEN milestone + 1 ELSE milestone
  /\ pc' = next
  /\ UNCHANGED <<files, service, plan, cmd, bounds>>

SavePlan(here, new, next) ==
  /\ pc = here /\ plan' = new /\ pc' = next
  /\ UNCHANGED <<files, service, cmd, milestone, bounds>>

-----------------------------------------------------------------------------
(* trial, first half: prepare refuses an existing work directory and       *)
(* anything but the verified baseline, then makes the directory.           *)
Trial ==
  /\ pc = "idle" /\ ~work
  /\ install = "old" /\ All(unit, "old") /\ All(running, "old")
  /\ work' = TRUE /\ cmd' = "trial" /\ pc' = "prepare"
  /\ UNCHANGED <<unit, install, evidence, service, plan, milestone, bounds>>

Prepare == SavePlan("prepare", [plan EXCEPT !.phase = "prepared"], "mark")

(* activate, from the command line: only after a proven rollback.          *)
Activate ==
  /\ pc = "idle" /\ plan.proven /\ plan.phase = "rolled-back"
  /\ cmd' = "activate" /\ pc' = "mark"
  /\ UNCHANGED <<files, service, plan, milestone, bounds>>

BugMarkUnsaved ==
  /\ ~plan.accepted /\ ~plan.recover /\ plan.phase \in {"prepared", "rolled-back"}
  /\ SavePlan("mark", [plan EXCEPT !.phase = "switching"], "stop")

(* The undo marker is durable before anything is stopped.                  *)
Mark ==
  /\ ~plan.accepted /\ ~plan.recover /\ plan.phase \in {"prepared", "rolled-back"}
  /\ All(unit, "old")
  /\ SavePlan("mark", [plan EXCEPT !.recover = TRUE, !.phase = "switching"], "stop")

ActivateStop == StopUnits("stop", "backup")

Copy == IF touched THEN "touched" ELSE "clean"

BugBackupAgain == SavePlan("backup", [plan EXCEPT !.backups = Copy], "units")

(* One coherent copy of the databases, kept by every later attempt.        *)
Backup ==
  SavePlan("backup", [plan EXCEPT !.backups = IF @ = "none" THEN Copy ELSE @], "units")

ActivateUnits   == WriteUnits("units", "new", "install")
ActivateInstall == WriteInstall("install", "new", "reload")
ActivateReload  == ReloadUnits("reload", "start")
ActivateStart   == StartUnits("start", "verify")
ActivateVerify  == VerifyRunning("verify", "new", "record")
ActivateRecord  ==
  SavePlan("record", [plan EXCEPT !.phase = "candidate-verified"],
           IF cmd = "trial" THEN "inject" ELSE "restart")

(* trial, last step: record the injected failure and exit with status 23.  *)
Inject == SavePlan("inject", [plan EXCEPT !.injected = TRUE], "idle")

-----------------------------------------------------------------------------
(* accept: restart the candidate, verify it again, publish, then decide.   *)
AcceptRestart ==
  /\ plan.phase = "candidate-verified" /\ plan.recover /\ plan.proven
  /\ StopUnits("restart", "restarting")
AcceptStart    == StartUnits("restarting", "reverify")
AcceptVerify   == VerifyRunning("reverify", "new", "acceptInstall")

BugAcceptEarly == SavePlan("acceptInstall",
                           [plan EXCEPT !.accepted = TRUE, !.recover = FALSE,
                                        !.phase = "accepted"], "acceptEvidence")
AcceptInstall  == WriteInstall("acceptInstall", "accepted", "acceptEvidence")
AcceptEvidence == WriteEvidence("acceptEvidence", "new", "accept")
AcceptRecord   ==
  SavePlan("accept", [plan EXCEPT !.accepted = TRUE, !.recover = FALSE,
                                  !.phase = "accepted"], "idle")

-----------------------------------------------------------------------------
(* recover, from ExecStopPost of every supervised command or by hand.      *)
BugRecoverVerifiedOnly ==
  /\ pc = "idle" /\ plan.recover /\ ~plan.accepted /\ plan.phase = "candidate-verified"
  /\ cmd' = "recover" /\ pc' = "undo"
  /\ UNCHANGED <<files, service, plan, milestone, bounds>>

Recover ==
  /\ pc = "idle" /\ plan.recover /\ ~plan.accepted
  /\ cmd' = "recover" /\ pc' = "undo"
  /\ UNCHANGED <<files, service, plan, milestone, bounds>>

(* ... which returns at once when there is nothing to undo.                *)
RecoverNothing == pc = "idle" /\ (~plan.recover \/ plan.accepted) /\ UNCHANGED vars

BugRecoverNoStop ==
  /\ pc = "undo" /\ pc' = "undoUnits"
  /\ UNCHANGED <<files, service, plan, cmd, milestone, bounds>>

RecoverStop     == StopUnits("undo", "undoUnits")
RecoverUnits    == WriteUnits("undoUnits", "old", "undoInstall")
RecoverInstall  == WriteInstall("undoInstall", "old", "undoEvidence")
RecoverEvidence == WriteEvidence("undoEvidence", "old", "undoReload")
RecoverReload   == ReloadUnits("undoReload", "undoStart")
RecoverStart    == StartUnits("undoStart", "undoVerify")
RecoverVerify   == VerifyRunning("undoVerify", "old", "undone")

BugRecordProvenAlways ==
  SavePlan("undone", [plan EXCEPT !.proven = TRUE, !.phase = "rolled-back",
                                  !.recover = FALSE], "idle")
BugRecordNeverProven ==
  SavePlan("undone", [plan EXCEPT !.phase = "rolled-back", !.recover = FALSE], "idle")

RecoverRecord ==
  SavePlan("undone",
    [plan EXCEPT !.proven = @ \/ (plan.injected /\ plan.phase = "candidate-verified"),
                 !.phase = "rolled-back", !.recover = FALSE], "idle")

-----------------------------------------------------------------------------
Die ==
  /\ pc # "idle" /\ deaths < MaxDeaths
  /\ deaths' = deaths + 1 /\ pc' = "idle"
  /\ UNCHANGED <<files, service, plan, cmd, milestone, reboots>>

(* The target is enabled: boot loads and starts what the unit files say.   *)
Reboot ==
  /\ reboots < MaxReboots
  /\ reboots' = reboots + 1 /\ pc' = "idle"
  /\ loaded' = unit /\ running' = unit
  /\ touched' = (touched \/ \E r \in Roles : unit[r] = "new")
  /\ UNCHANGED <<files, plan, cmd, milestone, deaths>>

Switching == \/ Prepare \/ Mark \/ ActivateStop \/ Backup \/ ActivateUnits
             \/ ActivateInstall \/ ActivateReload \/ ActivateStart
             \/ ActivateVerify \/ ActivateRecord \/ Inject
Accepting == \/ AcceptRestart \/ AcceptStart \/ AcceptVerify \/ AcceptInstall
             \/ AcceptEvidence \/ AcceptRecord
Undoing   == \/ RecoverStop \/ RecoverUnits \/ RecoverInstall \/ RecoverEvidence
             \/ RecoverReload \/ RecoverStart \/ RecoverVerify \/ RecoverRecord
Command   == Switching \/ Accepting \/ Undoing
Next      == Trial \/ Activate \/ Recover \/ RecoverNothing \/ Command \/ Die \/ Reboot

Spec == Init /\ [][Next]_vars

(* A command at work goes on, and while an undo is owed somebody calls     *)
(* recover: ExecStopPost after every command, the operator after a reboot. *)
FairSpec == Spec /\ WF_vars(Command) /\ WF_vars(Recover)

-----------------------------------------------------------------------------
TypeOK ==
  /\ unit \in [Roles -> Releases] /\ loaded \in [Roles -> Releases]
  /\ running \in [Roles -> Releases \cup {"down"}]
  /\ install \in {"old", "new", "accepted"} /\ evidence \in Releases
  /\ work \in BOOLEAN /\ plan \in Plans
  /\ pc \in PCs /\ cmd \in {"trial", "activate", "recover"}
  /\ touched \in BOOLEAN /\ milestone \in 0..3
  /\ deaths \in 0..MaxDeaths /\ reboots \in 0..MaxReboots

(* The plan's flags tell the whole truth about the host: while no undo is  *)
(* owed, unit files, loaded units, processes, install.json and             *)
(* acceptance.json all belong to one release, the old one, or the new one  *)
(* if the plan says accepted, wherever commands died and hosts rebooted.   *)
RestIsConsistent ==
  ~plan.recover => System = IF plan.accepted THEN After ELSE Before

(* An upgrade is accepted only if the candidate was verified running, then *)
(* the old release after it, then the candidate again: what acceptance.json *)
(* says was checked did happen, in that order.                             *)
AcceptedIsProven == plan.accepted => milestone = 3

(* The backup the plan names is of a ledger no candidate process had run   *)
(* on, and it was recorded before the first of them could run.             *)
BackupPredatesCandidate ==
  /\ plan.backups # "touched"
  /\ touched => plan.backups = "clean"

(* Applications of the two releases run side by side only after a reboot   *)
(* in the middle of a switch, and then an undo is owed.                    *)
Mixed == \E r, s \in Roles : running[r] = "old" /\ running[s] = "new"
MixedOnlyAfterReboot == Mixed => reboots > 0 /\ plan.recover

(* No command can go on with the upgrade any more although it is neither   *)
(* accepted nor in need of recovery.                                       *)
Stuck == /\ work /\ pc = "idle" /\ ~plan.recover /\ ~plan.accepted
         /\ ~(plan.proven /\ plan.phase = "rolled-back")

(* A trial left alone never ends there; one that died at a bad moment can. *)
StuckOnlyAfterFault == Stuck => deaths + reboots > 0

(* The upgrade is one reversible change of the whole system: closed, open  *)
(* or accepted, and nothing is touched unless it is open.                  *)
Change == INSTANCE ReversibleChange WITH
            system <- System,
            status <- IF plan.accepted THEN "accepted"
                      ELSE IF plan.recover THEN "open" ELSE "closed",
            tried  <- milestone > 0,
            proven <- plan.proven

ImplementsReversibleChange == Change!Spec

(* An owed undo is done, or the upgrade accepted: no phase in which a      *)
(* command may die leaves the host where recover cannot finish.            *)
RecoverResolves == plan.recover ~> ~plan.recover

(* No command is refused halfway by a check of its own: what set_phase,    *)
(* accept and verify_running demand has been done when they are reached.   *)
NoCheckRefuses ==
  /\ pc = "mark" => /\ ~plan.accepted /\ ~plan.recover /\ All(unit, "old")
                    /\ plan.phase \in {"prepared", "rolled-back"}
  /\ pc = "restart" => plan.phase = "candidate-verified" /\ plan.recover /\ plan.proven
  /\ pc \in {"verify", "reverify"} => All(unit, "new") /\ All(running, "new")
  /\ pc = "undoVerify" => All(unit, "old") /\ All(running, "old")

(* Steps to the end of the command at work, and of the recover that is     *)
(* owed after it.                                                          *)
StepsFrom(p, n, up, down, wrong) ==
  CASE p = "idle" -> 0                   [] p = "owed" -> 3 * n + 9
    [] p = "undo" -> up + 2 * n + 8        [] p = "undoUnits" -> wrong + n + 7
    [] p = "undoInstall" -> n + 6          [] p = "undoEvidence" -> n + 5
    [] p = "undoReload" -> n + 4           [] p = "undoStart" -> down + 3
    [] p = "undoVerify" -> 2               [] p = "undone" -> 1
    [] p = "prepare" -> 8 * n + 25         [] p = "mark" -> 8 * n + 24
    [] p = "stop" -> up + 7 * n + 23       [] p = "backup" -> 7 * n + 22
    [] p = "units" -> wrong + 6 * n + 21   [] p = "install" -> 6 * n + 20
    [] p = "reload" -> 6 * n + 19          [] p = "start" -> down + 5 * n + 18
    [] p = "verify" -> 5 * n + 17          [] p = "record" -> 5 * n + 16
    [] p = "inject" -> 3 * n + 10          [] p = "restart" -> up + 4 * n + 15
    [] p = "restarting" -> down + 3 * n + 14 [] p = "reverify" -> 3 * n + 13
    [] p = "acceptInstall" -> 3 * n + 12   [] p = "acceptEvidence" -> 3 * n + 11
    [] p = "accept" -> 3 * n + 10

Up    == {r \in Roles : running[r] # "down"}
Down  == {r \in Roles : running[r] = "down"}
Wrong == {r \in Roles : unit[r] # IF pc = "undoUnits" THEN "old" ELSE "new"}
Place == IF pc = "idle" /\ plan.recover THEN "owed" ELSE pc
StepsLeft ==
  StepsFrom(Place, Cardinality(Roles), Cardinality(Up), Cardinality(Down), Cardinality(Wrong))

(* While a command works or an undo is owed, every step that is no death   *)
(* and no reboot brings the end of both nearer; no trial or activation     *)
(* comes between a failed one and its recover.                             *)
UndoNears ==
  [][\/ pc = "idle" /\ ~plan.recover
     \/ deaths' + reboots' > deaths + reboots
     \/ StepsLeft' \in 0..(StepsLeft - 1)]_vars
-----------------------------------------------------------------------------
(* Why the safety properties hold, proved inductive in PayUpgradeProofs.   *)
UndoPCs  == RecoverPCs \ {"undo"}
SwitchPCs == ActivatePCs \cup AcceptPCs \cup {"stop", "inject"}

(* Nothing is touched but under the undo marker.                           *)
Marked ==
  /\ ~work \/ pc = "prepare" => plan.phase = "none"
  /\ pc = "prepare" => work
  /\ plan.recover => plan.phase \in {"switching", "candidate-verified"}
  /\ plan.accepted => plan.phase = "accepted"
  /\ pc = "mark" => ~plan.recover /\ ~plan.accepted
  /\ pc \in SwitchPCs \cup RecoverPCs => plan.recover
  /\ pc \in {"prepare", "mark"} \cup SwitchPCs => cmd # "recover"
  /\ pc \in AcceptPCs => cmd = "activate"

(* What each step can rely on the earlier steps of its command to have done. *)
Staged ==
  /\ pc \in {"backup", "units", "install", "reload", "undoUnits", "undoInstall",
             "undoEvidence", "undoReload"} => All(running, "down")
  /\ pc \in SwitchPCs \ {"stop", "backup", "units"} => All(unit, "new")
  /\ pc \in SwitchPCs \ {"stop", "backup", "units", "install", "reload"} => All(loaded, "new")
  /\ pc \in {"acceptInstall", "acceptEvidence", "accept"} => All(running, "new")
  /\ pc \in {"acceptEvidence", "accept"} => install = "accepted"
  /\ pc = "accept" => evidence = "new"
  /\ pc \in UndoPCs \ {"undoUnits"} => All(unit, "old")
  /\ pc \in UndoPCs \ {"undoUnits", "undoInstall"} => install = "old"
  /\ pc \in UndoPCs \ {"undoUnits", "undoInstall", "undoEvidence"} => evidence = "old"
  /\ pc \in {"undoStart", "undoVerify", "undone"} => All(loaded, "old")
  /\ pc = "undone" => All(running, "old")

(* The plan claims no verification that did not happen.                    *)
Witnessed ==
  /\ plan.phase = "candidate-verified" => milestone >= 1
  /\ plan.proven => milestone >= 2
  /\ pc # "idle" /\ cmd = "activate" => plan.proven
  /\ pc = "record" => milestone \in {1, 3}
  /\ pc \in AcceptPCs => milestone = 3
  /\ pc = "undone" => milestone # 1
  /\ plan.accepted => milestone = 3

(* Nothing names the candidate before the backup is recorded.              *)
BackedUp ==
  /\ plan.backups # "touched"
  /\ touched \/ pc \in SwitchPCs \ {"stop", "backup"} => plan.backups = "clean"
  /\ \A r \in Roles : unit[r] = "new" \/ loaded[r] = "new" => plan.backups = "clean"

(* Without a reboot, what runs is what is loaded, and that is one release. *)
Uniform ==
  reboots = 0 =>
    \E v \in Releases : \A r \in Roles : loaded[r] = v /\ running[r] \in {v, "down"}

(* A command has been granted what it needs, and starts one release only.  *)
Underway ==
  /\ pc = "mark" => plan.phase \in {"prepared", "rolled-back"}
  /\ pc = "restart" => plan.phase = "candidate-verified"
  /\ pc \in {"start", "verify", "record", "restart", "restarting", "reverify"} =>
       \A r \in Roles : running[r] \in {"new", "down"}
  /\ pc \in {"undoStart", "undoVerify"} => \A r \in Roles : running[r] \in {"old", "down"}
  /\ pc \in {"verify", "record", "reverify", "undoVerify"} =>
       \A r \in Roles : running[r] # "down"

IInv == RestIsConsistent /\ Marked /\ Staged /\ Witnessed /\ BackedUp /\ Uniform /\ Underway
=============================================================================
