----------------------------- MODULE PayInstall -----------------------------
(***************************************************************************)
(* services/discrete-pay/install.py: prepare, start, stop and backup of    *)
(* the four Pay applications.  A command holds discrete-pay-install.lock   *)
(* from start to end, so at most one is at work; pc is the step it takes   *)
(* next.  It may be killed or fail before any step, an application may     *)
(* crash and be restarted by systemd, the host may reboot (no unit is      *)
(* enabled), and the operator's CLI writes to the ledger as it likes.      *)
(*                                                                         *)
(* Data abstracted: the request is one and valid, the staged tree is either *)
(* published or not, and of the two databases only whether one was written *)
(* between the capture of the first and of the second.                     *)
(***************************************************************************)
EXTENDS Naturals, FiniteSets

CONSTANTS
  Roles,       \* the applications: facade, gateway, public, worker
  Target,      \* the unit that groups them
  MaxFaults    \* bound: kills, failing calls, crashes and reboots together

ASSUME RoleAssumption   == Roles # {} /\ Target \notin Roles
ASSUME FiniteAssumption == IsFiniteSet(Roles)
ASSUME FaultsAssumption == MaxFaults \in Nat

VARIABLES
  phase,       \* phase of install.json, "none" while /opt/discrete-pay does not exist
  account,     \* the system user exists
  file,        \* what stands in /etc/systemd/system under each unit's name
  app,         \* each application: "up", "down", "waiting" for its restart
  cli,         \* the operator's CLI is running
  pc,          \* next step of the command at work, "idle" if there is none
  todo,        \* applications its loop has not looked at
  ups,         \* ... and those it has found active
  torn,        \* history: written to since the first database was captured
  late,        \* history: the CLI was started since the check for processes
  faults

installed == <<phase, account, file>>
locals    == <<todo, ups>>
history   == <<torn, late>>
vars      == <<installed, app, cli, pc, locals, history, faults>>

Units == Roles \cup {Target}
All(state) == [r \in Roles |-> state]

PreparePCs == {"account", "publish", "files", "fill"}
StartPCs   == {"start", "check", "undo", "started"}
StopPCs    == {"stop", "stopped"}
BackupPCs  == {"look", "quiesce", "pgrep", "gateway", "journal", "manifest", "giveback"}
PCs        == {"idle"} \cup PreparePCs \cup StartPCs \cup StopPCs \cup BackupPCs

(* verify: every file of install.json is in place and unchanged.           *)
Whole == phase # "none" /\ \A u \in Units : file[u] = "whole"

(* backup found all applications active, and has to start them again.      *)
Active == ups = Roles

AllUp == \A r \in Roles : app[r] = "up"

Init ==
  /\ phase = "none" /\ account = FALSE /\ file = [u \in Units |-> "absent"]
  /\ app = All("down") /\ cli = FALSE /\ pc = "idle" /\ todo = {} /\ ups = {}
  /\ torn = FALSE /\ late = FALSE /\ faults = 0

Fault == faults < MaxFaults /\ faults' = faults + 1

(* The command ends, and with it what it held in memory.                   *)
Ended == pc' = "idle" /\ todo' = {} /\ ups' = {}

(* From one step to the next.                                              *)
At(from, to) == pc = from /\ pc' = to /\ UNCHANGED faults

-----------------------------------------------------------------------------
(* prepare                                                                 *)

(* Nothing of an earlier installation, not even its user, may be there.    *)
Prepare ==
  /\ phase = "none" /\ ~account /\ \A u \in Units : file[u] = "absent"
  /\ At("idle", "account") /\ UNCHANGED <<installed, app, cli, locals, history>>

(* The staged tree is complete; the user is made, the tree renamed.        *)
MakeAccount ==
  /\ At("account", "publish") /\ account' = TRUE
  /\ UNCHANGED <<phase, file, app, cli, locals, history>>

Publish ==
  /\ At("publish", "files") /\ phase' = "prepared"
  /\ UNCHANGED <<account, file, app, cli, locals, history>>

BugResumeVerifiesFirst ==
  /\ phase = "prepared" /\ Whole /\ At("idle", "files")
  /\ UNCHANGED <<installed, app, cli, locals, history>>

(* The same request again, when the units were not all written.            *)
Resume ==
  /\ phase = "prepared" /\ At("idle", "files")
  /\ UNCHANGED <<installed, app, cli, locals, history>>

(* write_once creates a file and then fills it.  The units come in a fixed *)
(* order, so one that is neither absent nor whole is met before any that   *)
(* is absent, and refused.                                                 *)
CreateUnit ==
  /\ At("files", "fill") /\ \A u \in Units : file[u] # "partial"
  /\ \E u \in Units : file[u] = "absent" /\ file' = [file EXCEPT ![u] = "partial"]
  /\ UNCHANGED <<phase, account, app, cli, locals, history>>

FillUnit ==
  /\ At("fill", "files")
  /\ file' = [u \in Units |-> IF file[u] = "partial" THEN "whole" ELSE file[u]]
  /\ UNCHANGED <<phase, account, app, cli, locals, history>>

(* systemd-analyze, daemon-reload and verify; or a unit that differs.      *)
Prepared ==
  /\ pc = "files" /\ (Whole \/ \E u \in Units : file[u] = "partial")
  /\ Ended /\ UNCHANGED <<installed, app, cli, history, faults>>

-----------------------------------------------------------------------------
(* start and stop                                                          *)
BugBeginUnverified(first) ==
  /\ phase # "none" /\ At("idle", first) /\ todo' = Roles /\ UNCHANGED ups
  /\ UNCHANGED <<installed, app, cli, history>>

(* Every command but prepare verifies the installation first.              *)
Begin(first) ==
  /\ Whole /\ At("idle", first) /\ todo' = Roles /\ UNCHANGED ups
  /\ UNCHANGED <<installed, app, cli, history>>

Start  == Begin("start")
Stop   == Begin("stop")
Backup == Begin("look")

(* systemctl start of the target starts whatever application is not up.    *)
StartTarget ==
  /\ At("start", "check") /\ app' = All("up")
  /\ UNCHANGED <<installed, cli, locals, history>>

(* It fails, or its time is up while systemd goes on.                      *)
StartFails ==
  /\ pc = "start" /\ Fault /\ pc' = "undo" /\ app' \in {app, All("up")}
  /\ UNCHANGED <<installed, cli, locals, history>>

(* systemctl is-active, one application after another.                     *)
CheckActive ==
  \E r \in todo :
    /\ IF app[r] = "up" THEN At("check", "check") /\ todo' = todo \ {r}
       ELSE At("check", "undo") /\ UNCHANGED todo
    /\ UNCHANGED <<installed, app, cli, ups, history>>

Undo ==
  /\ pc = "undo" /\ app' = All("down") /\ Ended
  /\ UNCHANGED <<installed, cli, history, faults>>

Checked ==
  /\ todo = {} /\ At("check", "started")
  /\ UNCHANGED <<installed, app, cli, locals, history>>

RecordStart ==
  /\ pc = "started" /\ phase' = "started" /\ Ended
  /\ UNCHANGED <<account, file, app, cli, history, faults>>

StopAll ==
  /\ At("stop", "stopped") /\ app' = All("down")
  /\ UNCHANGED <<installed, cli, locals, history>>

StopFails ==
  /\ pc = "stop" /\ Fault /\ Ended /\ app' \in {app, All("down")}
  /\ UNCHANGED <<installed, cli, history>>

RecordStop ==
  /\ pc = "stopped" /\ phase' = "stopped" /\ Ended
  /\ UNCHANGED <<account, file, app, cli, history, faults>>

-----------------------------------------------------------------------------
(* backup                                                                  *)

(* systemctl is-active, one after another: an application that waits for   *)
(* its restart is not active.                                              *)
Look ==
  \E r \in todo :
    /\ At("look", "look") /\ todo' = todo \ {r}
    /\ ups' = IF app[r] = "up" THEN ups \cup {r} ELSE ups
    /\ UNCHANGED <<installed, app, cli, history>>

Looked ==
  /\ todo = {} /\ (Active \/ ups = {}) /\ At("look", "quiesce")
  /\ UNCHANGED <<installed, app, cli, locals, history>>

LookedMixed ==
  /\ pc = "look" /\ todo = {} /\ ~Active /\ ups # {}
  /\ Ended /\ UNCHANGED <<installed, app, cli, history, faults>>

(* Applications found inactive are not stopped.                            *)
Quiesce ==
  /\ At("quiesce", "pgrep")
  /\ app' = (IF Active THEN All("down") ELSE app)
  /\ UNCHANGED <<installed, cli, locals, history>>

BugPgrepApplicationsOnly ==
  /\ At("pgrep", "gateway") /\ \A r \in Roles : app[r] # "up"
  /\ late' = FALSE /\ UNCHANGED <<installed, app, cli, locals, torn>>
BugPgrepReturns ==
  /\ pc = "pgrep" /\ (cli \/ \E r \in Roles : app[r] = "up") /\ Ended
  /\ UNCHANGED <<installed, app, cli, history, faults>>

(* pgrep of the user's processes: none, or the backup fails.               *)
Pgrep ==
  /\ At("pgrep", "gateway") /\ ~cli /\ \A r \in Roles : app[r] # "up"
  /\ late' = FALSE /\ UNCHANGED <<installed, app, cli, locals, torn>>

PgrepRefuses ==
  /\ At("pgrep", "giveback") /\ (cli \/ \E r \in Roles : app[r] = "up")
  /\ UNCHANGED <<installed, app, cli, locals, history>>

CaptureGateway ==
  /\ At("gateway", "journal") /\ torn' = FALSE
  /\ UNCHANGED <<installed, app, cli, locals, late>>

CaptureJournal ==
  /\ At("journal", "manifest")
  /\ UNCHANGED <<installed, app, cli, locals, history>>

Manifest ==
  /\ At("manifest", "giveback")
  /\ UNCHANGED <<installed, app, cli, locals, history>>

(* The facade makes its journal when it first runs: until then there is    *)
(* none to capture.                                                        *)
NoJournal ==
  /\ At("journal", "giveback")
  /\ UNCHANGED <<installed, app, cli, locals, history>>

(* A step of the capture raises: the finally clause comes next.            *)
CaptureFails ==
  /\ pc \in {"quiesce", "pgrep", "gateway", "journal", "manifest"}
  /\ Fault /\ pc' = "giveback"
  /\ app' \in {app} \cup (IF pc = "quiesce" /\ Active THEN {All("down")} ELSE {})
  /\ UNCHANGED <<installed, cli, locals, history>>

BugGiveBackForgets ==
  /\ pc = "giveback" /\ Ended
  /\ UNCHANGED <<installed, app, cli, history, faults>>

(* finally: what was taken down is started again.                          *)
GiveBack ==
  /\ pc = "giveback" /\ app' = (IF Active THEN All("up") ELSE app) /\ Ended
  /\ UNCHANGED <<installed, cli, history, faults>>

-----------------------------------------------------------------------------
(* Around the commands                                                     *)

(* Restart=on-failure: a crashed application waits, then is started again, *)
(* until its start limit.                                                  *)
Crash ==
  \E r \in Roles :
    /\ app[r] = "up" /\ Fault /\ app' = [app EXCEPT ![r] = "waiting"]
    /\ UNCHANGED <<installed, cli, pc, locals, history>>

Respawn ==
  \E r \in Roles, state \in {"up", "down"} :
    /\ app[r] = "waiting" /\ app' = [app EXCEPT ![r] = state]
    /\ UNCHANGED <<installed, cli, pc, locals, history, faults>>

CliStart ==
  /\ phase # "none" /\ ~cli /\ cli' = TRUE /\ late' = TRUE
  /\ UNCHANGED <<installed, app, pc, locals, torn, faults>>

CliEnd ==
  /\ cli /\ cli' = FALSE
  /\ UNCHANGED <<installed, app, pc, locals, history, faults>>

(* Somebody writes between the two captures; other writes do not matter.   *)
Write ==
  /\ pc = "journal" /\ ~torn /\ (cli \/ \E r \in Roles : app[r] = "up") /\ torn' = TRUE
  /\ UNCHANGED <<installed, app, cli, pc, locals, late, faults>>

Die == pc # "idle" /\ Fault /\ Ended /\ UNCHANGED <<installed, app, cli, history>>

Reboot ==
  /\ Fault /\ Ended /\ app' = All("down") /\ cli' = FALSE
  /\ UNCHANGED <<installed, history>>

Step ==
  \/ MakeAccount \/ Publish \/ CreateUnit \/ FillUnit \/ Prepared
  \/ StartTarget \/ CheckActive \/ Undo \/ Checked \/ RecordStart \/ StopAll \/ RecordStop
  \/ Look \/ Looked \/ LookedMixed \/ Quiesce \/ Pgrep \/ PgrepRefuses \/ CaptureGateway
  \/ CaptureJournal \/ NoJournal \/ Manifest \/ GiveBack

Commands == Prepare \/ Resume \/ Start \/ Stop \/ Backup
Faults   == StartFails \/ StopFails \/ CaptureFails \/ Crash \/ Die \/ Reboot
Others   == Respawn \/ CliStart \/ CliEnd \/ Write

Next == Commands \/ Step \/ Faults \/ Others

Spec == Init /\ [][Next]_vars

(* A command that is not killed goes on; an operator whose prepare did not *)
(* end runs it again.                                                      *)
FairSpec == Spec /\ WF_vars(Step) /\ WF_vars(Prepare \/ (Resume /\ ~Whole))

-----------------------------------------------------------------------------
TypeOK ==
  /\ phase \in {"none", "prepared", "started", "stopped"}
  /\ account \in BOOLEAN /\ file \in [Units -> {"absent", "partial", "whole"}]
  /\ app \in [Roles -> {"up", "down", "waiting"}] /\ cli \in BOOLEAN
  /\ pc \in PCs /\ todo \subseteq Roles /\ ups \subseteq Roles
  /\ torn \in BOOLEAN /\ late \in BOOLEAN /\ faults \in 0..MaxFaults

(* No application ever runs from an installation that was published in     *)
(* part, however often prepare died and whatever was tried in between.     *)
OnlyWholeRuns == (\E r \in Roles : app[r] # "down") => Whole

(* A backup of a running deployment holds the two databases of one moment, *)
(* through crashes and restarts of the applications: only a CLI that the   *)
(* operator started after the check for processes can come between.        *)
RunningBackupIsCoherent == pc = "manifest" /\ Active /\ torn => late

(* Without kills, crashes and failing calls the recorded phase is what     *)
(* runs, between any two commands: a backup, refused or not, gives back    *)
(* what it took down, and a start that is not complete is taken back.      *)
RestMatchesPhase ==
  pc = "idle" /\ faults = 0 => app = All(IF phase = "started" THEN "up" ELSE "down")

(* "Interrupted unit publication may be retried with the same request"     *)
(* (services/discrete-pay/README.md:55): no unit is left that the next     *)
(* prepare refuses.                                                        *)
PublicationMayBeRetried ==
  pc = "idle" /\ phase = "prepared" => \A u \in Units : file[u] # "partial"

(* "Backup stops the four applications" (services/discrete-pay/README.md): *)
(* none of them runs while the databases are captured.                     *)
StoppedWhileCaptured == pc \in {"gateway", "journal"} => \A r \in Roles : app[r] # "up"

(* Where prepare leads nowhere any more: a user without an installation,   *)
(* which the README leaves to inspection, or half a unit file.             *)
DeadEnd == (phase = "none" /\ account) \/ \E u \in Units : file[u] = "partial"

(* An operator who repeats prepare ends with a whole installation, or a    *)
(* fault left what no prepare accepts.                                     *)
EventuallyWhole == <>(Whole \/ (DeadEnd /\ faults > 0))

(* A backup that took the applications down brings them all up again,      *)
(* refused, failed or done, unless there was a fault.                      *)
TakenDownIsGivenBack == (pc = "pgrep" /\ Active) ~> (AllUp \/ faults > 0)

(* The steps a command at p has before it at most, with so many units to   *)
(* write, each in two steps, and so many applications to look at.          *)
StepsFrom(p, writing, looking) ==
  CASE p = "idle" -> 0
    [] p = "account" -> 2 * writing + 3 [] p = "publish" -> 2 * writing + 2
    [] p = "files" -> 2 * writing + 1 [] p = "fill" -> 2 * writing + 2
    [] p = "start" -> looking + 3 [] p = "check" -> looking + 2
    [] p \in {"undo", "started", "stopped", "giveback"} -> 1
    [] p \in {"stop", "manifest"} -> 2
    [] p = "look" -> looking + 7 [] p = "quiesce" -> 6 [] p = "pgrep" -> 5
    [] p = "gateway" -> 4 [] p = "journal" -> 3

Unwritten == {u \in Units : file[u] = "absent"}
StepsLeft == StepsFrom(pc, Cardinality(Unwritten), Cardinality(todo))

(* A command ends after a bounded number of steps, whatever fails: each of *)
(* its own brings the end nearer, and nothing else touches where it is.    *)
CommandsEnd ==
  [][pc # "idle" =>
       StepsLeft' \in 0..(StepsLeft - 1) \/ UNCHANGED <<pc, todo, ups, file>>]_vars

(* A backup that has stopped a running deployment ends in no other way     *)
(* than by starting it again, unless it is killed or the host reboots.     *)
BackupGivesBack ==
  [][Active /\ pc \in {"pgrep", "gateway", "journal", "manifest", "giveback"} /\ pc' = "idle"
       => app' = All("up") \/ faults' > faults]_vars

-----------------------------------------------------------------------------
(* Why the safety properties hold, proved inductive in PayInstallProofs.   *)

(* A command is at work on an installation, which was whole when it began. *)
Installing ==
  /\ pc \in StartPCs \cup StopPCs \cup BackupPCs => Whole
  /\ pc \in {"account", "publish"} => phase = "none"
  /\ pc \in {"files", "fill"} => phase = "prepared"
  /\ phase \in {"started", "stopped"} => Whole

(* After its stop a backup has no application that could come back.        *)
Quiet ==
  /\ ups \subseteq Roles
  /\ Active /\ pc \in {"pgrep", "gateway", "journal", "manifest"} => app = All("down")
  /\ pc \in {"journal", "manifest"} /\ Active /\ torn => late
  /\ cli /\ pc \in {"gateway", "journal", "manifest"} => late

(* What runs without a fault, at each step of a command.                   *)
Calm ==
  faults = 0 =>
    LET resting == All(IF phase = "started" THEN "up" ELSE "down")
    IN  /\ pc \in {"idle", "start", "stop", "look", "quiesce"} \cup PreparePCs => app = resting
        /\ pc \in {"check", "started"} => app = All("up")
        /\ pc = "stopped" => app = All("down")
        /\ pc # "undo"
        /\ pc \in BackupPCs => \A r \in Roles \ todo : r \in ups <=> phase = "started"
        /\ pc \in BackupPCs \ {"look"} => todo = {}
        /\ pc \in {"pgrep", "gateway", "journal", "manifest", "giveback"} => app = All("down")
        /\ ups \cap todo = {} /\ (pc \notin BackupPCs => ups = {})

IInv ==
  /\ TypeOK /\ OnlyWholeRuns /\ Installing /\ Quiet /\ Calm
=============================================================================
