--------------------------- MODULE HostBootstrap ---------------------------
(***************************************************************************)
(* The two-phase bootstrap of a host: modules/host/bootstrap/debian-ipv4.sh *)
(* with the apply-config.sh, apply-nftables.sh and restart-fail2ban.sh it   *)
(* runs.  prepare opens a second SSH port (22822) beside the provider's     *)
(* (22) and creates an administrator; finalize closes port 22, refuses root *)
(* and writes the marker.  Each step is one call of the scripts that        *)
(* changes the host; a run may be killed or fail before any of them, and    *)
(* the host may reboot, which replaces what runs by what is on disk.        *)
(*                                                                          *)
(* One run at a time: the scripts take no lock, the runbook asks for one    *)
(* root session.  A file is written in one step.                            *)
(***************************************************************************)
EXTENDS Naturals

CONSTANT MaxFaults   \* bound: kills, failing calls and reboots together

ASSUME FaultsAssumption == MaxFaults \in Nat

OldPort == 22        \* BOOTSTRAP_SSH_PORT
NewPort == 22822     \* FINAL_SSH_PORT

Components == {"ssh", "nftables", "fail2ban"}      \* of configs/manifest.tsv
Contents   == {"stock", "bootstrap", "final"}

VARIABLES
  disk,      \* what the configuration file of each component holds
  live,      \* what the running service of each component has loaded
  temp,      \* 00-discrete-bootstrap.conf exists
  liveTemp,  \* sshd has loaded it
  rules,     \* nftables.service: enabled at boot, active now
  ufw,       \* UFW is installed and filters
  admin,     \* the administrator's account
  marker,    \* bootstrap-finalized exists
  pc,        \* the call the run makes next
  comp,      \* the component apply-config.sh is at
  old,       \* its copy of that component's file
  kept,      \* finalize_ssh holds a copy of 00-discrete-bootstrap.conf
  faults     \* kills, failing calls and reboots so far

host == <<disk, live, temp, liveTemp, rules, ufw, admin, marker>>
run  == <<comp, old, kept>>
vars == <<disk, live, temp, liveTemp, rules, ufw, admin, marker, pc, comp, old, kept, faults>>

Steps ==
  {"idle", "admin", "password", "temp", "reload", "rules", "load", "start", "ufw", "again",
   "jail", "stop", "ban", "prepared", "check", "remove", "install", "apply", "restart",
   "verify", "rollback", "reapply", "runtime", "restore", "reopen", "giveup", "clean",
   "verifyall", "mark"}

-----------------------------------------------------------------------------
(* What a configuration means for a login.                                 *)

(* The ports of sshd: the temporary file sorts before 00-discrete.conf and *)
(* adds both; with neither file sshd keeps its default.                    *)
Ports(t, c) ==
  IF t THEN {OldPort, NewPort} ELSE IF c = "final" THEN {NewPort} ELSE {OldPort}

(* The two ports as far as a ruleset lets them through; "stock" has no     *)
(* table of this repository.                                               *)
Opens(c) == IF c = "final" THEN {NewPort} ELSE {OldPort, NewPort}

(* The ports on which a new SSH connection reaches sshd.  UFW knows only   *)
(* the provider's port.                                                    *)
Reach(t, s, f) == Ports(t, s) \cap Opens(f) \cap (IF ufw THEN {OldPort} ELSE {OldPort, NewPort})

(* PermitRootLogin: the first value wins.                                  *)
RootAllowed(t, c) == t \/ c # "final"

(* Who comes in where.                                                     *)
WaysIn(t, s, f) ==
  {way \in {"root", "admin"} \X Reach(t, s, f) :
     IF way[1] = "root" THEN RootAllowed(t, s) ELSE admin = "usable"}

(* The ways in now, and after a reboot at this moment.                     *)
WaysNow  == WaysIn(liveTemp, live["ssh"], live["nftables"])
WaysNext == WaysIn(temp, disk["ssh"], IF rules.enabled THEN disk["nftables"] ELSE "stock")

-----------------------------------------------------------------------------
Init ==
  /\ disk = [c \in Components |-> "stock"] /\ live = disk
  /\ temp = FALSE /\ liveTemp = FALSE /\ marker = FALSE
  /\ \E on \in BOOLEAN : rules = [enabled |-> on, active |-> on]
  /\ ufw \in BOOLEAN /\ admin \in {"absent", "usable"}
  /\ pc = "idle" /\ comp = "ssh" /\ old = "stock" /\ kept = FALSE /\ faults = 0

(* A step of the run: from one call to the next.                           *)
At(from, to) == pc = from /\ pc' = to /\ UNCHANGED faults

(* The run ends; what it held in memory or in /tmp is of no use to others. *)
Ended == pc' = "idle" /\ comp' = "ssh" /\ old' = "stock" /\ kept' = FALSE

Fault == faults < MaxFaults /\ faults' = faults + 1

(* systemctl reload ssh.                                                   *)
ReloadSsh == live' = [live EXCEPT !["ssh"] = disk["ssh"]] /\ liveTemp' = temp

-----------------------------------------------------------------------------
(* prepare                                                                 *)

(* prepare is refused on a host that carries the marker.                   *)
Prepare ==
  /\ ~marker /\ At("idle", "admin") /\ UNCHANGED <<host, run>>

(* create-admin.sh: the account with sudo first, its password afterwards.  *)
CreateAdmin ==
  /\ At("admin", "password")
  /\ admin' = (IF admin = "absent" THEN "locked" ELSE admin)
  /\ UNCHANGED <<disk, live, temp, liveTemp, rules, ufw, marker, run>>

SetPassword ==
  /\ At("password", "temp") /\ admin' = "usable"
  /\ UNCHANGED <<disk, live, temp, liveTemp, rules, ufw, marker, run>>

(* sshd -T of the files on disk says so.                                   *)
AppearsFinalized == disk["ssh"] = "final" /\ ~temp

WriteTemporary ==
  /\ ~AppearsFinalized /\ At("temp", "reload") /\ temp' = TRUE
  /\ UNCHANGED <<disk, live, liveTemp, rules, ufw, admin, marker, run>>

ReloadTemporary ==
  /\ At("reload", "rules") /\ ReloadSsh
  /\ UNCHANGED <<disk, temp, rules, ufw, admin, marker, run>>

BugInstallRulesNotEnabled ==
  /\ At("rules", "load")
  /\ disk' = [disk EXCEPT !["nftables"] = "bootstrap"]
  /\ UNCHANGED <<live, temp, liveTemp, rules, ufw, admin, marker, run>>

(* install_bootstrap_firewall: the file and the service's enablement.      *)
InstallRules ==
  /\ At("rules", "load")
  /\ disk' = [disk EXCEPT !["nftables"] = "bootstrap"]
  /\ rules' = [rules EXCEPT !.enabled = TRUE]
  /\ UNCHANGED <<live, temp, liveTemp, ufw, admin, marker, run>>

(* One transaction when the service is active; otherwise the tables are    *)
(* deleted and the service started.                                        *)
LoadRules ==
  /\ \/ rules.active /\ At("load", "ufw") /\ live' = [live EXCEPT !["nftables"] = disk["nftables"]]
     \/ ~rules.active /\ At("load", "start") /\ live' = [live EXCEPT !["nftables"] = "stock"]
  /\ UNCHANGED <<disk, temp, liveTemp, rules, ufw, admin, marker, run>>

StartRules ==
  /\ At("start", "ufw")
  /\ live' = [live EXCEPT !["nftables"] = disk["nftables"]]
  /\ rules' = [rules EXCEPT !.active = TRUE]
  /\ UNCHANGED <<disk, temp, liveTemp, ufw, admin, marker, run>>

RemoveUfw ==
  /\ At("ufw", "again") /\ ufw' = FALSE
  /\ UNCHANGED <<disk, live, temp, liveTemp, rules, admin, marker, run>>

(* install_bootstrap_firewall a second time, now with the service active.  *)
InstallRulesAgain ==
  /\ At("again", "jail")
  /\ disk' = [disk EXCEPT !["nftables"] = "bootstrap"]
  /\ live' = [live EXCEPT !["nftables"] = "bootstrap"]
  /\ UNCHANGED <<temp, liveTemp, rules, ufw, admin, marker, run>>

(* install_bootstrap_fail2ban: the files, then the restart in two steps.   *)
InstallJail ==
  /\ At("jail", "stop") /\ disk' = [disk EXCEPT !["fail2ban"] = "bootstrap"]
  /\ UNCHANGED <<live, temp, liveTemp, rules, ufw, admin, marker, run>>

StopJail ==
  /\ At("stop", "ban") /\ live' = [live EXCEPT !["fail2ban"] = "stock"]
  /\ UNCHANGED <<disk, temp, liveTemp, rules, ufw, admin, marker, run>>

StartJail ==
  /\ At("ban", "prepared") /\ live' = [live EXCEPT !["fail2ban"] = disk["fail2ban"]]
  /\ UNCHANGED <<disk, temp, liveTemp, rules, ufw, admin, marker, run>>

VerifyPrepared ==
  /\ live["nftables"] = "bootstrap" /\ live["fail2ban"] = "bootstrap" /\ ~ufw
  /\ pc = "prepared" /\ Ended /\ UNCHANGED <<host, faults>>

-----------------------------------------------------------------------------
(* finalize                                                                *)

(* The marker goes before anything is known about the host.                *)
Finalize ==
  /\ At("idle", "check") /\ marker' = FALSE
  /\ UNCHANGED <<disk, live, temp, liveTemp, rules, ufw, admin, run>>

(* The account with sudo, no UFW, a firewall that lets both ports through  *)
(* (the stock one has no such table).                                      *)
Preconditions == admin # "absent" /\ ~ufw /\ live["nftables"] = "bootstrap"

(* The operator confirms a fresh login of the administrator on port 22822, *)
(* truthfully.                                                             *)
Confirmed == admin = "usable" /\ NewPort \in Reach(liveTemp, live["ssh"], live["nftables"])

BugCheckAnyHost == ~ufw /\ At("check", "remove") /\ UNCHANGED <<host, run>>

Check == Preconditions /\ Confirmed /\ At("check", "remove") /\ UNCHANGED <<host, run>>

(* finalize_ssh takes the temporary file away and keeps a copy of it.      *)
RemoveTemporary ==
  /\ At("remove", "install") /\ temp' = FALSE /\ kept' = temp /\ comp' = "ssh"
  /\ UNCHANGED <<disk, live, liveTemp, rules, ufw, admin, marker, old>>

-----------------------------------------------------------------------------
(* apply-config.sh ssh, nftables and fail2ban, one component at a time.    *)

(* Copy what is there, install the repository's file, validate it.         *)
Install ==
  /\ At("install", "apply") /\ old' = disk[comp]
  /\ disk' = [disk EXCEPT ![comp] = "final"]
  /\ UNCHANGED <<live, temp, liveTemp, rules, ufw, admin, marker, comp, kept>>

(* The service of a component takes what is on disk.                       *)
Load(c) ==
  /\ live' = [live EXCEPT ![c] = disk[c]]
  /\ liveTemp' = (IF c = "ssh" THEN temp ELSE liveTemp)

(* The reload command; that of fail2ban is a stop and a start.             *)
Apply ==
  /\ \/ comp # "fail2ban" /\ At("apply", "verify") /\ Load(comp)
     \/ /\ comp = "fail2ban" /\ At("apply", "restart")
        /\ live' = [live EXCEPT !["fail2ban"] = "stock"] /\ UNCHANGED liveTemp
  /\ UNCHANGED <<disk, temp, rules, ufw, admin, marker, run>>

Restart ==
  /\ At("restart", "verify") /\ Load("fail2ban")
  /\ UNCHANGED <<disk, temp, rules, ufw, admin, marker, run>>

BugAfterSkipsFail2ban(c) == IF c = "ssh" THEN "runtime" ELSE "clean"

(* What finalize does after a component is applied.                        *)
After(c) == IF c = "ssh" THEN "runtime" ELSE IF c = "nftables" THEN "install" ELSE "clean"

Verify ==
  /\ At("verify", After(comp))
  /\ comp' = (IF comp = "nftables" THEN "fail2ban" ELSE comp)
  /\ UNCHANGED <<host, old, kept>>

BugFailedIgnored ==
  IF comp = "ssh" THEN pc' = "restore" /\ UNCHANGED run
  ELSE pc' = After(comp) /\ comp' = "fail2ban" /\ UNCHANGED <<old, kept>>

(* ... and after it is not: finalize_ssh handles a failure, nobody else's. *)
Failed == IF comp = "ssh" THEN pc' = "restore" /\ UNCHANGED run ELSE Ended

(* A failing copy, install or validation leaves the old file in place.     *)
InstallFails ==
  /\ pc = "install" /\ Fault /\ Failed /\ UNCHANGED host

(* A failing reload or verification.  A fail2ban that fails to start is    *)
(* stopped.                                                                *)
ApplyFails ==
  /\ pc \in {"apply", "restart", "verify"} /\ Fault /\ pc' = "rollback"
  /\ UNCHANGED <<host, run>>

(* rollback_component: the copy comes back ...                             *)
Rollback ==
  /\ At("rollback", "reapply") /\ disk' = [disk EXCEPT ![comp] = old]
  /\ UNCHANGED <<live, temp, liveTemp, rules, ufw, admin, marker, run>>

(* ... and is loaded, or the failure of that is ignored.                   *)
Reapply ==
  /\ pc = "reapply" /\ Load(comp) /\ Failed
  /\ UNCHANGED <<disk, temp, rules, ufw, admin, marker, faults>>

ReapplyFails ==
  /\ pc = "reapply" /\ Fault /\ Failed
  /\ live' = (IF comp = "fail2ban" THEN [live EXCEPT !["fail2ban"] = "stock"] ELSE live)
  /\ UNCHANGED <<disk, temp, liveTemp, rules, ufw, admin, marker>>

-----------------------------------------------------------------------------
(* The rest of finalize_ssh and of finalize.                               *)

SshIsFinal ==
  /\ disk["ssh"] = "final" /\ ~temp
  /\ live["ssh"] = "final" /\ ~liveTemp

(* verify_final_ssh_runtime holds: sshd has no other port and no root.     *)
VerifyRuntime ==
  /\ SshIsFinal /\ At("runtime", "install") /\ comp' = "nftables" /\ kept' = FALSE
  /\ UNCHANGED <<host, old>>

(* It does not: a listener is late, or something listens on IPv6.          *)
RuntimeFails == pc = "runtime" /\ Fault /\ pc' = "restore" /\ UNCHANGED <<host, run>>

BugRestoreAlways ==
  /\ At("restore", "reopen") /\ temp' = TRUE
  /\ UNCHANGED <<disk, live, liveTemp, rules, ufw, admin, marker, run>>

(* The temporary file comes back if this run took it away.                 *)
Restore ==
  /\ \/ kept /\ At("restore", "reopen") /\ temp' = TRUE
     \/ ~kept /\ At("restore", "giveup") /\ UNCHANGED temp
  /\ UNCHANGED <<disk, live, liveTemp, rules, ufw, admin, marker, run>>

Reopen ==
  /\ At("reopen", "giveup") /\ ReloadSsh
  /\ UNCHANGED <<disk, temp, rules, ufw, admin, marker, run>>

(* "Temporary IPv4 root SSH access was restored."                          *)
GiveUp == pc = "giveup" /\ Ended /\ UNCHANGED <<host, faults>>

Clean ==
  /\ At("clean", "verifyall") /\ ufw' = FALSE
  /\ UNCHANGED <<disk, live, temp, liveTemp, rules, admin, marker, run>>

(* verify.sh all.                                                          *)
VerifyAll ==
  /\ SshIsFinal /\ live["nftables"] = "final" /\ live["fail2ban"] = "final"
  /\ rules.enabled /\ rules.active /\ ~ufw
  /\ At("verifyall", "mark") /\ UNCHANGED <<host, run>>

Mark ==
  /\ pc = "mark" /\ Ended /\ marker' = TRUE
  /\ UNCHANGED <<disk, live, temp, liveTemp, rules, ufw, admin, faults>>

-----------------------------------------------------------------------------
(* A check of the script that does not hold ends the run.  The others, at  *)
(* the end of each phase, hold whenever a run comes to them unless a call  *)
(* fails, which is Die.                                                    *)
Refuse ==
  /\ \/ pc = "temp" /\ AppearsFinalized
     \/ pc = "check" /\ ~(Preconditions /\ Confirmed)
  /\ Ended /\ UNCHANGED <<host, faults>>

(* A kill, or a failing call of a script that runs under set -e.           *)
Die == pc # "idle" /\ Fault /\ Ended /\ UNCHANGED host

(* Every service comes up with what is on disk.                            *)
Reboot ==
  /\ Fault /\ Ended
  /\ live' = [disk EXCEPT !["nftables"] = IF rules.enabled THEN @ ELSE "stock"]
  /\ liveTemp' = temp /\ rules' = [rules EXCEPT !.active = rules.enabled]
  /\ UNCHANGED <<disk, temp, ufw, admin, marker>>

PrepareStep ==
  \/ CreateAdmin \/ SetPassword \/ WriteTemporary \/ ReloadTemporary \/ InstallRules
  \/ LoadRules \/ StartRules \/ RemoveUfw \/ InstallRulesAgain \/ InstallJail
  \/ StopJail \/ StartJail \/ VerifyPrepared

FinalizeStep ==
  \/ Check \/ RemoveTemporary \/ Install \/ Apply \/ Restart \/ Verify \/ Rollback
  \/ Reapply \/ VerifyRuntime \/ Restore \/ Reopen \/ GiveUp \/ Clean \/ VerifyAll \/ Mark

Faults == InstallFails \/ ApplyFails \/ ReapplyFails \/ RuntimeFails \/ Die \/ Reboot

Next == Prepare \/ Finalize \/ PrepareStep \/ FinalizeStep \/ Refuse \/ Faults

Spec == Init /\ [][Next]_vars

(* A run that is not killed goes on; an operator whose host is not         *)
(* finalized keeps at it with both commands, as the runbook has it.        *)
FairSpec ==
  /\ Spec
  /\ WF_vars(PrepareStep \/ FinalizeStep \/ Refuse)
  /\ SF_vars(Prepare) /\ SF_vars(Finalize /\ ~marker)

-----------------------------------------------------------------------------
TypeOK ==
  /\ disk \in [Components -> Contents] /\ live \in [Components -> Contents]
  /\ temp \in BOOLEAN /\ liveTemp \in BOOLEAN /\ ufw \in BOOLEAN
  /\ marker \in BOOLEAN /\ kept \in BOOLEAN
  /\ rules \in [enabled : BOOLEAN, active : BOOLEAN]
  /\ admin \in {"absent", "locked", "usable"}
  /\ pc \in Steps /\ comp \in Components /\ old \in Contents
  /\ faults \in 0..MaxFaults

(* At no moment of either phase, whatever was killed before and whether or *)
(* not the host reboots now, is there nobody who can log in: a port both   *)
(* sshd and the firewall have open, to root or to an administrator with a  *)
(* password.  The order of finalize's steps and its checks exist for this. *)
NeverLockedOut == WaysNow # {} /\ WaysNext # {}

(* "The finalized-state marker is not written unless every final check     *)
(* passes" (docs/host/bootstrap-from-zero.md:882): under the marker        *)
(* everything is final, in the running services and on disk for the next   *)
(* boot, with no firewall beside it.                                       *)
MarkerMeansFinal ==
  marker =>
    /\ SshIsFinal /\ ~ufw /\ admin = "usable" /\ rules.enabled /\ rules.active
    /\ \A c \in Components : disk[c] = "final" /\ live[c] = "final"

(* Neither command leads anywhere any more, yet the host is not finalized. *)
DeadEnd == pc = "idle" /\ ~marker /\ AppearsFinalized /\ live["nftables"] # "bootstrap"

(* The documented phases can lead there (a finalize that dies after the    *)
(* firewall was closed, or one run again on a finalized host), but no      *)
(* earlier: sshd and the firewall are then final and the administrator can *)
(* come in on the new port.                                                *)
DeadEndIsFinal ==
  DeadEnd => SshIsFinal /\ live["nftables"] = "final" /\ Confirmed

(* finalize_ssh has gone too far to go back: the temporary file and its     *)
(* copy are gone, and so is the copy of an earlier sshd configuration.     *)
Handed ==
  /\ AppearsFinalized /\ ~kept
  /\ comp = "ssh" /\ pc \in {"apply", "verify", "rollback"} => old = "final"

Access == INSTANCE AccessHandover WITH
  Ways     <- {"root", "admin"} \X {OldPort, NewPort},
  First    <- {<<"root", OldPort>>},
  Final    <- {<<"admin", NewPort>>},
  now      <- WaysNow,
  next     <- WaysNext,
  handed   <- Handed,
  declared <- marker

(* The bootstrap behaves as AccessHandover: access goes once from root on  *)
(* port 22 to the administrator on 22822, while both are open; no fault,   *)
(* reboot or later run of either phase takes it back, and no step before   *)
(* closes every way that was open unless it opens the provider's.          *)
ImplementsAccessHandover == Access!Spec

(* "Every final check" at the end of a phase is passed by whatever run      *)
(* comes to it without a failing call: no earlier run, killed at whatever   *)
(* step, leaves a host that these checks refuse for ever.                  *)
ChecksPass ==
  /\ pc = "prepared" => live["nftables"] = "bootstrap" /\ live["fail2ban"] = "bootstrap" /\ ~ufw
  /\ pc = "runtime" => SshIsFinal
  /\ pc = "verifyall" =>
       /\ SshIsFinal /\ live["nftables"] = "final" /\ live["fail2ban"] = "final"
       /\ rules.enabled /\ rules.active /\ ~ufw

(* The calls a run at p, at work on component c, has before it at most,    *)
(* whatever fails.                                                         *)
CallsFrom(p, c) ==
  LET later == IF c = "ssh" THEN 20 ELSE IF c = "nftables" THEN 10 ELSE 0
  IN  CASE p = "idle" -> 0
        [] p \in {"prepared", "mark", "giveup"} -> 1
        [] p \in {"ban", "verifyall", "reopen"} -> 2
        [] p \in {"stop", "clean", "restore"} -> 3
        [] p \in {"jail", "reapply"} -> 4
        [] p \in {"again", "rollback"} -> 5
        [] p = "ufw" -> 6 [] p = "start" -> 7 [] p = "load" -> 8 [] p = "rules" -> 9
        [] p = "reload" -> 10 [] p = "temp" -> 11 [] p = "password" -> 12
        [] p = "admin" -> 13 [] p = "runtime" -> 20
        [] p = "verify" -> later + 6 [] p = "restart" -> later + 7
        [] p = "apply" -> later + 8 [] p = "install" -> later + 9
        [] p = "remove" -> 30 [] p = "check" -> 31

StepsLeft == CallsFrom(pc, comp)

(* Every run of a phase is over after a bounded number of calls, rollbacks *)
(* and restores included: nothing a run does is ever tried again by it.    *)
RunsEnd == [][pc # "idle" => StepsLeft' \in 0..(StepsLeft - 1)]_vars

(* When finalize gives up on SSH it says that temporary access was         *)
(* restored (debian-ipv4.sh:541): both ports, root included.               *)
RestoredMeansRestored ==
  pc = "giveup" =>
    /\ {OldPort, NewPort} \subseteq Reach(liveTemp, live["ssh"], live["nftables"])
    /\ RootAllowed(liveTemp, live["ssh"])

(* An operator who keeps at it ends with a finalized host; only a fault    *)
(* can leave one that neither command takes further.                       *)
EventuallyFinal == <>(marker \/ (DeadEnd /\ faults > 0))

-----------------------------------------------------------------------------
(* What the order of the steps maintains: the inductive invariant behind   *)
(* the properties above.                                                   *)

AfterTemporary ==
  {"reload", "rules", "load", "start", "ufw", "again", "jail", "stop", "ban", "prepared"}
SshSteps   == {"install", "apply", "verify", "rollback", "reapply", "runtime", "restore",
               "reopen", "giveup"}
AfterCheck == SshSteps \cup {"remove", "restart", "clean", "verifyall", "mark"}

(* Where a run is tells which component it works on, and what it has done. *)
Progress ==
  /\ pc \in AfterTemporary => temp
  /\ comp # "ssh" => pc \in AfterCheck \ {"remove", "runtime", "restore", "reopen", "giveup"}
  /\ pc = "restart" => comp = "fail2ban"
  /\ pc \in {"apply", "restart", "verify"} => disk[comp] = "final"
  /\ pc = "verify" => live[comp] = "final"
  /\ comp = "fail2ban" => disk["nftables"] = "final" /\ live["nftables"] = "final"
  /\ pc \in {"clean", "verifyall", "mark"} =>
       comp = "fail2ban" /\ disk["fail2ban"] = "final" /\ live["fail2ban"] = "final"
  /\ pc # "idle" => ~marker

(* A loaded firewall belongs to an active, enabled service with a file.    *)
Enabled ==
  /\ rules.active => rules.enabled
  /\ live["nftables"] # "stock" => rules.active /\ disk["nftables"] # "stock"
  /\ pc \in {"load", "start"} => rules.enabled /\ disk["nftables"] = "bootstrap"
  /\ pc \in {"ufw", "again"} => live["nftables"] # "stock"

(* Root is refused only where the administrator was seen to log in.        *)
Administered ==
  disk["ssh"] = "final" \/ live["ssh"] = "final" \/ pc \in AfterCheck =>
    admin = "usable" /\ ~ufw /\ live["nftables"] # "stock"

(* Port 22 is closed, or about to be, only under a final sshd.             *)
Firewalled ==
  disk["nftables"] = "final" \/ live["nftables"] = "final" \/ comp # "ssh" => SshIsFinal

(* While sshd is being changed both ports are open, and neither the copy   *)
(* of its file nor the temporary file undoes a final firewall's sshd.      *)
Undoable ==
  /\ pc \in AfterCheck /\ comp = "ssh" => live["nftables"] = "bootstrap"
  /\ pc \in {"apply", "restart", "verify", "rollback"} =>
       /\ comp = "nftables" => old # "stock"
       /\ comp = "ssh" /\ disk["nftables"] = "final" => old = "final"
  /\ kept => pc \in SshSteps /\ comp = "ssh" /\ disk["nftables"] # "final"

(* From the check on, what makes a reboot or a reload final is preceded by *)
(* a port 22822 that is open.                                              *)
Remaining ==
  \/ AppearsFinalized
  \/ comp = "ssh" /\ pc \in {"remove", "install", "apply", "verify", "rollback"}
  => liveTemp \/ live["ssh"] = "final"

(* What the checks at the end of a phase rely on.                          *)
Ready ==
  /\ pc \in {"stop", "ban"} => disk["fail2ban"] = "bootstrap"
  /\ pc \in {"again", "jail", "stop", "ban", "prepared"} => ~ufw
  /\ pc \in {"jail", "stop", "ban", "prepared"} => live["nftables"] = "bootstrap"
  /\ pc = "prepared" => live["fail2ban"] = "bootstrap"
  /\ comp = "ssh" /\ pc \in {"install", "apply", "verify"} => ~temp
  /\ comp = "ssh" /\ pc = "verify" => ~liveTemp
  /\ pc = "runtime" => SshIsFinal

IInv ==
  /\ TypeOK /\ Progress /\ Enabled /\ Administered /\ Firewalled /\ Undoable
  /\ MarkerMeansFinal /\ Remaining /\ Ready
=============================================================================
