----------------------------- MODULE RebootTest -----------------------------
(***************************************************************************)
(* qualification/discrete-pay/service-test.py and reboot-test.py: the two  *)
(* tests a fixture passes before it is installed for good.  The service    *)
(* test runs the applications in transient units, restores the fixture     *)
(* from a cold backup and exports the units; the reboot test installs the  *)
(* exported units, has the host rebooted and removes them again.  Both use *)
(* the same unit names and take no lock; either may be killed between any  *)
(* two steps, or a call in it may fail.                                    *)
(*                                                                         *)
(* The installed units are numbered in the order they are written and      *)
(* removed; the last is the target.  Probes pass while the units are up    *)
(* (what they ask the applications is not modelled), or a call fails.      *)
(***************************************************************************)
EXTENDS Naturals

CONSTANTS
  Fixtures,    \* run-* directories of the native harness
  Target,      \* number of the target among the installed units
  MaxFaults,   \* bound: kills and failing calls
  MaxBoots     \* bound: reboots

ASSUME TargetAssumption  == Target \in Nat \ {0}
ASSUME FaultsAssumption  == MaxFaults \in Nat /\ MaxBoots \in Nat
ASSUME FixtureAssumption == {"none", "mixed"} \cap Fixtures = {}

VARIABLES
  place,       \* each fixture's directory: "whole", "moved" (renamed away), "partial"
               \*   (half extracted, its handoff there or not)
  backup,      \* fixtures with a cold backup
  preserved,   \* fixtures with a .pre-restore sibling
  units,       \* who runs the payqual-paged-* units: "none", "transient", "installed"
  runsOn,      \* the fixture they work on
  exported,    \* the fixture every file in paged-boot-units names, or "mixed"
  service,     \* paged-service-evidence.json: "none" (or unreadable), "PASS", "FAIL"
  reboot,      \* paged-reboot-evidence.json: "none" (or unreadable), "PASS", "removed"
  phase,       \* phase of paged-reboot-state.json: "none" without it, "torn" half written
  handoff,     \* the fixture it names
  before,      \* the boot it records is the present one
  file,        \* the installed unit files: "absent", "partial", "whole"
  enabled,     \* the target starts at boot
  sv,          \* next step of service-test.py, "idle" if it does not run
  rb,          \* next step of reboot-test.py
  of,          \* the fixture each of them was given
  passed,      \* history: fixtures that passed the service test
  booted,      \* history: a boot brought up all installed units of the test recorded
  faults,
  boots

fixture   == <<place, backup, preserved>>
running   == <<units, runsOn>>
evidence  == <<service, reboot>>
state     == <<phase, handoff, before>>
installed == <<file, enabled>>
history   == <<passed, booted>>
programs  == <<sv, rb, of>>
rebootVars == <<fixture, running, exported, evidence, state, installed, programs, history, faults, boots>>

Units    == 1..Target
All(f)   == [u \in Units |-> f]

(* The units are created in order; a death may leave the next one cut off. *)
NextUnit(files) == {u \in Units : files[u] = "absent" /\ \A v \in 1..(u-1) : files[v] = "whole"}
CutOff(files)   == {[files EXCEPT ![u] = "partial"] : u \in NextUnit(files)}

ServiceSteps == {"look", "start", "online", "stop", "backup", "rename", "untar", "untarring", "again",
                 "export", "exporting", "halt", "halted"}
PrepareSteps == {"read", "state", "write", "up", "probe", "enable", "ready"}
VerifySteps  == {"evidence", "verified"}
CleanupSteps == {"disable", "stop", "unlink", "cleaned", "flag"}
RebootSteps  == PrepareSteps \cup VerifySteps \cup CleanupSteps
Phases == {"none", "torn", "installing", "ready-to-reboot", "verified", "cleaned"}

RebootInit ==
  /\ place = [f \in Fixtures |-> "whole"] /\ backup = {} /\ preserved = {}
  /\ units = "none" /\ runsOn = "none" /\ exported = "none"
  /\ service = "none" /\ reboot = "none"
  /\ phase = "none" /\ handoff = "none" /\ before = FALSE
  /\ file = All("absent") /\ enabled = FALSE
  /\ sv = "idle" /\ rb = "idle" /\ of = [sv |-> "none", rb |-> "none"]
  /\ passed = {} /\ booted = FALSE /\ faults = 0 /\ boots = 0

Fault == faults < MaxFaults /\ faults' = faults + 1 /\ UNCHANGED boots

SvGo(to) == sv' = to /\ of' = IF to = "idle" THEN [of EXCEPT !.sv = "none"] ELSE of
RbGo(to) == rb' = to /\ of' = IF to = "idle" THEN [of EXCEPT !.rb = "none"] ELSE of
SvAt(from, to) == sv = from /\ SvGo(to) /\ UNCHANGED <<rb, faults, boots>>
RbAt(from, to) == rb = from /\ RbGo(to) /\ UNCHANGED <<sv, faults, boots>>

RunUnits(kind, f) == units' = kind /\ runsOn' = f
StopUnits         == RunUnits("none", "none")

-----------------------------------------------------------------------------
(* service-test.py                                                         *)
Serve(f) ==
  /\ sv = "idle" /\ sv' = "look" /\ of' = [of EXCEPT !.sv = f]
  /\ place[f] # "moved"
  /\ UNCHANGED <<fixture, running, exported, evidence, state, installed, rb, history, faults, boots>>

(* None of its units may be active; before the try no evidence is written. *)
LookServe ==
  /\ SvAt("look", IF units = "none" THEN "start" ELSE "idle")
  /\ UNCHANGED <<fixture, running, exported, evidence, state, installed, history>>

(* systemd-run refuses the name of a unit that has a file, or is up; a     *)
(* half extracted fixture may lack what a role starts with.                *)
StartTransient(from, to) ==
  /\ sv = from
  /\ \/ /\ units = "none" /\ file = All("absent")
        /\ SvAt(from, to) /\ RunUnits("transient", of.sv)
     \/ /\ units # "none" \/ file # All("absent") \/ place[of.sv] = "partial"
        /\ SvAt(from, "halt") /\ UNCHANGED running
  /\ UNCHANGED <<fixture, exported, evidence, state, installed, history>>

Ours == units = "transient" /\ runsOn = of.sv

(* Payment, outage, recovery, killed worker, retry, snapshot; then stop.   *)
Online ==
  /\ SvAt("online", IF Ours THEN "stop" ELSE "halt")
  /\ UNCHANGED <<fixture, running, exported, evidence, state, installed, history>>

StopServe ==
  /\ SvAt("stop", "backup") /\ StopUnits
  /\ UNCHANGED <<fixture, exported, evidence, state, installed, history>>

(* One backup per fixture: an earlier one is never overwritten.            *)
Backup ==
  /\ IF of.sv \in backup
     THEN SvAt("backup", "halt") /\ UNCHANGED backup
     ELSE SvAt("backup", "rename") /\ backup' = backup \cup {of.sv}
  /\ UNCHANGED <<place, preserved, running, exported, evidence, state, installed, history>>

BugRenameOver ==
  /\ SvAt("rename", "untar") /\ place' = [place EXCEPT ![of.sv] = "moved"]
  /\ UNCHANGED <<backup, preserved, running, exported, evidence, state, installed, history>>

Rename ==
  /\ SvAt("rename", "untar")
  /\ place' = [place EXCEPT ![of.sv] = "moved"] /\ preserved' = preserved \cup {of.sv}
  /\ UNCHANGED <<backup, running, exported, evidence, state, installed, history>>

(* tar runs as root, so that a look for processes of payqual does not see  *)
(* it, and whoever opens the directory meanwhile finds a part.             *)
BeginUntar ==
  /\ SvAt("untar", "untarring") /\ place' = [place EXCEPT ![of.sv] = "partial"]
  /\ UNCHANGED <<backup, preserved, running, exported, evidence, state, installed, history>>

EndUntar ==
  /\ SvAt("untarring", "again") /\ place' = [place EXCEPT ![of.sv] = "whole"]
  /\ UNCHANGED <<backup, preserved, running, exported, evidence, state, installed, history>>

(* The restored fixture replays; its effective units are exported one file *)
(* after another, over those of an earlier test.  That is the last check.  *)
BeginExport ==
  /\ IF Ours THEN /\ SvAt("export", "exporting")
                  /\ exported' = IF exported = of.sv THEN exported ELSE "mixed"
             ELSE SvAt("export", "halt") /\ UNCHANGED exported
  /\ UNCHANGED <<fixture, running, evidence, state, installed, history>>

EndExport ==
  /\ IF Ours THEN /\ SvAt("exporting", "halted")
                  /\ exported' = of.sv /\ passed' = passed \cup {of.sv}
             ELSE SvAt("exporting", "halt") /\ UNCHANGED <<exported, passed>>
  /\ UNCHANGED <<fixture, running, evidence, state, installed, booted>>

(* The finally block: the units by name, whoever started them, and then    *)
(* the evidence.                                                           *)
Halt(from, result) ==
  /\ SvAt(from, "idle") /\ StopUnits /\ service' = result
  /\ UNCHANGED <<fixture, exported, reboot, state, installed, history>>

ServiceTest ==
  \/ LookServe \/ StartTransient("start", "online") \/ Online \/ StopServe \/ Backup
  \/ Rename \/ BeginUntar \/ EndUntar \/ StartTransient("again", "export")
  \/ BeginExport \/ EndExport
  \/ Halt("halt", "FAIL") \/ Halt("halted", "PASS")

-----------------------------------------------------------------------------
(* reboot-test.py prepare                                                  *)
MayPrepare == phase = "none" /\ service = "PASS"

Prepare(f) ==
  /\ MayPrepare /\ rb = "idle" /\ rb' = "read" /\ of' = [of EXCEPT !.rb = f]
  /\ UNCHANGED <<fixture, running, exported, evidence, state, installed, sv, history, faults, boots>>

BugReadUnits ==
  /\ RbAt("read", IF exported # "none" /\ units = "none" /\ file = All("absent")
                  THEN "state" ELSE "idle")
  /\ UNCHANGED <<fixture, running, exported, evidence, state, installed, history>>

(* The exported units name this handoff, and none is there or active.      *)
ReadUnits ==
  /\ RbAt("read", IF exported = of.rb /\ units = "none" /\ file = All("absent")
                  THEN "state" ELSE "idle")
  /\ UNCHANGED <<fixture, running, exported, evidence, state, installed, history>>

SaveState ==
  /\ RbAt("state", "write")
  /\ phase' = "installing" /\ handoff' = of.rb /\ before' = TRUE /\ booted' = FALSE
  /\ UNCHANGED <<fixture, running, exported, evidence, installed, passed>>

(* The units one after another, the target last; 'xb' never overwrites.    *)
WriteUnit ==
  /\ \E u \in NextUnit(file) :
       /\ RbAt("write", IF u = Target THEN "up" ELSE "write")
       /\ file' = [file EXCEPT ![u] = "whole"]
  /\ UNCHANGED <<fixture, running, exported, evidence, state, enabled, history>>

StartInstalled ==
  /\ RbAt("up", "probe") /\ RunUnits("installed", handoff)
  /\ UNCHANGED <<fixture, exported, evidence, state, installed, history>>

ProbeInstalled ==
  /\ RbAt("probe", IF units = "installed" THEN "enable" ELSE "idle")
  /\ UNCHANGED <<fixture, running, exported, evidence, state, installed, history>>

Enable ==
  /\ RbAt("enable", "ready") /\ enabled' = TRUE
  /\ UNCHANGED <<fixture, running, exported, evidence, state, file, history>>

Ready ==
  /\ RbAt("ready", "idle") /\ phase' = "ready-to-reboot"
  /\ UNCHANGED <<fixture, running, exported, evidence, handoff, before, installed, history>>

-----------------------------------------------------------------------------
(* reboot-test.py verify and cleanup                                       *)
BugVerifiable == phase = "ready-to-reboot" /\ file = All("whole") /\ units = "installed"

(* Another boot than the one prepare recorded, every unit unchanged and    *)
(* active; then the probes.                                                *)
Verifiable ==
  phase = "ready-to-reboot" /\ ~before /\ file = All("whole") /\ units = "installed"

Verify ==
  /\ Verifiable /\ RbAt("idle", "evidence")
  /\ UNCHANGED <<fixture, running, exported, evidence, state, installed, history>>

SaveEvidence ==
  /\ RbAt("evidence", "verified") /\ reboot' = "PASS"
  /\ UNCHANGED <<fixture, running, exported, service, state, installed, history>>

Verified ==
  /\ RbAt("verified", "idle") /\ phase' = "verified"
  /\ UNCHANGED <<fixture, running, exported, evidence, handoff, before, installed, history>>

Cleanup ==
  /\ phase \in {"installing", "ready-to-reboot", "verified"}
  /\ \A u \in Units : file[u] # "partial"
  /\ RbAt("idle", "disable")
  /\ UNCHANGED <<fixture, running, exported, evidence, state, installed, history>>

StopIfInstalled == IF units = "installed" THEN StopUnits ELSE UNCHANGED running

BugDisable ==
  /\ RbAt("disable", "stop") /\ StopIfInstalled
  /\ UNCHANGED <<fixture, exported, evidence, state, installed, history>>

(* disable --now fails without the target's file, stop without a unit's.   *)
Disable ==
  /\ IF file[Target] = "whole"
     THEN RbAt("disable", "stop") /\ enabled' = FALSE /\ StopIfInstalled
     ELSE RbAt("disable", "idle") /\ UNCHANGED <<enabled, running>>
  /\ UNCHANGED <<fixture, exported, evidence, state, file, history>>

StopInstalled ==
  /\ IF file = All("whole") THEN RbAt("stop", "unlink") /\ StopUnits
                            ELSE RbAt("stop", "idle") /\ UNCHANGED running
  /\ UNCHANGED <<fixture, exported, evidence, state, installed, history>>

Unlink ==
  /\ \E u \in Units :
       /\ file[u] = "whole" /\ \A v \in Units : v < u => file[v] = "absent"
       /\ RbAt("unlink", IF u = Target THEN "cleaned" ELSE "unlink")
       /\ file' = [file EXCEPT ![u] = "absent"]
  /\ UNCHANGED <<fixture, running, exported, evidence, state, enabled, history>>

Cleaned ==
  /\ RbAt("cleaned", IF reboot = "none" THEN "idle" ELSE "flag") /\ phase' = "cleaned"
  /\ UNCHANGED <<fixture, running, exported, evidence, handoff, before, installed, history>>

Flag ==
  /\ RbAt("flag", "idle") /\ reboot' = "removed"
  /\ UNCHANGED <<fixture, running, exported, service, state, installed, history>>

RebootStep ==
  \/ ReadUnits \/ SaveState \/ WriteUnit \/ StartInstalled \/ ProbeInstalled
  \/ Enable \/ Ready \/ SaveEvidence \/ Verified
  \/ Disable \/ StopInstalled \/ Unlink \/ Cleaned \/ Flag

-----------------------------------------------------------------------------
(* What goes wrong                                                         *)

(* A backup cut short is there nevertheless.                               *)
CutBackup == backup' \in {backup, IF sv = "backup" THEN backup \cup {of.sv} ELSE backup}

(* A failing call in the try still reaches the finally block.              *)
ServiceFails ==
  /\ sv \in ServiceSteps \ {"look", "halt", "halted"} /\ Fault /\ sv' = "halt"
  /\ CutBackup
  /\ UNCHANGED <<place, preserved, running, exported, evidence, state, installed, rb, of, history>>

(* Killed; transient units stay, an extraction or a result may be half     *)
(* written.                                                                *)
KillService ==
  /\ sv # "idle" /\ Fault /\ SvGo("idle")
  /\ CutBackup
  /\ service' \in {service, IF sv \in {"halt", "halted"} THEN "none" ELSE service}
  /\ UNCHANGED <<place, preserved, running, exported, reboot, state, installed, rb, history>>

(* Killed, or a call failed; what it was writing may be left half written. *)
KillReboot ==
  /\ rb # "idle" /\ Fault /\ RbGo("idle")
  /\ phase' \in {phase} \cup (IF rb \in {"state", "ready", "verified", "cleaned"} THEN {"torn"} ELSE {})
  /\ reboot' \in {reboot, IF rb \in {"evidence", "flag"} THEN "none" ELSE reboot}
  /\ file' \in {file} \cup (IF rb = "write" THEN CutOff(file) ELSE {})
  /\ UNCHANGED <<fixture, running, exported, service, handoff, before, enabled, sv, history>>

(* An enabled target with all its units whole brings them up.              *)
Reboots ==
  /\ boots < MaxBoots /\ boots' = boots + 1
  /\ sv' = "idle" /\ rb' = "idle" /\ of' = [sv |-> "none", rb |-> "none"]
  /\ before' = FALSE
  /\ IF enabled /\ file = All("whole")
     THEN RunUnits("installed", handoff) /\ booted' = TRUE
     ELSE StopUnits /\ UNCHANGED booted
  /\ UNCHANGED <<fixture, exported, evidence, phase, handoff, installed, passed, faults>>

TestNext ==
  \/ \E f \in Fixtures : Serve(f) \/ Prepare(f)
  \/ Verify \/ Cleanup \/ ServiceTest \/ RebootStep
  \/ ServiceFails \/ KillService \/ KillReboot

RebootNext == TestNext \/ Reboots

RebootSpec == RebootInit /\ [][RebootNext]_rebootVars

-----------------------------------------------------------------------------
(* Every variable in its range; a reboot test that is recorded names its   *)
(* handoff.                                                                *)
RebootTypeOK ==
  /\ place \in [Fixtures -> {"whole", "moved", "partial"}]
  /\ backup \subseteq Fixtures /\ preserved \subseteq Fixtures /\ passed \subseteq Fixtures
  /\ units \in {"none", "transient", "installed"} /\ runsOn \in Fixtures \cup {"none"}
  /\ exported \in Fixtures \cup {"none", "mixed"} /\ service \in {"none", "PASS", "FAIL"}
  /\ reboot \in {"none", "PASS", "removed"} /\ phase \in Phases
  /\ handoff \in Fixtures \cup (IF phase \in {"none", "torn"} THEN {"none"} ELSE {})
  /\ before \in BOOLEAN /\ enabled \in BOOLEAN /\ booted \in BOOLEAN
  /\ file \in [Units -> {"absent", "partial", "whole"}]
  /\ sv \in ServiceSteps \cup {"idle"} /\ rb \in RebootSteps \cup {"idle"}
  /\ of \in [sv : Fixtures \cup {"none"}, rb : Fixtures \cup {"none"}]
  /\ faults \in 0..MaxFaults /\ boots \in 0..MaxBoots

(* The reboot test is of a fixture that passed the service test, although  *)
(* evidence, exported units and handoff are three files read at different  *)
(* times, while another service test may be writing two of them.           *)
RebootTestsQualified == phase \notin {"none", "torn"} => handoff \in passed

(* "all exact units automatically active after actual reboot": there is    *)
(* evidence only if a boot, and not prepare, brought the units up.         *)
EvidenceIsOfABoot == reboot # "none" => booted

(* "Cleanup ... removes only its own test units": once it has recorded so, *)
(* no unit file, boot enablement or process of them is left.               *)
CleanedLeavesNothing ==
  phase = "cleaned" => file = All("absent") /\ ~enabled /\ units # "installed"

(* "The pre-restore original is retained": at every step of the restore a  *)
(* complete fixture and what it is restored from are on the disk.          *)
OriginalRetained ==
  \A f \in Fixtures : place[f] = "whole" \/ f \in backup \cap preserved

(* Something of the installed units is on the host.                        *)
Left == file # All("absent") \/ enabled \/ units = "installed"

Qualification == INSTANCE BootQualification WITH
  tested <- passed, named <- handoff, stage <- phase, started <- booted, shown <- reboot,
  left <- Left

(* The record of a reboot test and its evidence mean what BootQualification *)
(* says, through kills at any step, torn files, reboots at the wrong time  *)
(* and service tests of other fixtures beside it.                          *)
ImplementsBootQualification == Qualification!Spec
=============================================================================
