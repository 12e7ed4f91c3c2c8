-------------------------- MODULE RebootTestProofs --------------------------
(***************************************************************************)
(* The safety properties of RebootTest, for any number of fixtures, units, *)
(* faults and boots.  The inductive invariant says which phase and handoff *)
(* the state file has at each step of the reboot test, and what the        *)
(* service test has secured at each step of the restore.                   *)
(***************************************************************************)
EXTENDS RebootTest, TLAPS

(* Where the reboot test is, its state file says so; a step that works on   *)
(* a fixture has been given one.                                            *)
Placed ==
  /\ sv # "idle" => of.sv \in Fixtures
  /\ rb \in PrepareSteps => of.rb \in Fixtures
  /\ rb \in {"read", "state"} => phase = "none"
  /\ rb \in {"write", "up", "probe", "enable", "ready"} => phase = "installing"
  /\ rb \in {"evidence", "verified"} => phase = "ready-to-reboot"
  /\ rb \in {"disable", "stop", "unlink", "cleaned"} =>
       phase \in {"installing", "ready-to-reboot", "verified"}
  /\ rb = "flag" => phase = "cleaned"

(* Exported units that name one fixture are those of a passed test.         *)
Qualifies ==
  /\ exported \in Fixtures => exported \in passed
  /\ rb = "state" => of.rb \in passed
  /\ phase \notin {"none", "torn"} => handoff \in passed

(* Units that run in another boot than the one recorded came up with it.    *)
Boots ==
  /\ rb \in {"write", "up", "probe", "enable", "ready"} => before
  /\ units = "installed" /\ ~before => booted
  /\ phase = "none" => reboot = "none"
  /\ rb \in {"evidence", "verified"} => booted
  /\ rb = "flag" => reboot # "none"
  /\ reboot # "none" => booted

(* What the removal has removed.                                            *)
Removal ==
  /\ rb \in {"stop", "unlink", "cleaned"} => ~enabled
  /\ rb \in {"unlink", "cleaned"} => units # "installed"
  /\ rb = "cleaned" => file = All("absent")
  /\ CleanedLeavesNothing

(* What the restore has secured before it takes the original away.          *)
Secured ==
  /\ sv = "rename" => of.sv \in backup
  /\ sv \in {"untar", "untarring"} => of.sv \in backup \cap preserved
  /\ OriginalRetained

(* A fixture is taken away and restored once, before it passes: its backup  *)
(* is there from then on, and is in the way of another restore.             *)
Kept ==
  /\ \A f \in passed : place[f] = "whole" /\ f \in backup
  /\ sv \in {"rename", "untar", "untarring"} => of.sv \notin passed
  /\ sv \in {"again", "export", "exporting"} => place[of.sv] = "whole" /\ of.sv \in backup

(* Units come to the host after the record, and the record goes forward     *)
(* after what it says.                                                      *)
OnRecord ==
  /\ phase = "none" => ~Left
  /\ rb = "ready" => enabled
  /\ rb = "verified" => reboot = "PASS"

TestIInv == RebootTypeOK /\ Placed /\ Qualifies /\ Boots /\ Removal /\ Secured /\ Kept /\ OnRecord

(* Every variable keeps its type. *)
LEMMA TestStepTyped ==
  ASSUME TestIInv, [RebootNext]_rebootVars
  PROVE  RebootTypeOK'
<1> USE TargetAssumption, FaultsAssumption DEF TestIInv, RebootTypeOK, Placed, Phases, ServiceSteps, PrepareSteps, VerifySteps, CleanupSteps, RebootSteps, fixture, running, evidence, state, installed, history, programs, SvGo, RbGo, SvAt, RbAt, RunUnits, StopUnits
<1>1. CASE \E f \in Fixtures : Serve(f) \/ Prepare(f)
  BY <1>1 DEF Serve, Prepare, MayPrepare
<1>2. CASE ServiceTest
  <2>1. CASE LookServe
    BY <2>1 DEF LookServe
  <2>2. CASE StartTransient("start", "online")
    BY <2>2 DEF StartTransient
  <2>3. CASE Online
    BY <2>3 DEF Online, Ours
  <2>4. CASE StopServe
    BY <2>4 DEF StopServe
  <2>5. CASE Backup
    BY <2>5 DEF Backup
  <2>6. CASE Rename
    BY <2>6 DEF Rename
  <2>7. CASE BeginUntar \/ EndUntar
    BY <2>7 DEF BeginUntar, EndUntar
  <2>8. CASE StartTransient("again", "export")
    BY <2>8 DEF StartTransient
  <2>9. CASE BeginExport
    BY <2>9 DEF BeginExport, Ours
  <2>10. CASE EndExport
    BY <2>10 DEF EndExport, Ours
  <2>11. CASE Halt("halt", "FAIL")
    BY <2>11 DEF Halt
  <2>12. CASE Halt("halted", "PASS")
    BY <2>12 DEF Halt
  <2> QED BY <1>2, <2>1, <2>2, <2>3, <2>4, <2>5, <2>6, <2>7, <2>8, <2>9, <2>10, <2>11, <2>12 DEF ServiceTest
<1>3. CASE RebootStep
  <2>1. CASE ReadUnits
    BY <2>1 DEF ReadUnits
  <2>2. CASE SaveState
    <3>1. place' \in [Fixtures -> {"whole", "moved", "partial"}] /\ backup' \subseteq Fixtures /\ preserved' \subseteq Fixtures /\ passed' \subseteq Fixtures
      BY <2>2 DEF SaveState
    <3>2. units' \in {"none", "transient", "installed"} /\ runsOn' \in Fixtures \cup {"none"}
      BY <2>2 DEF SaveState
    <3>3. exported' \in Fixtures \cup {"none", "mixed"} /\ service' \in {"none", "PASS", "FAIL"} /\ reboot' \in {"none", "PASS", "removed"}
      BY <2>2 DEF SaveState
    <3>4. phase' \in Phases /\ handoff' \in Fixtures \cup (IF phase' \in {"none", "torn"} THEN {"none"} ELSE {})
      BY <2>2 DEF SaveState
    <3>5. before' \in BOOLEAN /\ enabled' \in BOOLEAN /\ booted' \in BOOLEAN
      BY <2>2 DEF SaveState
    <3>6. file' \in [Units -> {"absent", "partial", "whole"}]
      BY <2>2 DEF SaveState
    <3>7. sv' \in ServiceSteps \cup {"idle"} /\ rb' \in RebootSteps \cup {"idle"}
      BY <2>2 DEF SaveState
    <3>8. of' \in [sv : Fixtures \cup {"none"}, rb : Fixtures \cup {"none"}]
      BY <2>2 DEF SaveState
    <3>9. faults' \in 0..MaxFaults /\ boots' \in 0..MaxBoots
      BY <2>2 DEF SaveState
    <3> QED BY <3>1, <3>2, <3>3, <3>4, <3>5, <3>6, <3>7, <3>8, <3>9
  <2>3. CASE WriteUnit
    BY <2>3 DEF WriteUnit, NextUnit
  <2>4. CASE StartInstalled
    BY <2>4 DEF StartInstalled
  <2>5. CASE ProbeInstalled
    BY <2>5 DEF ProbeInstalled
  <2>6. CASE Enable
    BY <2>6 DEF Enable
  <2>7. CASE Ready
    BY <2>7 DEF Ready
  <2>8. CASE SaveEvidence
    BY <2>8 DEF SaveEvidence
  <2>9. CASE Verified
    BY <2>9 DEF Verified
  <2>10. CASE Disable
    <3>1. place' \in [Fixtures -> {"whole", "moved", "partial"}] /\ backup' \subseteq Fixtures /\ preserved' \subseteq Fixtures /\ passed' \subseteq Fixtures
      BY <2>10 DEF Disable, StopIfInstalled
    <3>2. units' \in {"none", "transient", "installed"} /\ runsOn' \in Fixtures \cup {"none"}
      BY <2>10 DEF Disable, StopIfInstalled
    <3>3. exported' \in Fixtures \cup {"none", "mixed"} /\ service' \in {"none", "PASS", "FAIL"} /\ reboot' \in {"none", "PASS", "removed"}
      BY <2>10 DEF Disable, StopIfInstalled
    <3>4. phase' \in Phases /\ handoff' \in Fixtures \cup (IF phase' \in {"none", "torn"} THEN {"none"} ELSE {})
      BY <2>10 DEF Disable, StopIfInstalled
    <3>5. before' \in BOOLEAN /\ enabled' \in BOOLEAN /\ booted' \in BOOLEAN
      BY <2>10 DEF Disable, StopIfInstalled
    <3>6. file' \in [Units -> {"absent", "partial", "whole"}]
      BY <2>10 DEF Disable, StopIfInstalled
    <3>7. sv' \in ServiceSteps \cup {"idle"} /\ rb' \in RebootSteps \cup {"idle"}
      BY <2>10 DEF Disable, StopIfInstalled
    <3>8. of' \in [sv : Fixtures \cup {"none"}, rb : Fixtures \cup {"none"}]
      BY <2>10 DEF Disable, StopIfInstalled
    <3>9. faults' \in 0..MaxFaults /\ boots' \in 0..MaxBoots
      BY <2>10 DEF Disable, StopIfInstalled
    <3> QED BY <3>1, <3>2, <3>3, <3>4, <3>5, <3>6, <3>7, <3>8, <3>9
  <2>11. CASE StopInstalled
    BY <2>11 DEF StopInstalled
  <2>12. CASE Unlink
    BY <2>12 DEF Unlink
  <2>13. CASE Cleaned
    BY <2>13 DEF Cleaned
  <2>14. CASE Flag
    BY <2>14 DEF Flag
  <2> QED BY <1>3, <2>1, <2>2, <2>3, <2>4, <2>5, <2>6, <2>7, <2>8, <2>9, <2>10, <2>11, <2>12, <2>13, <2>14 DEF RebootStep
<1>4. CASE Verify
  BY <1>4 DEF Verify, Verifiable
<1>5. CASE Cleanup
  BY <1>5 DEF Cleanup
<1>6. CASE ServiceFails
  BY <1>6 DEF ServiceFails, CutBackup, Fault
<1>7. CASE KillService
  BY <1>7 DEF KillService, CutBackup, Fault
<1>8. CASE KillReboot
  BY <1>8 DEF KillReboot, Fault, NextUnit, CutOff
<1>9. CASE Reboots
  <2>1. place' \in [Fixtures -> {"whole", "moved", "partial"}] /\ backup' \subseteq Fixtures /\ preserved' \subseteq Fixtures /\ passed' \subseteq Fixtures
    BY <1>9 DEF Reboots
  <2>2. units' \in {"none", "transient", "installed"} /\ runsOn' \in Fixtures \cup {"none"}
    BY <1>9 DEF Reboots
  <2>3. exported' \in Fixtures \cup {"none", "mixed"} /\ service' \in {"none", "PASS", "FAIL"} /\ reboot' \in {"none", "PASS", "removed"}
    BY <1>9 DEF Reboots
  <2>4. phase' \in Phases /\ handoff' \in Fixtures \cup (IF phase' \in {"none", "torn"} THEN {"none"} ELSE {})
    BY <1>9 DEF Reboots
  <2>5. before' \in BOOLEAN /\ enabled' \in BOOLEAN /\ booted' \in BOOLEAN
    BY <1>9 DEF Reboots
  <2>6. file' \in [Units -> {"absent", "partial", "whole"}]
    BY <1>9 DEF Reboots
  <2>7. sv' \in ServiceSteps \cup {"idle"} /\ rb' \in RebootSteps \cup {"idle"}
    BY <1>9 DEF Reboots
  <2>8. of' \in [sv : Fixtures \cup {"none"}, rb : Fixtures \cup {"none"}]
    BY <1>9 DEF Reboots
  <2>9. faults' \in 0..MaxFaults /\ boots' \in 0..MaxBoots
    BY <1>9 DEF Reboots
  <2> QED BY <2>1, <2>2, <2>3, <2>4, <2>5, <2>6, <2>7, <2>8, <2>9
<1>10. CASE UNCHANGED rebootVars
  BY <1>10 DEF rebootVars
<1> QED
  BY <1>1, <1>2, <1>3, <1>4, <1>5, <1>6, <1>7, <1>8, <1>9, <1>10 DEF RebootNext, TestNext

(* The state file follows the reboot test. *)
LEMMA TestStepPlaced ==
  ASSUME TestIInv, [RebootNext]_rebootVars
  PROVE  Placed'
<1> USE DEF TestIInv, RebootTypeOK, Placed, Phases, PrepareSteps, fixture, running, evidence, state, installed, history, programs, SvGo, RbGo, SvAt, RbAt, RunUnits, StopUnits
<1>1. CASE \E f \in Fixtures : Serve(f) \/ Prepare(f)
  BY <1>1 DEF Serve, Prepare, MayPrepare
<1>2. CASE ServiceTest
  <2>1. CASE LookServe
    BY <2>1 DEF LookServe
  <2>2. CASE StartTransient("start", "online")
    BY <2>2 DEF StartTransient
  <2>3. CASE Online
    BY <2>3 DEF Online, Ours
  <2>4. CASE StopServe
    BY <2>4 DEF StopServe
  <2>5. CASE Backup
    BY <2>5 DEF Backup
  <2>6. CASE Rename
    BY <2>6 DEF Rename
  <2>7. CASE BeginUntar \/ EndUntar
    BY <2>7 DEF BeginUntar, EndUntar
  <2>8. CASE StartTransient("again", "export")
    BY <2>8 DEF StartTransient
  <2>9. CASE BeginExport
    BY <2>9 DEF BeginExport, Ours
  <2>10. CASE EndExport
    BY <2>10 DEF EndExport, Ours
  <2>11. CASE Halt("halt", "FAIL")
    BY <2>11 DEF Halt
  <2>12. CASE Halt("halted", "PASS")
    BY <2>12 DEF Halt
  <2> QED BY <1>2, <2>1, <2>2, <2>3, <2>4, <2>5, <2>6, <2>7, <2>8, <2>9, <2>10, <2>11, <2>12 DEF ServiceTest
<1>3. CASE RebootStep
  <2>1. CASE ReadUnits
    BY <2>1 DEF ReadUnits
  <2>2. CASE SaveState
    BY <2>2 DEF SaveState
  <2>3. CASE WriteUnit
    BY <2>3 DEF WriteUnit, NextUnit
  <2>4. CASE StartInstalled
    BY <2>4 DEF StartInstalled
  <2>5. CASE ProbeInstalled
    BY <2>5 DEF ProbeInstalled
  <2>6. CASE Enable
    BY <2>6 DEF Enable
  <2>7. CASE Ready
    BY <2>7 DEF Ready
  <2>8. CASE SaveEvidence
    BY <2>8 DEF SaveEvidence
  <2>9. CASE Verified
    BY <2>9 DEF Verified
  <2>10. CASE Disable
    BY <2>10 DEF Disable, StopIfInstalled
  <2>11. CASE StopInstalled
    BY <2>11 DEF StopInstalled
  <2>12. CASE Unlink
    BY <2>12 DEF Unlink
  <2>13. CASE Cleaned
    BY <2>13 DEF Cleaned
  <2>14. CASE Flag
    BY <2>14 DEF Flag
  <2> QED BY <1>3, <2>1, <2>2, <2>3, <2>4, <2>5, <2>6, <2>7, <2>8, <2>9, <2>10, <2>11, <2>12, <2>13, <2>14 DEF RebootStep
<1>4. CASE Verify
  BY <1>4 DEF Verify, Verifiable
<1>5. CASE Cleanup
  BY <1>5 DEF Cleanup
<1>6. CASE ServiceFails
  <2>1. of.sv \in Fixtures /\ of' = of
    BY <1>6 DEF ServiceFails, ServiceSteps
  <2>2. rb' = rb /\ phase' = phase
    BY <1>6 DEF ServiceFails
  <2> QED BY <2>1, <2>2
<1>7. CASE KillService
  BY <1>7 DEF KillService, CutBackup, Fault
<1>8. CASE KillReboot
  BY <1>8 DEF KillReboot, Fault, NextUnit, CutOff
<1>9. CASE Reboots
  BY <1>9 DEF Reboots
<1>10. CASE UNCHANGED rebootVars
  BY <1>10 DEF rebootVars
<1> QED
  BY <1>1, <1>2, <1>3, <1>4, <1>5, <1>6, <1>7, <1>8, <1>9, <1>10 DEF RebootNext, TestNext

(* Only a fixture that passed is prepared. *)
LEMMA TestStepQualifies ==
  ASSUME TestIInv, [RebootNext]_rebootVars
  PROVE  Qualifies'
<1> USE FixtureAssumption DEF TestIInv, RebootTypeOK, Placed, Qualifies, PrepareSteps, fixture, running, evidence, state, installed, history, programs, SvGo, RbGo, SvAt, RbAt, RunUnits, StopUnits
<1>1. CASE \E f \in Fixtures : Serve(f) \/ Prepare(f)
  BY <1>1 DEF Serve, Prepare, MayPrepare
<1>2. CASE ServiceTest
  <2>1. CASE LookServe
    BY <2>1 DEF LookServe
  <2>2. CASE StartTransient("start", "online")
    BY <2>2 DEF StartTransient
  <2>3. CASE Online
    BY <2>3 DEF Online, Ours
  <2>4. CASE StopServe
    BY <2>4 DEF StopServe
  <2>5. CASE Backup
    BY <2>5 DEF Backup
  <2>6. CASE Rename
    BY <2>6 DEF Rename
  <2>7. CASE BeginUntar \/ EndUntar
    BY <2>7 DEF BeginUntar, EndUntar
  <2>8. CASE StartTransient("again", "export")
    BY <2>8 DEF StartTransient
  <2>9. CASE BeginExport
    BY <2>9 DEF BeginExport, Ours
  <2>10. CASE EndExport
    BY <2>10 DEF EndExport, Ours
  <2>11. CASE Halt("halt", "FAIL")
    BY <2>11 DEF Halt
  <2>12. CASE Halt("halted", "PASS")
    BY <2>12 DEF Halt
  <2> QED BY <1>2, <2>1, <2>2, <2>3, <2>4, <2>5, <2>6, <2>7, <2>8, <2>9, <2>10, <2>11, <2>12 DEF ServiceTest
<1>3. CASE RebootStep
  <2>1. CASE ReadUnits
    BY <2>1 DEF ReadUnits
  <2>2. CASE SaveState
    BY <2>2 DEF SaveState
  <2>3. CASE WriteUnit
    BY <2>3 DEF WriteUnit, NextUnit
  <2>4. CASE StartInstalled
    BY <2>4 DEF StartInstalled
  <2>5. CASE ProbeInstalled
    BY <2>5 DEF ProbeInstalled
  <2>6. CASE Enable
    BY <2>6 DEF Enable
  <2>7. CASE Ready
    BY <2>7 DEF Ready
  <2>8. CASE SaveEvidence
    BY <2>8 DEF SaveEvidence
  <2>9. CASE Verified
    BY <2>9 DEF Verified
  <2>10. CASE Disable
    BY <2>10 DEF Disable, StopIfInstalled
  <2>11. CASE StopInstalled
    BY <2>11 DEF StopInstalled
  <2>12. CASE Unlink
    BY <2>12 DEF Unlink
  <2>13. CASE Cleaned
    BY <2>13 DEF Cleaned
  <2>14. CASE Flag
    BY <2>14 DEF Flag
  <2> QED BY <1>3, <2>1, <2>2, <2>3, <2>4, <2>5, <2>6, <2>7, <2>8, <2>9, <2>10, <2>11, <2>12, <2>13, <2>14 DEF RebootStep
<1>4. CASE Verify
  BY <1>4 DEF Verify, Verifiable
<1>5. CASE Cleanup
  BY <1>5 DEF Cleanup
<1>6. CASE ServiceFails
  BY <1>6 DEF ServiceFails, CutBackup, Fault
<1>7. CASE KillService
  BY <1>7 DEF KillService, CutBackup, Fault
<1>8. CASE KillReboot
  BY <1>8 DEF KillReboot, Fault, NextUnit, CutOff
<1>9. CASE Reboots
  BY <1>9 DEF Reboots
<1>10. CASE UNCHANGED rebootVars
  BY <1>10 DEF rebootVars
<1> QED
  BY <1>1, <1>2, <1>3, <1>4, <1>5, <1>6, <1>7, <1>8, <1>9, <1>10 DEF RebootNext, TestNext

(* Evidence follows a boot. *)
LEMMA TestStepBoots ==
  ASSUME TestIInv, [RebootNext]_rebootVars
  PROVE  Boots'
<1> USE DEF TestIInv, RebootTypeOK, Placed, Boots, fixture, running, evidence, state, installed, history, programs, SvGo, RbGo, SvAt, RbAt, RunUnits, StopUnits
<1>1. CASE \E f \in Fixtures : Serve(f) \/ Prepare(f)
  BY <1>1 DEF Serve, Prepare, MayPrepare
<1>2. CASE ServiceTest
  <2>1. CASE LookServe
    BY <2>1 DEF LookServe
  <2>2. CASE StartTransient("start", "online")
    BY <2>2 DEF StartTransient
  <2>3. CASE Online
    BY <2>3 DEF Online, Ours
  <2>4. CASE StopServe
    BY <2>4 DEF StopServe
  <2>5. CASE Backup
    BY <2>5 DEF Backup
  <2>6. CASE Rename
    BY <2>6 DEF Rename
  <2>7. CASE BeginUntar \/ EndUntar
    BY <2>7 DEF BeginUntar, EndUntar
  <2>8. CASE StartTransient("again", "export")
    BY <2>8 DEF StartTransient
  <2>9. CASE BeginExport
    BY <2>9 DEF BeginExport, Ours
  <2>10. CASE EndExport
    BY <2>10 DEF EndExport, Ours
  <2>11. CASE Halt("halt", "FAIL")
    BY <2>11 DEF Halt
  <2>12. CASE Halt("halted", "PASS")
    BY <2>12 DEF Halt
  <2> QED BY <1>2, <2>1, <2>2, <2>3, <2>4, <2>5, <2>6, <2>7, <2>8, <2>9, <2>10, <2>11, <2>12 DEF ServiceTest
<1>3. CASE RebootStep
  <2>1. CASE ReadUnits
    BY <2>1 DEF ReadUnits
  <2>2. CASE SaveState
    BY <2>2 DEF SaveState
  <2>3. CASE WriteUnit
    BY <2>3 DEF WriteUnit, NextUnit
  <2>4. CASE StartInstalled
    BY <2>4 DEF StartInstalled
  <2>5. CASE ProbeInstalled
    BY <2>5 DEF ProbeInstalled
  <2>6. CASE Enable
    BY <2>6 DEF Enable
  <2>7. CASE Ready
    BY <2>7 DEF Ready
  <2>8. CASE SaveEvidence
    BY <2>8 DEF SaveEvidence
  <2>9. CASE Verified
    BY <2>9 DEF Verified
  <2>10. CASE Disable
    BY <2>10 DEF Disable, StopIfInstalled
  <2>11. CASE StopInstalled
    BY <2>11 DEF StopInstalled
  <2>12. CASE Unlink
    BY <2>12 DEF Unlink
  <2>13. CASE Cleaned
    BY <2>13 DEF Cleaned
  <2>14. CASE Flag
    BY <2>14 DEF Flag
  <2> QED BY <1>3, <2>1, <2>2, <2>3, <2>4, <2>5, <2>6, <2>7, <2>8, <2>9, <2>10, <2>11, <2>12, <2>13, <2>14 DEF RebootStep
<1>4. CASE Verify
  BY <1>4 DEF Verify, Verifiable
<1>5. CASE Cleanup
  BY <1>5 DEF Cleanup
<1>6. CASE ServiceFails
  BY <1>6 DEF ServiceFails, CutBackup, Fault
<1>7. CASE KillService
  BY <1>7 DEF KillService, CutBackup, Fault
<1>8. CASE KillReboot
  BY <1>8 DEF KillReboot, Fault, NextUnit, CutOff
<1>9. CASE Reboots
  BY <1>9 DEF Reboots
<1>10. CASE UNCHANGED rebootVars
  BY <1>10 DEF rebootVars
<1> QED
  BY <1>1, <1>2, <1>3, <1>4, <1>5, <1>6, <1>7, <1>8, <1>9, <1>10 DEF RebootNext, TestNext

(* The removal goes on to its end, and nothing comes back. *)
LEMMA TestStepRemoval ==
  ASSUME TestIInv, [RebootNext]_rebootVars
  PROVE  Removal'
<1> USE TargetAssumption DEF TestIInv, RebootTypeOK, Placed, Removal, CleanedLeavesNothing, All, Units, fixture, running, evidence, state, installed, history, programs, SvGo, RbGo, SvAt, RbAt, RunUnits, StopUnits
<1>1. CASE \E f \in Fixtures : Serve(f) \/ Prepare(f)
  BY <1>1 DEF Serve, Prepare, MayPrepare
<1>2. CASE ServiceTest
  <2>1. CASE LookServe
    BY <2>1 DEF LookServe
  <2>2. CASE StartTransient("start", "online")
    BY <2>2 DEF StartTransient
  <2>3. CASE Online
    BY <2>3 DEF Online, Ours
  <2>4. CASE StopServe
    BY <2>4 DEF StopServe
  <2>5. CASE Backup
    BY <2>5 DEF Backup
  <2>6. CASE Rename
    BY <2>6 DEF Rename
  <2>7. CASE BeginUntar \/ EndUntar
    BY <2>7 DEF BeginUntar, EndUntar
  <2>8. CASE StartTransient("again", "export")
    BY <2>8 DEF StartTransient
  <2>9. CASE BeginExport
    BY <2>9 DEF BeginExport, Ours
  <2>10. CASE EndExport
    BY <2>10 DEF EndExport, Ours
  <2>11. CASE Halt("halt", "FAIL")
    BY <2>11 DEF Halt
  <2>12. CASE Halt("halted", "PASS")
    BY <2>12 DEF Halt
  <2> QED BY <1>2, <2>1, <2>2, <2>3, <2>4, <2>5, <2>6, <2>7, <2>8, <2>9, <2>10, <2>11, <2>12 DEF ServiceTest
<1>3. CASE RebootStep
  <2>1. CASE ReadUnits
    BY <2>1 DEF ReadUnits
  <2>2. CASE SaveState
    BY <2>2 DEF SaveState
  <2>3. CASE WriteUnit
    BY <2>3 DEF WriteUnit, NextUnit
  <2>4. CASE StartInstalled
    BY <2>4 DEF StartInstalled
  <2>5. CASE ProbeInstalled
    BY <2>5 DEF ProbeInstalled
  <2>6. CASE Enable
    BY <2>6 DEF Enable
  <2>7. CASE Ready
    BY <2>7 DEF Ready
  <2>8. CASE SaveEvidence
    BY <2>8 DEF SaveEvidence
  <2>9. CASE Verified
    BY <2>9 DEF Verified
  <2>10. CASE Disable
    BY <2>10 DEF Disable, StopIfInstalled
  <2>11. CASE StopInstalled
    BY <2>11 DEF StopInstalled
  <2>12. CASE Unlink
    <3>1. rb = "unlink" /\ rb' \in {"unlink", "cleaned"} /\ phase # "cleaned" /\ phase' = phase
      BY <2>12 DEF Unlink
    <3>2. ~enabled' /\ units' # "installed"
      BY <2>12 DEF Unlink
    <3>3. ASSUME rb' = "cleaned" PROVE \A v \in Units : file'[v] = "absent"
      BY <2>12, <3>3 DEF Unlink
    <3>4. ASSUME rb' = "cleaned" PROVE file' = All("absent")
      BY <2>12, <3>3, <3>4 DEF Unlink
    <3> QED BY <3>1, <3>2, <3>3, <3>4
  <2>13. CASE Cleaned
    BY <2>13 DEF Cleaned
  <2>14. CASE Flag
    BY <2>14 DEF Flag
  <2> QED BY <1>3, <2>1, <2>2, <2>3, <2>4, <2>5, <2>6, <2>7, <2>8, <2>9, <2>10, <2>11, <2>12, <2>13, <2>14 DEF RebootStep
<1>4. CASE Verify
  BY <1>4 DEF Verify, Verifiable
<1>5. CASE Cleanup
  BY <1>5 DEF Cleanup
<1>6. CASE ServiceFails
  BY <1>6 DEF ServiceFails, CutBackup, Fault
<1>7. CASE KillService
  BY <1>7 DEF KillService, CutBackup, Fault
<1>8. CASE KillReboot
  BY <1>8 DEF KillReboot, Fault, NextUnit, CutOff
<1>9. CASE Reboots
  BY <1>9 DEF Reboots
<1>10. CASE UNCHANGED rebootVars
  BY <1>10 DEF rebootVars
<1> QED
  BY <1>1, <1>2, <1>3, <1>4, <1>5, <1>6, <1>7, <1>8, <1>9, <1>10 DEF RebootNext, TestNext

(* The original is secured before it is moved. *)
LEMMA TestStepSecured ==
  ASSUME TestIInv, [RebootNext]_rebootVars
  PROVE  Secured'
<1> USE DEF TestIInv, RebootTypeOK, Placed, Secured, OriginalRetained, fixture, running, evidence, state, installed, history, programs, SvGo, RbGo, SvAt, RbAt, RunUnits, StopUnits
<1>1. CASE \E f \in Fixtures : Serve(f) \/ Prepare(f)
  BY <1>1 DEF Serve, Prepare, MayPrepare
<1>2. CASE ServiceTest
  <2>1. CASE LookServe
    BY <2>1 DEF LookServe
  <2>2. CASE StartTransient("start", "online")
    BY <2>2 DEF StartTransient
  <2>3. CASE Online
    BY <2>3 DEF Online, Ours
  <2>4. CASE StopServe
    BY <2>4 DEF StopServe
  <2>5. CASE Backup
    BY <2>5 DEF Backup
  <2>6. CASE Rename
    BY <2>6 DEF Rename
  <2>7. CASE BeginUntar \/ EndUntar
    BY <2>7 DEF BeginUntar, EndUntar
  <2>8. CASE StartTransient("again", "export")
    BY <2>8 DEF StartTransient
  <2>9. CASE BeginExport
    BY <2>9 DEF BeginExport, Ours
  <2>10. CASE EndExport
    BY <2>10 DEF EndExport, Ours
  <2>11. CASE Halt("halt", "FAIL")
    BY <2>11 DEF Halt
  <2>12. CASE Halt("halted", "PASS")
    BY <2>12 DEF Halt
  <2> QED BY <1>2, <2>1, <2>2, <2>3, <2>4, <2>5, <2>6, <2>7, <2>8, <2>9, <2>10, <2>11, <2>12 DEF ServiceTest
<1>3. CASE RebootStep
  <2>1. CASE ReadUnits
    BY <2>1 DEF ReadUnits
  <2>2. CASE SaveState
    BY <2>2 DEF SaveState
  <2>3. CASE WriteUnit
    BY <2>3 DEF WriteUnit, NextUnit
  <2>4. CASE StartInstalled
    BY <2>4 DEF StartInstalled
  <2>5. CASE ProbeInstalled
    BY <2>5 DEF ProbeInstalled
  <2>6. CASE Enable
    BY <2>6 DEF Enable
  <2>7. CASE Ready
    BY <2>7 DEF Ready
  <2>8. CASE SaveEvidence
    BY <2>8 DEF SaveEvidence
  <2>9. CASE Verified
    BY <2>9 DEF Verified
  <2>10. CASE Disable
    BY <2>10 DEF Disable, StopIfInstalled
  <2>11. CASE StopInstalled
    BY <2>11 DEF StopInstalled
  <2>12. CASE Unlink
    BY <2>12 DEF Unlink
  <2>13. CASE Cleaned
    BY <2>13 DEF Cleaned
  <2>14. CASE Flag
    BY <2>14 DEF Flag
  <2> QED BY <1>3, <2>1, <2>2, <2>3, <2>4, <2>5, <2>6, <2>7, <2>8, <2>9, <2>10, <2>11, <2>12, <2>13, <2>14 DEF RebootStep
<1>4. CASE Verify
  BY <1>4 DEF Verify, Verifiable
<1>5. CASE Cleanup
  BY <1>5 DEF Cleanup
<1>6. CASE ServiceFails
  BY <1>6 DEF ServiceFails, CutBackup, Fault
<1>7. CASE KillService
  BY <1>7 DEF KillService, CutBackup, Fault
<1>8. CASE KillReboot
  BY <1>8 DEF KillReboot, Fault, NextUnit, CutOff
<1>9. CASE Reboots
  BY <1>9 DEF Reboots
<1>10. CASE UNCHANGED rebootVars
  BY <1>10 DEF rebootVars
<1> QED
  BY <1>1, <1>2, <1>3, <1>4, <1>5, <1>6, <1>7, <1>8, <1>9, <1>10 DEF RebootNext, TestNext

(* No fixture that has passed is taken away again. *)
LEMMA TestStepKept ==
  ASSUME TestIInv, [RebootNext]_rebootVars
  PROVE  Kept'
<1> USE DEF TestIInv, RebootTypeOK, Placed, Kept, fixture, running, evidence, state, installed, history, programs, SvGo, RbGo, SvAt, RbAt, RunUnits, StopUnits
<1>1. CASE \E f \in Fixtures : Serve(f) \/ Prepare(f)
  BY <1>1 DEF Serve, Prepare, MayPrepare
<1>2. CASE ServiceTest
  <2>1. CASE LookServe
    BY <2>1 DEF LookServe
  <2>2. CASE StartTransient("start", "online")
    BY <2>2 DEF StartTransient
  <2>3. CASE Online
    BY <2>3 DEF Online, Ours
  <2>4. CASE StopServe
    BY <2>4 DEF StopServe
  <2>5. CASE Backup
    BY <2>5 DEF Backup
  <2>6. CASE Rename
    BY <2>6 DEF Rename
  <2>7. CASE BeginUntar \/ EndUntar
    <3>1. CASE BeginUntar
      BY <3>1 DEF BeginUntar
    <3>2. CASE EndUntar
      BY <3>2 DEF EndUntar, Secured
    <3> QED BY <2>7, <3>1, <3>2
  <2>8. CASE StartTransient("again", "export")
    BY <2>8 DEF StartTransient
  <2>9. CASE BeginExport
    BY <2>9 DEF BeginExport, Ours
  <2>10. CASE EndExport
    BY <2>10 DEF EndExport, Ours
  <2>11. CASE Halt("halt", "FAIL")
    BY <2>11 DEF Halt
  <2>12. CASE Halt("halted", "PASS")
    BY <2>12 DEF Halt
  <2> QED BY <1>2, <2>1, <2>2, <2>3, <2>4, <2>5, <2>6, <2>7, <2>8, <2>9, <2>10, <2>11, <2>12 DEF ServiceTest
<1>3. CASE RebootStep
  <2>1. CASE ReadUnits
    BY <2>1 DEF ReadUnits
  <2>2. CASE SaveState
    BY <2>2 DEF SaveState
  <2>3. CASE WriteUnit
    BY <2>3 DEF WriteUnit, NextUnit
  <2>4. CASE StartInstalled
    BY <2>4 DEF StartInstalled
  <2>5. CASE ProbeInstalled
    BY <2>5 DEF ProbeInstalled
  <2>6. CASE Enable
    BY <2>6 DEF Enable
  <2>7. CASE Ready
    BY <2>7 DEF Ready
  <2>8. CASE SaveEvidence
    BY <2>8 DEF SaveEvidence
  <2>9. CASE Verified
    BY <2>9 DEF Verified
  <2>10. CASE Disable
    BY <2>10 DEF Disable, StopIfInstalled
  <2>11. CASE StopInstalled
    BY <2>11 DEF StopInstalled
  <2>12. CASE Unlink
    BY <2>12 DEF Unlink
  <2>13. CASE Cleaned
    BY <2>13 DEF Cleaned
  <2>14. CASE Flag
    BY <2>14 DEF Flag
  <2> QED BY <1>3, <2>1, <2>2, <2>3, <2>4, <2>5, <2>6, <2>7, <2>8, <2>9, <2>10, <2>11, <2>12, <2>13, <2>14 DEF RebootStep
<1>4. CASE Verify
  BY <1>4 DEF Verify, Verifiable
<1>5. CASE Cleanup
  BY <1>5 DEF Cleanup
<1>6. CASE ServiceFails
  BY <1>6 DEF ServiceFails, CutBackup, Fault
<1>7. CASE KillService
  BY <1>7 DEF KillService, CutBackup, Fault
<1>8. CASE KillReboot
  BY <1>8 DEF KillReboot, Fault, NextUnit, CutOff
<1>9. CASE Reboots
  BY <1>9 DEF Reboots
<1>10. CASE UNCHANGED rebootVars
  BY <1>10 DEF rebootVars
<1> QED
  BY <1>1, <1>2, <1>3, <1>4, <1>5, <1>6, <1>7, <1>8, <1>9, <1>10 DEF RebootNext, TestNext

(* The record stays ahead of the units and behind the evidence. *)
LEMMA TestStepOnRecord ==
  ASSUME TestIInv, [RebootNext]_rebootVars
  PROVE  OnRecord'
<1> USE DEF TestIInv, RebootTypeOK, Placed, OnRecord, Left, fixture, running, evidence, state, installed, history, programs, SvGo, RbGo, SvAt, RbAt, RunUnits, StopUnits
<1>1. CASE \E f \in Fixtures : Serve(f) \/ Prepare(f)
  BY <1>1 DEF Serve, Prepare, MayPrepare
<1>2. CASE ServiceTest
  <2>1. CASE LookServe
    BY <2>1 DEF LookServe
  <2>2. CASE StartTransient("start", "online")
    BY <2>2 DEF StartTransient
  <2>3. CASE Online
    BY <2>3 DEF Online, Ours
  <2>4. CASE StopServe
    BY <2>4 DEF StopServe
  <2>5. CASE Backup
    BY <2>5 DEF Backup
  <2>6. CASE Rename
    BY <2>6 DEF Rename
  <2>7. CASE BeginUntar \/ EndUntar
    BY <2>7 DEF BeginUntar, EndUntar
  <2>8. CASE StartTransient("again", "export")
    BY <2>8 DEF StartTransient
  <2>9. CASE BeginExport
    BY <2>9 DEF BeginExport, Ours
  <2>10. CASE EndExport
    BY <2>10 DEF EndExport, Ours
  <2>11. CASE Halt("halt", "FAIL")
    BY <2>11 DEF Halt
  <2>12. CASE Halt("halted", "PASS")
    BY <2>12 DEF Halt
  <2> QED BY <1>2, <2>1, <2>2, <2>3, <2>4, <2>5, <2>6, <2>7, <2>8, <2>9, <2>10, <2>11, <2>12 DEF ServiceTest
<1>3. CASE RebootStep
  <2>1. CASE ReadUnits
    BY <2>1 DEF ReadUnits
  <2>2. CASE SaveState
    BY <2>2 DEF SaveState
  <2>3. CASE WriteUnit
    BY <2>3 DEF WriteUnit, NextUnit
  <2>4. CASE StartInstalled
    BY <2>4 DEF StartInstalled
  <2>5. CASE ProbeInstalled
    BY <2>5 DEF ProbeInstalled
  <2>6. CASE Enable
    BY <2>6 DEF Enable
  <2>7. CASE Ready
    BY <2>7 DEF Ready
  <2>8. CASE SaveEvidence
    BY <2>8 DEF SaveEvidence
  <2>9. CASE Verified
    BY <2>9 DEF Verified
  <2>10. CASE Disable
    BY <2>10 DEF Disable, StopIfInstalled
  <2>11. CASE StopInstalled
    BY <2>11 DEF StopInstalled
  <2>12. CASE Unlink
    BY <2>12 DEF Unlink
  <2>13. CASE Cleaned
    BY <2>13 DEF Cleaned
  <2>14. CASE Flag
    BY <2>14 DEF Flag
  <2> QED BY <1>3, <2>1, <2>2, <2>3, <2>4, <2>5, <2>6, <2>7, <2>8, <2>9, <2>10, <2>11, <2>12, <2>13, <2>14 DEF RebootStep
<1>4. CASE Verify
  BY <1>4 DEF Verify, Verifiable
<1>5. CASE Cleanup
  BY <1>5 DEF Cleanup
<1>6. CASE ServiceFails
  BY <1>6 DEF ServiceFails, CutBackup, Fault
<1>7. CASE KillService
  BY <1>7 DEF KillService, CutBackup, Fault
<1>8. CASE KillReboot
  BY <1>8 DEF KillReboot, Fault, NextUnit, CutOff
<1>9. CASE Reboots
  BY <1>9 DEF Reboots
<1>10. CASE UNCHANGED rebootVars
  BY <1>10 DEF rebootVars
<1> QED
  BY <1>1, <1>2, <1>3, <1>4, <1>5, <1>6, <1>7, <1>8, <1>9, <1>10 DEF RebootNext, TestNext

(* The initial states satisfy the invariant. *)
LEMMA TestInitIInv ==
  ASSUME RebootInit
  PROVE  TestIInv
<1> USE DEF RebootInit, All
<1>1. faults \in 0..MaxFaults /\ boots \in 0..MaxBoots
  BY FaultsAssumption
<1>2. RebootTypeOK
  BY <1>1 DEF RebootTypeOK, Phases
<1>3. Placed /\ Boots /\ Removal /\ OnRecord
  BY DEF Placed, PrepareSteps, Boots, Removal, CleanedLeavesNothing, OnRecord, Left
<1>4. Qualifies /\ Secured /\ Kept
  BY FixtureAssumption DEF Qualifies, Secured, OriginalRetained, Kept
<1> QED BY <1>2, <1>3, <1>4 DEF TestIInv

(* The inductive invariant survives every step. *)
LEMMA TestStepIInv ==
  ASSUME TestIInv, [RebootNext]_rebootVars
  PROVE  TestIInv'
BY TestStepTyped, TestStepPlaced, TestStepQualifies, TestStepBoots, TestStepRemoval,
   TestStepSecured, TestStepKept, TestStepOnRecord DEF TestIInv

(* The inductive invariant holds always. *)
THEOREM TestInductiveInvariant == RebootSpec => []TestIInv
<1>1. RebootInit => TestIInv
  BY TestInitIInv
<1>2. TestIInv /\ [RebootNext]_rebootVars => TestIInv'
  BY TestStepIInv
<1> QED BY <1>1, <1>2, PTL DEF RebootSpec

(* Every variable keeps its type. *)
THEOREM TestTypeCorrect == RebootSpec => []RebootTypeOK
<1>1. TestIInv => RebootTypeOK
  BY DEF TestIInv
<1> QED BY <1>1, TestInductiveInvariant, PTL

(* A reboot test on record is of a fixture that passed the service test.    *)
THEOREM OnlyQualifiedPrepared == RebootSpec => []RebootTestsQualified
<1>1. TestIInv => RebootTestsQualified
  BY DEF TestIInv, Qualifies, RebootTestsQualified
<1> QED BY <1>1, TestInductiveInvariant, PTL

(* There is evidence only after a boot brought up the installed units.      *)
THEOREM EvidenceFollowsBoot == RebootSpec => []EvidenceIsOfABoot
<1>1. TestIInv => EvidenceIsOfABoot
  BY DEF TestIInv, Boots, EvidenceIsOfABoot
<1> QED BY <1>1, TestInductiveInvariant, PTL

(* A recorded cleanup has left nothing of the test behind.                  *)
THEOREM CleanupIsComplete == RebootSpec => []CleanedLeavesNothing
<1>1. TestIInv => CleanedLeavesNothing
  BY DEF TestIInv, Removal
<1> QED BY <1>1, TestInductiveInvariant, PTL

(* At every step of the restore the fixture is whole, or can be restored.   *)
THEOREM FixtureIsRecoverable == RebootSpec => []OriginalRetained
<1>1. TestIInv => OriginalRetained
  BY DEF TestIInv, Secured
<1> QED BY <1>1, TestInductiveInvariant, PTL

(* A step that changes no more than the service test's own state and what   *)
(* runs is work of a record that is open, or none.                          *)
LEMMA OnlyWork ==
  ASSUME TestIInv, TestIInv',
         UNCHANGED <<passed, handoff, phase, booted, reboot>>
  PROVE  [Qualification!Next]_Qualification!vars
<1>1. Left \in BOOLEAN /\ Left' \in BOOLEAN
  BY DEF Left
<1>2. CASE phase \notin {"none", "cleaned"}
  BY <1>1, <1>2 DEF Qualification!Next, Qualification!Work, Qualification!record
<1>3. CASE phase = "none"
  BY <1>1, <1>3 DEF TestIInv, OnRecord, Qualification!vars
<1>4. CASE phase = "cleaned"
  <2>1. ~Left
    BY <1>4 DEF TestIInv, Removal, CleanedLeavesNothing, Left
  <2>2. phase' = "cleaned"
    BY <1>4
  <2>3. Removal'
    BY DEF TestIInv
  <2>4. ~Left'
    BY <2>2, <2>3 DEF Removal, CleanedLeavesNothing, Left
  <2>5. Left' = Left
    BY <2>1, <2>4, <1>1
  <2> QED BY <2>5 DEF Qualification!vars
<1> QED BY <1>2, <1>3, <1>4

(* A step of either test, a kill or a reboot is a step of the record.       *)
LEMMA TestStepQualification ==
  ASSUME TestIInv, TestIInv', [RebootNext]_rebootVars
  PROVE  [Qualification!Next]_Qualification!vars
<1> USE DEF fixture, running, evidence, state, installed, history, programs, RbAt, SvAt, RbGo, SvGo,
        Qualification!record
<1>1. CASE \E f \in Fixtures : Serve(f) \/ Prepare(f)
  BY <1>1, OnlyWork DEF Serve, Prepare
<1>2. CASE ServiceTest
  <2>1. CASE LookServe \/ Online \/ StopServe
    BY <2>1, OnlyWork DEF LookServe, Online, StopServe
  <2>2. CASE StartTransient("start", "online") \/ StartTransient("again", "export")
    BY <2>2, OnlyWork DEF StartTransient
  <2>3. CASE Backup \/ Rename \/ BeginUntar \/ EndUntar \/ BeginExport
    BY <2>3, OnlyWork DEF Backup, Rename, BeginUntar, EndUntar, BeginExport
  <2>4. CASE EndExport
    <3>1. UNCHANGED <<handoff, phase, booted, reboot, file, enabled, units>>
      BY <2>4 DEF EndExport
    <3>2. passed \subseteq passed'
      BY <2>4 DEF EndExport
    <3>3. Left' = Left
      BY <3>1 DEF Left
    <3> QED BY <3>1, <3>2, <3>3 DEF Qualification!Next, Qualification!Pass
  <2>5. CASE Halt("halt", "FAIL") \/ Halt("halted", "PASS")
    BY <2>5, OnlyWork DEF Halt
  <2> QED BY <1>2, <2>1, <2>2, <2>3, <2>4, <2>5 DEF ServiceTest
<1>3. CASE RebootStep
  <2>1. CASE ReadUnits
    BY <2>1, OnlyWork DEF ReadUnits
  <2>2. CASE SaveState
    <3>1. phase = "none" /\ of.rb \in passed
      BY <2>2 DEF SaveState, TestIInv, Placed, Qualifies
    <3>2. Left' = Left /\ UNCHANGED <<passed, reboot>>
      BY <2>2 DEF SaveState, Left
    <3> QED BY <2>2, <3>1, <3>2 DEF SaveState, Qualification!Next, Qualification!Begin
  <2>3. CASE WriteUnit \/ StartInstalled \/ ProbeInstalled
    BY <2>3, OnlyWork DEF WriteUnit, StartInstalled, ProbeInstalled
  <2>4. CASE Enable \/ Disable \/ StopInstalled \/ Unlink
    BY <2>4, OnlyWork DEF Enable, Disable, StopInstalled, Unlink
  <2>5. CASE Ready
    <3>1. phase = "installing" /\ Left
      BY <2>5 DEF Ready, TestIInv, Placed, OnRecord, Left
    <3>2. Left' = Left /\ UNCHANGED <<passed, reboot, handoff, booted>>
      BY <2>5 DEF Ready, Left
    <3> QED BY <2>5, <3>1, <3>2 DEF Ready, Qualification!Next, Qualification!Ready, Qualification!Go
  <2>6. CASE SaveEvidence
    <3>1. phase = "ready-to-reboot" /\ booted
      BY <2>6 DEF SaveEvidence, TestIInv, Placed, Boots
    <3>2. Left' = Left /\ UNCHANGED <<passed, handoff, phase, booted>>
      BY <2>6 DEF SaveEvidence, Left
    <3> QED BY <2>6, <3>1, <3>2
        DEF SaveEvidence, Qualification!Next, Qualification!Witness, Qualification!Show
  <2>7. CASE Verified
    <3>1. phase = "ready-to-reboot" /\ booted /\ reboot = "PASS"
      BY <2>7 DEF Verified, TestIInv, Placed, Boots, OnRecord
    <3>2. Left' = Left /\ UNCHANGED <<passed, handoff, reboot, booted>>
      BY <2>7 DEF Verified, Left
    <3> QED BY <2>7, <3>1, <3>2
        DEF Verified, Qualification!Next, Qualification!Certify, Qualification!Go
  <2>8. CASE Cleaned
    <3>1. phase \in {"installing", "ready-to-reboot", "verified"} /\ ~Left
      BY <2>8 DEF Cleaned, TestIInv, Placed, Removal, Left
    <3>2. Left' = Left /\ UNCHANGED <<passed, handoff, reboot, booted>>
      BY <2>8 DEF Cleaned, Left
    <3> QED BY <2>8, <3>1, <3>2
        DEF Cleaned, Qualification!Next, Qualification!Clean, Qualification!Go
  <2>9. CASE Flag
    <3>1. phase = "cleaned" /\ reboot # "none"
      BY <2>9 DEF Flag, TestIInv, Placed, Boots
    <3>2. Left' = Left /\ UNCHANGED <<passed, handoff, phase, booted>>
      BY <2>9 DEF Flag, Left
    <3> QED BY <2>9, <3>1, <3>2
        DEF Flag, Qualification!Next, Qualification!Flag, Qualification!Show
  <2> QED BY <1>3, <2>1, <2>2, <2>3, <2>4, <2>5, <2>6, <2>7, <2>8, <2>9 DEF RebootStep
<1>4. CASE Verify \/ Cleanup
  BY <1>4, OnlyWork DEF Verify, Cleanup
<1>5. CASE ServiceFails \/ KillService
  BY <1>5, OnlyWork DEF ServiceFails, KillService
<1>6. CASE KillReboot
  <2>1. UNCHANGED <<passed, handoff, booted, units, enabled>>
    BY <1>6 DEF KillReboot
  <2>2. CASE UNCHANGED <<phase, reboot>>
    BY <2>1, <2>2, OnlyWork
  <2>3. CASE phase' # phase
    <3>1. rb \in {"state", "ready", "verified", "cleaned"} /\ phase' = "torn" /\ UNCHANGED <<reboot, file>>
      BY <1>6, <2>3 DEF KillReboot
    <3>2. phase \in {"none", "installing", "ready-to-reboot", "verified"}
      BY <3>1 DEF TestIInv, Placed
    <3>3. Left' = Left
      BY <2>1, <3>1 DEF Left
    <3> QED BY <2>1, <3>1, <3>2, <3>3 DEF Qualification!Next, Qualification!Tear, Qualification!Go
  <2>4. CASE reboot' # reboot
    <3>1. rb \in {"evidence", "flag"} /\ reboot' = "none" /\ UNCHANGED <<phase, file>>
      BY <1>6, <2>4 DEF KillReboot
    <3>2. phase \in {"ready-to-reboot", "cleaned"}
      BY <3>1 DEF TestIInv, Placed
    <3>3. Left' = Left
      BY <2>1, <3>1 DEF Left
    <3> QED BY <2>1, <3>1, <3>2, <3>3 DEF Qualification!Next, Qualification!Spoil, Qualification!Show
  <2> QED BY <2>2, <2>3, <2>4
<1>7. CASE Reboots
  <2>1. UNCHANGED <<passed, handoff, phase, reboot, file, enabled>>
    BY <1>7 DEF Reboots
  <2>2. CASE enabled /\ file = All("whole")
    <3>1. Left /\ Left' /\ booted'
      BY <1>7, <2>1, <2>2 DEF Reboots, RunUnits, Left
    <3>2. phase \notin {"none", "cleaned"}
      BY <2>2 DEF TestIInv, OnRecord, Removal, CleanedLeavesNothing, Left
    <3> QED BY <2>1, <3>1, <3>2 DEF TestIInv, RebootTypeOK, Left, Qualification!Next, Qualification!Boot
  <2>3. CASE ~(enabled /\ file = All("whole"))
    BY <1>7, <2>1, <2>3, OnlyWork DEF Reboots
  <2> QED BY <2>2, <2>3
<1>8. CASE UNCHANGED rebootVars
  BY <1>8, OnlyWork DEF rebootVars
<1> QED
  BY <1>1, <1>2, <1>3, <1>4, <1>5, <1>6, <1>7, <1>8 DEF RebootNext, TestNext

(* Record and evidence of a reboot test behave as BootQualification, for    *)
(* any number of fixtures, unit files, kills and reboots.                   *)
THEOREM RecordIsALadder == RebootSpec => ImplementsBootQualification
<1>1. RebootInit => Qualification!Init
  BY DEF RebootInit, Qualification!Init, Left
<1>2. ASSUME TestIInv, TestIInv', [RebootNext]_rebootVars
      PROVE  [Qualification!Next]_Qualification!vars
  BY <1>2, TestStepQualification
<1> QED
  BY <1>1, <1>2, TestInductiveInvariant, PTL
     DEF RebootSpec, ImplementsBootQualification, Qualification!Spec
=============================================================================
