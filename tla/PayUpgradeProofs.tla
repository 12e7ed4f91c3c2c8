-------------------------- MODULE PayUpgradeProofs --------------------------
(***************************************************************************)
(* The safety properties of PayUpgrade, for any set of applications and    *)
(* any number of dying commands and reboots, and the refinement of         *)
(* ReversibleChange.                                                       *)
(*                                                                         *)
(* The inductive invariant is TypeOK /\ IInv.  Each lemma Step... shows    *)
(* that one of its parts survives every step; its leaves group the actions *)
(* by the call they make.                                                  *)
(***************************************************************************)
EXTENDS PayUpgrade, FiniteSetTheorems, TLAPS

(* Starting one unit keeps the types. *)
LEMMA StartTyped ==
  ASSUME TypeOK, NEW here, NEW next \in PCs, StartUnits(here, next)
  PROVE  TypeOK'
<1> USE DEF TypeOK, files, bounds
<1>1. running' \in [Roles -> Releases \cup {"down"}]
  BY DEF StartUnits
<1>2. touched' \in BOOLEAN
  BY DEF StartUnits
<1> QED BY <1>1, <1>2 DEF StartUnits

(* Every variable keeps its type. *)
LEMMA StepTyped ==
  ASSUME TypeOK, [Next]_vars
  PROVE  TypeOK'
<1> USE DEF TypeOK, Plans, Phases, Releases, PCs, ActivatePCs, AcceptPCs, RecoverPCs
<1>1. CASE Trial \/ Activate \/ Recover \/ RecoverNothing
  <2>1. CASE Trial
    BY <2>1, BoundAssumption DEF service, bounds, Trial
  <2>2. CASE Activate
    BY <2>2, BoundAssumption DEF files, service, bounds, Activate
  <2>3. CASE Recover
    BY <2>3, BoundAssumption DEF files, service, bounds, Recover
  <2>4. CASE RecoverNothing
    BY <2>4 DEF files, service, bounds, vars, RecoverNothing
  <2> QED BY <1>1, <2>1, <2>2, <2>3, <2>4
<1>2. CASE ActivateStop \/ AcceptRestart \/ RecoverStop
    BY <1>2, BoundAssumption DEF files, service, bounds, StopUnits,
     ActivateStop, AcceptRestart, RecoverStop
<1>3. CASE ActivateUnits \/ RecoverUnits
    BY <1>3, BoundAssumption DEF files, service, bounds, WriteUnits,
     ActivateUnits, RecoverUnits
<1>4. CASE ActivateInstall \/ AcceptInstall \/ RecoverInstall
    BY <1>4, BoundAssumption DEF files, service, bounds, WriteInstall,
     ActivateInstall, AcceptInstall, RecoverInstall
<1>5. CASE AcceptEvidence \/ RecoverEvidence
    BY <1>5, BoundAssumption DEF files, service, bounds, WriteEvidence,
     AcceptEvidence, RecoverEvidence
<1>6. CASE ActivateReload \/ RecoverReload
    BY <1>6, BoundAssumption DEF files, service, bounds, ReloadUnits,
     ActivateReload, RecoverReload
<1>7. CASE ActivateStart \/ AcceptStart \/ RecoverStart
  <2>1. CASE ActivateStart
    BY <2>1, StartTyped DEF ActivateStart, PCs
  <2>2. CASE AcceptStart
    BY <2>2, StartTyped DEF AcceptStart, PCs
  <2>3. CASE RecoverStart
    BY <2>3, StartTyped DEF RecoverStart, PCs
  <2> QED BY <1>7, <2>1, <2>2, <2>3
<1>8. CASE ActivateVerify \/ AcceptVerify \/ RecoverVerify
  <2>1. CASE ActivateVerify
    BY <2>1, BoundAssumption DEF files, service, bounds, VerifyRunning,
       ActivateVerify
  <2>2. CASE AcceptVerify
    BY <2>2, BoundAssumption DEF files, service, bounds, VerifyRunning,
       AcceptVerify
  <2>3. CASE RecoverVerify
    BY <2>3, BoundAssumption DEF files, service, bounds, VerifyRunning,
       RecoverVerify
  <2> QED BY <1>8, <2>1, <2>2, <2>3
<1>9. CASE Prepare \/ Mark \/ Backup \/ ActivateRecord \/ Inject
  <2>1. CASE Prepare
    BY <2>1, BoundAssumption DEF files, service, bounds, SavePlan, Copy,
       Prepare
  <2>2. CASE Mark
    BY <2>2, BoundAssumption DEF files, service, bounds, SavePlan, Copy, Mark
  <2>3. CASE Backup
    BY <2>3, BoundAssumption DEF files, service, bounds, SavePlan, Copy,
       Backup
  <2>4. CASE ActivateRecord
    BY <2>4, BoundAssumption DEF files, service, bounds, SavePlan, Copy,
       ActivateRecord
  <2>5. CASE Inject
    BY <2>5, BoundAssumption DEF files, service, bounds, SavePlan, Copy,
       Inject
  <2> QED BY <1>9, <2>1, <2>2, <2>3, <2>4, <2>5
<1>10. CASE AcceptRecord \/ RecoverRecord
  <2>1. CASE AcceptRecord
    BY <2>1, BoundAssumption DEF files, service, bounds, SavePlan,
       AcceptRecord
  <2>2. CASE RecoverRecord
    <3>1. plan' \in Plans
      BY <2>2 DEF SavePlan, RecoverRecord
    <3>2. QED
      BY <2>2, <3>1, BoundAssumption DEF files, service, bounds, SavePlan, RecoverRecord
  <2> QED BY <1>10, <2>1, <2>2
<1>11. CASE Die \/ Reboot
  <2>1. CASE Die
    BY <2>1, BoundAssumption DEF files, service, bounds, Die
  <2>2. CASE Reboot
    BY <2>2, BoundAssumption DEF files, service, bounds, Reboot
  <2> QED BY <1>11, <2>1, <2>2
<1>12. CASE UNCHANGED vars
  BY <1>12 DEF vars, files, service, bounds
<1> QED BY <1>1, <1>2, <1>3, <1>4, <1>5, <1>6, <1>7, <1>8, <1>9, <1>10, <1>11,
     <1>12 DEF Next, Command, Switching, Accepting, Undoing

(* The undo marker covers every step of a command. *)
LEMMA StepMarked ==
  ASSUME TypeOK, Marked, [Next]_vars
  PROVE  Marked'
<1> USE DEF Marked, SwitchPCs, TypeOK, Plans, ActivatePCs, AcceptPCs, RecoverPCs
<1>1. CASE Trial \/ Activate \/ Recover \/ RecoverNothing
    BY <1>1 DEF files, service, bounds, vars, Trial, Activate, Recover,
     RecoverNothing
<1>2. CASE ActivateStop \/ AcceptRestart \/ RecoverStop
    BY <1>2 DEF files, service, bounds, StopUnits, ActivateStop,
     AcceptRestart, RecoverStop
<1>3. CASE ActivateUnits \/ RecoverUnits
    BY <1>3 DEF files, service, bounds, WriteUnits, ActivateUnits,
     RecoverUnits
<1>4. CASE ActivateInstall \/ AcceptInstall \/ RecoverInstall
    BY <1>4 DEF files, service, bounds, WriteInstall, ActivateInstall,
     AcceptInstall, RecoverInstall
<1>5. CASE AcceptEvidence \/ RecoverEvidence
    BY <1>5 DEF files, service, bounds, WriteEvidence, AcceptEvidence,
     RecoverEvidence
<1>6. CASE ActivateReload \/ RecoverReload
    BY <1>6 DEF files, service, bounds, ReloadUnits, ActivateReload,
     RecoverReload
<1>7. CASE ActivateStart \/ AcceptStart \/ RecoverStart
    BY <1>7 DEF files, service, bounds, StartUnits, ActivateStart,
     AcceptStart, RecoverStart
<1>8. CASE ActivateVerify \/ AcceptVerify \/ RecoverVerify
  <2>1. CASE ActivateVerify
    BY <2>1 DEF files, service, bounds, VerifyRunning, ActivateVerify
  <2>2. CASE AcceptVerify
    BY <2>2 DEF files, service, bounds, VerifyRunning, AcceptVerify
  <2>3. CASE RecoverVerify
    BY <2>3 DEF files, service, bounds, VerifyRunning, RecoverVerify
  <2> QED BY <1>8, <2>1, <2>2, <2>3
<1>9. CASE Prepare \/ Mark \/ Backup \/ ActivateRecord \/ Inject
  <2>1. CASE Prepare
    BY <2>1 DEF files, service, bounds, SavePlan, Copy, Prepare
  <2>2. CASE Mark
    BY <2>2 DEF files, service, bounds, SavePlan, Copy, Mark
  <2>3. CASE Backup
    BY <2>3 DEF files, service, bounds, SavePlan, Copy, Backup
  <2>4. CASE ActivateRecord
    BY <2>4 DEF files, service, bounds, SavePlan, Copy, ActivateRecord
  <2>5. CASE Inject
    BY <2>5 DEF files, service, bounds, SavePlan, Copy, Inject
  <2> QED BY <1>9, <2>1, <2>2, <2>3, <2>4, <2>5
<1>10. CASE AcceptRecord \/ RecoverRecord
  <2>1. CASE AcceptRecord
    BY <2>1 DEF files, service, bounds, SavePlan, AcceptRecord
  <2>2. CASE RecoverRecord
    BY <2>2 DEF files, service, bounds, SavePlan, RecoverRecord
  <2> QED BY <1>10, <2>1, <2>2
<1>11. CASE Die \/ Reboot
    BY <1>11 DEF files, service, bounds, Die, Reboot
<1>12. CASE UNCHANGED vars
  BY <1>12 DEF vars, files, service, bounds
<1> QED BY <1>1, <1>2, <1>3, <1>4, <1>5, <1>6, <1>7, <1>8, <1>9, <1>10, <1>11,
     <1>12 DEF Next, Command, Switching, Accepting, Undoing

(* A step finds what the earlier steps of its command did. *)
LEMMA StepStaged ==
  ASSUME TypeOK, Marked, Staged, RestIsConsistent, [Next]_vars
  PROVE  Staged'
<1> USE DEF Staged, All, Marked, SwitchPCs, UndoPCs, TypeOK, ActivatePCs, AcceptPCs, RecoverPCs
<1>1. CASE Trial \/ Activate \/ Recover \/ RecoverNothing
    BY <1>1 DEF files, service, bounds, vars, Trial, Activate, Recover,
     RecoverNothing
<1>2. CASE ActivateStop \/ AcceptRestart \/ RecoverStop
    BY <1>2 DEF files, service, bounds, StopUnits, ActivateStop,
     AcceptRestart, RecoverStop
<1>3. CASE ActivateUnits \/ RecoverUnits
    BY <1>3 DEF files, service, bounds, WriteUnits, ActivateUnits,
     RecoverUnits
<1>4. CASE ActivateInstall \/ AcceptInstall \/ RecoverInstall
    BY <1>4 DEF files, service, bounds, WriteInstall, ActivateInstall,
     AcceptInstall, RecoverInstall
<1>5. CASE AcceptEvidence \/ RecoverEvidence
    BY <1>5 DEF files, service, bounds, WriteEvidence, AcceptEvidence,
     RecoverEvidence
<1>6. CASE ActivateReload \/ RecoverReload
    BY <1>6 DEF files, service, bounds, ReloadUnits, ActivateReload,
     RecoverReload
<1>7. CASE ActivateStart \/ AcceptStart \/ RecoverStart
    BY <1>7 DEF files, service, bounds, StartUnits, ActivateStart,
     AcceptStart, RecoverStart
<1>8. CASE ActivateVerify \/ AcceptVerify \/ RecoverVerify
  <2>1. CASE ActivateVerify
    BY <2>1 DEF files, service, bounds, VerifyRunning, ActivateVerify
  <2>2. CASE AcceptVerify
    BY <2>2 DEF files, service, bounds, VerifyRunning, AcceptVerify
  <2>3. CASE RecoverVerify
    BY <2>3 DEF files, service, bounds, VerifyRunning, RecoverVerify
  <2> QED BY <1>8, <2>1, <2>2, <2>3
<1>9. CASE Prepare \/ Mark \/ Backup \/ ActivateRecord \/ Inject
  <2>1. CASE Prepare
    BY <2>1 DEF files, service, bounds, SavePlan, Copy, Prepare
  <2>2. CASE Mark
    BY <2>2 DEF files, service, bounds, SavePlan, Copy, Mark
  <2>3. CASE Backup
    BY <2>3 DEF files, service, bounds, SavePlan, Copy, Backup
  <2>4. CASE ActivateRecord
    BY <2>4 DEF files, service, bounds, SavePlan, Copy, ActivateRecord
  <2>5. CASE Inject
    BY <2>5 DEF files, service, bounds, SavePlan, Copy, Inject
  <2> QED BY <1>9, <2>1, <2>2, <2>3, <2>4, <2>5
<1>10. CASE AcceptRecord \/ RecoverRecord
  <2>1. CASE AcceptRecord
    BY <2>1 DEF files, service, bounds, SavePlan, AcceptRecord
  <2>2. CASE RecoverRecord
    BY <2>2 DEF files, service, bounds, SavePlan, RecoverRecord
  <2> QED BY <1>10, <2>1, <2>2
<1>11. CASE Die \/ Reboot
    BY <1>11 DEF files, service, bounds, Die, Reboot
<1>12. CASE UNCHANGED vars
  BY <1>12 DEF vars, files, service, bounds
<1> QED BY <1>1, <1>2, <1>3, <1>4, <1>5, <1>6, <1>7, <1>8, <1>9, <1>10, <1>11,
     <1>12 DEF Next, Command, Switching, Accepting, Undoing

(* The flags of the plan stand for verifications that happened. *)
LEMMA StepWitnessed ==
  ASSUME TypeOK, Marked, Witnessed, [Next]_vars
  PROVE  Witnessed'
<1> USE DEF Witnessed, Marked, SwitchPCs, TypeOK, Plans, ActivatePCs, AcceptPCs, RecoverPCs
<1>1. CASE Trial \/ Activate \/ Recover \/ RecoverNothing
    BY <1>1 DEF files, service, bounds, vars, Trial, Activate, Recover,
     RecoverNothing
<1>2. CASE ActivateStop \/ AcceptRestart \/ RecoverStop
    BY <1>2 DEF files, service, bounds, StopUnits, ActivateStop,
     AcceptRestart, RecoverStop
<1>3. CASE ActivateUnits \/ RecoverUnits
    BY <1>3 DEF files, service, bounds, WriteUnits, ActivateUnits,
     RecoverUnits
<1>4. CASE ActivateInstall \/ AcceptInstall \/ RecoverInstall
    BY <1>4 DEF files, service, bounds, WriteInstall, ActivateInstall,
     AcceptInstall, RecoverInstall
<1>5. CASE AcceptEvidence \/ RecoverEvidence
    BY <1>5 DEF files, service, bounds, WriteEvidence, AcceptEvidence,
     RecoverEvidence
<1>6. CASE ActivateReload \/ RecoverReload
    BY <1>6 DEF files, service, bounds, ReloadUnits, ActivateReload,
     RecoverReload
<1>7. CASE ActivateStart \/ AcceptStart \/ RecoverStart
    BY <1>7 DEF files, service, bounds, StartUnits, ActivateStart,
     AcceptStart, RecoverStart
<1>8. CASE ActivateVerify \/ AcceptVerify \/ RecoverVerify
  <2>1. CASE ActivateVerify
    BY <2>1 DEF files, service, bounds, VerifyRunning, ActivateVerify
  <2>2. CASE AcceptVerify
    BY <2>2 DEF files, service, bounds, VerifyRunning, AcceptVerify
  <2>3. CASE RecoverVerify
    BY <2>3 DEF files, service, bounds, VerifyRunning, RecoverVerify
  <2> QED BY <1>8, <2>1, <2>2, <2>3
<1>9. CASE Prepare \/ Mark \/ Backup \/ ActivateRecord \/ Inject
  <2>1. CASE Prepare
    BY <2>1 DEF files, service, bounds, SavePlan, Copy, Prepare
  <2>2. CASE Mark
    BY <2>2 DEF files, service, bounds, SavePlan, Copy, Mark
  <2>3. CASE Backup
    BY <2>3 DEF files, service, bounds, SavePlan, Copy, Backup
  <2>4. CASE ActivateRecord
    BY <2>4 DEF files, service, bounds, SavePlan, Copy, ActivateRecord
  <2>5. CASE Inject
    BY <2>5 DEF files, service, bounds, SavePlan, Copy, Inject
  <2> QED BY <1>9, <2>1, <2>2, <2>3, <2>4, <2>5
<1>10. CASE AcceptRecord \/ RecoverRecord
  <2>1. CASE AcceptRecord
    BY <2>1 DEF files, service, bounds, SavePlan, AcceptRecord
  <2>2. CASE RecoverRecord
    BY <2>2 DEF files, service, bounds, SavePlan, RecoverRecord
  <2> QED BY <1>10, <2>1, <2>2
<1>11. CASE Die \/ Reboot
    BY <1>11 DEF files, service, bounds, Die, Reboot
<1>12. CASE UNCHANGED vars
  BY <1>12 DEF vars, files, service, bounds
<1> QED BY <1>1, <1>2, <1>3, <1>4, <1>5, <1>6, <1>7, <1>8, <1>9, <1>10, <1>11,
     <1>12 DEF Next, Command, Switching, Accepting, Undoing

(* No candidate process before the backup. *)
LEMMA StepBackedUp ==
  ASSUME TypeOK, Marked, BackedUp, [Next]_vars
  PROVE  BackedUp'
<1> USE DEF BackedUp, All, SwitchPCs, TypeOK, Plans, Releases, ActivatePCs, AcceptPCs, RecoverPCs
<1>1. CASE Trial \/ Activate \/ Recover \/ RecoverNothing
    BY <1>1 DEF files, service, bounds, vars, Trial, Activate, Recover,
     RecoverNothing
<1>2. CASE ActivateStop \/ AcceptRestart \/ RecoverStop
    BY <1>2 DEF files, service, bounds, StopUnits, ActivateStop,
     AcceptRestart, RecoverStop
<1>3. CASE ActivateUnits \/ RecoverUnits
    BY <1>3 DEF files, service, bounds, WriteUnits, ActivateUnits,
     RecoverUnits
<1>4. CASE ActivateInstall \/ AcceptInstall \/ RecoverInstall
    BY <1>4 DEF files, service, bounds, WriteInstall, ActivateInstall,
     AcceptInstall, RecoverInstall
<1>5. CASE AcceptEvidence \/ RecoverEvidence
    BY <1>5 DEF files, service, bounds, WriteEvidence, AcceptEvidence,
     RecoverEvidence
<1>6. CASE ActivateReload \/ RecoverReload
    BY <1>6 DEF files, service, bounds, ReloadUnits, ActivateReload,
     RecoverReload
<1>7. CASE ActivateStart \/ AcceptStart \/ RecoverStart
    BY <1>7 DEF files, service, bounds, StartUnits, ActivateStart,
     AcceptStart, RecoverStart
<1>8. CASE ActivateVerify \/ AcceptVerify \/ RecoverVerify
  <2>1. CASE ActivateVerify
    BY <2>1 DEF files, service, bounds, VerifyRunning, ActivateVerify
  <2>2. CASE AcceptVerify
    BY <2>2 DEF files, service, bounds, VerifyRunning, AcceptVerify
  <2>3. CASE RecoverVerify
    BY <2>3 DEF files, service, bounds, VerifyRunning, RecoverVerify
  <2> QED BY <1>8, <2>1, <2>2, <2>3
<1>9. CASE Prepare \/ Mark \/ Backup \/ ActivateRecord \/ Inject
  <2>1. CASE Prepare
    BY <2>1 DEF files, service, bounds, SavePlan, Copy, Prepare
  <2>2. CASE Mark
    BY <2>2 DEF files, service, bounds, SavePlan, Copy, Mark
  <2>3. CASE Backup
    BY <2>3 DEF files, service, bounds, SavePlan, Copy, Backup
  <2>4. CASE ActivateRecord
    BY <2>4 DEF files, service, bounds, SavePlan, Copy, ActivateRecord
  <2>5. CASE Inject
    BY <2>5 DEF files, service, bounds, SavePlan, Copy, Inject
  <2> QED BY <1>9, <2>1, <2>2, <2>3, <2>4, <2>5
<1>10. CASE AcceptRecord \/ RecoverRecord
  <2>1. CASE AcceptRecord
    BY <2>1 DEF files, service, bounds, SavePlan, AcceptRecord
  <2>2. CASE RecoverRecord
    BY <2>2 DEF files, service, bounds, SavePlan, RecoverRecord
  <2> QED BY <1>10, <2>1, <2>2
<1>11. CASE Die \/ Reboot
    BY <1>11 DEF files, service, bounds, Die, Reboot
<1>12. CASE UNCHANGED vars
  BY <1>12 DEF vars, files, service, bounds
<1> QED BY <1>1, <1>2, <1>3, <1>4, <1>5, <1>6, <1>7, <1>8, <1>9, <1>10, <1>11,
     <1>12 DEF Next, Command, Switching, Accepting, Undoing

(* One release is loaded and runs, unless the host rebooted. *)
LEMMA StepUniform ==
  ASSUME TypeOK, Marked, Staged, Uniform, [Next]_vars
  PROVE  Uniform'
<1> USE DEF Uniform, Staged, All, SwitchPCs, UndoPCs, TypeOK, Releases, ActivatePCs, AcceptPCs, RecoverPCs
<1>1. CASE Trial \/ Activate \/ Recover \/ RecoverNothing
    BY <1>1 DEF files, service, bounds, vars, Trial, Activate, Recover,
     RecoverNothing
<1>2. CASE ActivateStop \/ AcceptRestart \/ RecoverStop
    BY <1>2 DEF files, service, bounds, StopUnits, ActivateStop,
     AcceptRestart, RecoverStop
<1>3. CASE ActivateUnits \/ RecoverUnits
    BY <1>3 DEF files, service, bounds, WriteUnits, ActivateUnits,
     RecoverUnits
<1>4. CASE ActivateInstall \/ AcceptInstall \/ RecoverInstall
    BY <1>4 DEF files, service, bounds, WriteInstall, ActivateInstall,
     AcceptInstall, RecoverInstall
<1>5. CASE AcceptEvidence \/ RecoverEvidence
    BY <1>5 DEF files, service, bounds, WriteEvidence, AcceptEvidence,
     RecoverEvidence
<1>6. CASE ActivateReload \/ RecoverReload
    BY <1>6 DEF files, service, bounds, ReloadUnits, ActivateReload,
     RecoverReload
<1>7. CASE ActivateStart \/ AcceptStart \/ RecoverStart
    BY <1>7 DEF files, service, bounds, StartUnits, ActivateStart,
     AcceptStart, RecoverStart
<1>8. CASE ActivateVerify \/ AcceptVerify \/ RecoverVerify
  <2>1. CASE ActivateVerify
    BY <2>1 DEF files, service, bounds, VerifyRunning, ActivateVerify
  <2>2. CASE AcceptVerify
    BY <2>2 DEF files, service, bounds, VerifyRunning, AcceptVerify
  <2>3. CASE RecoverVerify
    BY <2>3 DEF files, service, bounds, VerifyRunning, RecoverVerify
  <2> QED BY <1>8, <2>1, <2>2, <2>3
<1>9. CASE Prepare \/ Mark \/ Backup \/ ActivateRecord \/ Inject
  <2>1. CASE Prepare
    BY <2>1 DEF files, service, bounds, SavePlan, Copy, Prepare
  <2>2. CASE Mark
    BY <2>2 DEF files, service, bounds, SavePlan, Copy, Mark
  <2>3. CASE Backup
    BY <2>3 DEF files, service, bounds, SavePlan, Copy, Backup
  <2>4. CASE ActivateRecord
    BY <2>4 DEF files, service, bounds, SavePlan, Copy, ActivateRecord
  <2>5. CASE Inject
    BY <2>5 DEF files, service, bounds, SavePlan, Copy, Inject
  <2> QED BY <1>9, <2>1, <2>2, <2>3, <2>4, <2>5
<1>10. CASE AcceptRecord \/ RecoverRecord
  <2>1. CASE AcceptRecord
    BY <2>1 DEF files, service, bounds, SavePlan, AcceptRecord
  <2>2. CASE RecoverRecord
    BY <2>2 DEF files, service, bounds, SavePlan, RecoverRecord
  <2> QED BY <1>10, <2>1, <2>2
<1>11. CASE Die \/ Reboot
    BY <1>11 DEF files, service, bounds, Die, Reboot
<1>12. CASE UNCHANGED vars
  BY <1>12 DEF vars, files, service, bounds
<1> QED BY <1>1, <1>2, <1>3, <1>4, <1>5, <1>6, <1>7, <1>8, <1>9, <1>10, <1>11,
     <1>12 DEF Next, Command, Switching, Accepting, Undoing

(* What a command was granted stays granted, and it starts one release. *)
LEMMA StepUnderway ==
  ASSUME TypeOK, Marked, Staged, Underway, [Next]_vars
  PROVE  Underway'
<1> USE DEF Underway, Staged, All, SwitchPCs, UndoPCs, TypeOK, Plans, Releases, ActivatePCs, AcceptPCs,
        RecoverPCs
<1>1. CASE Trial \/ Activate \/ Recover \/ RecoverNothing
    BY <1>1 DEF files, service, bounds, vars, Trial, Activate, Recover,
     RecoverNothing
<1>2. CASE ActivateStop \/ AcceptRestart \/ RecoverStop
    BY <1>2 DEF files, service, bounds, StopUnits, ActivateStop,
     AcceptRestart, RecoverStop
<1>3. CASE ActivateUnits \/ RecoverUnits
    BY <1>3 DEF files, service, bounds, WriteUnits, ActivateUnits,
     RecoverUnits
<1>4. CASE ActivateInstall \/ AcceptInstall \/ RecoverInstall
    BY <1>4 DEF files, service, bounds, WriteInstall, ActivateInstall,
     AcceptInstall, RecoverInstall
<1>5. CASE AcceptEvidence \/ RecoverEvidence
    BY <1>5 DEF files, service, bounds, WriteEvidence, AcceptEvidence,
     RecoverEvidence
<1>6. CASE ActivateReload \/ RecoverReload
    BY <1>6 DEF files, service, bounds, ReloadUnits, ActivateReload,
     RecoverReload
<1>7. CASE ActivateStart \/ AcceptStart \/ RecoverStart
    BY <1>7 DEF files, service, bounds, StartUnits, ActivateStart,
     AcceptStart, RecoverStart
<1>8. CASE ActivateVerify \/ AcceptVerify \/ RecoverVerify
  <2>1. CASE ActivateVerify
    BY <2>1 DEF files, service, bounds, VerifyRunning, ActivateVerify
  <2>2. CASE AcceptVerify
    BY <2>2 DEF files, service, bounds, VerifyRunning, AcceptVerify
  <2>3. CASE RecoverVerify
    BY <2>3 DEF files, service, bounds, VerifyRunning, RecoverVerify
  <2> QED BY <1>8, <2>1, <2>2, <2>3
<1>9. CASE Prepare \/ Mark \/ Backup \/ ActivateRecord \/ Inject
  <2>1. CASE Prepare
    BY <2>1 DEF files, service, bounds, SavePlan, Copy, Prepare
  <2>2. CASE Mark
    BY <2>2 DEF files, service, bounds, SavePlan, Copy, Mark
  <2>3. CASE Backup
    BY <2>3 DEF files, service, bounds, SavePlan, Copy, Backup
  <2>4. CASE ActivateRecord
    BY <2>4 DEF files, service, bounds, SavePlan, Copy, ActivateRecord
  <2>5. CASE Inject
    BY <2>5 DEF files, service, bounds, SavePlan, Copy, Inject
  <2> QED BY <1>9, <2>1, <2>2, <2>3, <2>4, <2>5
<1>10. CASE AcceptRecord \/ RecoverRecord
  <2>1. CASE AcceptRecord
    BY <2>1 DEF files, service, bounds, SavePlan, AcceptRecord
  <2>2. CASE RecoverRecord
    BY <2>2 DEF files, service, bounds, SavePlan, RecoverRecord
  <2> QED BY <1>10, <2>1, <2>2
<1>11. CASE Die \/ Reboot
    BY <1>11 DEF files, service, bounds, Die, Reboot
<1>12. CASE UNCHANGED vars
  BY <1>12 DEF vars, files, service, bounds
<1> QED BY <1>1, <1>2, <1>3, <1>4, <1>5, <1>6, <1>7, <1>8, <1>9, <1>10, <1>11,
     <1>12 DEF Next, Command, Switching, Accepting, Undoing

(* Without an owed undo the host is the old one or the accepted one. *)
LEMMA StepRests ==
  ASSUME TypeOK, Marked, Staged, RestIsConsistent, [Next]_vars
  PROVE  RestIsConsistent'
<1> USE DEF RestIsConsistent, System, Before, After, Every, Marked, Staged, All, SwitchPCs, UndoPCs, TypeOK, Plans, Releases, ActivatePCs, AcceptPCs, RecoverPCs
<1>1. CASE Trial \/ Activate \/ Recover \/ RecoverNothing
    BY <1>1 DEF files, service, bounds, vars, Trial, Activate, Recover,
     RecoverNothing
<1>2. CASE ActivateStop \/ AcceptRestart \/ RecoverStop
    BY <1>2 DEF files, service, bounds, StopUnits, ActivateStop,
     AcceptRestart, RecoverStop
<1>3. CASE ActivateUnits \/ RecoverUnits
    BY <1>3 DEF files, service, bounds, WriteUnits, ActivateUnits,
     RecoverUnits
<1>4. CASE ActivateInstall \/ AcceptInstall \/ RecoverInstall
    BY <1>4 DEF files, service, bounds, WriteInstall, ActivateInstall,
     AcceptInstall, RecoverInstall
<1>5. CASE AcceptEvidence \/ RecoverEvidence
    BY <1>5 DEF files, service, bounds, WriteEvidence, AcceptEvidence,
     RecoverEvidence
<1>6. CASE ActivateReload \/ RecoverReload
    BY <1>6 DEF files, service, bounds, ReloadUnits, ActivateReload,
     RecoverReload
<1>7. CASE ActivateStart \/ AcceptStart \/ RecoverStart
    BY <1>7 DEF files, service, bounds, StartUnits, ActivateStart,
     AcceptStart, RecoverStart
<1>8. CASE ActivateVerify \/ AcceptVerify \/ RecoverVerify
  <2>1. CASE ActivateVerify
    BY <2>1 DEF files, service, bounds, VerifyRunning, ActivateVerify
  <2>2. CASE AcceptVerify
    BY <2>2 DEF files, service, bounds, VerifyRunning, AcceptVerify
  <2>3. CASE RecoverVerify
    BY <2>3 DEF files, service, bounds, VerifyRunning, RecoverVerify
  <2> QED BY <1>8, <2>1, <2>2, <2>3
<1>9. CASE Prepare \/ Mark \/ Backup \/ ActivateRecord \/ Inject
  <2>1. CASE Prepare
    BY <2>1 DEF files, service, bounds, SavePlan, Copy, Prepare
  <2>2. CASE Mark
    BY <2>2 DEF files, service, bounds, SavePlan, Copy, Mark
  <2>3. CASE Backup
    BY <2>3 DEF files, service, bounds, SavePlan, Copy, Backup
  <2>4. CASE ActivateRecord
    BY <2>4 DEF files, service, bounds, SavePlan, Copy, ActivateRecord
  <2>5. CASE Inject
    BY <2>5 DEF files, service, bounds, SavePlan, Copy, Inject
  <2> QED BY <1>9, <2>1, <2>2, <2>3, <2>4, <2>5
<1>10. CASE AcceptRecord \/ RecoverRecord
  <2>1. CASE AcceptRecord
    BY <2>1 DEF files, service, bounds, SavePlan, AcceptRecord
  <2>2. CASE RecoverRecord
    BY <2>2 DEF files, service, bounds, SavePlan, RecoverRecord
  <2> QED BY <1>10, <2>1, <2>2
<1>11. CASE Die \/ Reboot
    BY <1>11 DEF files, service, bounds, Die, Reboot
<1>12. CASE UNCHANGED vars
  BY <1>12 DEF vars, files, service, bounds
<1> QED BY <1>1, <1>2, <1>3, <1>4, <1>5, <1>6, <1>7, <1>8, <1>9, <1>10, <1>11,
     <1>12 DEF Next, Command, Switching, Accepting, Undoing

(* The invariant holds before the upgrade begins. *)
LEMMA InitIInv == Init => TypeOK /\ IInv
<1> SUFFICES ASSUME Init PROVE TypeOK /\ IInv
  OBVIOUS
<1>1. TypeOK
  <2>1. plan \in Plans
    BY DEF Init, Plans, Phases
  <2>2. /\ unit \in [Roles -> Releases] /\ loaded \in [Roles -> Releases]
        /\ running \in [Roles -> Releases \cup {"down"}]
    BY DEF Init, Every, Releases
  <2>3. pc \in PCs /\ evidence \in Releases
    BY DEF Init, PCs, Releases
  <2>4. deaths \in 0..MaxDeaths /\ reboots \in 0..MaxReboots /\ milestone \in 0..3
    BY BoundAssumption DEF Init
  <2> QED BY <2>1, <2>2, <2>3, <2>4 DEF Init, TypeOK
<1>2. RestIsConsistent
  BY DEF Init, RestIsConsistent, System, Before
<1>3. Marked /\ Staged /\ Witnessed
  BY DEF Init, Marked, Staged, Witnessed, SwitchPCs, UndoPCs, ActivatePCs, AcceptPCs, RecoverPCs
<1>4. BackedUp /\ Uniform
  BY DEF Init, BackedUp, Uniform, Every, Releases, SwitchPCs, ActivatePCs, AcceptPCs
<1>5. Underway
  BY DEF Init, Underway
<1> QED BY <1>1, <1>2, <1>3, <1>4, <1>5 DEF IInv

(* Every reachable state satisfies it. *)
LEMMA Invariant == Spec => [](TypeOK /\ IInv)
<1>1. TypeOK /\ IInv /\ [Next]_vars => TypeOK' /\ IInv'
  BY StepTyped, StepMarked, StepStaged, StepWitnessed, StepBackedUp, StepUniform, StepUnderway,
     StepRests DEF IInv
<1> QED BY <1>1, InitIInv, PTL DEF Spec

(* Type correctness: plan, files and processes only ever hold the values   *)
(* the code gives them.                                                    *)
THEOREM TypeCorrect == Spec => []TypeOK
<1> QED BY Invariant, PTL

(* While no undo is owed the host is completely old, or completely new and *)
(* accepted, for any applications, deaths and reboots.                     *)
THEOREM NoHalfDoneRest == Spec => []RestIsConsistent
<1>1. IInv => RestIsConsistent
  BY DEF IInv
<1> QED BY <1>1, Invariant, PTL

(* Acceptance follows a verified candidate, a verified rollback and a      *)
(* verified candidate, in that order.                                      *)
THEOREM AcceptanceIsEarned == Spec => []AcceptedIsProven
<1>1. IInv => AcceptedIsProven
  BY DEF IInv, Witnessed, AcceptedIsProven
<1> QED BY <1>1, Invariant, PTL

(* The recorded backup is of a ledger no candidate process had run on.     *)
THEOREM BackupComesFirst == Spec => []BackupPredatesCandidate
<1>1. IInv => BackupPredatesCandidate
  BY DEF IInv, BackedUp, BackupPredatesCandidate
<1> QED BY <1>1, Invariant, PTL

(* The releases run side by side only after a reboot within a switch.      *)
THEOREM NoMixedService == Spec => []MixedOnlyAfterReboot
<1>1. TypeOK /\ IInv => MixedOnlyAfterReboot
  <2> SUFFICES ASSUME TypeOK, IInv, Mixed PROVE reboots > 0 /\ plan.recover
    BY DEF MixedOnlyAfterReboot
  <2>1. PICK r \in Roles, s \in Roles : running[r] = "old" /\ running[s] = "new"
    BY DEF Mixed
  <2>2. reboots # 0
    BY <2>1 DEF IInv, Uniform, Releases
  <2>3. plan.recover
    BY <2>1 DEF IInv, RestIsConsistent, System, Before, After, Every, TypeOK, Plans
  <2> QED BY <2>2, <2>3, BoundAssumption DEF TypeOK
<1> QED BY <1>1, Invariant, PTL

-----------------------------------------------------------------------------
(* What a run nobody disturbs leaves: an undo is owed only with the failed  *)
(* trial on record, and what recover leaves of it is proven.                *)
Unhurt ==
  deaths + reboots = 0 =>
    /\ plan.recover /\ pc \in {"idle"} \cup RecoverPCs =>
         plan.injected /\ plan.phase = "candidate-verified"
    /\ pc = "inject" => plan.phase = "candidate-verified"
    /\ work /\ pc = "idle" /\ ~plan.recover /\ ~plan.accepted =>
         plan.proven /\ plan.phase = "rolled-back"

(* A step that is no fault keeps it, and a fault makes it void. *)
LEMMA StepUnhurt ==
  ASSUME TypeOK, IInv, Unhurt, [Next]_vars
  PROVE  Unhurt'
<1> USE DEF Unhurt, IInv, Marked, SwitchPCs, TypeOK, Plans, ActivatePCs, AcceptPCs, RecoverPCs
<1>1. CASE Trial \/ Activate \/ Recover \/ RecoverNothing
    BY <1>1 DEF files, service, bounds, vars, Trial, Activate, Recover,
     RecoverNothing
<1>2. CASE ActivateStop \/ AcceptRestart \/ RecoverStop
    BY <1>2 DEF files, service, bounds, StopUnits, ActivateStop,
     AcceptRestart, RecoverStop
<1>3. CASE ActivateUnits \/ RecoverUnits
    BY <1>3 DEF files, service, bounds, WriteUnits, ActivateUnits,
     RecoverUnits
<1>4. CASE ActivateInstall \/ AcceptInstall \/ RecoverInstall
    BY <1>4 DEF files, service, bounds, WriteInstall, ActivateInstall,
     AcceptInstall, RecoverInstall
<1>5. CASE AcceptEvidence \/ RecoverEvidence
    BY <1>5 DEF files, service, bounds, WriteEvidence, AcceptEvidence,
     RecoverEvidence
<1>6. CASE ActivateReload \/ RecoverReload
    BY <1>6 DEF files, service, bounds, ReloadUnits, ActivateReload,
     RecoverReload
<1>7. CASE ActivateStart \/ AcceptStart \/ RecoverStart
    BY <1>7 DEF files, service, bounds, StartUnits, ActivateStart,
     AcceptStart, RecoverStart
<1>8. CASE ActivateVerify \/ AcceptVerify \/ RecoverVerify
  <2>1. CASE ActivateVerify
    BY <2>1 DEF files, service, bounds, VerifyRunning, ActivateVerify
  <2>2. CASE AcceptVerify
    BY <2>2 DEF files, service, bounds, VerifyRunning, AcceptVerify
  <2>3. CASE RecoverVerify
    BY <2>3 DEF files, service, bounds, VerifyRunning, RecoverVerify
  <2> QED BY <1>8, <2>1, <2>2, <2>3
<1>9. CASE Prepare \/ Mark \/ Backup \/ ActivateRecord \/ Inject
  <2>1. CASE Prepare
    BY <2>1 DEF files, service, bounds, SavePlan, Copy, Prepare
  <2>2. CASE Mark
    BY <2>2 DEF files, service, bounds, SavePlan, Copy, Mark
  <2>3. CASE Backup
    BY <2>3 DEF files, service, bounds, SavePlan, Copy, Backup
  <2>4. CASE ActivateRecord
    BY <2>4 DEF files, service, bounds, SavePlan, Copy, ActivateRecord
  <2>5. CASE Inject
    BY <2>5 DEF files, service, bounds, SavePlan, Copy, Inject
  <2> QED BY <1>9, <2>1, <2>2, <2>3, <2>4, <2>5
<1>10. CASE AcceptRecord \/ RecoverRecord
  <2>1. CASE AcceptRecord
    BY <2>1 DEF files, service, bounds, SavePlan, AcceptRecord
  <2>2. CASE RecoverRecord
    BY <2>2 DEF files, service, bounds, SavePlan, RecoverRecord
  <2> QED BY <1>10, <2>1, <2>2
<1>11. CASE Die \/ Reboot
    BY <1>11 DEF files, service, bounds, Die, Reboot
<1>12. CASE UNCHANGED vars
  BY <1>12 DEF vars, files, service, bounds
<1> QED BY <1>1, <1>2, <1>3, <1>4, <1>5, <1>6, <1>7, <1>8, <1>9, <1>10, <1>11,
     <1>12 DEF Next, Command, Switching, Accepting, Undoing

(* Only a fault takes the upgrade to a place that no command leads out of.  *)
THEOREM NeverStuckAlone == Spec => []StuckOnlyAfterFault
<1>1. Init => Unhurt
  BY DEF Init, Unhurt, RecoverPCs
<1>2. TypeOK /\ IInv /\ Unhurt /\ [Next]_vars => Unhurt'
  BY StepUnhurt
<1>3. TypeOK /\ Unhurt => StuckOnlyAfterFault
  BY BoundAssumption DEF TypeOK, Unhurt, StuckOnlyAfterFault, Stuck
<1> QED BY <1>1, <1>2, <1>3, Invariant, PTL DEF Spec

-----------------------------------------------------------------------------
(* A command at work between its marks is a change of an open system.      *)
LEMMA OpenStep ==
  ASSUME TypeOK, Marked, pc \in SwitchPCs \cup RecoverPCs,
         UNCHANGED <<plan.recover, plan.accepted, plan.proven>>,
         milestone > 0 => milestone' > 0
  PROVE  Change!Change
<1>1. plan.recover /\ ~plan.accepted
  BY DEF Marked
<1> QED BY <1>1 DEF Change!Change

(* Every step of the upgrade is a step of ReversibleChange or a stutter.   *)
LEMMA StepRefines ==
  ASSUME TypeOK, IInv, [Next]_vars
  PROVE  [Change!Next]_(Change!vars)
<1> USE DEF Change!Next, files, service
<1> DEFINE Calls == \/ ActivateStop \/ AcceptRestart \/ RecoverStop
                    \/ ActivateUnits \/ RecoverUnits
                    \/ ActivateInstall \/ AcceptInstall \/ RecoverInstall
                    \/ AcceptEvidence \/ RecoverEvidence
                    \/ ActivateReload \/ RecoverReload
                    \/ ActivateStart \/ AcceptStart \/ RecoverStart
<1>1. CASE Trial \/ Activate \/ Recover \/ RecoverNothing \/ Die \/ UNCHANGED vars
  BY <1>1 DEF Change!vars, System, vars, Trial, Activate, Recover, RecoverNothing, Die
<1>2. CASE Prepare
  BY <1>2 DEF Change!vars, System, Prepare, SavePlan, TypeOK, Plans
<1>3. CASE Calls
  <2>1. pc \in SwitchPCs \cup RecoverPCs
    BY <1>3 DEF ActivateStop, AcceptRestart, RecoverStop, ActivateUnits, RecoverUnits,
       ActivateInstall, AcceptInstall, RecoverInstall, AcceptEvidence, RecoverEvidence,
       ActivateReload, RecoverReload, ActivateStart, AcceptStart, RecoverStart, StopUnits,
       WriteUnits, WriteInstall, WriteEvidence, ReloadUnits, StartUnits,
       SwitchPCs, ActivatePCs, AcceptPCs, RecoverPCs
  <2>2. UNCHANGED <<plan, milestone>>
    BY <1>3 DEF ActivateStop, AcceptRestart, RecoverStop, ActivateUnits, RecoverUnits,
       ActivateInstall, AcceptInstall, RecoverInstall, AcceptEvidence, RecoverEvidence,
       ActivateReload, RecoverReload, ActivateStart, AcceptStart, RecoverStart, StopUnits,
       WriteUnits, WriteInstall, WriteEvidence, ReloadUnits, StartUnits
  <2> QED BY <2>1, <2>2, OpenStep DEF IInv
<1>4. CASE ActivateVerify \/ AcceptVerify \/ RecoverVerify
  <2>1. pc \in SwitchPCs \cup RecoverPCs
    BY <1>4 DEF ActivateVerify, AcceptVerify, RecoverVerify, VerifyRunning,
       SwitchPCs, ActivatePCs, AcceptPCs, RecoverPCs
  <2>2. UNCHANGED plan /\ (milestone > 0 => milestone' > 0)
    BY <1>4 DEF ActivateVerify, AcceptVerify, RecoverVerify, VerifyRunning, TypeOK
  <2> QED BY <2>1, <2>2, OpenStep DEF IInv
<1>5. CASE Backup \/ ActivateRecord \/ Inject
  <2>1. pc \in SwitchPCs \cup RecoverPCs
    BY <1>5 DEF Backup, ActivateRecord, Inject, SavePlan, SwitchPCs, ActivatePCs
  <2>2. UNCHANGED <<plan.recover, plan.accepted, plan.proven, milestone>>
    BY <1>5 DEF Backup, ActivateRecord, Inject, SavePlan, TypeOK, Plans
  <2> QED BY <2>1, <2>2, OpenStep DEF IInv
<1>6. CASE Mark
  <2>1. /\ ~plan.recover /\ ~plan.accepted /\ plan'.recover /\ ~plan'.accepted
        /\ plan'.proven = plan.proven
    BY <1>6 DEF Mark, SavePlan, TypeOK, Plans
  <2>2. System' = System /\ milestone' = milestone
    BY <1>6 DEF Mark, SavePlan, System
  <2> QED BY <2>1, <2>2 DEF Change!Open
<1>7. CASE AcceptRecord
  <2>1. /\ plan.recover /\ ~plan.accepted /\ plan.proven /\ plan'.accepted
        /\ plan'.proven = plan.proven
    BY <1>7 DEF AcceptRecord, SavePlan, TypeOK, Plans, IInv, Marked, Witnessed,
       SwitchPCs, AcceptPCs
  <2>2. unit = Every("new") /\ loaded = Every("new") /\ running = Every("new")
    BY <1>7 DEF AcceptRecord, SavePlan, IInv, Staged, SwitchPCs, AcceptPCs, All, Every, TypeOK
  <2>3. install = "accepted" /\ evidence = "new"
    BY <1>7 DEF AcceptRecord, SavePlan, IInv, Staged
  <2>4. System = After
    BY <2>2, <2>3 DEF System, After
  <2>5. System' = System /\ milestone' = milestone
    BY <1>7 DEF AcceptRecord, SavePlan, System
  <2> QED BY <2>1, <2>4, <2>5 DEF Change!Accept
<1>8. CASE RecoverRecord
  <2>1. /\ plan.recover /\ ~plan.accepted /\ ~plan'.recover /\ ~plan'.accepted
        /\ plan'.proven \in {plan.proven, milestone > 0}
    <3>1. plan.recover /\ ~plan.accepted
      BY <1>8 DEF RecoverRecord, SavePlan, IInv, Marked, RecoverPCs
    <3>2. plan' = [plan EXCEPT !.proven = @ \/ (plan.injected /\ plan.phase = "candidate-verified"),
                               !.phase = "rolled-back", !.recover = FALSE]
      BY <1>8 DEF RecoverRecord, SavePlan
    <3>3. plan'.proven = (plan.proven \/ (plan.injected /\ plan.phase = "candidate-verified"))
      BY <3>2 DEF TypeOK, Plans
    <3>4. plan.phase = "candidate-verified" => milestone > 0
      BY DEF IInv, Witnessed, TypeOK
    <3>5. ~plan'.recover /\ plan'.accepted = plan.accepted
      BY <3>2 DEF TypeOK, Plans
    <3> QED BY <3>1, <3>3, <3>4, <3>5 DEF TypeOK, Plans
  <2>2. unit = Every("old") /\ loaded = Every("old") /\ running = Every("old")
    BY <1>8 DEF RecoverRecord, SavePlan, IInv, Staged, RecoverPCs, UndoPCs, All, Every, TypeOK
  <2>3. install = "old" /\ evidence = "old"
    BY <1>8 DEF RecoverRecord, SavePlan, IInv, Staged, RecoverPCs, UndoPCs
  <2>4. System = Before
    BY <2>2, <2>3 DEF System, Before
  <2>5. System' = System /\ milestone' = milestone
    BY <1>8 DEF RecoverRecord, SavePlan, System
  <2> QED BY <2>1, <2>4, <2>5 DEF Change!Undo
<1>9. CASE Reboot
  <2>1. UNCHANGED <<unit, install, evidence, plan, milestone>> /\ loaded' = unit /\ running' = unit
    BY <1>9 DEF Reboot
  <2>2. CASE plan.recover
    BY <2>1, <2>2 DEF Change!Change, IInv, Marked
  <2>3. CASE ~plan.recover
    <3>1. loaded = unit /\ running = unit
      BY <2>3 DEF IInv, RestIsConsistent, System, Before, After, Every
    <3> QED BY <2>1, <3>1 DEF Change!vars, System
  <2> QED BY <2>2, <2>3
<1> QED BY <1>1, <1>2, <1>3, <1>4, <1>5, <1>6, <1>7, <1>8, <1>9
        DEF Next, Command, Switching, Accepting, Undoing

(* The upgrade implements ReversibleChange: closed, open or accepted, and  *)
(* nothing of the host changes unless it is open.                          *)
THEOREM Reversible == Spec => ImplementsReversibleChange
<1>1. Init => Change!Init
  BY DEF Init, Change!Init, System, Before
<1> QED BY <1>1, StepRefines, Invariant, PTL DEF Spec, Change!Spec, ImplementsReversibleChange
-----------------------------------------------------------------------------
(* Commands end, and an owed undo is near.                                 *)

(* No command finds at its own checks that its own work is not done.       *)
THEOREM ChecksAreMet == Spec => []NoCheckRefuses
<1>1. TypeOK /\ IInv => NoCheckRefuses
  <2> SUFFICES ASSUME TypeOK, IInv PROVE NoCheckRefuses
    OBVIOUS
  <2> USE DEF IInv, SwitchPCs, UndoPCs, ActivatePCs, AcceptPCs, RecoverPCs, All
  <2>1. pc = "mark" => /\ ~plan.accepted /\ ~plan.recover /\ All(unit, "old")
                       /\ plan.phase \in {"prepared", "rolled-back"}
    BY DEF Marked, RestIsConsistent, System, Before, Every, Underway
  <2>2. pc = "restart" => plan.phase = "candidate-verified" /\ plan.recover /\ plan.proven
    BY DEF Marked, Witnessed, Underway
  <2>3. pc \in {"verify", "reverify"} => All(unit, "new") /\ All(running, "new")
    BY DEF Staged, Underway
  <2>4. pc = "undoVerify" => All(unit, "old") /\ All(running, "old")
    BY DEF Staged, Underway
  <2> QED BY <2>1, <2>2, <2>3, <2>4 DEF NoCheckRefuses
<1> QED BY <1>1, Invariant, PTL

(* The steps left, place by place. *)
LEMMA StepsAt ==
  ASSUME NEW n, NEW up, NEW down, NEW wrong
  PROVE  /\ StepsFrom("owed", n, up, down, wrong) = 3 * n + 9
         /\ StepsFrom("idle", n, up, down, wrong) = 0
         /\ StepsFrom("undo", n, up, down, wrong) = up + 2 * n + 8
         /\ StepsFrom("undoUnits", n, up, down, wrong) = wrong + n + 7
         /\ StepsFrom("undoInstall", n, up, down, wrong) = n + 6
         /\ StepsFrom("undoEvidence", n, up, down, wrong) = n + 5
         /\ StepsFrom("undoReload", n, up, down, wrong) = n + 4
         /\ StepsFrom("undoStart", n, up, down, wrong) = down + 3
         /\ StepsFrom("undoVerify", n, up, down, wrong) = 2
         /\ StepsFrom("undone", n, up, down, wrong) = 1
         /\ StepsFrom("prepare", n, up, down, wrong) = 8 * n + 25
         /\ StepsFrom("mark", n, up, down, wrong) = 8 * n + 24
         /\ StepsFrom("stop", n, up, down, wrong) = up + 7 * n + 23
         /\ StepsFrom("backup", n, up, down, wrong) = 7 * n + 22
         /\ StepsFrom("units", n, up, down, wrong) = wrong + 6 * n + 21
         /\ StepsFrom("install", n, up, down, wrong) = 6 * n + 20
         /\ StepsFrom("reload", n, up, down, wrong) = 6 * n + 19
         /\ StepsFrom("start", n, up, down, wrong) = down + 5 * n + 18
         /\ StepsFrom("verify", n, up, down, wrong) = 5 * n + 17
         /\ StepsFrom("record", n, up, down, wrong) = 5 * n + 16
         /\ StepsFrom("inject", n, up, down, wrong) = 3 * n + 10
         /\ StepsFrom("restart", n, up, down, wrong) = up + 4 * n + 15
         /\ StepsFrom("restarting", n, up, down, wrong) = down + 3 * n + 14
         /\ StepsFrom("reverify", n, up, down, wrong) = 3 * n + 13
         /\ StepsFrom("acceptInstall", n, up, down, wrong) = 3 * n + 12
         /\ StepsFrom("acceptEvidence", n, up, down, wrong) = 3 * n + 11
         /\ StepsFrom("accept", n, up, down, wrong) = 3 * n + 10
BY DEF StepsFrom

(* A loop has no more before it than there are applications.               *)
LEMMA Part ==
  ASSUME NEW S \in SUBSET Roles
  PROVE  /\ IsFiniteSet(S) /\ Cardinality(S) \in Nat /\ Cardinality(Roles) \in Nat
         /\ Cardinality(S) <= Cardinality(Roles)
         /\ \A r \in S : Cardinality(S \ {r}) = Cardinality(S) - 1
BY FiniteAssumption, FS_Subset, FS_CardinalityType, FS_RemoveElement

(* Stopping units: one less is up, or the next step is reached. *)
LEMMA StopShortens ==
  ASSUME TypeOK, NEW here, NEW next, StopUnits(here, next)
  PROVE  /\ pc = here /\ plan' = plan
         /\ pc' = next \/ (pc' = here /\ Cardinality(Up') = Cardinality(Up) - 1)
<1>1. CASE All(running, "down")
  BY <1>1 DEF StopUnits
<1>2. CASE ~All(running, "down")
  <2>1. PICK r \in Roles : running[r] # "down" /\ running' = [running EXCEPT ![r] = "down"]
    BY <1>2 DEF StopUnits
  <2>2. r \in Up /\ Up' = Up \ {r} /\ Up \in SUBSET Roles
    BY <2>1 DEF Up, TypeOK
  <2> QED BY <1>2, <2>2, Part DEF StopUnits
<1> QED BY <1>1, <1>2

(* Starting units: one less is down, or the next step is reached. *)
LEMMA StartShortens ==
  ASSUME TypeOK, NEW here, NEW next, StartUnits(here, next)
  PROVE  /\ pc = here /\ plan' = plan
         /\ pc' = next \/ (pc' = here /\ Cardinality(Down') = Cardinality(Down) - 1)
<1>1. CASE \A r \in Roles : running[r] # "down"
  BY <1>1 DEF StartUnits
<1>2. CASE ~\A r \in Roles : running[r] # "down"
  <2>1. PICK r \in Roles : running[r] = "down" /\ running' = [running EXCEPT ![r] = loaded[r]]
    BY <1>2 DEF StartUnits
  <2>2. r \in Down /\ Down' = Down \ {r} /\ Down \in SUBSET Roles
    BY <2>1 DEF Down, TypeOK, Releases
  <2> QED BY <1>2, <2>2, Part DEF StartUnits
<1> QED BY <1>1, <1>2

(* Writing units: one less is wrong, or the next step is reached. *)
LEMMA WriteShortens ==
  ASSUME TypeOK, NEW here, NEW next, NEW release, WriteUnits(here, release, next),
         <<here, release>> \in {<<"units", "new">>, <<"undoUnits", "old">>}
  PROVE  /\ pc = here /\ plan' = plan
         /\ pc' = next \/ (pc' = here /\ Cardinality(Wrong') = Cardinality(Wrong) - 1)
<1>1. CASE All(unit, release)
  BY <1>1 DEF WriteUnits
<1>2. CASE ~All(unit, release)
  <2>1. PICK r \in Roles : unit[r] # release /\ unit' = [unit EXCEPT ![r] = release]
    BY <1>2 DEF WriteUnits
  <2>2. pc = here /\ pc' = here
    BY <1>2 DEF WriteUnits
  <2>3. /\ Wrong = {s \in Roles : unit[s] # release}
        /\ Wrong' = {s \in Roles : unit'[s] # release}
    BY <2>2 DEF Wrong
  <2>4. r \in Wrong /\ Wrong' = Wrong \ {r} /\ Wrong \in SUBSET Roles
    BY <2>1, <2>3 DEF TypeOK
  <2> QED BY <1>2, <2>4, Part DEF WriteUnits
<1> QED BY <1>1, <1>2
(* While a command works or an undo is owed, each step is a death, a       *)
(* reboot, or one step less to go.                                         *)
LEMMA StepShortens ==
  ASSUME TypeOK, TypeOK', IInv, Next, pc # "idle" \/ plan.recover
  PROVE  \/ deaths' + reboots' > deaths + reboots
         \/ StepsLeft' \in 0..(StepsLeft - 1)
         \/ UNCHANGED vars
<1> DEFINE n == Cardinality(Roles)
           u == Cardinality(Up)
           d == Cardinality(Down)
           w == Cardinality(Wrong)
<1>1. n \in Nat /\ u \in 0..n /\ d \in 0..n /\ w \in 0..n
  <2>1. Up \in SUBSET Roles /\ Down \in SUBSET Roles /\ Wrong \in SUBSET Roles
    BY DEF Up, Down, Wrong
  <2> QED BY <2>1, Part
<1>2. u' \in 0..n /\ d' \in 0..n /\ w' \in 0..n
  <2>1. Up' \in SUBSET Roles /\ Down' \in SUBSET Roles /\ Wrong' \in SUBSET Roles
    BY DEF Up, Down, Wrong
  <2> QED BY <2>1, Part
<1>3. /\ pc # "idle" => Place = pc
      /\ pc = "idle" /\ plan.recover => Place = "owed"
      /\ pc' # "idle" => Place' = pc'
      /\ pc' = "idle" /\ ~plan'.recover => Place' = "idle"
      /\ pc' = "idle" => Place' \in {"owed", "idle"}
  BY DEF Place
<1>5. pc \in AcceptPCs \cup SwitchPCs \cup RecoverPCs => plan.recover
  BY DEF IInv, Marked, SwitchPCs
<1> SUFFICES \/ deaths' + reboots' > deaths + reboots
             \/ StepsFrom(Place', n, u', d', w') \in 0..(StepsFrom(Place, n, u, d, w) - 1)
             \/ UNCHANGED vars
  BY DEF StepsLeft
<1>4. /\ Cardinality(Up') = Cardinality(Up) - 1 => u' = u - 1
      /\ Cardinality(Down') = Cardinality(Down) - 1 => d' = d - 1
      /\ Cardinality(Wrong') = Cardinality(Wrong) - 1 => w' = w - 1
  OBVIOUS
<1> HIDE DEF n, u, d, w
<1>6. CASE Trial \/ Activate \/ RecoverNothing
  <2>1. plan.recover => work /\ plan.phase # "rolled-back"
    BY DEF IInv, Marked
  <2> QED BY <1>6, <2>1 DEF Trial, Activate, RecoverNothing
<1>7. CASE Recover
  <2>1. pc = "idle" /\ plan.recover /\ pc' = "undo"
    BY <1>7 DEF Recover
  <2> QED BY <1>1, <1>2, <1>3, <2>1, StepsAt
<1>8. CASE ActivateStop
  <2>1. /\ pc = "stop" /\ plan' = plan
        /\ pc' = "backup" \/ (pc' = "stop" /\ u' = u - 1)
    BY <1>8, <1>4, StopShortens DEF ActivateStop
  <2> QED BY <1>1, <1>2, <1>3, <2>1, StepsAt
<1>9. CASE AcceptRestart
  <2>1. /\ pc = "restart" /\ plan' = plan
        /\ pc' = "restarting" \/ (pc' = "restart" /\ u' = u - 1)
    BY <1>9, <1>4, StopShortens DEF AcceptRestart
  <2> QED BY <1>1, <1>2, <1>3, <2>1, StepsAt
<1>10. CASE RecoverStop
  <2>1. /\ pc = "undo" /\ plan' = plan
        /\ pc' = "undoUnits" \/ (pc' = "undo" /\ u' = u - 1)
    BY <1>10, <1>4, StopShortens DEF RecoverStop
  <2> QED BY <1>1, <1>2, <1>3, <2>1, StepsAt
<1>11. CASE ActivateUnits
  <2>1. /\ pc = "units" /\ plan' = plan
        /\ pc' = "install" \/ (pc' = "units" /\ w' = w - 1)
    BY <1>11, <1>4, WriteShortens DEF ActivateUnits
  <2> QED BY <1>1, <1>2, <1>3, <2>1, StepsAt
<1>12. CASE RecoverUnits
  <2>1. /\ pc = "undoUnits" /\ plan' = plan
        /\ pc' = "undoInstall" \/ (pc' = "undoUnits" /\ w' = w - 1)
    BY <1>12, <1>4, WriteShortens DEF RecoverUnits
  <2> QED BY <1>1, <1>2, <1>3, <2>1, StepsAt
<1>13. CASE ActivateStart
  <2>1. /\ pc = "start" /\ plan' = plan
        /\ pc' = "verify" \/ (pc' = "start" /\ d' = d - 1)
    BY <1>13, <1>4, StartShortens DEF ActivateStart
  <2> QED BY <1>1, <1>2, <1>3, <2>1, StepsAt
<1>14. CASE AcceptStart
  <2>1. /\ pc = "restarting" /\ plan' = plan
        /\ pc' = "reverify" \/ (pc' = "restarting" /\ d' = d - 1)
    BY <1>14, <1>4, StartShortens DEF AcceptStart
  <2> QED BY <1>1, <1>2, <1>3, <2>1, StepsAt
<1>15. CASE RecoverStart
  <2>1. /\ pc = "undoStart" /\ plan' = plan
        /\ pc' = "undoVerify" \/ (pc' = "undoStart" /\ d' = d - 1)
    BY <1>15, <1>4, StartShortens DEF RecoverStart
  <2> QED BY <1>1, <1>2, <1>3, <2>1, StepsAt
<1>16. CASE ActivateInstall \/ AcceptInstall \/ RecoverInstall
  <2>1. <<pc, pc'>> \in {<<"install", "reload">>, <<"acceptInstall", "acceptEvidence">>,
                         <<"undoInstall", "undoEvidence">>}
    BY <1>16 DEF ActivateInstall, AcceptInstall, RecoverInstall, WriteInstall
  <2> QED BY <1>1, <1>2, <1>3, <2>1, StepsAt
<1>17. CASE AcceptEvidence \/ RecoverEvidence
  <2>1. <<pc, pc'>> \in {<<"acceptEvidence", "accept">>, <<"undoEvidence", "undoReload">>}
    BY <1>17 DEF AcceptEvidence, RecoverEvidence, WriteEvidence
  <2> QED BY <1>1, <1>2, <1>3, <2>1, StepsAt
<1>18. CASE ActivateReload \/ RecoverReload
  <2>1. <<pc, pc'>> \in {<<"reload", "start">>, <<"undoReload", "undoStart">>}
    BY <1>18 DEF ActivateReload, RecoverReload, ReloadUnits
  <2> QED BY <1>1, <1>2, <1>3, <2>1, StepsAt
<1>19. CASE ActivateVerify \/ AcceptVerify \/ RecoverVerify
  <2>1. <<pc, pc'>> \in {<<"verify", "record">>, <<"reverify", "acceptInstall">>,
                         <<"undoVerify", "undone">>}
    BY <1>19 DEF ActivateVerify, AcceptVerify, RecoverVerify, VerifyRunning
  <2> QED BY <1>1, <1>2, <1>3, <2>1, StepsAt
<1>20. CASE Prepare \/ Mark \/ Backup \/ ActivateRecord
  <2>1. <<pc, pc'>> \in {<<"prepare", "mark">>, <<"mark", "stop">>, <<"backup", "units">>,
                         <<"record", "inject">>, <<"record", "restart">>}
    BY <1>20 DEF Prepare, Mark, Backup, ActivateRecord, SavePlan
  <2> QED BY <1>1, <1>2, <1>3, <2>1, StepsAt
<1>21. CASE Inject
  <2>1. pc = "inject" /\ pc' = "idle"
    BY <1>21 DEF Inject, SavePlan
  <2> QED BY <1>1, <1>2, <1>3, <2>1, StepsAt
<1>22. CASE AcceptRecord \/ RecoverRecord
  <2>1. pc \in {"accept", "undone"} /\ pc' = "idle" /\ ~plan'.recover
    BY <1>22 DEF AcceptRecord, RecoverRecord, SavePlan, TypeOK, Plans
  <2> QED BY <1>1, <1>2, <1>3, <2>1, StepsAt
<1>23. CASE Die \/ Reboot
  <2>1. deaths \in Nat /\ reboots \in Nat
    BY BoundAssumption DEF TypeOK
  <2>2. <<deaths', reboots'>> \in {<<deaths + 1, reboots>>, <<deaths, reboots + 1>>}
    BY <1>23 DEF Die, Reboot
  <2> QED BY <2>1, <2>2
<1> QED BY <1>6, <1>7, <1>8, <1>9, <1>10, <1>11, <1>12, <1>13, <1>14, <1>15, <1>16, <1>17, <1>18,
           <1>19, <1>20, <1>21, <1>22, <1>23 DEF Next, Command, Switching, Accepting, Undoing

(* An owed undo is never far: for any applications the steps left to it    *)
(* go down with every step but a death or a reboot, and no trial and no    *)
(* activation starts before it.                                            *)
THEOREM OwedUndoIsNear == Spec => UndoNears
<1>1. TypeOK /\ TypeOK' /\ IInv /\ [Next]_vars
        => [\/ pc = "idle" /\ ~plan.recover
            \/ deaths' + reboots' > deaths + reboots
            \/ StepsLeft' \in 0..(StepsLeft - 1)]_vars
  BY StepShortens
<1> QED BY <1>1, Invariant, PTL DEF Spec, UndoNears
=============================================================================
