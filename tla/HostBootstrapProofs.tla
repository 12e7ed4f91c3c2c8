------------------------- MODULE HostBootstrapProofs -------------------------
(***************************************************************************)
(* The safety properties of HostBootstrap, for any number of kills,        *)
(* failing calls and reboots.  The inductive invariant is IInv; each lemma  *)
(* Step... shows that one of its parts survives every step, phase by phase. *)
(***************************************************************************)
EXTENDS HostBootstrap, TLAPS

(* What a file or a service holds stays among the contents. *)
LEMMA ContentNames == "stock" \in Contents /\ "bootstrap" \in Contents /\ "final" \in Contents
BY DEF Contents

LEMMA ContentTyped ==
  ASSUME NEW f \in [Components -> Contents], NEW c, NEW v \in Contents
  PROVE  [f EXCEPT ![c] = v] \in [Components -> Contents]
OBVIOUS

(* A run that ends, one whose component failed, and the count of faults    *)
(* keep their types.                                                       *)
LEMMA EndedTyped ==
  ASSUME Ended
  PROVE  pc' \in Steps /\ comp' \in Components /\ old' \in Contents /\ kept' \in BOOLEAN
  BY DEF Ended, Steps, Components, Contents

LEMMA FailedTyped ==
  ASSUME TypeOK, Failed
  PROVE  pc' \in Steps /\ comp' \in Components /\ old' \in Contents /\ kept' \in BOOLEAN
<1>1. CASE comp = "ssh"
  <2>1. pc' \in Steps
    BY <1>1 DEF Failed, Steps
  <2> QED BY <1>1, <2>1 DEF Failed, TypeOK, run
<1>2. CASE comp # "ssh"
  BY <1>2, EndedTyped DEF Failed
<1> QED BY <1>1, <1>2

LEMMA FaultTyped ==
  ASSUME TypeOK, Fault
  PROVE  faults' \in 0..MaxFaults
  BY FaultsAssumption DEF TypeOK, Fault

(* Every variable keeps its type. *)
LEMMA StepTyped ==
  ASSUME TypeOK, [Next]_vars
  PROVE  TypeOK'
<1> USE FaultsAssumption DEF TypeOK, Steps, host, run, vars, At
<1>1. CASE Prepare \/ CreateAdmin \/ SetPassword \/ WriteTemporary \/ ReloadTemporary
  <2>1. CASE Prepare
    BY <2>1 DEF Prepare
  <2>2. CASE CreateAdmin
    BY <2>2 DEF CreateAdmin
  <2>3. CASE SetPassword
    BY <2>3 DEF SetPassword
  <2>4. CASE WriteTemporary
    BY <2>4 DEF WriteTemporary, AppearsFinalized
  <2>5. CASE ReloadTemporary
    BY <2>5 DEF ReloadTemporary, ReloadSsh
  <2> QED BY <1>1, <2>1, <2>2, <2>3, <2>4, <2>5
<1>2. CASE InstallRules \/ LoadRules \/ StartRules \/ RemoveUfw \/ InstallRulesAgain
  <2>1. CASE InstallRules
    BY <2>1, ContentNames, ContentTyped DEF InstallRules
  <2>2. CASE LoadRules
    BY <2>2, ContentNames, ContentTyped DEF LoadRules
  <2>3. CASE StartRules
    BY <2>3 DEF StartRules
  <2>4. CASE RemoveUfw
    BY <2>4 DEF RemoveUfw
  <2>5. CASE InstallRulesAgain
    BY <2>5, ContentNames, ContentTyped DEF InstallRulesAgain
  <2> QED BY <1>2, <2>1, <2>2, <2>3, <2>4, <2>5
<1>3. CASE InstallJail \/ StopJail \/ StartJail \/ VerifyPrepared
  <2>1. CASE InstallJail
    BY <2>1, ContentNames, ContentTyped DEF InstallJail
  <2>2. CASE StopJail
    BY <2>2, ContentNames, ContentTyped DEF StopJail
  <2>3. CASE StartJail
    BY <2>3 DEF StartJail
  <2>4. CASE VerifyPrepared
    BY <2>4, EndedTyped DEF VerifyPrepared
  <2> QED BY <1>3, <2>1, <2>2, <2>3, <2>4
<1>4. CASE Finalize \/ Check \/ RemoveTemporary
  <2>1. CASE Finalize
    BY <2>1 DEF Finalize
  <2>2. CASE Check
    BY <2>2 DEF Check, Preconditions, Confirmed
  <2>3. CASE RemoveTemporary
    BY <2>3 DEF RemoveTemporary, Components
  <2> QED BY <1>4, <2>1, <2>2, <2>3
<1>5. CASE Install \/ Apply \/ Restart \/ Verify
  <2>1. CASE Install
    BY <2>1, ContentNames, ContentTyped DEF Install
  <2>2. CASE Apply
    BY <2>2, ContentNames, ContentTyped DEF Apply, Load
  <2>3. CASE Restart
    BY <2>3 DEF Restart, Load
  <2>4. CASE Verify
    BY <2>4 DEF Verify, After, Components
  <2> QED BY <1>5, <2>1, <2>2, <2>3, <2>4
<1>6. CASE InstallFails \/ ApplyFails \/ Rollback \/ Reapply \/ ReapplyFails
  <2>1. CASE InstallFails
    BY <2>1, FailedTyped, FaultTyped DEF InstallFails
  <2>2. CASE ApplyFails
    BY <2>2 DEF ApplyFails, Fault
  <2>3. CASE Rollback
    BY <2>3 DEF Rollback
  <2>4. CASE Reapply
    BY <2>4, FailedTyped DEF Reapply, Load
  <2>5. CASE ReapplyFails
    BY <2>5, FailedTyped, FaultTyped, ContentNames, ContentTyped DEF ReapplyFails
  <2> QED BY <1>6, <2>1, <2>2, <2>3, <2>4, <2>5
<1>7. CASE VerifyRuntime \/ RuntimeFails \/ Restore \/ Reopen \/ GiveUp
  <2>1. CASE VerifyRuntime
    BY <2>1 DEF VerifyRuntime, Components
  <2>2. CASE RuntimeFails
    BY <2>2 DEF RuntimeFails, Fault
  <2>3. CASE Restore
    <3>1. CASE kept
      BY <2>3, <3>1 DEF Restore
    <3>2. CASE ~kept
      BY <2>3, <3>2 DEF Restore
    <3> QED BY <3>1, <3>2
  <2>4. CASE Reopen
    BY <2>4 DEF Reopen, ReloadSsh
  <2>5. CASE GiveUp
    BY <2>5, EndedTyped DEF GiveUp
  <2> QED BY <1>7, <2>1, <2>2, <2>3, <2>4, <2>5
<1>8. CASE Clean \/ VerifyAll \/ Mark \/ Refuse
  <2>1. CASE Clean
    BY <2>1 DEF Clean
  <2>2. CASE VerifyAll
    BY <2>2 DEF VerifyAll
  <2>3. CASE Mark
    BY <2>3, EndedTyped DEF Mark
  <2>4. CASE Refuse
    BY <2>4, EndedTyped DEF Refuse
  <2> QED BY <1>8, <2>1, <2>2, <2>3, <2>4
<1>9. CASE Die \/ Reboot
  <2>1. CASE Die
    BY <2>1, EndedTyped, FaultTyped DEF Die
  <2>2. CASE Reboot
    BY <2>2, EndedTyped, FaultTyped, ContentNames, ContentTyped DEF Reboot
  <2> QED BY <1>9, <2>1, <2>2
<1>10. CASE UNCHANGED vars
  BY <1>10
<1> QED
    BY <1>1, <1>2, <1>3, <1>4, <1>5, <1>6, <1>7, <1>8, <1>9, <1>10 DEF Next, PrepareStep,
       FinalizeStep, Faults

(* Each step leaves the trace of what it did. *)
LEMMA StepProgresses ==
  ASSUME TypeOK, Progress, [Next]_vars
  PROVE  Progress'
<1> USE DEF TypeOK, Progress, AfterTemporary, SshSteps, AfterCheck, SshIsFinal, Components, host,
     run, vars, At
<1>1. CASE Prepare \/ CreateAdmin \/ SetPassword \/ WriteTemporary \/ ReloadTemporary
    BY <1>1 DEF Prepare, CreateAdmin, SetPassword, WriteTemporary, AppearsFinalized,
       ReloadTemporary, ReloadSsh
<1>2. CASE InstallRules \/ LoadRules \/ StartRules \/ RemoveUfw \/ InstallRulesAgain
  <2>1. CASE InstallRules
    BY <2>1 DEF InstallRules
  <2>2. CASE LoadRules
    BY <2>2 DEF LoadRules
  <2>3. CASE StartRules
    BY <2>3 DEF StartRules
  <2>4. CASE RemoveUfw
    BY <2>4 DEF RemoveUfw
  <2>5. CASE InstallRulesAgain
    BY <2>5 DEF InstallRulesAgain
  <2> QED BY <1>2, <2>1, <2>2, <2>3, <2>4, <2>5
<1>3. CASE InstallJail \/ StopJail \/ StartJail \/ VerifyPrepared
  BY <1>3 DEF InstallJail, StopJail, StartJail, VerifyPrepared, Ended
<1>4. CASE Finalize \/ Check \/ RemoveTemporary
  BY <1>4 DEF Finalize, Check, Preconditions, Confirmed, RemoveTemporary
<1>5. CASE Install \/ Apply \/ Restart \/ Verify
  <2>1. CASE Install
    BY <2>1 DEF Install
  <2>2. CASE Apply
    BY <2>2 DEF Apply, Load
  <2>3. CASE Restart
    BY <2>3 DEF Restart, Load
  <2>4. CASE Verify
    BY <2>4 DEF Verify, After
  <2> QED BY <1>5, <2>1, <2>2, <2>3, <2>4
<1>6. CASE InstallFails \/ ApplyFails \/ Rollback \/ Reapply \/ ReapplyFails
  <2>1. CASE InstallFails
    BY <2>1 DEF InstallFails, Failed, Ended, Fault
  <2>2. CASE ApplyFails
    BY <2>2 DEF ApplyFails, Fault
  <2>3. CASE Rollback
    BY <2>3 DEF Rollback
  <2>4. CASE Reapply
    BY <2>4 DEF Reapply, Load, Failed, Ended
  <2>5. CASE ReapplyFails
    BY <2>5 DEF ReapplyFails, Failed, Ended, Fault
  <2> QED BY <1>6, <2>1, <2>2, <2>3, <2>4, <2>5
<1>7. CASE VerifyRuntime \/ RuntimeFails \/ Restore \/ Reopen \/ GiveUp
  BY <1>7 DEF VerifyRuntime, RuntimeFails, Fault, Restore, Reopen, ReloadSsh, GiveUp, Ended
<1>8. CASE Clean \/ VerifyAll \/ Mark \/ Refuse
  BY <1>8 DEF Clean, VerifyAll, Mark, Ended, Refuse
<1>9. CASE Die \/ Reboot
  BY <1>9 DEF Die, Ended, Fault, Reboot
<1>10. CASE UNCHANGED vars
  BY <1>10
<1> QED
    BY <1>1, <1>2, <1>3, <1>4, <1>5, <1>6, <1>7, <1>8, <1>9, <1>10 DEF Next, PrepareStep,
       FinalizeStep, Faults

(* No step loads a firewall that the next boot would not. *)
LEMMA StepEnabled ==
  ASSUME TypeOK, Progress, Enabled, Administered, Undoable, [Next]_vars
  PROVE  Enabled'
<1> USE DEF TypeOK, Progress, Enabled, Administered, Undoable, AfterTemporary, SshSteps,
     AfterCheck, Components, host, run, vars, At
<1>1. CASE Prepare \/ CreateAdmin \/ SetPassword \/ WriteTemporary \/ ReloadTemporary
    BY <1>1 DEF Prepare, CreateAdmin, SetPassword, WriteTemporary, AppearsFinalized,
       ReloadTemporary, ReloadSsh
<1>2. CASE InstallRules \/ LoadRules \/ StartRules \/ RemoveUfw \/ InstallRulesAgain
  <2>1. CASE InstallRules
    BY <2>1 DEF InstallRules
  <2>2. CASE LoadRules
    BY <2>2 DEF LoadRules
  <2>3. CASE StartRules
    BY <2>3 DEF StartRules
  <2>4. CASE RemoveUfw
    BY <2>4 DEF RemoveUfw
  <2>5. CASE InstallRulesAgain
    BY <2>5 DEF InstallRulesAgain
  <2> QED BY <1>2, <2>1, <2>2, <2>3, <2>4, <2>5
<1>3. CASE InstallJail \/ StopJail \/ StartJail \/ VerifyPrepared
  BY <1>3 DEF InstallJail, StopJail, StartJail, VerifyPrepared, Ended
<1>4. CASE Finalize \/ Check \/ RemoveTemporary
  BY <1>4 DEF Finalize, Check, Preconditions, Confirmed, RemoveTemporary
<1>5. CASE Install \/ Apply \/ Restart \/ Verify
  <2>1. CASE Install
    BY <2>1 DEF Install
  <2>2. CASE Apply
    <3>1. CASE comp = "ssh"
      BY <2>2, <3>1 DEF Apply, Load
    <3>2. CASE comp = "nftables"
      BY <2>2, <3>2 DEF Apply, Load
    <3>3. CASE comp = "fail2ban"
      BY <2>2, <3>3 DEF Apply, Load
    <3> QED BY <3>1, <3>2, <3>3
  <2>3. CASE Restart
    BY <2>3 DEF Restart, Load
  <2>4. CASE Verify
    BY <2>4 DEF Verify, After
  <2> QED BY <1>5, <2>1, <2>2, <2>3, <2>4
<1>6. CASE InstallFails \/ ApplyFails \/ Rollback \/ Reapply \/ ReapplyFails
  <2>1. CASE InstallFails
    BY <2>1 DEF InstallFails, Failed, Ended, Fault
  <2>2. CASE ApplyFails
    BY <2>2 DEF ApplyFails, Fault
  <2>3. CASE Rollback
    BY <2>3 DEF Rollback
  <2>4. CASE Reapply
    <3>1. CASE comp = "ssh"
      BY <2>4, <3>1 DEF Reapply, Load, Failed, Ended
    <3>2. CASE comp = "nftables"
      BY <2>4, <3>2 DEF Reapply, Load, Failed, Ended
    <3>3. CASE comp = "fail2ban"
      BY <2>4, <3>3 DEF Reapply, Load, Failed, Ended
    <3> QED BY <3>1, <3>2, <3>3
  <2>5. CASE ReapplyFails
    BY <2>5 DEF ReapplyFails, Failed, Ended, Fault
  <2> QED BY <1>6, <2>1, <2>2, <2>3, <2>4, <2>5
<1>7. CASE VerifyRuntime \/ RuntimeFails \/ Restore \/ Reopen \/ GiveUp
  BY <1>7 DEF VerifyRuntime, RuntimeFails, Fault, Restore, Reopen, ReloadSsh, GiveUp, Ended
<1>8. CASE Clean \/ VerifyAll \/ Mark \/ Refuse
  BY <1>8 DEF Clean, VerifyAll, Mark, Ended, Refuse
<1>9. CASE Die \/ Reboot
  BY <1>9 DEF Die, Ended, Fault, Reboot
<1>10. CASE UNCHANGED vars
  BY <1>10
<1> QED
    BY <1>1, <1>2, <1>3, <1>4, <1>5, <1>6, <1>7, <1>8, <1>9, <1>10 DEF Next, PrepareStep,
       FinalizeStep, Faults

(* Root is refused only after the administrator's login. *)
LEMMA StepAdministered ==
  ASSUME TypeOK, Progress, Enabled, Administered, Undoable, [Next]_vars
  PROVE  Administered'
<1> USE DEF TypeOK, Progress, Enabled, Administered, Undoable, AfterTemporary, SshSteps,
     AfterCheck, Components, host, run, vars, At
<1>1. CASE Prepare \/ CreateAdmin \/ SetPassword \/ WriteTemporary \/ ReloadTemporary
    BY <1>1 DEF Prepare, CreateAdmin, SetPassword, WriteTemporary, AppearsFinalized,
       ReloadTemporary, ReloadSsh
<1>2. CASE InstallRules \/ LoadRules \/ StartRules \/ RemoveUfw \/ InstallRulesAgain
  BY <1>2 DEF InstallRules, LoadRules, StartRules, RemoveUfw, InstallRulesAgain
<1>3. CASE InstallJail \/ StopJail \/ StartJail \/ VerifyPrepared
  BY <1>3 DEF InstallJail, StopJail, StartJail, VerifyPrepared, Ended
<1>4. CASE Finalize \/ Check \/ RemoveTemporary
  BY <1>4 DEF Finalize, Check, Preconditions, Confirmed, RemoveTemporary
<1>5. CASE Install \/ Apply \/ Restart \/ Verify
  BY <1>5 DEF Install, Apply, Load, Restart, Verify, After
<1>6. CASE InstallFails \/ ApplyFails \/ Rollback \/ Reapply \/ ReapplyFails
  BY <1>6 DEF InstallFails, Failed, Ended, Fault, ApplyFails, Rollback, Reapply, Load, ReapplyFails
<1>7. CASE VerifyRuntime \/ RuntimeFails \/ Restore \/ Reopen \/ GiveUp
  BY <1>7 DEF VerifyRuntime, RuntimeFails, Fault, Restore, Reopen, ReloadSsh, GiveUp, Ended
<1>8. CASE Clean \/ VerifyAll \/ Mark \/ Refuse
  BY <1>8 DEF Clean, VerifyAll, Mark, Ended, Refuse
<1>9. CASE Die \/ Reboot
  BY <1>9 DEF Die, Ended, Fault, Reboot
<1>10. CASE UNCHANGED vars
  BY <1>10
<1> QED
    BY <1>1, <1>2, <1>3, <1>4, <1>5, <1>6, <1>7, <1>8, <1>9, <1>10 DEF Next, PrepareStep,
       FinalizeStep, Faults

(* Port 22 is closed only under a final sshd, which then stays. *)
LEMMA StepFirewalled ==
  ASSUME TypeOK, Progress, Administered, Firewalled, Undoable, [Next]_vars
  PROVE  Firewalled'
<1> USE DEF TypeOK, Progress, Administered, Firewalled, Undoable, AfterTemporary, SshSteps,
     AfterCheck, SshIsFinal, Components, host, run, vars, At
<1>1. CASE Prepare \/ CreateAdmin \/ SetPassword \/ WriteTemporary \/ ReloadTemporary
    BY <1>1 DEF Prepare, CreateAdmin, SetPassword, WriteTemporary, AppearsFinalized,
       ReloadTemporary, ReloadSsh
<1>2. CASE InstallRules \/ LoadRules \/ StartRules \/ RemoveUfw \/ InstallRulesAgain
  BY <1>2 DEF InstallRules, LoadRules, StartRules, RemoveUfw, InstallRulesAgain
<1>3. CASE InstallJail \/ StopJail \/ StartJail \/ VerifyPrepared
  BY <1>3 DEF InstallJail, StopJail, StartJail, VerifyPrepared, Ended
<1>4. CASE Finalize \/ Check \/ RemoveTemporary
  BY <1>4 DEF Finalize, Check, Preconditions, Confirmed, RemoveTemporary
<1>5. CASE Install \/ Apply \/ Restart \/ Verify
  <2>1. CASE Install
    BY <2>1 DEF Install
  <2>2. CASE Apply
    BY <2>2 DEF Apply, Load
  <2>3. CASE Restart
    BY <2>3 DEF Restart, Load
  <2>4. CASE Verify
    BY <2>4 DEF Verify, After
  <2> QED BY <1>5, <2>1, <2>2, <2>3, <2>4
<1>6. CASE InstallFails \/ ApplyFails \/ Rollback \/ Reapply \/ ReapplyFails
  BY <1>6 DEF InstallFails, Failed, Ended, Fault, ApplyFails, Rollback, Reapply, Load, ReapplyFails
<1>7. CASE VerifyRuntime \/ RuntimeFails \/ Restore \/ Reopen \/ GiveUp
  BY <1>7 DEF VerifyRuntime, RuntimeFails, Fault, Restore, Reopen, ReloadSsh, GiveUp, Ended
<1>8. CASE Clean \/ VerifyAll \/ Mark \/ Refuse
  BY <1>8 DEF Clean, VerifyAll, Mark, Ended, Refuse
<1>9. CASE Die \/ Reboot
  BY <1>9 DEF Die, Ended, Fault, Reboot
<1>10. CASE UNCHANGED vars
  BY <1>10
<1> QED
    BY <1>1, <1>2, <1>3, <1>4, <1>5, <1>6, <1>7, <1>8, <1>9, <1>10 DEF Next, PrepareStep,
       FinalizeStep, Faults

(* What finalize_ssh and apply-config.sh would put back is harmless. *)
LEMMA StepUndoable ==
  ASSUME TypeOK, Progress, Enabled, Administered, Firewalled, Undoable, [Next]_vars
  PROVE  Undoable'
<1> USE DEF TypeOK, Progress, Enabled, Administered, Firewalled, Undoable, AfterTemporary,
     SshSteps, AfterCheck, SshIsFinal, Components, host, run, vars, At
<1>1. CASE Prepare \/ CreateAdmin \/ SetPassword \/ WriteTemporary \/ ReloadTemporary
    BY <1>1 DEF Prepare, CreateAdmin, SetPassword, WriteTemporary, AppearsFinalized,
       ReloadTemporary, ReloadSsh
<1>2. CASE InstallRules \/ LoadRules \/ StartRules \/ RemoveUfw \/ InstallRulesAgain
  BY <1>2 DEF InstallRules, LoadRules, StartRules, RemoveUfw, InstallRulesAgain
<1>3. CASE InstallJail \/ StopJail \/ StartJail \/ VerifyPrepared
  BY <1>3 DEF InstallJail, StopJail, StartJail, VerifyPrepared, Ended
<1>4. CASE Finalize \/ Check \/ RemoveTemporary
  BY <1>4 DEF Finalize, Check, Preconditions, Confirmed, RemoveTemporary
<1>5. CASE Install \/ Apply \/ Restart \/ Verify
  <2>1. CASE Install
    <3>1. CASE comp = "ssh"
      BY <2>1, <3>1 DEF Install
    <3>2. CASE comp = "nftables"
      BY <2>1, <3>2 DEF Install
    <3>3. CASE comp = "fail2ban"
      BY <2>1, <3>3 DEF Install
    <3> QED BY <3>1, <3>2, <3>3
  <2>2. CASE Apply
    BY <2>2 DEF Apply, Load
  <2>3. CASE Restart
    BY <2>3 DEF Restart, Load
  <2>4. CASE Verify
    BY <2>4 DEF Verify, After
  <2> QED BY <1>5, <2>1, <2>2, <2>3, <2>4
<1>6. CASE InstallFails \/ ApplyFails \/ Rollback \/ Reapply \/ ReapplyFails
  BY <1>6 DEF InstallFails, Failed, Ended, Fault, ApplyFails, Rollback, Reapply, Load, ReapplyFails
<1>7. CASE VerifyRuntime \/ RuntimeFails \/ Restore \/ Reopen \/ GiveUp
  BY <1>7 DEF VerifyRuntime, RuntimeFails, Fault, Restore, Reopen, ReloadSsh, GiveUp, Ended
<1>8. CASE Clean \/ VerifyAll \/ Mark \/ Refuse
  BY <1>8 DEF Clean, VerifyAll, Mark, Ended, Refuse
<1>9. CASE Die \/ Reboot
  BY <1>9 DEF Die, Ended, Fault, Reboot
<1>10. CASE UNCHANGED vars
  BY <1>10
<1> QED
    BY <1>1, <1>2, <1>3, <1>4, <1>5, <1>6, <1>7, <1>8, <1>9, <1>10 DEF Next, PrepareStep,
       FinalizeStep, Faults

(* A marked host stays final, and only a final host is marked. *)
LEMMA StepMarked ==
  ASSUME TypeOK, Progress, Enabled, Administered, Firewalled, MarkerMeansFinal, [Next]_vars
  PROVE  MarkerMeansFinal'
<1> USE DEF TypeOK, Progress, Enabled, Administered, Firewalled, MarkerMeansFinal, SshIsFinal,
     AfterCheck, AfterTemporary, SshSteps, Components, host, run, vars, At
<1>1. CASE Prepare \/ CreateAdmin \/ SetPassword \/ WriteTemporary \/ ReloadTemporary
    BY <1>1 DEF Prepare, CreateAdmin, SetPassword, WriteTemporary, AppearsFinalized,
       ReloadTemporary, ReloadSsh
<1>2. CASE InstallRules \/ LoadRules \/ StartRules \/ RemoveUfw \/ InstallRulesAgain
  BY <1>2 DEF InstallRules, LoadRules, StartRules, RemoveUfw, InstallRulesAgain
<1>3. CASE InstallJail \/ StopJail \/ StartJail \/ VerifyPrepared
  BY <1>3 DEF InstallJail, StopJail, StartJail, VerifyPrepared, Ended
<1>4. CASE Finalize \/ Check \/ RemoveTemporary
  BY <1>4 DEF Finalize, Check, Preconditions, Confirmed, RemoveTemporary
<1>5. CASE Install \/ Apply \/ Restart \/ Verify
  BY <1>5 DEF Install, Apply, Load, Restart, Verify, After
<1>6. CASE InstallFails \/ ApplyFails \/ Rollback \/ Reapply \/ ReapplyFails
  BY <1>6 DEF InstallFails, Failed, Ended, Fault, ApplyFails, Rollback, Reapply, Load, ReapplyFails
<1>7. CASE VerifyRuntime \/ RuntimeFails \/ Restore \/ Reopen \/ GiveUp
  BY <1>7 DEF VerifyRuntime, RuntimeFails, Fault, Restore, Reopen, ReloadSsh, GiveUp, Ended
<1>8. CASE Clean \/ VerifyAll \/ Mark \/ Refuse
  BY <1>8 DEF Clean, VerifyAll, Mark, Ended, Refuse
<1>9. CASE Die \/ Reboot
  BY <1>9 DEF Die, Ended, Fault, Reboot
<1>10. CASE UNCHANGED vars
  BY <1>10
<1> QED
    BY <1>1, <1>2, <1>3, <1>4, <1>5, <1>6, <1>7, <1>8, <1>9, <1>10 DEF Next, PrepareStep,
       FinalizeStep, Faults

(* Nothing final is about to be loaded while port 22822 is closed.         *)
LEMMA StepRemaining ==
  ASSUME TypeOK, Progress, Remaining, [Next]_vars
  PROVE  Remaining'
<1> USE DEF TypeOK, Progress, Remaining, AppearsFinalized,
     AfterCheck, AfterTemporary, SshSteps, Components, host, run, vars, At
<1>1. CASE Prepare \/ CreateAdmin \/ SetPassword \/ WriteTemporary \/ ReloadTemporary
  BY <1>1 DEF Prepare, CreateAdmin, SetPassword, WriteTemporary, ReloadTemporary, ReloadSsh
<1>2. CASE InstallRules \/ LoadRules \/ StartRules \/ RemoveUfw \/ InstallRulesAgain
  BY <1>2 DEF InstallRules, LoadRules, StartRules, RemoveUfw, InstallRulesAgain
<1>3. CASE InstallJail \/ StopJail \/ StartJail \/ VerifyPrepared
  BY <1>3 DEF InstallJail, StopJail, StartJail, VerifyPrepared, Ended
<1>4. CASE Finalize \/ Check \/ RemoveTemporary
  BY <1>4 DEF Finalize, Check, Preconditions, Confirmed, Reach, Ports, OldPort, NewPort,
     RemoveTemporary
<1>5. CASE Install \/ Apply \/ Restart \/ Verify
  BY <1>5 DEF Install, Apply, Load, Restart, Verify, After
<1>6. CASE InstallFails \/ ApplyFails \/ Rollback \/ Reapply \/ ReapplyFails
  BY <1>6 DEF InstallFails, Failed, Ended, Fault, ApplyFails, Rollback, Reapply, Load, ReapplyFails
<1>7. CASE VerifyRuntime \/ RuntimeFails \/ Restore \/ Reopen \/ GiveUp
  BY <1>7 DEF VerifyRuntime, RuntimeFails, Fault, Restore, Reopen, ReloadSsh, GiveUp, Ended
<1>8. CASE Clean \/ VerifyAll \/ Mark \/ Refuse
  BY <1>8 DEF Clean, VerifyAll, Mark, Ended, Refuse
<1>9. CASE Die \/ Reboot
  BY <1>9 DEF Die, Ended, Fault, Reboot
<1>10. CASE UNCHANGED vars
  BY <1>10
<1> QED
    BY <1>1, <1>2, <1>3, <1>4, <1>5, <1>6, <1>7, <1>8, <1>9, <1>10 DEF Next, PrepareStep,
       FinalizeStep, Faults

(* Each call leaves behind what the checks at the end rely on.             *)
LEMMA StepReady ==
  ASSUME TypeOK, Progress, Administered, Ready, [Next]_vars
  PROVE  Ready'
<1> USE DEF TypeOK, Progress, Administered, Ready, SshIsFinal,
     AfterCheck, AfterTemporary, SshSteps, Components, host, run, vars, At
<1>1. CASE Prepare \/ CreateAdmin \/ SetPassword \/ WriteTemporary \/ ReloadTemporary
  BY <1>1 DEF Prepare, CreateAdmin, SetPassword, WriteTemporary, ReloadTemporary, ReloadSsh
<1>2. CASE InstallRules \/ LoadRules \/ StartRules \/ RemoveUfw \/ InstallRulesAgain
  BY <1>2 DEF InstallRules, LoadRules, StartRules, RemoveUfw, InstallRulesAgain
<1>3. CASE InstallJail \/ StopJail \/ StartJail \/ VerifyPrepared
  BY <1>3 DEF InstallJail, StopJail, StartJail, VerifyPrepared, Ended
<1>4. CASE Finalize \/ Check \/ RemoveTemporary
  BY <1>4 DEF Finalize, Check, Preconditions, Confirmed, Reach, Ports, OldPort, NewPort,
     RemoveTemporary
<1>5. CASE Install \/ Apply \/ Restart \/ Verify
  BY <1>5 DEF Install, Apply, Load, Restart, Verify, After
<1>6. CASE InstallFails \/ ApplyFails \/ Rollback \/ Reapply \/ ReapplyFails
  BY <1>6 DEF InstallFails, Failed, Ended, Fault, ApplyFails, Rollback, Reapply, Load, ReapplyFails
<1>7. CASE VerifyRuntime \/ RuntimeFails \/ Restore \/ Reopen \/ GiveUp
  BY <1>7 DEF VerifyRuntime, RuntimeFails, Fault, Restore, Reopen, ReloadSsh, GiveUp, Ended
<1>8. CASE Clean \/ VerifyAll \/ Mark \/ Refuse
  BY <1>8 DEF Clean, VerifyAll, Mark, Ended, Refuse
<1>9. CASE Die \/ Reboot
  BY <1>9 DEF Die, Ended, Fault, Reboot
<1>10. CASE UNCHANGED vars
  BY <1>10
<1> QED
    BY <1>1, <1>2, <1>3, <1>4, <1>5, <1>6, <1>7, <1>8, <1>9, <1>10 DEF Next, PrepareStep,
       FinalizeStep, Faults

(* A fresh host satisfies the invariant. *)
LEMMA InitIInv == Init => IInv
<1> SUFFICES ASSUME Init PROVE IInv
  OBVIOUS
<1> USE DEF Init, Components, AfterTemporary, AfterCheck, SshSteps
<1>1. TypeOK
  <2>1. disk \in [Components -> Contents] /\ live \in [Components -> Contents]
    BY DEF Contents
  <2>2. pc \in Steps
    BY DEF Steps
  <2>3. comp \in Components
    OBVIOUS
  <2>4. old \in Contents
    BY DEF Contents
  <2>5. rules \in [enabled : BOOLEAN, active : BOOLEAN]
    OBVIOUS
  <2>6. faults \in 0..MaxFaults
    BY FaultsAssumption
  <2>7. temp \in BOOLEAN /\ liveTemp \in BOOLEAN /\ ufw \in BOOLEAN /\ marker \in BOOLEAN
        /\ kept \in BOOLEAN /\ admin \in {"absent", "locked", "usable"}
    OBVIOUS
  <2> QED BY ONLY <2>1, <2>2, <2>3, <2>4, <2>5, <2>6, <2>7 DEF TypeOK
<1>2. Progress /\ Enabled
  BY DEF Progress, Enabled
<1>3. Administered /\ Firewalled /\ Undoable /\ MarkerMeansFinal
  BY DEF Administered, Firewalled, Undoable, MarkerMeansFinal
<1>4. Remaining /\ Ready
  BY DEF Remaining, AppearsFinalized, Ready
<1> QED BY <1>1, <1>2, <1>3, <1>4 DEF IInv

LEMMA Invariant == Spec => []IInv
<1>1. IInv /\ [Next]_vars => IInv'
  BY StepTyped, StepProgresses, StepEnabled, StepAdministered, StepFirewalled, StepUndoable,
     StepMarked, StepRemaining, StepReady DEF IInv
<1> QED BY <1>1, InitIInv, PTL DEF Spec

(* The configuration, the account and the run hold only values the scripts *)
(* give them.                                                              *)
THEOREM TypeCorrect == Spec => []TypeOK
<1>1. IInv => TypeOK
  BY DEF IInv
<1> QED BY <1>1, Invariant, PTL

-----------------------------------------------------------------------------
(* The ways in that a configuration leaves: with a final sshd and no       *)
(* temporary file only the administrator's on the new port, otherwise at   *)
(* least root's on the old one.                                            *)
LEMMA FinalWays ==
  ASSUME TypeOK, admin = "usable", ~ufw, NEW f
  PROVE  WaysIn(FALSE, "final", f) = {<<"admin", NewPort>>}
<1>1. Reach(FALSE, "final", f) = {NewPort}
  BY DEF Reach, Ports, Opens, OldPort, NewPort
<1>2. {"root", "admin"} \X {NewPort} = {<<"root", NewPort>>, <<"admin", NewPort>>}
  OBVIOUS
<1>3. <<"root", NewPort>>[1] = "root" /\ <<"admin", NewPort>>[1] = "admin"
  OBVIOUS
<1>4. ~RootAllowed(FALSE, "final")
  BY DEF RootAllowed
<1>5. WaysIn(FALSE, "final", f)
        = {way \in {<<"root", NewPort>>, <<"admin", NewPort>>} :
             IF way[1] = "root" THEN RootAllowed(FALSE, "final") ELSE admin = "usable"}
  BY <1>1, <1>2 DEF WaysIn
<1> QED BY <1>3, <1>4, <1>5

LEMMA OpenWays ==
  ASSUME TypeOK, NEW t \in BOOLEAN, NEW s \in Contents, NEW f \in Contents,
         t \/ s # "final", f # "final"
  PROVE  <<"root", OldPort>> \in WaysIn(t, s, f)
<1>1. OldPort \in Reach(t, s, f)
  BY DEF Reach, Ports, Opens, OldPort, NewPort
<1>2. <<"root", OldPort>> \in {"root", "admin"} \X Reach(t, s, f)
  BY <1>1
<1>3. <<"root", OldPort>>[1] = "root"
  OBVIOUS
<1>4. RootAllowed(t, s)
  BY DEF RootAllowed
<1> QED BY <1>2, <1>3, <1>4 DEF WaysIn

(* The same of what runs and of what a reboot would leave.                 *)
LEMMA NowIs ==
  ASSUME IInv
  PROVE  /\ live["ssh"] = "final" /\ ~liveTemp => WaysNow = {<<"admin", NewPort>>}
         /\ liveTemp \/ live["ssh"] # "final" => <<"root", OldPort>> \in WaysNow
<1> USE DEF IInv
<1>1. live["ssh"] \in Contents /\ live["nftables"] \in Contents /\ liveTemp \in BOOLEAN
  BY DEF TypeOK, Components
<1>2. live["nftables"] = "final" => live["ssh"] = "final" /\ ~liveTemp
  BY DEF Firewalled, SshIsFinal
<1>3. live["ssh"] = "final" => admin = "usable" /\ ~ufw
  BY DEF Administered
<1> QED BY <1>1, <1>2, <1>3, FinalWays, OpenWays DEF WaysNow

LEMMA NextIs ==
  ASSUME IInv
  PROVE  /\ AppearsFinalized => WaysNext = {<<"admin", NewPort>>}
         /\ ~AppearsFinalized => <<"root", OldPort>> \in WaysNext
<1> USE DEF IInv
<1> DEFINE rule == IF rules.enabled THEN disk["nftables"] ELSE "stock"
<1>1. disk["ssh"] \in Contents /\ rule \in Contents /\ temp \in BOOLEAN
  BY DEF TypeOK, Components, Contents
<1>2. rule = "final" => AppearsFinalized
  BY DEF Firewalled, SshIsFinal, AppearsFinalized
<1>3. disk["ssh"] = "final" => admin = "usable" /\ ~ufw
  BY DEF Administered
<1> HIDE DEF rule
<1>4. AppearsFinalized => WaysIn(temp, disk["ssh"], rule) = {<<"admin", NewPort>>}
  BY <1>1, <1>3, FinalWays DEF AppearsFinalized
<1>5. ~AppearsFinalized => <<"root", OldPort>> \in WaysIn(temp, disk["ssh"], rule)
  BY <1>1, <1>2, OpenWays DEF AppearsFinalized
<1> QED BY <1>4, <1>5 DEF WaysNext, rule

(* Whatever is killed, fails or reboots, and whenever, somebody can log in *)
(* to the host: on a port that sshd and the firewall both have open, as    *)
(* root or as the administrator, now and after a reboot.                   *)
THEOREM AlwaysAWayIn == Spec => []NeverLockedOut
<1>1. IInv => NeverLockedOut
  <2> SUFFICES ASSUME IInv PROVE WaysNow # {} /\ WaysNext # {}
    BY DEF NeverLockedOut
  <2> QED BY NowIs, NextIs DEF IInv, TypeOK
<1> QED BY <1>1, Invariant, PTL

(* Under the marker everything is final, in what runs and in what boots.   *)
THEOREM MarkerIsEarned == Spec => []MarkerMeansFinal
<1>1. IInv => MarkerMeansFinal
  BY DEF IInv
<1> QED BY <1>1, Invariant, PTL

(* Where neither command leads further, sshd and the firewall are final    *)
(* and the administrator can log in.                                       *)
THEOREM DeadEndIsHarmless == Spec => []DeadEndIsFinal
<1>1. IInv => DeadEndIsFinal
  <2> SUFFICES ASSUME IInv, DeadEnd PROVE SshIsFinal /\ live["nftables"] = "final" /\ Confirmed
    BY DEF DeadEndIsFinal
  <2> USE DEF IInv, TypeOK, Components, Contents
  <2>1. admin = "usable" /\ ~ufw /\ live["nftables"] # "stock"
    BY DEF DeadEnd, AppearsFinalized, Administered
  <2>2. live["nftables"] = "final"
    BY <2>1 DEF DeadEnd
  <2>3. SshIsFinal
    BY <2>2 DEF Firewalled
  <2>4. NewPort \in Reach(liveTemp, live["ssh"], live["nftables"])
    BY <2>1, <2>2, <2>3 DEF SshIsFinal, Reach, Ports, Opens, OldPort, NewPort
  <2> QED BY <2>1, <2>2, <2>3, <2>4 DEF Confirmed
<1> QED BY <1>1, Invariant, PTL

-----------------------------------------------------------------------------
(* What a step can change of the ways in.                                  *)

(* What sshd has loaded changes only into what is on disk.                 *)
LEMMA StepLoads ==
  ASSUME TypeOK, [Next]_vars
  PROVE  \/ live'["ssh"] = live["ssh"] /\ liveTemp' = liveTemp
         \/ /\ live'["ssh"] = disk["ssh"] /\ liveTemp' = temp
            /\ disk'["ssh"] = disk["ssh"] /\ temp' = temp
<1> USE DEF TypeOK,
     Components, host, run, vars, At
<1>1. CASE Prepare \/ CreateAdmin \/ SetPassword \/ WriteTemporary \/ ReloadTemporary
  BY <1>1 DEF Prepare, CreateAdmin, SetPassword, WriteTemporary, ReloadTemporary, ReloadSsh
<1>2. CASE InstallRules \/ LoadRules \/ StartRules \/ RemoveUfw \/ InstallRulesAgain
  BY <1>2 DEF InstallRules, LoadRules, StartRules, RemoveUfw, InstallRulesAgain
<1>3. CASE InstallJail \/ StopJail \/ StartJail \/ VerifyPrepared
  BY <1>3 DEF InstallJail, StopJail, StartJail, VerifyPrepared, Ended
<1>4. CASE Finalize \/ Check \/ RemoveTemporary
  BY <1>4 DEF Finalize, Check, RemoveTemporary
<1>5. CASE Install \/ Apply \/ Restart \/ Verify
  BY <1>5 DEF Install, Apply, Load, Restart, Verify, After
<1>6. CASE InstallFails \/ ApplyFails \/ Rollback \/ Reapply \/ ReapplyFails
  BY <1>6 DEF InstallFails, Failed, Ended, Fault, ApplyFails, Rollback, Reapply, Load, ReapplyFails
<1>7. CASE VerifyRuntime \/ RuntimeFails \/ Restore \/ Reopen \/ GiveUp
  BY <1>7 DEF VerifyRuntime, RuntimeFails, Fault, Restore, Reopen, ReloadSsh, GiveUp, Ended
<1>8. CASE Clean \/ VerifyAll \/ Mark \/ Refuse
  BY <1>8 DEF Clean, VerifyAll, Mark, Ended, Refuse
<1>9. CASE Die \/ Reboot
  BY <1>9 DEF Die, Ended, Fault, Reboot
<1>10. CASE UNCHANGED vars
  BY <1>10
<1> QED
    BY <1>1, <1>2, <1>3, <1>4, <1>5, <1>6, <1>7, <1>8, <1>9, <1>10 DEF Next, PrepareStep,
       FinalizeStep, Faults

(* A step that writes sshd's file does nothing else.                       *)
LEMMA StepWrites ==
  ASSUME TypeOK, [Next]_vars
  PROVE  disk'["ssh"] = disk["ssh"] \/ UNCHANGED <<live, liveTemp, ufw, admin>>
<1> USE DEF TypeOK,
     Components, host, run, vars, At
<1>1. CASE Prepare \/ CreateAdmin \/ SetPassword \/ WriteTemporary \/ ReloadTemporary
  BY <1>1 DEF Prepare, CreateAdmin, SetPassword, WriteTemporary, ReloadTemporary, ReloadSsh
<1>2. CASE InstallRules \/ LoadRules \/ StartRules \/ RemoveUfw \/ InstallRulesAgain
  BY <1>2 DEF InstallRules, LoadRules, StartRules, RemoveUfw, InstallRulesAgain
<1>3. CASE InstallJail \/ StopJail \/ StartJail \/ VerifyPrepared
  BY <1>3 DEF InstallJail, StopJail, StartJail, VerifyPrepared, Ended
<1>4. CASE Finalize \/ Check \/ RemoveTemporary
  BY <1>4 DEF Finalize, Check, RemoveTemporary
<1>5. CASE Install \/ Apply \/ Restart \/ Verify
  BY <1>5 DEF Install, Apply, Load, Restart, Verify, After
<1>6. CASE InstallFails \/ ApplyFails \/ Rollback \/ Reapply \/ ReapplyFails
  BY <1>6 DEF InstallFails, Failed, Ended, Fault, ApplyFails, Rollback, Reapply, Load, ReapplyFails
<1>7. CASE VerifyRuntime \/ RuntimeFails \/ Restore \/ Reopen \/ GiveUp
  BY <1>7 DEF VerifyRuntime, RuntimeFails, Fault, Restore, Reopen, ReloadSsh, GiveUp, Ended
<1>8. CASE Clean \/ VerifyAll \/ Mark \/ Refuse
  BY <1>8 DEF Clean, VerifyAll, Mark, Ended, Refuse
<1>9. CASE Die \/ Reboot
  BY <1>9 DEF Die, Ended, Fault, Reboot
<1>10. CASE UNCHANGED vars
  BY <1>10
<1> QED
    BY <1>1, <1>2, <1>3, <1>4, <1>5, <1>6, <1>7, <1>8, <1>9, <1>10 DEF Next, PrepareStep,
       FinalizeStep, Faults

(* A step that writes or removes the marker does nothing else.             *)
LEMMA StepMarks ==
  ASSUME TypeOK, [Next]_vars
  PROVE  marker' # marker =>
           /\ UNCHANGED <<disk, live, temp, liveTemp, rules, ufw, admin>>
           /\ marker' => pc = "mark"
<1> USE DEF TypeOK,
     Components, host, run, vars, At
<1>1. CASE Prepare \/ CreateAdmin \/ SetPassword \/ WriteTemporary \/ ReloadTemporary
  BY <1>1 DEF Prepare, CreateAdmin, SetPassword, WriteTemporary, ReloadTemporary, ReloadSsh
<1>2. CASE InstallRules \/ LoadRules \/ StartRules \/ RemoveUfw \/ InstallRulesAgain
  BY <1>2 DEF InstallRules, LoadRules, StartRules, RemoveUfw, InstallRulesAgain
<1>3. CASE InstallJail \/ StopJail \/ StartJail \/ VerifyPrepared
  BY <1>3 DEF InstallJail, StopJail, StartJail, VerifyPrepared, Ended
<1>4. CASE Finalize \/ Check \/ RemoveTemporary
  BY <1>4 DEF Finalize, Check, RemoveTemporary
<1>5. CASE Install \/ Apply \/ Restart \/ Verify
  BY <1>5 DEF Install, Apply, Load, Restart, Verify, After
<1>6. CASE InstallFails \/ ApplyFails \/ Rollback \/ Reapply \/ ReapplyFails
  BY <1>6 DEF InstallFails, Failed, Ended, Fault, ApplyFails, Rollback, Reapply, Load, ReapplyFails
<1>7. CASE VerifyRuntime \/ RuntimeFails \/ Restore \/ Reopen \/ GiveUp
  BY <1>7 DEF VerifyRuntime, RuntimeFails, Fault, Restore, Reopen, ReloadSsh, GiveUp, Ended
<1>8. CASE Clean \/ VerifyAll \/ Mark \/ Refuse
  BY <1>8 DEF Clean, VerifyAll, Mark, Ended, Refuse
<1>9. CASE Die \/ Reboot
  BY <1>9 DEF Die, Ended, Fault, Reboot
<1>10. CASE UNCHANGED vars
  BY <1>10
<1> QED
    BY <1>1, <1>2, <1>3, <1>4, <1>5, <1>6, <1>7, <1>8, <1>9, <1>10 DEF Next, PrepareStep,
       FinalizeStep, Faults

(* Nothing takes the handover back.                                        *)
LEMMA StepHanded ==
  ASSUME TypeOK, Progress, Undoable, Handed, [Next]_vars
  PROVE  Handed'
<1> USE DEF TypeOK, Progress, Undoable, Handed, AppearsFinalized,
     SshSteps, AfterCheck,
     Components, host, run, vars, At
<1>1. CASE Prepare \/ CreateAdmin \/ SetPassword \/ WriteTemporary \/ ReloadTemporary
  BY <1>1 DEF Prepare, CreateAdmin, SetPassword, WriteTemporary, ReloadTemporary, ReloadSsh
<1>2. CASE InstallRules \/ LoadRules \/ StartRules \/ RemoveUfw \/ InstallRulesAgain
  BY <1>2 DEF InstallRules, LoadRules, StartRules, RemoveUfw, InstallRulesAgain
<1>3. CASE InstallJail \/ StopJail \/ StartJail \/ VerifyPrepared
  BY <1>3 DEF InstallJail, StopJail, StartJail, VerifyPrepared, Ended
<1>4. CASE Finalize \/ Check \/ RemoveTemporary
  BY <1>4 DEF Finalize, Check, RemoveTemporary
<1>5. CASE Install \/ Apply \/ Restart \/ Verify
  BY <1>5 DEF Install, Apply, Load, Restart, Verify, After
<1>6. CASE InstallFails \/ ApplyFails \/ Rollback \/ Reapply \/ ReapplyFails
  BY <1>6 DEF InstallFails, Failed, Ended, Fault, ApplyFails, Rollback, Reapply, Load, ReapplyFails
<1>7. CASE VerifyRuntime \/ RuntimeFails \/ Restore \/ Reopen \/ GiveUp
  BY <1>7 DEF VerifyRuntime, RuntimeFails, Fault, Restore, Reopen, ReloadSsh, GiveUp, Ended
<1>8. CASE Clean \/ VerifyAll \/ Mark \/ Refuse
  BY <1>8 DEF Clean, VerifyAll, Mark, Ended, Refuse
<1>9. CASE Die \/ Reboot
  BY <1>9 DEF Die, Ended, Fault, Reboot
<1>10. CASE UNCHANGED vars
  BY <1>10
<1> QED
    BY <1>1, <1>2, <1>3, <1>4, <1>5, <1>6, <1>7, <1>8, <1>9, <1>10 DEF Next, PrepareStep,
       FinalizeStep, Faults

(* What the invariant says of the ways in, in the words of AccessHandover. *)
Admin == <<"admin", NewPort>>
Root  == <<"root", OldPort>>

AccessIs ==
  /\ live["ssh"] = "final" /\ ~liveTemp => WaysNow = {Admin}
  /\ liveTemp \/ live["ssh"] # "final" => Root \in WaysNow
  /\ AppearsFinalized => WaysNext = {Admin} /\ Admin \in WaysNow
  /\ ~AppearsFinalized => Root \in WaysNext
  /\ marker \/ pc = "mark" => Handed /\ WaysNow = {Admin}
  /\ WaysNow \subseteq {"root", "admin"} \X {OldPort, NewPort}
  /\ WaysNext \subseteq {"root", "admin"} \X {OldPort, NewPort}

LEMMA InvariantAccess == IInv => AccessIs
<1> SUFFICES ASSUME IInv PROVE AccessIs
  OBVIOUS
<1> USE DEF IInv
<1>1. ASSUME AppearsFinalized PROVE Admin \in WaysNow
  <2>1. admin = "usable" /\ ~ufw
    BY <1>1 DEF Administered, AppearsFinalized
  <2>2. liveTemp \/ live["ssh"] = "final"
    BY <1>1 DEF Remaining
  <2>3. NewPort \in Reach(liveTemp, live["ssh"], live["nftables"])
    BY <2>1, <2>2 DEF Reach, Ports, Opens, OldPort, NewPort
  <2>4. Admin \in {"root", "admin"} \X Reach(liveTemp, live["ssh"], live["nftables"])
    BY <2>3 DEF Admin
  <2>5. Admin[1] = "admin"
    BY DEF Admin
  <2> QED BY <2>1, <2>4, <2>5 DEF WaysNow, WaysIn
<1>2. ASSUME marker \/ pc = "mark" PROVE Handed /\ SshIsFinal
  <2>1. SshIsFinal
    BY <1>2 DEF MarkerMeansFinal, Progress, Firewalled
  <2>2. ~kept /\ pc \notin {"apply", "verify", "rollback"}
    BY <1>2 DEF Progress, Undoable, SshSteps
  <2> QED BY <2>1, <2>2 DEF Handed, AppearsFinalized, SshIsFinal
<1>3. \A t, s, f : WaysIn(t, s, f) \subseteq {"root", "admin"} \X {OldPort, NewPort}
  BY DEF WaysIn, Reach, Opens
<1>4. WaysNow \subseteq {"root", "admin"} \X {OldPort, NewPort}
  BY <1>3 DEF WaysNow
<1>5. WaysNext \subseteq {"root", "admin"} \X {OldPort, NewPort}
  BY <1>3 DEF WaysNext
<1> QED BY <1>1, <1>2, <1>4, <1>5, NowIs, NextIs DEF AccessIs, Admin, Root, SshIsFinal

(* A step that closes the ways of before opens the provider's.             *)
LEMMA StepOverlaps ==
  ASSUME IInv, AccessIs, AccessIs', [Next]_vars
  PROVE  Root \in WaysNow' \/ Admin \in WaysNow \cap WaysNow'
<1>1. CASE live'["ssh"] = "final" /\ ~liveTemp'
  <2>1. Admin \in WaysNow'
    BY <1>1 DEF AccessIs
  <2>2. \/ live["ssh"] = "final" /\ ~liveTemp
        \/ AppearsFinalized
    BY <1>1, StepLoads DEF IInv, AppearsFinalized
  <2> QED BY <2>1, <2>2 DEF AccessIs
<1>2. CASE ~(live'["ssh"] = "final" /\ ~liveTemp')
  BY <1>2 DEF AccessIs
<1> QED BY <1>1, <1>2

(* From the handover on ways only close.                                   *)
LEMMA StepCloses ==
  ASSUME IInv, IInv', AccessIs, AccessIs', [Next]_vars, Handed'
  PROVE  WaysNow' \subseteq WaysNow
<1>1. disk'["ssh"] = "final" /\ ~temp'
  BY DEF Handed, AppearsFinalized
<1>2. CASE live'["ssh"] = "final" /\ ~liveTemp'
  <2>1. WaysNow' = {Admin}
    BY <1>2 DEF AccessIs, Admin
  <2>2. \/ live["ssh"] = "final" /\ ~liveTemp
        \/ AppearsFinalized
    BY <1>2, StepLoads DEF IInv, AppearsFinalized
  <2>3. Admin \in WaysNow
    BY <2>2 DEF AccessIs
  <2> QED BY <2>1, <2>3
<1>3. CASE ~(live'["ssh"] = "final" /\ ~liveTemp')
  <2>1. live'["ssh"] = live["ssh"] /\ liveTemp' = liveTemp
    BY <1>1, <1>3, StepLoads DEF IInv, TypeOK
  <2>2. live["nftables"] # "final" /\ live'["nftables"] # "final"
    BY <1>3, <2>1 DEF IInv, Firewalled, SshIsFinal
  <2>3. admin' = "usable" /\ ~ufw'
    BY <1>1 DEF IInv, Administered
  <2>4. CASE disk["ssh"] = "final"
    <3>1. admin = "usable" /\ ~ufw
      BY <2>4 DEF IInv, Administered
    <3> QED BY <2>1, <2>2, <2>3, <3>1 DEF WaysNow, WaysIn, Reach, Opens
  <2>5. CASE disk["ssh"] # "final"
    <3>1. UNCHANGED <<live, liveTemp, ufw, admin>>
      BY <1>1, <2>5, StepWrites DEF IInv
    <3> QED BY <3>1 DEF WaysNow, WaysIn, Reach
  <2> QED BY <2>4, <2>5
<1> QED BY <1>2, <1>3

(* Every step of the bootstrap is a step of the handover or none.          *)
LEMMA StepRefines ==
  ASSUME IInv, IInv', AccessIs, AccessIs', [Next]_vars
  PROVE  [Access!Next]_(Access!vars)
<1> DEFINE open == {ways \in SUBSET ({"root", "admin"} \X {OldPort, NewPort}) : ways # {}}
<1>1. marker \in BOOLEAN /\ marker' \in BOOLEAN /\ Handed \in BOOLEAN /\ Handed' \in BOOLEAN
  BY DEF IInv, TypeOK, Handed
<1>2. WaysNow \in open /\ WaysNow' \in open /\ WaysNext \in open /\ WaysNext' \in open
  BY DEF AccessIs
<1> HIDE DEF open
<1>3. CASE ~Handed /\ ~Handed'
  <2>1. marker = FALSE /\ marker' = FALSE
    BY <1>1, <1>3 DEF AccessIs
  <2>2. WaysNow' \cap WaysNow # {} \/ {Root} \subseteq WaysNow'
    BY StepOverlaps
  <2>3. Access!Change
    BY <1>1, <1>2, <1>3, <2>1, <2>2 DEF Access!Change, Access!Open, open, Root
  <2> QED BY <2>3 DEF Access!Next
<1>4. CASE ~Handed /\ Handed'
  <2>1. marker = FALSE /\ marker' = FALSE
    BY <1>1, <1>4, StepMarks DEF AccessIs, IInv
  <2>2. Admin \in WaysNow' /\ WaysNext' = {Admin}
    BY <1>4 DEF AccessIs, Handed
  <2>3. WaysNow' \subseteq WaysNow
    BY <1>4, StepCloses
  <2>4. Access!HandOver
    BY <1>1, <1>4, <2>1, <2>2, <2>3 DEF Access!HandOver, Admin
  <2> QED BY <2>4 DEF Access!Next
<1>5. CASE Handed
  <2>1. Handed'
    BY <1>5, StepHanded DEF IInv
  <2>2. WaysNext = {Admin} /\ WaysNext' = {Admin} /\ Admin \in WaysNow'
    BY <1>5, <2>1 DEF AccessIs, Handed
  <2>3. WaysNow' \subseteq WaysNow
    BY <2>1, StepCloses
  <2>4. CASE marker' = marker
    <3>1. Access!Close
      BY <1>1, <1>5, <2>1, <2>2, <2>3, <2>4 DEF Access!Close, Admin
    <3> QED BY <3>1 DEF Access!Next
  <2>5. CASE marker' # marker
    <3>1. UNCHANGED <<disk, live, temp, liveTemp, rules, ufw, admin>>
      BY <2>5, StepMarks DEF IInv
    <3>2. UNCHANGED <<WaysNow, WaysNext>>
      BY <3>1 DEF WaysNow, WaysNext, WaysIn, Reach
    <3>3. CASE marker'
      <4>1. WaysNow = {Admin}
        BY <2>5, <3>3, StepMarks DEF IInv, AccessIs
      <4>2. Access!Declare
        BY <1>1, <1>5, <2>1, <3>2, <3>3, <4>1 DEF Access!Declare, Admin
      <4> QED BY <4>2 DEF Access!Next
    <3>4. CASE ~marker'
      <4>1. Access!Withdraw
        BY <1>1, <1>5, <2>1, <3>2, <3>4 DEF Access!Withdraw
      <4> QED BY <4>1 DEF Access!Next
    <3> QED BY <3>3, <3>4
  <2> QED BY <2>4, <2>5
<1> QED BY <1>1, <1>3, <1>4, <1>5

(* The bootstrap implements AccessHandover, initial states and steps: the  *)
(* way in is handed once from the provider's to the administrator's while  *)
(* both are open, and no fault, reboot or later run takes it back.         *)
THEOREM HandsAccessOver == Spec => ImplementsAccessHandover
<1>1. Init /\ AccessIs => Access!Init
  <2> SUFFICES ASSUME Init, AccessIs PROVE Access!Init
    OBVIOUS
  <2>1. Handed = FALSE
    BY DEF Init, Handed, AppearsFinalized, Components
  <2>2. marker = FALSE
    BY DEF Init
  <2> QED BY <2>1, <2>2 DEF AccessIs, Access!Init, Access!Open
<1> QED BY <1>1, InvariantAccess, Invariant, StepRefines, PTL
       DEF Spec, Access!Spec, ImplementsAccessHandover

(* The checks at the end of each phase pass on every host a run comes to   *)
(* them on, whatever killed runs left there before.                        *)
THEOREM RunsPassTheirChecks == Spec => []ChecksPass
<1>1. IInv => ChecksPass
  <2> SUFFICES ASSUME IInv PROVE ChecksPass
    OBVIOUS
  <2>1. ASSUME pc = "verifyall"
        PROVE  /\ SshIsFinal /\ live["nftables"] = "final" /\ live["fail2ban"] = "final"
               /\ rules.enabled /\ rules.active /\ ~ufw
    BY <2>1 DEF IInv, Progress, Firewalled, Enabled, Administered, AfterCheck
  <2> QED BY <2>1 DEF ChecksPass, IInv, Ready
<1> QED BY <1>1, Invariant, PTL

(* The calls left, place by place.                                         *)
LEMMA Calls ==
  ASSUME NEW c \in Components
  PROVE  /\ CallsFrom("idle", c) = 0 /\ CallsFrom("prepared", c) = 1 /\ CallsFrom("mark", c) = 1
         /\ CallsFrom("giveup", c) = 1 /\ CallsFrom("ban", c) = 2
         /\ CallsFrom("verifyall", c) = 2 /\ CallsFrom("reopen", c) = 2
         /\ CallsFrom("stop", c) = 3 /\ CallsFrom("clean", c) = 3 /\ CallsFrom("restore", c) = 3
         /\ CallsFrom("jail", c) = 4 /\ CallsFrom("reapply", c) = 4
         /\ CallsFrom("again", c) = 5 /\ CallsFrom("rollback", c) = 5
         /\ CallsFrom("ufw", c) = 6 /\ CallsFrom("start", c) = 7 /\ CallsFrom("load", c) = 8
         /\ CallsFrom("rules", c) = 9 /\ CallsFrom("reload", c) = 10
         /\ CallsFrom("temp", c) = 11 /\ CallsFrom("password", c) = 12
         /\ CallsFrom("admin", c) = 13 /\ CallsFrom("runtime", c) = 20
         /\ CallsFrom("remove", c) = 30 /\ CallsFrom("check", c) = 31
         /\ c = "ssh" => /\ CallsFrom("verify", c) = 26 /\ CallsFrom("restart", c) = 27
                         /\ CallsFrom("apply", c) = 28 /\ CallsFrom("install", c) = 29
         /\ c = "nftables" => /\ CallsFrom("verify", c) = 16 /\ CallsFrom("restart", c) = 17
                              /\ CallsFrom("apply", c) = 18 /\ CallsFrom("install", c) = 19
         /\ c = "fail2ban" => /\ CallsFrom("verify", c) = 6 /\ CallsFrom("restart", c) = 7
                              /\ CallsFrom("apply", c) = 8 /\ CallsFrom("install", c) = 9
BY DEF CallsFrom, Components

(* Every step of a run leaves it fewer calls than before.                  *)
LEMMA StepShortens ==
  ASSUME TypeOK, TypeOK', Progress, pc # "idle", Next
  PROVE  StepsLeft' \in 0..(StepsLeft - 1)
<1>1. comp \in Components /\ comp' \in Components
  BY DEF TypeOK
<1>2. ASSUME Ended PROVE CallsFrom(pc', comp') = 0
  BY <1>1, <1>2, Calls DEF Ended
<1>3. CallsFrom(pc, comp) \in 1..31
  BY <1>1, Calls DEF TypeOK, Steps, Components
<1> SUFFICES CallsFrom(pc', comp') \in 0..(CallsFrom(pc, comp) - 1)
  BY DEF StepsLeft
<1> USE DEF run, At
<1>4. CASE CreateAdmin \/ SetPassword \/ WriteTemporary \/ ReloadTemporary
  BY <1>1, <1>4, Calls DEF CreateAdmin, SetPassword, WriteTemporary, ReloadTemporary
<1>5. CASE InstallRules \/ LoadRules \/ StartRules \/ RemoveUfw \/ InstallRulesAgain
  BY <1>1, <1>5, Calls DEF InstallRules, LoadRules, StartRules, RemoveUfw, InstallRulesAgain
<1>6. CASE InstallJail \/ StopJail \/ StartJail \/ Check \/ RemoveTemporary
  BY <1>1, <1>6, Calls DEF InstallJail, StopJail, StartJail, Check, RemoveTemporary, Components
<1>7. CASE VerifyPrepared \/ GiveUp \/ Mark \/ Refuse \/ Die \/ Reboot
  BY <1>2, <1>3, <1>7 DEF VerifyPrepared, GiveUp, Mark, Refuse, Die, Reboot
<1>8. CASE Install \/ Apply \/ Restart \/ ApplyFails \/ Rollback
  BY <1>1, <1>8, Calls DEF Install, Apply, Restart, ApplyFails, Rollback, Components
<1>9. CASE Verify
  <2>1. CASE comp = "ssh"
    BY <1>1, <1>9, <2>1, Calls DEF Verify, After
  <2>2. CASE comp = "nftables"
    BY <1>1, <1>9, <2>2, Calls DEF Verify, After
  <2>3. CASE comp = "fail2ban"
    BY <1>1, <1>9, <2>3, Calls DEF Verify, After
  <2> QED BY <1>1, <2>1, <2>2, <2>3 DEF Components
<1>10. CASE InstallFails \/ Reapply \/ ReapplyFails
  <2>1. CASE comp = "ssh"
    BY <1>1, <1>10, <2>1, Calls DEF InstallFails, Reapply, ReapplyFails, Failed
  <2>2. CASE comp # "ssh"
    BY <1>2, <1>3, <1>10, <2>2 DEF InstallFails, Reapply, ReapplyFails, Failed
  <2> QED BY <2>1, <2>2
<1>11. CASE VerifyRuntime \/ RuntimeFails \/ Restore \/ Reopen \/ Clean \/ VerifyAll
  BY <1>1, <1>11, Calls DEF VerifyRuntime, RuntimeFails, Restore, Reopen, Clean, VerifyAll,
     Components
<1>12. CASE Prepare \/ Finalize
  BY <1>12 DEF Prepare, Finalize
<1> QED
    BY <1>4, <1>5, <1>6, <1>7, <1>8, <1>9, <1>10, <1>11, <1>12 DEF Next, PrepareStep,
       FinalizeStep, Faults

(* Every run of either phase is over after at most 31 calls of its own, on *)
(* whatever host it starts and whatever fails.                             *)
THEOREM EveryRunEnds == Spec => RunsEnd
<1>1. IInv /\ IInv' /\ [Next]_vars => [pc # "idle" => StepsLeft' \in 0..(StepsLeft - 1)]_vars
  BY StepShortens DEF IInv
<1> QED BY <1>1, Invariant, PTL DEF Spec, RunsEnd
=============================================================================
