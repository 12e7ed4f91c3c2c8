--------------------------- MODULE PayInstallProofs ---------------------------
(***************************************************************************)
(* The safety properties of PayInstall, for any set of applications and any *)
(* number of faults.  The inductive invariant is IInv; each lemma Step...  *)
(* shows that one of its parts survives every step, one action at a time.  *)
(***************************************************************************)
EXTENDS PayInstall, FiniteSetTheorems, TLAPS

(* Whatever every application is in is one of the states it can be in. *)
LEMMA AllTyped ==
  ASSUME NEW state \in {"up", "down", "waiting"}
  PROVE  All(state) \in [Roles -> {"up", "down", "waiting"}]
  BY DEF All

(* A fault is counted, and there is one afterwards. *)
LEMMA FaultCounted ==
  ASSUME TypeOK, Fault
  PROVE  faults' \in 0..MaxFaults /\ faults' # 0
  BY FaultsAssumption DEF TypeOK, Fault

(* The installation is whole after a step that leaves its files and phase. *)
LEMMA WholeKept ==
  ASSUME UNCHANGED <<phase, file>>
  PROVE  Whole' <=> Whole
  BY DEF Whole

(* There are applications to be running. *)
LEMMA SomeRole == \E r \in Roles : TRUE
  BY RoleAssumption

(* When all are looked at, and there was no fault, a backup has found them  *)
(* active just when the recorded phase says they run.                       *)
LEMMA ActiveMeansStarted ==
  ASSUME Quiet, Calm, faults = 0, pc \in BackupPCs \ {"look"}
  PROVE  Active <=> phase = "started"
<1>1. ups \subseteq Roles /\ \A r \in Roles : r \in ups <=> phase = "started"
  BY DEF Quiet, Calm
<1>2. CASE phase = "started"
  BY <1>1, <1>2 DEF Active
<1>3. CASE phase # "started"
  BY <1>1, <1>3, SomeRole DEF Active
<1> QED BY <1>2, <1>3

(* Every variable keeps its type. *)
LEMMA StepTyped ==
  ASSUME TypeOK, [Next]_vars
  PROVE  TypeOK'
<1> USE FaultsAssumption DEF TypeOK, At, installed, locals, history, PCs, PreparePCs, StartPCs, StopPCs, BackupPCs
<1>1. CASE \E first \in {"start", "stop", "look"} : Begin(first)
  BY <1>1 DEF Begin
<1>2. CASE Prepare \/ MakeAccount \/ Publish \/ Resume \/ CreateUnit \/ FillUnit \/ Prepared
  <2>1. CASE Prepare
    BY <2>1 DEF Prepare
  <2>2. CASE MakeAccount
    BY <2>2 DEF MakeAccount
  <2>3. CASE Publish
    BY <2>3 DEF Publish
  <2>4. CASE Resume
    BY <2>4 DEF Resume
  <2>5. CASE CreateUnit
    BY <2>5 DEF CreateUnit
  <2>6. CASE FillUnit
    BY <2>6 DEF FillUnit
  <2>7. CASE Prepared
    BY <2>7 DEF Prepared, Ended
  <2> QED BY <1>2, <2>1, <2>2, <2>3, <2>4, <2>5, <2>6, <2>7
<1>3. CASE StartTarget \/ CheckActive \/ Undo \/ Checked \/ RecordStart \/ StopAll \/ RecordStop
  <2>1. CASE StartTarget
    BY <2>1, AllTyped DEF StartTarget
  <2>2. CASE CheckActive
    BY <2>2 DEF CheckActive
  <2>3. CASE Undo
    BY <2>3, AllTyped DEF Undo, Ended
  <2>4. CASE Checked
    BY <2>4 DEF Checked
  <2>5. CASE RecordStart
    BY <2>5 DEF RecordStart, Ended
  <2>6. CASE StopAll
    BY <2>6, AllTyped DEF StopAll
  <2>7. CASE RecordStop
    BY <2>7 DEF RecordStop, Ended
  <2> QED BY <1>3, <2>1, <2>2, <2>3, <2>4, <2>5, <2>6, <2>7
<1>4. CASE Look \/ Looked \/ LookedMixed \/ Quiesce \/ Pgrep \/ PgrepRefuses
  <2>1. CASE Look
    BY <2>1 DEF Look
  <2>2. CASE Looked
    BY <2>2 DEF Looked
  <2>3. CASE LookedMixed
    BY <2>3 DEF LookedMixed, Ended
  <2>4. CASE Quiesce
    BY <2>4, AllTyped DEF Quiesce
  <2>5. CASE Pgrep
    BY <2>5 DEF Pgrep
  <2>6. CASE PgrepRefuses
    BY <2>6 DEF PgrepRefuses
  <2> QED BY <1>4, <2>1, <2>2, <2>3, <2>4, <2>5, <2>6
<1>5. CASE CaptureGateway \/ CaptureJournal \/ NoJournal \/ Manifest \/ GiveBack
  <2>1. CASE CaptureGateway
    BY <2>1 DEF CaptureGateway
  <2>2. CASE CaptureJournal
    BY <2>2 DEF CaptureJournal
  <2>3. CASE NoJournal
    BY <2>3 DEF NoJournal
  <2>4. CASE Manifest
    BY <2>4 DEF Manifest
  <2>5. CASE GiveBack
    BY <2>5, AllTyped DEF GiveBack, Ended
  <2> QED BY <1>5, <2>1, <2>2, <2>3, <2>4, <2>5
<1>6. CASE StartFails \/ StopFails \/ CaptureFails \/ Crash \/ Die \/ Reboot
  <2>1. CASE StartFails
    BY <2>1, AllTyped, FaultCounted DEF StartFails, Fault
  <2>2. CASE StopFails
    BY <2>2, AllTyped, FaultCounted DEF StopFails, Fault, Ended
  <2>3. CASE CaptureFails
    BY <2>3, AllTyped, FaultCounted DEF CaptureFails, Fault
  <2>4. CASE Crash
    BY <2>4, AllTyped, FaultCounted DEF Crash, Fault
  <2>5. CASE Die
    BY <2>5, AllTyped, FaultCounted DEF Die, Fault, Ended
  <2>6. CASE Reboot
    BY <2>6, AllTyped, FaultCounted DEF Reboot, Fault, Ended
  <2> QED BY <1>6, <2>1, <2>2, <2>3, <2>4, <2>5, <2>6
<1>7. CASE Respawn \/ CliStart \/ CliEnd \/ Write
  <2>1. CASE Respawn
    BY <2>1 DEF Respawn
  <2>2. CASE CliStart
    BY <2>2 DEF CliStart
  <2>3. CASE CliEnd
    BY <2>3 DEF CliEnd
  <2>4. CASE Write
    BY <2>4 DEF Write
  <2> QED BY <1>7, <2>1, <2>2, <2>3, <2>4
<1>8. CASE UNCHANGED vars
  BY <1>8 DEF vars, locals, history
<1> QED
  BY <1>1, <1>2, <1>3, <1>4, <1>5, <1>6, <1>7, <1>8
  DEF Next, Commands, Step, Faults, Others, Start, Stop, Backup

(* What runs, runs from a whole installation: only a command that verified *)
(* it starts anything, and prepare touches no installation that is whole.   *)
LEMMA StepOnlyWhole ==
  ASSUME TypeOK, OnlyWholeRuns, Installing, [Next]_vars
  PROVE  OnlyWholeRuns'
<1> USE DEF OnlyWholeRuns, Installing, At, installed, locals, StartPCs, StopPCs, BackupPCs, All
<1>1. CASE \E first \in {"start", "stop", "look"} : Begin(first)
  BY <1>1, WholeKept DEF Begin
<1>2. CASE Prepare \/ MakeAccount \/ Publish \/ Resume \/ CreateUnit \/ FillUnit \/ Prepared
  <2>1. CASE Prepare
    BY <2>1, WholeKept DEF Prepare
  <2>2. CASE MakeAccount
    BY <2>2, WholeKept DEF MakeAccount
  <2>3. CASE Publish
    BY <2>3 DEF Publish, Whole
  <2>4. CASE Resume
    BY <2>4, WholeKept DEF Resume
  <2>5. CASE CreateUnit
    BY <2>5 DEF CreateUnit, Whole
  <2>6. CASE FillUnit
    BY <2>6 DEF FillUnit, Whole
  <2>7. CASE Prepared
    BY <2>7, WholeKept DEF Prepared, Ended
  <2> QED BY <1>2, <2>1, <2>2, <2>3, <2>4, <2>5, <2>6, <2>7
<1>3. CASE StartTarget \/ CheckActive \/ Undo \/ Checked \/ RecordStart \/ StopAll \/ RecordStop
  <2>1. CASE StartTarget
    BY <2>1, WholeKept DEF StartTarget
  <2>2. CASE CheckActive
    BY <2>2, WholeKept DEF CheckActive
  <2>3. CASE Undo
    BY <2>3, WholeKept DEF Undo, Ended
  <2>4. CASE Checked
    BY <2>4, WholeKept DEF Checked
  <2>5. CASE RecordStart
    BY <2>5 DEF RecordStart, Ended, Whole
  <2>6. CASE StopAll
    BY <2>6, WholeKept DEF StopAll
  <2>7. CASE RecordStop
    BY <2>7 DEF RecordStop, Ended, Whole
  <2> QED BY <1>3, <2>1, <2>2, <2>3, <2>4, <2>5, <2>6, <2>7
<1>4. CASE Look \/ Looked \/ LookedMixed \/ Quiesce \/ Pgrep \/ PgrepRefuses
  <2>1. CASE Look
    BY <2>1, WholeKept DEF Look
  <2>2. CASE Looked
    BY <2>2, WholeKept DEF Looked
  <2>3. CASE LookedMixed
    BY <2>3, WholeKept DEF LookedMixed, Ended
  <2>4. CASE Quiesce
    BY <2>4, WholeKept DEF Quiesce
  <2>5. CASE Pgrep
    BY <2>5, WholeKept DEF Pgrep
  <2>6. CASE PgrepRefuses
    BY <2>6, WholeKept DEF PgrepRefuses
  <2> QED BY <1>4, <2>1, <2>2, <2>3, <2>4, <2>5, <2>6
<1>5. CASE CaptureGateway \/ CaptureJournal \/ NoJournal \/ Manifest \/ GiveBack
  <2>1. CASE CaptureGateway
    BY <2>1, WholeKept DEF CaptureGateway
  <2>2. CASE CaptureJournal
    BY <2>2, WholeKept DEF CaptureJournal
  <2>3. CASE NoJournal
    BY <2>3, WholeKept DEF NoJournal
  <2>4. CASE Manifest
    BY <2>4, WholeKept DEF Manifest
  <2>5. CASE GiveBack
    BY <2>5, WholeKept DEF GiveBack, Ended
  <2> QED BY <1>5, <2>1, <2>2, <2>3, <2>4, <2>5
<1>6. CASE StartFails \/ StopFails \/ CaptureFails \/ Crash \/ Die \/ Reboot
  <2>1. CASE StartFails
    BY <2>1, WholeKept DEF StartFails, Fault
  <2>2. CASE StopFails
    BY <2>2, WholeKept DEF StopFails, Fault, Ended
  <2>3. CASE CaptureFails
    BY <2>3, WholeKept DEF CaptureFails, Fault
  <2>4. CASE Crash
    BY <2>4, WholeKept DEF Crash, Fault
  <2>5. CASE Die
    BY <2>5, WholeKept DEF Die, Fault, Ended
  <2>6. CASE Reboot
    BY <2>6, WholeKept DEF Reboot, Fault, Ended
  <2> QED BY <1>6, <2>1, <2>2, <2>3, <2>4, <2>5, <2>6
<1>7. CASE Respawn \/ CliStart \/ CliEnd \/ Write
  <2>1. CASE Respawn
    BY <2>1, WholeKept DEF Respawn
  <2>2. CASE CliStart
    BY <2>2, WholeKept DEF CliStart
  <2>3. CASE CliEnd
    BY <2>3, WholeKept DEF CliEnd
  <2>4. CASE Write
    BY <2>4, WholeKept DEF Write
  <2> QED BY <1>7, <2>1, <2>2, <2>3, <2>4
<1>8. CASE UNCHANGED vars
  BY <1>8, WholeKept DEF vars, locals, history
<1> QED
  BY <1>1, <1>2, <1>3, <1>4, <1>5, <1>6, <1>7, <1>8
  DEF Next, Commands, Step, Faults, Others, Start, Stop, Backup

(* A command other than prepare finds the installation whole throughout.   *)
LEMMA StepInstalling ==
  ASSUME TypeOK, Installing, [Next]_vars
  PROVE  Installing'
<1> USE DEF Installing, At, installed, locals, PCs, StartPCs, StopPCs, BackupPCs
<1>1. CASE \E first \in {"start", "stop", "look"} : Begin(first)
  BY <1>1, WholeKept DEF Begin
<1>2. CASE Prepare \/ MakeAccount \/ Publish \/ Resume \/ CreateUnit \/ FillUnit \/ Prepared
  <2>1. CASE Prepare
    BY <2>1, WholeKept DEF Prepare
  <2>2. CASE MakeAccount
    BY <2>2, WholeKept DEF MakeAccount
  <2>3. CASE Publish
    BY <2>3 DEF Publish, Whole, TypeOK
  <2>4. CASE Resume
    BY <2>4, WholeKept DEF Resume
  <2>5. CASE CreateUnit
    BY <2>5 DEF CreateUnit, Whole, TypeOK
  <2>6. CASE FillUnit
    BY <2>6 DEF FillUnit, Whole, TypeOK
  <2>7. CASE Prepared
    BY <2>7, WholeKept DEF Prepared, Ended, Ended
  <2> QED BY <1>2, <2>1, <2>2, <2>3, <2>4, <2>5, <2>6, <2>7
<1>3. CASE StartTarget \/ CheckActive \/ Undo \/ Checked \/ RecordStart \/ StopAll \/ RecordStop
  <2>1. CASE StartTarget
    BY <2>1, WholeKept DEF StartTarget
  <2>2. CASE CheckActive
    BY <2>2, WholeKept DEF CheckActive
  <2>3. CASE Undo
    BY <2>3, WholeKept DEF Undo, Ended, Ended
  <2>4. CASE Checked
    BY <2>4, WholeKept DEF Checked
  <2>5. CASE RecordStart
    BY <2>5 DEF RecordStart, Ended, Whole, TypeOK
  <2>6. CASE StopAll
    BY <2>6, WholeKept DEF StopAll
  <2>7. CASE RecordStop
    BY <2>7 DEF RecordStop, Ended, Whole, TypeOK
  <2> QED BY <1>3, <2>1, <2>2, <2>3, <2>4, <2>5, <2>6, <2>7
<1>4. CASE Look \/ Looked \/ LookedMixed \/ Quiesce \/ Pgrep \/ PgrepRefuses
  <2>1. CASE Look
    BY <2>1, WholeKept DEF Look
  <2>2. CASE Looked
    BY <2>2, WholeKept DEF Looked
  <2>3. CASE LookedMixed
    BY <2>3, WholeKept DEF LookedMixed, Ended, Ended
  <2>4. CASE Quiesce
    BY <2>4, WholeKept DEF Quiesce
  <2>5. CASE Pgrep
    BY <2>5, WholeKept DEF Pgrep
  <2>6. CASE PgrepRefuses
    BY <2>6, WholeKept DEF PgrepRefuses
  <2> QED BY <1>4, <2>1, <2>2, <2>3, <2>4, <2>5, <2>6
<1>5. CASE CaptureGateway \/ CaptureJournal \/ NoJournal \/ Manifest \/ GiveBack
  <2>1. CASE CaptureGateway
    BY <2>1, WholeKept DEF CaptureGateway
  <2>2. CASE CaptureJournal
    BY <2>2, WholeKept DEF CaptureJournal
  <2>3. CASE NoJournal
    BY <2>3, WholeKept DEF NoJournal
  <2>4. CASE Manifest
    BY <2>4, WholeKept DEF Manifest
  <2>5. CASE GiveBack
    BY <2>5, WholeKept DEF GiveBack, Ended, Ended
  <2> QED BY <1>5, <2>1, <2>2, <2>3, <2>4, <2>5
<1>6. CASE StartFails \/ StopFails \/ CaptureFails \/ Crash \/ Die \/ Reboot
  <2>1. CASE StartFails
    BY <2>1, WholeKept DEF StartFails, Fault
  <2>2. CASE StopFails
    BY <2>2, WholeKept DEF StopFails, Fault, Ended, Ended
  <2>3. CASE CaptureFails
    BY <2>3, WholeKept DEF CaptureFails, Fault
  <2>4. CASE Crash
    BY <2>4, WholeKept DEF Crash, Fault
  <2>5. CASE Die
    BY <2>5, WholeKept DEF Die, Fault, Ended, Ended
  <2>6. CASE Reboot
    BY <2>6, WholeKept DEF Reboot, Fault, Ended, Ended
  <2> QED BY <1>6, <2>1, <2>2, <2>3, <2>4, <2>5, <2>6
<1>7. CASE Respawn \/ CliStart \/ CliEnd \/ Write
  <2>1. CASE Respawn
    BY <2>1, WholeKept DEF Respawn
  <2>2. CASE CliStart
    BY <2>2, WholeKept DEF CliStart
  <2>3. CASE CliEnd
    BY <2>3, WholeKept DEF CliEnd
  <2>4. CASE Write
    BY <2>4, WholeKept DEF Write
  <2> QED BY <1>7, <2>1, <2>2, <2>3, <2>4
<1>8. CASE UNCHANGED vars
  BY <1>8, WholeKept DEF vars, locals, history
<1> QED
  BY <1>1, <1>2, <1>3, <1>4, <1>5, <1>6, <1>7, <1>8
  DEF Next, Commands, Step, Faults, Others, Start, Stop, Backup

(* Nothing comes back during the capture of a deployment that was stopped. *)
LEMMA StepQuiet ==
  ASSUME TypeOK, Quiet, [Next]_vars
  PROVE  Quiet'
<1> USE SomeRole DEF Quiet, TypeOK, Active, At, installed, locals, history, All, PCs, PreparePCs, StartPCs, StopPCs, BackupPCs
<1>1. CASE \E first \in {"start", "stop", "look"} : Begin(first)
  BY <1>1 DEF Begin
<1>2. CASE Prepare \/ MakeAccount \/ Publish \/ Resume \/ CreateUnit \/ FillUnit \/ Prepared
  <2>1. CASE Prepare
    BY <2>1 DEF Prepare
  <2>2. CASE MakeAccount
    BY <2>2 DEF MakeAccount
  <2>3. CASE Publish
    BY <2>3 DEF Publish
  <2>4. CASE Resume
    BY <2>4 DEF Resume
  <2>5. CASE CreateUnit
    BY <2>5 DEF CreateUnit
  <2>6. CASE FillUnit
    BY <2>6 DEF FillUnit
  <2>7. CASE Prepared
    BY <2>7 DEF Prepared, Ended
  <2> QED BY <1>2, <2>1, <2>2, <2>3, <2>4, <2>5, <2>6, <2>7
<1>3. CASE StartTarget \/ CheckActive \/ Undo \/ Checked \/ RecordStart \/ StopAll \/ RecordStop
  <2>1. CASE StartTarget
    BY <2>1 DEF StartTarget
  <2>2. CASE CheckActive
    BY <2>2 DEF CheckActive
  <2>3. CASE Undo
    BY <2>3 DEF Undo, Ended
  <2>4. CASE Checked
    BY <2>4 DEF Checked
  <2>5. CASE RecordStart
    BY <2>5 DEF RecordStart, Ended
  <2>6. CASE StopAll
    BY <2>6 DEF StopAll
  <2>7. CASE RecordStop
    BY <2>7 DEF RecordStop, Ended
  <2> QED BY <1>3, <2>1, <2>2, <2>3, <2>4, <2>5, <2>6, <2>7
<1>4. CASE Look \/ Looked \/ LookedMixed \/ Quiesce \/ Pgrep \/ PgrepRefuses
  <2>1. CASE Look
    BY <2>1 DEF Look
  <2>2. CASE Looked
    BY <2>2 DEF Looked
  <2>3. CASE LookedMixed
    BY <2>3 DEF LookedMixed, Ended
  <2>4. CASE Quiesce
    BY <2>4 DEF Quiesce
  <2>5. CASE Pgrep
    BY <2>5 DEF Pgrep
  <2>6. CASE PgrepRefuses
    BY <2>6 DEF PgrepRefuses
  <2> QED BY <1>4, <2>1, <2>2, <2>3, <2>4, <2>5, <2>6
<1>5. CASE CaptureGateway \/ CaptureJournal \/ NoJournal \/ Manifest \/ GiveBack
  <2>1. CASE CaptureGateway
    BY <2>1 DEF CaptureGateway
  <2>2. CASE CaptureJournal
    BY <2>2 DEF CaptureJournal
  <2>3. CASE NoJournal
    BY <2>3 DEF NoJournal
  <2>4. CASE Manifest
    BY <2>4 DEF Manifest
  <2>5. CASE GiveBack
    BY <2>5 DEF GiveBack, Ended
  <2> QED BY <1>5, <2>1, <2>2, <2>3, <2>4, <2>5
<1>6. CASE StartFails \/ StopFails \/ CaptureFails \/ Crash \/ Die \/ Reboot
  <2>1. CASE StartFails
    BY <2>1 DEF StartFails, Fault
  <2>2. CASE StopFails
    BY <2>2 DEF StopFails, Fault, Ended
  <2>3. CASE CaptureFails
    BY <2>3 DEF CaptureFails, Fault
  <2>4. CASE Crash
    BY <2>4 DEF Crash, Fault
  <2>5. CASE Die
    BY <2>5 DEF Die, Fault, Ended
  <2>6. CASE Reboot
    BY <2>6 DEF Reboot, Fault, Ended
  <2> QED BY <1>6, <2>1, <2>2, <2>3, <2>4, <2>5, <2>6
<1>7. CASE Respawn \/ CliStart \/ CliEnd \/ Write
  <2>1. CASE Respawn
    BY <2>1 DEF Respawn
  <2>2. CASE CliStart
    BY <2>2 DEF CliStart
  <2>3. CASE CliEnd
    BY <2>3 DEF CliEnd
  <2>4. CASE Write
    BY <2>4 DEF Write
  <2> QED BY <1>7, <2>1, <2>2, <2>3, <2>4
<1>8. CASE UNCHANGED vars
  BY <1>8 DEF vars, locals, history
<1> QED
  BY <1>1, <1>2, <1>3, <1>4, <1>5, <1>6, <1>7, <1>8
  DEF Next, Commands, Step, Faults, Others, Start, Stop, Backup

(* Without a fault, what runs follows the phase and the command at work.    *)
LEMMA StepCalm ==
  ASSUME TypeOK, Installing, Quiet, Calm, [Next]_vars
  PROVE  Calm'
<1> USE SomeRole DEF Calm, Active, At, installed, locals, history, PCs, PreparePCs, StartPCs, StopPCs, BackupPCs, All
<1>1. CASE \E first \in {"start", "stop", "look"} : Begin(first)
  BY <1>1 DEF Begin
<1>2. CASE Prepare \/ MakeAccount \/ Publish \/ Resume \/ CreateUnit \/ FillUnit \/ Prepared
  <2>1. CASE Prepare
    BY <2>1 DEF Prepare
  <2>2. CASE MakeAccount
    BY <2>2 DEF MakeAccount
  <2>3. CASE Publish
    BY <2>3 DEF Publish, Installing
  <2>4. CASE Resume
    BY <2>4 DEF Resume
  <2>5. CASE CreateUnit
    BY <2>5 DEF CreateUnit
  <2>6. CASE FillUnit
    BY <2>6 DEF FillUnit
  <2>7. CASE Prepared
    BY <2>7 DEF Prepared, Ended
  <2> QED BY <1>2, <2>1, <2>2, <2>3, <2>4, <2>5, <2>6, <2>7
<1>3. CASE StartTarget \/ CheckActive \/ Undo \/ Checked \/ RecordStart \/ StopAll \/ RecordStop
  <2>1. CASE StartTarget
    BY <2>1 DEF StartTarget
  <2>2. CASE CheckActive
    BY <2>2 DEF CheckActive, TypeOK
  <2>3. CASE Undo
    BY <2>3 DEF Undo, Ended
  <2>4. CASE Checked
    BY <2>4 DEF Checked
  <2>5. CASE RecordStart
    BY <2>5 DEF RecordStart, Ended
  <2>6. CASE StopAll
    BY <2>6 DEF StopAll
  <2>7. CASE RecordStop
    BY <2>7 DEF RecordStop, Ended
  <2> QED BY <1>3, <2>1, <2>2, <2>3, <2>4, <2>5, <2>6, <2>7
<1>4. CASE Look \/ Looked \/ LookedMixed \/ Quiesce \/ Pgrep \/ PgrepRefuses
  <2>1. CASE Look
    BY <2>1 DEF Look, TypeOK
  <2>2. CASE Looked
    BY <2>2 DEF Looked
  <2>3. CASE LookedMixed
    BY <2>3 DEF LookedMixed, Ended, TypeOK
  <2>4. CASE Quiesce
    BY <2>4, ActiveMeansStarted DEF Quiesce, TypeOK
  <2>5. CASE Pgrep
    BY <2>5 DEF Pgrep
  <2>6. CASE PgrepRefuses
    BY <2>6 DEF PgrepRefuses
  <2> QED BY <1>4, <2>1, <2>2, <2>3, <2>4, <2>5, <2>6
<1>5. CASE CaptureGateway \/ CaptureJournal \/ NoJournal \/ Manifest \/ GiveBack
  <2>1. CASE CaptureGateway
    BY <2>1 DEF CaptureGateway
  <2>2. CASE CaptureJournal
    BY <2>2 DEF CaptureJournal
  <2>3. CASE NoJournal
    BY <2>3 DEF NoJournal
  <2>4. CASE Manifest
    BY <2>4 DEF Manifest
  <2>5. CASE GiveBack
    BY <2>5, ActiveMeansStarted DEF GiveBack, Ended, TypeOK
  <2> QED BY <1>5, <2>1, <2>2, <2>3, <2>4, <2>5
<1>6. CASE StartFails \/ StopFails \/ CaptureFails \/ Crash \/ Die \/ Reboot
  <2>1. CASE StartFails
    BY <2>1, FaultCounted DEF StartFails, Fault
  <2>2. CASE StopFails
    BY <2>2, FaultCounted DEF StopFails, Fault, Ended
  <2>3. CASE CaptureFails
    BY <2>3, FaultCounted DEF CaptureFails, Fault
  <2>4. CASE Crash
    BY <2>4, FaultCounted DEF Crash, Fault
  <2>5. CASE Die
    BY <2>5, FaultCounted DEF Die, Fault, Ended
  <2>6. CASE Reboot
    BY <2>6, FaultCounted DEF Reboot, Fault, Ended
  <2> QED BY <1>6, <2>1, <2>2, <2>3, <2>4, <2>5, <2>6
<1>7. CASE Respawn \/ CliStart \/ CliEnd \/ Write
  <2>1. CASE Respawn
    BY <2>1 DEF Respawn, TypeOK
  <2>2. CASE CliStart
    BY <2>2 DEF CliStart
  <2>3. CASE CliEnd
    BY <2>3 DEF CliEnd
  <2>4. CASE Write
    BY <2>4 DEF Write
  <2> QED BY <1>7, <2>1, <2>2, <2>3, <2>4
<1>8. CASE UNCHANGED vars
  BY <1>8 DEF vars, locals, history
<1> QED
  BY <1>1, <1>2, <1>3, <1>4, <1>5, <1>6, <1>7, <1>8
  DEF Next, Commands, Step, Faults, Others, Start, Stop, Backup

(* The initial states satisfy the invariant. *)
LEMMA InitIInv ==
  ASSUME Init
  PROVE  IInv
<1>1. TypeOK
  <2>1. app \in [Roles -> {"up", "down", "waiting"}]
    BY AllTyped DEF Init
  <2>2. file \in [Units -> {"absent", "partial", "whole"}]
    BY DEF Init
  <2>3. phase = "none" /\ pc \in PCs /\ todo \subseteq Roles /\ ups \subseteq Roles
    BY DEF Init, PCs
  <2>4. account \in BOOLEAN /\ cli \in BOOLEAN /\ torn \in BOOLEAN /\ late \in BOOLEAN
    BY DEF Init
  <2>5. faults \in 0..MaxFaults
    BY FaultsAssumption DEF Init
  <2> QED BY <2>1, <2>2, <2>3, <2>4, <2>5 DEF TypeOK
<1>2. OnlyWholeRuns
  BY DEF Init, OnlyWholeRuns, All
<1>3. Installing
  BY DEF Init, Installing, StartPCs, StopPCs, BackupPCs
<1>4. Quiet
  BY DEF Init, Quiet
<1>5. Calm
  BY DEF Init, Calm, PreparePCs, BackupPCs
<1> QED BY <1>1, <1>2, <1>3, <1>4, <1>5 DEF IInv

(* The inductive invariant holds always. *)
THEOREM InductiveInvariant == Spec => []IInv
<1>1. Init => IInv
  BY InitIInv
<1>2. IInv /\ [Next]_vars => IInv'
  BY StepTyped, StepOnlyWhole, StepInstalling, StepQuiet, StepCalm DEF IInv
<1> QED BY <1>1, <1>2, PTL DEF Spec

(* Every variable keeps its type. *)
THEOREM TypeCorrect == Spec => []TypeOK
<1>1. IInv => TypeOK
  BY DEF IInv
<1> QED BY <1>1, InductiveInvariant, PTL

(* However often prepare died and whatever was tried in between, no         *)
(* application runs from an installation that was published in part: start  *)
(* and the end of a backup are behind verify, the rest starts nothing.      *)
THEOREM NothingPartialRuns == Spec => []OnlyWholeRuns
<1>1. IInv => OnlyWholeRuns
  BY DEF IInv
<1> QED BY <1>1, InductiveInvariant, PTL

(* The two databases of a running deployment are captured as of one moment, *)
(* unless the operator started the CLI after the check for processes.       *)
THEOREM CoherentBackup == Spec => []RunningBackupIsCoherent
<1>1. IInv => RunningBackupIsCoherent
  BY DEF IInv, Quiet, RunningBackupIsCoherent
<1> QED BY <1>1, InductiveInvariant, PTL

(* Between commands, and as long as nothing failed, what runs is what the   *)
(* recorded phase says, after a refused backup or start too.                *)
THEOREM PhaseIsTrue == Spec => []RestMatchesPhase
<1>1. IInv => RestMatchesPhase
  BY DEF IInv, Calm, RestMatchesPhase
<1> QED BY <1>1, InductiveInvariant, PTL

-----------------------------------------------------------------------------
(* Commands end.                                                           *)

(* The steps left, place by place.                                         *)
LEMMA StepsAt ==
  ASSUME NEW w, NEW l
  PROVE  /\ StepsFrom("idle", w, l) = 0
         /\ StepsFrom("account", w, l) = 2 * w + 3 /\ StepsFrom("publish", w, l) = 2 * w + 2
         /\ StepsFrom("files", w, l) = 2 * w + 1 /\ StepsFrom("fill", w, l) = 2 * w + 2
         /\ StepsFrom("start", w, l) = l + 3 /\ StepsFrom("check", w, l) = l + 2
         /\ StepsFrom("undo", w, l) = 1 /\ StepsFrom("started", w, l) = 1
         /\ StepsFrom("stopped", w, l) = 1 /\ StepsFrom("giveback", w, l) = 1
         /\ StepsFrom("stop", w, l) = 2 /\ StepsFrom("manifest", w, l) = 2
         /\ StepsFrom("look", w, l) = l + 7 /\ StepsFrom("quiesce", w, l) = 6
         /\ StepsFrom("pgrep", w, l) = 5 /\ StepsFrom("gateway", w, l) = 4
         /\ StepsFrom("journal", w, l) = 3
BY DEF StepsFrom

(* A command at work has a positive number of steps before it.             *)
LEMMA StepsTyped ==
  ASSUME NEW p \in PCs, p # "idle", NEW w \in Nat, NEW l \in Nat
  PROVE  StepsFrom(p, w, l) \in Nat \ {0}
<1>1. \/ p \in {"account", "publish", "files", "fill"}
      \/ p \in {"start", "check", "undo", "started"}
      \/ p \in {"stop", "stopped"}
      \/ p \in {"look", "quiesce", "pgrep", "gateway", "journal", "manifest", "giveback"}
  BY DEF PCs, PreparePCs, StartPCs, StopPCs, BackupPCs
<1> QED BY <1>1, StepsAt

(* What the loops have before them is finite.                              *)
LEMMA Finite ==
  ASSUME TypeOK
  PROVE  /\ IsFiniteSet(Unwritten) /\ Cardinality(Unwritten) \in Nat
         /\ IsFiniteSet(todo) /\ Cardinality(todo) \in Nat
<1>1. IsFiniteSet(Units)
  BY FiniteAssumption, FS_AddElement DEF Units
<1>2. IsFiniteSet(Unwritten)
  BY <1>1, FS_Subset DEF Unwritten
<1>3. IsFiniteSet(todo)
  BY FiniteAssumption, FS_Subset DEF TypeOK
<1> QED BY <1>2, <1>3, FS_CardinalityType

(* A unit that is begun is one less to be written.                         *)
LEMMA CreateWrites ==
  ASSUME TypeOK, CreateUnit
  PROVE  Cardinality(Unwritten') = Cardinality(Unwritten) - 1
<1>1. PICK u \in Units : file[u] = "absent" /\ file' = [file EXCEPT ![u] = "partial"]
  BY DEF CreateUnit
<1>2. u \in Unwritten /\ Unwritten' = Unwritten \ {u}
  BY <1>1 DEF Unwritten, TypeOK
<1> QED BY <1>2, Finite, FS_RemoveElement

(* A step of the command, and nothing else, brings its end nearer.         *)
LEMMA StepShortens ==
  ASSUME TypeOK, TypeOK', pc # "idle", Next
  PROVE  StepsLeft' \in 0..(StepsLeft - 1) \/ UNCHANGED <<pc, todo, ups, file>>
<1> DEFINE w == Cardinality(Unwritten)
           l == Cardinality(todo)
<1>1. w \in Nat /\ l \in Nat
  BY Finite
<1>2. l' \in Nat
  BY FiniteAssumption, FS_Subset, FS_CardinalityType DEF TypeOK
<1>3. file' = file => w' = w
  BY DEF Unwritten
<1>4. todo' = todo => l' = l
  OBVIOUS
<1>5. StepsFrom(pc, w, l) \in Nat \ {0}
  BY <1>1, StepsTyped DEF TypeOK
<1>6. ASSUME Ended, w' \in Nat PROVE StepsFrom(pc', w', l') = 0
  BY <1>2, <1>6, StepsAt DEF Ended
<1>7. ASSUME NEW r \in todo, todo' = todo \ {r} PROVE l' = l - 1
  BY <1>7, Finite, FS_RemoveElement
<1>8. CreateUnit => w' = w - 1
  BY CreateWrites
<1>9. FillUnit => w' = w
  <2>1. FillUnit => Unwritten' = Unwritten
    BY DEF FillUnit, Unwritten
  <2> QED BY <2>1
<1> HIDE DEF w, l
<1> SUFFICES \/ StepsFrom(pc', w', l') \in 0..(StepsFrom(pc, w, l) - 1)
             \/ UNCHANGED <<pc, todo, ups, file>>
  BY DEF StepsLeft, w, l
<1> USE DEF At, installed, locals
<1>10. CASE MakeAccount \/ Publish
  BY <1>1, <1>3, <1>4, <1>10, StepsAt DEF MakeAccount, Publish
<1>11. CASE CreateUnit
  <2>1. w' \in Nat
    BY FiniteAssumption, <1>1, <1>8, <1>11, FS_Subset, FS_AddElement, FS_CardinalityType
       DEF w, Unwritten, Units
  <2>2. w' = w - 1
    BY <1>8, <1>11
  <2>3. StepsFrom(pc, w, l) = 2 * w + 1 /\ StepsFrom(pc', w', l') = 2 * w' + 2
    BY <1>11, StepsAt DEF CreateUnit
  <2>4. 2 * w' + 2 \in 0..((2 * w + 1) - 1)
    BY ONLY <1>1, <2>1, <2>2
  <2> QED BY <2>3, <2>4
<1>12. CASE FillUnit
  BY <1>1, <1>4, <1>9, <1>12, StepsAt DEF FillUnit
<1>13. CASE Prepared \/ Undo \/ RecordStart \/ RecordStop \/ LookedMixed \/ GiveBack
  BY <1>1, <1>3, <1>5, <1>6, <1>13
     DEF Prepared, Undo, RecordStart, RecordStop, LookedMixed, GiveBack
<1>14. CASE StartTarget \/ StopAll \/ Checked \/ StartFails
  BY <1>1, <1>3, <1>4, <1>14, StepsAt DEF StartTarget, StopAll, Checked, StartFails
<1>15. CASE CheckActive
  <2>1. PICK r \in todo :
          IF app[r] = "up" THEN At("check", "check") /\ todo' = todo \ {r}
          ELSE At("check", "undo") /\ UNCHANGED todo
    BY <1>15 DEF CheckActive
  <2>2. file' = file
    BY <1>15 DEF CheckActive
  <2>3. CASE app[r] = "up"
    BY <1>1, <1>2, <1>3, <1>7, <2>1, <2>2, <2>3, StepsAt
  <2>4. CASE app[r] # "up"
    BY <1>1, <1>3, <1>4, <2>1, <2>2, <2>4, StepsAt
  <2> QED BY <2>3, <2>4
<1>16. CASE Look
  <2>1. PICK r \in todo : At("look", "look") /\ todo' = todo \ {r} /\ file' = file
    BY <1>16 DEF Look
  <2> QED BY <1>1, <1>2, <1>3, <1>7, <2>1, StepsAt
<1>17. CASE Looked \/ Quiesce \/ Pgrep \/ PgrepRefuses \/ CaptureGateway
  BY <1>1, <1>3, <1>4, <1>17, StepsAt DEF Looked, Quiesce, Pgrep, PgrepRefuses, CaptureGateway
<1>18. CASE CaptureJournal \/ NoJournal \/ Manifest \/ CaptureFails
  BY <1>1, <1>3, <1>4, <1>18, StepsAt DEF CaptureJournal, NoJournal, Manifest, CaptureFails
<1>19. CASE StopFails \/ Die \/ Reboot
  BY <1>1, <1>3, <1>5, <1>6, <1>19 DEF StopFails, Die, Reboot
<1>20. CASE Crash \/ Respawn \/ CliStart \/ CliEnd \/ Write
  BY <1>20 DEF Crash, Respawn, CliStart, CliEnd, Write
<1>21. CASE Commands
  BY <1>21 DEF Commands, Prepare, Resume, Start, Stop, Backup, Begin
<1> QED
  BY <1>10, <1>11, <1>12, <1>13, <1>14, <1>15, <1>16, <1>17, <1>18, <1>19, <1>20, <1>21
     DEF Next, Step, Faults, Others

(* Every command ends after a bounded number of steps, for any finite set  *)
(* of applications: the loops look at each once, and a failing step leads   *)
(* to the end and never back.                                              *)
THEOREM EveryCommandEnds == Spec => CommandsEnd
<1>1. IInv /\ IInv' /\ [Next]_vars
        => [pc # "idle" => StepsLeft' \in 0..(StepsLeft - 1)
                             \/ UNCHANGED <<pc, todo, ups, file>>]_vars
  BY StepShortens DEF IInv
<1> QED BY <1>1, InductiveInvariant, PTL DEF Spec, CommandsEnd

(* A backup that took a running deployment down starts it again before it  *)
(* ends, refused and failed captures included; only a kill or a reboot can *)
(* keep it from that.                                                      *)
THEOREM BackupRestarts == Spec => BackupGivesBack
<1>1. TypeOK /\ [Next]_vars
        => [Active /\ pc \in {"pgrep", "gateway", "journal", "manifest", "giveback"} /\ pc' = "idle"
              => app' = All("up") \/ faults' > faults]_vars
  <2> SUFFICES ASSUME TypeOK, Next, Active, pc' = "idle",
                      pc \in {"pgrep", "gateway", "journal", "manifest", "giveback"}
               PROVE  app' = All("up") \/ faults' > faults
    OBVIOUS
  <2>1. \/ GiveBack \/ Die \/ Reboot
    BY DEF Next, Commands, Prepare, Resume, Start, Stop, Backup, Begin, At, Step, MakeAccount,
       Publish, CreateUnit, FillUnit, Prepared, StartTarget, CheckActive, Undo, Checked,
       RecordStart, StopAll, RecordStop, Look, Looked, LookedMixed, Quiesce, Pgrep, PgrepRefuses,
       CaptureGateway, CaptureJournal, NoJournal, Manifest, Faults, StartFails, StopFails,
       CaptureFails, Crash, Others, Respawn, CliStart, CliEnd, Write
  <2>2. Fault => faults' > faults
    BY FaultsAssumption DEF TypeOK, Fault
  <2> QED BY <2>1, <2>2 DEF GiveBack, Die, Reboot
<1>2. IInv => TypeOK
  BY DEF IInv
<1> QED BY <1>1, <1>2, InductiveInvariant, PTL DEF Spec, BackupGivesBack
=============================================================================
