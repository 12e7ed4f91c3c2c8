# Verification of discrete-infrastructure

TLA+ modules, TLC configurations and TLAPS proofs kept beside the deployment and operations code of
this repository. The code is shell, Python and a little JavaScript that changes real hosts step by
step; what is hard about it is not any one step but what is left when a command dies, a host
reboots, an answer is lost or an operator runs the next command too early. That is what is modelled.

Paths below are relative to the repository. `H` is `modules/host`, `M` is
`monitoring/discrete-pay`, `Q` is `qualification/discrete-pay`, `S` is `services/discrete-pay`.

## 1. The system and its parts

| Part | State it keeps | Operations | Interacts with |
|---|---|---|---|
| **Pay monitor** `M/monitor.mjs`, `M/policy.mjs`, `M/discrete-pay-monitor.service` | `state.json` (candidate, count, confirmed, queue of alerts, failures, next attempt), the same object in memory, systemd's start count | load, poll and observe, save, notify, save again, sleep; restart by systemd | polls the observer over SSH, posts alerts to Telegram |
| **Pay observer** `M/collect.mjs`, `M/snapshot.mjs` | `snapshot.json` | collect (`systemctl show`, then `journalctl`, then rename), forced-command read | read by the monitor; observes the worker |
| **Monitoring installer** `M/install.py` | account, files, units, `authorized_keys`, an sshd drop-in | first install of the monitor or the observer, the observer's resume, withdrawal of the drop-in and the key | shares sshd with administrators and package updates; starts the collector |
| **Pay application upgrade** `Q/persistent-upgrade.py` | `plan.json`, unit files, `install.json`, `acceptance.json`, backups | `trial`, `activate`, `recover` | changes the fixture's units; `recover` runs from `ExecStopPost` |
| **Fixture tests** `Q/service-test.py`, `Q/reboot-test.py` | the fixture's directory and its cold backup, exported and installed units, two evidence files, a state file | service test with restore; prepare, verify, cleanup of the reboot test | use the same unit names, without a lock |
| **Persistent fixture** `Q/persistent-test.py` | the clone under `/opt/discrete-pay-test`, `install.json`, `acceptance.json`, units | install, enable, stop, verify | installs what the fixture tests qualified; the installation the upgrade changes |
| **Combined sequence** `Q/combined-sequence.py` | its state file, a child unit | run, restore | waits for the native test, pauses and resumes the fixture; restore runs from two `ExecStopPost` and by hand |
| **Pay application installer** `S/install.py` | account, release directory, unit files, `install.json` with its phase, backups | prepare (and its resume), verify, start, stop, backup, under one lock | systemd runs and restarts the four applications; the operator's CLI writes to the same databases |
| **Host bootstrap** `H/bootstrap/debian-ipv4.sh`, `create-admin.sh` | sshd, nftables and fail2ban files and what runs of them, the temporary SSH file, UFW, the administrator, the finalized marker | `prepare`, `finalize`, `status` | runs the next part |
| **Host configuration** `H/scripts/apply-config.sh`, `apply-nftables.sh`, `restart-fail2ban.sh` | the files of `configs/manifest.tsv`, backups | copy, install, validate, reload, verify, roll back | run by finalize or by hand |
| Host verification, IPv4 policy, time sync, Ubuntu wrapper, probes, bundle tools, off-host backup, benchmarks, profiles, CI | little or none | read, check, copy | listed in PROJECT.json with the reason they are left out |

What is hard, part by part, and what makes the part correct:

* **Monitor.** The process may die between any two of poll, save, send, save; an answer may be lost
  after the receiver accepted; the queue is bounded and a full one ends the process; systemd gives
  up after five starts. Correct: no alert is lost, invented or overtaken, a repetition keeps its id,
  an incident is alerted only after sustained observations, the operator's picture catches up.
* **Upgrade.** Four units, two JSON files and a plan are written one by one under a lock; a command
  may die before any of them, the host may reboot in between, and the commands trust flags of
  commands that died. Correct: the plan tells the truth about the host, every death leaves something
  that recover can finish, acceptance means what it says, the backup is older than the candidate.
* **Bootstrap.** sshd and the firewall are changed under the operator's own session; files and
  running services differ between write and reload; a failing component is rolled back by a script
  whose own failure is ignored. Correct: somebody can log in at every moment and after a reboot, and
  the marker means final.
* **Pay application installer.** prepare is interrupted at any call and run again; commands act first
  and record afterwards; backup takes a running deployment down while systemd restarts what crashes
  and the operator may start a CLI. Correct: nothing runs that is not whole, the two databases are of
  one moment, a refused command gives back what it took down.
* **Combined sequence.** Supervisor, its `ExecStopPost`, an operator's restore and the test unit's own
  `ExecStopPost` move one stack and one marker; each may die anywhere. Correct: a stack that was taken
  down is marked so and given back, nothing of it runs beside the test or a prerequisite that was
  there first, and a second launch does not overwrite the marker of the first.
* **Fixture tests and persistent fixture.** Commands without a lock beside each other, evidence and
  units in files read at different times, a restore that renames the original away, write-then-record
  windows. Correct: only what passed is prepared, evidence is of a boot, a removal is whole, the
  original survives the restore, no clone of a ledger that was written to runs, a command
  that has the installation to itself leaves a true record.
* **Monitoring installer.** The last steps open sshd to a second account, and sshd may be reloaded by
  others in between. Correct: the account can log in only through a configuration that was checked;
  what is reported is complete; what was taken back can be resumed.
* **Observer.** Two reads that are not one snapshot. Planned, see section 8.

PROJECT.json lists 40 hazards at their lines. Four have no property and say why.

## 2. Modules

| Module | Models | Kind |
|---|---|---|
| `AlertLog` | what the monitor promises its operator | abstract specification |
| `PayMonitor` | policy.mjs, monitor.mjs and the unit's restart policy | detailed; implements AlertLog |
| `PayMonitorPower` | the same on a host that can lose power | extends PayMonitor |
| `ReversibleChange` | what persistent-upgrade.py promises | abstract specification |
| `PayUpgrade` | persistent-upgrade.py | detailed; implements ReversibleChange |
| `AccessHandover` | what the two-phase bootstrap promises about access | abstract specification |
| `HostBootstrap` | debian-ipv4.sh with the scripts it runs | detailed; implements AccessHandover |
| `PayInstall` | services/discrete-pay/install.py | detailed |
| `StackLoan` | what the combined sequence promises to who shares the stack | abstract specification |
| `CombinedSequence` | combined-sequence.py, with the units it runs in and beside | detailed; implements StackLoan |
| `ObserverInstall` | monitoring/discrete-pay/install.py | detailed |
| `BootQualification` | what the two tests' records promise their reader | abstract specification |
| `RebootTest` | service-test.py and reboot-test.py side by side | detailed; implements BootQualification |
| `PersistentFixture` | persistent-test.py beside those two | extends RebootTest |
| `MC...` | values for TLC | one for each run's module; RebootTest is checked with PersistentFixture |
| `...Proofs` | theorems about each detailed module; PayMonitorProofs holds those of PayMonitorPower too, PersistentFixtureProofs extends RebootTestProofs | TLAPS |

Operators named `Bug...` are not part of a model. Each stands before a definition and is a way that
definition could plausibly have been got wrong (a dropped guard, a missing reset, a swapped order);
PROJECT.json pairs it with the property that notices.

### PayMonitor

`mem` is the object `state` of the running process, `disk` is `state.json`, `pc` is where the loop of
`main` and `tick` is. `Load`, `Poll`, `Save`, `SendAccepted`, `SendAmbiguous`, `SendRefused`,
`Resave`, `Sleep` and `Quit` are the steps between which the process can die; `Crash`, `Restart`
(with `StartLimitBurst` and its interval), `Boot` and `Terminate` are what systemd and the host do;
`Flip` changes what a poll would see. An issue set stands for the sorted key of the code, time runs
in units of the ten-second poll, `nextAttemptAt` is the time left until it, and an id is the number
of the push that made it, since ids come from a clock that only moves on. A poll whose process dies
before its save never happened as far as the code can know, so it does not interrupt a run of equal
observations.

### PayUpgrade

`unit`, `loaded` and `running` are what a unit file, systemd and the process of each application
name; `install`, `evidence` and `plan` are the JSON files; `pc` is the step the command holding
`upgrade.lock` is about to take. `StopUnits`, `WriteUnits`, `StartUnits` act on one unit per step, in
any order, so that a death can fall between two units. `Die` is any failing call, timeout or kill,
hash mismatches and a changed ledger fingerprint included; `Reboot` starts what is on disk. `touched`
and `milestone` are history for the properties only. `ExecStopPost` is not wired to `Die`: recover
may come at once, later, or die itself. A recover that finds the lock held changes nothing and is
not a step; that somebody calls it again is assumed (section 3).

### HostBootstrap

For each component `disk` is the managed file ("stock", "bootstrap" or "final") and `live` what the
service has loaded; `temp` and `liveTemp` are the temporary SSH file and sshd's view of it. `pc` is
the next call of the run. `WaysIn` puts together sshd's ports, the ports the firewall and UFW let
through, PermitRootLogin and the state of the administrator's account, for the host as it runs
(`WaysNow`) and as it would come back from a reboot (`WaysNext`): sshd reads the temporary file
first, and with neither file it listens on port 22 and admits root, as the provider's image does.
`Install`, `Apply`, `Restart`, `Verify`, `Rollback` and `Reapply` are apply-config.sh for the
component in `comp`, `InstallFails`, `ApplyFails` and `ReapplyFails` its failures (the last is
ignored by the code). `Die` is a kill or a failing call under `set -e`, `Reboot` replaces what runs
by what is on disk.

Assumptions: one run at a time (there is no lock; the runbook asks for one root session); a file is
written in one step, and the two fail2ban files move together; the operator confirms the login test
truthfully, so `ADMIN_SSH_CONFIRMED=1` and `FORCE_PREPARE=1` are not modelled. The second
`install_bootstrap_firewall` of prepare is one step, since it replaces equal by equal. `status` only
reads. Packages, the sysctl policy and time synchronisation are left out: nothing in these phases
depends on them except by failing.

### PayInstall

`phase` is that of `install.json`, which appears with the rename of the staged tree; `account` is the
system user, `file` what stands under each unit's name ("partial" between the exclusive open and the
write of `write_once`). `app` is what systemd makes of each application: "waiting" is the five
seconds before a restart on failure, in which `is-active` answers as for a stopped unit. `todo` and
`ups` are the loops of start and of backup, one `is-active` per step, so a crash can fall between two
of them. A failing step of the capture goes to the `finally` clause (`GiveBack`), as a refusal by
pgrep does; a failing step of anything else is `Die`. `torn` and `late` are history for the property
on backups.

Assumptions: the request is valid and always the same one, the package is whole, and what prepare
checks before it makes the user passes. A changed owned file, which `verify` refuses, is not among
the events. What is copied into a backup beside the databases has no writer and is left out, and so
is the manifest's content. systemd stops every application it is asked to stop.

### CombinedSequence

Four processes execute `run` or `restore`: the supervisor, its `ExecStopPost`, an operator, and the
test unit's `ExecStopPost`. `pc` is the next step of each of the first three and `copy` the marker a
restore has read and will write back (`Q/combined-sequence.py:80-89` reads first and writes last).
`phase` and `paused` are the two fields of `sequence-state.json` that decide anything; `stack` is the private
target with its units, `child` the test unit, `native` the prerequisite, which holds the stack down
while it runs (`held`) and may be launched again at any time. `Recheck` is the second look of lines
106-108. A failing step goes to the `finally` clause (`Fails`), a killed supervisor leaves the restore
to its unit (`StopPost`), and an operator may call restore or give up.

The test unit's `ExecStopPost` starts the target without validating anything, as line 127 does. An
operator who restores beside a living supervisor, or who launches the native test while the sequence
has the stack (`HasStack`), is recorded in `meddled`, and what the sequence promises about the stack
is claimed only without that: the code has nothing to keep them apart. `into` tells what a native
test was launched into: "nothing", where PrerequisiteUndisturbed protects it whatever else happens;
the "look", between the sequence's last look at the stack (line 114) and the record of the pause
(115); or a "loan", a recorded pause with the restores that end it. In the last two the code's own
recovery starts the stack beside it. For the "look" that contradicts `Q/README.md:154-155` outright
and is finding 5; with a pause on record the sentence's reason, that there is no marker, is gone, but
what happens is the same.

### ObserverInstall

What a run has made is a set of artifacts, `disk`, with those a kill left half written in `torn`; `After`
is the order of the steps for each role and for a resume. `conf` is the rest of sshd's configuration,
which somebody may edit into one the check refuses, `loaded` whether the running sshd has read the
drop-in: it may do so by a foreign reload before the check is made. `Check`, `Reload`, `ReloadFails`,
`TakeBack`, `Retest` and `Rereload` are lines 139-151 call by call; a reload may fail after it took
effect. A resume is refused as in lines 69-86; it accepts a run that died before `.ssh` was made but
then fails, because a resumed run does not make it. `vetted` and `abandoned` are history: a kill
between the drop-in and its verdict leaves an unchecked drop-in behind, and that is all that may.

### RebootTest and PersistentFixture

`place` says where each fixture's data are, `backup` and `preserved` what a restore falls back on.
`units` and `runsOn` are the `payqual-paged-*` units, which the service test runs as transient units
and the reboot test from installed files (`file`, `enabled`), one file per step and the target last.
`exported` is "mixed" while the units of two fixtures lie side by side in `paged-boot-units`. `sv` and
`rb` are the next steps of the two programs. State and evidence files are rewritten in place, so a
kill leaves them "torn" or unreadable, and so it does the unit file being written. `passed` and
`booted` are history. The restore's `tar -x` takes two steps, `BeginUntar` and `EndUntar`: it runs as
root, so that no look for processes of the fixture's user sees it, and while it runs whoever opens the
directory finds a part ("partial").

PersistentFixture adds the clone and its commands: `ins`, `en` and `st` are the next steps of install,
enable and stop. `hashed` is what install hashed of the original: the whole directory, a partial one,
or "other" once a test has written to it since. `clone` is what install made of it: "bad" if the
original had been written to, "torn" if it was copied while half extracted. `Compare` looks at the
original again and never at the clone, as lines 222-226 do; a hash taken while tar is at work may or
may not show what it adds. So a part that was hashed and copied passes the comparison if tar has not
gone on visibly, and a whole directory that was copied in part passes when it is whole again. enable
and stop write back the `install.json` they read at their start. `qualified`, `crossed` and `sure` are
history: the source had passed its service test when install began; a command at work was begun while
another was; the last that was done to the installation was done by one command alone, from its
beginning to its end.

Assumptions: probes pass while the units are up, or a call fails; unit texts are what the exported
files say; a fixture is prepared by the native harness before it is tested. One service-test.py
and one reboot-test.py at a time, each beside everything else: a prepare beside a cleanup, which
`Q/reboot-test.py:93` does not refuse while the state says "installing", is not modelled, nor is a tar
that goes on after its parent was killed. `acceptance.json` is written by somebody who has read the
stack back, so only after install has reported it as started; the upgrade is outside.

## 3. Runs

Distinct states are those of a complete search.

| Run | States | Checks | Shows |
|---|---|---|---|
| `monitor` | 1,026,796 | PersistedStateIsAccepted, NothingDropped, NewestAlertIsConfirmed, HaltsOnlyWhenFull, Hysteresis, ImplementsAlertLog, ViewConverges, BacklogDrains | with deaths, reboots, stop requests and lost answers between any two steps, no alert is lost, invented, reordered or premature and a start accepts whatever an earlier process wrote; unless something kills it only a full queue uses up the unit's starts; once observations settle the operator's picture follows and the backlog drains |
| `monitor_power` | | RepeatsKeepTheirId (violated) | finding 1 |
| `upgrade` | 95,990 | RestIsConsistent, AcceptedIsProven, BackupPredatesCandidate, MixedOnlyAfterReboot, StuckOnlyAfterFault, ImplementsReversibleChange, RecoverResolves | deaths before any step and reboots at any moment leave one reversible change, and an owed undo is eventually done or the upgrade accepted |
| `host` | 3,366 | NeverLockedOut, MarkerMeansFinal, DeadEndIsFinal, ChecksPass, ImplementsAccessHandover, EventuallyFinal | through faults at any step and reruns in any order nobody is shut out, access is handed over once and for good, no run comes to a final check it must fail and the marker tells the truth; an operator who keeps at it ends finalized, or after a fault in the final dead end |
| `host_restore` | | RestoredMeansRestored (violated) | finding 2 |
| `pay_install` | 9,513 | OnlyWholeRuns, RunningBackupIsCoherent, RestMatchesPhase, EventuallyWhole, TakenDownIsGivenBack | through deaths, crashes, reboots and a CLI at work nothing partial runs, a backup of a running deployment is of one moment, and the phase is true as long as nothing failed; prepare repeated ends whole or in a dead end left by a fault, and without a fault a backup restarts what it stopped |
| `pay_install_retry` | | PublicationMayBeRetried (violated) | finding 3 |
| `pay_install_capture` | | StoppedWhileCaptured (violated) | finding 4 |
| `sequence` | 319,558 | PauseIsMarked, PrerequisiteUndisturbed, ImplementsStackLoan, MarkerNeverGoesBack, EventuallyGivenBack | whoever dies or restores when, one of stack, prerequisite and test runs at a time, a prerequisite launched before the last look or after the last restore is left alone, a stack taken down is marked as such before and until it is back, the marker's account never goes back, and the stack is up in the end |
| `sequence_prerequisite` | | RecoverySparesPrerequisite (violated) | finding 5 |
| `observer_install` | 1,005 | AdmittedIsVetted, InstalledIsWhole, TakenBackIsResumed | with kills, half-successful reloads, foreign reloads and edits of sshd's configuration the account gets in only through a checked drop-in, what is reported is whole, and what was taken back can be resumed |
| `fixture` | 1,293,082 | RebootTestsQualified, CleanedLeavesNothing, OriginalRetained, ImplementsBootQualification, CloneIsTheOriginal, RecordIsTrue | service test, reboot test, install, enable and stop side by side: the record of a reboot test goes only forward and means what it says, units, evidence and state stay about the same fixture and the same boot, a removal is whole, the data survive the restore, no clone of an original that was written to runs, and one command that has the installation to itself leaves its record true |

Type invariants are proved for every module and every value of the constants (section 4), so no run
repeats them.

### Bounds

* **monitor**: thresholds are the code's (3 and 2 polls); the queue holds 2 alerts instead of 32,
  enough to be empty, to have an alert behind the one in delivery, and to be full; observations are
  sets over two issues; 3 changes of what is seen open, clear and reopen an incident and fill the
  queue; one death and one lost answer, each at every step. Retry delays are capped at 2 units, so a
  delay can be due, be pending and be at its cap; the start limit is 2 instead of 5. MaxCycle lets a
  cycle last longer than the period, as a slow SSH call does.
* **upgrade**: the applications are the model values of the cfg; 4 deaths and 2 reboots let a trial
  die, its recover die, its second recover finish, and the activation go the same way. The theorems
  hold for any number and any set of applications.
* **host**: MaxFaults bounds kills, failing calls and reboots together, 5. Phases can be rerun without
  bound. Nothing in the model counts but `faults`, and the theorems hold for any number.
* **pay_install**: two applications, enough to be found in a mixed state, and the target. MaxFaults
  bounds kills, failing calls, crashes and reboots together: 3 (both applications crash and the
  command dies), and as many as the counterexample needs in the two violations. Commands are
  unbounded.
* **sequence**: the supervisor is launched twice, so a second one meets every marker the first can
  leave; 3 faults let the supervisor, the restore after it and the test unit fail in one history, or
  the prerequisite be launched again in between. One launch and one fault are enough for the violation.
* **observer_install**: 4 faults: an edit, a foreign reload, a failing reload and a failing
  withdrawal, in any order. Runs are unbounded.
* **fixture**: two unit files and two instances in one run, chosen at the start by which fixtures are in
  play. One fixture, with every command, one fault and two reboots: the tests run again on the
  original while it is installed. Two fixtures, the fewest that can be mixed up (interchangeable, so
  symmetric), with faults and reboots, two of both together: a service test of one beside a reboot
  test or an install of the other. enable and stop read no evidence and name no fixture, so they are
  left to the first. The theorems hold for any number of fixtures, units, faults
  and reboots, and for all commands at once.

### Deadlock

`CHECK_DEADLOCK FALSE` is in the monitor's configurations, since a monitor that was stopped, with the
environment's bounds used up, does nothing any more; in the installer's, since after a death between
useradd and the rename every command is refused for good; in the sequence's and the monitoring
installer's, which are over when they have passed or are refused for good; and in those of the
fixture's tests, whose state files refuse every command after a cleanup or a torn write. In the others
some command can always be given.

### Fairness, and why the code justifies it

* **Monitor**: weak fairness of the process's own steps (timers and deadlines bound every one of
  them) and of systemd's restart; strong fairness of SendAccepted: a receiver that is tried again and
  again accepts some day. Without that the code can only keep trying, and it does.
* **Upgrade**: weak fairness of the command at work, and of Recover while an undo is owed: it is the
  supervisor's ExecStopPost, and after a reboot the operator, as the qualification README asks. One
  that was refused because another command held the lock (`Q/persistent-upgrade.py:280`) is not tried
  again by the code: that somebody calls it again is an assumption about the operator. What the code
  itself guarantees until then is that the owed undo stays on record (ImplementsReversibleChange).
* **Host**: weak fairness of a run's steps; strong fairness of the operator's two commands while the
  host is not finalized. For prepare this is the runbook's own instruction
  (`docs/host/bootstrap-from-zero.md:263-277`). For finalize the runbook asks the operator to stop and
  get "failure-specific recovery instructions before running `finalize` again" (480-500); the model
  assumes that these end in running it again, and nothing else repairs the host meanwhile.
* **Installer**: weak fairness of the command at work (each call has a time limit) and of the operator
  who prepares, and prepares again while the units are not all in place. No fairness for systemd's
  restarts or the CLI.
* **Sequence**: weak fairness of the supervisor's steps, of its unit (systemd runs `ExecStopPost`
  whenever the supervisor ends), of the test unit's end with its `ExecStopPost` (both have a time
  limit), of an operator's restore that was begun, and of an operator who calls restore when the
  marker says paused and no supervisor runs: `Q/README.md:9-10` wants the stack restored "on
  both successful and failed completion", and when the unit that does so died too only the operator is
  left to call it. No fairness for the prerequisite.
* **Monitoring installer**: weak fairness of a run's steps, of the first installation, and of a resume
  after a withdrawal: what the code can promise is that a resume works, not that somebody asks for it.

## 4. What is proved

All with TLAPS, for every value of the constants that the named assumptions allow, so for any queue
limit, any set of applications and any number of deaths, reboots and faults. Every safety property
of a passing run is a theorem, and so are the type invariants, five refinements, and what liveness
rests on apart from fairness.

* **PayMonitorProofs**, from `ObservationAssumption` and `LimitAssumption` (thresholds positive, the
  recovery threshold not above the incident's, the backoff within what the validator accepts).
  TypeCorrect, NoAlertDropped, LogFollowsConfirmed, RestartAcceptsState, AlertsAreSustained,
  HaltsAloneOnlyWhenFull, and BehavesAsAlertLog: the monitor refines AlertLog. The
  properties are not inductive by themselves: they speak of `state.json`, and what is saved next is
  whatever is in memory. The invariant therefore says, for each step of a tick, how memory differs
  from the file: after a poll by at most one alert at the end, which names what is now confirmed;
  after a send by at most the head, which the receiver has if it is gone; at rest not at all. The
  count that justifies an alert is bounded by the run of saved observations (`CountedRun`), which is
  what Hysteresis needs. The refinement also needs the ids (`Identified`): they grow along the log and
  nothing received is newer than the log, so the head of the queue can be told from every other alert
  and `HeadSeen` says whether the receiver has it. A save with a new alert is then Raise, a send is
  DeliverNext or DeliverAgain, and the save that removes the head stutters.

  What survives a loss of power (`PowerSpec`, where an older `state.json` may come back):
  PowerLossLeavesAState (a start accepts the file), PowerLossInventsNothing (the receiver gets only
  alerts that a saved poll had raised) and PowerLossKeepsIds (one id never stands for two alerts).
  `PowerInv` says each of these of the file in the directory and of the one that may replace it, and
  that ids come from a clock that no loss of power sets back. Hysteresis, NothingDropped
  and NewestAlertIsConfirmed do not survive it; nor does a stable id for an incident, finding 1.
* **PayUpgradeProofs**, from `BoundAssumption` and `RoleAssumption`. TypeCorrect, NoHalfDoneRest,
  AcceptanceIsEarned, BackupComesFirst, NoMixedService, NeverStuckAlone, and Reversible: the whole of
  PayUpgrade refines ReversibleChange, initial states to initial states and every step to a step or a
  stutter. The invariant `IInv` is a conjunction of what each step may rely on: nothing is touched unless the
  undo marker is durable (`Marked`), what earlier steps of the same command did (`Staged`), no flag
  without the verification behind it (`Witnessed`), the backup before the candidate (`BackedUp`) and
  one release at a time without a reboot (`Uniform`). NeverStuckAlone adds what a run nobody disturbs
  has left on record when an undo is owed (`Unhurt`). ChecksAreMet: what `set_phase`, `accept` and
  `verify_running` demand holds when a command comes to them, so no command is refused halfway by its
  own checks; it takes what a command was granted at its start and which release it started
  (`Underway`). OwedUndoIsNear: see below.
* **HostBootstrapProofs**, from `FaultsAssumption`. TypeCorrect, AlwaysAWayIn, MarkerIsEarned,
  DeadEndIsHarmless. `IInv` has, beside the marker: what a run has done by its place
  (`Progress`), a loaded firewall belongs to an enabled service with a file (`Enabled`), root is
  refused only where the administrator was seen to log in (`Administered`), port 22 is closed only
  under a final sshd, in memory and on disk (`Firewalled`), and nothing that would be put back undoes
  that (`Undoable`). NeverLockedOut follows from `Administered` and `Firewalled`; the other parts are
  there because a rollback puts back an older file. HandsAccessOver: the bootstrap refines
  AccessHandover. NeverLockedOut says that some way is open in every state; the refinement, that no
  step exchanges one way for another at a stroke except back to the provider's, and that the final
  ways stay once they are all there is. It needs that port 22822 is open from the check that precedes
  the removal on (`Remaining`). RunsPassTheirChecks: the checks at the end of both phases pass for
  whatever run comes to them, whatever earlier runs left (`Ready`).

* **PayInstallProofs**, from `RoleAssumption` (there is an application, and the target is none),
  `FaultsAssumption` and, for the bound on steps alone, `FiniteAssumption`. TypeCorrect,
  NothingPartialRuns, CoherentBackup, PhaseIsTrue. `IInv` adds to the
  properties that a command other than prepare finds the installation whole throughout
  (`Installing`), that after the stop of a running deployment no application is up or waiting until
  it is given back (`Quiet`), and what runs at each step of a command without faults, with what the
  loops have seen (`Calm`): a backup has found all active just when the phase says started.
  BackupRestarts: a backup that took a running deployment down ends only by starting all of it again,
  unless it is killed or the host reboots.

* **CombinedSequenceProofs**, from `BoundAssumption`. TypeCorrect, DownIsMarked, TestRunsAlone,
  PrerequisiteIsLeftAlone, MarkerAdvances. `Order` holds whatever outsiders do; as long as none has
  meddled, the marker names the supervisor's step and every restore's copy is the marker itself
  (`Recorded`), either the prerequisite or the sequence has the stack (`Holder`), and with a test unit
  present no step is on its way to start the stack (`Alone`). That a restore writes back an old copy
  is harmless exactly because of `Recorded`. PrerequisiteIsLeftAlone holds also where somebody meddled:
  `Spared` says that while a prerequisite launched into "nothing" runs, the stack is down and the
  sequence at no step that could move it. LendsTheStack: the sequence refines StackLoan. `Inside`
  is which of stack, prerequisite and test run, `Borrower` who the marker (or the prerequisite) says
  has the stack; `OneInside` follows from the invariant, and each of the few actions that start or
  stop one of the three, or write the marker, is then a step of the loan. Where somebody meddled, the
  loan promises nothing, and the mapping says so (`excused`).
* **ObserverInstallProofs**, from `FaultsAssumption`. TypeCorrect, OnlyVettedLogin, ReportedIsWhole.
  `Progress` is what each step finds made and whole, `Settled` that no run begins on a reported
  installation, `Vetting` where the key may be before the check. WithdrawalIsResumable: after a
  withdrawal everything a resume asks for is there and stays there, through reboots, reloads and
  edits, until a resume begins; it is itself a part of the invariant.
* **RebootTestProofs**, from `TargetAssumption`, `FaultsAssumption` and `FixtureAssumption`.
  TestTypeCorrect, OnlyQualifiedPrepared, EvidenceFollowsBoot, CleanupIsComplete,
  FixtureIsRecoverable. `Placed` ties the state file to the step, `Qualifies` the exported units to
  the tests passed, `Boots` running units in a later boot to that boot, `Removal` each step of the
  cleanup to what is gone, `Secured` each step of the restore to the copies there are, `Kept` a fixture
  that passed to a directory that is whole again.
  RecordIsALadder: the two tests refine BootQualification. It needs that nothing of the units is on
  the host before there is a record, and that the record advances only after what it is about to say
  (`OnRecord`). EvidenceFollowsBoot is what the refinement says of the evidence alone.
* **PersistentFixtureProofs**, from the same. TypeCorrect, CloneIsGood, RecordHolds. The tests keep
  their invariant whatever the commands do (`StepTests`); `Built` is what install has made, `Compared`
  that past the comparison a clone is good, or torn and of a fixture that had not passed when install
  began (it needs `Kept`: one that had passed is never half extracted again, since its backup is not
  made twice), `Recording` what the record and the units are at each step of a command that has the
  installation to itself.

### Commands end

Liveness needs fairness and stays with TLC, but most of what it rests on does not. For the bootstrap
(EveryRunEnds), the Pay installer (EveryCommandEnds) and the monitoring installer (EveryRunEnds) it is
proved that every step of a command, failing ones, rollbacks and withdrawals included, makes a natural
number (`StepsLeft`) smaller, and that nothing else can raise it: no command loops or tries
again by itself. For the upgrade OwedUndoIsNear says it of the whole path from an owed undo to its
end, through the recover that begins it: only a death or a reboot sets it back, and those are counted.
`FiniteAssumption` is needed here because a command that starts units one by one never ends on an
infinite set. What fairness adds is that a command that can take a step does, and that an operator or
a unit calls the next one.

### Only model-checked

ViewConverges, BacklogDrains, RecoverResolves, EventuallyFinal, EventuallyWhole, TakenDownIsGivenBack,
EventuallyGivenBack and TakenBackIsResumed, since liveness under fairness is out of the prover's reach.
The five violated properties are counterexamples, which TLC gives. TypeCorrect, the bounds on steps,
ChecksAreMet, BackupRestarts, WithdrawalIsResumable, TestRunsAlone, EvidenceFollowsBoot and the last
two theorems on power loss are proved and not among a run's properties. Those on the sequence and the
reboot test say part of what the refinements say that the runs check.

## 5. Findings

1. **An alert's id can change after a power loss** (`monitor_power`). `M/monitor.mjs:25-29` renames
   `state.json` into place without syncing the directory. A power loss can bring the previous file
   back after the receiver accepted the alert; the monitor then confirms the same incident again,
   under a new id. `M/README.md:66-67` promises a stable id. For a death of the process alone the
   promise holds (`monitor`).
2. **"Temporary access was restored" when it was not** (`host_restore`).
   `H/bootstrap/debian-ipv4.sh:541` prints this whenever the final SSH state is invalid, but the
   temporary file comes back only if this run took it away (518-521, 532). After a finalize that got
   past that line, a second one restores nothing and says it did. The administrator still gets in on
   port 22822; port 22 and root stay closed.

3. **An interrupted publication cannot always be retried** (`pay_install_retry`). `write_once`
   (`S/install.py:64-71`) creates a unit file and then fills it. After a death in between, the same
   request is refused for ever ("existing file differs"), where `S/README.md:55-56` says it may be
   retried. A death between two units is resumed as promised.
4. **Applications may run while their databases are captured** (`pay_install_capture`). backup stops
   the applications only if it found all of them active (`S/install.py:269`); if all of them crashed
   and wait for their restart they pass for inactive, and systemd may start them between the two
   captures. `S/README.md:66-67` says "Backup stops the four applications". For a deployment found
   running the two databases are of one moment (`RunningBackupIsCoherent`), unless the operator starts
   the CLI after the check for processes.
5. **The stack may be started beside a running prerequisite** (`sequence_prerequisite`). `run` looks at
   the target for the last time at `Q/combined-sequence.py:114` and saves the pause at 115. A native
   test launched in between takes the stack down for itself; the pause is recorded all the same, pgrep
   finds the native test's processes (119), the refusal ends in the `finally` clause (144), and restore,
   which looks at the marker and the installation but not at the prerequisite, starts the target (87)
   beside it. `Q/README.md:154-155` says "Recovery never starts that target while the prerequisite is
   running: before a validated pause there is no restoration marker". For a native test that was
   launched before the look, or after the last restore, it holds (`PrerequisiteUndisturbed`).

Behaviour worth knowing that contradicts no document:

* A full queue stops the observer even after the receiver is well again: observe throws before the
  tick sends anything, and each restart meets the same queue (`HaltsOnlyWhenFull`).
* A clock set back by more than five seconds after an alert was queued makes validateState refuse
  `state.json` (`M/policy.mjs:30`). The model's clock only moves on.
* A trial that dies between the candidate's verification and the injected failure, or right after
  its work directory was made, leaves a plan that no command takes further (`StuckOnlyAfterFault`
  allows exactly this).
* A prepare that dies after `useradd` and before the rename leaves a user that every later prepare
  refuses; the README asks for inspection (`EventuallyWhole` allows exactly this and finding 3).
* A prepared reboot test can be cleaned up from phase "installing", but a death before the last unit
  was written makes `disable` or `stop` fail on the missing file, and a death after the first unlink
  leaves a cleanup that no rerun finishes (`Q/reboot-test.py:93-102`).
* The state and evidence files of the fixture's tests are rewritten in place; a kill during the write
  leaves one that no command reads. `paged-reboot-evidence.json` does not name its fixture.
* install asks whether some fixture passed both tests, not which (`Q/persistent-test.py:152-154`), although
  line 3 says it clones "a stopped, already-qualified fixture", and it compares the original with its
  hash and never the clone with either. With the evidence of one fixture, install of another that is
  amid its restore starts a clone copied in part, without any fault (`CloneIsTheOriginal` allows exactly
  this).
* install, enable and stop write back an `install.json` read at their start; two that overlap, or one that
  is cut short, leave the phase of one with the units of another. A stop killed after its `disable`
  leaves "enabled" on record. The record is true again after the next command that runs alone to its
  end (`RecordIsTrue`), and not before.
* A finalize that dies while fail2ban restarts (`H/scripts/restart-fail2ban.sh:12-24`) leaves sshd without it
  on a host that neither phase takes further; a reboot or a restart by hand starts it.
* A monitoring install killed between the drop-in and its verdict leaves a drop-in that was never
  checked, and the next reload of sshd by anyone makes it effective (`AdmittedIsVetted` allows exactly
  this). A resume of a run that died before it made `.ssh` is accepted and then fails.
* The test unit's `ExecStopPost` starts the target without the validation restore makes
  (`Q/combined-sequence.py:127`), and a restore beside a living supervisor is not refused.
* A finalize run again on a finalized host, or one that died after the firewall was closed, ends
  where neither phase is accepted; the host is then final except for the marker (`DeadEndIsFinal`).

## 6. Not modelled

The observer (collector and forced command) is planned (section 8). The
off-host backup, probes and bundle tools are straight passes whose failures leave everything for
inspection. IPv4 policy and time synchronisation are idempotent settings. Benchmarks, profiles and CI
keep no state. Within modelled parts, these are left out: a clock set back (`M/policy.mjs:30`), two
runs of the bootstrap at once (`H/bootstrap/debian-ipv4.sh:834`), apply-config.sh run by hand, what
the probes ask the applications, and the texts of units.

The Pay applications, systemd, sshd, nftables and Telegram are external: they enter as
what the code can observe of them.

## 7. Layout

Each specification has its `MC` module and one `.cfg` per run; proofs are in a module of their own.
To repeat a run: `tlc -config PayUpgrade.cfg MCPayUpgrade`; to repeat a proof:
`tlapm PayUpgradeProofs.tla`.

## 8. Plan

Done, in this order: the monitor and its alert log; the upgrade and its reversible change; the
bootstrap; the application installer; the combined sequence; the monitoring installer; the fixture's
tests and the persistent fixture; the proof of every safety property; the promises of bootstrap,
sequence and reboot test as abstract specifications, proved to be implemented, and a proved bound on
the steps of a command. What is left, the most valuable first:

1. **PayObserver**: collector and forced command, composed with PayMonitor in place of `Flip`: a
   snapshot is two reads, may be replaced by an older one, and is refused by age. Property: the
   monitor never confirms health from the samples of a former invocation. Includes a clock that can
   be set back.
2. **PersistentFixture with PayUpgrade**: both rewrite the same `install.json`; only the upgrade takes
   a lock. Abstract promise: a command of one tool leaves what the other recorded.
3. **HostRuns**: two runs of the bootstrap at once, and apply-config.sh by hand on a final host.
4. **Abstract specifications** of PayInstall (a deployment given back as it was found) and of
   PersistentFixture (a clone and a record that speaks of it), with the refinements proved.
5. **Step bounds** for CombinedSequence and the fixture's commands, as section 4 has them for the
   others.
