----------------------- MODULE ObserverInstallProofs ------------------------
(***************************************************************************)
(* The safety properties of ObserverInstall, for any number of faults.     *)
(* The inductive invariant says what a run has made when it is at a step,  *)
(* that a running run has nothing torn but the runtime it will compare,    *)
(* and where key and drop-in can be while the check is still to come.      *)
(***************************************************************************)
EXTENDS ObserverInstall, TLAPS

(* What the run at step s relies on.                                        *)
Base == Staged
Built(s) ==
  CASE s = "home"   -> {"account"}   [] s = "assets" -> {"account", "home"}
    [] s = "current" -> {"account", "home", "assets"}
    [] s = "units"  -> {"account", "home", "assets", "current"}
    [] s = "runtime" -> Base
    [] s = "analyze" -> IF role = "monitor" THEN Base ELSE Base \cup {"runtime"}
    [] s = "config" -> Base          [] s = "key" -> Base \cup {"config"}
    [] s \in {"sshdir", "keys"} -> Base \cup {"runtime"}
    [] s = "dropin" -> Base \cup {"runtime", "sshdir", "keys"}
    [] s \in {"check", "reload", "collect"} -> Base \cup {"runtime", "sshdir", "keys", "dropin"}
    [] s = "daemon" -> IF role = "monitor" THEN Base \cup {"config", "key"}
                       ELSE Base \cup {"runtime", "sshdir", "keys", "dropin"}
    [] s = "timer"  -> Base \cup {"runtime", "sshdir", "keys", "dropin", "collect"}
    [] s = "end"    -> Wanted
    [] s \in Withdrawal -> Base \cup {"runtime", "sshdir"}
    [] OTHER        -> {}

Progress ==
  /\ Built(pc) \subseteq disk
  /\ pc = "runtime" => torn \subseteq {"runtime"}
  /\ pc \notin {"idle", "runtime"} => torn = {}
  /\ pc = "keys" /\ ~resume => "sshdir" \in disk

(* A reported installation stays as it is: no run can begin on it.          *)
Settled == done => pc = "idle" /\ Whole(Wanted)

(* Where the key is before its drop-in has been checked.                    *)
Upstream == {"account", "home", "assets", "current", "units", "runtime", "analyze",
             "config", "key", "sshdir", "keys"}
Vetting ==
  /\ pc \in Upstream \cup {"retest", "rereload"} => disk \cap {"keys", "dropin"} = {}
  /\ pc \in {"dropin", "unkeys"} => "dropin" \notin disk
  /\ pc \in {"reload", "daemon", "collect", "timer", "end"} /\ role = "observer" => vetted
  /\ pc = "idle" /\ Whole({"keys"}) => vetted \/ abandoned

IInv == TypeOK /\ Progress /\ Settled /\ Vetting /\ WithdrawnIsResumable

(* Every variable keeps its type. *)
LEMMA StepTyped ==
  ASSUME IInv, [Next]_vars
  PROVE  TypeOK'
<1> USE FaultsAssumption DEF IInv, TypeOK, Vetting, Whole, Made, Files, Wanted, Program, Monitor, Observer, Staged, Withdrawal, files, sshd, run, history
<1>1. CASE Advance
  <2>1. CASE pc = "account"
    BY <1>1, <2>1 DEF Advance, Refuses, After
  <2>2. CASE pc = "home"
    BY <1>1, <2>2 DEF Advance, Refuses, After
  <2>3. CASE pc = "assets"
    BY <1>1, <2>3 DEF Advance, Refuses, After
  <2>4. CASE pc = "current"
    BY <1>1, <2>4 DEF Advance, Refuses, After
  <2>5. CASE pc = "units"
    BY <1>1, <2>5 DEF Advance, Refuses, After
  <2>6. CASE pc = "runtime"
    BY <1>1, <2>6 DEF Advance, Refuses, After
  <2>7. CASE pc = "config"
    BY <1>1, <2>7 DEF Advance, Refuses, After
  <2>8. CASE pc = "key"
    BY <1>1, <2>8 DEF Advance, Refuses, After
  <2>9. CASE pc = "sshdir"
    BY <1>1, <2>9 DEF Advance, Refuses, After
  <2>10. CASE pc = "keys"
    BY <1>1, <2>10 DEF Advance, Refuses, After
  <2>11. CASE pc = "dropin"
    BY <1>1, <2>11 DEF Advance, Refuses, After
  <2>12. CASE pc = "collect"
    BY <1>1, <2>12 DEF Advance, Refuses, After
  <2>13. CASE pc = "timer"
    BY <1>1, <2>13 DEF Advance, Refuses, After
  <2>14. CASE pc = "analyze"
    BY <1>1, <2>14 DEF Advance, Refuses, After
  <2>15. CASE pc = "daemon"
    BY <1>1, <2>15 DEF Advance, Refuses, After
  <2> QED BY <1>1, <2>1, <2>2, <2>3, <2>4, <2>5, <2>6, <2>7, <2>8, <2>9, <2>10, <2>11, <2>12, <2>13, <2>14, <2>15 DEF Advance, Made
<1>2. CASE First
  BY <1>2 DEF First
<1>3. CASE Resume
  BY <1>3 DEF Resume, Resumable
<1>4. CASE Refused
  BY <1>4 DEF Refused, Refuses
<1>5. CASE Check
  BY <1>5 DEF Check
<1>6. CASE Reload
  BY <1>6 DEF Reload
<1>7. CASE End
  BY <1>7 DEF End
<1>8. CASE TakeBack
  BY <1>8 DEF TakeBack, After
<1>9. CASE Retest
  BY <1>9 DEF Retest
<1>10. CASE Rereload
  BY <1>10 DEF Rereload
<1>11. CASE ReloadFails
  <2>1. loaded' \in BOOLEAN /\ UNCHANGED <<resume, done, withdrawn, vetted, abandoned>>
    BY <1>11 DEF ReloadFails
  <2>2. faults' \in 0..MaxFaults
    BY <1>11 DEF ReloadFails, Fault
  <2>3. pc' = "undropin" /\ UNCHANGED <<role, disk, torn, conf>>
    BY <1>11 DEF ReloadFails
  <2> QED BY <2>1, <2>2, <2>3
<1>12. CASE Kill
  BY <1>12 DEF Kill, Fault, Undecided
<1>13. CASE Fails
  BY <1>13 DEF Fails, Fault
<1>14. CASE Edit
  BY <1>14 DEF Edit, Fault
<1>15. CASE ForeignReload
  BY <1>15 DEF ForeignReload, Fault
<1>16. CASE Reboot
  BY <1>16 DEF Reboot, Fault, Undecided
<1>17. CASE UNCHANGED vars
  BY <1>17 DEF vars
<1> QED
  BY <1>1, <1>2, <1>3, <1>4, <1>5, <1>6, <1>7, <1>8, <1>9, <1>10, <1>11, <1>12, <1>13, <1>14, <1>15, <1>16, <1>17 DEF Next, Step, Faults

(* What a step relies on has been made. *)
LEMMA StepProgress ==
  ASSUME IInv, [Next]_vars
  PROVE  Progress'
<1> USE FaultsAssumption DEF IInv, TypeOK, Progress, Vetting, Built, Base, Whole, Made, Files, Wanted, Program, Monitor, Observer, Staged, Withdrawal, files, sshd, run, history
<1>1. CASE Advance
  <2>1. CASE pc = "account"
    BY <1>1, <2>1 DEF Advance, Refuses, After
  <2>2. CASE pc = "home"
    BY <1>1, <2>2 DEF Advance, Refuses, After
  <2>3. CASE pc = "assets"
    BY <1>1, <2>3 DEF Advance, Refuses, After
  <2>4. CASE pc = "current"
    BY <1>1, <2>4 DEF Advance, Refuses, After
  <2>5. CASE pc = "units"
    BY <1>1, <2>5 DEF Advance, Refuses, After
  <2>6. CASE pc = "runtime"
    BY <1>1, <2>6 DEF Advance, Refuses, After
  <2>7. CASE pc = "config"
    BY <1>1, <2>7 DEF Advance, Refuses, After
  <2>8. CASE pc = "key"
    BY <1>1, <2>8 DEF Advance, Refuses, After
  <2>9. CASE pc = "sshdir"
    BY <1>1, <2>9 DEF Advance, Refuses, After
  <2>10. CASE pc = "keys"
    BY <1>1, <2>10 DEF Advance, Refuses, After
  <2>11. CASE pc = "dropin"
    BY <1>1, <2>11 DEF Advance, Refuses, After
  <2>12. CASE pc = "collect"
    BY <1>1, <2>12 DEF Advance, Refuses, After
  <2>13. CASE pc = "timer"
    BY <1>1, <2>13 DEF Advance, Refuses, After
  <2>14. CASE pc = "analyze"
    BY <1>1, <2>14 DEF Advance, Refuses, After
  <2>15. CASE pc = "daemon"
    BY <1>1, <2>15 DEF Advance, Refuses, After
  <2> QED BY <1>1, <2>1, <2>2, <2>3, <2>4, <2>5, <2>6, <2>7, <2>8, <2>9, <2>10, <2>11, <2>12, <2>13, <2>14, <2>15 DEF Advance, Made
<1>2. CASE First
  BY <1>2 DEF First
<1>3. CASE Resume
  BY <1>3 DEF Resume, Resumable
<1>4. CASE Refused
  BY <1>4 DEF Refused, Refuses
<1>5. CASE Check
  BY <1>5 DEF Check
<1>6. CASE Reload
  BY <1>6 DEF Reload
<1>7. CASE End
  BY <1>7 DEF End
<1>8. CASE TakeBack
  BY <1>8 DEF TakeBack, After
<1>9. CASE Retest
  BY <1>9 DEF Retest
<1>10. CASE Rereload
  BY <1>10 DEF Rereload
<1>11. CASE ReloadFails
  BY <1>11 DEF ReloadFails, Fault
<1>12. CASE Kill
  BY <1>12 DEF Kill, Fault, Undecided
<1>13. CASE Fails
  BY <1>13 DEF Fails, Fault
<1>14. CASE Edit
  BY <1>14 DEF Edit, Fault
<1>15. CASE ForeignReload
  BY <1>15 DEF ForeignReload, Fault
<1>16. CASE Reboot
  BY <1>16 DEF Reboot, Fault, Undecided
<1>17. CASE UNCHANGED vars
  BY <1>17 DEF vars
<1> QED
  BY <1>1, <1>2, <1>3, <1>4, <1>5, <1>6, <1>7, <1>8, <1>9, <1>10, <1>11, <1>12, <1>13, <1>14, <1>15, <1>16, <1>17 DEF Next, Step, Faults

(* A reported installation is left alone. *)
LEMMA StepSettled ==
  ASSUME IInv, [Next]_vars
  PROVE  Settled'
<1> USE FaultsAssumption DEF IInv, TypeOK, Progress, Settled, Built, Base, Whole, Made, Files, Wanted, Program, Monitor, Observer, Staged, Withdrawal, files, sshd, run, history
<1>1. CASE Advance
  <2>1. CASE pc = "account"
    BY <1>1, <2>1 DEF Advance, Refuses, After
  <2>2. CASE pc = "home"
    BY <1>1, <2>2 DEF Advance, Refuses, After
  <2>3. CASE pc = "assets"
    BY <1>1, <2>3 DEF Advance, Refuses, After
  <2>4. CASE pc = "current"
    BY <1>1, <2>4 DEF Advance, Refuses, After
  <2>5. CASE pc = "units"
    BY <1>1, <2>5 DEF Advance, Refuses, After
  <2>6. CASE pc = "runtime"
    BY <1>1, <2>6 DEF Advance, Refuses, After
  <2>7. CASE pc = "config"
    BY <1>1, <2>7 DEF Advance, Refuses, After
  <2>8. CASE pc = "key"
    BY <1>1, <2>8 DEF Advance, Refuses, After
  <2>9. CASE pc = "sshdir"
    BY <1>1, <2>9 DEF Advance, Refuses, After
  <2>10. CASE pc = "keys"
    BY <1>1, <2>10 DEF Advance, Refuses, After
  <2>11. CASE pc = "dropin"
    BY <1>1, <2>11 DEF Advance, Refuses, After
  <2>12. CASE pc = "collect"
    BY <1>1, <2>12 DEF Advance, Refuses, After
  <2>13. CASE pc = "timer"
    BY <1>1, <2>13 DEF Advance, Refuses, After
  <2>14. CASE pc = "analyze"
    BY <1>1, <2>14 DEF Advance, Refuses, After
  <2>15. CASE pc = "daemon"
    BY <1>1, <2>15 DEF Advance, Refuses, After
  <2> QED BY <1>1, <2>1, <2>2, <2>3, <2>4, <2>5, <2>6, <2>7, <2>8, <2>9, <2>10, <2>11, <2>12, <2>13, <2>14, <2>15 DEF Advance, Made
<1>2. CASE First
  BY <1>2 DEF First
<1>3. CASE Resume
  BY <1>3 DEF Resume, Resumable
<1>4. CASE Refused
  BY <1>4 DEF Refused, Refuses
<1>5. CASE Check
  BY <1>5 DEF Check
<1>6. CASE Reload
  BY <1>6 DEF Reload
<1>7. CASE End
  BY <1>7 DEF End
<1>8. CASE TakeBack
  BY <1>8 DEF TakeBack, After
<1>9. CASE Retest
  BY <1>9 DEF Retest
<1>10. CASE Rereload
  BY <1>10 DEF Rereload
<1>11. CASE ReloadFails
  BY <1>11 DEF ReloadFails, Fault
<1>12. CASE Kill
  BY <1>12 DEF Kill, Fault, Undecided
<1>13. CASE Fails
  BY <1>13 DEF Fails, Fault
<1>14. CASE Edit
  BY <1>14 DEF Edit, Fault
<1>15. CASE ForeignReload
  BY <1>15 DEF ForeignReload, Fault
<1>16. CASE Reboot
  BY <1>16 DEF Reboot, Fault, Undecided
<1>17. CASE UNCHANGED vars
  BY <1>17 DEF vars
<1> QED
  BY <1>1, <1>2, <1>3, <1>4, <1>5, <1>6, <1>7, <1>8, <1>9, <1>10, <1>11, <1>12, <1>13, <1>14, <1>15, <1>16, <1>17 DEF Next, Step, Faults

(* The key is there only once its drop-in has been checked. *)
LEMMA StepVetting ==
  ASSUME IInv, [Next]_vars
  PROVE  Vetting'
<1> USE FaultsAssumption DEF IInv, TypeOK, Progress, Vetting, Upstream, Whole, Made, Files, Wanted, Program, Monitor, Observer, Staged, Withdrawal, files, sshd, run, history
<1>1. CASE Advance
  <2>1. CASE pc = "account"
    BY <1>1, <2>1 DEF Advance, Refuses, After
  <2>2. CASE pc = "home"
    BY <1>1, <2>2 DEF Advance, Refuses, After
  <2>3. CASE pc = "assets"
    BY <1>1, <2>3 DEF Advance, Refuses, After
  <2>4. CASE pc = "current"
    BY <1>1, <2>4 DEF Advance, Refuses, After
  <2>5. CASE pc = "units"
    BY <1>1, <2>5 DEF Advance, Refuses, After
  <2>6. CASE pc = "runtime"
    BY <1>1, <2>6 DEF Advance, Refuses, After
  <2>7. CASE pc = "config"
    BY <1>1, <2>7 DEF Advance, Refuses, After
  <2>8. CASE pc = "key"
    BY <1>1, <2>8 DEF Advance, Refuses, After
  <2>9. CASE pc = "sshdir"
    BY <1>1, <2>9 DEF Advance, Refuses, After
  <2>10. CASE pc = "keys"
    BY <1>1, <2>10 DEF Advance, Refuses, After
  <2>11. CASE pc = "dropin"
    BY <1>1, <2>11 DEF Advance, Refuses, After
  <2>12. CASE pc = "collect"
    BY <1>1, <2>12 DEF Advance, Refuses, After
  <2>13. CASE pc = "timer"
    BY <1>1, <2>13 DEF Advance, Refuses, After
  <2>14. CASE pc = "analyze"
    BY <1>1, <2>14 DEF Advance, Refuses, After
  <2>15. CASE pc = "daemon"
    BY <1>1, <2>15 DEF Advance, Refuses, After
  <2> QED BY <1>1, <2>1, <2>2, <2>3, <2>4, <2>5, <2>6, <2>7, <2>8, <2>9, <2>10, <2>11, <2>12, <2>13, <2>14, <2>15 DEF Advance, Made
<1>2. CASE First
  BY <1>2 DEF First
<1>3. CASE Resume
  BY <1>3 DEF Resume, Resumable
<1>4. CASE Refused
  BY <1>4 DEF Refused, Refuses
<1>5. CASE Check
  BY <1>5 DEF Check
<1>6. CASE Reload
  BY <1>6 DEF Reload
<1>7. CASE End
  BY <1>7 DEF End
<1>8. CASE TakeBack
  BY <1>8 DEF TakeBack, After
<1>9. CASE Retest
  BY <1>9 DEF Retest
<1>10. CASE Rereload
  BY <1>10 DEF Rereload
<1>11. CASE ReloadFails
  BY <1>11 DEF ReloadFails, Fault
<1>12. CASE Kill
  BY <1>12 DEF Kill, Fault, Undecided
<1>13. CASE Fails
  BY <1>13 DEF Fails, Fault
<1>14. CASE Edit
  BY <1>14 DEF Edit, Fault
<1>15. CASE ForeignReload
  BY <1>15 DEF ForeignReload, Fault
<1>16. CASE Reboot
  BY <1>16 DEF Reboot, Fault, Undecided
<1>17. CASE UNCHANGED vars
  BY <1>17 DEF vars
<1> QED
  BY <1>1, <1>2, <1>3, <1>4, <1>5, <1>6, <1>7, <1>8, <1>9, <1>10, <1>11, <1>12, <1>13, <1>14, <1>15, <1>16, <1>17 DEF Next, Step, Faults

(* What was taken back stays resumable until a resume begins. *)
LEMMA StepWithdrawn ==
  ASSUME IInv, [Next]_vars
  PROVE  WithdrawnIsResumable'
<1> USE FaultsAssumption DEF IInv, TypeOK, Progress, Vetting, WithdrawnIsResumable, Resumable, Built, Base, Whole, Made, Files, Wanted, Program, Monitor, Observer, Staged, Withdrawal, files, sshd, run, history
<1>1. CASE Advance
  <2>1. CASE pc = "account"
    BY <1>1, <2>1 DEF Advance, Refuses, After
  <2>2. CASE pc = "home"
    BY <1>1, <2>2 DEF Advance, Refuses, After
  <2>3. CASE pc = "assets"
    BY <1>1, <2>3 DEF Advance, Refuses, After
  <2>4. CASE pc = "current"
    BY <1>1, <2>4 DEF Advance, Refuses, After
  <2>5. CASE pc = "units"
    BY <1>1, <2>5 DEF Advance, Refuses, After
  <2>6. CASE pc = "runtime"
    BY <1>1, <2>6 DEF Advance, Refuses, After
  <2>7. CASE pc = "config"
    BY <1>1, <2>7 DEF Advance, Refuses, After
  <2>8. CASE pc = "key"
    BY <1>1, <2>8 DEF Advance, Refuses, After
  <2>9. CASE pc = "sshdir"
    BY <1>1, <2>9 DEF Advance, Refuses, After
  <2>10. CASE pc = "keys"
    BY <1>1, <2>10 DEF Advance, Refuses, After
  <2>11. CASE pc = "dropin"
    BY <1>1, <2>11 DEF Advance, Refuses, After
  <2>12. CASE pc = "collect"
    BY <1>1, <2>12 DEF Advance, Refuses, After
  <2>13. CASE pc = "timer"
    BY <1>1, <2>13 DEF Advance, Refuses, After
  <2>14. CASE pc = "analyze"
    BY <1>1, <2>14 DEF Advance, Refuses, After
  <2>15. CASE pc = "daemon"
    BY <1>1, <2>15 DEF Advance, Refuses, After
  <2> QED BY <1>1, <2>1, <2>2, <2>3, <2>4, <2>5, <2>6, <2>7, <2>8, <2>9, <2>10, <2>11, <2>12, <2>13, <2>14, <2>15 DEF Advance, Made
<1>2. CASE First
  BY <1>2 DEF First
<1>3. CASE Resume
  BY <1>3 DEF Resume, Resumable
<1>4. CASE Refused
  BY <1>4 DEF Refused, Refuses
<1>5. CASE Check
  BY <1>5 DEF Check
<1>6. CASE Reload
  BY <1>6 DEF Reload
<1>7. CASE End
  BY <1>7 DEF End
<1>8. CASE TakeBack
  BY <1>8 DEF TakeBack, After
<1>9. CASE Retest
  BY <1>9 DEF Retest
<1>10. CASE Rereload
  BY <1>10 DEF Rereload
<1>11. CASE ReloadFails
  BY <1>11 DEF ReloadFails, Fault
<1>12. CASE Kill
  BY <1>12 DEF Kill, Fault, Undecided
<1>13. CASE Fails
  BY <1>13 DEF Fails, Fault
<1>14. CASE Edit
  BY <1>14 DEF Edit, Fault
<1>15. CASE ForeignReload
  BY <1>15 DEF ForeignReload, Fault
<1>16. CASE Reboot
  BY <1>16 DEF Reboot, Fault, Undecided
<1>17. CASE UNCHANGED vars
  BY <1>17 DEF vars
<1> QED
  BY <1>1, <1>2, <1>3, <1>4, <1>5, <1>6, <1>7, <1>8, <1>9, <1>10, <1>11, <1>12, <1>13, <1>14, <1>15, <1>16, <1>17 DEF Next, Step, Faults


(* The measure, place by place. *)
LEMMA StepsAt ==
  /\ StepsLeft("account") = 20 /\ StepsLeft("home") = 19 /\ StepsLeft("assets") = 18
  /\ StepsLeft("current") = 17 /\ StepsLeft("units") = 16 /\ StepsLeft("runtime") = 15
  /\ StepsLeft("analyze") = 14 /\ StepsLeft("config") = 13 /\ StepsLeft("sshdir") = 13
  /\ StepsLeft("key") = 12 /\ StepsLeft("keys") = 12 /\ StepsLeft("dropin") = 11
  /\ StepsLeft("check") = 10 /\ StepsLeft("reload") = 9 /\ StepsLeft("daemon") = 8
  /\ StepsLeft("collect") = 7 /\ StepsLeft("timer") = 6 /\ StepsLeft("end") = 5
  /\ StepsLeft("undropin") = 4 /\ StepsLeft("unkeys") = 3 /\ StepsLeft("retest") = 2
  /\ StepsLeft("rereload") = 1 /\ StepsLeft("idle") = 0
BY DEF StepsLeft

(* A step of a run leaves it fewer to go, whatever its role and whether it   *)
(* is a resume.                                                              *)
LEMMA StepShortens ==
  ASSUME IInv, [Next]_vars, pc # "idle", pc' # pc
  PROVE  StepsLeft(pc') < StepsLeft(pc)
<1> USE StepsAt
<1>1. pc \in {"idle"} \cup Program \cup Withdrawal
  BY DEF IInv, TypeOK
<1>2. CASE pc' = "idle"
  BY <1>1, <1>2 DEF Program, Monitor, Observer, Staged, Withdrawal
<1>3. CASE Advance
  <2>1. CASE pc = "account"
    BY <1>3, <2>1 DEF Advance, After
  <2>2. CASE pc = "home"
    BY <1>3, <2>2 DEF Advance, After
  <2>3. CASE pc = "assets"
    BY <1>3, <2>3 DEF Advance, After
  <2>4. CASE pc = "current"
    BY <1>3, <2>4 DEF Advance, After
  <2>5. CASE pc = "units"
    BY <1>3, <2>5 DEF Advance, After
  <2>6. CASE pc = "runtime"
    BY <1>3, <2>6 DEF Advance, After
  <2>7. CASE pc = "config"
    BY <1>3, <2>7 DEF Advance, After
  <2>8. CASE pc = "key"
    BY <1>3, <2>8 DEF Advance, After
  <2>9. CASE pc = "sshdir"
    BY <1>3, <2>9 DEF Advance, After
  <2>10. CASE pc = "keys"
    BY <1>3, <2>10 DEF Advance, After
  <2>11. CASE pc = "dropin"
    BY <1>3, <2>11 DEF Advance, After
  <2>12. CASE pc = "collect"
    BY <1>3, <2>12 DEF Advance, After
  <2>13. CASE pc = "timer"
    BY <1>3, <2>13 DEF Advance, After
  <2>14. CASE pc = "analyze"
    BY <1>3, <2>14 DEF Advance, After
  <2>15. CASE pc = "daemon"
    BY <1>3, <2>15 DEF Advance, After
  <2> QED BY <1>3, <2>1, <2>2, <2>3, <2>4, <2>5, <2>6, <2>7, <2>8, <2>9, <2>10, <2>11, <2>12, <2>13, <2>14, <2>15 DEF Advance, Made
<1>4. CASE Check
  BY <1>4 DEF Check
<1>5. CASE Reload
  BY <1>5 DEF Reload
<1>6. CASE TakeBack
  BY <1>6 DEF TakeBack, After
<1>7. CASE Retest
  BY <1>7 DEF Retest
<1>8. CASE ReloadFails
  BY <1>8 DEF ReloadFails
<1>9. CASE Fails
  BY <1>2, <1>9 DEF Fails
<1>10. CASE Refused \/ End \/ Rereload \/ Kill \/ Reboot
  BY <1>2, <1>10 DEF Refused, End, Rereload, Kill, Reboot
<1>11. CASE Edit \/ ForeignReload \/ UNCHANGED vars
  BY <1>11 DEF Edit, ForeignReload, run, vars
<1>12. CASE First \/ Resume
  BY <1>12 DEF First, Resume
<1> QED BY <1>3, <1>4, <1>5, <1>6, <1>7, <1>8, <1>9, <1>10, <1>11, <1>12 DEF Next, Step, Faults

(* The initial states satisfy the invariant. *)
LEMMA InitIInv ==
  ASSUME Init
  PROVE  IInv
<1> USE FaultsAssumption DEF Init, Whole
<1>1. faults \in 0..MaxFaults
  OBVIOUS
<1>2. ~resume /\ ~done /\ ~withdrawn /\ ~vetted /\ ~abandoned
  OBVIOUS
<1>3. {resume, done, withdrawn, vetted, abandoned} \subseteq BOOLEAN
  BY <1>2
<1>4. TypeOK
  BY <1>1, <1>3 DEF TypeOK
<1>5. Progress /\ Settled /\ Vetting /\ WithdrawnIsResumable
  BY DEF Progress, Built, Settled, Vetting, Upstream, Withdrawal, WithdrawnIsResumable
<1> QED BY <1>4, <1>5 DEF IInv

(* The inductive invariant holds always. *)
THEOREM InductiveInvariant == Spec => []IInv
<1>1. Init => IInv
  BY InitIInv
<1>2. IInv /\ [Next]_vars => IInv'
  BY StepTyped, StepProgress, StepSettled, StepVetting, StepWithdrawn DEF IInv
<1> QED BY <1>1, <1>2, PTL DEF Spec

(* Every variable keeps its type, and the disk holds nothing that this      *)
(* host's role does not want.                                               *)
THEOREM TypeCorrect == Spec => []TypeOK
<1>1. IInv => TypeOK
  BY DEF IInv
<1> QED BY <1>1, InductiveInvariant, PTL

(* Between two runs nobody logs in over a drop-in that failed its check.    *)
THEOREM OnlyVettedLogin == Spec => []AdmittedIsVetted
<1>1. IInv => AdmittedIsVetted
  BY DEF IInv, Vetting, AdmittedIsVetted, Admitted
<1> QED BY <1>1, InductiveInvariant, PTL

(* What is reported as installed is complete.                               *)
THEOREM ReportedIsWhole == Spec => []InstalledIsWhole
<1>1. IInv => InstalledIsWhole
  BY DEF IInv, Settled, InstalledIsWhole
<1> QED BY <1>1, InductiveInvariant, PTL

(* A withdrawal leaves nothing of the login, and everything a resume asks   *)
(* for stays until one begins.                                              *)
THEOREM WithdrawalIsResumable == Spec => []WithdrawnIsResumable
<1>1. IInv => WithdrawnIsResumable
  BY DEF IInv
<1> QED BY <1>1, InductiveInvariant, PTL

(* Every run ends: a step, whatever fails in it, leaves it fewer to go.     *)
THEOREM EveryRunEnds == Spec => RunsEnd
<1>1. ASSUME IInv, [Next]_vars
      PROVE  [pc # "idle" /\ pc' # pc => StepsLeft(pc') < StepsLeft(pc)]_vars
  BY <1>1, StepShortens
<1> QED BY <1>1, InductiveInvariant, PTL DEF Spec, RunsEnd
=============================================================================
