--------------------------- MODULE ObserverInstall --------------------------
(***************************************************************************)
(* monitoring/discrete-pay/install.py: the first installation of the       *)
(* monitor on its host and of the observer on the Pay host, and the        *)
(* observer's resume.  The observer's last steps open the host's sshd to a *)
(* second account: a key with a forced command and a drop-in, checked      *)
(* against the effective configuration and taken back when the check or    *)
(* the reload fails.                                                       *)
(*                                                                         *)
(* What the installer leaves on the disk is a set of artifacts; a file it  *)
(* was killed over is torn.  sshd is reloaded by others too (a package     *)
(* update, a reboot), and the host's own sshd configuration may be edited  *)
(* into one the check refuses.                                             *)
(***************************************************************************)
EXTENDS Naturals

CONSTANT MaxFaults   \* bound: kills, failing calls, edits, foreign reloads, reboots

ASSUME FaultsAssumption == MaxFaults \in Nat

VARIABLES
  role,        \* which host this is: "monitor" or "observer"
  disk,        \* artifacts that exist
  torn,        \* ... and those that were not completely written
  conf,        \* the rest of sshd's configuration: "strict", or "lax" (forwarding, other users)
  loaded,      \* the running sshd has read the drop-in
  pc,          \* next step, "idle" between runs
  resume,      \* the run at work, or the last one, is a resume
  done,        \* a run has reported the installation
  withdrawn,   \* the last run took the drop-in and the key back
  vetted,      \* history: the drop-in on disk has passed the check
  abandoned,   \* history: a run was killed between the drop-in and its verdict
  faults

files   == <<disk, torn>>
sshd    == <<conf, loaded>>
run     == <<pc, resume>>
history == <<vetted, abandoned>>
vars    == <<role, files, sshd, run, done, withdrawn, history, faults>>

Staged     == {"account", "home", "assets", "current", "units"}
Monitor    == Staged \cup {"analyze", "config", "key", "daemon", "end"}
Observer   == Staged \cup {"runtime", "analyze", "sshdir", "keys", "dropin", "check",
                           "reload", "daemon", "collect", "timer", "end"}
Withdrawal == {"undropin", "unkeys", "retest", "rereload"}

Made  == {"account", "home", "assets", "current", "units", "runtime",
          "config", "key", "sshdir", "keys", "dropin", "collect", "timer"}
Files == {"assets", "units", "runtime", "key", "keys", "dropin"}

Program == IF role = "monitor" THEN Monitor ELSE Observer
Wanted  == Program \cap Made

(* The order of the steps.  A resumed run does not make .ssh.              *)
After(s) ==
  CASE s = "account" -> "home"     [] s = "home"  -> "assets"  [] s = "assets" -> "current"
    [] s = "current" -> "units"
    [] s = "units"   -> IF role = "monitor" THEN "analyze" ELSE "runtime"
    [] s = "runtime" -> "analyze"
    [] s = "analyze" -> IF role = "monitor" THEN "config" ELSE IF resume THEN "keys" ELSE "sshdir"
    [] s = "config"  -> "key"      [] s = "key"   -> "daemon"
    [] s = "sshdir"  -> "keys"     [] s = "keys"  -> "dropin"  [] s = "dropin" -> "check"
    [] s = "daemon"  -> IF role = "monitor" THEN "end" ELSE "collect"
    [] s = "collect" -> "timer"    [] s = "timer" -> "end"
    [] s = "undropin" -> "unkeys"  [] s = "unkeys" -> "retest"

Init ==
  /\ role \in {"monitor", "observer"} /\ disk = {} /\ torn = {}
  /\ conf \in {"strict", "lax"} /\ loaded = FALSE /\ pc = "idle" /\ resume = FALSE
  /\ done = FALSE /\ withdrawn = FALSE /\ vetted = FALSE /\ abandoned = FALSE /\ faults = 0

Fault == faults < MaxFaults /\ faults' = faults + 1

Whole(items) == items \subseteq disk \ torn

-----------------------------------------------------------------------------
(* Nothing of an earlier installation may be there.                        *)
First ==
  /\ pc = "idle" /\ disk = {} /\ pc' = "account" /\ resume' = FALSE
  /\ UNCHANGED <<role, files, sshd, done, withdrawn, history, faults>>

(* Account, release and units as this very request would write them, and   *)
(* neither key nor drop-in.  The runtime and .ssh are not looked at yet.   *)
Resumable ==
  /\ Whole({"account", "home", "assets", "current", "units"})
  /\ disk \cap {"keys", "dropin"} = {}

Resume ==
  /\ role = "observer" /\ pc = "idle" /\ Resumable /\ pc' = "runtime" /\ resume' = TRUE
  /\ withdrawn' = FALSE
  /\ UNCHANGED <<role, files, sshd, done, history, faults>>

(* A runtime other than the verified one, a missing .ssh, an existing key. *)
Refuses ==
  \/ pc = "runtime" /\ "runtime" \in torn
  \/ pc = "keys" /\ ("sshdir" \notin disk \/ "keys" \in disk)
  \/ pc = "dropin" /\ "dropin" \in disk

(* One artifact is made, or a call that changes nothing here succeeds.     *)
Advance ==
  /\ pc \in Made \cup {"analyze", "daemon"} /\ ~Refuses
  /\ disk' = disk \cup ({pc} \cap Made)
  /\ pc' = After(pc)
  /\ UNCHANGED <<role, torn, sshd, resume, done, withdrawn, history, faults>>

Refused ==
  /\ Refuses /\ pc' = "idle"
  /\ UNCHANGED <<role, files, sshd, resume, done, withdrawn, history, faults>>

(* sshd -t and -T: exactly serveradmin and payobserver, no password, no    *)
(* forwarding.                                                             *)
Check ==
  /\ pc = "check" /\ pc' = (IF conf = "strict" THEN "reload" ELSE "undropin")
  /\ vetted' = (conf = "strict")
  /\ UNCHANGED <<role, files, sshd, resume, done, withdrawn, abandoned, faults>>

Reload ==
  /\ pc = "reload" /\ pc' = "daemon" /\ loaded' = TRUE
  /\ UNCHANGED <<role, files, conf, resume, done, withdrawn, history, faults>>

(* The reload fails, or its 30 seconds pass while sshd reloads after all.  *)
ReloadFails ==
  /\ pc = "reload" /\ Fault /\ pc' = "undropin" /\ loaded' \in {loaded, TRUE}
  /\ UNCHANGED <<role, files, conf, resume, done, withdrawn, history>>

End ==
  /\ pc = "end" /\ pc' = "idle" /\ done' = TRUE
  /\ UNCHANGED <<role, files, sshd, resume, withdrawn, history, faults>>

-----------------------------------------------------------------------------
(* The withdrawal, then the error is raised again.                         *)
BugTakeBackDropin ==
  /\ pc \in {"undropin", "unkeys"} /\ pc' = After(pc)
  /\ disk' = disk \ {"dropin"} /\ vetted' = FALSE
  /\ UNCHANGED <<role, torn, sshd, resume, done, withdrawn, abandoned, faults>>

BugTakeBackKey ==
  /\ pc \in {"undropin", "unkeys"} /\ pc' = After(pc)
  /\ disk' = disk \ {"keys"} /\ vetted' = FALSE
  /\ UNCHANGED <<role, torn, sshd, resume, done, withdrawn, abandoned, faults>>

TakeBack ==
  /\ pc \in {"undropin", "unkeys"} /\ pc' = After(pc)
  /\ disk' = disk \ {IF pc = "undropin" THEN "dropin" ELSE "keys"} /\ vetted' = FALSE
  /\ UNCHANGED <<role, torn, sshd, resume, done, withdrawn, abandoned, faults>>

Retest ==
  /\ pc = "retest" /\ pc' = "rereload"
  /\ UNCHANGED <<role, files, sshd, resume, done, withdrawn, history, faults>>

Rereload ==
  /\ pc = "rereload" /\ pc' = "idle" /\ loaded' = FALSE /\ withdrawn' = TRUE
  /\ UNCHANGED <<role, files, conf, resume, done, history, faults>>

-----------------------------------------------------------------------------
(* What goes wrong                                                         *)
Undecided == pc \in {"dropin", "check", "reload", "undropin", "unkeys"}

(* Killed before or in its next step, which may leave a torn file.         *)
Kill ==
  /\ pc # "idle" /\ Fault /\ pc' = "idle"
  /\ \E t \in SUBSET (({pc} \cap Files) \ disk) : disk' = disk \cup t /\ torn' = torn \cup t
  /\ abandoned' = (abandoned \/ Undecided)
  /\ UNCHANGED <<role, sshd, resume, done, withdrawn, vetted>>

BugFailsUnnoticed ==
  /\ pc \in {"daemon", "collect", "timer"} /\ Fault /\ pc' = After(pc)
  /\ UNCHANGED <<role, files, sshd, resume, done, withdrawn, history>>

(* A call fails: after the drop-in that leads to the withdrawal, in the    *)
(* withdrawal and elsewhere to the end of the run.                         *)
Fails ==
  /\ pc # "idle" /\ Fault
  /\ pc' = IF pc = "check" THEN "undropin" ELSE "idle"
  /\ pc \notin Files \cup {"reload", "undropin", "unkeys", "end"}
  /\ UNCHANGED <<role, files, sshd, resume, done, withdrawn, history>>

Edit ==
  /\ Fault /\ conf' \in {"strict", "lax"} \ {conf}
  /\ UNCHANGED <<role, files, loaded, run, done, withdrawn, history>>

(* Somebody else reloads or restarts sshd.                                 *)
ForeignReload ==
  /\ Fault /\ loaded' = (Whole({"dropin"}))
  /\ UNCHANGED <<role, files, conf, run, done, withdrawn, history>>

Reboot ==
  /\ Fault /\ loaded' = (Whole({"dropin"})) /\ pc' = "idle"
  /\ abandoned' = (abandoned \/ Undecided)
  /\ UNCHANGED <<role, files, conf, resume, done, withdrawn, vetted>>

-----------------------------------------------------------------------------
Step   == Advance \/ Refused \/ Check \/ Reload \/ End \/ TakeBack \/ Retest \/ Rereload
Faults == ReloadFails \/ Kill \/ Fails \/ Edit \/ ForeignReload \/ Reboot
Next   == First \/ Resume \/ Step \/ Faults

Spec == Init /\ [][Next]_vars

(* A run that is not killed goes on; an administrator runs the first       *)
(* installation, and resumes one that was taken back.                      *)
FairSpec == Spec /\ WF_vars(Step) /\ WF_vars(First) /\ WF_vars(Resume /\ withdrawn)

-----------------------------------------------------------------------------
TypeOK ==
  /\ role \in {"monitor", "observer"} /\ disk \subseteq Wanted /\ torn \subseteq disk \cap Files
  /\ conf \in {"strict", "lax"} /\ loaded \in BOOLEAN
  /\ pc \in {"idle"} \cup Program \cup Withdrawal
  /\ {resume, done, withdrawn, vetted, abandoned} \subseteq BOOLEAN /\ faults \in 0..MaxFaults

(* The observer can log in.                                                *)
Admitted == loaded /\ Whole({"keys"})

(* Between two runs the observer can log in only if the drop-in passed the *)
(* check, whatever call failed and whoever reloaded sshd in between: that  *)
(* the withdrawal's own reload fails does no harm, because the key is gone *)
(* by then.  Only a kill before the verdict leaves it unchecked.           *)
AdmittedIsVetted == pc = "idle" /\ Admitted => vetted \/ abandoned

(* What is reported as installed is complete, also when it was resumed     *)
(* over what a killed run left.                                            *)
InstalledIsWhole == done => Whole(Wanted)

(* An installation that was taken back can be resumed: the withdrawal      *)
(* restores all that resume asks for, unless the configuration it was      *)
(* taken back for stays or there is another fault.                         *)
TakenBackIsResumed ==
  \A n \in 0..MaxFaults :
    (withdrawn /\ faults = n) ~> (done \/ conf = "lax" \/ faults > n)

(* What was taken back leaves nothing of the login and all that a resume    *)
(* asks for, at its start and at its steps, until one begins: no edit,      *)
(* reload or reboot in between changes that.                                *)
WithdrawnIsResumable ==
  withdrawn => /\ pc = "idle" /\ Resumable /\ ~loaded
               /\ Whole({"runtime", "sshdir"})

(* The most steps a run at p has before it, with a withdrawal at its end.   *)
StepsLeft(p) ==
  CASE p = "account" -> 20 [] p = "home" -> 19    [] p = "assets" -> 18  [] p = "current" -> 17
    [] p = "units" -> 16   [] p = "runtime" -> 15 [] p = "analyze" -> 14
    [] p \in {"config", "sshdir"} -> 13           [] p \in {"key", "keys"} -> 12
    [] p = "dropin" -> 11  [] p = "check" -> 10   [] p = "reload" -> 9   [] p = "daemon" -> 8
    [] p = "collect" -> 7  [] p = "timer" -> 6    [] p = "end" -> 5
    [] p = "undropin" -> 4 [] p = "unkeys" -> 3   [] p = "retest" -> 2   [] p = "rereload" -> 1
    [] OTHER -> 0

(* Every step of a run, whatever fails in it, leaves it fewer to go: a      *)
(* withdrawal is never followed by another attempt in the same run.         *)
RunsEnd ==
  [][pc # "idle" /\ pc' # pc => StepsLeft(pc') < StepsLeft(pc)]_vars
=============================================================================
