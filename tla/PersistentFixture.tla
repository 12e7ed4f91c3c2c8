------------------------- MODULE PersistentFixture --------------------------
(***************************************************************************)
(* qualification/discrete-pay/persistent-test.py: a qualified fixture is   *)
(* cloned and installed for good under discrete-pay-test.target, enabled   *)
(* at boot after an acceptance, and stopped.  The commands take no lock:   *)
(* install, enable and stop may overlap each other and the two tests of    *)
(* RebootTest, whose evidence install reads.  install.json is rewritten in *)
(* place, from what a command read when it began.                          *)
(***************************************************************************)
EXTENDS RebootTest

VARIABLES
  root,        \* /opt/discrete-pay-test exists
  pphase,      \* phase of install.json: "none" without it, "torn" half written
  source,      \* the fixture install was given
  hashed,      \* what install hashed of it: "none", the "whole" or a "partial" directory,
               \*   or "other": it was written to since
  clone,       \* the clone: "none", "good", "bad" (copied after the original was written to),
               \*   "torn" (copied while the original was half extracted)
  qualified,   \* history: source had passed the service test when install began
  pfile,       \* the installed unit files
  stack,       \* the installed units: "down", "up", "stopping"
  penabled,    \* discrete-pay-test.target starts at boot
  ins, en, st, \* next step of install, enable and stop, "idle"
  crossed,     \* history: a command at work was begun while another was
  sure         \* history: the last that was done to the stack was done by one command alone,
               \*   from its beginning to its end

original   == <<source, hashed, qualified>>
persistent == <<root, pphase, clone, pfile, stack, penabled>>
commands   == <<ins, en, st>>
told       == <<crossed, sure>>
ownVars    == <<original, persistent, commands, told>>
vars       == <<rebootVars, ownVars>>

InstallSteps == {"hash", "clone", "state", "write", "compare", "start", "started"}
EnableSteps  == {"active", "source", "enable", "save"}
StopSteps    == {"disable", "stop", "save"}

Init ==
  /\ RebootInit
  /\ root = FALSE /\ pphase = "none" /\ source = "none" /\ hashed = "none" /\ clone = "none"
  /\ qualified = FALSE /\ pfile = All("absent") /\ stack = "down" /\ penabled = FALSE
  /\ ins = "idle" /\ en = "idle" /\ st = "idle" /\ crossed = FALSE /\ sure = TRUE

AllIdle == ins = "idle" /\ en = "idle" /\ st = "idle"

(* A command begins; it has the stack to itself if no other is at work.    *)
Begins ==
  /\ crossed' = (crossed \/ ~AllIdle) /\ sure' = (sure /\ AllIdle)

(* It goes on or is refused; it ends, having done all it does.             *)
Goes == crossed' = (crossed /\ ~AllIdle') /\ UNCHANGED sure
Ends == crossed' = (crossed /\ ~AllIdle') /\ sure' = (sure \/ ~crossed)

InsAt(from, to) == ins = from /\ ins' = to /\ UNCHANGED <<rebootVars, original, en, st>>
EnAt(from, to)  == en = from /\ en' = to /\ UNCHANGED <<rebootVars, original, ins, st>>
StAt(from, to)  == st = from /\ st' = to /\ UNCHANGED <<rebootVars, original, ins, en>>

-----------------------------------------------------------------------------
(* install                                                                 *)
(* Both results, whichever fixtures they are of; no process of payqual.    *)
Qualified == service = "PASS" /\ reboot \in {"PASS", "removed"}

Install(f) ==
  /\ Qualified /\ ~root /\ units = "none" /\ place[f] # "moved"
  /\ ins = "idle" /\ ins' = "hash" /\ source' = f /\ qualified' = (f \in passed)
  /\ Begins
  /\ UNCHANGED <<rebootVars, hashed, persistent, en, st>>

(* The files are hashed, the handoff is read, no unit of its own is there; *)
(* only then the root is made, which no later install passes.  A half      *)
(* extracted directory may have its handoff.                               *)
Hash ==
  /\ ins = "hash" /\ hashed' = (IF place[source] = "moved" THEN "none" ELSE place[source])
  /\ \/ /\ place[source] # "moved" /\ pfile = All("absent")
        /\ ins' = "clone" /\ root' = TRUE
     \/ /\ place[source] # "whole" \/ pfile # All("absent")
        /\ ins' = "idle" /\ UNCHANGED root
  /\ Goes
  /\ UNCHANGED <<rebootVars, source, qualified, pphase, clone, pfile, stack, penabled, en, st>>

(* After the bundle, copied aside, hashed and renamed: copytree reads the  *)
(* original, which nothing holds still and which may be on its way back    *)
(* from a backup; without its handoff, or the directory, it fails.         *)
Clone ==
  /\ \/ InsAt("clone", "state") /\ place[source] # "moved"
     \/ InsAt("clone", "idle") /\ place[source] # "whole"
  /\ clone' = CASE place[source] = "partial" -> "torn"
               [] hashed = "other"           -> "bad"
               [] OTHER                      -> "good"
  /\ Goes /\ UNCHANGED <<root, pphase, pfile, stack, penabled>>

SavePrepared ==
  /\ InsAt("state", "write") /\ pphase' = "prepared"
  /\ Goes /\ UNCHANGED <<root, clone, pfile, stack, penabled>>

WriteOwnUnit ==
  /\ \E u \in NextUnit(pfile) :
       /\ InsAt("write", IF u = Target THEN "compare" ELSE "write")
       /\ pfile' = [pfile EXCEPT ![u] = "whole"]
  /\ Goes /\ UNCHANGED <<root, pphase, clone, stack, penabled>>

(* The original is as install hashed it; what tar adds may show or not.    *)
Same       == place[source] = hashed
Extracting == sv = "untarring" /\ of.sv = source

BugCompare == InsAt("compare", "start") /\ Goes /\ UNCHANGED persistent

(* The original is compared again, after it was copied; the clone never is. *)
Compare ==
  /\ \/ InsAt("compare", "start") /\ Same
     \/ InsAt("compare", "idle") /\ (~Same \/ Extracting)
  /\ Goes /\ UNCHANGED persistent

StartStack ==
  /\ InsAt("start", "started") /\ stack' = "up"
  /\ Goes /\ UNCHANGED <<root, pphase, clone, pfile, penabled>>

SaveStarted ==
  /\ InsAt("started", "idle") /\ pphase' = "started"
  /\ Ends /\ UNCHANGED <<root, clone, pfile, stack, penabled>>

InstallStep ==
  \/ Hash \/ Clone \/ SavePrepared \/ WriteOwnUnit \/ Compare \/ StartStack \/ SaveStarted

-----------------------------------------------------------------------------
(* enable and stop                                                         *)

(* validate_owned: a readable install.json, and every unit as recorded.    *)
Owned == pphase \notin {"none", "torn"} /\ pfile = All("whole")

(* The acceptance is written by whoever has read the running stack back,   *)
(* after install has reported it as started.                               *)
EnableBegin ==
  /\ Owned /\ pphase # "prepared" /\ en = "idle" /\ en' = "active"
  /\ Begins /\ UNCHANGED <<rebootVars, original, persistent, ins, st>>

CheckActive ==
  /\ EnAt("active", IF stack = "up" THEN "source" ELSE "idle")
  /\ Goes /\ UNCHANGED persistent

CheckSource ==
  /\ \/ EnAt("source", "enable") /\ Same
     \/ EnAt("source", "idle") /\ (~Same \/ Extracting)
  /\ Goes /\ UNCHANGED persistent

EnableTarget ==
  /\ EnAt("enable", "save") /\ penabled' = TRUE
  /\ Goes /\ UNCHANGED <<root, pphase, clone, pfile, stack>>

SaveEnabled ==
  /\ EnAt("save", "idle") /\ pphase' = "enabled"
  /\ Ends /\ UNCHANGED <<root, clone, pfile, stack, penabled>>

EnableStep == CheckActive \/ CheckSource \/ EnableTarget \/ SaveEnabled

StopBegin ==
  /\ Owned /\ st = "idle" /\ st' = "disable"
  /\ Begins /\ UNCHANGED <<rebootVars, original, persistent, ins, en>>

BugDisableNow ==
  /\ StAt("disable", "stop") /\ stack' = IF stack = "up" THEN "stopping" ELSE stack
  /\ Goes /\ UNCHANGED <<root, pphase, clone, pfile, penabled>>

DisableNow ==
  /\ StAt("disable", "stop") /\ penabled' = FALSE
  /\ stack' = IF stack = "up" THEN "stopping" ELSE stack
  /\ Goes /\ UNCHANGED <<root, pphase, clone, pfile>>

StopStack ==
  /\ StAt("stop", "save") /\ stack' = "down"
  /\ Goes /\ UNCHANGED <<root, pphase, clone, pfile, penabled>>

SaveStopped ==
  /\ StAt("save", "idle") /\ pphase' = "stopped"
  /\ Ends /\ UNCHANGED <<root, clone, pfile, stack, penabled>>

StopStep == DisableNow \/ StopStack \/ SaveStopped

-----------------------------------------------------------------------------
(* Around it                                                               *)

(* Whatever the tests run on the source writes to it.                      *)
Write ==
  /\ units # "none" /\ runsOn = source /\ hashed \in {"whole", "partial"} /\ hashed' = "other"
  /\ UNCHANGED <<rebootVars, source, qualified, persistent, commands, told>>

(* A command is killed or a call of it fails; a rewrite may be cut short.  *)
Cut(rewriting) == pphase' \in {pphase} \cup (IF rewriting THEN {"torn"} ELSE {})

KillCommand ==
  /\ Fault /\ sure' = FALSE
  /\ \/ ins # "idle" /\ ins' = "idle" /\ Cut(ins \in {"state", "started"}) /\ UNCHANGED <<en, st>>
     \/ en # "idle" /\ en' = "idle" /\ Cut(en = "save") /\ UNCHANGED <<ins, st>>
     \/ st # "idle" /\ st' = "idle" /\ Cut(st = "save") /\ UNCHANGED <<ins, en>>
  /\ pfile' \in {pfile} \cup (IF ins = "write" /\ ins' = "idle" THEN CutOff(pfile) ELSE {})
  /\ crossed' = (crossed /\ ~AllIdle')
  /\ UNCHANGED <<fixture, running, exported, evidence, state, installed, programs, history,
                 original, root, clone, stack, penabled>>

(* The host reboots: every program ends, the enabled targets come up.      *)
RebootHost ==
  /\ Reboots /\ crossed' = FALSE /\ sure' = (sure /\ AllIdle)
  /\ ins' = "idle" /\ en' = "idle" /\ st' = "idle"
  /\ stack' = IF penabled /\ pfile = All("whole") THEN "up" ELSE "down"
  /\ UNCHANGED <<original, root, pphase, clone, pfile, penabled>>

TestStep == TestNext /\ UNCHANGED ownVars

Next ==
  \/ TestStep \/ RebootHost
  \/ \E f \in Fixtures : Install(f)
  \/ InstallStep \/ EnableBegin \/ EnableStep \/ StopBegin \/ StopStep
  \/ Write \/ KillCommand

Spec == Init /\ [][Next]_vars

-----------------------------------------------------------------------------
(* Every variable in its range; what install.json records has been made.   *)
OwnTypeOK ==
  /\ root \in BOOLEAN /\ penabled \in BOOLEAN /\ qualified \in BOOLEAN
  /\ crossed \in BOOLEAN /\ sure \in BOOLEAN
  /\ pphase \in {"none", "torn", "prepared", "started", "enabled", "stopped"}
  /\ source \in Fixtures \cup {"none"} /\ hashed \in {"none", "whole", "partial", "other"}
  /\ clone \in {"none", "good", "bad", "torn"} /\ (pphase # "none" => clone # "none")
  /\ pfile \in [Units -> {"absent", "partial", "whole"}] /\ stack \in {"down", "up", "stopping"}
  /\ ins \in InstallSteps \cup {"idle"} /\ en \in EnableSteps \cup {"idle"}
  /\ st \in StopSteps \cup {"idle"}

TypeOK == RebootTypeOK /\ OwnTypeOK

(* What runs is a clone of the original as it was hashed, although it is   *)
(* hashed, copied and compared at three times and a test may have been     *)
(* started on it in between.  Only a fixture that had not passed its       *)
(* service test when install began, which the evidence files do not tell,  *)
(* may have been copied while that test was restoring it.                  *)
CloneIsTheOriginal ==
  stack # "down" => clone = "good" \/ (clone = "torn" /\ ~qualified)

(* What is recorded as stopped does not run, what comes back at boot is     *)
(* recorded as enabled and the other way round, and nothing runs that is    *)
(* not recorded as running.                                                 *)
Truthful ==
  /\ pphase = "stopped" => stack = "down"
  /\ penabled <=> pphase = "enabled"
  /\ stack # "down" => stack = "up" /\ pphase \in {"started", "enabled"}

(* The record may lag behind while a command is at work, and two commands   *)
(* at once, or one cut short, may leave it false.  But one command that has *)
(* the stack to itself to its end makes it true, whatever went before, and  *)
(* refused commands and reboots keep it so.                                 *)
RecordIsTrue == AllIdle /\ sure => Truthful
=============================================================================
