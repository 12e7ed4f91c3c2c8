-------------------------- MODULE CombinedSequence --------------------------
(***************************************************************************)
(* qualification/discrete-pay/combined-sequence.py: one supervisor waits   *)
(* for the native load test, pauses the private stack, runs the combined   *)
(* test in a unit of its own and gives the stack back.  Four actors move   *)
(* the same stack: the supervisor ("run"), its ExecStopPost ("post"), an   *)
(* operator who calls restore ("op") and the test unit's own ExecStopPost. *)
(* Each is a program of several steps, and each step is one action.        *)
(*                                                                         *)
(* The native test holds the stack down while it runs and gives it back    *)
(* afterwards; somebody may launch it again at any time, which is what the *)
(* second look at line 106 is for.  The private target is enabled, so a    *)
(* reboot brings the stack up.                                             *)
(***************************************************************************)
EXTENDS Naturals

CONSTANTS
  MaxRuns,     \* bound: times the supervisor is launched
  MaxFaults    \* bound: kills, failing calls, reboots and relaunches of native

ASSUME BoundAssumption == MaxRuns \in Nat /\ MaxFaults \in Nat

VARIABLES
  native,      \* the prerequisite: "running", "clean", "bad" (failed or other evidence)
  held,        \* the stack is down for the prerequisite
  into,        \* history: what of the sequence its present run was launched into,
               \*   "nothing", the "look" (after it, before a pause is saved) or a "loan"
  stack,       \* TARGET and its units: "up", "stopping" (target down, units not yet), "down"
  child,       \* CHILD: "none" (not-found), "active", "ending" (in ExecStopPost), "failed"
  result,      \* how its process ended: "none" (not, or stopped), "pass", "fail"
  phase,       \* phase of sequence-state.json, "none" without the file
  paused,      \* its paused flag
  intact,      \* installer and install.json are what the sequence validated
  pc,          \* next step of each process
  copy,        \* the phase a restore has read and will write back
  meddled,     \* history: an outsider used the stack while the sequence had it
  runs, faults

marker == <<phase, paused>>
test   == <<child, result>>
prereq == <<native, held, into>>
bounds == <<runs, faults>>
vars   == <<prereq, stack, test, marker, intact, pc, copy, meddled, bounds>>

Processes == {"run", "post", "op"}
Waiting   == {"native", "recheck", "gui", "validate", "target", "mark"}
Trying    == {"stop", "drain", "pgrep", "record", "launch", "await"}
Restoring == {"revalidate", "look", "stopchild", "stopping", "start", "save"}
Phases    == {"none", "waiting-native", "waiting-gui",
              "combined-preparing", "combined-running", "combined-passed"}

Init ==
  /\ native = "running" /\ held = TRUE /\ into = "nothing" /\ stack = "down"
  /\ child = "none" /\ result = "none" /\ phase = "none" /\ paused = FALSE
  /\ intact = TRUE /\ pc = [p \in Processes |-> "idle"]
  /\ copy = [p \in Processes |-> "none"] /\ meddled = FALSE
  /\ runs = 0 /\ faults = 0

Fault == faults < MaxFaults /\ faults' = faults + 1 /\ UNCHANGED runs

Goto(p, to)     == pc' = [pc EXCEPT ![p] = to]
At(p, from, to) == pc[p] = from /\ Goto(p, to) /\ UNCHANGED bounds

-----------------------------------------------------------------------------
(* run: up to the pause                                                    *)
BugFreshUnmarked == child = "none"

Fresh == phase = "none" /\ child = "none"

Launch ==
  /\ runs < MaxRuns /\ pc["run"] = "idle" /\ pc["post"] = "idle"
  /\ runs' = runs + 1 /\ UNCHANGED faults
  /\ IF Fresh THEN Goto("run", "native") /\ phase' = "waiting-native" /\ paused' = FALSE
              ELSE Goto("run", "over") /\ UNCHANGED marker
  /\ UNCHANGED <<prereq, stack, test, intact, copy, meddled>>

Prerequisite == native = "clean"

(* Polled until the prerequisite has ended, or a deadline has passed.      *)
WaitNative ==
  /\ \/ Prerequisite /\ At("run", "native", "recheck")
     \/ At("run", "native", "over")
  /\ UNCHANGED <<prereq, stack, test, marker, intact, copy, meddled>>

Recheck ==
  /\ \/ Prerequisite /\ At("run", "recheck", "gui") /\ phase' = "waiting-gui"
     \/ ~Prerequisite /\ At("run", "recheck", "over") /\ UNCHANGED phase
  /\ UNCHANGED <<prereq, stack, test, paused, intact, copy, meddled>>

WaitGui ==
  /\ At("run", "gui", "validate") \/ At("run", "gui", "over")
  /\ UNCHANGED <<prereq, stack, test, marker, intact, copy, meddled>>

Validate ==
  /\ At("run", "validate", IF intact THEN "target" ELSE "over")
  /\ UNCHANGED <<prereq, stack, test, marker, intact, copy, meddled>>

(* The prerequisite must have given the stack back.                        *)
CheckTarget ==
  /\ At("run", "target", IF stack = "up" THEN "mark" ELSE "over")
  /\ UNCHANGED <<prereq, stack, test, marker, intact, copy, meddled>>

BugMarkUnpaused ==
  /\ At("run", "mark", "stop") /\ phase' = "combined-preparing" /\ UNCHANGED paused
  /\ UNCHANGED <<prereq, stack, test, intact, copy, meddled>>

Mark ==
  /\ At("run", "mark", "stop") /\ phase' = "combined-preparing" /\ paused' = TRUE
  /\ UNCHANGED <<prereq, stack, test, intact, copy, meddled>>

-----------------------------------------------------------------------------
(* run: inside its try                                                     *)

(* systemctl waits for the target only; its units stop because of PartOf.  *)
StopTarget ==
  /\ At("run", "stop", "drain") /\ stack' = IF stack = "up" THEN "stopping" ELSE stack
  /\ UNCHANGED <<prereq, test, marker, intact, copy, meddled>>

StopUnits ==
  /\ At("run", "drain", "pgrep") /\ stack' = "down"
  /\ UNCHANGED <<prereq, test, marker, intact, copy, meddled>>

(* No process of the test user may be left, of whatever test it is.        *)
Pgrep ==
  /\ At("run", "pgrep", IF stack = "down" /\ native # "running" THEN "record" ELSE "read")
  /\ UNCHANGED <<prereq, stack, test, marker, intact, copy, meddled>>

RecordRunning ==
  /\ At("run", "record", "launch") /\ phase' = "combined-running" /\ paused' = TRUE
  /\ UNCHANGED <<prereq, stack, test, intact, copy, meddled>>

LaunchChild ==
  /\ IF child = "none" THEN At("run", "launch", "await") /\ child' = "active"
                       ELSE At("run", "launch", "read") /\ UNCHANGED child
  /\ UNCHANGED <<prereq, stack, result, marker, intact, copy, meddled>>

(* systemd-run --wait answers when the unit is gone, ExecStopPost included. *)
Judge ==
  /\ child \in {"none", "failed"} /\ At("run", "await", "read")
  /\ IF result = "pass" THEN phase' = "combined-passed" /\ paused' = TRUE
                        ELSE UNCHANGED marker
  /\ UNCHANGED <<prereq, stack, test, intact, copy, meddled>>

-----------------------------------------------------------------------------
(* restore, by each of the three processes                                 *)
BugReadAnyMarker(p) ==
  /\ IF phase # "none" THEN At(p, "read", "revalidate") ELSE At(p, "read", "over")
  /\ copy' = [copy EXCEPT ![p] = phase]
  /\ meddled' = (meddled \/ (p = "op" /\ paused /\ pc["run"] \in Trying))
  /\ UNCHANGED <<prereq, stack, test, marker, intact>>

(* Nothing is done without a marker that says paused.  An operator who     *)
(* restores while the supervisor is at its test meddles.                   *)
Read(p) ==
  /\ IF paused THEN At(p, "read", "revalidate") ELSE At(p, "read", "over")
  /\ copy' = [copy EXCEPT ![p] = phase]
  /\ meddled' = (meddled \/ (p = "op" /\ paused /\ pc["run"] \in Trying))
  /\ UNCHANGED <<prereq, stack, test, marker, intact>>

Revalidate(p) ==
  /\ At(p, "revalidate", IF intact THEN "look" ELSE "over")
  /\ UNCHANGED <<prereq, stack, test, marker, intact, copy, meddled>>

BugLookAway(p) ==
  /\ At(p, "look", "start")
  /\ UNCHANGED <<prereq, stack, test, marker, intact, copy, meddled>>

Look(p) ==
  /\ At(p, "look", IF child = "none" THEN "start" ELSE "stopchild")
  /\ UNCHANGED <<prereq, stack, test, marker, intact, copy, meddled>>

(* systemctl stop asks for the stop and waits for it; a unit that is not   *)
(* loaded any more makes it fail.                                          *)
StopChild(p) ==
  /\ \/ child = "active" /\ child' = "ending" /\ At(p, "stopchild", "stopping")
     \/ child = "ending" /\ UNCHANGED child /\ At(p, "stopchild", "stopping")
     \/ child = "failed" /\ UNCHANGED child /\ At(p, "stopchild", "start")
     \/ child = "none" /\ UNCHANGED child /\ At(p, "stopchild", "over")
  /\ UNCHANGED <<prereq, stack, result, marker, intact, copy, meddled>>

ChildStopped(p) ==
  /\ child \in {"none", "failed"} /\ At(p, "stopping", "start")
  /\ UNCHANGED <<prereq, stack, test, marker, intact, copy, meddled>>

StartTarget(p) ==
  /\ At(p, "start", "save") /\ stack' = "up"
  /\ UNCHANGED <<prereq, test, marker, intact, copy, meddled>>

Save(p) ==
  /\ At(p, "save", "over") /\ phase' = copy[p] /\ paused' = FALSE
  /\ UNCHANGED <<prereq, stack, test, intact, copy, meddled>>

BugRestoreSaveFirst(p) ==
  \/ Read(p) \/ Revalidate(p) \/ Look(p) \/ StopChild(p) \/ ChildStopped(p)
  \/ /\ At(p, "start", "save") /\ phase' = copy[p] /\ paused' = FALSE
     /\ UNCHANGED <<prereq, stack, test, intact, copy, meddled>>
  \/ /\ At(p, "save", "over") /\ stack' = "up"
     /\ UNCHANGED <<prereq, test, marker, intact, copy, meddled>>

Restore(p) ==
  \/ Read(p) \/ Revalidate(p) \/ Look(p) \/ StopChild(p) \/ ChildStopped(p)
  \/ StartTarget(p) \/ Save(p)

(* ExecStopPost follows the supervisor's end, whatever it was.             *)
StopPost ==
  /\ pc["run"] = "over" /\ At("post", "idle", "read")
  /\ UNCHANGED <<prereq, stack, test, marker, intact, copy, meddled>>

UnitEnds ==
  /\ pc["post"] = "over" /\ pc' = [pc EXCEPT !["run"] = "idle", !["post"] = "idle"]
  /\ UNCHANGED <<prereq, stack, test, marker, intact, copy, meddled, bounds>>

CallRestore ==
  /\ paused /\ At("op", "idle", "read")
  /\ UNCHANGED <<prereq, stack, test, marker, intact, copy, meddled>>

Leave ==
  /\ At("op", "over", "idle")
  /\ UNCHANGED <<prereq, stack, test, marker, intact, copy, meddled>>

-----------------------------------------------------------------------------
(* The combined test's unit, and the prerequisite                          *)
ChildEnds ==
  /\ child = "active" /\ child' = "ending" /\ result' \in {"pass", "fail"}
  /\ UNCHANGED <<prereq, stack, marker, intact, pc, copy, meddled, bounds>>

(* A unit that failed stays loaded.                                        *)
ChildStopPost ==
  /\ child = "ending" /\ stack' = "up"
  /\ child' = IF result = "fail" THEN "failed" ELSE "none"
  /\ UNCHANGED <<prereq, result, marker, intact, pc, copy, meddled, bounds>>

NativeEnds ==
  /\ native = "running" /\ native' \in {"clean", "bad"} /\ into' = "nothing"
  /\ UNCHANGED <<held, stack, test, marker, intact, pc, copy, meddled, bounds>>

NativeGivesBack ==
  /\ held /\ native # "running" /\ held' = FALSE /\ stack' = "up"
  /\ UNCHANGED <<native, into, test, marker, intact, pc, copy, meddled, bounds>>

(* After the last look at the stack, line 114, and before the pause is on  *)
(* record, line 115.                                                       *)
Looked == pc["run"] = "mark" /\ ~paused

(* From that look to the end of the last restore the sequence may move the *)
(* stack.                                                                  *)
HasStack ==
  \/ paused \/ pc["run"] \in Trying \cup {"mark"}
  \/ (\E p \in Processes : pc[p] \in Restoring) \/ child \in {"active", "ending"}

(* It is launched again, on a stack taken down for it, whatever the        *)
(* sequence is at: nothing in the code keeps the two apart.                *)
NativeAgain ==
  /\ native # "running" /\ Fault /\ native' = "running" /\ held' = TRUE /\ stack' = "down"
  /\ into' = (IF Looked THEN "look" ELSE IF HasStack THEN "loan" ELSE "nothing")
  /\ meddled' = (meddled \/ HasStack)
  /\ UNCHANGED <<test, marker, intact, pc, copy>>

-----------------------------------------------------------------------------
(* What goes wrong                                                         *)
Tamper ==
  /\ intact /\ Fault /\ intact' = FALSE
  /\ UNCHANGED <<prereq, stack, test, marker, pc, copy, meddled>>

Alive(p) == pc[p] \notin {"idle", "over"}

Kill(p) ==
  /\ Alive(p) /\ Fault /\ Goto(p, "over")
  /\ UNCHANGED <<prereq, stack, test, marker, intact, copy, meddled>>

(* A failing call or a time-out inside the try leads to its finally.       *)
Fails ==
  /\ pc["run"] \in Trying /\ Fault /\ Goto("run", "read")
  /\ UNCHANGED <<prereq, stack, test, marker, intact, copy, meddled>>

Reboot ==
  /\ Fault /\ pc' = [p \in Processes |-> "idle"]
  /\ child' = "none" /\ stack' = "up" /\ held' = FALSE /\ into' = "nothing"
  /\ native' = IF native = "running" THEN "bad" ELSE native
  /\ UNCHANGED <<result, marker, intact, copy, meddled>>

-----------------------------------------------------------------------------
Run ==
  \/ WaitNative \/ Recheck \/ WaitGui \/ Validate \/ CheckTarget \/ Mark
  \/ StopTarget \/ StopUnits \/ Pgrep \/ RecordRunning \/ LaunchChild \/ Judge
  \/ Restore("run")

Unit     == StopPost \/ Restore("post") \/ UnitEnds
Operator == CallRestore \/ Restore("op") \/ Leave
Tests    == ChildEnds \/ ChildStopPost \/ NativeEnds \/ NativeGivesBack
Faults   == NativeAgain \/ Tamper \/ (\E p \in Processes : Kill(p)) \/ Fails \/ Reboot

Next == Launch \/ Run \/ Unit \/ Operator \/ Tests \/ Faults

Spec == Init /\ [][Next]_vars

(* Processes go on, tests end, and an operator who finds the marker paused *)
(* with no supervisor left calls restore.                                  *)
FairSpec ==
  /\ Spec /\ WF_vars(Run) /\ WF_vars(Unit) /\ WF_vars(ChildEnds \/ ChildStopPost)
  /\ WF_vars(Restore("op") \/ Leave) /\ WF_vars(CallRestore /\ pc["run"] = "idle")

-----------------------------------------------------------------------------
TypeOK ==
  /\ native \in {"running", "clean", "bad"} /\ held \in BOOLEAN
  /\ into \in {"nothing", "look", "loan"} /\ stack \in {"up", "stopping", "down"}
  /\ child \in {"none", "active", "ending", "failed"}
  /\ result \in {"none", "pass", "fail"}
  /\ phase \in Phases /\ paused \in BOOLEAN /\ intact \in BOOLEAN
  /\ pc \in [Processes -> Waiting \cup Trying \cup Restoring \cup {"idle", "read", "over"}]
  /\ copy \in [Processes -> Phases] /\ meddled \in BOOLEAN
  /\ runs \in 0..MaxRuns /\ faults \in 0..MaxFaults

(* "durably mark the pause" (README.md:152): whenever the stack is down    *)
(* and not for the prerequisite, the marker says so, so that whoever dies  *)
(* at whatever step, the next restore starts the stack.                    *)
PauseIsMarked == stack # "up" /\ ~held /\ ~meddled => paused

(* The combined test runs alone on the host's ports and data: no unit of   *)
(* the stack runs beside it, dead supervisors and restores by its          *)
(* ExecStopPost or by an operator included.                                *)
ChildAlone == child = "active" /\ ~meddled => stack = "down"

(* A prerequisite launched before the last look at the stack, or once the  *)
(* last restore is over, runs undisturbed: neither a restore, of whichever *)
(* process and after whichever death, nor the combined test touches the    *)
(* stack beside it.                                                        *)
PrerequisiteUndisturbed ==
  native = "running" /\ into = "nothing" => stack = "down" /\ child # "active"

(* "Recovery never starts that target while the prerequisite is running:   *)
(* before a validated pause there is no restoration marker"                *)
(* (README.md:154-155): the supervisor and its ExecStopPost have not just  *)
(* started it beside one launched before the pause was on record.          *)
RecoverySparesPrerequisite ==
  native = "running" /\ into # "loan" =>
    ~(stack = "up" /\ \E p \in {"run", "post"} : pc[p] = "save")

Rank(name) ==
  CASE name = "none" -> 0 [] name = "waiting-native" -> 1 [] name = "waiting-gui" -> 2
    [] name = "combined-preparing" -> 3 [] name = "combined-running" -> 4
    [] name = "combined-passed" -> 5

(* "Existing markers ... cause refusal, not overwrite" (README.md:156):    *)
(* what the marker says of the sequence never goes back, whoever writes it *)
(* from an older copy and however often the supervisor is launched.        *)
MarkerNeverGoesBack == [][Rank(phase') >= Rank(phase) \/ meddled']_vars

(* Whatever dies, the stack is up in the end, unless the installation was  *)
(* changed, which restore refuses, or the prerequisite holds it.           *)
EventuallyGivenBack == <>[](stack = "up" \/ held \/ ~intact \/ meddled)

(* What of the three runs on the host, and who has the stack.               *)
Inside ==
  {user \in {"stack", "native", "combined"} :
     CASE user = "stack"    -> stack # "down"
       [] user = "native"   -> native = "running"
       [] user = "combined" -> child = "active"}

Borrower == IF paused THEN "combined" ELSE IF held THEN "native" ELSE "nobody"

Loan == INSTANCE StackLoan WITH inside <- Inside, loan <- Borrower, excused <- meddled

(* The four actors together treat the stack as StackLoan says: at most one  *)
(* of stack, native and combined test runs, the stack is taken down only    *)
(* under a marker that says so, and the marker's pause is withdrawn only    *)
(* once the stack is back and the test is gone.                             *)
ImplementsStackLoan == Loan!Spec
=============================================================================
