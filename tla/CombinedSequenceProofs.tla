----------------------- MODULE CombinedSequenceProofs -----------------------
(***************************************************************************)
(* The safety properties of CombinedSequence, for any number of launches   *)
(* and faults.  The inductive invariant is IInv: its parts say where each  *)
(* of the four actors can be while the marker, the stack and the test unit *)
(* are in a given state.                                                   *)
(***************************************************************************)
EXTENDS CombinedSequence, TLAPS

(* Holds whatever outsiders do: the prerequisite holds the stack while it   *)
(* runs, ExecStopPost follows the supervisor's end, there is no test unit   *)
(* before the supervisor launches one, and a restore has read a marker.     *)
Order ==
  /\ native = "running" => held
  /\ pc["post"] # "idle" => pc["run"] = "over"
  /\ pc["run"] \in Waiting \cup (Trying \ {"await"}) => child = "none"
  /\ phase = "none" => ~paused
  /\ \A p \in Processes : pc[p] \in Restoring => phase # "none" /\ copy[p] # "none"

(* What the marker says at each step of the supervisor.                     *)
Recorded ==
  /\ pc["run"] \in {"native", "recheck"} => phase = "waiting-native"
  /\ pc["run"] \in {"gui", "validate", "target", "mark"} => phase = "waiting-gui"
  /\ pc["run"] \in {"stop", "drain", "pgrep", "record"} => phase = "combined-preparing"
  /\ pc["run"] \in {"launch", "await"} => phase = "combined-running"
  /\ pc["run"] \in Waiting => ~paused
  /\ pc["run"] \in Trying => paused
  /\ pc["run"] \in Waiting \cup Trying => pc["op"] \notin Restoring
  /\ \A p \in Processes : pc[p] \in Restoring => copy[p] = phase

(* Who has the stack: the prerequisite, or the sequence and its restores.   *)
Holder ==
  /\ held => stack = "down"
  /\ paused => ~held
  /\ pc["run"] = "mark" => ~held
  /\ \A p \in Processes : pc[p] \in Restoring => ~held
  /\ stack # "up" /\ ~held => paused

(* The test unit, and the stack beside it.                                  *)
Alone ==
  /\ child \in {"active", "ending"} => paused
  /\ child = "active" => stack = "down"
  /\ pc["run"] \in {"record", "launch"} => stack = "down"
  /\ \A p \in Processes : pc[p] \in {"start", "save"} => child \notin {"active", "ending"}
  /\ \A p \in Processes : pc[p] = "save" => stack = "up"

Undisturbed == Recorded /\ Holder /\ Alone

(* A prerequisite launched while the sequence was at no step that moves the *)
(* stack: it is at none while that run lasts, whatever else was done.       *)
Spared ==
  native = "running" /\ into = "nothing" => stack = "down" /\ ~HasStack

IInv == TypeOK /\ Order /\ Spared /\ (~meddled => Undisturbed)

(* Every variable keeps its type. *)
LEMMA StepTyped ==
  ASSUME TypeOK, [Next]_vars
  PROVE  TypeOK'
<1> USE BoundAssumption DEF TypeOK, Processes, Waiting, Trying, Restoring, Phases, At, Goto, prereq, test, marker, bounds
<1>1. CASE Launch
  <2>1. runs' \in 0..MaxRuns /\ faults' \in 0..MaxFaults
    BY <1>1 DEF Launch, Fresh
  <2>2. pc' \in [Processes -> Waiting \cup Trying \cup Restoring \cup {"idle", "read", "over"}]
    BY <1>1 DEF Launch, Fresh
  <2>3. /\ native' \in {"running", "clean", "bad"} /\ held' \in BOOLEAN /\ into' \in {"nothing", "look", "loan"}
       /\ stack' \in {"up", "stopping", "down"}
       /\ child' \in {"none", "active", "ending", "failed"}
       /\ result' \in {"none", "pass", "fail"}
    BY <1>1 DEF Launch, Fresh
  <2>4. phase' \in Phases /\ paused' \in BOOLEAN /\ intact' \in BOOLEAN
    BY <1>1 DEF Launch, Fresh
  <2>5. copy' \in [Processes -> Phases] /\ meddled' \in BOOLEAN
    BY <1>1 DEF Launch, Fresh
  <2> QED BY <2>1, <2>2, <2>3, <2>4, <2>5
<1>2. CASE \E p \in Processes : Restore(p)
  <2> SUFFICES ASSUME NEW p \in Processes, Restore(p) PROVE TypeOK'
    BY <1>2
  <2>1. CASE Read(p)
    BY <2>1 DEF Read
  <2>2. CASE Revalidate(p)
    BY <2>2 DEF Revalidate
  <2>3. CASE Look(p)
    BY <2>3 DEF Look
  <2>4. CASE StopChild(p)
    BY <2>4 DEF StopChild
  <2>5. CASE ChildStopped(p)
    BY <2>5 DEF ChildStopped
  <2>6. CASE StartTarget(p)
    BY <2>6 DEF StartTarget
  <2>7. CASE Save(p)
    <3>1. runs' \in 0..MaxRuns /\ faults' \in 0..MaxFaults
      BY <2>7 DEF Save
    <3>2. pc' \in [Processes -> Waiting \cup Trying \cup Restoring \cup {"idle", "read", "over"}]
      BY <2>7 DEF Save
    <3>3. /\ native' \in {"running", "clean", "bad"} /\ held' \in BOOLEAN /\ into' \in {"nothing", "look", "loan"}
         /\ stack' \in {"up", "stopping", "down"}
         /\ child' \in {"none", "active", "ending", "failed"}
         /\ result' \in {"none", "pass", "fail"}
      BY <2>7 DEF Save
    <3>4. phase' \in Phases /\ paused' \in BOOLEAN /\ intact' \in BOOLEAN
      BY <2>7 DEF Save
    <3>5. copy' \in [Processes -> Phases] /\ meddled' \in BOOLEAN
      BY <2>7 DEF Save
    <3> QED BY <3>1, <3>2, <3>3, <3>4, <3>5
  <2> QED BY <2>1, <2>2, <2>3, <2>4, <2>5, <2>6, <2>7 DEF Restore
<1>3. CASE WaitNative \/ Recheck \/ WaitGui \/ Validate \/ CheckTarget \/ Mark \/ StopTarget \/ StopUnits \/ Pgrep \/ RecordRunning \/ LaunchChild \/ Judge
  <2>1. CASE WaitNative
    BY <2>1 DEF WaitNative, Prerequisite
  <2>2. CASE Recheck
    BY <2>2 DEF Recheck, Prerequisite
  <2>3. CASE WaitGui
    BY <2>3 DEF WaitGui
  <2>4. CASE Validate
    BY <2>4 DEF Validate
  <2>5. CASE CheckTarget
    BY <2>5 DEF CheckTarget
  <2>6. CASE Mark
    BY <2>6 DEF Mark
  <2>7. CASE StopTarget
    BY <2>7 DEF StopTarget
  <2>8. CASE StopUnits
    BY <2>8 DEF StopUnits
  <2>9. CASE Pgrep
    BY <2>9 DEF Pgrep
  <2>10. CASE RecordRunning
    BY <2>10 DEF RecordRunning
  <2>11. CASE LaunchChild
    BY <2>11 DEF LaunchChild
  <2>12. CASE Judge
    <3>1. runs' \in 0..MaxRuns /\ faults' \in 0..MaxFaults
      BY <2>12 DEF Judge
    <3>2. pc' \in [Processes -> Waiting \cup Trying \cup Restoring \cup {"idle", "read", "over"}]
      BY <2>12 DEF Judge
    <3>3. /\ native' \in {"running", "clean", "bad"} /\ held' \in BOOLEAN /\ into' \in {"nothing", "look", "loan"}
         /\ stack' \in {"up", "stopping", "down"}
         /\ child' \in {"none", "active", "ending", "failed"}
         /\ result' \in {"none", "pass", "fail"}
      BY <2>12 DEF Judge
    <3>4. phase' \in Phases /\ paused' \in BOOLEAN /\ intact' \in BOOLEAN
      BY <2>12 DEF Judge
    <3>5. copy' \in [Processes -> Phases] /\ meddled' \in BOOLEAN
      BY <2>12 DEF Judge
    <3> QED BY <3>1, <3>2, <3>3, <3>4, <3>5
  <2> QED BY <1>3, <2>1, <2>2, <2>3, <2>4, <2>5, <2>6, <2>7, <2>8, <2>9, <2>10, <2>11, <2>12
<1>4. CASE StopPost \/ UnitEnds \/ CallRestore \/ Leave \/ ChildEnds \/ ChildStopPost \/ NativeEnds \/ NativeGivesBack
  <2>1. CASE StopPost
    BY <2>1 DEF StopPost
  <2>2. CASE UnitEnds
    BY <2>2 DEF UnitEnds
  <2>3. CASE CallRestore
    BY <2>3 DEF CallRestore
  <2>4. CASE Leave
    BY <2>4 DEF Leave
  <2>5. CASE ChildEnds
    BY <2>5 DEF ChildEnds
  <2>6. CASE ChildStopPost
    BY <2>6 DEF ChildStopPost
  <2>7. CASE NativeEnds
    BY <2>7 DEF NativeEnds
  <2>8. CASE NativeGivesBack
    <3>1. runs' \in 0..MaxRuns /\ faults' \in 0..MaxFaults
      BY <2>8 DEF NativeGivesBack
    <3>2. pc' \in [Processes -> Waiting \cup Trying \cup Restoring \cup {"idle", "read", "over"}]
      BY <2>8 DEF NativeGivesBack
    <3>3. /\ native' \in {"running", "clean", "bad"} /\ held' \in BOOLEAN /\ into' \in {"nothing", "look", "loan"}
         /\ stack' \in {"up", "stopping", "down"}
         /\ child' \in {"none", "active", "ending", "failed"}
         /\ result' \in {"none", "pass", "fail"}
      BY <2>8 DEF NativeGivesBack
    <3>4. phase' \in Phases /\ paused' \in BOOLEAN /\ intact' \in BOOLEAN
      BY <2>8 DEF NativeGivesBack
    <3>5. copy' \in [Processes -> Phases] /\ meddled' \in BOOLEAN
      BY <2>8 DEF NativeGivesBack
    <3> QED BY <3>1, <3>2, <3>3, <3>4, <3>5
  <2> QED BY <1>4, <2>1, <2>2, <2>3, <2>4, <2>5, <2>6, <2>7, <2>8
<1>5. CASE NativeAgain \/ Tamper \/ Fails \/ Reboot
  <2>1. CASE NativeAgain
    BY <2>1 DEF NativeAgain, Fault, HasStack
  <2>2. CASE Tamper
    <3>1. runs' \in 0..MaxRuns /\ faults' \in 0..MaxFaults
      BY <2>2 DEF Tamper, Fault
    <3>2. pc' \in [Processes -> Waiting \cup Trying \cup Restoring \cup {"idle", "read", "over"}]
      BY <2>2 DEF Tamper, Fault
    <3>3. /\ native' \in {"running", "clean", "bad"} /\ held' \in BOOLEAN /\ into' \in {"nothing", "look", "loan"}
         /\ stack' \in {"up", "stopping", "down"}
         /\ child' \in {"none", "active", "ending", "failed"}
         /\ result' \in {"none", "pass", "fail"}
      BY <2>2 DEF Tamper, Fault
    <3>4. phase' \in Phases /\ paused' \in BOOLEAN /\ intact' \in BOOLEAN
      BY <2>2 DEF Tamper, Fault
    <3>5. copy' \in [Processes -> Phases] /\ meddled' \in BOOLEAN
      BY <2>2 DEF Tamper, Fault
    <3> QED BY <3>1, <3>2, <3>3, <3>4, <3>5
  <2>3. CASE Fails
    BY <2>3 DEF Fails, Fault
  <2>4. CASE Reboot
    <3>1. runs' \in 0..MaxRuns /\ faults' \in 0..MaxFaults
      BY <2>4 DEF Reboot, Fault
    <3>2. pc' \in [Processes -> Waiting \cup Trying \cup Restoring \cup {"idle", "read", "over"}]
      BY <2>4 DEF Reboot, Fault
    <3>3. /\ native' \in {"running", "clean", "bad"} /\ held' \in BOOLEAN /\ into' \in {"nothing", "look", "loan"}
         /\ stack' \in {"up", "stopping", "down"}
         /\ child' \in {"none", "active", "ending", "failed"}
         /\ result' \in {"none", "pass", "fail"}
      BY <2>4 DEF Reboot, Fault
    <3>4. phase' \in Phases /\ paused' \in BOOLEAN /\ intact' \in BOOLEAN
      BY <2>4 DEF Reboot, Fault
    <3>5. copy' \in [Processes -> Phases] /\ meddled' \in BOOLEAN
      BY <2>4 DEF Reboot, Fault
    <3> QED BY <3>1, <3>2, <3>3, <3>4, <3>5
  <2> QED BY <1>5, <2>1, <2>2, <2>3, <2>4
<1>6. CASE \E p \in Processes : Kill(p)
  BY <1>6 DEF Kill, Fault, Alive
<1>7. CASE UNCHANGED vars
  BY <1>7 DEF vars
<1>8. {"run", "post", "op"} \subseteq Processes
  BY DEF Processes
<1> QED
  BY <1>1, <1>2, <1>3, <1>4, <1>5, <1>6, <1>7, <1>8 DEF Next, Run, Unit, Operator, Tests, Faults

(* No actor is where its order forbids. *)
LEMMA StepOrder ==
  ASSUME TypeOK, Order, [Next]_vars
  PROVE  Order'
<1> USE DEF Order, TypeOK, Processes, Waiting, Trying, Restoring, Phases, At, Goto, prereq, test, marker, bounds
<1>1. CASE Launch
  BY <1>1 DEF Launch, Fresh
<1>2. CASE \E p \in Processes : Restore(p)
  <2> SUFFICES ASSUME NEW p \in Processes, Restore(p) PROVE Order'
    BY <1>2
  <2>1. CASE Read(p)
    BY <2>1 DEF Read
  <2>2. CASE Revalidate(p)
    BY <2>2 DEF Revalidate
  <2>3. CASE Look(p)
    BY <2>3 DEF Look
  <2>4. CASE StopChild(p)
    BY <2>4 DEF StopChild
  <2>5. CASE ChildStopped(p)
    BY <2>5 DEF ChildStopped
  <2>6. CASE StartTarget(p)
    BY <2>6 DEF StartTarget
  <2>7. CASE Save(p)
    BY <2>7 DEF Save
  <2> QED BY <2>1, <2>2, <2>3, <2>4, <2>5, <2>6, <2>7 DEF Restore
<1>3. CASE WaitNative \/ Recheck \/ WaitGui \/ Validate \/ CheckTarget \/ Mark \/ StopTarget \/ StopUnits \/ Pgrep \/ RecordRunning \/ LaunchChild \/ Judge
  <2>1. CASE WaitNative
    BY <2>1 DEF WaitNative, Prerequisite
  <2>2. CASE Recheck
    BY <2>2 DEF Recheck, Prerequisite
  <2>3. CASE WaitGui
    BY <2>3 DEF WaitGui
  <2>4. CASE Validate
    BY <2>4 DEF Validate
  <2>5. CASE CheckTarget
    BY <2>5 DEF CheckTarget
  <2>6. CASE Mark
    BY <2>6 DEF Mark
  <2>7. CASE StopTarget
    BY <2>7 DEF StopTarget
  <2>8. CASE StopUnits
    BY <2>8 DEF StopUnits
  <2>9. CASE Pgrep
    BY <2>9 DEF Pgrep
  <2>10. CASE RecordRunning
    BY <2>10 DEF RecordRunning
  <2>11. CASE LaunchChild
    BY <2>11 DEF LaunchChild
  <2>12. CASE Judge
    BY <2>12 DEF Judge
  <2> QED BY <1>3, <2>1, <2>2, <2>3, <2>4, <2>5, <2>6, <2>7, <2>8, <2>9, <2>10, <2>11, <2>12
<1>4. CASE StopPost \/ UnitEnds \/ CallRestore \/ Leave \/ ChildEnds \/ ChildStopPost \/ NativeEnds \/ NativeGivesBack
  <2>1. CASE StopPost
    BY <2>1 DEF StopPost
  <2>2. CASE UnitEnds
    BY <2>2 DEF UnitEnds
  <2>3. CASE CallRestore
    BY <2>3 DEF CallRestore
  <2>4. CASE Leave
    BY <2>4 DEF Leave
  <2>5. CASE ChildEnds
    BY <2>5 DEF ChildEnds
  <2>6. CASE ChildStopPost
    BY <2>6 DEF ChildStopPost
  <2>7. CASE NativeEnds
    BY <2>7 DEF NativeEnds
  <2>8. CASE NativeGivesBack
    BY <2>8 DEF NativeGivesBack
  <2> QED BY <1>4, <2>1, <2>2, <2>3, <2>4, <2>5, <2>6, <2>7, <2>8
<1>5. CASE NativeAgain \/ Tamper \/ Fails \/ Reboot
  <2>1. CASE NativeAgain
    BY <2>1 DEF NativeAgain, Fault, HasStack
  <2>2. CASE Tamper
    BY <2>2 DEF Tamper, Fault
  <2>3. CASE Fails
    BY <2>3 DEF Fails, Fault
  <2>4. CASE Reboot
    BY <2>4 DEF Reboot, Fault
  <2> QED BY <1>5, <2>1, <2>2, <2>3, <2>4
<1>6. CASE \E p \in Processes : Kill(p)
  BY <1>6 DEF Kill, Fault, Alive
<1>7. CASE UNCHANGED vars
  BY <1>7 DEF vars
<1>8. {"run", "post", "op"} \subseteq Processes
  BY DEF Processes
<1> QED
  BY <1>1, <1>2, <1>3, <1>4, <1>5, <1>6, <1>7, <1>8 DEF Next, Run, Unit, Operator, Tests, Faults

(* While a prerequisite that was launched into nothing runs, nobody gets    *)
(* to a step at which the stack may be moved: the look finds it down, and   *)
(* no restore finds a pause.                                                *)
LEMMA StepSpared ==
  ASSUME TypeOK, Order, Spared, [Next]_vars
  PROVE  Spared'
<1> USE DEF Spared, HasStack, Order, TypeOK, Processes, Waiting, Trying, Restoring, Phases, At, Goto, prereq, test, marker, bounds
<1>1. CASE Launch
  BY <1>1 DEF Launch, Fresh
<1>2. CASE \E p \in Processes : Restore(p)
  <2> SUFFICES ASSUME NEW p \in Processes, Restore(p) PROVE Spared'
    BY <1>2
  <2>1. CASE Read(p)
    BY <2>1 DEF Read
  <2>2. CASE Revalidate(p)
    BY <2>2 DEF Revalidate
  <2>3. CASE Look(p)
    BY <2>3 DEF Look
  <2>4. CASE StopChild(p)
    BY <2>4 DEF StopChild
  <2>5. CASE ChildStopped(p)
    BY <2>5 DEF ChildStopped
  <2>6. CASE StartTarget(p)
    BY <2>6 DEF StartTarget
  <2>7. CASE Save(p)
    BY <2>7 DEF Save
  <2> QED BY <2>1, <2>2, <2>3, <2>4, <2>5, <2>6, <2>7 DEF Restore
<1>3. CASE WaitNative \/ Recheck \/ WaitGui \/ Validate \/ CheckTarget \/ Mark \/ StopTarget \/ StopUnits \/ Pgrep \/ RecordRunning \/ LaunchChild \/ Judge
  <2>1. CASE WaitNative
    BY <2>1 DEF WaitNative, Prerequisite
  <2>2. CASE Recheck
    BY <2>2 DEF Recheck, Prerequisite
  <2>3. CASE WaitGui
    BY <2>3 DEF WaitGui
  <2>4. CASE Validate
    BY <2>4 DEF Validate
  <2>5. CASE CheckTarget
    BY <2>5 DEF CheckTarget
  <2>6. CASE Mark
    BY <2>6 DEF Mark
  <2>7. CASE StopTarget
    BY <2>7 DEF StopTarget
  <2>8. CASE StopUnits
    BY <2>8 DEF StopUnits
  <2>9. CASE Pgrep
    BY <2>9 DEF Pgrep
  <2>10. CASE RecordRunning
    BY <2>10 DEF RecordRunning
  <2>11. CASE LaunchChild
    BY <2>11 DEF LaunchChild
  <2>12. CASE Judge
    BY <2>12 DEF Judge
  <2> QED BY <1>3, <2>1, <2>2, <2>3, <2>4, <2>5, <2>6, <2>7, <2>8, <2>9, <2>10, <2>11, <2>12
<1>4. CASE StopPost \/ UnitEnds \/ CallRestore \/ Leave \/ ChildEnds \/ ChildStopPost \/ NativeEnds \/ NativeGivesBack
  <2>1. CASE StopPost
    BY <2>1 DEF StopPost
  <2>2. CASE UnitEnds
    BY <2>2 DEF UnitEnds
  <2>3. CASE CallRestore
    BY <2>3 DEF CallRestore
  <2>4. CASE Leave
    BY <2>4 DEF Leave
  <2>5. CASE ChildEnds
    BY <2>5 DEF ChildEnds
  <2>6. CASE ChildStopPost
    BY <2>6 DEF ChildStopPost
  <2>7. CASE NativeEnds
    BY <2>7 DEF NativeEnds
  <2>8. CASE NativeGivesBack
    BY <2>8 DEF NativeGivesBack
  <2> QED BY <1>4, <2>1, <2>2, <2>3, <2>4, <2>5, <2>6, <2>7, <2>8
<1>5. CASE NativeAgain \/ Tamper \/ Fails \/ Reboot
  <2>1. CASE NativeAgain
    BY <2>1 DEF NativeAgain, Fault
  <2>2. CASE Tamper
    BY <2>2 DEF Tamper, Fault
  <2>3. CASE Fails
    BY <2>3 DEF Fails, Fault
  <2>4. CASE Reboot
    BY <2>4 DEF Reboot, Fault
  <2> QED BY <1>5, <2>1, <2>2, <2>3, <2>4
<1>6. CASE \E p \in Processes : Kill(p)
  BY <1>6 DEF Kill, Fault, Alive
<1>7. CASE UNCHANGED vars
  BY <1>7 DEF vars
<1>8. {"run", "post", "op"} \subseteq Processes
  BY DEF Processes
<1> QED
  BY <1>1, <1>2, <1>3, <1>4, <1>5, <1>6, <1>7, <1>8 DEF Next, Run, Unit, Operator, Tests, Faults

(* The marker keeps saying where the supervisor is: a restore by the       *)
(* operator that began before cannot be at work beside it.                  *)
LEMMA StepRecorded ==
  ASSUME TypeOK, Order, ~meddled => Undisturbed, ~meddled', [Next]_vars
  PROVE  Recorded'
<1> USE DEF Undisturbed, Recorded, Order, TypeOK, Processes, Waiting, Trying, Restoring, Phases, At, Goto, prereq, test, marker, bounds
<1>1. CASE Launch
  BY <1>1 DEF Launch, Fresh
<1>2. CASE \E p \in Processes : Restore(p)
  <2> SUFFICES ASSUME NEW p \in Processes, Restore(p) PROVE Recorded'
    BY <1>2
  <2>1. CASE Read(p)
    BY <2>1 DEF Read
  <2>2. CASE Revalidate(p)
    BY <2>2 DEF Revalidate
  <2>3. CASE Look(p)
    BY <2>3 DEF Look
  <2>4. CASE StopChild(p)
    BY <2>4 DEF StopChild
  <2>5. CASE ChildStopped(p)
    BY <2>5 DEF ChildStopped
  <2>6. CASE StartTarget(p)
    BY <2>6 DEF StartTarget
  <2>7. CASE Save(p)
    BY <2>7 DEF Save
  <2> QED BY <2>1, <2>2, <2>3, <2>4, <2>5, <2>6, <2>7 DEF Restore
<1>3. CASE WaitNative \/ Recheck \/ WaitGui \/ Validate \/ CheckTarget \/ Mark \/ StopTarget \/ StopUnits \/ Pgrep \/ RecordRunning \/ LaunchChild \/ Judge
  <2>1. CASE WaitNative
    BY <2>1 DEF WaitNative, Prerequisite
  <2>2. CASE Recheck
    BY <2>2 DEF Recheck, Prerequisite
  <2>3. CASE WaitGui
    BY <2>3 DEF WaitGui
  <2>4. CASE Validate
    BY <2>4 DEF Validate
  <2>5. CASE CheckTarget
    BY <2>5 DEF CheckTarget
  <2>6. CASE Mark
    BY <2>6 DEF Mark
  <2>7. CASE StopTarget
    BY <2>7 DEF StopTarget
  <2>8. CASE StopUnits
    BY <2>8 DEF StopUnits
  <2>9. CASE Pgrep
    BY <2>9 DEF Pgrep
  <2>10. CASE RecordRunning
    BY <2>10 DEF RecordRunning
  <2>11. CASE LaunchChild
    BY <2>11 DEF LaunchChild
  <2>12. CASE Judge
    BY <2>12 DEF Judge
  <2> QED BY <1>3, <2>1, <2>2, <2>3, <2>4, <2>5, <2>6, <2>7, <2>8, <2>9, <2>10, <2>11, <2>12
<1>4. CASE StopPost \/ UnitEnds \/ CallRestore \/ Leave \/ ChildEnds \/ ChildStopPost \/ NativeEnds \/ NativeGivesBack
  <2>1. CASE StopPost
    BY <2>1 DEF StopPost
  <2>2. CASE UnitEnds
    BY <2>2 DEF UnitEnds
  <2>3. CASE CallRestore
    BY <2>3 DEF CallRestore
  <2>4. CASE Leave
    BY <2>4 DEF Leave
  <2>5. CASE ChildEnds
    BY <2>5 DEF ChildEnds
  <2>6. CASE ChildStopPost
    BY <2>6 DEF ChildStopPost
  <2>7. CASE NativeEnds
    BY <2>7 DEF NativeEnds
  <2>8. CASE NativeGivesBack
    BY <2>8 DEF NativeGivesBack
  <2> QED BY <1>4, <2>1, <2>2, <2>3, <2>4, <2>5, <2>6, <2>7, <2>8
<1>5. CASE NativeAgain \/ Tamper \/ Fails \/ Reboot
  <2>1. CASE NativeAgain
    BY <2>1 DEF NativeAgain, Fault, HasStack
  <2>2. CASE Tamper
    BY <2>2 DEF Tamper, Fault
  <2>3. CASE Fails
    BY <2>3 DEF Fails, Fault
  <2>4. CASE Reboot
    BY <2>4 DEF Reboot, Fault
  <2> QED BY <1>5, <2>1, <2>2, <2>3, <2>4
<1>6. CASE \E p \in Processes : Kill(p)
  BY <1>6 DEF Kill, Fault, Alive
<1>7. CASE UNCHANGED vars
  BY <1>7 DEF vars
<1>8. {"run", "post", "op"} \subseteq Processes
  BY DEF Processes
<1> QED
  BY <1>1, <1>2, <1>3, <1>4, <1>5, <1>6, <1>7, <1>8 DEF Next, Run, Unit, Operator, Tests, Faults

(* The stack keeps its holder. *)
LEMMA StepHolder ==
  ASSUME TypeOK, Order, ~meddled => Undisturbed, ~meddled', [Next]_vars
  PROVE  Holder'
<1> USE DEF Undisturbed, Recorded, Holder, Alone, Order, TypeOK, Processes, Waiting, Trying, Restoring, At, Goto, prereq, test, marker, bounds
<1>1. CASE Launch
  BY <1>1 DEF Launch, Fresh
<1>2. CASE \E p \in Processes : Restore(p)
  <2> SUFFICES ASSUME NEW p \in Processes, Restore(p) PROVE Holder'
    BY <1>2
  <2>1. CASE Read(p)
    BY <2>1 DEF Read
  <2>2. CASE Revalidate(p)
    BY <2>2 DEF Revalidate
  <2>3. CASE Look(p)
    BY <2>3 DEF Look
  <2>4. CASE StopChild(p)
    BY <2>4 DEF StopChild
  <2>5. CASE ChildStopped(p)
    BY <2>5 DEF ChildStopped
  <2>6. CASE StartTarget(p)
    BY <2>6 DEF StartTarget
  <2>7. CASE Save(p)
    BY <2>7 DEF Save
  <2> QED BY <2>1, <2>2, <2>3, <2>4, <2>5, <2>6, <2>7 DEF Restore
<1>3. CASE WaitNative \/ Recheck \/ WaitGui \/ Validate \/ CheckTarget \/ Mark \/ StopTarget \/ StopUnits \/ Pgrep \/ RecordRunning \/ LaunchChild \/ Judge
  <2>1. CASE WaitNative
    BY <2>1 DEF WaitNative, Prerequisite
  <2>2. CASE Recheck
    BY <2>2 DEF Recheck, Prerequisite
  <2>3. CASE WaitGui
    BY <2>3 DEF WaitGui
  <2>4. CASE Validate
    BY <2>4 DEF Validate
  <2>5. CASE CheckTarget
    BY <2>5 DEF CheckTarget
  <2>6. CASE Mark
    BY <2>6 DEF Mark
  <2>7. CASE StopTarget
    BY <2>7 DEF StopTarget
  <2>8. CASE StopUnits
    BY <2>8 DEF StopUnits
  <2>9. CASE Pgrep
    BY <2>9 DEF Pgrep
  <2>10. CASE RecordRunning
    BY <2>10 DEF RecordRunning
  <2>11. CASE LaunchChild
    BY <2>11 DEF LaunchChild
  <2>12. CASE Judge
    BY <2>12 DEF Judge
  <2> QED BY <1>3, <2>1, <2>2, <2>3, <2>4, <2>5, <2>6, <2>7, <2>8, <2>9, <2>10, <2>11, <2>12
<1>4. CASE StopPost \/ UnitEnds \/ CallRestore \/ Leave \/ ChildEnds \/ ChildStopPost \/ NativeEnds \/ NativeGivesBack
  <2>1. CASE StopPost
    BY <2>1 DEF StopPost
  <2>2. CASE UnitEnds
    BY <2>2 DEF UnitEnds
  <2>3. CASE CallRestore
    BY <2>3 DEF CallRestore
  <2>4. CASE Leave
    BY <2>4 DEF Leave
  <2>5. CASE ChildEnds
    BY <2>5 DEF ChildEnds
  <2>6. CASE ChildStopPost
    BY <2>6 DEF ChildStopPost
  <2>7. CASE NativeEnds
    BY <2>7 DEF NativeEnds
  <2>8. CASE NativeGivesBack
    BY <2>8 DEF NativeGivesBack
  <2> QED BY <1>4, <2>1, <2>2, <2>3, <2>4, <2>5, <2>6, <2>7, <2>8
<1>5. CASE NativeAgain \/ Tamper \/ Fails \/ Reboot
  <2>1. CASE NativeAgain
    BY <2>1 DEF NativeAgain, Fault, HasStack
  <2>2. CASE Tamper
    BY <2>2 DEF Tamper, Fault
  <2>3. CASE Fails
    BY <2>3 DEF Fails, Fault
  <2>4. CASE Reboot
    BY <2>4 DEF Reboot, Fault
  <2> QED BY <1>5, <2>1, <2>2, <2>3, <2>4
<1>6. CASE \E p \in Processes : Kill(p)
  BY <1>6 DEF Kill, Fault, Alive
<1>7. CASE UNCHANGED vars
  BY <1>7 DEF vars
<1>8. {"run", "post", "op"} \subseteq Processes
  BY DEF Processes
<1> QED
  BY <1>1, <1>2, <1>3, <1>4, <1>5, <1>6, <1>7, <1>8 DEF Next, Run, Unit, Operator, Tests, Faults

(* Nothing comes up beside the test unit. *)
LEMMA StepAlone ==
  ASSUME TypeOK, Order, ~meddled => Undisturbed, ~meddled', [Next]_vars
  PROVE  Alone'
<1> USE DEF Undisturbed, Recorded, Holder, Alone, Order, TypeOK, Processes, Waiting, Trying, Restoring, At, Goto, prereq, test, marker, bounds
<1>1. CASE Launch
  BY <1>1 DEF Launch, Fresh
<1>2. CASE \E p \in Processes : Restore(p)
  <2> SUFFICES ASSUME NEW p \in Processes, Restore(p) PROVE Alone'
    BY <1>2
  <2>1. CASE Read(p)
    BY <2>1 DEF Read
  <2>2. CASE Revalidate(p)
    BY <2>2 DEF Revalidate
  <2>3. CASE Look(p)
    BY <2>3 DEF Look
  <2>4. CASE StopChild(p)
    BY <2>4 DEF StopChild
  <2>5. CASE ChildStopped(p)
    BY <2>5 DEF ChildStopped
  <2>6. CASE StartTarget(p)
    BY <2>6 DEF StartTarget
  <2>7. CASE Save(p)
    BY <2>7 DEF Save
  <2> QED BY <2>1, <2>2, <2>3, <2>4, <2>5, <2>6, <2>7 DEF Restore
<1>3. CASE WaitNative \/ Recheck \/ WaitGui \/ Validate \/ CheckTarget \/ Mark \/ StopTarget \/ StopUnits \/ Pgrep \/ RecordRunning \/ LaunchChild \/ Judge
  <2>1. CASE WaitNative
    BY <2>1 DEF WaitNative, Prerequisite
  <2>2. CASE Recheck
    BY <2>2 DEF Recheck, Prerequisite
  <2>3. CASE WaitGui
    BY <2>3 DEF WaitGui
  <2>4. CASE Validate
    BY <2>4 DEF Validate
  <2>5. CASE CheckTarget
    BY <2>5 DEF CheckTarget
  <2>6. CASE Mark
    BY <2>6 DEF Mark
  <2>7. CASE StopTarget
    BY <2>7 DEF StopTarget
  <2>8. CASE StopUnits
    BY <2>8 DEF StopUnits
  <2>9. CASE Pgrep
    BY <2>9 DEF Pgrep
  <2>10. CASE RecordRunning
    BY <2>10 DEF RecordRunning
  <2>11. CASE LaunchChild
    BY <2>11 DEF LaunchChild
  <2>12. CASE Judge
    BY <2>12 DEF Judge
  <2> QED BY <1>3, <2>1, <2>2, <2>3, <2>4, <2>5, <2>6, <2>7, <2>8, <2>9, <2>10, <2>11, <2>12
<1>4. CASE StopPost \/ UnitEnds \/ CallRestore \/ Leave \/ ChildEnds \/ ChildStopPost \/ NativeEnds \/ NativeGivesBack
  <2>1. CASE StopPost
    BY <2>1 DEF StopPost
  <2>2. CASE UnitEnds
    BY <2>2 DEF UnitEnds
  <2>3. CASE CallRestore
    BY <2>3 DEF CallRestore
  <2>4. CASE Leave
    BY <2>4 DEF Leave
  <2>5. CASE ChildEnds
    BY <2>5 DEF ChildEnds
  <2>6. CASE ChildStopPost
    BY <2>6 DEF ChildStopPost
  <2>7. CASE NativeEnds
    BY <2>7 DEF NativeEnds
  <2>8. CASE NativeGivesBack
    BY <2>8 DEF NativeGivesBack
  <2> QED BY <1>4, <2>1, <2>2, <2>3, <2>4, <2>5, <2>6, <2>7, <2>8
<1>5. CASE NativeAgain \/ Tamper \/ Fails \/ Reboot
  <2>1. CASE NativeAgain
    BY <2>1 DEF NativeAgain, Fault, HasStack
  <2>2. CASE Tamper
    BY <2>2 DEF Tamper, Fault
  <2>3. CASE Fails
    BY <2>3 DEF Fails, Fault
  <2>4. CASE Reboot
    BY <2>4 DEF Reboot, Fault
  <2> QED BY <1>5, <2>1, <2>2, <2>3, <2>4
<1>6. CASE \E p \in Processes : Kill(p)
  BY <1>6 DEF Kill, Fault, Alive
<1>7. CASE UNCHANGED vars
  BY <1>7 DEF vars
<1>8. {"run", "post", "op"} \subseteq Processes
  BY DEF Processes
<1> QED
  BY <1>1, <1>2, <1>3, <1>4, <1>5, <1>6, <1>7, <1>8 DEF Next, Run, Unit, Operator, Tests, Faults

(* The initial states satisfy the invariant. *)
LEMMA InitIInv ==
  ASSUME Init
  PROVE  IInv
<1> USE DEF Init, Processes, Waiting, Trying, Restoring, Phases
<1>1. TypeOK
  <2>1. runs \in 0..MaxRuns /\ faults \in 0..MaxFaults
    BY BoundAssumption
  <2>2. pc \in [Processes -> Waiting \cup Trying \cup Restoring \cup {"idle", "read", "over"}]
    OBVIOUS
  <2>3. copy \in [Processes -> Phases]
    OBVIOUS
  <2> QED BY <2>1, <2>2, <2>3 DEF TypeOK
<1>2. Order
  BY DEF Order
<1>3. Recorded /\ Holder /\ Alone
  BY DEF Recorded, Holder, Alone
<1>4. Spared
  BY DEF Spared, HasStack, Trying, Restoring, Processes
<1> QED BY <1>1, <1>2, <1>3, <1>4 DEF IInv, Undisturbed

(* Once meddled, always meddled. *)
LEMMA MeddledStays ==
  ASSUME TypeOK, [Next]_vars, ~meddled'
  PROVE  ~meddled
<1>1. CASE \E p \in Processes : Restore(p)
  BY <1>1 DEF Restore, Read, Revalidate, Look, StopChild, ChildStopped, StartTarget, Save
<1>2. CASE Launch \/ Unit \/ Operator \/ Tests \/ Faults
  BY <1>1, <1>2 DEF Launch, Unit, Operator, Tests, Faults, StopPost, UnitEnds, CallRestore, Leave,
     ChildEnds, ChildStopPost, NativeEnds, NativeGivesBack, NativeAgain, Tamper, Kill, Fails, Reboot,
     Processes
<1>3. CASE Run
  BY <1>1, <1>3 DEF Run, WaitNative, Recheck, WaitGui, Validate, CheckTarget, Mark, StopTarget,
     StopUnits, Pgrep, RecordRunning, LaunchChild, Judge, Processes
<1>4. CASE UNCHANGED vars
  BY <1>4 DEF vars
<1> QED BY <1>2, <1>3, <1>4 DEF Next

(* The inductive invariant survives every step. *)
LEMMA StepIInv ==
  ASSUME IInv, [Next]_vars
  PROVE  IInv'
<1>1. TypeOK' /\ Order' /\ Spared'
  BY StepTyped, StepOrder, StepSpared DEF IInv
<1>2. ASSUME ~meddled' PROVE Undisturbed'
  BY <1>2, StepRecorded, StepHolder, StepAlone DEF IInv, Undisturbed
<1> QED BY <1>1, <1>2 DEF IInv

(* The inductive invariant holds always. *)
THEOREM InductiveInvariant == Spec => []IInv
<1>1. Init => IInv
  BY InitIInv
<1>2. IInv /\ [Next]_vars => IInv'
  BY StepIInv
<1> QED BY <1>1, <1>2, PTL DEF Spec

(* Every variable keeps its type. *)
THEOREM TypeCorrect == Spec => []TypeOK
<1>1. IInv => TypeOK
  BY DEF IInv
<1> QED BY <1>1, InductiveInvariant, PTL

(* A stack that is down and not for the prerequisite is marked as paused,   *)
(* whoever died and however many restores ran beside each other.            *)
THEOREM DownIsMarked == Spec => []PauseIsMarked
<1>1. IInv => PauseIsMarked
  BY DEF IInv, Undisturbed, Holder, PauseIsMarked
<1> QED BY <1>1, InductiveInvariant, PTL

(* No unit of the stack runs beside the combined test.                      *)
THEOREM TestRunsAlone == Spec => []ChildAlone
<1>1. IInv => ChildAlone
  BY DEF IInv, Undisturbed, Alone, ChildAlone
<1> QED BY <1>1, InductiveInvariant, PTL

(* Neither the stack nor the combined test comes up beside a prerequisite   *)
(* that was not launched between the last look at the stack and the end of  *)
(* the last restore, whatever else was done to the sequence.                *)
THEOREM PrerequisiteIsLeftAlone == Spec => []PrerequisiteUndisturbed
<1>1. IInv => PrerequisiteUndisturbed
  BY DEF IInv, Spared, HasStack, PrerequisiteUndisturbed
<1> QED BY <1>1, InductiveInvariant, PTL

(* Every phase has its rank. *)
LEMMA Ranked ==
  ASSUME NEW name \in Phases
  PROVE  Rank(name) \in 0..5 /\ (name = "none" => Rank(name) = 0)
  BY DEF Phases, Rank

(* A step that is not meddling takes the marker forward or leaves it. *)
LEMMA StepForward ==
  ASSUME TypeOK, Order, Undisturbed, [Next]_vars
  PROVE  phase' = phase \/ phase = "none" \/ Rank(phase') >= Rank(phase)
<1> USE DEF Recorded, Undisturbed, TypeOK, Processes, Waiting, Trying, Restoring, At, Goto, prereq, test, marker, bounds
<1>1. CASE Launch
  BY <1>1 DEF Launch, Fresh
<1>2. CASE \E p \in Processes : Restore(p)
  <2> SUFFICES ASSUME NEW p \in Processes, Restore(p) PROVE phase' = phase \/ phase = "none" \/ Rank(phase') >= Rank(phase)
    BY <1>2
  <2>1. CASE Read(p)
    BY <2>1 DEF Read
  <2>2. CASE Revalidate(p)
    BY <2>2 DEF Revalidate
  <2>3. CASE Look(p)
    BY <2>3 DEF Look
  <2>4. CASE StopChild(p)
    BY <2>4 DEF StopChild
  <2>5. CASE ChildStopped(p)
    BY <2>5 DEF ChildStopped
  <2>6. CASE StartTarget(p)
    BY <2>6 DEF StartTarget
  <2>7. CASE Save(p)
    BY <2>7 DEF Save
  <2> QED BY <2>1, <2>2, <2>3, <2>4, <2>5, <2>6, <2>7 DEF Restore
<1>3. CASE WaitNative \/ Recheck \/ WaitGui \/ Validate \/ CheckTarget \/ Mark \/ StopTarget \/ StopUnits \/ Pgrep \/ RecordRunning \/ LaunchChild \/ Judge
  <2>1. CASE WaitNative
    BY <2>1 DEF WaitNative, Prerequisite
  <2>2. CASE Recheck
    BY <2>2 DEF Recheck, Prerequisite, Rank
  <2>3. CASE WaitGui
    BY <2>3 DEF WaitGui
  <2>4. CASE Validate
    BY <2>4 DEF Validate
  <2>5. CASE CheckTarget
    BY <2>5 DEF CheckTarget
  <2>6. CASE Mark
    BY <2>6 DEF Mark, Rank
  <2>7. CASE StopTarget
    BY <2>7 DEF StopTarget
  <2>8. CASE StopUnits
    BY <2>8 DEF StopUnits
  <2>9. CASE Pgrep
    BY <2>9 DEF Pgrep
  <2>10. CASE RecordRunning
    BY <2>10 DEF RecordRunning, Rank
  <2>11. CASE LaunchChild
    BY <2>11 DEF LaunchChild
  <2>12. CASE Judge
    <3>1. phase = "combined-running"
      BY <2>12 DEF Judge
    <3>2. phase' = "combined-passed" \/ phase' = phase
      BY <2>12 DEF Judge
    <3>3. Rank("combined-running") = 4 /\ Rank("combined-passed") = 5
      BY <2>12 DEF Rank
    <3> QED BY <3>1, <3>2, <3>3
  <2> QED BY <1>3, <2>1, <2>2, <2>3, <2>4, <2>5, <2>6, <2>7, <2>8, <2>9, <2>10, <2>11, <2>12
<1>4. CASE StopPost \/ UnitEnds \/ CallRestore \/ Leave \/ ChildEnds \/ ChildStopPost \/ NativeEnds \/ NativeGivesBack
  <2>1. CASE StopPost
    BY <2>1 DEF StopPost
  <2>2. CASE UnitEnds
    BY <2>2 DEF UnitEnds
  <2>3. CASE CallRestore
    BY <2>3 DEF CallRestore
  <2>4. CASE Leave
    BY <2>4 DEF Leave
  <2>5. CASE ChildEnds
    BY <2>5 DEF ChildEnds
  <2>6. CASE ChildStopPost
    BY <2>6 DEF ChildStopPost
  <2>7. CASE NativeEnds
    BY <2>7 DEF NativeEnds
  <2>8. CASE NativeGivesBack
    BY <2>8 DEF NativeGivesBack
  <2> QED BY <1>4, <2>1, <2>2, <2>3, <2>4, <2>5, <2>6, <2>7, <2>8
<1>5. CASE NativeAgain \/ Tamper \/ Fails \/ Reboot
  <2>1. CASE NativeAgain
    BY <2>1 DEF NativeAgain, Fault, HasStack
  <2>2. CASE Tamper
    BY <2>2 DEF Tamper, Fault
  <2>3. CASE Fails
    BY <2>3 DEF Fails, Fault
  <2>4. CASE Reboot
    BY <2>4 DEF Reboot, Fault
  <2> QED BY <1>5, <2>1, <2>2, <2>3, <2>4
<1>6. CASE \E p \in Processes : Kill(p)
  BY <1>6 DEF Kill, Fault, Alive
<1>7. CASE UNCHANGED vars
  BY <1>7 DEF vars
<1>8. {"run", "post", "op"} \subseteq Processes
  BY DEF Processes
<1> QED
  BY <1>1, <1>2, <1>3, <1>4, <1>5, <1>6, <1>7, <1>8 DEF Next, Run, Unit, Operator, Tests, Faults

(* The marker's account of the sequence never goes back.                    *)
THEOREM MarkerAdvances == Spec => MarkerNeverGoesBack
<1>1. ASSUME IInv, [Next]_vars
      PROVE  [Rank(phase') >= Rank(phase) \/ meddled']_vars
  <2>1. CASE meddled'
    BY <2>1
  <2>2. CASE ~meddled'
    <3>1. Undisturbed /\ TypeOK /\ Order /\ TypeOK'
      BY <1>1, <2>2, MeddledStays, StepTyped DEF IInv
    <3>2. Rank(phase) \in 0..5 /\ Rank(phase') \in 0..5 /\ (phase = "none" => Rank(phase) = 0)
      BY <3>1, Ranked DEF TypeOK
    <3>3. phase' = phase \/ phase = "none" \/ Rank(phase') >= Rank(phase)
      BY <1>1, <3>1, StepForward
    <3> QED BY <3>2, <3>3
  <2> QED BY <2>1, <2>2
<1> QED BY <1>1, InductiveInvariant, PTL DEF Spec, MarkerNeverGoesBack

(* What is inside is what the three of them do, and nothing else.           *)
LEMMA InsideIs ==
  /\ ("stack" \in Inside <=> stack # "down") /\ ("native" \in Inside <=> native = "running")
  /\ ("combined" \in Inside <=> child = "active")
  /\ Inside \subseteq {"stack", "native", "combined"}
BY DEF Inside

(* It changes with one of them only.                                        *)
LEMMA InsideSame ==
  ASSUME (stack' # "down") <=> (stack # "down"), (native' = "running") <=> (native = "running"),
         (child' = "active") <=> (child = "active")
  PROVE  Inside' = Inside
BY DEF Inside

(* A step that leaves stack, tests and loans alone is none of StackLoan.    *)
LEMMA Elsewhere ==
  ASSUME UNCHANGED <<stack, native, held, child, paused, meddled>>
  PROVE  UNCHANGED Loan!vars
BY InsideSame DEF Borrower, Loan!vars

(* Where nobody has meddled, one of the three is inside, and a borrower     *)
(* only while it has the stack.                                             *)
OneInside ==
  /\ stack # "down" => Inside = {"stack"} /\ ~held
  /\ native = "running" => Inside = {"native"} /\ Borrower = "native"
  /\ child = "active" => Inside = {"combined"} /\ Borrower = "combined"
  /\ stack = "down" /\ native # "running" /\ child # "active" =>
       Inside = {} /\ Borrower \in {"native", "combined"}
  /\ stack = "up" /\ ~paused => Borrower = "nobody"
  /\ paused => Borrower = "combined" /\ ~held /\ native # "running"
  /\ held => Borrower = "native" /\ ~paused

(* The inductive invariant makes it so.                                     *)
LEMMA InsideByOne == TypeOK /\ Order /\ Undisturbed => OneInside
<1> SUFFICES ASSUME TypeOK, Order, Undisturbed PROVE OneInside
  OBVIOUS
<1> USE DEF TypeOK, Order, Undisturbed, Holder, Alone, Borrower, OneInside
<1>1. stack # "down" => native # "running" /\ child # "active" /\ ~held
  OBVIOUS
<1>2. native = "running" => child # "active" /\ ~paused /\ held
  OBVIOUS
<1>3. stack = "down" => paused \/ held
  OBVIOUS
<1>4. child = "active" => paused
  OBVIOUS
<1>5. /\ stack # "down" => Inside = {"stack"}
      /\ native = "running" => Inside = {"native"}
      /\ child = "active" => Inside = {"combined"}
      /\ stack = "down" /\ native # "running" /\ child # "active" => Inside = {}
  BY <1>1, <1>2, InsideIs
<1> QED BY <1>1, <1>2, <1>3, <1>4, <1>5

(* A step of any of the actors is a step of StackLoan or none.              *)
LEMMA StepLoan ==
  ASSUME IInv, IInv', [Next]_vars
  PROVE  [Loan!Next]_Loan!vars
<1>1. CASE meddled'
  BY <1>1 DEF Loan!Next, Loan!Excuse
<1> SUFFICES ASSUME ~meddled' PROVE [Loan!Next]_Loan!vars
  BY <1>1
<1>0. ~meddled /\ TypeOK /\ Order /\ Undisturbed /\ TypeOK' /\ Order' /\ Undisturbed'
  BY MeddledStays DEF IInv
<1>u. UNCHANGED meddled
  BY <1>0 DEF TypeOK
<1>o. OneInside
  BY <1>0, InsideByOne
<1>n. OneInside'
  BY <1>0, InsideByOne, PTL
<1> USE <1>0, <1>u, <1>o, <1>n DEF OneInside, At, Goto, prereq, test, marker, bounds
<1>2. CASE WaitNative \/ Recheck \/ WaitGui \/ Validate \/ CheckTarget \/ Pgrep
  BY <1>2, Elsewhere DEF WaitNative, Recheck, WaitGui, Validate, CheckTarget, Pgrep
<1>3. CASE Mark
  BY <1>3 DEF Mark, Undisturbed, Recorded, Holder, Waiting, TypeOK, Loan!Next, Loan!Lend
<1>4. CASE StopTarget
  <2>1. (stack' # "down") <=> (stack # "down")
    BY <1>4 DEF StopTarget
  <2>2. UNCHANGED <<native, held, child, paused, Borrower>>
    BY <1>4 DEF StopTarget, Borrower
  <2> QED BY <2>1, <2>2, InsideSame DEF Loan!vars
<1>5. CASE StopUnits
  <2>1. paused /\ child = "none" /\ native # "running" /\ UNCHANGED <<Borrower, paused, held, native, child>>
    BY <1>5 DEF StopUnits, Undisturbed, Recorded, Trying, Order, Borrower
  <2>2. CASE stack = "down"
    BY <1>5, <2>1, <2>2, Elsewhere DEF StopUnits
  <2>3. CASE stack # "down"
    BY <1>5, <2>1, <2>3 DEF StopUnits, Loan!Next, Loan!Leave
  <2> QED BY <2>2, <2>3
<1>6. CASE RecordRunning
  <2>1. paused /\ paused'
    BY <1>6 DEF RecordRunning, Undisturbed, Recorded, Trying
  <2> QED BY <1>6, <2>1, Elsewhere DEF RecordRunning, TypeOK
<1>7. CASE LaunchChild
  <2>1. paused /\ stack = "down" /\ UNCHANGED <<Borrower, stack, native, held, paused>>
    BY <1>7 DEF LaunchChild, Undisturbed, Recorded, Alone, Trying, Borrower
  <2>2. CASE child = "none"
    BY <1>7, <2>1, <2>2 DEF LaunchChild, Loan!Next, Loan!Enter
  <2>3. CASE child # "none"
    BY <1>7, <2>1, <2>3, Elsewhere DEF LaunchChild
  <2> QED BY <2>2, <2>3
<1>8. CASE Judge
  <2>1. paused
    BY <1>8 DEF Judge, Undisturbed, Recorded, Trying
  <2>2. paused' = paused /\ UNCHANGED <<stack, native, held, child>>
    BY <1>8, <2>1 DEF Judge, TypeOK
  <2> QED BY <2>2, Elsewhere
<1>9. CASE \E p \in Processes : Restore(p)
  <2> SUFFICES ASSUME NEW p \in Processes, Restore(p) PROVE [Loan!Next]_Loan!vars
    BY <1>9
  <2>1. CASE Read(p) \/ Revalidate(p) \/ Look(p) \/ ChildStopped(p)
    BY <2>1, Elsewhere DEF Read, Revalidate, Look, ChildStopped
  <2>2. CASE StopChild(p)
    <3>1. UNCHANGED <<stack, native, held, paused, Borrower>>
      BY <2>2 DEF StopChild, Borrower
    <3>2. CASE child = "active"
      <4>1. child' = "ending"
        BY <2>2, <3>2 DEF StopChild
      <4>2. stack = "down" /\ native # "running"
        BY <3>2 DEF Undisturbed, Alone, Holder, Order
      <4> QED BY <3>1, <3>2, <4>1, <4>2 DEF Loan!Next, Loan!Exit
    <3>3. CASE child # "active"
      BY <2>2, <3>1, <3>3, Elsewhere DEF StopChild
    <3> QED BY <3>2, <3>3
  <2>3. CASE StartTarget(p)
    <3>1. ~held /\ native # "running" /\ child # "active" /\ (stack # "up" => paused)
      BY <2>3 DEF StartTarget, Undisturbed, Alone, Holder, Order, Restoring
    <3>2. stack' = "up" /\ UNCHANGED <<native, held, child, paused, Borrower>>
      BY <2>3 DEF StartTarget, Borrower
    <3>3. CASE stack = "down"
      BY <3>1, <3>2, <3>3 DEF Loan!Next, Loan!Return, Loan!Back
    <3>4. CASE stack # "down"
      BY <3>2, <3>4, InsideSame DEF Loan!vars
    <3> QED BY <3>3, <3>4
  <2>4. CASE Save(p)
    <3>1. stack = "up" /\ ~held /\ ~paused' /\ UNCHANGED <<stack, native, held, child>>
      BY <2>4 DEF Save, Undisturbed, Alone, Holder, Restoring
    <3>2. CASE paused
      BY <3>1, <3>2 DEF Loan!Next, Loan!Settle
    <3>3. CASE ~paused
      BY <3>1, <3>3, Elsewhere DEF TypeOK
    <3> QED BY <3>2, <3>3
  <2> QED BY <2>1, <2>2, <2>3, <2>4 DEF Restore
<1>10. CASE StopPost \/ UnitEnds \/ CallRestore \/ Leave
  BY <1>10, Elsewhere DEF StopPost, UnitEnds, CallRestore, Leave
<1>11. CASE ChildEnds
  <2>1. stack = "down" /\ native # "running" /\ UNCHANGED <<stack, native, held, paused, Borrower>>
    BY <1>11 DEF ChildEnds, Undisturbed, Alone, Holder, Order, Borrower
  <2> QED BY <1>11, <2>1 DEF ChildEnds, Loan!Next, Loan!Exit
<1>12. CASE ChildStopPost
  <2>1. paused /\ ~held /\ native # "running" /\ child # "active" /\ child' # "active"
    BY <1>12 DEF ChildStopPost, Undisturbed, Alone, Holder, Order
  <2>2. stack' = "up" /\ UNCHANGED <<native, held, paused, Borrower>>
    BY <1>12 DEF ChildStopPost, Borrower
  <2>3. CASE stack = "down"
    BY <2>1, <2>2, <2>3 DEF Loan!Next, Loan!Return, Loan!Back
  <2>4. CASE stack # "down"
    BY <2>1, <2>2, <2>4, InsideSame DEF Loan!vars
  <2> QED BY <2>3, <2>4
<1>13. CASE NativeEnds
  <2>1. stack = "down" /\ child # "active" /\ UNCHANGED <<stack, child, held, paused, Borrower>>
    BY <1>13 DEF NativeEnds, Undisturbed, Alone, Holder, Order, Borrower
  <2>2. native = "running" /\ native' # "running"
    BY <1>13 DEF NativeEnds
  <2> QED BY <2>1, <2>2 DEF Loan!Next, Loan!Exit
<1>14. CASE NativeGivesBack
  <2>1. held /\ ~paused /\ stack = "down" /\ native # "running" /\ child # "active"
    BY <1>14 DEF NativeGivesBack, Undisturbed, Alone, Holder
  <2>2. stack' = "up" /\ ~held' /\ UNCHANGED <<native, child, paused>>
    BY <1>14 DEF NativeGivesBack
  <2> QED BY <2>1, <2>2 DEF Loan!Next, Loan!Return, Loan!Back
<1>15. CASE NativeAgain
  <2>1. ~paused /\ child # "active" /\ native # "running"
    BY <1>15 DEF NativeAgain, HasStack, TypeOK, Undisturbed, Alone
  <2>2. native' = "running" /\ held'
    BY <1>15 DEF NativeAgain
  <2>3. CASE held
    BY <2>1, <2>2, <2>3 DEF Undisturbed, Holder, Loan!Next, Loan!Take
  <2>4. CASE ~held
    <3>1. stack = "up"
      BY <2>1, <2>4 DEF Undisturbed, Holder
    <3> QED BY <2>1, <2>2, <3>1 DEF Loan!Next, Loan!Take
  <2> QED BY <2>3, <2>4
<1>16. CASE Tamper \/ Fails \/ (\E p \in Processes : Kill(p))
  BY <1>16, Elsewhere DEF Tamper, Fails, Kill
<1>17. CASE Reboot
  <2>1. stack' = "up" /\ ~held' /\ UNCHANGED paused
    BY <1>17 DEF Reboot
  <2>2. Borrower' = IF Borrower = "native" THEN "nobody" ELSE Borrower
    BY <2>1 DEF Borrower
  <2> QED BY <2>1, <2>2 DEF Loan!Next, Loan!Reboot, Loan!Back
<1>18. CASE Launch
  <2>1. UNCHANGED <<stack, native, held, child>>
    BY <1>18 DEF Launch
  <2>2. UNCHANGED paused
    BY <1>18 DEF Launch, Fresh, Order, TypeOK
  <2> QED BY <2>1, <2>2, Elsewhere
<1>19. CASE UNCHANGED vars
  BY <1>19, Elsewhere DEF vars
<1>20. {"run", "post", "op"} \subseteq Processes
  BY DEF Processes
<1> QED
  BY <1>2, <1>3, <1>4, <1>5, <1>6, <1>7, <1>8, <1>9, <1>10, <1>11, <1>12, <1>13, <1>14, <1>15,
     <1>16, <1>17, <1>18, <1>19, <1>20 DEF Next, Run, Unit, Operator, Tests, Faults

(* Supervisor, ExecStopPost, operator and test unit together implement      *)
(* StackLoan, for any number of launches, relaunches and faults.            *)
THEOREM LendsTheStack == Spec => ImplementsStackLoan
<1>1. Init => Loan!Init
  BY DEF Init, Loan!Init, Inside, Borrower
<1>2. ASSUME IInv, IInv', [Next]_vars
      PROVE  [Loan!Next]_Loan!vars
  BY <1>2, StepLoan
<1> QED BY <1>1, <1>2, InductiveInvariant, PTL DEF Spec, ImplementsStackLoan, Loan!Spec
=============================================================================
