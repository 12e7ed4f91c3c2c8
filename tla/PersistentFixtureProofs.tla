----------------------- MODULE PersistentFixtureProofs ----------------------
(***************************************************************************)
(* The safety properties of PersistentFixture, for any number of fixtures, *)
(* units, faults and boots.  The two tests keep the invariant that         *)
(* RebootTestProofs proves; to it come what install has made and compared  *)
(* at each step, and what the record says while one command is at work.    *)
(***************************************************************************)
EXTENDS PersistentFixture, RebootTestProofs

(* What install has made at each step; nothing is there without a root.     *)
Built ==
  /\ ins = "hash" => ~root
  /\ ins # "idle" => source \in Fixtures
  /\ ins = "clone" => root /\ clone = "none"
  /\ ins \in {"state", "write", "compare", "start", "started"} => clone # "none"
  /\ ~root => clone = "none" /\ pphase = "none"
  /\ en # "idle" \/ st # "idle" => pphase # "none"

(* A clone of an original that was written to does not get past compare;    *)
(* that of a qualified one is never copied from a part, since nothing takes *)
(* a fixture away that has passed.                                          *)
Good == clone = "good" \/ (clone = "torn" /\ ~qualified)
Compared ==
  /\ qualified /\ ins # "idle" => source \in passed
  /\ clone = "bad" /\ ins \in {"state", "write", "compare"} => hashed = "other"
  /\ clone = "torn" => ~qualified
  /\ ins \in {"start", "started"} => Good
  /\ stack # "down" \/ penabled => Good
  /\ en \in {"source", "enable"} => Good

(* A command that has the stack to itself finds at each step what its own   *)
(* earlier steps have made, and the record is true before it changes        *)
(* anything and once it has recorded that.                                  *)
Recording ==
  /\ crossed => ~sure /\ ~AllIdle
  /\ ~crossed =>
       /\ en # "idle" => ins = "idle" /\ st = "idle"
       /\ st # "idle" => ins = "idle"
       /\ ins \in {"hash", "clone", "state"} => pphase = "none"
       /\ ins \in {"write", "compare", "start", "started"} => pphase = "prepared"
       /\ ins # "idle" => ~penabled /\ stack = (IF ins = "started" THEN "up" ELSE "down")
       /\ en \in {"source", "enable", "save"} => stack = "up"
       /\ en = "save" => penabled
       /\ st \in {"stop", "save"} => ~penabled
       /\ st = "save" => stack = "down"
  /\ sure /\ ins # "started" /\ en # "save" /\ st \notin {"stop", "save"} => Truthful

IInv == TestIInv /\ TypeOK /\ Built /\ Compared /\ Recording

(* The tests keep their own invariant, whatever the commands do beside them. *)
LEMMA StepTests ==
  ASSUME IInv, [Next]_vars
  PROVE  TestIInv'
<1>1. CASE TestStep \/ RebootHost
  BY <1>1, TestStepIInv DEF IInv, TestStep, RebootHost, RebootNext
<1>2. CASE UNCHANGED rebootVars
  BY <1>2, TestStepIInv DEF IInv
<1>3. CASE KillCommand
  <2>1. UNCHANGED <<fixture, running, exported, evidence, state, installed, programs, history, boots>>
    BY <1>3 DEF KillCommand, Fault
  <2>2. faults' \in 0..MaxFaults
    BY <1>3, FaultsAssumption DEF KillCommand, Fault, IInv, TestIInv, RebootTypeOK
  <2> USE DEF fixture, running, evidence, state, installed, programs, history
  <2>3. RebootTypeOK'
    BY <2>1, <2>2 DEF IInv, TestIInv, RebootTypeOK
  <2>4. Placed' /\ Qualifies' /\ Boots'
    BY <2>1 DEF IInv, TestIInv, Placed, Qualifies, Boots
  <2>5. Removal' /\ Secured' /\ Kept' /\ OnRecord'
    BY <2>1 DEF IInv, TestIInv, Removal, CleanedLeavesNothing, Secured, OriginalRetained, Kept, OnRecord, Left
  <2> QED BY <2>3, <2>4, <2>5 DEF TestIInv
<1> QED
  BY <1>1, <1>2, <1>3 DEF Next, vars, Install, InstallStep, Hash, Clone, SavePrepared,
     WriteOwnUnit, Compare, StartStack, SaveStarted, EnableStep, CheckActive, CheckSource,
     EnableTarget, SaveEnabled, StopStep, DisableNow, StopStack, SaveStopped,
     EnableBegin, StopBegin, Write, InsAt, EnAt, StAt

(* A fixture that has passed stays one that has. *)
LEMMA PassedStays ==
  ASSUME IInv, [Next]_vars, TestStep
  PROVE  passed \subseteq passed'
<1>1. TestIInv' /\ [RebootNext]_rebootVars
  BY StepTests DEF TestStep, RebootNext
<1>2. [Qualification!Next]_Qualification!vars
  BY <1>1, TestStepQualification DEF IInv
<1> QED
  BY <1>2 DEF Qualification!Next, Qualification!vars, Qualification!Pass, Qualification!Begin,
     Qualification!Work, Qualification!Boot, Qualification!Go, Qualification!Ready,
     Qualification!Certify, Qualification!Clean, Qualification!Tear, Qualification!Show,
     Qualification!Witness, Qualification!Flag, Qualification!Spoil

(* Every variable keeps its type. *)
LEMMA StepTyped ==
  ASSUME IInv, [Next]_vars
  PROVE  OwnTypeOK'
<1> USE DEF IInv, TypeOK, OwnTypeOK, Built, InstallSteps, EnableSteps, StopSteps, ownVars, original, persistent, commands, told, InsAt, EnAt, StAt, Owned, Begins, Goes, Ends, AllIdle
<1>1. CASE TestStep
  BY <1>1 DEF TestStep
<1>2. CASE RebootHost
  BY <1>2 DEF RebootHost
<1>3. CASE \E f \in Fixtures : Install(f)
  BY <1>3 DEF Install, Qualified
<1>4. CASE InstallStep
  <2>1. CASE Hash
    BY <2>1 DEF Hash, TestIInv, RebootTypeOK
  <2>2. CASE Clone
    BY <2>2 DEF Clone, TestIInv, RebootTypeOK, Kept
  <2>3. CASE SavePrepared
    BY <2>3 DEF SavePrepared
  <2>4. CASE WriteOwnUnit
    BY <2>4 DEF WriteOwnUnit, NextUnit
  <2>5. CASE Compare
    BY <2>5 DEF Compare, Same, TestIInv, RebootTypeOK
  <2>6. CASE StartStack
    BY <2>6 DEF StartStack
  <2>7. CASE SaveStarted
    BY <2>7 DEF SaveStarted
  <2> QED BY <1>4, <2>1, <2>2, <2>3, <2>4, <2>5, <2>6, <2>7 DEF InstallStep
<1>5. CASE EnableStep
  <2>1. CASE CheckActive
    BY <2>1 DEF CheckActive
  <2>2. CASE CheckSource
    BY <2>2 DEF CheckSource
  <2>3. CASE EnableTarget
    BY <2>3 DEF EnableTarget
  <2>4. CASE SaveEnabled
    BY <2>4 DEF SaveEnabled
  <2> QED BY <1>5, <2>1, <2>2, <2>3, <2>4 DEF EnableStep
<1>6. CASE StopStep
  <2>1. CASE DisableNow
    <3>1. stack' \in {"down", "up", "stopping"} /\ penabled' \in BOOLEAN /\ st' \in StopSteps
      BY <2>1 DEF DisableNow
    <3>2. UNCHANGED <<root, pphase, source, hashed, qualified, clone, pfile, ins, en, sure>>
      BY <2>1 DEF DisableNow
    <3>3. crossed' \in BOOLEAN
      BY <2>1 DEF DisableNow
    <3> QED BY <3>1, <3>2, <3>3
  <2>2. CASE StopStack
    BY <2>2 DEF StopStack
  <2>3. CASE SaveStopped
    BY <2>3 DEF SaveStopped
  <2> QED BY <1>6, <2>1, <2>2, <2>3 DEF StopStep
<1>7. CASE EnableBegin
  BY <1>7 DEF EnableBegin
<1>8. CASE StopBegin
  BY <1>8 DEF StopBegin
<1>9. CASE Write
  BY <1>9 DEF Write
<1>10. CASE KillCommand
  <2>1. UNCHANGED <<root, source, hashed, qualified, clone, stack, penabled>>
    BY <1>10 DEF KillCommand
  <2>2. ins' \in {ins, "idle"} /\ en' \in {en, "idle"} /\ st' \in {st, "idle"}
    BY <1>10 DEF KillCommand
  <2>3. crossed' \in BOOLEAN /\ sure' \in BOOLEAN
    BY <1>10 DEF KillCommand
  <2>4. pphase' \in {pphase, "torn"} /\ (pphase' # "none" => clone # "none")
    BY <1>10 DEF KillCommand, Cut
  <2>5. pfile' \in [Units -> {"absent", "partial", "whole"}]
    BY <1>10 DEF KillCommand, CutOff, NextUnit
  <2> QED BY <2>1, <2>2, <2>3, <2>4, <2>5
<1>11. CASE UNCHANGED vars
  BY <1>11 DEF vars
<1> QED
  BY <1>1, <1>2, <1>3, <1>4, <1>5, <1>6, <1>7, <1>8, <1>9, <1>10, <1>11 DEF Next

(* Install makes things in its order. *)
LEMMA StepBuilt ==
  ASSUME IInv, [Next]_vars
  PROVE  Built'
<1> USE DEF IInv, TypeOK, OwnTypeOK, Built, ownVars, original, persistent, commands, told, InsAt, EnAt, StAt, Owned, Begins, Goes, Ends, AllIdle
<1>1. CASE TestStep
  BY <1>1 DEF TestStep
<1>2. CASE RebootHost
  BY <1>2 DEF RebootHost
<1>3. CASE \E f \in Fixtures : Install(f)
  BY <1>3 DEF Install, Qualified
<1>4. CASE InstallStep
  <2>1. CASE Hash
    BY <2>1 DEF Hash, TestIInv, RebootTypeOK
  <2>2. CASE Clone
    BY <2>2 DEF Clone, TestIInv, RebootTypeOK, Kept
  <2>3. CASE SavePrepared
    BY <2>3 DEF SavePrepared
  <2>4. CASE WriteOwnUnit
    BY <2>4 DEF WriteOwnUnit, NextUnit
  <2>5. CASE Compare
    BY <2>5 DEF Compare, Same, TestIInv, RebootTypeOK
  <2>6. CASE StartStack
    BY <2>6 DEF StartStack
  <2>7. CASE SaveStarted
    BY <2>7 DEF SaveStarted
  <2> QED BY <1>4, <2>1, <2>2, <2>3, <2>4, <2>5, <2>6, <2>7 DEF InstallStep
<1>5. CASE EnableStep
  <2>1. CASE CheckActive
    BY <2>1 DEF CheckActive
  <2>2. CASE CheckSource
    BY <2>2 DEF CheckSource
  <2>3. CASE EnableTarget
    BY <2>3 DEF EnableTarget
  <2>4. CASE SaveEnabled
    BY <2>4 DEF SaveEnabled
  <2> QED BY <1>5, <2>1, <2>2, <2>3, <2>4 DEF EnableStep
<1>6. CASE StopStep
  <2>1. CASE DisableNow
    BY <2>1 DEF DisableNow
  <2>2. CASE StopStack
    BY <2>2 DEF StopStack
  <2>3. CASE SaveStopped
    BY <2>3 DEF SaveStopped
  <2> QED BY <1>6, <2>1, <2>2, <2>3 DEF StopStep
<1>7. CASE EnableBegin
  BY <1>7 DEF EnableBegin
<1>8. CASE StopBegin
  BY <1>8 DEF StopBegin
<1>9. CASE Write
  BY <1>9 DEF Write
<1>10. CASE KillCommand
  BY <1>10 DEF KillCommand, Cut, CutOff, NextUnit
<1>11. CASE UNCHANGED vars
  BY <1>11 DEF vars
<1> QED
  BY <1>1, <1>2, <1>3, <1>4, <1>5, <1>6, <1>7, <1>8, <1>9, <1>10, <1>11 DEF Next

(* Only a good clone runs. *)
LEMMA StepCompared ==
  ASSUME IInv, [Next]_vars
  PROVE  Compared'
<1> USE DEF IInv, TypeOK, OwnTypeOK, Built, Compared, Good, rebootVars, history, ownVars, original, persistent, commands, told, InsAt, EnAt, StAt, Owned, Begins, Goes, Ends, AllIdle
<1>1. CASE TestStep
  BY <1>1, PassedStays DEF TestStep
<1>2. CASE RebootHost
  BY <1>2 DEF RebootHost
<1>3. CASE \E f \in Fixtures : Install(f)
  BY <1>3 DEF Install, Qualified
<1>4. CASE InstallStep
  <2>1. CASE Hash
    BY <2>1 DEF Hash, TestIInv, RebootTypeOK
  <2>2. CASE Clone
    BY <2>2 DEF Clone, TestIInv, RebootTypeOK, Kept
  <2>3. CASE SavePrepared
    BY <2>3 DEF SavePrepared
  <2>4. CASE WriteOwnUnit
    BY <2>4 DEF WriteOwnUnit, NextUnit
  <2>5. CASE Compare
    BY <2>5 DEF Compare, Same, TestIInv, RebootTypeOK
  <2>6. CASE StartStack
    BY <2>6 DEF StartStack
  <2>7. CASE SaveStarted
    BY <2>7 DEF SaveStarted
  <2> QED BY <1>4, <2>1, <2>2, <2>3, <2>4, <2>5, <2>6, <2>7 DEF InstallStep
<1>5. CASE EnableStep
  <2>1. CASE CheckActive
    BY <2>1 DEF CheckActive
  <2>2. CASE CheckSource
    BY <2>2 DEF CheckSource
  <2>3. CASE EnableTarget
    BY <2>3 DEF EnableTarget
  <2>4. CASE SaveEnabled
    BY <2>4 DEF SaveEnabled
  <2> QED BY <1>5, <2>1, <2>2, <2>3, <2>4 DEF EnableStep
<1>6. CASE StopStep
  <2>1. CASE DisableNow
    BY <2>1 DEF DisableNow
  <2>2. CASE StopStack
    BY <2>2 DEF StopStack
  <2>3. CASE SaveStopped
    BY <2>3 DEF SaveStopped
  <2> QED BY <1>6, <2>1, <2>2, <2>3 DEF StopStep
<1>7. CASE EnableBegin
  BY <1>7 DEF EnableBegin
<1>8. CASE StopBegin
  BY <1>8 DEF StopBegin
<1>9. CASE Write
  BY <1>9 DEF Write
<1>10. CASE KillCommand
  BY <1>10 DEF KillCommand, Cut, CutOff, NextUnit
<1>11. CASE UNCHANGED vars
  BY <1>11 DEF vars
<1> QED
  BY <1>1, <1>2, <1>3, <1>4, <1>5, <1>6, <1>7, <1>8, <1>9, <1>10, <1>11 DEF Next

(* The record follows a command that is alone. *)
LEMMA StepRecording ==
  ASSUME IInv, [Next]_vars
  PROVE  Recording'
<1> USE DEF IInv, TypeOK, OwnTypeOK, Built, Compared, Good, Recording, Truthful, ownVars, original, persistent, commands, told, InsAt, EnAt, StAt, Owned, Begins, Goes, Ends, AllIdle
<1>1. CASE TestStep
  BY <1>1 DEF TestStep
<1>2. CASE RebootHost
  BY <1>2 DEF RebootHost
<1>3. CASE \E f \in Fixtures : Install(f)
  BY <1>3 DEF Install, Qualified
<1>4. CASE InstallStep
  <2>1. CASE Hash
    BY <2>1 DEF Hash, TestIInv, RebootTypeOK
  <2>2. CASE Clone
    BY <2>2 DEF Clone, TestIInv, RebootTypeOK, Kept
  <2>3. CASE SavePrepared
    BY <2>3 DEF SavePrepared
  <2>4. CASE WriteOwnUnit
    BY <2>4 DEF WriteOwnUnit, NextUnit
  <2>5. CASE Compare
    BY <2>5 DEF Compare, Same, TestIInv, RebootTypeOK
  <2>6. CASE StartStack
    BY <2>6 DEF StartStack
  <2>7. CASE SaveStarted
    BY <2>7 DEF SaveStarted
  <2> QED BY <1>4, <2>1, <2>2, <2>3, <2>4, <2>5, <2>6, <2>7 DEF InstallStep
<1>5. CASE EnableStep
  <2>1. CASE CheckActive
    BY <2>1 DEF CheckActive
  <2>2. CASE CheckSource
    BY <2>2 DEF CheckSource
  <2>3. CASE EnableTarget
    BY <2>3 DEF EnableTarget
  <2>4. CASE SaveEnabled
    BY <2>4 DEF SaveEnabled
  <2> QED BY <1>5, <2>1, <2>2, <2>3, <2>4 DEF EnableStep
<1>6. CASE StopStep
  <2>1. CASE DisableNow
    BY <2>1 DEF DisableNow
  <2>2. CASE StopStack
    BY <2>2 DEF StopStack
  <2>3. CASE SaveStopped
    BY <2>3 DEF SaveStopped
  <2> QED BY <1>6, <2>1, <2>2, <2>3 DEF StopStep
<1>7. CASE EnableBegin
  BY <1>7 DEF EnableBegin
<1>8. CASE StopBegin
  BY <1>8 DEF StopBegin
<1>9. CASE Write
  BY <1>9 DEF Write
<1>10. CASE KillCommand
  BY <1>10 DEF KillCommand, Cut, CutOff, NextUnit
<1>11. CASE UNCHANGED vars
  BY <1>11 DEF vars
<1> QED
  BY <1>1, <1>2, <1>3, <1>4, <1>5, <1>6, <1>7, <1>8, <1>9, <1>10, <1>11 DEF Next

(* The initial states satisfy the invariant. *)
LEMMA InitIInv ==
  ASSUME Init
  PROVE  IInv
<1> USE DEF Init, All
<1>1. TestIInv /\ RebootTypeOK
  BY TestInitIInv DEF TestIInv
<1>2. TypeOK
  BY <1>1 DEF TypeOK, OwnTypeOK
<1>3. Built /\ Compared /\ Recording
  BY DEF Built, Compared, Good, Recording, Truthful, AllIdle
<1> QED BY <1>1, <1>2, <1>3 DEF IInv

(* The inductive invariant survives every step. *)
LEMMA StepIInv ==
  ASSUME IInv, [Next]_vars
  PROVE  IInv'
<1>1. TestIInv' /\ OwnTypeOK'
  BY StepTests, StepTyped
<1>2. TypeOK'
  BY <1>1 DEF TypeOK, OwnTypeOK, TestIInv
<1> QED BY <1>1, <1>2, StepBuilt, StepCompared, StepRecording DEF IInv

(* The inductive invariant holds always. *)
THEOREM InductiveInvariant == Spec => []IInv
<1>1. Init => IInv
  BY InitIInv
<1>2. IInv /\ [Next]_vars => IInv'
  BY StepIInv
<1> QED BY <1>1, <1>2, PTL DEF Spec

(* Every variable keeps its type, and install.json records only what has    *)
(* been made.                                                               *)
THEOREM TypeCorrect == Spec => []TypeOK
<1>1. IInv => TypeOK
  BY DEF IInv
<1> QED BY <1>1, InductiveInvariant, PTL

(* What runs is a clone of the original as it was hashed, and one copied    *)
(* from a half extracted original only of a fixture that had not passed its *)
(* service test when install began.                                         *)
THEOREM CloneIsGood == Spec => []CloneIsTheOriginal
<1>1. IInv => CloneIsTheOriginal
  BY DEF IInv, Compared, Good, CloneIsTheOriginal
<1> QED BY <1>1, InductiveInvariant, PTL

(* One command that has the stack to itself, to its end, leaves a true      *)
(* record, whatever went before it.                                         *)
THEOREM RecordHolds == Spec => []RecordIsTrue
<1>1. IInv => RecordIsTrue
  BY DEF IInv, Recording, RecordIsTrue, AllIdle
<1> QED BY <1>1, InductiveInvariant, PTL
=============================================================================
