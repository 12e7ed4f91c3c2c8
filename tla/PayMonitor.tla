----------------------------- MODULE PayMonitor -----------------------------
(***************************************************************************)
(* The Pay operational monitor: monitoring/discrete-pay/policy.mjs (what a *)
(* poll does to the state), monitor.mjs (the process around it) and        *)
(* discrete-pay-monitor.service (who restarts it, and how often).          *)
(*                                                                         *)
(* One tick of the process is: poll and observe; save; if an alert waits   *)
(* and its retry time has come, send it and save again; sleep.  The        *)
(* process may die between any two of these steps, the receiver may accept *)
(* an alert whose answer is lost, and what the poll sees may change at any *)
(* time.                                                                   *)
(*                                                                         *)
(* Data abstracted:                                                        *)
(*   - an issue set stands for the sorted, comma-joined key of the code:   *)
(*     {} is the key '', NoKey a field that is still undefined;            *)
(*   - time runs in units of the 10 s poll period, and nextAttemptAt is    *)
(*     kept as the units left until it (0: the attempt is due);            *)
(*   - an alert's id, pay-<milliseconds>, is the number of the push that   *)
(*     created it: a tick pushes once and ticks are 10 s apart, so ids are *)
(*     fresh and increasing while the clock is not set back.               *)
(***************************************************************************)
EXTENDS Integers, Sequences, FiniteSets

CONSTANTS
  Observations,    \* results of a poll: sets of issue codes, {} is healthy
  NoKey,           \* the value of a candidate or confirmed never written
  OpenPolls,       \* equal observations that open an incident (code: 3)
  ResolvePolls,    \* equal observations that close it (code: 2)
  QueueLimit,      \* alerts the queue can hold (code: 32)
  MaxIssues,       \* issues one alert may name (code: 3)
  MaxFailures,     \* cap of the failure counter (code: 5)
  MaxBackoff,      \* cap of the retry delay (code: 300 s, 30 units)
  MaxRetryAhead,   \* retry delay validateState accepts (code: 360 s)
  MaxCycle,        \* units between two polls (sleep, SSH and HTTP deadlines)
  RestartUnits,    \* units systemd waits before a restart (code: 15 s)
  StartLimit,      \* starts allowed in one interval (code: 5)
  StartInterval    \* length of that interval (code: 300 s)

CONSTANTS          \* bounds of the environment, for model checking
  MaxFlips,        \* changes of what a poll sees
  MaxCrashes,      \* process deaths and reboots
  MaxLosses        \* answers lost after the receiver accepted

ASSUME ObservationAssumption ==
  /\ \A o \in Observations : IsFiniteSet(o) /\ Cardinality(o) <= MaxIssues
  /\ {} \in Observations
  /\ NoKey \notin Observations

ASSUME LimitAssumption ==
  /\ OpenPolls \in Nat \ {0} /\ ResolvePolls \in 1..OpenPolls
  /\ QueueLimit \in Nat \ {0} /\ MaxIssues \in Nat
  /\ MaxFailures \in Nat \ {0} /\ MaxBackoff \in Nat
  /\ MaxRetryAhead \in Nat /\ MaxBackoff <= MaxRetryAhead
  /\ MaxCycle \in Nat \ {0} /\ RestartUnits \in Nat
  /\ StartLimit \in Nat /\ StartInterval \in Nat
  /\ MaxFlips \in Nat /\ MaxCrashes \in Nat /\ MaxLosses \in Nat

VARIABLES
  world,      \* what a poll would observe now
  pc,         \* where the process is
  stop,       \* SIGTERM or SIGINT was received
  mem,        \* the state object of the running process
  disk,       \* state.json
  starts,     \* starts counted in the current start-limit interval
  window,     \* units left in that interval
  received,   \* alerts accepted by the receiver, in order
  raised,     \* history: every alert that reached state.json, in order
  minted,     \* pushes so far (stands for the clock in alert ids)
  streak,     \* history: how many of the latest saved polls saw the same issues
  flips, crashes, losses     \* how much of each bound is used

procVars == <<pc, stop, mem, disk>>
unitVars == <<starts, window>>
logVars  == <<received, raised, minted, streak>>
envVars  == <<world, flips, crashes, losses>>
vars     == <<procVars, unitVars, logVars, envVars>>

Keys   == Observations \cup {NoKey}
Alerts == [id : Nat, issues : Observations]
States == [candidate : Keys, count : 0..OpenPolls, confirmed : Keys,
           initialized : BOOLEAN, queue : Seq(Alerts),
           failures : 0..MaxFailures, wait : 0..MaxBackoff]

(* Where a tick can be interrupted.  "failed" waits for systemd to start   *)
(* the unit again, "halted" has used up its starts, "stopped" was asked    *)
(* to stop.                                                                *)
Alive == {"load", "poll", "save", "send", "resave", "sleep"}
PCs   == Alive \cup {"failed", "halted", "stopped"}

(* An absent state.json: every field undefined.                            *)
Blank == [candidate |-> NoKey, count |-> 0, confirmed |-> NoKey,
          initialized |-> FALSE, queue |-> <<>>, failures |-> 0, wait |-> 0]

(* validateState: what a start accepts from state.json.                    *)
ValidState(s) ==
  /\ \A key \in {s.candidate, s.confirmed} :
       key = NoKey \/ (key \in Observations /\ Cardinality(key) <= MaxIssues)
  /\ s.count \in 0..OpenPolls
  /\ s.failures \in 0..MaxFailures
  /\ s.wait \in 0..MaxRetryAhead
  /\ Len(s.queue) <= QueueLimit
  /\ \A i \in 1..Len(s.queue) :
       s.queue[i].issues \in Observations /\ Cardinality(s.queue[i].issues) <= MaxIssues

-----------------------------------------------------------------------------
(* observe: fold one observation into the state.  Overflow is the throw    *)
(* 'notification queue full', reached before anything but the candidate    *)
(* and its count has changed.  The operators named Bug... are not part of  *)
(* the model: each is a way the next definition could have been got wrong, *)
(* used to show that a property would notice.                              *)
BugCountedNoReset(s, key) ==
  [s EXCEPT !.candidate = key,
            !.count = IF s.count < OpenPolls THEN s.count + 1 ELSE OpenPolls]

Counted(s, key) ==
  LET seen == IF s.candidate = key THEN s.count ELSE 0
  IN  [s EXCEPT !.candidate = key,
                !.count = IF seen < OpenPolls THEN seen + 1 ELSE OpenPolls]

Needed(key) == IF key = {} THEN ResolvePolls ELSE OpenPolls

Confirms(s, key) == s.count >= Needed(key) /\ s.confirmed # key

BugAlarmsIncidentsOnly(s, key) == Confirms(s, key) /\ key # {}

Alarms(s, key) == Confirms(s, key) /\ (s.initialized \/ key # {})

Confirmed(s, key, id) ==
  [s EXCEPT !.queue = IF Alarms(s, key)
                      THEN Append(@, [id |-> id, issues |-> key]) ELSE @,
            !.confirmed = key,
            !.initialized = TRUE]

BugOverflowsLate(s, key) ==
  LET c == Counted(s, key) IN Alarms(c, key) /\ Len(c.queue) > QueueLimit
BugOverflowsEarly(s, key) ==
  LET c == Counted(s, key) IN Alarms(c, key) /\ Len(c.queue) >= QueueLimit - 1

Overflows(s, key) ==
  LET c == Counted(s, key) IN Alarms(c, key) /\ Len(c.queue) >= QueueLimit

Observe(s, key, id) ==
  LET c == Counted(s, key)
  IN  IF Confirms(c, key) THEN Confirmed(c, key, id) ELSE c

(* The failure branch of tick: 20, 40, 80 and 160 s, then 300 s.           *)
RetryDelay(failures) ==
  IF 2^failures \in 0..MaxBackoff THEN 2^failures ELSE MaxBackoff

Delivered(s) == [s EXCEPT !.queue = Tail(@), !.failures = 0, !.wait = 0]

BugUndeliveredDrops(s) ==
  [s EXCEPT !.queue = Tail(@), !.wait = RetryDelay(1)]

Undelivered(s) ==
  LET f == IF s.failures < MaxFailures THEN s.failures + 1 ELSE MaxFailures
  IN  [s EXCEPT !.failures = f, !.wait = RetryDelay(f)]

(* The clock moves on for the process, for state.json and for systemd.     *)
Remaining(n, d) == IF n > d THEN n - d ELSE 0
Later(s, d)     == [s EXCEPT !.wait = Remaining(@, d)]
Elapse(d)       == /\ mem' = Later(mem, d)
                   /\ disk' = Later(disk, d)
                   /\ window' = Remaining(window, d)

Init ==
  /\ world \in Observations
  /\ pc = "load" /\ stop = FALSE
  /\ mem = Blank /\ disk = Blank
  /\ starts = 1 /\ window = StartInterval
  /\ received = <<>> /\ raised = <<>> /\ minted = 0
  /\ streak = [issues |-> NoKey, length |-> 0]
  /\ flips = 0 /\ crashes = 0 /\ losses = 0

(* Where a dead process leaves the unit: systemd restarts it, unless it    *)
(* died while it was being stopped.                                        *)
Dead == IF stop THEN "stopped" ELSE "failed"

-----------------------------------------------------------------------------
(* monitor.mjs reads state.json and refuses one that validateState rejects. *)
Load ==
  /\ pc = "load"
  /\ IF ValidState(disk)
       THEN pc' = (IF stop THEN "stopped" ELSE "poll") /\ mem' = disk
       ELSE pc' = Dead /\ UNCHANGED mem
  /\ UNCHANGED <<stop, disk, unitVars, logVars, envVars>>

(* ports.snapshot, issues and observe.  A full queue ends the process.     *)
Poll ==
  /\ pc = "poll"
  /\ IF Overflows(mem, world)
       THEN pc' = Dead /\ mem' = Blank /\ UNCHANGED minted
       ELSE /\ pc' = "save"
            /\ mem' = Observe(mem, world, minted + 1)
            /\ minted' = minted + (IF Alarms(Counted(mem, world), world) THEN 1 ELSE 0)
  /\ UNCHANGED <<stop, disk, unitVars, received, raised, streak, envVars>>

(* persist: write a temporary file and rename it over state.json.  The     *)
(* rename is the step; a death before it is Crash.                         *)
Persist ==
  /\ disk' = mem
  /\ raised' = IF Len(mem.queue) > Len(disk.queue)
               THEN Append(raised, mem.queue[Len(mem.queue)]) ELSE raised

BugSaveAfterSend ==
  /\ pc = "save"
  /\ pc' = IF mem.queue # <<>> /\ mem.wait = 0 THEN "send" ELSE "resave"
  /\ UNCHANGED <<stop, mem, disk, unitVars, logVars, envVars>>
BugSaveNoRetry ==
  /\ pc = "save"
  /\ Persist
  /\ pc' = IF mem.queue # <<>> /\ mem.failures = 0 THEN "send" ELSE "sleep"
  /\ UNCHANGED <<stop, mem, unitVars, received, minted, streak, envVars>>

Save ==
  /\ pc = "save"
  /\ Persist
  /\ streak' = [issues |-> mem.candidate,
                length |-> IF streak.issues # mem.candidate THEN 1
                           ELSE IF streak.length < OpenPolls THEN streak.length + 1
                           ELSE OpenPolls]
  /\ pc' = IF mem.queue # <<>> /\ mem.wait = 0 THEN "send" ELSE "sleep"
  /\ UNCHANGED <<stop, mem, unitVars, received, minted, envVars>>

Accept == received' = Append(received, Head(mem.queue))

(* notify came back with ok: the alert leaves the queue.                   *)
SendAccepted ==
  /\ pc = "send"
  /\ Accept
  /\ mem' = Delivered(mem)
  /\ pc' = "resave"
  /\ UNCHANGED <<stop, disk, unitVars, raised, minted, streak, envVars>>

(* The receiver took the alert but notify threw: deadline, cut connection, *)
(* oversize or unreadable answer.                                          *)
SendAmbiguous ==
  /\ pc = "send" /\ losses < MaxLosses
  /\ losses' = losses + 1
  /\ Accept
  /\ mem' = Undelivered(mem)
  /\ pc' = "resave"
  /\ UNCHANGED <<stop, disk, unitVars, raised, minted, streak, world, flips, crashes>>

SendRefused ==
  /\ pc = "send"
  /\ mem' = Undelivered(mem)
  /\ pc' = "resave"
  /\ UNCHANGED <<stop, disk, unitVars, logVars, envVars>>

Resave ==
  /\ pc = "resave"
  /\ Persist
  /\ pc' = "sleep"
  /\ UNCHANGED <<stop, mem, unitVars, received, minted, streak, envVars>>

(* The loop's timer; a stop request wakes it and ends the loop.            *)
Sleep ==
  /\ pc = "sleep" /\ ~stop
  /\ \E d \in 1..MaxCycle : Elapse(d)
  /\ pc' = "poll"
  /\ UNCHANGED <<stop, starts, logVars, envVars>>

Quit ==
  /\ pc = "sleep" /\ stop
  /\ pc' = "stopped"
  /\ UNCHANGED <<stop, mem, disk, unitVars, logVars, envVars>>

-----------------------------------------------------------------------------
(* Restart=on-failure within StartLimitBurst starts per interval.          *)
Restart ==
  /\ pc = "failed"
  /\ disk' = Later(disk, RestartUnits) /\ UNCHANGED mem
  /\ LET left == Remaining(window, RestartUnits)
     IN  \/ /\ left = 0
            /\ starts' = 1 /\ window' = StartInterval /\ pc' = "load"
         \/ /\ left > 0 /\ starts < StartLimit
            /\ starts' = starts + 1 /\ window' = left /\ pc' = "load"
         \/ /\ left > 0 /\ starts >= StartLimit
            /\ pc' = "halted" /\ window' = left /\ UNCHANGED starts
  /\ UNCHANGED <<stop, logVars, envVars>>

(* The process dies anywhere: a kill, the OOM limit, a failed save.        *)
Crash ==
  /\ pc \in Alive /\ crashes < MaxCrashes
  /\ crashes' = crashes + 1
  /\ pc' = Dead /\ mem' = Blank
  /\ UNCHANGED <<stop, disk, unitVars, logVars, world, flips, losses>>

(* The host boots, or the operator starts the unit again, some time later: *)
(* the unit begins with a fresh start count.                               *)
Boot ==
  /\ crashes < MaxCrashes
  /\ crashes' = crashes + 1
  /\ pc' = "load" /\ stop' = FALSE /\ mem' = Blank
  /\ \E d \in 0..MaxBackoff : disk' = Later(disk, d)
  /\ starts' = 1 /\ window' = StartInterval
  /\ UNCHANGED <<logVars, world, flips, losses>>

(* systemctl stop: SIGTERM to the process, or no restart if it is down.    *)
Terminate ==
  /\ \/ pc \in Alive /\ ~stop /\ stop' = TRUE /\ UNCHANGED pc
     \/ pc = "failed" /\ pc' = "stopped" /\ UNCHANGED stop
  /\ UNCHANGED <<mem, disk, unitVars, logVars, envVars>>

(* The worker, its journal, the collector or the SSH path changed.         *)
Flip ==
  /\ flips < MaxFlips
  /\ flips' = flips + 1
  /\ world' \in Observations \ {world}
  /\ UNCHANGED <<procVars, unitVars, logVars, crashes, losses>>

Send    == SendAccepted \/ SendAmbiguous \/ SendRefused
Process == Load \/ Poll \/ Save \/ Send \/ Resave \/ Sleep \/ Quit
Next    == Process \/ Restart \/ Crash \/ Boot \/ Terminate \/ Flip

Spec == Init /\ [][Next]_vars

(* The process keeps running, systemd restarts it, and a receiver that is  *)
(* tried for ever accepts some day (the code can only keep trying).        *)
Fairness == WF_vars(Process) /\ WF_vars(Restart) /\ SF_vars(SendAccepted)

FairSpec == Spec /\ Fairness

-----------------------------------------------------------------------------
TypeOK ==
  /\ mem \in States /\ disk \in States
  /\ world \in Observations /\ pc \in PCs /\ stop \in BOOLEAN
  /\ starts \in Nat /\ window \in 0..StartInterval
  /\ received \in Seq(Alerts) /\ raised \in Seq(Alerts) /\ minted \in Nat
  /\ streak \in [issues : Keys, length : 0..OpenPolls]
  /\ flips \in 0..MaxFlips /\ crashes \in 0..MaxCrashes /\ losses \in 0..MaxLosses

(* Whatever the process made durable, at whatever point it died, the next  *)
(* start accepts: the validator of state.json and the code that writes it  *)
(* agree on every bound, so a restart never refuses its own state.         *)
PersistedStateIsAccepted == ValidState(disk)

(* A log split into what the inbox already holds and the queue that follows. *)
Accounts(log, queue, inbox) ==
  /\ Len(queue) <= Len(log)
  /\ \A i \in 1..Len(queue) : queue[i] = log[Len(log) - Len(queue) + i]
  /\ \A i \in 1..(Len(log) - Len(queue)) : \E j \in 1..Len(inbox) : inbox[j] = log[i]

(* No alert is dropped: the queue in state.json is the tail of the log of  *)
(* everything that was ever made durable, and whatever is not in it any    *)
(* more has reached the receiver.                                          *)
NothingDropped == Accounts(raised, disk.queue, received)

(* The newest alert of the log says what state.json holds as confirmed:    *)
(* the incident the operator will be told last is the one the monitor      *)
(* believes in, across every crash between a poll and its save.            *)
NewestAlertIsConfirmed ==
  IF raised = <<>> THEN disk.confirmed \in {NoKey, {}}
  ELSE raised[Len(raised)].issues = disk.confirmed

(* Hysteresis: an alert becomes durable only with the poll that completes  *)
(* an uninterrupted run of equal observations, three for an incident and   *)
(* two for a recovery, however often the process restarted in between.  A  *)
(* poll whose process died before its save does not interrupt a run: the   *)
(* code never knew of it.                                                  *)
Hysteresis ==
  [][raised' # raised =>
       LET what == raised'[Len(raised')].issues
       IN  streak'.issues = what /\ streak'.length >= Needed(what)]_vars

(* An alert the receiver has may still wait in the queue, when the answer  *)
(* or the save after it was lost.                                          *)
HeadSeen ==
  /\ disk.queue # <<>> /\ received # <<>>
  /\ received[Len(received)] = Head(disk.queue)

Log == INSTANCE AlertLog WITH
         inbox <- received,
         delivered <- Len(raised) - Len(disk.queue) + (IF HeadSeen THEN 1 ELSE 0)

(* The monitor, files, counters and restarts included, behaves as the log  *)
(* of AlertLog: alerts arrive in order and at least once, none before it   *)
(* is durable, and only the latest is repeated, with the id it had.        *)
ImplementsAlertLog == Log!Spec

(* The start limit stops the observer for good only with a full queue, as  *)
(* long as nothing kills its process.                                      *)
HaltsOnlyWhenFull ==
  pc = "halted" => crashes > 0 \/ Len(disk.queue) >= QueueLimit

(* What the operator believes from the latest message.                     *)
View == IF received = <<>> THEN {} ELSE received[Len(received)].issues

Down == pc \in {"halted", "stopped"}

(* Once observations settle, the operator's picture becomes and stays what *)
(* they say, through retries, lost answers and restarts, unless the        *)
(* observer is stopped or has used up its starts.                          *)
ViewConverges ==
  \A key \in Observations :
    <>[](world = key) => <>[](View = key) \/ <>[]Down

(* The backlog of an outage drains: retries go on until no alert is left   *)
(* in state.json, unless the observer ends up stopped.                     *)
BacklogDrains == <>[](disk.queue = <<>>) \/ <>[]Down

-----------------------------------------------------------------------------
(* Why the properties hold: what the process's state has to do with        *)
(* state.json at each step of a tick.  Proved inductive in                 *)
(* PayMonitorProofs.                                                       *)
Coherent(s) == s.initialized = (s.confirmed # NoKey) /\ Len(s.queue) <= QueueLimit

(* The persisted count never exceeds the run of polls it summarises.       *)
CountedRun(s) == s.count > 0 => s.candidate = streak.issues /\ s.count <= streak.length

(* After a poll the state differs from the file by at most one new alert.  *)
PolledState ==
  /\ mem.candidate \in Observations
  /\ mem.count <= 1 + (IF streak.issues = mem.candidate THEN streak.length ELSE 0)
  /\ \/ mem.queue = disk.queue /\ mem.confirmed = disk.confirmed
     \/ mem.queue = disk.queue /\ disk.confirmed = NoKey /\ mem.confirmed = {}
     \/ /\ mem.queue = Append(disk.queue, [id |-> minted, issues |-> mem.candidate])
        /\ mem.confirmed = mem.candidate
        /\ mem.count >= Needed(mem.candidate)

(* After an attempt it differs by at most the oldest alert, which the      *)
(* receiver then has.                                                      *)
SentState ==
  /\ mem.candidate = disk.candidate /\ mem.count = disk.count
  /\ mem.confirmed = disk.confirmed /\ mem.initialized = disk.initialized
  /\ \/ mem.queue = disk.queue
     \/ /\ disk.queue # <<>> /\ mem.queue = Tail(disk.queue)
        /\ \E j \in 1..Len(received) : received[j] = Head(disk.queue)

WithinTick ==
  /\ pc \in {"poll", "send", "sleep"} => mem = disk
  /\ pc = "save" => PolledState
  /\ pc = "resave" => SentState

IInv ==
  /\ NothingDropped /\ NewestAlertIsConfirmed
  /\ Coherent(mem) /\ Coherent(disk) /\ CountedRun(disk)
  /\ WithinTick
=============================================================================
