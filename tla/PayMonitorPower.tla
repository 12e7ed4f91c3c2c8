--------------------------- MODULE PayMonitorPower ---------------------------
(***************************************************************************)
(* PayMonitor on a host that can lose power.  persist() in monitor.mjs     *)
(* syncs the temporary file and renames it, but never syncs the directory: *)
(* the rename is visible at once and durable only when the file system     *)
(* next commits it.  A power loss in between brings the previous           *)
(* state.json back, whole.  (A death of the process alone loses nothing:   *)
(* that is Crash of PayMonitor.)                                           *)
(***************************************************************************)
EXTENDS PayMonitor

CONSTANT MaxOutages        \* bound on power losses

VARIABLES settled,         \* state.json as a power loss would leave it
          outages

powerVars == <<vars, settled, outages>>

PowerInit == Init /\ settled = Blank /\ outages = 0

(* The file system commits the directory some time after a rename. *)
Commit ==
  /\ settled # disk /\ settled' = disk
  /\ UNCHANGED <<vars, outages>>

PowerLoss ==
  /\ outages < MaxOutages
  /\ outages' = outages + 1
  /\ \E d \in 0..MaxBackoff : disk' = Later(settled, d)
  /\ mem' = Blank /\ pc' = "load" /\ stop' = FALSE
  /\ starts' = 1 /\ window' = StartInterval
  /\ UNCHANGED <<settled, logVars, envVars>>

PowerNext == \/ Next /\ UNCHANGED <<settled, outages>>
             \/ Commit
             \/ PowerLoss

PowerSpec == PowerInit /\ [][PowerNext]_powerVars

(* A receiver that is told the same thing twice in a row is told so under  *)
(* the same id: the repetition can be recognised as a duplicate.           *)
RepeatsKeepTheirId ==
  \A i \in 1..(Len(received) - 1) :
    received[i].issues = received[i + 1].issues => received[i].id = received[i + 1].id
(* What a power loss cannot take: the receiver never gets an alert that no *)
(* completed poll had put into state.json, and an id stands for one alert  *)
(* only, whichever state.json comes back.                                  *)
NothingInvented ==
  \A i \in 1..Len(received) : \E j \in 1..Len(raised) : raised[j] = received[i]

IdsAreUnique ==
  \A i, j \in 1..Len(received) : received[i].id = received[j].id => received[i] = received[j]

-----------------------------------------------------------------------------
(* Why these and PersistedStateIsAccepted hold, proved inductive in        *)
(* PayMonitorProofs: both state files hold logged alerts only, and the     *)
(* state in memory follows from the file it was loaded from.               *)
Logged(log, queue) == \A i \in 1..Len(queue) : \E j \in 1..Len(log) : log[j] = queue[i]

Earlier(id) == \A i \in 1..Len(raised) : raised[i].id < id

SavedQueue ==
  \/ mem.queue = disk.queue
  \/ /\ mem.queue = Append(disk.queue, [id |-> minted, issues |-> mem.candidate])
     /\ mem.candidate \in Observations /\ Earlier(minted)

SentQueue ==
  mem.queue = disk.queue \/ (disk.queue # <<>> /\ mem.queue = Tail(disk.queue))

PowerInv ==
  /\ settled \in States
  /\ Coherent(mem) /\ Coherent(disk) /\ Coherent(settled)
  /\ Logged(raised, disk.queue) /\ Logged(raised, settled.queue) /\ Logged(raised, received)
  /\ \A i, j \in 1..Len(raised) : i < j => raised[i].id < raised[j].id
  /\ Earlier(minted + 1)
  /\ pc \in {"poll", "send", "sleep"} => mem = disk
  /\ pc = "save" => SavedQueue
  /\ pc = "resave" => SentQueue
=============================================================================
