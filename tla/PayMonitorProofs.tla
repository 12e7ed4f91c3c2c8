-------------------------- MODULE PayMonitorProofs --------------------------
(***************************************************************************)
(* What holds of PayMonitor for every set of observations and every value  *)
(* of its limits, by an inductive invariant.                               *)
(***************************************************************************)
EXTENDS PayMonitorPower, TLAPS

(* The operations of policy.mjs keep the state well formed. *)
LEMMA CountedType ==
  ASSUME NEW s \in States, NEW key \in Observations
  PROVE  /\ Counted(s, key) \in States
         /\ Counted(s, key).queue = s.queue
<1> DEFINE seen == IF s.candidate = key THEN s.count ELSE 0
           n == IF seen < OpenPolls THEN seen + 1 ELSE OpenPolls
<1>1. s.count \in 0..OpenPolls
  BY DEF States
<1>2. n \in 0..OpenPolls
  BY <1>1, LimitAssumption
<1> HIDE DEF n
<1>3. [s EXCEPT !.candidate = key, !.count = n] \in States
  BY <1>2 DEF States, Keys
<1>4. [s EXCEPT !.candidate = key, !.count = n].queue = s.queue
  BY DEF States
<1>5. QED
  BY <1>3, <1>4 DEF Counted, n

LEMMA ObserveType ==
  ASSUME NEW s \in States, NEW key \in Observations, NEW id \in Nat
  PROVE  Observe(s, key, id) \in States
<1> DEFINE c == Counted(s, key)
<1>1. c \in States
  BY CountedType
<1> HIDE DEF c
<1>2. [id |-> id, issues |-> key] \in Alerts
  BY DEF Alerts
<1>3. Append(c.queue, [id |-> id, issues |-> key]) \in Seq(Alerts) /\ c.queue \in Seq(Alerts)
  BY <1>1, <1>2 DEF States
<1>4. Confirmed(c, key, id) \in States
  BY <1>1, <1>3 DEF Confirmed, States, Keys
<1>5. QED
  BY <1>1, <1>4 DEF Observe, c

LEMMA RetryDelayType ==
  ASSUME NEW f \in Nat
  PROVE  RetryDelay(f) \in 0..MaxBackoff
  BY LimitAssumption DEF RetryDelay

LEMMA DeliveryTypes ==
  ASSUME NEW s \in States
  PROVE  /\ s.queue # <<>> => Delivered(s) \in States
         /\ Undelivered(s) \in States
<1>1. ASSUME s.queue # <<>> PROVE Delivered(s) \in States
  <2>1. Tail(s.queue) \in Seq(Alerts)
    BY <1>1 DEF States
  <2>2. 0 \in 0..MaxFailures /\ 0 \in 0..MaxBackoff
    BY LimitAssumption
  <2>3. QED
    BY <2>1, <2>2 DEF Delivered, States
<1>2. Undelivered(s) \in States
  <2> DEFINE f == IF s.failures < MaxFailures THEN s.failures + 1 ELSE MaxFailures
  <2>1. f \in 0..MaxFailures
    <3>1. s.failures \in 0..MaxFailures
      BY DEF States
    <3>2. QED
      BY <3>1, LimitAssumption
  <2>2. RetryDelay(f) \in 0..MaxBackoff
    BY <2>1, RetryDelayType, LimitAssumption
  <2> HIDE DEF f
  <2>3. [s EXCEPT !.failures = f, !.wait = RetryDelay(f)] \in States
    BY <2>1, <2>2 DEF States
  <2>4. QED
    BY <2>3 DEF Undelivered, f
<1>3. QED
  BY <1>1, <1>2

LEMMA LaterType ==
  ASSUME NEW s \in States, NEW d \in Nat
  PROVE  Later(s, d) \in States /\ Later(s, d).queue = s.queue
                 /\ Later(s, d).confirmed = s.confirmed
<1> DEFINE n == Remaining(s.wait, d)
<1>1. s.wait \in 0..MaxBackoff
  BY DEF States
<1>2. n \in 0..MaxBackoff
  BY <1>1, LimitAssumption DEF Remaining
<1> HIDE DEF n
<1>3. /\ [s EXCEPT !.wait = n] \in States
      /\ [s EXCEPT !.wait = n].queue = s.queue
      /\ [s EXCEPT !.wait = n].confirmed = s.confirmed
  BY <1>2 DEF States
<1>4. QED
  BY <1>3 DEF Later, n

LEMMA BlankType == Blank \in States
<1>1. 0 \in 0..MaxFailures /\ 0 \in 0..MaxBackoff /\ 0 \in 0..OpenPolls
  BY LimitAssumption
<1>2. QED
  BY <1>1 DEF Blank, States, Keys

-----------------------------------------------------------------------------
(* TypeOK is inductive only with the reason a send has something to send.  *)
Typed == TypeOK /\ (pc = "send" => mem.queue # <<>>)

LEMMA InitTyped == Init => Typed
<1> SUFFICES ASSUME Init PROVE Typed
  OBVIOUS
<1>1. mem \in States /\ disk \in States
  BY BlankType DEF Init
<1>2. received \in Seq(Alerts) /\ raised \in Seq(Alerts)
  BY DEF Init
<1>3. streak \in [issues : Keys, length : 0..OpenPolls]
  BY LimitAssumption DEF Init, Keys
<1>4. /\ flips \in 0..MaxFlips /\ crashes \in 0..MaxCrashes /\ losses \in 0..MaxLosses
      /\ starts \in Nat /\ window \in 0..StartInterval /\ minted \in Nat
  BY LimitAssumption DEF Init
<1>5. world \in Observations /\ pc \in PCs /\ stop \in BOOLEAN /\ pc # "send"
  BY DEF Init, PCs, Alive
<1>6. QED
  BY <1>1, <1>2, <1>3, <1>4, <1>5 DEF TypeOK, Typed

LEMMA PersistType ==
  ASSUME TypeOK, Persist
  PROVE  disk' \in States /\ raised' \in Seq(Alerts)
<1>1. mem.queue \in Seq(Alerts) /\ disk.queue \in Seq(Alerts)
  BY DEF TypeOK, States
<1>2. Len(mem.queue) > Len(disk.queue) => mem.queue[Len(mem.queue)] \in Alerts
  BY <1>1
<1>3. QED
  BY <1>2 DEF Persist, TypeOK

LEMMA AcceptType ==
  ASSUME TypeOK, mem.queue # <<>>, Accept
  PROVE  received' \in Seq(Alerts)
<1>1. mem.queue \in Seq(Alerts)
  BY DEF TypeOK, States
<1>2. QED
  BY <1>1 DEF Accept, TypeOK

LEMMA StepTyped == Typed /\ [Next]_vars => Typed'
<1> SUFFICES ASSUME TypeOK, pc = "send" => mem.queue # <<>>, [Next]_vars
             PROVE  TypeOK' /\ (pc' = "send" => mem'.queue # <<>>)
  BY DEF Typed
<1> USE DEF PCs, Alive, Dead, procVars, unitVars, logVars, envVars
<1>1. CASE Load
  BY <1>1 DEF Load, TypeOK
<1>2. CASE Poll
  <2>1. mem' \in States
    BY <1>2, ObserveType, BlankType DEF Poll, TypeOK
  <2>2. minted' \in Nat
    BY <1>2 DEF Poll, TypeOK
  <2>3. QED
    BY <1>2, <2>1, <2>2 DEF Poll, TypeOK
<1>3. CASE Save
  <2>1. mem.candidate \in Keys
    BY DEF TypeOK, States
  <2>2. streak'.length \in 0..OpenPolls
    BY <1>3, LimitAssumption DEF Save, TypeOK
  <2>3. streak' \in [issues : Keys, length : 0..OpenPolls]
    BY <1>3, <2>1, <2>2 DEF Save
  <2>4. disk' \in States /\ raised' \in Seq(Alerts)
    BY <1>3, PersistType DEF Save
  <2>5. QED
    BY <1>3, <2>3, <2>4 DEF Save, TypeOK
<1>4. CASE SendAccepted
  <2>1. received' \in Seq(Alerts)
    BY <1>4, AcceptType DEF SendAccepted
  <2>2. mem' \in States
    BY <1>4, DeliveryTypes DEF SendAccepted, TypeOK
  <2>3. QED
    BY <1>4, <2>1, <2>2 DEF SendAccepted, TypeOK
<1>5. CASE SendAmbiguous
  <2>1. received' \in Seq(Alerts)
    BY <1>5, AcceptType DEF SendAmbiguous
  <2>2. mem' \in States
    BY <1>5, DeliveryTypes DEF SendAmbiguous, TypeOK
  <2>3. losses' \in 0..MaxLosses
    BY <1>5, LimitAssumption DEF SendAmbiguous, TypeOK
  <2>4. QED
    BY <1>5, <2>1, <2>2, <2>3 DEF SendAmbiguous, TypeOK
<1>6. CASE SendRefused
  <2>1. mem' \in States
    BY <1>6, DeliveryTypes DEF SendRefused, TypeOK
  <2>2. QED
    BY <1>6, <2>1 DEF SendRefused, TypeOK
<1>7. CASE Resave
  <2>1. disk' \in States /\ raised' \in Seq(Alerts)
    BY <1>7, PersistType DEF Resave
  <2>2. QED
    BY <1>7, <2>1 DEF Resave, TypeOK
<1>8. CASE Sleep
  <2>1. PICK d \in 1..MaxCycle : Elapse(d)
    BY <1>8 DEF Sleep
  <2>2. mem' \in States /\ disk' \in States
    BY <2>1, LaterType, LimitAssumption DEF Elapse, TypeOK
  <2>3. window' \in 0..StartInterval
    BY <2>1, LimitAssumption DEF Elapse, Remaining, TypeOK
  <2>4. QED
    BY <1>8, <2>2, <2>3 DEF Sleep, TypeOK
<1>9. CASE Quit
  BY <1>9 DEF Quit, TypeOK
<1>10. CASE Restart
  <2>1. disk' \in States
    BY <1>10, LaterType, LimitAssumption DEF Restart, TypeOK
  <2>2. Remaining(window, RestartUnits) \in 0..StartInterval
    BY LimitAssumption DEF Remaining, TypeOK
  <2>3. window' \in 0..StartInterval /\ starts' \in Nat /\ pc' \in {"load", "halted"}
    BY <1>10, <2>2, LimitAssumption DEF Restart, TypeOK
  <2>4. QED
    BY <1>10, <2>1, <2>3 DEF Restart, TypeOK
<1>11. CASE Crash
  <2>1. crashes' \in 0..MaxCrashes
    BY <1>11, LimitAssumption DEF Crash, TypeOK
  <2>2. QED
    BY <1>11, <2>1, BlankType DEF Crash, TypeOK
<1>12. CASE Boot
  <2>1. crashes' \in 0..MaxCrashes /\ window' \in 0..StartInterval
    BY <1>12, LimitAssumption DEF Boot, TypeOK
  <2>2. PICK d \in 0..MaxBackoff : disk' = Later(disk, d)
    BY <1>12 DEF Boot
  <2>3. disk' \in States
    BY <2>2, LaterType, LimitAssumption DEF TypeOK
  <2>4. QED
    BY <1>12, <2>1, <2>3, BlankType DEF Boot, TypeOK
<1>13. CASE Terminate
  BY <1>13 DEF Terminate, TypeOK
<1>14. CASE Flip
  <2>1. flips' \in 0..MaxFlips
    BY <1>14, LimitAssumption DEF Flip, TypeOK
  <2>2. QED
    BY <1>14, <2>1 DEF Flip, TypeOK
<1>15. CASE UNCHANGED vars
  BY <1>15 DEF vars, TypeOK
<1>16. QED
  BY <1>1, <1>2, <1>3, <1>4, <1>5, <1>6, <1>7, <1>8, <1>9, <1>10, <1>11,
     <1>12, <1>13, <1>14, <1>15 DEF Next, Process, Send

(* Every variable keeps its type: the counters stay within the caps that   *)
(* validateState checks, whatever the sequence of polls, sends and deaths. *)
THEOREM TypeCorrect == Spec => []TypeOK
<1>1. Typed => TypeOK
  BY DEF Typed
<1>2. QED
  BY <1>1, InitTyped, StepTyped, PTL DEF Spec

-----------------------------------------------------------------------------
(* What one observation does to the state. *)
LEMMA CountedEffect ==
  ASSUME NEW s \in States, NEW key \in Observations
  PROVE  LET c == Counted(s, key)
         IN  /\ c \in States /\ c.candidate = key
             /\ c.count <= 1 + (IF s.candidate = key THEN s.count ELSE 0)
             /\ c.queue = s.queue /\ c.confirmed = s.confirmed
             /\ c.initialized = s.initialized
<1> DEFINE seen == IF s.candidate = key THEN s.count ELSE 0
           n == IF seen < OpenPolls THEN seen + 1 ELSE OpenPolls
           c == [s EXCEPT !.candidate = key, !.count = n]
<1>1. s.count \in 0..OpenPolls
  BY DEF States
<1>2. n <= 1 + seen
  BY <1>1, LimitAssumption
<1> HIDE DEF n
<1>3. /\ c.candidate = key /\ c.count = n /\ c.queue = s.queue
      /\ c.confirmed = s.confirmed /\ c.initialized = s.initialized
  BY DEF States
<1>4. c = Counted(s, key)
  BY DEF Counted, n
<1>5. QED
  BY <1>2, <1>3, <1>4, CountedType

LEMMA ConfirmedEffect ==
  ASSUME NEW c \in States, NEW key \in Observations, NEW id \in Nat
  PROVE  LET t == Confirmed(c, key, id)
         IN  /\ t.candidate = c.candidate /\ t.count = c.count
             /\ t.confirmed = key /\ t.initialized = TRUE
             /\ t.queue = IF Alarms(c, key)
                          THEN Append(c.queue, [id |-> id, issues |-> key]) ELSE c.queue
  BY DEF Confirmed, States

LEMMA ObserveEffect ==
  ASSUME NEW s \in States, Coherent(s), NEW key \in Observations, NEW id \in Nat,
         ~Overflows(s, key)
  PROVE  LET t == Observe(s, key, id)
         IN  /\ t.candidate = key
             /\ t.count <= 1 + (IF s.candidate = key THEN s.count ELSE 0)
             /\ Coherent(t)
             /\ \/ t.queue = s.queue /\ t.confirmed = s.confirmed
                \/ t.queue = s.queue /\ s.confirmed = NoKey /\ t.confirmed = {}
                \/ /\ Alarms(Counted(s, key), key)
                   /\ t.queue = Append(s.queue, [id |-> id, issues |-> key])
                   /\ t.confirmed = key /\ t.count >= Needed(key)
<1> DEFINE c == Counted(s, key)
           t == Observe(s, key, id)
<1>1. /\ c \in States /\ c.candidate = key
      /\ c.count <= 1 + (IF s.candidate = key THEN s.count ELSE 0)
      /\ c.queue = s.queue /\ c.confirmed = s.confirmed /\ c.initialized = s.initialized
  BY CountedEffect
<1>2. Alarms(c, key) => Len(c.queue) < QueueLimit
  <2>1. Len(c.queue) \in Nat
    BY <1>1 DEF States
  <2>2. QED
    BY <2>1, LimitAssumption DEF Overflows
<1>3. t = IF Confirms(c, key) THEN Confirmed(c, key, id) ELSE c
  BY DEF Observe
<1> HIDE DEF c, t
<1>4. CASE ~Confirms(c, key)
  BY <1>1, <1>3, <1>4 DEF Coherent, t, c
<1>5. CASE Confirms(c, key)
  <2>1. /\ t.candidate = key /\ t.count = c.count
        /\ t.confirmed = key /\ t.initialized = TRUE
        /\ t.queue = IF Alarms(c, key)
                     THEN Append(c.queue, [id |-> id, issues |-> key]) ELSE c.queue
    <3> DEFINE u == Confirmed(c, key, id)
    <3>1. /\ u.candidate = c.candidate /\ u.count = c.count
          /\ u.confirmed = key /\ u.initialized = TRUE
          /\ u.queue = IF Alarms(c, key)
                       THEN Append(c.queue, [id |-> id, issues |-> key]) ELSE c.queue
      <4>1. c \in States
        BY <1>1
      <4>2. QED
        BY <4>1, ConfirmedEffect, ZenonT(30)
    <3>2. t = u
      BY <1>3, <1>5
    <3> HIDE DEF u
    <3>3. QED
      BY <1>1, <3>1, <3>2
  <2>2. key # NoKey
    BY ObservationAssumption
  <2>3. CASE Alarms(c, key)
    <3>1. c.queue \in Seq(Alerts)
      BY <1>1 DEF States
    <3>2. Len(t.queue) = Len(c.queue) + 1
      BY <2>1, <2>3, <3>1
    <3>3. Len(t.queue) <= QueueLimit
      BY <3>1, <3>2, <1>2, <2>3, LimitAssumption
    <3>4. t.count >= Needed(key)
      BY <2>1, <2>3 DEF Alarms, Confirms
    <3>5. QED
      BY <1>1, <2>1, <2>2, <2>3, <3>3, <3>4 DEF Coherent, t, c
  <2>4. CASE ~Alarms(c, key)
    <3>1. key = {} /\ ~c.initialized
      BY <1>5, <2>4 DEF Alarms
    <3>2. s.confirmed = NoKey
      BY <1>1, <3>1 DEF Coherent
    <3>3. QED
      BY <1>1, <2>1, <2>2, <2>4, <3>1, <3>2 DEF Coherent, t, c
  <2>5. QED
    BY <2>3, <2>4
<1>6. QED
  BY <1>4, <1>5 DEF t

(* The three ways the log, the queue and the inbox grow and shrink. *)
LEMMA AccountsRaise ==
  ASSUME NEW S, NEW log \in Seq(S), NEW queue \in Seq(S), NEW inbox \in Seq(S), NEW a \in S,
         Accounts(log, queue, inbox)
  PROVE  Accounts(Append(log, a), Append(queue, a), inbox)
<1> DEFINE L == Append(log, a)
           Q == Append(queue, a)
<1>1. Len(L) = Len(log) + 1 /\ Len(Q) = Len(queue) + 1
  OBVIOUS
<1>2. Len(log) \in Nat /\ Len(queue) \in Nat /\ Len(queue) <= Len(log)
  BY DEF Accounts
<1>3. \A i \in 1..Len(log) : L[i] = log[i]
  OBVIOUS
<1>4. \A i \in 1..Len(queue) : Q[i] = queue[i]
  OBVIOUS
<1>5. L[Len(log) + 1] = a /\ Q[Len(queue) + 1] = a
  OBVIOUS
<1> HIDE DEF L, Q
<1>6. ASSUME NEW i \in 1..Len(Q) PROVE Q[i] = L[Len(L) - Len(Q) + i]
  <2>1. Len(L) - Len(Q) = Len(log) - Len(queue)
    BY <1>1, <1>2
  <2>2. CASE i = Len(queue) + 1
    BY <1>2, <1>5, <2>1, <2>2
  <2>3. CASE i \in 1..Len(queue)
    <3>1. Len(log) - Len(queue) + i \in 1..Len(log)
      BY <1>2, <2>3
    <3>2. queue[i] = log[Len(log) - Len(queue) + i]
      BY <2>3 DEF Accounts
    <3>3. QED
      BY <1>3, <1>4, <2>1, <2>3, <3>1, <3>2
  <2>4. QED
    BY <1>1, <1>2, <2>2, <2>3
<1>7. ASSUME NEW i \in 1..(Len(L) - Len(Q))
      PROVE  \E j \in 1..Len(inbox) : inbox[j] = L[i]
  <2>1. i \in 1..(Len(log) - Len(queue)) /\ i \in 1..Len(log)
    BY <1>1, <1>2
  <2>2. QED
    BY <1>3, <2>1 DEF Accounts
<1>8. Len(Q) <= Len(L)
  BY <1>1, <1>2
<1>9. Accounts(L, Q, inbox)
  BY <1>6, <1>7, <1>8 DEF Accounts
<1>10. QED
  BY <1>9 DEF L, Q

LEMMA AccountsRemove ==
  ASSUME NEW S, NEW log \in Seq(S), NEW queue \in Seq(S), NEW inbox \in Seq(S),
         Accounts(log, queue, inbox), queue # <<>>,
         NEW k \in 1..Len(inbox), inbox[k] = Head(queue)
  PROVE  Accounts(log, Tail(queue), inbox)
<1> DEFINE Q == Tail(queue)
<1>1. Len(Q) = Len(queue) - 1 /\ Len(queue) >= 1 /\ Head(queue) = queue[1]
  OBVIOUS
<1>2. Len(log) \in Nat /\ Len(queue) \in Nat /\ Len(queue) <= Len(log)
  BY DEF Accounts
<1>3. \A i \in 1..Len(Q) : Q[i] = queue[i + 1]
  OBVIOUS
<1> HIDE DEF Q
<1>4. ASSUME NEW i \in 1..Len(Q) PROVE Q[i] = log[Len(log) - Len(Q) + i]
  <2>1. i + 1 \in 1..Len(queue)
    BY <1>1, <1>2
  <2>2. queue[i + 1] = log[Len(log) - Len(queue) + (i + 1)]
    BY <2>1 DEF Accounts
  <2>3. Len(log) - Len(queue) + (i + 1) = Len(log) - Len(Q) + i
    BY <1>1, <1>2
  <2>4. QED
    BY <1>3, <2>2, <2>3
<1>5. ASSUME NEW i \in 1..(Len(log) - Len(Q))
      PROVE  \E j \in 1..Len(inbox) : inbox[j] = log[i]
  <2>1. CASE i \in 1..(Len(log) - Len(queue))
    BY <2>1 DEF Accounts
  <2>2. CASE i = Len(log) - Len(queue) + 1
    <3>1. 1 \in 1..Len(queue)
      BY <1>1, <1>2
    <3>2. queue[1] = log[i]
      BY <2>2, <3>1 DEF Accounts
    <3>3. QED
      BY <1>1, <3>2
  <2>3. QED
    BY <1>1, <1>2, <2>1, <2>2, SMTT(30)
<1>6. Len(Q) <= Len(log)
  BY <1>1, <1>2
<1>7. Accounts(log, Q, inbox)
  BY <1>4, <1>5, <1>6 DEF Accounts
<1>8. QED
  BY <1>7 DEF Q

LEMMA AccountsReceive ==
  ASSUME NEW S, NEW log \in Seq(S), NEW queue \in Seq(S), NEW inbox \in Seq(S), NEW a \in S,
         Accounts(log, queue, inbox)
  PROVE  Accounts(log, queue, Append(inbox, a))
<1> DEFINE B == Append(inbox, a)
<1>1. Len(B) = Len(inbox) + 1 /\ Len(inbox) \in Nat
  OBVIOUS
<1>2. \A j \in 1..Len(inbox) : B[j] = inbox[j]
  OBVIOUS
<1> HIDE DEF B
<1>3. \A j \in 1..Len(inbox) : j \in 1..Len(B)
  BY <1>1
<1>4. ASSUME NEW i \in 1..(Len(log) - Len(queue))
      PROVE  \E j \in 1..Len(B) : B[j] = log[i]
  <2>1. PICK j \in 1..Len(inbox) : inbox[j] = log[i]
    BY DEF Accounts
  <2>2. QED
    BY <1>2, <1>3, <2>1
<1>5. Accounts(log, queue, B)
  BY <1>4 DEF Accounts
<1>6. QED
  BY <1>5 DEF B

(* An alert the receiver accepts disturbs none of the properties. *)
LEMMA AcceptKeeps ==
  ASSUME Typed, IInv, mem.queue # <<>>, Accept, UNCHANGED <<disk, raised, streak>>
  PROVE  /\ NothingDropped' /\ NewestAlertIsConfirmed'
         /\ Coherent(disk)' /\ CountedRun(disk)'
         /\ \E j \in 1..Len(received') : received'[j] = Head(mem.queue)
<1>1. /\ mem.queue \in Seq(Alerts) /\ received \in Seq(Alerts)
      /\ raised \in Seq(Alerts) /\ disk.queue \in Seq(Alerts)
  BY DEF Typed, TypeOK, States
<1>2. Head(mem.queue) \in Alerts
  BY <1>1
<1>3. NothingDropped'
  BY <1>1, <1>2, AccountsReceive DEF IInv, NothingDropped, Accept
<1>4. /\ Len(received') \in 1..Len(received')
      /\ received'[Len(received')] = Head(mem.queue)
  BY <1>1, <1>2 DEF Accept
<1>5. QED
  BY <1>3, <1>4 DEF IInv, NewestAlertIsConfirmed, Coherent, CountedRun

(* Time passing changes nothing but the units left until the next attempt. *)
LEMMA LaterKeeps ==
  ASSUME NEW s \in States, NEW d \in Nat
  PROVE  LET t == Later(s, d)
         IN  /\ t.queue = s.queue /\ t.confirmed = s.confirmed
             /\ t.candidate = s.candidate /\ t.count = s.count
             /\ t.initialized = s.initialized
  BY DEF Later, States

LEMMA DiskLaterKeeps ==
  ASSUME Typed, IInv, NEW d \in Nat, disk' = Later(disk, d),
         UNCHANGED <<received, raised, streak>>
  PROVE  /\ NothingDropped' /\ NewestAlertIsConfirmed'
         /\ Coherent(disk)' /\ CountedRun(disk)'
<1>1. disk \in States
  BY DEF Typed, TypeOK
<1>2. /\ disk'.queue = disk.queue /\ disk'.confirmed = disk.confirmed
      /\ disk'.candidate = disk.candidate /\ disk'.count = disk.count
      /\ disk'.initialized = disk.initialized
  BY <1>1, LaterKeeps
<1>3. NothingDropped'
  BY <1>2 DEF IInv, NothingDropped
<1>4. NewestAlertIsConfirmed'
  BY <1>2 DEF IInv, NewestAlertIsConfirmed
<1>5. Coherent(disk)' /\ CountedRun(disk)'
  BY <1>2 DEF IInv, Coherent, CountedRun
<1>6. QED
  BY <1>3, <1>4, <1>5

(* The save after a poll: the file follows the state, and the log follows  *)
(* the queue.                                                              *)
LEMMA SaveKeeps ==
  ASSUME Typed, IInv, Save
  PROVE  IInv'
<1>1. /\ mem \in States /\ disk \in States /\ mem.queue \in Seq(Alerts)
      /\ disk.queue \in Seq(Alerts) /\ raised \in Seq(Alerts) /\ minted \in Nat
      /\ received \in Seq(Alerts) /\ mem.candidate \in Keys
  BY DEF Typed, TypeOK, States
<1>2. PolledState /\ disk' = mem /\ mem' = mem /\ received' = received /\ pc' # "save"
      /\ pc' \in {"send", "sleep"} /\ Persist
  BY DEF IInv, WithinTick, Save, Persist
<1>3. CountedRun(disk)'
  <2>1. streak.length \in 0..OpenPolls /\ mem.count \in 0..OpenPolls
    BY DEF Typed, TypeOK, States
  <2>2. /\ streak'.issues = mem.candidate
        /\ streak'.length = IF streak.issues # mem.candidate THEN 1
                            ELSE IF streak.length < OpenPolls THEN streak.length + 1
                            ELSE OpenPolls
    BY DEF Save
  <2>3. mem.count <= streak'.length
    BY <1>2, <2>1, <2>2, LimitAssumption DEF PolledState
  <2>4. QED
    BY <1>2, <2>2, <2>3 DEF CountedRun
<1>4. NothingDropped' /\ NewestAlertIsConfirmed'
  <2>2. CASE mem.queue = disk.queue
    <3>1. raised' = raised /\ disk'.queue = disk.queue
      BY <1>1, <1>2, <2>2 DEF Persist
    <3>2. NothingDropped'
      BY <1>2, <3>1 DEF IInv, NothingDropped
    <3>3. disk'.confirmed = disk.confirmed \/ (disk.confirmed = NoKey /\ disk'.confirmed = {})
      BY <1>1, <1>2, <2>2 DEF PolledState
    <3>4. raised # <<>> => raised[Len(raised)].issues # NoKey
      <4>1. raised # <<>> => raised[Len(raised)] \in Alerts
        BY <1>1
      <4>2. QED
        BY <4>1, ObservationAssumption DEF Alerts
    <3>5. NewestAlertIsConfirmed'
      BY <3>1, <3>3, <3>4 DEF IInv, NewestAlertIsConfirmed
    <3>6. QED
      BY <3>2, <3>5
  <2>3. CASE mem.queue # disk.queue
    <3> DEFINE a == [id |-> minted, issues |-> mem.candidate]
    <3>1. /\ mem.queue = Append(disk.queue, a)
          /\ mem.confirmed = mem.candidate /\ mem.count >= Needed(mem.candidate)
      BY <1>2, <2>3 DEF PolledState
    <3>2. /\ Len(mem.queue) = Len(disk.queue) + 1
          /\ mem.queue[Len(mem.queue)] = a
          /\ \A i \in 1..Len(disk.queue) : mem.queue[i] = disk.queue[i]
      BY <1>1, <3>1
    <3>3. raised' = Append(raised, a)
      BY <1>1, <1>2, <3>2 DEF Persist
    <3> HIDE DEF a
    <3>4. /\ Len(raised') = Len(raised) + 1 /\ raised'[Len(raised')] = a
          /\ \A i \in 1..Len(raised) : raised'[i] = raised[i]
          /\ raised' # <<>>
      BY <1>1, <3>3
    <3>8. NothingDropped'
      <4>1. a \in Alerts
        BY <1>1, <1>2 DEF PolledState, Alerts, a
      <4>2. Append(disk.queue, a) = mem.queue
        BY <3>1 DEF a
      <4>3. QED
        BY <1>1, <1>2, <3>3, <4>1, <4>2, AccountsRaise DEF IInv, NothingDropped
    <3>9. NewestAlertIsConfirmed'
      BY <1>2, <3>1, <3>4 DEF NewestAlertIsConfirmed, a
    <3>10. QED
      BY <3>8, <3>9
  <2>4. QED
    BY <2>2, <2>3
<1>5. Coherent(mem)' /\ Coherent(disk)'
  BY <1>2 DEF IInv, Coherent
<1>6. WithinTick'
  BY <1>2 DEF WithinTick
<1>7. QED
  BY <1>3, <1>4, <1>5, <1>6 DEF IInv

(* The save after an attempt: at most the oldest alert leaves the file, and *)
(* the receiver has it.                                                    *)
LEMMA ResaveKeeps ==
  ASSUME Typed, IInv, Resave
  PROVE  IInv'
<1>1. /\ mem.queue \in Seq(Alerts) /\ disk.queue \in Seq(Alerts)
      /\ raised \in Seq(Alerts) /\ received \in Seq(Alerts)
  BY DEF Typed, TypeOK, States
<1>2. SentState /\ disk' = mem /\ mem' = mem /\ received' = received
      /\ streak' = streak /\ pc' = "sleep" /\ Persist
  BY DEF IInv, WithinTick, Resave, Persist
<1>3. CountedRun(disk)' /\ Coherent(mem)' /\ Coherent(disk)' /\ WithinTick'
  BY <1>2 DEF IInv, CountedRun, Coherent, SentState, WithinTick
<1>4. CASE mem.queue = disk.queue
  <2>1. raised' = raised /\ disk'.queue = disk.queue /\ disk'.confirmed = disk.confirmed
    BY <1>1, <1>2, <1>4 DEF Persist, SentState
  <2>2. NothingDropped' /\ NewestAlertIsConfirmed'
    BY <1>2, <2>1 DEF IInv, NothingDropped, NewestAlertIsConfirmed
  <2>3. QED
    BY <1>3, <2>2 DEF IInv
<1>5. CASE mem.queue # disk.queue
  <2>2. /\ disk.queue # <<>> /\ mem.queue = Tail(disk.queue)
        /\ \E j \in 1..Len(received) : received[j] = Head(disk.queue)
    BY <1>2, <1>5 DEF SentState
  <2>3. /\ Len(mem.queue) = Len(disk.queue) - 1 /\ Len(disk.queue) >= 1
        /\ Head(disk.queue) = disk.queue[1]
        /\ \A i \in 1..Len(mem.queue) : mem.queue[i] = disk.queue[i + 1]
    BY <1>1, <2>2
  <2>4. raised' = raised
    BY <1>1, <1>2, <2>3 DEF Persist
  <2>8. NothingDropped'
    BY <1>1, <1>2, <2>2, <2>4, AccountsRemove DEF IInv, NothingDropped
  <2>9. NewestAlertIsConfirmed'
    BY <1>2, <2>4 DEF IInv, NewestAlertIsConfirmed, SentState
  <2>10. QED
    BY <1>3, <2>8, <2>9 DEF IInv
<1>6. QED
  BY <1>4, <1>5

LEMMA BlankCoherent == Coherent(Blank) /\ CountedRun(Blank)
<1>1. /\ Blank.initialized = FALSE /\ Blank.confirmed = NoKey
      /\ Blank.queue = <<>> /\ Blank.count = 0
  BY DEF Blank
<1>2. Blank.initialized = (Blank.confirmed # NoKey)
  BY <1>1, Zenon
<1>3. Len(Blank.queue) <= QueueLimit
  BY <1>1, LimitAssumption
<1>4. CountedRun(Blank)
  BY <1>1 DEF CountedRun
<1>5. QED
  BY <1>2, <1>3, <1>4 DEF Coherent

LEMMA PollKeeps ==
  ASSUME Typed, IInv, Poll
  PROVE  IInv'
<1>1. /\ mem \in States /\ mem = disk /\ Coherent(mem) /\ world \in Observations
      /\ minted \in Nat /\ minted + 1 \in Nat /\ Coherent(Blank)
  BY BlankCoherent DEF Typed, TypeOK, IInv, WithinTick, Poll
<1>2. NothingDropped' /\ NewestAlertIsConfirmed' /\ Coherent(disk)' /\ CountedRun(disk)'
  BY DEF IInv, Poll, NothingDropped, NewestAlertIsConfirmed, Coherent, CountedRun
<1>3. CASE Overflows(mem, world)
  <2>1. mem' = Blank /\ pc' \in {"failed", "stopped"}
    BY <1>3 DEF Poll, Dead
  <2>2. Coherent(mem)'
    BY <1>1, <2>1 DEF Coherent
  <2>3. QED
    BY <1>2, <2>1, <2>2 DEF IInv, WithinTick
<1>4. CASE ~Overflows(mem, world)
  <2> DEFINE t == Observe(mem, world, minted + 1)
  <2>1. /\ mem' = t /\ pc' = "save" /\ disk' = disk /\ streak' = streak
        /\ Alarms(Counted(mem, world), world) => minted' = minted + 1
    BY <1>4 DEF Poll
  <2>2. /\ t.candidate = world
        /\ t.count <= 1 + (IF mem.candidate = world THEN mem.count ELSE 0)
        /\ Coherent(t)
        /\ \/ t.queue = mem.queue /\ t.confirmed = mem.confirmed
           \/ t.queue = mem.queue /\ mem.confirmed = NoKey /\ t.confirmed = {}
           \/ /\ Alarms(Counted(mem, world), world)
              /\ t.queue = Append(mem.queue, [id |-> minted + 1, issues |-> world])
              /\ t.confirmed = world /\ t.count >= Needed(world)
    BY <1>1, <1>4, ObserveEffect
  <2>3. t \in States
    BY <1>1, ObserveType
  <2> HIDE DEF t
  <2>4. Coherent(mem)'
    BY <2>1, <2>2 DEF Coherent
  <2>5. t.count <= 1 + (IF streak.issues = world THEN streak.length ELSE 0)
    <3>1. /\ mem.count \in Nat /\ streak.length \in Nat /\ t.count \in Nat
          /\ mem.count > 0 => mem.candidate = streak.issues /\ mem.count <= streak.length
      BY <1>1, <2>3, LimitAssumption DEF Typed, TypeOK, States, IInv, CountedRun
    <3>2. QED
      BY <2>2, <3>1
  <2>6. PolledState'
    BY <1>1, <2>1, <2>2, <2>5 DEF PolledState, Needed
  <2>7. QED
    BY <1>2, <2>1, <2>4, <2>6 DEF IInv, WithinTick
<1>5. QED
  BY <1>3, <1>4

LEMMA SendKeeps ==
  ASSUME Typed, IInv, Send
  PROVE  IInv'
<1>1. /\ mem \in States /\ mem = disk /\ mem.queue # <<>> /\ disk' = disk
      /\ raised' = raised /\ streak' = streak /\ pc' = "resave"
  BY DEF Typed, TypeOK, IInv, WithinTick, Send, SendAccepted, SendAmbiguous, SendRefused, logVars
<1>2. Coherent(mem)
  BY DEF IInv
<1>3. ASSUME mem' = Undelivered(mem) PROVE SentState' /\ Coherent(mem)'
  <2>1. /\ mem'.candidate = mem.candidate /\ mem'.count = mem.count
        /\ mem'.confirmed = mem.confirmed /\ mem'.initialized = mem.initialized
        /\ mem'.queue = mem.queue
    BY <1>1, <1>3 DEF Undelivered, States
  <2>2. QED
    BY <1>1, <1>2, <2>1 DEF SentState, Coherent
<1>4. CASE SendAccepted
  <2>1. /\ NothingDropped' /\ NewestAlertIsConfirmed'
        /\ Coherent(disk)' /\ CountedRun(disk)'
        /\ \E j \in 1..Len(received') : received'[j] = Head(mem.queue)
    BY <1>1, <1>4, AcceptKeeps DEF SendAccepted
  <2>2. /\ mem'.candidate = mem.candidate /\ mem'.count = mem.count
        /\ mem'.confirmed = mem.confirmed /\ mem'.initialized = mem.initialized
        /\ mem'.queue = Tail(mem.queue)
    BY <1>1, <1>4 DEF SendAccepted, Delivered, States
  <2>3. SentState'
    BY <1>1, <2>1, <2>2 DEF SentState
  <2>4. Coherent(mem)'
    <3>1. mem.queue \in Seq(Alerts)
      BY <1>1 DEF States
    <3>2. Len(Tail(mem.queue)) <= Len(mem.queue)
      BY <1>1, <3>1
    <3>3. Len(mem.queue) \in Nat /\ Len(Tail(mem.queue)) \in Nat
      BY <1>1, <3>1
    <3>4. QED
      BY <1>2, <2>2, <3>2, <3>3, LimitAssumption DEF Coherent
  <2>5. QED
    BY <1>1, <2>1, <2>3, <2>4 DEF IInv, WithinTick
<1>5. CASE SendAmbiguous
  <2>1. /\ NothingDropped' /\ NewestAlertIsConfirmed'
        /\ Coherent(disk)' /\ CountedRun(disk)'
    BY <1>1, <1>5, AcceptKeeps DEF SendAmbiguous
  <2>2. QED
    BY <1>1, <1>3, <1>5, <2>1 DEF SendAmbiguous, IInv, WithinTick
<1>6. CASE SendRefused
  <2>1. received' = received /\ mem' = Undelivered(mem)
    BY <1>6 DEF SendRefused, logVars
  <2>2. /\ NothingDropped' /\ NewestAlertIsConfirmed'
        /\ Coherent(disk)' /\ CountedRun(disk)'
    BY <1>1, <2>1 DEF IInv, NothingDropped, NewestAlertIsConfirmed, Coherent, CountedRun
  <2>3. QED
    BY <1>1, <1>3, <2>1, <2>2 DEF IInv, WithinTick
<1>7. QED
  BY <1>4, <1>5, <1>6 DEF Send

(* The steps that touch neither the log nor what the file says. *)
LEMMA OtherStepsKeep ==
  ASSUME Typed, IInv,
         Load \/ Sleep \/ Quit \/ Restart \/ Crash \/ Boot \/ Terminate \/ Flip \/ UNCHANGED vars
  PROVE  IInv'
<1> USE DEF Dead, Alive, procVars, unitVars, logVars, envVars
<1>1. Coherent(Blank)
  BY BlankCoherent
<1>2. UNCHANGED <<received, raised, streak>>
  BY DEF Load, Sleep, Quit, Restart, Crash, Boot, Terminate, Flip, vars
<1>3. ASSUME disk' = disk
      PROVE  NothingDropped' /\ NewestAlertIsConfirmed' /\ Coherent(disk)' /\ CountedRun(disk)'
  BY <1>2, <1>3 DEF IInv, NothingDropped, NewestAlertIsConfirmed, Coherent, CountedRun
<1>4. CASE Load
  BY <1>3, <1>4 DEF Load, IInv, Coherent, WithinTick
<1>5. CASE Sleep
  <2>1. PICK d \in 1..MaxCycle : Elapse(d)
    BY <1>5 DEF Sleep
  <2>2. d \in Nat /\ mem' = Later(mem, d) /\ disk' = Later(disk, d) /\ mem = disk /\ pc' = "poll"
    BY <1>5, <2>1, LimitAssumption DEF Elapse, Sleep, IInv, WithinTick
  <2>3. NothingDropped' /\ NewestAlertIsConfirmed' /\ Coherent(disk)' /\ CountedRun(disk)'
    BY <1>2, <2>2, DiskLaterKeeps
  <2>4. Coherent(mem)' /\ WithinTick'
    BY <2>2, <2>3 DEF Coherent, WithinTick
  <2>5. QED
    BY <2>3, <2>4 DEF IInv
<1>6. CASE Quit
  BY <1>3, <1>6 DEF Quit, IInv, Coherent, WithinTick
<1>7. CASE Restart
  <2>1. disk' = Later(disk, RestartUnits) /\ mem' = mem /\ pc' \in {"load", "halted"}
    BY <1>7 DEF Restart
  <2>2. NothingDropped' /\ NewestAlertIsConfirmed' /\ Coherent(disk)' /\ CountedRun(disk)'
    BY <1>2, <2>1, DiskLaterKeeps, LimitAssumption
  <2>3. QED
    BY <2>1, <2>2 DEF IInv, Coherent, WithinTick
<1>8. CASE Crash
  BY <1>1, <1>3, <1>8 DEF Crash, IInv, Coherent, WithinTick
<1>9. CASE Boot
  <2>1. PICK d \in 0..MaxBackoff : disk' = Later(disk, d)
    BY <1>9 DEF Boot
  <2>2. NothingDropped' /\ NewestAlertIsConfirmed' /\ Coherent(disk)' /\ CountedRun(disk)'
    BY <1>2, <2>1, DiskLaterKeeps, LimitAssumption
  <2>3. QED
    BY <1>1, <1>9, <2>2 DEF Boot, IInv, Coherent, WithinTick
<1>10. CASE Terminate
  BY <1>3, <1>10 DEF Terminate, IInv, Coherent, WithinTick, PolledState, SentState
<1>11. CASE Flip
  BY <1>3, <1>11 DEF Flip, IInv, Coherent, WithinTick, PolledState, SentState
<1>12. CASE UNCHANGED vars
  BY <1>3, <1>12 DEF vars, IInv, Coherent, WithinTick, PolledState, SentState
<1>13. QED
  BY <1>4, <1>5, <1>6, <1>7, <1>8, <1>9, <1>10, <1>11, <1>12

LEMMA InitIInv == Init => IInv
<1> SUFFICES ASSUME Init PROVE IInv
  OBVIOUS
<1>1. mem = Blank /\ disk = Blank /\ raised = <<>> /\ received = <<>> /\ pc = "load"
  BY DEF Init
<1>2. NothingDropped
  BY <1>1 DEF NothingDropped, Accounts, Blank
<1>3. NewestAlertIsConfirmed
  BY <1>1 DEF NewestAlertIsConfirmed, Blank
<1>4. Coherent(mem) /\ Coherent(disk) /\ CountedRun(disk)
  BY <1>1, BlankCoherent DEF Coherent, CountedRun
<1>5. WithinTick
  BY <1>1 DEF WithinTick
<1>6. QED
  BY <1>2, <1>3, <1>4, <1>5 DEF IInv

LEMMA StepIInv == Typed /\ IInv /\ [Next]_vars => IInv'
  BY SaveKeeps, ResaveKeeps, PollKeeps, SendKeeps, OtherStepsKeep DEF Next, Process

(* The validator and the code that writes the file agree on every bound. *)
LEMMA CoherentIsAccepted ==
  ASSUME disk \in States, Coherent(disk)
  PROVE  PersistedStateIsAccepted
<1>1. Len(disk.queue) <= QueueLimit
  BY DEF Coherent
<1>2. /\ disk.candidate \in Keys /\ disk.confirmed \in Keys /\ disk.queue \in Seq(Alerts)
      /\ disk.count \in 0..OpenPolls /\ disk.failures \in 0..MaxFailures
      /\ disk.wait \in 0..MaxBackoff
  BY DEF States
<1>3. disk.wait \in 0..MaxRetryAhead
  BY <1>2, LimitAssumption
<1>4. \A i \in 1..Len(disk.queue) : disk.queue[i].issues \in Observations
  <2>1. \A i \in 1..Len(disk.queue) : disk.queue[i] \in Alerts
    BY <1>2
  <2>2. QED
    BY <2>1 DEF Alerts
<1>5. QED
  BY <1>1, <1>2, <1>3, <1>4, ObservationAssumption
     DEF PersistedStateIsAccepted, ValidState, Keys

LEMMA StateIsAccepted ==
  ASSUME Typed, IInv
  PROVE  PersistedStateIsAccepted
BY CoherentIsAccepted DEF Typed, TypeOK, IInv

LEMMA Invariant == Spec => [](Typed /\ IInv)
  BY InitTyped, InitIInv, StepTyped, StepIInv, PTL DEF Spec

-----------------------------------------------------------------------------
(* No alert that was made durable is ever dropped: it is in state.json or  *)
(* the receiver has it, for every schedule of polls, attempts, lost        *)
(* answers and deaths, and for every queue limit.                          *)
THEOREM NoAlertDropped == Spec => []NothingDropped
<1>1. IInv => NothingDropped
  BY DEF IInv
<1>2. QED
  BY <1>1, Invariant, PTL

(* The incident the operator hears of last is the one state.json confirms. *)
THEOREM LogFollowsConfirmed == Spec => []NewestAlertIsConfirmed
<1>1. IInv => NewestAlertIsConfirmed
  BY DEF IInv
<1>2. QED
  BY <1>1, Invariant, PTL

(* validateState accepts every state.json the process can leave behind.    *)
THEOREM RestartAcceptsState == Spec => []PersistedStateIsAccepted
<1>1. Typed /\ IInv => PersistedStateIsAccepted
  BY StateIsAccepted
<1>2. QED
  BY <1>1, Invariant, PTL

(* An alert needs its full run of equal observations, across restarts.     *)
THEOREM AlertsAreSustained == Spec => Hysteresis
<1>1. ASSUME Typed, IInv, [Next]_vars, raised' # raised
      PROVE  LET what == raised'[Len(raised')].issues
             IN  streak'.issues = what /\ streak'.length >= Needed(what)
  <2>1. CASE Save
    <3>1. /\ mem.queue \in Seq(Alerts) /\ disk.queue \in Seq(Alerts) /\ raised \in Seq(Alerts)
          /\ streak.length \in 0..OpenPolls /\ mem.count \in 0..OpenPolls /\ minted \in Nat
      BY <1>1 DEF Typed, TypeOK, States
    <3>2. PolledState /\ Persist
      BY <1>1, <2>1 DEF IInv, WithinTick, Save
    <3>3. mem.queue # disk.queue
      BY <1>1, <3>1, <3>2 DEF Persist
    <3> DEFINE a == [id |-> minted, issues |-> mem.candidate]
    <3>4. mem.queue = Append(disk.queue, a) /\ mem.count >= Needed(mem.candidate)
      BY <3>2, <3>3 DEF PolledState
    <3>5. raised' = Append(raised, a)
      BY <3>1, <3>2, <3>4 DEF Persist
    <3>6. raised'[Len(raised')] = a
      BY <3>1, <3>5
    <3>7. /\ streak'.issues = mem.candidate
          /\ streak'.length = IF streak.issues # mem.candidate THEN 1
                              ELSE IF streak.length < OpenPolls THEN streak.length + 1
                              ELSE OpenPolls
      BY <2>1 DEF Save
    <3>8. mem.count <= streak'.length
      BY <3>1, <3>2, <3>7, LimitAssumption DEF PolledState
    <3>9. Needed(mem.candidate) \in Nat /\ streak'.length \in Nat
      BY <3>1, <3>7, LimitAssumption DEF Needed
    <3>10. QED
      BY <3>1, <3>4, <3>6, <3>7, <3>8, <3>9
  <2>2. CASE Resave
    <3>1. /\ mem.queue \in Seq(Alerts) /\ disk.queue \in Seq(Alerts)
          /\ SentState /\ Persist
      BY <1>1, <2>2 DEF Typed, TypeOK, States, IInv, WithinTick, Resave
    <3>2. Len(mem.queue) <= Len(disk.queue)
      <4>1. disk.queue # <<>> => Len(Tail(disk.queue)) <= Len(disk.queue)
        BY <3>1
      <4>2. Len(disk.queue) <= Len(disk.queue)
        BY <3>1
      <4>3. QED
        BY <3>1, <4>1, <4>2 DEF SentState
    <3>3. QED
      BY <1>1, <3>1, <3>2 DEF Persist
  <2>3. raised' = raised \/ Save \/ Resave
    BY <1>1 DEF Next, Process, Send, Load, Poll, SendAccepted, SendAmbiguous, SendRefused,
                Sleep, Quit, Restart, Crash, Boot, Terminate, Flip, vars, logVars
  <2>4. QED
    BY <1>1, <2>1, <2>2, <2>3
<1>2. QED
  BY <1>1, Invariant, PTL DEF Spec, Hysteresis
-----------------------------------------------------------------------------
(* What ends a process that nothing kills: only a poll that would push an  *)
(* alert into a full queue.  Its own file never makes it refuse to start.  *)
Unkilled == pc \in {"failed", "halted"} => crashes > 0 \/ Len(disk.queue) >= QueueLimit

LEMMA OverflowNeedsFullQueue ==
  ASSUME NEW s \in States, NEW key \in Observations, Overflows(s, key)
  PROVE  Len(s.queue) >= QueueLimit
  BY CountedType DEF Overflows

LEMMA StepUnkilled == Typed /\ IInv /\ Unkilled /\ [Next]_vars => Unkilled'
<1> SUFFICES ASSUME Typed, IInv, Unkilled, [Next]_vars PROVE Unkilled'
  OBVIOUS
<1> USE DEF Alive, Dead, procVars, unitVars, logVars, envVars
<1>1. CASE Load
  <2>1. ValidState(disk)
    BY StateIsAccepted DEF PersistedStateIsAccepted
  <2>2. pc' \in {"stopped", "poll"}
    BY <1>1, <2>1 DEF Load
  <2>3. QED
    BY <2>2 DEF Unkilled
<1>2. CASE Poll
  <2>1. CASE Overflows(mem, world)
    <3>1. mem = disk /\ mem \in States /\ world \in Observations
      BY <1>2 DEF Poll, IInv, WithinTick, Typed, TypeOK
    <3>2. Len(disk.queue) >= QueueLimit /\ disk' = disk
      BY <1>2, <2>1, <3>1, OverflowNeedsFullQueue DEF Poll
    <3>3. QED
      BY <3>2 DEF Unkilled
  <2>2. CASE ~Overflows(mem, world)
    BY <1>2, <2>2 DEF Poll, Unkilled
  <2>3. QED
    BY <2>1, <2>2
<1>3. CASE Save \/ Send \/ Resave \/ Sleep \/ Quit
  BY <1>3 DEF Save, Send, SendAccepted, SendAmbiguous, SendRefused, Resave, Sleep, Quit, Unkilled
<1>4. CASE Restart
  <2>1. /\ pc = "failed" /\ disk' = Later(disk, RestartUnits) /\ crashes' = crashes
        /\ disk \in States /\ RestartUnits \in Nat
    BY <1>4, LimitAssumption DEF Restart, Typed, TypeOK
  <2>2. disk'.queue = disk.queue
    BY <2>1, LaterType
  <2>3. QED
    BY <2>1, <2>2 DEF Unkilled
<1>5. CASE Crash \/ Boot
  <2>1. crashes' > 0
    BY <1>5, LimitAssumption DEF Crash, Boot, Typed, TypeOK
  <2>2. QED
    BY <2>1 DEF Unkilled
<1>6. CASE Terminate \/ Flip \/ UNCHANGED vars
  BY <1>6 DEF Terminate, Flip, vars, Unkilled
<1>7. QED
  BY <1>1, <1>2, <1>3, <1>4, <1>5, <1>6 DEF Next, Process

(* The start limit puts the observer out of service only with a queue that *)
(* is full, unless something else killed its process: no state the polls   *)
(* and the receiver can bring about uses up the starts otherwise.          *)
THEOREM HaltsAloneOnlyWhenFull == Spec => []HaltsOnlyWhenFull
<1>1. Init => Unkilled
  BY DEF Init, Unkilled
<1>2. Unkilled => HaltsOnlyWhenFull
  BY DEF Unkilled, HaltsOnlyWhenFull
<1>3. QED
  BY <1>1, <1>2, StepUnkilled, Invariant, PTL DEF Spec
-----------------------------------------------------------------------------
(* The refinement of AlertLog rests on the ids: they grow with the log, so *)
(* the alert at the head of the queue can be told from all others.         *)
Fresh(n) ==
  /\ \A i \in 1..Len(raised) : raised[i].id <= n
  /\ \A j \in 1..Len(received) : received[j].id <= n

Ordered == \A i, j \in 1..Len(raised) : i < j => raised[i].id < raised[j].id

Differs(s, key) == key # s.confirmed /\ (s.confirmed = NoKey => key # {})

Identified ==
  /\ Ordered /\ Fresh(minted)
  /\ pc = "save" /\ mem.queue # disk.queue => Fresh(minted - 1) /\ Differs(disk, mem.candidate)
  /\ pc = "resave" /\ mem.queue # disk.queue => HeadSeen

LEMMA AlertIds ==
  ASSUME NEW log \in Seq(Alerts)
  PROVE  \A i \in 1..Len(log) : log[i] \in Alerts /\ log[i].id \in Nat
<1> SUFFICES ASSUME NEW i \in 1..Len(log) PROVE log[i] \in Alerts /\ log[i].id \in Nat
  OBVIOUS
<1>1. log[i] \in Alerts
  OBVIOUS
<1>2. QED
  BY <1>1 DEF Alerts

LEMMA AlarmDiffers ==
  ASSUME NEW s \in States, Coherent(s), NEW key \in Observations,
         Alarms(Counted(s, key), key)
  PROVE  Differs(s, key)
<1>1. /\ Counted(s, key).confirmed = s.confirmed
      /\ Counted(s, key).initialized = s.initialized
  BY CountedEffect
<1>2. /\ s.confirmed # key
      /\ s.initialized \/ key # {}
  BY <1>1 DEF Alarms, Confirms
<1>3. s.initialized => s.confirmed # NoKey
  BY DEF Coherent
<1>4. QED
  BY <1>2, <1>3 DEF Differs

LEMMA PollIdentifies ==
  ASSUME Typed, IInv, Identified, Poll
  PROVE  Identified'
<1>1. /\ mem \in States /\ mem = disk /\ Coherent(mem) /\ world \in Observations
      /\ minted \in Nat /\ minted + 1 \in Nat
      /\ raised \in Seq(Alerts) /\ received \in Seq(Alerts)
  BY DEF Typed, TypeOK, IInv, WithinTick, Poll
<1>2. UNCHANGED <<raised, received, disk>>
  BY DEF Poll
<1>3. /\ \A i \in 1..Len(raised) : raised[i].id \in Nat
      /\ \A j \in 1..Len(received) : received[j].id \in Nat
  BY <1>1, AlertIds
<1>4. minted' \in {minted, minted + 1}
  BY <1>1 DEF Poll
<1>5. Ordered' /\ Fresh(minted')
  <2>1. Ordered /\ Fresh(minted)
    BY DEF Identified
  <2>2. \A n \in Nat : n <= minted => n <= minted'
    BY <1>1, <1>4
  <2>3. Fresh(minted')
    BY <1>3, <2>1, <2>2 DEF Fresh
  <2>4. QED
    BY <1>2, <2>1, <2>3 DEF Ordered
<1>6. ASSUME pc' = "save", mem'.queue # disk'.queue
      PROVE  Fresh(minted - 1)' /\ Differs(disk, mem.candidate)'
  <2> DEFINE t == Observe(mem, world, minted + 1)
  <2>1. ~Overflows(mem, world) /\ mem' = t
    BY <1>6 DEF Poll, Dead
  <2>2. /\ t.candidate = world
        /\ \/ t.queue = mem.queue
           \/ Alarms(Counted(mem, world), world)
    BY <1>1, <2>1, ObserveEffect
  <2> HIDE DEF t
  <2>3. Alarms(Counted(mem, world), world)
    BY <1>1, <1>2, <1>6, <2>1, <2>2
  <2>4. minted' = minted + 1
    BY <2>1, <2>3 DEF Poll
  <2>5. Fresh(minted - 1)'
    <3>1. minted' - 1 = minted
      BY <1>1, <2>4
    <3>2. Fresh(minted)
      BY DEF Identified
    <3>3. QED
      BY <1>2, <3>1, <3>2 DEF Fresh
  <2>6. Differs(disk, mem.candidate)'
    BY <1>1, <1>2, <2>1, <2>2, <2>3, AlarmDiffers DEF Differs
  <2>7. QED
    BY <2>5, <2>6
<1>7. pc' # "resave"
  BY DEF Poll, Dead
<1>8. Fresh(minted)'
  BY <1>2, <1>5 DEF Fresh
<1>9. QED
  BY <1>5, <1>6, <1>7, <1>8 DEF Identified, Fresh

(* What Persist does with an alert that is new to state.json. *)
LEMMA SaveAppends ==
  ASSUME Typed, IInv, Save, mem.queue # disk.queue
  PROVE  LET a == [id |-> minted, issues |-> mem.candidate]
         IN  /\ a \in Alerts /\ mem.candidate \in Observations
             /\ disk'.queue = Append(disk.queue, a)
             /\ raised' = Append(raised, a)
             /\ received' = received /\ minted' = minted
<1> DEFINE a == [id |-> minted, issues |-> mem.candidate]
<1>1. /\ disk.queue \in Seq(Alerts) /\ minted \in Nat
      /\ PolledState /\ Persist /\ received' = received /\ minted' = minted
  BY DEF Typed, TypeOK, States, IInv, WithinTick, Save
<1>2. mem.queue = Append(disk.queue, a) /\ mem.candidate \in Observations
  BY <1>1 DEF PolledState
<1>3. a \in Alerts
  BY <1>1, <1>2 DEF Alerts
<1> HIDE DEF a
<1>4. Len(mem.queue) > Len(disk.queue) /\ mem.queue[Len(mem.queue)] = a
  BY <1>1, <1>2, <1>3
<1>5. QED
  BY <1>1, <1>2, <1>3, <1>4 DEF Persist, a

(* A save that brings no new alert leaves the queue, the log and the inbox. *)
LEMMA SaveKeepsQueue ==
  ASSUME Typed, IInv, Save \/ Resave, mem.queue = disk.queue
  PROVE  disk'.queue = disk.queue /\ UNCHANGED <<raised, received, minted>>
<1>1. disk.queue \in Seq(Alerts)
  BY DEF Typed, TypeOK, States
<1>2. QED
  BY <1>1 DEF Save, Resave, Persist

LEMMA SaveIdentifies ==
  ASSUME Typed, IInv, Identified, Save
  PROVE  Identified'
<1>1. pc' \in {"send", "sleep"}
  BY DEF Save
<1>2. CASE mem.queue = disk.queue
  <2>1. UNCHANGED <<raised, received, minted>>
    BY <1>2, SaveKeepsQueue
  <2>2. QED
    BY <1>1, <2>1 DEF Identified, Ordered, Fresh
<1>3. CASE mem.queue # disk.queue
  <2> DEFINE a == [id |-> minted, issues |-> mem.candidate]
  <2>1. /\ a \in Alerts /\ raised' = Append(raised, a)
        /\ received' = received /\ minted' = minted
    BY <1>3, SaveAppends
  <2>2. /\ Fresh(minted - 1) /\ Ordered /\ Fresh(minted)
        /\ raised \in Seq(Alerts) /\ minted \in Nat
    BY <1>3 DEF Identified, Save, Typed, TypeOK
  <2>3. a.id = minted
    OBVIOUS
  <2> HIDE DEF a
  <2>4. /\ Len(raised') = Len(raised) + 1 /\ raised'[Len(raised) + 1] = a
        /\ \A i \in 1..Len(raised) : raised'[i] = raised[i] /\ raised[i].id \in Nat
    BY <2>1, <2>2, AlertIds
  <2>5. Len(raised) \in Nat
    BY <2>2
  <2>6. \A i \in 1..Len(raised) : raised[i].id < minted
    BY <2>2, <2>4 DEF Fresh
  <2>7. Ordered'
    <3> SUFFICES ASSUME NEW i \in 1..Len(raised'), NEW j \in 1..Len(raised'), i < j
                 PROVE  raised'[i].id < raised'[j].id
      BY DEF Ordered
    <3>1. i \in 1..Len(raised) /\ raised'[i] = raised[i]
      BY <2>4, <2>5
    <3>2. CASE j \in 1..Len(raised)
      BY <2>2, <2>4, <3>1, <3>2 DEF Ordered
    <3>3. CASE j = Len(raised) + 1
      BY <2>3, <2>4, <2>6, <3>1, <3>3
    <3>4. QED
      BY <2>4, <2>5, <3>2, <3>3
  <2>8. Fresh(minted)'
    BY <2>1, <2>2, <2>3, <2>4, <2>5 DEF Fresh
  <2>9. QED
    BY <1>1, <2>7, <2>8 DEF Identified
<1>4. QED
  BY <1>2, <1>3, Zenon

(* The alert a send delivers is the log entry at the start of the queue.   *)
LEMMA HeadInLog ==
  ASSUME Typed, IInv, disk.queue # <<>>
  PROVE  LET n == Len(raised) - Len(disk.queue) + 1
         IN  /\ n \in 1..Len(raised) /\ raised[n] = Head(disk.queue)
             /\ Head(disk.queue) \in Alerts
<1>1. /\ disk.queue \in Seq(Alerts) /\ raised \in Seq(Alerts)
      /\ Accounts(raised, disk.queue, received)
  BY DEF Typed, TypeOK, States, IInv, NothingDropped
<1>2. /\ Len(disk.queue) \in Nat \ {0} /\ Len(raised) \in Nat
      /\ Head(disk.queue) = disk.queue[1] /\ Head(disk.queue) \in Alerts
  BY <1>1
<1>3. /\ Len(disk.queue) <= Len(raised)
      /\ \A i \in 1..Len(disk.queue) :
           disk.queue[i] = raised[Len(raised) - Len(disk.queue) + i]
  BY <1>1 DEF Accounts
<1>4. 1 \in 1..Len(disk.queue)
  BY <1>2
<1>5. disk.queue[1] = raised[Len(raised) - Len(disk.queue) + 1]
  BY <1>3, <1>4
<1>6. Len(raised) - Len(disk.queue) + 1 \in 1..Len(raised)
  BY <1>2, <1>3
<1>7. raised[Len(raised) - Len(disk.queue) + 1] = Head(disk.queue)
  BY <1>2, <1>5, Zenon
<1>8. QED
  BY <1>2, <1>6, <1>7, Zenon

LEMMA SendDelivers ==
  ASSUME Typed, IInv, SendAccepted \/ SendAmbiguous
  PROVE  /\ disk.queue # <<>> /\ mem = disk
         /\ received' = Append(received, Head(disk.queue))
         /\ UNCHANGED <<disk, raised, minted>>
         /\ pc' = "resave" /\ HeadSeen'
<1>1. /\ mem = disk /\ disk.queue # <<>> /\ received \in Seq(Alerts)
      /\ disk.queue \in Seq(Alerts)
  BY DEF Typed, TypeOK, States, IInv, WithinTick, SendAccepted, SendAmbiguous
<1>2. /\ received' = Append(received, Head(disk.queue))
      /\ UNCHANGED <<disk, raised, minted>> /\ pc' = "resave"
  BY <1>1 DEF SendAccepted, SendAmbiguous, Accept
<1>3. Head(disk.queue) \in Alerts
  BY <1>1
<1>4. received' # <<>> /\ received'[Len(received')] = Head(disk.queue)
  BY <1>1, <1>2, <1>3
<1>5. QED
  BY <1>1, <1>2, <1>4 DEF HeadSeen

LEMMA SendIdentifies ==
  ASSUME Typed, IInv, Identified, Send
  PROVE  Identified'
<1>1. CASE SendAccepted \/ SendAmbiguous
  <2> DEFINE a == Head(disk.queue)
  <2>1. /\ disk.queue # <<>> /\ received' = Append(received, a)
        /\ UNCHANGED <<raised, minted>> /\ pc' = "resave" /\ HeadSeen'
    BY <1>1, SendDelivers
  <2>2. \E i \in 1..Len(raised) : raised[i] = a /\ a \in Alerts
    BY <2>1, HeadInLog
  <2> HIDE DEF a
  <2>3. a.id <= minted /\ a \in Alerts /\ Ordered /\ Fresh(minted)
    BY <2>2 DEF Identified, Fresh
  <2>4. received \in Seq(Alerts)
    BY DEF Typed, TypeOK
  <2>5. \A j \in 1..Len(received') : received'[j].id <= minted
    <3>1. Len(received') = Len(received) + 1 /\ received'[Len(received) + 1] = a
      BY <2>1, <2>3, <2>4
    <3>2. \A j \in 1..Len(received) : received'[j] = received[j]
      BY <2>1, <2>3, <2>4
    <3>3. Len(received) \in Nat
      BY <2>4
    <3>4. QED
      BY <2>3, <3>1, <3>2, <3>3 DEF Fresh
  <2>6. QED
    BY <2>1, <2>3, <2>5 DEF Identified, Fresh, Ordered
<1>2. CASE SendRefused
  <2>1. /\ mem' = Undelivered(mem) /\ mem = disk /\ mem \in States /\ disk' = disk
        /\ UNCHANGED <<raised, received, minted>> /\ pc' = "resave"
    BY <1>2 DEF SendRefused, logVars, IInv, WithinTick, Typed, TypeOK
  <2>2. mem'.queue = disk'.queue
    BY <2>1 DEF Undelivered, States
  <2>3. QED
    BY <2>1, <2>2 DEF Identified, Fresh, Ordered
<1>3. QED
  BY <1>1, <1>2 DEF Send

(* The steps that leave the queue in the file, the log and the inbox. *)
LEMMA OthersAreQuiet ==
  ASSUME Typed, IInv,
         \/ Load \/ Poll \/ SendRefused \/ Sleep \/ Quit \/ Restart \/ Crash \/ Boot
         \/ Terminate \/ Flip \/ UNCHANGED vars
  PROVE  disk'.queue = disk.queue /\ UNCHANGED <<raised, received>>
<1>1. disk \in States
  BY DEF Typed, TypeOK
<1>2. (\E d \in Nat : disk' = Later(disk, d)) => disk'.queue = disk.queue
  BY <1>1, LaterType
<1>3. CASE Sleep
  BY <1>2, <1>3, LimitAssumption DEF Sleep, Elapse, IInv, WithinTick, logVars
<1>4. CASE Restart
  BY <1>2, <1>4, LimitAssumption DEF Restart, logVars
<1>5. CASE Boot
  BY <1>2, <1>5, LimitAssumption DEF Boot, logVars
<1>6. CASE Load \/ Poll \/ SendRefused \/ Quit \/ Crash \/ Terminate \/ Flip \/ UNCHANGED vars
  BY <1>6 DEF Load, Poll, SendRefused, Quit, Crash, Terminate, Flip, vars, procVars, logVars
<1>7. QED
  BY <1>3, <1>4, <1>5, <1>6

LEMMA OthersIdentify ==
  ASSUME Typed, IInv, Identified,
         \/ Load \/ Resave \/ Sleep \/ Quit \/ Restart \/ Crash \/ Boot
         \/ Terminate \/ Flip \/ UNCHANGED vars
  PROVE  Identified'
<1> USE DEF procVars, logVars, Alive, Dead
<1>1. UNCHANGED minted
  BY DEF Load, Resave, Sleep, Quit, Restart, Crash, Boot, Terminate, Flip, vars
<1>2. UNCHANGED <<raised, received>>
  <2>1. CASE Resave
    <3>1. /\ mem.queue \in Seq(Alerts) /\ disk.queue \in Seq(Alerts)
          /\ SentState /\ Persist /\ received' = received
      BY <2>1 DEF Typed, TypeOK, States, IInv, WithinTick, Resave
    <3>2. ~(Len(mem.queue) > Len(disk.queue))
      <4>1. disk.queue # <<>> => Len(Tail(disk.queue)) = Len(disk.queue) - 1
        BY <3>1
      <4>2. Len(disk.queue) \in Nat
        BY <3>1
      <4>3. \/ mem.queue = disk.queue
            \/ disk.queue # <<>> /\ mem.queue = Tail(disk.queue)
        BY <3>1 DEF SentState
      <4>4. Len(mem.queue) = Len(disk.queue) \/ Len(mem.queue) = Len(disk.queue) - 1
        BY <4>1, <4>3, Zenon
      <4>5. QED
        BY <4>2, <4>4
    <3>3. QED
      BY <3>1, <3>2 DEF Persist
  <2>2. QED
    BY <2>1, OthersAreQuiet
<1>3. Ordered' /\ Fresh(minted)'
  BY <1>1, <1>2 DEF Identified, Ordered, Fresh
<1>4. CASE Load \/ Resave \/ Sleep \/ Quit \/ Restart \/ Crash \/ Boot
  <2>1. pc' \notin {"save", "resave"}
    BY <1>4 DEF Load, Resave, Sleep, Quit, Restart, Crash, Boot
  <2>2. QED
    BY <1>3, <2>1 DEF Identified
<1>5. CASE Terminate \/ Flip \/ UNCHANGED vars
  <2>1. UNCHANGED <<mem, disk>> /\ pc' \in {pc, "stopped"}
    BY <1>5 DEF Terminate, Flip, vars
  <2>2. Fresh(minted - 1) => Fresh(minted - 1)'
    BY <1>1, <1>2 DEF Fresh
  <2>3. HeadSeen' = HeadSeen
    BY <1>2, <2>1 DEF HeadSeen
  <2>4. QED
    BY <1>3, <2>1, <2>2, <2>3 DEF Identified, Differs
<1>6. QED
  BY <1>4, <1>5

LEMMA AlwaysIdentified == Spec => []Identified
<1>1. Init => Identified
  BY DEF Init, Identified, Ordered, Fresh
<1>2. Typed /\ IInv /\ Identified /\ [Next]_vars => Identified'
  BY PollIdentifies, SaveIdentifies, SendIdentifies, OthersIdentify DEF Next, Process
<1>3. QED
  BY <1>1, <1>2, Invariant, PTL DEF Spec

-----------------------------------------------------------------------------
(* Each step of the monitor as a step of AlertLog. *)
Told == Len(raised) - Len(disk.queue) + (IF HeadSeen THEN 1 ELSE 0)

LEMMA QuietStutters ==
  ASSUME disk'.queue = disk.queue, UNCHANGED <<raised, received>>
  PROVE  UNCHANGED <<raised, received, Told>>
  BY DEF Told, HeadSeen

LEMMA SaveRaises ==
  ASSUME Typed, IInv, Identified, Save, mem.queue # disk.queue
  PROVE  Log!Raise
<1> DEFINE a == [id |-> minted, issues |-> mem.candidate]
<1>1. /\ a \in Alerts /\ mem.candidate \in Observations
      /\ disk'.queue = Append(disk.queue, a) /\ raised' = Append(raised, a)
      /\ received' = received /\ minted' = minted
  BY SaveAppends
<1>2. /\ disk.queue \in Seq(Alerts) /\ raised \in Seq(Alerts) /\ received \in Seq(Alerts)
      /\ minted \in Nat
  BY DEF Typed, TypeOK, States
<1>3. Fresh(minted - 1) /\ Differs(disk, mem.candidate) /\ NewestAlertIsConfirmed
  BY DEF Identified, IInv, Save
<1>4. a.id = minted /\ a.issues = mem.candidate
  OBVIOUS
<1> HIDE DEF a
<1>5. Len(raised') = Len(raised) + 1 /\ raised'[Len(raised')] = a
  BY <1>1, <1>2
<1>6. \A i \in 1..Len(raised) : raised[i].id < a.id
  <2>1. \A i \in 1..Len(raised) : raised[i].id \in Nat
    BY <1>2, AlertIds
  <2>2. QED
    BY <1>2, <1>3, <1>4, <2>1 DEF Fresh
<1>7. a.issues \in Observations \ {Log!LastIssues}
  BY <1>1, <1>3, <1>4 DEF Log!LastIssues, Differs, NewestAlertIsConfirmed
<1>8. HeadSeen' = HeadSeen
  <2>1. CASE disk.queue = <<>>
    <3>1. Head(disk'.queue) = a
      BY <1>1, <1>2, <2>1
    <3>2. received # <<>> => received[Len(received)].id <= minted - 1
      BY <1>2, <1>3 DEF Fresh
    <3>3. received # <<>> => received[Len(received)].id \in Nat
      <4>1. received # <<>> => Len(received) \in 1..Len(received)
        BY <1>2
      <4>2. QED
        BY <1>2, <4>1, AlertIds
    <3>4. ~HeadSeen'
      BY <1>1, <1>2, <1>4, <3>1, <3>2, <3>3 DEF HeadSeen
    <3>5. QED
      BY <2>1, <3>4 DEF HeadSeen
  <2>2. CASE disk.queue # <<>>
    <3>1. Head(disk'.queue) = Head(disk.queue) /\ disk'.queue # <<>>
      <4> DEFINE q == disk.queue
      <4>1. q \in Seq(Alerts) /\ q # <<>> /\ disk'.queue = Append(q, a) /\ a \in Alerts
        BY <1>1, <1>2, <2>2
      <4> HIDE DEF q
      <4>2. Len(Append(q, a)) = Len(q) + 1 /\ Append(q, a)[1] = q[1] /\ Head(q) = q[1]
        BY <4>1
      <4>3. Append(q, a) # <<>> /\ Head(Append(q, a)) = Append(q, a)[1]
        BY <4>1
      <4>4. QED
        BY <4>1, <4>2, <4>3 DEF q
    <3>2. QED
      BY <1>1, <2>2, <3>1 DEF HeadSeen
  <2>3. QED
    BY <2>1, <2>2
<1>9. Told' = Told
  <2>1. Len(disk'.queue) = Len(disk.queue) + 1 /\ Len(disk.queue) \in Nat /\ Len(raised) \in Nat
    BY <1>1, <1>2
  <2>2. QED
    BY <1>5, <1>8, <2>1 DEF Told
<1>10. QED
  BY <1>1, <1>5, <1>6, <1>7, <1>9 DEF Log!Raise, Told

LEMMA SendRefines ==
  ASSUME Typed, IInv, SendAccepted \/ SendAmbiguous
  PROVE  Log!DeliverNext \/ Log!DeliverAgain
<1> DEFINE n == Len(raised) - Len(disk.queue) + 1
<1>1. /\ disk.queue # <<>> /\ received' = Append(received, Head(disk.queue))
      /\ UNCHANGED <<disk, raised>> /\ HeadSeen'
  BY SendDelivers
<1>2. n \in 1..Len(raised) /\ raised[n] = Head(disk.queue)
  BY <1>1, HeadInLog
<1>3. Len(raised) \in Nat /\ Len(disk.queue) \in Nat
  BY DEF Typed, TypeOK, States
<1>4. Told' = n
  BY <1>1, <1>3 DEF Told
<1>5. (HeadSeen => Told = n) /\ (~HeadSeen => Told = n - 1)
  BY <1>3 DEF Told
<1>6. Told > 0 /\ Told' = Told /\ received' = Append(received, raised[Told])
        => Log!DeliverAgain
  BY <1>1 DEF Log!DeliverAgain, Told
<1>7. Told < Len(raised) /\ Told' = Told + 1 /\ received' = Append(received, raised[Told + 1])
        => Log!DeliverNext
  BY <1>1 DEF Log!DeliverNext, Told
<1> HIDE DEF n
<1>8. CASE HeadSeen
  BY <1>1, <1>2, <1>3, <1>4, <1>5, <1>6, <1>8
<1>9. CASE ~HeadSeen
  <2>1. Told < Len(raised) /\ Told' = Told + 1 /\ raised[Told + 1] = Head(disk.queue)
    BY <1>2, <1>3, <1>4, <1>5, <1>9
  <2>2. QED
    BY <1>1, <1>7, <2>1
<1>10. QED
  BY <1>8, <1>9

(* Two alerts of one queue differ, because their ids do. *)
LEMMA SecondDiffers ==
  ASSUME Typed, IInv, Identified, disk.queue # <<>>, Tail(disk.queue) # <<>>
  PROVE  Head(Tail(disk.queue)) # Head(disk.queue)
<1> DEFINE q == disk.queue
           n == Len(raised) - Len(q)
<1>1. q \in Seq(Alerts) /\ raised \in Seq(Alerts) /\ Accounts(raised, q, received) /\ Ordered
  BY DEF Typed, TypeOK, States, IInv, NothingDropped, Identified
<1>2. /\ Len(q) <= Len(raised)
      /\ \A i \in 1..Len(q) : q[i] = raised[n + i]
  BY <1>1 DEF Accounts
<1>3. q # <<>> /\ Tail(q) # <<>>
  OBVIOUS
<1> HIDE DEF q
<1>4. /\ Len(q) > 1 /\ Len(q) \in Nat /\ Len(raised) \in Nat
      /\ Head(q) = q[1] /\ Head(Tail(q)) = q[2]
  BY <1>1, <1>3
<1>5. 1 \in 1..Len(q) /\ 2 \in 1..Len(q)
  BY <1>4
<1>6. q[1] = raised[n + 1] /\ q[2] = raised[n + 2]
  BY <1>2, <1>5
<1>7. n + 1 \in 1..Len(raised) /\ n + 2 \in 1..Len(raised) /\ n + 1 < n + 2
  BY <1>2, <1>4
<1> HIDE DEF n
<1>8. raised[n + 1].id < raised[n + 2].id /\ raised[n + 1].id \in Nat
  BY <1>1, <1>7, AlertIds DEF Ordered
<1>9. q[1] # q[2]
  BY <1>6, <1>8
<1>10. QED
  BY <1>4, <1>9 DEF q

LEMMA ResaveStutters ==
  ASSUME Typed, IInv, Identified, Resave
  PROVE  UNCHANGED <<raised, received, Told>>
<1>1. CASE mem.queue = disk.queue
  <2>1. disk'.queue = disk.queue /\ UNCHANGED <<raised, received>>
    BY <1>1, SaveKeepsQueue
  <2>2. QED
    BY <2>1, QuietStutters
<1>2. CASE mem.queue # disk.queue
  <2>1. /\ disk.queue \in Seq(Alerts) /\ raised \in Seq(Alerts)
        /\ Persist /\ received' = received /\ HeadSeen
        /\ disk.queue # <<>> /\ mem.queue = Tail(disk.queue)
    BY <1>2 DEF Typed, TypeOK, States, IInv, WithinTick, SentState, Resave, Identified
  <2>2. disk'.queue = Tail(disk.queue)
    BY <2>1 DEF Persist
  <2>3. /\ Len(Tail(disk.queue)) = Len(disk.queue) - 1
        /\ Len(disk.queue) \in Nat /\ Len(disk.queue) > 0 /\ Len(raised) \in Nat
    BY <2>1
  <2>4. raised' = raised
    BY <2>1, <2>3 DEF Persist
  <2>5. ~HeadSeen'
    BY <2>1, <2>2, SecondDiffers DEF HeadSeen
  <2>6. Len(disk'.queue) = Len(disk.queue) - 1 /\ Len(raised') = Len(raised)
    BY <2>2, <2>3, <2>4, Zenon
  <2>7. Told' = Told
    BY <2>1, <2>3, <2>5, <2>6 DEF Told
  <2>8. QED
    BY <2>1, <2>4, <2>7
<1>3. QED
  BY <1>1, <1>2, Zenon

LEMMA StepRefines ==
  Typed /\ IInv /\ Identified /\ [Next]_vars => [Log!Next]_(Log!logVars)
<1> SUFFICES ASSUME Typed, IInv, Identified, [Next]_vars
             PROVE  [Log!Next]_(Log!logVars)
  OBVIOUS
<1>1. UNCHANGED <<raised, received, Told>> => UNCHANGED Log!logVars
  BY DEF Log!logVars, Told
<1>2. CASE Save
  <2>1. CASE mem.queue # disk.queue
    BY <1>2, <2>1, SaveRaises DEF Log!Next
  <2>2. CASE mem.queue = disk.queue
    BY <1>1, <1>2, <2>2, SaveKeepsQueue, QuietStutters
  <2>3. QED
    BY <2>1, <2>2
<1>3. CASE SendAccepted \/ SendAmbiguous
  BY <1>3, SendRefines DEF Log!Next
<1>4. CASE Resave
  BY <1>1, <1>4, ResaveStutters
<1>5. CASE \/ Load \/ Poll \/ SendRefused \/ Sleep \/ Quit \/ Restart \/ Crash \/ Boot
           \/ Terminate \/ Flip \/ UNCHANGED vars
  BY <1>1, <1>5, OthersAreQuiet, QuietStutters
<1>6. QED
  BY <1>2, <1>3, <1>4, <1>5 DEF Next, Process, Send

(* The monitor implements AlertLog: whatever is polled, lost, repeated or  *)
(* killed, the receiver gets the log in order, at least once, nothing      *)
(* before it is durable, and repeats only of the alert it got last.        *)
THEOREM BehavesAsAlertLog == Spec => ImplementsAlertLog
<1>1. Init => Log!Init
  BY DEF Init, Log!Init, HeadSeen, Blank
<1>2. QED
  BY <1>1, StepRefines, Invariant, AlwaysIdentified, PTL DEF Spec, Log!Spec, ImplementsAlertLog
-----------------------------------------------------------------------------
(* PayMonitorPower: what a loss of power leaves true.                      *)
PowerState == Typed /\ PowerInv

LEMMA PowerInitially == PowerInit => PowerState
<1> SUFFICES ASSUME PowerInit PROVE PowerState
  OBVIOUS
<1>1. Typed
  BY InitTyped DEF PowerInit
<1>2. /\ mem = Blank /\ disk = Blank /\ settled = Blank /\ Blank.queue = <<>>
      /\ raised = <<>> /\ received = <<>> /\ pc = "load"
  BY DEF PowerInit, Init, Blank
<1> QED BY <1>1, <1>2, BlankType, BlankCoherent DEF PowerState, PowerInv, Logged, Earlier

(* A longer log still holds what it held. *)
LEMMA LoggedLonger ==
  ASSUME NEW log \in Seq(Alerts), NEW queue \in Seq(Alerts), NEW a \in Alerts, Logged(log, queue)
  PROVE  Logged(Append(log, a), queue)
<1> SUFFICES ASSUME NEW i \in 1..Len(queue)
             PROVE  \E j \in 1..Len(Append(log, a)) : Append(log, a)[j] = queue[i]
  BY DEF Logged
<1>1. PICK j \in 1..Len(log) : log[j] = queue[i]
  BY DEF Logged
<1>2. j \in 1..Len(Append(log, a)) /\ Append(log, a)[j] = log[j]
  OBVIOUS
<1> QED BY <1>1, <1>2

(* An alert appended to both is held. *)
LEMMA LoggedAppend ==
  ASSUME NEW log \in Seq(Alerts), NEW queue \in Seq(Alerts), NEW a \in Alerts, Logged(log, queue)
  PROVE  Logged(Append(log, a), Append(queue, a))
<1> SUFFICES ASSUME NEW i \in 1..Len(Append(queue, a))
             PROVE  \E j \in 1..Len(Append(log, a)) : Append(log, a)[j] = Append(queue, a)[i]
  BY DEF Logged
<1>1. CASE i = Len(queue) + 1
  <2>1. Append(log, a)[Len(log) + 1] = a /\ Append(queue, a)[i] = a
        /\ Len(log) + 1 \in 1..Len(Append(log, a))
    BY <1>1
  <2> QED BY <2>1
<1>2. CASE i # Len(queue) + 1
  <2>1. i \in 1..Len(queue) /\ Append(queue, a)[i] = queue[i]
    BY <1>2
  <2>2. Logged(Append(log, a), queue)
    BY LoggedLonger
  <2>3. \E j \in 1..Len(Append(log, a)) : Append(log, a)[j] = queue[i]
    BY <2>1, <2>2, Zenon DEF Logged
  <2> QED BY <2>1, <2>3
<1> QED BY <1>1, <1>2

(* So is what remains when the head is taken off. *)
LEMMA LoggedTail ==
  ASSUME NEW log, NEW queue \in Seq(Alerts), queue # <<>>, Logged(log, queue)
  PROVE  Logged(log, Tail(queue)) /\ \E j \in 1..Len(log) : log[j] = Head(queue)
<1>1. \A i \in 1..Len(Tail(queue)) : i + 1 \in 1..Len(queue) /\ Tail(queue)[i] = queue[i + 1]
  OBVIOUS
<1>2. 1 \in 1..Len(queue) /\ Head(queue) = queue[1]
  OBVIOUS
<1> QED BY <1>1, <1>2 DEF Logged

(* The step of Persist, of Save and of Resave. *)
LEMMA PersistPower ==
  ASSUME PowerState, Persist, UNCHANGED <<mem, received, minted, settled>>,
         \/ pc = "save" /\ pc' \in {"send", "sleep"}
         \/ pc = "resave" /\ pc' = "sleep"
  PROVE  PowerInv'
<1>1. /\ mem.queue \in Seq(Alerts) /\ disk.queue \in Seq(Alerts) /\ settled.queue \in Seq(Alerts)
      /\ raised \in Seq(Alerts) /\ received \in Seq(Alerts) /\ minted \in Nat
  BY DEF PowerState, PowerInv, Typed, TypeOK, States
<1>2. disk' = mem /\ Coherent(mem)' /\ Coherent(disk)' /\ Coherent(settled)' /\ settled' \in States
  BY DEF Persist, PowerState, PowerInv, Coherent
<1>3. pc' \in {"poll", "send", "sleep"} => mem' = disk'
  BY <1>2
<1>4. CASE pc = "save" /\ mem.queue # disk.queue
  <2> DEFINE a == [id |-> minted, issues |-> mem.candidate]
  <2>1. mem.queue = Append(disk.queue, a) /\ a \in Alerts /\ Earlier(minted)
    BY <1>1, <1>4 DEF PowerState, PowerInv, SavedQueue, Alerts
  <2>2. a.id = minted
    OBVIOUS
  <2> HIDE DEF a
  <2>3. Len(mem.queue) = Len(disk.queue) + 1 /\ mem.queue[Len(mem.queue)] = a
    BY <1>1, <2>1
  <2>4. raised' = Append(raised, a)
    BY <1>1, <2>3 DEF Persist
  <2>5. /\ Logged(raised', disk'.queue) /\ Logged(raised', settled'.queue)
        /\ Logged(raised', received')
    BY <1>1, <1>2, <2>1, <2>4, LoggedAppend, LoggedLonger DEF PowerState, PowerInv
  <2>6. /\ Len(raised') = Len(raised) + 1 /\ raised'[Len(raised) + 1].id = minted
        /\ \A i \in 1..Len(raised) : raised'[i] = raised[i] /\ raised'[i].id < minted
    BY <1>1, <2>1, <2>2, <2>4 DEF Earlier
  <2>7. /\ Len(raised) \in Nat
        /\ \A i \in 1..Len(raised) : raised[i].id \in Nat
        /\ \A i \in 1..Len(raised') : i \in 1..Len(raised) \/ i = Len(raised) + 1
    BY <1>1, <2>6, AlertIds
  <2>8. Earlier(minted + 1)'
    <3>1. minted' = minted
      OBVIOUS
    <3> QED BY <1>1, <2>6, <2>7, <3>1 DEF Earlier
  <2>9. \A i, j \in 1..Len(raised') : i < j => raised'[i].id < raised'[j].id
    <3> SUFFICES ASSUME NEW i \in 1..Len(raised'), NEW j \in 1..Len(raised'), i < j
                 PROVE  raised'[i].id < raised'[j].id
      OBVIOUS
    <3>1. i \in 1..Len(raised)
      BY <2>6, <2>7
    <3>2. CASE j \in 1..Len(raised)
      BY <2>6, <3>1, <3>2 DEF PowerState, PowerInv
    <3>3. CASE j = Len(raised) + 1
      BY <2>6, <3>1, <3>3
    <3> QED BY <2>7, <3>2, <3>3
  <2> QED BY <1>2, <1>3, <2>5, <2>8, <2>9 DEF PowerInv
<1>5. CASE ~(pc = "save" /\ mem.queue # disk.queue)
  <2>1. mem.queue = disk.queue \/ (disk.queue # <<>> /\ mem.queue = Tail(disk.queue))
    BY <1>5 DEF PowerState, PowerInv, SentQueue
  <2>2. Len(mem.queue) <= Len(disk.queue) /\ Logged(raised, mem.queue)
    <3>1. disk.queue # <<>> => Len(Tail(disk.queue)) <= Len(disk.queue)
      BY <1>1
    <3>2. Logged(raised, disk.queue)
      BY DEF PowerState, PowerInv
    <3>3. disk.queue # <<>> => Logged(raised, Tail(disk.queue))
      BY <1>1, <3>2, LoggedTail
    <3>4. Len(disk.queue) \in Nat
      BY <1>1
    <3>5. CASE mem.queue = disk.queue
      BY <3>2, <3>4, <3>5
    <3>6. CASE disk.queue # <<>> /\ mem.queue = Tail(disk.queue)
      BY <3>1, <3>3, <3>6
    <3> QED BY <2>1, <3>5, <3>6
  <2>3. raised' = raised
    BY <1>1, <2>2 DEF Persist
  <2>4. /\ Logged(raised', disk'.queue) /\ Logged(raised', settled'.queue)
        /\ Logged(raised', received') /\ Earlier(minted + 1)'
        /\ \A i, j \in 1..Len(raised') : i < j => raised'[i].id < raised'[j].id
    BY <1>2, <2>2, <2>3 DEF PowerState, PowerInv, Earlier
  <2> QED BY <1>2, <1>3, <2>4 DEF PowerInv
<1> QED BY <1>4, <1>5

(* Observe makes at most one new alert, and a fresh id for it. *)
LEMMA PollPower ==
  ASSUME PowerState, Poll, UNCHANGED settled
  PROVE  PowerInv'
<1>1. /\ mem \in States /\ mem = disk /\ Coherent(mem) /\ world \in Observations
      /\ minted \in Nat /\ minted + 1 \in Nat /\ raised \in Seq(Alerts)
  BY DEF PowerState, PowerInv, Typed, TypeOK, Poll
<1>2. UNCHANGED <<disk, raised, received, settled>>
  BY DEF Poll
<1>3. /\ Coherent(disk)' /\ Coherent(settled)' /\ settled' \in States
      /\ Logged(raised', disk'.queue) /\ Logged(raised', settled'.queue)
      /\ Logged(raised', received')
      /\ \A i, j \in 1..Len(raised') : i < j => raised'[i].id < raised'[j].id
  BY <1>2 DEF PowerState, PowerInv, Coherent
<1>4. minted' \in {minted, minted + 1} /\ Earlier(minted + 1)'
  <2>1. minted' \in {minted, minted + 1}
    BY <1>1 DEF Poll
  <2>2. \A i \in 1..Len(raised) : raised[i].id \in Nat
    BY <1>1, AlertIds
  <2> QED BY <1>1, <1>2, <2>1, <2>2 DEF PowerState, PowerInv, Earlier
<1>5. CASE Overflows(mem, world)
  <2>1. mem' = Blank /\ pc' \in {"failed", "stopped"}
    BY <1>5 DEF Poll, Dead
  <2> QED BY <1>3, <1>4, <2>1, BlankCoherent DEF PowerInv, Coherent
<1>6. CASE ~Overflows(mem, world)
  <2> DEFINE t == Observe(mem, world, minted + 1)
  <2>1. /\ mem' = t /\ pc' = "save"
        /\ Alarms(Counted(mem, world), world) => minted' = minted + 1
    BY <1>6 DEF Poll
  <2>2. /\ t.candidate = world /\ Coherent(t)
        /\ \/ t.queue = mem.queue
           \/ /\ Alarms(Counted(mem, world), world)
              /\ t.queue = Append(mem.queue, [id |-> minted + 1, issues |-> world])
    BY <1>1, <1>6, ObserveEffect
  <2> HIDE DEF t
  <2>3. Coherent(mem)'
    BY <2>1, <2>2 DEF Coherent
  <2>4. Earlier(minted + 1)
    BY DEF PowerState, PowerInv
  <2>5. SavedQueue'
    BY <1>1, <1>2, <2>1, <2>2, <2>4 DEF SavedQueue, Earlier
  <2> QED BY <1>3, <1>4, <2>1, <2>3, <2>5 DEF PowerInv
<1> QED BY <1>5, <1>6

(* An attempt hands over the head of the queue, or nothing. *)
LEMMA SendPower ==
  ASSUME PowerState, Send, UNCHANGED settled
  PROVE  PowerInv'
<1>1. /\ mem \in States /\ mem = disk /\ mem.queue # <<>> /\ mem.queue \in Seq(Alerts)
      /\ UNCHANGED <<disk, raised, minted, settled>> /\ pc' = "resave"
      /\ raised \in Seq(Alerts) /\ received \in Seq(Alerts)
  BY DEF PowerState, PowerInv, Typed, TypeOK, States, Send, SendAccepted, SendAmbiguous,
     SendRefused, logVars
<1>2. /\ Coherent(disk)' /\ Coherent(settled)' /\ settled' \in States
      /\ Logged(raised', disk'.queue) /\ Logged(raised', settled'.queue)
      /\ \A i, j \in 1..Len(raised') : i < j => raised'[i].id < raised'[j].id
      /\ Earlier(minted + 1)'
  BY <1>1 DEF PowerState, PowerInv, Coherent, Earlier
<1>3. Logged(raised, received) /\ Coherent(mem)
  BY DEF PowerState, PowerInv
<1>4. Logged(raised', received')
  <2>1. CASE received' = received
    BY <1>1, <1>3, <2>1
  <2>2. CASE Accept
    <3>1. PICK j \in 1..Len(raised) : raised[j] = Head(mem.queue)
      BY <1>1, LoggedTail DEF PowerState, PowerInv
    <3>2. \A i \in 1..Len(received') :
            received'[i] = Head(mem.queue) \/ (i \in 1..Len(received) /\ received'[i] = received[i])
      BY <1>1, <2>2 DEF Accept
    <3> QED BY <1>1, <1>3, <3>1, <3>2 DEF Logged
  <2> QED BY <2>1, <2>2 DEF Send, SendAccepted, SendAmbiguous, SendRefused, logVars
<1>5. SentQueue' /\ Coherent(mem)'
  <2>1. CASE mem' = Undelivered(mem)
    <3>1. /\ mem'.queue = mem.queue /\ mem'.confirmed = mem.confirmed
          /\ mem'.initialized = mem.initialized
      BY <1>1, <2>1 DEF Undelivered, States
    <3> QED BY <1>1, <1>3, <3>1 DEF SentQueue, Coherent
  <2>2. CASE mem' = Delivered(mem)
    <3>1. /\ mem'.queue = Tail(mem.queue) /\ mem'.confirmed = mem.confirmed
          /\ mem'.initialized = mem.initialized
      BY <1>1, <2>2 DEF Delivered, States
    <3>2. /\ Len(Tail(mem.queue)) <= Len(mem.queue) /\ Len(mem.queue) \in Nat
          /\ Len(Tail(mem.queue)) \in Nat
      BY <1>1
    <3>3. Coherent(mem)'
      BY <1>3, <3>1, <3>2, LimitAssumption DEF Coherent
    <3> QED BY <1>1, <3>1, <3>3 DEF SentQueue
  <2> QED BY <2>1, <2>2 DEF Send, SendAccepted, SendAmbiguous, SendRefused
<1> QED BY <1>1, <1>2, <1>4, <1>5 DEF PowerInv

(* The steps that leave the log alone, and the loss of power itself. *)
LEMMA OtherPower ==
  ASSUME PowerState,
         \/ /\ \/ Load \/ Sleep \/ Quit \/ Restart \/ Crash \/ Boot \/ Terminate \/ Flip
               \/ UNCHANGED vars
            /\ UNCHANGED settled
         \/ Commit \/ PowerLoss
  PROVE  PowerInv'
<1> USE DEF Dead, Alive, procVars, unitVars, logVars, envVars, vars
<1>1. UNCHANGED <<received, raised, minted>>
  BY DEF Load, Sleep, Quit, Restart, Crash, Boot, Terminate, Flip, Commit, PowerLoss
<1>2. /\ mem \in States /\ disk \in States /\ settled \in States
      /\ Coherent(mem) /\ Coherent(disk) /\ Coherent(settled)
      /\ Logged(raised, disk.queue) /\ Logged(raised, settled.queue)
  BY DEF PowerState, PowerInv, Typed, TypeOK
<1>3. \A s \in States, d \in Nat :
        LET t == Later(s, d) IN t.queue = s.queue /\ (Coherent(s) => Coherent(t))
  BY LaterKeeps DEF Coherent
<1>4. /\ settled' \in States /\ Coherent(settled') /\ Logged(raised, settled'.queue)
      /\ Coherent(disk') /\ Logged(raised, disk'.queue) /\ Coherent(mem')
  <2>1. CASE UNCHANGED <<disk, settled>> /\ mem' \in {mem, disk, Blank}
    BY <1>2, <2>1, BlankCoherent
  <2>2. CASE Commit
    BY <1>2, <2>2 DEF Commit
  <2>3. CASE Sleep /\ UNCHANGED settled
    <3>1. PICK d \in 1..MaxCycle : Elapse(d)
      BY <2>3 DEF Sleep
    <3>2. d \in Nat /\ mem' = Later(mem, d) /\ disk' = Later(disk, d)
      BY <3>1, LimitAssumption DEF Elapse
    <3> QED BY <1>2, <1>3, <2>3, <3>2
  <2>4. CASE Restart /\ UNCHANGED settled
    BY <1>2, <1>3, <2>4, LimitAssumption DEF Restart
  <2>5. CASE Boot /\ UNCHANGED settled
    <3>1. PICK d \in 0..MaxBackoff : disk' = Later(disk, d)
      BY <2>5 DEF Boot
    <3>2. d \in Nat /\ mem' = Blank
      BY <2>5, LimitAssumption DEF Boot
    <3> QED BY <1>2, <1>3, <2>5, <3>1, <3>2, BlankCoherent
  <2>6. CASE PowerLoss
    <3>1. PICK d \in 0..MaxBackoff : disk' = Later(settled, d)
      BY <2>6 DEF PowerLoss
    <3>2. d \in Nat /\ mem' = Blank /\ settled' = settled
      BY <2>6, LimitAssumption DEF PowerLoss
    <3> QED BY <1>2, <1>3, <3>1, <3>2, BlankCoherent
  <2> QED BY <2>1, <2>2, <2>3, <2>4, <2>5, <2>6
          DEF Load, Quit, Crash, Terminate, Flip
<1>5. pc' \in {"poll", "send", "sleep"} => mem' = disk'
  <2>1. CASE Sleep
    <3>1. PICK d \in 1..MaxCycle : Elapse(d)
      BY <2>1 DEF Sleep
    <3> QED BY <2>1, <3>1 DEF Elapse, Sleep, PowerState, PowerInv
  <2>2. CASE ~Sleep
    BY <2>2 DEF Load, Quit, Restart, Crash, Boot, Terminate, Flip, Commit, PowerLoss,
       PowerState, PowerInv
  <2> QED BY <2>1, <2>2
<1>6. pc' \in {"save", "resave"} => pc' = pc /\ UNCHANGED <<mem, disk>>
  BY DEF Load, Sleep, Quit, Restart, Crash, Boot, Terminate, Flip, Commit, PowerLoss
<1>7. (pc' = "save" => SavedQueue') /\ (pc' = "resave" => SentQueue')
  BY <1>1, <1>6 DEF PowerState, PowerInv, SavedQueue, SentQueue, Earlier
<1>8. /\ Logged(raised', received') /\ Earlier(minted + 1)'
      /\ \A i, j \in 1..Len(raised') : i < j => raised'[i].id < raised'[j].id
  BY <1>1 DEF PowerState, PowerInv, Earlier
<1> QED BY <1>1, <1>4, <1>5, <1>7, <1>8 DEF PowerInv, Coherent

(* A loss of power keeps the types: what comes back is a state file. *)
LEMMA PowerTyped ==
  ASSUME PowerState, [PowerNext]_powerVars
  PROVE  Typed'
<1>1. CASE [Next]_vars
  BY <1>1, StepTyped DEF PowerState
<1>2. CASE Commit
  BY <1>2, StepTyped DEF Commit, PowerState
<1>3. CASE PowerLoss
  <2>1. PICK d \in 0..MaxBackoff : disk' = Later(settled, d)
    BY <1>3 DEF PowerLoss
  <2>2. disk' \in States /\ mem' \in States /\ window' \in 0..StartInterval /\ starts' \in Nat
    BY <1>3, <2>1, LaterType, BlankType, LimitAssumption DEF PowerLoss, PowerState, PowerInv
  <2> QED BY <1>3, <2>2 DEF PowerLoss, PowerState, Typed, TypeOK, logVars, envVars, PCs, Alive
<1> QED BY <1>1, <1>2, <1>3 DEF PowerNext, powerVars

LEMMA PowerInvariant == PowerSpec => []PowerState
<1>1. PowerState /\ [PowerNext]_powerVars => PowerState'
  <2> SUFFICES ASSUME PowerState, [PowerNext]_powerVars PROVE PowerInv'
    BY PowerTyped DEF PowerState
  <2>1. CASE Save /\ UNCHANGED settled
    BY <2>1, PersistPower DEF Save
  <2>2. CASE Resave /\ UNCHANGED settled
    BY <2>2, PersistPower DEF Resave
  <2>3. CASE (Poll \/ Send) /\ UNCHANGED settled
    BY <2>3, PollPower, SendPower
  <2> QED BY <2>1, <2>2, <2>3, OtherPower DEF PowerNext, powerVars, Next, Process
<1> QED BY <1>1, PowerInitially, PTL DEF PowerSpec

(* A restart never refuses its own state, whichever of the two state.json  *)
(* a power loss leaves.                                                    *)
THEOREM PowerLossLeavesAState == PowerSpec => []PersistedStateIsAccepted
<1>1. PowerState => PersistedStateIsAccepted
  BY CoherentIsAccepted DEF PowerState, PowerInv, Typed, TypeOK
<1> QED BY <1>1, PowerInvariant, PTL

(* Every alert the receiver gets was in state.json before, after a power   *)
(* loss too.                                                               *)
THEOREM PowerLossInventsNothing == PowerSpec => []NothingInvented
<1>1. PowerState => NothingInvented
  BY DEF PowerState, PowerInv, Logged, NothingInvented
<1> QED BY <1>1, PowerInvariant, PTL

(* An id never names two alerts, although a power loss takes back the      *)
(* state.json the first of them was in.                                    *)
THEOREM PowerLossKeepsIds == PowerSpec => []IdsAreUnique
<1>1. PowerState => IdsAreUnique
  <2> SUFFICES ASSUME PowerState, NEW i \in 1..Len(received), NEW j \in 1..Len(received),
                      received[i].id = received[j].id
               PROVE  received[i] = received[j]
    BY DEF IdsAreUnique
  <2>1. PICK k \in 1..Len(raised) : raised[k] = received[i]
    BY DEF PowerState, PowerInv, Logged
  <2>2. PICK l \in 1..Len(raised) : raised[l] = received[j]
    BY DEF PowerState, PowerInv, Logged
  <2>3. raised[k].id \in Nat /\ raised[l].id \in Nat
    BY AlertIds DEF PowerState, Typed, TypeOK
  <2>4. ~(k < l) /\ ~(l < k)
    BY <2>1, <2>2, <2>3 DEF PowerState, PowerInv
  <2> QED BY <2>1, <2>2, <2>4
<1> QED BY <1>1, PowerInvariant, PTL
=============================================================================
