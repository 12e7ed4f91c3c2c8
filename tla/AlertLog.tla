------------------------------ MODULE AlertLog ------------------------------
(***************************************************************************)
(* What the Pay monitor promises its operator, without polling, counters,  *)
(* files or retries: incidents form one log, and the operator receives the *)
(* log in order, at least once.  Only the alert received last may arrive   *)
(* again, with the identity it already had; nothing is skipped, nothing is *)
(* invented and no alert is received before it is in the log.              *)
(*                                                                         *)
(* PayMonitor is shown to implement this specification.                    *)
(***************************************************************************)
EXTENDS Naturals, Sequences

CONSTANT Observations    \* issue sets an alert may carry ({} is a recovery)

VARIABLES raised,        \* the log: every alert that was made durable
          delivered,     \* how many different alerts the operator has
          inbox          \* everything the operator received, repeats included

logVars == <<raised, delivered, inbox>>

(* Two neighbours in the log never say the same thing, and the first entry *)
(* is never a recovery: there is nothing to recover from.                  *)
LastIssues == IF raised = <<>> THEN {} ELSE raised[Len(raised)].issues

Init ==
  /\ raised = <<>>
  /\ delivered = 0
  /\ inbox = <<>>

Raise ==
  /\ Len(raised') = Len(raised) + 1
  /\ LET new == raised'[Len(raised')]
     IN  /\ raised' = Append(raised, new)
         /\ new.issues \in Observations \ {LastIssues}
         /\ \A i \in 1..Len(raised) : raised[i].id < new.id
  /\ UNCHANGED <<delivered, inbox>>

DeliverNext ==
  /\ delivered < Len(raised)
  /\ delivered' = delivered + 1
  /\ inbox' = Append(inbox, raised[delivered + 1])
  /\ UNCHANGED raised

DeliverAgain ==
  /\ delivered > 0
  /\ inbox' = Append(inbox, raised[delivered])
  /\ UNCHANGED <<raised, delivered>>

Next == Raise \/ DeliverNext \/ DeliverAgain

Spec == Init /\ [][Next]_logVars
=============================================================================
