----------------------------- MODULE StackLoan ------------------------------
(***************************************************************************)
(* What the combined sequence promises to those who share the host with    *)
(* the private stack.  One of three runs at a time: the stack, the native  *)
(* test or the combined test.  The native test takes the stack's place and *)
(* gives it back.  For the combined test the stack leaves as a loan that   *)
(* is on record first; the test enters only when the stack has left, the   *)
(* stack returns only when the test is out, and the record goes only when  *)
(* the stack is back.  A reboot returns the stack and keeps the record.    *)
(* Who uses the stack while it is lent excuses the sequence from then on.  *)
(***************************************************************************)
VARIABLES
  inside,      \* what runs: of "stack", "native" and "combined"
  loan,        \* who has the stack on loan: "native", "combined" or "nobody"
  excused      \* somebody else has used it meanwhile

vars == <<inside, loan, excused>>

Init == inside = {"native"} /\ loan = "native" /\ excused = FALSE

(* The loan is recorded, and the stack leaves for it.                      *)
Lend ==
  /\ loan = "nobody" /\ inside = {"stack"} /\ loan' = "combined"
  /\ UNCHANGED <<inside, excused>>

Leave ==
  /\ loan = "combined" /\ inside = {"stack"} /\ inside' = {}
  /\ UNCHANGED <<loan, excused>>

(* The native test takes the stack down, or its place once more.           *)
Take ==
  /\ inside' = {"native"} /\ loan' = "native" /\ UNCHANGED excused
  /\ (loan = "nobody" /\ inside = {"stack"}) \/ (loan = "native" /\ inside = {})

Enter ==
  /\ loan = "combined" /\ inside = {} /\ inside' = {"combined"}
  /\ UNCHANGED <<loan, excused>>

Exit ==
  /\ loan # "nobody" /\ inside = {loan} /\ inside' = {}
  /\ UNCHANGED <<loan, excused>>

(* The stack is inside again: that ends a loan to the native test.         *)
Back == inside' = {"stack"} /\ loan' = (IF loan = "native" THEN "nobody" ELSE loan)

Return == loan # "nobody" /\ inside = {} /\ Back /\ UNCHANGED excused

(* The record of the other loan goes in a step of its own.                 *)
Settle ==
  /\ loan = "combined" /\ inside = {"stack"} /\ loan' = "nobody"
  /\ UNCHANGED <<inside, excused>>

Reboot == Back /\ UNCHANGED excused

(* From then on nothing is promised.                                       *)
Excuse == excused' = TRUE

Next == Lend \/ Leave \/ Take \/ Enter \/ Exit \/ Return \/ Settle \/ Reboot \/ Excuse

Spec == Init /\ [][Next]_vars
=============================================================================
