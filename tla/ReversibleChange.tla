-------------------------- MODULE ReversibleChange --------------------------
(***************************************************************************)
(* What persistent-upgrade.py promises: one change of a running system     *)
(* that is either closed, and then the system is exactly the one it was    *)
(* before, or open, and then anything may be half done, or accepted, and   *)
(* then the system is exactly the new one.  It is accepted only when it    *)
(* was once tried completely and then undone completely.                   *)
(***************************************************************************)
CONSTANTS Before, After      \* the system without and with the change

VARIABLES
  system,    \* everything the change touches
  status,    \* "closed", "open" or "accepted"
  tried,     \* the whole change was seen to work while open
  proven     \* ... and was undone afterwards

vars == <<system, status, tried, proven>>

Init == system = Before /\ status = "closed" /\ tried = FALSE /\ proven = FALSE

Open == status = "closed" /\ status' = "open" /\ UNCHANGED <<system, tried, proven>>

(* Parts of the system change, in any order and to anything.               *)
Change == status = "open" /\ UNCHANGED <<status, proven>> /\ (tried => tried')

Undo ==
  /\ status = "open" /\ system = Before
  /\ status' = "closed"
  /\ proven' \in {proven, tried}
  /\ UNCHANGED <<system, tried>>

Accept ==
  /\ status = "open" /\ proven /\ system = After
  /\ status' = "accepted"
  /\ UNCHANGED <<system, tried, proven>>

Next == Open \/ Change \/ Undo \/ Accept

Spec == Init /\ [][Next]_vars
=============================================================================
