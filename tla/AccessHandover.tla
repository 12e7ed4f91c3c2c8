--------------------------- MODULE AccessHandover ---------------------------
(***************************************************************************)
(* What the two-phase bootstrap promises about access: a host is handed    *)
(* over, once, from the ways in that its provider left open to the ones    *)
(* that are to remain.  Before that ways open and close, but never all at  *)
(* once, and a step keeps a way that was open or else opens the provider's. *)
(* The handover happens only while the remaining ways are open, and nothing *)
(* takes it back: from then on they stay open, no other is opened again,   *)
(* and a reboot leaves just them.  It is declared only when no other way is *)
(* left.                                                                   *)
(***************************************************************************)
CONSTANTS
  Ways,        \* who may come in, and where
  First,       \* the ways the provider left
  Final        \* the ways that are to remain

VARIABLES
  now,         \* the ways open now
  next,        \* ... and the ways a reboot at this moment would leave open
  handed,      \* the host was handed over
  declared     \* it is on record as finished

vars == <<now, next, handed, declared>>

Open == {open \in SUBSET Ways : open # {}}

Init == now \in Open /\ next \in Open /\ handed = FALSE /\ declared = FALSE

(* Ways are opened and closed, or the host reboots.                        *)
Change ==
  /\ ~handed /\ UNCHANGED <<handed, declared>>
  /\ now' \in Open /\ next' \in Open
  /\ now' \cap now # {} \/ First \subseteq now'

(* What opens is final; what is open may still be more.                    *)
HandOver ==
  /\ ~handed /\ handed' = TRUE
  /\ Final \subseteq now' /\ now' \subseteq now /\ next' = Final
  /\ UNCHANGED declared

(* The other ways close.                                                   *)
Close ==
  /\ handed /\ UNCHANGED <<handed, declared, next>>
  /\ Final \subseteq now' /\ now' \subseteq now

Declare  == handed /\ now = Final /\ declared' = TRUE /\ UNCHANGED <<now, next, handed>>
Withdraw == declared' = FALSE /\ UNCHANGED <<now, next, handed>>

Next == Change \/ HandOver \/ Close \/ Declare \/ Withdraw

Spec == Init /\ [][Next]_vars
=============================================================================
