------------------------- MODULE BootQualification --------------------------
(***************************************************************************)
(* What the two tests of a fixture promise whoever reads their records.  A *)
(* reboot test begins with its record, of a fixture whose service test has *)
(* passed, and leaves nothing on the host before that.  The record then    *)
(* only goes forward: ready when the units are installed, verified when    *)
(* there is evidence, which takes a boot that started the units, cleaned   *)
(* when nothing of them is left, and then nothing comes back.  A record or *)
(* an evidence file may be lost; a lost record is never replaced.          *)
(***************************************************************************)
VARIABLES
  tested,      \* the fixtures whose service test has passed
  named,       \* the fixture the record is of
  stage,       \* "none", "installing", "ready-to-reboot", "verified", "cleaned", or "torn"
  started,     \* a boot has started the units of the record
  shown,       \* the evidence: "none", "PASS", "removed"
  left         \* a unit file, boot enablement or process is on the host

vars   == <<tested, named, stage, started, shown, left>>
record == <<named, stage>>

Init ==
  /\ tested = {} /\ named = "none" /\ stage = "none"
  /\ started = FALSE /\ shown = "none" /\ left = FALSE

Pass == tested \subseteq tested' /\ UNCHANGED <<record, started, shown, left>>

Begin ==
  /\ stage = "none" /\ stage' = "installing" /\ named' \in tested /\ started' = FALSE
  /\ UNCHANGED <<tested, shown, left>>

(* Files are installed and removed, units started and stopped.             *)
Work ==
  /\ stage \notin {"none", "cleaned"} /\ left' \in BOOLEAN
  /\ UNCHANGED <<tested, record, started, shown>>

Boot ==
  /\ stage \notin {"none", "cleaned"} /\ left /\ started' = TRUE
  /\ UNCHANGED <<tested, record, shown, left>>

(* From one stage to the next, and what each takes.                        *)
Go(from, to) == stage \in from /\ stage' = to /\ UNCHANGED <<tested, named, started, shown, left>>

Ready   == left /\ Go({"installing"}, "ready-to-reboot")
Certify == started /\ shown = "PASS" /\ Go({"ready-to-reboot"}, "verified")
Clean   == ~left /\ Go({"installing", "ready-to-reboot", "verified"}, "cleaned")
Tear    == Go({"none", "installing", "ready-to-reboot", "verified"}, "torn")

(* The evidence follows the record, and is withdrawn after the removal.    *)
Show(from, to) == stage = from /\ shown' = to /\ UNCHANGED <<tested, record, started, left>>

Witness == started /\ Show("ready-to-reboot", "PASS")
Flag    == shown # "none" /\ Show("cleaned", "removed")
Spoil   == \E s \in {"ready-to-reboot", "cleaned"} : Show(s, "none")

Next ==
  \/ Pass \/ Begin \/ Work \/ Boot \/ Ready \/ Certify \/ Clean \/ Tear
  \/ Witness \/ Flag \/ Spoil

Spec == Init /\ [][Next]_vars
=============================================================================
