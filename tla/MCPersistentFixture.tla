------------------------ MODULE MCPersistentFixture -------------------------
(* Two instances in one run, chosen by the fixtures that are in play: one  *)
(* fixture, with every command, one fault and two boots; or two,           *)
(* interchangeable, whose tests overlap each other and install, with two   *)
(* faults and boots together, while enable and stop, which read no         *)
(* evidence, are left to the first.                                        *)
EXTENDS PersistentFixture, TLC

CONSTANTS runA, runB

VARIABLE in_play

MCFixtures == {runA, runB}
Symmetry   == Permutations(MCFixtures)

Bound ==
  /\ {of.sv, of.rb, source} \subseteq in_play \cup {"none"}
  /\ IF in_play = Fixtures THEN en = "idle" /\ st = "idle" /\ faults + boots <= 2
                           ELSE faults <= 1

MCInit == Init /\ in_play \in (SUBSET Fixtures) \ {{}}
MCNext == Next /\ UNCHANGED in_play /\ Bound'
MCSpec == MCInit /\ [][MCNext]_<<vars, in_play>>
=============================================================================
