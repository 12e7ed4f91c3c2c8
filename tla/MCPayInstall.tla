---------------------------- MODULE MCPayInstall ----------------------------
(* PayInstall with two of the four applications: enough for a mixed set.   *)
EXTENDS PayInstall

CONSTANTS gateway, worker, target

MCRoles  == {gateway, worker}
MCTarget == target
=============================================================================
