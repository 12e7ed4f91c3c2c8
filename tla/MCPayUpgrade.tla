---------------------------- MODULE MCPayUpgrade ----------------------------
(* PayUpgrade with the four applications of persistent-upgrade.py. *)
EXTENDS PayUpgrade

CONSTANTS facade, gateway, public, worker

MCRoles == {facade, gateway, public, worker}
=============================================================================
