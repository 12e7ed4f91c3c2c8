---------------------------- MODULE MCPayMonitor ----------------------------
(* A small instance of PayMonitor: what a poll may see. *)
EXTENDS PayMonitor

MCObservations == {{}, {"worker_inactive"}, {"scanner_stale", "worker_inactive"}}
=============================================================================
