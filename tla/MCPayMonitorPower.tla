------------------------- MODULE MCPayMonitorPower -------------------------
EXTENDS PayMonitorPower

TwoObservations == {{}, {"worker_inactive"}}
=============================================================================
