------------------------- MODULE MCObserverInstall --------------------------
EXTENDS ObserverInstall
=============================================================================
