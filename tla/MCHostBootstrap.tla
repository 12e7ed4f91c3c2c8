--------------------------- MODULE MCHostBootstrap --------------------------
EXTENDS HostBootstrap
=============================================================================
