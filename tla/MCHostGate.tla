----------------------------- MODULE MCHostGate ------------------------------
EXTENDS HostGate
==============================================================================
