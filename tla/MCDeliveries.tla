---------------------------- MODULE MCDeliveries -----------------------------
EXTENDS Deliveries
==============================================================================
