------------------------------ MODULE MCAccess -------------------------------
EXTENDS Access, TLC

\* Requests are alike until they arrive; no liveness is checked.
Symmetry == Permutations(Request)
==============================================================================
