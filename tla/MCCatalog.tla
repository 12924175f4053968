------------------------------ MODULE MCCatalog ------------------------------
EXTENDS Catalog, TLC

\* Writers are interchangeable; clients do not see each other, and one may be of any
\* kind.
Symmetry == Permutations(Writer)
==============================================================================
