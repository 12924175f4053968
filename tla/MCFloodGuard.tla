----------------------------- MODULE MCFloodGuard -----------------------------
EXTENDS FloodGuard, TLC

CONSTANTS a1, a2, a3, t1, h1, i1, i2

\* Two addresses: one sends two anonymous requests and one with a token, the
\* other an anonymous one and a health check.
Where == (a1 :> i1) @@ (a2 :> i1) @@ (t1 :> i1) @@ (a3 :> i2) @@ (h1 :> i2)

Symmetry == Permutations({a1, a2})
==============================================================================
