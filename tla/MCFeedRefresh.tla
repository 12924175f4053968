---------------------------- MODULE MCFeedRefresh ----------------------------
EXTENDS FeedRefresh, TLC

\* Goroutines are interchangeable, and so are entries.
Symmetry == Permutations(Refresher) \cup Permutations(Entry)
==============================================================================
