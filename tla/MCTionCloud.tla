----------------------------- MODULE MCTionCloud -----------------------------
EXTENDS TionCloud, TLC

\* Locations and connection objects are interchangeable.
Symmetry == Permutations(Sids) \cup Permutations(Conns)
=============================================================================
