----------------------------- MODULE MCPublish -----------------------------
EXTENDS Publish, TLC
CONSTANTS b1, b2, a1, a2
Symmetry == Permutations({b1, b2}) \cup Permutations({a1, a2})
=============================================================================
