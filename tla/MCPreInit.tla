----------------------------- MODULE MCPreInit -----------------------------
EXTENDS PreInit, TLC

\* Users are interchangeable.
Symmetry == Permutations(Users)
=============================================================================
