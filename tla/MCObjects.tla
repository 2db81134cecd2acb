------------------------------ MODULE MCObjects ------------------------------
\* The symmetry of the instance that TLC checks: neither addresses nor
\* functions are told apart.
EXTENDS Objects

Symmetric == Permutations(Addresses) \cup Permutations(Functions)
=============================================================================
