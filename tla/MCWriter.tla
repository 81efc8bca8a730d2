------------------------------ MODULE MCWriter ------------------------------
\* Writer on a small instance; callers are interchangeable.
EXTENDS Writer, TLC

Symmetry == Permutations(Callers)
=============================================================================
