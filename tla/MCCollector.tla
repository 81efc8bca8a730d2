---------------------------- MODULE MCCollector ----------------------------
\* Collector on a small instance; its streams are interchangeable.
EXTENDS Collector, TLC

Symmetry == Permutations(Streams)
=============================================================================
