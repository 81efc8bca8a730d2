---------------------------- MODULE MCRetention ----------------------------
\* Retention on a small instance; the .cfg files choose its numbers.
EXTENDS Retention
=============================================================================
