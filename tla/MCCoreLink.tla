----------------------------- MODULE MCCoreLink -----------------------------
\* CoreLink on a small instance.
EXTENDS CoreLink
=============================================================================
