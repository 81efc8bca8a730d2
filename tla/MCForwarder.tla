---------------------------- MODULE MCForwarder ----------------------------
\* Forwarder on a small instance: two sources that come up one after the other,
\* the third entry is blank.
EXTENDS Forwarder

EarlyThenLate == [e \in Entry |-> IF e <= 2 THEN "early" ELSE "late"]
Third == {e \in Entry : e = 3}
None == {}
=============================================================================
