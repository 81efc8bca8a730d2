---------------------------- MODULE AcceptedLog ----------------------------
(***************************************************************************)
(* What internal/store.Writer promises its callers, without channel, batch *)
(* or goroutine: accepted log entries form one line; from its front they   *)
(* go to the table in whole runs, in order, or a whole run is lost when    *)
(* the database refuses it. Nothing overtakes, nothing is written twice,   *)
(* and nothing leaves the line in any other way.                           *)
(***************************************************************************)
EXTENDS Naturals, Sequences, Functions

CONSTANT Entry         \* the entries that may be accepted

VARIABLES pending,     \* accepted, not settled yet, oldest first
          table,       \* rows of the entries table, in id order
          refused      \* entries of the runs the database refused

vars == <<pending, table, refused>>

Seen == Range(pending) \cup Range(table) \cup refused

Init == pending = <<>> /\ table = <<>> /\ refused = {}

\* An entry is accepted at most once: it is a fresh line of some caller.
Accept(e) ==
    /\ e \notin Seen
    /\ pending' = Append(pending, e)
    /\ UNCHANGED <<table, refused>>

\* The k oldest entries are settled together, by one transaction.
Settle(k) ==
    /\ pending' = SubSeq(pending, k + 1, Len(pending))
    /\ \/ /\ table' = table \o SubSeq(pending, 1, k)
          /\ UNCHANGED refused
       \/ /\ refused' = refused \cup Range(SubSeq(pending, 1, k))
          /\ UNCHANGED table

Next == \/ \E e \in Entry : Accept(e)
        \/ \E k \in 1..Len(pending) : Settle(k)

Spec == Init /\ [][Next]_vars
=============================================================================
