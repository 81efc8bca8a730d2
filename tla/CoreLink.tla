------------------------------ MODULE CoreLink ------------------------------
(***************************************************************************)
(* The two goroutines that talk to Hannah Core (main.go:88 and 140) and    *)
(* Core itself, under the context of main.                                 *)
(***************************************************************************)
EXTENDS HannahClient, Names

vars == <<coreVars, clientVars, namesVars>>

Init == CoreInit /\ ClientInit /\ NamesInit

\* Open streams break with the Core they lead to.
CoreRestarts == Restart /\ StreamBreaks /\ UNCHANGED namesVars

ConnectionDrops ==
    /\ stream = "open" /\ Changes
    /\ UNCHANGED <<core, display, ctxDone, namesVars>>
    /\ StreamBreaks

CoreRenames ==
    /\ Rename
    /\ UNCHANGED <<clientVars, namesVars>>

\* SIGTERM.
Cancel ==
    /\ ~ctxDone /\ ctxDone' = TRUE
    /\ UNCHANGED <<core, display, changes, clientVars, namesVars>>

Client == ClientStep /\ UNCHANGED <<coreVars, namesVars>>
Registry == NamesStep /\ UNCHANGED <<coreVars, clientVars>>

Next == CoreRestarts \/ ConnectionDrops \/ CoreRenames \/ Cancel \/ Client \/ Registry

Spec == Init /\ [][Next]_vars

Opens   == Open /\ UNCHANGED <<coreVars, namesVars>>
Answers == ListAnswered /\ UNCHANGED <<coreVars, clientVars>>

\* Goroutines go on: timers fire, calls return, Core acknowledges. Core need not
\* stay up, and nobody needs to cancel; but of the streams and calls it could
\* take, tried again and again, not every one fails on the way.
FairSpec ==
    /\ Spec /\ WF_vars(Client) /\ WF_vars(Registry)
    /\ SF_vars(Opens) /\ SF_vars(Answers)
-----------------------------------------------------------------------------
(* Properties.                                                             *)

TypeOK == ClientTypeOK /\ NamesTypeOK

\* client.go:27 and names.go:16: after every loss the collector is registered
\* again, and a renamed satellite shows up without a restart: if Core stays up
\* from some time on, then so does an acknowledged stream, and the names are
\* those Core has, no more and no fewer: past any failed attempts and calls.
LinkRecovers ==
    <>[]Up => <>[](\/ ctxDone
                   \/ place = "recv" /\ registered /\ byID = Named(display))

\* Both goroutines end with the context, from wherever they are: in a call, with
\* an open stream, or in a wait.
LinkEnds == ctxDone ~> (place = "returned" /\ npc = "returned")
=============================================================================
