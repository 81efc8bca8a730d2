------------------------------- MODULE Names -------------------------------
(***************************************************************************)
(* internal/names/names.go with internal/hannah/satellites.go as its       *)
(* lister: the display names of the satellites, asked from Core again and  *)
(* again. The forwarder reads them through Name.                           *)
(***************************************************************************)
EXTENDS HannahCore

VARIABLES
    npc,        \* where the registry's run is
    probed,     \* the generation its call speaks
    answer,     \* what its call returned
    byID        \* r.byID

namesVars == <<npc, probed, answer, byID>>

\* Only satellites with an id and a display name.
Named(d) == Restrict(d, {s \in Satellites : d[s] # ""})

Name(id) == IF id \in DOMAIN byID THEN byID[id] ELSE id

NoNames == [s \in {} |-> ""]

NamesInit ==
    /\ npc = "list" /\ probed = "none" /\ answer = NoNames /\ byID = NoNames

\* Names: a new connection, and the generation Core serves.
ListResolve ==
    /\ npc = "list"
    /\ \E g \in {"v1", "v2"} : Resolved(g) /\ probed' = g
    /\ npc' = "ask"
    /\ UNCHANGED <<answer, byID>>

ListAnswered ==
    /\ npc = "ask" /\ Serves(probed) /\ ~ctxDone
    /\ answer' = Named(display)
    /\ npc' = "set"
    /\ UNCHANGED <<probed, byID>>

EmptyOnError == NoNames                                                \* mutant
KeptOnError == byID

\* Core refuses or is away, or, also if it is there, the call does not come
\* through within satellitesTimeout.
ListFails ==
    /\ npc = "ask"
    /\ npc' = IF ctxDone THEN "returned" ELSE "wait"
    /\ byID' = KeptOnError
    /\ UNCHANGED <<probed, answer>>

Merged(new) == new @@ byID                                             \* mutant
Replaced(new) == new

Set ==
    /\ npc = "set"
    /\ byID' = Replaced(answer) /\ answer' = NoNames
    /\ npc' = "wait"
    /\ UNCHANGED probed

\* retryEvery or refreshEvery is over.
AskAgain ==
    /\ npc = "wait"
    /\ npc' = "list"
    /\ UNCHANGED <<probed, answer, byID>>

WaitCancelled ==
    /\ npc = "wait" /\ ctxDone
    /\ npc' = "returned"
    /\ UNCHANGED <<probed, answer, byID>>

NamesStep == \/ ListResolve \/ ListAnswered \/ ListFails \/ Set
             \/ AskAgain \/ WaitCancelled
-----------------------------------------------------------------------------
(* Properties.                                                             *)

NamesTypeOK ==
    /\ npc \in {"list", "ask", "set", "wait", "returned"}
    /\ probed \in {"none", "v1", "v2"}
    /\ \A names \in {answer, byID} :
          DOMAIN names \subseteq Satellites /\ "" \notin Range(names)

\* names.go:52: "A failed call keeps the names of the last good one." Once the
\* name of a satellite is known, no outage, restart or other generation of Core
\* turns it back into the id, as long as Core itself keeps it.
NameStays == [][Name(Steady) = "steady" => Name(Steady)' = "steady"]_byID
=============================================================================
