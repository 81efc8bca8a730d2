----------------------------- MODULE HannahCore -----------------------------
(***************************************************************************)
(* External: Hannah Core, as far as the collector sees it, and the context *)
(* of main that ends both goroutines which talk to it. Core may be down,   *)
(* serve hannah.v1 only, or hannah.v2 and with it v1 (N-1); satellites     *)
(* get and lose names in it.                                               *)
(***************************************************************************)
EXTENDS Naturals, Functions, TLC

CONSTANTS
    Satellites,   \* device ids
    Steady,       \* one of them, whose name stays
    MaxChanges    \* bound: restarts, outages, dropped streams and renames

ASSUME CoreAssumption == Steady \in Satellites /\ MaxChanges \in Nat

VARIABLES
    core,         \* what Core serves: "down", "v1" or "v2"
    display,      \* the display name of each satellite, "" if it has none
    changes,
    ctxDone       \* main's context is cancelled

coreVars == <<core, display, changes, ctxDone>>

Up == core # "down"
Serves(generation) == core = "v2" \/ (core = "v1" /\ generation = "v1")

CoreInit ==
    /\ core \in {"down", "v1", "v2"} /\ changes = 0 /\ ctxDone = FALSE
    /\ display = [s \in Satellites |-> IF s = Steady THEN "steady" ELSE ""]

Changes == changes < MaxChanges /\ changes' = changes + 1

\* Core stops, or comes back, as the same version or another.
Restart ==
    /\ Changes
    /\ core' \in {"down", "v1", "v2"} \ {core}
    /\ UNCHANGED <<display, ctxDone>>

Rename ==
    /\ Changes
    /\ \E s \in Satellites \ {Steady} :
          display' = [display EXCEPT ![s] = IF @ = "" THEN "named" ELSE ""]
    /\ UNCHANGED <<core, ctxDone>>

\* client.New(conn, nil).Resolve: the newest generation Core serves; one that
\* does not answer is taken for either.
Resolved(generation) == generation \in {"v1", "v2"} /\ (Up => generation = core)
=============================================================================
