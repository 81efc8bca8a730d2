---------------------------- MODULE HannahClient ----------------------------
(***************************************************************************)
(* internal/hannah/client.go: the stream to Hannah Core that keeps the     *)
(* collector registered. Run makes one attempt after the other (connect),  *)
(* each over a new connection, with an exponential backoff in between.     *)
(***************************************************************************)
EXTENDS HannahCore

CONSTANTS
    InitialBackoff,   \* a second
    MaxBackoff,       \* maxBackoff
    MaxCounted        \* bound: failed attempts in a row that are counted

ASSUME ClientAssumption ==
    /\ InitialBackoff \in Nat \ {0} /\ MaxBackoff \in Nat
    /\ InitialBackoff <= MaxBackoff
    /\ MaxCounted \in Nat \ {0}

\* So many attempts are counted that the delay has reached its maximum.
ASSUME CountedAssumption == InitialBackoff * 2^(MaxCounted - 1) >= MaxBackoff

VARIABLES
    place,        \* where Run and connect are
    generation,   \* of the stream: what Resolve said
    stream,       \* "none", "open", or "broken" at the other end
    announced,    \* Core has the registration, in the messages of this generation
    registered,   \* connect's local: Core acknowledged it
    backoff,
    failures,     \* history: attempts without an acknowledgement in a row
    sawOld        \* history: at a time in this attempt Core did not serve v2

clientVars == <<place, generation, stream, announced, registered, backoff,
                failures, sawOld>>

ClientInit ==
    /\ place = "resolve" /\ generation = "none" /\ stream = "none"
    /\ announced = "none" /\ registered = FALSE
    /\ backoff = InitialBackoff /\ failures = 0 /\ sawOld = (core # "v2")
-----------------------------------------------------------------------------
(* connect.                                                                *)

ProbeOnce(g) == IF generation = "none" THEN Resolved(g) ELSE g = generation   \* mutant
Probe(g) == Resolved(g)

Resolve ==
    /\ place = "resolve"
    /\ \E g \in {"v1", "v2"} : Probe(g) /\ generation' = g
    /\ place' = "open"
    /\ UNCHANGED <<stream, announced, registered, backoff, failures, sawOld>>

\* LogCollectorConnect of that generation. One that Core does not serve is
\* refused when something is received.
Open ==
    /\ place = "open" /\ Up /\ ~ctxDone
    /\ stream' = IF Serves(generation) THEN "open" ELSE "broken"
    /\ place' = "register"
    /\ UNCHANGED <<generation, announced, registered, backoff, failures, sawOld>>

Register ==
    /\ place = "register"
    /\ announced' = IF stream = "open" THEN generation ELSE "none"
    /\ place' = "recv"
    /\ UNCHANGED <<generation, stream, registered, backoff, failures, sawOld>>

\* Any other command is logged and ignored.
RecvAck ==
    /\ place = "recv" /\ stream = "open" /\ ~registered
    /\ registered' = TRUE
    /\ UNCHANGED <<place, generation, stream, announced, backoff, failures, sawOld>>

OnlyBroken == stream = "broken"                                        \* mutant
StreamFails == stream = "broken" \/ ctxDone

DoubledFromStart(acked) == backoff                                     \* mutant
NextBackoff(acked) == IF acked THEN InitialBackoff ELSE backoff

\* connect returns and closes its connection; Run ends or waits.
EndAttempt(acked) ==
    /\ place' = IF ctxDone THEN "returned" ELSE "backoff"
    /\ stream' = "none" /\ announced' = "none"
    /\ backoff' = NextBackoff(acked)
    /\ failures' = IF acked THEN 0
                   ELSE IF failures < MaxCounted THEN failures + 1 ELSE failures
    /\ UNCHANGED <<generation, registered, sawOld>>

\* The stream cannot be opened, also to a Core that is up, or the registration
\* not be sent.
Fails ==
    /\ \/ place = "open"
       \/ place = "register" /\ StreamFails
    /\ EndAttempt(FALSE)

RecvFails == place = "recv" /\ StreamFails /\ EndAttempt(registered)
-----------------------------------------------------------------------------
(* Run's wait.                                                             *)

NoLimit(b) == 2 * b                                                    \* mutant
Doubled(b) == IF 2 * b > MaxBackoff THEN MaxBackoff ELSE 2 * b

BackoffOver ==
    /\ place = "backoff"
    /\ place' = "resolve"
    /\ backoff' = IF registered THEN backoff ELSE Doubled(backoff)
    /\ registered' = FALSE
    /\ sawOld' = (core # "v2")
    /\ UNCHANGED <<generation, stream, announced, failures>>

Cancelled ==
    /\ place = "backoff" /\ ctxDone
    /\ place' = "returned"
    /\ UNCHANGED <<generation, stream, announced, registered, backoff, failures, sawOld>>

ClientStep == \/ Resolve \/ Open \/ Register \/ RecvAck \/ Fails \/ RecvFails
              \/ BackoffOver \/ Cancelled

\* What the client notices of a restarted Core or of a dropped connection.
StreamBreaks ==
    /\ stream' = IF stream = "open" THEN "broken" ELSE stream
    /\ sawOld' = (sawOld \/ core' # "v2")
    /\ UNCHANGED <<place, generation, announced, registered, backoff, failures>>
-----------------------------------------------------------------------------
(* Properties.                                                             *)

ClientTypeOK ==
    /\ place \in {"resolve", "open", "register", "recv", "backoff", "returned"}
    /\ generation \in {"none", "v1", "v2"} /\ announced \in {"none", "v1", "v2"}
    /\ stream \in {"none", "open", "broken"}
    /\ registered \in BOOLEAN /\ sawOld \in BOOLEAN
    /\ backoff \in InitialBackoff..MaxBackoff
    /\ failures \in 0..MaxCounted

\* client.go:61: the wait after an attempt depends on the attempts since Core
\* last acknowledged one, and on nothing before: the first delay after an
\* acknowledged one, then doubled for each that failed, up to the maximum.
\* (A connection that is not acknowledged resets nothing.)
BackoffByFailures ==
    place = "backoff" =>
        LET doubled == InitialBackoff * 2^(failures - 1) IN
        backoff = CASE failures = 0 -> InitialBackoff
                    [] failures > 0 /\ doubled > MaxBackoff -> MaxBackoff
                    [] OTHER -> doubled

\* client.go:77: the collector registers with the messages of v1, which hold no
\* syslog port, only if Core really did not serve v2 at some time of the same
\* attempt: no probe of an earlier connection decides it.
FallbackJustified == announced = "v1" => sawOld
=============================================================================
