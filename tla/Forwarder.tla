----------------------------- MODULE Forwarder -----------------------------
(***************************************************************************)
(* internal/forward/forwarder.go: every accepted entry also goes to a      *)
(* syslog receiver. Offer, called by the goroutines of Writer.Add, puts it *)
(* into a ring that drops its oldest entry when full; one goroutine, Run,  *)
(* takes batches out of the ring, dials the target and writes to it, and   *)
(* on cancellation makes a last effort over the connection it has.         *)
(* Left out: the text of a line (Format), log lines, the length of the     *)
(* backoff, the flag `up` that only decides about logging.                 *)
(***************************************************************************)
EXTENDS Integers, Sequences, FiniteSets, Functions

CONSTANTS
    Offerers,       \* goroutines that call Offer
    Sources,        \* sources of entries
    SourceOf,       \* the source of each entry
    Blank,          \* entries without text
    QueueSize,      \* len(f.ring)
    MaxBatch,       \* maxBatch
    MaxOffers,      \* bound: entries offered
    MaxFailures,    \* bound: writes to the target that fail
    TargetFails,    \* may a dial fail?
    StoreFails,     \* may AllSources return an error?
    Stoppable,      \* may the context of Run be cancelled?
    LateOffers      \* may Offer be called after that?

\* Entries are numbered in the order in which their Offers got the mutex.
Entry == 1..MaxOffers

ASSUME ForwarderAssumption ==
    /\ QueueSize \in Nat \ {0} /\ MaxBatch \in Nat \ {0}
    /\ MaxOffers \in Nat /\ MaxFailures \in Nat
    /\ SourceOf \in [Entry -> Sources] /\ Blank \subseteq Entry
    /\ {TargetFails, StoreFails, Stoppable, LateOffers} \subseteq BOOLEAN

VARIABLES
    ring, head, n,  \* the bounded queue; 0 is the zero store.Entry
    dropped,        \* since the last report
    periodOver,     \* dropLogPeriod has passed since the last report
    notify,         \* the notify channel holds its one token
    opc,            \* where each caller of Offer is
    ctxDone,        \* the context of Run is cancelled
    rpc,            \* where Run is
    final,          \* Run returns: it is in the deferred flush
    batch,          \* entries taken, not encoded yet
    payload,        \* entries encoded, not written yet
    known,          \* f.known: the sources Run can resolve
    conn,           \* there is a connection
    written,        \* history: what was written to the target
    offered,        \* history: how many entries were offered
    evicted,        \* history: entries the full queue dropped
    reported,       \* history: sum of the drops in the log lines
    skipped,        \* history: entries encode left out, and why
    abandoned,      \* history: entries in hand when Run returned
    failures        \* history: failed writes

ringVars  == <<ring, head, n, offered, evicted>>
dropVars  == <<dropped, periodOver, reported>>
handVars  == <<batch, payload, known, skipped>>
wireVars  == <<conn, written, failures>>
vars == <<ringVars, dropVars, notify, opc, ctxDone, rpc, final, handVars, wireVars, abandoned>>

Init ==
    /\ ring = [i \in 0..(QueueSize - 1) |-> 0] /\ head = 0 /\ n = 0
    /\ dropped = 0 /\ periodOver = TRUE /\ reported = 0
    /\ notify = FALSE /\ opc = [o \in Offerers |-> "idle"]
    /\ ctxDone = FALSE /\ rpc = "take" /\ final = FALSE
    /\ batch = <<>> /\ payload = <<>> /\ known = {} /\ skipped = {}
    /\ conn = FALSE /\ written = <<>> /\ failures = 0
    /\ offered = 0 /\ evicted = {} /\ abandoned = {}

Slot(i)  == (head + i) % QueueSize
Oldest(k) == [i \in 1..k |-> ring[Slot(i - 1)]]
InRing   == {ring[Slot(i)] : i \in 0..(n - 1)}
-----------------------------------------------------------------------------
(* Offer: the part under the mutex, then the wake-up.                      *)

FullOffByOne == n > QueueSize                                      \* mutant
Full == n = QueueSize

DropUncounted == dropped                                           \* mutant
OneMoreDrop == dropped + 1

StaySlot == head                                                   \* mutant
NextHead == Slot(1)

Offer(o) ==
    /\ opc[o] = "idle" /\ offered < MaxOffers /\ (ctxDone => LateOffers)
    /\ offered' = offered + 1
    /\ IF Full
       THEN /\ head' = NextHead /\ dropped' = OneMoreDrop
            /\ evicted' = evicted \cup {ring[head]} /\ UNCHANGED n
       ELSE n' = n + 1 /\ UNCHANGED <<head, dropped, evicted>>
    /\ ring' = [ring EXCEPT ![(head' + n' - 1) % QueueSize] = offered']
    /\ opc' = [opc EXCEPT ![o] = "notify"]
    /\ UNCHANGED <<periodOver, reported, notify, ctxDone, rpc, final, handVars,
                   wireVars, abandoned>>

OnlyIfWaiting == notify \/ rpc = "wait"       \* mutant: an unbuffered channel
TokenLeft == TRUE

\* The send on notify, or its default when the token is already there.
Notify(o) ==
    /\ opc[o] = "notify"
    /\ notify' = TokenLeft
    /\ opc' = [opc EXCEPT ![o] = "idle"]
    /\ UNCHANGED <<ringVars, dropVars, ctxDone, rpc, final, handVars, wireVars, abandoned>>
-----------------------------------------------------------------------------
(* Run: take and wait.                                                     *)

NewestFirst(k) == [i \in 1..k |-> Oldest(n)[n + 1 - i]]            \* mutant
FromFront(k) == Oldest(k)

Take ==
    /\ rpc = "take"
    /\ LET count == IF n < MaxBatch THEN n ELSE MaxBatch IN
       /\ batch' = FromFront(count)
       /\ head' = Slot(count) /\ n' = n - count
       /\ rpc' = IF count > 0 THEN "encode" ELSE IF final THEN "closed" ELSE "empty"
       /\ conn' = (conn /\ rpc' # "closed")
    /\ UNCHANGED <<ring, offered, evicted, dropVars, notify, opc, ctxDone, final,
                   payload, known, skipped, written, failures, abandoned>>

\* Run reaches its select only now: an Offer may have come since the empty take.
Wait ==
    /\ rpc = "empty" /\ rpc' = "wait"
    /\ UNCHANGED <<ringVars, dropVars, notify, opc, ctxDone, final, handVars, wireVars, abandoned>>

Wake ==
    /\ rpc = "wait" /\ notify
    /\ notify' = FALSE /\ rpc' = "take"
    /\ UNCHANGED <<ringVars, dropVars, opc, ctxDone, final, handVars, wireVars, abandoned>>

\* Run returns. The deferred function flushes only if there is a connection;
\* what was in hand is gone with the goroutine.
Return ==
    /\ final' = conn'
    /\ rpc' = IF conn' THEN "take" ELSE "closed"
    /\ abandoned' = abandoned \cup (Range(payload) \ Range(written'))
    /\ payload' = <<>>
    /\ UNCHANGED <<ringVars, notify, opc, ctxDone, batch, known, skipped>>

NeverSeen == FALSE                                                 \* mutant
CancelSeen == ctxDone

StopWaiting ==
    /\ rpc = "wait" /\ CancelSeen
    /\ UNCHANGED <<dropVars, wireVars>>
    /\ Return
-----------------------------------------------------------------------------
(* Run: encode, entry by entry.                                            *)

\* A source is registered before an entry of it is accepted (server.go:64).
SeenAtFirstLookup == IF known = {} THEN {SourceOf[e] : e \in 1..offered}
                                   ELSE known                      \* mutant
Registered == {SourceOf[e] : e \in 1..offered}

\* The lookups of the final flush run on a background context.
LookupFails == StoreFails \/ (ctxDone /\ ~final)
LookupWorks == final \/ ~ctxDone

LeaveOut(e, why) == skipped' = skipped \cup {<<e, why>>} /\ UNCHANGED payload
Line(e)     == payload' = Append(payload, e) /\ UNCHANGED skipped

Encode ==
    /\ rpc = "encode" /\ batch # <<>>
    /\ LET e == Head(batch) IN
       \/ e \in Blank /\ LeaveOut(e, "blank") /\ UNCHANGED known
       \/ e \notin Blank /\ SourceOf[e] \in known /\ Line(e) /\ UNCHANGED known
       \/ /\ e \notin Blank /\ SourceOf[e] \notin known
          /\ \/ /\ LookupWorks /\ known' = Registered
                /\ IF SourceOf[e] \in known' THEN Line(e) ELSE LeaveOut(e, "unknown")
             \/ LookupFails /\ UNCHANGED known /\ LeaveOut(e, "no answer")
    /\ batch' = Tail(batch)
    /\ UNCHANGED <<ringVars, dropVars, notify, opc, ctxDone, rpc, final, wireVars, abandoned>>

Encoded ==
    /\ rpc = "encode" /\ batch = <<>>
    /\ rpc' = IF payload # <<>> THEN IF conn THEN "send" ELSE "dial"
              ELSE IF final THEN "take" ELSE "report"
    /\ UNCHANGED <<ringVars, dropVars, notify, opc, ctxDone, final, handVars,
                   wireVars, abandoned>>
-----------------------------------------------------------------------------
(* Run: dial, back off, send, report.                                      *)

\* reportDrops
ReportDrops ==
    IF dropped = 0 \/ ~periodOver THEN UNCHANGED dropVars
    ELSE dropped' = 0 /\ periodOver' = FALSE /\ reported' = reported + dropped

DialOk ==
    /\ rpc = "dial" /\ ~ctxDone
    /\ conn' = TRUE /\ rpc' = "send"
    /\ UNCHANGED <<ringVars, dropVars, notify, opc, ctxDone, final, handVars,
                   written, failures, abandoned>>

DialFails ==
    /\ rpc = "dial"
    /\ UNCHANGED wireVars
    /\ \/ ctxDone /\ Return /\ UNCHANGED dropVars
       \/ /\ TargetFails /\ ~ctxDone
          /\ ReportDrops /\ rpc' = "backoff"
          /\ UNCHANGED <<ringVars, notify, opc, ctxDone, final, handVars, abandoned>>

\* sleep: its timer, or the end of the context.
Backoff ==
    /\ rpc = "backoff"
    /\ UNCHANGED <<dropVars, wireVars>>
    /\ \/ /\ rpc' = "dial"
          /\ UNCHANGED <<ringVars, notify, opc, ctxDone, final, handVars, abandoned>>
       \/ ctxDone /\ Return

\* All of the payload is handed to the connection.
SendOk ==
    /\ rpc = "send"
    /\ written' = written \o payload
    /\ payload' = <<>>
    /\ rpc' = IF final THEN "take" ELSE "report"
    /\ UNCHANGED <<ringVars, dropVars, notify, opc, ctxDone, final, batch, known,
                   skipped, conn, failures, abandoned>>

\* The write fails after k entries: over a new connection all are sent again,
\* unless Run or its final flush ends here.
SendFails(k) ==
    /\ rpc = "send" /\ failures < MaxFailures
    /\ written' = written \o SubSeq(payload, 1, k)
    /\ failures' = failures + 1 /\ conn' = FALSE
    /\ \/ (final \/ ctxDone) /\ Return
       \/ /\ ~final /\ ~ctxDone /\ rpc' = "dial"
          /\ UNCHANGED <<ringVars, notify, opc, ctxDone, final, handVars, abandoned>>
    /\ UNCHANGED dropVars

Report ==
    /\ rpc = "report"
    /\ ReportDrops /\ rpc' = "take"
    /\ UNCHANGED <<ringVars, notify, opc, ctxDone, final, handVars, wireVars, abandoned>>
Run == \/ Take \/ Wait \/ Wake \/ StopWaiting \/ Encode \/ Encoded \/ DialOk \/ DialFails
       \/ Backoff \/ SendOk \/ (\E k \in 0..(Len(payload) - 1) : SendFails(k)) \/ Report

-----------------------------------------------------------------------------
\* dropLogPeriod passes.
Clock ==
    /\ ~periodOver /\ periodOver' = TRUE
    /\ UNCHANGED <<ringVars, dropped, reported, notify, opc, ctxDone, rpc, final,
                   handVars, wireVars, abandoned>>

Cancel ==
    /\ Stoppable /\ ~ctxDone /\ ctxDone' = TRUE
    /\ UNCHANGED <<ringVars, dropVars, notify, opc, rpc, final, handVars, wireVars, abandoned>>

Next == Run \/ Clock \/ Cancel \/ (\E o \in Offerers : Offer(o) \/ Notify(o))

Spec == Init /\ [][Next]_vars

\* Run goes on, a call of Offer returns, time passes; a target that can be
\* dialled again and again is reached some day. Nobody has to call Offer.
FairSpec ==
    /\ Spec /\ WF_vars(Run) /\ WF_vars(Clock) /\ SF_vars(DialOk)
    /\ \A o \in Offerers : WF_vars(Notify(o))
-----------------------------------------------------------------------------
(* Properties.                                                             *)

\* Shapes, and the bound of the ring that Offer's overwriting must respect.
TypeOK ==
    /\ ring \in [0..(QueueSize - 1) -> 0..MaxOffers]
    /\ head \in 0..(QueueSize - 1) /\ n \in 0..QueueSize
    /\ dropped \in Nat /\ reported \in Nat /\ periodOver \in BOOLEAN
    /\ notify \in BOOLEAN /\ opc \in [Offerers -> {"idle", "notify"}]
    /\ ctxDone \in BOOLEAN /\ final \in BOOLEAN /\ conn \in BOOLEAN
    /\ rpc \in {"take", "empty", "wait", "encode", "dial", "backoff", "send", "report", "closed"}
    /\ batch \in Seq(Entry) /\ payload \in Seq(Entry) /\ written \in Seq(Entry)
    /\ known \subseteq Sources
    /\ offered \in 0..MaxOffers /\ failures \in 0..MaxFailures
    /\ evicted \subseteq Entry /\ abandoned \subseteq Entry
    /\ skipped \subseteq Entry \X {"blank", "no answer", "unknown"}

\* The ring holds exactly the n newest entries, oldest at head: whatever Offer
\* and take do to head and n in which order, an overwritten slot is never read
\* as something else and only the oldest entry makes room.
RingIsWindow == \A i \in 0..(n - 1) : ring[Slot(i)] = offered - n + 1 + i

\* Entries without text and entries whose lookup got no answer.
LeftOut == {s[1] : s \in {x \in skipped : x[2] # "unknown"}}

\* No entry disappears silently: each is in the ring, in hand, written, left
\* out for a cause, dropped by the full queue or given up when Run returned, and
\* only a resend makes two of these true. (A cache of sources too old to resolve
\* an entry is no cause.)
NothingVanishes ==
    LET hand == Range(batch) \cup Range(payload)
        gone == evicted \cup LeftOut \cup abandoned IN
    /\ 1..offered = InRing \cup hand \cup Range(written) \cup gone
    /\ InRing \cap (hand \cup Range(written) \cup gone) = {}
    /\ (hand \cup Range(written)) \cap gone = {}
    /\ evicted \cap LeftOut = {}

\* The log lines and the counter together account for every entry the queue
\* dropped, also when Offers drop while Run reports (forwarder.go:118).
DropsAccounted == Cardinality(evicted) = dropped + reported

\* The target sees new entries in the order they were offered; an older one
\* after a newer one is a repetition of what it has already got, and an entry is
\* repeated at most once per failed write.
WrittenInOrder ==
    /\ \A i, j \in DOMAIN written :
          i < j /\ written[j] <= written[i] => \E k \in 1..(j - 1) : written[k] = written[j]
    /\ \A e \in Entry : Cardinality({i \in DOMAIN written : written[i] = e}) <= failures + 1

\* Run never sleeps on a queue nobody will wake it for, also if an Offer comes
\* between its empty take and its wait.
NoLostWakeup ==
    rpc \in {"empty", "wait"} /\ n > 0 => notify \/ \E o \in Offerers : opc[o] = "notify"

\* As long as Run is not cancelled, every entry gets out of the queue and out
\* of Run's hands: written, left out, or dropped for a newer one.
QueueDrains ==
    \A e \in Entry : (e <= offered) ~>
        (e \in Range(written) \cup LeftOut \cup evicted \/ ctxDone)

\* A cancelled Run returns, wherever the cancellation meets it: main waits for
\* it without a timeout (main.go:151).
ShutdownCompletes == ctxDone ~> (rpc = "closed")

\* main.go:74: "Like the writer it outlives the gRPC server, so the last lines
\* of the components reach the receiver as well." With a target that takes
\* everything, Run still returns with entries unsent if it has no connection
\* yet: its flush needs one, and the dial fails on the cancelled context.
LastLinesReach ==
    rpc = "closed" => 1..offered \ Blank \subseteq Range(written) \cup evicted
=============================================================================
