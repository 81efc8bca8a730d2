------------------------------- MODULE Writer -------------------------------
(***************************************************************************)
(* internal/store/writer.go: the batching writer every entry goes through. *)
(* Callers (Ship handlers, the syslog receiver, Export) put requests into  *)
(* a channel of capacity BatchSize; one goroutine, Run, collects entries   *)
(* into a batch and writes it in one transaction when it is full, when the *)
(* ticker fires, when a Sync asks for it, and once more on shutdown.       *)
(***************************************************************************)
EXTENDS Naturals, Sequences, FiniteSets, Functions

CONSTANTS
    Callers,      \* goroutines that call Add and Sync
    None,         \* the nil of writeRequest's two pointer fields
    BatchSize,    \* batchSize: capacity of the channel and of the batch
    MaxAdds,      \* bound: entries one caller adds
    StoreFails,   \* may InsertEntries return an error?
    Stoppable     \* may the context of Run be cancelled?

ASSUME WriterAssumption ==
    /\ BatchSize \in Nat \ {0}
    /\ MaxAdds \in Nat
    /\ StoreFails \in BOOLEAN
    /\ Stoppable \in BOOLEAN
    /\ None \notin Callers
    /\ None \notin Callers \X (1..MaxAdds)

VARIABLES
    requests,     \* w.requests, oldest first
    batch,        \* the batch of Run, oldest first
    wpc,          \* where Run is: in its select, flushing, draining, ...
    answer,       \* the caller whose sync channel gets the flush's error, or None
    stop,         \* the context of Run is cancelled
    entries,      \* the entries table, in id order
    lost,         \* history: entries of the batches InsertEntries refused
    pc,           \* where each caller is
    cancelled,    \* the context of the caller's call is cancelled
    done,         \* the channel of the caller's Sync: "empty", "nil" or "err"
    adds,         \* how many of its entries were accepted
    tapped,       \* what the tap was called with, in order
    due           \* history: what was queued before the caller's Sync

runVars    == <<batch, wpc, answer, stop, entries, lost>>
callerVars == <<pc, cancelled, adds, tapped, due>>
vars       == <<requests, done, runVars, callerVars>>

Entry == Callers \X (1..MaxAdds)   \* <<c, n>>: the n-th entry caller c adds

\* Exactly one of the two pointers of a request is set.
EntryRequest(e) == [entry |-> e, sync |-> None]
SyncRequest(c)  == [entry |-> None, sync |-> c]
WriteRequest == {EntryRequest(e) : e \in Entry} \cup {SyncRequest(c) : c \in Callers}

Accepted   == {e \in Entry : e[2] <= adds[e[1]]}
Stored     == Range(entries)
Settled    == Stored \cup lost
IsEntry(r) == r.entry # None
Queued     == {r.entry : r \in {q \in Range(requests) : IsEntry(q)}}

Init ==
    /\ requests = <<>> /\ batch = <<>> /\ entries = <<>> /\ tapped = <<>>
    /\ wpc = "select" /\ answer = None /\ stop = FALSE /\ lost = {}
    /\ pc = [c \in Callers |-> "idle"]
    /\ cancelled = [c \in Callers |-> FALSE]
    /\ done = [c \in Callers |-> "empty"]
    /\ adds = [c \in Callers |-> 0]
    /\ due = [c \in Callers |-> {}]
-----------------------------------------------------------------------------
(* Callers. A full channel blocks the send: the action is disabled.        *)

RoomOffByOne == Len(requests) <= BatchSize                         \* mutant
Room == Len(requests) < BatchSize

SyncOvertakes(r) == requests' = IF IsEntry(r) THEN Append(requests, r)
                                              ELSE <<r>> \o requests \* mutant
Enqueue(r) == requests' = Append(requests, r)

Goto(c, label) == pc' = [pc EXCEPT ![c] = label]

\* Add's send, the first half of its select's first case.
Add(c) ==
    /\ pc[c] = "idle" /\ adds[c] < MaxAdds /\ Room
    /\ Enqueue(EntryRequest(<<c, adds[c] + 1>>))
    /\ adds' = [adds EXCEPT ![c] = @ + 1]
    /\ Goto(c, "tap")
    /\ UNCHANGED <<done, runVars, cancelled, tapped, due>>

TapUnlessCancelled(c) ==
    IF cancelled[c] THEN tapped ELSE Append(tapped, <<c, adds[c]>>)   \* mutant
TappedBy(c) == Append(tapped, <<c, adds[c]>>)

\* w.tap(e), after the send: the entry may be in the table by now.
Tap(c) ==
    /\ pc[c] = "tap"
    /\ tapped' = TappedBy(c)
    /\ Goto(c, "idle")
    /\ UNCHANGED <<requests, done, runVars, cancelled, adds, due>>

\* Sync's send of a request with a fresh answer channel.
SyncSend(c) ==
    /\ pc[c] = "idle" /\ Room
    /\ Enqueue(SyncRequest(c))
    /\ due' = [due EXCEPT ![c] = Accepted]
    /\ Goto(c, "wait")
    /\ UNCHANGED <<done, runVars, cancelled, adds, tapped>>

\* Sync returns what Run answered. Ship and Export make it their last call of
\* the writer (server.go:74, 141).
SyncReturn(c) ==
    /\ pc[c] = "wait" /\ done[c] # "empty"
    /\ Goto(c, "gone")
    /\ UNCHANGED <<requests, done, runVars, cancelled, adds, tapped, due>>

\* The context ends: the client went away, or the gRPC server stopped.
Cancel(c) ==
    /\ ~cancelled[c] /\ pc[c] # "gone"
    /\ cancelled' = [cancelled EXCEPT ![c] = TRUE]
    /\ UNCHANGED <<requests, done, runVars, pc, adds, tapped, due>>

\* The ctx.Done case of the selects in Add and Sync; a select takes any case
\* that is ready, so Add and SyncSend stay possible after Cancel.
GiveUp(c) ==
    /\ cancelled[c] /\ pc[c] \in {"idle", "wait"}
    /\ Goto(c, "gone")
    /\ UNCHANGED <<requests, done, runVars, cancelled, adds, tapped, due>>

Caller(c) == \/ Add(c) \/ Tap(c) \/ SyncSend(c) \/ SyncReturn(c)
             \/ Cancel(c) \/ GiveUp(c)
-----------------------------------------------------------------------------
(* Run.                                                                    *)

WithEntryFirst(b, r) == IF IsEntry(r) THEN <<r.entry>> \o b ELSE b   \* mutant
WithEntry(b, r) == IF IsEntry(r) THEN Append(b, r.entry) ELSE b
Answered(c, verdict) == IF c = None THEN done ELSE [done EXCEPT ![c] = verdict]

Full(b) == Len(b) >= BatchSize

FlushWhenFull(r, b) == IF Full(b) THEN "flush" ELSE "select"       \* mutant
AfterRequest(r, b) == IF r.sync # None \/ Full(b) THEN "flush" ELSE "select"

\* case req := <-w.requests
Receive ==
    /\ wpc = "select" /\ requests # <<>>
    /\ LET r == Head(requests) IN
       /\ batch' = WithEntry(batch, r)
       /\ answer' = r.sync
       /\ wpc' = AfterRequest(r, batch')
    /\ requests' = Tail(requests)
    /\ UNCHANGED <<done, stop, entries, lost, callerVars>>

\* case <-ticker.C; flushing an empty batch does nothing.
Tick ==
    /\ wpc = "select" /\ batch # <<>>
    /\ wpc' = "flush"
    /\ UNCHANGED <<requests, done, batch, answer, stop, entries, lost, callerVars>>

KeepBatch == batch                                                 \* mutant
NoBatch == <<>>

FailsWhenEmpty == StoreFails                                       \* mutant
InsertMayFail == StoreFails /\ batch # <<>>

\* flush(): InsertEntries is one transaction. The batch is emptied either way,
\* and only a Sync learns the error of the flush it caused itself.
Flush(ok) ==
    /\ wpc \in {"flush", "final"}
    /\ ok \/ InsertMayFail
    /\ entries' = IF ok THEN entries \o batch ELSE entries
    /\ lost' = IF ok THEN lost ELSE lost \cup Range(batch)
    /\ batch' = NoBatch
    /\ done' = Answered(answer, IF ok THEN "nil" ELSE "err")
    /\ answer' = None
    /\ wpc' = IF wpc = "flush" THEN "select" ELSE "stopped"
    /\ UNCHANGED <<requests, stop, callerVars>>

\* The owner cancels the context of Run ...
Stop ==
    /\ Stoppable /\ ~stop
    /\ stop' = TRUE
    /\ UNCHANGED <<requests, done, batch, wpc, answer, entries, lost, callerVars>>

\* ... and Run sees it in its select.
StartDrain ==
    /\ stop /\ wpc = "select"
    /\ wpc' = "drain"
    /\ UNCHANGED <<requests, done, batch, answer, stop, entries, lost, callerVars>>

\* drain(): entries join the batch whatever its size, a Sync is answered nil
\* at once, before the final flush.
Drain ==
    /\ wpc = "drain" /\ requests # <<>>
    /\ batch' = WithEntry(batch, Head(requests))
    /\ done' = Answered(Head(requests).sync, "nil")
    /\ requests' = Tail(requests)
    /\ UNCHANGED <<wpc, answer, stop, entries, lost, callerVars>>

DrainedEarly == TRUE                                               \* mutant
Drained == requests = <<>>

\* drain()'s default case: nothing is queued at this moment.
EndDrain ==
    /\ wpc = "drain" /\ Drained
    /\ wpc' = "final"
    /\ UNCHANGED <<requests, done, batch, answer, stop, entries, lost, callerVars>>

Run == \/ Receive \/ Tick \/ (\E ok \in BOOLEAN : Flush(ok))
       \/ StartDrain \/ Drain \/ EndDrain

Next == Run \/ Stop \/ (\E c \in Callers : Caller(c))

Spec == Init /\ [][Next]_vars
-----------------------------------------------------------------------------
(* Properties.                                                             *)

\* Shapes of the variables and the two capacities: the channel's, and the
\* batch's while Run collects (the drain of a shutdown may exceed it).
TypeOK ==
    /\ requests \in Seq(WriteRequest) /\ Len(requests) <= BatchSize
    /\ batch \in Seq(Entry) /\ entries \in Seq(Entry) /\ tapped \in Seq(Entry)
    /\ wpc \in {"select", "flush", "drain", "final", "stopped"}
    /\ wpc = "select" => Len(batch) < BatchSize
    /\ answer \in Callers \cup {None} /\ stop \in BOOLEAN
    /\ lost \in SUBSET Entry
    /\ pc \in [Callers -> {"idle", "tap", "wait", "gone"}]
    /\ cancelled \in [Callers -> BOOLEAN]
    /\ done \in [Callers -> {"empty", "nil", "err"}]
    /\ adds \in [Callers -> 0..MaxAdds]
    /\ \A c \in Callers : pc[c] = "tap" => adds[c] > 0
    /\ due \in [Callers -> SUBSET Entry]

\* Every accepted entry is in exactly one place, once: queued, in the batch,
\* in the table, or in a batch the database refused. Run neither forgets an
\* entry nor writes one twice, whatever the callers and the shutdown do.
OncePlaced ==
    /\ Accepted = Queued \cup Range(batch) \cup Settled
    /\ \A i, j \in DOMAIN requests :
          IsEntry(requests[i]) /\ requests[i].entry = requests[j].entry => i = j
    /\ IsInjective(batch) /\ IsInjective(entries)
    /\ Queued \cap (Range(batch) \cup Settled) = {}
    /\ Range(batch) \cap Settled = {} /\ Stored \cap lost = {}

\* When a Sync has its answer, no entry queued before it is left behind: each
\* is settled, or, if it was answered by the drain of a shutdown, at least in
\* the batch of the final flush.
SyncCovers ==
    \A c \in Callers : done[c] # "empty" =>
        due[c] \subseteq Settled \cup
                         (IF wpc \in {"drain", "final"} THEN Range(batch) ELSE {})

\* An error from Sync is never a false alarm: an entry queued before it was
\* lost. (That nil means none was lost is not so: see SyncMeansWritten.)
ErrMeansLost ==
    \A c \in Callers : done[c] = "err" => due[c] \cap lost # {}

\* The tap (the forwarder's Offer) gets each accepted entry exactly once and
\* one caller's entries in order, also those the store then refuses; only the
\* calls still between Add's send and its return are outstanding.
TapExact ==
    /\ Range(tapped) = Accepted \ {<<c, adds[c]>> : c \in {d \in Callers : pc[d] = "tap"}}
    /\ \A i, j \in DOMAIN tapped :
          i < j /\ tapped[i][1] = tapped[j][1] => tapped[i][2] < tapped[j][2]

\* The entries among the requests of q, in order: the k-th has rank k.
EntryPlaces(q) == {i \in DOMAIN q : IsEntry(q[i])}
Rank(q, i)     == Cardinality({j \in EntryPlaces(q) : j <= i})
Line(q) == [k \in 1..Cardinality(EntryPlaces(q)) |->
              q[CHOOSE i \in EntryPlaces(q) : Rank(q, i) = k].entry]

\* The writer implements the ordered log: channel and batch are its line. So the
\* entries of a caller get their table ids in the order it added them, across
\* batches, failures and the drain; the export's ORDER BY ... ts_ms, id relies on
\* it for lines of the same millisecond (store.go:238).
Log == INSTANCE AcceptedLog WITH
          pending <- batch \o Line(requests),
          table   <- entries,
          refused <- lost
ImplementsLog == Log!Spec

\* An entry queued while Run still receives is eventually settled: by a full
\* batch, the ticker, a Sync, or the drain and final flush of a shutdown.
EntrySettles ==
    \A e \in Entry : (e \in Accepted /\ wpc \notin {"final", "stopped"}) ~> (e \in Settled)

\* writer.go:110: "Sync returns once every entry queued before the call has
\* been written." The code answers nil although an earlier flush (full batch,
\* ticker) lost its batch, and from the drain before the final flush.
SyncMeansWritten ==
    \A c \in Callers : done[c] = "nil" => due[c] \subseteq Stored
=============================================================================
