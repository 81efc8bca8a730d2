------------------------------- MODULE Export -------------------------------
(***************************************************************************)
(* internal/server Export and internal/export Build: one export of the     *)
(* stored log as an archive, while components register, ship entries and   *)
(* gaps, the writer flushes and the retention deletes. Build reads in      *)
(* three queries, sources, entries, gaps, and turns the ordered stream of  *)
(* entries into one staged file per source.                                *)
(* The store has one connection (SetMaxOpenConns(1), store.go): while rows *)
(* are being read, nobody else gets at the database.                       *)
(***************************************************************************)
EXTENDS Integers, Sequences, FiniteSets, SequencesExt

CONSTANTS
    NameOf,       \* [component, instance] of each source id, as sequences of characters
    SafeChars,    \* what unsafeChars does not match
    Categories,
    MaxTime,      \* bound: timestamps are 1..MaxTime
    Now,          \* the time of the export
    Filters,      \* the requests enumerated
    MaxEntries,   \* bound: entries accepted
    MaxGaps,      \* bound: gaps stored
    MayFail       \* may a step of the export, or a flush, fail?

SourceId == DOMAIN NameOf
Archive  == 0    \* the temporary file of the archive; a staged one has its source's id

ASSUME ExportAssumption ==
    /\ SourceId \subseteq Nat \ {0}
    /\ \A i \in SourceId : {NameOf[i].component, NameOf[i].instance} \subseteq Seq(STRING)
    /\ \A i, j \in SourceId : NameOf[i] = NameOf[j] => i = j   \* UNIQUE (component, instance)
    /\ {MaxTime, Now, MaxEntries, MaxGaps} \subseteq Nat
    /\ MayFail \in BOOLEAN

Entry  == [id : 1..MaxEntries, src : SourceId, ts : 1..MaxTime, cat : Categories]
Gap    == [id : 1..MaxGaps, src : SourceId, from : 1..MaxTime, to : 1..MaxTime]

VARIABLES
    registered, rows, gaps,   \* the three tables
    pending,      \* accepted by the writer, not flushed yet
    accepted, gapCount,       \* how many so far
    pruned,       \* history: rows the retention deleted
    swallowed,    \* history: batches lost by a flush nobody asked for
    epc,          \* where the export is
    filter,       \* the request; until = 0 means the time of the export
    due,          \* history: entries accepted before the export's Sync
    sources,      \* Build's map of sources
    result,       \* rows of the query not handed to the callback yet
    snapshot,     \* history: all of them
    current,      \* the staged file: sequence of at most one [src, lines]
    members,      \* files in the archive
    manifest,     \* function from source ids to what the manifest says
    temp          \* temporary files next to the database

tables  == <<registered, rows, gaps, pending, accepted, gapCount, pruned, swallowed>>
request == <<filter, due>>
build   == <<sources, result, snapshot, current, members, manifest>>
vars    == <<tables, epc, request, build, temp>>

Init ==
    /\ registered = {} /\ rows = {} /\ gaps = {} /\ pending = {}
    /\ accepted = 0 /\ gapCount = 0 /\ pruned = {} /\ swallowed = {}
    /\ epc = "idle" /\ filter \in Filters /\ due = {}
    /\ sources = {} /\ result = <<>> /\ snapshot = {} /\ current = <<>>
    /\ members = <<>> /\ manifest = <<>> /\ temp = {}
-----------------------------------------------------------------------------
(* The rest of the collector.                                              *)

DbFree == epc # "rows"

Register(i) ==
    /\ DbFree /\ i \notin registered
    /\ registered' = registered \cup {i}
    /\ UNCHANGED <<rows, gaps, pending, accepted, gapCount, pruned, swallowed>>
    /\ UNCHANGED <<epc, request, build, temp>>

Accept(i, ts, cat) ==
    /\ i \in registered /\ accepted < MaxEntries
    /\ accepted' = accepted + 1
    /\ pending' = pending \cup {[id |-> accepted', src |-> i, ts |-> ts, cat |-> cat]}
    /\ UNCHANGED <<registered, rows, gaps, gapCount, pruned, swallowed>>
    /\ UNCHANGED <<epc, request, build, temp>>

\* What the writer has received when entries arrived in the order of their ids;
\* a Sync in the channel keeps it from those behind.
Batch(n) == {e \in pending : e.id <= n /\ (epc = "sync" => e \in due)}

\* A flush of the ticker, or of a full batch: its error is nobody's, and the
\* batch is emptied either way.
Flush ==
    /\ DbFree
    /\ \E n \in 1..accepted :
         /\ Batch(n) # {}
         /\ pending' = pending \ Batch(n)
         /\ \/ rows' = rows \cup Batch(n) /\ UNCHANGED swallowed
            \/ MayFail /\ swallowed' = swallowed \cup Batch(n) /\ UNCHANGED rows
    /\ UNCHANGED <<registered, gaps, accepted, gapCount, pruned, epc, request, build, temp>>

AddGap(i, from, to) ==
    /\ DbFree /\ i \in registered /\ gapCount < MaxGaps
    /\ gapCount' = gapCount + 1
    /\ gaps' = gaps \cup {[id |-> gapCount', src |-> i, from |-> from, to |-> to]}
    /\ UNCHANGED <<registered, rows, pending, accepted, pruned, swallowed>>
    /\ UNCHANGED <<epc, request, build, temp>>

\* Retention deletes what is older than t.
Prune(t) ==
    /\ DbFree
    /\ LET old == {r \in rows : r.ts < t} IN
       /\ old # {} /\ rows' = rows \ old /\ pruned' = pruned \cup old
    /\ UNCHANGED <<registered, gaps, pending, accepted, gapCount, swallowed>>
    /\ UNCHANGED <<epc, request, build, temp>>

Others ==
    \/ \E i \in SourceId : \/ Register(i)
                           \/ \E t \in 1..MaxTime, c \in Categories : Accept(i, t, c)
                           \/ \E f \in 1..MaxTime : \E t \in f..MaxTime : AddGap(i, f, t)
    \/ Flush
    \/ \E t \in 2..MaxTime : Prune(t)
-----------------------------------------------------------------------------
(* Filter, order and names.                                                *)

Until == IF filter.until = 0 THEN Now ELSE filter.until
Wanted(i) == filter.components = {} \/ NameOf[i].component \in filter.components

Matches(e) ==
    /\ e.ts >= filter.since /\ e.ts <= Until
    /\ Wanted(e.src) /\ e.cat \notin filter.exclude

GapMatches(g) == g.to >= filter.since /\ g.from <= Until /\ Wanted(g.src)

RowBefore(a, b) ==
    \/ a.src < b.src
    \/ a.src = b.src /\ (a.ts < b.ts \/ (a.ts = b.ts /\ a.id < b.id))

\* Rows in the order of the query: each has as many before it as its place says.
InOrder(S) ==
    [k \in 1..Cardinality(S) |->
        CHOOSE x \in S : Cardinality({y \in S : RowBefore(y, x)}) = k - 1]

\* A run of characters that may not be in a file name becomes one underscore.
Sanitize(s) ==
    LET starts == {i \in DOMAIN s : s[i] \in SafeChars \/ i = 1 \/ s[i - 1] \in SafeChars}
        kept   == [k \in 1..Cardinality(starts) |->
                     CHOOSE i \in starts : Cardinality({j \in starts : j < i}) = k - 1]
    IN  [k \in DOMAIN kept |-> IF s[kept[k]] \in SafeChars THEN s[kept[k]] ELSE "_"]

FileName(name) ==
    Sanitize(name.component)
        \o (IF name.instance = <<>> THEN <<>> ELSE <<"-">> \o Sanitize(name.instance))
        \o <<".log">>

\* A source that is not in the map is the zero store.Source.
Nameless == [component |-> <<>>, instance |-> <<>>]
KnownName(i) == IF i \in sources THEN NameOf[i] ELSE Nameless
-----------------------------------------------------------------------------
(* The export.                                                             *)

Goes(from, to) == epc = from /\ epc' = to

\* Sync is sent.
Begin ==
    /\ Goes("idle", "sync")
    /\ due' = rows \cup pending
    /\ UNCHANGED <<tables, filter, build, temp>>

NothingAsked == {}                                                 \* mutant
\* What is left for the flush the Sync asks for.
Asked == due \cap pending

\* That flush works, or finds nothing: the answer is nil, also when an earlier
\* one has lost some of those due.
SyncDone ==
    /\ Goes("sync", "archive")
    /\ rows' = rows \cup Asked /\ pending' = pending \ Asked
    /\ UNCHANGED <<registered, gaps, accepted, gapCount, pruned, swallowed>>
    /\ UNCHANGED <<request, build, temp>>

CreateArchive ==
    /\ Goes("archive", "sources") /\ temp' = temp \cup {Archive}
    /\ UNCHANGED <<tables, request, build>>

AllSources ==
    /\ Goes("sources", "query") /\ sources' = registered
    /\ UNCHANGED <<tables, request, result, snapshot, current, members, manifest, temp>>

EachEntry ==
    /\ Goes("query", "rows")
    /\ snapshot' = {r \in rows : Matches(r)}
    /\ result' = InOrder(snapshot')
    /\ UNCHANGED <<tables, request, sources, current, members, manifest, temp>>

Staged == {c.src : c \in Range(current)}

LeftLying == {}                                                    \* mutant
\* addTo removes the file it has added, whatever happens.
Discarded == Staged

DropCurrent(m) == m                                                \* mutant
Finished(m) == m \o [k \in DOMAIN current |->
                 [name |-> FileName(KnownName(current[k].src)),
                  src |-> current[k].src, lines |-> current[k].lines]]

LookupConnection == DbFree               \* mutant: the callback asks the store
CallbackReady == TRUE

\* The callback, for a row of the source being staged ...
SameSource ==
    /\ epc = "rows" /\ result # <<>> /\ CallbackReady
    /\ LET e == Head(result) IN
       /\ e.src \in Staged
       /\ current' = <<[current[1] EXCEPT !.lines = Append(@, e)]>>
       /\ manifest' = [manifest EXCEPT ![e.src].entries = @ + 1, ![e.src].newest = e.ts]
    /\ result' = Tail(result)
    /\ UNCHANGED <<tables, epc, request, sources, snapshot, members, temp>>

\* ... and for the first one of the next: the staged file goes into the archive.
NextSource ==
    /\ epc = "rows" /\ result # <<>> /\ CallbackReady
    /\ LET e == Head(result) IN
       /\ e.src \notin Staged
       /\ members' = Finished(members)
       /\ current' = <<[src |-> e.src, lines |-> <<e>>]>>
       /\ temp' = (temp \ Discarded) \cup {e.src}
       /\ manifest' = [i \in DOMAIN manifest \cup {e.src} |->
                        IF i # e.src THEN manifest[i]
                        ELSE [name |-> KnownName(i), entries |-> 1, oldest |-> e.ts,
                              newest |-> e.ts, gaps |-> {}]]
    /\ result' = Tail(result)
    /\ UNCHANGED <<tables, epc, request, sources, snapshot>>

FinishLast ==
    /\ result = <<>> /\ Goes("rows", "gaps")
    /\ members' = Finished(members) /\ current' = <<>>
    /\ temp' = temp \ Discarded
    /\ UNCHANGED <<tables, request, sources, result, snapshot, manifest>>

Gaps ==
    /\ Goes("gaps", "send")
    /\ LET found == {g \in gaps : GapMatches(g)}
           with  == {g.src : g \in found}
       IN  manifest' = [i \in DOMAIN manifest \cup with |->
             LET mine == {g \in found : g.src = i} IN
             IF i \in DOMAIN manifest THEN [manifest[i] EXCEPT !.gaps = mine]
             ELSE [name |-> KnownName(i), entries |-> 0, oldest |-> 0, newest |-> 0,
                   gaps |-> mine]]
    /\ UNCHANGED <<tables, request, sources, result, snapshot, current, members, temp>>

OnlyArchive == {Archive}                                           \* mutant
\* What the deferred calls of Export and Build remove.
Deferred == {Archive} \cup Staged

\* What Export and Build held in variables goes with them.
Return ==
    /\ epc' = "returned" /\ temp' = temp \ Deferred
    /\ due' = {} /\ sources' = {} /\ result' = <<>> /\ snapshot' = {}
    /\ current' = <<>> /\ members' = <<>> /\ manifest' = <<>>
    /\ UNCHANGED filter

\* The client has read everything.
Sent == epc = "send" /\ Return /\ UNCHANGED tables

\* A query, a file operation, the client or its context fails.
Fail == MayFail /\ epc \notin {"idle", "returned"} /\ Return /\ UNCHANGED tables

\* The flush the Sync asked for fails: its batch is lost, and the client told.
SyncFails ==
    /\ MayFail /\ epc = "sync" /\ Asked # {} /\ Return
    /\ pending' = pending \ Asked
    /\ UNCHANGED <<registered, rows, gaps, accepted, gapCount, pruned, swallowed>>

Steps == \/ SyncDone \/ CreateArchive \/ AllSources \/ EachEntry \/ SameSource
         \/ NextSource \/ FinishLast \/ Gaps

Next == Others \/ Begin \/ Steps \/ Sent \/ Fail \/ SyncFails

Spec == Init /\ [][Next]_vars

\* The export and the writer's ticker go on; nobody has to ship or to download.
FairSpec == Spec /\ WF_vars(Steps) /\ WF_vars(Flush)
-----------------------------------------------------------------------------
(* Properties.                                                             *)

File == [name : Seq(SafeChars \cup {"_", "-", ".log"}), src : SourceId, lines : Seq(Entry)]

\* Shapes; at most one staged file exists besides the archive.
TypeOK ==
    /\ registered \subseteq SourceId /\ sources \subseteq registered
    /\ rows \subseteq Entry /\ pending \subseteq Entry
    /\ pruned \subseteq Entry /\ swallowed \subseteq Entry
    /\ gaps \subseteq Gap /\ accepted \in 0..MaxEntries /\ gapCount \in 0..MaxGaps
    /\ epc \in {"idle", "sync", "archive", "sources", "query", "rows", "gaps", "send", "returned"}
    /\ due \subseteq Entry /\ snapshot \subseteq Entry /\ result \in Seq(Entry)
    /\ current \in Seq([src : SourceId, lines : Seq(Entry)]) /\ Len(current) <= 1
    /\ members \in Seq(File)
    /\ temp \subseteq {Archive} \cup Staged

Lines(i) == InOrder({r \in snapshot : r.src = i})

\* The archive is the query's rows, each once: a source with rows has exactly
\* one file, its lines in the order of the query, and the manifest counts them
\* and names the first and the last time. Staging, finishing and discarding
\* files over the stream of rows loses nothing, repeats nothing, mixes nothing.
ArchiveIsTheRows ==
    epc \in {"gaps", "send"} => \A i \in SourceId :
        LET mine == {k \in DOMAIN members : members[k].src = i} IN
        IF Lines(i) = <<>>
        THEN mine = {} /\ (i \in DOMAIN manifest => manifest[i].entries = 0)
        ELSE /\ \E k \in mine : mine = {k} /\ members[k].lines = Lines(i)
             /\ manifest[i].entries = Len(Lines(i))
             /\ manifest[i].oldest = Lines(i)[1].ts
             /\ manifest[i].newest = Lines(i)[Len(Lines(i))].ts

\* server.go:140: "Include entries still sitting in the write batch." An archive
\* is sent only with every entry that was stored or waiting when its Sync was
\* sent, unless the filter or, in the meantime, the retention took it, or a
\* flush nobody asked for lost it before the Sync was answered: of that neither
\* Sync nor export learns (Writer's SyncMeansWritten). What the Sync's own flush
\* loses must end the export instead.
SyncedIncluded ==
    epc = "send" => \A e \in due :
        Matches(e) => e \in snapshot \cup pruned \cup swallowed

\* However an export ends, none of its files stays next to the database.
TempGone == epc = "returned" => temp = {}

\* Neither side waits for the other: an export comes as far as the client, or
\* fails, no step of it waiting for the one connection it holds itself; and as
\* server.go:135 has it, "a slow client never holds the database while it
\* downloads": the batch goes on being flushed even if the client never reads on.
NobodyWaits ==
    /\ (epc = "sync") ~> (epc \in {"send", "returned"})
    /\ (pending # {}) ~> (pending = {})

\* export.go:2: "one plain-text file per source". Two sources whose names
\* differ only where FileName does not look share one name in the archive.
OneFilePerSource ==
    \A j, k \in DOMAIN members : members[j].name = members[k].name => j = k

\* README.md:14: "Each satellite shows up as the component `hannah-esp` with its
\* device ID as the instance". A source registered between the query for the
\* sources and the one for the entries has a file and a manifest entry without
\* its name.
EverySourceNamed ==
    \A i \in DOMAIN manifest : manifest[i].name = NameOf[i]
=============================================================================
