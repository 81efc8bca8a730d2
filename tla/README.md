# Hannah log collector: specifications and proofs

The log collector takes the log lines of Hannah's components, keeps them for a
while in SQLite, passes each of them on to a syslog receiver and hands them out
as an archive. This directory holds TLA+ modules of its parts, TLC
configurations that check them on small instances, and TLAPS proofs. Paths are
those of the repository; `PROJECT.json` lists for every definition the lines it
models, and for every property a plausible bug that breaks it.

## 1. The system

One process. Goroutines: one per gRPC call, the writer's `Run`, the forwarder's
`Run`, the syslog receiver's, the retention's, the names registry's, the
registration client's, and `main`.

| component | state | operations | correct when |
|---|---|---|---|
| writer, `internal/store/writer.go` | request channel, batch, answer channels | `Add`, `Sync`, tap; `Run`: receive, tick, flush, drain | every accepted entry is settled once, in its caller's order; `Sync` waits for what was queued before it; the tap gets every accepted entry once |
| store, `internal/store/store.go` | tables sources, entries, gaps; one connection | upsert, insert, listing, queries of an export, `Prune`, `UsedBytes` | pruning takes what it must, the oldest first, and ends |
| server, `internal/server/server.go` | per call: source id, count | `Ship`, `GetSources`, `Export` | an ack stands for stored entries; an export contains what was stored or waiting when it began |
| export, `internal/export/export.go` | staged file, manifest, archive | `Build` | the archive is the rows of the query, and no file stays behind |
| forwarder, `internal/forward/forwarder.go` | ring, drop counter, wake-up token; `Run`'s batch, sources, connection | `Offer`; `Run`: take, wait, encode, dial, back off, send, report; flush | nothing vanishes uncounted, order is kept, repetitions only for failed writes, `Run` is woken and returns |
| line format, `internal/forward/format.go` | none | `Format`, `Frame` | a receiver reads back what was meant |
| syslog receiver, `internal/syslog` | socket, cache of source ids, counter of malformed datagrams | `Run`, `handle`, `Parse` | one entry per valid datagram, of the source its header names; the ids in the cache are those of the table; it stops before the writer does |
| names, `internal/names`, `internal/hannah/satellites.go` | map from ids to names | the registry's run, `Name`; the lister's `Names` | the last good answer stays, and a new one replaces it |
| registration, `internal/hannah/client.go` | stream, generation, backoff | `Run`, `connect` | it registers again after every loss, with v1 only where Core has no v2; the backoff is bounded, and reset by an acknowledged registration |
| configuration, `internal/config` | settings | load, validate | nothing starts with settings the rest cannot work with |
| `cmd/hannah-logcollector/main.go` | the wiring | start, `runRetention`, shutdown | the shutdown ends, and in an order that loses nothing |

Interactions: `Ship` handlers and the receiver call `Writer.Add`; `Ship` (before
its ack) and `Export` (before it reads) call `Writer.Sync`; `Add` calls the tap,
the forwarder's `Offer`, in the caller's goroutine and after the send; writer,
handlers, receiver, retention, export and forwarder share the store's one
connection; `main` ends them with contexts, in the order gRPC server, receiver,
writer, forwarder. The registration and the lister of the names each dial Core
and probe its generation at every attempt; the forwarder reads names through
`Name`. What the forwarder writes, the syslog receiver of another collector reads.

Hard to test, and the subject of the properties: interleavings of senders,
flushes and the shutdown; errors reported to the wrong or to no caller; a ring
that wraps while it is read; wake-ups racing a wait; retries; a cache of sources
that is too old; measurements of several statements; an export reading in
several queries while the rest goes on; a callback holding the only connection;
a cache emptied while its table goes on; a Core that changes its generation
between a probe and the call it was made for; escaping that must survive the trip.
`PROJECT.json` lists each at its line under "hazards".

## 2. Modules

| module | models | composed of |
|---|---|---|
| `AcceptedLog` | what the writer promises: an ordered line of accepted entries, settled from its front | |
| `Writer` | `writer.go` with any number of callers | implements `AcceptedLog` |
| `Collector` | `Ship`, the receiver's loop, `main`'s shutdown to the exit | extends `Writer`; their calls of `Add` and `Sync` are its actions |
| `Forwarder` | `forwarder.go` | |
| `Retention` | `Prune`, `UsedBytes`, `runRetention` | |
| `Export` | server's `Export`, `Build`, the store's queries, file names | |
| `SyslogLine` | `format.go` and `parse.go`, as operators | |
| `SyslogReceiver` | `receiver.go`, from the datagram to `Add`, and the upsert of a source | extends `SyslogLine` |
| `HannahCore` | external: Hannah Core and the context of `main` | |
| `HannahClient` | `client.go`, the registration | extends `HannahCore` |
| `Names` | `names.go` with `satellites.go` | extends `HannahCore` |
| `CoreLink` | both goroutines and the Core they share | extends `HannahClient`, `Names` |
| `WriterProofs` | theorems about `Writer`, with the refinement | |
| `CollectorProofs` | theorems about `Collector` | extends `WriterProofs` |
| `ForwarderProofs`, `RetentionProofs`, `ExportProofs`, `SyslogReceiverProofs`, `CoreLinkProofs` | theorems about the module of that name | |
| `SequenceFacts` | lemmas about sequences | |
| `MC...` | instances for TLC | extends the module of its name |

### Writer

`requests` is the channel, `batch` and `wpc` the locals and the program counter
of `Run`, `answer` the Sync whose channel gets the error of the flush in
progress, `entries` the table, `done[c]` the answer channel of caller `c`. `Add`
and `Tap` are the two halves of `Add`: the entry may be stored before the tap
hears of it. A `select` with several ready cases takes any of them: a cancelled
caller may still send. `Flush(ok)` is the closure `flush`, one transaction;
`lost`, a history variable, has the entries of failed ones. A caller that has
made its `Sync` makes no further call, as in `Ship` and `Export`. An entry is
`<<c, n>>`, the n-th of its caller; its text plays no role.

### Collector

Adds to each caller the place in its handler (`hpc`), and `main` (`mpc`):
`closing` is `shipping.Close`, `graceful` and `stop` are `stopServer`, `stopped`
waits for the receiver, `writer` for the writer, `forward` for the forwarder.
`UpsertSource` and `InsertGap` go past the writer and need a live context. A
component may disconnect at any moment. `GracefulStop` waits for the handlers,
`Stop` (external, grpc-go) cancels their contexts and, by default, returns
without waiting for them; the constant `HandlersOutlive` chooses, and `outlived`
remembers that it happened. Goroutines end with the process: no handler steps
after `exit`. The collector's own logs come in over a `Ship` stream like any
other, so the streams stand for that one too. The forwarder in this module is
`tapped`, what `Offer` was called with.

### Forwarder

Entries are numbered by their turn at the mutex, so a number tells age. `Offer`
is the part under the mutex, `Notify` the wake-up after it. `Run` is `take` ...
`closed`, its deferred flush the same steps with `final` set, over the
connection it has. `Encode` handles one entry: blank, source known, source looked
up, lookup failed. `SendFails(k)` has written k lines before it fails. The
period of the reports is `periodOver` and the action `Clock`.

### Retention

A row takes one page. Statements are atomic, other goroutines insert between
them; timestamps are the components' and unrelated to the clock. The age limit
is computed in `WordBits` bits, as Go does in 64. `ended` remembers why the size
loop stopped, `since` counts what was inserted after `UsedBytes` began.

### Export

While `EachEntry` hands out rows (`epc = "rows"`), the store's one connection is
taken: nobody else reads or writes. Before, between and after the queries
sources register, entries are accepted and flushed, gaps arrive, the retention
deletes. `current` is the staged file (at most one), `temp` the files on disk,
`members` the archive. Names are short sequences of characters because the
question is which of them `fileName` tells apart. `InOrder` is the ORDER BY of
`EachEntry`: the place of a row is the number of rows before it. Channel and batch
of the writer are one set, `pending`, in the order of the ids. A `Flush` of the
ticker or of a full batch takes the front of it, up to any entry, but nothing
behind a Sync that waits; it stores the entries, or loses them into the history
variable `swallowed`, and nobody is told. The flush the Sync asks for takes the
rest of what was due (`Asked`): stored, the export goes on (`SyncDone`), lost, it
ends (`SyncFails`). So does an export met by the drain of a shutdown, which
answers nil in any case: by then `Stop` has cancelled the context of the call,
and the first query of `Build` fails (`Fail`). `Return` forgets what `Export` and
`Build` held in variables.

### SyslogLine and SyslogReceiver

Text is a sequence of bytes; a byte no code looks at stands for any of its kind,
and a character outside of ASCII is a first and a second byte. `Format` and
`Parse` are translated line by line where control depends on bytes: the names
made printable and cut, parameters escaped, the element scanner that skips
structured data byte by byte (`Element`, iterated by `SkipStructuredData`), the
six fields `Header` cuts at blanks, the cut of the text at a character. The
digits of `<PRI>` and of the timestamp are one byte each. `SyslogReceiver` has one datagram
in hand (`packet`, `rpc`), the cache `ids` and the table `sources`; a component
may announce itself at any moment (`Announce`, from `Ship`). Its datagrams are the
lines `Format` makes of given entries, and others, malformed ones among them.
`ForwardedAssumption` says what is given: text for names, category, logger and
message, a level, and a timestamp without a blank. Where the text is cut,
`ReadBack` promises whole characters for a message made of whole characters.

### HannahCore, HannahClient, Names, CoreLink

Core is down, serves `hannah.v1`, or serves both (v2 includes its predecessor).
`Restart` may change that between any two steps of the two goroutines, so a
generation can be out of date when it is used. A stream or a call may also fail
while Core is up. `Resolve` of hannah-proto is
external; for a Core that does not answer it may say either. A stream to a Core
that goes away is `broken`, and the client notices in its next call. `failures`
and `sawOld` are history variables of the attempt in progress. `Names` keeps what
it asked (`answer`) apart from what it has (`byID`), as the code does before it
takes the lock.

## 3. Runs

Passing runs:

| run | question | bounds |
|---|---|---|
| `Writer_safety` | is every accepted entry placed once and in order, what does an answered Sync mean, and does the writer implement `AcceptedLog`? | 2 callers with 2 entries each, channel and batch of 2, failing transactions, shutdown |
| `Collector_shutdown` | do acks and the exit come after the writes, has the forwarder been offered everything before it stops, does every entry settle, does the shutdown end, is a closed stream answered? | 1 stream, the receiver, 1 entry each, 1 gap, channel and batch of 2, failing store, handlers that may outlive the server |
| `Forwarder_queue` | is every entry and drop accounted for, in order, is none left out because the cache is old, does the queue drain, does a cancelled Run return? | ring of 3, batches of 2, 5 entries of 2 sources, 2 failing writes |
| `Retention_prune` | does only go what must, the oldest first, until it fits, and does the loop end when nothing helps? | 3 entries, 2 gaps, clock to 3, batches of 2, limit of 2 pages over an overhead of 1 |
| `Export_build` | is the archive the rows of the query, with what was waiting when it began, and is no file left, also past failures and lost batches; does the export wait for itself, or the store for a client? | failing steps and flushes, 2 sources, 2 entries, 2 times, 1 gap, 3 filters by time, component and category |
| `Syslog_receive` | do the cached ids stay true, is a version kept, and does the receiver read what the forwarder wrote? | cache of 2; 47 entries that differ in logger, message, time and level, 3 sources, 3 display names; 10 other datagrams; text of 5 bytes, names of 3 and 4; failing upserts |
| `Core_link` | do delays follow the failures, is v1 spoken only where it must be, do names survive outages, does all recover, do both goroutines end? | 3 satellites, 3 changes of Core, delays 1, 2, 3, 3 |

Why the bounds are enough: each queue overflows or fills (two entries per caller
and a channel and batch of two fill both; five entries wrap a ring of three and
need three batches), each retry happens twice (two failed writes), each
order of two actors occurs, and every action and disjunct of every next-state
relation is taken. The properties speak of one or two entries at a time, so
longer histories repeat these cases. The lone entry of a caller does not fill
the batch of `Collector_shutdown`, so that it needs the ticker. Channel and batch share one size in the
code. `Retention` needs three entries for a batch of two to leave one behind.
`Syslog_receive` has more names than its cache has places, every sequence of up
to two of the bytes the escaping is about, and texts that a cut meets before,
between and behind the bytes of a character. `Core_link` needs three changes for
an outage, a return as the other generation, and a drop or rename after it; four
failed attempts pass the greatest delay.
`MaxFailures`, `MaxOffers`, `MaxAdds`, `MaxRows`, `MaxGaps`, `MaxEntries`,
`MaxNow`, `MaxTime`, `MaxChanges`, `MaxCounted` only end the exploration; they appear in guards and nowhere
else in the actions.

Runs that show a disagreement, one property each:

| run | what a document or comment says | what the code does |
|---|---|---|
| `Writer_swallowed` | writer.go:110, a Sync returns once everything before it has been written | the error of a full-batch or ticker flush is dropped; the Sync after it answers nil, an ack or an export follows without those entries |
| `Collector_late_add` | main.go:67, entries received right before shutdown still get flushed | `Stop` does not wait; a handler's `Add` can come after the last drain |
| `Forwarder_last_lines` | main.go:74, the last lines reach the receiver as well | the flush needs a connection that already stands, and encoding under the cancelled context leaves out unknown sources |
| `Export_same_name` | export.go:1, one file per source | two sources can share a file name |
| `Export_nameless` | README.md:14, a satellite shows up as component and instance | one that registers during the export has neither |

`AckMeansSettled` and `NothingLeftBehind` say what holds instead: they speak of
settled entries, which a failing store may have lost, and only of shutdowns in
which `Stop` left no handler behind. `Collector_late_add` shows that the second
condition is needed, `Writer_swallowed` the first. `SyncedIncluded` excepts for the
same reason what a flush lost that nobody asked for: `Export` has such flushes,
and server.go:140, "Include entries still sitting in the write batch", does not
hold for their entries.

Seen while modelling, without a run of their own:

- the drain of a shutdown answers a Sync before the final flush (writer.go:83);
  `SyncCovers` says exactly this much;
- gaps, which only age deletes, can be all that remains over the size limit after
  every entry was deleted for them, where store.go:351 speaks of schema and index
  overhead: with an overhead of one page and a limit of two, two gaps are enough;
- drops within a minute of a report wait for the next entry to be reported, where
  README.md:93 promises a summary line per minute; nothing sends it if no entry
  comes (`QueueDrains` does not speak of reports, `DropsAccounted` counts what is
  still in the counter);
- a line can exceed the 8192 bytes format.go:18 aims at: `maxText` bounds the
  text, nothing the logger and the display name;
- a datagram of a source that is not in the receiver's cache empties the version
  the source announced (receiver.go:129); `KnownKeepsVersion`, that a source in the
  cache keeps it, is what remains;
- more than 106751 `retention.days`, which config.go:146 accepts, overflow a
  `time.Duration`: with `Days = 8` and `WordBits = 4`, TLC refutes `DeletedForCause`.

### Fairness

Weak fairness of `Run` in each module: a goroutine that can go on does, a
database statement returns, dials and writes have timeouts (forwarder.go:25-27).
Handlers and returning calls (`Handler`, `Notify`) are fair; calling, cancelling, opening, closing and disconnecting are
not: nobody has to. `Forwarder` has strong fairness of `DialOk`: a target that
can be dialled again and again is reached some day, which says that an outage
ends. `Collector` assumes that the timer of `stopServer` fires (`Main` is fair).
`Export` assumes fair steps of the export and of the writer's flush, none of the
client. `CoreLink` assumes that the two goroutines go on and that a Core that is
up acknowledges a registration. A stream cannot always be opened nor a call always
be answered, so weak fairness is not enough: strong fairness of `Opens` and
`Answers` says that of those that could succeed, again and again, not every one
fails. `LinkRecovers` is conditional on a Core that
stays up from some time on. It relies on four facts of the code's surroundings:
a broken stream is noticed some day, a call under a cancelled context fails,
timers fire, and `Resolve`, which gets the same context, returns.

## 4. Proofs

Each theorem holds for all values of the module's constants that satisfy its
named assumption (`WriterAssumption` and so on: the shapes of the constants).
In each module one inductive invariant carries the theorems; every step of
`Next` has a lemma or a named step of its own.

**Writer** (`WriterProofs`): any callers, batch size, bound on entries, with or
without failures and shutdown.

- `TypeCorrect`: `TypeOK`, with the bounds of the channel and, while `Run`
  collects, of the batch;
- `SyncCoversAll`: `SyncCovers`, an answered Sync leaves no entry queued before
  it behind; `ErrorsAreReal`: `ErrMeansLost`, an error of Sync is no false alarm;
- `TappedExactly`: `TapExact`, the tap gets every accepted entry once;
- `OnlyOnePlace`: `OncePlaced`, every accepted entry is in the channel, in the
  batch, in the table or lost with a batch, in one of them and once;
- `WriterIsTheLog`: `ImplementsLog`, `Writer` implements `AcceptedLog`: an ordered
  line of accepted entries, settled from its front.

`SyncInv` adds what the Sync theorems need: nothing accepted is forgotten; an
entry a waiting Sync must cover stands before its request in the channel
(`SyncInLine`), or has left it when the request is being answered
(`SyncInFlush`); a caller has one request in channel and flush together, none
when it is not waiting (`OneSyncEach`), so that an answer can only come from its
own request. That the channel is first in, first out carries `SyncInLine` over
`Receive` and `Drain`. `OncePlaced` and `TapExact` are inductive with the types.

The line of `AcceptedLog` is the batch followed by `Line(requests)`, the entries
of the channel, each at its rank among them. `Add` appends to it (`LineOfAppend`)
and is `Accept`; `Receive` and `Drain` move its first entry into the batch
(`LineOfTail`) and a `Sync` request has no place in it, so these stutter; a flush
is `Settle` of the batch in front. `OncePlaced` makes an accepted entry new.

**Collector** (`CollectorProofs`): any streams and cancellations.

- `CollectorTypeCorrect`;
- `AcksAreSettled`: `AckMeansSettled`, an ack counts settled entries only;
- `ShutdownLeavesNothing`: `NothingLeftBehind`, at the exit every accepted entry
  is settled and was offered to the forwarder, if `Stop` left no handler behind.

A step of the collector is a step of `Writer` or a cancellation, so `SyncInv` and
`TapExact` are taken over. `CallsOK` joins the place of a handler to that of its
call of the writer; `PhaseOK` says how far main and `Run` may be from each other,
and that who has returned stays returned: no `Add` comes after the last drain.
`CollectorIsTheLog` says the same of the refinement: handlers, receiver and main
around the writer still make the ordered log `AcceptedLog`.

**Forwarder** (`ForwarderProofs`): any size of the ring and of a batch, any
offerers, any bound on entries and failed writes.

- `TypeCorrect`: the ring is neither indexed nor filled beyond its size, and
  `take` returns entries that were offered, never the zero value of a slot;
- `RingCorrect`: `RingIsWindow`, the ring is the window of the newest entries;
- `DropsCounted`: `DropsAccounted`, every dropped entry is counted exactly once;
- `NeverAsleepOnWork`: `NoLostWakeup`;
- `NothingIsForgotten`: `NothingVanishes`, every offered entry is in the ring, in
  hand, written, or gone for a reason that is on record;
- `NothingOvertakes`: `WrittenInOrder`, a line older than one written before is a
  repetition, and none is repeated more often than a write failed.

The part `Ring` of `ForwarderInv` joins to the window that what the queue dropped
is older than all that is in it. `SlotValue` replaces the remainder of
`(head + i) % QueueSize` by a wrap-around that happens at most once; from it,
`SlotsDiffer` and `SlotMoves` say that no two places of a window share a slot and
that moving the head shifts the window. `NothingIsForgotten` needs `Placed`: what
is in hand is what the queue gave, without repetition, and nothing in hand is
still in the ring or already gone. `NothingOvertakes` needs `Turns`: what `take`
returns is newer than all it returned before, batch and payload keep that order,
and a line of the payload that is not newer than one written was written itself,
each time before a failure.

**Retention** (`RetentionProofs`): any clock, rows, limit and batch, under the
hypothesis `AgeFits` that the age limit fits its word. It is a real condition,
see section 3.

- `TypeCorrect`: `UsedBytes` never takes more pages off than there are, and the
  cutoff lies in the past. The books of the file, that what is not free is overhead
  or a row's, are a part of the invariant only: one page per row is the model's;
- `NothingWithoutCause`: `DeletedForCause`; `LimitIsMet`: `LimitMet`;
- `OldestFirst`: `OldestGoFirst`, from the lemma that the rows an ORDER BY with a
  LIMIT takes are older than those it leaves (`OldestAreOldest`).

`Measured`, a part of `RetentionInv`, says what two PRAGMAs read one after the
other are worth: what was read is at most what there is, and less by no more than
what was inserted since.

**Export** (`ExportProofs`): any sources, entries, filters and failures.

- `BatchIsIncluded`: `SyncedIncluded`, an archive is sent only with every entry
  that was stored or waiting when its Sync was sent, unless the filter or the
  retention took it, or a flush nobody asked for lost it before the answer; what
  the Sync's own flush loses ends the export;
- `NothingStays`: `TempGone`, no file of an export outlives it;
- `ExportTypeCorrect`: `TypeOK`;
- `RowsAreArchived`: `ArchiveIsTheRows`, the archive has a file for each source
  with rows, with its rows in the order of the query, and a manifest that counts
  them and names the first and the last time.

`DueOK` follows what was due from `pending` over the table, or a flush that loses
it, to the rows of the query; it needs `IdsOK`, ids in order, so that no later entry is taken for one
that was due. `FilesOK`: at most one file is staged, and it and the archive are
all there is. For the archive, `OnlyOneOrder`: rows with different ids have one
order only, `InOrder`, since each row's place is the number of rows before it
(`Places`, by counting). `ArchiveInv` then says, while the rows come in: those
still to come are in order and behind those handed over (`ResultOK`); each file,
staged or finished, has the rows of its source handed over so far, in order
(`FileOK`), and the manifest counts them (`SaidOK`); no finished file shares its
source with another, with the staged one or with a row to come (`ApartOK`), and
none is missing (`AllOK`). A row of the next source finishes the staged file, and
by the order no row of it can follow.

**SyslogReceiver** (`SyslogReceiverProofs`): any datagrams, senders, size of the
cache.

- `CacheAlwaysTrue`: `CacheTrue`, the cache is bounded and agrees with the table;
- `AlwaysRightSource`: a message is added under the id of the source its header
  names, which no other source has;
- `CachedKeepsVersion`: `KnownKeepsVersion`;
- `ReceiverTypeCorrect`: `TypeOK`;
- `ForwardedIsReadBack`: `ReadBack`, for any bytes in logger, display name,
  instance and message and any limits of the format: what the forwarder writes is
  never malformed to the receiver, is stored under its source's names and no
  other, and comes back as far as the format can carry it.

The first three use of `Parse` only that it is a function of the datagram. The
last one follows both functions byte by byte. `Reads(st, w, st2)`: scanning `w`
takes the scanner of structured data from `st` to `st2`; `ReadsConcat` composes
it along `\o`. An escaped value leaves the scanner where it was, inside its quotes
(`GoesEscaped`, by induction over the value), so a parameter leaves it inside the
element (`GoesParam`), and the element ends where `Format` ended it (`ReadsStructuredData`, `SkipWritten`), whatever follows. The
header's fields hold no blank (`NameFieldBefore`), so each `Cut` finds the one
`Format` wrote (`CutBefore`, `HeaderBefore`): together `ParseOfFormat`. Of the
text, `CutText` says what of it survives a cut at a character, `TextReadBack`
that neither the trailing line breaks nor the byte order mark upset it. As an
invariant: a line in hand is one `Format` made (`PacketOK`), and an entry that was
added is what was parsed from it, under the id the table has for that
source (`AddedOK`) and for no other.

**CoreLink** (`CoreLinkProofs`): any satellites, delays, number of changes of Core.

- `TypeCorrect`, with the bounds of the backoff;
- `FallbackOnlyIfOld`: `FallbackJustified`, the messages of v1 are used only for a
  Core that did not serve v2 at some time of the attempt;
- `KnownNameStays`: `NameStays`, a name Core keeps is not taken back;
- `DelayByFailures`: `BackoffByFailures`, the delay is the first one doubled for
  each failure since the last acknowledgement, up to the maximum. `BackoffInv`
  joins `backoff` to `failures` between two attempts and during one;
  `CountedAssumption` says that the bound `MaxCounted` lies where the delay has
  reached its maximum, so that counting no further loses nothing.

`SequenceFacts` has the lemmas about ranges and repetitions of sequences, and
induction in a form the provers can use: for a set in place of a predicate
(`SetInduction`; `SeqInduction` over sequences; `LeastNumber`, `GreatestNumber`).
Recursive functions are used through their equations: the function is shown to
exist, and nothing else of its definition is looked at.

Every invariant and every action property of the passing runs has a theorem.
Only model-checked: the liveness properties (`EntrySettles`, `ShutdownEnds`,
`StreamAnswered`, `QueueDrains`, `ShutdownCompletes`, `PruneEnds`, `NobodyWaits`,
`LinkRecovers`, `LinkEnds`). They need fairness and with it ENABLED, which is out
of the prover's reach. No module has a recursive operator; recursion is written
as functions or folds.

## 5. Not modelled

- `hannah.v1` (`server/v1.go`): converts the messages of the older generation and
  calls the v2 handlers; it keeps no state of its own.
- `GetSources`: one read-only query.
- Configuration: read before anything runs. What `validate` guarantees is an
  assumption of the modules; one consequence of what it lets pass is in section 3.
- `Frame` of `format.go` (the length before a line on TCP), the digits of `<PRI>`
  and of the timestamp, the counter of malformed datagrams and its log lines.
- The bytes of tar and gzip, and of the manifest except the rows and gaps it counts.
- `hannah-proto`, SQLite and grpc-go are external and modelled by what the code
  relies on: the generation `Resolve` finds, transactions, free pages, `Stop`. The
  failure of `grpc.NewClient`, which only a bad address causes, is left out.
- Log output. Where it is shipped into the collector itself, such a line is an
  entry of one more stream.
- Names of a stream's source beyond equality. `Ship` refuses an empty component
  and accepts an empty instance (server.go:58).
- A crash of the process: nothing but committed rows survives it, and temporary
  files stay; the code has no recovery.
- Release and installation scripts.

## 6. Plan

Order: what loses or duplicates entries first, then what depends on it.

1. Done: `Writer`, `AcceptedLog`, `Collector`, `Forwarder`, `Retention`, `Export`.
2. Done: `SyslogLine` and `SyslogReceiver`; `HannahClient` and `Names` over one
   Core; `Collector` up to the exit, with what the forwarder has been offered.
3. Done: theorems for all invariants and action properties, with the refinement
   of `AcceptedLog` by `Writer` and by `Collector`.
4. Left: `Collector` over the ring of `Forwarder` in place of `tapped`; the
   conversion of `hannah.v1` and the checks of `validate` as operators.
