----------------------------- MODULE Retention -----------------------------
(***************************************************************************)
(* internal/store/store.go Prune and UsedBytes, with runRetention of       *)
(* main.go: every pruneInterval one goroutine deletes what is too old and  *)
(* then the oldest entries until the data fits, statement by statement,    *)
(* while the writer and the Ship handlers go on inserting.                 *)
(* A row of either table takes one page of the file, the schema Overhead.  *)
(***************************************************************************)
EXTENDS Integers, FiniteSets

CONSTANTS
    Days, DayTicks,  \* retention.days and the length of a day
    WordBits,        \* width of time.Duration
    MaxPages,        \* retention.max_size_mb
    PruneBatch,      \* pruneBatch
    Overhead,        \* pages no row is on
    MaxNow,          \* bound: the clock
    MaxRows,         \* bound: entries inserted
    MaxGaps          \* bound: gaps inserted

ASSUME RetentionAssumption ==
    /\ Days \in Nat \ {0}             \* config.validate
    /\ {DayTicks, WordBits, PruneBatch, MaxNow} \subseteq Nat \ {0}
    /\ {MaxPages, Overhead, MaxRows, MaxGaps} \subseteq Nat

VARIABLES
    now,           \* the clock
    rows,          \* the entries table
    gaps,          \* the gaps table
    nextRow, nextGap,   \* their next ids
    pages, free,   \* page_count and freelist_count
    ppc,           \* the next statement of Prune, or "idle"
    cutoff,        \* Prune's cutoff
    seenPages,     \* UsedBytes' pageCount
    deleted,       \* res.ByAge + res.BySize > 0
    aged,          \* history: pairs of a row deleted by age and the time
    since,         \* history: rows inserted since UsedBytes began
    ended          \* history: why the size loop ended: "fits", "empty" or "no"

vars == <<now, rows, gaps, nextRow, nextGap, pages, free, ppc, cutoff, seenPages,
          deleted, aged, since, ended>>

tables  == <<rows, gaps, nextRow, nextGap, pages, free>>
history == <<aged, since, ended>>

Row == [id : 1..MaxRows, ts : 1..MaxNow]
Gap == [id : 1..MaxGaps, to : 1..MaxNow]

Init ==
    /\ now = 1 /\ rows = {} /\ gaps = {} /\ nextRow = 1 /\ nextGap = 1
    /\ pages = Overhead /\ free = 0
    /\ ppc = "idle" /\ cutoff = 0 /\ seenPages = 0 /\ deleted = FALSE
    /\ aged = {} /\ since = 0 /\ ended = "no"
-----------------------------------------------------------------------------
\* A new row takes a free page, or the file grows.
TakePage ==
    IF free > 0 THEN free' = free - 1 /\ UNCHANGED pages
                ELSE pages' = pages + 1 /\ UNCHANGED free

\* A flush of the writer; the time is the component's, whatever its clock says.
Insert(ts) ==
    /\ nextRow <= MaxRows
    /\ rows' = rows \cup {[id |-> nextRow, ts |-> ts]}
    /\ nextRow' = nextRow + 1
    /\ TakePage /\ since' = since + 1
    /\ UNCHANGED <<now, gaps, nextGap, ppc, cutoff, seenPages, deleted, aged, ended>>

InsertGap(to) ==
    /\ nextGap <= MaxGaps
    /\ gaps' = gaps \cup {[id |-> nextGap, to |-> to]}
    /\ nextGap' = nextGap + 1
    /\ TakePage /\ since' = since + 1
    /\ UNCHANGED <<now, rows, nextRow, ppc, cutoff, seenPages, deleted, aged, ended>>

Tick ==
    /\ now < MaxNow /\ now' = now + 1
    /\ UNCHANGED <<tables, ppc, cutoff, seenPages, deleted, history>>
-----------------------------------------------------------------------------
(* Prune.                                                                  *)

\* A multiplication of WordBits wide, signed integers.
Wrap(x) == LET half == 2^(WordBits - 1) IN ((x + half) % (2 * half)) - half

\* time.Duration(cfg.Retention.Days) * 24 * time.Hour
MaxAge == Wrap(Days * DayTicks)

Goes(from, to) == ppc = from /\ ppc' = to

WrongWay == now + MaxAge                                           \* mutant
\* now.Add(-maxAge)
Cutoff == now - MaxAge

\* The ticker of runRetention, or its first prune.
Start ==
    /\ Goes("idle", "entries")
    /\ cutoff' = Cutoff
    /\ deleted' = FALSE /\ ended' = "no"
    /\ UNCHANGED <<now, tables, seenPages, aged, since>>

TooOld(t) == t < cutoff

DeleteOld ==
    /\ Goes("entries", "gaps")
    /\ LET old == {r \in rows : TooOld(r.ts)} IN
       /\ rows' = rows \ old
       /\ free' = free + Cardinality(old)
       /\ deleted' = (old # {})
       /\ aged' = aged \cup {<<r, now>> : r \in old}
    /\ UNCHANGED <<now, gaps, nextRow, nextGap, pages, cutoff, seenPages, since, ended>>

DeleteOldGaps ==
    /\ Goes("gaps", "page_count")
    /\ LET old == {g \in gaps : TooOld(g.to)} IN
       /\ gaps' = gaps \ old
       /\ free' = free + Cardinality(old)
    /\ UNCHANGED <<now, rows, nextRow, nextGap, pages, cutoff, seenPages, deleted, history>>

\* UsedBytes asks for the page count first ...
PageCount ==
    /\ Goes("page_count", "freelist")
    /\ seenPages' = pages /\ since' = 0
    /\ UNCHANGED <<now, tables, cutoff, deleted, aged, ended>>

FitsAlmost(used) == used <= MaxPages + 1                           \* mutant
Fits(used) == used <= MaxPages

\* ... and for the free pages next; the rows inserted in between count or not.
Freelist ==
    /\ ppc = "freelist"
    /\ LET fits == Fits(seenPages - free) IN
       /\ ppc' = IF fits THEN "vacuum" ELSE "oldest"
       /\ ended' = IF fits THEN "fits" ELSE ended
    /\ UNCHANGED <<now, tables, cutoff, seenPages, deleted, aged, since>>

Older(a, b) == a.ts < b.ts \/ (a.ts = b.ts /\ a.id < b.id)

ByIdOnly(a, b) == a.id < b.id                                      \* mutant
Before(a, b) == Older(a, b)

\* ORDER BY ts_ms, id LIMIT pruneBatch
OldestRows == {r \in rows : Cardinality({s \in rows : Before(s, r)}) < PruneBatch}

BatchAgain == "oldest"                                             \* mutant
MeasureAgain == "page_count"

OneMoreRound(n) == FALSE                                           \* mutant
NothingLeft(n) == n = 0

DeleteOldest ==
    /\ ppc = "oldest"
    /\ rows' = rows \ OldestRows
    /\ LET n == Cardinality(OldestRows) IN
       /\ free' = free + n
       /\ deleted' = (deleted \/ n > 0)
       /\ ppc' = IF NothingLeft(n) THEN "vacuum" ELSE MeasureAgain
       /\ ended' = IF NothingLeft(n) THEN "empty" ELSE ended
    /\ UNCHANGED <<now, gaps, nextRow, nextGap, pages, cutoff, seenPages, aged, since>>

\* incremental_vacuum, when anything was deleted.
Vacuum ==
    /\ Goes("vacuum", "idle")
    /\ IF deleted THEN pages' = pages - free /\ free' = 0 ELSE UNCHANGED <<pages, free>>
    /\ UNCHANGED <<now, rows, gaps, nextRow, nextGap, cutoff, seenPages, deleted, history>>

\* A statement fails, or the context ends: Prune gives up, the next tick is
\* another chance.
Fail ==
    /\ ppc # "idle" /\ ppc' = "idle"
    /\ UNCHANGED <<now, tables, cutoff, seenPages, deleted, history>>

Prune == DeleteOld \/ DeleteOldGaps \/ PageCount \/ Freelist \/ DeleteOldest \/ Vacuum

Next ==
    \/ Start \/ Prune \/ Fail \/ Tick
    \/ \E t \in 1..MaxNow : Insert(t) \/ InsertGap(t)

Spec == Init /\ [][Next]_vars

\* Statements return. The other actions happen or not.
FairSpec == Spec /\ WF_vars(Prune)
-----------------------------------------------------------------------------
(* Properties.                                                             *)

InUse == pages - free

\* Shapes; no more pages are free than there are, and the cutoff of a prune, for
\* an age that fits its word, lies in the past.
TypeOK ==
    /\ now \in 1..MaxNow /\ rows \subseteq Row /\ gaps \subseteq Gap
    /\ nextRow \in 1..(MaxRows + 1) /\ nextGap \in 1..(MaxGaps + 1)
    /\ ppc \in {"idle", "entries", "gaps", "page_count", "freelist", "oldest", "vacuum"}
    /\ cutoff \in Int /\ cutoff < now /\ seenPages \in Nat /\ deleted \in BOOLEAN
    /\ ended \in {"no", "fits", "empty"} /\ since \in Nat
    /\ pages \in Nat /\ free \in 0..pages

\* No entry goes without a cause. config.example.yaml:44, "Logs older than this
\* are deleted", and no others: a row that went by age was more than Days old at
\* that time. And the size limit costs no entry it need not cost: also with a
\* measurement of three statements that inserts fall between, a batch is deleted
\* only while the data is in fact over the limit. The age needs to fit the word:
\* for Days = 8 and WordBits = 4, a time.Duration's 106752 days, the cutoff is in
\* the future and everything goes.
DeletedForCause ==
    /\ \A p \in aged : p[1].ts < p[2] - Days * DayTicks
    /\ ppc = "oldest" => InUse > MaxPages

\* When the size loop was content, the data fits, but for what was inserted
\* since it began to measure.
LimitMet == ended = "fits" /\ ppc \in {"vacuum", "idle"} => InUse <= MaxPages + since

\* The limit is kept at the cost of the oldest: no entry survives a round that
\* deletes a newer one.
OldestGoFirst ==
    [][ppc = "oldest" => \A r \in rows \ rows', s \in rows' : Older(r, s)]_vars

\* Prune comes to an end, also when nothing it may delete makes the data fit.
PruneEnds == (ppc # "idle") ~> (ppc = "idle")
=============================================================================
