-------------------------- MODULE RetentionProofs --------------------------
(***************************************************************************)
(* Theorems about Retention, for any clock, any number of rows, any limit  *)
(* and any batch, as long as the age limit fits its word. One invariant,   *)
(* RetentionInv, is kept by every step: the shapes, the books of the file, *)
(* what the measurement in progress is still worth, and why rows went.     *)
(***************************************************************************)
EXTENDS Retention, FiniteSetTheorems, TLAPS

\* Days, multiplied as a time.Duration, is that many days.
AgeFits == MaxAge = Days * DayTicks

-----------------------------------------------------------------------------
(* Finite sets.                                                            *)

\* What is taken out of a table is what it has less.
LEMMA TakenOut ==
    ASSUME NEW S, IsFiniteSet(S), NEW T \in SUBSET S
    PROVE  /\ IsFiniteSet(S \ T) /\ Cardinality(S \ T) = Cardinality(S) - Cardinality(T)
           /\ Cardinality(S) \in Nat /\ Cardinality(T) \in Nat
           /\ Cardinality(S \ T) \in Nat /\ Cardinality(T) <= Cardinality(S)
<1>1. IsFiniteSet(T) /\ Cardinality(T) <= Cardinality(S)
  BY FS_Subset
<1>2. IsFiniteSet(S \ T) /\ Cardinality(S \ T) = Cardinality(S) - Cardinality(S \cap T)
  BY FS_Difference
<1>3. S \cap T = T
  OBVIOUS
<1> QED BY <1>1, <1>2, <1>3, FS_CardinalityType

\* Two rows are the same or one is before the other.
LEMMA OneIsOlder ==
    ASSUME NEW r \in Row, NEW s \in Row, r # s
    PROVE  Older(r, s) \/ Older(s, r)
<1>1. r.id # s.id \/ r.ts # s.ts
  BY DEF Row
<1> QED BY <1>1 DEF Row, Older

\* ORDER BY with a LIMIT takes a prefix: a row older than one it takes is taken.
LEMMA OldestAreOldest ==
    ASSUME IsFiniteSet(rows), rows \subseteq Row,
           NEW r \in OldestRows, NEW s \in rows \ OldestRows
    PROVE  Older(r, s)
<1> DEFINE older(x) == {y \in rows : Before(y, x)}
<1>1. r \in rows /\ s \in rows /\ r # s
  BY DEF OldestRows
<1>2. SUFFICES ASSUME Older(s, r) PROVE FALSE
  BY <1>1, OneIsOlder
<1>3. ASSUME NEW y \in older(s) PROVE y \in older(r)
  <2>1. y \in Row /\ s \in Row /\ r \in Row /\ Older(y, s)
    BY <1>1, <1>3 DEF Before
  <2>2. Older(y, r)
    BY <2>1, <1>2 DEF Older, Row
  <2> QED BY <1>3, <2>2 DEF Before
<1>4. IsFiniteSet(older(r)) /\ older(s) \in SUBSET older(r)
  BY <1>3, FS_Subset
<1>5. Cardinality(older(s)) <= Cardinality(older(r)) /\ IsFiniteSet(older(s))
  BY <1>4, FS_Subset
<1>6. Cardinality(older(s)) \in Nat /\ Cardinality(older(r)) \in Nat
  BY <1>4, <1>5, FS_CardinalityType
<1>7. Cardinality(older(r)) < PruneBatch /\ ~(Cardinality(older(s)) < PruneBatch)
  BY <1>1 DEF OldestRows
<1> QED BY <1>5, <1>6, <1>7, RetentionAssumption

-----------------------------------------------------------------------------
(* The invariant.                                                          *)

\* The shapes of the variables; no row has an id that is still to be given, and
\* the cutoff lies in the past.
Shapes ==
    /\ now \in 1..MaxNow /\ rows \subseteq Row /\ gaps \subseteq Gap
    /\ nextRow \in 1..(MaxRows + 1) /\ nextGap \in 1..(MaxGaps + 1)
    /\ ppc \in {"idle", "entries", "gaps", "page_count", "freelist", "oldest", "vacuum"}
    /\ cutoff \in Int /\ cutoff < now /\ seenPages \in Nat /\ deleted \in BOOLEAN
    /\ ended \in {"no", "fits", "empty"} /\ since \in Nat
    /\ pages \in Nat /\ free \in Nat
    /\ IsFiniteSet(rows) /\ IsFiniteSet(gaps)
    /\ \A r \in rows : r.id < nextRow
    /\ \A g \in gaps : g.id < nextGap

\* A page of the file is free, overhead, or a row's.
Books == pages = free + Overhead + Cardinality(rows) + Cardinality(gaps)

\* What UsedBytes counted is at most what there is, and what came since is known;
\* from its verdict on, only inserts change what is in use.
Measured ==
    /\ ppc = "freelist" => seenPages <= pages /\ pages <= seenPages + since
    /\ ppc = "oldest" => InUse > MaxPages
    /\ ended = "fits" => ppc \in {"vacuum", "idle"} /\ InUse <= MaxPages + since

\* The cutoff is in the past, and what went by age was older than it.
Ages ==
    /\ ppc = "entries" => cutoff <= now - Days * DayTicks
    /\ \A p \in aged : p[1].ts < p[2] - Days * DayTicks

RetentionInv == Shapes /\ Books /\ Measured /\ Ages

\* An empty database is in order; that the age fits the word is needed here and
\* when a prune computes its bound.
LEMMA InvInit == AgeFits /\ Init => RetentionInv
<1> SUFFICES ASSUME Init PROVE RetentionInv
  OBVIOUS
<1>1. IsFiniteSet({}) /\ Cardinality({}) = 0
  BY FS_EmptySet
<1>2. Shapes
  <2>1. now \in 1..MaxNow /\ nextRow \in 1..(MaxRows + 1) /\ nextGap \in 1..(MaxGaps + 1)
    BY RetentionAssumption DEF Init
  <2>2. cutoff \in Int /\ cutoff < now /\ {seenPages, since, pages, free} \subseteq Nat
    BY RetentionAssumption DEF Init
  <2> QED BY <1>1, <2>1, <2>2 DEF Init, Shapes
<1>3. Books
  BY <1>1, RetentionAssumption DEF Init, Books
<1>4. Measured /\ Ages
  BY DEF Init, Measured, Ages
<1> QED BY <1>2, <1>3, <1>4 DEF RetentionInv

-----------------------------------------------------------------------------
(* The steps. A row comes, ...                                             *)

\* The page of a new row is one more in use; the file grows by one or not.
LEMMA PageTaken ==
    ASSUME Shapes, TakePage
    PROVE  /\ pages' \in Nat /\ free' \in Nat /\ InUse' = InUse + 1
           /\ pages <= pages' /\ pages' <= pages + 1
<1>1. CASE free > 0
  BY <1>1 DEF TakePage, Shapes, InUse
<1>2. CASE ~(free > 0)
  BY <1>2 DEF TakePage, Shapes, InUse
<1> QED BY <1>1, <1>2

\* Inserting a row may take a page, while a prune is measuring too.
LEMMA InsertKeeps ==
    ASSUME RetentionInv, NEW t \in 1..MaxNow, Insert(t)
    PROVE  RetentionInv'
<1> DEFINE row == [id |-> nextRow, ts |-> t]
<1> USE DEF RetentionInv
<1>1. /\ pages' \in Nat /\ free' \in Nat /\ InUse' = InUse + 1
      /\ pages <= pages' /\ pages' <= pages + 1
  BY PageTaken DEF Insert
<1>2. row \in Row /\ row \notin rows
  BY RetentionAssumption DEF Insert, Shapes, Row
<1>3. rows' = rows \cup {row} /\ gaps' = gaps
  BY DEF Insert
<1>4. IsFiniteSet(rows') /\ Cardinality(rows') = Cardinality(rows) + 1
  BY <1>2, <1>3, FS_AddElement DEF Shapes
<1>5. nextRow' = nextRow + 1 /\ nextRow' \in 1..(MaxRows + 1) /\ since' = since + 1
  BY RetentionAssumption DEF Insert, Shapes
<1>6. \A r \in rows' : r.id < nextRow'
  <2> SUFFICES ASSUME NEW r \in rows' PROVE r.id < nextRow'
    OBVIOUS
  <2>1. CASE r = row
    BY <2>1, <1>5 DEF Shapes
  <2>2. CASE r \in rows
    BY <2>2, <1>5 DEF Shapes, Row
  <2> QED BY <1>3, <2>1, <2>2
<1>7. Shapes'
  <2>1. rows' \subseteq Row
    BY <1>2, <1>3 DEF Shapes
  <2> QED BY <1>1, <1>4, <1>5, <1>6, <2>1 DEF Shapes, Insert
<1>8. Books'
  <2>1. Cardinality(rows) \in Nat /\ Cardinality(gaps) \in Nat
    BY FS_CardinalityType DEF Shapes
  <2> QED BY <1>1, <1>3, <1>4, <2>1, RetentionAssumption DEF Books, InUse, Shapes
<1>9. Measured'
  <2>1. ppc' = ppc /\ ended' = ended /\ seenPages' = seenPages /\ InUse \in Int
    BY DEF Insert, Shapes, InUse
  <2> HIDE DEF row
  <2> QED BY <1>1, <1>5, <2>1, RetentionAssumption DEF Measured, Shapes
<1>10. Ages'
  BY DEF Ages, Insert
<1> QED BY <1>7, <1>8, <1>9, <1>10

\* So may inserting a gap.
LEMMA InsertGapKeeps ==
    ASSUME RetentionInv, NEW t \in 1..MaxNow, InsertGap(t)
    PROVE  RetentionInv'
<1> DEFINE gap == [id |-> nextGap, to |-> t]
<1> USE DEF RetentionInv
<1>1. /\ pages' \in Nat /\ free' \in Nat /\ InUse' = InUse + 1
      /\ pages <= pages' /\ pages' <= pages + 1
  BY PageTaken DEF InsertGap
<1>2. gap \in Gap /\ gap \notin gaps
  BY RetentionAssumption DEF InsertGap, Shapes, Gap
<1>3. gaps' = gaps \cup {gap} /\ rows' = rows
  BY DEF InsertGap
<1>4. IsFiniteSet(gaps') /\ Cardinality(gaps') = Cardinality(gaps) + 1
  BY <1>2, <1>3, FS_AddElement DEF Shapes
<1>5. nextGap' = nextGap + 1 /\ nextGap' \in 1..(MaxGaps + 1) /\ since' = since + 1
  BY RetentionAssumption DEF InsertGap, Shapes
<1>6. \A g \in gaps' : g.id < nextGap'
  <2> SUFFICES ASSUME NEW g \in gaps' PROVE g.id < nextGap'
    OBVIOUS
  <2>1. CASE g = gap
    BY <2>1, <1>5 DEF Shapes
  <2>2. CASE g \in gaps
    BY <2>2, <1>5 DEF Shapes, Gap
  <2> QED BY <1>3, <2>1, <2>2
<1>7. Shapes'
  <2>1. gaps' \subseteq Gap
    BY <1>2, <1>3 DEF Shapes
  <2> QED BY <1>1, <1>4, <1>5, <1>6, <2>1 DEF Shapes, InsertGap
<1>8. Books'
  <2>1. Cardinality(rows) \in Nat /\ Cardinality(gaps) \in Nat
    BY FS_CardinalityType DEF Shapes
  <2> QED BY <1>1, <1>3, <1>4, <2>1, RetentionAssumption DEF Books, InUse, Shapes
<1>9. Measured'
  <2>1. ppc' = ppc /\ ended' = ended /\ seenPages' = seenPages /\ InUse \in Int
    BY DEF InsertGap, Shapes, InUse
  <2> HIDE DEF gap
  <2> QED BY <1>1, <1>5, <2>1, RetentionAssumption DEF Measured, Shapes
<1>10. Ages'
  BY DEF Ages, InsertGap
<1> QED BY <1>7, <1>8, <1>9, <1>10

-----------------------------------------------------------------------------
(* ... rows go, ...                                                        *)

\* Rows that leave a table leave their pages free.
LEMMA RowsGo ==
    ASSUME Shapes, Books, NEW old \in SUBSET rows, rows' = rows \ old,
           free' = free + Cardinality(old), UNCHANGED <<gaps, nextRow, pages>>
    PROVE  /\ free' \in Nat /\ Books' /\ rows' \subseteq Row /\ IsFiniteSet(rows')
           /\ \A r \in rows' : r.id < nextRow'
<1>1. /\ IsFiniteSet(rows') /\ Cardinality(rows') = Cardinality(rows) - Cardinality(old)
      /\ Cardinality(rows) \in Nat /\ Cardinality(old) \in Nat /\ Cardinality(rows') \in Nat
  BY TakenOut DEF Shapes
<1>2. Cardinality(gaps) \in Nat
  BY FS_CardinalityType DEF Shapes
<1>3. free' \in Nat /\ Books'
  BY <1>1, <1>2, RetentionAssumption DEF Shapes, Books
<1> QED BY <1>1, <1>3 DEF Shapes

\* DELETE by age (store.go:326) takes rows below the bound only.
LEMMA DeleteOldKeeps ==
    ASSUME RetentionInv, DeleteOld PROVE RetentionInv'
<1> DEFINE old == {r \in rows : TooOld(r.ts)}
<1> USE DEF RetentionInv
<1>1. /\ free' \in Nat /\ Books' /\ rows' \subseteq Row /\ IsFiniteSet(rows')
      /\ \A r \in rows' : r.id < nextRow'
  <2>1. old \in SUBSET rows /\ rows' = rows \ old /\ free' = free + Cardinality(old)
    BY DEF DeleteOld
  <2>2. UNCHANGED <<gaps, nextRow, pages>>
    BY DEF DeleteOld
  <2> HIDE DEF old
  <2> QED BY <2>1, <2>2, RowsGo
<1>2. Shapes'
  <2>1. deleted' \in BOOLEAN
    BY DEF DeleteOld
  <2> QED BY <1>1, <2>1 DEF Shapes, DeleteOld, Goes
<1>3. Measured'
  BY DEF Measured, DeleteOld, Goes
<1>4. Ages'
  <2>1. aged' = aged \cup {<<r, now>> : r \in old} /\ ppc = "entries" /\ ppc' = "gaps"
    BY DEF DeleteOld, Goes
  <2>2. ASSUME NEW r \in old PROVE r.ts < now - Days * DayTicks
    <3>1. r.ts \in Int /\ r.ts < cutoff /\ cutoff \in Int /\ now \in Int
      BY <2>2 DEF TooOld, Shapes, Row
    <3>2. cutoff <= now - Days * DayTicks
      BY <2>1 DEF Ages
    <3>3. Days * DayTicks \in Int
      BY RetentionAssumption
    <3> HIDE DEF old
    <3> QED BY <3>1, <3>2, <3>3
  <2>3. ASSUME NEW p \in aged' PROVE p[1].ts < p[2] - Days * DayTicks
    <3>1. CASE p \in aged
      BY <3>1 DEF Ages
    <3>2. CASE p \notin aged
      <4>1. PICK r \in old : p = <<r, now>>
        BY <2>1, <2>3, <3>2
      <4>2. p[1] = r /\ p[2] = now
        BY <4>1
      <4> QED BY <2>2, <4>2
    <3> QED BY <3>1, <3>2
  <2> QED BY <2>1, <2>3 DEF Ages
<1> QED BY <1>1, <1>2, <1>3, <1>4

\* So does the DELETE of the gaps.
LEMMA DeleteOldGapsKeeps ==
    ASSUME RetentionInv, DeleteOldGaps PROVE RetentionInv'
<1> DEFINE old == {g \in gaps : TooOld(g.to)}
<1> USE DEF RetentionInv
<1>1. /\ old \in SUBSET gaps /\ gaps' = gaps \ old /\ free' = free + Cardinality(old)
      /\ UNCHANGED <<rows, nextRow, nextGap, pages>>
  BY DEF DeleteOldGaps
<1>2. /\ IsFiniteSet(gaps') /\ Cardinality(gaps') = Cardinality(gaps) - Cardinality(old)
      /\ Cardinality(gaps) \in Nat /\ Cardinality(old) \in Nat /\ Cardinality(gaps') \in Nat
  <2> HIDE DEF old
  <2> QED BY <1>1, TakenOut DEF Shapes
<1> HIDE DEF old
<1>3. Cardinality(rows) \in Nat
  BY FS_CardinalityType DEF Shapes
<1>4. free' \in Nat /\ Books'
  BY <1>1, <1>2, <1>3, RetentionAssumption DEF Shapes, Books
<1>5. Shapes'
  BY <1>1, <1>2, <1>4 DEF Shapes, DeleteOldGaps, Goes, history
<1>6. Measured' /\ Ages'
  BY DEF Measured, Ages, DeleteOldGaps, Goes, history
<1> QED BY <1>4, <1>5, <1>6

\* The DELETE by size takes the oldest rows, only while the measured use is over.
LEMMA DeleteOldestKeeps ==
    ASSUME RetentionInv, DeleteOldest PROVE RetentionInv'
<1> USE DEF RetentionInv
<1>1. OldestRows \in SUBSET rows
  BY DEF OldestRows
<1>2. /\ free' \in Nat /\ Books' /\ rows' \subseteq Row /\ IsFiniteSet(rows')
      /\ \A r \in rows' : r.id < nextRow'
  BY <1>1, RowsGo DEF DeleteOldest
<1>3. ppc' \in {"vacuum", "page_count"} /\ ended' \in {"empty", ended}
  BY DEF DeleteOldest, MeasureAgain
<1>4. Shapes'
  <2>1. deleted' \in BOOLEAN
    BY DEF DeleteOldest
  <2> QED BY <1>2, <1>3, <2>1 DEF Shapes, DeleteOldest
<1>5. ended' # "fits"
  BY <1>3 DEF Measured, DeleteOldest
<1>6. Measured' /\ Ages'
  BY <1>3, <1>5 DEF Measured, Ages, DeleteOldest
<1> QED BY <1>2, <1>4, <1>6

-----------------------------------------------------------------------------
(* ... and the rest measures, or gives pages back.                         *)

\* A prune computes the bound of the ages from the clock it reads.
LEMMA StartKeeps ==
    ASSUME AgeFits, RetentionInv, Start PROVE RetentionInv'
<1> USE DEF RetentionInv
<1>1. cutoff' = now - Days * DayTicks /\ cutoff' \in Int /\ cutoff' < now
  <2>1. Days * DayTicks \in Nat \ {0}
    BY RetentionAssumption
  <2>2. now \in Int /\ cutoff' = now - Days * DayTicks
    BY DEF Start, AgeFits, Cutoff, Shapes
  <2> QED BY <2>1, <2>2
<1>2. Shapes'
  BY <1>1 DEF Shapes, Start, Goes, tables
<1>3. Books' /\ Measured'
  BY DEF Books, Measured, Start, Goes, tables
<1>4. Ages'
  BY <1>1 DEF Ages, Start, Goes, Shapes
<1> QED BY <1>2, <1>3, <1>4

\* Time only makes rows older.
LEMMA TickKeeps ==
    ASSUME RetentionInv, Tick PROVE RetentionInv'
<1> USE DEF RetentionInv
<1>1. Shapes' /\ Books' /\ Measured'
  BY RetentionAssumption DEF Shapes, Books, Measured, InUse, Tick, tables, history
<1>2. Ages'
  <2>1. Days * DayTicks \in Int /\ now \in Int /\ cutoff \in Int /\ now' = now + 1
    BY RetentionAssumption DEF Shapes, Tick
  <2> QED BY <2>1 DEF Ages, Tick, history
<1> QED BY <1>1, <1>2

\* PRAGMA page_count: what is read is not more than there is, and less by no more
\* than what is inserted since.
LEMMA PageCountKeeps ==
    ASSUME RetentionInv, PageCount PROVE RetentionInv'
<1> USE DEF RetentionInv
<1>1. Shapes' /\ Books'
  BY DEF Shapes, Books, PageCount, Goes, tables
<1>2. Measured'
  <2>1. pages' = pages /\ seenPages' = pages /\ since' = 0 /\ pages \in Nat
    BY DEF PageCount, tables, Shapes
  <2>2. ppc' = "freelist" /\ ended' # "fits"
    BY DEF PageCount, Goes, Measured
  <2> QED BY <2>1, <2>2 DEF Measured
<1>3. Ages'
  BY DEF Ages, PageCount, Goes
<1> QED BY <1>1, <1>2, <1>3

\* PRAGMA freelist_count, read after page_count: see PageCountKeeps.
LEMMA FreelistKeeps ==
    ASSUME RetentionInv, Freelist PROVE RetentionInv'
<1> USE DEF RetentionInv
<1>1. ppc' \in {"vacuum", "oldest"} /\ ended' \in {"fits", ended}
  BY DEF Freelist
<1>2. Shapes' /\ Books' /\ Ages'
  BY <1>1 DEF Shapes, Books, Ages, Freelist, tables
<1>3. Measured'
  <2>1. /\ pages \in Nat /\ free \in Nat /\ since \in Nat /\ seenPages \in Nat
        /\ seenPages <= pages /\ pages <= seenPages + since
        /\ UNCHANGED <<pages, free, since, seenPages>>
    BY DEF Shapes, Measured, Freelist, tables
  <2>2. CASE Fits(seenPages - free)
    <3>1. ppc' = "vacuum"
      BY <2>2 DEF Freelist
    <3>2. InUse' <= MaxPages + since'
      BY <2>1, <2>2, RetentionAssumption DEF Fits, InUse
    <3> QED BY <3>1, <3>2 DEF Measured
  <2>3. CASE ~Fits(seenPages - free)
    <3>1. ppc' = "oldest" /\ ended' # "fits"
      BY <2>3 DEF Freelist, Measured
    <3>2. InUse' > MaxPages
      BY <2>1, <2>3, RetentionAssumption DEF Fits, InUse
    <3> QED BY <3>1, <3>2 DEF Measured
  <2> QED BY <2>2, <2>3
<1> QED BY <1>2, <1>3

\* The vacuum frees pages and takes no row.
LEMMA VacuumKeeps ==
    ASSUME RetentionInv, Vacuum PROVE RetentionInv'
<1> USE DEF RetentionInv
<1>1. rows' = rows /\ gaps' = gaps /\ ppc' = "idle"
  BY DEF Vacuum, Goes
<1>2. Cardinality(rows) \in Nat /\ Cardinality(gaps) \in Nat
  BY FS_CardinalityType DEF Shapes
<1>3. pages' \in Nat /\ free' \in Nat /\ InUse' = InUse
  <2>1. CASE deleted
    <3>1. pages' = pages - free /\ free' = 0
      BY <2>1 DEF Vacuum
    <3> QED BY <1>2, <3>1, RetentionAssumption DEF Shapes, Books, InUse
  <2>2. CASE ~deleted
    <3>1. pages' = pages /\ free' = free
      BY <2>2 DEF Vacuum
    <3> QED BY <3>1 DEF Shapes, InUse
  <2> QED BY <2>1, <2>2
<1>4. Books'
  BY <1>1, <1>2, <1>3, RetentionAssumption DEF Books, InUse, Shapes
<1>5. Shapes'
  BY <1>1, <1>3 DEF Shapes, Vacuum, history
<1>6. Measured' /\ Ages'
  BY <1>1, <1>3 DEF Measured, Ages, Vacuum, history
<1> QED BY <1>4, <1>5, <1>6

\* A failing statement ends the prune and changes no table.
LEMMA FailKeeps ==
    ASSUME RetentionInv, Fail PROVE RetentionInv'
BY DEF RetentionInv, Shapes, Books, Measured, InUse, Ages, Fail, tables, history

\* Every step keeps the invariant.
LEMMA InvStep ==
    ASSUME AgeFits, RetentionInv, [Next]_vars PROVE RetentionInv'
<1>1. CASE UNCHANGED vars
  BY <1>1 DEF RetentionInv, Shapes, Books, Measured, InUse, Ages, vars
<1>2. CASE Start \/ Fail \/ Tick
  BY <1>2, StartKeeps, FailKeeps, TickKeeps
<1>3. CASE Prune
  BY <1>3, DeleteOldKeeps, DeleteOldGapsKeeps, PageCountKeeps, FreelistKeeps,
     DeleteOldestKeeps, VacuumKeeps DEF Prune
<1>4. CASE \E t \in 1..MaxNow : Insert(t) \/ InsertGap(t)
  BY <1>4, InsertKeeps, InsertGapKeeps
<1> QED BY <1>1, <1>2, <1>3, <1>4 DEF Next

\* Every state of an execution satisfies the invariant.
LEMMA InvHolds == ASSUME AgeFits PROVE Spec => []RetentionInv
<1>1. Init => RetentionInv
  BY InvInit
<1>2. RetentionInv /\ [Next]_vars => RetentionInv'
  BY InvStep
<1> QED BY <1>1, <1>2, PTL DEF Spec

-----------------------------------------------------------------------------
(* The theorems.                                                           *)

\* Every variable has its shape, UsedBytes never takes more pages off than there
\* are, and a prune deletes only what lies in the past. Needs the age to fit.
THEOREM TypeCorrect == ASSUME AgeFits PROVE Spec => []TypeOK
<1>1. RetentionInv => TypeOK
  <2> SUFFICES ASSUME RetentionInv PROVE TypeOK
    OBVIOUS
  <2>1. Cardinality(rows) \in Nat /\ Cardinality(gaps) \in Nat
    BY FS_CardinalityType DEF RetentionInv, Shapes
  <2>2. free \in 0..pages
    BY <2>1, RetentionAssumption DEF RetentionInv, Shapes, Books
  <2> QED BY <2>2 DEF RetentionInv, Shapes, TypeOK
<1> QED BY <1>1, InvHolds, PTL

\* No entry is deleted without a cause: what goes by age was more than Days old,
\* and a batch of the size loop goes only while the data is over the limit.
THEOREM NothingWithoutCause == ASSUME AgeFits PROVE Spec => []DeletedForCause
<1>1. RetentionInv => DeletedForCause
  BY DEF RetentionInv, Measured, Ages, DeletedForCause
<1> QED BY <1>1, InvHolds, PTL

\* When the size loop was content, the data fits but for what came since.
THEOREM LimitIsMet == ASSUME AgeFits PROVE Spec => []LimitMet
<1>1. RetentionInv => LimitMet
  BY DEF RetentionInv, Measured, LimitMet
<1> QED BY <1>1, InvHolds, PTL

\* No entry survives a round of the size loop that deletes a newer one.
THEOREM OldestFirst == ASSUME AgeFits PROVE Spec => OldestGoFirst
<1> DEFINE Step == ppc = "oldest" => \A r \in rows \ rows', s \in rows' : Older(r, s)
<1>1. RetentionInv /\ [Next]_vars => [Step]_vars
  <2> SUFFICES ASSUME RetentionInv, Next, ppc = "oldest",
                      NEW r \in rows \ rows', NEW s \in rows'
               PROVE  Older(r, s)
    OBVIOUS
  <2>1. CASE DeleteOldest
    <3>1. rows' = rows \ OldestRows
      BY <2>1 DEF DeleteOldest
    <3> QED BY <3>1, OldestAreOldest DEF RetentionInv, Shapes
  <2>2. CASE ~DeleteOldest
    <3>1. rows \subseteq rows'
      BY <2>2 DEF Next, Start, Fail, Tick, Prune, DeleteOld, DeleteOldGaps, PageCount,
         Freelist, Vacuum, Insert, InsertGap, Goes, tables
    <3> QED BY <3>1
  <2> QED BY <2>1, <2>2
<1> QED BY <1>1, InvHolds, PTL DEF Spec, OldestGoFirst
=============================================================================
