---------------------------- MODULE ExportProofs ----------------------------
(***************************************************************************)
(* Proofs about Export, for any sources, entries, filters and failures:    *)
(* what an export's Sync found waiting is in the archive that is sent, but *)
(* for batches that were lost before the Sync was answered; no file of an  *)
(* export stays behind; and the archive is the query's rows. The first     *)
(* follows an entry from the batch through the table to the rows of the    *)
(* query; it needs that ids are given out in order, so that nothing        *)
(* accepted later is taken for one of those due. The last rests            *)
(* on what the order of a query is: rows with different ids can be put in  *)
(* one order only, and Build, which sees them one by one, needs no more    *)
(* than that order to know when a source is complete.                      *)
(***************************************************************************)
EXTENDS Export, FiniteSetTheorems, SequenceFacts

(***************************************************************************)
(* What the export's Sync waited for.                                      *)
(***************************************************************************)

\* After Sync has answered, before the query for the entries has been made, ...
BeforeQuery == {"archive", "sources", "query"}
\* ... and from then on.
AfterQuery == {"rows", "gaps", "send"}

\* Ids are given out in order.
IdsOK ==
    /\ accepted \in Nat
    /\ \A e \in rows \cup pending \cup pruned \cup swallowed :
          e.id \in Nat /\ e.id <= accepted

\* What was due is waiting, stored, deleted or lost unasked; not waiting once
\* Sync has answered; and in the query's rows, if it matches, once that was made.
DueOK ==
    /\ due \subseteq rows \cup pending \cup pruned \cup swallowed
    /\ epc \in BeforeQuery \cup AfterQuery => due \cap pending = {}
    /\ epc \in AfterQuery =>
          \A e \in due : Matches(e) => e \in snapshot \cup pruned \cup swallowed

SyncedInv == IdsOK /\ DueOK

\* What a step of the writer does with what it takes from the batch, whether a
\* flush or the Sync's answer: it goes somewhere, and nothing else moves.
LEMMA FlushIs ==
    ASSUME Flush
    PROVE  /\ pending' \subseteq pending
           /\ rows \subseteq rows' /\ swallowed \subseteq swallowed'
           /\ pending \subseteq rows' \cup pending' \cup swallowed'
           /\ rows' \subseteq rows \cup pending /\ swallowed' \subseteq swallowed \cup pending
           /\ UNCHANGED <<registered, gaps, accepted, gapCount, pruned, epc, request, build, temp>>
<1>1. PICK n \in 1..accepted :
         /\ pending' = pending \ Batch(n)
         /\ \/ rows' = rows \cup Batch(n) /\ swallowed' = swallowed
            \/ swallowed' = swallowed \cup Batch(n) /\ rows' = rows
  BY DEF Flush
<1>2. Batch(n) \subseteq pending
  BY DEF Batch
<1>3. UNCHANGED <<registered, gaps, accepted, gapCount, pruned, epc, request, build, temp>>
  BY DEF Flush
<1> QED BY <1>1, <1>2, <1>3

LEMMA SyncMoves ==
    ASSUME SyncDone \/ SyncFails
    PROVE  /\ pending' = pending \ due
           /\ rows' = rows \/ rows' = rows \cup (due \cap pending)
           /\ SyncDone => rows' = rows \cup (due \cap pending)
           /\ UNCHANGED <<registered, gaps, accepted, gapCount, pruned, swallowed, filter>>
BY DEF SyncDone, SyncFails, Return, Asked, request

\* All other steps of the export leave the tables alone.
LEMMA TablesStay ==
    ASSUME Next, ~Others, ~SyncDone, ~SyncFails
    PROVE  UNCHANGED tables
BY DEF Next, Begin, Steps, CreateArchive, AllSources, EachEntry, SameSource, NextSource,
       FinishLast, Gaps, Sent, Fail

\* Ids stay in order, whatever the step.
LEMMA IdsStep ==
    ASSUME IdsOK, [Next]_vars
    PROVE  IdsOK'
<1>1. CASE Others
  <2>1. ASSUME NEW i \in SourceId, NEW t \in 1..MaxTime, NEW c \in Categories, Accept(i, t, c)
        PROVE  IdsOK'
    <3>1. /\ accepted' = accepted + 1 /\ UNCHANGED <<rows, pruned, swallowed>>
          /\ pending' = pending \cup {[id |-> accepted', src |-> i, ts |-> t, cat |-> c]}
      BY <2>1 DEF Accept
    <3> QED
      BY <3>1 DEF IdsOK
  <2>2. ASSUME NEW t \in 2..MaxTime, Prune(t) PROVE IdsOK'
    BY <2>2 DEF Prune, IdsOK
  <2>3. CASE Flush
    BY <2>3, FlushIs DEF IdsOK
  <2>4. ASSUME NEW i \in SourceId, Register(i) PROVE IdsOK'
    BY <2>4 DEF Register, IdsOK
  <2>5. ASSUME NEW i \in SourceId, NEW f \in 1..MaxTime, NEW t \in f..MaxTime, AddGap(i, f, t)
        PROVE  IdsOK'
    BY <2>5 DEF AddGap, IdsOK
  <2> QED
    BY <1>1, <2>1, <2>2, <2>3, <2>4, <2>5 DEF Others
<1>2. CASE SyncDone \/ SyncFails
  BY <1>2, SyncMoves DEF IdsOK
<1>3. CASE UNCHANGED tables
  BY <1>3 DEF tables, IdsOK
<1> QED BY <1>1, <1>2, <1>3, TablesStay DEF vars

\* The rest of the collector moves entries on, but adds none to those due.
LEMMA DueOthers ==
    ASSUME IdsOK, DueOK, Others
    PROVE  DueOK'
<1>1. UNCHANGED <<epc, due, snapshot, filter>>
  BY FlushIs DEF Others, Register, Accept, AddGap, Prune, request, build
<1>2. \A e : Matches(e)' = Matches(e)
  BY <1>1 DEF Matches, Until, Wanted
<1>3. ASSUME NEW i \in SourceId, NEW t \in 1..MaxTime, NEW c \in Categories, Accept(i, t, c)
      PROVE  DueOK'
  <2> DEFINE new == [id |-> accepted', src |-> i, ts |-> t, cat |-> c]
  <2>1. /\ accepted' = accepted + 1 /\ UNCHANGED <<rows, pruned, swallowed>>
        /\ pending' = pending \cup {new}
    BY <1>3 DEF Accept
  <2>2. new \notin due
    <3>1. new.id = accepted + 1
      BY <2>1
    <3> HIDE DEF new
    <3> QED BY <3>1 DEF IdsOK, DueOK
  <2> HIDE DEF new
  <2> QED BY <1>1, <1>2, <2>1, <2>2 DEF DueOK
<1>4. ASSUME NEW t \in 2..MaxTime, Prune(t) PROVE DueOK'
  <2>1. /\ UNCHANGED <<pending, swallowed>> /\ pruned \subseteq pruned'
        /\ rows \subseteq rows' \cup pruned'
    BY <1>4 DEF Prune
  <2> QED BY <1>1, <1>2, <2>1 DEF DueOK
<1>5. CASE Flush
  BY <1>1, <1>2, <1>5, FlushIs DEF DueOK
<1>6. ASSUME NEW i \in SourceId,
             Register(i) \/ \E f \in 1..MaxTime : \E t \in f..MaxTime : AddGap(i, f, t)
      PROVE  DueOK'
  <2>1. UNCHANGED <<rows, pending, pruned, swallowed>>
    BY <1>6 DEF Register, AddGap
  <2> QED BY <1>1, <1>2, <2>1 DEF DueOK
<1> QED BY <1>3, <1>4, <1>5, <1>6 DEF Others

\* The export waits for those due, then reads what is stored.
LEMMA DueExport ==
    ASSUME DueOK, Next, ~Others
    PROVE  DueOK'
<1>1. filter' = filter
  BY SyncMoves DEF Next, Begin, Steps, CreateArchive, AllSources, EachEntry, SameSource,
         NextSource, FinishLast, Gaps, Sent, Fail, Return, request
<1>2. \A e : Matches(e)' = Matches(e)
  BY <1>1 DEF Matches, Until, Wanted
<1> USE DEF BeforeQuery, AfterQuery
<1>3. CASE SyncDone
  <2>1. epc = "sync" /\ epc' = "archive" /\ due' = due
    BY <1>3 DEF SyncDone, Goes, request
  <2> QED BY <1>3, <2>1, SyncMoves DEF DueOK
<1>4. CASE Return
  BY <1>4 DEF Return, DueOK
<1>5. CASE UNCHANGED tables
  <2>1. UNCHANGED <<rows, pending, pruned, swallowed>>
    BY <1>5 DEF tables
  <2>2. CASE Begin
    BY <2>1, <2>2 DEF Begin, Goes, DueOK
  <2>3. CASE CreateArchive \/ AllSources
    BY <2>1, <2>3 DEF CreateArchive, AllSources, Goes, request, DueOK
  <2>4. CASE EachEntry
    <3>1. /\ epc = "query" /\ epc' = "rows" /\ due' = due
          /\ snapshot' = {r \in rows : Matches(r)}
      BY <2>4 DEF EachEntry, Goes, request
    <3> QED BY <1>2, <2>1, <3>1 DEF DueOK
  <2>5. CASE SameSource \/ NextSource \/ FinishLast \/ Gaps
    <3>1. epc \in AfterQuery /\ epc' \in AfterQuery /\ UNCHANGED <<due, snapshot>>
      BY <2>5 DEF SameSource, NextSource, FinishLast, Gaps, Goes, request
    <3> QED BY <1>2, <2>1, <3>1 DEF DueOK
  <2> QED BY <1>3, <1>4, <2>2, <2>3, <2>4, <2>5 DEF Next, Steps, Sent, Fail, SyncFails
<1> QED BY <1>3, <1>4, <1>5, TablesStay DEF SyncFails

\* SyncedIncluded (server.go:140): an archive is sent only with every entry that
\* was stored or waiting when its Sync was sent, unless the filter or the
\* retention took it, or a flush nobody asked for lost it before the answer. So
\* an archive never leaves out what the Sync's own flush took, even if it fails.
THEOREM BatchIsIncluded == Spec => []SyncedIncluded
<1>1. Init => SyncedInv
  BY ExportAssumption DEF Init, SyncedInv, IdsOK, DueOK, BeforeQuery, AfterQuery
<1>2. SyncedInv /\ [Next]_vars => SyncedInv'
  <2> SUFFICES ASSUME SyncedInv, [Next]_vars PROVE SyncedInv'
    OBVIOUS
  <2>1. IdsOK'
    BY IdsStep DEF SyncedInv
  <2>2. CASE Next
    BY <2>1, <2>2, DueOthers, DueExport DEF SyncedInv
  <2>3. CASE UNCHANGED vars
    <3>1. \A e : Matches(e)' = Matches(e)
      BY <2>3 DEF vars, request, Matches, Until, Wanted
    <3> QED
      BY <2>1, <2>3, <3>1 DEF vars, tables, request, build, SyncedInv, DueOK
  <2> QED BY <2>2, <2>3
<1>3. SyncedInv => SyncedIncluded
  BY DEF SyncedInv, DueOK, SyncedIncluded, AfterQuery
<1> QED BY <1>1, <1>2, <1>3, PTL DEF Spec

(***************************************************************************)
(* The files next to the database.                                         *)
(***************************************************************************)

\* At most one file is staged, and nothing lies there but it and the archive;
\* after the return, nothing at all.
FilesOK ==
    /\ current = <<>> \/ \E s, l : current = <<[src |-> s, lines |-> l]>>
    /\ temp \subseteq {Archive} \cup Staged
    /\ epc = "returned" => temp = {}

\* What is staged, of none and of one.
LEMMA StagedIs ==
    /\ current = <<>> => Staged = {}
    /\ \A c : current = <<c>> => Staged = {c.src}
BY DEF Staged, Range

\* No step leaves a file of the last source behind.
LEMMA FilesStep ==
    ASSUME FilesOK, [Next]_vars
    PROVE  FilesOK'
<1>1. CASE SameSource
  <2>1. PICK s, l : current = <<[src |-> s, lines |-> l]>>
    BY <1>1, StagedIs DEF SameSource, FilesOK
  <2>2. current' = <<[src |-> s, lines |-> Append(l, Head(result))]>>
    <3> DEFINE c == [src |-> s, lines |-> l]
    <3>1. current[1] = c /\ c.lines = l
      BY <2>1
    <3>2. \A x : [c EXCEPT !.lines = x] = [src |-> s, lines |-> x]
      OBVIOUS
    <3>3. current' = <<[current[1] EXCEPT !.lines = Append(current[1].lines, Head(result))]>>
      BY <1>1 DEF SameSource
    <3> QED BY <3>1, <3>2, <3>3
  <2>3. Staged' = Staged
    BY <2>1, <2>2 DEF Staged, Range
  <2>4. temp' = temp /\ epc' = epc
    BY <1>1 DEF SameSource
  <2> QED BY <2>2, <2>3, <2>4 DEF FilesOK
<1>2. CASE NextSource
  <2>1. /\ current' = <<[src |-> Head(result).src, lines |-> <<Head(result)>>]>>
        /\ temp' = (temp \ Staged) \cup {Head(result).src} /\ epc' = "rows"
    BY <1>2 DEF NextSource, Discarded
  <2>2. Staged' = {Head(result).src}
    BY <2>1 DEF Staged, Range
  <2> QED BY <2>1, <2>2 DEF FilesOK
<1>3. CASE FinishLast
  <2>1. current' = <<>> /\ temp' = temp \ Staged /\ epc' = "gaps"
    BY <1>3 DEF FinishLast, Goes, Discarded
  <2> QED BY <2>1 DEF FilesOK
<1>4. CASE Return
  <2>1. current' = <<>> /\ temp' = temp \ ({Archive} \cup Staged)
    BY <1>4 DEF Return, Deferred
  <2> QED BY <2>1 DEF FilesOK
<1>5. CASE CreateArchive
  <2>1. current' = current /\ temp' = temp \cup {Archive} /\ epc' = "sources"
    BY <1>5 DEF CreateArchive, Goes, build
  <2> QED BY <2>1 DEF FilesOK, Staged
<1>6. CASE Others \/ UNCHANGED vars \/ Begin \/ SyncDone \/ AllSources \/ EachEntry \/ Gaps
  <2>1. UNCHANGED <<current, temp>> /\ (epc' # epc => epc' # "returned")
    BY <1>6, FlushIs DEF Others, Register, Accept, AddGap, Prune, Begin, SyncDone, AllSources,
                EachEntry, Gaps, Goes, build, vars
  <2> QED BY <2>1 DEF FilesOK, Staged
<1> QED BY <1>1, <1>2, <1>3, <1>4, <1>5, <1>6 DEF Next, Steps, Sent, Fail, SyncFails

\* TempGone: however an export ends, what the deferred calls of Export and Build
\* remove is all there is next to the database.
THEOREM NothingStays == Spec => []TempGone
<1>1. Init => FilesOK
  BY DEF Init, FilesOK
<1>2. FilesOK /\ [Next]_vars => FilesOK'
  BY FilesStep
<1>3. FilesOK => TempGone
  BY DEF FilesOK, TempGone
<1> QED BY <1>1, <1>2, <1>3, PTL DEF Spec

(***************************************************************************)
(* The order of the query.                                                 *)
(***************************************************************************)

\* No two entries share an id.
Distinct(S) == \A a, b \in S : a.id = b.id => a = b

\* Each element comes before every later one.
Sorted(t) == \A i, j \in DOMAIN t : i < j => RowBefore(t[i], t[j])

Before(S, x) == {y \in S : RowBefore(y, x)}

\* Source, time and id order entries with different ids, and strictly.
LEMMA RowOrder ==
    /\ \A a \in Entry : ~RowBefore(a, a)
    /\ \A a, b, c \in Entry : RowBefore(a, b) /\ RowBefore(b, c) => RowBefore(a, c)
    /\ \A a, b \in Entry : a.id # b.id => RowBefore(a, b) \/ RowBefore(b, a)
<1>1. \A a \in Entry : a.src \in Nat /\ a.ts \in Nat /\ a.id \in Nat
  <2>1. SourceId \subseteq Nat /\ MaxTime \in Nat /\ MaxEntries \in Nat
    BY ExportAssumption
  <2> SUFFICES ASSUME NEW a \in Entry PROVE a.src \in Nat /\ a.ts \in Nat /\ a.id \in Nat
    OBVIOUS
  <2>2. a.src \in SourceId /\ a.ts \in 1..MaxTime /\ a.id \in 1..MaxEntries
    BY DEF Entry
  <2>3. a.src \in Nat
    BY <2>1, <2>2
  <2>4. a.ts \in Nat
    BY <2>1, <2>2
  <2>5. a.id \in Nat
    BY <2>1, <2>2
  <2> QED BY <2>3, <2>4, <2>5
<1> HIDE DEF Entry
<1> QED BY <1>1 DEF RowBefore

\* How many come before an entry tells its place, and each place is taken.
LEMMA Places ==
    ASSUME NEW S \in SUBSET Entry, IsFiniteSet(S), Distinct(S)
    PROVE  /\ \A x \in S : Cardinality(Before(S, x)) \in 0..(Cardinality(S) - 1)
           /\ \A x, y \in S : RowBefore(x, y)
                 => Cardinality(Before(S, x)) < Cardinality(Before(S, y))
           /\ \A k \in 0..(Cardinality(S) - 1) :
                 \E x \in S : Cardinality(Before(S, x)) = k
<1> DEFINE n     == Cardinality(S)
           place == [x \in S |-> Cardinality(Before(S, x))]
<1>1. n \in Nat
  BY FS_CardinalityType
<1>2. ASSUME NEW x \in S
      PROVE  IsFiniteSet(Before(S, x)) /\ Cardinality(Before(S, x)) \in 0..(n - 1)
  <2>1. Before(S, x) \in SUBSET S /\ x \notin Before(S, x)
    BY RowOrder DEF Before
  <2>2. /\ IsFiniteSet(Before(S, x)) /\ Cardinality(Before(S, x)) <= n
        /\ Cardinality(Before(S, x)) # n
    BY <2>1, FS_Subset
  <2>3. Cardinality(Before(S, x)) \in Nat
    BY <2>2, FS_CardinalityType
  <2> QED BY <1>1, <2>2, <2>3
<1>3. ASSUME NEW x \in S, NEW y \in S, RowBefore(x, y)
      PROVE  Cardinality(Before(S, x)) < Cardinality(Before(S, y))
  <2>1. Before(S, x) \in SUBSET Before(S, y)
    BY <1>3, RowOrder DEF Before
  <2>2. x \in Before(S, y) /\ x \notin Before(S, x)
    BY <1>3, RowOrder DEF Before
  <2>3. /\ Cardinality(Before(S, x)) <= Cardinality(Before(S, y))
        /\ Cardinality(Before(S, x)) # Cardinality(Before(S, y))
    BY <1>2, <2>1, <2>2, FS_Subset
  <2> QED BY <1>1, <1>2, <2>3
<1>4. place \in Injection(S, 0..(n - 1))
  <2>1. place \in [S -> 0..(n - 1)]
    BY <1>2
  <2>2. ASSUME NEW x \in S, NEW y \in S, place[x] = place[y] PROVE x = y
    <3> SUFFICES ASSUME x # y PROVE FALSE
      OBVIOUS
    <3>1. RowBefore(x, y) \/ RowBefore(y, x)
      BY RowOrder DEF Distinct
    <3>2. Cardinality(Before(S, x)) = Cardinality(Before(S, y))
      BY <2>2
    <3>3. Cardinality(Before(S, x)) \in Int /\ Cardinality(Before(S, y)) \in Int
      BY <1>2
    <3> QED BY <1>3, <3>1, <3>2, <3>3
  <2> HIDE DEF place
  <2> QED BY <2>1, <2>2 DEF Injection, IsInjective
<1>5. IsFiniteSet(0..(n - 1)) /\ Cardinality(0..(n - 1)) = n
  BY <1>1, FS_Interval
<1>6. place \in Surjection(S, 0..(n - 1))
  <2> HIDE DEF place
  <2> QED BY <1>4, <1>5, FS_Injection
<1>7. \A k \in 0..(n - 1) : \E x \in S : place[x] = k
  <2> HIDE DEF place
  <2> QED BY <1>6 DEF Surjection
<1> QED BY <1>2, <1>3, <1>7

LEMMA InOrderIs ==
    ASSUME NEW S
    PROVE  InOrder(S) =
             [k \in 1..Cardinality(S) |-> CHOOSE x \in S : Cardinality(Before(S, x)) = k - 1]
BY DEF InOrder, Before

\* InOrder returns each element once, and each before those it precedes.
LEMMA InOrderSorts ==
    ASSUME NEW S \in SUBSET Entry, IsFiniteSet(S), Distinct(S)
    PROVE  /\ InOrder(S) \in Seq(S)
           /\ Len(InOrder(S)) = Cardinality(S)
           /\ Range(InOrder(S)) = S
           /\ Sorted(InOrder(S))
<1> DEFINE n == Cardinality(S)
           t == InOrder(S)
           at(x) == Cardinality(Before(S, x))
<1>1. n \in Nat
  BY FS_CardinalityType
<1>2. ASSUME NEW k \in 1..n PROVE t[k] \in S /\ at(t[k]) = k - 1
  <2>1. k - 1 \in 0..(n - 1)
    BY <1>1
  <2>2. \E x \in S : at(x) = k - 1
    BY <2>1, Places
  <2>3. t[k] = CHOOSE x \in S : at(x) = k - 1
    BY InOrderIs
  <2> HIDE DEF t
  <2> QED BY <2>2, <2>3
<1>3. t \in [1..n -> S]
  <2>1. t = [k \in 1..n |-> CHOOSE x \in S : at(x) = k - 1]
    BY InOrderIs
  <2> HIDE DEF t, n, at
  <2>2. t = [k \in 1..n |-> t[k]]
    BY <2>1
  <2> QED BY <1>2, <2>2
<1> HIDE DEF t
<1>4. t \in Seq(S) /\ Len(t) = n /\ DOMAIN t = 1..n
  BY <1>1, <1>3, SeqDef, LenProperties
<1>5. \A x, y \in S : at(x) = at(y) => x = y
  <2> SUFFICES ASSUME NEW x \in S, NEW y \in S, at(x) = at(y), x # y PROVE FALSE
    OBVIOUS
  <2>1. RowBefore(x, y) \/ RowBefore(y, x)
    BY RowOrder DEF Distinct
  <2>2. at(x) \in Int /\ at(y) \in Int
    BY Places
  <2> QED BY <2>1, <2>2, Places
<1>6. ASSUME NEW x \in S PROVE \E k \in 1..n : t[k] = x
  <2>1. at(x) \in 0..(n - 1)
    BY Places
  <2> HIDE DEF at
  <2>2. at(x) + 1 \in 1..n /\ (at(x) + 1) - 1 = at(x)
    BY <1>1, <2>1
  <2> QED BY <1>2, <1>5, <2>2
<1>7. Range(t) = S
  BY <1>2, <1>4, <1>6 DEF Range
<1>8. ASSUME NEW i \in 1..n, NEW j \in 1..n, i < j PROVE RowBefore(t[i], t[j])
  <2>1. t[i] \in S /\ t[j] \in S /\ at(t[i]) = i - 1 /\ at(t[j]) = j - 1
    BY <1>2
  <2>2. t[i] # t[j] /\ ~(at(t[j]) < at(t[i]))
    BY <1>8, <2>1
  <2>3. RowBefore(t[i], t[j]) \/ RowBefore(t[j], t[i])
    BY <2>1, <2>2, RowOrder DEF Distinct
  <2> QED BY <2>1, <2>2, <2>3, Places
<1> QED BY <1>4, <1>7, <1>8 DEF t, Sorted

\* And it is the only sequence that does.
LEMMA OnlyOneOrder ==
    ASSUME NEW S \in SUBSET Entry, IsFiniteSet(S), Distinct(S),
           NEW t \in Seq(Entry), Range(t) = S, Sorted(t)
    PROVE  t = InOrder(S) /\ Len(t) = Cardinality(S)
<1> DEFINE n == Cardinality(S)
           at(x) == Cardinality(Before(S, x))
<1>1. Len(t) \in Nat /\ DOMAIN t = 1..Len(t) /\ \A k \in 1..Len(t) : t[k] \in S /\ t[k] \in Entry
  BY LenProperties DEF Range
<1>2. \A i, j \in 1..Len(t) : (i < j <=> RowBefore(t[i], t[j])) /\ (t[i] = t[j] => i = j)
  <2> SUFFICES ASSUME NEW i \in 1..Len(t), NEW j \in 1..Len(t)
               PROVE (i < j <=> RowBefore(t[i], t[j])) /\ (t[i] = t[j] => i = j)
    OBVIOUS
  <2>1. /\ i < j => RowBefore(t[i], t[j])
        /\ j < i => RowBefore(t[j], t[i])
    BY <1>1 DEF Sorted
  <2>2. ~RowBefore(t[i], t[i]) /\ ~(RowBefore(t[i], t[j]) /\ RowBefore(t[j], t[i]))
    BY <1>1, RowOrder
  <2> QED BY <1>1, <2>1, <2>2
<1>3. ASSUME NEW k \in 0..Len(t)
      PROVE  Cardinality({t[i] : i \in 1..k}) = k
  <2> DEFINE P == {t[i] : i \in 1..k}
             f == [i \in 1..k |-> t[i]]
  <2>1. k \in Int /\ IsFiniteSet(1..k) /\ Cardinality(1..k) = k
    BY FS_Interval
  <2>2. \A i, j \in 1..k : t[i] = t[j] => i = j
    BY <1>1, <1>2
  <2>3. f \in [1..k -> P] /\ \A i \in 1..k : f[i] = t[i]
    OBVIOUS
  <2>4. \A x \in P : \E i \in 1..k : f[i] = x
    BY <2>3
  <2> HIDE DEF f, P
  <2>5. f \in Bijection(1..k, P)
    BY <2>2, <2>3, <2>4 DEF Bijection, Injection, Surjection, IsInjective
  <2>6. Cardinality(P) = Cardinality(1..k)
    BY <2>1, <2>5, FS_Bijection DEF ExistsBijection
  <2> QED BY <2>1, <2>6 DEF P
<1>4. n = Len(t)
  <2>1. S = {t[i] : i \in 1..Len(t)}
    BY <1>1 DEF Range
  <2>2. Len(t) \in 0..Len(t)
    BY <1>1
  <2> QED BY <1>3, <2>1, <2>2
<1>5. ASSUME NEW k \in 1..n PROVE t[k] \in S /\ at(t[k]) = k - 1
  <2>1. k - 1 \in 0..Len(t) /\ k \in 1..Len(t)
    BY <1>1, <1>4
  <2>2. Before(S, t[k]) = {t[i] : i \in 1..(k - 1)}
    <3>1. ASSUME NEW x \in Before(S, t[k]) PROVE x \in {t[i] : i \in 1..(k - 1)}
      <4>1. PICK i \in 1..Len(t) : x = t[i]
        BY <1>1 DEF Before, Range
      <4>2. i < k
        BY <1>2, <2>1, <4>1 DEF Before
      <4>3. i \in 1..(k - 1)
        BY <1>1, <2>1, <4>2
      <4> QED BY <4>1, <4>3
    <3>2. ASSUME NEW i \in 1..(k - 1) PROVE t[i] \in Before(S, t[k])
      <4>1. i \in 1..Len(t) /\ i < k
        BY <1>1, <2>1
      <4> QED BY <1>1, <1>2, <2>1, <4>1 DEF Before
    <3> QED BY <3>1, <3>2
  <2>3. Cardinality({t[i] : i \in 1..(k - 1)}) = k - 1
    BY <1>3, <2>1
  <2> QED BY <1>1, <2>1, <2>2, <2>3
<1>6. ASSUME NEW k \in 1..n PROVE t[k] = CHOOSE x \in S : at(x) = k - 1
  <2>1. \A x \in S : at(x) = k - 1 => x = t[k]
    <3> SUFFICES ASSUME NEW x \in S, at(x) = k - 1, x # t[k] PROVE FALSE
      OBVIOUS
    <3>1. RowBefore(x, t[k]) \/ RowBefore(t[k], x)
      BY <1>5, RowOrder DEF Distinct
    <3>2. at(x) < at(t[k]) \/ at(t[k]) < at(x)
      BY <1>5, <3>1, Places
    <3>3. at(x) = k - 1 /\ at(t[k]) = k - 1 /\ k - 1 \in Int
      BY <1>5
    <3> HIDE DEF at
    <3> QED BY <3>2, <3>3
  <2> HIDE DEF at
  <2> QED BY <1>5, <2>1
<1>7. t = [k \in 1..n |-> t[k]]
  BY <1>1, <1>4
<1>8. t = [k \in 1..n |-> CHOOSE x \in S : at(x) = k - 1]
  <2> HIDE DEF n, at
  <2> QED BY <1>6, <1>7
<1> QED BY <1>4, <1>8, InOrderIs

(***************************************************************************)
(* Shapes.                                                                 *)
(***************************************************************************)

Chars == SafeChars \cup {"_", "-", ".log"}
Stage == [src : SourceId, lines : Seq(Entry)]

\* What the manifest says of a source.
Said == [name : {NameOf[i] : i \in SourceId} \cup {Nameless},
         entries : Nat, oldest : Nat, newest : Nat, gaps : SUBSET Gap]

\* The tables and the batch: finite, and with an id for each entry of its own.
StoreOK ==
    /\ registered \subseteq SourceId
    /\ rows \subseteq Entry /\ pending \subseteq Entry
    /\ pruned \subseteq Entry /\ swallowed \subseteq Entry
    /\ gaps \subseteq Gap /\ accepted \in 0..MaxEntries /\ gapCount \in 0..MaxGaps
    /\ IsFiniteSet(rows) /\ IsFiniteSet(pending) /\ Distinct(rows \cup pending)
    /\ \A e \in rows \cup pending : e.id <= accepted

\* What Build holds; snapshot is a part of a table.
BuildOK ==
    /\ sources \subseteq registered
    /\ epc \in {"idle", "sync", "archive", "sources", "query", "rows", "gaps", "send", "returned"}
    /\ due \subseteq Entry /\ snapshot \subseteq Entry
    /\ IsFiniteSet(snapshot) /\ Distinct(snapshot)
    /\ result \in Seq(Entry)
    /\ current = <<>> \/ \E c \in Stage : current = <<c>>
    /\ members \in Seq(File)
    /\ manifest \in [DOMAIN manifest -> Said]

\* Bounds, in the form the arithmetic needs.
LEMMA Bounds == /\ SourceId \subseteq Nat
                /\ MaxTime \in Nat /\ MaxEntries \in Nat /\ MaxGaps \in Nat
BY ExportAssumption

\* The fields of an entry, without its other shapes.
LEMMA EntryFields == \A e \in Entry : e.src \in SourceId /\ e.src \in Nat /\ e.ts \in Nat
<1> SUFFICES ASSUME NEW e \in Entry PROVE e.src \in SourceId /\ e.src \in Nat /\ e.ts \in Nat
  OBVIOUS
<1>1. e.src \in SourceId /\ e.ts \in 1..MaxTime
  BY DEF Entry
<1>2. e.ts \in Nat
  BY <1>1, Bounds
<1> QED BY <1>1, <1>2, Bounds

\* The rest of the collector keeps the tables in shape.
LEMMA StoreStep ==
    ASSUME StoreOK, [Next]_vars
    PROVE  StoreOK'
<1>1. CASE UNCHANGED tables
  BY <1>1 DEF tables, StoreOK
<1>2. ASSUME NEW i \in SourceId, Register(i) PROVE StoreOK'
  BY <1>2 DEF Register, StoreOK
<1>3. ASSUME NEW i \in SourceId, NEW t \in 1..MaxTime, NEW c \in Categories, Accept(i, t, c)
      PROVE  StoreOK'
  <2> DEFINE new == [id |-> accepted', src |-> i, ts |-> t, cat |-> c]
  <2>1. /\ accepted' = accepted + 1 /\ accepted < MaxEntries
        /\ pending' = pending \cup {new}
        /\ UNCHANGED <<registered, rows, gaps, gapCount, pruned, swallowed>>
    BY <1>3 DEF Accept
  <2>2. accepted \in Nat /\ accepted' \in 1..MaxEntries /\ accepted' \in 0..MaxEntries
    BY <2>1, Bounds DEF StoreOK
  <2>3. new \in Entry /\ new.id = accepted + 1
    BY <2>1, <2>2 DEF Entry
  <2> HIDE DEF new
  <2>4. IsFiniteSet(pending')
    BY <2>1, FS_AddElement DEF StoreOK
  <2>5. \A e \in rows \cup pending : e.id \in Nat /\ e.id <= accepted
    <3> SUFFICES ASSUME NEW e \in rows \cup pending PROVE e.id \in Nat /\ e.id <= accepted
      OBVIOUS
    <3>1. e \in Entry /\ e.id <= accepted
      BY DEF StoreOK
    <3>2. e.id \in 1..MaxEntries
      BY <3>1 DEF Entry
    <3> QED BY <3>1, <3>2, Bounds
  <2>6. Distinct(rows' \cup pending')
    BY <2>1, <2>2, <2>3, <2>5 DEF StoreOK, Distinct
  <2>7. \A e \in rows' \cup pending' : e.id <= accepted'
    BY <2>1, <2>2, <2>3, <2>5
  <2> QED BY <2>1, <2>2, <2>3, <2>4, <2>6, <2>7 DEF StoreOK
<1>4. CASE Flush \/ SyncDone \/ SyncFails
  <2>1. /\ pending' \in SUBSET pending /\ rows' \in SUBSET (rows \cup pending)
        /\ swallowed' \subseteq swallowed \cup pending
        /\ UNCHANGED <<registered, gaps, accepted, gapCount, pruned>>
    BY <1>4, FlushIs, SyncMoves
  <2>2. IsFiniteSet(rows \cup pending)
    BY FS_Union DEF StoreOK
  <2>3. IsFiniteSet(rows') /\ IsFiniteSet(pending')
    BY <2>1, <2>2, FS_Subset DEF StoreOK
  <2>4. Distinct(rows' \cup pending')
    BY <2>1 DEF StoreOK, Distinct
  <2> QED BY <2>1, <2>3, <2>4 DEF StoreOK
<1>5. ASSUME NEW i \in SourceId, NEW f \in 1..MaxTime, NEW t \in f..MaxTime, AddGap(i, f, t)
      PROVE  StoreOK'
  <2>1. /\ gapCount' = gapCount + 1 /\ gapCount < MaxGaps
        /\ gaps' = gaps \cup {[id |-> gapCount', src |-> i, from |-> f, to |-> t]}
        /\ UNCHANGED <<registered, rows, pending, accepted, pruned, swallowed>>
    BY <1>5 DEF AddGap
  <2>2. gapCount' \in 1..MaxGaps /\ gapCount' \in 0..MaxGaps
    BY <2>1, Bounds DEF StoreOK
  <2>3. t \in 1..MaxTime
    BY Bounds
  <2>4. gaps' \subseteq Gap
    BY <2>1, <2>2, <2>3 DEF StoreOK, Gap
  <2> QED BY <2>1, <2>2, <2>4 DEF StoreOK
<1>6. ASSUME NEW t \in 2..MaxTime, Prune(t) PROVE StoreOK'
  <2>1. PICK old : /\ old = {r \in rows : r.ts < t} /\ rows' = rows \ old
                   /\ pruned' = pruned \cup old
    BY <1>6 DEF Prune
  <2>2. UNCHANGED <<registered, gaps, pending, accepted, gapCount, swallowed>>
    BY <1>6 DEF Prune
  <2>3. rows' \in SUBSET rows
    BY <2>1
  <2>4. IsFiniteSet(rows')
    BY <2>3, FS_Subset DEF StoreOK
  <2>5. Distinct(rows' \cup pending')
    BY <2>2, <2>3 DEF StoreOK, Distinct
  <2> QED BY <2>1, <2>2, <2>3, <2>4, <2>5 DEF StoreOK
<1> QED BY <1>1, <1>2, <1>3, <1>4, <1>5, <1>6, TablesStay DEF Others, vars

\* A name of a file is made of safe characters and of those FileName adds.
LEMMA NameType ==
    ASSUME sources \subseteq SourceId, NEW i
    PROVE  FileName(KnownName(i)) \in Seq(Chars)
<1>1. KnownName(i).component \in Seq(STRING) /\ KnownName(i).instance \in Seq(STRING)
  <2>1. CASE i \in sources
    <3>1. KnownName(i) = NameOf[i] /\ i \in SourceId
      BY <2>1 DEF KnownName
    <3>2. {NameOf[i].component, NameOf[i].instance} \subseteq Seq(STRING)
      BY <3>1, ExportAssumption
    <3> QED BY <3>1, <3>2
  <2>2. CASE i \notin sources
    BY <2>2 DEF KnownName, Nameless
  <2> QED BY <2>1, <2>2
<1>2. ASSUME NEW s \in Seq(STRING) PROVE Sanitize(s) \in Seq(Chars)
  <2> DEFINE K    == {k \in DOMAIN s : s[k] \in SafeChars \/ k = 1 \/ s[k - 1] \in SafeChars}
             kept == [k \in 1..Cardinality(K) |->
                        CHOOSE j \in K : Cardinality({l \in K : l < j}) = k - 1]
  <2>1. DOMAIN kept = 1..Cardinality(K)
    OBVIOUS
  <2>2. Cardinality(K) \in Nat
    <3>1. Len(s) \in Nat /\ DOMAIN s = 1..Len(s)
      BY LenProperties
    <3>2. K \in SUBSET (1..Len(s)) /\ IsFiniteSet(1..Len(s))
      BY <3>1, FS_Interval
    <3> QED BY <3>2, FS_Subset, FS_CardinalityType
  <2>3. Sanitize(s) = [k \in DOMAIN kept |-> IF s[kept[k]] \in SafeChars THEN s[kept[k]] ELSE "_"]
    BY DEF Sanitize
  <2> HIDE DEF kept, K
  <2>4. Sanitize(s) \in [1..Cardinality(K) -> Chars]
    BY <2>1, <2>3 DEF Chars
  <2> QED BY <2>2, <2>4, SeqDef
<1>3. <<"-">> \in Seq(Chars) /\ <<".log">> \in Seq(Chars) /\ <<>> \in Seq(Chars)
  BY DEF Chars
<1> DEFINE a == Sanitize(KnownName(i).component)
           b == Sanitize(KnownName(i).instance)
           m == IF KnownName(i).instance = <<>> THEN <<>> ELSE <<"-">> \o b
<1>4. a \in Seq(Chars) /\ b \in Seq(Chars)
  BY <1>1, <1>2
<1>5. FileName(KnownName(i)) = (a \o m) \o <<".log">>
  BY DEF FileName
<1> HIDE DEF a, b, Chars
<1>6. m \in Seq(Chars)
  BY <1>3, <1>4
<1> HIDE DEF m
<1> QED BY <1>3, <1>4, <1>5, <1>6

FileOf(c) == [name |-> FileName(KnownName(c.src)), src |-> c.src, lines |-> c.lines]

\* What is staged goes to the end of the archive.
LEMMA FinishedIs ==
    ASSUME sources \subseteq SourceId, NEW m \in Seq(File)
    PROVE  /\ current = <<>> => Finished(m) = m
           /\ \A c \in Stage : current = <<c>> =>
                FileOf(c) \in File /\ Finished(m) = Append(m, FileOf(c))
<1>1. CASE current = <<>>
  <2>1. [k \in DOMAIN current |->
           [name |-> FileName(KnownName(current[k].src)),
            src |-> current[k].src, lines |-> current[k].lines]] = <<>>
    BY <1>1
  <2> QED BY <1>1, <2>1 DEF Finished
<1>2. ASSUME NEW c \in Stage, current = <<c>>
      PROVE  FileOf(c) \in File /\ Finished(m) = Append(m, FileOf(c))
  <2> DEFINE g == [k \in DOMAIN current |->
                     [name |-> FileName(KnownName(current[k].src)),
                      src |-> current[k].src, lines |-> current[k].lines]]
  <2>1. DOMAIN current = 1..1 /\ current[1] = c
    BY <1>2
  <2>2. g = [k \in 1..1 |-> FileOf(c)]
    BY <2>1 DEF FileOf
  <2>3. g = <<FileOf(c)>>
    BY <2>2
  <2>4. Finished(m) = m \o g
    BY DEF Finished
  <2>5. FileOf(c) \in File
    BY NameType DEF FileOf, File, Stage, Chars
  <2> HIDE DEF g
  <2>6. m \o <<FileOf(c)>> = Append(m, FileOf(c))
    BY <2>5
  <2> QED BY <2>3, <2>4, <2>5, <2>6
<1> QED BY <1>1, <1>2

LEMMA FinishedType ==
    ASSUME sources \subseteq SourceId, BuildOK
    PROVE  Finished(members) \in Seq(File)
<1>1. members \in Seq(File)
  BY DEF BuildOK
<1>2. CASE current = <<>>
  BY <1>1, <1>2, FinishedIs
<1>3. ASSUME NEW c \in Stage, current = <<c>> PROVE Finished(members) \in Seq(File)
  <2>1. FileOf(c) \in File /\ Finished(members) = Append(members, FileOf(c))
    BY <1>1, <1>3, FinishedIs
  <2> QED BY <1>1, <2>1
<1> QED BY <1>2, <1>3 DEF BuildOK

\* A row appended to what is staged.
LEMMA MoreStaged ==
    ASSUME NEW c \in Stage, NEW e \in Entry
    PROVE  /\ [c EXCEPT !.lines = Append(@, e)] \in Stage
           /\ [c EXCEPT !.lines = Append(@, e)].src = c.src
           /\ [c EXCEPT !.lines = Append(@, e)].lines = Append(c.lines, e)
<1>1. c.lines \in Seq(Entry) /\ c.src \in SourceId
      /\ c = [src |-> c.src, lines |-> c.lines]
  BY DEF Stage
<1>2. Append(c.lines, e) \in Seq(Entry)
  BY <1>1
<1>3. [c EXCEPT !.lines = Append(@, e)] = [src |-> c.src, lines |-> Append(c.lines, e)]
  BY <1>1
<1> QED BY <1>1, <1>2, <1>3 DEF Stage

\* A row counted.
LEMMA MoreSaid ==
    ASSUME NEW m \in Said, NEW t \in Nat
    PROVE  LET n == [[m EXCEPT !.entries = @ + 1] EXCEPT !.newest = t]
           IN  n \in Said /\ n.entries = m.entries + 1 /\ n.newest = t /\ n.oldest = m.oldest
<1>1. /\ m = [name |-> m.name, entries |-> m.entries, oldest |-> m.oldest,
              newest |-> m.newest, gaps |-> m.gaps]
      /\ m.entries \in Nat /\ m.oldest \in Nat /\ m.gaps \in SUBSET Gap
      /\ m.name \in {NameOf[i] : i \in SourceId} \cup {Nameless}
  BY DEF Said
<1> DEFINE rec(n, a, b, c, g) == [name |-> n, entries |-> a, oldest |-> b, newest |-> c, gaps |-> g]
<1>2. [[m EXCEPT !.entries = @ + 1] EXCEPT !.newest = t]
        = rec(m.name, m.entries + 1, m.oldest, t, m.gaps)
  <2>1. \A n, a, b, c, g, x : [rec(n, a, b, c, g) EXCEPT !.entries = x] = rec(n, x, b, c, g)
    OBVIOUS
  <2>2. \A n, a, b, c, g, x : [rec(n, a, b, c, g) EXCEPT !.newest = x] = rec(n, a, b, x, g)
    OBVIOUS
  <2>3. m = rec(m.name, m.entries, m.oldest, m.newest, m.gaps)
    BY <1>1
  <2> HIDE DEF rec
  <2>4. [m EXCEPT !.entries = m.entries + 1]
          = rec(m.name, m.entries + 1, m.oldest, m.newest, m.gaps)
    BY <2>1, <2>3
  <2>5. [rec(m.name, m.entries + 1, m.oldest, m.newest, m.gaps) EXCEPT !.newest = t]
          = rec(m.name, m.entries + 1, m.oldest, t, m.gaps)
    BY <2>2
  <2>6. [m EXCEPT !.entries = @ + 1] = [m EXCEPT !.entries = m.entries + 1]
    OBVIOUS
  <2> QED BY <2>4, <2>5, <2>6
<1>3. m.entries + 1 \in Nat
  BY <1>1
<1> QED BY <1>1, <1>2, <1>3 DEF Said

\* Build keeps what it holds in shape.
LEMMA BuildStep ==
    ASSUME StoreOK, BuildOK, [Next]_vars
    PROVE  BuildOK'
<1>1. sources \subseteq SourceId
  BY DEF StoreOK, BuildOK
<1>2. CASE Others \/ UNCHANGED vars
  <2>1. registered \subseteq registered' /\ UNCHANGED <<epc, request, build>>
    BY <1>2, FlushIs DEF Others, Register, Accept, AddGap, Prune, vars, tables
  <2> QED BY <2>1 DEF request, build, BuildOK, Distinct
<1>3. CASE Begin
  <2>1. /\ epc' = "sync" /\ due' = rows \cup pending
        /\ UNCHANGED <<registered, build>>
    BY <1>3 DEF Begin, Goes, tables
  <2> QED BY <2>1 DEF build, BuildOK, StoreOK, Distinct
<1>4. CASE SyncDone \/ CreateArchive
  <2>1. /\ epc' \in {"archive", "sources"} /\ UNCHANGED <<registered, request, build>>
    BY <1>4 DEF SyncDone, CreateArchive, Goes, tables
  <2> QED BY <2>1 DEF build, request, BuildOK, Distinct
<1>5. CASE AllSources
  <2>1. /\ epc' = "query" /\ sources' = registered
        /\ UNCHANGED <<registered, due, result, snapshot, current, members, manifest>>
    BY <1>5 DEF AllSources, Goes, tables, request
  <2> QED BY <2>1 DEF BuildOK, Distinct
<1>6. CASE EachEntry
  <2>1. /\ epc' = "rows" /\ snapshot' = {r \in rows : Matches(r)}
        /\ result' = InOrder(snapshot')
        /\ UNCHANGED <<registered, due, sources, current, members, manifest>>
    BY <1>6 DEF EachEntry, Goes, tables, request
  <2>2. snapshot' \in SUBSET rows
    BY <2>1
  <2>3. snapshot' \subseteq Entry /\ IsFiniteSet(snapshot') /\ Distinct(snapshot')
    BY <2>2, FS_Subset DEF StoreOK, Distinct
  <2>4. result' \in Seq(snapshot')
    <3> DEFINE S == snapshot'
    <3>1. S \in SUBSET Entry /\ IsFiniteSet(S) /\ Distinct(S)
      BY <2>3
    <3> HIDE DEF S
    <3>2. InOrder(S) \in Seq(S)
      BY <3>1, InOrderSorts
    <3> QED BY <2>1, <3>2 DEF S
  <2>5. result' \in Seq(Entry)
    BY <2>3, <2>4
  <2> QED BY <2>1, <2>3, <2>5 DEF BuildOK
<1>7. CASE SameSource
  <2> DEFINE e == Head(result)
             was == manifest[e.src]
  <2>1. /\ result # <<>> /\ e.src \in Staged
        /\ current' = <<[current[1] EXCEPT !.lines = Append(@, e)]>>
        /\ manifest' = [manifest EXCEPT ![e.src].entries = @ + 1, ![e.src].newest = e.ts]
        /\ result' = Tail(result)
        /\ UNCHANGED <<registered, epc, due, sources, snapshot, members>>
    BY <1>7 DEF SameSource, tables, request
  <2>2. e \in Entry /\ result' \in Seq(Entry) /\ e.ts \in Nat
    BY <2>1, EntryFields DEF BuildOK
  <2>3. PICK c \in Stage : current = <<c>>
    BY <2>1, StagedIs DEF BuildOK
  <2>4. current' = <<[c EXCEPT !.lines = Append(@, e)]>>
    BY <2>1, <2>3
  <2> HIDE DEF e
  <2>5. [c EXCEPT !.lines = Append(@, e)] \in Stage
    BY <2>2, MoreStaged
  <2>6. manifest' \in [DOMAIN manifest' -> Said]
    <3>1. DOMAIN manifest' = DOMAIN manifest
      BY <2>1
    <3>2. ASSUME NEW i \in DOMAIN manifest PROVE manifest'[i] \in Said
      <4>1. manifest[i] \in Said
        BY DEF BuildOK
      <4>2. CASE i = e.src
        <5>1. manifest'[i] = [[manifest[i] EXCEPT !.entries = @ + 1] EXCEPT !.newest = e.ts]
          BY <2>1, <4>2
        <5> DEFINE m == manifest[i]
        <5>2. [[m EXCEPT !.entries = @ + 1] EXCEPT !.newest = e.ts] \in Said
          <6> HIDE DEF m
          <6> QED BY <4>1, <2>2, MoreSaid DEF m
        <5> QED BY <5>1, <5>2
      <4>3. CASE i # e.src
        BY <2>1, <4>1, <4>3
      <4> QED BY <4>2, <4>3
    <3>3. manifest' = [i \in DOMAIN manifest' |-> manifest'[i]]
      BY <2>1
    <3> QED BY <3>1, <3>2, <3>3
  <2> QED BY <2>1, <2>2, <2>4, <2>5, <2>6 DEF BuildOK, Distinct
<1>8. CASE NextSource
  <2> DEFINE e == Head(result)
             new == [name |-> KnownName(e.src), entries |-> 1, oldest |-> e.ts,
                     newest |-> e.ts, gaps |-> {}]
  <2>1. /\ result # <<>> /\ members' = Finished(members)
        /\ current' = <<[src |-> e.src, lines |-> <<e>>]>>
        /\ manifest' = [i \in DOMAIN manifest \cup {e.src} |->
                           IF i # e.src THEN manifest[i] ELSE new]
        /\ result' = Tail(result)
        /\ UNCHANGED <<registered, epc, due, sources, snapshot>>
    BY <1>8 DEF NextSource, tables, request
  <2>2. /\ e \in Entry /\ result' \in Seq(Entry) /\ e.ts \in Nat /\ e.src \in SourceId
    BY <2>1, EntryFields DEF BuildOK
  <2>3. members' \in Seq(File)
    BY <1>1, <2>1, FinishedType
  <2>4. new \in Said
    <3>1. KnownName(e.src) \in {NameOf[i] : i \in SourceId} \cup {Nameless}
      BY <1>1 DEF KnownName
    <3> HIDE DEF e
    <3> QED BY <2>2, <3>1 DEF Said
  <2> HIDE DEF new
  <2>5. manifest' \in [DOMAIN manifest' -> Said]
    BY <2>1, <2>4 DEF BuildOK
  <2> HIDE DEF e
  <2>6. [src |-> e.src, lines |-> <<e>>] \in Stage
    BY <2>2 DEF Stage
  <2> QED BY <2>1, <2>2, <2>3, <2>5, <2>6 DEF BuildOK, Distinct
<1>9. CASE FinishLast
  <2>1. /\ epc' = "gaps" /\ members' = Finished(members) /\ current' = <<>>
        /\ UNCHANGED <<registered, due, sources, snapshot, result, manifest>>
    BY <1>9 DEF FinishLast, Goes, tables, request
  <2>2. members' \in Seq(File)
    BY <1>1, <2>1, FinishedType
  <2> QED BY <2>1, <2>2 DEF BuildOK, Distinct
<1>10. CASE Gaps
  <2> DEFINE found == {g \in gaps : GapMatches(g)}
             with  == {g.src : g \in found}
             mine(i) == {g \in found : g.src = i}
             new(i) == [name |-> KnownName(i), entries |-> 0, oldest |-> 0, newest |-> 0,
                        gaps |-> mine(i)]
  <2>1. /\ epc' = "send"
        /\ manifest' = [i \in DOMAIN manifest \cup with |->
                           IF i \in DOMAIN manifest THEN [manifest[i] EXCEPT !.gaps = mine(i)]
                           ELSE new(i)]
        /\ UNCHANGED <<registered, due, sources, snapshot, result, current, members>>
    BY <1>10 DEF Gaps, Goes, tables, request
  <2>2. \A i : mine(i) \in SUBSET Gap
    BY DEF StoreOK
  <2> HIDE DEF mine
  <2>3. ASSUME NEW i PROVE new(i) \in Said
    <3>1. KnownName(i) \in {NameOf[j] : j \in SourceId} \cup {Nameless}
      BY <1>1 DEF KnownName
    <3> QED BY <2>2, <3>1 DEF Said
  <2>4. ASSUME NEW i \in DOMAIN manifest PROVE [manifest[i] EXCEPT !.gaps = mine(i)] \in Said
    <3>1. manifest[i] \in Said
      BY DEF BuildOK
    <3> QED BY <2>2, <3>1 DEF Said
  <2> HIDE DEF new, with
  <2>5. manifest' \in [DOMAIN manifest' -> Said]
    BY <2>1, <2>3, <2>4
  <2> QED BY <2>1, <2>5 DEF BuildOK, Distinct
<1>11. CASE Return
  <2>1. /\ epc' = "returned" /\ current' = <<>> /\ due' = {} /\ sources' = {}
        /\ snapshot' = {} /\ result' = <<>> /\ members' = <<>> /\ manifest' = <<>>
    BY <1>11 DEF Return
  <2>2. manifest' \in [DOMAIN manifest' -> Said]
    BY <2>1
  <2> HIDE DEF Said
  <2> QED BY <2>1, <2>2, FS_EmptySet DEF BuildOK, Distinct
<1> QED BY <1>2, <1>3, <1>4, <1>5, <1>6, <1>7, <1>8, <1>9, <1>10, <1>11
        DEF Next, Steps, Sent, Fail, SyncFails

(***************************************************************************)
(* The archive and the rows of the query.                                  *)
(***************************************************************************)

\* The rows handed to the callback so far.
Given == snapshot \ Range(result)

\* What is in the archive, and that with what is staged.
Closed == {[src |-> members[k].src, lines |-> members[k].lines] : k \in DOMAIN members}
Files  == Closed \cup Range(current)

\* A file has the rows of its source that were handed over, in their order ...
FileOK(f) ==
    /\ f.lines # <<>> /\ Sorted(f.lines)
    /\ Range(f.lines) = {r \in Given : r.src = f.src}

\* ... and the manifest says so.
SaidOK(f) ==
    /\ f.src \in DOMAIN manifest
    /\ manifest[f.src].entries = Len(f.lines)
    /\ manifest[f.src].oldest = f.lines[1].ts
    /\ manifest[f.src].newest = f.lines[Len(f.lines)].ts

\* The rows still to come are in order and behind those handed over.
ResultOK ==
    /\ Sorted(result) /\ Range(result) \subseteq snapshot
    /\ \A x \in Given, y \in Range(result) : RowBefore(x, y)

\* No file in the archive shares its source with another, with the staged one or
\* with a row to come.
ApartOK ==
    /\ \A j, k \in DOMAIN members : members[j].src = members[k].src => j = k
    /\ \A f \in Closed : f.src \notin Staged /\ \A y \in Range(result) : f.src # y.src

\* Nothing else is in the archive or in the manifest.
AllOK ==
    /\ \A r \in Given : \E f \in Files : f.src = r.src
    /\ \A i \in DOMAIN manifest : manifest[i].entries # 0 => \E f \in Files : f.src = i

ArchiveInv ==
    /\ epc \in {"idle", "sync", "archive", "sources", "query"}
         => members = <<>> /\ current = <<>> /\ manifest = <<>>
    /\ epc \in AfterQuery
         => ResultOK /\ (\A f \in Files : FileOK(f) /\ SaidOK(f)) /\ ApartOK /\ AllOK
    /\ epc \in {"gaps", "send"} => result = <<>> /\ current = <<>>

\* What the steps change, in the words of ArchiveInv.
LEMMA FilesSame ==
    ASSUME UNCHANGED <<snapshot, result, current, members, manifest>>
    PROVE  /\ Given' = Given /\ Closed' = Closed /\ Files' = Files /\ Staged' = Staged
           /\ ResultOK' = ResultOK /\ ApartOK' = ApartOK /\ AllOK' = AllOK
           /\ \A f : FileOK(f)' = FileOK(f) /\ SaidOK(f)' = SaidOK(f)
BY DEF Given, Closed, Files, Staged, ResultOK, ApartOK, AllOK, FileOK, SaidOK

\* What the archive holds after the staged file went into it.
LEMMA ClosedThen ==
    ASSUME sources \subseteq SourceId, BuildOK, ApartOK, members' = Finished(members)
    PROVE  /\ Closed' = Files
           /\ \A j, k \in DOMAIN members' : members'[j].src = members'[k].src => j = k
<1>1. members \in Seq(File)
  BY DEF BuildOK
<1>2. CASE current = <<>>
  <2>1. members' = members /\ Range(current) = {}
    BY <1>1, <1>2, FinishedIs DEF Range
  <2> QED BY <2>1 DEF Closed, Files, ApartOK
<1>3. ASSUME NEW c \in Stage, current = <<c>>
      PROVE  /\ Closed' = Files
             /\ \A j, k \in DOMAIN members' : members'[j].src = members'[k].src => j = k
  <2>1. FileOf(c) \in File /\ members' = Append(members, FileOf(c))
    BY <1>1, <1>3, FinishedIs
  <2>2. /\ Len(members) \in Nat /\ DOMAIN members = 1..Len(members)
        /\ DOMAIN members' = 1..(Len(members) + 1)
        /\ \A k \in 1..Len(members) : members'[k] = members[k]
        /\ members'[Len(members) + 1] = FileOf(c)
    BY <1>1, <2>1, AppendProperties, LenProperties
  <2>3. FileOf(c).src = c.src /\ FileOf(c).lines = c.lines
        /\ c = [src |-> c.src, lines |-> c.lines]
    BY DEF FileOf, Stage
  <2>4. Range(current) = {c} /\ Staged = {c.src}
    BY <1>3, StagedIs DEF Range
  <2> DEFINE file(k) == [src |-> members[k].src, lines |-> members[k].lines]
  <2>5. Closed' = {file(k) : k \in 1..Len(members)} \cup {c}
    <3>1. \A k \in 1..Len(members) : [src |-> members'[k].src, lines |-> members'[k].lines] = file(k)
      BY <2>2
    <3>2. [src |-> members'[Len(members) + 1].src, lines |-> members'[Len(members) + 1].lines] = c
      BY <2>2, <2>3
    <3>3. Closed' = {[src |-> members'[k].src, lines |-> members'[k].lines] :
                       k \in 1..(Len(members) + 1)}
      BY <2>2 DEF Closed
    <3>4. 1..(Len(members) + 1) = 1..Len(members) \cup {Len(members) + 1}
      BY <2>2
    <3> HIDE DEF file
    <3> QED BY <3>1, <3>2, <3>3, <3>4
  <2>6. Closed' = Files
    BY <2>2, <2>4, <2>5 DEF Closed, Files
  <2>7. \A k \in 1..Len(members) : members[k].src # c.src
    <3> SUFFICES ASSUME NEW k \in 1..Len(members) PROVE members[k].src # c.src
      OBVIOUS
    <3>1. file(k) \in Closed /\ file(k).src = members[k].src
      BY <2>2 DEF Closed
    <3> HIDE DEF file
    <3> QED BY <3>1, <2>4 DEF ApartOK
  <2>8. ASSUME NEW j \in 1..(Len(members) + 1), NEW k \in 1..(Len(members) + 1),
               members'[j].src = members'[k].src
        PROVE  j = k
    <3>1. CASE j \in 1..Len(members) /\ k \in 1..Len(members)
      BY <2>2, <2>8, <3>1 DEF ApartOK
    <3>2. CASE j = Len(members) + 1 /\ k \in 1..Len(members)
      BY <2>2, <2>3, <2>7, <2>8, <3>2
    <3>3. CASE k = Len(members) + 1 /\ j \in 1..Len(members)
      BY <2>2, <2>3, <2>7, <2>8, <3>3
    <3>4. \/ j \in 1..Len(members) /\ k \in 1..Len(members)
          \/ j = Len(members) + 1 /\ k \in 1..Len(members)
          \/ k = Len(members) + 1 /\ j \in 1..Len(members)
          \/ j = Len(members) + 1 /\ k = Len(members) + 1
      BY <2>2
    <3> QED BY <3>1, <3>2, <3>3, <3>4
  <2> QED BY <2>2, <2>6, <2>8
<1> QED BY <1>2, <1>3 DEF BuildOK

\* The first of the rows to come is handed over.
LEMMA RowTaken ==
    ASSUME BuildOK, ResultOK, result # <<>>, result' = Tail(result), snapshot' = snapshot
    PROVE  /\ Head(result) \in Entry /\ Head(result) \in Range(result)
           /\ Given' = Given \cup {Head(result)} /\ Head(result) \notin Given
           /\ Range(result') \subseteq Range(result)
           /\ \A x \in Given : RowBefore(x, Head(result))
           /\ \A y \in Range(result') : RowBefore(Head(result), y)
           /\ ResultOK'
<1> DEFINE e == Head(result)
           n == Len(result)
<1>1. /\ e \in Entry /\ result' \in Seq(Entry) /\ Len(result') = n - 1 /\ n \in Nat \ {0}
      /\ e = result[1] /\ \A i \in 1..(n - 1) : result'[i] = result[i + 1]
  BY HeadAndTail DEF BuildOK
<1>2. DOMAIN result = 1..n /\ DOMAIN result' = 1..(n - 1)
  BY <1>1, LenProperties DEF BuildOK
<1>3. Range(result) = {e} \cup Range(result')
  BY RangeOfHeadTail DEF BuildOK
<1>4. \A i \in 1..(n - 1) : i + 1 \in DOMAIN result /\ 1 < i + 1
  BY <1>1, <1>2
<1>5. 1 \in DOMAIN result
  BY <1>1, <1>2
<1> HIDE DEF e
<1>6. ASSUME NEW y \in Range(result') PROVE RowBefore(e, y)
  <2>1. PICK i \in 1..(n - 1) : y = result'[i]
    BY <1>2 DEF Range
  <2>2. y = result[i + 1] /\ i + 1 \in DOMAIN result /\ 1 < i + 1
    BY <1>1, <1>4, <2>1
  <2> QED BY <1>1, <1>5, <2>2 DEF ResultOK, Sorted
<1>7. \A x \in Entry : ~RowBefore(x, x)
  BY RowOrder
<1>8. e \notin Range(result') /\ e \in snapshot
  BY <1>1, <1>3, <1>6, <1>7 DEF ResultOK
<1>9. Given' = Given \cup {e} /\ e \notin Given
  BY <1>3, <1>8 DEF Given
<1>10. \A x \in Given : RowBefore(x, e)
  BY <1>3 DEF ResultOK
<1>11. Sorted(result')
  <2> SUFFICES ASSUME NEW i \in 1..(n - 1), NEW j \in 1..(n - 1), i < j
               PROVE  RowBefore(result'[i], result'[j])
    BY <1>2 DEF Sorted
  <2>1. i + 1 \in DOMAIN result /\ j + 1 \in DOMAIN result /\ i + 1 < j + 1
    BY <1>4
  <2>2. result'[i] = result[i + 1] /\ result'[j] = result[j + 1]
    BY <1>1
  <2> QED BY <2>1, <2>2 DEF ResultOK, Sorted
<1>12. \A x \in Given', y \in Range(result') : RowBefore(x, y)
  BY <1>3, <1>6, <1>9 DEF ResultOK
<1>13. ResultOK'
  BY <1>3, <1>11, <1>12 DEF ResultOK
<1> QED BY <1>1, <1>3, <1>6, <1>9, <1>10, <1>13 DEF e

\* A row that belongs behind all of a sorted sequence.
LEMMA SortedAppend ==
    ASSUME NEW t \in Seq(Entry), NEW e \in Entry, Sorted(t), \A x \in Range(t) : RowBefore(x, e)
    PROVE  Sorted(Append(t, e))
<1>1. /\ Len(t) \in Nat /\ DOMAIN t = 1..Len(t) /\ DOMAIN Append(t, e) = 1..(Len(t) + 1)
      /\ \A k \in 1..Len(t) : Append(t, e)[k] = t[k]
      /\ Append(t, e)[Len(t) + 1] = e
  BY AppendProperties, LenProperties
<1>2. \A k \in 1..Len(t) : t[k] \in Range(t)
  BY <1>1 DEF Range
<1> SUFFICES ASSUME NEW i \in 1..(Len(t) + 1), NEW j \in 1..(Len(t) + 1), i < j
             PROVE  RowBefore(Append(t, e)[i], Append(t, e)[j])
  BY <1>1 DEF Sorted
<1>3. i \in 1..Len(t) /\ (j \in 1..Len(t) \/ j = Len(t) + 1)
  BY <1>1
<1>4. CASE j \in 1..Len(t)
  BY <1>1, <1>3, <1>4 DEF Sorted
<1>5. CASE j = Len(t) + 1
  BY <1>1, <1>2, <1>3, <1>5
<1> QED BY <1>3, <1>4, <1>5

\* The callback appends to the staged file.
LEMMA ArchiveSameSource ==
    ASSUME BuildOK, ArchiveInv, SameSource
    PROVE  ArchiveInv'
<1> DEFINE e == Head(result)
<1>1. /\ epc = "rows" /\ epc' = "rows" /\ result # <<>> /\ e.src \in Staged
      /\ current' = <<[current[1] EXCEPT !.lines = Append(@, e)]>>
      /\ manifest' = [manifest EXCEPT ![e.src].entries = @ + 1, ![e.src].newest = e.ts]
      /\ result' = Tail(result) /\ UNCHANGED <<snapshot, members>>
  BY DEF SameSource
<1>2. ResultOK /\ (\A f \in Files : FileOK(f) /\ SaidOK(f)) /\ ApartOK /\ AllOK
  BY <1>1 DEF ArchiveInv, AfterQuery
<1>3. /\ e \in Entry /\ e \in Range(result) /\ Given' = Given \cup {e} /\ e \notin Given
      /\ Range(result') \subseteq Range(result) /\ ResultOK'
      /\ \A x \in Given : RowBefore(x, e)
  BY <1>1, <1>2, RowTaken
<1>4. PICK c \in Stage : current = <<c>>
  BY <1>1, StagedIs DEF BuildOK
<1>d. PICK d : d = [c EXCEPT !.lines = Append(@, e)]
  OBVIOUS
<1>5. current' = <<d>> /\ Range(current) = {c} /\ Range(current') = {d}
  <2>1. \A x : Range(<<x>>) = {x}
    BY DEF Range
  <2>2. current' = <<d>>
    BY <1>1, <1>4, <1>d
  <2> QED BY <1>4, <2>1, <2>2
<1>6. Staged = {c.src} /\ e.src = c.src /\ Closed' = Closed
  BY <1>1, <1>4, StagedIs DEF Closed
<1> HIDE DEF e
<1>7. d \in Stage /\ d.src = c.src /\ d.lines = Append(c.lines, e)
  BY <1>3, <1>d, MoreStaged
<1>8. Staged' = {c.src}
  <2>1. current' = <<d>> => Staged' = {d.src}
    BY DEF Staged, Range
  <2> QED BY <2>1, <1>5, <1>7
<1>9. Files = Closed \cup {c} /\ Files' = Closed \cup {d}
  BY <1>5, <1>6 DEF Files
<1>10. FileOK(c) /\ SaidOK(c) /\ c.lines \in Seq(Entry)
  BY <1>2, <1>9 DEF Stage
<1>11. FileOK(d)'
  <2>1. d.lines # <<>>
    BY <1>3, <1>7, <1>10
  <2>2. Range(d.lines) = Range(c.lines) \cup {e}
    BY <1>3, <1>7, <1>10, RangeOfAppend
  <2>3. Range(c.lines) = {r \in Given : r.src = c.src}
    BY <1>10 DEF FileOK
  <2>4. Range(d.lines) = {r \in Given' : r.src = d.src}
    BY <1>3, <1>6, <1>7, <2>2, <2>3
  <2>5. Sorted(c.lines) /\ \A x \in Range(c.lines) : RowBefore(x, e)
    BY <1>3, <1>10, <2>3 DEF FileOK
  <2>6. Sorted(d.lines)
    BY <1>3, <1>7, <1>10, <2>5, SortedAppend
  <2> QED BY <2>1, <2>4, <2>6 DEF FileOK
<1>12. /\ DOMAIN manifest' = DOMAIN manifest
       /\ \A i \in DOMAIN manifest : i # e.src => manifest'[i] = manifest[i]
       /\ manifest'[e.src] = [[manifest[e.src] EXCEPT !.entries = @ + 1] EXCEPT !.newest = e.ts]
  BY <1>1, <1>6, <1>10 DEF e, SaidOK
<1>13. SaidOK(d)'
  <2>1. manifest[e.src] \in Said /\ e.ts \in Nat
    BY <1>3, <1>6, <1>10, EntryFields DEF SaidOK, BuildOK
  <2>2. /\ manifest'[e.src].entries = manifest[e.src].entries + 1
        /\ manifest'[e.src].newest = e.ts
        /\ manifest'[e.src].oldest = manifest[e.src].oldest
    <3> DEFINE m == manifest[e.src]
    <3>1. /\ [[m EXCEPT !.entries = @ + 1] EXCEPT !.newest = e.ts].entries = m.entries + 1
          /\ [[m EXCEPT !.entries = @ + 1] EXCEPT !.newest = e.ts].newest = e.ts
          /\ [[m EXCEPT !.entries = @ + 1] EXCEPT !.newest = e.ts].oldest = m.oldest
      <4> HIDE DEF m
      <4> QED BY <2>1, MoreSaid DEF m
    <3> QED BY <1>12, <3>1
  <2>3. /\ Len(d.lines) = Len(c.lines) + 1 /\ d.lines[Len(c.lines) + 1] = e
        /\ d.lines[1] = c.lines[1]
    <3>1. Len(c.lines) \in Nat \ {0}
      BY <1>10, EmptySeq, LenProperties DEF FileOK
    <3> QED BY <3>1, <1>3, <1>7, <1>10, AppendProperties
  <2> QED BY <1>6, <1>7, <1>10, <1>12, <2>2, <2>3 DEF SaidOK
<1>14. ASSUME NEW f \in Closed PROVE FileOK(f)' /\ SaidOK(f)'
  <2>1. FileOK(f) /\ SaidOK(f) /\ f.src # e.src
    BY <1>2, <1>6, <1>9 DEF ApartOK
  <2>2. FileOK(f)'
    BY <1>3, <2>1 DEF FileOK
  <2>3. SaidOK(f)'
    BY <1>12, <2>1 DEF SaidOK
  <2> QED BY <2>2, <2>3
<1>15. ApartOK'
  BY <1>1, <1>2, <1>3, <1>6, <1>8 DEF ApartOK
<1>16. AllOK'
  <2>1. ASSUME NEW r \in Given' PROVE \E f \in Files' : f.src = r.src
    BY <1>2, <1>3, <1>6, <1>7, <1>9 DEF AllOK
  <2>2. ASSUME NEW i \in DOMAIN manifest', manifest'[i].entries # 0
        PROVE  \E f \in Files' : f.src = i
    BY <1>2, <1>6, <1>7, <1>9, <1>12, <2>2 DEF AllOK
  <2> QED BY <2>1, <2>2 DEF AllOK
<1> QED BY <1>1, <1>3, <1>9, <1>11, <1>13, <1>14, <1>15, <1>16 DEF ArchiveInv, AfterQuery

\* The callback finishes the staged file and begins the next.
LEMMA ArchiveNextSource ==
    ASSUME sources \subseteq SourceId, BuildOK, ArchiveInv, NextSource
    PROVE  ArchiveInv'
<1>e. PICK e : e = Head(result)
  OBVIOUS
<1>d. PICK d : d = [src |-> e.src, lines |-> <<e>>]
  OBVIOUS
<1> DEFINE new == [name |-> KnownName(e.src), entries |-> 1, oldest |-> e.ts,
                   newest |-> e.ts, gaps |-> {}]
<1>1. /\ epc = "rows" /\ epc' = "rows" /\ result # <<>> /\ e.src \notin Staged
      /\ members' = Finished(members) /\ current' = <<d>>
      /\ manifest' = [i \in DOMAIN manifest \cup {e.src} |->
                        IF i # e.src THEN manifest[i] ELSE new]
      /\ result' = Tail(result) /\ UNCHANGED snapshot
  BY <1>e, <1>d DEF NextSource
<1>2. ResultOK /\ (\A f \in Files : FileOK(f) /\ SaidOK(f)) /\ ApartOK /\ AllOK
  BY <1>1 DEF ArchiveInv, AfterQuery
<1>3. /\ e \in Entry /\ e \in Range(result) /\ Given' = Given \cup {e} /\ e \notin Given
      /\ Range(result') \subseteq Range(result) /\ ResultOK'
      /\ \A x \in Given : RowBefore(x, e)
      /\ \A y \in Range(result') : RowBefore(e, y)
  BY <1>1, <1>2, <1>e, RowTaken
<1>4. new.entries = 1 /\ new.oldest = e.ts /\ new.newest = e.ts
  OBVIOUS
<1>5. d.src = e.src /\ d.lines = <<e>>
  BY <1>d
<1>6. Staged' = {e.src} /\ Range(current') = {d}
  <2>1. current' = <<d>> => Staged' = {d.src} /\ Range(current') = {d}
    BY DEF Staged, Range
  <2> QED BY <1>1, <1>5, <2>1
<1> HIDE DEF new
<1>7. Closed' = Files /\ Files' = Files \cup {d}
      /\ \A j, k \in DOMAIN members' : members'[j].src = members'[k].src => j = k
  BY <1>1, <1>2, <1>6, ClosedThen DEF Files
<1>8. ASSUME NEW f \in Files PROVE f.src # e.src /\ \A y \in Range(result') : f.src # y.src
  <2>1. CASE f \in Closed
    BY <1>2, <1>3, <2>1 DEF ApartOK
  <2>2. CASE f \in Range(current)
    <3>1. PICK c \in Stage : current = <<c>>
      BY <2>2 DEF BuildOK, Range
    <3>2. f = c /\ Staged = {c.src}
      BY <2>2, <3>1, StagedIs DEF Range
    <3>3. f.lines \in Seq(Entry) /\ f.lines # <<>> /\ Range(f.lines) = {r \in Given : r.src = f.src}
      BY <1>2, <3>2 DEF FileOK, Stage
    <3>4. f.lines[1] \in Range(f.lines)
      BY <3>3, EmptySeq, LenProperties, RangeEquality
    <3>5. PICK x \in Given : x.src = f.src
      BY <3>3, <3>4
    <3>6. x \in Entry /\ RowBefore(x, e)
      BY <1>3 DEF BuildOK, Given
    <3>7. f.src \in Nat /\ e.src \in Nat /\ f.src # e.src
      BY <1>1, <1>3, <3>2, <3>5, <3>6, EntryFields
    <3>8. f.src < e.src
      BY <3>5, <3>6, <3>7 DEF RowBefore
    <3>9. ASSUME NEW y \in Range(result') PROVE f.src # y.src
      <4>1. RowBefore(e, y) /\ y \in Entry
        BY <1>2, <1>3 DEF ResultOK, BuildOK
      <4>2. y.src \in Nat /\ e.src <= y.src
        BY <3>7, <4>1, EntryFields DEF RowBefore
      <4> QED BY <3>7, <3>8, <4>2
    <3> QED BY <3>7, <3>9
  <2> QED BY <2>1, <2>2 DEF Files
<1>9. FileOK(d)'
  <2>1. d.lines # <<>> /\ Range(d.lines) = {e}
    BY <1>5 DEF Range
  <2>2. Sorted(d.lines)
    <3>1. DOMAIN d.lines = {1}
      BY <1>5
    <3> QED BY <3>1 DEF Sorted
  <2>3. \A r \in Given : r.src # e.src
    BY <1>2, <1>8 DEF AllOK
  <2>4. {r \in Given' : r.src = d.src} = {e}
    BY <1>3, <1>5, <2>3
  <2> QED BY <2>1, <2>2, <2>4 DEF FileOK
<1>10. SaidOK(d)'
  <2>1. Len(d.lines) = 1 /\ d.lines[1] = e
    BY <1>5
  <2>2. d.src \in DOMAIN manifest' /\ manifest'[d.src] = new
    BY <1>1, <1>5
  <2> QED BY <1>4, <2>1, <2>2 DEF SaidOK
<1>11. ASSUME NEW f \in Files PROVE FileOK(f)' /\ SaidOK(f)'
  <2>1. FileOK(f) /\ SaidOK(f) /\ f.src # e.src
    BY <1>2, <1>8
  <2>2. FileOK(f)'
    BY <1>3, <2>1 DEF FileOK
  <2>3. f.src \in DOMAIN manifest' /\ manifest'[f.src] = manifest[f.src]
    BY <1>1, <2>1 DEF SaidOK
  <2>4. SaidOK(f)'
    BY <2>1, <2>3 DEF SaidOK
  <2> QED BY <2>2, <2>4
<1>12. ApartOK'
  BY <1>6, <1>7, <1>8 DEF ApartOK
<1>13. AllOK'
  <2>1. ASSUME NEW r \in Given' PROVE \E f \in Files' : f.src = r.src
    BY <1>2, <1>3, <1>5, <1>7 DEF AllOK
  <2>2. ASSUME NEW i \in DOMAIN manifest', manifest'[i].entries # 0
        PROVE  \E f \in Files' : f.src = i
    <3>1. CASE i = e.src
      BY <1>5, <1>7, <3>1
    <3>2. CASE i # e.src
      <4>1. i \in DOMAIN manifest /\ manifest'[i] = manifest[i]
        BY <1>1, <3>2
      <4> QED BY <1>2, <1>7, <2>2, <4>1 DEF AllOK
    <3> QED BY <3>1, <3>2
  <2> QED BY <2>1, <2>2 DEF AllOK
<1> QED BY <1>1, <1>3, <1>7, <1>9, <1>10, <1>11, <1>12, <1>13 DEF ArchiveInv, AfterQuery

\* The last file is finished, and the gaps go into the manifest.
LEMMA ArchiveEnds ==
    ASSUME sources \subseteq SourceId, BuildOK, ArchiveInv, FinishLast \/ Gaps
    PROVE  ArchiveInv'
<1>1. epc \in AfterQuery
  BY DEF FinishLast, Gaps, Goes, AfterQuery
<1>2. ResultOK /\ (\A f \in Files : FileOK(f) /\ SaidOK(f)) /\ ApartOK /\ AllOK
  BY <1>1 DEF ArchiveInv
<1>3. CASE FinishLast
  <2>1. /\ result = <<>> /\ epc' = "gaps" /\ members' = Finished(members) /\ current' = <<>>
        /\ UNCHANGED <<result, snapshot, manifest>>
    BY <1>3 DEF FinishLast, Goes
  <2>2. Closed' = Files /\ \A j, k \in DOMAIN members' : members'[j].src = members'[k].src => j = k
    BY <1>2, <2>1, ClosedThen
  <2>3. Staged' = {} /\ Range(current') = {} /\ Range(result') = {}
    BY <2>1 DEF Staged, Range
  <2>4. Files' = Files /\ Given' = Given
    BY <2>1, <2>2, <2>3 DEF Files, Given
  <2>5. \A f \in Files' : FileOK(f)' /\ SaidOK(f)'
    BY <1>2, <2>1, <2>4 DEF FileOK, SaidOK
  <2>6. ResultOK' /\ ApartOK' /\ AllOK'
    BY <1>2, <2>1, <2>2, <2>3, <2>4 DEF ResultOK, ApartOK, AllOK, Sorted
  <2> QED BY <2>1, <2>5, <2>6 DEF ArchiveInv
<1>4. CASE Gaps
  <2> DEFINE found == {g \in gaps : GapMatches(g)}
             with  == {g.src : g \in found}
             mine(i) == {g \in found : g.src = i}
             new(i) == [name |-> KnownName(i), entries |-> 0, oldest |-> 0, newest |-> 0,
                        gaps |-> mine(i)]
  <2>1. /\ epc = "gaps" /\ epc' = "send"
        /\ manifest' = [i \in DOMAIN manifest \cup with |->
                           IF i \in DOMAIN manifest THEN [manifest[i] EXCEPT !.gaps = mine(i)]
                           ELSE new(i)]
        /\ UNCHANGED <<snapshot, result, current, members>>
    BY <1>4 DEF Gaps, Goes
  <2>2. result = <<>> /\ current = <<>>
    BY <2>1 DEF ArchiveInv
  <2>3. \A i : new(i).entries = 0
    OBVIOUS
  <2> HIDE DEF with, mine, new
  <2>4. /\ DOMAIN manifest \subseteq DOMAIN manifest'
        /\ \A i \in DOMAIN manifest' \ DOMAIN manifest : manifest'[i] = new(i)
        /\ \A i \in DOMAIN manifest : manifest'[i] = [manifest[i] EXCEPT !.gaps = mine(i)]
    BY <2>1
  <2>5. ASSUME NEW i \in DOMAIN manifest
        PROVE  /\ manifest'[i].entries = manifest[i].entries
               /\ manifest'[i].oldest = manifest[i].oldest
               /\ manifest'[i].newest = manifest[i].newest
    <3>1. manifest[i] \in Said
      BY DEF BuildOK
    <3>2. \A m \in Said : \A x : /\ [m EXCEPT !.gaps = x].entries = m.entries
                                 /\ [m EXCEPT !.gaps = x].oldest = m.oldest
                                 /\ [m EXCEPT !.gaps = x].newest = m.newest
      BY DEF Said
    <3> HIDE DEF Said
    <3>3. /\ [manifest[i] EXCEPT !.gaps = mine(i)].entries = manifest[i].entries
          /\ [manifest[i] EXCEPT !.gaps = mine(i)].oldest = manifest[i].oldest
          /\ [manifest[i] EXCEPT !.gaps = mine(i)].newest = manifest[i].newest
      BY <3>1, <3>2
    <3> QED BY <2>4, <3>3
  <2>6. Given' = Given /\ Closed' = Closed /\ Files' = Files /\ Staged' = Staged
        /\ ResultOK' /\ ApartOK'
    BY <1>2, <2>1 DEF Given, Closed, Files, Staged, ResultOK, ApartOK
  <2>7. \A f \in Files' : FileOK(f)' /\ SaidOK(f)'
    <3> SUFFICES ASSUME NEW f \in Files PROVE FileOK(f)' /\ SaidOK(f)'
      BY <2>6
    <3>1. FileOK(f)'
      BY <1>2, <2>6 DEF FileOK
    <3>2. SaidOK(f)'
      BY <1>2, <2>4, <2>5 DEF SaidOK
    <3> QED BY <3>1, <3>2
  <2>8. AllOK'
    <3>1. ASSUME NEW i \in DOMAIN manifest', manifest'[i].entries # 0
          PROVE  \E f \in Files : f.src = i
      <4>1. i \in DOMAIN manifest
        BY <2>3, <2>4, <3>1
      <4> QED BY <1>2, <2>5, <3>1, <4>1 DEF AllOK
    <3> QED BY <1>2, <2>6, <3>1 DEF AllOK
  <2> QED BY <2>1, <2>2, <2>6, <2>7, <2>8 DEF ArchiveInv
<1> QED BY <1>3, <1>4

\* Every step keeps ArchiveInv.
LEMMA ArchiveStep ==
    ASSUME StoreOK, BuildOK, ArchiveInv, [Next]_vars
    PROVE  ArchiveInv'
<1>1. sources \subseteq SourceId
  BY DEF StoreOK, BuildOK
<1>2. CASE Others \/ UNCHANGED vars
  <2>1. UNCHANGED <<epc, snapshot, result, current, members, manifest>>
    BY <1>2, FlushIs DEF Others, Register, Accept, AddGap, Prune, vars, build
  <2> QED BY <2>1, FilesSame DEF ArchiveInv
<1>3. CASE Begin \/ SyncDone \/ CreateArchive \/ AllSources
  <2>1. /\ epc \in {"idle", "sync", "archive", "sources"}
        /\ epc' \in {"sync", "archive", "sources", "query"}
        /\ UNCHANGED <<current, members, manifest>>
    BY <1>3 DEF Begin, SyncDone, CreateArchive, AllSources, Goes, build
  <2> QED BY <2>1 DEF ArchiveInv, AfterQuery
<1>4. CASE EachEntry
  <2> DEFINE S == snapshot'
  <2>1. /\ epc = "query" /\ epc' = "rows" /\ snapshot' = {r \in rows : Matches(r)}
        /\ result' = InOrder(S) /\ UNCHANGED <<current, members, manifest>>
    BY <1>4 DEF EachEntry, Goes
  <2>2. members = <<>> /\ current = <<>> /\ manifest = <<>>
    BY <2>1 DEF ArchiveInv
  <2>3. S \in SUBSET Entry /\ IsFiniteSet(S) /\ Distinct(S)
    <3>1. S \in SUBSET rows
      BY <2>1
    <3> QED BY <3>1, FS_Subset DEF StoreOK, Distinct
  <2> HIDE DEF S
  <2>4. Range(result') = S /\ Sorted(result')
    BY <2>1, <2>3, InOrderSorts
  <2>5. Given' = {} /\ ResultOK'
    BY <2>4 DEF Given, ResultOK, S
  <2>6. Closed' = {} /\ Files' = {} /\ DOMAIN members' = {} /\ DOMAIN manifest' = {}
    BY <2>1, <2>2 DEF Closed, Files, Range
  <2> QED BY <2>1, <2>5, <2>6 DEF ArchiveInv, ApartOK, AllOK
<1>5. CASE Return
  BY <1>5 DEF Return, ArchiveInv, AfterQuery
<1> QED BY <1>1, <1>2, <1>3, <1>4, <1>5, ArchiveSameSource, ArchiveNextSource, ArchiveEnds
        DEF Next, Steps, Sent, Fail, SyncFails

\* Shapes and archive together.
ExportInv == StoreOK /\ BuildOK /\ ArchiveInv

LEMMA ExportInvCorrect == Spec => []ExportInv
<1>1. Init => ExportInv
  <2> SUFFICES ASSUME Init PROVE ExportInv
    OBVIOUS
  <2>1. /\ rows = {} /\ pending = {} /\ snapshot = {} /\ members = <<>> /\ current = <<>>
        /\ manifest = <<>> /\ epc = "idle" /\ accepted = 0 /\ gapCount = 0
        /\ registered = {} /\ gaps = {} /\ pruned = {} /\ swallowed = {} /\ due = {}
        /\ sources = {} /\ result = <<>>
    BY DEF Init
  <2>2. 0 \in 0..MaxEntries /\ 0 \in 0..MaxGaps /\ IsFiniteSet({})
    BY Bounds, FS_EmptySet
  <2>3. StoreOK
    BY <2>1, <2>2 DEF StoreOK, Distinct
  <2>4. BuildOK
    <3>1. manifest \in [DOMAIN manifest -> Said]
      BY <2>1
    <3> HIDE DEF Said
    <3> QED BY <2>1, <2>2, <3>1 DEF BuildOK, Distinct
  <2>5. ArchiveInv
    BY <2>1 DEF ArchiveInv, AfterQuery
  <2> QED BY <2>3, <2>4, <2>5 DEF ExportInv
<1>2. ExportInv /\ [Next]_vars => ExportInv'
  BY StoreStep, BuildStep, ArchiveStep DEF ExportInv
<1> QED BY <1>1, <1>2, PTL DEF Spec

\* TypeOK: the shapes of the tables, of what Build holds and of its files.
THEOREM ExportTypeCorrect == Spec => []TypeOK
<1>1. Init => FilesOK
  BY DEF Init, FilesOK
<1>2. FilesOK /\ [Next]_vars => FilesOK'
  BY FilesStep
<1>3. FilesOK /\ ExportInv => TypeOK
  <2> SUFFICES ASSUME FilesOK, ExportInv PROVE TypeOK
    OBVIOUS
  <2>1. current \in Seq(Stage) /\ Len(current) <= 1
    <3>1. CASE current = <<>>
      BY <3>1
    <3>2. ASSUME NEW c \in Stage, current = <<c>> PROVE current \in Seq(Stage) /\ Len(current) <= 1
      <4> HIDE DEF Stage
      <4> QED BY <3>2
    <3> QED BY <3>1, <3>2 DEF ExportInv, BuildOK
  <2> QED BY <2>1 DEF TypeOK, ExportInv, StoreOK, BuildOK, FilesOK, Stage
<1> QED BY <1>1, <1>2, <1>3, ExportInvCorrect, PTL DEF Spec

\* ArchiveIsTheRows: whatever is registered, stored, pruned or skipped around an
\* export, its archive is the query's rows, one file for each source.
THEOREM RowsAreArchived == Spec => []ArchiveIsTheRows
<1>1. ExportInv => ArchiveIsTheRows
  <2> SUFFICES ASSUME ExportInv, epc \in {"gaps", "send"}, NEW i \in SourceId
               PROVE  LET mine == {k \in DOMAIN members : members[k].src = i} IN
                      IF Lines(i) = <<>>
                      THEN mine = {} /\ (i \in DOMAIN manifest => manifest[i].entries = 0)
                      ELSE /\ \E k \in mine : mine = {k} /\ members[k].lines = Lines(i)
                           /\ manifest[i].entries = Len(Lines(i))
                           /\ manifest[i].oldest = Lines(i)[1].ts
                           /\ manifest[i].newest = Lines(i)[Len(Lines(i))].ts
    BY DEF ArchiveIsTheRows
  <2> DEFINE mine == {k \in DOMAIN members : members[k].src = i}
             S    == {r \in snapshot : r.src = i}
             t    == Lines(i)
  <2>1. /\ BuildOK /\ result = <<>> /\ current = <<>>
        /\ (\A f \in Files : FileOK(f) /\ SaidOK(f)) /\ ApartOK /\ AllOK
    BY DEF ExportInv, ArchiveInv, AfterQuery
  <2>2. Given = snapshot /\ Files = Closed
    BY <2>1 DEF Given, Files, Range
  <2>3. S \in SUBSET Entry /\ IsFiniteSet(S) /\ Distinct(S)
    <3>1. S \in SUBSET snapshot
      OBVIOUS
    <3> QED BY <2>1, <3>1, FS_Subset DEF BuildOK, Distinct
  <2>4. t = InOrder(S)
    BY DEF Lines
  <2>5. t \in Seq(S) /\ Range(t) = S
    <3> HIDE DEF S
    <3> QED BY <2>3, <2>4, InOrderSorts
  <2>6. t = <<>> <=> S = {}
    BY <2>5, EmptySeq, LenProperties, RangeEquality
  <2>7. ASSUME NEW k \in mine
        PROVE  /\ members[k].lines = t /\ t # <<>> /\ i \in DOMAIN manifest
               /\ manifest[i].entries = Len(t) /\ manifest[i].oldest = t[1].ts
               /\ manifest[i].newest = t[Len(t)].ts
    <3> DEFINE f == [src |-> members[k].src, lines |-> members[k].lines]
    <3>1. f \in Files /\ f.src = i /\ f.lines = members[k].lines
      BY <2>2 DEF Closed
    <3>2. f.lines \in Seq(Entry)
      <4>1. members[k] \in File
        BY <2>1 DEF BuildOK
      <4> QED BY <4>1 DEF File
    <3> HIDE DEF f
    <3>3. FileOK(f) /\ SaidOK(f)
      BY <2>1, <3>1
    <3>4. f.lines # <<>> /\ Sorted(f.lines) /\ Range(f.lines) = S
      BY <2>2, <3>1, <3>3 DEF FileOK
    <3>5. f.lines = t
      <4> HIDE DEF S
      <4> QED BY <2>3, <2>4, <3>2, <3>4, OnlyOneOrder
    <3> HIDE DEF t
    <3> QED BY <3>1, <3>3, <3>4, <3>5 DEF SaidOK
  <2>8. CASE t = <<>>
    <3>1. mine = {}
      BY <2>7, <2>8
    <3>2. \A f \in Files : f.src # i
      <4> SUFFICES ASSUME NEW f \in Files, f.src = i PROVE FALSE
        OBVIOUS
      <4>1. PICK k \in DOMAIN members : f = [src |-> members[k].src, lines |-> members[k].lines]
        BY <2>2 DEF Closed
      <4>2. members[k].src = i
        BY <4>1
      <4> QED BY <3>1, <4>2
    <3>3. i \in DOMAIN manifest => manifest[i].entries = 0
      BY <2>1, <3>2 DEF AllOK
    <3> QED BY <2>8, <3>1, <3>3
  <2>9. CASE t # <<>>
    <3>1. PICK r \in Given : r.src = i
      BY <2>2, <2>6, <2>9
    <3>2. PICK f \in Files : f.src = i
      BY <2>1, <3>1 DEF AllOK
    <3>3. PICK k \in DOMAIN members : f = [src |-> members[k].src, lines |-> members[k].lines]
      BY <2>2 DEF Closed
    <3>4. k \in mine
      BY <3>2, <3>3
    <3>5. mine = {k}
      BY <2>1, <3>4 DEF ApartOK
    <3> HIDE DEF mine, t
    <3>6. \E j \in mine : mine = {j} /\ members[j].lines = t
      BY <2>7, <3>4, <3>5
    <3>7. /\ manifest[i].entries = Len(t) /\ manifest[i].oldest = t[1].ts
          /\ manifest[i].newest = t[Len(t)].ts
      BY <2>7, <3>4
    <3> QED BY <2>9, <3>6, <3>7 DEF mine, t
  <2> HIDE DEF mine, t
  <2> QED BY <2>8, <2>9 DEF mine, t
<1> QED BY <1>1, ExportInvCorrect, PTL
=============================================================================
