---------------------------- MODULE WriterProofs ----------------------------
(***************************************************************************)
(* Proofs about Writer, for every number of callers, every batch size and  *)
(* any number of entries: its types; what an answered Sync means; what the *)
(* tap has got; and what becomes of accepted entries, each of which is in  *)
(* one place, once (OnlyOnePlace), so that Writer implements the ordered   *)
(* log AcceptedLog (WriterIsTheLog). OncePlaced, with the types, is        *)
(* inductive: an entry moves from the channel to the batch to the table,   *)
(* and a new one is none of these. The refinement also needs what Append   *)
(* and Tail do to the sequence of the entries in the channel.              *)
(***************************************************************************)
EXTENDS Writer, SequenceFacts, FiniteSetTheorems

(***************************************************************************)
(* The shapes of what the actions build.                                   *)
(***************************************************************************)

\* The two kinds of request carry an entry or a caller, never both.
LEMMA RequestTypes ==
    /\ \A e \in Entry : EntryRequest(e) \in WriteRequest /\ EntryRequest(e).entry = e
                                                         /\ EntryRequest(e).sync = None
    /\ \A c \in Callers : SyncRequest(c) \in WriteRequest /\ SyncRequest(c).entry = None
                                                          /\ SyncRequest(c).sync = c
    /\ \A r \in WriteRequest : IsEntry(r) => r.entry \in Entry
    /\ \A r \in WriteRequest : r.sync \in Callers \cup {None}
    /\ \A r \in WriteRequest : r.entry \in Entry \cup {None}
    /\ \A r \in WriteRequest : r.sync # None => r.entry = None
BY DEF EntryRequest, SyncRequest, WriteRequest, IsEntry

\* What a batch holds with a request's entry added.
LEMMA WithEntryType ==
    ASSUME NEW b \in Seq(Entry), NEW r \in WriteRequest
    PROVE  /\ WithEntry(b, r) \in Seq(Entry)
           /\ Range(WithEntry(b, r)) = Range(b) \cup (IF IsEntry(r) THEN {r.entry} ELSE {})
<1>1. CASE IsEntry(r)
  <2>1. r.entry \in Entry
    BY <1>1, RequestTypes
  <2> QED BY <1>1, <2>1, RangeOfAppend, AppendProperties DEF WithEntry
<1>2. CASE ~IsEntry(r)
  BY <1>2 DEF WithEntry
<1> QED BY <1>1, <1>2

\* Answering a Sync keeps the shape of the answers.
LEMMA AnsweredType ==
    ASSUME NEW c \in Callers \cup {None}, NEW v \in {"nil", "err"}, TypeOK
    PROVE  Answered(c, v) \in [Callers -> {"empty", "nil", "err"}]
BY DEF Answered, TypeOK

(***************************************************************************)
(* Type correctness: shapes, and the capacities of channel and batch.      *)
(***************************************************************************)

\* The shapes hold at the start, ...
LEMMA TypeInit == Init => TypeOK
<1> SUFFICES ASSUME Init PROVE TypeOK
  OBVIOUS
<1> USE WriterAssumption DEF Init
<1>1. requests \in Seq(WriteRequest) /\ Len(requests) <= BatchSize
  BY EmptySeq
<1>2. batch \in Seq(Entry) /\ entries \in Seq(Entry) /\ tapped \in Seq(Entry)
      /\ Len(batch) < BatchSize
  BY EmptySeq
<1>3. done \in [Callers -> {"empty", "nil", "err"}]
      /\ pc \in [Callers -> {"idle", "tap", "wait", "gone"}]
      /\ cancelled \in [Callers -> BOOLEAN] /\ due \in [Callers -> SUBSET Entry]
      /\ lost \in SUBSET Entry
  OBVIOUS
<1>4. adds \in [Callers -> 0..MaxAdds] /\ \A c \in Callers : pc[c] # "tap"
  OBVIOUS
<1> QED BY <1>1, <1>2, <1>3, <1>4 DEF TypeOK

\* ... over the steps of a caller, ...
LEMMA TypeCaller ==
    ASSUME TypeOK, NEW c \in Callers, Caller(c)
    PROVE  TypeOK'
<1> USE WriterAssumption
<1>1. CASE Add(c)
  <2>1. <<c, adds[c] + 1>> \in Entry /\ adds[c] + 1 \in 0..MaxAdds
    BY <1>1 DEF Add, TypeOK, Entry
  <2>2. EntryRequest(<<c, adds[c] + 1>>) \in WriteRequest
    BY <2>1, RequestTypes
  <2>3. requests' \in Seq(WriteRequest) /\ Len(requests') <= BatchSize
    BY <1>1, <2>2, AppendProperties, LenProperties DEF Add, Enqueue, Room, TypeOK
  <2> QED BY <1>1, <2>1, <2>3 DEF Add, Goto, runVars, TypeOK
<1>2. CASE Tap(c)
  <2>1. <<c, adds[c]>> \in Entry
    BY <1>2 DEF Tap, TypeOK, Entry
  <2>2. tapped' \in Seq(Entry)
    BY <1>2, <2>1, AppendProperties DEF Tap, TappedBy, TypeOK
  <2> QED BY <1>2, <2>2 DEF Tap, Goto, runVars, TypeOK
<1>3. CASE SyncSend(c)
  <2>1. requests' \in Seq(WriteRequest) /\ Len(requests') <= BatchSize
    BY <1>3, RequestTypes, AppendProperties, LenProperties DEF SyncSend, Enqueue, Room, TypeOK
  <2>2. Accepted \in SUBSET Entry
    BY DEF Accepted
  <2> QED BY <1>3, <2>1, <2>2 DEF SyncSend, Goto, runVars, TypeOK
<1>4. CASE SyncReturn(c)
  BY <1>4 DEF SyncReturn, Goto, runVars, TypeOK
<1>5. CASE Cancel(c)
  BY <1>5 DEF Cancel, runVars, TypeOK
<1>6. CASE GiveUp(c)
  BY <1>6 DEF GiveUp, Goto, runVars, TypeOK
<1> QED BY <1>1, <1>2, <1>3, <1>4, <1>5, <1>6 DEF Caller

\* ... over those of Run, ...
LEMMA TypeRun ==
    ASSUME TypeOK, Run
    PROVE  TypeOK'
<1> USE WriterAssumption
<1>0. requests # <<>> => /\ Head(requests) \in WriteRequest
                         /\ Tail(requests) \in Seq(WriteRequest) /\ Len(Tail(requests)) <= BatchSize
                         /\ WithEntry(batch, Head(requests)) \in Seq(Entry)
                         /\ Head(requests).sync \in Callers \cup {None}
  <2> SUFFICES ASSUME requests # <<>>
               PROVE  /\ Head(requests) \in WriteRequest
                      /\ Tail(requests) \in Seq(WriteRequest) /\ Len(Tail(requests)) <= BatchSize
                      /\ WithEntry(batch, Head(requests)) \in Seq(Entry)
                      /\ Head(requests).sync \in Callers \cup {None}
    OBVIOUS
  <2>1. /\ Head(requests) \in WriteRequest /\ Tail(requests) \in Seq(WriteRequest)
        /\ Len(Tail(requests)) = Len(requests) - 1 /\ Len(requests) \in Nat
    BY HeadAndTail DEF TypeOK
  <2>2. Len(Tail(requests)) <= BatchSize
    BY <2>1 DEF TypeOK
  <2>3. WithEntry(batch, Head(requests)) \in Seq(Entry)
    BY <2>1, WithEntryType DEF TypeOK
  <2> QED BY <2>1, <2>2, <2>3, RequestTypes
<1>1. CASE Receive
  <2>1. /\ batch' \in Seq(Entry) /\ answer' \in Callers \cup {None}
        /\ requests' \in Seq(WriteRequest) /\ Len(requests') <= BatchSize
    BY <1>0, <1>1 DEF Receive
  <2>2. wpc' \in {"select", "flush"} /\ (wpc' = "select" => Len(batch') < BatchSize)
    BY <1>1, <2>1, LenProperties DEF Receive, AfterRequest, Full
  <2> QED BY <1>1, <2>1, <2>2 DEF Receive, callerVars, TypeOK
<1>2. CASE Tick
  BY <1>2 DEF Tick, callerVars, TypeOK
<1>3. ASSUME NEW ok \in BOOLEAN, Flush(ok) PROVE TypeOK'
  <2>1. batch' \in Seq(Entry) /\ Len(batch') < BatchSize
    BY <1>3, EmptySeq DEF Flush, NoBatch
  <2>2. entries' \in Seq(Entry)
    BY <1>3, ConcatProperties DEF Flush, TypeOK
  <2>3. lost' \in SUBSET Entry
    BY <1>3, RangeEquality DEF Flush, TypeOK
  <2>4. done' \in [Callers -> {"empty", "nil", "err"}]
    BY <1>3, AnsweredType DEF Flush, TypeOK
  <2> QED BY <1>3, <2>1, <2>2, <2>3, <2>4 DEF Flush, callerVars, TypeOK
<1>4. CASE StartDrain
  BY <1>4 DEF StartDrain, callerVars, TypeOK
<1>5. CASE Drain
  <2>1. done' \in [Callers -> {"empty", "nil", "err"}]
    BY <1>0, <1>5, AnsweredType DEF Drain
  <2> QED BY <1>0, <1>5, <2>1 DEF Drain, callerVars, TypeOK
<1>6. CASE EndDrain
  BY <1>6 DEF EndDrain, callerVars, TypeOK
<1> QED BY <1>1, <1>2, <1>3, <1>4, <1>5, <1>6 DEF Run

\* ... and so over every step.
LEMMA TypeStep == TypeOK /\ [Next]_vars => TypeOK'
<1> SUFFICES ASSUME TypeOK, [Next]_vars PROVE TypeOK'
  OBVIOUS
<1>1. CASE Run
  BY <1>1, TypeRun
<1>2. CASE Stop
  BY <1>2 DEF Stop, callerVars, TypeOK
<1>3. ASSUME NEW c \in Callers, Caller(c) PROVE TypeOK'
  BY <1>3, TypeCaller
<1>4. CASE UNCHANGED vars
  BY <1>4 DEF vars, runVars, callerVars, TypeOK
<1> QED BY <1>1, <1>2, <1>3, <1>4 DEF Next

\* Channel and batch never exceed batchSize and every variable keeps its shape,
\* for every number of callers and every batch size.
THEOREM TypeCorrect == Spec => []TypeOK
BY TypeInit, TypeStep, PTL DEF Spec

(***************************************************************************)
(* What a Sync may be told. SyncCovers and ErrMeansLost say something only *)
(* once the answer is there; the invariant below follows the Sync from its *)
(* send, through the channel and the flush it causes, to its answer.       *)
(***************************************************************************)

\* The entries queued before position i of the channel q.
Before(q, i) == {e \in Entry : \E j \in 1..(i - 1) : q[j].entry = e}

\* What Run has taken out of the channel so far.
Taken == Settled \cup Range(batch)

NothingForgotten == Accepted = Taken \cup Before(requests, Len(requests) + 1)

\* A Sync in the channel waits for exactly what was accepted before it: all
\* of the batch and of the queue in front of it, and nothing else unsettled.
SyncInLine ==
    \A i \in 1..Len(requests) : \A c \in Callers : requests[i].sync = c =>
        /\ Range(batch) \cup Before(requests, i) \subseteq due[c]
        /\ due[c] \subseteq Taken \cup Before(requests, i)

\* So does a Sync whose flush is about to run.
SyncInFlush ==
    answer # None => /\ wpc = "flush"
                     /\ Range(batch) \subseteq due[answer]
                     /\ due[answer] \subseteq Taken

\* A caller that is not in its Sync has none on the way.
OneSyncEach ==
    \A c \in Callers : pc[c] \in {"idle", "tap"} =>
        /\ done[c] = "empty" /\ answer # c
        /\ \A i \in 1..Len(requests) : requests[i].sync # c

SyncInv == /\ TypeOK /\ NothingForgotten /\ SyncInLine /\ SyncInFlush
           /\ OneSyncEach /\ SyncCovers /\ ErrMeansLost

\* Appending changes nothing before the places there were.
LEMMA BeforeAppend ==
    ASSUME NEW q \in Seq(WriteRequest), NEW r \in WriteRequest
    PROVE  /\ \A i \in 1..(Len(q) + 1) : Before(Append(q, r), i) = Before(q, i)
           /\ Before(Append(q, r), Len(q) + 2)
                = Before(q, Len(q) + 1) \cup {e \in Entry : r.entry = e}
<1> DEFINE a == Append(q, r)
<1>1. Len(q) \in Nat /\ (\A j \in 1..Len(q) : a[j] = q[j]) /\ a[Len(q) + 1] = r
  BY AppendProperties, LenProperties
<1> HIDE DEF a
<1>2. ASSUME NEW i \in 1..(Len(q) + 1) PROVE Before(a, i) = Before(q, i)
  <2>1. \A j \in 1..(i - 1) : a[j] = q[j]
    BY <1>1
  <2> QED BY <2>1 DEF Before
<1>3. ASSUME NEW e \in Entry
      PROVE  e \in Before(a, Len(q) + 2) <=> e \in Before(q, Len(q) + 1) \/ r.entry = e
  <2>1. 1..(Len(q) + 2 - 1) = 1..(Len(q) + 1 - 1) \cup {Len(q) + 1}
    BY <1>1
  <2>2. \A j \in 1..(Len(q) + 1 - 1) : a[j] = q[j]
    BY <1>1
  <2> QED BY <1>1, <2>1, <2>2 DEF Before
<1>4. Before(a, Len(q) + 2) = Before(q, Len(q) + 1) \cup {e \in Entry : r.entry = e}
  BY <1>3 DEF Before
<1> QED BY <1>2, <1>4 DEF a

\* Taking the first request moves every other one place forward.
LEMMA BeforeTail ==
    ASSUME NEW q \in Seq(WriteRequest), q # <<>>, NEW i \in 1..Len(q)
    PROVE  Before(q, i + 1) = Before(Tail(q), i) \cup {e \in Entry : Head(q).entry = e}
<1>1. /\ Head(q) = q[1] /\ Len(Tail(q)) = Len(q) - 1 /\ Len(q) \in Nat
      /\ \A j \in 1..Len(Tail(q)) : Tail(q)[j] = q[j + 1]
  BY HeadAndTail
<1>2. ASSUME NEW e \in Entry, e \in Before(q, i + 1)
      PROVE  e \in Before(Tail(q), i) \/ Head(q).entry = e
  <2>1. PICK j \in 1..i : q[j].entry = e
    BY <1>2 DEF Before
  <2>2. CASE j = 1
    BY <2>1, <2>2, <1>1
  <2>3. CASE j # 1
    <3>1. j - 1 \in 1..(i - 1) /\ j - 1 \in 1..Len(Tail(q)) /\ Tail(q)[j - 1] = q[j]
      BY <1>1, <2>3
    <3> QED BY <2>1, <3>1 DEF Before
  <2> QED BY <2>2, <2>3
<1>3. ASSUME NEW e \in Entry, e \in Before(Tail(q), i)
      PROVE  e \in Before(q, i + 1)
  <2>1. PICK j \in 1..(i - 1) : Tail(q)[j].entry = e
    BY <1>3 DEF Before
  <2>2. j + 1 \in 1..(i + 1 - 1) /\ q[j + 1].entry = e
    BY <2>1, <1>1
  <2> QED BY <2>2 DEF Before
<1>4. ASSUME NEW e \in Entry, Head(q).entry = e PROVE e \in Before(q, i + 1)
  <2>1. 1 \in 1..(i + 1 - 1)
    OBVIOUS
  <2> QED BY <2>1, <1>1, <1>4 DEF Before
<1>5. Before(q, i + 1) \subseteq Entry /\ Before(Tail(q), i) \subseteq Entry
  BY DEF Before
<1> QED BY <1>2, <1>3, <1>4, <1>5

\* Nothing is before the first place.
LEMMA BeforeFirst == \A q : Before(q, 1) = {}
BY DEF Before

\* What is added to a batch is the request's entry, if it has one.
LEMMA WithEntryRange ==
    ASSUME NEW b \in Seq(Entry), NEW r \in WriteRequest
    PROVE  Range(WithEntry(b, r)) = Range(b) \cup {e \in Entry : r.entry = e}
<1>1. (IF IsEntry(r) THEN {r.entry} ELSE {}) = {e \in Entry : r.entry = e}
  BY RequestTypes, WriterAssumption DEF IsEntry, Entry
<1> QED BY <1>1, WithEntryType

\* At the start no Sync waits.
LEMMA SyncInit == Init => SyncInv
<1> SUFFICES ASSUME Init PROVE SyncInv
  OBVIOUS
<1>1. TypeOK
  BY TypeInit
<1>2. Accepted = {} /\ Taken = {} /\ Len(requests) = 0 /\ Before(requests, 1) = {}
  BY RangeOfEmpty, BeforeFirst, EmptySeq DEF Init, Accepted, Taken, Settled, Stored, Entry
<1>3. NothingForgotten
  BY <1>2 DEF NothingForgotten
<1>4. SyncInLine /\ SyncInFlush /\ OneSyncEach
  BY <1>2, WriterAssumption DEF Init, SyncInLine, SyncInFlush, OneSyncEach
<1>5. SyncCovers /\ ErrMeansLost
  BY DEF Init, SyncCovers, ErrMeansLost
<1> QED BY <1>1, <1>3, <1>4, <1>5 DEF SyncInv

\* Steps that move no request and no entry and start no call.
LEMMA SyncQuiet ==
    ASSUME SyncInv, TypeOK',
           UNCHANGED <<requests, batch, answer, entries, lost, done, adds, due>>,
           \A c \in Callers : pc'[c] \in {"idle", "tap"} => pc[c] \in {"idle", "tap"},
           wpc' = wpc \/ (wpc = "select" /\ wpc' \in {"flush", "drain"})
                      \/ (wpc = "drain" /\ wpc' = "final")
    PROVE  SyncInv'
<1>1. Accepted' = Accepted /\ Taken' = Taken /\ Settled' = Settled
      /\ \A i : Before(requests', i) = Before(requests, i)
  BY DEF Accepted, Taken, Settled, Stored
<1>2. NothingForgotten'
  BY <1>1 DEF SyncInv, NothingForgotten
<1>3. SyncInLine'
  BY <1>1 DEF SyncInv, SyncInLine
<1>4. SyncInFlush'
  BY <1>1 DEF SyncInv, SyncInFlush
<1>5. OneSyncEach'
  BY DEF SyncInv, OneSyncEach
<1>6. SyncCovers'
  BY <1>1 DEF SyncInv, SyncCovers
<1>7. ErrMeansLost'
  BY DEF SyncInv, ErrMeansLost
<1> QED BY <1>2, <1>3, <1>4, <1>5, <1>6, <1>7 DEF SyncInv

\* Add: the entry goes to the end of the line, behind every Sync in it.
LEMMA SyncAdd ==
    ASSUME SyncInv, TypeOK', NEW c \in Callers, Add(c)
    PROVE  SyncInv'
<1> DEFINE e == <<c, adds[c] + 1>>
<1>1. TypeOK /\ requests \in Seq(WriteRequest) /\ Len(requests) \in Nat
  BY LenProperties DEF SyncInv, TypeOK
<1>2. e \in Entry /\ EntryRequest(e) \in WriteRequest
      /\ EntryRequest(e).entry = e /\ EntryRequest(e).sync = None
  <2>1. e \in Entry
    BY <1>1 DEF Add, TypeOK, Entry
  <2> QED BY <2>1, RequestTypes
<1>3. requests' = Append(requests, EntryRequest(e))
  BY DEF Add, Enqueue
<1>4. /\ Len(requests') = Len(requests) + 1
      /\ \A i \in 1..Len(requests) : requests'[i] = requests[i]
      /\ requests'[Len(requests) + 1] = EntryRequest(e)
  BY <1>1, <1>2, <1>3, AppendProperties
<1>5. /\ \A i \in 1..(Len(requests) + 1) : Before(requests', i) = Before(requests, i)
      /\ Before(requests', Len(requests) + 2) = Before(requests, Len(requests) + 1) \cup {e}
  <2>1. {x \in Entry : EntryRequest(e).entry = x} = {e}
    BY <1>2
  <2> QED BY <1>1, <1>2, <1>3, <2>1, BeforeAppend
<1>6. Accepted' = Accepted \cup {e}
  <2>1. adds' = [adds EXCEPT ![c] = adds[c] + 1] /\ adds \in [Callers -> 0..MaxAdds]
    BY <1>1 DEF Add, TypeOK
  <2>2. ASSUME NEW d \in Callers, NEW n \in 1..MaxAdds
        PROVE  n <= adds'[d] <=> n <= adds[d] \/ (d = c /\ n = adds[c] + 1)
    BY <2>1
  <2>3. \A x \in Entry : x = <<x[1], x[2]>> /\ x[1] \in Callers /\ x[2] \in 1..MaxAdds
    BY DEF Entry
  <2>4. \A x \in Entry : x \in Accepted' <=> x \in Accepted \/ x = e
    BY <2>2, <2>3 DEF Accepted
  <2>5. Accepted \subseteq Entry /\ Accepted' \subseteq Entry
    BY DEF Accepted
  <2> QED BY <1>2, <2>4, <2>5
<1>7. /\ Taken' = Taken /\ Settled' = Settled
      /\ UNCHANGED <<batch, wpc, answer, entries, lost, done, due>>
  BY DEF Add, runVars, Taken, Settled, Stored
<1> HIDE DEF e
<1>8. NothingForgotten'
  BY <1>1, <1>4, <1>5, <1>6, <1>7 DEF SyncInv, NothingForgotten
<1>9. SyncInLine'
  <2> SUFFICES ASSUME NEW i \in 1..Len(requests'), NEW d \in Callers, requests'[i].sync = d
               PROVE  /\ Range(batch') \cup Before(requests', i) \subseteq due'[d]
                      /\ due'[d] \subseteq Taken' \cup Before(requests', i)
    BY DEF SyncInLine
  <2>1. i \in 1..Len(requests) /\ requests[i].sync = d
    BY <1>1, <1>2, <1>4, WriterAssumption
  <2>2. Before(requests', i) = Before(requests, i)
    BY <1>1, <1>5, <2>1
  <2> QED BY <1>7, <2>1, <2>2 DEF SyncInv, SyncInLine
<1>10. SyncInFlush' /\ SyncCovers' /\ ErrMeansLost'
  BY <1>7 DEF SyncInv, SyncInFlush, SyncCovers, ErrMeansLost
<1>11. OneSyncEach'
  <2>1. \A d \in Callers : pc'[d] \in {"idle", "tap"} => pc[d] \in {"idle", "tap"}
    BY <1>1 DEF Add, Goto, TypeOK
  <2> QED BY <1>1, <1>2, <1>4, <1>7, <2>1, WriterAssumption DEF SyncInv, OneSyncEach
<1> QED BY <1>8, <1>9, <1>10, <1>11 DEF SyncInv

\* SyncSend: everything accepted is in the table, lost, in the batch or in
\* front of the request.
LEMMA SyncSyncSend ==
    ASSUME SyncInv, TypeOK', NEW c \in Callers, SyncSend(c)
    PROVE  SyncInv'
<1>1. TypeOK /\ requests \in Seq(WriteRequest) /\ Len(requests) \in Nat
  BY LenProperties DEF SyncInv, TypeOK
<1>2. SyncRequest(c) \in WriteRequest /\ SyncRequest(c).entry = None /\ SyncRequest(c).sync = c
  BY RequestTypes
<1>3. requests' = Append(requests, SyncRequest(c))
  BY DEF SyncSend, Enqueue
<1>4. /\ Len(requests') = Len(requests) + 1
      /\ \A i \in 1..Len(requests) : requests'[i] = requests[i]
      /\ requests'[Len(requests) + 1] = SyncRequest(c)
  BY <1>1, <1>2, <1>3, AppendProperties
<1>5. /\ \A i \in 1..(Len(requests) + 1) : Before(requests', i) = Before(requests, i)
      /\ Before(requests', Len(requests) + 2) = Before(requests, Len(requests) + 1)
  <2>1. {e \in Entry : SyncRequest(c).entry = e} = {}
    BY <1>2, WriterAssumption DEF Entry
  <2> QED BY <1>1, <1>2, <1>3, <2>1, BeforeAppend
<1>6. /\ Accepted' = Accepted /\ Taken' = Taken /\ Settled' = Settled
      /\ UNCHANGED <<batch, wpc, answer, entries, lost, done>>
      /\ due' = [due EXCEPT ![c] = Accepted] /\ due \in [Callers -> SUBSET Entry]
      /\ pc[c] = "idle" /\ pc' = [pc EXCEPT ![c] = "wait"]
  BY <1>1 DEF SyncSend, Goto, runVars, Accepted, Taken, Settled, Stored, TypeOK
<1>7. done[c] = "empty" /\ answer # c /\ \A i \in 1..Len(requests) : requests[i].sync # c
  BY <1>6 DEF SyncInv, OneSyncEach
<1>8. NothingForgotten'
  BY <1>1, <1>4, <1>5, <1>6 DEF SyncInv, NothingForgotten
<1>9. SyncInLine'
  <2> SUFFICES ASSUME NEW i \in 1..Len(requests'), NEW d \in Callers, requests'[i].sync = d
               PROVE  /\ Range(batch') \cup Before(requests', i) \subseteq due'[d]
                      /\ due'[d] \subseteq Taken' \cup Before(requests', i)
    BY DEF SyncInLine
  <2>1. CASE i \in 1..Len(requests)
    <3>1. d # c /\ requests[i].sync = d /\ due'[d] = due[d]
      BY <1>4, <1>6, <1>7, <2>1
    <3>2. Before(requests', i) = Before(requests, i)
      BY <1>1, <1>5, <2>1
    <3> QED BY <1>6, <2>1, <3>1, <3>2 DEF SyncInv, SyncInLine
  <2>2. CASE i = Len(requests) + 1
    <3>1. d = c /\ due'[d] = Accepted
      BY <1>2, <1>4, <1>6, <2>2
    <3>2. Before(requests', i) = Before(requests, Len(requests) + 1)
      BY <1>1, <1>5, <2>2
    <3> QED BY <1>6, <3>1, <3>2 DEF SyncInv, NothingForgotten, Taken
  <2> QED BY <1>1, <1>4, <2>1, <2>2
<1>10. SyncInFlush'
  <2>1. answer # None => answer \in Callers /\ due'[answer] = due[answer]
    BY <1>1, <1>6, <1>7 DEF TypeOK
  <2> QED BY <1>6, <2>1 DEF SyncInv, SyncInFlush
<1>11. OneSyncEach'
  <2>1. \A d \in Callers : pc'[d] \in {"idle", "tap"} => d # c /\ pc[d] \in {"idle", "tap"}
    BY <1>1, <1>6 DEF TypeOK
  <2> QED BY <1>1, <1>2, <1>4, <1>6, <2>1 DEF SyncInv, OneSyncEach
<1>12. SyncCovers' /\ ErrMeansLost'
  <2>1. \A d \in Callers : done'[d] # "empty" => due'[d] = due[d] /\ done'[d] = done[d]
    BY <1>6, <1>7
  <2> QED BY <1>6, <2>1 DEF SyncInv, SyncCovers, ErrMeansLost
<1> QED BY <1>8, <1>9, <1>10, <1>11, <1>12 DEF SyncInv

\* Run takes the first request, in its select or in the drain: the line moves
\* up, its entry joins the batch, a Sync finds all it waits for taken.
LEMMA SyncMoveUp ==
    ASSUME SyncInv, requests # <<>>, requests' = Tail(requests),
           batch' = WithEntry(batch, Head(requests)),
           UNCHANGED <<entries, lost, adds, due>>
    PROVE  /\ NothingForgotten' /\ SyncInLine'
           /\ Range(batch) \subseteq Range(batch') /\ Settled' = Settled
           /\ Taken' = Settled \cup Range(batch')
           /\ Head(requests).sync \in Callers \cup {None}
           /\ \A c \in Callers : Head(requests).sync = c =>
                 /\ Range(batch') \subseteq due[c] /\ due[c] \subseteq Taken'
                 /\ pc[c] \notin {"idle", "tap"}
           /\ \A c \in Callers : pc[c] \in {"idle", "tap"} =>
                 \A i \in 1..Len(requests') : requests'[i].sync # c
<1> DEFINE r == Head(requests)
           E == {e \in Entry : r.entry = e}
<1>1. TypeOK /\ requests \in Seq(WriteRequest) /\ batch \in Seq(Entry)
  BY DEF SyncInv, TypeOK
<1>2. /\ r \in WriteRequest /\ r = requests[1]
      /\ Len(requests') = Len(requests) - 1 /\ Len(requests) \in Nat \ {0}
      /\ \A i \in 1..Len(requests') : requests'[i] = requests[i + 1]
  BY <1>1, HeadAndTail
<1>3. Range(batch') = Range(batch) \cup E
  BY <1>1, <1>2, WithEntryRange
<1>4. Accepted' = Accepted /\ Settled' = Settled /\ Taken' = Taken \cup E
      /\ Taken' = Settled \cup Range(batch')
  BY <1>3 DEF Accepted, Taken, Settled, Stored
<1>5. \A i \in 1..Len(requests) : Before(requests, i + 1) = Before(requests', i) \cup E
  BY <1>1, BeforeTail
<1>6. r.sync \in Callers \cup {None} /\ (r.sync # None => E = {})
  BY <1>2, RequestTypes, WriterAssumption DEF Entry
<1> HIDE DEF r, E
<1>7. NothingForgotten'
  <2>1. Len(requests) \in 1..Len(requests) /\ Len(requests') + 1 = Len(requests)
    BY <1>2
  <2>2. Before(requests, Len(requests) + 1) = Before(requests', Len(requests') + 1) \cup E
    BY <1>5, <2>1
  <2> QED BY <1>4, <2>2 DEF SyncInv, NothingForgotten
<1>8. SyncInLine'
  <2> SUFFICES ASSUME NEW i \in 1..Len(requests'), NEW c \in Callers, requests'[i].sync = c
               PROVE  /\ Range(batch') \cup Before(requests', i) \subseteq due'[c]
                      /\ due'[c] \subseteq Taken' \cup Before(requests', i)
    BY DEF SyncInLine
  <2>1. i + 1 \in 1..Len(requests) /\ requests[i + 1].sync = c /\ i \in 1..Len(requests)
    BY <1>2
  <2>2. Before(requests, i + 1) = Before(requests', i) \cup E
    BY <1>5, <2>1
  <2>3. /\ Range(batch) \cup Before(requests, i + 1) \subseteq due[c]
        /\ due[c] \subseteq Taken \cup Before(requests, i + 1)
    BY <2>1 DEF SyncInv, SyncInLine
  <2> QED BY <1>3, <1>4, <2>2, <2>3
<1>9. ASSUME NEW c \in Callers, r.sync = c
      PROVE  /\ Range(batch') \subseteq due[c] /\ due[c] \subseteq Taken'
             /\ pc[c] \notin {"idle", "tap"}
  <2>1. 1 \in 1..Len(requests) /\ requests[1].sync = c /\ c # None
    BY <1>2, <1>9, WriterAssumption
  <2>2. Range(batch) \subseteq due[c] /\ due[c] \subseteq Taken
    BY <2>1, BeforeFirst DEF SyncInv, SyncInLine
  <2>3. pc[c] \notin {"idle", "tap"}
    BY <2>1 DEF SyncInv, OneSyncEach
  <2> QED BY <1>3, <1>4, <1>6, <1>9, <2>1, <2>2, <2>3
<1>10. ASSUME NEW c \in Callers, pc[c] \in {"idle", "tap"}, NEW i \in 1..Len(requests')
       PROVE  requests'[i].sync # c
  <2>1. i + 1 \in 1..Len(requests) /\ requests'[i] = requests[i + 1]
    BY <1>2
  <2> QED BY <1>10, <2>1 DEF SyncInv, OneSyncEach
<1> QED BY <1>3, <1>4, <1>6, <1>7, <1>8, <1>9, <1>10 DEF r

\* Receive moves the first request from the channel to the batch.
LEMMA SyncReceive ==
    ASSUME SyncInv, TypeOK', Receive
    PROVE  SyncInv'
<1>1. /\ NothingForgotten' /\ SyncInLine' /\ Settled' = Settled
      /\ Head(requests).sync \in Callers \cup {None}
      /\ \A c \in Callers : Head(requests).sync = c =>
            /\ Range(batch') \subseteq due[c] /\ due[c] \subseteq Taken'
            /\ pc[c] \notin {"idle", "tap"}
      /\ \A c \in Callers : pc[c] \in {"idle", "tap"} =>
            \A i \in 1..Len(requests') : requests'[i].sync # c
  BY SyncMoveUp DEF Receive, callerVars
<1>2. /\ answer' = Head(requests).sync /\ wpc' \in {"select", "flush"} /\ wpc = "select"
      /\ (answer' # None => wpc' = "flush") /\ UNCHANGED <<done, lost, due, pc>>
  BY DEF Receive, AfterRequest, callerVars
<1>3. SyncInFlush'
  BY <1>1, <1>2 DEF SyncInFlush
<1>4. OneSyncEach'
  BY <1>1, <1>2 DEF SyncInv, OneSyncEach
<1>5. SyncCovers' /\ ErrMeansLost'
  BY <1>1, <1>2 DEF SyncInv, SyncCovers, ErrMeansLost
<1> QED BY <1>1, <1>3, <1>4, <1>5 DEF SyncInv

\* So does the drain after stop.
LEMMA SyncDrain ==
    ASSUME SyncInv, TypeOK', Drain
    PROVE  SyncInv'
<1> DEFINE s == Head(requests).sync
<1>1. /\ NothingForgotten' /\ SyncInLine' /\ Settled' = Settled
      /\ Range(batch) \subseteq Range(batch') /\ Taken' = Settled \cup Range(batch')
      /\ s \in Callers \cup {None}
      /\ \A c \in Callers : s = c => due[c] \subseteq Taken' /\ pc[c] \notin {"idle", "tap"}
      /\ \A c \in Callers : pc[c] \in {"idle", "tap"} =>
            \A i \in 1..Len(requests') : requests'[i].sync # c
  BY SyncMoveUp DEF Drain, callerVars
<1>2. /\ done' = Answered(s, "nil") /\ done \in [Callers -> {"empty", "nil", "err"}]
      /\ wpc = "drain" /\ UNCHANGED <<wpc, answer, lost, due, pc>>
  BY DEF SyncInv, TypeOK, Drain, callerVars
<1> HIDE DEF s
<1>3. \A c \in Callers : IF s = c THEN done'[c] = "nil" ELSE done'[c] = done[c]
  BY <1>1, <1>2, WriterAssumption DEF Answered
<1>4. answer = None
  BY <1>2 DEF SyncInv, SyncInFlush
<1>5. SyncInFlush'
  BY <1>2, <1>4 DEF SyncInFlush
<1>6. OneSyncEach'
  BY <1>1, <1>2, <1>3 DEF SyncInv, OneSyncEach
<1>7. SyncCovers'
  <2> SUFFICES ASSUME NEW c \in Callers, done'[c] # "empty"
               PROVE  due'[c] \subseteq Settled' \cup Range(batch')
    BY <1>2 DEF SyncCovers
  <2>1. CASE s = c
    BY <1>1, <1>2, <2>1
  <2>2. CASE s # c
    BY <1>1, <1>2, <1>3, <2>2 DEF SyncInv, SyncCovers
  <2> QED BY <2>1, <2>2
<1>8. ErrMeansLost'
  BY <1>2, <1>3 DEF SyncInv, ErrMeansLost
<1> QED BY <1>1, <1>5, <1>6, <1>7, <1>8 DEF SyncInv

\* flush(): the batch becomes settled as a whole; the Sync that caused it gets
\* the verdict, an error only for a batch that was not empty.
LEMMA SyncFlush ==
    ASSUME SyncInv, TypeOK', NEW ok \in BOOLEAN, Flush(ok)
    PROVE  SyncInv'
<1>1. TypeOK /\ batch \in Seq(Entry) /\ entries \in Seq(Entry)
      /\ answer \in Callers \cup {None} /\ done \in [Callers -> {"empty", "nil", "err"}]
  BY DEF SyncInv, TypeOK
<1>2. Range(batch') = {} /\ answer' = None /\ UNCHANGED <<requests, pc, adds, due>>
      /\ wpc \in {"flush", "final"} /\ wpc' \in {"select", "stopped"}
  BY RangeOfEmpty DEF Flush, NoBatch, callerVars
<1>3. Settled' = Settled \cup Range(batch) /\ Taken' = Taken /\ Accepted' = Accepted
  <2>1. CASE ok
    <3>1. entries' = entries \o batch /\ lost' = lost
      BY <2>1 DEF Flush
    <3>2. Range(entries') = Range(entries) \cup Range(batch)
      BY <1>1, <3>1, RangeConcatenation
    <3> QED BY <1>2, <3>1, <3>2 DEF Settled, Stored, Taken, Accepted
  <2>2. CASE ~ok
    <3>1. entries' = entries /\ lost' = lost \cup Range(batch)
      BY <2>2 DEF Flush
    <3> QED BY <1>2, <3>1 DEF Settled, Stored, Taken, Accepted
  <2> QED BY <2>1, <2>2
<1>4. \A c \in Callers : IF answer = c THEN done'[c] = IF ok THEN "nil" ELSE "err"
                                       ELSE done'[c] = done[c]
  BY <1>1, WriterAssumption DEF Flush, Answered
<1>5. NothingForgotten'
  BY <1>2, <1>3 DEF SyncInv, NothingForgotten
<1>6. SyncInLine'
  BY <1>2, <1>3 DEF SyncInv, SyncInLine
<1>7. SyncInFlush'
  BY <1>2 DEF SyncInFlush
<1>8. OneSyncEach'
  BY <1>2, <1>4, WriterAssumption DEF SyncInv, OneSyncEach
<1>9. SyncCovers'
  <2> SUFFICES ASSUME NEW c \in Callers, done'[c] # "empty" PROVE due[c] \subseteq Settled'
    BY <1>2 DEF SyncCovers
  <2>1. CASE answer = c
    BY <1>3, <2>1, WriterAssumption DEF SyncInv, SyncInFlush, Taken
  <2>2. CASE answer # c
    BY <1>3, <1>4, <2>2 DEF SyncInv, SyncCovers
  <2> QED BY <2>1, <2>2
<1>10. ErrMeansLost'
  <2> SUFFICES ASSUME NEW c \in Callers, done'[c] = "err" PROVE due[c] \cap lost' # {}
    BY <1>2 DEF ErrMeansLost
  <2>1. lost \subseteq lost'
    BY DEF Flush
  <2>2. CASE answer = c
    <3>1. ~ok /\ batch # <<>> /\ lost' = lost \cup Range(batch)
      BY <1>4, <2>2 DEF Flush, InsertMayFail
    <3>2. Head(batch) \in Range(batch)
      BY <1>1, <3>1, RangeOfHeadTail
    <3>3. Range(batch) \subseteq due[c]
      BY <2>2, WriterAssumption DEF SyncInv, SyncInFlush
    <3> QED BY <3>1, <3>2, <3>3
  <2>3. CASE answer # c
    BY <1>4, <2>1, <2>3 DEF SyncInv, ErrMeansLost
  <2> QED BY <2>2, <2>3
<1> QED BY <1>5, <1>6, <1>7, <1>8, <1>9, <1>10 DEF SyncInv

\* Every step keeps the invariant.
LEMMA SyncStep == SyncInv /\ [Next]_vars => SyncInv'
<1> SUFFICES ASSUME SyncInv, [Next]_vars PROVE SyncInv'
  OBVIOUS
<1>1. TypeOK'
  <2>1. TypeOK
    BY DEF SyncInv
  <2> QED BY <2>1, TypeStep
<1>2. CASE Run
  <2>1. CASE Tick \/ StartDrain \/ EndDrain
    BY <1>1, <2>1, SyncQuiet DEF Tick, StartDrain, EndDrain, callerVars
  <2> QED BY <1>1, <1>2, <2>1, SyncReceive, SyncFlush, SyncDrain DEF Run
<1>3. CASE Stop
  BY <1>1, <1>3, SyncQuiet DEF Stop, callerVars
<1>4. ASSUME NEW c \in Callers, Caller(c) PROVE SyncInv'
  <2>1. CASE Tap(c) \/ SyncReturn(c) \/ Cancel(c) \/ GiveUp(c)
    <3>1. \A d \in Callers : pc'[d] \in {"idle", "tap"} => pc[d] \in {"idle", "tap"}
      BY <2>1 DEF Tap, SyncReturn, Cancel, GiveUp, Goto, SyncInv, TypeOK
    <3>2. UNCHANGED <<requests, batch, wpc, answer, entries, lost, done, adds, due>>
      BY <2>1 DEF Tap, SyncReturn, Cancel, GiveUp, runVars
    <3> QED BY <1>1, <3>1, <3>2, SyncQuiet
  <2> QED BY <1>1, <1>4, <2>1, SyncAdd, SyncSyncSend DEF Caller
<1>5. CASE UNCHANGED vars
  BY <1>1, <1>5, SyncQuiet DEF vars, runVars, callerVars
<1> QED BY <1>2, <1>3, <1>4, <1>5 DEF Next

\* An answered Sync leaves no entry behind that was queued before it: writer.go's
\* "answered once everything queued before it" was taken to the database.
THEOREM SyncCoversAll == Spec => []SyncCovers
<1>1. SyncInv => SyncCovers
  BY DEF SyncInv
<1> QED BY <1>1, SyncInit, SyncStep, PTL DEF Spec

\* An error from Sync is about the caller's wait: an entry queued before the
\* call is lost.
THEOREM ErrorsAreReal == Spec => []ErrMeansLost
<1>1. SyncInv => ErrMeansLost
  BY DEF SyncInv
<1> QED BY <1>1, SyncInit, SyncStep, PTL DEF Spec

(***************************************************************************)
(* The tap. Each caller is at most one entry ahead of it, between Add's    *)
(* send and its return.                                                    *)
(***************************************************************************)

\* What is queued but not offered yet.
Untapped == {<<c, adds[c]>> : c \in {d \in Callers : pc[d] = "tap"}}

TapsInOrder ==
    \A i, j \in DOMAIN tapped :
        i < j /\ tapped[i][1] = tapped[j][1] => tapped[i][2] < tapped[j][2]

\* Add's send: exactly the caller's next entry becomes accepted, and is new.
LEMMA AddAccepts ==
    ASSUME TypeOK, NEW c \in Callers, Add(c)
    PROVE  LET e == <<c, adds[c] + 1>>
           IN  e \in Entry /\ e \notin Accepted /\ Accepted' = Accepted \cup {e}
<1> DEFINE e == <<c, adds[c] + 1>>
<1>1. adds[c] \in 0..MaxAdds /\ adds[c] < MaxAdds
  BY DEF Add, TypeOK
<1>2. adds'[c] = adds[c] + 1 /\ \A d \in Callers \ {c} : adds'[d] = adds[d]
  BY DEF Add, TypeOK
<1>3. e \in Entry /\ e \notin Accepted
  BY <1>1, WriterAssumption DEF Entry, Accepted
<1>4. Accepted' = Accepted \cup {e}
  <2>1. ASSUME NEW x \in Entry PROVE x \in Accepted' <=> x \in Accepted \cup {e}
    <3>1. x[1] \in Callers /\ x[2] \in 1..MaxAdds /\ x = <<x[1], x[2]>>
      BY DEF Entry
    <3>2. CASE x[1] = c
      <4>1. x \in Accepted' <=> x[2] <= adds[c] + 1
        BY <1>2, <3>2 DEF Accepted
      <4>2. x \in Accepted <=> x[2] <= adds[c]
        BY <3>2 DEF Accepted
      <4>3. x = e <=> x[2] = adds[c] + 1
        BY <3>1, <3>2
      <4> QED BY <1>1, <3>1, <4>1, <4>2, <4>3
    <3>3. CASE x[1] # c
      BY <1>2, <3>1, <3>3 DEF Accepted
    <3> QED BY <3>2, <3>3
  <2> QED BY <1>3, <2>1 DEF Accepted
<1> QED BY <1>3, <1>4

\* Nothing is added or tapped at the start.
LEMMA TapInit == Init => TapExact
<1> SUFFICES ASSUME Init PROVE TapExact
  OBVIOUS
<1>1. Range(tapped) = {} /\ DOMAIN tapped = {}
  BY RangeOfEmpty, EmptySeq DEF Init
<1>2. Accepted = {}
  BY DEF Init, Accepted, Entry
<1> QED BY <1>1, <1>2 DEF TapExact

\* Steps that neither add nor tap.
LEMMA TapQuiet ==
    ASSUME TapExact, UNCHANGED <<adds, tapped>>,
           \A c \in Callers : pc'[c] = "tap" <=> pc[c] = "tap"
    PROVE  TapExact'
BY DEF TapExact, Accepted

\* Add's send: the new entry is accepted and not offered.
LEMMA TapAdd ==
    ASSUME TypeOK, TapExact, NEW c \in Callers, Add(c)
    PROVE  TapExact'
<1> DEFINE e == <<c, adds[c] + 1>>
<1>1. adds[c] \in 0..MaxAdds /\ adds[c] < MaxAdds /\ pc[c] = "idle"
  BY DEF Add, TypeOK
<1>2. /\ adds'[c] = adds[c] + 1 /\ pc'[c] = "tap" /\ tapped' = tapped
      /\ \A d \in Callers \ {c} : adds'[d] = adds[d] /\ pc'[d] = pc[d]
  BY DEF Add, Goto, TypeOK
<1>3. e \in Entry /\ e \notin Accepted
  BY <1>1, WriterAssumption DEF Entry, Accepted
<1>4. Accepted' = Accepted \cup {e}
  BY AddAccepts
<1>5. Untapped' = Untapped \cup {e}
  <2>1. Untapped = {<<d, adds[d]>> : d \in {d \in Callers \ {c} : pc[d] = "tap"}}
    BY <1>1 DEF Untapped
  <2>2. Untapped' = {<<d, adds'[d]>> : d \in {d \in Callers : pc'[d] = "tap"}}
    BY DEF Untapped
  <2> QED BY <1>2, <2>1, <2>2
<1>6. Range(tapped) = Accepted \ Untapped /\ TapsInOrder
  BY DEF TapExact, Untapped, TapsInOrder
<1>7. Range(tapped') = Accepted' \ Untapped'
  BY <1>2, <1>3, <1>4, <1>5, <1>6
<1>8. TapsInOrder'
  BY <1>2, <1>6 DEF TapsInOrder
<1> QED BY <1>7, <1>8 DEF TapExact, Untapped, TapsInOrder

\* Add's tap: the caller's newest entry follows all its others.
LEMMA TapTap ==
    ASSUME TypeOK, TapExact, NEW c \in Callers, Tap(c)
    PROVE  TapExact'
<1> DEFINE e == <<c, adds[c]>>
<1>1. adds[c] \in 1..MaxAdds /\ pc[c] = "tap" /\ adds' = adds /\ tapped \in Seq(Entry)
  BY WriterAssumption DEF Tap, TypeOK
<1>2. pc'[c] = "idle" /\ \A d \in Callers \ {c} : pc'[d] = pc[d]
  BY DEF Tap, Goto, TypeOK
<1>3. e \in Entry /\ e \in Accepted /\ e \in Untapped
  BY <1>1, WriterAssumption DEF Entry, Accepted, Untapped
<1>4. /\ tapped' \in Seq(Entry) /\ Len(tapped') = Len(tapped) + 1 /\ Len(tapped) \in Nat
      /\ \A i \in 1..Len(tapped) : tapped'[i] = tapped[i]
      /\ tapped'[Len(tapped) + 1] = e
      /\ DOMAIN tapped = 1..Len(tapped) /\ DOMAIN tapped' = 1..Len(tapped')
  <2>1. tapped' = Append(tapped, e)
    BY DEF Tap, TappedBy
  <2> HIDE DEF e
  <2> QED BY <1>1, <1>3, <2>1, AppendProperties, LenProperties
<1>5. Range(tapped') = Range(tapped) \cup {e}
  <2>1. tapped' = Append(tapped, e)
    BY DEF Tap, TappedBy
  <2> HIDE DEF e
  <2> QED BY <1>1, <1>3, <2>1, RangeOfAppend
<1>6. Untapped' = Untapped \ {e} /\ Accepted' = Accepted
  <2>1. Untapped' = {<<d, adds[d]>> : d \in {d \in Callers : pc'[d] = "tap"}}
    BY <1>1 DEF Untapped
  <2>2. Untapped' = {<<d, adds[d]>> : d \in {d \in Callers \ {c} : pc[d] = "tap"}}
    BY <1>2, <2>1
  <2> QED BY <1>1, <2>2 DEF Untapped, Accepted
<1>7. Range(tapped) = Accepted \ Untapped /\ TapsInOrder
  BY DEF TapExact, Untapped, TapsInOrder
<1>8. Range(tapped') = Accepted' \ Untapped'
  BY <1>3, <1>5, <1>6, <1>7
<1>9. ASSUME NEW i \in 1..Len(tapped), tapped[i][1] = c PROVE tapped[i][2] < adds[c]
  <2>1. tapped[i] \in Range(tapped) /\ tapped[i] \in Entry
    BY <1>1, <1>4, RangeEquality, ElementOfSeq
  <2>2. tapped[i] \in Accepted /\ tapped[i] # e
    BY <1>3, <1>7, <2>1
  <2>3. tapped[i][2] <= adds[c] /\ tapped[i][2] # adds[c]
    BY <1>9, <2>1, <2>2 DEF Accepted, Entry
  <2> QED BY <1>1, <2>1, <2>3 DEF Entry
<1>10. TapsInOrder'
  <2> SUFFICES ASSUME NEW i \in 1..Len(tapped'), NEW j \in 1..Len(tapped'),
                      i < j, tapped'[i][1] = tapped'[j][1]
               PROVE  tapped'[i][2] < tapped'[j][2]
    BY <1>4 DEF TapsInOrder
  <2>1. i \in 1..Len(tapped) /\ tapped'[i] = tapped[i]
    BY <1>4
  <2>2. CASE j \in 1..Len(tapped)
    BY <1>4, <1>7, <2>1, <2>2 DEF TapsInOrder
  <2>3. CASE j = Len(tapped) + 1
    <3>1. tapped'[j][1] = c /\ tapped'[j][2] = adds[c]
      BY <1>4, <2>3
    <3> QED BY <1>9, <2>1, <3>1
  <2> QED BY <1>4, <2>2, <2>3
<1> QED BY <1>8, <1>10 DEF TapExact, Untapped, TapsInOrder

\* Every step keeps TapExact.
LEMMA TapStep == TypeOK /\ TapExact /\ [Next]_vars => TapExact'
<1> SUFFICES ASSUME TypeOK, TapExact, [Next]_vars PROVE TapExact'
  OBVIOUS
<1>1. ASSUME UNCHANGED callerVars PROVE TapExact'
  BY <1>1, TapQuiet DEF callerVars
<1>2. CASE Run \/ Stop
  BY <1>1, <1>2 DEF Run, Stop, Receive, Tick, Flush, StartDrain, Drain, EndDrain
<1>3. ASSUME NEW c \in Callers, Caller(c) PROVE TapExact'
  <2>1. CASE SyncSend(c) \/ SyncReturn(c) \/ Cancel(c) \/ GiveUp(c)
    <3>1. UNCHANGED <<adds, tapped>>
      BY <2>1 DEF SyncSend, SyncReturn, Cancel, GiveUp
    <3>2. \A d \in Callers : pc'[d] = "tap" <=> pc[d] = "tap"
      BY <2>1 DEF SyncSend, SyncReturn, Cancel, GiveUp, Goto, TypeOK
    <3> QED BY <3>1, <3>2, TapQuiet
  <2> QED BY <1>3, <2>1, TapAdd, TapTap DEF Caller
<1>4. CASE UNCHANGED vars
  BY <1>1, <1>4 DEF vars
<1> QED BY <1>2, <1>3, <1>4 DEF Next

\* For any callers: the forwarder is offered every accepted entry once and those
\* of a caller in their order; only calls of Add on their way are outstanding.
THEOREM TappedExactly == Spec => []TapExact
<1>1. Init => TypeOK /\ TapExact
  BY TypeInit, TapInit
<1>2. TypeOK /\ TapExact /\ [Next]_vars => TypeOK' /\ TapExact'
  BY TypeStep, TapStep
<1> QED BY <1>1, <1>2, PTL DEF Spec

-----------------------------------------------------------------------------
(* The channel.                                                            *)

\* The entries of a channel's requests, and that none is there twice.
EntriesOf(q) == {r.entry : r \in {x \in Range(q) : IsEntry(x)}}
NoneTwice(q) ==
    \A i, j \in DOMAIN q : IsEntry(q[i]) /\ q[i].entry = q[j].entry => i = j

\* A request appended to a channel that does not hold its entry.
LEMMA JoinsTheLine ==
    ASSUME NEW q \in Seq(WriteRequest), NEW r \in WriteRequest, NoneTwice(q),
           IsEntry(r) => r.entry \notin EntriesOf(q)
    PROVE  /\ NoneTwice(Append(q, r))
           /\ EntriesOf(Append(q, r)) = EntriesOf(q) \cup (IF IsEntry(r) THEN {r.entry} ELSE {})
<1> DEFINE p == Append(q, r)
<1>1. /\ p \in Seq(WriteRequest) /\ Len(p) = Len(q) + 1 /\ Len(q) \in Nat
      /\ \A i \in 1..Len(q) : p[i] = q[i]
      /\ p[Len(q) + 1] = r
  BY AppendProperties, LenProperties
<1>2. DOMAIN p = 1..(Len(q) + 1) /\ DOMAIN q = 1..Len(q)
  BY <1>1, LenProperties
<1>3. Range(p) = Range(q) \cup {r}
  BY RangeOfAppend
<1> HIDE DEF p
<1>4. EntriesOf(p) = EntriesOf(q) \cup (IF IsEntry(r) THEN {r.entry} ELSE {})
  BY <1>3 DEF EntriesOf
<1>5. ASSUME NEW i \in 1..Len(q), IsEntry(q[i]) \/ IsEntry(r) PROVE q[i].entry # r.entry
  <2>1. q[i] \in Range(q)
    BY RangeEquality
  <2> QED BY <1>5, <2>1 DEF EntriesOf, IsEntry
<1>6. ASSUME NEW i \in 1..(Len(q) + 1), NEW j \in 1..(Len(q) + 1),
             IsEntry(p[i]), p[i].entry = p[j].entry
      PROVE  i = j
  <2>1. CASE i \in 1..Len(q) /\ j \in 1..Len(q)
    BY <1>1, <1>2, <1>6, <2>1 DEF NoneTwice
  <2>2. CASE i \in 1..Len(q) /\ j = Len(q) + 1
    BY <1>1, <1>5, <1>6, <2>2
  <2>3. CASE i = Len(q) + 1 /\ j \in 1..Len(q)
    BY <1>1, <1>5, <1>6, <2>3
  <2> QED BY <1>1, <2>1, <2>2, <2>3
<1>7. NoneTwice(p)
  BY <1>2, <1>6 DEF NoneTwice
<1> QED BY <1>4, <1>7 DEF p

\* A request taken from the front of the channel.
LEMMA LeavesTheLine ==
    ASSUME NEW q \in Seq(WriteRequest), q # <<>>, NoneTwice(q)
    PROVE  /\ NoneTwice(Tail(q))
           /\ EntriesOf(q) = EntriesOf(Tail(q))
                             \cup (IF IsEntry(Head(q)) THEN {Head(q).entry} ELSE {})
           /\ IsEntry(Head(q)) => Head(q).entry \notin EntriesOf(Tail(q))
<1>1. /\ Tail(q) \in Seq(WriteRequest) /\ Len(Tail(q)) = Len(q) - 1 /\ Len(q) \in Nat \ {0}
      /\ Head(q) = q[1] /\ \A i \in 1..Len(Tail(q)) : Tail(q)[i] = q[i + 1]
  BY HeadAndTail
<1>2. DOMAIN Tail(q) = 1..Len(Tail(q)) /\ DOMAIN q = 1..Len(q)
  BY <1>1, LenProperties
<1>3. NoneTwice(Tail(q))
  <2> SUFFICES ASSUME NEW i \in 1..Len(Tail(q)), NEW j \in 1..Len(Tail(q)),
                      IsEntry(Tail(q)[i]), Tail(q)[i].entry = Tail(q)[j].entry
               PROVE  i = j
    BY <1>2 DEF NoneTwice
  <2>1. /\ i + 1 \in DOMAIN q /\ j + 1 \in DOMAIN q
        /\ IsEntry(q[i + 1]) /\ q[i + 1].entry = q[j + 1].entry
    BY <1>1, <1>2
  <2>2. i + 1 = j + 1
    BY <2>1 DEF NoneTwice
  <2> QED BY <1>1, <2>2
<1>4. Range(q) = {Head(q)} \cup Range(Tail(q))
  BY RangeOfHeadTail
<1>5. ASSUME IsEntry(Head(q)), Head(q).entry \in EntriesOf(Tail(q)) PROVE FALSE
  <2>1. PICK i \in 1..Len(Tail(q)) : Tail(q)[i].entry = Head(q).entry
    <3>1. PICK x \in Range(Tail(q)) : x.entry = Head(q).entry
      BY <1>5 DEF EntriesOf
    <3>2. Range(Tail(q)) = {Tail(q)[i] : i \in 1..Len(Tail(q))}
      BY <1>1, RangeEquality
    <3> QED BY <3>1, <3>2
  <2>2. 1 \in DOMAIN q /\ i + 1 \in DOMAIN q /\ q[1].entry = q[i + 1].entry /\ IsEntry(q[1])
    BY <1>1, <1>2, <1>5, <2>1
  <2>3. 1 = i + 1
    BY <2>2 DEF NoneTwice
  <2> QED BY <2>3
<1> QED BY <1>3, <1>4, <1>5 DEF EntriesOf

-----------------------------------------------------------------------------
(* OncePlaced and the steps.                                               *)

\* OncePlaced, with the four places named.
LEMMA PlacedParts ==
    OncePlaced <=>
      /\ Accepted = EntriesOf(requests) \cup Range(batch) \cup Settled
      /\ NoneTwice(requests) /\ IsInjective(batch) /\ IsInjective(entries)
      /\ EntriesOf(requests) \cap (Range(batch) \cup Settled) = {}
      /\ Range(batch) \cap Settled = {} /\ Stored \cap lost = {}
BY DEF OncePlaced, EntriesOf, NoneTwice, Queued

\* Nothing is accepted at the start.
LEMMA PlacedInit == Init => OncePlaced
<1> SUFFICES ASSUME Init PROVE OncePlaced
  OBVIOUS
<1>1. Range(<<>>) = {} /\ DOMAIN <<>> = {}
  BY RangeOfEmpty, EmptySeq
<1>2. Accepted = {}
  BY DEF Init, Accepted, Entry
<1> QED BY <1>1, <1>2 DEF Init, OncePlaced, Queued, Settled, Stored, IsInjective

\* Add: the entry is new, so it is nowhere yet.
LEMMA PlacedAdd ==
    ASSUME TypeOK, OncePlaced, NEW c \in Callers, Add(c)
    PROVE  OncePlaced'
<1> DEFINE e == <<c, adds[c] + 1>>
<1>1. requests \in Seq(WriteRequest)
  BY DEF TypeOK
<1>3. e \in Entry /\ e \notin Accepted
  BY AddAccepts
<1>4. Accepted' = Accepted \cup {e}
  BY AddAccepts
<1>5. requests' = Append(requests, EntryRequest(e))
  BY DEF Add, Enqueue
<1>6. EntryRequest(e) \in WriteRequest /\ EntryRequest(e).entry = e /\ IsEntry(EntryRequest(e))
  BY <1>3, RequestTypes, WriterAssumption DEF IsEntry, Entry
<1> HIDE DEF e
<1>7. e \notin EntriesOf(requests)
  BY <1>3, PlacedParts
<1>8. NoneTwice(requests') /\ EntriesOf(requests') = EntriesOf(requests) \cup {e}
  BY <1>1, <1>5, <1>6, <1>7, JoinsTheLine, PlacedParts
<1>9. batch' = batch /\ entries' = entries /\ lost' = lost
  BY DEF Add, runVars
<1>10. Range(batch') = Range(batch) /\ Settled' = Settled /\ Stored' = Stored
  BY <1>9 DEF Settled, Stored
<1>11. /\ Accepted' = EntriesOf(requests') \cup Range(batch') \cup Settled'
       /\ EntriesOf(requests') \cap (Range(batch') \cup Settled') = {}
  BY <1>3, <1>4, <1>8, <1>10, PlacedParts
<1> QED BY <1>8, <1>9, <1>10, <1>11, PlacedParts DEF OncePlaced, EntriesOf, NoneTwice, Queued

\* Sync: its request carries no entry.
LEMMA PlacedSyncSend ==
    ASSUME TypeOK, OncePlaced, NEW c \in Callers, SyncSend(c)
    PROVE  OncePlaced'
<1>1. requests' = Append(requests, SyncRequest(c)) /\ requests \in Seq(WriteRequest)
  BY DEF SyncSend, Enqueue, TypeOK
<1>2. SyncRequest(c) \in WriteRequest /\ ~IsEntry(SyncRequest(c))
  BY RequestTypes DEF IsEntry
<1>3. NoneTwice(requests') /\ EntriesOf(requests') = EntriesOf(requests)
  BY <1>1, <1>2, JoinsTheLine, PlacedParts
<1>4. UNCHANGED <<batch, entries, lost, adds>>
  BY DEF SyncSend, runVars
<1>5. Accepted' = Accepted /\ Settled' = Settled /\ Stored' = Stored
  BY <1>4 DEF Accepted, Settled, Stored
<1>6. /\ Accepted' = EntriesOf(requests') \cup Range(batch') \cup Settled'
      /\ EntriesOf(requests') \cap (Range(batch') \cup Settled') = {}
  BY <1>3, <1>4, <1>5, PlacedParts
<1> QED BY <1>3, <1>4, <1>5, <1>6, PlacedParts DEF OncePlaced, EntriesOf, NoneTwice, Queued

\* Receive and Drain: the head of the line goes to the end of the batch.
LEMMA PlacedMoveUp ==
    ASSUME TypeOK, OncePlaced, requests # <<>>, requests' = Tail(requests),
           batch' = WithEntry(batch, Head(requests)), UNCHANGED <<entries, lost, adds>>
    PROVE  OncePlaced'
<1> DEFINE r == Head(requests)
           new == IF IsEntry(r) THEN {r.entry} ELSE {}
<1>1. r \in WriteRequest /\ requests \in Seq(WriteRequest) /\ batch \in Seq(Entry)
  BY HeadAndTail DEF TypeOK
<1>2. /\ NoneTwice(requests') /\ EntriesOf(requests) = EntriesOf(requests') \cup new
      /\ new \cap EntriesOf(requests') = {}
  BY <1>1, LeavesTheLine, PlacedParts
<1>3. Range(batch') = Range(batch) \cup new
  BY <1>1, WithEntryType
<1>4. IsInjective(batch')
  <2>1. CASE IsEntry(r)
    <3>1. r.entry \in Entry /\ batch' = Append(batch, r.entry)
      BY <1>1, <2>1, RequestTypes DEF WithEntry
    <3>2. r.entry \notin Range(batch) /\ IsInjective(batch)
      BY <1>2, <2>1, PlacedParts
    <3> HIDE DEF r
    <3> QED BY <1>1, <3>1, <3>2, InjectiveAppend
  <2>2. CASE ~IsEntry(r)
    BY <2>2, PlacedParts DEF WithEntry
  <2> QED BY <2>1, <2>2
<1>5. Accepted' = Accepted /\ Settled' = Settled /\ Stored' = Stored
  BY DEF Accepted, Settled, Stored
<1> HIDE DEF new, r
<1>6. /\ Accepted' = EntriesOf(requests') \cup Range(batch') \cup Settled'
      /\ EntriesOf(requests') \cap (Range(batch') \cup Settled') = {}
      /\ Range(batch') \cap Settled' = {} /\ Stored' \cap lost' = {}
  BY <1>2, <1>3, <1>5, PlacedParts
<1> QED BY <1>2, <1>4, <1>6, PlacedParts DEF OncePlaced, EntriesOf, NoneTwice, Queued

\* flush: the batch goes to the table or is refused, as a whole.
LEMMA PlacedFlush ==
    ASSUME TypeOK, OncePlaced, NEW ok \in BOOLEAN, Flush(ok)
    PROVE  OncePlaced'
<1>1. batch \in Seq(Entry) /\ entries \in Seq(Entry)
  BY DEF TypeOK
<1>2. requests' = requests /\ Accepted' = Accepted /\ batch' = <<>>
  BY DEF Flush, NoBatch, callerVars, Accepted
<1>3. Range(batch') = {} /\ IsInjective(batch')
  <2>1. DOMAIN <<>> = {}
    BY EmptySeq
  <2> QED BY <1>2, <2>1, RangeOfEmpty DEF IsInjective
<1>4. /\ IsInjective(entries') /\ Stored' \cap lost' = {}
      /\ Settled' = Settled \cup Range(batch)
  <2>1. CASE ok
    <3>1. entries' = entries \o batch /\ lost' = lost
      BY <2>1 DEF Flush
    <3>2. Stored' = Stored \cup Range(batch)
      BY <1>1, <3>1, RangeOfConcat DEF Stored
    <3>3. IsInjective(entries')
      BY <1>1, <3>1, InjectiveConcat, PlacedParts DEF Settled, Stored
    <3> QED BY <3>1, <3>2, <3>3, PlacedParts DEF Settled
  <2>2. CASE ~ok
    <3>1. entries' = entries /\ lost' = lost \cup Range(batch)
      BY <2>2 DEF Flush
    <3>2. Stored' = Stored
      BY <3>1 DEF Stored
    <3> QED BY <3>1, <3>2, PlacedParts DEF Settled
  <2> QED BY <2>1, <2>2
<1>5. /\ Accepted' = EntriesOf(requests') \cup Range(batch') \cup Settled'
      /\ EntriesOf(requests') \cap (Range(batch') \cup Settled') = {}
      /\ NoneTwice(requests')
  BY <1>2, <1>3, <1>4, PlacedParts
<1> QED BY <1>3, <1>4, <1>5 DEF OncePlaced, EntriesOf, NoneTwice, Queued

\* Every step moves an entry to one place at most.
LEMMA PlacedStep == TypeOK /\ OncePlaced /\ [Next]_vars => OncePlaced'
<1> SUFFICES ASSUME TypeOK, OncePlaced, [Next]_vars PROVE OncePlaced'
  OBVIOUS
<1>1. ASSUME UNCHANGED <<requests, batch, entries, lost, adds>> PROVE OncePlaced'
  BY <1>1 DEF OncePlaced, Queued, Accepted, Settled, Stored
<1>2. CASE Run
  <2>1. CASE Tick \/ StartDrain \/ EndDrain
    BY <1>1, <2>1 DEF Tick, StartDrain, EndDrain, callerVars
  <2>2. CASE Receive \/ Drain
    BY <2>2, PlacedMoveUp DEF Receive, Drain, callerVars
  <2> QED BY <1>2, <2>1, <2>2, PlacedFlush DEF Run
<1>3. CASE Stop \/ UNCHANGED vars
  BY <1>1, <1>3 DEF Stop, callerVars, vars, runVars
<1>4. ASSUME NEW c \in Callers, Caller(c) PROVE OncePlaced'
  <2>1. CASE Tap(c) \/ SyncReturn(c) \/ Cancel(c) \/ GiveUp(c)
    BY <1>1, <2>1 DEF Tap, SyncReturn, Cancel, GiveUp, runVars
  <2> QED BY <1>4, <2>1, PlacedAdd, PlacedSyncSend DEF Caller
<1> QED BY <1>2, <1>3, <1>4 DEF Next

\* Run neither forgets an entry nor writes one twice: each accepted one is queued,
\* in the batch, in the table or in a refused batch, and there only once.
THEOREM OnlyOnePlace == Spec => []OncePlaced
<1>1. Init => TypeOK /\ OncePlaced
  BY TypeInit, PlacedInit
<1>2. TypeOK /\ OncePlaced /\ [Next]_vars => TypeOK' /\ OncePlaced'
  BY TypeStep, PlacedStep
<1> QED BY <1>1, <1>2, PTL DEF Spec
-----------------------------------------------------------------------------
(* The line of the entries in the channel. EntryPlaces(q) and the ranks of *)
(* its members number each other off, so that Line(q) is a sequence; its   *)
(* k-th element is found at the place of rank k.                           *)

\* As many after a shift by one place.
LEMMA ShiftedSize ==
    ASSUME NEW S \in SUBSET Nat, IsFiniteSet(S)
    PROVE  /\ IsFiniteSet({x + 1 : x \in S})
           /\ Cardinality({x + 1 : x \in S}) = Cardinality(S)
<1> DEFINE T == {x + 1 : x \in S}
           f == [x \in S |-> x + 1]
<1>1. f \in Bijection(S, T)
  <2>1. f \in Surjection(S, T)
    BY DEF Surjection
  <2>2. f \in [S -> T] /\ DOMAIN f = S /\ \A x, y \in S : f[x] = f[y] => x = y
    OBVIOUS
  <2>3. f \in Injection(S, T)
    BY <2>2 DEF Injection, IsInjective
  <2> QED BY <2>1, <2>3 DEF Bijection
<1> QED BY <1>1, FS_Bijection DEF ExistsBijection

\* One more with something at the first place.
LEMMA ShiftedAndFirst ==
    ASSUME NEW S \in SUBSET (Nat \ {0}), IsFiniteSet(S), NEW first \in {{}, {1}}
    PROVE  /\ Cardinality(S) \in Nat
           /\ Cardinality(first \cup {x + 1 : x \in S}) =
                 Cardinality(S) + (IF first = {} THEN 0 ELSE 1)
<1> DEFINE T == {x + 1 : x \in S}
<1>1. IsFiniteSet(T) /\ Cardinality(T) = Cardinality(S)
  BY ShiftedSize
<1>2. Cardinality(S) \in Nat
  BY FS_CardinalityType
<1>3. 1 \notin T
  OBVIOUS
<1> HIDE DEF T
<1>4. Cardinality(T \cup {1}) = Cardinality(T) + 1
  BY <1>1, <1>3, FS_AddElement
<1>5. {1} \cup T = T \cup {1} /\ {} \cup T = T /\ {1} # {}
  OBVIOUS
<1>6. Cardinality(first \cup T) = Cardinality(S) + (IF first = {} THEN 0 ELSE 1)
  BY <1>1, <1>2, <1>4, <1>5
<1> QED BY <1>2, <1>6 DEF T

\* The ranks of the places are 1, 2, ... without a gap.
LEMMA Ranks ==
    ASSUME NEW q \in Seq(WriteRequest)
    PROVE  /\ IsFiniteSet(EntryPlaces(q)) /\ Cardinality(EntryPlaces(q)) \in Nat
           /\ \A i \in EntryPlaces(q) : Rank(q, i) \in 1..Cardinality(EntryPlaces(q))
           /\ \A i, j \in EntryPlaces(q) : Rank(q, i) = Rank(q, j) => i = j
           /\ \A k \in 1..Cardinality(EntryPlaces(q)) :
                 \E i \in EntryPlaces(q) : Rank(q, i) = k
<1> DEFINE P == EntryPlaces(q)
           upTo(i) == {j \in P : j <= i}
           rank == [i \in P |-> Rank(q, i)]
<1>1. Len(q) \in Nat /\ DOMAIN q = 1..Len(q)
  BY LenProperties
<1>2. P \in SUBSET (1..Len(q)) /\ P \subseteq Nat
  BY <1>1 DEF EntryPlaces
<1>3. IsFiniteSet(P) /\ Cardinality(P) \in Nat
  <2>1. IsFiniteSet(1..Len(q))
    BY <1>1, FS_Interval
  <2>2. IsFiniteSet(P)
    BY <1>2, <2>1, FS_Subset
  <2> QED BY <2>2, FS_CardinalityType
<1>4. ASSUME NEW i \in P
      PROVE  /\ IsFiniteSet(upTo(i)) /\ Cardinality(upTo(i)) \in Nat
             /\ Cardinality(upTo(i)) <= Cardinality(P) /\ Cardinality(upTo(i)) # 0
  <2>1. upTo(i) \in SUBSET P /\ i \in upTo(i)
    BY <1>2
  <2>2. IsFiniteSet(upTo(i)) /\ Cardinality(upTo(i)) <= Cardinality(P)
    BY <1>3, <2>1, FS_Subset
  <2>3. Cardinality(upTo(i)) \in Nat /\ Cardinality(upTo(i)) # 0
    BY <2>1, <2>2, FS_CardinalityType, FS_EmptySet
  <2> QED BY <2>2, <2>3
<1>5. \A i \in P : Rank(q, i) = Cardinality(upTo(i))
  BY DEF Rank
<1>6. \A i \in P : Rank(q, i) \in 1..Cardinality(P)
  <2> SUFFICES ASSUME NEW i \in P PROVE Rank(q, i) \in 1..Cardinality(P)
    OBVIOUS
  <2> HIDE DEF P, upTo
  <2> QED BY <1>3, <1>4, <1>5
<1>7. ASSUME NEW i \in P, NEW j \in P, i < j PROVE Rank(q, i) # Rank(q, j)
  <2>1. upTo(i) \in SUBSET upTo(j) /\ j \in upTo(j) /\ j \notin upTo(i)
    BY <1>2, <1>7
  <2>2. Cardinality(upTo(j)) # Cardinality(upTo(i))
    BY <1>4, <2>1, FS_Subset
  <2> QED BY <1>5, <2>2
<1>8. \A i, j \in P : Rank(q, i) = Rank(q, j) => i = j
  BY <1>2, <1>7
<1>9. rank \in Injection(P, 1..Cardinality(P))
  <2>1. rank \in [P -> 1..Cardinality(P)] /\ DOMAIN rank = P
    BY <1>6
  <2>2. IsInjective(rank)
    BY <1>8, <2>1 DEF IsInjective
  <2> QED BY <2>1, <2>2 DEF Injection
<1>10. rank \in Surjection(P, 1..Cardinality(P))
  <2>1. IsFiniteSet(1..Cardinality(P)) /\ Cardinality(1..Cardinality(P)) = Cardinality(P)
    BY <1>3, FS_Interval
  <2> QED BY <1>9, <2>1, FS_Injection
<1>11. \A k \in 1..Cardinality(P) : \E i \in P : Rank(q, i) = k
  BY <1>10 DEF Surjection
<1> QED BY <1>3, <1>6, <1>8, <1>11

\* The line is a sequence of the entries in the channel; each stands at its rank.
LEMMA LineIsTheEntries ==
    ASSUME NEW q \in Seq(WriteRequest)
    PROVE  /\ Line(q) \in Seq(Entry) /\ Len(Line(q)) = Cardinality(EntryPlaces(q))
           /\ DOMAIN Line(q) = 1..Cardinality(EntryPlaces(q))
           /\ \A i \in EntryPlaces(q) : Line(q)[Rank(q, i)] = q[i].entry
           /\ Range(Line(q)) = EntriesOf(q)
<1> DEFINE P == EntryPlaces(q)
           m == Cardinality(P)
           at(k) == CHOOSE i \in P : Rank(q, i) = k
<1>1. m \in Nat /\ Line(q) = [k \in 1..m |-> q[at(k)].entry]
  BY Ranks DEF Line
<1>2. \A k \in 1..m : at(k) \in P /\ Rank(q, at(k)) = k
  BY Ranks
<1>3. \A i \in P : Rank(q, i) \in 1..m /\ at(Rank(q, i)) = i
  BY <1>2, Ranks
<1>4. DOMAIN q = 1..Len(q) /\ \A i \in P : i \in DOMAIN q /\ q[i] \in WriteRequest /\ IsEntry(q[i])
  BY LenProperties, ElementOfSeq DEF EntryPlaces
<1>5. \A i \in P : q[i].entry \in Entry
  BY <1>4, RequestTypes DEF IsEntry
<1> HIDE DEF at, m
<1>6. Line(q) \in [1..m -> Entry]
  BY <1>1, <1>2, <1>5
<1>7. Line(q) \in Seq(Entry) /\ Len(Line(q)) = m /\ DOMAIN Line(q) = 1..m
  BY <1>1, <1>6, SeqDef, LenProperties
<1>8. \A i \in P : Line(q)[Rank(q, i)] = q[i].entry
  BY <1>1, <1>3
<1>9. Range(Line(q)) = {q[i].entry : i \in P}
  <2>1. Range(Line(q)) = {Line(q)[k] : k \in 1..m}
    BY <1>7 DEF Range
  <2> QED BY <1>1, <1>2, <1>3, <2>1
<1>10. EntriesOf(q) = {q[i].entry : i \in P}
  BY DEF EntriesOf, EntryPlaces, Range
<1> QED BY <1>7, <1>8, <1>9, <1>10 DEF m

\* The line with one more request in the channel.
LEMMA LineOfAppend ==
    ASSUME NEW q \in Seq(WriteRequest), NEW r \in WriteRequest
    PROVE  Line(Append(q, r)) = IF IsEntry(r) THEN Append(Line(q), r.entry) ELSE Line(q)
<1> DEFINE p == Append(q, r)
           P == EntryPlaces(q)
           n == Len(q) + 1
<1>1. /\ p \in Seq(WriteRequest) /\ Len(q) \in Nat
      /\ DOMAIN p = 1..n /\ DOMAIN q = 1..Len(q)
      /\ \A i \in 1..Len(q) : p[i] = q[i]
      /\ p[n] = r
  BY AppendProperties, LenProperties
<1> HIDE DEF p
<1>2. EntryPlaces(p) = P \cup (IF IsEntry(r) THEN {n} ELSE {})
  BY <1>1 DEF EntryPlaces
<1>3. P \subseteq 1..Len(q) /\ n \notin P
  BY <1>1 DEF EntryPlaces
<1>4. \A i \in P : Rank(p, i) = Rank(q, i)
  <2> SUFFICES ASSUME NEW i \in P PROVE Rank(p, i) = Rank(q, i)
    OBVIOUS
  <2>1. {j \in EntryPlaces(p) : j <= i} = {j \in P : j <= i}
    BY <1>1, <1>2, <1>3
  <2> QED BY <2>1 DEF Rank
<1>5. IsFiniteSet(P) /\ Cardinality(P) \in Nat
  BY Ranks
<1>6. \A i \in P : Line(p)[Rank(q, i)] = Line(q)[Rank(q, i)]
  <2> SUFFICES ASSUME NEW i \in P PROVE Line(p)[Rank(q, i)] = Line(q)[Rank(q, i)]
    OBVIOUS
  <2>1. i \in EntryPlaces(p) /\ p[i] = q[i]
    BY <1>1, <1>2, <1>3
  <2>2. Line(p)[Rank(p, i)] = p[i].entry /\ Line(q)[Rank(q, i)] = q[i].entry
    BY <1>1, <2>1, LineIsTheEntries
  <2> QED BY <1>4, <2>1, <2>2
<1>7. \A k \in 1..Cardinality(P) : Line(p)[k] = Line(q)[k]
  BY <1>6, Ranks
<1>8. Line(q) \in Seq(Entry) /\ Len(Line(q)) = Cardinality(P)
  BY LineIsTheEntries
<1>9. Line(p) \in Seq(Entry) /\ Len(Line(p)) = Cardinality(EntryPlaces(p))
  BY <1>1, LineIsTheEntries
<1>10. CASE IsEntry(r)
  <2>1. Cardinality(EntryPlaces(p)) = Cardinality(P) + 1
    BY <1>2, <1>3, <1>5, <1>10, FS_AddElement
  <2>2. {j \in EntryPlaces(p) : j <= n} = EntryPlaces(p)
    BY <1>1, <1>2, <1>3
  <2>3. Rank(p, n) = Cardinality(P) + 1 /\ n \in EntryPlaces(p)
    BY <1>2, <1>10, <2>1, <2>2 DEF Rank
  <2>4. Line(p)[Cardinality(P) + 1] = r.entry
    BY <1>1, <2>3, LineIsTheEntries
  <2>5. r.entry \in Entry
    BY <1>10, RequestTypes DEF IsEntry
  <2>6. /\ Append(Line(q), r.entry) \in Seq(Entry)
        /\ Len(Append(Line(q), r.entry)) = Cardinality(P) + 1
        /\ \A k \in 1..Cardinality(P) : Append(Line(q), r.entry)[k] = Line(q)[k]
        /\ Append(Line(q), r.entry)[Cardinality(P) + 1] = r.entry
    BY <1>8, <2>5, AppendProperties
  <2>7. \A k \in 1..(Cardinality(P) + 1) : Line(p)[k] = Append(Line(q), r.entry)[k]
    BY <1>5, <1>7, <2>4, <2>6
  <2>8. Line(p) = Append(Line(q), r.entry)
    BY <1>9, <2>1, <2>6, <2>7, SeqEqual
  <2> QED BY <1>10, <2>8 DEF p
<1>11. CASE ~IsEntry(r)
  <2>1. Cardinality(EntryPlaces(p)) = Cardinality(P)
    BY <1>2, <1>11
  <2>2. Line(p) = Line(q)
    BY <1>7, <1>8, <1>9, <2>1, SeqEqual
  <2> QED BY <1>11, <2>2 DEF p
<1> QED BY <1>10, <1>11
\* The line when the first request leaves the channel.
LEMMA LineOfTail ==
    ASSUME NEW q \in Seq(WriteRequest), q # <<>>
    PROVE  Line(q) = IF IsEntry(Head(q)) THEN <<Head(q).entry>> \o Line(Tail(q))
                                         ELSE Line(Tail(q))
<1> DEFINE t == Tail(q)
           P == EntryPlaces(q)
           Q == EntryPlaces(t)
           first == IF IsEntry(Head(q)) THEN {1} ELSE {}
           d == IF first = {} THEN 0 ELSE 1
<1>1. /\ t \in Seq(WriteRequest) /\ Len(q) \in Nat \ {0} /\ Len(t) = Len(q) - 1
      /\ DOMAIN t = 1..Len(t) /\ DOMAIN q = 1..Len(q)
      /\ Head(q) = q[1] /\ \A i \in 1..Len(t) : t[i] = q[i + 1]
  BY HeadAndTail, LenProperties
<1> HIDE DEF t
<1>2. Q \subseteq 1..Len(t) /\ P \subseteq 1..Len(q)
  BY <1>1 DEF EntryPlaces
<1>3. P = first \cup {i + 1 : i \in Q}
  <2>1. ASSUME NEW i \in P PROVE i \in first \/ \E j \in Q : i = j + 1
    <3>1. CASE i = 1
      BY <1>1, <3>1 DEF EntryPlaces
    <3>2. CASE i # 1
      <4>1. i - 1 \in 1..Len(t) /\ i = (i - 1) + 1
        BY <1>1, <1>2, <3>2
      <4>2. i - 1 \in Q
        BY <1>1, <4>1 DEF EntryPlaces
      <4> QED BY <4>1, <4>2
    <3> QED BY <3>1, <3>2
  <2>2. ASSUME NEW j \in Q PROVE j + 1 \in P
    BY <1>1, <1>2 DEF EntryPlaces
  <2>3. first \subseteq P
    BY <1>1 DEF EntryPlaces
  <2> QED BY <2>1, <2>2, <2>3
<1>4. first \in {{}, {1}} /\ d = IF IsEntry(Head(q)) THEN 1 ELSE 0
  OBVIOUS
<1>5. \A i \in Q : Rank(q, i + 1) = Rank(t, i) + d
  <2> SUFFICES ASSUME NEW i \in Q PROVE Rank(q, i + 1) = Rank(t, i) + d
    OBVIOUS
  <2> DEFINE S == {j \in Q : j <= i}
  <2>1. S \in SUBSET Q /\ S \in SUBSET (Nat \ {0})
    BY <1>1, <1>2
  <2>2. IsFiniteSet(S)
    BY <1>1, <2>1, Ranks, FS_Subset
  <2>3. {j \in P : j <= i + 1} = first \cup {j + 1 : j \in S}
    BY <1>1, <1>2, <1>3
  <2> HIDE DEF S, first
  <2>4. Cardinality({j \in P : j <= i + 1}) = Cardinality(S) + d
    BY <1>4, <2>1, <2>2, <2>3, ShiftedAndFirst
  <2> QED BY <2>4 DEF Rank, S
<1>6. Cardinality(Q) \in Nat /\ Cardinality(P) = Cardinality(Q) + d
  <2>1. IsFiniteSet(Q) /\ Q \in SUBSET (Nat \ {0})
    BY <1>1, <1>2, Ranks
  <2> HIDE DEF P, Q, first
  <2> QED BY <1>3, <1>4, <2>1, ShiftedAndFirst
<1>7. /\ Line(t) \in Seq(Entry) /\ Len(Line(t)) = Cardinality(Q)
      /\ Line(q) \in Seq(Entry) /\ Len(Line(q)) = Cardinality(P)
  BY <1>1, LineIsTheEntries
<1>8. \A k \in 1..Cardinality(Q) : Line(q)[k + d] = Line(t)[k]
  <2> SUFFICES ASSUME NEW k \in 1..Cardinality(Q) PROVE Line(q)[k + d] = Line(t)[k]
    OBVIOUS
  <2>1. PICK i \in Q : Rank(t, i) = k
    BY <1>1, Ranks
  <2>2. i + 1 \in P /\ q[i + 1] = t[i]
    BY <1>1, <1>2, <1>3
  <2>3. Line(t)[k] = t[i].entry
    BY <1>1, <2>1, LineIsTheEntries
  <2>4. Line(q)[k + d] = q[i + 1].entry
    BY <1>5, <2>1, <2>2, LineIsTheEntries
  <2> QED BY <2>2, <2>3, <2>4
<1>9. CASE IsEntry(Head(q))
  <2> DEFINE e == Head(q).entry
  <2>1. d = 1 /\ 1 \in P
    BY <1>3, <1>4, <1>9
  <2>2. {j \in P : j <= 1} = {1}
    BY <1>2, <2>1
  <2>3. Rank(q, 1) = 1
    BY <2>2, FS_Singleton DEF Rank
  <2>4. Line(q)[1] = e
    BY <1>1, <2>1, <2>3, LineIsTheEntries
  <2>5. e \in Entry
    BY <1>1, <1>9, RequestTypes, HeadAndTail DEF IsEntry
  <2> HIDE DEF e
  <2>6. <<e>> \in Seq(Entry) /\ Len(<<e>>) = 1 /\ <<e>>[1] = e
    BY <2>5
  <2>7. /\ <<e>> \o Line(t) \in Seq(Entry)
        /\ Len(<<e>> \o Line(t)) = 1 + Cardinality(Q)
        /\ \A k \in 1..(1 + Cardinality(Q)) :
              (<<e>> \o Line(t))[k] = IF k <= 1 THEN e ELSE Line(t)[k - 1]
    BY <1>7, <2>6, ConcatProperties
  <2>8. \A k \in 1..(1 + Cardinality(Q)) : Line(q)[k] = (<<e>> \o Line(t))[k]
    <3> SUFFICES ASSUME NEW k \in 1..(1 + Cardinality(Q))
                 PROVE  Line(q)[k] = (<<e>> \o Line(t))[k]
      OBVIOUS
    <3>1. CASE k = 1
      BY <2>4, <2>7, <3>1, <1>6
    <3>2. CASE k # 1
      <4>1. k - 1 \in 1..Cardinality(Q) /\ (k - 1) + 1 = k
        BY <1>6, <3>2
      <4>2. Line(q)[k] = Line(t)[k - 1]
        BY <1>8, <2>1, <4>1
      <4> QED BY <2>7, <3>2, <4>1, <4>2
    <3> QED BY <3>1, <3>2
  <2>9. Line(q) = <<e>> \o Line(t)
    <3>1. Len(Line(q)) = 1 + Cardinality(Q)
      BY <1>6, <1>7, <2>1
    <3> HIDE DEF P, Q, first
    <3> QED BY <1>7, <2>7, <2>8, <3>1, SeqEqual
  <2> QED BY <1>9, <2>9 DEF t, e
<1>10. CASE ~IsEntry(Head(q))
  <2>1. d = 0
    BY <1>4, <1>10
  <2>2. \A k \in 1..Cardinality(Q) : Line(q)[k] = Line(t)[k]
    BY <1>6, <1>8, <2>1
  <2>3. Line(q) = Line(t)
    BY <1>6, <1>7, <2>1, <2>2, SeqEqual
  <2> QED BY <1>10, <2>3 DEF t
<1> QED BY <1>9, <1>10
-----------------------------------------------------------------------------
(* The ordered log AcceptedLog. Its line is the batch and the channel: Add *)
(* joins at the end, Receive and Drain move the boundary between the two   *)
(* and leave the line as it is, flush settles the front.                   *)

\* The line starts empty.
LEMMA LogInit == Init => Log!Init
<1> SUFFICES ASSUME Init PROVE Log!Init
  OBVIOUS
<1>1. requests = <<>> /\ batch = <<>> /\ entries = <<>> /\ lost = {}
  BY DEF Init
<1>2. Line(<<>>) = <<>>
  <2>1. EntryPlaces(<<>>) = {} /\ <<>> \in Seq(WriteRequest)
    BY EmptySeq DEF EntryPlaces
  <2>2. Len(Line(<<>>)) = 0 /\ Line(<<>>) \in Seq(Entry)
    BY <2>1, LineIsTheEntries, FS_EmptySet
  <2> QED BY <2>2, EmptySeq
<1>3. <<>> \o <<>> = <<>>
  BY ConcatEmptySeq, EmptySeq
<1> QED BY <1>1, <1>2, <1>3 DEF Log!Init

\* Nothing the log sees.
LEMMA LogStutters ==
    ASSUME UNCHANGED <<batch \o Line(requests), entries, lost>>
    PROVE  UNCHANGED Log!vars
BY DEF Log!vars

\* Add accepts an entry the line has not seen.
LEMMA LogAdd ==
    ASSUME TypeOK, OncePlaced, NEW c \in Callers, Add(c)
    PROVE  Log!Next
<1> DEFINE e == <<c, adds[c] + 1>>
           line == batch \o Line(requests)
<1>1. requests \in Seq(WriteRequest) /\ batch \in Seq(Entry)
  BY DEF TypeOK
<1>2. e \in Entry /\ e \notin Accepted
  BY AddAccepts
<1>3. requests' = Append(requests, EntryRequest(e)) /\ UNCHANGED <<batch, entries, lost>>
  BY DEF Add, Enqueue, runVars
<1>4. EntryRequest(e) \in WriteRequest /\ EntryRequest(e).entry = e /\ IsEntry(EntryRequest(e))
  BY <1>2, RequestTypes, WriterAssumption DEF IsEntry, Entry
<1> HIDE DEF e
<1>5. Line(requests') = Append(Line(requests), e)
  BY <1>1, <1>3, <1>4, LineOfAppend
<1>6. Line(requests) \in Seq(Entry) /\ Range(Line(requests)) = EntriesOf(requests)
  BY <1>1, LineIsTheEntries
<1>7. line' = Append(line, e)
  <2>1. batch \o Append(Line(requests), e) = Append(batch \o Line(requests), e)
    BY <1>1, <1>2, <1>6
  <2> QED BY <1>3, <1>5, <2>1
<1>8. Range(line) = Range(batch) \cup EntriesOf(requests)
  BY <1>1, <1>6, RangeOfConcat
<1>9. e \notin Log!Seen
  <2>1. \A s : Log!Range(s) = Range(s)
    BY DEF Log!Range, Range
  <2> QED BY <1>2, <1>8, <2>1, PlacedParts DEF Log!Seen, Settled, Stored
<1>10. Log!Accept(e)
  BY <1>3, <1>7, <1>9 DEF Log!Accept
<1> QED BY <1>2, <1>10 DEF Log!Next

\* Sync's request is no entry.
LEMMA LogSyncSend ==
    ASSUME TypeOK, NEW c \in Callers, SyncSend(c)
    PROVE  UNCHANGED Log!vars
<1>1. requests' = Append(requests, SyncRequest(c)) /\ requests \in Seq(WriteRequest)
  BY DEF SyncSend, Enqueue, TypeOK
<1>2. SyncRequest(c) \in WriteRequest /\ ~IsEntry(SyncRequest(c))
  BY RequestTypes DEF IsEntry
<1>3. Line(requests') = Line(requests)
  BY <1>1, <1>2, LineOfAppend
<1>4. UNCHANGED <<batch, entries, lost>>
  BY DEF SyncSend, runVars
<1> QED BY <1>3, <1>4, LogStutters

\* Receive and Drain: what the channel loses in front the batch gains at its end.
LEMMA LogMoveUp ==
    ASSUME TypeOK, requests # <<>>, requests' = Tail(requests),
           batch' = WithEntry(batch, Head(requests)), UNCHANGED <<entries, lost>>
    PROVE  UNCHANGED Log!vars
<1> DEFINE r == Head(requests)
<1>1. /\ requests \in Seq(WriteRequest) /\ batch \in Seq(Entry)
      /\ r \in WriteRequest /\ Tail(requests) \in Seq(WriteRequest)
  BY HeadAndTail DEF TypeOK
<1>2. Line(Tail(requests)) \in Seq(Entry)
  BY <1>1, LineIsTheEntries
<1>3. Line(requests) = IF IsEntry(r) THEN <<r.entry>> \o Line(Tail(requests))
                                     ELSE Line(Tail(requests))
  BY <1>1, LineOfTail
<1>4. CASE IsEntry(r)
  <2>1. r.entry \in Entry /\ batch' = Append(batch, r.entry)
    BY <1>1, <1>4, RequestTypes DEF WithEntry, IsEntry
  <2> DEFINE e == r.entry
             rest == Line(Tail(requests))
  <2> HIDE DEF e, rest
  <2>2. <<e>> \in Seq(Entry) /\ Append(batch, e) = batch \o <<e>>
    BY <1>1, <2>1 DEF e
  <2>3. Append(batch, e) \o rest = batch \o (<<e>> \o rest)
    BY <1>1, <1>2, <2>2, ConcatAssociative DEF rest
  <2>4. batch' \o Line(requests') = batch \o Line(requests)
    BY <1>3, <1>4, <2>1, <2>3 DEF e, rest
  <2> QED BY <2>4, LogStutters
<1>5. CASE ~IsEntry(r)
  BY <1>3, <1>5, LogStutters DEF WithEntry
<1> QED BY <1>4, <1>5

\* flush settles the front of the line, or nothing when the batch is empty.
LEMMA LogFlush ==
    ASSUME TypeOK, NEW ok \in BOOLEAN, Flush(ok)
    PROVE  Log!Next \/ UNCHANGED Log!vars
<1> DEFINE rest == Line(requests)
           k == Len(batch)
<1>1. requests \in Seq(WriteRequest) /\ batch \in Seq(Entry) /\ entries \in Seq(Entry)
  BY DEF TypeOK
<1>2. rest \in Seq(Entry) /\ k \in Nat /\ Len(rest) \in Nat
  BY <1>1, LineIsTheEntries, LenProperties
<1>3. requests' = requests /\ batch' = <<>>
  BY DEF Flush, NoBatch
<1> HIDE DEF rest
<1>4. batch' \o Line(requests') = rest
  BY <1>2, <1>3, ConcatEmptySeq DEF rest
<1>5. CASE batch = <<>>
  <2>1. ok
    BY <1>5 DEF Flush, InsertMayFail
  <2>2. entries' = entries /\ lost' = lost
    BY <1>1, <1>5, <2>1, ConcatEmptySeq DEF Flush
  <2>3. batch \o Line(requests) = rest
    BY <1>2, <1>5, ConcatEmptySeq DEF rest
  <2> QED BY <1>4, <2>2, <2>3, LogStutters
<1>6. CASE batch # <<>>
  <2>1. k \in 1..Len(batch \o rest) /\ Len(batch \o rest) = k + Len(rest)
    BY <1>1, <1>2, <1>6, ConcatProperties, EmptySeq
  <2>2. SubSeq(batch \o rest, 1, k) = batch
    BY <1>1, <1>2, <2>1, SubSeqOfConcat1, SubSeqFull
  <2>3. SubSeq(batch \o rest, k + 1, Len(batch \o rest)) = rest
    <3>1. CASE rest = <<>>
      <4>1. Len(rest) = 0
        BY <3>1
      <4>2. batch \o rest \in Seq(Entry) /\ Len(batch \o rest) = k
        BY <1>1, <1>2, <2>1, <4>1, ConcatProperties
      <4>3. SubSeq(batch \o rest, k + 1, k) = <<>>
        BY <1>2, <4>2, SubSeqEmpty
      <4> QED BY <3>1, <4>2, <4>3
    <3>2. CASE rest # <<>>
      <4>1. Len(rest) # 0
        BY <1>2, <3>2, EmptySeq
      <4>2. k + 1 \in (k + 1)..(k + Len(rest)) /\ k + Len(rest) \in (k + 1)..(k + Len(rest))
        BY <1>2, <4>1
      <4>3. SubSeq(batch \o rest, k + 1, k + Len(rest)) = SubSeq(rest, (k + 1) - k, (k + Len(rest)) - k)
        BY <1>1, <1>2, <4>2, SubSeqOfConcat2
      <4>4. (k + 1) - k = 1 /\ (k + Len(rest)) - k = Len(rest)
        BY <1>2
      <4>5. SubSeq(rest, 1, Len(rest)) = rest
        BY <1>2, SubSeqFull
      <4> QED BY <2>1, <4>3, <4>4, <4>5
    <3> QED BY <3>1, <3>2
  <2>4. \/ entries' = entries \o batch /\ lost' = lost
        \/ entries' = entries /\ lost' = lost \cup Range(batch)
    BY DEF Flush
  <2>5. Log!Settle(k)
    <3>1. \A s : Log!Range(s) = Range(s)
      BY DEF Log!Range, Range
    <3> QED BY <1>4, <2>2, <2>3, <2>4, <3>1 DEF Log!Settle, rest
  <2>6. k \in 1..Len(batch \o Line(requests))
    BY <2>1 DEF rest
  <2> QED BY <2>5, <2>6 DEF Log!Next
<1> QED BY <1>5, <1>6

\* Every step of the writer is one of the log, or the log does not see it.
LEMMA LogStep == TypeOK /\ OncePlaced /\ [Next]_vars => [Log!Next]_(Log!vars)
<1> SUFFICES ASSUME TypeOK, OncePlaced, [Next]_vars
             PROVE  Log!Next \/ UNCHANGED Log!vars
  OBVIOUS
<1>1. ASSUME UNCHANGED <<requests, batch, entries, lost>> PROVE UNCHANGED Log!vars
  BY <1>1, LogStutters
<1>2. CASE Run
  <2>1. CASE Tick \/ StartDrain \/ EndDrain
    BY <1>1, <2>1 DEF Tick, StartDrain, EndDrain
  <2>2. CASE Receive \/ Drain
    BY <2>2, LogMoveUp DEF Receive, Drain
  <2> QED BY <1>2, <2>1, <2>2, LogFlush DEF Run
<1>3. CASE Stop \/ UNCHANGED vars
  BY <1>1, <1>3 DEF Stop, vars, runVars
<1>4. ASSUME NEW c \in Callers, Caller(c) PROVE Log!Next \/ UNCHANGED Log!vars
  <2>1. CASE Tap(c) \/ SyncReturn(c) \/ Cancel(c) \/ GiveUp(c)
    BY <1>1, <2>1 DEF Tap, SyncReturn, Cancel, GiveUp, runVars
  <2> QED BY <1>4, <2>1, LogAdd, LogSyncSend DEF Caller
<1> QED BY <1>2, <1>3, <1>4 DEF Next

\* For any callers, batch size, failures and shutdown: Add, Sync and Run together
\* are the ordered log. Nothing overtakes, nothing leaves the line but in whole
\* batches from its front, to the table or refused (writer.go:62).
THEOREM WriterIsTheLog == Spec => ImplementsLog
<1>1. Init => TypeOK /\ OncePlaced
  BY TypeInit, PlacedInit
<1>2. TypeOK /\ OncePlaced /\ [Next]_vars => TypeOK' /\ OncePlaced'
  BY TypeStep, PlacedStep
<1> QED BY <1>1, <1>2, LogInit, LogStep, PTL DEF Spec, ImplementsLog, Log!Spec
=============================================================================
