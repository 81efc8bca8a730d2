-------------------------- MODULE ForwarderProofs --------------------------
(***************************************************************************)
(* Theorems about Forwarder, for every size of ring and batch and every    *)
(* number of callers, entries and failures. One invariant, ForwarderInv,   *)
(* is kept by every step: the shapes, the ring as a window of the newest   *)
(* entries, the account of the drops, and the wake-up of a waiting Run.    *)
(***************************************************************************)
EXTENDS Forwarder, FiniteSetTheorems, SequenceFacts

-----------------------------------------------------------------------------
(* Arithmetic of the ring's indices.                                       *)

\* Going i places on from slot h of a ring of q wraps around at most once: the
\* index (f.head+f.n)%len(f.ring) of Offer without the remainder.
LEMMA SlotValue ==
    ASSUME NEW q \in Nat \ {0}, NEW h \in 0..(q - 1), NEW i \in 0..q
    PROVE  (h + i) % q = IF h + i < q THEN h + i ELSE h + i - q
<1>1. CASE h + i < q
  BY <1>1, Z3
<1>2. CASE ~(h + i < q)
  BY <1>2, Z3
<1> QED
  BY <1>1, <1>2

\* A slot is an index of the ring.
LEMMA SlotInRing ==
    ASSUME NEW q \in Nat \ {0}, NEW h \in 0..(q - 1), NEW i \in 0..q
    PROVE  (h + i) % q \in 0..(q - 1)
BY SlotValue

\* Different places of a window no longer than the ring are different slots.
LEMMA SlotsDiffer ==
    ASSUME NEW q \in Nat \ {0}, NEW h \in 0..(q - 1),
           NEW i \in 0..(q - 1), NEW j \in 0..(q - 1), i # j
    PROVE  (h + i) % q # (h + j) % q
<1>1. i \in 0..q /\ j \in 0..q
  OBVIOUS
<1>2. (h + i) % q = IF h + i < q THEN h + i ELSE h + i - q
  BY <1>1, SlotValue
<1>3. (h + j) % q = IF h + j < q THEN h + j ELSE h + j - q
  BY <1>1, SlotValue
<1> QED
  BY <1>2, <1>3

\* Moving the head k places on and then going i places is going k + i places.
LEMMA SlotMoves ==
    ASSUME NEW q \in Nat \ {0}, NEW h \in 0..(q - 1),
           NEW k \in 0..q, NEW i \in 0..q, k + i <= q
    PROVE  (((h + k) % q) + i) % q = (h + (k + i)) % q
<1> DEFINE s == (h + k) % q
<1>1. s = IF h + k < q THEN h + k ELSE h + k - q
  BY SlotValue
<1>2. s \in 0..(q - 1)
  BY SlotInRing
<1> HIDE DEF s
<1>3. (s + i) % q = IF s + i < q THEN s + i ELSE s + i - q
  BY <1>2, SlotValue
<1>4. k + i \in 0..q
  OBVIOUS
<1>5. (h + (k + i)) % q = IF h + (k + i) < q THEN h + (k + i) ELSE h + (k + i) - q
  BY <1>4, SlotValue
<1>6. (s + i) % q = (h + (k + i)) % q
  BY <1>1, <1>3, <1>5
<1> QED
  BY <1>6 DEF s
-----------------------------------------------------------------------------
(* The ring.                                                               *)

\* The variables of the ring: their shapes, RingIsWindow, and that what the full
\* queue dropped is older than everything in it.
Ring ==
    /\ ring \in [0..(QueueSize - 1) -> 0..MaxOffers]
    /\ head \in 0..(QueueSize - 1) /\ n \in 0..QueueSize
    /\ offered \in 0..MaxOffers /\ n <= offered
    /\ RingIsWindow
    /\ evicted \subseteq 1..(offered - n)

\* What a full queue drops is the oldest entry of the window.
LEMMA OldestAtHead ==
    ASSUME Ring, n > 0
    PROVE  ring[head] = offered - n + 1
<1>1. /\ QueueSize \in Nat \ {0} /\ head \in 0..(QueueSize - 1)
      /\ 0 \in 0..QueueSize /\ 0 \in 0..(n - 1)
  BY ForwarderAssumption DEF Ring
<1>2. (head + 0) % QueueSize = IF head + 0 < QueueSize THEN head + 0 ELSE head + 0 - QueueSize
  BY <1>1, SlotValue
<1>3. Slot(0) = head
  BY <1>1, <1>2 DEF Slot
<1> QED
  BY <1>1, <1>3 DEF Ring, RingIsWindow

\* Offer's overwriting and its counting keep the window.
LEMMA OfferKeepsRing ==
    ASSUME Ring, NEW o \in Offerers, Offer(o)
    PROVE  Ring'
<1> USE ForwarderAssumption
<1> DEFINE at == (head' + n' - 1) % QueueSize
<1>1. offered' = offered + 1 /\ offered' \in 0..MaxOffers
  BY DEF Offer, Ring
<1>2. QueueSize \in Nat \ {0} /\ head \in 0..(QueueSize - 1)
  BY DEF Ring
<1>3. ring' = [ring EXCEPT ![at] = offered']
  BY DEF Offer
<1>4. CASE Full
  <2>1. n = QueueSize /\ n' = n /\ evicted' = evicted \cup {ring[head]}
    BY <1>4 DEF Full, Offer
  <2>2. 0 \in 0..QueueSize /\ 1 \in 0..QueueSize /\ QueueSize - 1 \in 0..(QueueSize - 1)
    BY <1>2
  <2>3. head' = (head + 1) % QueueSize
    BY <1>4 DEF Offer, NextHead, Slot
  <2>4. head' \in 0..(QueueSize - 1)
    BY <1>2, <2>2, <2>3, SlotInRing
  <2>5. at = (head' + (QueueSize - 1)) % QueueSize
    <3>1. head' + n' - 1 = head' + (QueueSize - 1)
      BY <1>2, <2>1, <2>4
    <3> QED
      BY <3>1
  <2>6. at \in 0..(QueueSize - 1)
    <3>1. QueueSize - 1 \in 0..QueueSize
      BY <1>2
    <3> QED
      BY <1>2, <2>4, <2>5, <3>1, SlotInRing
  <2> HIDE DEF at
  <2>7. ring[head] = offered - n + 1
    BY <1>2, <2>1, OldestAtHead
  <2>8. evicted' \subseteq 1..(offered' - n')
    BY <1>1, <1>2, <2>1, <2>7 DEF Ring
  <2>9. ASSUME NEW i \in 0..(n' - 1)
        PROVE  ring'[Slot(i)'] = offered' - n' + 1 + i
    <3>1. i \in 0..QueueSize /\ i \in 0..(QueueSize - 1)
      BY <1>2, <2>1
    <3>2. Slot(i)' = (head' + i) % QueueSize
      BY DEF Slot
    <3>3. Slot(i)' \in 0..(QueueSize - 1)
      BY <1>2, <2>4, <3>1, <3>2, SlotInRing
    <3>4. CASE i = QueueSize - 1
      <4>1. Slot(i)' = at
        BY <2>5, <3>2, <3>4
      <4> QED
        BY <4>1, <1>1, <1>2, <1>3, <2>1, <2>6, <3>4 DEF Ring
    <3>5. CASE i # QueueSize - 1
      <4>1. Slot(i)' # at
        BY <1>2, <2>2, <2>4, <2>5, <3>1, <3>2, <3>5, SlotsDiffer
      <4>2. 1 + i \in 0..QueueSize /\ 1 + i <= QueueSize /\ 1 + i \in 0..(n - 1)
        BY <1>2, <2>1, <3>1, <3>5
      <4>3. (((head + 1) % QueueSize) + i) % QueueSize = (head + (1 + i)) % QueueSize
        BY <1>2, <2>2, <3>1, <4>2, SlotMoves
      <4>4. Slot(i)' = Slot(1 + i)
        BY <2>3, <3>2, <4>3 DEF Slot
      <4>5. ring[Slot(1 + i)] = offered - n + 1 + (1 + i)
        BY <4>2 DEF Ring, RingIsWindow
      <4>6. ring'[Slot(i)'] = ring[Slot(i)']
        BY <1>3, <3>3, <4>1 DEF Ring
      <4> QED
        BY <4>4, <4>5, <4>6, <1>1, <1>2, <2>1, <3>1 DEF Ring
    <3> QED
      BY <3>4, <3>5
  <2> QED
    BY <1>1, <1>3, <2>1, <2>4, <2>6, <2>8, <2>9 DEF Ring, RingIsWindow
<1>5. CASE ~Full
  <2>1. n' = n + 1 /\ n' \in 0..QueueSize /\ n \in 0..(QueueSize - 1) /\ n \in 0..QueueSize
    BY <1>5 DEF Full, Offer, Ring
  <2>2. head' = head /\ evicted' = evicted
    BY <1>5 DEF Offer
  <2>3. at = (head + n) % QueueSize
    <3>1. head' + n' - 1 = head + n
      BY <1>2, <2>1, <2>2
    <3> QED
      BY <3>1
  <2>4. at \in 0..(QueueSize - 1)
    BY <1>2, <2>1, <2>3, SlotInRing
  <2> HIDE DEF at
  <2>5. ASSUME NEW i \in 0..(n' - 1)
        PROVE  ring'[Slot(i)'] = offered' - n' + 1 + i
    <3>1. i \in 0..QueueSize /\ i \in 0..(QueueSize - 1)
      BY <1>2, <2>1
    <3>2. Slot(i)' = (head + i) % QueueSize
      BY <2>2 DEF Slot
    <3>3. Slot(i)' \in 0..(QueueSize - 1)
      BY <1>2, <3>1, <3>2, SlotInRing
    <3>4. CASE i = n
      <4>1. Slot(i)' = at
        BY <2>3, <3>2, <3>4
      <4> QED
        BY <4>1, <1>1, <1>2, <1>3, <2>1, <2>4, <3>4 DEF Ring
    <3>5. CASE i # n
      <4>1. Slot(i)' # at
        BY <1>2, <2>1, <2>3, <3>1, <3>2, <3>5, SlotsDiffer
      <4>2. i \in 0..(n - 1)
        BY <2>1, <3>5
      <4>3. ring[Slot(i)] = offered - n + 1 + i
        BY <4>2 DEF Ring, RingIsWindow
      <4>4. Slot(i)' = Slot(i)
        BY <3>2 DEF Slot
      <4>5. ring'[Slot(i)'] = ring[Slot(i)']
        BY <1>3, <3>3, <4>1 DEF Ring
      <4> QED
        BY <4>3, <4>4, <4>5, <1>1, <1>2, <2>1, <3>1 DEF Ring
    <3> QED
      BY <3>4, <3>5
  <2> QED
    BY <1>1, <1>3, <2>1, <2>2, <2>4, <2>5 DEF Ring, RingIsWindow
<1> QED
  BY <1>4, <1>5

\* take removes entries from the old end of the window, and they are entries:
\* it never reads a slot that holds the zero entry.
LEMMA TakeKeepsRing ==
    ASSUME Ring, Take
    PROVE  Ring' /\ batch' \in Seq(Entry)
<1> USE ForwarderAssumption
<1> DEFINE count == IF n < MaxBatch THEN n ELSE MaxBatch
<1>1. count \in 0..n /\ count \in 0..QueueSize
  BY DEF Ring
<1>2. /\ head' = (head + count) % QueueSize /\ n' = n - count
      /\ UNCHANGED <<ring, offered, evicted>>
      /\ batch' = [i \in 1..count |-> ring[Slot(i - 1)]]
  BY DEF Take, FromFront, Oldest, Slot
<1>3. QueueSize \in Nat \ {0} /\ head \in 0..(QueueSize - 1)
  BY DEF Ring
<1>4. head' \in 0..(QueueSize - 1)
  BY <1>1, <1>2, <1>3, SlotInRing
<1> HIDE DEF count
<1>5. ASSUME NEW i \in 0..(n' - 1)
      PROVE  ring'[Slot(i)'] = offered' - n' + 1 + i
  <2>1. /\ i \in 0..QueueSize /\ count + i \in 0..QueueSize
        /\ count + i <= QueueSize /\ count + i \in 0..(n - 1)
    BY <1>1, <1>2 DEF Ring
  <2>2. (((head + count) % QueueSize) + i) % QueueSize = (head + (count + i)) % QueueSize
    BY <1>1, <1>3, <2>1, SlotMoves
  <2>3. Slot(i)' = Slot(count + i)
    BY <1>2, <2>2 DEF Slot
  <2>4. ring[Slot(count + i)] = offered - n + 1 + (count + i)
    BY <2>1 DEF Ring, RingIsWindow
  <2> QED
    BY <2>3, <2>4, <1>1, <1>2 DEF Ring
<1>6. ASSUME NEW i \in 1..count
      PROVE  ring[Slot(i - 1)] \in Entry
  <2>1. i - 1 \in 0..(n - 1)
    BY <1>1 DEF Ring
  <2>2. ring[Slot(i - 1)] = offered - n + 1 + (i - 1)
    BY <2>1 DEF Ring, RingIsWindow
  <2> QED
    BY <2>1, <2>2 DEF Ring, Entry
<1>7. batch' \in Seq(Entry)
  BY <1>1, <1>2, <1>6
<1> QED
  BY <1>1, <1>2, <1>4, <1>5, <1>7 DEF Ring, RingIsWindow

\* The other actions leave the ring alone.
LEMMA OthersKeepRing ==
    ASSUME Ring, UNCHANGED ringVars
    PROVE  Ring'
BY DEF Ring, RingIsWindow, ringVars, Slot

\* Only Offer and take touch the ring.
LEMMA RingStep ==
    ASSUME Ring, [Next]_vars
    PROVE  Ring'
<1>1. ASSUME NEW o \in Offerers, Offer(o) PROVE Ring'
  BY <1>1, OfferKeepsRing
<1>2. CASE Take
  BY <1>2, TakeKeepsRing
<1>3. ASSUME NEW o \in Offerers, Notify(o) PROVE Ring'
  BY <1>3, OthersKeepRing DEF Notify
<1>4. CASE Wait \/ Wake \/ StopWaiting
  BY <1>4, OthersKeepRing DEF Wait, Wake, StopWaiting, Return
<1>5. CASE Encode \/ Encoded \/ DialOk \/ DialFails \/ Backoff
  BY <1>5, OthersKeepRing DEF Encode, Encoded, DialOk, DialFails, Backoff, Return
<1>6. CASE SendOk \/ Report \/ Clock \/ Cancel
  BY <1>6, OthersKeepRing DEF SendOk, Report, Clock, Cancel
<1>7. ASSUME NEW k \in 0..(Len(payload) - 1), SendFails(k) PROVE Ring'
  BY <1>7, OthersKeepRing DEF SendFails, Return
<1>8. CASE UNCHANGED vars
  BY <1>8, OthersKeepRing DEF vars
<1> QED
  BY <1>1, <1>2, <1>3, <1>4, <1>5, <1>6, <1>7, <1>8 DEF Next, Run
-----------------------------------------------------------------------------
(* Control: counters, flags and places.                                    *)

Control ==
    /\ dropped \in Nat /\ reported \in Nat /\ periodOver \in BOOLEAN
    /\ notify \in BOOLEAN /\ opc \in [Offerers -> {"idle", "notify"}]
    /\ ctxDone \in BOOLEAN /\ final \in BOOLEAN /\ conn \in BOOLEAN
    /\ rpc \in {"take", "empty", "wait", "encode", "dial", "backoff", "send", "report",
                "closed"}
    /\ failures \in 0..MaxFailures

\* The end of Run leaves it in its final flush or closed.
LEMMA ReturnEndsRun ==
    ASSUME Return, conn' \in BOOLEAN
    PROVE  /\ final' \in BOOLEAN /\ rpc' \in {"take", "closed"}
           /\ UNCHANGED <<ringVars, notify, opc, ctxDone>>
BY DEF Return

\* reportDrops moves the counter into the log line: nothing is lost or told twice.
LEMMA ReportDropsTypes ==
    ASSUME dropped \in Nat, reported \in Nat, periodOver \in BOOLEAN, ReportDrops
    PROVE  /\ dropped' \in Nat /\ reported' \in Nat /\ periodOver' \in BOOLEAN
           /\ dropped' + reported' = dropped + reported
<1>1. CASE dropped = 0 \/ ~periodOver
  BY <1>1 DEF ReportDrops, dropVars
<1>2. CASE ~(dropped = 0 \/ ~periodOver)
  <2>1. dropped' = 0 /\ periodOver' = FALSE /\ reported' = reported + dropped
    BY <1>2, Zenon DEF ReportDrops
  <2>2. periodOver' \in BOOLEAN
    BY <2>1
  <2>3. dropped' = 0 /\ reported' = reported + dropped
    BY <2>1, Zenon
  <2>4. dropped' \in Nat /\ reported' \in Nat /\ dropped' + reported' = dropped + reported
    BY <2>3
  <2> QED
    BY <2>2, <2>4
<1> QED
  BY <1>1, <1>2

\* Every step keeps the shapes of counters, flags and places.
LEMMA ControlStep ==
    ASSUME Control, [Next]_vars
    PROVE  Control'
<1> USE ForwarderAssumption DEF Control
<1>1. ASSUME NEW o \in Offerers, Offer(o) PROVE Control'
  BY <1>1 DEF Offer, OneMoreDrop, wireVars
<1>2. ASSUME NEW o \in Offerers, Notify(o) PROVE Control'
  BY <1>2 DEF Notify, TokenLeft, dropVars, wireVars
<1>3. CASE Take
  BY <1>3 DEF Take, dropVars
<1>4. CASE Wait \/ Wake
  BY <1>4 DEF Wait, Wake, dropVars, wireVars
<1>5. CASE StopWaiting
  BY <1>5, ReturnEndsRun DEF StopWaiting, dropVars, wireVars
<1>6. CASE Encode \/ Encoded
  BY <1>6 DEF Encode, Encoded, dropVars, wireVars
<1>7. CASE DialOk
  BY <1>7 DEF DialOk, dropVars
<1>8. CASE DialFails
  <2>1. CASE ctxDone /\ Return /\ UNCHANGED dropVars
    BY <1>8, <2>1, ReturnEndsRun DEF DialFails, dropVars, wireVars
  <2>2. CASE ReportDrops /\ rpc' = "backoff" /\ UNCHANGED <<notify, opc, ctxDone, final>>
    BY <1>8, <2>2, ReportDropsTypes DEF DialFails, wireVars
  <2> QED
    BY <1>8, <2>1, <2>2 DEF DialFails
<1>9. CASE Backoff
  <2>1. CASE Return
    BY <1>9, <2>1, ReturnEndsRun DEF Backoff, dropVars, wireVars
  <2>2. CASE ~Return
    BY <1>9, <2>2 DEF Backoff, dropVars, wireVars
  <2> QED
    BY <2>1, <2>2
<1>10. CASE SendOk
  BY <1>10 DEF SendOk, dropVars
<1>11. ASSUME NEW k \in 0..(Len(payload) - 1), SendFails(k) PROVE Control'
  <2>1. conn' = FALSE /\ failures' \in 0..MaxFailures /\ UNCHANGED dropVars
    BY <1>11 DEF SendFails
  <2>2. CASE Return
    BY <2>1, <2>2, ReturnEndsRun DEF dropVars
  <2>3. CASE ~Return
    BY <1>11, <2>1, <2>3 DEF SendFails, dropVars
  <2> QED
    BY <2>2, <2>3
<1>12. CASE Report
  BY <1>12, ReportDropsTypes DEF Report, wireVars
<1>13. CASE Clock \/ Cancel
  BY <1>13 DEF Clock, Cancel, dropVars, wireVars
<1>14. CASE UNCHANGED vars
  BY <1>14 DEF vars, dropVars, wireVars
<1> QED
  BY <1>1, <1>2, <1>3, <1>4, <1>5, <1>6, <1>7, <1>8, <1>9, <1>10, <1>11, <1>12, <1>13,
     <1>14 DEF Next, Run
-----------------------------------------------------------------------------
(* What Run has in hand and has handed on.                                 *)

Hand ==
    /\ batch \in Seq(Entry) /\ payload \in Seq(Entry) /\ written \in Seq(Entry)
    /\ known \subseteq Sources /\ abandoned \subseteq Entry
    /\ skipped \subseteq Entry \X {"blank", "no answer", "unknown"}

\* The elements of a sequence of entries are entries.
LEMMA EntriesOf ==
    ASSUME NEW s \in Seq(Entry)
    PROVE  Range(s) \subseteq Entry
BY DEF Range

\* Run gives up only entries that it had in hand.
LEMMA ReturnKeepsHand ==
    ASSUME Hand, Return, written' \in Seq(Entry)
    PROVE  Hand'
<1>1. abandoned' \subseteq Entry
  BY EntriesOf DEF Hand, Return
<1>2. payload' \in Seq(Entry)
  BY EmptySeq DEF Return
<1> QED
  BY <1>1, <1>2 DEF Hand, Return

\* encode turns an entry of the batch into a line or leaves it out for a reason.
LEMMA EncodeKeepsHand ==
    ASSUME Ring, Hand, Encode
    PROVE  Hand'
<1> USE ForwarderAssumption
<1> DEFINE e == Head(batch)
<1>1. e \in Entry /\ batch' \in Seq(Entry)
  BY HeadTailProperties DEF Encode, Hand
<1>2. Registered \subseteq Sources
  BY DEF Registered, Ring, Entry
<1>3. known' \subseteq Sources
  BY <1>2 DEF Encode, Hand
<1>4. Append(payload, e) \in Seq(Entry)
  BY <1>1, AppendProperties DEF Hand
<1>5. Line(e) \/ LeaveOut(e, "blank") \/ LeaveOut(e, "unknown") \/ LeaveOut(e, "no answer")
  BY DEF Encode
<1>6. UNCHANGED <<written, abandoned>>
  BY DEF Encode, wireVars
<1> HIDE DEF e
<1>7. CASE Line(e)
  BY <1>1, <1>3, <1>4, <1>6, <1>7 DEF Line, Hand
<1>8. CASE LeaveOut(e, "blank") \/ LeaveOut(e, "unknown") \/ LeaveOut(e, "no answer")
  <2>1. PICK why \in {"blank", "no answer", "unknown"} :
            skipped' = skipped \cup {<<e, why>>} /\ UNCHANGED payload
    BY <1>8 DEF LeaveOut
  <2>2. <<e, why>> \in Entry \X {"blank", "no answer", "unknown"}
    BY <1>1
  <2>3. skipped' \subseteq Entry \X {"blank", "no answer", "unknown"}
    BY <2>1, <2>2 DEF Hand
  <2> QED
    BY <1>1, <1>3, <1>6, <2>1, <2>3 DEF Hand
<1> QED
  BY <1>5, <1>7, <1>8

\* The actions that have nothing to do with entries in hand leave them alone.
LEMMA OthersKeepHand ==
    ASSUME Hand, UNCHANGED <<handVars, written, abandoned>>
    PROVE  Hand'
BY DEF Hand, handVars

\* Every step keeps the shapes of what Run has in hand and has handed on.
LEMMA HandStep ==
    ASSUME Ring, Hand, [Next]_vars
    PROVE  Hand'
<1>1. ASSUME NEW o \in Offerers, Offer(o) \/ Notify(o) PROVE Hand'
  BY <1>1, OthersKeepHand DEF Offer, Notify, wireVars
<1>2. CASE Take
  BY <1>2, TakeKeepsRing DEF Take, Hand
<1>3. CASE Wait \/ Wake \/ Encoded \/ DialOk \/ Report \/ Clock \/ Cancel
  BY <1>3, OthersKeepHand DEF Wait, Wake, Encoded, DialOk, Report, Clock, Cancel, wireVars
<1>4. CASE StopWaiting
  BY <1>4, ReturnKeepsHand DEF StopWaiting, wireVars, Hand
<1>5. CASE Encode
  BY <1>5, EncodeKeepsHand
<1>6. CASE DialFails
  <2>1. UNCHANGED written
    BY <1>6 DEF DialFails, wireVars
  <2>2. Return \/ UNCHANGED <<handVars, abandoned>>
    BY <1>6 DEF DialFails
  <2> QED
    BY <2>1, <2>2, ReturnKeepsHand, OthersKeepHand DEF Hand
<1>7. CASE Backoff
  <2>1. UNCHANGED written
    BY <1>7 DEF Backoff, wireVars
  <2>2. Return \/ UNCHANGED <<handVars, abandoned>>
    BY <1>7 DEF Backoff
  <2> QED
    BY <2>1, <2>2, ReturnKeepsHand, OthersKeepHand DEF Hand
<1>8. CASE SendOk
  <2>1. written' \in Seq(Entry)
    BY <1>8, ConcatProperties DEF SendOk, Hand
  <2>2. payload' \in Seq(Entry)
    BY <1>8, EmptySeq DEF SendOk
  <2> QED
    BY <1>8, <2>1, <2>2 DEF SendOk, Hand
<1>9. ASSUME NEW k \in 0..(Len(payload) - 1), SendFails(k) PROVE Hand'
  <2>1. SubSeq(payload, 1, k) \in Seq(Entry)
    <3>1. payload \in Seq(Entry)
      BY DEF Hand
    <3>2. Len(payload) \in Nat
      BY <3>1, LenProperties
    <3>3. k \in Int /\ 1 \in Int /\ 1..k \subseteq 1..Len(payload)
      BY <3>2
    <3>4. \A i \in 1..Len(payload) : payload[i] \in Entry
      BY <3>1, ElementOfSeq
    <3>5. \A i \in 1..k : payload[i] \in Entry
      BY <3>3, <3>4
    <3> QED
      BY <3>3, <3>5, SubSeqProperties
  <2>2. written' \in Seq(Entry)
    BY <1>9, <2>1, ConcatProperties DEF SendFails, Hand
  <2>3. Return \/ UNCHANGED <<handVars, abandoned>>
    BY <1>9 DEF SendFails
  <2>4. CASE Return
    BY <2>2, <2>4, ReturnKeepsHand
  <2>5. CASE UNCHANGED <<handVars, abandoned>>
    BY <2>2, <2>5 DEF Hand, handVars
  <2> QED
    BY <2>3, <2>4, <2>5
<1>10. CASE UNCHANGED vars
  BY <1>10, OthersKeepHand DEF vars, wireVars
<1> QED
  BY <1>1, <1>2, <1>3, <1>4, <1>5, <1>6, <1>7, <1>8, <1>9, <1>10 DEF Next, Run
-----------------------------------------------------------------------------
(* The drops and the wake-up.                                              *)

\* Only an Offer on a full queue drops, and it counts what it drops once: the
\* entry it drops is newer than all those dropped before. Only reportDrops
\* touches the counter otherwise.
LEMMA DropStep ==
    ASSUME Ring, Control, DropsAccounted, [Next]_vars
    PROVE  DropsAccounted'
<1> USE ForwarderAssumption
<1>1. IsFiniteSet(evicted)
  <2>1. IsFiniteSet(1..(offered - n))
    BY FS_Interval DEF Ring
  <2> QED
    BY <2>1, FS_Subset DEF Ring
<1>2. ASSUME UNCHANGED evicted, dropped' + reported' = dropped + reported
      PROVE  DropsAccounted'
  BY <1>2 DEF DropsAccounted
<1>3. ASSUME NEW o \in Offerers, Offer(o) PROVE DropsAccounted'
  <2>1. CASE Full
    <3>1. /\ evicted' = evicted \cup {ring[head]}
          /\ dropped' = dropped + 1 /\ reported' = reported
      BY <1>3, <2>1 DEF Offer, OneMoreDrop
    <3>2. n > 0 /\ n = QueueSize
      BY <2>1 DEF Full, Ring
    <3>3. ring[head] = offered - n + 1
      BY <3>2, OldestAtHead
    <3>4. ring[head] \notin evicted
      BY <3>3 DEF Ring
    <3>5. Cardinality(evicted') = Cardinality(evicted) + 1
      BY <1>1, <3>1, <3>4, FS_AddElement
    <3> QED
      BY <3>1, <3>5 DEF DropsAccounted, Control
  <2>2. CASE ~Full
    BY <1>2, <1>3, <2>2 DEF Offer
  <2> QED
    BY <2>1, <2>2
<1>4. CASE DialFails
  <2>1. ReportDrops \/ UNCHANGED dropVars
    BY <1>4 DEF DialFails
  <2>2. dropped' + reported' = dropped + reported
    BY <2>1, ReportDropsTypes DEF dropVars, Control
  <2>3. UNCHANGED evicted
    BY <1>4 DEF DialFails, Return, ringVars
  <2> QED
    BY <1>2, <2>2, <2>3
<1>5. CASE Report
  BY <1>2, <1>5, ReportDropsTypes DEF Report, Control, ringVars
<1>6. ASSUME UNCHANGED <<dropped, reported, evicted>> PROVE DropsAccounted'
  BY <1>2, <1>6
<1>7. ASSUME NEW o \in Offerers, Notify(o) PROVE DropsAccounted'
  BY <1>6, <1>7 DEF Notify, ringVars, dropVars
<1>8. CASE Take \/ Wait \/ Wake \/ Encode \/ Encoded \/ DialOk \/ SendOk \/ Clock \/ Cancel
  BY <1>6, <1>8 DEF Take, Wait, Wake, Encode, Encoded, DialOk, SendOk, Clock, Cancel,
                    ringVars, dropVars
<1>9. CASE StopWaiting \/ Backoff
  BY <1>6, <1>9 DEF StopWaiting, Backoff, Return, ringVars, dropVars
<1>10. ASSUME NEW k \in 0..(Len(payload) - 1), SendFails(k) PROVE DropsAccounted'
  BY <1>6, <1>10 DEF SendFails, Return, ringVars, dropVars
<1>11. CASE UNCHANGED vars
  BY <1>6, <1>11 DEF vars, ringVars, dropVars
<1> QED
  BY <1>3, <1>4, <1>5, <1>7, <1>8, <1>9, <1>10, <1>11 DEF Next, Run

\* Run goes to sleep only after a take that left the ring empty, and an Offer
\* that puts something into it since then has not passed its send yet or has
\* left the token.
LEMMA WakeStep ==
    ASSUME Ring, Control, NoLostWakeup, [Next]_vars
    PROVE  NoLostWakeup'
<1> USE ForwarderAssumption
<1>1. ASSUME NEW o \in Offerers, Offer(o) PROVE NoLostWakeup'
  <2>1. opc' = [opc EXCEPT ![o] = "notify"]
    BY <1>1 DEF Offer
  <2>2. opc'[o] = "notify"
    BY <2>1 DEF Control
  <2> QED
    BY <2>2 DEF NoLostWakeup
<1>2. ASSUME NEW o \in Offerers, Notify(o) PROVE NoLostWakeup'
  BY <1>2 DEF Notify, TokenLeft, NoLostWakeup
<1>3. CASE Take
  <2> DEFINE count == IF n < MaxBatch THEN n ELSE MaxBatch
  <2>1. /\ n' = n - count
        /\ rpc' = IF count > 0 THEN "encode" ELSE IF final THEN "closed" ELSE "empty"
    BY <1>3 DEF Take
  <2>2. count \in Nat /\ (count = 0 => n = 0)
    BY DEF Ring
  <2> HIDE DEF count
  <2>3. CASE count > 0
    BY <2>1, <2>3 DEF NoLostWakeup
  <2>4. CASE count = 0
    BY <2>1, <2>2, <2>4 DEF NoLostWakeup
  <2> QED
    BY <2>2, <2>3, <2>4
<1>4. CASE Wait
  BY <1>4 DEF Wait, NoLostWakeup, ringVars
<1>5. ASSUME rpc' \notin {"empty", "wait"} PROVE NoLostWakeup'
  BY <1>5 DEF NoLostWakeup
<1>6. ASSUME Return PROVE NoLostWakeup'
  BY <1>5, <1>6 DEF Return
<1>7. CASE Wake \/ DialOk \/ SendOk \/ Report
  BY <1>5, <1>7 DEF Wake, DialOk, SendOk, Report
<1>8. CASE Encode \/ Encoded
  BY <1>5, <1>8 DEF Encode, Encoded
<1>9. CASE StopWaiting \/ DialFails \/ Backoff
  BY <1>5, <1>6, <1>9 DEF StopWaiting, DialFails, Backoff
<1>10. ASSUME NEW k \in 0..(Len(payload) - 1), SendFails(k) PROVE NoLostWakeup'
  BY <1>5, <1>6, <1>10 DEF SendFails
<1>11. CASE Clock \/ Cancel \/ UNCHANGED vars
  BY <1>11 DEF Clock, Cancel, vars, ringVars, NoLostWakeup
<1> QED
  BY <1>1, <1>2, <1>3, <1>4, <1>7, <1>8, <1>9, <1>10, <1>11 DEF Next, Run
-----------------------------------------------------------------------------
(* The invariant and the theorems.                                         *)

ForwarderInv == Ring /\ Control /\ Hand /\ DropsAccounted /\ NoLostWakeup

\* newForwarder starts with an empty ring and nothing in hand.
LEMMA InitInv == Init => ForwarderInv
<1> USE ForwarderAssumption
<1> SUFFICES ASSUME Init PROVE ForwarderInv
  OBVIOUS
<1>1. Ring
  BY DEF Init, Ring, RingIsWindow
<1>2. Control
  <2>1. dropped \in Nat /\ reported \in Nat /\ failures \in 0..MaxFailures
    BY DEF Init
  <2>2. opc \in [Offerers -> {"idle", "notify"}]
    BY DEF Init
  <2>3. {periodOver, notify, ctxDone, final, conn} \subseteq BOOLEAN
    BY DEF Init
  <2>4. rpc = "take"
    BY DEF Init
  <2> QED
    BY <2>1, <2>2, <2>3, <2>4 DEF Control
<1>3. Hand
  BY EmptySeq DEF Init, Hand
<1>4. DropsAccounted
  BY FS_EmptySet DEF Init, DropsAccounted
<1>5. NoLostWakeup
  BY DEF Init, NoLostWakeup
<1> QED
  BY <1>1, <1>2, <1>3, <1>4, <1>5 DEF ForwarderInv

\* Every step of Offer, Run, the clock and main keeps the invariant.
LEMMA StepInv == ForwarderInv /\ [Next]_vars => ForwarderInv'
BY RingStep, ControlStep, HandStep, DropStep, WakeStep DEF ForwarderInv

\* The invariant holds in every state the forwarder reaches.
THEOREM Invariance == Spec => []ForwarderInv
BY InitInv, StepInv, PTL DEF Spec

\* For every size of queue and batch and every number of callers and entries:
\* the ring is never indexed or filled beyond its size, and what take returns
\* are entries that were offered, never the zero value of a slot.
THEOREM TypeCorrect == Spec => []TypeOK
<1>1. ForwarderInv => TypeOK
  <2> SUFFICES ASSUME ForwarderInv PROVE TypeOK
    OBVIOUS
  <2>1. evicted \subseteq Entry
    BY ForwarderAssumption DEF ForwarderInv, Ring, Entry
  <2> QED
    BY <2>1 DEF ForwarderInv, Ring, Control, Hand, TypeOK
<1> QED
  BY <1>1, Invariance, PTL

\* The ring is always the window of the newest entries, oldest at head, in
\* whatever order Offer and take move head and n.
THEOREM RingCorrect == Spec => []RingIsWindow
<1>1. ForwarderInv => RingIsWindow
  BY DEF ForwarderInv, Ring
<1> QED
  BY <1>1, Invariance, PTL

\* Every entry the full queue dropped is in a log line or still in the counter.
THEOREM DropsCounted == Spec => []DropsAccounted
<1>1. ForwarderInv => DropsAccounted
  BY DEF ForwarderInv
<1> QED
  BY <1>1, Invariance, PTL

\* Run is never asleep, or on its way to its select, on a queue that holds
\* something without a token or a caller who is about to leave one.
THEOREM NeverAsleepOnWork == Spec => []NoLostWakeup
<1>1. ForwarderInv => NoLostWakeup
  BY DEF ForwarderInv
<1> QED
  BY <1>1, Invariance, PTL
-----------------------------------------------------------------------------
(* Where each entry is. What is not in the ring any more is in hand, was    *)
(* written or is gone, and Run has a batch only while it encodes it.        *)

Held == Range(batch) \cup Range(payload) \cup Range(written)
Gone == evicted \cup LeftOut \cup abandoned

Placed ==
    /\ 1..(offered - n) = Held \cup Gone /\ Held \cap Gone = {}
    /\ evicted \cap LeftOut = {}
    /\ IsInjective(batch) /\ Range(batch) \cap (Range(payload) \cup Range(written)) = {}
    /\ rpc # "encode" => batch = <<>>

\* The empty sequence holds nothing.
LEMMA NoRange == Range(<<>>) = {} /\ IsInjective(<<>>)
<1>1. DOMAIN <<>> = {}
  BY EmptySeq
<1> QED BY <1>1, RangeOfEmpty DEF IsInjective

\* The ring holds the entries from offered - n + 1 on, so those outside are older.
LEMMA RingIsTheRest ==
    ASSUME Ring
    PROVE  InRing = (offered - n + 1)..offered
<1>1. n \in 0..QueueSize /\ offered \in Nat /\ n \in Nat
  BY ForwarderAssumption DEF Ring
<1>2. ASSUME NEW e \in InRing PROVE e \in (offered - n + 1)..offered
  <2>1. PICK i \in 0..(n - 1) : e = ring[Slot(i)]
    BY DEF InRing
  <2>2. e = offered - n + 1 + i
    BY <2>1 DEF Ring, RingIsWindow
  <2> QED BY <1>1, <2>1, <2>2
<1>3. ASSUME NEW e \in (offered - n + 1)..offered PROVE e \in InRing
  <2> DEFINE i == e - (offered - n + 1)
  <2>1. i \in 0..(n - 1) /\ e = offered - n + 1 + i
    BY <1>1
  <2> HIDE DEF i
  <2>2. e = ring[Slot(i)]
    BY <2>1 DEF Ring, RingIsWindow
  <2> QED BY <2>1, <2>2 DEF InRing
<1> QED BY <1>2, <1>3

\* With the ring a window, Placed says what NothingVanishes does.
LEMMA PlacedEverywhere ==
    ASSUME Ring, Placed
    PROVE  NothingVanishes
<1>1. n \in 0..QueueSize /\ offered \in Nat /\ n \in Nat
  BY ForwarderAssumption DEF Ring
<1>2. InRing = (offered - n + 1)..offered /\ n <= offered
  BY <1>1, RingIsTheRest DEF Ring
<1>3. 1..offered = InRing \cup (1..(offered - n)) /\ InRing \cap (1..(offered - n)) = {}
  BY <1>1, <1>2
<1> QED BY <1>3 DEF Placed, Held, Gone, NothingVanishes

\* Steps that move no entry.
LEMMA PlacedQuiet ==
    ASSUME Placed, rpc' = "encode" \/ batch = <<>>,
           UNCHANGED <<n, offered, batch, payload, written, evicted, skipped, abandoned>>
    PROVE  Placed'
BY DEF Placed, Held, Gone, LeftOut

\* Offer: the new entry is in the ring; a full queue's oldest is now dropped.
LEMMA PlacedOffer ==
    ASSUME Ring, Placed, NEW o \in Offerers, Offer(o)
    PROVE  Placed'
<1>1. n \in 0..QueueSize /\ n \in Nat /\ offered \in Nat /\ n <= offered /\ QueueSize \in Nat \ {0}
  BY ForwarderAssumption DEF Ring
<1>2. UNCHANGED <<batch, payload, written, skipped, abandoned, rpc>> /\ offered' = offered + 1
  BY DEF Offer, handVars, wireVars
<1>3. LeftOut' = LeftOut /\ Held' = Held
  BY <1>2 DEF LeftOut, Held
<1>4. CASE Full
  <2>1. n' = n /\ evicted' = evicted \cup {offered - n + 1}
    BY <1>1, <1>4, OldestAtHead DEF Offer, Full
  <2>2. 1..(offered' - n') = 1..(offered - n) \cup {offered - n + 1}
    BY <1>1, <1>2, <2>1
  <2>3. offered - n + 1 \notin Held \cup Gone
    BY <1>1 DEF Placed
  <2>4. Gone' = Gone \cup {offered - n + 1}
    BY <1>2, <1>3, <2>1 DEF Gone
  <2>5. evicted' \cap LeftOut' = {}
    BY <1>3, <2>1, <2>3 DEF Placed, Gone
  <2>6. 1..(offered' - n') = Held' \cup Gone' /\ Held' \cap Gone' = {}
    BY <1>3, <2>2, <2>3, <2>4 DEF Placed
  <2> QED BY <1>2, <2>5, <2>6 DEF Placed
<1>5. CASE ~Full
  <2>1. n' = n + 1 /\ evicted' = evicted
    BY <1>5 DEF Offer
  <2>2. offered' - n' = offered - n
    BY <1>1, <1>2, <2>1
  <2> QED BY <1>2, <1>3, <2>1, <2>2 DEF Placed, Gone
<1> QED BY <1>4, <1>5

\* take: the oldest of the ring come into the hand, none of them twice.
LEMMA PlacedTake ==
    ASSUME Ring, Placed, Take
    PROVE  Placed'
<1> DEFINE count == IF n < MaxBatch THEN n ELSE MaxBatch
<1>1. /\ n \in Nat /\ offered \in Nat /\ n <= offered
      /\ count \in 0..n
  BY ForwarderAssumption DEF Ring
<1>2. /\ batch' = [i \in 1..count |-> ring[Slot(i - 1)]] /\ n' = n - count
      /\ rpc' = IF count > 0 THEN "encode" ELSE IF final THEN "closed" ELSE "empty"
      /\ UNCHANGED <<offered, evicted, payload, written, skipped, abandoned>>
      /\ batch = <<>>
  BY DEF Take, FromFront, Oldest, Placed
<1> HIDE DEF count
<1>3. \A i \in 1..count : batch'[i] = offered - n + i
  <2> SUFFICES ASSUME NEW i \in 1..count PROVE batch'[i] = offered - n + i
    OBVIOUS
  <2>1. i - 1 \in 0..(n - 1)
    BY <1>1
  <2>2. ring[Slot(i - 1)] = offered - n + 1 + (i - 1)
    BY <2>1 DEF Ring, RingIsWindow
  <2> QED BY <1>1, <1>2, <2>2
<1>4. DOMAIN batch' = 1..count /\ Range(batch') = {batch'[i] : i \in 1..count}
  BY <1>2 DEF Range
<1>5. IsInjective(batch')
  BY <1>1, <1>3, <1>4 DEF IsInjective
<1>6. Range(batch') = (offered - n + 1)..(offered - n + count)
  <2>1. ASSUME NEW e \in (offered - n + 1)..(offered - n + count) PROVE e \in Range(batch')
    <3> DEFINE i == e - (offered - n)
    <3>1. i \in 1..count /\ offered - n + i = e
      BY <1>1
    <3> HIDE DEF i
    <3> QED BY <1>3, <1>4, <3>1
  <2> QED BY <1>1, <1>3, <1>4, <2>1
<1>7. /\ 1..(offered' - n') = 1..(offered - n) \cup Range(batch')
      /\ 1..(offered - n) \cap Range(batch') = {}
  <2>1. count \in Nat /\ offered - n \in Nat /\ offered' - n' = (offered - n) + count
    BY <1>1, <1>2
  <2> DEFINE old == offered - n
  <2>2. Range(batch') = (old + 1)..(old + count) /\ offered' - n' = old + count /\ old \in Nat
    BY <1>6, <2>1
  <2> HIDE DEF old
  <2>3. 1..(old + count) = 1..old \cup (old + 1)..(old + count)
    BY <2>1, <2>2
  <2>4. 1..old \cap (old + 1)..(old + count) = {}
    BY <2>1, <2>2
  <2> QED BY <2>2, <2>3, <2>4 DEF old
<1>8. Held = Range(payload) \cup Range(written)
  BY <1>2, NoRange DEF Held
<1>9. Held' = Held \cup Range(batch') /\ Gone' = Gone /\ LeftOut' = LeftOut
  BY <1>2, <1>8 DEF Held, Gone, LeftOut
<1>10. /\ 1..(offered' - n') = Held' \cup Gone' /\ Held' \cap Gone' = {}
       /\ Range(batch') \cap (Range(payload') \cup Range(written')) = {}
  BY <1>2, <1>7, <1>8, <1>9 DEF Placed
<1>11. rpc' # "encode" => batch' = <<>>
  <2> SUFFICES ASSUME rpc' # "encode" PROVE batch' = <<>>
    OBVIOUS
  <2>1. count = 0
    BY <1>1, <1>2
  <2>2. DOMAIN batch' = {}
    BY <1>4, <2>1
  <2> QED BY <1>2, <2>1, EmptySeq
<1> QED BY <1>2, <1>5, <1>9, <1>10, <1>11 DEF Placed

\* The entries of the skipped pairs, with one pair more.
LEMMA FirstsOf ==
    ASSUME NEW A, NEW p
    PROVE  {x[1] : x \in A \cup {p}} = {x[1] : x \in A} \cup {p[1]}
OBVIOUS

\* encode: the entry becomes a line or is left out; its source is known after a
\* lookup that works, because it was registered before the entry was offered.
LEMMA PlacedEncode ==
    ASSUME Ring, Hand, Placed, Encode
    PROVE  Placed'
<1> DEFINE e == Head(batch)
<1>1. batch \in Seq(Entry) /\ batch # <<>> /\ batch' = Tail(batch) /\ payload \in Seq(Entry)
  BY DEF Encode, Hand
<1>2. e \in Entry /\ Range(batch) = {e} \cup Range(batch')
  BY <1>1, HeadAndTail, RangeOfHeadTail
<1>3. IsInjective(batch') /\ e \notin Range(batch')
  BY <1>1, InjectiveTail DEF Placed
<1>4. UNCHANGED <<n, offered, written, evicted, abandoned, rpc>> /\ rpc = "encode"
  BY DEF Encode, ringVars, wireVars
<1>5. SourceOf[e] \in Registered
  <2>1. e \in 1..(offered - n)
    BY <1>2 DEF Placed, Held
  <2>2. e \in 1..offered
    BY <2>1, ForwarderAssumption DEF Ring
  <2> QED BY <2>2 DEF Registered
<1>6. Line(e) \/ LeaveOut(e, "blank") \/ LeaveOut(e, "no answer")
  BY <1>5 DEF Encode
<1> HIDE DEF e
<1>7. e \notin Range(payload) \cup Range(written) \cup Gone
  BY <1>2 DEF Placed, Held
<1>8. CASE Line(e)
  <2>1. Range(payload') = Range(payload) \cup {e} /\ skipped' = skipped
    BY <1>1, <1>2, <1>8, RangeOfAppend DEF Line
  <2>2. Held' = Held /\ Gone' = Gone /\ LeftOut' = LeftOut
    BY <1>2, <1>4, <2>1 DEF Held, Gone, LeftOut
  <2>3. Range(batch') \cap (Range(payload') \cup Range(written')) = {}
    BY <1>2, <1>3, <1>4, <2>1 DEF Placed
  <2> QED BY <1>3, <1>4, <2>2, <2>3 DEF Placed
<1>9. CASE LeaveOut(e, "blank") \/ LeaveOut(e, "no answer")
  <2>1. PICK why \in {"blank", "no answer"} :
            skipped' = skipped \cup {<<e, why>>} /\ payload' = payload
    BY <1>9 DEF LeaveOut
  <2>2. LeftOut' = LeftOut \cup {e}
    <3> DEFINE before == {x \in skipped : x[2] # "unknown"}
               after == {x \in skipped' : x[2] # "unknown"}
    <3>1. after = before \cup {<<e, why>>}
      <4>1. <<e, why>>[2] # "unknown"
        OBVIOUS
      <4> QED BY <2>1, <4>1
    <3>2. LeftOut' = {x[1] : x \in after} /\ LeftOut = {x[1] : x \in before}
      BY DEF LeftOut
    <3> HIDE DEF before, after
    <3>3. {x[1] : x \in after} = {x[1] : x \in before} \cup {<<e, why>>[1]}
      BY <3>1, FirstsOf
    <3>4. <<e, why>>[1] = e
      OBVIOUS
    <3> QED BY <3>2, <3>3, <3>4
  <2>3. Held = Held' \cup {e} /\ e \notin Held'
    BY <1>2, <1>3, <1>4, <1>7, <2>1 DEF Held
  <2>4. Gone' = Gone \cup {e}
    BY <1>4, <2>2 DEF Gone
  <2>5. /\ 1..(offered' - n') = Held' \cup Gone' /\ Held' \cap Gone' = {}
        /\ evicted' \cap LeftOut' = {}
    <3>1. 1..(offered' - n') = 1..(offered - n) /\ evicted' = evicted
      BY <1>4
    <3>2. 1..(offered - n) = Held \cup Gone /\ Held \cap Gone = {} /\ evicted \cap LeftOut = {}
      BY DEF Placed
    <3>3. e \notin Gone /\ e \notin evicted
      BY <1>7 DEF Gone
    <3>4. 1..(offered' - n') = Held' \cup Gone' /\ Held' \cap Gone' = {}
      BY <2>3, <2>4, <3>1, <3>2, <3>3
    <3> QED BY <2>2, <3>1, <3>2, <3>3, <3>4
  <2>6. Range(batch') \cap (Range(payload') \cup Range(written')) = {}
    BY <1>2, <1>4, <2>1 DEF Placed
  <2> QED BY <1>3, <1>4, <2>5, <2>6 DEF Placed
<1> QED BY <1>6, <1>8, <1>9

\* What is sent, wholly or in part, is in hand before and written after.
LEMMA PlacedWrite ==
    ASSUME Placed, batch = <<>>, rpc' # "encode",
           UNCHANGED <<n, offered, batch, evicted, skipped, abandoned>>,
           Range(payload') \cup Range(written') = Range(payload) \cup Range(written)
    PROVE  Placed'
<1>1. Held' = Held /\ Gone' = Gone /\ LeftOut' = LeftOut
  BY DEF Held, Gone, LeftOut
<1>2. Range(batch') \cap (Range(payload') \cup Range(written')) = {}
  BY NoRange
<1> QED BY <1>1, <1>2 DEF Placed

\* The end of Run: what it had in hand and has not written is given up.
LEMMA PlacedReturn ==
    ASSUME Placed, rpc # "encode", Return,
           Range(written) \subseteq Range(written'),
           Range(written') \subseteq Range(payload) \cup Range(written)
    PROVE  Placed'
<1>1. batch = <<>> /\ batch' = batch /\ Range(batch) = {} /\ Range(payload') = {}
  BY NoRange DEF Placed, Return
<1>2. UNCHANGED <<n, offered, evicted, skipped>> /\ LeftOut' = LeftOut
  BY DEF Return, ringVars, LeftOut
<1>3. abandoned' = abandoned \cup (Range(payload) \ Range(written'))
  BY DEF Return
<1>4. Held' = Range(written') /\ Held = Range(payload) \cup Range(written)
  BY <1>1 DEF Held
<1>5. Gone' = Gone \cup (Range(payload) \ Range(written'))
  BY <1>2, <1>3 DEF Gone
<1>6. Held' \cup Gone' = Held \cup Gone /\ Held' \cap Gone' = {}
  BY <1>4, <1>5 DEF Placed
<1>7. Range(batch') \cap (Range(payload') \cup Range(written')) = {}
  BY <1>1
<1> QED BY <1>1, <1>2, <1>6, <1>7 DEF Placed

\* Every step keeps every offered entry in its place or moves it to the next.
LEMMA PlacedStep ==
    ASSUME Ring, Hand, Placed, [Next]_vars
    PROVE  Placed'
<1>1. ASSUME NEW o \in Offerers, Offer(o) \/ Notify(o) PROVE Placed'
  <2>1. CASE Notify(o)
    BY <2>1, PlacedQuiet DEF Placed, Notify, ringVars, handVars, wireVars
  <2> QED BY <1>1, <2>1, PlacedOffer
<1>2. CASE Take
  BY <1>2, PlacedTake
<1>3. CASE Encode
  BY <1>3, PlacedEncode
<1>4. CASE Wait \/ Wake \/ Encoded \/ DialOk \/ Report \/ Clock \/ Cancel
  BY <1>4, PlacedQuiet DEF Placed, Wait, Wake, Encoded, DialOk, Report, Clock, Cancel,
     ringVars, handVars, wireVars
<1>5. CASE StopWaiting \/ DialFails \/ Backoff
  <2>1. written' = written /\ rpc # "encode" /\ rpc' # "encode" /\ batch = <<>>
    BY <1>5 DEF StopWaiting, DialFails, Backoff, Return, wireVars, Placed
  <2>2. Return \/ UNCHANGED <<ringVars, handVars, abandoned>>
    BY <1>5 DEF StopWaiting, DialFails, Backoff
  <2>3. CASE Return
    BY <2>1, <2>3, PlacedReturn
  <2>4. CASE UNCHANGED <<ringVars, handVars, abandoned>>
    BY <2>1, <2>4, PlacedQuiet DEF ringVars, handVars
  <2> QED BY <2>2, <2>3, <2>4
<1>6. CASE SendOk
  <2>1. Range(written') = Range(written) \cup Range(payload) /\ Range(payload') = {}
    <3>1. written \in Seq(Entry) /\ payload \in Seq(Entry)
      BY DEF Hand
    <3>2. written' = written \o payload /\ payload' = <<>>
      BY <1>6 DEF SendOk
    <3> QED BY <3>1, <3>2, RangeOfConcat, NoRange
  <2>2. batch = <<>> /\ rpc' # "encode"
    BY <1>6 DEF SendOk, Placed
  <2>3. UNCHANGED <<n, offered, batch, evicted, skipped, abandoned>>
    BY <1>6 DEF SendOk, ringVars
  <2> QED BY <2>1, <2>2, <2>3, PlacedWrite
<1>7. ASSUME NEW k \in 0..(Len(payload) - 1), SendFails(k) PROVE Placed'
  <2>1. payload \in Seq(Entry) /\ written \in Seq(Entry) /\ k \in 0..Len(payload)
    <3>1. payload \in Seq(Entry) /\ written \in Seq(Entry)
      BY DEF Hand
    <3>2. Len(payload) \in Nat
      BY <3>1, LenProperties
    <3> QED BY <3>1, <3>2
  <2>2. /\ SubSeq(payload, 1, k) \in Seq(Entry)
        /\ Range(SubSeq(payload, 1, k)) \subseteq Range(payload)
    BY <2>1, RangeOfPrefix
  <2>3. Range(written') = Range(written) \cup Range(SubSeq(payload, 1, k))
    <3>1. written' = written \o SubSeq(payload, 1, k)
      BY <1>7 DEF SendFails
    <3> DEFINE sent == SubSeq(payload, 1, k)
    <3>2. sent \in Seq(Entry) /\ written \in Seq(Entry)
      BY <2>1, <2>2
    <3> HIDE DEF sent
    <3>3. Range(written \o sent) = Range(written) \cup Range(sent)
      BY <3>2, RangeOfConcat
    <3> QED BY <3>1, <3>3 DEF sent
  <2>4. rpc # "encode" /\ batch = <<>>
    BY <1>7 DEF SendFails, Placed
  <2>5. CASE Return
    BY <2>2, <2>3, <2>4, <2>5, PlacedReturn
  <2>6. CASE ~Return
    <3>1. rpc' = "dial" /\ UNCHANGED <<ringVars, handVars, abandoned>>
      BY <1>7, <2>6 DEF SendFails
    <3> QED BY <2>2, <2>3, <2>4, <3>1, PlacedWrite DEF ringVars, handVars
  <2> QED BY <2>5, <2>6
<1>8. CASE UNCHANGED vars
  BY <1>8, PlacedQuiet DEF Placed, vars, ringVars, handVars, wireVars
<1> QED BY <1>1, <1>2, <1>3, <1>4, <1>5, <1>6, <1>7, <1>8 DEF Next, Run

\* Nothing has been offered at the start.
LEMMA PlacedInit == Init => Placed
<1> SUFFICES ASSUME Init PROVE Placed
  OBVIOUS
<1>1. Held = {} /\ Gone = {} /\ LeftOut = {} /\ IsInjective(batch) /\ Range(batch) = {}
  BY NoRange DEF Init, Held, Gone, LeftOut
<1>2. 1..(offered - n) = {}
  BY DEF Init
<1> QED BY <1>1, <1>2 DEF Init, Placed

\* No entry disappears silently, for every size of queue and batch and wherever
\* writes fail or Run is cancelled: each one offered is in the ring, in hand,
\* written, left out for a cause, dropped or given up, and nowhere else.
THEOREM NothingIsForgotten == Spec => []NothingVanishes
<1>1. Init => ForwarderInv /\ Placed
  BY InitInv, PlacedInit
<1>2. ForwarderInv /\ Placed /\ [Next]_vars => ForwarderInv' /\ Placed'
  BY StepInv, PlacedStep DEF ForwarderInv
<1>3. ForwarderInv /\ Placed => NothingVanishes
  BY PlacedEverywhere DEF ForwarderInv
<1> QED BY <1>1, <1>2, <1>3, PTL DEF Spec
-----------------------------------------------------------------------------
(* The order and the number of the lines. What Run takes is newer than all *)
(* it took before; a payload repeats only itself.                          *)

Increasing(s) == \A i, j \in DOMAIN s : i < j => s[i] < s[j]
Times(s, e)   == Cardinality({i \in DOMAIN s : s[i] = e})

Turns ==
    /\ Increasing(batch) /\ Increasing(payload)
    /\ \A b \in Range(batch), x \in Range(payload) \cup Range(written) : x < b
    /\ \A p \in Range(payload), w \in Range(written) : p <= w => p \in Range(written)
    /\ \A e \in Range(payload) : Times(written, e) <= failures
    /\ WrittenInOrder

\* Each entry of an increasing sequence comes once more behind what was written.
LEMMA OnceMore ==
    ASSUME NEW w \in Seq(Entry), NEW s \in Seq(Entry), Increasing(s), NEW e
    PROVE  /\ Times(w, e) \in Nat /\ Times(w \o s, e) \in Nat
           /\ Times(w \o s, e) <= Times(w, e) + 1
           /\ e \notin Range(s) => Times(w \o s, e) = Times(w, e)
<1> DEFINE A == {i \in DOMAIN w : w[i] = e}
           B == {i \in DOMAIN (w \o s) : (w \o s)[i] = e}
<1>1. /\ DOMAIN w = 1..Len(w) /\ DOMAIN s = 1..Len(s) /\ DOMAIN (w \o s) = 1..(Len(w) + Len(s))
      /\ Len(w) \in Nat /\ Len(s) \in Nat
      /\ \A i \in 1..(Len(w) + Len(s)) :
            (w \o s)[i] = IF i <= Len(w) THEN w[i] ELSE s[i - Len(w)]
  BY ConcatProperties, LenProperties
<1>2. IsFiniteSet(A) /\ Cardinality(A) \in Nat
  <2>1. A \in SUBSET (1..Len(w))
    BY <1>1
  <2>2. IsFiniteSet(1..Len(w))
    BY <1>1, FS_Interval
  <2> HIDE DEF A
  <2>3. IsFiniteSet(A)
    BY <2>1, <2>2, FS_Subset
  <2> QED BY <2>3, FS_CardinalityType
<1>3. ASSUME e \notin Range(s) PROVE B = A
  <2>1. \A i \in 1..Len(s) : s[i] # e
    BY <1>1, <1>3 DEF Range
  <2>2. \A i \in B : i <= Len(w) /\ i \in A
    BY <1>1, <2>1
  <2>3. \A i \in A : i \in B
    BY <1>1
  <2> QED BY <2>2, <2>3
<1>4. ASSUME e \in Range(s) PROVE \E m : B = A \cup {m} /\ m \notin A
  <2>1. PICK m \in 1..Len(s) : s[m] = e
    BY <1>1, <1>4 DEF Range
  <2>2. \A i \in 1..Len(s) : s[i] = e => i = m
    <3> SUFFICES ASSUME NEW i \in 1..Len(s), s[i] = e, i # m PROVE FALSE
      OBVIOUS
    <3>1. i < m \/ m < i
      BY <1>1
    <3>2. s[i] < s[m] \/ s[m] < s[i]
      BY <1>1, <3>1 DEF Increasing
    <3>3. s[m] \in Nat /\ s[i] \in Nat
      BY ElementOfSeq, ForwarderAssumption DEF Entry
    <3> QED BY <2>1, <3>2, <3>3
  <2>3. \A i \in B : i \in A \/ i = Len(w) + m
    <3> SUFFICES ASSUME NEW i \in B, i \notin A PROVE i = Len(w) + m
      OBVIOUS
    <3>1. i \in 1..(Len(w) + Len(s)) /\ ~(i <= Len(w)) /\ s[i - Len(w)] = e
      BY <1>1
    <3>2. i - Len(w) \in 1..Len(s)
      BY <1>1, <3>1
    <3>3. i - Len(w) = m
      BY <2>2, <3>1, <3>2
    <3> QED BY <1>1, <3>1, <3>3
  <2>4. \A i \in A : i \in B
    BY <1>1
  <2>5. Len(w) + m \in B /\ Len(w) + m \notin A
    <3>1. Len(w) + m \in 1..(Len(w) + Len(s)) /\ ~(Len(w) + m <= Len(w)) /\ (Len(w) + m) - Len(w) = m
      BY <1>1
    <3> QED BY <1>1, <2>1, <3>1
  <2> QED BY <2>3, <2>4, <2>5
<1>5. Times(w, e) = Cardinality(A) /\ Times(w \o s, e) = Cardinality(B)
  BY DEF Times
<1> HIDE DEF A, B
<1>6. CASE e \notin Range(s)
  BY <1>5, <1>2, <1>3, <1>6
<1>7. CASE e \in Range(s)
  <2>1. PICK m : B = A \cup {m} /\ m \notin A
    BY <1>4, <1>7
  <2>2. Cardinality(B) = Cardinality(A) + 1
    BY <1>2, <2>1, FS_AddElement
  <2> QED BY <1>5, <1>2, <1>7, <2>2
<1> QED BY <1>6, <1>7

\* take: the batch is what comes next in the ring.
LEMMA TakenInOrder ==
    ASSUME Ring, Take
    PROVE  \E c \in Nat : DOMAIN batch' = 1..c /\ \A i \in 1..c : batch'[i] = offered - n + i
<1> DEFINE c == IF n < MaxBatch THEN n ELSE MaxBatch
<1>1. n \in Nat /\ offered \in Nat /\ n <= offered /\ c \in 0..n
  BY ForwarderAssumption DEF Ring
<1>2. batch' = [i \in 1..c |-> ring[Slot(i - 1)]]
  BY DEF Take, FromFront, Oldest
<1> HIDE DEF c
<1>3. ASSUME NEW i \in 1..c PROVE batch'[i] = offered - n + i
  <2>1. i - 1 \in 0..(n - 1)
    BY <1>1
  <2>2. ring[Slot(i - 1)] = offered - n + 1 + (i - 1)
    BY <2>1 DEF Ring, RingIsWindow
  <2> QED BY <1>1, <1>2, <2>2
<1>4. DOMAIN batch' = 1..c /\ c \in Nat
  BY <1>1, <1>2
<1> QED BY <1>3, <1>4

\* So it is newer than all that Run had before.
LEMMA TurnsTake ==
    ASSUME Ring, Placed, Turns, Take
    PROVE  Turns'
<1>1. PICK c \in Nat : DOMAIN batch' = 1..c /\ \A i \in 1..c : batch'[i] = offered - n + i
  BY TakenInOrder
<1>2. n \in Nat /\ offered \in Nat /\ n <= offered /\ UNCHANGED <<payload, written, failures>>
  BY ForwarderAssumption DEF Ring, Take
<1>3. Increasing(batch')
  BY <1>1, <1>2 DEF Increasing
<1>4. \A x \in Range(payload) \cup Range(written) : x \in 1..(offered - n)
  BY DEF Placed, Held
<1>5. \A b \in Range(batch') : b \in Nat /\ b > offered - n
  BY <1>1, <1>2 DEF Range
<1>6. \A b \in Range(batch'), x \in Range(payload') \cup Range(written') : x < b
  BY <1>2, <1>4, <1>5
<1> QED BY <1>2, <1>3, <1>6 DEF Turns, WrittenInOrder, Times
\* encode: the entry is newer than the lines before it, and was never written.
LEMMA TurnsEncode ==
    ASSUME Control, Hand, Placed, Turns, Encode
    PROVE  Turns'
<1> DEFINE e == Head(batch)
           rest == Tail(batch)
<1>1. batch \in Seq(Entry) /\ batch # <<>> /\ batch' = rest /\ payload \in Seq(Entry)
  BY DEF Encode, Hand
<1>2. /\ e \in Entry /\ rest \in Seq(Entry) /\ e = batch[1] /\ Len(rest) = Len(batch) - 1
      /\ Len(batch) \in Nat \ {0} /\ \A i \in 1..Len(rest) : rest[i] = batch[i + 1]
  BY <1>1, HeadAndTail
<1>3. DOMAIN rest = 1..Len(rest) /\ DOMAIN batch = 1..Len(batch)
  BY <1>1, <1>2, LenProperties
<1>4. Range(batch) = {e} \cup Range(rest)
  BY <1>1, RangeOfHeadTail
<1>5. written' = written /\ failures' = failures
  BY DEF Encode, wireVars
<1>6. payload' = payload \/ payload' = Append(payload, e)
  BY DEF Encode, Line, LeaveOut
<1> HIDE DEF e, rest
<1>7. Increasing(rest)
  <2> SUFFICES ASSUME NEW i \in 1..Len(rest), NEW j \in 1..Len(rest), i < j
               PROVE  rest[i] < rest[j]
    BY <1>3 DEF Increasing
  <2>1. i + 1 \in DOMAIN batch /\ j + 1 \in DOMAIN batch /\ i + 1 < j + 1
    BY <1>2, <1>3
  <2> QED BY <1>2, <2>1 DEF Turns, Increasing
<1>8. \A b \in Range(rest) : e < b
  <2> SUFFICES ASSUME NEW i \in 1..Len(rest) PROVE e < rest[i]
    BY <1>3 DEF Range
  <2>1. 1 \in DOMAIN batch /\ i + 1 \in DOMAIN batch /\ 1 < i + 1
    BY <1>2, <1>3
  <2> QED BY <1>2, <2>1 DEF Turns, Increasing
<1>9. \A x \in Range(payload) \cup Range(written) : x < e
  BY <1>4 DEF Turns
<1>10. CASE payload' = payload
  BY <1>1, <1>4, <1>5, <1>7, <1>10 DEF Turns, WrittenInOrder, Times
<1>11. CASE payload' = Append(payload, e)
  <2>1. Range(payload') = Range(payload) \cup {e}
    BY <1>1, <1>2, <1>11, RangeOfAppend
  <2>2. /\ DOMAIN payload' = 1..(Len(payload) + 1) /\ DOMAIN payload = 1..Len(payload)
        /\ Len(payload) \in Nat
        /\ \A i \in 1..Len(payload) : payload'[i] = payload[i]
        /\ payload'[Len(payload) + 1] = e
    BY <1>1, <1>2, <1>11, AppendProperties, LenProperties
  <2>3. Increasing(payload')
    <3> SUFFICES ASSUME NEW i \in 1..(Len(payload) + 1), NEW j \in 1..(Len(payload) + 1), i < j
                 PROVE  payload'[i] < payload'[j]
      BY <2>2 DEF Increasing
    <3>1. i \in 1..Len(payload) /\ payload[i] \in Range(payload)
      BY <2>2 DEF Range
    <3>2. CASE j \in 1..Len(payload)
      BY <2>2, <3>1, <3>2 DEF Turns, Increasing
    <3>3. CASE j = Len(payload) + 1
      BY <1>9, <2>2, <3>1, <3>3
    <3> QED BY <2>2, <3>2, <3>3
  <2>4. \A b \in Range(rest), x \in Range(payload') \cup Range(written) : x < b
    BY <1>4, <1>8, <2>1 DEF Turns
  <2>5. \A w \in Range(written) : ~(e <= w)
    <3>1. \A w \in Range(written) : w \in Nat /\ w < e
      <4>1. Range(written) \subseteq Entry
        BY EntriesOf DEF Hand
      <4> QED BY <1>9, <4>1, ForwarderAssumption DEF Entry
    <3> QED BY <1>2, <3>1 DEF Entry
  <2>6. \A p \in Range(payload'), w \in Range(written) : p <= w => p \in Range(written)
    BY <2>1, <2>5 DEF Turns
  <2>7. Times(written, e) = 0
    <3>1. \A i \in DOMAIN written : written[i] # e
      <4>1. \A i \in DOMAIN written : written[i] \in Range(written)
        BY DEF Range
      <4>2. e \notin Range(written)
        BY <1>4 DEF Placed
      <4> QED BY <4>1, <4>2
    <3>2. {i \in DOMAIN written : written[i] = e} = {}
      BY <3>1
    <3> QED BY <3>2, FS_EmptySet DEF Times
  <2>8. \A x \in Range(payload') : Times(written, x) <= failures
    BY <2>1, <2>7, ForwarderAssumption DEF Turns, Control
  <2> QED BY <1>1, <1>5, <1>7, <2>3, <2>4, <2>6, <2>8 DEF Turns, WrittenInOrder, Times
<1> QED BY <1>6, <1>10, <1>11

\* The types the write needs.
LEMMA HandTypes ==
    ASSUME Hand, Control
    PROVE  /\ payload \in Seq(Entry) /\ written \in Seq(Entry)
           /\ Len(payload) \in Nat /\ Len(written) \in Nat /\ failures \in Nat
<1>1. payload \in Seq(Entry) /\ written \in Seq(Entry)
  BY DEF Hand
<1>2. Len(payload) \in Nat /\ Len(written) \in Nat
  BY <1>1, LenProperties
<1>3. failures \in Nat
  BY ForwarderAssumption DEF Control
<1> QED BY <1>1, <1>2, <1>3

\* A write appends the payload or a beginning of it: what it repeats it has
\* written before, in an attempt that failed.
LEMMA TurnsWrite ==
    ASSUME Control, Hand, Turns, NEW k \in 0..Len(payload),
           written' = written \o SubSeq(payload, 1, k),
           failures' \in Nat, failures <= failures',
           k = Len(payload) \/ failures' = failures + 1
    PROVE  /\ \A p \in Range(payload), w \in Range(written') : p <= w => p \in Range(written')
           /\ failures' = failures + 1 =>
                 \A e \in Range(payload) : Times(written', e) <= failures'
           /\ WrittenInOrder'
<1> DEFINE s == SubSeq(payload, 1, k)
           L == Len(written)
<1>1. /\ payload \in Seq(Entry) /\ written \in Seq(Entry)
      /\ Len(payload) \in Nat /\ L \in Nat /\ failures \in Nat
  BY HandTypes
<1>2. k \in Nat /\ k <= Len(payload)
  BY <1>1
<1>3. s \in Seq(Entry) /\ Len(s) = k /\ \A i \in 1..k : s[i] = payload[i]
  <2>1. s \in Seq(Entry)
    BY <1>1, RangeOfPrefix
  <2>2. \A i \in 1..Len(payload) : payload[i] \in Entry
    BY <1>1, ElementOfSeq
  <2>3. Len(s) = (IF 1 <= k THEN k - 1 + 1 ELSE 0) /\ \A i \in 1..(k - 1 + 1) : s[i] = payload[1 + i - 1]
    BY <1>1, <1>2, SubSeqProperties
  <2> QED BY <1>2, <2>1, <2>3
<1> HIDE DEF s
<1>4. /\ DOMAIN s = 1..k /\ DOMAIN payload = 1..Len(payload) /\ DOMAIN written = 1..L
      /\ 1..k \subseteq DOMAIN payload
  <2>1. DOMAIN payload = 1..Len(payload) /\ DOMAIN written = 1..L
    BY <1>1, LenProperties
  <2>2. 1..k \subseteq 1..Len(payload)
    BY <1>2
  <2>3. DOMAIN s = 1..k
    BY <1>3, LenProperties
  <2> QED BY <2>1, <2>2, <2>3
<1>5. /\ written' = written \o s /\ DOMAIN written' = 1..(L + k)
      /\ \A i \in 1..(L + k) : written'[i] = IF i <= L THEN written[i] ELSE s[i - L]
  <2>1. written' = written \o s
    BY DEF s
  <2>2. written \o s \in Seq(Entry) /\ Len(written \o s) = L + k
    BY <1>1, <1>3, ConcatProperties
  <2> QED BY <1>1, <1>3, <2>1, <2>2, ConcatProperties, LenProperties
<1>6. Range(written') = Range(written) \cup Range(s)
  BY <1>1, <1>3, <1>5, RangeOfConcat
<1>7. Increasing(s)
  <2> SUFFICES ASSUME NEW i \in 1..k, NEW j \in 1..k, i < j PROVE s[i] < s[j]
    BY <1>4 DEF Increasing
  <2>1. i \in DOMAIN payload /\ j \in DOMAIN payload
    BY <1>4
  <2>2. payload[i] < payload[j]
    BY <2>1 DEF Turns, Increasing
  <2> QED BY <1>3, <2>2
<1>8. \A e \in Entry : e \in Nat
  BY ForwarderAssumption DEF Entry
<1>9. \A p \in Range(payload), w \in Range(written') : p <= w => p \in Range(written')
  <2> SUFFICES ASSUME NEW p \in Range(payload), NEW w \in Range(written'), p <= w
               PROVE  p \in Range(written')
    OBVIOUS
  <2>1. CASE w \in Range(written)
    BY <1>6, <2>1 DEF Turns
  <2>2. CASE w \in Range(s)
    <3>1. PICK i \in 1..Len(payload) : p = payload[i]
      BY <1>4 DEF Range
    <3>2. PICK m \in 1..k : w = payload[m]
      BY <1>3, <1>4, <2>2 DEF Range
    <3>3. payload[i] \in Nat /\ payload[m] \in Nat
      BY <1>1, <1>2, <1>8, ElementOfSeq
    <3>4. ~(m < i)
      <4> SUFFICES ASSUME m < i PROVE FALSE
        OBVIOUS
      <4>1. payload[m] < payload[i]
        <5>1. m \in DOMAIN payload /\ i \in DOMAIN payload
          BY <1>4
        <5> QED BY <5>1 DEF Turns, Increasing
      <4> QED BY <3>1, <3>2, <3>3, <4>1
    <3>5. i \in 1..k
      BY <1>2, <3>4
    <3> QED BY <1>3, <1>4, <1>6, <3>1, <3>5 DEF Range
  <2> QED BY <1>6, <2>1, <2>2
<1>10. Range(s) \subseteq Range(payload)
  BY <1>1, RangeOfPrefix DEF s
<1>11. ASSUME NEW e \in Entry
       PROVE  /\ Times(written, e) \in Nat /\ Times(written', e) \in Nat
              /\ Times(written', e) <= Times(written, e) + 1
              /\ e \notin Range(s) => Times(written', e) = Times(written, e)
  <2>1. /\ Times(written, e) \in Nat /\ Times(written \o s, e) \in Nat
        /\ Times(written \o s, e) <= Times(written, e) + 1
        /\ e \notin Range(s) => Times(written \o s, e) = Times(written, e)
    BY <1>1, <1>3, <1>7, OnceMore
  <2>2. written' = written \o s
    BY <1>5
  <2>3. Times(written', e) = Times(written \o s, e)
    BY <2>2 DEF Times
  <2> QED BY <2>1, <2>3
<1>12. ASSUME NEW e \in Range(payload) PROVE Times(written', e) <= failures + 1
  <2>1. e \in Entry /\ Times(written, e) <= failures
    BY <1>1, EntriesOf DEF Turns
  <2> QED BY <1>1, <1>11, <2>1
<1>13. \A e \in Entry : Times(written', e) <= failures' + 1
  <2> SUFFICES ASSUME NEW e \in Entry PROVE Times(written', e) <= failures' + 1
    OBVIOUS
  <2>1. Times(written, e) <= failures + 1
    BY DEF Turns, WrittenInOrder, Times
  <2>2. CASE e \in Range(payload)
    BY <1>1, <1>11, <1>12, <2>2
  <2>3. CASE e \notin Range(payload)
    BY <1>1, <1>10, <1>11, <2>1, <2>3
  <2> QED BY <2>2, <2>3
<1>14. ASSUME NEW i \in 1..(L + k), NEW j \in 1..(L + k), i < j, written'[j] <= written'[i]
       PROVE  \E m \in 1..(j - 1) : written'[m] = written'[j]
  <2>1. CASE j <= L
    <3>1. i \in 1..L /\ j \in 1..L /\ written[j] <= written[i]
      BY <1>1, <1>5, <1>14, <2>1
    <3>2. PICK m \in 1..(j - 1) : written[m] = written[j]
      BY <1>4, <1>14, <3>1 DEF Turns, WrittenInOrder
    <3>3. m \in 1..(L + k) /\ m <= L
      BY <1>1, <1>2, <3>1
    <3> QED BY <1>5, <2>1, <3>2, <3>3
  <2>2. CASE ~(j <= L)
    <3>1. j - L \in 1..k /\ written'[j] = s[j - L]
      BY <1>1, <1>2, <1>5, <2>2
    <3>2. s[j - L] \in Range(s) /\ s[j - L] \in Range(payload)
      BY <1>4, <1>10, <3>1 DEF Range
    <3>3. CASE i <= L
      <4>1. i \in 1..L /\ written'[i] = written[i] /\ written[i] \in Range(written)
        <5>1. i \in 1..L
          BY <1>1, <3>3
        <5>2. written'[i] = written[i]
          BY <1>5, <3>3
        <5>3. written[i] \in Range(written)
          BY <1>4, <5>1 DEF Range
        <5> QED BY <5>1, <5>2, <5>3
      <4>2. s[j - L] \in Range(written)
        BY <1>14, <3>1, <3>2, <4>1 DEF Turns
      <4>3. PICK m \in 1..L : written[m] = s[j - L]
        BY <1>4, <4>2 DEF Range
      <4>4. m \in 1..(L + k) /\ m \in 1..(j - 1) /\ m <= L
        BY <1>1, <1>2, <2>2
      <4> QED BY <1>5, <3>1, <4>3, <4>4
    <3>4. CASE ~(i <= L)
      <4>1. i - L \in 1..k /\ written'[i] = s[i - L] /\ i - L < j - L
        BY <1>1, <1>2, <1>5, <1>14, <3>4
      <4>2. s[i - L] < s[j - L]
        BY <1>4, <1>7, <3>1, <4>1 DEF Increasing
      <4>3. s[i - L] \in Nat /\ s[j - L] \in Nat
        BY <1>3, <1>8, <3>1, <4>1, ElementOfSeq
      <4> QED BY <1>14, <3>1, <4>1, <4>2, <4>3
    <3> QED BY <3>3, <3>4
  <2> QED BY <2>1, <2>2
<1>15. WrittenInOrder'
  BY <1>5, <1>13, <1>14 DEF WrittenInOrder, Times
<1> QED BY <1>9, <1>12, <1>15
\* Steps that move nothing between the hand and the target.
LEMMA TurnsQuiet ==
    ASSUME Turns, UNCHANGED <<batch, payload, written, failures>>
    PROVE  Turns'
BY DEF Turns, WrittenInOrder, Times

\* The end of Run leaves its hands empty.
LEMMA TurnsReturn ==
    ASSUME Return, batch = <<>>, WrittenInOrder'
    PROVE  Turns'
<1>1. batch' = <<>> /\ payload' = <<>>
  BY DEF Return
<1>2. Range(<<>>) = {} /\ DOMAIN <<>> = {}
  BY NoRange, EmptySeq
<1>3. Range(batch') = {} /\ Range(payload') = {} /\ Increasing(batch') /\ Increasing(payload')
  BY <1>1, <1>2 DEF Increasing
<1> QED BY <1>3 DEF Turns

\* Every step keeps the order and the numbers.
LEMMA TurnsStep ==
    ASSUME Ring, Control, Hand, Placed, Turns, [Next]_vars
    PROVE  Turns'
<1>1. ASSUME NEW o \in Offerers, Offer(o) \/ Notify(o) PROVE Turns'
  BY <1>1, TurnsQuiet DEF Offer, Notify, handVars, wireVars
<1>2. CASE Take
  BY <1>2, TurnsTake
<1>3. CASE Encode
  BY <1>3, TurnsEncode
<1>4. CASE Wait \/ Wake \/ Encoded \/ DialOk \/ Report \/ Clock \/ Cancel
  BY <1>4, TurnsQuiet DEF Wait, Wake, Encoded, DialOk, Report, Clock, Cancel, handVars, wireVars
<1>5. CASE StopWaiting \/ DialFails \/ Backoff
  <2>1. UNCHANGED <<written, failures>> /\ batch = <<>>
    BY <1>5 DEF StopWaiting, DialFails, Backoff, wireVars, Placed
  <2>2. Return \/ UNCHANGED handVars
    BY <1>5 DEF StopWaiting, DialFails, Backoff
  <2>3. CASE Return
    <3>1. WrittenInOrder'
      BY <2>1 DEF Turns, WrittenInOrder
    <3> QED BY <2>1, <2>3, <3>1, TurnsReturn
  <2>4. CASE UNCHANGED handVars
    BY <2>1, <2>4, TurnsQuiet DEF handVars
  <2> QED BY <2>2, <2>3, <2>4
<1>6. CASE SendOk
  <2>1. /\ written' = written \o payload /\ payload' = <<>> /\ batch = <<>> /\ batch' = batch
        /\ failures' = failures
    BY <1>6 DEF SendOk, Placed
  <2>2. payload \in Seq(Entry) /\ Len(payload) \in Nat /\ failures \in Nat
    BY HandTypes
  <2>3. SubSeq(payload, 1, Len(payload)) = payload /\ Len(payload) \in 0..Len(payload)
    BY <2>2, SubSeqFull
  <2>4. WrittenInOrder'
    <3>1. written' = written \o SubSeq(payload, 1, Len(payload))
      BY <2>1, <2>3
    <3> DEFINE k == Len(payload)
    <3>2. k \in 0..Len(payload) /\ written' = written \o SubSeq(payload, 1, k) /\ k = Len(payload)
      BY <2>3, <3>1
    <3>3. failures' \in Nat /\ failures <= failures'
      BY <2>1, <2>2
    <3> HIDE DEF k
    <3> QED BY <3>2, <3>3, TurnsWrite
  <2>5. Range(batch') = {} /\ Range(payload') = {} /\ Increasing(batch') /\ Increasing(payload')
    <3>1. Range(<<>>) = {} /\ DOMAIN <<>> = {}
      BY NoRange, EmptySeq
    <3> QED BY <2>1, <3>1 DEF Increasing
  <2> QED BY <2>4, <2>5 DEF Turns
<1>7. ASSUME NEW k \in 0..(Len(payload) - 1), SendFails(k) PROVE Turns'
  <2>1. payload \in Seq(Entry) /\ Len(payload) \in Nat /\ failures \in Nat
    BY HandTypes
  <2>2. /\ k \in 0..Len(payload) /\ written' = written \o SubSeq(payload, 1, k)
        /\ failures' = failures + 1 /\ failures' \in Nat /\ failures <= failures'
    BY <1>7, <2>1 DEF SendFails
  <2>3. /\ \A p \in Range(payload), w \in Range(written') : p <= w => p \in Range(written')
        /\ \A e \in Range(payload) : Times(written', e) <= failures'
        /\ WrittenInOrder'
    BY <2>2, TurnsWrite
  <2>4. batch = <<>>
    BY <1>7 DEF SendFails, Placed
  <2>5. CASE Return
    BY <2>3, <2>4, <2>5, TurnsReturn
  <2>6. CASE ~Return
    <3>1. batch' = batch /\ payload' = payload
      BY <1>7, <2>6 DEF SendFails, handVars
    <3>2. Range(batch') = {}
      BY <2>4, <3>1, NoRange
    <3> QED BY <2>3, <3>1, <3>2 DEF Turns, Times
  <2> QED BY <2>5, <2>6
<1>8. CASE UNCHANGED vars
  BY <1>8, TurnsQuiet DEF vars, handVars, wireVars
<1> QED BY <1>1, <1>2, <1>3, <1>4, <1>5, <1>6, <1>7, <1>8 DEF Next, Run

\* Nothing is in hand or written at the start.
LEMMA TurnsInit == Init => Turns
<1> SUFFICES ASSUME Init PROVE Turns
  OBVIOUS
<1>1. batch = <<>> /\ payload = <<>> /\ written = <<>> /\ failures = 0
  BY DEF Init
<1>2. Range(<<>>) = {} /\ DOMAIN <<>> = {}
  BY NoRange, EmptySeq
<1>3. \A e \in Entry : {i \in DOMAIN written : written[i] = e} = {}
  BY <1>1, <1>2
<1>4. \A e \in Entry : Cardinality({i \in DOMAIN written : written[i] = e}) = 0
  BY <1>3, FS_EmptySet
<1>5. WrittenInOrder
  BY <1>1, <1>2, <1>4 DEF WrittenInOrder
<1>6. Increasing(batch) /\ Increasing(payload) /\ Range(batch) = {} /\ Range(payload) = {}
  BY <1>1, <1>2 DEF Increasing
<1> QED BY <1>5, <1>6 DEF Turns

\* The target gets new entries in the order they were offered, for every size of
\* queue and batch; what comes late or again it has had before, and no entry more
\* often than writes have failed, plus once (forwarder.go:154).
THEOREM NothingOvertakes == Spec => []WrittenInOrder
<1>1. Init => ForwarderInv /\ Placed /\ Turns
  BY InitInv, PlacedInit, TurnsInit
<1>2. ForwarderInv /\ Placed /\ Turns /\ [Next]_vars => ForwarderInv' /\ Placed' /\ Turns'
  BY StepInv, PlacedStep, TurnsStep DEF ForwarderInv
<1>3. Turns => WrittenInOrder
  BY DEF Turns
<1> QED BY <1>1, <1>2, <1>3, PTL DEF Spec
=============================================================================
