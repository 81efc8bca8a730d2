--------------------------- MODULE CoreLinkProofs ---------------------------
(***************************************************************************)
(* Proofs about CoreLink, for any satellites, delays and number of changes *)
(* of Core: its types, with the bounds of the backoff; that a delay is     *)
(* given by the failed attempts; that the collector falls back to v1 only  *)
(* for a Core without v2; and that a known name stays. What Core does to a *)
(* stream and what the client does to itself are lemmas of their own.      *)
(***************************************************************************)
EXTENDS CoreLink, FiniteSetTheorems, TLAPS

USE CoreAssumption

\* What Core is: the names a satellite has, and the one that never changes.
CoreTypeOK ==
    /\ core \in {"down", "v1", "v2"} /\ ctxDone \in BOOLEAN
    /\ display \in [Satellites -> {"", "named", "steady"}]
    /\ display[Steady] = "steady"

AllTypeOK == CoreTypeOK /\ TypeOK

\* Doubling never leaves the bounds of the backoff (client.go:62).
LEMMA BackoffBounded ==
    ASSUME NEW b \in InitialBackoff..MaxBackoff
    PROVE  Doubled(b) \in InitialBackoff..MaxBackoff
BY ClientAssumption DEF Doubled

\* The names sorted out of an answer are names of satellites, none empty.
LEMMA NamedType ==
    ASSUME CoreTypeOK
    PROVE  /\ DOMAIN Named(display) \subseteq Satellites
           /\ "" \notin Range(Named(display))
           /\ Steady \in DOMAIN Named(display) /\ Named(display)[Steady] = "steady"
BY DEF CoreTypeOK, Named, Restrict, Range

\* The shapes hold at the start, ...
LEMMA TypeInit == Init => AllTypeOK
<1> SUFFICES ASSUME Init PROVE AllTypeOK
  OBVIOUS
<1>1. CoreTypeOK
  BY DEF Init, CoreInit, CoreTypeOK
<1>2. ClientTypeOK
  <2>1. backoff \in InitialBackoff..MaxBackoff /\ failures \in 0..MaxCounted
    BY ClientAssumption DEF Init, ClientInit
  <2> QED
    BY <2>1 DEF Init, ClientInit, ClientTypeOK
<1>3. NamesTypeOK
  BY DEF Init, NamesInit, NamesTypeOK, NoNames, Range
<1> QED
  BY <1>1, <1>2, <1>3 DEF AllTypeOK, TypeOK

\* ... over the steps of the client, ...
LEMMA TypeClient ==
    ASSUME ClientTypeOK, ClientStep
    PROVE  ClientTypeOK'
<1> USE DEF ClientTypeOK
<1>1. CASE Resolve
  BY <1>1 DEF Resolve
<1>2. CASE Open
  BY <1>2 DEF Open
<1>3. CASE Register
  BY <1>3 DEF Register
<1>4. CASE RecvAck
  BY <1>4 DEF RecvAck
<1>5. ASSUME NEW acked \in BOOLEAN, EndAttempt(acked) PROVE ClientTypeOK'
  <2>1. backoff' \in InitialBackoff..MaxBackoff
    BY <1>5, ClientAssumption DEF EndAttempt, NextBackoff
  <2>2. failures' \in 0..MaxCounted
    BY <1>5, ClientAssumption DEF EndAttempt
  <2> QED
    BY <1>5, <2>1, <2>2 DEF EndAttempt
<1>6. CASE Fails
  BY <1>5, <1>6 DEF Fails
<1>7. CASE RecvFails
  BY <1>5, <1>7 DEF RecvFails
<1>8. CASE BackoffOver
  <2>1. backoff' \in InitialBackoff..MaxBackoff
    BY <1>8, BackoffBounded DEF BackoffOver
  <2> QED
    BY <1>8, <2>1 DEF BackoffOver
<1>9. CASE Cancelled
  BY <1>9 DEF Cancelled
<1> QED
  BY <1>1, <1>2, <1>3, <1>4, <1>6, <1>7, <1>8, <1>9 DEF ClientStep

\* ... when the stream breaks, ...
LEMMA TypeBreaks == ASSUME ClientTypeOK, StreamBreaks PROVE ClientTypeOK'
BY DEF ClientTypeOK, StreamBreaks

\* ... over the steps of the names, ...
LEMMA TypeNames ==
    ASSUME CoreTypeOK, NamesTypeOK, NamesStep
    PROVE  NamesTypeOK'
<1> USE DEF NamesTypeOK
<1>1. CASE ListResolve
  BY <1>1 DEF ListResolve
<1>2. CASE ListAnswered
  BY <1>2, NamedType DEF ListAnswered
<1>3. CASE ListFails
  BY <1>3 DEF ListFails, KeptOnError
<1>4. CASE Set
  BY <1>4 DEF Set, Replaced, NoNames, Range
<1>5. CASE AskAgain
  BY <1>5 DEF AskAgain
<1>6. CASE WaitCancelled
  BY <1>6 DEF WaitCancelled
<1> QED
  BY <1>1, <1>2, <1>3, <1>4, <1>5, <1>6 DEF NamesStep

\* ... and so over every step ...
LEMMA TypeStep == AllTypeOK /\ [Next]_vars => AllTypeOK'
<1> SUFFICES ASSUME AllTypeOK, [Next]_vars PROVE AllTypeOK'
  OBVIOUS
<1> USE DEF AllTypeOK, TypeOK
<1>1. ASSUME UNCHANGED clientVars PROVE ClientTypeOK'
  BY <1>1 DEF clientVars, ClientTypeOK
<1>2. ASSUME UNCHANGED namesVars PROVE NamesTypeOK'
  BY <1>2 DEF namesVars, NamesTypeOK
<1>3. ASSUME UNCHANGED coreVars PROVE CoreTypeOK'
  BY <1>3 DEF coreVars, CoreTypeOK
<1>4. CASE CoreRestarts
  <2>1. CoreTypeOK'
    BY <1>4 DEF CoreRestarts, Restart, Changes, CoreTypeOK
  <2> QED
    BY <1>2, <1>4, <2>1, TypeBreaks DEF CoreRestarts
<1>5. CASE ConnectionDrops
  <2>1. CoreTypeOK'
    BY <1>5 DEF ConnectionDrops, Changes, CoreTypeOK
  <2> QED
    BY <1>2, <1>5, <2>1, TypeBreaks DEF ConnectionDrops
<1>6. CASE CoreRenames
  <2>1. CoreTypeOK'
    BY <1>6 DEF CoreRenames, Rename, Changes, CoreTypeOK
  <2> QED
    BY <1>1, <1>2, <1>6, <2>1 DEF CoreRenames
<1>7. CASE Cancel
  <2>1. CoreTypeOK'
    BY <1>7 DEF Cancel, CoreTypeOK
  <2> QED
    BY <1>1, <1>2, <1>7, <2>1 DEF Cancel
<1>8. CASE Client
  BY <1>2, <1>3, <1>8, TypeClient DEF Client
<1>9. CASE Registry
  BY <1>1, <1>3, <1>9, TypeNames DEF Registry
<1>10. CASE UNCHANGED vars
  BY <1>1, <1>2, <1>3, <1>10 DEF vars
<1> QED
  BY <1>4, <1>5, <1>6, <1>7, <1>8, <1>9, <1>10 DEF Next

\* ... and in every state.
LEMMA AllTypeCorrect == Spec => []AllTypeOK
BY TypeInit, TypeStep, PTL DEF Spec

\* For any delays: the backoff never leaves its bounds (client.go:62), and every
\* variable keeps its shape.
THEOREM TypeCorrect == Spec => []TypeOK
<1>1. AllTypeOK => TypeOK
  BY DEF AllTypeOK
<1> QED
  BY <1>1, AllTypeCorrect, PTL

(***************************************************************************)
(* The delays. While an attempt runs, backoff is already the delay that    *)
(* follows if it fails.                                                    *)
(***************************************************************************)

\* 2^n is the number of sets of n numbers; each gives two of n + 1 numbers, with
\* and without the last.
LEMMA PowersOfTwo == \A n \in Nat : 2^n \in Nat /\ 2^(n + 1) = 2 * 2^n
<1> SUFFICES ASSUME NEW n \in Nat PROVE 2^n \in Nat /\ 2^(n + 1) = 2 * 2^n
  OBVIOUS
<1> DEFINE A    == SUBSET (1..n)
           B    == SUBSET (1..(n + 1))
           both == {0, 1}
           f    == [p \in A \X both |-> IF p[2] = 0 THEN p[1] ELSE p[1] \cup {n + 1}]
<1>1. IsFiniteSet(A) /\ Cardinality(A) = 2^n
  <2>1. IsFiniteSet(1..n) /\ Cardinality(1..n) = n
    BY FS_Interval
  <2> QED BY <2>1, FS_SUBSET
<1>2. Cardinality(B) = 2^(n + 1)
  <2>1. IsFiniteSet(1..(n + 1)) /\ Cardinality(1..(n + 1)) = n + 1
    BY FS_Interval
  <2> QED BY <2>1, FS_SUBSET
<1>3. IsFiniteSet(both) /\ Cardinality(both) = 2
  <2>1. IsFiniteSet({0}) /\ Cardinality({0}) = 1
    BY FS_Singleton
  <2>2. IsFiniteSet({0} \cup {1}) /\ Cardinality({0} \cup {1}) = 1 + 1
    BY <2>1, FS_AddElement
  <2>3. both = {0} \cup {1}
    OBVIOUS
  <2> HIDE DEF both
  <2> QED BY <2>2, <2>3
<1>4. IsFiniteSet(A \X both) /\ Cardinality(A \X both) = 2^n * 2
  <2> HIDE DEF A, both
  <2>1. IsFiniteSet(A \X both) /\ Cardinality(A \X both) = Cardinality(A) * Cardinality(both)
    BY <1>1, <1>3, FS_Product
  <2> QED BY <1>1, <1>3, <2>1
<1>5. f \in Bijection(A \X both, B)
  <2>1. f \in [A \X both -> B]
    <3>1. ASSUME NEW p \in A \X both PROVE f[p] \in B
      <4>1. p[1] \subseteq 1..n /\ 1..n \subseteq 1..(n + 1) /\ n + 1 \in 1..(n + 1)
        OBVIOUS
      <4> QED BY <4>1
    <3> QED BY <3>1
  <2>2. n + 1 \notin 1..n
    OBVIOUS
  <2>3. ASSUME NEW p \in A \X both, NEW q \in A \X both, f[p] = f[q] PROVE p = q
    <3>1. /\ p[1] \in A /\ q[1] \in A /\ p[2] \in both /\ q[2] \in both
          /\ p = <<p[1], p[2]>> /\ q = <<q[1], q[2]>>
      OBVIOUS
    <3>2. n + 1 \notin p[1] /\ n + 1 \notin q[1]
      BY <2>2, <3>1
    <3>3. p[1] = f[p] \ {n + 1} /\ q[1] = f[q] \ {n + 1}
      BY <3>2
    <3>4. (p[2] = 0 <=> n + 1 \notin f[p]) /\ (q[2] = 0 <=> n + 1 \notin f[q])
      BY <3>1, <3>2
    <3> HIDE DEF f
    <3> QED BY <2>3, <3>1, <3>3, <3>4
  <2>4. ASSUME NEW b \in B PROVE \E p \in A \X both : f[p] = b
    <3> DEFINE p == <<b \ {n + 1}, IF n + 1 \in b THEN 1 ELSE 0>>
    <3>1. 1..(n + 1) = 1..n \cup {n + 1}
      OBVIOUS
    <3>2. p \in A \X both
      BY <3>1
    <3>3. f[p] = b
      BY <3>2
    <3> QED BY <3>2, <3>3
  <2> HIDE DEF f, A, B, both
  <2> QED BY <2>1, <2>3, <2>4 DEF Bijection, Injection, Surjection, IsInjective
<1>6. Cardinality(B) = Cardinality(A \X both)
  BY <1>4, <1>5, FS_Bijection DEF ExistsBijection
<1>7. 2^n \in Nat
  BY <1>1, FS_CardinalityType
<1> QED BY <1>2, <1>4, <1>6, <1>7

\* The delay after k + 1 failed attempts.
Delay(k) == IF InitialBackoff * 2^k > MaxBackoff THEN MaxBackoff
            ELSE InitialBackoff * 2^k

\* The first is InitialBackoff, and each is the one before doubled.
LEMMA DelayDoubles ==
    /\ Delay(0) = InitialBackoff
    /\ \A k \in Nat : Delay(k) \in Nat /\ Delay(k + 1) = Doubled(Delay(k))
<1>1. Delay(0) = InitialBackoff
  <2>1. 2^0 = 1
    OBVIOUS
  <2> QED BY <2>1, ClientAssumption DEF Delay
<1>2. ASSUME NEW k \in Nat PROVE Delay(k) \in Nat /\ Delay(k + 1) = Doubled(Delay(k))
  <2> DEFINE d == InitialBackoff * 2^k
  <2>1. 2^k \in Nat /\ 2^(k + 1) = 2 * 2^k
    BY PowersOfTwo
  <2>2. d \in Nat /\ InitialBackoff * 2^(k + 1) = 2 * d
    BY <2>1, ClientAssumption
  <2> HIDE DEF d
  <2>3. Delay(k) = IF d > MaxBackoff THEN MaxBackoff ELSE d
    BY DEF Delay, d
  <2>4. Delay(k + 1) = IF 2 * d > MaxBackoff THEN MaxBackoff ELSE 2 * d
    BY <2>2 DEF Delay
  <2> QED BY <2>2, <2>3, <2>4, ClientAssumption DEF Doubled
<1> QED BY <1>1, <1>2

\* Past the attempts that are counted, the delay stays the greatest.
LEMMA DelayAtMost == Delay(MaxCounted - 1) = MaxBackoff /\ Delay(MaxCounted) = MaxBackoff
<1>1. MaxCounted - 1 \in Nat /\ (MaxCounted - 1) + 1 = MaxCounted
  BY ClientAssumption
<1>2. Delay(MaxCounted - 1) = MaxBackoff
  <2>1. InitialBackoff * 2^(MaxCounted - 1) \in Nat
    BY <1>1, PowersOfTwo, ClientAssumption
  <2> QED BY <2>1, CountedAssumption, ClientAssumption DEF Delay
<1>3. Delay(MaxCounted) = Doubled(Delay(MaxCounted - 1))
  BY <1>1, DelayDoubles
<1> QED BY <1>2, <1>3, ClientAssumption DEF Doubled

\* Between the attempts, backoff is the delay of the failures so far; during
\* one, that of one more. Only an acknowledged attempt leaves no failures.
BackoffInv ==
    /\ place = "backoff" => (registered <=> failures = 0)
    /\ place = "backoff" /\ failures > 0 => backoff = Delay(failures - 1)
    /\ place = "backoff" /\ failures = 0 => backoff = InitialBackoff
    /\ place \in {"resolve", "open", "register"} => ~registered
    /\ place \in {"resolve", "open", "register", "recv"} => backoff = Delay(failures)

\* The first attempt would be followed by the first delay.
LEMMA BackoffInit == Init => BackoffInv
BY DelayDoubles DEF Init, ClientInit, BackoffInv

\* Every step of the client keeps backoff at what the failures make of it.
LEMMA BackoffClient ==
    ASSUME BackoffInv, ClientTypeOK, ClientStep
    PROVE  BackoffInv'
<1>1. CASE Resolve
  BY <1>1 DEF Resolve, BackoffInv
<1>2. CASE Open
  BY <1>2 DEF Open, BackoffInv
<1>3. CASE Register
  BY <1>3 DEF Register, BackoffInv
<1>4. CASE RecvAck
  BY <1>4 DEF RecvAck, BackoffInv
<1>5. CASE EndAttempt(FALSE) /\ place \in {"open", "register", "recv"} /\ ~registered
  <2>1. /\ place' \in {"backoff", "returned"} /\ backoff' = Delay(failures) /\ ~registered'
        /\ failures' = IF failures < MaxCounted THEN failures + 1 ELSE failures
    BY <1>5 DEF EndAttempt, NextBackoff, BackoffInv
  <2>2. failures \in Nat /\ failures <= MaxCounted /\ MaxCounted \in Nat \ {0}
    BY ClientAssumption DEF ClientTypeOK
  <2>3. failures' > 0 /\ failures' \in Nat
    BY <2>1, <2>2
  <2>4. backoff' = Delay(failures' - 1)
    <3>1. CASE failures < MaxCounted
      <4>1. failures' - 1 = failures
        BY <2>1, <2>2, <3>1
      <4> QED BY <2>1, <4>1
    <3>2. CASE ~(failures < MaxCounted)
      <4>1. failures = MaxCounted /\ failures' = MaxCounted
        BY <2>1, <2>2, <3>2
      <4> QED BY <2>1, <4>1, DelayAtMost
    <3> QED BY <3>1, <3>2
  <2> QED BY <2>1, <2>3, <2>4 DEF BackoffInv
<1>6. CASE EndAttempt(TRUE) /\ registered
  BY <1>6 DEF EndAttempt, NextBackoff, BackoffInv
<1>7. CASE Fails
  BY <1>5, <1>7 DEF Fails, BackoffInv
<1>8. CASE RecvFails
  <2>1. registered \in BOOLEAN
    BY DEF ClientTypeOK
  <2>2. CASE registered
    BY <1>6, <1>8, <2>2, <2>1 DEF RecvFails
  <2>3. CASE ~registered
    BY <1>5, <1>8, <2>3, <2>1 DEF RecvFails
  <2> QED BY <2>2, <2>3
<1>9. CASE BackoffOver
  <2>1. /\ place = "backoff" /\ place' = "resolve" /\ ~registered' /\ failures' = failures
        /\ backoff' = IF registered THEN backoff ELSE Doubled(backoff)
    BY <1>9 DEF BackoffOver
  <2>2. backoff' = Delay(failures)
    <3>1. CASE registered
      BY <2>1, <3>1, DelayDoubles DEF BackoffInv
    <3>2. CASE ~registered
      <4>1. failures - 1 \in Nat /\ (failures - 1) + 1 = failures /\ failures > 0
        BY <2>1, <3>2, ClientAssumption DEF BackoffInv, ClientTypeOK
      <4>2. backoff = Delay(failures - 1)
        BY <2>1, <4>1 DEF BackoffInv
      <4> QED BY <2>1, <3>2, <4>1, <4>2, DelayDoubles
    <3> QED BY <3>1, <3>2
  <2> QED BY <2>1, <2>2 DEF BackoffInv
<1>10. CASE Cancelled
  BY <1>10 DEF Cancelled, BackoffInv
<1> QED
  BY <1>1, <1>2, <1>3, <1>4, <1>7, <1>8, <1>9, <1>10 DEF ClientStep

\* Nobody else touches it.
LEMMA BackoffStep == AllTypeOK /\ BackoffInv /\ [Next]_vars => BackoffInv'
<1> SUFFICES ASSUME AllTypeOK, BackoffInv, [Next]_vars PROVE BackoffInv'
  OBVIOUS
<1>1. ASSUME UNCHANGED <<place, registered, backoff, failures>> PROVE BackoffInv'
  BY <1>1 DEF BackoffInv
<1>2. CASE Client
  BY <1>2, BackoffClient DEF Client, AllTypeOK, TypeOK
<1>3. CASE ~Client
  BY <1>1, <1>3 DEF Next, CoreRestarts, ConnectionDrops, CoreRenames, Cancel, Registry,
                    StreamBreaks, clientVars, vars
<1> QED BY <1>2, <1>3

\* For any delays and any sequence of failures, acknowledgements and losses, the
\* wait after an attempt is the first delay doubled for each failure since Core
\* last acknowledged one, up to the maximum (client.go:61).
THEOREM DelayByFailures == Spec => []BackoffByFailures
<1>1. AllTypeOK /\ BackoffInv => BackoffByFailures
  <2> SUFFICES ASSUME AllTypeOK, BackoffInv, place = "backoff"
               PROVE  BackoffByFailures
    BY DEF BackoffByFailures
  <2>1. failures \in Nat
    BY ClientAssumption DEF AllTypeOK, TypeOK, ClientTypeOK
  <2> QED BY <2>1 DEF BackoffInv, BackoffByFailures, Delay
<1> QED
  BY <1>1, BackoffInit, BackoffStep, AllTypeCorrect, PTL DEF Spec

(***************************************************************************)
(* The fallback to v1. A generation is resolved, used and announced within *)
(* one attempt, and sawOld follows what Core served since it began.        *)
(***************************************************************************)

\* A Core without v2 is seen, also one that comes during the attempt.
OldIsSeen == core # "v2" => sawOld

ResolvedSeen == place \in {"open", "register", "recv"} /\ generation = "v1" => sawOld

AnnouncedResolved == announced # "none" => place = "recv" /\ announced = generation

FallbackInv == OldIsSeen /\ ResolvedSeen /\ AnnouncedResolved

\* What carries FallbackJustified holds at the start, ...
LEMMA FallbackInit == Init => FallbackInv
BY DEF Init, CoreInit, ClientInit, FallbackInv, OldIsSeen, ResolvedSeen, AnnouncedResolved

\* ... over the steps of the client, ...
LEMMA FallbackClient ==
    ASSUME FallbackInv, ClientTypeOK, ClientStep, UNCHANGED core
    PROVE  FallbackInv'
<1> USE DEF FallbackInv, OldIsSeen, ResolvedSeen, AnnouncedResolved
<1>1. CASE Resolve
  BY <1>1 DEF Resolve, Probe, Resolved, Up
<1>2. CASE Open
  BY <1>2 DEF Open
<1>3. CASE Register
  BY <1>3 DEF Register
<1>4. CASE RecvAck
  BY <1>4 DEF RecvAck
<1>5. CASE Fails
  BY <1>5 DEF Fails, EndAttempt
<1>6. CASE RecvFails
  BY <1>6 DEF RecvFails, EndAttempt
<1>7. CASE BackoffOver
  BY <1>7 DEF BackoffOver
<1>8. CASE Cancelled
  BY <1>8 DEF Cancelled
<1> QED
  BY <1>1, <1>2, <1>3, <1>4, <1>5, <1>6, <1>7, <1>8 DEF ClientStep

\* ... and over every step.
LEMMA FallbackStep == AllTypeOK /\ FallbackInv /\ [Next]_vars => FallbackInv'
<1> SUFFICES ASSUME AllTypeOK, FallbackInv, [Next]_vars PROVE FallbackInv'
  OBVIOUS
<1>1. ASSUME StreamBreaks PROVE FallbackInv'
  BY <1>1 DEF StreamBreaks, FallbackInv, OldIsSeen, ResolvedSeen, AnnouncedResolved
<1>2. ASSUME UNCHANGED <<core, clientVars>> PROVE FallbackInv'
  BY <1>2 DEF clientVars, FallbackInv, OldIsSeen, ResolvedSeen, AnnouncedResolved
<1>3. CASE CoreRestarts \/ ConnectionDrops
  BY <1>1, <1>3 DEF CoreRestarts, ConnectionDrops
<1>4. CASE Client
  BY <1>4, FallbackClient DEF Client, coreVars, AllTypeOK, TypeOK
<1>5. CASE CoreRenames \/ Cancel \/ Registry
  BY <1>2, <1>5 DEF CoreRenames, Rename, Cancel, Registry, coreVars
<1>6. CASE UNCHANGED vars
  BY <1>2, <1>6 DEF vars, coreVars
<1> QED
  BY <1>3, <1>4, <1>5, <1>6 DEF Next

\* For any Core, however often it changes: what is announced in the messages of
\* v1 was announced to a Core that did not serve v2 (client.go:77).
THEOREM FallbackOnlyIfOld == Spec => []FallbackJustified
<1>1. FallbackInv => FallbackJustified
  BY DEF FallbackInv, AnnouncedResolved, ResolvedSeen, FallbackJustified
<1> QED
  BY <1>1, FallbackInit, FallbackStep, AllTypeCorrect, PTL DEF Spec

(***************************************************************************)
(* Names. What is about to be set is a whole answer of Core.               *)
(***************************************************************************)

AnswerHasSteady ==
    npc = "set" => Steady \in DOMAIN answer /\ answer[Steady] = "steady"

\* No answer is in hand at the start, ...
LEMMA AnswerInit == Init => AnswerHasSteady
BY DEF Init, NamesInit, AnswerHasSteady

\* ... and one that is contains the steady satellite.
LEMMA AnswerStep == AllTypeOK /\ AnswerHasSteady /\ [Next]_vars => AnswerHasSteady'
<1> SUFFICES ASSUME AllTypeOK, AnswerHasSteady, [Next]_vars PROVE AnswerHasSteady'
  OBVIOUS
<1>1. ASSUME UNCHANGED <<npc, answer>> PROVE AnswerHasSteady'
  BY <1>1 DEF AnswerHasSteady
<1>2. CASE CoreRestarts \/ ConnectionDrops \/ CoreRenames \/ Cancel \/ Client
  BY <1>1, <1>2 DEF CoreRestarts, ConnectionDrops, CoreRenames, Cancel, Client, namesVars
<1>3. CASE Registry
  <2>1. CASE ListAnswered
    BY <2>1, NamedType DEF ListAnswered, AnswerHasSteady, AllTypeOK
  <2>2. CASE ListResolve \/ ListFails \/ Set \/ AskAgain \/ WaitCancelled
    BY <2>2 DEF ListResolve, ListFails, Set, AskAgain, WaitCancelled, AnswerHasSteady
  <2> QED
    BY <1>3, <2>1, <2>2 DEF Registry, NamesStep
<1>4. CASE UNCHANGED vars
  BY <1>1, <1>4 DEF vars, namesVars
<1> QED
  BY <1>2, <1>3, <1>4 DEF Next

\* For any satellites: once known, a name that Core keeps is never taken back
\* (names.go:52).
THEOREM KnownNameStays == Spec => NameStays
<1>1. AnswerHasSteady /\ [Next]_vars
      => [Name(Steady) = "steady" => Name(Steady)' = "steady"]_byID
  <2> SUFFICES ASSUME AnswerHasSteady, [Next]_vars, byID' # byID
               PROVE  Name(Steady)' = "steady"
    OBVIOUS
  <2>1. Set
    BY DEF Next, CoreRestarts, ConnectionDrops, CoreRenames, Cancel, Client, Registry,
           vars, namesVars, NamesStep, ListResolve, ListAnswered, ListFails, KeptOnError,
           AskAgain, WaitCancelled
  <2> QED
    BY <2>1 DEF Set, Replaced, Name, AnswerHasSteady
<1> QED
  BY <1>1, AnswerInit, AnswerStep, AllTypeCorrect, PTL DEF Spec, NameStays
=============================================================================
