--------------------------- MODULE SequenceFacts ---------------------------
(***************************************************************************)
(* Lemmas about finite sequences that the proofs about several modules     *)
(* rest on: what Append, Head and Tail, \o and SubSeq do to the set of the *)
(* elements, and when no element is there twice. And induction, stated for *)
(* a set in place of a predicate: the set of the numbers that have the     *)
(* property holds all of them.                                             *)
(***************************************************************************)
EXTENDS Naturals, Sequences, Functions, SequenceTheorems, WellFoundedInduction, TLAPS

-----------------------------------------------------------------------------
(* Induction.                                                              *)

Less == OpToRel(<, Nat)

\* Every non-empty set of numbers has a least one.
LEMMA LeastNumber ==
    ASSUME NEW T \in SUBSET Nat, T # {}
    PROVE  \E x \in T : \A y \in T : x <= y
<1>1. IsWellFoundedOn(Less, Nat)
  BY NatLessThanWellFounded DEF Less
<1>2. PICK x \in T : \A y \in T : ~(<<y, x>> \in Less)
  BY <1>1, WFMin
<1>3. \A y \in Nat : y < x => <<y, x>> \in Less
  BY DEF Less, OpToRel
<1>4. \A y \in T : ~(y < x)
  BY <1>2, <1>3
<1> QED BY <1>4

\* A set with 0 and with the successor of each number in it holds all numbers.
LEMMA SetInduction ==
    ASSUME NEW S, 0 \in S, \A n \in Nat : n \in S => n + 1 \in S
    PROVE  Nat \subseteq S
<1> DEFINE T == Nat \ S
<1> SUFFICES ASSUME T # {} PROVE FALSE
  OBVIOUS
<1>1. PICK x \in T : \A y \in T : x <= y
  BY LeastNumber
<1>2. x # 0 /\ x - 1 \in Nat /\ x - 1 < x /\ (x - 1) + 1 = x
  OBVIOUS
<1>3. x - 1 \in S
  BY <1>1, <1>2
<1> QED BY <1>2, <1>3

\* Every non-empty bounded set of numbers has a greatest one.
LEMMA GreatestNumber ==
    ASSUME NEW T \in SUBSET Nat, T # {}, NEW n \in Nat, \A x \in T : x <= n
    PROVE  \E x \in T : \A y \in T : x >= y
<1> DEFINE U == {k \in Nat : n - k \in T}
<1>1. PICK x \in T : TRUE
  OBVIOUS
<1>2. x \in Nat /\ x <= n /\ n - x \in Nat /\ n - (n - x) = x
  BY <1>1
<1>3. n - x \in U
  BY <1>1, <1>2
<1>4. PICK k \in U : \A l \in U : k <= l
  BY <1>3, LeastNumber
<1>5. ASSUME NEW y \in T PROVE n - k >= y
  <2>1. y \in Nat /\ y <= n /\ n - y \in Nat /\ n - (n - y) = y
    OBVIOUS
  <2>2. k <= n - y
    BY <1>4, <2>1
  <2> QED BY <2>1, <2>2
<1> QED BY <1>4, <1>5

\* A set with the empty sequence, and with each longer one whose front is in it,
\* holds all sequences.
LEMMA SeqInduction ==
    ASSUME NEW S, NEW T, <<>> \in T,
           \A s \in Seq(S), e \in S : s \in T => Append(s, e) \in T
    PROVE  Seq(S) \subseteq T
<1> DEFINE N == {n \in Nat : \A s \in Seq(S) : Len(s) = n => s \in T}
<1>1. 0 \in N
  BY EmptySeq
<1>2. ASSUME NEW n \in Nat, n \in N PROVE n + 1 \in N
  <2> SUFFICES ASSUME NEW s \in Seq(S), Len(s) = n + 1 PROVE s \in T
    OBVIOUS
  <2>1. s # <<>>
    BY EmptySeq
  <2>2. PICK t \in Seq(S), e \in S : s = Append(t, e)
    BY <2>1, SequenceEmptyOrAppend
  <2>3. Len(s) = Len(t) + 1 /\ Len(t) \in Nat
    BY <2>2, AppendProperties, LenProperties
  <2>4. Len(t) = n
    BY <2>3
  <2> QED BY <1>2, <2>2, <2>4
<1> HIDE DEF N
<1>3. Nat \subseteq N
  BY <1>1, <1>2, SetInduction
<1> QED BY <1>3, LenProperties DEF N

-----------------------------------------------------------------------------
(* Elements.                                                               *)

\* What a sequence holds after one more was appended.
LEMMA RangeOfAppend ==
    ASSUME NEW S, NEW s \in Seq(S), NEW e \in S
    PROVE  Range(Append(s, e)) = Range(s) \cup {e}
<1>1. Append(s, e) \in Seq(S) /\ Len(Append(s, e)) = Len(s) + 1
      /\ (\A i \in 1..Len(s) : Append(s, e)[i] = s[i]) /\ Append(s, e)[Len(s) + 1] = e
  BY AppendProperties
<1>2. Range(Append(s, e)) = {Append(s, e)[i] : i \in 1..(Len(s) + 1)}
  BY <1>1, RangeEquality
<1>3. Range(s) = {s[i] : i \in 1..Len(s)}
  BY RangeEquality
<1>4. Len(s) \in Nat
  BY LenProperties
<1>5. ASSUME NEW x \in Range(Append(s, e)) PROVE x \in Range(s) \cup {e}
  BY <1>1, <1>2, <1>3, <1>4, <1>5
<1>6. ASSUME NEW x \in Range(s) \cup {e} PROVE x \in Range(Append(s, e))
  BY <1>1, <1>2, <1>3, <1>4, <1>6
<1> QED BY <1>5, <1>6

\* What a sequence holds is its head and what its tail holds.
LEMMA RangeOfHeadTail ==
    ASSUME NEW S, NEW s \in Seq(S), s # <<>>
    PROVE  Range(s) = {Head(s)} \cup Range(Tail(s))
<1>1. Tail(s) \in Seq(S) /\ Len(Tail(s)) = Len(s) - 1
      /\ \A i \in 1..Len(Tail(s)) : Tail(s)[i] = s[i + 1]
  BY HeadTailProperties
<1>2. Len(s) \in Nat \ {0} /\ Head(s) = s[1]
  BY EmptySeq
<1>3. Range(s) = {s[i] : i \in 1..Len(s)} /\ Range(Tail(s)) = {Tail(s)[i] : i \in 1..Len(Tail(s))}
  BY <1>1, RangeEquality
<1>4. ASSUME NEW x \in Range(s) PROVE x \in {Head(s)} \cup Range(Tail(s))
  <2>1. PICK i \in 1..Len(s) : x = s[i]
    BY <1>3
  <2>2. CASE i = 1
    BY <2>1, <2>2, <1>2
  <2>3. CASE i # 1
    <3>1. i - 1 \in 1..Len(Tail(s)) /\ Tail(s)[i - 1] = s[i]
      BY <2>1, <2>3, <1>1, <1>2
    <3> QED BY <3>1, <2>1, <1>3
  <2> QED BY <2>2, <2>3
<1>5. ASSUME NEW x \in {Head(s)} \cup Range(Tail(s)) PROVE x \in Range(s)
  <2>1. CASE x = Head(s)
    BY <2>1, <1>2, <1>3
  <2>2. CASE x \in Range(Tail(s))
    <3>1. PICK i \in 1..Len(Tail(s)) : x = Tail(s)[i]
      BY <2>2, <1>3
    <3>2. i + 1 \in 1..Len(s) /\ s[i + 1] = x
      BY <3>1, <1>1, <1>2
    <3> QED BY <3>2, <1>3
  <2> QED BY <1>5, <2>1, <2>2
<1> QED BY <1>4, <1>5

\* The empty sequence holds nothing.
LEMMA RangeOfEmpty == Range(<<>>) = {}
BY DEF Range

\* The types of head and tail.
LEMMA HeadAndTail ==
    ASSUME NEW S, NEW s \in Seq(S), s # <<>>
    PROVE  /\ Head(s) \in S /\ Tail(s) \in Seq(S)
           /\ Len(Tail(s)) = Len(s) - 1 /\ Len(s) \in Nat \ {0}
           /\ Head(s) = s[1]
           /\ \A i \in 1..Len(Tail(s)) : Tail(s)[i] = s[i + 1]
BY HeadTailProperties, EmptySeq

\* What a concatenation holds.
LEMMA RangeOfConcat ==
    ASSUME NEW S, NEW s \in Seq(S), NEW t \in Seq(S)
    PROVE  Range(s \o t) = Range(s) \cup Range(t)
<1>1. /\ s \o t \in Seq(S) /\ Len(s \o t) = Len(s) + Len(t)
      /\ \A i \in 1..(Len(s) + Len(t)) :
            (s \o t)[i] = IF i <= Len(s) THEN s[i] ELSE t[i - Len(s)]
      /\ Len(s) \in Nat /\ Len(t) \in Nat
  BY ConcatProperties, LenProperties
<1>2. /\ Range(s) = {s[i] : i \in 1..Len(s)} /\ Range(t) = {t[i] : i \in 1..Len(t)}
      /\ Range(s \o t) = {(s \o t)[i] : i \in 1..(Len(s) + Len(t))}
  BY <1>1, RangeEquality
<1>3. ASSUME NEW x \in Range(s \o t) PROVE x \in Range(s) \cup Range(t)
  <2>1. PICK i \in 1..(Len(s) + Len(t)) : x = (s \o t)[i]
    BY <1>2
  <2>2. CASE i <= Len(s)
    BY <1>1, <1>2, <2>1, <2>2
  <2>3. CASE ~(i <= Len(s))
    <3>1. i - Len(s) \in 1..Len(t) /\ x = t[i - Len(s)]
      BY <1>1, <2>1, <2>3
    <3> QED BY <1>2, <3>1
  <2> QED BY <2>2, <2>3
<1>4. ASSUME NEW x \in Range(s) PROVE x \in Range(s \o t)
  <2>1. PICK i \in 1..Len(s) : x = s[i]
    BY <1>2
  <2>2. i \in 1..(Len(s) + Len(t)) /\ (s \o t)[i] = x
    BY <1>1, <2>1
  <2> QED BY <1>2, <2>2
<1>5. ASSUME NEW x \in Range(t) PROVE x \in Range(s \o t)
  <2>1. PICK i \in 1..Len(t) : x = t[i]
    BY <1>2
  <2>2. Len(s) + i \in 1..(Len(s) + Len(t)) /\ (s \o t)[Len(s) + i] = x
    BY <1>1, <2>1
  <2> QED BY <1>2, <2>2
<1> QED BY <1>3, <1>4, <1>5

\* A part of a sequence has no other elements.
LEMMA RangeOfPrefix ==
    ASSUME NEW S, NEW s \in Seq(S), NEW k \in 0..Len(s)
    PROVE  SubSeq(s, 1, k) \in Seq(S) /\ Range(SubSeq(s, 1, k)) \subseteq Range(s)
<1> DEFINE p == SubSeq(s, 1, k)
<1>1. Len(s) \in Nat /\ k \in Int /\ \A i \in 1..k : s[i] \in S
  BY LenProperties, ElementOfSeq
<1>2. p \in Seq(S) /\ Len(p) \in 0..k /\ \A i \in 1..k : p[i] = s[i]
  BY <1>1, SubSeqProperties
<1> HIDE DEF p
<1>3. Range(p) = {p[i] : i \in 1..Len(p)} /\ Range(s) = {s[i] : i \in 1..Len(s)}
  BY <1>2, RangeEquality
<1>4. Range(p) \subseteq Range(s)
  BY <1>1, <1>2, <1>3
<1> QED BY <1>2, <1>4 DEF p

-----------------------------------------------------------------------------
(* Sequences without repetition.                                           *)

\* Appending what is not in it keeps a sequence without repetition.
LEMMA InjectiveAppend ==
    ASSUME NEW S, NEW s \in Seq(S), NEW e \in S, IsInjective(s), e \notin Range(s)
    PROVE  IsInjective(Append(s, e))
<1>1. /\ Append(s, e) \in Seq(S) /\ Len(Append(s, e)) = Len(s) + 1 /\ Len(s) \in Nat
      /\ \A i \in 1..Len(s) : Append(s, e)[i] = s[i]
      /\ Append(s, e)[Len(s) + 1] = e
  BY AppendProperties, LenProperties
<1>2. DOMAIN Append(s, e) = 1..(Len(s) + 1) /\ DOMAIN s = 1..Len(s)
  BY <1>1, LenProperties
<1>3. \A i \in 1..Len(s) : s[i] # e
  BY RangeEquality
<1> SUFFICES ASSUME NEW i \in 1..(Len(s) + 1), NEW j \in 1..(Len(s) + 1),
                    Append(s, e)[i] = Append(s, e)[j]
             PROVE  i = j
  BY <1>2 DEF IsInjective
<1>4. CASE i \in 1..Len(s) /\ j \in 1..Len(s)
  BY <1>1, <1>2, <1>4 DEF IsInjective
<1>5. CASE i = Len(s) + 1 \/ j = Len(s) + 1
  BY <1>1, <1>3, <1>5
<1> QED BY <1>1, <1>4, <1>5

\* The first element of such a sequence is not among the others.
LEMMA InjectiveTail ==
    ASSUME NEW S, NEW s \in Seq(S), s # <<>>, IsInjective(s)
    PROVE  IsInjective(Tail(s)) /\ Head(s) \notin Range(Tail(s))
<1> DEFINE t == Tail(s)
<1>1. /\ t \in Seq(S) /\ Len(t) = Len(s) - 1 /\ Len(s) \in Nat \ {0} /\ Head(s) = s[1]
      /\ \A i \in 1..Len(t) : t[i] = s[i + 1]
  BY HeadAndTail
<1> HIDE DEF t
<1>2. DOMAIN t = 1..Len(t) /\ DOMAIN s = 1..Len(s) /\ Range(t) = {t[i] : i \in 1..Len(t)}
  BY <1>1, LenProperties, RangeEquality
<1>3. ASSUME NEW i \in 1..Len(t), NEW j \in 1..Len(t), t[i] = t[j] PROVE i = j
  <2>1. i + 1 \in DOMAIN s /\ j + 1 \in DOMAIN s /\ s[i + 1] = s[j + 1]
    BY <1>1, <1>2, <1>3
  <2>2. i + 1 = j + 1
    BY <2>1 DEF IsInjective
  <2> QED BY <1>1, <2>2
<1>4. ASSUME NEW i \in 1..Len(t) PROVE t[i] # s[1]
  <2>1. i + 1 \in DOMAIN s /\ 1 \in DOMAIN s /\ t[i] = s[i + 1] /\ i + 1 # 1
    BY <1>1, <1>2
  <2> QED BY <2>1 DEF IsInjective
<1>5. IsInjective(t) /\ s[1] \notin Range(t)
  BY <1>2, <1>3, <1>4 DEF IsInjective
<1> QED BY <1>1, <1>5 DEF t

\* Nor has the concatenation of two that share nothing.
LEMMA InjectiveConcat ==
    ASSUME NEW S, NEW s \in Seq(S), NEW t \in Seq(S), IsInjective(s), IsInjective(t),
           Range(s) \cap Range(t) = {}
    PROVE  IsInjective(s \o t)
<1>1. /\ s \o t \in Seq(S) /\ Len(s \o t) = Len(s) + Len(t)
      /\ \A i \in 1..(Len(s) + Len(t)) :
            (s \o t)[i] = IF i <= Len(s) THEN s[i] ELSE t[i - Len(s)]
      /\ Len(s) \in Nat /\ Len(t) \in Nat
  BY ConcatProperties, LenProperties
<1>2. DOMAIN (s \o t) = 1..(Len(s) + Len(t)) /\ DOMAIN s = 1..Len(s) /\ DOMAIN t = 1..Len(t)
  BY <1>1, LenProperties
<1>3. ASSUME NEW i \in 1..Len(s), NEW j \in 1..Len(t) PROVE s[i] # t[j]
  <2>1. s[i] \in Range(s) /\ t[j] \in Range(t)
    BY RangeEquality
  <2> QED BY <2>1
<1> SUFFICES ASSUME NEW i \in 1..(Len(s) + Len(t)), NEW j \in 1..(Len(s) + Len(t)),
                    (s \o t)[i] = (s \o t)[j]
             PROVE  i = j
  BY <1>2 DEF IsInjective
<1>4. CASE i <= Len(s) /\ j <= Len(s)
  <2>1. i \in 1..Len(s) /\ j \in 1..Len(s) /\ s[i] = s[j]
    BY <1>1, <1>4
  <2> QED BY <1>2, <2>1 DEF IsInjective
<1>5. CASE ~(i <= Len(s)) /\ ~(j <= Len(s))
  <2>1. i - Len(s) \in 1..Len(t) /\ j - Len(s) \in 1..Len(t) /\ t[i - Len(s)] = t[j - Len(s)]
    BY <1>1, <1>5
  <2>2. i - Len(s) = j - Len(s)
    BY <1>2, <2>1 DEF IsInjective
  <2> QED BY <1>1, <2>2
<1>6. CASE i <= Len(s) /\ ~(j <= Len(s))
  <2>1. i \in 1..Len(s) /\ j - Len(s) \in 1..Len(t) /\ s[i] = t[j - Len(s)]
    BY <1>1, <1>6
  <2> QED BY <1>3, <2>1
<1>7. CASE ~(i <= Len(s)) /\ j <= Len(s)
  <2>1. j \in 1..Len(s) /\ i - Len(s) \in 1..Len(t) /\ s[j] = t[i - Len(s)]
    BY <1>1, <1>7
  <2> QED BY <1>3, <2>1
<1> QED BY <1>4, <1>5, <1>6, <1>7
-----------------------------------------------------------------------------
(* Short sequences, and the parts of a concatenation.                      *)

\* The types of tuples.
LEMMA ShortSeqs ==
    ASSUME NEW S, NEW x \in S, NEW y \in S
    PROVE  <<>> \in Seq(S) /\ <<x>> \in Seq(S) /\ <<x, y>> \in Seq(S)
OBVIOUS

\* A function on 1..n is a sequence of length n.
LEMMA FunctionIsSeq ==
    ASSUME NEW S, NEW n \in Nat, NEW f \in [1..n -> S]
    PROVE  f \in Seq(S) /\ Len(f) = n
OBVIOUS

\* The same for three and four components.
LEMMA LongerSeqs ==
    ASSUME NEW S, NEW a \in S, NEW b \in S, NEW c \in S, NEW d \in S
    PROVE  <<a, b, c>> \in Seq(S) /\ <<a, b, c, d>> \in Seq(S)
OBVIOUS

\* A sequence with one more element at its end.
LEMMA OneMore ==
    ASSUME NEW S, NEW s \in Seq(S), NEW t \in Seq(S), NEW x \in S, Len(s) <= 4,
           Len(t) = Len(s) + 1, t[Len(t)] = x,
           \A i \in {1, 2, 3, 4} : i <= Len(s) => t[i] = s[i]
    PROVE  s \o <<x>> = t
<1> DEFINE n == Len(s)
<1>1. <<x>> \in Seq(S) /\ Len(<<x>>) = 1 /\ <<x>>[1] = x
  OBVIOUS
<1>2. /\ s \o <<x>> \in Seq(S) /\ Len(s \o <<x>>) = n + 1 /\ n \in Nat /\ n <= 4
      /\ \A i \in 1..(n + 1) :
            (s \o <<x>>)[i] = IF i <= n THEN s[i] ELSE <<x>>[i - n]
  <2>1. n \in Nat /\ n <= 4
    <3>1. Len(s) \in Nat
      BY LenProperties
    <3>2. Len(s) <= 4
      OBVIOUS
    <3> QED BY <3>1, <3>2 DEF n
  <2>2. /\ s \o <<x>> \in Seq(S) /\ Len(s \o <<x>>) = n + Len(<<x>>)
        /\ \A i \in 1..(n + Len(<<x>>)) :
              (s \o <<x>>)[i] = IF i <= n THEN s[i] ELSE <<x>>[i - n]
    BY <1>1, ConcatProperties
  <2> QED BY <1>1, <2>1, <2>2
<1> HIDE DEF n
<1>3. ASSUME NEW i \in 1..(n + 1) PROVE (s \o <<x>>)[i] = t[i]
  <2>1. CASE i <= n
    <3>1. i \in {1, 2, 3, 4}
      BY <1>2, <2>1
    <3> QED BY <1>2, <2>1, <3>1 DEF n
  <2>2. CASE i = n + 1
    <3>1. i - n = 1 /\ ~(i <= n)
      BY <1>2, <2>2
    <3> QED BY <1>1, <1>2, <2>2, <3>1 DEF n
  <2> QED BY <1>2, <2>1, <2>2
<1> QED BY <1>2, <1>3, SeqEqual DEF n

\* A tuple with one more component, for each length that is needed.
LEMMA Concat2 ==
    ASSUME NEW S, NEW a \in S, NEW b \in S
    PROVE  <<a>> \o <<b>> = <<a, b>>
<1>1. PICK s, t : s = <<a>> /\ t = <<a, b>>
  OBVIOUS
<1>2. s \in Seq(S) /\ Len(s) = 1 /\ s[1] = a
  BY <1>1
<1>3. t \in Seq(S) /\ Len(t) = 2 /\ t[1] = a /\ t[2] = b
  BY <1>1
<1>4. s \o <<b>> = t
  <2>1. \A i \in {1, 2, 3, 4} : i <= Len(s) => t[i] = s[i]
    BY <1>2, <1>3
  <2>2. Len(s) <= 4 /\ Len(t) = Len(s) + 1
    BY <1>2, <1>3
  <2> QED BY <1>2, <1>3, <2>1, <2>2, OneMore
<1> QED BY <1>1, <1>4

\* From two to three, ...
LEMMA Concat3 ==
    ASSUME NEW S, NEW a \in S, NEW b \in S, NEW c \in S
    PROVE  <<a, b>> \o <<c>> = <<a, b, c>>
<1>1. PICK s, t : s = <<a, b>> /\ t = <<a, b, c>>
  OBVIOUS
<1>2. s \in Seq(S) /\ Len(s) = 2 /\ s[1] = a /\ s[2] = b
  BY <1>1
<1>3. t \in Seq(S) /\ Len(t) = 3 /\ t[1] = a /\ t[2] = b /\ t[3] = c
  BY <1>1
<1>4. s \o <<c>> = t
  <2>1. \A i \in {1, 2, 3, 4} : i <= Len(s) => t[i] = s[i]
    BY <1>2, <1>3
  <2>2. Len(s) <= 4 /\ Len(t) = Len(s) + 1
    BY <1>2, <1>3
  <2> QED BY <1>2, <1>3, <2>1, <2>2, OneMore
<1> QED BY <1>1, <1>4

\* ... from three to four, ...
LEMMA Concat4 ==
    ASSUME NEW S, NEW a \in S, NEW b \in S, NEW c \in S, NEW d \in S
    PROVE  <<a, b, c>> \o <<d>> = <<a, b, c, d>>
<1>1. PICK s, t : s = <<a, b, c>> /\ t = <<a, b, c, d>>
  OBVIOUS
<1>2. s \in Seq(S) /\ Len(s) = 3 /\ s[1] = a /\ s[2] = b /\ s[3] = c
  BY <1>1
<1>3. t \in Seq(S) /\ Len(t) = 4 /\ t[1] = a /\ t[2] = b /\ t[3] = c /\ t[4] = d
  BY <1>1
<1>4. s \o <<d>> = t
  <2>1. \A i \in {1, 2, 3, 4} : i <= Len(s) => t[i] = s[i]
    BY <1>2, <1>3
  <2>2. Len(s) <= 4 /\ Len(t) = Len(s) + 1
    BY <1>2, <1>3
  <2> QED BY <1>2, <1>3, <2>1, <2>2, OneMore
<1> QED BY <1>1, <1>4

\* ... and from four to five.
LEMMA Concat5 ==
    ASSUME NEW S, NEW a \in S, NEW b \in S, NEW c \in S, NEW d \in S, NEW e \in S
    PROVE  <<a, b, c, d>> \o <<e>> = <<a, b, c, d, e>>
<1>1. PICK s, t : s = <<a, b, c, d>> /\ t = <<a, b, c, d, e>>
  OBVIOUS
<1>2. s \in Seq(S) /\ Len(s) = 4 /\ s[1] = a /\ s[2] = b /\ s[3] = c /\ s[4] = d
  BY <1>1
<1>3. t \in Seq(S) /\ Len(t) = 5 /\ t[1] = a /\ t[2] = b /\ t[3] = c /\ t[4] = d /\ t[5] = e
  BY <1>1
<1>4. s \o <<e>> = t
  <2>1. \A i \in {1, 2, 3, 4} : i <= Len(s) => t[i] = s[i]
    BY <1>2, <1>3
  <2>2. Len(s) <= 4 /\ Len(t) = Len(s) + 1
    BY <1>2, <1>3
  <2> QED BY <1>2, <1>3, <2>1, <2>2, OneMore
<1> QED BY <1>1, <1>4

\* The two parts of a concatenation.
LEMMA PartsOfConcat ==
    ASSUME NEW S, NEW s \in Seq(S), NEW t \in Seq(S)
    PROVE  /\ SubSeq(s \o t, 1, Len(s)) = s
           /\ SubSeq(s \o t, Len(s) + 1, Len(s \o t)) = t
<1> DEFINE u == s \o t
<1>1. /\ u \in Seq(S) /\ Len(u) = Len(s) + Len(t) /\ Len(s) \in Nat /\ Len(t) \in Nat
      /\ \A i \in 1..(Len(s) + Len(t)) : u[i] = IF i <= Len(s) THEN s[i] ELSE t[i - Len(s)]
  BY ConcatProperties, LenProperties
<1> HIDE DEF u
<1>2. \A i \in 1..Len(u) : u[i] \in S
  BY <1>1, ElementOfSeq
<1>3. SubSeq(u, 1, Len(s)) = s
  <2>1. /\ SubSeq(u, 1, Len(s)) \in Seq(S) /\ Len(SubSeq(u, 1, Len(s))) = Len(s)
        /\ \A i \in 1..Len(s) : SubSeq(u, 1, Len(s))[i] = u[i]
    BY <1>1, <1>2, SubSeqProperties
  <2>2. \A i \in 1..Len(s) : u[i] = s[i]
    BY <1>1
  <2> QED BY <2>1, <2>2, SeqEqual
<1>4. SubSeq(u, Len(s) + 1, Len(u)) = t
  <2>1. /\ SubSeq(u, Len(s) + 1, Len(u)) \in Seq(S)
        /\ Len(SubSeq(u, Len(s) + 1, Len(u))) = Len(t)
        /\ \A i \in 1..Len(t) : SubSeq(u, Len(s) + 1, Len(u))[i] = u[Len(s) + i]
    <3> DEFINE m == Len(s) + 1
               n == Len(u)
    <3>1. m \in Int /\ n \in Int /\ n - m + 1 = Len(t) /\ (\A i \in m..n : u[i] \in S)
      BY <1>1, <1>2
    <3>2. (IF m <= n THEN n - m + 1 ELSE 0) = Len(t)
      BY <1>1
    <3>3. \A i \in 1..Len(t) : m + i - 1 = Len(s) + i
      BY <1>1
    <3> HIDE DEF m, n
    <3>4. /\ SubSeq(u, m, n) \in Seq(S)
          /\ Len(SubSeq(u, m, n)) = IF m <= n THEN n - m + 1 ELSE 0
          /\ \A i \in 1..(n - m + 1) : SubSeq(u, m, n)[i] = u[m + i - 1]
      BY <3>1, SubSeqProperties
    <3> QED BY <3>1, <3>2, <3>3, <3>4 DEF m, n
  <2>2. \A i \in 1..Len(t) : u[Len(s) + i] = t[i]
    BY <1>1
  <2> QED BY <2>1, <2>2, SeqEqual
<1> QED BY <1>3, <1>4 DEF u
=============================================================================
