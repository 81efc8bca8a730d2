------------------------ MODULE SyslogReceiverProofs ------------------------
(***************************************************************************)
(* Proofs about SyslogReceiver, for any datagrams, senders and size of the *)
(* cache: its types; that the cache is bounded and agrees with the table;  *)
(* that a message is stored under the source it names and no other; that a *)
(* cached source keeps its version; and that a line Format wrote, of any   *)
(* text, is read back. For the last one, Format and Parse are followed     *)
(* byte by byte: what one text does to the scanner of the structured data  *)
(* is a relation (Reads) that concatenation composes, so that the escaping *)
(* is an induction over the value, and each field of the header is what    *)
(* stands before the first blank.                                          *)
(***************************************************************************)
EXTENDS SyslogReceiver, SequenceFacts, FiniteSetTheorems, TLAPS

(***************************************************************************)
(* FlattenSeq, by induction.                                               *)
(***************************************************************************)

\* The concatenations of the first 1, 2, ... of a sequence of sequences.
Sums(ss, g) == g = [i \in 1..Len(ss) |-> IF i = 1 THEN ss[i] ELSE g[i - 1] \o ss[i]]

\* There are such sums for every sequence of sequences.
LEMMA SumsExist ==
    ASSUME NEW S, NEW ss \in Seq(Seq(S))
    PROVE  \E g \in [1..Len(ss) -> Seq(S)] : Sums(ss, g)
<1> DEFINE T == {s \in Seq(Seq(S)) : \E g \in [1..Len(s) -> Seq(S)] : Sums(s, g)}
<1>1. <<>> \in T
  <2> DEFINE g == [i \in 1..0 |-> <<>>]
  <2>1. g \in [1..Len(<<>>) -> Seq(S)] /\ Sums(<<>>, g)
    BY DEF Sums
  <2>2. <<>> \in Seq(Seq(S))
    OBVIOUS
  <2> QED BY <2>1, <2>2
<1>2. ASSUME NEW s \in Seq(Seq(S)), NEW e \in Seq(S), s \in T PROVE Append(s, e) \in T
  <2>1. PICK g \in [1..Len(s) -> Seq(S)] : Sums(s, g)
    BY <1>2
  <2> DEFINE n == Len(s)
             t == Append(s, e)
             h == [i \in 1..(n + 1) |-> IF i <= n THEN g[i] ELSE IF n = 0 THEN e ELSE g[n] \o e]
  <2>2. /\ n \in Nat /\ t \in Seq(Seq(S)) /\ Len(t) = n + 1 /\ t[n + 1] = e
        /\ \A i \in 1..n : t[i] = s[i]
    BY AppendProperties, LenProperties
  <2> HIDE DEF n, t
  <2>3. \A i \in 1..n : g[i] = IF i = 1 THEN s[i] ELSE g[i - 1] \o s[i]
    BY <2>1 DEF Sums, n
  <2>4. h \in [1..(n + 1) -> Seq(S)]
    <3>1. \A i \in 1..n : g[i] \in Seq(S)
      BY <2>1 DEF n
    <3>2. n # 0 => g[n] \o e \in Seq(S)
      BY <2>2, <3>1
    <3> QED BY <2>2, <3>1, <3>2
  <2>5. ASSUME NEW i \in 1..(n + 1) PROVE h[i] = IF i = 1 THEN t[i] ELSE h[i - 1] \o t[i]
    <3>1. CASE i \in 1..n
      <4>1. h[i] = g[i] /\ t[i] = s[i]
        BY <2>2, <3>1
      <4>2. i # 1 => i - 1 \in 1..n /\ i - 1 \in 1..(n + 1)
        BY <2>2, <3>1
      <4>3. i # 1 => h[i - 1] = g[i - 1]
        BY <4>2
      <4>4. g[i] = IF i = 1 THEN s[i] ELSE g[i - 1] \o s[i]
        BY <2>3, <3>1
      <4> HIDE DEF h
      <4> QED BY <4>1, <4>3, <4>4
    <3>2. CASE i = n + 1
      BY <2>2, <3>2
    <3> QED BY <2>2, <3>1, <3>2
  <2>6. h = [i \in 1..(n + 1) |-> h[i]]
    OBVIOUS
  <2> HIDE DEF h
  <2>7. Sums(t, h)
    BY <2>2, <2>5, <2>6 DEF Sums
  <2> QED BY <2>2, <2>4, <2>7 DEF t
<1> HIDE DEF T
<1>3. Seq(Seq(S)) \subseteq T
  BY <1>1, <1>2, SeqInduction
<1> QED BY <1>3 DEF T

\* FlattenSeq is the last of them.
LEMMA FlattenIs ==
    ASSUME NEW S, NEW ss \in Seq(Seq(S))
    PROVE  \E g \in [1..Len(ss) -> Seq(S)] :
              Sums(ss, g) /\ FlattenSeq(ss) = IF Len(ss) = 0 THEN <<>> ELSE g[Len(ss)]
<1>1. PICK g \in [1..Len(ss) -> Seq(S)] : Sums(ss, g)
  BY SumsExist
<1> DEFINE f == CHOOSE h : Sums(ss, h)
<1>2. Sums(ss, f)
  BY <1>1
<1>3. FlattenSeq(ss) = IF Len(ss) = 0 THEN ss ELSE f[Len(ss)]
  BY DEF FlattenSeq, Sums
<1> HIDE DEF f
<1>4. \A n \in Nat : n \in 1..Len(ss) => f[n] = g[n]
  <2> DEFINE N == {n \in Nat : n \in 1..Len(ss) => f[n] = g[n]}
  <2>1. 0 \in N
    OBVIOUS
  <2>2. ASSUME NEW n \in Nat, n \in N PROVE n + 1 \in N
    <3> SUFFICES ASSUME n + 1 \in 1..Len(ss) PROVE f[n + 1] = g[n + 1]
      OBVIOUS
    <3>1. f[n + 1] = IF n + 1 = 1 THEN ss[n + 1] ELSE f[(n + 1) - 1] \o ss[n + 1]
      BY <1>2 DEF Sums
    <3>2. g[n + 1] = IF n + 1 = 1 THEN ss[n + 1] ELSE g[(n + 1) - 1] \o ss[n + 1]
      BY <1>1 DEF Sums
    <3>3. CASE n = 0
      BY <3>1, <3>2, <3>3
    <3>4. CASE n # 0
      <4>1. (n + 1) - 1 = n /\ n + 1 # 1 /\ n \in 1..Len(ss)
        BY <3>4, LenProperties
      <4>2. f[n] = g[n]
        BY <2>2, <4>1
      <4> QED BY <3>1, <3>2, <4>1, <4>2
    <3> QED BY <3>3, <3>4
  <2> HIDE DEF N
  <2>3. Nat \subseteq N
    BY <2>1, <2>2, SetInduction
  <2> QED BY <2>3 DEF N
<1>5. Len(ss) \in Nat
  BY LenProperties
<1>6. CASE Len(ss) = 0
  <2>1. ss = <<>>
    BY <1>6, EmptySeq
  <2> QED BY <1>1, <1>3, <1>6, <2>1
<1>7. CASE Len(ss) # 0
  <2>1. f[Len(ss)] = g[Len(ss)]
    BY <1>4, <1>5, <1>7
  <2> QED BY <1>1, <1>3, <1>7, <2>1
<1> QED BY <1>6, <1>7

\* So it grows with each sequence that is appended.
LEMMA FlattenAppend ==
    ASSUME NEW S, NEW ss \in Seq(Seq(S)), NEW t \in Seq(S)
    PROVE  /\ FlattenSeq(<<>>) = <<>>
           /\ FlattenSeq(ss) \in Seq(S)
           /\ FlattenSeq(Append(ss, t)) = FlattenSeq(ss) \o t
<1>1. FlattenSeq(<<>>) = <<>>
  BY DEF FlattenSeq
<1> DEFINE n  == Len(ss)
           tt == Append(ss, t)
<1>2. /\ n \in Nat /\ tt \in Seq(Seq(S)) /\ Len(tt) = n + 1 /\ tt[n + 1] = t
      /\ \A i \in 1..n : tt[i] = ss[i]
  BY AppendProperties, LenProperties
<1>3. PICK g \in [1..n -> Seq(S)] :
         Sums(ss, g) /\ FlattenSeq(ss) = IF n = 0 THEN <<>> ELSE g[n]
  BY FlattenIs
<1> HIDE DEF tt
<1>4. PICK h \in [1..Len(tt) -> Seq(S)] :
         Sums(tt, h) /\ FlattenSeq(tt) = IF Len(tt) = 0 THEN <<>> ELSE h[Len(tt)]
  BY <1>2, FlattenIs
<1>a. \A i \in 1..Len(tt) : h[i] = IF i = 1 THEN tt[i] ELSE h[i - 1] \o tt[i]
  BY <1>4 DEF Sums
<1>b. \A i \in 1..n : g[i] = IF i = 1 THEN ss[i] ELSE g[i - 1] \o ss[i]
  BY <1>3 DEF Sums
<1> HIDE DEF n
<1>5. FlattenSeq(ss) \in Seq(S)
  BY <1>2, <1>3, EmptySeq
<1>6. \A k \in Nat : k \in 1..n => h[k] = g[k]
  <2> DEFINE N == {k \in Nat : k \in 1..n => h[k] = g[k]}
  <2>1. 0 \in N
    OBVIOUS
  <2>2. ASSUME NEW k \in Nat, k \in N PROVE k + 1 \in N
    <3> SUFFICES ASSUME k + 1 \in 1..n PROVE h[k + 1] = g[k + 1]
      OBVIOUS
    <3>1. h[k + 1] = IF k + 1 = 1 THEN tt[k + 1] ELSE h[(k + 1) - 1] \o tt[k + 1]
      <4>1. k + 1 \in 1..Len(tt)
        BY <1>2
      <4> QED BY <1>a, <4>1
    <3>2. g[k + 1] = IF k + 1 = 1 THEN ss[k + 1] ELSE g[(k + 1) - 1] \o ss[k + 1]
      BY <1>b
    <3>3. tt[k + 1] = ss[k + 1]
      BY <1>2
    <3>4. CASE k = 0
      BY <3>1, <3>2, <3>3, <3>4
    <3>5. CASE k # 0
      <4>1. (k + 1) - 1 = k /\ k + 1 # 1 /\ k \in 1..n
        BY <1>2, <3>5
      <4>2. h[k] = g[k]
        BY <2>2, <4>1
      <4> QED BY <3>1, <3>2, <3>3, <4>1, <4>2
    <3> QED BY <3>4, <3>5
  <2> HIDE DEF N
  <2>3. Nat \subseteq N
    BY <2>1, <2>2, SetInduction
  <2> QED BY <2>3 DEF N
<1>7. FlattenSeq(tt) = h[n + 1]
  BY <1>2, <1>4
<1>8. h[n + 1] = IF n + 1 = 1 THEN t ELSE h[n] \o t
  <2>1. h[n + 1] = IF n + 1 = 1 THEN tt[n + 1] ELSE h[(n + 1) - 1] \o tt[n + 1]
    <3>1. n + 1 \in 1..Len(tt)
      BY <1>2
    <3> QED BY <1>a, <3>1
  <2>2. (n + 1) - 1 = n
    BY <1>2
  <2> QED BY <1>2, <2>1, <2>2
<1>9. ASSUME n = 0 PROVE FlattenSeq(tt) = FlattenSeq(ss) \o t
  <2>1. FlattenSeq(tt) = t
    BY <1>7, <1>8, <1>9
  <2>2. FlattenSeq(ss) = <<>>
    BY <1>3, <1>9
  <2> QED BY <2>1, <2>2, ConcatEmptySeq
<1>10. ASSUME n # 0 PROVE FlattenSeq(tt) = FlattenSeq(ss) \o t
  <2>1. n \in 1..n /\ n + 1 # 1
    BY <1>2, <1>10
  <2>2. h[n] = g[n]
    BY <1>2, <1>6, <2>1
  <2> QED BY <1>3, <1>7, <1>8, <1>10, <2>1, <2>2
<1> QED BY <1>1, <1>5, <1>9, <1>10 DEF tt

(***************************************************************************)
(* The bytes of a line.                                                    *)
(***************************************************************************)

\* What a line is made of: text, and what Format adds to it.
Byte == STRING \cup {" ", "1", "-", "[", "]", "id", "=", Quote, Backslash, ".", "_",
                     "category", "logger", "name"}
Bytes == Seq(Byte)

\* The literals among the bytes, one by one.
LEMMA Literals ==
    /\ " " \in Byte /\ "1" \in Byte /\ "-" \in Byte /\ "[" \in Byte /\ "]" \in Byte
    /\ "id" \in Byte /\ "=" \in Byte /\ Quote \in Byte /\ Backslash \in Byte /\ "." \in Byte
    /\ "_" \in Byte /\ "category" \in Byte /\ "logger" \in Byte /\ "name" \in Byte
BY DEF Byte

(***************************************************************************)
(* Scanning structured data.                                               *)
(***************************************************************************)

\* The bytes of s take the scanner from a to b.
Reads(a, s, b) ==
    \E h : /\ h = [k \in 0..Len(s) |-> h[k]]
           /\ h[0] = a /\ h[Len(s)] = b
           /\ \A k \in 1..Len(s) : h[k] = Element(h[k - 1], s[k])

\* No byte leaves the scanner where it is, ...
LEMMA ReadsNone ==
    ASSUME NEW a
    PROVE  Reads(a, <<>>, a)
<1> DEFINE h == [k \in 0..0 |-> a]
<1>1. h = [k \in 0..Len(<<>>) |-> h[k]] /\ h[0] = a /\ Len(<<>>) = 0
  OBVIOUS
<1> HIDE DEF h
<1> QED BY <1>1 DEF Reads

\* ... one byte takes it one step, ...
LEMMA ReadsByte ==
    ASSUME NEW a, NEW x
    PROVE  Reads(a, <<x>>, Element(a, x))
<1> PICK b : b = Element(a, x)
  OBVIOUS
<1> DEFINE h == [k \in 0..1 |-> IF k = 0 THEN a ELSE b]
<1>1. /\ h = [k \in 0..Len(<<x>>) |-> h[k]] /\ h[0] = a /\ h[1] = b /\ Len(<<x>>) = 1
      /\ <<x>>[1] = x
  OBVIOUS
<1> HIDE DEF h
<1>2. \A k \in 1..1 : h[k] = Element(h[k - 1], <<x>>[k])
  BY <1>1
<1> QED BY <1>1, <1>2 DEF Reads

\* ... and one text after the other takes it through both.
LEMMA ReadsConcat ==
    ASSUME NEW a, NEW b, NEW c, NEW s \in Bytes, NEW t \in Bytes, Reads(a, s, b), Reads(b, t, c)
    PROVE  Reads(a, s \o t, c)
<1> DEFINE n == Len(s)
           m == Len(t)
           st == s \o t
<1>1. /\ n \in Nat /\ m \in Nat /\ Len(st) = n + m
      /\ \A i \in 1..(n + m) : st[i] = IF i <= n THEN s[i] ELSE t[i - n]
  BY ConcatProperties, LenProperties DEF Bytes
<1>2. PICK f : /\ f[0] = a /\ f[n] = b /\ \A k \in 1..n : f[k] = Element(f[k - 1], s[k])
  BY DEF Reads
<1>3. PICK g : /\ g[0] = b /\ g[m] = c /\ \A k \in 1..m : g[k] = Element(g[k - 1], t[k])
  BY DEF Reads
<1> HIDE DEF n, m, st
<1> DEFINE h == [k \in 0..(n + m) |-> IF k <= n THEN f[k] ELSE g[k - n]]
<1>4. h = [k \in 0..Len(st) |-> h[k]] /\ h[0] = a
  BY <1>1, <1>2
<1>5. h[Len(st)] = c
  <2>1. Len(st) \in 0..(n + m) /\ (Len(st) <= n => m = 0 /\ Len(st) = n)
        /\ (~(Len(st) <= n) => Len(st) - n = m)
    BY <1>1
  <2>2. CASE Len(st) <= n
    <3>1. f[n] = g[m]
      BY <1>2, <1>3, <2>1, <2>2
    <3> QED BY <1>3, <2>1, <2>2, <3>1
  <2>3. CASE ~(Len(st) <= n)
    BY <1>3, <2>1, <2>3
  <2> QED BY <2>2, <2>3
<1>6. ASSUME NEW k \in 1..(n + m) PROVE h[k] = Element(h[k - 1], st[k])
  <2>1. CASE k <= n
    <3>1. k \in 1..n /\ k - 1 \in 0..(n + m) /\ k - 1 <= n /\ st[k] = s[k]
      BY <1>1, <2>1
    <3>2. h[k] = f[k] /\ h[k - 1] = f[k - 1]
      BY <2>1, <3>1
    <3> QED BY <1>2, <3>1, <3>2
  <2>2. CASE ~(k <= n)
    <3>1. k - n \in 1..m /\ k - 1 \in 0..(n + m) /\ st[k] = t[k - n]
      BY <1>1, <2>2
    <3>2. h[k] = g[k - n]
      BY <2>2
    <3>3. h[k - 1] = g[(k - n) - 1]
      <4>1. CASE k - 1 = n
        BY <1>1, <1>2, <1>3, <3>1, <4>1
      <4>2. CASE k - 1 # n
        <5>1. ~(k - 1 <= n) /\ (k - 1) - n = (k - n) - 1
          BY <1>1, <2>2, <4>2
        <5> QED BY <3>1, <5>1
      <4> QED BY <4>1, <4>2
    <3> HIDE DEF h
    <3>4. g[k - n] = Element(g[(k - n) - 1], t[k - n])
      BY <1>3, <3>1
    <3> QED BY <3>1, <3>2, <3>3, <3>4
  <2> QED BY <2>1, <2>2
<1> HIDE DEF h
<1> QED BY <1>1, <1>4, <1>5, <1>6 DEF Reads, st

\* It is where the scanner of SkipStructuredData ends.
LEMMA SkipIs ==
    ASSUME NEW s \in Bytes, NEW b, Reads(Start, s, b), s # <<>>, Head(s) # "-"
    PROVE  SkipStructuredData(s) = [ok   |-> b.pos > 0 /\ b.at \in {"between", "behind"},
                                    rest |-> SubSeq(s, b.pos + 1, Len(s))]
<1> DEFINE P(g) == g = [k \in 0..Len(s) |-> IF k = 0 THEN Start ELSE Element(g[k - 1], s[k])]
           f == CHOOSE g : P(g)
<1>1. Len(s) \in Nat
  BY LenProperties DEF Bytes
<1>2. PICK h : /\ h = [k \in 0..Len(s) |-> h[k]] /\ h[0] = Start /\ h[Len(s)] = b
               /\ \A k \in 1..Len(s) : h[k] = Element(h[k - 1], s[k])
  BY DEF Reads
<1>3. P(h)
  <2>1. \A k \in 0..Len(s) : h[k] = IF k = 0 THEN Start ELSE Element(h[k - 1], s[k])
    BY <1>1, <1>2
  <2> QED BY <1>2, <2>1
<1>4. P(f)
  <2> HIDE DEF P
  <2> QED BY <1>3
<1>5. SkipStructuredData(s) = [ok   |-> f[Len(s)].pos > 0 /\ f[Len(s)].at \in {"between", "behind"},
                               rest |-> SubSeq(s, f[Len(s)].pos + 1, Len(s))]
  BY DEF SkipStructuredData
<1> HIDE DEF f
<1>6. \A k \in 0..Len(s) : f[k] = IF k = 0 THEN Start ELSE Element(f[k - 1], s[k])
  BY <1>4
<1> HIDE DEF P
<1>7. \A k \in Nat : k \in 0..Len(s) => f[k] = h[k]
  <2> DEFINE N == {k \in Nat : k \in 0..Len(s) => f[k] = h[k]}
  <2>1. 0 \in N
    BY <1>1, <1>2, <1>6
  <2>2. ASSUME NEW k \in Nat, k \in N PROVE k + 1 \in N
    <3> SUFFICES ASSUME k + 1 \in 0..Len(s) PROVE f[k + 1] = h[k + 1]
      OBVIOUS
    <3>1. k \in 0..Len(s) /\ k + 1 \in 1..Len(s) /\ (k + 1) - 1 = k /\ k + 1 # 0
      BY <1>1
    <3>2. f[k] = h[k]
      BY <2>2, <3>1
    <3>3. h[k + 1] = Element(h[k], s[k + 1])
      BY <1>2, <3>1
    <3>4. f[k + 1] = Element(f[k], s[k + 1])
      BY <1>6, <3>1
    <3> QED BY <3>2, <3>3, <3>4
  <2> HIDE DEF N
  <2>3. Nat \subseteq N
    BY <2>1, <2>2, SetInduction
  <2> QED BY <2>3 DEF N
<1>8. f[Len(s)] = b
  BY <1>1, <1>2, <1>7
<1> QED BY <1>5, <1>8

St(a, q, p) == [at |-> a, quoted |-> q, pos |-> p]

\* What EXCEPT does to a state.
LEMMA StFacts ==
    ASSUME NEW a, NEW q, NEW p, NEW x
    PROVE /\ [St(a, q, p) EXCEPT !.pos = x] = St(a, q, x)
          /\ [St(a, q, p) EXCEPT !.at = x] = St(x, q, p)
          /\ [St(a, q, p) EXCEPT !.quoted = x] = St(a, x, p)
          /\ St(a, q, p).at = a /\ St(a, q, p).quoted = q /\ St(a, q, p).pos = p
BY DEF St

\* The same for the values of "at".
LEMMA StAt ==
    ASSUME NEW a, NEW q, NEW p
    PROVE /\ [St(a, q, p) EXCEPT !.at = "escaped"] = St("escaped", q, p)
          /\ [St(a, q, p) EXCEPT !.at = "between"] = St("between", q, p)
          /\ [St(a, q, p) EXCEPT !.at = "inside"] = St("inside", q, p)
BY DEF St

\* What one byte does to a state of the scanner.
LEMMA ElementOf ==
    ASSUME NEW q \in BOOLEAN, NEW p \in Nat, NEW c
    PROVE  /\ Element(St("between", q, p), c) =
                IF c = "[" THEN St("inside", FALSE, p + 1) ELSE St("behind", q, p)
           /\ Element(St("inside", q, p), c) =
                IF c = Backslash THEN St("escaped", q, p + 1)
                ELSE IF c = Quote THEN St("inside", ~q, p + 1)
                ELSE IF c = "]" /\ ~q THEN St("between", q, p + 1) ELSE St("inside", q, p + 1)
           /\ Element(St("escaped", q, p), c) = St("inside", q, p + 1)
           /\ Element(St("behind", q, p), c) = St("behind", q, p)
<1>1. Element(St("between", q, p), c) =
         IF c = "[" THEN St("inside", FALSE, p + 1) ELSE St("behind", q, p)
  <2> PICK st : st = St("between", q, p)
    OBVIOUS
  <2> PICK next : next = [st EXCEPT !.pos = @ + 1]
    OBVIOUS
  <2>1. st.at = "between" /\ st.pos = p /\ next = St("between", q, p + 1) /\ next.pos = p + 1
    BY StFacts
  <2>2. Element(st, c) = IF c = "[" THEN [at |-> "inside", quoted |-> FALSE, pos |-> next.pos]
                         ELSE [st EXCEPT !.at = "behind"]
    BY <2>1 DEF Element
  <2>3. [at |-> "inside", quoted |-> FALSE, pos |-> next.pos] = St("inside", FALSE, p + 1)
    BY <2>1 DEF St
  <2>4. [st EXCEPT !.at = "behind"] = St("behind", q, p)
    BY StFacts
  <2> QED BY <2>2, <2>3, <2>4
<1>2. Element(St("inside", q, p), c) =
         IF c = Backslash THEN St("escaped", q, p + 1)
         ELSE IF c = Quote THEN St("inside", ~q, p + 1)
         ELSE IF c = "]" /\ ~q THEN St("between", q, p + 1) ELSE St("inside", q, p + 1)
  <2> PICK st : st = St("inside", q, p)
    OBVIOUS
  <2> PICK next : next = [st EXCEPT !.pos = @ + 1]
    OBVIOUS
  <2>1. /\ st.at = "inside" /\ st.pos = p /\ st.quoted = q
        /\ next = St("inside", q, p + 1) /\ next.quoted = q
    BY StFacts
  <2>2. Element(st, c) = IF c = Backslash THEN [next EXCEPT !.at = "escaped"]
                         ELSE IF c = Quote THEN [next EXCEPT !.quoted = ~@]
                         ELSE IF c = "]" /\ ~st.quoted THEN [next EXCEPT !.at = "between"]
                         ELSE next
    BY <2>1 DEF Element
  <2>3. [next EXCEPT !.quoted = ~@] = [next EXCEPT !.quoted = ~q]
    BY <2>1
  <2>4. /\ [next EXCEPT !.at = "escaped"] = St("escaped", q, p + 1)
        /\ [next EXCEPT !.at = "between"] = St("between", q, p + 1)
    <3>1. /\ [St("inside", q, p + 1) EXCEPT !.at = "escaped"] = St("escaped", q, p + 1)
          /\ [St("inside", q, p + 1) EXCEPT !.at = "between"] = St("between", q, p + 1)
      BY StAt
    <3> QED BY <2>1, <3>1
  <2>5. [next EXCEPT !.quoted = ~q] = St("inside", ~q, p + 1)
    <3>1. \A r, n : [St("inside", q, n) EXCEPT !.quoted = r] = St("inside", r, n)
      BY StFacts
    <3>2. [St("inside", q, p + 1) EXCEPT !.quoted = ~q] = St("inside", ~q, p + 1)
      BY <3>1
    <3> QED BY <2>1, <3>2
  <2> QED BY <2>1, <2>2, <2>3, <2>4, <2>5
<1>3. Element(St("escaped", q, p), c) = St("inside", q, p + 1)
  <2> PICK st : st = St("escaped", q, p)
    OBVIOUS
  <2> PICK next : next = [st EXCEPT !.pos = @ + 1]
    OBVIOUS
  <2>1. st.at = "escaped" /\ st.pos = p /\ next = St("escaped", q, p + 1)
    BY StFacts
  <2>2. Element(st, c) = [next EXCEPT !.at = "inside"]
    BY <2>1 DEF Element
  <2>3. [next EXCEPT !.at = "inside"] = St("inside", q, p + 1)
    <3>1. [St("escaped", q, p + 1) EXCEPT !.at = "inside"] = St("inside", q, p + 1)
      BY StAt
    <3> QED BY <2>1, <3>1
  <2> QED BY <2>2, <2>3
<1>4. Element(St("behind", q, p), c) = St("behind", q, p)
  <2> PICK st : st = St("behind", q, p)
    OBVIOUS
  <2>1. st.at = "behind"
    BY StFacts
  <2> QED BY <2>1 DEF Element
<1> QED BY <1>1, <1>2, <1>3, <1>4

\* In an element, outside of a value or within its quotes; behind a backslash in
\* a value; behind an element; behind the blank that ends them all.
Inside(q, p) == IF q = "value" THEN St("inside", TRUE, p) ELSE St("inside", FALSE, p)
Escaped(p)   == St("escaped", TRUE, p)
Closed(p)    == St("between", FALSE, p)
Behind(p)    == St("behind", FALSE, p)

\* The bytes that mean something to the scanner are different ones.
LEMMA Letters ==
    /\ Backslash # Quote /\ Backslash # "]" /\ Quote # "]" /\ " " # "[" /\ Backslash # "[" /\ Quote # "["
BY DEF Backslash, Quote

\* What one byte does, in the states that the scanner comes through.
LEMMA ElementCases ==
    ASSUME NEW p \in Nat, NEW q \in {"value", "element"}, NEW x
    PROVE /\ Element(Start, "[") = Inside("element", 1)
          /\ x \notin {Backslash, Quote, "]"} => Element(Inside(q, p), x) = Inside(q, p + 1)
          /\ Element(Inside("element", p), Quote) = Inside("value", p + 1)
          /\ Element(Inside("value", p), Quote) = Inside("element", p + 1)
          /\ Element(Inside("value", p), Backslash) = Escaped(p + 1)
          /\ Element(Escaped(p), x) = Inside("value", p + 1)
          /\ Element(Inside("element", p), "]") = Closed(p + 1)
          /\ Element(Closed(p), " ") = Behind(p)
          /\ Element(Behind(p), x) = Behind(p)
<1> DEFINE V(n) == St("inside", TRUE, n)
           E(n) == St("inside", FALSE, n)
<1>1. \A n : Inside("value", n) = V(n) /\ Inside("element", n) = E(n)
  BY DEF Inside
<1>2. Element(Start, "[") = E(1)
  <2>1. Start = St("between", FALSE, 0)
    BY DEF Start, St
  <2>2. Element(St("between", FALSE, 0), "[") = St("inside", FALSE, 0 + 1)
    BY ElementOf
  <2>3. 0 + 1 = 1
    OBVIOUS
  <2> QED BY <2>1, <2>2, <2>3
<1>3. Element(V(p), x) =
         IF x = Backslash THEN St("escaped", TRUE, p + 1)
         ELSE IF x = Quote THEN St("inside", ~TRUE, p + 1)
         ELSE IF x = "]" /\ ~TRUE THEN St("between", TRUE, p + 1) ELSE St("inside", TRUE, p + 1)
  BY ElementOf
<1>4. Element(E(p), x) =
         IF x = Backslash THEN St("escaped", FALSE, p + 1)
         ELSE IF x = Quote THEN St("inside", ~FALSE, p + 1)
         ELSE IF x = "]" /\ ~FALSE THEN St("between", FALSE, p + 1) ELSE St("inside", FALSE, p + 1)
  BY ElementOf
<1>5. x \notin {Backslash, Quote, "]"} => Element(V(p), x) = V(p + 1) /\ Element(E(p), x) = E(p + 1)
  BY <1>3, <1>4
<1>6. x \notin {Backslash, Quote, "]"} => Element(Inside(q, p), x) = Inside(q, p + 1)
  <2> HIDE DEF V, E
  <2>1. CASE q = "value"
    BY <1>1, <1>5, <2>1
  <2>2. CASE q = "element"
    BY <1>1, <1>5, <2>2
  <2> QED BY <2>1, <2>2
<1>7. Element(E(p), Quote) = V(p + 1) /\ Element(V(p), Quote) = E(p + 1)
  BY ElementOf, Letters
<1>8. Element(V(p), Backslash) = Escaped(p + 1)
  BY ElementOf, Letters DEF Escaped
<1>9. Element(Escaped(p), x) = V(p + 1)
  BY ElementOf DEF Escaped
<1>10. Element(E(p), "]") = Closed(p + 1)
  BY ElementOf, Letters DEF Closed
<1>11. Element(Closed(p), " ") = Behind(p)
  BY ElementOf, Letters DEF Closed, Behind
<1>A. Element(Behind(p), x) = Behind(p)
  BY ElementOf DEF Behind
<1> HIDE DEF V, E
<1>13. Element(Start, "[") = Inside("element", 1)
  BY <1>1, <1>2
<1>14. /\ Element(Inside("element", p), Quote) = Inside("value", p + 1)
       /\ Element(Inside("value", p), Quote) = Inside("element", p + 1)
  BY <1>1, <1>7
<1>15. /\ Element(Inside("value", p), Backslash) = Escaped(p + 1)
       /\ Element(Escaped(p), x) = Inside("value", p + 1)
       /\ Element(Inside("element", p), "]") = Closed(p + 1)
  BY <1>1, <1>8, <1>9, <1>10
<1> QED BY <1>6, <1>11, <1>A, <1>13, <1>14, <1>15

(***************************************************************************)
(* What is written.                                                        *)
(***************************************************************************)

Piece(x) == IF x \in {Backslash, Quote, "]"} THEN <<Backslash, x>> ELSE <<x>>

\* A byte is written as one or two.
LEMMA PieceType ==
    ASSUME NEW x \in Byte
    PROVE  Piece(x) \in Bytes
BY Literals, ShortSeqs DEF Piece, Bytes

\* EscapeParam works byte by byte.
LEMMA EscapeAppend ==
    ASSUME NEW v \in Bytes, NEW x \in Byte
    PROVE  /\ EscapeParam(<<>>) = <<>>
           /\ EscapeParam(v) \in Bytes
           /\ EscapeParam(Append(v, x)) = EscapeParam(v) \o Piece(x)
<1> DEFINE f(s) == [i \in DOMAIN s |-> Piece(s[i])]
<1>1. \A s : EscapeParam(s) = FlattenSeq(f(s))
  BY DEF EscapeParam, Piece
<1>2. f(<<>>) = <<>>
  OBVIOUS
<1>3. ASSUME NEW s \in Bytes PROVE f(s) \in Seq(Bytes) /\ Len(f(s)) = Len(s)
  <2>1. \A i \in 1..Len(s) : s[i] \in Byte
    BY ElementOfSeq DEF Bytes
  <2>2. DOMAIN s = 1..Len(s) /\ Len(s) \in Nat
    BY LenProperties DEF Bytes
  <2>3. \A i \in 1..Len(s) : Piece(s[i]) \in Bytes
    BY <2>1, PieceType
  <2>4. f(s) \in [1..Len(s) -> Bytes]
    BY <2>2, <2>3
  <2> HIDE DEF f
  <2> QED BY <2>2, <2>4, FunctionIsSeq
<1>4. f(Append(v, x)) = Append(f(v), Piece(x))
  <2>1. /\ Append(v, x) \in Bytes /\ Len(Append(v, x)) = Len(v) + 1 /\ Len(v) \in Nat
        /\ Append(v, x)[Len(v) + 1] = x
        /\ \A i \in 1..Len(v) : Append(v, x)[i] = v[i]
        /\ DOMAIN Append(v, x) = 1..(Len(v) + 1) /\ DOMAIN v = 1..Len(v)
    <3>1. /\ Append(v, x) \in Seq(Byte) /\ Len(Append(v, x)) = Len(v) + 1
          /\ Append(v, x)[Len(v) + 1] = x
          /\ \A i \in 1..Len(v) : Append(v, x)[i] = v[i]
      BY AppendProperties DEF Bytes
    <3>2. Len(v) \in Nat /\ DOMAIN v = 1..Len(v)
      BY LenProperties DEF Bytes
    <3>3. DOMAIN Append(v, x) = 1..(Len(v) + 1)
      BY <3>1, LenProperties
    <3> QED BY <3>1, <3>2, <3>3 DEF Bytes
  <2>2. f(Append(v, x)) \in Seq(Bytes) /\ f(v) \in Seq(Bytes) /\ Len(f(v)) = Len(v)
    BY <1>3, <2>1
  <2>3. /\ Append(f(v), Piece(x)) \in Seq(Bytes) /\ Len(Append(f(v), Piece(x))) = Len(v) + 1
        /\ Append(f(v), Piece(x))[Len(v) + 1] = Piece(x)
        /\ \A i \in 1..Len(v) : Append(f(v), Piece(x))[i] = f(v)[i]
    <3> HIDE DEF f
    <3> QED BY <2>2, PieceType, AppendProperties
  <2>4. Len(f(Append(v, x))) = Len(v) + 1
    BY <1>3, <2>1
  <2>5. \A i \in 1..(Len(v) + 1) : f(Append(v, x))[i] = Piece(Append(v, x)[i])
    BY <2>1
  <2>6. \A i \in 1..Len(v) : f(v)[i] = Piece(v[i])
    BY <2>1
  <2> HIDE DEF f
  <2>7. \A i \in 1..(Len(v) + 1) : f(Append(v, x))[i] = Append(f(v), Piece(x))[i]
    BY <2>1, <2>3, <2>5, <2>6
  <2> QED BY <2>2, <2>3, <2>4, <2>7, SeqEqual
<1> HIDE DEF f
<1>5. f(v) \in Seq(Seq(Byte)) /\ Piece(x) \in Seq(Byte)
  BY <1>3, PieceType DEF Bytes
<1>6. /\ FlattenSeq(<<>>) = <<>> /\ FlattenSeq(f(v)) \in Seq(Byte)
      /\ FlattenSeq(Append(f(v), Piece(x))) = FlattenSeq(f(v)) \o Piece(x)
  BY <1>5, FlattenAppend
<1> QED BY <1>1, <1>2, <1>4, <1>6 DEF Bytes

\* The characters of a text are some of its bytes.
LEMMA CharactersType ==
    ASSUME NEW s \in Bytes
    PROVE  Characters(s) \in Bytes
<1> DEFINE f == [i \in DOMAIN s |->
                   IF s[i] = "C" /\ i > 1 /\ s[i - 1] = "L" THEN <<>> ELSE <<s[i]>>]
<1>1. f \in Seq(Seq(Byte))
  <2>1. \A i \in 1..Len(s) : s[i] \in Byte
    BY ElementOfSeq DEF Bytes
  <2>2. DOMAIN s = 1..Len(s) /\ Len(s) \in Nat
    BY LenProperties DEF Bytes
  <2>3. <<>> \in Seq(Byte) /\ \A c \in Byte : <<c>> \in Seq(Byte)
    BY EmptySeq, ShortSeqs
  <2>4. f \in [1..Len(s) -> Seq(Byte)]
    BY <2>1, <2>2, <2>3
  <2> HIDE DEF f
  <2> QED BY <2>2, <2>4, FunctionIsSeq
<1>2. Characters(s) = FlattenSeq(f)
  BY DEF Characters
<1> HIDE DEF f
<1> QED BY <1>1, <1>2, FlattenAppend, EmptySeq DEF Bytes

\* A name in the header is text without a blank.
LEMMA NameFieldType ==
    ASSUME NEW s \in Bytes, NEW limit \in Nat
    PROVE  /\ NameField(s, limit) \in Bytes
           /\ \A i \in 1..Len(NameField(s, limit)) : NameField(s, limit)[i] # " "
<1> DEFINE chars == Characters(s)
           n == Min({limit, Len(chars)})
<1> HIDE DEF n, chars
<1>1. CASE s = <<>>
  <2>1. NameField(s, limit) = <<"-">>
    BY <1>1 DEF NameField
  <2>2. <<"-">> \in Seq(Byte)
    BY Literals, ShortSeqs
  <2>3. Len(<<"-">>) = 1 /\ <<"-">>[1] # " "
    OBVIOUS
  <2>4. \A i \in 1..1 : NameField(s, limit)[i] # " "
    <3>1. PICK f : f = NameField(s, limit)
      OBVIOUS
    <3>2. f[1] # " "
      BY <2>1, <2>3, <3>1
    <3>3. \A i : i \in 1..1 => i = 1
      OBVIOUS
    <3> QED BY <3>1, <3>2, <3>3
  <2>5. NameField(s, limit) \in Bytes /\ Len(NameField(s, limit)) = 1
    BY <2>1, <2>2, <2>3 DEF Bytes
  <2> QED BY <2>4, <2>5
<1>2. CASE s # <<>>
  <2>1. chars \in Bytes /\ Len(chars) \in Nat
    BY CharactersType, LenProperties DEF Bytes, chars
  <2>2. NameField(s, limit) = [i \in 1..n |-> NameByte(chars[i])]
    BY <1>2 DEF NameField, n, chars
  <2>3. n \in Nat /\ n <= Len(chars)
    <3>1. \E x \in {limit, Len(chars)} : \A y \in {limit, Len(chars)} : x =< y
      BY <2>1
    <3>2. n \in {limit, Len(chars)} /\ \A y \in {limit, Len(chars)} : n =< y
      BY <3>1 DEF Min, n
    <3> QED BY <2>1, <3>2
  <2>4. \A i \in 1..n : chars[i] \in Byte
    BY <2>1, <2>3, ElementOfSeq DEF Bytes
  <2>5. \A c \in Byte : NameByte(c) \in Byte /\ NameByte(c) # " "
    BY Literals DEF NameByte
  <2>6. \A i \in 1..n : NameByte(chars[i]) \in Byte /\ NameByte(chars[i]) # " "
    BY <2>4, <2>5
  <2>7. NameField(s, limit) \in [1..n -> Byte]
    BY <2>2, <2>6
  <2>8. NameField(s, limit) \in Bytes /\ Len(NameField(s, limit)) = n
    BY <2>3, <2>7, FunctionIsSeq DEF Bytes
  <2>9. \A i \in 1..n : NameField(s, limit)[i] = NameByte(chars[i])
    BY <2>2
  <2>10. \A i \in 1..n : NameField(s, limit)[i] # " "
    BY <2>6, <2>9
  <2> QED BY <2>8, <2>10
<1> QED BY <1>1, <1>2

\* Wherever it stands in an element, s takes the scanner from there to behind s,
\* from within quotes or not to within quotes or not.
Goes(q, s, r) == \A p \in Nat : Reads(Inside(q, p), s, Inside(r, p + Len(s)))

\* One text after the other.
LEMMA GoesConcat ==
    ASSUME NEW q, NEW r, NEW u, NEW s \in Bytes, NEW t \in Bytes, Goes(q, s, r), Goes(r, t, u)
    PROVE  Goes(q, s \o t, u) /\ s \o t \in Bytes
<1>1. Len(s) \in Nat /\ Len(t) \in Nat /\ Len(s \o t) = Len(s) + Len(t) /\ s \o t \in Bytes
  BY ConcatProperties, LenProperties DEF Bytes
<1>2. ASSUME NEW p \in Nat PROVE Reads(Inside(q, p), s \o t, Inside(u, p + Len(s \o t)))
  <2>1. p + Len(s) \in Nat /\ (p + Len(s)) + Len(t) = p + Len(s \o t)
    BY <1>1
  <2>2. Reads(Inside(q, p), s, Inside(r, p + Len(s)))
    BY DEF Goes
  <2>3. Reads(Inside(r, p + Len(s)), t, Inside(u, (p + Len(s)) + Len(t)))
    BY <2>1 DEF Goes
  <2> QED BY <2>1, <2>2, <2>3, ReadsConcat
<1> QED BY <1>1, <1>2 DEF Goes

\* Nothing to read.
LEMMA GoesNone ==
    ASSUME NEW q
    PROVE  Goes(q, <<>>, q)
<1>1. \A p \in Nat : p + Len(<<>>) = p
  OBVIOUS
<1> QED BY <1>1, ReadsNone DEF Goes

\* A byte that means nothing within an element.
LEMMA GoesByte ==
    ASSUME NEW q \in {"value", "element"}, NEW x, x \notin {Backslash, Quote, "]"}
    PROVE  Goes(q, <<x>>, q)
<1>1. Len(<<x>>) = 1
  OBVIOUS
<1>2. ASSUME NEW p \in Nat PROVE Reads(Inside(q, p), <<x>>, Inside(q, p + 1))
  <2>1. Element(Inside(q, p), x) = Inside(q, p + 1)
    BY ElementCases
  <2> QED BY <2>1, ReadsByte
<1> QED BY <1>1, <1>2 DEF Goes

\* A quote begins a value or ends it.
LEMMA GoesQuote ==
    Goes("element", <<Quote>>, "value") /\ Goes("value", <<Quote>>, "element")
<1>1. Len(<<Quote>>) = 1
  OBVIOUS
<1>2. ASSUME NEW p \in Nat PROVE Reads(Inside("element", p), <<Quote>>, Inside("value", p + 1))
  <2>1. Element(Inside("element", p), Quote) = Inside("value", p + 1)
    BY ElementCases
  <2> QED BY <2>1, ReadsByte
<1>3. ASSUME NEW p \in Nat PROVE Reads(Inside("value", p), <<Quote>>, Inside("element", p + 1))
  <2>1. Element(Inside("value", p), Quote) = Inside("element", p + 1)
    BY ElementCases
  <2> QED BY <2>1, ReadsByte
<1> QED BY <1>1, <1>2, <1>3 DEF Goes

\* Within quotes, an escaped byte ends nothing.
LEMMA GoesPiece ==
    ASSUME NEW x \in Byte
    PROVE  Goes("value", Piece(x), "value")
<1>1. CASE x \in {Backslash, Quote, "]"}
  <2>1. Piece(x) = <<Backslash>> \o <<x>> /\ Len(Piece(x)) = 2
    BY <1>1 DEF Piece
  <2>2. <<Backslash>> \in Bytes /\ <<x>> \in Bytes
    BY Literals, ShortSeqs DEF Bytes
  <2>3. ASSUME NEW p \in Nat PROVE Reads(Inside("value", p), Piece(x), Inside("value", p + 2))
    <3>1. Reads(Inside("value", p), <<Backslash>>, Escaped(p + 1))
      <4>1. Element(Inside("value", p), Backslash) = Escaped(p + 1)
        BY ElementCases
      <4> QED BY <4>1, ReadsByte
    <3>2. Reads(Escaped(p + 1), <<x>>, Inside("value", p + 2))
      <4>1. Element(Escaped(p + 1), x) = Inside("value", (p + 1) + 1)
        <5>1. p + 1 \in Nat
          OBVIOUS
        <5> QED BY <5>1, ElementCases
      <4>2. (p + 1) + 1 = p + 2
        OBVIOUS
      <4> QED BY <4>1, <4>2, ReadsByte
    <3> QED BY <2>1, <2>2, <3>1, <3>2, ReadsConcat
  <2> QED BY <2>1, <2>3 DEF Goes
<1>2. CASE x \notin {Backslash, Quote, "]"}
  <2>1. Piece(x) = <<x>>
    BY <1>2 DEF Piece
  <2> QED BY <1>2, <2>1, GoesByte
<1> QED BY <1>1, <1>2

\* An escaped value is read without an end of the quotes.
LEMMA GoesEscaped ==
    ASSUME NEW v \in Bytes
    PROVE  Goes("value", EscapeParam(v), "value")
<1> DEFINE T == {s \in Bytes : Goes("value", EscapeParam(s), "value")}
<1>1. <<>> \in T
  <2>1. <<>> \in Bytes
    BY EmptySeq DEF Bytes
  <2>2. " " \in Byte
    BY Literals
  <2>3. EscapeParam(<<>>) = <<>>
    BY <2>1, <2>2, EscapeAppend
  <2> QED BY <2>1, <2>3, GoesNone
<1>2. ASSUME NEW s \in Seq(Byte), NEW x \in Byte, s \in T PROVE Append(s, x) \in T
  <2>1. Append(s, x) \in Bytes
    BY AppendProperties DEF Bytes
  <2>2. EscapeParam(Append(s, x)) = EscapeParam(s) \o Piece(x) /\ EscapeParam(s) \in Bytes
    BY EscapeAppend DEF Bytes
  <2>3. Goes("value", EscapeParam(s), "value")
    BY <1>2
  <2>4. Goes("value", EscapeParam(s) \o Piece(x), "value")
    BY <2>2, <2>3, PieceType, GoesPiece, GoesConcat
  <2> QED BY <2>1, <2>2, <2>4
<1> HIDE DEF T
<1>3. Seq(Byte) \subseteq T
  BY <1>1, <1>2, SeqInduction
<1> QED BY <1>3 DEF T, Bytes

\* A parameter leaves the scanner within its element, as it found it.
LEMMA GoesParam ==
    ASSUME NEW key \in {"category", "logger", "name"}, NEW v \in Bytes
    PROVE  Goes("element", Param(key, v), "element") /\ Param(key, v) \in Bytes
<1>1. CASE v = <<>>
  BY <1>1, GoesNone, EmptySeq DEF Param, Bytes
<1>2. CASE v # <<>>
  <2>1. key \in Byte /\ key \notin {Backslash, Quote, "]"}
    BY Literals DEF Backslash, Quote
  <2>2. /\ " " \notin {Backslash, Quote, "]"} /\ "=" \notin {Backslash, Quote, "]"}
    BY DEF Backslash, Quote
  <2>3. /\ <<" ">> \in Bytes /\ <<key>> \in Bytes /\ <<"=">> \in Bytes /\ <<Quote>> \in Bytes
    BY <2>1, Literals, ShortSeqs DEF Bytes
  <2>4. Goes("element", <<" ">>, "element") /\ Goes("element", <<key>>, "element") /\ Goes("element", <<"=">>, "element")
    BY <2>1, <2>2, GoesByte
  <2>5. Goes("element", <<" ">> \o <<key>>, "element") /\ <<" ">> \o <<key>> \in Bytes
    BY <2>3, <2>4, GoesConcat
  <2>6. /\ Goes("element", (<<" ">> \o <<key>>) \o <<"=">>, "element")
        /\ (<<" ">> \o <<key>>) \o <<"=">> \in Bytes
    BY <2>3, <2>4, <2>5, GoesConcat
  <2> DEFINE w == (<<" ">> \o <<key>>) \o <<"=">>
             quote == <<Quote>>
             e == EscapeParam(v)
  <2>7. w \o quote = <<" ", key, "=", Quote>>
    <3>0. " " \in Byte /\ key \in Byte /\ "=" \in Byte /\ Quote \in Byte
      BY <2>1, Literals
    <3>1. <<" ">> \o <<key>> = <<" ", key>>
      BY <3>0, Concat2
    <3>2. <<" ", key>> \o <<"=">> = <<" ", key, "=">>
      BY <3>0, Concat3
    <3>3. <<" ", key, "=">> \o <<Quote>> = <<" ", key, "=", Quote>>
      BY <3>0, Concat4
    <3> QED BY <3>1, <3>2, <3>3
  <2>8. Param(key, v) = ((w \o quote) \o e) \o quote
    BY <1>2, <2>7 DEF Param
  <2>9. w \in Bytes /\ Goes("element", w, "element")
    BY <2>6
  <2>10. quote \in Bytes /\ Goes("element", quote, "value") /\ Goes("value", quote, "element")
    BY <2>3, GoesQuote
  <2>11. e \in Bytes /\ Goes("value", e, "value")
    BY <2>1, EscapeAppend, GoesEscaped
  <2> HIDE DEF w, quote, e
  <2>12. Goes("element", w \o quote, "value") /\ w \o quote \in Bytes
    BY <2>9, <2>10, GoesConcat
  <2>13. Goes("element", (w \o quote) \o e, "value") /\ (w \o quote) \o e \in Bytes
    BY <2>11, <2>12, GoesConcat
  <2>14. /\ Goes("element", ((w \o quote) \o e) \o quote, "element")
         /\ ((w \o quote) \o e) \o quote \in Bytes
    BY <2>10, <2>13, GoesConcat
  <2> QED BY <2>8, <2>14
<1> QED BY <1>1, <1>2

\* The bytes of two texts.
LEMMA BytesConcat ==
    ASSUME NEW s \in Bytes, NEW t \in Bytes
    PROVE  s \o t \in Bytes /\ Len(s \o t) = Len(s) + Len(t) /\ Len(s) \in Nat /\ Len(t) \in Nat
BY ConcatProperties, LenProperties DEF Bytes

\* Concatenation associates, ...
LEMMA BytesAssociative ==
    ASSUME NEW s \in Bytes, NEW t \in Bytes, NEW u \in Bytes
    PROVE  (s \o t) \o u = s \o (t \o u)
BY ConcatAssociative DEF Bytes

AllBytes(s, t, a, b, c) ==
    s \in Bytes /\ t \in Bytes /\ a \in Bytes /\ b \in Bytes /\ c \in Bytes

\* ... of five texts, as StructuredData puts them together, ...
LEMMA BytesRegrouped ==
    \A s, t, a, b, c : AllBytes(s, t, a, b, c) => (((s \o t) \o a) \o b) \o c = s \o (((t \o a) \o b) \o c)
<1>1. ASSUME NEW s, NEW t, NEW a, NEW b, NEW c,
             AllBytes(s, t, a, b, c)
      PROVE  (((s \o t) \o a) \o b) \o c = s \o (((t \o a) \o b) \o c)
  <2>1. s \in Bytes /\ t \in Bytes /\ a \in Bytes
    BY <1>1 DEF AllBytes
  <2>2. b \in Bytes /\ c \in Bytes
    BY <1>1 DEF AllBytes
  <2>3. PICK w : w \in Bytes /\ w = t \o a
    BY <2>1, BytesConcat
  <2>4. s \in Bytes /\ w \in Bytes /\ b \in Bytes
    BY <2>1, <2>2, <2>3
  <2>5. PICK x : x \in Bytes /\ x = w \o b
    BY <2>4, BytesConcat
  <2>6. s \in Bytes /\ x \in Bytes /\ c \in Bytes
    BY <2>1, <2>2, <2>5
  <2>7. (s \o t) \o a = s \o (t \o a)
    BY <2>1, BytesAssociative
  <2>8. (s \o w) \o b = s \o (w \o b)
    BY <2>4, BytesAssociative
  <2>9. (s \o x) \o c = s \o (x \o c)
    BY <2>6, BytesAssociative
  <2> QED BY <2>3, <2>5, <2>7, <2>8, <2>9
<1> QED BY <1>1

\* Behind the structured data nothing ends any more.
LEMMA ReadsBehind ==
    ASSUME NEW p \in Nat, NEW s \in Bytes
    PROVE  Reads(Behind(p), s, Behind(p))
<1> PICK b : b = Behind(p)
  OBVIOUS
<1>1. \A x : Element(b, x) = b
  BY ElementCases
<1> DEFINE h == [k \in 0..Len(s) |-> b]
<1>2. Len(s) \in Nat
  BY LenProperties DEF Bytes
<1>3. h = [k \in 0..Len(s) |-> h[k]] /\ h[0] = b /\ h[Len(s)] = b
      /\ \A k \in 1..Len(s) : h[k] = b /\ h[k - 1] = b
  BY <1>2
<1> HIDE DEF h
<1>4. \A k \in 1..Len(s) : h[k] = Element(h[k - 1], s[k])
  BY <1>1, <1>3
<1> QED BY <1>3, <1>4 DEF Reads

\* The entries and sources that are forwarded: text, and a time without a blank.
Forwardable(e, source, name) ==
    /\ e.level \in Level /\ e.time \in Byte /\ e.time # " "
    /\ e.category \in Bytes /\ e.logger \in Bytes /\ e.message \in Bytes
    /\ source.component \in Bytes /\ source.instance \in Bytes /\ name \in Bytes

\* What Format writes as structured data is one element, and no less.
LEMMA ReadsStructuredData ==
    ASSUME NEW e, NEW name \in Bytes, e.category \in Bytes, e.logger \in Bytes
    PROVE  LET sd == StructuredData(e, name) IN
           /\ sd \in Bytes
           /\ \/ sd = <<"-">>
              \/ /\ sd # <<>> /\ sd[1] = "[" /\ Len(sd) \in Nat \ {0}
                 /\ Reads(Start, sd, Closed(Len(sd)))
<1> DEFINE sd == StructuredData(e, name)
<1>1. CASE e.category = <<>> /\ e.logger = <<>> /\ name = <<>>
  <2>1. sd = <<"-">>
    BY <1>1 DEF StructuredData
  <2>2. <<"-">> \in Bytes
    BY Literals, ShortSeqs DEF Bytes
  <2> QED BY <2>1, <2>2
<1>2. CASE ~(e.category = <<>> /\ e.logger = <<>> /\ name = <<>>)
  <2> DEFINE open  == <<"[">>
             word  == <<"id">>
             a     == Param("category", e.category)
             b     == Param("logger", e.logger)
             c     == Param("name", name)
             close == <<"]">>
  <2>1. sd = (((<<"[", "id">> \o a) \o b) \o c) \o close
    BY <1>2 DEF StructuredData
  <2>2. open \o word = <<"[", "id">>
    <3>1. "[" \in Byte /\ "id" \in Byte
      BY Literals
    <3> QED BY <3>1, Concat2
  <2>3. open \in Bytes /\ word \in Bytes /\ close \in Bytes /\ Len(open) = 1 /\ Len(close) = 1 /\ open[1] = "["
    <3>1. "[" \in Byte /\ "id" \in Byte /\ "]" \in Byte
      BY Literals
    <3> QED BY <3>1, ShortSeqs DEF Bytes
  <2>4. Goes("element", word, "element")
    BY GoesByte DEF Backslash, Quote
  <2>5. /\ a \in Bytes /\ Goes("element", a, "element")
        /\ b \in Bytes /\ Goes("element", b, "element")
        /\ c \in Bytes /\ Goes("element", c, "element")
    BY GoesParam
  <2>6. Reads(Start, open, Inside("element", 1))
    <3>1. Element(Start, "[") = Inside("element", 1)
      <4>1. 0 \in Nat
        OBVIOUS
      <4> QED BY <4>1, ElementCases
    <3> QED BY <3>1, ReadsByte
  <2>7. \A p \in Nat : Reads(Inside("element", p), close, Closed(p + 1))
    <3>1. \A p \in Nat : Element(Inside("element", p), "]") = Closed(p + 1)
      BY ElementCases
    <3> QED BY <3>1, ReadsByte
  <2> HIDE DEF sd, open, word, a, b, c, close
  <2> DEFINE body == ((word \o a) \o b) \o c
  <2>8. body \in Bytes /\ Goes("element", body, "element")
    <3>1. Goes("element", word \o a, "element") /\ word \o a \in Bytes
      BY <2>3, <2>4, <2>5, GoesConcat
    <3>2. Goes("element", (word \o a) \o b, "element") /\ (word \o a) \o b \in Bytes
      BY <2>5, <3>1, GoesConcat
    <3> QED BY <2>5, <3>2, GoesConcat
  <2>9. sd = (open \o body) \o close
    <3>0. AllBytes(open, word, a, b, c)
      BY <2>3, <2>5 DEF AllBytes
    <3>1. (((open \o word) \o a) \o b) \o c = open \o (((word \o a) \o b) \o c)
      BY <3>0, BytesRegrouped
    <3> QED BY <2>1, <2>2, <3>1
  <2> HIDE DEF body
  <2>10. /\ Len(body) \in Nat /\ Len(open \o body) = 1 + Len(body) /\ open \o body \in Bytes
         /\ Len(sd) = (1 + Len(body)) + 1 /\ sd \in Bytes
    <3>0. open \in Bytes /\ body \in Bytes /\ close \in Bytes
      BY <2>3, <2>8
    <3>1. Len(open \o body) = 1 + Len(body) /\ open \o body \in Bytes
      <4>1. Len(open \o body) = Len(open) + Len(body) /\ open \o body \in Bytes
        BY <3>0, BytesConcat
      <4> QED BY <2>3, <4>1
    <3>2. Len(sd) = (1 + Len(body)) + 1 /\ sd \in Bytes
      <4>1. PICK w : w = open \o body
        OBVIOUS
      <4>2. Len(w \o close) = Len(w) + Len(close) /\ w \o close \in Bytes
        BY <3>0, <3>1, <4>1, BytesConcat
      <4> QED BY <2>3, <2>9, <3>1, <4>1, <4>2
    <3>3. Len(body) \in Nat
      BY <2>8, LenProperties DEF Bytes
    <3> QED BY <3>1, <3>2, <3>3
  <2>11. sd[1] = "["
    <3>1. (open \o body)[1] = open[1]
      <4>1. 1 \in 1..(Len(open) + Len(body)) /\ 1 <= Len(open)
        BY <2>3, <2>10
      <4> QED BY <2>3, <2>8, <4>1, ConcatProperties DEF Bytes
    <3>2. sd[1] = (open \o body)[1]
      <4>1. 1 \in 1..(Len(open \o body) + Len(close)) /\ 1 <= Len(open \o body)
        BY <2>3, <2>10
      <4> QED BY <2>3, <2>9, <2>10, <4>1, ConcatProperties DEF Bytes
    <3> QED BY <2>3, <3>1, <3>2
  <2>12. Reads(Start, open \o body, Inside("element", 1 + Len(body)))
    <3>1. Reads(Inside("element", 1), body, Inside("element", 1 + Len(body)))
      BY <2>8 DEF Goes
    <3> QED BY <2>3, <2>6, <2>8, <3>1, ReadsConcat
  <2>13. Reads(Start, sd, Closed(Len(sd)))
    <3>1. Reads(Inside("element", 1 + Len(body)), close, Closed((1 + Len(body)) + 1))
      BY <2>7, <2>10
    <3> QED BY <2>3, <2>9, <2>10, <2>12, <3>1, ReadsConcat
  <2>14. sd # <<>> /\ Len(sd) \in Nat \ {0}
    <3>1. Len(sd) \in Nat \ {0}
      BY <2>10
    <3> QED BY <3>1, EmptySeq
  <2> QED BY <2>10, <2>11, <2>13, <2>14 DEF sd
<1> QED BY <1>1, <1>2

\* The receiver finds the end of the structured data, whatever is in it.
LEMMA SkipWritten ==
    ASSUME NEW e, NEW name \in Bytes, e.category \in Bytes, e.logger \in Bytes, NEW t \in Bytes
    PROVE  SkipStructuredData(StructuredData(e, name) \o (<<" ">> \o t))
              = [ok |-> TRUE, rest |-> <<" ">> \o t]
<1> DEFINE sd    == StructuredData(e, name)
           blank == <<" ">>
           rest  == blank \o t
           s     == sd \o rest
<1>1. sd \in Bytes /\ (\/ sd = <<"-">>
                       \/ /\ sd # <<>> /\ sd[1] = "[" /\ Len(sd) \in Nat \ {0}
                          /\ Reads(Start, sd, Closed(Len(sd))))
  BY ReadsStructuredData
<1>2. blank \in Bytes /\ rest \in Bytes /\ Len(rest) \in Nat
  <2>1. blank \in Bytes
    BY Literals, ShortSeqs DEF Bytes
  <2> QED BY <2>1, ConcatProperties, LenProperties DEF Bytes
<1>3. Reads(Closed(Len(sd)), blank, Behind(Len(sd))) /\ Len(sd) \in Nat
  <2>1. Len(sd) \in Nat
    BY <1>1, LenProperties DEF Bytes
  <2>2. Element(Closed(Len(sd)), " ") = Behind(Len(sd))
    BY <2>1, ElementCases
  <2> QED BY <2>1, <2>2, ReadsByte
<1> HIDE DEF sd, blank
<1>4. Reads(Closed(Len(sd)), rest, Behind(Len(sd)))
  BY <1>2, <1>3, ReadsBehind, ReadsConcat
<1> HIDE DEF rest
<1>5. s \in Bytes /\ SubSeq(s, Len(sd) + 1, Len(s)) = rest /\ Len(s) = Len(sd) + Len(rest)
      /\ \A i \in 1..Len(sd) : s[i] = sd[i]
  <2>1. s \in Bytes /\ Len(s) = Len(sd) + Len(rest)
        /\ \A i \in 1..(Len(sd) + Len(rest)) : s[i] = IF i <= Len(sd) THEN sd[i] ELSE rest[i - Len(sd)]
    BY <1>1, <1>2, ConcatProperties DEF Bytes
  <2>2. SubSeq(s, Len(sd) + 1, Len(s)) = rest
    BY <1>1, <1>2, PartsOfConcat DEF Bytes
  <2>3. \A i \in 1..Len(sd) : i \in 1..(Len(sd) + Len(rest)) /\ i <= Len(sd)
    BY <1>2, <1>3
  <2> QED BY <2>1, <2>2, <2>3
<1>6. CASE sd = <<"-">>
  <2>1. Len(sd) = 1 /\ sd[1] = "-"
    BY <1>6
  <2> HIDE DEF s
  <2>2. s # <<>> /\ Head(s) = "-"
    <3>1. Len(s) # 0 /\ 1 \in 1..Len(sd)
      BY <1>2, <1>5, <2>1
    <3>2. s # <<>>
      BY <3>1, EmptySeq
    <3>3. Head(s) = s[1]
      BY <1>5, <3>2, HeadAndTail DEF Bytes
    <3> QED BY <1>5, <2>1, <3>1, <3>2, <3>3
  <2>3. Tail(s) = rest
    <3>1. Tail(s) = SubSeq(s, 2, Len(s))
      BY <1>5, <2>2, TailIsSubSeq DEF Bytes
    <3>2. Len(sd) + 1 = 2
      BY <2>1
    <3> QED BY <1>5, <3>1, <3>2
  <2>4. SkipStructuredData(s) = [ok |-> TRUE, rest |-> Tail(s)]
    BY <2>2 DEF SkipStructuredData
  <2> QED BY <2>3, <2>4 DEF s, sd, rest, blank
<1>7. CASE /\ sd # <<>> /\ sd[1] = "[" /\ Len(sd) \in Nat \ {0}
           /\ Reads(Start, sd, Closed(Len(sd)))
  <2>1. Reads(Start, s, Behind(Len(sd)))
    BY <1>1, <1>2, <1>4, <1>7, ReadsConcat
  <2> HIDE DEF s
  <2>2. s # <<>> /\ Head(s) # "-"
    <3>1. Len(s) # 0 /\ 1 \in 1..Len(sd)
      BY <1>2, <1>5, <1>7
    <3>2. s # <<>>
      BY <3>1, EmptySeq
    <3>3. Head(s) = s[1]
      BY <1>5, <3>2, HeadAndTail DEF Bytes
    <3>4. Head(s) = "["
      BY <1>5, <1>7, <3>1, <3>3
    <3> QED BY <3>2, <3>4
  <2>3. Behind(Len(sd)).pos = Len(sd) /\ Behind(Len(sd)).at = "behind"
    BY DEF Behind, St
  <2>4. SkipStructuredData(s) = [ok   |-> Behind(Len(sd)).pos > 0 /\ Behind(Len(sd)).at \in {"between", "behind"},
                                 rest |-> SubSeq(s, Behind(Len(sd)).pos + 1, Len(s))]
    BY <1>5, <2>1, <2>2, SkipIs
  <2>5. Len(sd) > 0
    BY <1>7
  <2>6. SkipStructuredData(s) = [ok |-> TRUE, rest |-> rest]
    BY <1>5, <2>3, <2>4, <2>5
  <2> QED BY <2>6 DEF s, sd, rest, blank
<1> QED BY <1>1, <1>6, <1>7

(***************************************************************************)
(* The header.                                                             *)
(***************************************************************************)

\* Concatenation associates; the premise is one predicate, to be cited as one fact.
ThreeBytes(s, t, u) == s \in Bytes /\ t \in Bytes /\ u \in Bytes

\* ... and of three, for any.
LEMMA Regroup ==
    \A s, t, u : ThreeBytes(s, t, u) => (s \o t) \o u = s \o (t \o u)
BY BytesAssociative DEF ThreeBytes

\* A text of one byte.
LEMMA OneByte ==
    ASSUME NEW a \in Byte
    PROVE  <<a>> \in Bytes /\ Len(<<a>>) = 1 /\ <<a>>[1] = a
BY ShortSeqs DEF Bytes

\* A few bytes before a text, one by one.
LEMMA TwoBefore ==
    ASSUME NEW a \in Byte, NEW b \in Byte, NEW r \in Bytes
    PROVE  <<a, b>> \o r = <<a>> \o (<<b>> \o r) /\ <<b>> \o r \in Bytes
<1>1. <<a>> \o <<b>> = <<a, b>>
  BY Concat2
<1>2. <<a>> \in Bytes /\ <<b>> \in Bytes
  BY OneByte
<1>0. PICK x, y, z : x = <<a>> /\ y = <<b>> /\ z = <<a, b>>
  OBVIOUS
<1>3. ThreeBytes(x, y, r)
  BY <1>0, <1>2 DEF ThreeBytes
<1>4. (x \o y) \o r = x \o (y \o r)
  BY <1>3, Regroup
<1>5. y \o r \in Bytes
  BY <1>0, <1>2, BytesConcat
<1> QED BY <1>0, <1>1, <1>4, <1>5

\* Three bytes, ...
LEMMA ThreeBefore ==
    ASSUME NEW a \in Byte, NEW b \in Byte, NEW c \in Byte, NEW r \in Bytes
    PROVE  <<a, b, c>> \o r = <<a>> \o (<<b>> \o (<<c>> \o r)) /\ <<c>> \o r \in Bytes
<1>1. <<a, b>> \o <<c>> = <<a, b, c>>
  BY Concat3
<1>2. <<a, b>> \in Bytes /\ <<c>> \in Bytes
  BY OneByte, ShortSeqs DEF Bytes
<1>0. PICK x, y, z : x = <<a, b>> /\ y = <<c>> /\ z = <<a, b, c>>
  OBVIOUS
<1>3. ThreeBytes(x, y, r)
  BY <1>0, <1>2 DEF ThreeBytes
<1>4. (x \o y) \o r = x \o (y \o r)
  BY <1>3, Regroup
<1>5. y \o r \in Bytes
  BY <1>0, <1>2, BytesConcat
<1>6. <<a, b>> \o (y \o r) = <<a>> \o (<<b>> \o (y \o r))
  BY <1>5, TwoBefore
<1> QED BY <1>0, <1>1, <1>4, <1>5, <1>6

FourBytes(a, b, c, d, r) == a \in Byte /\ b \in Byte /\ c \in Byte /\ d \in Byte /\ r \in Bytes
FourThen(a, b, c, d, r) == <<a, b, c, d>> \o r
OneByOne(a, b, c, d, r) == <<a>> \o (<<b>> \o (<<c>> \o (<<d>> \o r)))

\* ... and four, as one fact about a predicate.
LEMMA FourBefore ==
    ASSUME NEW a, NEW b, NEW c, NEW d, NEW r, FourBytes(a, b, c, d, r)
    PROVE  FourThen(a, b, c, d, r) = OneByOne(a, b, c, d, r)
<1>a. a \in Byte /\ b \in Byte /\ c \in Byte /\ d \in Byte /\ r \in Bytes
  BY DEF FourBytes
<1>1. <<a, b, c>> \o <<d>> = <<a, b, c, d>>
  BY <1>a, Concat4
<1>2. <<a, b, c>> \in Bytes /\ <<d>> \in Bytes
  BY <1>a, OneByte, LongerSeqs DEF Bytes
<1>0. PICK x, y, z : x = <<a, b, c>> /\ y = <<d>> /\ z = <<a, b, c, d>>
  OBVIOUS
<1>3. ThreeBytes(x, y, r)
  BY <1>a, <1>0, <1>2 DEF ThreeBytes
<1>4. (x \o y) \o r = x \o (y \o r)
  BY <1>3, Regroup
<1>5. y \o r \in Bytes
  BY <1>a, <1>0, <1>2, BytesConcat
<1>6. <<a, b, c>> \o (y \o r) = <<a>> \o (<<b>> \o (<<c>> \o (y \o r)))
  BY <1>a, <1>5, ThreeBefore
<1> QED BY <1>0, <1>1, <1>4, <1>5, <1>6 DEF FourThen, OneByOne

Blank == " "
Dash  == "-"

\* PROCID and MSGID.
LEMMA DashesBefore ==
    ASSUME NEW r \in Bytes
    PROVE  LET b == <<Blank>>  d == <<Dash>> IN
           <<Blank, Dash, Blank, Dash, Blank>> \o r = b \o (d \o (b \o (d \o (b \o r))))
<1>0. Blank \in Byte /\ Dash \in Byte
  BY Literals DEF Blank, Dash
<1>1. <<Blank, Dash, Blank, Dash>> \o <<Blank>> = <<Blank, Dash, Blank, Dash, Blank>>
  BY <1>0, Concat5
<1>2. <<Blank, Dash, Blank, Dash>> \in Bytes /\ <<Blank>> \in Bytes
  BY <1>0, OneByte, LongerSeqs DEF Bytes
<1>3. PICK x, y : x = <<Blank, Dash, Blank, Dash>> /\ y = <<Blank>>
  OBVIOUS
<1>4. ThreeBytes(x, y, r)
  BY <1>2, <1>3 DEF ThreeBytes
<1>5. (x \o y) \o r = x \o (y \o r)
  BY <1>4, Regroup
<1>6. PICK q \in Bytes : q = y \o r
  BY <1>2, <1>3, BytesConcat
<1>7. <<Blank, Dash, Blank, Dash>> \o q = <<Blank>> \o (<<Dash>> \o (<<Blank>> \o (<<Dash>> \o q)))
  <2>1. FourBytes(Blank, Dash, Blank, Dash, q)
    BY <1>0 DEF FourBytes
  <2>2. FourThen(Blank, Dash, Blank, Dash, q) = OneByOne(Blank, Dash, Blank, Dash, q)
    BY <2>1, FourBefore
  <2> QED BY <2>2 DEF FourThen, OneByOne
<1> QED BY <1>1, <1>3, <1>5, <1>6, <1>7

\* Cut takes what stands before the first blank.
LEMMA CutIs ==
    ASSUME NEW f \in Bytes, NEW r \in Bytes, \A i \in 1..Len(f) : f[i] # Blank
    PROVE  Cut(f \o (<<Blank>> \o r)) = [ok |-> TRUE, field |-> f, rest |-> r]
<1>0. PICK blank : blank = <<Blank>>
  OBVIOUS
<1>1. blank \in Bytes /\ Len(blank) = 1 /\ blank[1] = Blank
  <2>1. Blank \in Byte
    BY Literals DEF Blank
  <2> QED BY <1>0, <2>1, OneByte
<1>2. PICK t : t = blank \o r /\ t \in Bytes /\ Len(t) = 1 + Len(r) /\ t[1] = Blank
  <2>1. blank \o r \in Bytes /\ Len(blank \o r) = 1 + Len(r) /\ Len(r) \in Nat
    BY <1>1, BytesConcat
  <2>2. 1 \in 1..(Len(blank) + Len(r)) /\ 1 <= Len(blank)
    BY <1>1, <2>1
  <2>3. (blank \o r)[1] = blank[1]
    BY <1>1, <2>2, ConcatProperties DEF Bytes
  <2> QED BY <1>1, <2>1, <2>3
<1> DEFINE n == Len(f)
<1>3. PICK s : s = f \o t
  OBVIOUS
<1>4. /\ s \in Bytes /\ n \in Nat /\ Len(r) \in Nat /\ Len(s) = n + (1 + Len(r))
      /\ s[n + 1] = Blank /\ \A i \in 1..n : s[i] # Blank
  <2>1. s \in Bytes /\ n \in Nat /\ Len(r) \in Nat /\ Len(s) = n + Len(t)
    BY <1>2, <1>3, BytesConcat
  <2>2. \A i \in 1..(n + Len(t)) : s[i] = IF i <= n THEN f[i] ELSE t[i - n]
    BY <1>2, <1>3, ConcatProperties DEF Bytes
  <2>3. n + 1 \in 1..(n + Len(t)) /\ ~(n + 1 <= n) /\ (n + 1) - n = 1
    BY <1>2, <2>1
  <2>4. \A i \in 1..n : i \in 1..(n + Len(t)) /\ i <= n
    BY <1>2, <2>1
  <2>5. s[n + 1] = t[1]
    BY <2>2, <2>3
  <2>6. \A i \in 1..n : s[i] = f[i]
    BY <2>2, <2>4
  <2> QED BY <1>2, <2>1, <2>5, <2>6
<1> HIDE DEF n
<1> DEFINE I == {i \in 1..Len(s) : s[i] = Blank}
<1>5. n + 1 \in I /\ \A i \in I : n + 1 <= i
  <2>1. n + 1 \in 1..Len(s)
    BY <1>4
  <2>2. \A i \in 1..Len(s) : n + 1 <= i \/ i \in 1..n
    BY <1>4
  <2> QED BY <1>4, <2>1, <2>2
<1>6. Min(I) = n + 1
  <2>1. \A x \in I : (\A y \in I : x <= y) => x = n + 1
    BY <1>4, <1>5
  <2> QED BY <1>5, <2>1 DEF Min
<1>7. {i \in DOMAIN s : s[i] = " "} = I
  <2>1. DOMAIN s = 1..Len(s)
    BY <1>4, LenProperties DEF Bytes
  <2> QED BY <2>1 DEF Blank
<1> HIDE DEF I
<1>8. FirstBlank(s) = n + 1
  <2>1. FirstBlank(s) = IF I = {} THEN 0 ELSE Min(I)
    BY <1>7 DEF FirstBlank
  <2> QED BY <1>5, <1>6, <2>1
<1>9. SubSeq(s, 1, n) = f
  BY <1>2, <1>3, PartsOfConcat DEF Bytes, n
<1>10. SubSeq(s, n + 2, Len(s)) = r
  <2>1. ThreeBytes(f, blank, r)
    BY <1>1 DEF ThreeBytes
  <2>2. (f \o blank) \o r = s
    BY <1>2, <1>3, <2>1, Regroup
  <2>3. PICK g : g = f \o blank /\ g \in Bytes /\ Len(g) = n + 1
    <3>1. f \o blank \in Bytes /\ Len(f \o blank) = Len(f) + Len(blank)
      BY <1>1, BytesConcat
    <3> QED BY <1>1, <3>1 DEF n
  <2>4. SubSeq(g \o r, Len(g) + 1, Len(g \o r)) = r
    BY <2>3, PartsOfConcat DEF Bytes
  <2>5. Len(g) + 1 = n + 2
    BY <1>4, <2>3
  <2> QED BY <2>2, <2>3, <2>4, <2>5
<1>11. n + 1 > 0 /\ (n + 1) - 1 = n /\ (n + 1) + 1 = n + 2
  BY <1>4
<1>12. Cut(s) = [ok |-> n + 1 > 0, field |-> SubSeq(s, 1, (n + 1) - 1),
                 rest |-> SubSeq(s, (n + 1) + 1, Len(s))]
  BY <1>8 DEF Cut
<1> QED BY <1>0, <1>2, <1>3, <1>9, <1>10, <1>11, <1>12

\* A name in the header has no blank, and stands before one.
NoBlank(f) == f \in Bytes /\ \A i \in 1..Len(f) : f[i] # Blank
Before(f, r) == f \o (<<Blank>> \o r)

\* What Cut makes of it.
LEMMA CutBefore ==
    \A f, r : NoBlank(f) /\ r \in Bytes =>
        /\ Cut(Before(f, r)) = [ok |-> TRUE, field |-> f, rest |-> r]
        /\ Before(f, r) \in Bytes
<1>1. ASSUME NEW f, NEW r, NoBlank(f) /\ r \in Bytes
      PROVE  /\ Cut(Before(f, r)) = [ok |-> TRUE, field |-> f, rest |-> r]
             /\ Before(f, r) \in Bytes
  <2>1. f \in Bytes /\ r \in Bytes /\ \A i \in 1..Len(f) : f[i] # Blank
    BY <1>1 DEF NoBlank
  <2>2. Cut(f \o (<<Blank>> \o r)) = [ok |-> TRUE, field |-> f, rest |-> r]
    BY <2>1, CutIs
  <2>3. Blank \in Byte
    BY Literals DEF Blank
  <2>4. PICK blank \in Bytes : blank = <<Blank>>
    BY <2>3, OneByte
  <2>5. PICK t \in Bytes : t = blank \o r
    BY <2>1, BytesConcat
  <2>6. f \o t \in Bytes
    BY <2>1, BytesConcat
  <2> QED BY <2>2, <2>4, <2>5, <2>6 DEF Before
<1> QED BY <1>1

\* Header takes six of them.
LEMMA HeaderBefore ==
    \A v, t, h, a, p, m, r :
        NoBlank(v) /\ NoBlank(t) /\ NoBlank(h) /\ NoBlank(a) /\ NoBlank(p) /\ NoBlank(m) /\ r \in Bytes =>
        Header(Before(v, Before(t, Before(h, Before(a, Before(p, Before(m, r)))))))
            = [ok |-> TRUE, version |-> v, time |-> t, hostname |-> h, appName |-> a, rest |-> r]
<1>1. ASSUME NEW v, NEW t, NEW h, NEW a, NEW p, NEW m, NEW r,
             NoBlank(v), NoBlank(t), NoBlank(h), NoBlank(a), NoBlank(p), NoBlank(m), r \in Bytes
      PROVE  Header(Before(v, Before(t, Before(h, Before(a, Before(p, Before(m, r)))))))
                = [ok |-> TRUE, version |-> v, time |-> t, hostname |-> h, appName |-> a, rest |-> r]
  <2> DEFINE r6 == r
             r5 == Before(m, r6)
             r4 == Before(p, r5)
             r3 == Before(a, r4)
             r2 == Before(h, r3)
             r1 == Before(t, r2)
             r0 == Before(v, r1)
  <2>6. Cut(r5) = [ok |-> TRUE, field |-> m, rest |-> r6] /\ r5 \in Bytes
    BY <1>1, CutBefore
  <2> HIDE DEF r5
  <2>5. Cut(r4) = [ok |-> TRUE, field |-> p, rest |-> r5] /\ r4 \in Bytes
    BY <1>1, <2>6, CutBefore
  <2> HIDE DEF r4
  <2>4. Cut(r3) = [ok |-> TRUE, field |-> a, rest |-> r4] /\ r3 \in Bytes
    BY <1>1, <2>5, CutBefore
  <2> HIDE DEF r3
  <2>3. Cut(r2) = [ok |-> TRUE, field |-> h, rest |-> r3] /\ r2 \in Bytes
    BY <1>1, <2>4, CutBefore
  <2> HIDE DEF r2
  <2>2. Cut(r1) = [ok |-> TRUE, field |-> t, rest |-> r2] /\ r1 \in Bytes
    BY <1>1, <2>3, CutBefore
  <2> HIDE DEF r1
  <2>1. Cut(r0) = [ok |-> TRUE, field |-> v, rest |-> r1] /\ r0 \in Bytes
    BY <1>1, <2>2, CutBefore
  <2> HIDE DEF r0
  <2> HIDE DEF r6
  <2>a. /\ Cut(r0).ok /\ Cut(r0).field = v /\ Cut(r0).rest = r1
        /\ Cut(r1).ok /\ Cut(r1).field = t /\ Cut(r1).rest = r2
    BY <2>1, <2>2
  <2>b. /\ Cut(r2).ok /\ Cut(r2).field = h /\ Cut(r2).rest = r3
        /\ Cut(r3).ok /\ Cut(r3).field = a /\ Cut(r3).rest = r4
    BY <2>3, <2>4
  <2>c. /\ Cut(r4).ok /\ Cut(r4).rest = r5
        /\ Cut(r5).ok /\ Cut(r5).rest = r6
    BY <2>5, <2>6
  <2>d. /\ Cut(Cut(r0).rest) = Cut(r1)
        /\ Cut(Cut(Cut(r0).rest).rest) = Cut(r2)
        /\ Cut(Cut(Cut(Cut(r0).rest).rest).rest) = Cut(r3)
        /\ Cut(Cut(Cut(Cut(Cut(r0).rest).rest).rest).rest) = Cut(r4)
        /\ Cut(Cut(Cut(Cut(Cut(Cut(r0).rest).rest).rest).rest).rest) = Cut(r5)
    BY <2>a, <2>b, <2>c
  <2>e. Header(r0) =
            [ok |-> \A cut \in {Cut(r0), Cut(r1), Cut(r2), Cut(r3), Cut(r4), Cut(r5)} : cut.ok,
             version  |-> Cut(r0).field, time    |-> Cut(r1).field,
             hostname |-> Cut(r2).field, appName |-> Cut(r3).field,
             rest     |-> Cut(r5).rest]
    BY <2>d DEF Header
  <2>f. (\A cut \in {Cut(r0), Cut(r1), Cut(r2), Cut(r3), Cut(r4), Cut(r5)} : cut.ok) = TRUE
    BY <2>a, <2>b, <2>c
  <2>7. Header(r0) = [ok |-> TRUE, version |-> v, time |-> t, hostname |-> h, appName |-> a, rest |-> r6]
    BY <2>a, <2>b, <2>c, <2>e, <2>f
  <2> QED BY <2>7 DEF r0, r1, r2, r3, r4, r5, r6
<1> QED BY <1>1

\* The parts of a line, from the left and from the right.
AllParts(h, i, b, c, d, s, t) ==
    ThreeBytes(h, i, b) /\ ThreeBytes(c, d, s) /\ t \in Bytes

FromLeft(h, i, b, c, d, s, t) == ((((((h \o i) \o b) \o c) \o d) \o s) \o b) \o t
FromRight(h, i, b, c, d, s, t) == h \o (i \o (b \o (c \o (d \o (s \o (b \o t))))))

\* They are the same line.
LEMMA FromTheRight ==
    \A h, i, b, c, d, s, t : AllParts(h, i, b, c, d, s, t) =>
        /\ FromLeft(h, i, b, c, d, s, t) = FromRight(h, i, b, c, d, s, t)
        /\ s \o (b \o t) \in Bytes /\ c \o (d \o (s \o (b \o t))) \in Bytes
        /\ i \o (b \o (c \o (d \o (s \o (b \o t))))) \in Bytes
<1>1. ASSUME NEW h, NEW i, NEW b, NEW c, NEW d, NEW s, NEW t, AllParts(h, i, b, c, d, s, t)
      PROVE  /\ FromLeft(h, i, b, c, d, s, t) = FromRight(h, i, b, c, d, s, t)
             /\ s \o (b \o t) \in Bytes /\ c \o (d \o (s \o (b \o t))) \in Bytes
             /\ i \o (b \o (c \o (d \o (s \o (b \o t))))) \in Bytes
  <2>1. h \in Bytes
    BY <1>1 DEF AllParts, ThreeBytes
  <2>2. i \in Bytes
    BY <1>1 DEF AllParts, ThreeBytes
  <2>3. b \in Bytes
    BY <1>1 DEF AllParts, ThreeBytes
  <2>4. c \in Bytes
    BY <1>1 DEF AllParts, ThreeBytes
  <2>5. d \in Bytes
    BY <1>1 DEF AllParts, ThreeBytes
  <2>6. s \in Bytes
    BY <1>1 DEF AllParts, ThreeBytes
  <2>7. t \in Bytes
    BY <1>1 DEF AllParts, ThreeBytes
  <2>r7. PICK r7 : r7 = b \o t /\ r7 \in Bytes
    BY <2>3, <2>7, BytesConcat
  <2>r6. PICK r6 : r6 = s \o r7 /\ r6 \in Bytes
    BY <2>6, <2>r7, BytesConcat
  <2>r5. PICK r5 : r5 = d \o r6 /\ r5 \in Bytes
    BY <2>5, <2>r6, BytesConcat
  <2>r4. PICK r4 : r4 = c \o r5 /\ r4 \in Bytes
    BY <2>4, <2>r5, BytesConcat
  <2>r3. PICK r3 : r3 = b \o r4 /\ r3 \in Bytes
    BY <2>3, <2>r4, BytesConcat
  <2>r2. PICK r2 : r2 = i \o r3 /\ r2 \in Bytes
    BY <2>2, <2>r3, BytesConcat
  <2>l2. PICK l2 : l2 = h \o i /\ l2 \in Bytes
    BY <2>1, <2>2, BytesConcat
  <2>l3. PICK l3 : l3 = l2 \o b /\ l3 \in Bytes
    BY <2>3, <2>l2, BytesConcat
  <2>l4. PICK l4 : l4 = l3 \o c /\ l4 \in Bytes
    BY <2>4, <2>l3, BytesConcat
  <2>l5. PICK l5 : l5 = l4 \o d /\ l5 \in Bytes
    BY <2>5, <2>l4, BytesConcat
  <2>l6. PICK l6 : l6 = l5 \o s /\ l6 \in Bytes
    BY <2>6, <2>l5, BytesConcat
  <2>11. (l6 \o b) \o t = l6 \o (b \o t)
    BY <2>3, <2>7, <2>l6, Regroup DEF ThreeBytes
  <2>12. (l5 \o s) \o r7 = l5 \o (s \o r7)
    BY <2>6, <2>r7, <2>l5, Regroup DEF ThreeBytes
  <2>13. (l4 \o d) \o r6 = l4 \o (d \o r6)
    BY <2>5, <2>r6, <2>l4, Regroup DEF ThreeBytes
  <2>14. (l3 \o c) \o r5 = l3 \o (c \o r5)
    BY <2>4, <2>r5, <2>l3, Regroup DEF ThreeBytes
  <2>15. (l2 \o b) \o r4 = l2 \o (b \o r4)
    BY <2>3, <2>r4, <2>l2, Regroup DEF ThreeBytes
  <2>16. (h \o i) \o r3 = h \o (i \o r3)
    BY <2>1, <2>2, <2>r3, Regroup DEF ThreeBytes
  <2>21. (l6 \o b) \o t = l6 \o r7
    BY <2>11, <2>r7
  <2>22. l6 \o r7 = l5 \o r6
    BY <2>12, <2>l6, <2>r6
  <2>23. l5 \o r6 = l4 \o r5
    BY <2>13, <2>l5, <2>r5
  <2>24. l4 \o r5 = l3 \o r4
    BY <2>14, <2>l4, <2>r4
  <2>25. l3 \o r4 = l2 \o r3
    BY <2>15, <2>l3, <2>r3
  <2>26. l2 \o r3 = h \o r2
    BY <2>16, <2>l2, <2>r2
  <2>27. (l6 \o b) \o t = h \o r2
    BY <2>21, <2>22, <2>23, <2>24, <2>25, <2>26
  <2>28. (l6 \o b) \o t = FromLeft(h, i, b, c, d, s, t)
    BY <2>l2, <2>l3, <2>l4, <2>l5, <2>l6 DEF FromLeft
  <2>29. /\ r6 = s \o (b \o t) /\ r4 = c \o (d \o (s \o (b \o t)))
         /\ r2 = i \o (b \o (c \o (d \o (s \o (b \o t)))))
    BY <2>r2, <2>r3, <2>r4, <2>r5, <2>r6, <2>r7
  <2>30. h \o r2 = FromRight(h, i, b, c, d, s, t)
    BY <2>29 DEF FromRight
  <2> QED BY <2>27, <2>28, <2>29, <2>30, <2>r2, <2>r4, <2>r6
<1> QED BY <1>1

One == "1"

\* A name is written without a blank, ...
LEMMA NameFieldBefore ==
    \A s, limit : s \in Bytes /\ limit \in Nat => NoBlank(NameField(s, limit))
BY NameFieldType DEF NoBlank, Blank

\* ... and so is any other byte.
LEMMA SingleBefore ==
    \A x \in Byte : x # Blank => NoBlank(<<x>>)
<1>1. ASSUME NEW x \in Byte, x # Blank PROVE NoBlank(<<x>>)
  <2>1. PICK f : f = <<x>>
    OBVIOUS
  <2>2. f \in Bytes /\ Len(f) = 1 /\ f[1] = x
    BY <2>1, OneByte
  <2>3. \A i \in 1..Len(f) : i = 1
    BY <2>2
  <2>4. NoBlank(f)
    BY <1>1, <2>2, <2>3 DEF NoBlank
  <2> QED BY <2>1, <2>4
<1> QED BY <1>1

\* What Text does to a message leaves it text.
NoBlankParts(e, source) ==
    /\ NoBlank(<<One>>) /\ NoBlank(<<e.time>>) /\ NoBlank(<<Dash>>)
    /\ NoBlank(NameField(source.instance, MaxHostname))
    /\ NoBlank(NameField(source.component, MaxAppName))

\* The parts of a line, each before a blank.
LEMMA LineIs ==
    ASSUME NEW e, NEW source, NEW name, Forwardable(e, source, name), Text(e.message) \in Bytes
    PROVE  LET inst == NameField(source.instance, MaxHostname)
               comp == NameField(source.component, MaxAppName)
               rest == StructuredData(e, name) \o (<<Blank>> \o Text(e.message))
           IN /\ Format(e, source, name).line =
                   Before(<<One>>, Before(<<e.time>>, Before(inst, Before(comp,
                      Before(<<Dash>>, Before(<<Dash>>, rest))))))
              /\ rest \in Bytes /\ NoBlankParts(e, source)
<1>1. PICK i : i = NameField(source.instance, MaxHostname)
  OBVIOUS
<1>2. PICK c : c = NameField(source.component, MaxAppName)
  OBVIOUS
<1>3. PICK s : s = StructuredData(e, name)
  OBVIOUS
<1>4. PICK t : t = Text(e.message)
  OBVIOUS
<1>5. PICK b : b = <<Blank>>
  OBVIOUS
<1>6. PICK h : h = <<One, Blank, e.time, Blank>>
  OBVIOUS
<1>7. PICK d : d = <<Blank, Dash, Blank, Dash, Blank>>
  OBVIOUS
<1>8. PICK dash : dash = <<Dash>>
  OBVIOUS
<1>a. Blank \in Byte /\ Dash \in Byte /\ One \in Byte /\ e.time \in Byte
  BY Literals DEF Blank, Dash, One, Forwardable
<1>b. Dash # Blank /\ One # Blank /\ e.time # Blank
  BY DEF Blank, Dash, One, Forwardable
<1>c. NoBlank(i) /\ NoBlank(c)
  <2>1. MaxHostname \in Nat /\ MaxAppName \in Nat
    BY SyslogLineAssumption
  <2>2. source.instance \in Bytes /\ source.component \in Bytes
    BY DEF Forwardable
  <2> QED BY <1>1, <1>2, <2>1, <2>2, NameFieldBefore
<1>d. NoBlank(<<One>>) /\ NoBlank(<<e.time>>) /\ NoBlank(<<Dash>>)
  BY <1>a, <1>b, SingleBefore
<1>e. ThreeBytes(h, i, b)
  <2>1. i \in Bytes
    BY <1>c DEF NoBlank
  <2>2. b \in Bytes
    BY <1>5, <1>a, OneByte
  <2>3. h \in Bytes
    BY <1>6, <1>a, LongerSeqs DEF Bytes
  <2> QED BY <2>1, <2>2, <2>3 DEF ThreeBytes
<1>f. ThreeBytes(c, d, s)
  <2>1. c \in Bytes
    BY <1>c DEF NoBlank
  <2>2. d \in Bytes
    <3>1. <<Blank, Dash, Blank, Dash>> \o <<Blank>> = d
      BY <1>7, <1>a, Concat5
    <3>2. <<Blank, Dash, Blank, Dash>> \in Bytes /\ <<Blank>> \in Bytes
      BY <1>a, OneByte, LongerSeqs DEF Bytes
    <3>3. PICK x, y : x = <<Blank, Dash, Blank, Dash>> /\ y = <<Blank>>
      OBVIOUS
    <3>4. x \o y \in Bytes
      BY <3>2, <3>3, BytesConcat
    <3> QED BY <3>1, <3>3, <3>4
  <2>3. s \in Bytes
    BY <1>3, ReadsStructuredData DEF Forwardable
  <2> QED BY <2>1, <2>2, <2>3 DEF ThreeBytes
<1>g. AllParts(h, i, b, c, d, s, t)
  BY <1>4, <1>e, <1>f DEF AllParts
<1>h. Format(e, source, name).line = ((((((h \o i) \o b) \o c) \o d) \o s) \o b) \o t
  BY <1>1, <1>2, <1>3, <1>4, <1>5, <1>6, <1>7 DEF Format, Blank, Dash, One
<1>i. /\ Format(e, source, name).line = h \o (i \o (b \o (c \o (d \o (s \o (b \o t))))))
      /\ s \o (b \o t) \in Bytes /\ i \o (b \o (c \o (d \o (s \o (b \o t))))) \in Bytes
  <2>1. ((((((h \o i) \o b) \o c) \o d) \o s) \o b) \o t
           = h \o (i \o (b \o (c \o (d \o (s \o (b \o t))))))
    <3>1. FromLeft(h, i, b, c, d, s, t) = FromRight(h, i, b, c, d, s, t)
      BY <1>g, FromTheRight
    <3> QED BY <3>1 DEF FromLeft, FromRight
  <2>2. /\ s \o (b \o t) \in Bytes /\ i \o (b \o (c \o (d \o (s \o (b \o t))))) \in Bytes
    BY <1>g, FromTheRight
  <2> QED BY <1>h, <2>1, <2>2, Zenon
<1>j. PICK r : r = s \o (b \o t) /\ r \in Bytes
  BY <1>i
<1>k. d \o r = b \o (dash \o (b \o (dash \o (b \o r))))
  BY <1>5, <1>7, <1>8, <1>j, DashesBefore
<1>l. c \o (d \o r) = Before(c, Before(dash, Before(dash, r)))
  BY <1>5, <1>k DEF Before
<1>m. PICK y : y = i \o (b \o (c \o (d \o r))) /\ y \in Bytes
  BY <1>i, <1>j
<1>n. y = Before(i, Before(c, Before(dash, Before(dash, r))))
  BY <1>5, <1>l, <1>m DEF Before
<1>o. h \o y = Before(<<One>>, Before(<<e.time>>, y))
  <2>1. PICK x : x = e.time
    OBVIOUS
  <2>2. x \in Byte /\ y \in Bytes
    BY <1>a, <1>m, <2>1
  <2>a. FourBytes(One, Blank, x, Blank, y)
    BY <1>a, <2>2 DEF FourBytes
  <2>b. FourThen(One, Blank, x, Blank, y) = OneByOne(One, Blank, x, Blank, y)
    BY <2>a, FourBefore
  <2>3. <<One, Blank, x, Blank>> \o y = <<One>> \o (<<Blank>> \o (<<x>> \o (<<Blank>> \o y)))
    BY <2>b DEF FourThen, OneByOne
  <2> QED BY <1>6, <2>1, <2>3 DEF Before
<1>p. Format(e, source, name).line
        = Before(<<One>>, Before(<<e.time>>, Before(i, Before(c, Before(dash, Before(dash, r))))))
  BY <1>i, <1>j, <1>m, <1>n, <1>o
<1>q. NoBlankParts(e, source)
  BY <1>1, <1>2, <1>c, <1>d DEF NoBlankParts
<1> QED BY <1>1, <1>2, <1>3, <1>4, <1>5, <1>8, <1>j, <1>p, <1>q

\* What the receiver makes of a line that the forwarder wrote.
LEMMA ParseOfFormat ==
    ASSUME NEW e, NEW source, NEW name, Forwardable(e, source, name), Text(e.message) \in Bytes
    PROVE  LET m == Parse(Format(e, source, name)) IN
           /\ m.ok /\ m.severity = Severity(e.level)
           /\ m.time = {t \in Stamps : <<e.time>> = <<t>>}
           /\ m.hostname = NilValue(NameField(source.instance, MaxHostname))
           /\ m.appName  = NilValue(NameField(source.component, MaxAppName))
           /\ m.text = NoBreakAtEnd(WithoutBom(Text(e.message)))
<1>1. PICK i : i = NameField(source.instance, MaxHostname)
  OBVIOUS
<1>2. PICK c : c = NameField(source.component, MaxAppName)
  OBVIOUS
<1>4. PICK t : t = Text(e.message)
  OBVIOUS
<1>5. PICK b : b = <<Blank>>
  OBVIOUS
<1>6. PICK r : r = StructuredData(e, name) \o (b \o t)
  OBVIOUS
<1>7. PICK d : d = Format(e, source, name)
  OBVIOUS
<1>8. /\ d.line = Before(<<One>>, Before(<<e.time>>, Before(i, Before(c,
                      Before(<<Dash>>, Before(<<Dash>>, r))))))
      /\ r \in Bytes /\ NoBlankParts(e, source)
  BY <1>1, <1>2, <1>4, <1>5, <1>6, <1>7, LineIs
<1>9. /\ NoBlank(<<One>>) /\ NoBlank(<<e.time>>) /\ NoBlank(<<Dash>>)
      /\ NoBlank(i) /\ NoBlank(c)
  BY <1>1, <1>2, <1>8 DEF NoBlankParts
<1>10. Header(d.line) = [ok |-> TRUE, version |-> <<One>>, time |-> <<e.time>>,
                         hostname |-> i, appName |-> c, rest |-> r]
  <2>1. PICK v, x, dash : v = <<One>> /\ x = <<e.time>> /\ dash = <<Dash>>
    OBVIOUS
  <2>2. /\ NoBlank(v) /\ NoBlank(x) /\ NoBlank(i) /\ NoBlank(c) /\ NoBlank(dash) /\ NoBlank(dash)
        /\ r \in Bytes
    BY <1>8, <1>9, <2>1
  <2>3. Header(Before(v, Before(x, Before(i, Before(c, Before(dash, Before(dash, r)))))))
            = [ok |-> TRUE, version |-> v, time |-> x, hostname |-> i, appName |-> c, rest |-> r]
    BY <2>2, HeaderBefore
  <2>4. d.line = Before(v, Before(x, Before(i, Before(c, Before(dash, Before(dash, r))))))
    BY <1>8, <2>1
  <2> QED BY <2>1, <2>3, <2>4
<1>11. SkipStructuredData(r) = [ok |-> TRUE, rest |-> b \o t]
  <2>1. SkipStructuredData(StructuredData(e, name) \o (<<" ">> \o t))
            = [ok |-> TRUE, rest |-> <<" ">> \o t]
    BY <1>4, SkipWritten DEF Forwardable
  <2> QED BY <1>5, <1>6, <2>1 DEF Blank
<1>A. PICK rest : rest = b \o t
  OBVIOUS
<1>13. rest # <<>> /\ Head(rest) = Blank /\ Tail(rest) = t
  <2>1. b \in Bytes /\ Len(b) = 1 /\ b[1] = Blank
    <3>1. Blank \in Byte
      BY Literals DEF Blank
    <3> QED BY <1>5, <3>1, OneByte
  <2>2. t \in Bytes
    BY <1>4
  <2>3. rest \in Bytes /\ Len(rest) = 1 + Len(t) /\ Len(t) \in Nat
    BY <1>A, <2>1, <2>2, BytesConcat
  <2>4. rest # <<>>
    <3>1. Len(<<>>) = 0
      OBVIOUS
    <3> QED BY <2>3, <3>1
  <2>5. /\ Head(rest) = rest[1] /\ Tail(rest) \in Bytes /\ Len(Tail(rest)) = Len(rest) - 1
        /\ \A k \in 1..Len(Tail(rest)) : Tail(rest)[k] = rest[k + 1]
    BY <2>3, <2>4, HeadAndTail DEF Bytes
  <2>a. \A k \in 1..(Len(b) + Len(t)) : rest[k] = IF k <= Len(b) THEN b[k] ELSE t[k - Len(b)]
    BY <1>A, <2>1, <2>2, ConcatProperties DEF Bytes
  <2>6. \A k \in 1..(1 + Len(t)) : rest[k] = IF k <= 1 THEN b[k] ELSE t[k - 1]
    BY <2>1, <2>a
  <2>7. rest[1] = Blank
    BY <2>1, <2>3, <2>6
  <2>8. Len(Tail(rest)) = Len(t)
    BY <2>3, <2>5
  <2>9. ASSUME NEW k \in 1..Len(t) PROVE Tail(rest)[k] = t[k]
    <3>1. k + 1 \in 1..(1 + Len(t)) /\ ~(k + 1 <= 1) /\ (k + 1) - 1 = k
      BY <2>3
    <3>2. rest[k + 1] = t[k]
      BY <2>6, <3>1
    <3> QED BY <2>5, <2>8, <3>2
  <2>10. Tail(rest) = t
    BY <2>2, <2>5, <2>8, <2>9, SeqEqual DEF Bytes
  <2> QED BY <2>4, <2>5, <2>7, <2>10
<1>14. d.pri = (16 * 8) + Severity(e.level) /\ Severity(e.level) \in 0..7
       /\ d.pri \in 0..191 /\ d.pri % 8 = Severity(e.level)
  <2>1. d.pri = (16 * 8) + Severity(e.level)
    BY <1>7 DEF Format
  <2>2. Severity(e.level) \in 0..7
    BY DEF Severity
  <2>3. \A n \in 0..7 : (16 * 8) + n \in 0..191 /\ ((16 * 8) + n) % 8 = n
    OBVIOUS
  <2> QED BY <2>1, <2>2, <2>3
<1>15. PICK h : h = Header(d.line)
  OBVIOUS
<1>16. PICK sd : sd = SkipStructuredData(h.rest)
  OBVIOUS
<1>17. /\ h.ok /\ h.version = <<"1">> /\ h.time = <<e.time>> /\ h.hostname = i
       /\ h.appName = c /\ sd.ok /\ sd.rest = rest
  BY <1>10, <1>11, <1>A, <1>15, <1>16 DEF One
<1>18. PICK ok, severity, time, hostname, appName, text :
         /\ ok = (/\ d.pri \in 0..191
                  /\ h.ok /\ h.version = <<"1">>
                  /\ sd.ok /\ (sd.rest = <<>> \/ Head(sd.rest) = " "))
         /\ severity = d.pri % 8
         /\ time = {x \in Stamps : h.time = <<x>>}
         /\ hostname = NilValue(h.hostname)
         /\ appName = NilValue(h.appName)
         /\ text = IF sd.rest = <<>> THEN <<>>
                   ELSE NoBreakAtEnd(WithoutBom(Tail(sd.rest)))
  OBVIOUS
<1>19. Parse(d) = [ok |-> ok, severity |-> severity, time |-> time,
                   hostname |-> hostname, appName |-> appName, text |-> text]
  BY <1>15, <1>16, <1>18 DEF Parse
<1>20. /\ Parse(d).ok = ok /\ Parse(d).severity = severity /\ Parse(d).time = time
       /\ Parse(d).hostname = hostname /\ Parse(d).appName = appName /\ Parse(d).text = text
  BY <1>19
<1>21. ok
  <2>1. sd.rest = <<>> \/ Head(sd.rest) = " "
    BY <1>13, <1>17 DEF Blank
  <2> QED BY <1>14, <1>17, <1>18, <2>1
<1>22. text = NoBreakAtEnd(WithoutBom(t))
  BY <1>13, <1>17, <1>18
<1>23. time = {x \in Stamps : <<e.time>> = <<x>>} /\ hostname = NilValue(i) /\ appName = NilValue(c)
  BY <1>17, <1>18
<1>24. severity = Severity(e.level)
  BY <1>14, <1>18
<1> QED BY <1>1, <1>2, <1>4, <1>7, <1>20, <1>21, <1>22, <1>23, <1>24

(***************************************************************************)
(* The text.                                                               *)
(***************************************************************************)

Dot == "."

\* The first n of a text.
LEMMA FirstOf ==
    ASSUME NEW s \in Bytes, NEW n \in Nat, n <= Len(s)
    PROVE  /\ SubSeq(s, 1, n) \in Bytes /\ Len(SubSeq(s, 1, n)) = n
           /\ \A i \in 1..n : SubSeq(s, 1, n)[i] = s[i]
           /\ n = Len(s) => SubSeq(s, 1, n) = s
<1>1. Len(s) \in Nat /\ \A i \in 1..Len(s) : s[i] \in Byte
  BY LenProperties, ElementOfSeq DEF Bytes
<1>2. \A i \in 1..n : s[i] \in Byte
  BY <1>1
<1>3. /\ SubSeq(s, 1, n) \in Seq(Byte) /\ Len(SubSeq(s, 1, n)) = n
      /\ \A i \in 1..n : SubSeq(s, 1, n)[i] = s[i]
  BY <1>2, SubSeqProperties
<1>4. n = Len(s) => SubSeq(s, 1, n) = s
  BY <1>3, SeqEqual DEF Bytes
<1> QED BY <1>3, <1>4 DEF Bytes

\* NoBreakAtEnd takes the line breaks at the end, and nothing else.
LEMMA NoBreakIs ==
    ASSUME NEW s \in Bytes
    PROVE  \E n \in Nat : /\ n <= Len(s) /\ NoBreakAtEnd(s) = SubSeq(s, 1, n)
                          /\ n # 0 => s[n] # Break
                          /\ \A i \in 1..Len(s) : s[i] # Break => i <= n
<1> DEFINE I == {i \in 1..Len(s) : s[i] # Break}
<1>1. Len(s) \in Nat
  BY LenProperties DEF Bytes
<1>2. SelectLastInSeq(s, LAMBDA c : c # Break) = IF I # {} THEN Max(I) ELSE 0
  BY DEF SelectLastInSeq
<1>3. CASE I = {}
  <2>1. NoBreakAtEnd(s) = SubSeq(s, 1, 0)
    BY <1>2, <1>3 DEF NoBreakAtEnd
  <2> QED BY <1>1, <1>3, <2>1
<1>4. CASE I # {}
  <2>1. I \in SUBSET Nat /\ \A x \in I : x <= Len(s)
    BY <1>1
  <2>2. \A i \in 1..Len(s) : s[i] # Break => i \in I
    OBVIOUS
  <2>a. \A i \in I : i \in 1..Len(s) /\ s[i] # Break
    OBVIOUS
  <2> HIDE DEF I
  <2>3. \E x \in I : \A y \in I : x >= y
    BY <1>1, <1>4, <2>1, GreatestNumber
  <2>4. Max(I) \in I /\ \A y \in I : Max(I) >= y
    BY <2>3 DEF Max
  <2>5. NoBreakAtEnd(s) = SubSeq(s, 1, Max(I))
    BY <1>2, <1>4 DEF NoBreakAtEnd
  <2>6. Max(I) \in Nat /\ Max(I) <= Len(s) /\ s[Max(I)] # Break
    BY <2>1, <2>4, <2>a
  <2>7. \A i \in 1..Len(s) : s[i] # Break => i <= Max(I)
    BY <2>1, <2>2, <2>4
  <2> QED BY <2>5, <2>6, <2>7
<1> QED BY <1>3, <1>4

\* A text that does not end in one stays as it is.
LEMMA NoBreakKeeps ==
    ASSUME NEW s \in Bytes, Len(s) # 0, s[Len(s)] # Break
    PROVE  NoBreakAtEnd(s) = s
<1>1. PICK n \in Nat : /\ n <= Len(s) /\ NoBreakAtEnd(s) = SubSeq(s, 1, n)
                       /\ \A i \in 1..Len(s) : s[i] # Break => i <= n
  BY NoBreakIs
<1>2. Len(s) \in Nat /\ Len(s) \in 1..Len(s)
  BY LenProperties DEF Bytes
<1>3. n = Len(s)
  BY <1>1, <1>2
<1> QED BY <1>1, <1>3, FirstOf

\* What is left is as whole as the text was.
Lead == "L"
Trail == "C"
Whole(s) == \A i \in 1..Len(s) : /\ s[i] = Lead => i < Len(s) /\ s[i + 1] = Trail
                                 /\ s[i] = Trail => i > 1 /\ s[i - 1] = Lead

\* The same as WholeCharacters, over indices.
LEMMA WholeIs ==
    ASSUME NEW s \in Bytes
    PROVE  WholeCharacters(s) <=> Whole(s)
<1>1. DOMAIN s = 1..Len(s)
  BY LenProperties DEF Bytes
<1> QED BY <1>1 DEF WholeCharacters, Whole, Lead, Trail

\* A text cut behind anything but the first byte of a character.
LEMMA WholeFirst ==
    ASSUME NEW s \in Bytes, Whole(s), NEW n \in Nat, n <= Len(s),
           n = Len(s) \/ n = 0 \/ s[n] # Lead
    PROVE  Whole(SubSeq(s, 1, n))
<1>1. PICK t : t = SubSeq(s, 1, n) /\ Len(t) = n /\ \A i \in 1..n : t[i] = s[i]
  <2>1. Len(SubSeq(s, 1, n)) = n /\ \A i \in 1..n : SubSeq(s, 1, n)[i] = s[i]
    BY FirstOf
  <2> WITNESS SubSeq(s, 1, n)
  <2> QED BY <2>1
<1>2. Len(s) \in Nat
  BY LenProperties DEF Bytes
<1>3. ASSUME NEW i \in 1..n PROVE /\ t[i] = Lead => i < n /\ t[i + 1] = Trail
                                  /\ t[i] = Trail => i > 1 /\ t[i - 1] = Lead
  <2>1. i \in 1..Len(s) /\ t[i] = s[i]
    BY <1>1, <1>2
  <2>2. ASSUME t[i] = Lead PROVE i < n /\ t[i + 1] = Trail
    <3>1. i < Len(s) /\ s[i + 1] = Trail
      BY <2>1, <2>2 DEF Whole
    <3>2. i # n
      <4> SUFFICES ASSUME i = n PROVE FALSE
        OBVIOUS
      <4>1. s[n] = Lead /\ n # 0 /\ n # Len(s)
        BY <2>1, <2>2, <3>1
      <4> QED BY <4>1
    <3>3. i < n /\ i + 1 \in 1..n
      BY <3>2
    <3> QED BY <1>1, <3>1, <3>3
  <2>3. ASSUME t[i] = Trail PROVE i > 1 /\ t[i - 1] = Lead
    <3>1. i > 1 /\ s[i - 1] = Lead
      BY <2>1, <2>3 DEF Whole
    <3>2. i - 1 \in 1..n
      BY <3>1
    <3> QED BY <1>1, <3>1, <3>2
  <2> QED BY <2>2, <2>3
<1>4. Whole(t)
  BY <1>1, <1>3 DEF Whole
<1> QED BY <1>1, <1>4

\* A cut is before the start of a character.
LEMMA CutAtIs ==
    ASSUME NEW s, NEW limit \in Nat
    PROVE  /\ CutAt(s, limit) \in Nat /\ CutAt(s, limit) <= limit
           /\ CutAt(s, limit) = 0 \/ s[CutAt(s, limit) + 1] # Trail
<1> DEFINE K == {k \in 0..limit : k = 0 \/ s[k + 1] # Trail}
<1>1. CutAt(s, limit) = Max(K)
  BY DEF CutAt, Trail
<1>2. 0 \in K
  OBVIOUS
<1>3. K \in SUBSET Nat /\ K # {} /\ \A x \in K : x <= limit
  BY <1>2
<1>4. \A k \in K : k = 0 \/ s[k + 1] # Trail
  OBVIOUS
<1> HIDE DEF K
<1>5. \E x \in K : \A y \in K : x >= y
  BY <1>3, GreatestNumber
<1>6. Max(K) \in K
  BY <1>5 DEF Max
<1> QED BY <1>1, <1>3, <1>4, <1>6

\* Text that ends in the mark of a cut has it as a suffix.
LEMMA MarkAtEnd ==
    ASSUME NEW w \in Bytes, NEW n \in Nat, Len(w) = n + 3,
           w[n + 1] = Dot, w[n + 2] = Dot, w[n + 3] = Dot
    PROVE  IsSuffix(Truncated, w)
<1>1. PICK t : t = Truncated /\ t \in Bytes /\ Len(t) = 3 /\ t[1] = Dot /\ t[2] = Dot /\ t[3] = Dot
  <2>1. Dot \in Byte
    BY Literals DEF Dot
  <2>2. <<Dot, Dot, Dot>> \in Bytes
    BY <2>1, LongerSeqs DEF Bytes
  <2>3. Truncated = <<Dot, Dot, Dot>>
    BY DEF Truncated, Dot
  <2> QED BY <2>2, <2>3
<1>2. PICK r : r = Reverse(t) /\ r \in Bytes /\ Len(r) = 3 /\ \A i \in 1..3 : r[i] = Dot
  <2> DEFINE f == [i \in 1..3 |-> t[(3 - i) + 1]]
  <2>1. Reverse(t) = f
    BY <1>1 DEF Reverse
  <2>2. \A i \in 1..3 : (3 - i) + 1 \in 1..3
    OBVIOUS
  <2>3. \A i \in 1..3 : t[i] = Dot
    BY <1>1
  <2>4. \A i \in 1..3 : f[i] = Dot
    BY <2>2, <2>3
  <2>5. f \in [1..3 -> Byte]
    <3>1. Dot \in Byte
      BY Literals DEF Dot
    <3> QED BY <2>4, <3>1
  <2> HIDE DEF f
  <2>6. f \in Bytes /\ Len(f) = 3
    BY <2>5, FunctionIsSeq DEF Bytes
  <2> QED BY <2>1, <2>4, <2>6
<1>3. PICK u : u = Reverse(w) /\ u \in Bytes /\ Len(u) = n + 3 /\ \A i \in 1..3 : u[i] = Dot
  <2> DEFINE f == [i \in 1..(n + 3) |-> w[((n + 3) - i) + 1]]
  <2>1. Reverse(w) = f
    BY DEF Reverse
  <2>2. \A i \in 1..(n + 3) : ((n + 3) - i) + 1 \in 1..Len(w)
    OBVIOUS
  <2>3. \A i \in 1..Len(w) : w[i] \in Byte
    BY ElementOfSeq DEF Bytes
  <2>4. f \in [1..(n + 3) -> Byte]
    BY <2>2, <2>3
  <2>5. ASSUME NEW i \in 1..3 PROVE f[i] = Dot
    <3>1. i \in 1..(n + 3) /\ ((n + 3) - i) + 1 \in {n + 1, n + 2, n + 3}
      OBVIOUS
    <3>2. f[i] = w[((n + 3) - i) + 1]
      BY <3>1
    <3> QED BY <3>1, <3>2
  <2> HIDE DEF f
  <2>6. f \in Bytes /\ Len(f) = n + 3
    BY <2>4, FunctionIsSeq DEF Bytes
  <2> QED BY <2>1, <2>5, <2>6
<1>4. SubSeq(r, 1, 3) = SubSeq(u, 1, 3)
  <2>1. /\ SubSeq(r, 1, 3) \in Bytes /\ Len(SubSeq(r, 1, 3)) = 3
        /\ \A i \in 1..3 : SubSeq(r, 1, 3)[i] = r[i]
    <3>1. 3 \in Nat /\ 3 <= Len(r)
      BY <1>2
    <3> QED BY <1>2, <3>1, FirstOf
  <2>2. /\ SubSeq(u, 1, 3) \in Bytes /\ Len(SubSeq(u, 1, 3)) = 3
        /\ \A i \in 1..3 : SubSeq(u, 1, 3)[i] = u[i]
    <3>1. 3 \in Nat /\ 3 <= Len(u)
      BY <1>3
    <3> QED BY <1>3, <3>1, FirstOf
  <2>3. \A i \in 1..3 : SubSeq(r, 1, 3)[i] = SubSeq(u, 1, 3)[i]
    BY <1>2, <1>3, <2>1, <2>2
  <2> QED BY <2>1, <2>2, <2>3, SeqEqual DEF Bytes
<1>5. IsPrefix(r, u)
  BY <1>2, <1>3, <1>4 DEF IsPrefix
<1> QED BY <1>1, <1>2, <1>3, <1>5 DEF IsSuffix

Shifted(w, s, o) ==
    /\ Len(w) = Len(s) - o /\ \A i \in 1..(Len(s) - o) : w[i] = s[i + o]

\* A byte order mark is taken from the start, and only there.
LEMMA WithoutBomIs ==
    ASSUME NEW s \in Bytes
    PROVE  /\ WithoutBom(s) \in Bytes
           /\ s = <<>> => WithoutBom(s) = s
           /\ s # <<>> /\ s[1] # Bom => WithoutBom(s) = s
           /\ s # <<>> /\ s[1] = Bom => Shifted(WithoutBom(s), s, 1)
<1>1. CASE s = <<>>
  BY <1>1 DEF WithoutBom
<1>2. CASE s # <<>>
  <2>1. /\ Head(s) = s[1] /\ Tail(s) \in Bytes /\ Len(Tail(s)) = Len(s) - 1
        /\ \A i \in 1..Len(Tail(s)) : Tail(s)[i] = s[i + 1]
    BY <1>2, HeadAndTail DEF Bytes
  <2>2. CASE s[1] = Bom
    <3>1. WithoutBom(s) = Tail(s)
      BY <1>2, <2>1, <2>2 DEF WithoutBom
    <3> QED BY <1>2, <2>1, <2>2, <3>1 DEF Shifted
  <2>3. CASE s[1] # Bom
    <3>1. WithoutBom(s) = s
      BY <1>2, <2>1, <2>3 DEF WithoutBom
    <3> QED BY <1>2, <2>3, <3>1
  <2> QED BY <2>2, <2>3
<1> QED BY <1>1, <1>2

\* A byte order mark is not part of a character of two bytes.
LEMMA WholeWithoutBom ==
    ASSUME NEW s \in Bytes, Whole(s)
    PROVE  Whole(WithoutBom(s))
<1>1. CASE s # <<>> /\ s[1] = Bom
  <2>1. PICK w : w = WithoutBom(s) /\ Shifted(w, s, 1)
    BY <1>1, WithoutBomIs
  <2>2. Len(s) \in Nat /\ Len(s) # 0
    BY <1>1, LenProperties, EmptySeq DEF Bytes
  <2>3. s[1] # Lead
    BY <1>1 DEF Lead, Bom
  <2>4. ASSUME NEW i \in 1..Len(w)
        PROVE  /\ w[i] = Lead => i < Len(w) /\ w[i + 1] = Trail
               /\ w[i] = Trail => i > 1 /\ w[i - 1] = Lead
    <3>1. /\ i + 1 \in 1..Len(s) /\ i \in 1..(Len(s) - 1) /\ Len(w) = Len(s) - 1
          /\ w[i] = s[i + 1]
      BY <2>1, <2>2 DEF Shifted
    <3>2. /\ s[i + 1] = Lead => i + 1 < Len(s) /\ s[(i + 1) + 1] = Trail
          /\ s[i + 1] = Trail => i + 1 > 1 /\ s[(i + 1) - 1] = Lead
      BY <3>1 DEF Whole
    <3>3. ASSUME w[i] = Lead PROVE i < Len(w) /\ w[i + 1] = Trail
      <4>1. i + 1 < Len(s) /\ s[(i + 1) + 1] = Trail
        BY <3>1, <3>2, <3>3
      <4>2. i + 1 \in 1..(Len(s) - 1) /\ i < Len(w)
        BY <2>2, <3>1, <4>1
      <4>3. w[i + 1] = s[(i + 1) + 1]
        BY <2>1, <4>2 DEF Shifted
      <4> QED BY <4>1, <4>2, <4>3
    <3>4. ASSUME w[i] = Trail PROVE i > 1 /\ w[i - 1] = Lead
      <4>1. s[(i + 1) - 1] = Lead /\ (i + 1) - 1 = i
        BY <3>1, <3>2, <3>4
      <4>2. s[i] = Lead
        BY <4>1
      <4>3. i # 1
        BY <2>3, <4>2
      <4>4. i - 1 \in 1..(Len(s) - 1) /\ (i - 1) + 1 = i /\ i > 1
        BY <3>1, <4>3
      <4>5. w[i - 1] = s[(i - 1) + 1]
        BY <2>1, <4>4 DEF Shifted
      <4> QED BY <4>2, <4>4, <4>5
    <3> QED BY <3>3, <3>4
  <2> QED BY <2>1, <2>4 DEF Whole
<1>2. CASE ~(s # <<>> /\ s[1] = Bom)
  BY <1>2, WithoutBomIs
<1> QED BY <1>1, <1>2

Marked(t, p) ==
    /\ Len(t) = Len(p) + 3 /\ \A i \in 1..Len(p) : t[i] = p[i]
    /\ t[Len(p) + 1] = Dot /\ t[Len(p) + 2] = Dot /\ t[Len(p) + 3] = Dot

\* Appending the mark of a cut.
LEMMA MarkedIs ==
    ASSUME NEW p \in Bytes
    PROVE  p \o Truncated \in Bytes /\ Marked(p \o Truncated, p)
<1>1. PICK t : t = Truncated /\ t \in Bytes /\ Len(t) = 3 /\ t[1] = Dot /\ t[2] = Dot /\ t[3] = Dot
  <2>1. Dot \in Byte
    BY Literals DEF Dot
  <2>2. <<Dot, Dot, Dot>> \in Bytes
    BY <2>1, LongerSeqs DEF Bytes
  <2>3. Truncated = <<Dot, Dot, Dot>>
    BY DEF Truncated, Dot
  <2> QED BY <2>2, <2>3
<1>2. PICK u : u = p \o t
  OBVIOUS
<1> DEFINE n == Len(p)
<1>3. u \in Bytes /\ Len(u) = n + Len(t) /\ n \in Nat
  BY <1>1, <1>2, BytesConcat
<1>4. \A i \in 1..(n + Len(t)) : u[i] = IF i <= n THEN p[i] ELSE t[i - n]
  BY <1>1, <1>2, ConcatProperties DEF Bytes
<1>5. \A i \in 1..n : u[i] = p[i]
  BY <1>1, <1>3, <1>4
<1>6. /\ n + 1 \in 1..(n + Len(t)) /\ ~(n + 1 <= n) /\ (n + 1) - n = 1
      /\ n + 2 \in 1..(n + Len(t)) /\ ~(n + 2 <= n) /\ (n + 2) - n = 2
      /\ n + 3 \in 1..(n + Len(t)) /\ ~(n + 3 <= n) /\ (n + 3) - n = 3
  BY <1>1, <1>3
<1>7. u[n + 1] = t[1] /\ u[n + 2] = t[2] /\ u[n + 3] = t[3]
  BY <1>4, <1>6
<1> QED BY <1>1, <1>2, <1>3, <1>5, <1>7 DEF Marked

\* The mark cuts nothing in half.
LEMMA WholeMarked ==
    ASSUME NEW p \in Bytes, Whole(p), NEW t \in Bytes, Marked(t, p)
    PROVE  Whole(t)
<1> DEFINE n == Len(p)
<1>1. n \in Nat
  BY LenProperties DEF Bytes
<1>2. Len(t) = n + 3 /\ (\A i \in 1..n : t[i] = p[i])
      /\ t[n + 1] = Dot /\ t[n + 2] = Dot /\ t[n + 3] = Dot
  BY DEF Marked
<1>3. Dot # Lead /\ Dot # Trail
  BY DEF Dot, Lead, Trail
<1>4. ASSUME NEW i \in 1..Len(t)
      PROVE  /\ t[i] = Lead => i < Len(t) /\ t[i + 1] = Trail
             /\ t[i] = Trail => i > 1 /\ t[i - 1] = Lead
  <2>1. CASE i \in 1..n
    <3>1. t[i] = p[i]
      BY <1>2, <2>1
    <3>2. /\ p[i] = Lead => i < n /\ p[i + 1] = Trail
          /\ p[i] = Trail => i > 1 /\ p[i - 1] = Lead
      BY <2>1 DEF Whole
    <3>3. ASSUME t[i] = Lead PROVE i < Len(t) /\ t[i + 1] = Trail
      <4>1. i < n /\ p[i + 1] = Trail
        BY <3>1, <3>2, <3>3
      <4>2. i + 1 \in 1..n
        BY <1>1, <4>1
      <4> QED BY <1>1, <1>2, <4>1, <4>2
    <3>4. ASSUME t[i] = Trail PROVE i > 1 /\ t[i - 1] = Lead
      <4>1. i > 1 /\ p[i - 1] = Lead
        BY <3>1, <3>2, <3>4
      <4>2. i - 1 \in 1..n
        BY <1>1, <2>1, <4>1
      <4> QED BY <1>2, <4>1, <4>2
    <3> QED BY <3>3, <3>4
  <2>2. CASE i \notin 1..n
    <3>1. i \in {n + 1, n + 2, n + 3}
      BY <1>1, <1>2, <2>2
    <3>2. t[i] = Dot
      BY <1>2, <3>1
    <3> QED BY <1>3, <3>2
  <2> QED BY <2>1, <2>2
<1> QED BY <1>4 DEF Whole

\* What agrees byte by byte is a prefix.
LEMMA PrefixIs ==
    ASSUME NEW w \in Bytes, NEW v \in Bytes, NEW n \in Nat, n <= Len(w), n <= Len(v),
           \A i \in 1..n : w[i] = v[i]
    PROVE  IsPrefix(SubSeq(w, 1, n), v)
<1>1. PICK a : a = SubSeq(w, 1, n) /\ a \in Bytes /\ Len(a) = n /\ \A i \in 1..n : a[i] = w[i]
  <2>1. /\ SubSeq(w, 1, n) \in Bytes /\ Len(SubSeq(w, 1, n)) = n
        /\ \A i \in 1..n : SubSeq(w, 1, n)[i] = w[i]
    BY FirstOf
  <2> WITNESS SubSeq(w, 1, n)
  <2> QED BY <2>1
<1>2. PICK b : b = SubSeq(v, 1, n) /\ b \in Bytes /\ Len(b) = n /\ \A i \in 1..n : b[i] = v[i]
  <2>1. /\ SubSeq(v, 1, n) \in Bytes /\ Len(SubSeq(v, 1, n)) = n
        /\ \A i \in 1..n : SubSeq(v, 1, n)[i] = v[i]
    BY FirstOf
  <2> WITNESS SubSeq(v, 1, n)
  <2> QED BY <2>1
<1>3. a = b
  BY <1>1, <1>2, SeqEqual DEF Bytes
<1>4. SubSeq(a, 1, n) = a
  BY <1>1, FirstOf
<1>5. IsPrefix(a, v)
  BY <1>1, <1>2, <1>3, <1>4 DEF IsPrefix
<1> QED BY <1>1, <1>5

\* What is left of a text that was cut at k and marked.
LEMMA CutText ==
    ASSUME NEW m \in Bytes, NEW k \in Nat, k <= Len(m),
           NEW t \in Bytes, Marked(t, SubSeq(m, 1, k))
    PROVE  LET w == WithoutBom(t) IN
           /\ Len(w) <= k + 3
           /\ NoBreakAtEnd(w) = w
           /\ IsSuffix(Truncated, w)
           /\ IsPrefix(SubSeq(w, 1, Len(w) - 3), WithoutBom(m))
<1>1. PICK p : p = SubSeq(m, 1, k) /\ p \in Bytes /\ Len(p) = k /\ \A i \in 1..k : p[i] = m[i]
  <2>1. /\ SubSeq(m, 1, k) \in Bytes /\ Len(SubSeq(m, 1, k)) = k
        /\ \A i \in 1..k : SubSeq(m, 1, k)[i] = m[i]
    BY FirstOf
  <2> WITNESS SubSeq(m, 1, k)
  <2> QED BY <2>1
<1>2. /\ Len(t) = k + 3 /\ (\A i \in 1..k : t[i] = m[i])
      /\ t[k + 1] = Dot /\ t[k + 2] = Dot /\ t[k + 3] = Dot
  BY <1>1 DEF Marked
<1>3. PICK w : w = WithoutBom(t) /\ w \in Bytes
  BY WithoutBomIs
<1>4. PICK v : v = WithoutBom(m) /\ v \in Bytes
  BY WithoutBomIs
<1>5. t # <<>> /\ Dot # Bom /\ Dot # Break
  <2>1. Len(<<>>) = 0
    OBVIOUS
  <2> QED BY <1>2, <2>1 DEF Dot, Bom, Break
<1>6. Len(m) \in Nat
  BY LenProperties DEF Bytes
<1>7. \E n \in Nat : /\ n <= k /\ Len(w) = n + 3 /\ n <= Len(v)
                     /\ w[n + 1] = Dot /\ w[n + 2] = Dot /\ w[n + 3] = Dot
                     /\ \A i \in 1..n : w[i] = v[i]
  <2>1. CASE t[1] = Bom
    <3>1. k # 0
      <4> SUFFICES ASSUME k = 0 PROVE FALSE
        OBVIOUS
      <4>1. k + 1 = 1
        OBVIOUS
      <4>2. t[1] = Dot
        BY <1>2, <4>1
      <4> QED BY <1>5, <2>1, <4>2
    <3>2. 1 \in 1..k /\ m # <<>>
      <4>1. Len(<<>>) = 0
        OBVIOUS
      <4>2. Len(m) # 0
        BY <1>6, <3>1
      <4> QED BY <3>1, <4>1, <4>2
    <3>3. m[1] = Bom
      BY <1>2, <2>1, <3>2
    <3>4. Shifted(w, t, 1) /\ Shifted(v, m, 1)
      BY <1>3, <1>4, <1>5, <2>1, <3>2, <3>3, WithoutBomIs
    <3>5. Len(w) = k + 2 /\ \A i \in 1..(k + 2) : w[i] = t[i + 1]
      <4>1. Len(w) = (k + 3) - 1 /\ \A i \in 1..((k + 3) - 1) : w[i] = t[i + 1]
        BY <1>2, <3>4 DEF Shifted
      <4>2. (k + 3) - 1 = k + 2
        OBVIOUS
      <4> QED BY <4>1, <4>2
    <3>6. Len(v) = Len(m) - 1 /\ \A i \in 1..(Len(m) - 1) : v[i] = m[i + 1]
      BY <3>4 DEF Shifted
    <3>7. PICK n \in Nat : n = k - 1 /\ n + 1 = k
      BY <3>1
    <3>8. ASSUME NEW i \in 1..n PROVE w[i] = v[i]
      <4>1. i \in 1..(k + 2) /\ i \in 1..(Len(m) - 1) /\ i + 1 \in 1..k
        BY <1>6, <3>7
      <4>2. w[i] = t[i + 1] /\ v[i] = m[i + 1] /\ t[i + 1] = m[i + 1]
        BY <1>2, <3>5, <3>6, <4>1
      <4> QED BY <4>2
    <3>9. w[k] = Dot /\ w[k + 1] = Dot /\ w[k + 2] = Dot
      <4>1. k \in 1..(k + 2) /\ k + 1 \in 1..(k + 2) /\ k + 2 \in 1..(k + 2)
            /\ (k + 1) + 1 = k + 2 /\ (k + 2) + 1 = k + 3
        BY <3>1
      <4>2. w[k] = t[k + 1] /\ w[k + 1] = t[(k + 1) + 1] /\ w[k + 2] = t[(k + 2) + 1]
        BY <3>5, <4>1
      <4> QED BY <1>2, <4>1, <4>2
    <3>10. n <= k /\ Len(w) = n + 3 /\ n <= Len(v) /\ n + 2 = k + 1 /\ n + 3 = k + 2
      BY <1>6, <3>5, <3>6, <3>7
    <3>11. w[n + 1] = Dot /\ w[n + 2] = Dot /\ w[n + 3] = Dot
      BY <3>7, <3>9, <3>10
    <3> QED BY <3>8, <3>10, <3>11
  <2>2. CASE t[1] # Bom
    <3>1. w = t
      BY <1>3, <1>5, <2>2, WithoutBomIs
    <3>2. CASE k = 0
      <4>1. Len(v) \in Nat
        BY <1>4, LenProperties DEF Bytes
      <4>2. \A i \in 1..0 : w[i] = v[i]
        OBVIOUS
      <4> QED BY <1>2, <3>1, <3>2, <4>1, <4>2
    <3>3. CASE k # 0
      <4>1. 1 \in 1..k /\ m # <<>>
        <5>1. Len(<<>>) = 0
          OBVIOUS
        <5>2. Len(m) # 0
          BY <1>6, <3>3
        <5> QED BY <3>3, <5>1, <5>2
      <4>2. m[1] # Bom
        BY <1>2, <2>2, <4>1
      <4>3. v = m
        BY <1>4, <4>1, <4>2, WithoutBomIs
      <4>4. \A i \in 1..k : w[i] = v[i]
        BY <1>2, <3>1, <4>3
      <4> QED BY <1>2, <3>1, <4>3, <4>4
    <3> QED BY <3>2, <3>3
  <2> QED BY <2>1, <2>2
<1>8. PICK n \in Nat : /\ n <= k /\ Len(w) = n + 3 /\ n <= Len(v)
                       /\ w[n + 1] = Dot /\ w[n + 2] = Dot /\ w[n + 3] = Dot
                       /\ \A i \in 1..n : w[i] = v[i]
  BY <1>7
<1>9. NoBreakAtEnd(w) = w
  <2>1. Len(w) # 0 /\ w[Len(w)] # Break
    BY <1>5, <1>8
  <2> QED BY <1>3, <2>1, NoBreakKeeps
<1>10. IsSuffix(Truncated, w)
  BY <1>3, <1>8, MarkAtEnd
<1>11. IsPrefix(SubSeq(w, 1, n), v)
  <2>1. n <= Len(w)
    BY <1>8
  <2> QED BY <1>3, <1>4, <1>8, <2>1, PrefixIs
<1>A. Len(w) - 3 = n /\ Len(w) <= k + 3
  BY <1>8
<1> QED BY <1>3, <1>4, <1>9, <1>10, <1>11, <1>A

\* The text that arrives: all of the message, or whole characters of it and the mark.
LEMMA TextReadBack ==
    ASSUME NEW s \in Bytes
    PROVE  LET message == WithoutBom(NoBreakAtEnd(s))
               text    == NoBreakAtEnd(WithoutBom(Text(s)))
           IN /\ Text(s) \in Bytes
              /\ \/ text = NoBreakAtEnd(message)
                 \/ /\ Len(s) > MaxText
                    /\ Len(text) <= MaxText
                    /\ WholeCharacters(s) => WholeCharacters(text)
                    /\ IsSuffix(Truncated, text)
                    /\ IsPrefix(SubSeq(text, 1, Len(text) - 3), message)
<1>1. PICK m : m = NoBreakAtEnd(s)
  OBVIOUS
<1>2. PICK n \in Nat : /\ n <= Len(s) /\ m = SubSeq(s, 1, n)
                       /\ n # 0 => s[n] # Break
                       /\ \A i \in 1..Len(s) : s[i] # Break => i <= n
  BY <1>1, NoBreakIs
<1>3. m \in Bytes /\ Len(m) = n /\ \A i \in 1..n : m[i] = s[i]
  BY <1>2, FirstOf
<1>4. Len(s) \in Nat
  BY LenProperties DEF Bytes
<1>5. CASE Len(m) <= MaxText
  <2>1. Text(s) = m
    BY <1>1, <1>5 DEF Text
  <2> QED BY <1>1, <1>3, <2>1
<1>6. CASE ~(Len(m) <= MaxText)
  <2>1. MaxText \in Nat /\ MaxText >= 3
    <3>1. Len(Truncated) = 3
      BY DEF Truncated
    <3> QED BY <3>1, SyslogLineAssumption
  <2>2. PICK k : k = CutAt(m, MaxText - Len(Truncated))
    OBVIOUS
  <2>3. k \in Nat /\ k + 3 <= MaxText /\ (k = 0 \/ m[k + 1] # Trail)
    <3>1. Len(Truncated) = 3
      BY DEF Truncated
    <3>2. MaxText - Len(Truncated) \in Nat
      BY <2>1, <3>1
    <3>3. k \in Nat /\ k <= MaxText - Len(Truncated) /\ (k = 0 \/ m[k + 1] # Trail)
      BY <2>2, <3>2, CutAtIs
    <3> QED BY <2>1, <3>1, <3>3
  <2>4. k + 1 <= Len(m) /\ k <= Len(m) /\ Len(s) > MaxText
    BY <1>2, <1>3, <1>4, <1>6, <2>1, <2>3
  <2>5. PICK p : p = SubSeq(m, 1, k) /\ p \in Bytes /\ Len(p) = k /\ \A i \in 1..k : p[i] = m[i]
    <3>1. m \in Bytes /\ k \in Nat /\ k <= Len(m)
      BY <1>3, <2>3, <2>4
    <3>2. /\ SubSeq(m, 1, k) \in Bytes /\ Len(SubSeq(m, 1, k)) = k
          /\ \A i \in 1..k : SubSeq(m, 1, k)[i] = m[i]
      BY <3>1, FirstOf
    <3> QED BY <3>2
  <2>6. PICK t : t = p \o Truncated /\ t \in Bytes /\ Marked(t, p)
    BY <2>5, MarkedIs
  <2>7. Text(s) = t
    BY <1>1, <1>6, <2>2, <2>5, <2>6 DEF Text
  <2>8. PICK w : w = WithoutBom(t) /\ w \in Bytes
    BY <2>6, WithoutBomIs
  <2>9. /\ Len(w) <= k + 3 /\ NoBreakAtEnd(w) = w /\ IsSuffix(Truncated, w)
        /\ IsPrefix(SubSeq(w, 1, Len(w) - 3), WithoutBom(m))
    BY <1>3, <2>3, <2>4, <2>5, <2>6, <2>8, CutText
  <2>10. Len(w) <= MaxText
    <3>1. Len(w) \in Nat
      BY <2>8, LenProperties DEF Bytes
    <3> QED BY <2>1, <2>3, <2>9, <3>1
  <2>11. ASSUME WholeCharacters(s) PROVE WholeCharacters(w)
    <3>1. Whole(s)
      BY <2>11, WholeIs
    <3>2. Whole(m)
      <4>1. n = Len(s) \/ n = 0 \/ s[n] # Lead
        <5> SUFFICES ASSUME n # Len(s), n # 0, s[n] = Lead PROVE FALSE
          OBVIOUS
        <5>1. n \in 1..Len(s) /\ n + 1 \in 1..Len(s)
          BY <1>2, <1>4
        <5>2. s[n + 1] = Trail
          BY <3>1, <5>1 DEF Whole
        <5>3. s[n + 1] # Break
          BY <5>2 DEF Trail, Break
        <5> QED BY <1>2, <5>1, <5>3
      <4> QED BY <1>2, <3>1, <4>1, WholeFirst
    <3>3. Whole(p)
      <4>1. k = 0 \/ m[k] # Lead
        <5> SUFFICES ASSUME k # 0, m[k] = Lead PROVE FALSE
          OBVIOUS
        <5>1. k \in 1..Len(m)
          BY <1>3, <2>3, <2>4
        <5>2. m[k + 1] = Trail
          BY <3>2, <5>1 DEF Whole
        <5> QED BY <2>3, <5>2
      <4> QED BY <1>3, <2>3, <2>4, <2>5, <3>2, <4>1, WholeFirst
    <3>4. Whole(t)
      BY <2>5, <2>6, <3>3, WholeMarked
    <3>5. Whole(w)
      BY <2>6, <2>8, <3>4, WholeWithoutBom
    <3> QED BY <2>8, <3>5, WholeIs
  <2>12. NoBreakAtEnd(WithoutBom(Text(s))) = w
    BY <2>7, <2>8, <2>9
  <2>13. WithoutBom(NoBreakAtEnd(s)) = WithoutBom(m)
    BY <1>1
  <2> QED BY <2>4, <2>6, <2>7, <2>9, <2>10, <2>11, <2>12, <2>13
<1> QED BY <1>5, <1>6

(***************************************************************************)
(* The sources table.                                                      *)
(***************************************************************************)

Table == [id : Ids, version : {"empty", "announced"}]

\* Ids are given out in order, and no two sources share one.
TableOK ==
    /\ sources \in [DOMAIN sources -> Table]
    /\ IsFiniteSet(DOMAIN sources)
    /\ \A key \in DOMAIN sources : sources[key].id <= Cardinality(DOMAIN sources)
    /\ \A k, l \in DOMAIN sources : sources[k].id = sources[l].id => k = l

\* What an upsert does to the table: the row of the key, and no other.
LEMMA UpsertedEffect ==
    ASSUME TableOK, NEW key, NEW v \in {"empty", "announced"}
    PROVE  /\ DOMAIN Upserted(key, v) = DOMAIN sources \cup {key}
           /\ Upserted(key, v) \in [DOMAIN Upserted(key, v) -> Table]
           /\ \A k \in DOMAIN sources : Upserted(key, v)[k].id = sources[k].id
           /\ \A k \in DOMAIN sources \ {key} : Upserted(key, v)[k] = sources[k]
           /\ key \notin DOMAIN sources =>
                Upserted(key, v)[key].id = Cardinality(DOMAIN sources) + 1
           /\ v = "announced" => Upserted(key, v)[key].version = "announced"
<1>1. Cardinality(DOMAIN sources) \in Nat
  BY FS_CardinalityType DEF TableOK
<1>2. Cardinality(DOMAIN sources) + 1 \in Ids
  BY <1>1 DEF Ids
<1>3. CASE key \in DOMAIN sources
  <2> DEFINE row == [sources[key] EXCEPT !.version = v]
  <2>1. sources[key] \in Table
    BY <1>3 DEF TableOK
  <2>2. row \in Table /\ row.id = sources[key].id /\ row.version = v
    BY <2>1 DEF Table
  <2>3. Upserted(key, v) = [sources EXCEPT ![key] = row]
    BY <1>3 DEF Upserted
  <2> HIDE DEF row
  <2> QED
    BY <1>3, <2>2, <2>3 DEF TableOK
<1>4. CASE key \notin DOMAIN sources
  <2> DEFINE row == [id |-> Cardinality(DOMAIN sources) + 1, version |-> v]
  <2>1. row \in Table /\ row.id = Cardinality(DOMAIN sources) + 1 /\ row.version = v
    BY <1>2 DEF Table
  <2>2. Upserted(key, v) = [k \in DOMAIN sources \cup {key} |->
                              IF k = key THEN row ELSE sources[k]]
    BY <1>4 DEF Upserted, Put
  <2> HIDE DEF row
  <2> QED
    BY <1>4, <2>1, <2>2 DEF TableOK
<1> QED
  BY <1>3, <1>4

\* Hence no two sources get one id.
LEMMA TableUpserted ==
    ASSUME TableOK, NEW key, NEW v \in {"empty", "announced"}, sources' = Upserted(key, v)
    PROVE  TableOK'
<1> DEFINE D == DOMAIN sources
<1>1. IsFiniteSet(D) /\ Cardinality(D) \in Nat
  BY FS_CardinalityType DEF TableOK
<1>2. DOMAIN sources' = D \cup {key} /\ sources' \in [DOMAIN sources' -> Table]
  BY UpsertedEffect
<1>3. /\ IsFiniteSet(DOMAIN sources')
      /\ Cardinality(DOMAIN sources') = IF key \in D THEN Cardinality(D) ELSE Cardinality(D) + 1
  BY <1>1, <1>2, FS_AddElement
<1>4. \A k \in D : sources'[k].id = sources[k].id /\ sources[k].id \in Nat
                   /\ sources[k].id <= Cardinality(D)
  <2> SUFFICES ASSUME NEW k \in D
               PROVE  sources'[k].id = sources[k].id /\ sources[k].id \in Nat
                      /\ sources[k].id <= Cardinality(D)
    OBVIOUS
  <2>1. sources'[k].id = sources[k].id
    BY UpsertedEffect
  <2>2. sources[k] \in Table /\ sources[k].id <= Cardinality(D)
    BY DEF TableOK
  <2>3. sources[k].id \in Nat
    BY <2>2 DEF Table, Ids
  <2> QED
    BY <2>1, <2>2, <2>3
<1>5. key \notin D => sources'[key].id = Cardinality(D) + 1
  BY UpsertedEffect
<1>6. \A k \in DOMAIN sources' : sources'[k].id <= Cardinality(DOMAIN sources')
  BY <1>1, <1>2, <1>3, <1>4, <1>5
<1>7. ASSUME NEW k \in DOMAIN sources', NEW l \in DOMAIN sources',
             sources'[k].id = sources'[l].id
      PROVE  k = l
  <2>1. k \in D /\ l \in D => k = l
    BY <1>4, <1>7 DEF TableOK
  <2>2. ~(k \in D /\ l \notin D) /\ ~(l \in D /\ k \notin D)
    BY <1>1, <1>2, <1>4, <1>5, <1>7
  <2> QED
    BY <1>2, <2>1, <2>2
<1> QED
  BY <1>2, <1>3, <1>6, <1>7 DEF TableOK

(***************************************************************************)
(* The cache over it, and the message between sourceID and Add.            *)
(***************************************************************************)

CacheOK == /\ IsFiniteSet(DOMAIN ids)
           /\ CacheTrue

\* The id in hand is the one of the source that the message names.
InHand == rpc = "add" => /\ KeyOf(Message) \in DOMAIN sources
                         /\ sources[KeyOf(Message)].id = id

ReceiverInv == TableOK /\ CacheOK /\ InHand

\* A datagram goes to the source its own header names and to no other, whether
\* the id came from the table or from the cache.
RightSource ==
    rpc = "add" => {key \in DOMAIN sources : sources[key].id = id} = {KeyOf(Message)}

\* The receiver starts with an empty cache and table.
LEMMA InvInit == Init => ReceiverInv
<1> SUFFICES ASSUME Init PROVE ReceiverInv
  OBVIOUS
<1>1. DOMAIN sources = {} /\ DOMAIN ids = {}
  BY DEF Init
<1>2. Cardinality({}) <= MaxSources
  BY FS_EmptySet, ReceiverAssumption
<1>3. TableOK
  BY <1>1, FS_EmptySet DEF Init, TableOK
<1> QED
  BY <1>1, <1>2, <1>3, FS_EmptySet DEF Init, ReceiverInv, CacheOK, CacheTrue, InHand

\* Whatever is upserted, what the cache holds stays true, and so does the id in
\* hand.
LEMMA CacheAndHandStay ==
    ASSUME ReceiverInv, NEW key, NEW v \in {"empty", "announced"},
           sources' = Upserted(key, v), UNCHANGED <<ids, packet, rpc, id>>
    PROVE  ReceiverInv'
<1>1. TableOK'
  BY TableUpserted DEF ReceiverInv
<1>2. /\ DOMAIN sources' = DOMAIN sources \cup {key}
      /\ \A k \in DOMAIN sources : sources'[k].id = sources[k].id
  BY UpsertedEffect DEF ReceiverInv
<1>3. CacheOK'
  BY <1>2 DEF ReceiverInv, CacheOK, CacheTrue
<1>4. InHand'
  BY <1>2 DEF ReceiverInv, InHand, Message
<1> QED
  BY <1>1, <1>3, <1>4 DEF ReceiverInv

\* A registration stores the id the table gave, after the cache was emptied if full.
LEMMA InvRegister ==
    ASSUME ReceiverInv, Register
    PROVE  ReceiverInv'
<1> DEFINE key  == KeyOf(Message)
           kept == IF CacheFull THEN <<>> ELSE ids
<1>1. /\ sources' = Upserted(key, "empty") /\ id' = sources'[key].id
      /\ ids' = Put(kept, key, id') /\ key \notin DOMAIN ids
      /\ packet' = packet
  BY DEF Register, Cached
<1>2. KeyOf(Message)' = key
  BY <1>1 DEF Message
<1>3. TableOK'
  BY <1>1, TableUpserted DEF ReceiverInv
<1>4. /\ DOMAIN sources' = DOMAIN sources \cup {key}
      /\ \A k \in DOMAIN sources : sources'[k].id = sources[k].id
  BY <1>1, UpsertedEffect DEF ReceiverInv
<1>5. InHand'
  BY <1>1, <1>2, <1>4 DEF InHand
<1>6. /\ IsFiniteSet(DOMAIN kept) /\ Cardinality(DOMAIN kept) \in Nat
      /\ Cardinality(DOMAIN kept) + 1 <= MaxSources
      /\ key \notin DOMAIN kept
      /\ \A k \in DOMAIN kept : k \in DOMAIN ids /\ kept[k] = ids[k]
  <2>1. CASE CacheFull
    <3>1. DOMAIN kept = {}
      BY <2>1
    <3>2. 1 <= MaxSources
      BY ReceiverAssumption
    <3> HIDE DEF kept, key
    <3> QED
      BY <3>1, <3>2, FS_EmptySet, ReceiverAssumption
  <2>2. CASE ~CacheFull
    <3>1. kept = ids /\ IsFiniteSet(DOMAIN ids)
      BY <2>2 DEF ReceiverInv, CacheOK
    <3>2. Cardinality(DOMAIN ids) \in Nat
      BY <3>1, FS_CardinalityType
    <3>3. ~(Cardinality(DOMAIN ids) >= MaxSources) /\ MaxSources \in Nat
      BY <2>2, ReceiverAssumption DEF CacheFull
    <3>4. Cardinality(DOMAIN ids) + 1 <= MaxSources
      BY <3>2, <3>3
    <3> HIDE DEF kept
    <3> QED
      BY <1>1, <3>1, <3>2, <3>4
  <2> QED
    BY <2>1, <2>2
<1> HIDE DEF kept
<1>7. ids' = [k \in {key} \cup DOMAIN kept |-> IF k = key THEN id' ELSE kept[k]]
  BY <1>1 DEF Put
<1>8. DOMAIN ids' = DOMAIN kept \cup {key}
  BY <1>7
<1>9. IsFiniteSet(DOMAIN ids') /\ Cardinality(DOMAIN ids') <= MaxSources
  BY <1>6, <1>8, FS_AddElement
<1>10. \A k \in DOMAIN ids' : k \in DOMAIN sources' /\ sources'[k].id = ids'[k]
  BY <1>1, <1>4, <1>6, <1>7, <1>8 DEF ReceiverInv, CacheOK, CacheTrue
<1> QED
  BY <1>3, <1>5, <1>9, <1>10 DEF ReceiverInv, CacheOK, CacheTrue

\* Every step keeps the invariant, ...
LEMMA InvStep == ReceiverInv /\ [Next]_vars => ReceiverInv'
<1> SUFFICES ASSUME ReceiverInv, [Next]_vars PROVE ReceiverInv'
  OBVIOUS
<1>1. ASSUME UNCHANGED <<sources, ids>>, rpc' # "add" PROVE ReceiverInv'
  BY <1>1 DEF ReceiverInv, TableOK, CacheOK, CacheTrue, InHand
<1>2. CASE ReadForwarded \/ ReadOther \/ HandleMalformed \/ HandleParsed
           \/ RegisterFails \/ AddEntry
  BY <1>1, <1>2 DEF ReadForwarded, ReadOther, Read, HandleMalformed, HandleParsed,
                    RegisterFails, AddEntry
<1>3. CASE Known
  <2>1. TableOK' /\ CacheOK'
    BY <1>3 DEF Known, ReceiverInv, TableOK, CacheOK, CacheTrue
  <2>2. KeyOf(Message)' = KeyOf(Message) /\ KeyOf(Message) \in DOMAIN ids
        /\ id' = ids[KeyOf(Message)]
    BY <1>3 DEF Known, Cached, Message
  <2>3. InHand'
    BY <1>3, <2>2 DEF Known, InHand, ReceiverInv, CacheOK, CacheTrue
  <2> QED
    BY <2>1, <2>3 DEF ReceiverInv
<1>4. CASE Register
  BY <1>4, InvRegister
<1>5. ASSUME NEW key \in Shipping, Announce(key) PROVE ReceiverInv'
  BY <1>5, CacheAndHandStay DEF Announce
<1>6. CASE UNCHANGED vars
  BY <1>6 DEF vars, ReceiverInv, TableOK, CacheOK, CacheTrue, InHand, Message
<1> QED
  BY <1>2, <1>3, <1>4, <1>5, <1>6 DEF Next, Receiver

\* ... so it holds in every state.
LEMMA InvCorrect == Spec => []ReceiverInv
BY InvInit, InvStep, PTL DEF Spec

\* What else the shapes need: where Run is, what the datagram in hand was made
\* from, and that no source is without a component.
ShapeInv ==
    /\ rpc \in {"read", "parse", "source", "add"}
    /\ rpc # "read" => packet.from \in Forwarded \cup {None}
    /\ id \in Nat
    /\ \A key \in DOMAIN sources : key[1] # <<>>

\* Every step keeps them: a header without an APP-NAME is filed under "syslog",
\* and Ship refuses a hello without a component.
LEMMA ShapeStep == ReceiverInv /\ ShapeInv /\ [Next]_vars => ShapeInv'
<1> SUFFICES ASSUME ReceiverInv, ShapeInv, [Next]_vars PROVE ShapeInv'
  OBVIOUS
<1> USE DEF ShapeInv
<1>1. CASE ReadForwarded \/ ReadOther
  BY <1>1 DEF ReadForwarded, ReadOther, Read
<1>2. CASE HandleMalformed \/ HandleParsed \/ RegisterFails \/ AddEntry
  BY <1>2 DEF HandleMalformed, HandleParsed, RegisterFails, AddEntry
<1>3. CASE Known
  <2>1. KeyOf(Message) \in DOMAIN ids /\ id' = ids[KeyOf(Message)]
    BY <1>3 DEF Known, Cached
  <2>2. sources[KeyOf(Message)] \in Table /\ sources[KeyOf(Message)].id = id'
    BY <2>1 DEF ReceiverInv, CacheOK, CacheTrue, TableOK
  <2>3. id' \in Nat
    BY <2>2 DEF Table, Ids
  <2> QED
    BY <1>3, <2>3 DEF Known
<1>4. CASE Register
  <2> DEFINE key == KeyOf(Message)
  <2>1. /\ sources' = Upserted(key, "empty") /\ id' = sources'[key].id
        /\ rpc' = "add" /\ packet' = packet /\ rpc = "source"
    BY <1>4 DEF Register
  <2>2. key[1] # <<>>
    BY DEF KeyOf, OrElse, FallbackComponent
  <2> HIDE DEF key
  <2>3. /\ DOMAIN sources' = DOMAIN sources \cup {key}
        /\ sources' \in [DOMAIN sources' -> Table]
    BY <2>1, UpsertedEffect DEF ReceiverInv
  <2>4. sources'[key] \in Table
    BY <2>3
  <2>5. id' \in Nat
    BY <2>1, <2>4 DEF Table, Ids
  <2> QED
    BY <2>1, <2>2, <2>3, <2>5
<1>5. ASSUME NEW key \in Shipping, Announce(key) PROVE ShapeInv'
  <2>1. DOMAIN sources' = DOMAIN sources \cup {key} /\ UNCHANGED <<packet, rpc, id>>
    BY <1>5, UpsertedEffect DEF Announce, ReceiverInv
  <2>2. key[1] # <<>>
    BY ReceiverAssumption
  <2> QED
    BY <2>1, <2>2
<1>6. CASE UNCHANGED vars
  BY <1>6 DEF vars
<1> QED
  BY <1>1, <1>2, <1>3, <1>4, <1>5, <1>6 DEF Next, Receiver

\* For any datagrams, failures and senders: every variable keeps its shape, and
\* no source is registered without a component.
THEOREM ReceiverTypeCorrect == Spec => []TypeOK
<1>1. Init => ShapeInv
  BY DEF Init, ShapeInv
<1>2. ReceiverInv /\ ShapeInv => TypeOK
  <2> SUFFICES ASSUME ReceiverInv, ShapeInv PROVE TypeOK
    OBVIOUS
  <2>1. sources \in [DOMAIN sources -> Table]
    BY DEF ReceiverInv, TableOK
  <2>2. ASSUME NEW key \in DOMAIN ids PROVE ids[key] \in Ids
    <3>1. key \in DOMAIN sources /\ sources[key].id = ids[key]
      BY DEF ReceiverInv, CacheOK, CacheTrue
    <3>2. sources[key] \in Table
      BY <2>1, <3>1
    <3> QED
      BY <3>1, <3>2 DEF Table
  <2> QED
    BY <2>1, <2>2 DEF TypeOK, ShapeInv, Table
<1> QED
  BY <1>1, <1>2, ShapeStep, InvCorrect, PTL DEF Spec

\* For any number of senders and any size of the cache: the cache never exceeds
\* maxSources, and each id in it is that of the table (receiver.go:133).
THEOREM CacheAlwaysTrue == Spec => []CacheTrue
<1>1. ReceiverInv => CacheTrue
  BY DEF ReceiverInv, CacheOK
<1> QED
  BY <1>1, InvCorrect, PTL

\* For any datagrams: what handle gives to Add has the id of the source its
\* header names, and no other source has that id.
THEOREM AlwaysRightSource == Spec => []RightSource
<1>1. ReceiverInv => RightSource
  BY DEF ReceiverInv, InHand, TableOK, RightSource
<1> QED
  BY <1>1, InvCorrect, PTL

\* For any interleaving of syslog and shipping: a source in the cache keeps the
\* version it announced when it shipped.
THEOREM CachedKeepsVersion == Spec => KnownKeepsVersion
<1>1. ReceiverInv /\ [Next]_vars
      => [\A key \in DOMAIN ids \cap DOMAIN sources :
             sources[key].version = "announced" => sources'[key].version = "announced"]_vars
  <2> SUFFICES ASSUME ReceiverInv, Next, NEW key \in DOMAIN ids \cap DOMAIN sources,
                      sources[key].version = "announced"
               PROVE  sources'[key].version = "announced"
    BY DEF vars
  <2>1. CASE Register
    <3>1. sources' = Upserted(KeyOf(Message), "empty") /\ key # KeyOf(Message)
      BY <2>1 DEF Register, Cached
    <3>2. sources'[key] = sources[key]
      BY <3>1, UpsertedEffect DEF ReceiverInv
    <3> QED
      BY <3>2
  <2>2. ASSUME NEW k \in Shipping, Announce(k) PROVE sources'[key].version = "announced"
    <3>1. sources' = Upserted(k, "announced") /\ TableOK
      BY <2>2 DEF Announce, ReceiverInv
    <3>2. key # k => sources'[key] = sources[key]
      BY <3>1, UpsertedEffect
    <3>3. sources'[k].version = "announced"
      BY <3>1, UpsertedEffect
    <3> QED
      BY <3>2, <3>3
  <2>3. CASE ReadForwarded \/ ReadOther \/ HandleMalformed \/ HandleParsed \/ Known
             \/ RegisterFails \/ AddEntry
    BY <2>3 DEF ReadForwarded, ReadOther, Read, HandleMalformed, HandleParsed, Known,
                RegisterFails, AddEntry
  <2> QED
    BY <2>1, <2>2, <2>3 DEF Next, Receiver
<1> QED
  BY <1>1, InvCorrect, PTL DEF Spec, KnownKeepsVersion

(***************************************************************************)
(* A forwarded line, read back.                                            *)
(***************************************************************************)

\* A forwarded entry has what Format expects.
LEMMA ForwardedIsText ==
    ASSUME NEW o \in Forwarded
    PROVE  Forwardable(o[1], o[2], o[3]) /\ o[1].level \in Level
<1>1. Seq(STRING) \subseteq Bytes
  <2>1. STRING \subseteq Byte
    BY DEF Byte
  <2>2. ASSUME NEW s \in Seq(STRING) PROVE s \in Bytes
    <3>1. Len(s) \in Nat /\ s \in [1..Len(s) -> STRING]
      BY LenProperties
    <3>2. s \in [1..Len(s) -> Byte]
      BY <2>1, <3>1
    <3> QED BY <3>1, <3>2, FunctionIsSeq DEF Bytes
  <2> QED BY <2>2
<1>2. /\ o[1].level \in Level /\ o[1].time \in STRING /\ o[1].time # " "
      /\ {o[1].category, o[1].logger, o[1].message, o[2].component, o[2].instance, o[3]}
            \subseteq Seq(STRING)
  BY ForwardedAssumption
<1>3. o[1].time \in Byte
  BY <1>2 DEF Byte
<1> QED BY <1>1, <1>2, <1>3 DEF Forwardable

\* Level, time and text of an entry that came back.
BackAgain(a, e) ==
    LET message == WithoutBom(NoBreakAtEnd(e.message)) IN
    /\ a.level = IF e.level = "UNSPECIFIED" THEN "INFO" ELSE e.level
    /\ a.time = IF e.time \in Stamps THEN e.time ELSE "arrival"
    /\ \/ a.text = NoBreakAtEnd(message)
       \/ /\ Len(e.message) > MaxText
          /\ Len(a.text) <= MaxText
          /\ WholeCharacters(e.message) => WholeCharacters(a.text)
          /\ IsSuffix(Truncated, a.text)
          /\ IsPrefix(SubSeq(a.text, 1, Len(a.text) - 3), message)

\* Add gets of a message what AddEntry says.
AddedOf(from, i, m) ==
    [from |-> from, source |-> i,
     time |-> IF m.time = {} THEN "arrival" ELSE CHOOSE t \in m.time : TRUE,
     level |-> LevelFor(m.severity), text |-> m.text]

\* What Format writes of an entry comes back out of Parse and AddEntry, under the
\* names of its source.
LEMMA FormatComesBack ==
    ASSUME NEW o \in Forwarded, NEW i
    PROVE  LET m == Parse(Format(o[1], o[2], o[3])) IN
           /\ m.ok /\ KeyOf(m) = SourceNames(o[2])
           /\ BackAgain(AddedOf(o, i, m), o[1])
<1>1. PICK e, source, name : e = o[1] /\ source = o[2] /\ name = o[3]
  OBVIOUS
<1>2. Forwardable(e, source, name) /\ e.level \in Level
  BY <1>1, ForwardedIsText
<1>3. PICK s : s = e.message /\ s \in Bytes
  BY <1>2 DEF Forwardable
<1>4. PICK message, text : /\ message = WithoutBom(NoBreakAtEnd(s))
                           /\ text = NoBreakAtEnd(WithoutBom(Text(s)))
  OBVIOUS
<1>5. /\ Text(s) \in Bytes
      /\ \/ text = NoBreakAtEnd(message)
         \/ /\ Len(s) > MaxText
            /\ Len(text) <= MaxText
            /\ WholeCharacters(s) => WholeCharacters(text)
            /\ IsSuffix(Truncated, text)
            /\ IsPrefix(SubSeq(text, 1, Len(text) - 3), message)
  BY <1>3, <1>4, TextReadBack
<1>6. PICK m : m = Parse(Format(e, source, name))
  OBVIOUS
<1>7. /\ m.ok /\ m.severity = Severity(e.level)
      /\ m.time = {t \in Stamps : <<e.time>> = <<t>>}
      /\ m.hostname = NilValue(NameField(source.instance, MaxHostname))
      /\ m.appName  = NilValue(NameField(source.component, MaxAppName))
      /\ m.text = NoBreakAtEnd(WithoutBom(Text(e.message)))
  BY <1>2, <1>3, <1>5, <1>6, ParseOfFormat
<1>8. KeyOf(m) = SourceNames(source)
  BY <1>7 DEF KeyOf, SourceNames
<1>9. LevelFor(m.severity) = IF e.level = "UNSPECIFIED" THEN "INFO" ELSE e.level
  <2>1. m.severity = Severity(e.level)
    BY <1>7
  <2> QED BY <1>2, <2>1 DEF Level, LevelFor, Severity
<1>10. (IF m.time = {} THEN "arrival" ELSE CHOOSE t \in m.time : TRUE)
          = IF e.time \in Stamps THEN e.time ELSE "arrival"
  <2>1. \A t : <<e.time>> = <<t>> <=> e.time = t
    OBVIOUS
  <2>2. m.time = {t \in Stamps : e.time = t}
    BY <1>7, <2>1
  <2>3. CASE e.time \in Stamps
    <3>1. m.time = {e.time}
      BY <2>2, <2>3
    <3> QED BY <2>3, <3>1
  <2>4. CASE e.time \notin Stamps
    <3>1. m.time = {}
      BY <2>2, <2>4
    <3> QED BY <2>4, <3>1
  <2> QED BY <2>3, <2>4
<1>11. PICK a : a = AddedOf(o, i, m)
  OBVIOUS
<1>A. /\ a.level = LevelFor(m.severity) /\ a.text = m.text
       /\ a.time = IF m.time = {} THEN "arrival" ELSE CHOOSE t \in m.time : TRUE
  BY <1>11 DEF AddedOf
<1>13. a.text = text
  BY <1>3, <1>4, <1>7, <1>A
<1>14. BackAgain(a, e)
  <2>1. a.level = IF e.level = "UNSPECIFIED" THEN "INFO" ELSE e.level
    BY <1>9, <1>A
  <2>2. a.time = IF e.time \in Stamps THEN e.time ELSE "arrival"
    BY <1>10, <1>A
  <2>3. message = WithoutBom(NoBreakAtEnd(e.message))
    BY <1>3, <1>4
  <2> QED BY <1>3, <1>5, <1>13, <2>1, <2>2, <2>3 DEF BackAgain
<1> QED BY <1>1, <1>6, <1>7, <1>8, <1>11, <1>14

\* A datagram in hand that was forwarded is what Format wrote; an entry that was
\* added is under the names of its source, and is what was forwarded.
PacketOK ==
    rpc # "read" /\ packet.from # None =>
        /\ packet.from \in Forwarded
        /\ packet.datagram = Format(packet.from[1], packet.from[2], packet.from[3])

AddedOK ==
    added # None /\ added.from # None =>
        /\ SourceNames(added.from[2]) \in DOMAIN sources
        /\ sources[SourceNames(added.from[2])].id = added.source
        /\ BackAgain(added, added.from[1])

\* Registering and announcing leave what was added in its place.
LEMMA AddedStays ==
    ASSUME TableOK, AddedOK, NEW key, NEW v \in {"empty", "announced"},
           sources' = Upserted(key, v), added' = added
    PROVE  AddedOK'
<1>1. /\ DOMAIN sources' = DOMAIN sources \cup {key}
      /\ \A k \in DOMAIN sources : sources'[k].id = sources[k].id
  BY UpsertedEffect
<1> QED BY <1>1 DEF AddedOK, BackAgain

\* Every step keeps both.
LEMMA AddedStep ==
    ReceiverInv /\ PacketOK /\ AddedOK /\ [Next]_vars => PacketOK' /\ AddedOK'
<1> SUFFICES ASSUME ReceiverInv, PacketOK, AddedOK, [Next]_vars PROVE PacketOK' /\ AddedOK'
  OBVIOUS
<1>1. ASSUME NEW o \in Forwarded, Read(o, Format(o[1], o[2], o[3])) PROVE PacketOK' /\ AddedOK'
  BY <1>1 DEF Read, PacketOK, AddedOK
<1>2. ASSUME NEW d \in Others, Read(None, d) PROVE PacketOK' /\ AddedOK'
  BY <1>2 DEF Read, PacketOK, AddedOK
<1>3. CASE HandleMalformed \/ RegisterFails
  BY <1>3 DEF HandleMalformed, RegisterFails, PacketOK, AddedOK, BackAgain
<1>4. CASE HandleParsed \/ Known
  BY <1>4 DEF HandleParsed, Known, PacketOK, AddedOK, BackAgain
<1>5. CASE Register
  <2>1. PacketOK'
    BY <1>5 DEF Register, PacketOK
  <2>2. AddedOK'
    BY <1>5, AddedStays DEF Register, ReceiverInv
  <2> QED BY <2>1, <2>2
<1>6. CASE AddEntry
  <2>1. PacketOK'
    BY <1>6 DEF AddEntry, PacketOK
  <2>2. added' = AddedOf(packet.from, id, Message) /\ sources' = sources /\ rpc = "add"
    BY <1>6 DEF AddEntry, AddedOf
  <2>3. ASSUME packet.from # None PROVE AddedOK'
    <3>1. PICK o \in Forwarded : packet.from = o
      BY <2>2, <2>3 DEF PacketOK
    <3>2. Message = Parse(Format(o[1], o[2], o[3]))
      BY <2>2, <2>3, <3>1 DEF PacketOK, Message
    <3>3. /\ KeyOf(Message) = SourceNames(o[2])
          /\ BackAgain(AddedOf(o, id, Message), o[1])
      BY <3>2, FormatComesBack
    <3>4. KeyOf(Message) \in DOMAIN sources /\ sources[KeyOf(Message)].id = id
      BY <2>2 DEF ReceiverInv, InHand
    <3>5. PICK a : a = added' /\ a = AddedOf(o, id, Message)
      BY <2>2, <3>1
    <3>6. a.from = o /\ a.source = id
      BY <3>5 DEF AddedOf
    <3>7. BackAgain(a, o[1])
      BY <3>3, <3>5
    <3>8. /\ SourceNames(a.from[2]) \in DOMAIN sources'
          /\ sources'[SourceNames(a.from[2])].id = a.source
          /\ BackAgain(a, a.from[1])
      BY <2>2, <3>3, <3>4, <3>6, <3>7
    <3> QED BY <3>5, <3>8 DEF AddedOK
  <2>4. ASSUME packet.from = None PROVE AddedOK'
    <3>1. added'.from = None
      BY <2>2, <2>4 DEF AddedOf
    <3> QED BY <3>1 DEF AddedOK
  <2> QED BY <2>1, <2>3, <2>4
<1>7. ASSUME NEW key \in Shipping, Announce(key) PROVE PacketOK' /\ AddedOK'
  <2>1. PacketOK'
    BY <1>7 DEF Announce, PacketOK
  <2>2. AddedOK'
    BY <1>7, AddedStays DEF Announce, ReceiverInv
  <2> QED BY <2>1, <2>2
<1>8. CASE UNCHANGED vars
  BY <1>8 DEF vars, PacketOK, AddedOK, BackAgain
<1> QED BY <1>1, <1>2, <1>3, <1>4, <1>5, <1>6, <1>7, <1>8
        DEF Next, Receiver, ReadForwarded, ReadOther

\* For any text in the names, the structured data and the message, and any limits:
\* format.go and parse.go are two halves of one format. A forwarded line is never
\* malformed, its entry is stored under the names of its source and no other,
\* through the cache or not, and level, time and text come back as far as the
\* format can carry them.
THEOREM ForwardedIsReadBack == Spec => []ReadBack
<1>1. Init => PacketOK /\ AddedOK
  BY DEF Init, PacketOK, AddedOK
<1>2. ReceiverInv /\ PacketOK /\ AddedOK => ReadBack
  <2> SUFFICES ASSUME ReceiverInv, PacketOK, AddedOK PROVE ReadBack
    OBVIOUS
  <2>1. ASSUME rpc = "parse", packet.from # None PROVE Message.ok
    <3>1. PICK o \in Forwarded : packet.datagram = Format(o[1], o[2], o[3])
      BY <2>1 DEF PacketOK
    <3> QED BY <3>1, FormatComesBack DEF Message
  <2>2. ASSUME added # None, added.from # None
        PROVE  {key \in DOMAIN sources : sources[key].id = added.source}
                   = {SourceNames(added.from[2])}
    <3>1. PICK k : k = SourceNames(added.from[2]) /\ k \in DOMAIN sources /\ sources[k].id = added.source
      BY <2>2 DEF AddedOK
    <3>2. \A l \in DOMAIN sources : sources[l].id = sources[k].id => l = k
      BY <3>1 DEF ReceiverInv, TableOK
    <3> QED BY <3>1, <3>2
  <2>3. ASSUME added # None, added.from # None PROVE BackAgain(added, added.from[1])
    BY <2>3 DEF AddedOK
  <2> QED BY <2>1, <2>2, <2>3 DEF ReadBack, BackAgain
<1> QED BY <1>1, <1>2, AddedStep, InvCorrect, PTL DEF Spec
=============================================================================
