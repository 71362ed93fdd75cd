------------------------ MODULE RequestBuffer_proofs ------------------------
(***************************************************************************)
(* The memory of a request, and what a DB Server reads in it, for any      *)
(* variables, contents, servers and sizes of the buffer.                   *)
(***************************************************************************)
EXTENDS RequestBuffer, SequenceTheorems, FiniteSetTheorems, WellFoundedInduction, TLAPS

---------------------------------------------------------------------------
(* Recursion over the numbers up to n, by the least one at which it would   *)
(* fail.                                                                   *)

LEMMA NumberInduction ==
    ASSUME NEW T, 0 \in T, \A n \in Nat : n \in T => n + 1 \in T
    PROVE  Nat \subseteq T
<1> SUFFICES ASSUME Nat \ T # {} PROVE FALSE
  OBVIOUS
<1>1. PICK k \in Nat \ T : \A j \in Nat \ T : ~(<<j, k>> \in OpToRel(<, Nat))
  BY NatLessThanWellFounded, WFMin
<1>2. k # 0 /\ k - 1 \in Nat /\ k - 1 < k /\ (k - 1) + 1 = k
  <2>1. k \in Nat /\ k # 0
    OBVIOUS
  <2> QED BY <2>1
<1>3. k - 1 \notin Nat \ T
  BY <1>1, <1>2 DEF OpToRel
<1> QED BY <1>1, <1>2, <1>3

\* A value for 0, and for each number one from that for the number before.
Unrolls(V, v, G, n, f) ==
    f \in [0..n -> V] /\ f[0] = v /\ \A j \in 1..n : f[j] = G[<<j, f[j - 1]>>]

LEMMA RecursionExists ==
    ASSUME NEW V, NEW v \in V, NEW G \in [Nat \X V -> V], NEW n \in Nat
    PROVE  \E f : Unrolls(V, v, G, n, f)
<1> DEFINE Fits(m, f) == f \in [0..m -> V] /\ f[0] = v /\ \A j \in 1..m : f[j] = G[<<j, f[j - 1]>>]
           T == {m \in Nat : \E f : Fits(m, f)}
<1>1. 0 \in T
  <2>1. Fits(0, [j \in 0..0 |-> v])
    OBVIOUS
  <2> QED BY <2>1
<1>2. ASSUME NEW m \in Nat, m \in T PROVE m + 1 \in T
  <2>1. PICK f : Fits(m, f)
    BY <1>2
  <2> DEFINE g == [j \in 0..(m + 1) |-> IF j <= m THEN f[j] ELSE G[<<m + 1, f[m]>>]]
  <2>2. f[m] \in V /\ G[<<m + 1, f[m]>>] \in V /\ \A j \in 0..m : f[j] \in V
    BY <2>1
  <2>3. g \in [0..(m + 1) -> V] /\ g[0] = v
    BY <2>1, <2>2
  <2>4. ASSUME NEW j \in 1..(m + 1) PROVE g[j] = G[<<j, g[j - 1]>>]
    <3>1. j - 1 \in 0..m /\ g[j - 1] = f[j - 1]
      OBVIOUS
    <3>2. CASE j = m + 1
      <4>1. g[j] = G[<<m + 1, f[m]>>] /\ j - 1 = m
        BY <3>2
      <4> QED BY <3>1, <3>2, <4>1
    <3>3. CASE j # m + 1
      <4>1. j \in 1..m
        BY <3>3
      <4>2. g[j] = f[j] /\ f[j] = G[<<j, f[j - 1]>>]
        BY <2>1, <4>1
      <4> QED BY <3>1, <4>2
    <3> QED BY <3>2, <3>3
  <2> HIDE DEF g
  <2>5. Fits(m + 1, g)
    BY <2>3, <2>4
  <2> QED BY <2>5
<1> HIDE DEF T
<1>3. n \in T
  BY <1>1, <1>2, NumberInduction
<1> QED BY <1>3 DEF T, Unrolls

---------------------------------------------------------------------------
(* Sequences, one after the other. *)

LEMMA FlattenNone == FlattenSeq(<<>>) = <<>>
BY DEF FlattenSeq

\* What FlattenSeq makes of each beginning of a sequence that is not empty.
Joins(S, ss, f) ==
    /\ f \in [1..Len(ss) -> Seq(S)] /\ f[1] = ss[1]
    /\ \A i \in 2..Len(ss) : f[i] = f[i - 1] \o ss[i]

LEMMA FlattenSteps ==
    ASSUME NEW S, NEW ss \in Seq(Seq(S)), ss # <<>>
    PROVE  \E f : Joins(S, ss, f) /\ FlattenSeq(ss) = f[Len(ss)]
<1> DEFINE n == Len(ss)
           V == Seq(S)
           more(j) == IF j \in 1..(n - 1) THEN ss[j + 1] ELSE <<>>
           G == [p \in Nat \X V |-> p[2] \o more(p[1])]
           Flat(f) == f = [i \in 1..n |-> IF i = 1 THEN ss[i] ELSE f[i - 1] \o ss[i]]
<1>1. n \in Nat \ {0} /\ \A j \in 1..n : ss[j] \in V
  BY EmptySeq, ElementOfSeq
<1> HIDE DEF n
<1>2. G \in [Nat \X V -> V]
  <2>1. \A j : more(j) \in V
    BY <1>1, EmptySeq
  <2>2. \A p \in Nat \X V : p[2] \o more(p[1]) \in V
    <3> HIDE DEF more
    <3> QED BY <2>1, ConcatProperties
  <2> QED BY <2>2
<1>3. PICK g : Unrolls(V, ss[1], G, n - 1, g)
  <2> HIDE DEF G
  <2>1. ss[1] \in V /\ n - 1 \in Nat
    BY <1>1
  <2> QED BY <1>2, <2>1, RecursionExists
<1>4. g \in [0..(n - 1) -> V] /\ g[0] = ss[1] /\ \A j \in 1..(n - 1) : g[j] = G[<<j, g[j - 1]>>]
  BY <1>3 DEF Unrolls
<1> DEFINE f == [i \in 1..n |-> g[i - 1]]
<1>5. f \in [1..n -> V] /\ f[1] = ss[1]
  BY <1>1, <1>4
<1>6. \A i \in 2..n : f[i] = f[i - 1] \o ss[i]
  <2> TAKE i \in 2..n
  <2>1. i - 1 \in 1..(n - 1) /\ i - 1 \in Nat /\ i - 1 \in 1..n /\ i \in 1..n /\ (i - 1) + 1 = i
        /\ (i - 1) - 1 \in 0..(n - 1)
    BY <1>1
  <2>2. f[i] = g[i - 1] /\ f[i - 1] = g[(i - 1) - 1] /\ g[(i - 1) - 1] \in V
    BY <1>4, <2>1
  <2> HIDE DEF f
  <2>3. g[i - 1] = G[<<i - 1, g[(i - 1) - 1]>>]
    BY <1>4, <2>1
  <2>4. <<i - 1, g[(i - 1) - 1]>> \in Nat \X V
    BY <2>1, <2>2
  <2>5. g[i - 1] = g[(i - 1) - 1] \o more(i - 1) /\ more(i - 1) = ss[i]
    BY <2>1, <2>3, <2>4
  <2> QED BY <2>2, <2>5
<1> HIDE DEF f, G, V
<1>7. Flat(f)
  <2>1. \A i \in 1..n : i # 1 => i \in 2..n
    BY <1>1
  <2>2. \A i \in 1..n : f[i] = IF i = 1 THEN ss[i] ELSE f[i - 1] \o ss[i]
    BY <1>5, <1>6, <2>1
  <2>3. f = [i \in 1..n |-> f[i]]
    BY <1>5
  <2> QED BY <2>2, <2>3
<1>8. FlattenSeq(ss) = (CHOOSE h : Flat(h))[n]
  BY <1>1 DEF FlattenSeq, n
<1>9. PICK h : Flat(h) /\ FlattenSeq(ss) = h[n]
  <2> HIDE DEF Flat
  <2> QED BY <1>7, <1>8
<1>10. h = f
  <2> DEFINE T == {k \in Nat : k + 1 \in 1..n => h[k + 1] = f[k + 1]}
  <2>1. /\ h = [i \in 1..n |-> h[i]]
        /\ h[1] = ss[1] /\ \A i \in 2..n : h[i] = h[i - 1] \o ss[i]
    <3>1. h = [i \in 1..n |-> IF i = 1 THEN ss[i] ELSE h[i - 1] \o ss[i]]
      BY <1>9
    <3>2. 1 \in 1..n /\ \A i \in 2..n : i \in 1..n /\ i # 1
      BY <1>1
    <3>3. h = [i \in 1..n |-> h[i]]
      BY <3>1
    <3>4. h[1] = ss[1]
      BY <3>1, <3>2
    <3>5. \A i \in 2..n : h[i] = h[i - 1] \o ss[i]
      BY <3>1, <3>2
    <3> QED BY <3>3, <3>4, <3>5
  <2>2. 0 \in T
    BY <1>5, <2>1
  <2>3. ASSUME NEW k \in Nat, k \in T PROVE k + 1 \in T
    <3> SUFFICES ASSUME (k + 1) + 1 \in 1..n PROVE h[(k + 1) + 1] = f[(k + 1) + 1]
      OBVIOUS
    <3> DEFINE i == (k + 1) + 1
    <3>1. i \in 2..n /\ k + 1 \in 1..n /\ i - 1 = k + 1
      BY <1>1
    <3>2. h[k + 1] = f[k + 1]
      BY <2>3, <3>1
    <3> HIDE DEF i
    <3> QED BY <1>6, <2>1, <3>1, <3>2 DEF i
  <2>4. Nat \subseteq T
    <3> HIDE DEF T
    <3> QED BY <2>2, <2>3, NumberInduction
  <2>5. \A i \in 1..n : h[i] = f[i]
    <3> TAKE i \in 1..n
    <3>1. i - 1 \in Nat /\ (i - 1) + 1 = i
      BY <1>1
    <3> QED BY <2>4, <3>1
  <2> QED BY <1>5, <2>1, <2>5
<1>11. Joins(S, ss, f)
  BY <1>5, <1>6 DEF Joins, n, V
<1> QED BY <1>9, <1>10, <1>11 DEF n

LEMMA FlattenType ==
    ASSUME NEW S, NEW ss \in Seq(Seq(S))
    PROVE  FlattenSeq(ss) \in Seq(S)
<1>1. CASE ss = <<>>
  BY <1>1, FlattenNone, EmptySeq
<1>2. CASE ss # <<>>
  <2>1. PICK f : Joins(S, ss, f) /\ FlattenSeq(ss) = f[Len(ss)]
    BY <1>2, FlattenSteps
  <2>2. Len(ss) \in 1..Len(ss)
    BY <1>2, EmptySeq
  <2> QED BY <2>1, <2>2 DEF Joins
<1> QED BY <1>1, <1>2

\* Joining one sequence more.
LEMMA FlattenAppend ==
    ASSUME NEW S, NEW ss \in Seq(Seq(S)), NEW s \in Seq(S)
    PROVE  FlattenSeq(Append(ss, s)) = FlattenSeq(ss) \o s
<1> DEFINE tt == Append(ss, s)
           n == Len(ss)
<1>1. /\ tt \in Seq(Seq(S)) /\ tt # <<>> /\ Len(tt) = n + 1 /\ n \in Nat
      /\ \A i \in 1..n : tt[i] = ss[i]
      /\ tt[n + 1] = s
  BY AppendProperties, LenProperties
<1> HIDE DEF tt
<1>2. PICK g : Joins(S, tt, g) /\ FlattenSeq(tt) = g[n + 1]
  BY <1>1, FlattenSteps
<1>3. CASE ss = <<>>
  <2>1. n = 0
    BY <1>3
  <2>2. g[1] = s
    BY <1>1, <1>2, <2>1 DEF Joins
  <2>3. FlattenSeq(ss) \o s = s
    BY <1>3, FlattenNone, ConcatEmptySeq
  <2> QED BY <1>2, <2>1, <2>2, <2>3 DEF tt
<1>4. CASE ss # <<>>
  <2>1. PICK f : Joins(S, ss, f) /\ FlattenSeq(ss) = f[n]
    BY <1>4, FlattenSteps
  <2>2. n \in 1..n /\ n + 1 \in 2..Len(tt) /\ (n + 1) - 1 = n /\ n <= Len(tt) /\ n <= Len(ss)
    BY <1>1, <1>4, EmptySeq
  <2>3. \A i \in 1..n : ss[i] = tt[i]
    BY <1>1
  <2>4. f[n] = g[n]
    <3> DEFINE T == {k \in Nat : k + 1 \in 1..n => f[k + 1] = g[k + 1]}
    <3>1. /\ f[1] = ss[1] /\ \A i \in 2..n : f[i] = f[i - 1] \o ss[i]
          /\ g[1] = tt[1] /\ \A i \in 2..(n + 1) : g[i] = g[i - 1] \o tt[i]
      BY <1>1, <1>2, <2>1 DEF Joins
    <3> HIDE DEF n
    <3>2. 0 \in T
      BY <2>3, <3>1
    <3>3. ASSUME NEW k \in Nat, k \in T PROVE k + 1 \in T
      <4> SUFFICES ASSUME (k + 1) + 1 \in 1..n PROVE f[(k + 1) + 1] = g[(k + 1) + 1]
        OBVIOUS
      <4> DEFINE i == (k + 1) + 1
      <4>1. i \in 1..n /\ i \in 2..n /\ i \in 2..(n + 1) /\ k + 1 \in 1..n /\ i - 1 = k + 1
        BY <1>1
      <4>2. f[k + 1] = g[k + 1]
        BY <3>3, <4>1
      <4> HIDE DEF i
      <4>3. f[i] = f[k + 1] \o ss[i] /\ g[i] = g[k + 1] \o tt[i] /\ ss[i] = tt[i]
        BY <2>3, <3>1, <4>1
      <4>4. f[i] = g[i]
        BY <4>2, <4>3
      <4> QED BY <4>4 DEF i
    <3>4. Nat \subseteq T
      <4> HIDE DEF T
      <4> QED BY <3>2, <3>3, NumberInduction
    <3>5. n - 1 \in Nat /\ (n - 1) + 1 = n
      BY <1>1, <2>2
    <3> QED BY <2>2, <3>4, <3>5
  <2>5. g[n + 1] = g[n] \o tt[n + 1]
    BY <1>2, <2>2 DEF Joins
  <2> QED BY <1>1, <1>2, <2>1, <2>4, <2>5 DEF tt
<1> QED BY <1>3, <1>4

\* What joins two lists of sequences is what joins the one, and then the other.
LEMMA FlattenConcat ==
    ASSUME NEW S, NEW ss \in Seq(Seq(S)), NEW tt \in Seq(Seq(S))
    PROVE  FlattenSeq(ss \o tt) = FlattenSeq(ss) \o FlattenSeq(tt)
<1> DEFINE n == Len(tt)
           begin(k) == SubSeq(tt, 1, k)
           T == {k \in Nat : k <= n => FlattenSeq(ss \o begin(k)) = FlattenSeq(ss) \o FlattenSeq(begin(k))}
<1>1. n \in Nat /\ \A k \in 1..n : tt[k] \in Seq(S)
  BY LenProperties, ElementOfSeq
<1>2. \A k \in 0..n : begin(k) \in Seq(Seq(S)) /\ Len(begin(k)) = k
                      /\ \A i \in 1..k : begin(k)[i] = tt[i]
  <2> TAKE k \in 0..n
  <2>1. /\ 1 \in Int /\ k \in Int /\ \A i \in 1..k : tt[i] \in Seq(S)
    BY <1>1
  <2>2. /\ begin(k) \in Seq(Seq(S))
        /\ Len(begin(k)) = IF 1 <= k THEN k - 1 + 1 ELSE 0
        /\ \A i \in 1..(k - 1 + 1) : begin(k)[i] = tt[1 + i - 1]
    BY <2>1, SubSeqProperties
  <2> QED BY <2>1, <2>2
<1>3. begin(n) = tt
  <2>1. Len(begin(n)) = Len(tt) /\ begin(n) \in Seq(Seq(S)) /\ \A i \in 1..Len(tt) : begin(n)[i] = tt[i]
    BY <1>1, <1>2
  <2> HIDE DEF begin
  <2> QED BY <2>1, SeqEqual
<1>4. 0 \in T
  <2>1. begin(0) = <<>>
    BY SubSeqEmpty
  <2>2. ss \o <<>> = ss /\ FlattenSeq(ss) \o <<>> = FlattenSeq(ss)
    BY ConcatEmptySeq, FlattenType
  <2> HIDE DEF begin
  <2> QED BY <2>1, <2>2, FlattenNone
<1> HIDE DEF n
<1>5. ASSUME NEW k \in Nat, k \in T PROVE k + 1 \in T
  <2> SUFFICES ASSUME k + 1 <= n
               PROVE  FlattenSeq(ss \o begin(k + 1)) = FlattenSeq(ss) \o FlattenSeq(begin(k + 1))
    OBVIOUS
  <2> DEFINE b == begin(k)
             c == begin(k + 1)
             x == tt[k + 1]
  <2>1. /\ b \in Seq(Seq(S)) /\ Len(b) = k /\ \A i \in 1..k : b[i] = tt[i]
        /\ c \in Seq(Seq(S)) /\ Len(c) = k + 1 /\ \A i \in 1..(k + 1) : c[i] = tt[i]
        /\ x \in Seq(S)
    <3>1. k \in 0..n /\ k + 1 \in 0..n /\ k + 1 \in 1..n
      BY <1>1
    <3> HIDE DEF begin
    <3> QED BY <1>1, <1>2, <3>1
  <2>2. FlattenSeq(ss \o b) = FlattenSeq(ss) \o FlattenSeq(b)
    BY <1>1, <1>5
  <2> HIDE DEF b, c, x, begin
  <2>3. c = Append(b, x)
    <3> DEFINE d == Append(b, x)
    <3>1. /\ d \in Seq(Seq(S)) /\ Len(d) = k + 1 /\ \A i \in 1..k : d[i] = b[i]
          /\ d[k + 1] = x
      BY <2>1, AppendProperties
    <3> HIDE DEF d
    <3>2. \A i \in 1..(k + 1) : c[i] = d[i]
      <4> TAKE i \in 1..(k + 1)
      <4>1. CASE i = k + 1
        BY <2>1, <3>1, <4>1 DEF x
      <4>2. CASE i # k + 1
        <5>1. i \in 1..k
          BY <4>2
        <5> QED BY <2>1, <3>1, <5>1
      <4> QED BY <4>1, <4>2
    <3>3. c = d
      BY <2>1, <3>1, <3>2, SeqEqual
    <3> QED BY <3>3 DEF d
  <2>4. FlattenSeq(c) = FlattenSeq(b) \o x
    BY <2>1, <2>3, FlattenAppend
  <2> DEFINE e == ss \o b
  <2>5. e \in Seq(Seq(S)) /\ ss \o c = Append(e, x)
    <3>1. e \in Seq(Seq(S))
      BY <2>1, ConcatProperties
    <3>2. Append(b, x) = b \o <<x>> /\ Append(e, x) = e \o <<x>> /\ <<x>> \in Seq(Seq(S))
      BY <2>1, <3>1, AppendIsConcat
    <3>3. ss \o (b \o <<x>>) = (ss \o b) \o <<x>>
      <4> DEFINE X == Seq(S)
                 y == <<x>>
      <4>1. ss \in Seq(X) /\ b \in Seq(X) /\ y \in Seq(X)
        BY <2>1, <3>2
      <4> HIDE DEF X, y
      <4>2. (ss \o b) \o y = ss \o (b \o y)
        BY ONLY <4>1, ConcatAssociative
      <4> QED BY <4>2 DEF y
    <3> QED BY <2>3, <3>1, <3>2, <3>3
  <2>6. FlattenSeq(ss \o c) = FlattenSeq(e) \o x
    <3> HIDE DEF e
    <3> QED BY <2>1, <2>5, FlattenAppend
  <2> DEFINE u == FlattenSeq(ss)
             v == FlattenSeq(b)
  <2>7. u \in Seq(S) /\ v \in Seq(S)
    BY <2>1, FlattenType
  <2>8. (u \o v) \o x = u \o (v \o x)
    <3>1. u \in Seq(S) /\ v \in Seq(S) /\ x \in Seq(S)
      BY <2>1, <2>7
    <3> HIDE DEF u, v
    <3> QED BY ONLY <3>1, ConcatAssociative
  <2> QED BY <2>2, <2>4, <2>6, <2>8 DEF c, e
<1>6. n \in T
  <2> HIDE DEF T
  <2> QED BY <1>1, <1>4, <1>5, NumberInduction
<1> HIDE DEF begin
<1> QED BY <1>1, <1>3, <1>6

\* What comes before an element, and the element, are no longer than the whole.
LEMMA FlattenPrefix ==
    ASSUME NEW S, NEW ss \in Seq(Seq(S)), NEW k \in 1..Len(ss)
    PROVE  /\ FlattenSeq(SubSeq(ss, 1, k - 1)) \in Seq(S)
           /\ Len(FlattenSeq(SubSeq(ss, 1, k - 1))) + Len(ss[k]) <= Len(FlattenSeq(ss))
<1> DEFINE n == Len(ss)
           X == Seq(S)
           b == SubSeq(ss, 1, k - 1)
           c == SubSeq(ss, k + 1, n)
           d == Append(b, ss[k])
<1>1. n \in Nat /\ k \in Int /\ 1 <= k /\ k <= n /\ \A i \in 1..n : ss[i] \in X
  BY LenProperties, ElementOfSeq
<1>2. b \in Seq(X) /\ Len(b) = k - 1 /\ \A i \in 1..(k - 1) : b[i] = ss[i]
  <2>1. ss \in Seq(X) /\ 1 \in Int /\ k - 1 \in Int /\ \A i \in 1..(k - 1) : ss[i] \in X
    BY <1>1
  <2> HIDE DEF X
  <2>2. /\ b \in Seq(X) /\ Len(b) = IF 1 <= k - 1 THEN (k - 1) - 1 + 1 ELSE 0
        /\ \A i \in 1..((k - 1) - 1 + 1) : b[i] = ss[1 + i - 1]
    BY <2>1, SubSeqProperties
  <2> QED BY <1>1, <2>2
<1>3. c \in Seq(X) /\ Len(c) = n - k /\ \A i \in 1..(n - k) : c[i] = ss[k + i]
  <2>1. ss \in Seq(X) /\ k + 1 \in Int /\ n \in Int /\ \A i \in (k + 1)..n : ss[i] \in X
    BY <1>1
  <2> HIDE DEF X, n
  <2>2. /\ c \in Seq(X) /\ Len(c) = IF k + 1 <= n THEN n - (k + 1) + 1 ELSE 0
        /\ \A i \in 1..(n - (k + 1) + 1) : c[i] = ss[(k + 1) + i - 1]
    BY <2>1, SubSeqProperties
  <2> QED BY <1>1, <2>2
<1> HIDE DEF b, c
<1>4. d \in Seq(X) /\ Len(d) = k /\ d[k] = ss[k] /\ \A i \in 1..(k - 1) : d[i] = b[i]
  <2>1. b \in Seq(X) /\ ss[k] \in X
    BY <1>1, <1>2
  <2> HIDE DEF X
  <2>2. /\ d \in Seq(X) /\ Len(d) = Len(b) + 1 /\ \A i \in 1..Len(b) : d[i] = b[i]
        /\ d[Len(b) + 1] = ss[k]
    BY <2>1, AppendProperties
  <2> HIDE DEF d
  <2>3. (k - 1) + 1 = k
    BY <1>1
  <2> QED BY <1>2, <2>2, <2>3
<1> HIDE DEF d
<1>5. ss = d \o c
  <2> DEFINE e == d \o c
  <2>1. d \in Seq(X) /\ c \in Seq(X)
    BY <1>3, <1>4
  <2> HIDE DEF X
  <2>2. /\ e \in Seq(X) /\ Len(e) = Len(d) + Len(c)
        /\ \A i \in 1..(Len(d) + Len(c)) : e[i] = IF i <= Len(d) THEN d[i] ELSE c[i - Len(d)]
    BY <2>1, ConcatProperties
  <2> HIDE DEF e
  <2>3. Len(e) = n
    BY <1>1, <1>3, <1>4, <2>2
  <2>4. \A i \in 1..n : e[i] = ss[i]
    <3> TAKE i \in 1..n
    <3>1. CASE i <= k - 1
      <4>1. e[i] = d[i] /\ i \in 1..(k - 1)
        BY <1>1, <1>3, <1>4, <2>2, <3>1
      <4> QED BY <1>2, <1>4, <4>1
    <3>2. CASE i = k
      <4>1. e[i] = d[i]
        BY <1>1, <1>3, <1>4, <2>2, <3>2
      <4> QED BY <1>4, <3>2, <4>1
    <3>3. CASE i > k
      <4>1. e[i] = c[i - k] /\ i - k \in 1..(n - k) /\ k + (i - k) = i
        BY <1>1, <1>3, <1>4, <2>2, <3>3
      <4> QED BY <1>3, <4>1
    <3> QED BY <1>1, <3>1, <3>2, <3>3
  <2>5. ss \in Seq(X)
    BY DEF X
  <2>6. e = ss
    BY <2>2, <2>3, <2>4, <2>5, SeqEqual DEF n
  <2> QED BY <2>6 DEF e
<1>6. FlattenSeq(ss) = FlattenSeq(d) \o FlattenSeq(c)
  BY <1>3, <1>4, <1>5, FlattenConcat
<1>7. FlattenSeq(d) = FlattenSeq(b) \o ss[k]
  BY <1>1, <1>2, FlattenAppend DEF d
<1> DEFINE u == FlattenSeq(b)
           v == FlattenSeq(c)
           x == ss[k]
<1>8. u \in Seq(S) /\ v \in Seq(S) /\ x \in Seq(S)
  BY <1>1, <1>2, <1>3, FlattenType
<1>9. FlattenSeq(ss) = (u \o x) \o v
  BY <1>6, <1>7
<1> HIDE DEF u, v, x
<1>10. Len((u \o x) \o v) = (Len(u) + Len(x)) + Len(v) /\ Len(v) \in Nat /\ Len(u) \in Nat /\ Len(x) \in Nat
  BY ONLY <1>8, ConcatProperties, LenProperties
<1>11. Len(u) + Len(x) <= Len(FlattenSeq(ss))
  <2> DEFINE w == Len(FlattenSeq(ss))
  <2>1. w = (Len(u) + Len(x)) + Len(v)
    BY <1>9, <1>10
  <2> HIDE DEF w
  <2>2. Len(u) + Len(x) <= w
    BY ONLY <1>10, <2>1
  <2> QED BY <2>2 DEF w
<1> QED BY <1>8, <1>11 DEF u, x, b

---------------------------------------------------------------------------
(* The blocks and what is written over them. *)

LEMMA MaxOfTwo ==
    ASSUME NEW a \in Nat, NEW b \in Nat
    PROVE  Max({a, b}) = IF a >= b THEN a ELSE b
<1> DEFINE best(x) == x \in {a, b} /\ \A y \in {a, b} : x >= y
           m == CHOOSE x \in {a, b} : \A y \in {a, b} : x >= y
<1>1. \E x \in {a, b} : \A y \in {a, b} : x >= y
  BY DEF best
<1>2. m \in {a, b} /\ \A y \in {a, b} : m >= y
  BY <1>1
<1> HIDE DEF m
<1>3. m = IF a >= b THEN a ELSE b
  BY <1>2
<1> QED BY <1>3 DEF Max, m

LEMMA MinOfTwo ==
    ASSUME NEW a \in Nat, NEW b \in Nat
    PROVE  Min({a, b}) = IF a <= b THEN a ELSE b
<1> DEFINE m == CHOOSE x \in {a, b} : \A y \in {a, b} : x <= y
<1>1. \E x \in {a, b} : \A y \in {a, b} : x <= y
  OBVIOUS
<1>2. m \in {a, b} /\ \A y \in {a, b} : m <= y
  BY <1>1
<1> HIDE DEF m
<1>3. m = IF a <= b THEN a ELSE b
  BY <1>2
<1> QED BY <1>3 DEF Min, m

LEMMA TextType ==
    ASSUME NEW of \in Parts, NEW n \in Nat, NEW len \in Nat
    PROVE  Text(of, n, len) \in Seq(Byte) /\ Len(Text(of, n, len)) = len
<1>1. \A i \in 1..len : [of |-> of, n |-> n, i |-> i] \in Byte
  BY DEF Byte
<1> HIDE DEF Byte
<1> QED BY <1>1, IsASeq DEF Text

LEMMA HeadType ==
    ASSUME NEW sort \in Parts, NEW len \in Nat
    PROVE  BlockHead(sort, len) \in Seq(Byte) /\ Len(BlockHead(sort, len)) = 5
<1> DEFINE u == Text("length", len, HeadLen - 1)
           x == [of |-> sort, n |-> 0, i |-> HeadLen]
           v == <<x>>
<1>1. u \in Seq(Byte) /\ Len(u) = 4
  <2>1. HeadLen - 1 = 4 /\ 4 \in Nat
    BY DEF HeadLen
  <2>2. "length" \in Parts
    BY DEF Parts
  <2> QED BY <2>1, <2>2, TextType
<1>2. x \in Byte
  BY DEF Byte, HeadLen
<1> HIDE DEF x, u, Byte
<1>3. v \in Seq(Byte) /\ Len(v) = 1
  BY <1>2
<1> HIDE DEF v
<1>4. u \o v \in Seq(Byte)
  BY ONLY <1>1, <1>3, ConcatProperties
<1>5. Len(u \o v) = Len(u) + Len(v)
  BY ONLY <1>1, <1>3, ConcatProperties
<1>6. Len(u \o v) = 5
  BY <1>1, <1>3, <1>5
<1> QED BY <1>4, <1>6 DEF BlockHead, u, v, x

LEMMA BlockType ==
    ASSUME NEW sort \in Parts, NEW text \in Seq(Byte)
    PROVE  Block(sort, text) \in Seq(Byte) /\ Len(Block(sort, text)) = 5 + Len(text)
<1> DEFINE u == BlockHead(sort, Len(text))
<1>1. u \in Seq(Byte) /\ Len(u) = 5
  BY HeadType, LenProperties
<1> HIDE DEF u, Byte
<1>2. u \in Seq(Byte) /\ text \in Seq(Byte) /\ Len(u) = 5
  BY <1>1
<1>3. u \o text \in Seq(Byte)
  BY ONLY <1>2, ConcatProperties
<1>4. Len(u \o text) = Len(u) + Len(text)
  BY ONLY <1>2, ConcatProperties
<1> QED BY <1>2, <1>3, <1>4 DEF Block, u

LEMMA NulType == Nul \in Byte /\ Unwritten \in Byte
<1>1. "nul" \in Parts /\ "unwritten" \in Parts
  BY DEF Parts
<1> QED BY <1>1 DEF Nul, Unwritten, Byte

\* The length of a buffer after a write.
LEMMA PutType ==
    ASSUME NEW b \in Seq(Byte), NEW p \in Nat, NEW bytes \in Seq(Byte), p > 0
    PROVE  /\ Put(b, p, bytes) \in Seq(Byte)
           /\ Len(Put(b, p, bytes)) = IF p + Len(bytes) - 1 <= Len(b) THEN Len(b) ELSE p + Len(bytes) - 1
<1> DEFINE l == Len(b)
           c == Len(bytes)
           e == p + c - 1
           n == Max({l, e})
           byte(i) == IF i \in p..e THEN bytes[i - p + 1] ELSE IF i <= l THEN b[i] ELSE Unwritten
<1>1. /\ l \in Nat /\ c \in Nat /\ e \in Nat
      /\ \A i \in 1..l : b[i] \in Byte
      /\ \A i \in 1..c : bytes[i] \in Byte
  <2> HIDE DEF Byte
  <2> QED BY LenProperties, ElementOfSeq
<1> HIDE DEF l, c
<1>2. n = (IF e <= l THEN l ELSE e) /\ n \in Nat
  <2>1. n = IF l >= e THEN l ELSE e
    BY <1>1, MaxOfTwo
  <2> HIDE DEF n
  <2> QED BY <1>1, <2>1
<1> HIDE DEF n
<1>3. \A i \in 1..n : byte(i) \in Byte
  <2> TAKE i \in 1..n
  <2>1. CASE i \in p..e
    <3>1. i - p + 1 \in 1..c
      BY <1>1, <1>2, <2>1
    <3> QED BY <1>1, <2>1, <3>1
  <2>2. CASE i \notin p..e
    BY <1>1, <1>2, <2>2, NulType
  <2> QED BY <2>1, <2>2
<1> HIDE DEF byte, Byte
<1> DEFINE f == [i \in 1..n |-> byte(i)]
<1>4. f \in Seq(Byte) /\ Len(f) = n
  BY <1>2, <1>3, IsASeq
<1>5. f = Put(b, p, bytes)
  BY DEF Put, byte, n, l, e, c
<1> HIDE DEF f, e
<1>6. Put(b, p, bytes) \in Seq(Byte) /\ Len(Put(b, p, bytes)) = n
  BY <1>4, <1>5
<1> QED BY <1>2, <1>6 DEF e, l, c

\* The fields, with the place of each.
LEMMA FieldPlaces ==
    /\ DOMAIN Fields = 1..7
    /\ Field("server") = 1 /\ Field("server_no") = 2 /\ Field("no") = 5 /\ Field("key") = 6 /\ Field("mode") = 7
<1>1. DOMAIN Fields = 1..7
  BY DEF Fields
<1>2. /\ Fields[1].name = "server" /\ Fields[2].name = "server_no" /\ Fields[3].name = "path"
      /\ Fields[4].name = "function" /\ Fields[5].name = "no" /\ Fields[6].name = "key" /\ Fields[7].name = "mode"
  BY DEF Fields
<1>3. \A k \in 1..7 : k = 1 \/ k = 2 \/ k = 3 \/ k = 4 \/ k = 5 \/ k = 6 \/ k = 7
  OBVIOUS
<1> HIDE DEF Fields
<1>4. ASSUME NEW j \in 1..7, NEW name, Fields[j].name = name, \A k \in 1..7 : k # j => Fields[k].name # name
      PROVE  Field(name) = j
  BY <1>1, <1>4 DEF Field
<1>5. Field("server") = 1
  <2>1. \A k \in 1..7 : k # 1 => Fields[k].name # "server"
    BY <1>2, <1>3
  <2> QED BY <1>2, <1>4, <2>1
<1>6. Field("server_no") = 2
  <2>1. \A k \in 1..7 : k # 2 => Fields[k].name # "server_no"
    BY <1>2, <1>3
  <2> QED BY <1>2, <1>4, <2>1
<1>7. Field("no") = 5
  <2>1. \A k \in 1..7 : k # 5 => Fields[k].name # "no"
    BY <1>2, <1>3
  <2> QED BY <1>2, <1>4, <2>1
<1>8. Field("key") = 6
  <2>1. \A k \in 1..7 : k # 6 => Fields[k].name # "key"
    BY <1>2, <1>3
  <2> QED BY <1>2, <1>4, <2>1
<1>9. Field("mode") = 7
  <2>1. \A k \in 1..7 : k # 7 => Fields[k].name # "mode"
    BY <1>2, <1>3
  <2> QED BY <1>2, <1>4, <2>1
<1> QED BY <1>1, <1>5, <1>6, <1>7, <1>8, <1>9

\* What the names, prefixes and rooms of the fields are.
LEMMA FieldLengths ==
    \A k \in 1..7 : Fields[k].name \in Parts /\ Fields[k].prefix \in Nat /\ Fields[k].room \in Nat
<1>1. \A k \in 1..7 : k = 1 \/ k = 2 \/ k = 3 \/ k = 4 \/ k = 5 \/ k = 6 \/ k = 7
  OBVIOUS
<1>2. /\ Fields[1].name \in Parts /\ Fields[2].name \in Parts /\ Fields[3].name \in Parts /\ Fields[4].name \in Parts
      /\ Fields[5].name \in Parts /\ Fields[6].name \in Parts /\ Fields[7].name \in Parts
  BY DEF Fields, Parts
<1>3. /\ Fields[1].prefix \in Nat /\ Fields[2].prefix \in Nat /\ Fields[3].prefix \in Nat /\ Fields[4].prefix \in Nat
      /\ Fields[5].prefix \in Nat /\ Fields[6].prefix \in Nat /\ Fields[7].prefix \in Nat
  BY DEF Fields
<1>4. /\ Fields[1].room \in Nat /\ Fields[2].room \in Nat /\ Fields[3].room \in Nat /\ Fields[4].room \in Nat
      /\ Fields[5].room \in Nat /\ Fields[6].room \in Nat /\ Fields[7].room \in Nat
  BY DEF Fields
<1> HIDE DEF Fields, Parts
<1> QED BY <1>1, <1>2, <1>3, <1>4

LEMMA Rooms ==
    Fields[1].room = 32 /\ Fields[2].room = 2 /\ Fields[5].room = 4 /\ Fields[6].room = 10 /\ Fields[7].room = 3
BY DEF Fields

LEMMA FirstValueType ==
    ASSUME NEW k \in 1..7
    PROVE  FirstValue(k) \in Seq(Byte) /\ Len(FirstValue(k)) = Fields[k].room
<1> DEFINE room == Fields[k].room
           value == FirstValue(k)
<1>1. room \in Nat /\ k \in Nat
  BY FieldLengths
<1>2. "value" \in Parts /\ "tcp" \in Parts
  BY DEF Parts, Sorts
<1>3. CASE Fields[k].name = "key"
  <2>1. value = [i \in 1..room |-> Nul]
    BY <1>3 DEF FirstValue
  <2>2. \A i \in 1..room : Nul \in Byte
    BY NulType
  <2> HIDE DEF value, room
  <2>3. [i \in 1..room |-> Nul] \in Seq(Byte) /\ Len([i \in 1..room |-> Nul]) = room
    BY <1>1, <2>2, IsASeq
  <2> QED BY <2>1, <2>3 DEF value, room
<1>4. CASE Fields[k].name = "mode"
  <2>1. value = Text("tcp", 0, room)
    BY <1>4 DEF FirstValue
  <2> HIDE DEF value, room
  <2>2. value \in Seq(Byte) /\ Len(value) = room
    BY <1>1, <1>2, <2>1, TextType
  <2> QED BY <2>2 DEF value, room
<1>5. CASE Fields[k].name # "key" /\ Fields[k].name # "mode"
  <2>1. value = Text("value", k, room)
    BY <1>5 DEF FirstValue
  <2> HIDE DEF value, room
  <2>2. value \in Seq(Byte) /\ Len(value) = room
    BY <1>1, <1>2, <2>1, TextType
  <2> QED BY <2>2 DEF value, room
<1> QED BY <1>3, <1>4, <1>5

\* The block of a field is its head, its name and what is in its room.
LEMMA AssignedType ==
    ASSUME NEW k \in 1..7, NEW value \in Seq(Byte), Len(value) = Fields[k].room
    PROVE  /\ Assigned(k, value) \in Seq(Byte) /\ Len(Assigned(k, value)) = Fields[k].prefix + Fields[k].room
           /\ Block("sys", Assigned(k, value)) \in Seq(Byte)
           /\ Len(Block("sys", Assigned(k, value))) = 5 + (Fields[k].prefix + Fields[k].room)
<1> DEFINE prefix == Fields[k].prefix
           name == Text(Fields[k].name, 0, prefix)
           text == Assigned(k, value)
<1>1. Fields[k].name \in Parts /\ prefix \in Nat /\ 0 \in Nat
  BY FieldLengths
<1>2. "sys" \in Parts
  BY DEF Parts, Sorts
<1>3. name \in Seq(Byte) /\ Len(name) = prefix /\ value \in Seq(Byte)
  BY <1>1, TextType
<1> HIDE DEF name, prefix
<1>4. name \o value \in Seq(Byte) /\ Len(name \o value) = Len(name) + Len(value)
  BY ONLY <1>3, ConcatProperties
<1>5. text = name \o value
  BY DEF Assigned, name, prefix
<1> HIDE DEF text
<1>6. text \in Seq(Byte) /\ Len(text) = prefix + Fields[k].room
  BY <1>3, <1>4, <1>5
<1>7. Block("sys", text) \in Seq(Byte) /\ Len(Block("sys", text)) = 5 + Len(text)
  BY <1>2, <1>6, BlockType
<1> QED BY <1>6, <1>7 DEF prefix, text

LEMMA FieldBlockType ==
    ASSUME NEW k \in 1..7
    PROVE  FieldBlocks[k] \in Seq(Byte) /\ Len(FieldBlocks[k]) = 5 + (Fields[k].prefix + Fields[k].room)
<1>1. FieldBlocks[k] = Block("sys", Assigned(k, FirstValue(k)))
  BY FieldPlaces DEF FieldBlocks
<1> QED BY <1>1, FirstValueType, AssignedType

LEMMA FieldBlocksType == FieldBlocks \in Seq(Seq(Byte)) /\ Len(FieldBlocks) = 7
<1>1. FieldBlocks = [k \in 1..7 |-> FieldBlocks[k]]
  BY FieldPlaces DEF FieldBlocks
<1>2. \A k \in 1..7 : FieldBlocks[k] \in Seq(Byte)
  BY FieldBlockType
<1> DEFINE S == Seq(Byte)
           f == [k \in 1..7 |-> FieldBlocks[k]]
<1> HIDE DEF S
<1>3. \A k \in 1..7 : FieldBlocks[k] \in S
  BY <1>2 DEF S
<1>4. f \in Seq(S) /\ Len(f) = 7
  BY <1>3, IsASeq
<1> HIDE DEF f
<1>5. FieldBlocks = f
  BY <1>1 DEF f
<1> QED BY <1>4, <1>5 DEF S

\* A number of blocks, the texts of which are known.
LEMMA BlocksType ==
    ASSUME NEW n \in Nat, NEW sort \in Parts, NEW texts, \A k \in 1..n : texts[k] \in Seq(Byte)
    PROVE  [k \in 1..n |-> Block(sort, texts[k])] \in Seq(Seq(Byte))
<1> DEFINE S == Seq(Byte)
           f == [k \in 1..n |-> Block(sort, texts[k])]
<1>1. \A k \in 1..n : Block(sort, texts[k]) \in S
  BY BlockType
<1> HIDE DEF S
<1>2. f \in Seq(S)
  BY <1>1, IsASeq
<1> QED BY <1>2 DEF S

\* The blocks of events, of a WebSocket and of the variables.
LEMMA ExtraBlocksType ==
    ASSUME NEW r \in RequestRecord
    PROVE  SseBlocks(r) \in Seq(Seq(Byte)) /\ WebSocketBlocks(r) \in Seq(Seq(Byte))
                                           /\ VariableBlocks(r) \in Seq(Seq(Byte))
<1>1. /\ "sys" \in Parts /\ "cgi" \in Parts /\ "sse" \in Parts /\ "ws" \in Parts /\ "wsfunction" \in Parts
      /\ "variable" \in Parts
  BY DEF Parts, Sorts
<1>2. <<>> \in Seq(Seq(Byte))
  BY EmptySeq
<1>3. SseBlocks(r) \in Seq(Seq(Byte))
  <2> DEFINE b == Block("sys", Sse)
  <2>1. Sse \in Seq(Byte)
    BY <1>1, TextType DEF Sse
  <2>2. b \in Seq(Byte)
    BY <1>1, <2>1, BlockType
  <2> HIDE DEF b
  <2>3. <<b>> \in Seq(Seq(Byte))
    BY <2>2
  <2> QED BY <1>2, <2>3 DEF SseBlocks, b
<1>4. WebSocketBlocks(r) \in Seq(Seq(Byte))
  <2> DEFINE f == [k \in 1..2 |-> Block("sys", WebSocket[k])]
  <2>1. Text("ws", 0, 4) \in Seq(Byte) /\ Text("wsfunction", 0, 12) \in Seq(Byte)
    BY <1>1, TextType
  <2>2. \A k \in 1..2 : WebSocket[k] \in Seq(Byte)
    <3> TAKE k \in 1..2
    <3>1. CASE k = 1
      BY <2>1, <3>1 DEF WebSocket
    <3>2. CASE k = 2
      BY <2>1, <3>2 DEF WebSocket
    <3> QED BY <3>1, <3>2
  <2>3. f \in Seq(Seq(Byte))
    BY <1>1, <2>2, BlocksType
  <2> HIDE DEF f
  <2> QED BY <1>2, <2>3 DEF WebSocketBlocks, f
<1>5. VariableBlocks(r) \in Seq(Seq(Byte))
  <2> DEFINE n == Len(r.variables)
             texts == [k \in 1..n |-> Variable(r, k)]
  <2>1. r.variables \in Seq(Nat)
    BY DEF RequestRecord
  <2>2. n \in Nat /\ DOMAIN r.variables = 1..n /\ \A k \in 1..n : r.variables[k] \in Nat
    BY <2>1, LenProperties, ElementOfSeq
  <2> HIDE DEF n
  <2>3. \A k \in 1..n : texts[k] \in Seq(Byte)
    <3> TAKE k \in 1..n
    <3>1. k \in Nat /\ r.variables[k] \in Nat
      BY <2>2
    <3> QED BY <1>1, <3>1, TextType DEF Variable
  <2>4. VariableBlocks(r) = [k \in 1..n |-> Block("cgi", texts[k])]
    BY <2>2 DEF VariableBlocks
  <2> HIDE DEF texts
  <2>5. [k \in 1..n |-> Block("cgi", texts[k])] \in Seq(Seq(Byte))
    BY <1>1, <2>2, <2>3, BlocksType
  <2> QED BY <2>4, <2>5
<1> QED BY <1>3, <1>4, <1>5

\* What a request begins with, up to its variables.
LEMMA OpenedType ==
    ASSUME NEW r \in RequestRecord
    PROVE  Opened(r) \in Seq(Byte) /\ Parameters \in Seq(Byte) /\ Len(Parameters) + 5 <= Len(Opened(r))
<1> DEFINE s1 == Block("data", Routine)
           s2 == Block("data", <<>>)
           s3 == [i \in 1..HeadLen |-> Unwritten]
           s4 == FlattenSeq(VariableBlocks(r))
           x == Parameters \o s3
<1>1. "data" \in Parts /\ "dbxweb^%zmgsis" \in Parts
  BY DEF Parts, Sorts
<1>2. s1 \in Seq(Byte) /\ s2 \in Seq(Byte)
  <2>1. Routine \in Seq(Byte)
    BY <1>1, TextType DEF Routine
  <2>2. <<>> \in Seq(Byte)
    BY EmptySeq
  <2> QED BY <1>1, <2>1, <2>2, BlockType
<1>3. s3 \in Seq(Byte) /\ Len(s3) = 5
  <2>1. HeadLen = 5
    BY DEF HeadLen
  <2>2. \A i \in 1..5 : Unwritten \in Byte
    BY NulType
  <2>3. [i \in 1..5 |-> Unwritten] \in Seq(Byte) /\ Len([i \in 1..5 |-> Unwritten]) = 5
    BY <2>2, IsASeq
  <2> QED BY <2>1, <2>3
<1>4. s4 \in Seq(Byte)
  BY ExtraBlocksType, FlattenType
<1> HIDE DEF s1, s2, s3, s4
<1>5. s1 \o s2 \in Seq(Byte)
  BY ONLY <1>2, ConcatProperties
<1>6. Parameters \in Seq(Byte)
  BY <1>5 DEF Parameters, s1, s2
<1>7. x \in Seq(Byte)
  BY ONLY <1>3, <1>6, ConcatProperties
<1>8. Len(x) = Len(Parameters) + Len(s3)
  BY ONLY <1>3, <1>6, ConcatProperties
<1> HIDE DEF x
<1>9. x \o s4 \in Seq(Byte)
  BY ONLY <1>4, <1>7, ConcatProperties
<1>10. Len(x \o s4) = Len(x) + Len(s4)
  BY ONLY <1>4, <1>7, ConcatProperties
<1>11. Opened(r) = x \o s4
  BY DEF Opened, x, s3, s4
<1>12. Len(s4) \in Nat /\ Len(Parameters) \in Nat
  BY <1>4, <1>6, LenProperties
<1>13. Len(Parameters) + 5 <= Len(x \o s4)
  BY <1>3, <1>8, <1>10, <1>12
<1> QED BY <1>6, <1>9, <1>11, <1>13

\* What is packed ends with the blocks of the fields, and those that follow them.
LEMMA PackedType ==
    ASSUME NEW r \in RequestRecord
    PROVE  /\ Packed(r) \in Seq(Byte)
           /\ Len(Opened(r)) + Len(FlattenSeq(FieldBlocks)) <= Len(Packed(r))
           /\ ~r.websocket => Len(Packed(r)) = Len(Opened(r)) + Len(FlattenSeq(FieldBlocks \o SseBlocks(r)))
           /\ Len(FlattenSeq(FieldBlocks)) \in Nat
<1> DEFINE X == Seq(Byte)
           f == FieldBlocks
           s == SseBlocks(r)
           w == WebSocketBlocks(r)
           fs == f \o s
           all == fs \o w
           o == Opened(r)
<1>1. f \in Seq(X) /\ s \in Seq(X) /\ w \in Seq(X)
  BY FieldBlocksType, ExtraBlocksType
<1> HIDE DEF f, s, w
<1>2. fs \in Seq(X)
  <2> HIDE DEF X
  <2> QED BY ONLY <1>1, ConcatProperties
<1>3. FlattenSeq(fs) = FlattenSeq(f) \o FlattenSeq(s)
  BY <1>1, FlattenConcat
<1> HIDE DEF fs
<1>4. all \in Seq(X)
  <2> HIDE DEF X
  <2> QED BY ONLY <1>1, <1>2, ConcatProperties
<1>5. FlattenSeq(all) = FlattenSeq(fs) \o FlattenSeq(w)
  BY <1>1, <1>2, FlattenConcat
<1> HIDE DEF all
<1>6. o \in Seq(Byte)
  BY OpenedType
<1> DEFINE ff == FlattenSeq(f)
           ss == FlattenSeq(s)
           ww == FlattenSeq(w)
           ffss == FlattenSeq(fs)
           aa == FlattenSeq(all)
<1>7. ff \in Seq(Byte) /\ ss \in Seq(Byte) /\ ww \in Seq(Byte) /\ ffss \in Seq(Byte) /\ aa \in Seq(Byte)
  BY <1>1, <1>2, <1>4, FlattenType
<1>8. ffss = ff \o ss /\ aa = ffss \o ww
  BY <1>3, <1>5
<1>9. w = <<>> => aa = ffss
  <2> SUFFICES ASSUME w = <<>> PROVE aa = ffss
    OBVIOUS
  <2>1. fs \o <<>> = fs
    <3> HIDE DEF X
    <3> QED BY <1>2, ConcatEmptySeq
  <2> QED BY <2>1 DEF all
<1> HIDE DEF ff, ss, ww, ffss, aa, o
<1>10. Len(ff \o ss) = Len(ff) + Len(ss)
  BY ONLY <1>7, ConcatProperties
<1>11. Len(ffss \o ww) = Len(ffss) + Len(ww)
  BY ONLY <1>7, ConcatProperties
<1>12. Len(o \o aa) = Len(o) + Len(aa)
  BY ONLY <1>6, <1>7, ConcatProperties
<1>13. o \o aa \in Seq(Byte)
  BY ONLY <1>6, <1>7, ConcatProperties
<1>14. Packed(r) = o \o aa
  BY DEF Packed, o, aa, all, fs, f, s, w
<1>15. /\ Len(ff) \in Nat /\ Len(ss) \in Nat /\ Len(ww) \in Nat /\ Len(ffss) \in Nat /\ Len(aa) \in Nat
       /\ Len(o) \in Nat
  BY ONLY <1>6, <1>7, LenProperties
<1>16. Len(o) + Len(ff) <= Len(Packed(r))
  <2>1. Len(Packed(r)) = Len(o) + Len(aa) /\ Len(aa) = Len(ffss) + Len(ww) /\ Len(ffss) = Len(ff) + Len(ss)
    BY <1>8, <1>10, <1>11, <1>12, <1>14
  <2> DEFINE q == Len(Packed(r))
  <2> HIDE DEF q
  <2>2. q = Len(o) + Len(aa)
    BY <2>1 DEF q
  <2>3. Len(o) + Len(ff) <= q
    BY ONLY <1>15, <2>1, <2>2
  <2> QED BY <2>3 DEF q
<1>17. ~r.websocket => Len(Packed(r)) = Len(o) + Len(ffss)
  <2>1. ~r.websocket => w = <<>>
    BY DEF WebSocketBlocks, w
  <2> QED BY <1>9, <1>12, <1>14, <2>1
<1> QED BY <1>13, <1>14, <1>15, <1>16, <1>17 DEF o, ff, ffss, fs, f, s

\* A field has its room in what is packed.
LEMMA FieldInside ==
    ASSUME NEW r \in RequestRecord, NEW name, Field(name) \in 1..7
    PROVE  /\ ValueAt(r, name) \in Nat /\ ValueAt(r, name) > 0
           /\ ValueAt(r, name) + Fields[Field(name)].room <= Len(Packed(r)) + 1
<1> DEFINE k == Field(name)
           before == Len(FlattenSeq(SubSeq(FieldBlocks, 1, k - 1)))
           block == Len(FieldBlocks[k])
           flat == Len(FlattenSeq(FieldBlocks))
           o == Len(Opened(r))
           prefix == Fields[k].prefix
           room == Fields[k].room
           packed == Len(Packed(r))
           v == ValueAt(r, name)
<1>1. k \in 1..7
  OBVIOUS
<1>2. v = o + before + HeadLen + prefix + 1
  BY DEF ValueAt
<1> HIDE DEF k
<1>3. block = 5 + (prefix + room) /\ prefix \in Nat /\ room \in Nat
  BY <1>1, FieldBlockType, FieldLengths
<1>4. before \in Nat /\ before + block <= flat
  <2>1. FieldBlocks \in Seq(Seq(Byte)) /\ Len(FieldBlocks) = 7 /\ k \in 1..Len(FieldBlocks)
    BY <1>1, FieldBlocksType
  <2>2. FlattenSeq(SubSeq(FieldBlocks, 1, k - 1)) \in Seq(Byte) /\ before + block <= flat
    BY <2>1, FlattenPrefix
  <2> QED BY <2>2, LenProperties
<1>5. o \in Nat /\ flat \in Nat /\ o + flat <= packed /\ packed \in Nat
  BY OpenedType, PackedType, LenProperties
<1>6. HeadLen = 5
  BY DEF HeadLen
<1> HIDE DEF before, block, flat, o, prefix, room, packed, v
<1>7. v \in Nat /\ v > 0 /\ v + room <= packed + 1
  BY ONLY <1>2, <1>3, <1>4, <1>5, <1>6
<1> QED BY <1>7 DEF v, room, packed, k

\* The pointers of a request, the places of which that mg_web_execute writes to.
PointersInside(r, p) ==
    /\ \A name \in {"server", "serverno", "requestno", "requestkey", "mode"} : p[name] \in Nat /\ p[name] > 0
    /\ p.server + 32 <= Len(Packed(r)) + 1
    /\ p.serverno + 2 <= Len(Packed(r)) + 1
    /\ p.requestno + 4 <= Len(Packed(r)) + 1
    /\ p.requestkey + 10 <= Len(Packed(r)) + 1
    /\ p.mode + 3 <= Len(Packed(r)) + 4

\* What each pointer of a request points to was packed.
LEMMA PointersStayInside ==
    ASSUME NEW r \in RequestRecord, r.websocket => ~r.sse
    PROVE  PointersInside(r, Pointers(r))
<1> DEFINE p == Pointers(r)
           packed == Len(Packed(r))
<1>1. packed \in Nat
  BY PackedType, LenProperties
<1>2. /\ p.server = ValueAt(r, "server") /\ p.serverno = ValueAt(r, "server_no")
      /\ p.requestno = ValueAt(r, "no") /\ p.requestkey = ValueAt(r, "key")
      /\ p.mode = IF r.sse THEN Len(Opened(r)) + Len(FlattenSeq(FieldBlocks \o SseBlocks(r))) + 1
                           ELSE ValueAt(r, "mode")
  BY DEF Pointers
<1> HIDE DEF p
<1>3. p.server \in Nat /\ p.server > 0 /\ p.server + 32 <= packed + 1
  <2> DEFINE v == ValueAt(r, "server")
  <2>1. v \in Nat /\ v > 0 /\ v + 32 <= packed + 1
    <3>1. Field("server") = 1 /\ Field("server") \in 1..7 /\ Fields[Field("server")].room = 32
      BY FieldPlaces, Rooms
    <3> QED BY <3>1, FieldInside
  <2>2. p.server = v
    BY <1>2
  <2> HIDE DEF v
  <2> QED BY <2>1, <2>2
<1>4. p.serverno \in Nat /\ p.serverno > 0 /\ p.serverno + 2 <= packed + 1
  <2> DEFINE v == ValueAt(r, "server_no")
  <2>1. v \in Nat /\ v > 0 /\ v + 2 <= packed + 1
    <3>1. Field("server_no") = 2 /\ Field("server_no") \in 1..7 /\ Fields[Field("server_no")].room = 2
      BY FieldPlaces, Rooms
    <3> QED BY <3>1, FieldInside
  <2>2. p.serverno = v
    BY <1>2
  <2> HIDE DEF v
  <2> QED BY <2>1, <2>2
<1>5. p.requestno \in Nat /\ p.requestno > 0 /\ p.requestno + 4 <= packed + 1
  <2> DEFINE v == ValueAt(r, "no")
  <2>1. v \in Nat /\ v > 0 /\ v + 4 <= packed + 1
    <3>1. Field("no") = 5 /\ Field("no") \in 1..7 /\ Fields[Field("no")].room = 4
      BY FieldPlaces, Rooms
    <3> QED BY <3>1, FieldInside
  <2>2. p.requestno = v
    BY <1>2
  <2> HIDE DEF v
  <2> QED BY <2>1, <2>2
<1>6. p.requestkey \in Nat /\ p.requestkey > 0 /\ p.requestkey + 10 <= packed + 1
  <2> DEFINE v == ValueAt(r, "key")
  <2>1. v \in Nat /\ v > 0 /\ v + 10 <= packed + 1
    <3>1. Field("key") = 6 /\ Field("key") \in 1..7 /\ Fields[Field("key")].room = 10
      BY FieldPlaces, Rooms
    <3> QED BY <3>1, FieldInside
  <2>2. p.requestkey = v
    BY <1>2
  <2> HIDE DEF v
  <2> QED BY <2>1, <2>2
<1>7. p.mode \in Nat /\ p.mode > 0 /\ p.mode + 3 <= packed + 4
  <2>1. CASE r.sse
    <3>1. p.mode = packed + 1
      BY <1>2, <2>1, PackedType
    <3> HIDE DEF packed
    <3> QED BY <1>1, <3>1
  <2>2. CASE ~r.sse
    <3> DEFINE v == ValueAt(r, "mode")
    <3>1. v \in Nat /\ v > 0 /\ v + 3 <= packed + 1
      <4>1. Field("mode") = 7 /\ Field("mode") \in 1..7 /\ Fields[Field("mode")].room = 3
        BY FieldPlaces, Rooms
      <4> QED BY <4>1, FieldInside
    <3>2. p.mode = v
      BY <1>2, <2>2
    <3> HIDE DEF v, packed
    <3> QED BY <1>1, <3>1, <3>2
  <2> QED BY <2>1, <2>2
<1> QED BY <1>3, <1>4, <1>5, <1>6, <1>7 DEF PointersInside, p, packed

---------------------------------------------------------------------------
(* The inductive invariant *)

\* What is left when all blocks of the request are packed and their ends are
\* written; a block of a long content goes to the end of the buffer, with its
\* head beyond it; each attempt takes five bytes.
Before == {"pack", "content", "close"}
After == {"obtain", "execute", "sent", "done", "failed"}

MemoryType ==
    /\ req \in Requests /\ buf \in Seq(Byte) /\ used \in Nat /\ content \in Nat /\ long \in BOOLEAN
    /\ failovers \in Nat /\ executed \in Nat /\ pc \in Before \cup After
    /\ pc \in {"execute", "sent"} => server \in Servers

PointersNoted ==
    pc # "pack" => at = Pointers(req) /\ offs = Len(Parameters) /\ Len(Packed(req)) <= used

AttemptsBounded ==
    /\ failovers <= Cardinality(Servers) /\ executed <= failovers + 1
    /\ pc \in {"obtain", "execute"} => executed <= failovers
    /\ pc \in Before => executed = 0

RoomLeft ==
    /\ pc = "pack" => buf = <<>>
    /\ pc = "content" => used = Len(Packed(req)) /\ Len(buf) = Len(Packed(req))
    /\ pc = "close" => used + 11 <= Alloc /\ Len(buf) <= Alloc + 5
    /\ pc \in After => /\ used + 1 <= Alloc + 5 * executed
                       /\ Len(buf) <= Alloc + 5 \/ Len(buf) + 1 <= Alloc + 5 * executed

MemoryInv == MemoryType /\ PointersNoted /\ AttemptsBounded /\ RoomLeft

\* A write that ends in the memory stays there.
LEMMA PutInside ==
    ASSUME NEW b \in Seq(Byte), NEW p \in Nat, NEW bytes \in Seq(Byte), NEW m \in Nat,
           p > 0, Len(b) <= m, p + Len(bytes) <= m + 1
    PROVE  Put(b, p, bytes) \in Seq(Byte) /\ Len(Put(b, p, bytes)) <= m
<1> DEFINE q == Put(b, p, bytes)
           l == Len(b)
           c == Len(bytes)
<1>1. q \in Seq(Byte) /\ Len(q) = IF p + c - 1 <= l THEN l ELSE p + c - 1
  BY PutType
<1>2. l \in Nat /\ c \in Nat
  BY LenProperties
<1> HIDE DEF q, l
<1>3. p + c <= m + 1 /\ l <= m
  BY DEF l
<1> HIDE DEF c
<1>4. Len(q) <= m
  BY <1>1, <1>2, <1>3
<1> QED BY <1>1, <1>4 DEF q

\* The sizes of a request, for which the assumption leaves room.
Sizes(r, packed, alloc, block) ==
    /\ packed \in Nat /\ alloc \in Nat /\ block \in Nat
    /\ packed + 21 <= alloc /\ packed + 21 <= block /\ block <= alloc
    /\ Len(Opened(r)) \in Nat /\ Len(Opened(r)) <= packed
    /\ Len(Parameters) \in Nat /\ Len(Parameters) + 5 <= packed
    /\ r \in RequestRecord /\ r.len \in Nat

\* The sizes that RequestBufferAssumption gives each request leave it room.
LEMMA SizesLeaveRoom ==
    ASSUME req \in Requests
    PROVE  Sizes(req, Len(Packed(req)), Alloc, Min({Alloc, req.limit}))
<1> DEFINE p == Len(Packed(req))
           size == Max({Spare + req.len, Configured})
           a == Alloc
           m == Min({a, req.limit})
           l == req.limit
<1>1. req \in RequestRecord /\ req.len \in Nat /\ l \in Nat
      /\ Spare \in Nat /\ Configured \in Nat /\ MaxAlloc \in Nat
  <2>1. req \in RequestRecord /\ {Spare, Configured, MaxAlloc} \subseteq Nat
    BY RequestBufferAssumption
  <2> QED BY <2>1 DEF RequestRecord
<1>2. p + 20 < Spare /\ p + 20 < MaxAlloc /\ p + 20 < l
  <2>1. \A s \in {Spare, MaxAlloc, req.limit} : Len(Packed(req)) + 20 < s
    BY RequestBufferAssumption
  <2> QED BY <2>1
<1>3. /\ Len(Opened(req)) \in Nat /\ Len(Parameters) \in Nat /\ Len(Parameters) + 5 <= Len(Opened(req))
      /\ Len(FlattenSeq(FieldBlocks)) \in Nat
      /\ Len(Opened(req)) + Len(FlattenSeq(FieldBlocks)) <= p
      /\ p \in Nat
  BY <1>1, OpenedType, PackedType, LenProperties
<1> HIDE DEF p, l
<1>4. size \in Nat /\ size >= Spare + req.len
  <2>1. Spare + req.len \in Nat /\ Configured \in Nat
    BY <1>1
  <2>2. size = IF Spare + req.len >= Configured THEN Spare + req.len ELSE Configured
    BY <2>1, MaxOfTwo
  <2> HIDE DEF size
  <2> QED BY <2>1, <2>2
<1>5. a = IF size > MaxAlloc THEN MaxAlloc + 1 ELSE size
  BY DEF Alloc
<1> HIDE DEF a, size
<1>6. a \in Nat /\ p + 21 <= a
  <2>1. CASE size > MaxAlloc
    <3>1. a = MaxAlloc + 1
      BY <1>5, <2>1
    <3> QED BY <1>1, <1>2, <1>3, <3>1
  <2>2. CASE ~(size > MaxAlloc)
    <3>1. a = size
      BY <1>5, <2>2
    <3> QED BY <1>1, <1>2, <1>3, <1>4, <3>1
  <2> QED BY <2>1, <2>2
<1>7. m = IF a <= l THEN a ELSE l
  BY <1>1, <1>6, MinOfTwo DEF l
<1> HIDE DEF m
<1>8. m \in Nat /\ p + 21 <= m /\ m <= a
  BY <1>1, <1>2, <1>3, <1>6, <1>7
<1>9. Len(Opened(req)) <= p /\ Len(Parameters) + 5 <= p
  <2> DEFINE x == Len(Opened(req))
             y == Len(Parameters)
             z == Len(FlattenSeq(FieldBlocks))
  <2> HIDE DEF x, y, z
  <2>1. x \in Nat /\ y \in Nat /\ z \in Nat /\ y + 5 <= x /\ x + z <= p /\ p \in Nat
    BY <1>3 DEF x, y, z
  <2>2. x <= p /\ y + 5 <= p
    BY <2>1
  <2> QED BY <2>2 DEF x, y
<1> QED BY <1>1, <1>3, <1>6, <1>8, <1>9 DEF Sizes, p, a, m, l

LEMMA PayloadType ==
    ASSUME NEW len \in Nat
    PROVE  /\ Block("content", Payload(len)) \in Seq(Byte)
           /\ Len(Block("content", Payload(len))) = 5 + len
<1>1. "content" \in Parts /\ "payload" \in Parts
  BY DEF Parts, Sorts
<1>2. Payload(len) \in Seq(Byte) /\ Len(Payload(len)) = len
  BY <1>1, TextType DEF Payload
<1> QED BY <1>1, <1>2, BlockType

\* The pieces that mg_web_process adds have fixed lengths.
LEMMA SmallBlocks ==
    /\ EndOfData \in Seq(Byte) /\ Len(EndOfData) = 5
    /\ Block("data", <<>>) \in Seq(Byte) /\ Len(Block("data", <<>>)) = 5
    /\ Key \in Seq(Byte) /\ Len(Key) = 8
<1>1. "eod" \in Parts /\ "data" \in Parts /\ "pid" \in Parts /\ "requestno" \in Parts
  BY DEF Parts, Sorts
<1>2. EndOfData \in Seq(Byte) /\ Len(EndOfData) = 5
  BY <1>1, HeadType DEF EndOfData
<1>3. Block("data", <<>>) \in Seq(Byte) /\ Len(Block("data", <<>>)) = 5
  <2>1. <<>> \in Seq(Byte) /\ Len(<<>>) = 0
    BY EmptySeq
  <2>2. Block("data", <<>>) \in Seq(Byte) /\ Len(Block("data", <<>>)) = 5 + Len(<<>>)
    BY <1>1, <2>1, BlockType
  <2> QED BY <2>1, <2>2
<1>4. Key \in Seq(Byte) /\ Len(Key) = 8
  <2> DEFINE u == Text("pid", 0, 4)
             v == Text("requestno", 0, 4)
  <2>1. u \in Seq(Byte) /\ v \in Seq(Byte) /\ Len(u) = 4 /\ Len(v) = 4
    BY <1>1, TextType
  <2> HIDE DEF u, v
  <2>2. u \o v \in Seq(Byte)
    BY ONLY <2>1, ConcatProperties
  <2>3. Len(u \o v) = Len(u) + Len(v)
    BY ONLY <2>1, ConcatProperties
  <2>4. Len(u \o v) = 8
    BY <2>1, <2>3
  <2> QED BY <2>2, <2>4 DEF Key, u, v
<1> QED BY <1>2, <1>3, <1>4

\* What is written for a server fits in the rooms of its fields.
LEMMA ServerTexts ==
    ASSUME NEW s \in Servers
    PROVE  /\ NameOf(s) \in Seq(Byte) /\ Len(NameOf(s)) <= 32
           /\ Text("serverno", s, 2) \in Seq(Byte) /\ Len(Text("serverno", s, 2)) = 2
           /\ Text("requestno", 0, 4) \in Seq(Byte) /\ Len(Text("requestno", 0, 4)) = 4
           /\ Text(Link[s], 0, 3) \in Seq(Byte) /\ Len(Text(Link[s], 0, 3)) = 3
<1>1. "name" \in Parts /\ "serverno" \in Parts /\ "requestno" \in Parts /\ "tcp" \in Parts /\ "api" \in Parts
  BY DEF Parts, Sorts
<1>2. s \in Nat /\ Link[s] \in {"tcp", "api"} /\ NameLength[s] \in Nat /\ NameLength[s] <= 31
  <2>1. NameLength[s] \in 1..31
    BY RequestBufferAssumption
  <2>2. s \in Nat /\ Link[s] \in {"tcp", "api"}
    BY RequestBufferAssumption
  <2> QED BY <2>1, <2>2
<1>3. NameOf(s) \in Seq(Byte) /\ Len(NameOf(s)) <= 32
  <2> DEFINE u == Text("name", s, NameLength[s])
             v == <<Nul>>
  <2>1. u \in Seq(Byte) /\ Len(u) = NameLength[s]
    <3>1. s \in Nat /\ NameLength[s] \in Nat /\ "name" \in Parts
      BY <1>1, <1>2
    <3> QED BY ONLY <3>1, TextType
  <2>2. v \in Seq(Byte) /\ Len(v) = 1
    <3>1. Nul \in Byte
      BY NulType
    <3> QED BY <3>1
  <2> HIDE DEF u, v
  <2>3. u \o v \in Seq(Byte)
    BY ONLY <2>1, <2>2, ConcatProperties
  <2>4. Len(u \o v) = Len(u) + Len(v)
    BY ONLY <2>1, <2>2, ConcatProperties
  <2>5. Len(u \o v) = NameLength[s] + 1
    BY <2>1, <2>2, <2>4
  <2>6. Len(u \o v) <= 32
    BY <1>2, <2>5
  <2> QED BY <2>3, <2>6 DEF NameOf, u, v
<1>4. Link[s] \in Parts
  BY <1>1, <1>2
<1>5. Text("serverno", s, 2) \in Seq(Byte) /\ Len(Text("serverno", s, 2)) = 2
  <2>1. s \in Nat /\ 2 \in Nat /\ "serverno" \in Parts
    BY <1>1, <1>2
  <2> QED BY ONLY <2>1, TextType
<1>6. Text("requestno", 0, 4) \in Seq(Byte) /\ Len(Text("requestno", 0, 4)) = 4
  <2>1. 0 \in Nat /\ 4 \in Nat /\ "requestno" \in Parts
    BY <1>1
  <2> QED BY ONLY <2>1, TextType
<1>7. Text(Link[s], 0, 3) \in Seq(Byte) /\ Len(Text(Link[s], 0, 3)) = 3
  <2>1. 0 \in Nat /\ 3 \in Nat /\ Link[s] \in Parts
    BY <1>4
  <2> QED BY ONLY <2>1, TextType
<1> QED BY <1>3, <1>5, <1>6, <1>7

---------------------------------------------------------------------------
(* The steps *)

LEMMA InitMemory == Init => MemoryInv
<1> SUFFICES ASSUME Init PROVE MemoryInv
  OBVIOUS
<1>1. Cardinality(Servers) \in Nat
  BY RequestBufferAssumption, FS_CardinalityType
<1>2. <<>> \in Seq(Byte)
  BY EmptySeq
<1>3. MemoryType
  BY <1>2 DEF Init, MemoryType, Before
<1>4. PointersNoted /\ AttemptsBounded /\ RoomLeft
  BY <1>1 DEF Init, PointersNoted, AttemptsBounded, RoomLeft, Before, After
<1> QED BY <1>3, <1>4 DEF MemoryInv

\* One lemma for each step of the request.
LEMMA PackMemory == MemoryInv /\ Pack => MemoryInv'
<1> SUFFICES ASSUME MemoryInv, Pack PROVE MemoryInv'
  OBVIOUS
<1> DEFINE p == Len(Packed(req))
<1>1. /\ pc = "pack" /\ buf' = Packed(req) /\ used' = p /\ offs' = Len(Parameters) /\ at' = Pointers(req)
      /\ pc' = "content" /\ req' = req /\ content' = content /\ long' = long /\ server' = server
      /\ failovers' = failovers /\ executed' = executed
  BY DEF Pack, large, attempt
<1>2. MemoryType /\ AttemptsBounded
  BY DEF MemoryInv
<1>3. Packed(req) \in Seq(Byte) /\ p \in Nat
  <2>1. req \in RequestRecord
    BY <1>2, RequestBufferAssumption DEF MemoryType
  <2>2. Packed(req) \in Seq(Byte)
    BY <2>1, PackedType
  <2> QED BY <2>2, LenProperties
<1>4. MemoryType'
  BY <1>1, <1>2, <1>3 DEF MemoryType, Before, After
<1>5. Len(buf') = p /\ Packed(req') = Packed(req) /\ Pointers(req') = Pointers(req)
  BY <1>1
<1> HIDE DEF p
<1>6. PointersNoted'
  BY <1>1, <1>3, <1>5 DEF PointersNoted, p
<1>7. AttemptsBounded'
  BY <1>1, <1>2 DEF AttemptsBounded, Before
<1>8. RoomLeft'
  BY <1>1, <1>5 DEF RoomLeft, After, p
<1> QED BY <1>4, <1>6, <1>7, <1>8 DEF MemoryInv

\* What the steps with the content have in common: the buffer grows, and nothing else
\* that was noted changes.
ContentTaken ==
    /\ pc = "content" /\ pc' = "close"
    /\ req' = req /\ at' = at /\ offs' = offs /\ server' = server /\ failovers' = failovers /\ executed' = executed
    /\ long' \in BOOLEAN /\ content' \in Nat
    /\ used' \in Nat /\ used' >= used /\ used' + 11 <= Alloc
    /\ buf' \in Seq(Byte) /\ Len(buf') <= Alloc + 5

LEMMA ContentMemory == MemoryInv /\ ContentTaken => MemoryInv'
<1> SUFFICES ASSUME MemoryInv, ContentTaken PROVE MemoryInv'
  OBVIOUS
<1> USE DEF ContentTaken
<1>1. MemoryType /\ PointersNoted /\ AttemptsBounded
  BY DEF MemoryInv
<1>2. MemoryType'
  BY <1>1 DEF MemoryType, Before, After
<1>3. PointersNoted'
  <2>1. at = Pointers(req) /\ offs = Len(Parameters) /\ Len(Packed(req)) <= used /\ used \in Nat
    BY <1>1 DEF PointersNoted, MemoryType
  <2>2. Len(Packed(req)) \in Nat
    BY <1>1, SizesLeaveRoom DEF Sizes, MemoryType
  <2>3. Len(Packed(req)) <= used'
    <3> DEFINE p == Len(Packed(req))
    <3>1. p \in Nat /\ p <= used /\ used \in Nat /\ used' \in Nat /\ used <= used'
      BY <2>1, <2>2
    <3> HIDE DEF p
    <3>2. p <= used'
      BY ONLY <3>1
    <3> QED BY <3>2 DEF p
  <2> QED BY <2>1, <2>3 DEF PointersNoted
<1>4. AttemptsBounded'
  BY <1>1 DEF AttemptsBounded, Before
<1>5. RoomLeft'
  <2>1. Alloc' = Alloc
    BY DEF Alloc
  <2> QED BY <2>1 DEF RoomLeft, After
<1> QED BY <1>2, <1>3, <1>4, <1>5 DEF MemoryInv

\* Each kind of content leaves the room that ContentTaken asks for.
LEMMA FirstBlockTaken ==
    ASSUME MemoryInv, pc = "content", NEW len \in Nat, len <= BlockSize, FirstBlock(len)
    PROVE  ContentTaken
<1> DEFINE p == Len(Packed(req))
           a == Alloc
           m == Min({Alloc, req.limit})
           bytes == Block("content", Payload(len))
<1>1. req \in Requests /\ content \in Nat /\ buf \in Seq(Byte) /\ used = p /\ Len(buf) = p
  BY DEF MemoryInv, MemoryType, RoomLeft
<1>2. p \in Nat /\ a \in Nat /\ m \in Nat /\ p + 21 <= a /\ m <= a
  BY <1>1, SizesLeaveRoom DEF Sizes
<1>3. BlockSize = m - (p + 15)
  BY <1>1 DEF BlockSize
<1> HIDE DEF p, a, m
<1>4. len + p + 15 <= m
  BY <1>2, <1>3
<1>5. /\ pc' = "close" /\ long' = TRUE /\ content' = used + ContentRoom - HeadLen + 1
      /\ buf' = Put(buf, content', bytes)
      /\ req' = req /\ used' = used /\ offs' = offs /\ at' = at
      /\ server' = server /\ failovers' = failovers /\ executed' = executed
  BY DEF FirstBlock, attempt
<1>6. content' = p + 16
  BY <1>1, <1>2, <1>5 DEF ContentRoom, HeadLen
<1>7. bytes \in Seq(Byte) /\ Len(bytes) = 5 + len
  BY PayloadType
<1> HIDE DEF bytes
<1>8. buf' \in Seq(Byte) /\ Len(buf') <= a + 5
  <2>1. p + 16 \in Nat /\ p + 16 > 0 /\ a + 5 \in Nat /\ Len(buf) <= a + 5
    BY <1>1, <1>2
  <2>2. (p + 16) + Len(bytes) <= (a + 5) + 1
    BY <1>2, <1>4, <1>7
  <2> QED BY <1>1, <1>5, <1>6, <1>7, <2>1, <2>2, PutInside
<1>9. used' \in Nat /\ used' >= used /\ used' + 11 <= a
  BY <1>1, <1>2, <1>5
<1>10. content' \in Nat
  BY <1>2, <1>6
<1> QED BY <1>5, <1>8, <1>9, <1>10 DEF ContentTaken, a

LEMMA AnyContentTaken ==
    ASSUME MemoryInv, NoContent \/ InlineContent \/ LongContent \/ ChunkedContent
    PROVE  ContentTaken
<1> DEFINE p == Len(Packed(req))
           a == Alloc
           m == Min({Alloc, req.limit})
<1>1. pc = "content"
  BY DEF NoContent, InlineContent, LongContent, ChunkedContent
<1>2. req \in Requests /\ content \in Nat /\ long \in BOOLEAN /\ buf \in Seq(Byte) /\ used = p /\ Len(buf) = p
  BY <1>1 DEF MemoryInv, MemoryType, RoomLeft
<1>3. p \in Nat /\ a \in Nat /\ m \in Nat /\ p + 21 <= a /\ p + 21 <= m /\ m <= a /\ req.len \in Nat
  BY <1>2, SizesLeaveRoom DEF Sizes
<1>4. BlockSize = m - (p + 15)
  BY <1>2 DEF BlockSize
<1> HIDE DEF p, a, m
<1>5. BlockSize \in Nat /\ BlockSize >= 6
  BY <1>3, <1>4
<1>6. CASE NoContent
  <2>1. /\ pc' = "close" /\ req' = req /\ buf' = buf /\ used' = used /\ offs' = offs /\ at' = at
        /\ long' = long /\ content' = content /\ server' = server /\ failovers' = failovers
        /\ executed' = executed
    BY <1>6 DEF NoContent, memory, large, attempt
  <2>2. used' \in Nat /\ used' >= used /\ used' + 11 <= a /\ Len(buf') <= a + 5
    BY <1>2, <1>3, <2>1
  <2> QED BY <1>1, <1>2, <2>1, <2>2 DEF ContentTaken, a
<1>7. CASE InlineContent
  <2> DEFINE n == req.len
             bytes == Block("content", Payload(n))
  <2>1. /\ pc' = "close" /\ req' = req /\ buf' = Put(buf, used + 1, bytes) /\ used' = used + HeadLen + n
        /\ offs' = offs /\ at' = at /\ n < BlockSize
        /\ long' = long /\ content' = content /\ server' = server /\ failovers' = failovers
        /\ executed' = executed
    BY <1>7 DEF InlineContent, large, attempt
  <2>2. bytes \in Seq(Byte) /\ Len(bytes) = 5 + n
    BY <1>3, PayloadType
  <2> HIDE DEF bytes, n
  <2>3. n \in Nat /\ n + p + 16 <= m
    BY <1>3, <1>4, <2>1 DEF n
  <2>4. used' = p + 5 + n
    BY <1>2, <2>1 DEF HeadLen
  <2>5. used' \in Nat /\ used' >= used /\ used' + 11 <= a
    BY <1>2, <1>3, <2>3, <2>4
  <2>6. buf' \in Seq(Byte) /\ Len(buf') <= a + 5
    <3>1. p + 1 \in Nat /\ p + 1 > 0 /\ a + 5 \in Nat /\ Len(buf) <= a + 5
      BY <1>2, <1>3
    <3>2. (p + 1) + Len(bytes) <= (a + 5) + 1
      BY <1>3, <2>2, <2>3
    <3>3. buf' = Put(buf, p + 1, bytes)
      BY <1>2, <2>1
    <3> QED BY <1>2, <2>2, <3>1, <3>2, <3>3, PutInside
  <2> QED BY <1>1, <1>2, <2>1, <2>5, <2>6 DEF ContentTaken, a
<1>8. CASE LongContent
  <2>1. FirstBlock(BlockSize)
    BY <1>8 DEF LongContent
  <2>2. BlockSize <= BlockSize
    BY <1>5
  <2> QED BY <1>1, <1>5, <2>1, <2>2, FirstBlockTaken
<1>9. CASE ChunkedContent
  <2>1. PICK len \in {0, 3, BlockSize} : FirstBlock(len)
    BY <1>9 DEF ChunkedContent
  <2>2. len \in Nat /\ len <= BlockSize
    BY <1>5
  <2> QED BY <1>1, <2>1, <2>2, FirstBlockTaken
<1> QED BY <1>6, <1>7, <1>8, <1>9

LEMMA CloseMemory == MemoryInv /\ CloseBlocks => MemoryInv'
<1> SUFFICES ASSUME MemoryInv, CloseBlocks PROVE MemoryInv'
  OBVIOUS
<1> DEFINE p == Len(Packed(req))
           a == Alloc
           o == Len(Parameters)
           head == BlockHead("data", used + HeadLen - (offs + HeadLen))
           ended == Put(buf, used + 1, EndOfData)
           sized == Put(ended, offs + 1, head)
           last == Put(sized, used + HeadLen + 1, Block("data", <<>>))
<1>1. MemoryType /\ PointersNoted /\ AttemptsBounded /\ RoomLeft
  BY DEF MemoryInv
<1>2. /\ pc = "close" /\ pc' = "obtain" /\ req' = req /\ offs' = offs /\ at' = at /\ long' = long
      /\ content' = content /\ server' = server /\ failovers' = failovers /\ executed' = executed
      /\ used' = used + 2 * HeadLen /\ buf' = last
  BY DEF CloseBlocks, large, attempt
<1>3. /\ req \in Requests /\ buf \in Seq(Byte) /\ used \in Nat /\ executed = 0 /\ p <= used /\ offs = o
      /\ used + 11 <= a /\ Len(buf) <= a + 5
  BY <1>1, <1>2 DEF MemoryType, PointersNoted, AttemptsBounded, RoomLeft, Before
<1>4. p \in Nat /\ a \in Nat /\ o \in Nat /\ o + 5 <= p
  BY <1>3, SizesLeaveRoom DEF Sizes
<1> HIDE DEF p, a, o
<1>5. used + HeadLen - (offs + HeadLen) \in Nat /\ "data" \in Parts
  <2>1. used + HeadLen - (offs + HeadLen) = used - o
    BY <1>3, <1>4 DEF HeadLen
  <2>2. "data" \in Parts
    BY DEF Parts, Sorts
  <2> QED BY <1>3, <1>4, <2>1, <2>2
<1>6. head \in Seq(Byte) /\ Len(head) = 5
  BY ONLY <1>5, HeadType
<1> HIDE DEF head, ended, sized, last
<1>7. EndOfData \in Seq(Byte) /\ Len(EndOfData) = 5 /\ Block("data", <<>>) \in Seq(Byte)
      /\ Len(Block("data", <<>>)) = 5
  BY SmallBlocks
<1>8. ended \in Seq(Byte) /\ Len(ended) <= a + 5
  <2>1. used + 1 \in Nat /\ used + 1 > 0 /\ a + 5 \in Nat /\ (used + 1) + Len(EndOfData) <= (a + 5) + 1
    BY <1>3, <1>4, <1>7
  <2> QED BY <1>3, <1>7, <2>1, PutInside DEF ended
<1>9. sized \in Seq(Byte) /\ Len(sized) <= a + 5
  <2>1. offs + 1 \in Nat /\ offs + 1 > 0 /\ a + 5 \in Nat /\ (offs + 1) + Len(head) <= (a + 5) + 1
    BY <1>3, <1>4, <1>6
  <2> QED BY <1>6, <1>8, <2>1, PutInside DEF sized
<1>10. last \in Seq(Byte) /\ Len(last) <= a + 5
  <2> DEFINE q == used + HeadLen + 1
             bytes == Block("data", <<>>)
  <2>1. q = used + 6
    BY <1>3 DEF HeadLen
  <2> HIDE DEF q, bytes
  <2>2. bytes \in Seq(Byte) /\ Len(bytes) = 5
    BY <1>7 DEF bytes
  <2>3. q \in Nat /\ q > 0 /\ a + 5 \in Nat /\ q + Len(bytes) <= (a + 5) + 1
    BY <1>3, <1>4, <2>1, <2>2
  <2>4. last = Put(sized, q, bytes)
    BY DEF last, q, bytes
  <2> QED BY <1>9, <2>2, <2>3, <2>4, PutInside
<1>11. used' = used + 10
  BY <1>2, <1>3 DEF HeadLen
<1>12. MemoryType'
  BY <1>1, <1>2, <1>3, <1>10, <1>11 DEF MemoryType, Before, After
<1>13. PointersNoted'
  <2>1. p <= used'
    BY <1>3, <1>4, <1>11
  <2>2. at = Pointers(req) /\ offs = Len(Parameters)
    BY <1>1, <1>2 DEF PointersNoted
  <2> QED BY <1>2, <2>1, <2>2 DEF PointersNoted, p
<1>14. AttemptsBounded'
  BY <1>1, <1>2, <1>3 DEF AttemptsBounded, Before, MemoryType
<1>15. RoomLeft'
  <2>1. Alloc' = a
    BY <1>2 DEF Alloc, a
  <2>2. used' + 1 <= a + 5 * executed' /\ Len(buf') <= a + 5
    BY <1>2, <1>3, <1>4, <1>10, <1>11
  <2> QED BY <1>2, <2>1, <2>2 DEF RoomLeft
<1> QED BY <1>12, <1>13, <1>14, <1>15 DEF MemoryInv

LEMMA ExecuteMemory == MemoryInv /\ Execute => MemoryInv'
<1> SUFFICES ASSUME MemoryInv, Execute PROVE MemoryInv'
  OBVIOUS
<1> DEFINE p == Len(Packed(req))
           a == Alloc
           m == IF executed = 0 THEN a + 5 ELSE a + 5 * executed + 4
           numbered == Put(buf, at.serverno, Text("serverno", server, 2))
           named == Put(numbered, at.server, NameOf(server))
           counted == Put(named, at.requestno, Text("requestno", 0, 4))
           keyed == IF long THEN Put(counted, at.requestkey, Key) ELSE counted
           ended == Put(keyed, used + 1, EndOfData)
           moded == Put(ended, at.mode, Text(Link[server], 0, 3))
<1>1. MemoryType /\ PointersNoted /\ AttemptsBounded /\ RoomLeft
  BY DEF MemoryInv
<1>2. /\ pc = "execute" /\ pc' = "sent" /\ req' = req /\ offs' = offs /\ at' = at /\ long' = long
      /\ content' = content /\ server' = server /\ failovers' = failovers /\ executed' = executed + 1
      /\ used' = used + HeadLen /\ buf' = moded
  BY DEF Execute, Addressed, large
<1>3. /\ req \in Requests /\ buf \in Seq(Byte) /\ used \in Nat /\ executed \in Nat /\ failovers \in Nat
      /\ server \in Servers /\ p <= used /\ at = Pointers(req)
      /\ used + 1 <= a + 5 * executed
      /\ Len(buf) <= a + 5 \/ Len(buf) + 1 <= a + 5 * executed
      /\ executed <= failovers
  BY <1>1, <1>2 DEF MemoryType, PointersNoted, AttemptsBounded, RoomLeft, After
<1>4. p \in Nat /\ a \in Nat /\ p + 21 <= a
  BY <1>3, SizesLeaveRoom DEF Sizes
<1>5. /\ at.server \in Nat /\ at.server > 0 /\ at.serverno \in Nat /\ at.serverno > 0
      /\ at.requestno \in Nat /\ at.requestno > 0 /\ at.requestkey \in Nat /\ at.requestkey > 0
      /\ at.mode \in Nat /\ at.mode > 0
      /\ at.server + 32 <= p + 1 /\ at.serverno + 2 <= p + 1 /\ at.requestno + 4 <= p + 1
      /\ at.requestkey + 10 <= p + 1 /\ at.mode + 3 <= p + 4
  <2>1. req \in RequestRecord /\ (req.websocket => ~req.sse)
    BY <1>3, RequestBufferAssumption
  <2>2. PointersInside(req, at)
    BY <1>3, <2>1, PointersStayInside
  <2> QED BY <2>2 DEF PointersInside
<1>6. /\ EndOfData \in Seq(Byte) /\ Len(EndOfData) = 5 /\ Key \in Seq(Byte) /\ Len(Key) = 8
      /\ NameOf(server) \in Seq(Byte) /\ Len(NameOf(server)) \in Nat /\ Len(NameOf(server)) <= 32
      /\ Text("serverno", server, 2) \in Seq(Byte) /\ Len(Text("serverno", server, 2)) = 2
      /\ Text("requestno", 0, 4) \in Seq(Byte) /\ Len(Text("requestno", 0, 4)) = 4
      /\ Text(Link[server], 0, 3) \in Seq(Byte) /\ Len(Text(Link[server], 0, 3)) = 3
  BY <1>3, SmallBlocks, ServerTexts, LenProperties
<1> HIDE DEF p, a, numbered, named, counted, keyed, ended, moded
<1>7. m \in Nat /\ a + 5 <= m /\ used + 5 <= m
  <2>1. CASE executed = 0
    <3>1. m = a + 5 /\ used + 1 <= a
      BY <1>3, <1>4, <2>1
    <3> HIDE DEF m
    <3> QED BY <1>3, <1>4, <3>1
  <2>2. CASE executed # 0
    <3> DEFINE x == 5 * executed
    <3>1. x \in Nat /\ x >= 5
      <4>1. executed \in Nat /\ executed >= 1
        BY <1>3, <2>2
      <4> QED BY ONLY <4>1
    <3>2. m = a + x + 4 /\ used + 1 <= a + x
      BY <1>3, <2>2
    <3> HIDE DEF x, m
    <3> QED BY <1>3, <1>4, <3>1, <3>2
  <2> QED BY <2>1, <2>2
<1>8. Len(buf) <= m
  <2>1. Len(buf) \in Nat
    BY <1>3, LenProperties
  <2>2. CASE executed = 0
    BY <1>3, <1>4, <2>1, <2>2
  <2>3. CASE executed # 0
    <3> DEFINE x == 5 * executed
               l == Len(buf)
    <3>1. x \in Nat /\ x >= 5
      <4>1. executed \in Nat /\ executed >= 1
        BY <1>3, <2>3
      <4> QED BY ONLY <4>1
    <3>2. m = a + x + 4 /\ (l <= a + 5 \/ l + 1 <= a + x) /\ l \in Nat
      BY <1>3, <2>1, <2>3
    <3> HIDE DEF x, m, l
    <3>3. l <= m
      BY <1>4, <3>1, <3>2
    <3> QED BY <3>3 DEF l
  <2> QED BY <2>2, <2>3
<1> HIDE DEF m
<1>9. /\ at.server + 32 <= m + 1 /\ at.serverno + 2 <= m + 1 /\ at.requestno + 4 <= m + 1
       /\ at.requestkey + 8 <= m + 1 /\ at.mode + 3 <= m + 1
  <2> DEFINE sv == at.server
             sn == at.serverno
             rn == at.requestno
             rk == at.requestkey
             md == at.mode
  <2> HIDE DEF sv, sn, rn, rk, md
  <2>1. /\ sv \in Nat /\ sn \in Nat /\ rn \in Nat /\ rk \in Nat /\ md \in Nat
        /\ sv + 32 <= p + 1 /\ sn + 2 <= p + 1 /\ rn + 4 <= p + 1 /\ rk + 10 <= p + 1 /\ md + 3 <= p + 4
    BY <1>5 DEF sv, sn, rn, rk, md
  <2>2. /\ sv + 32 <= m + 1 /\ sn + 2 <= m + 1 /\ rn + 4 <= m + 1
        /\ rk + 8 <= m + 1 /\ md + 3 <= m + 1
    BY ONLY <1>4, <1>7, <2>1
  <2> QED BY <2>2 DEF sv, sn, rn, rk, md
<1>10. numbered \in Seq(Byte) /\ Len(numbered) <= m
  <2> DEFINE bytes == Text("serverno", server, 2)
  <2>1. bytes \in Seq(Byte) /\ at.serverno + Len(bytes) <= m + 1
    BY <1>6, <1>9
  <2>2. numbered = Put(buf, at.serverno, bytes)
    BY DEF numbered
  <2> HIDE DEF bytes
  <2> QED BY <1>3, <1>5, <1>7, <1>8, <2>1, <2>2, PutInside
<1>11. named \in Seq(Byte) /\ Len(named) <= m
  <2> DEFINE v == at.server
             l == Len(NameOf(server))
  <2> HIDE DEF v, l
  <2>1. v \in Nat /\ l \in Nat /\ l <= 32 /\ v + 32 <= m + 1
    BY <1>5, <1>6, <1>9 DEF v, l
  <2>2. v + l <= m + 1
    BY ONLY <1>7, <2>1
  <2>3. at.server + Len(NameOf(server)) <= m + 1
    BY <2>2 DEF v, l
  <2> QED BY <1>5, <1>6, <1>7, <1>10, <2>3, PutInside DEF named
<1>12. counted \in Seq(Byte) /\ Len(counted) <= m
  <2> DEFINE bytes == Text("requestno", 0, 4)
  <2>1. bytes \in Seq(Byte) /\ at.requestno + Len(bytes) <= m + 1
    BY <1>6, <1>9
  <2>2. counted = Put(named, at.requestno, bytes)
    BY DEF counted
  <2> HIDE DEF bytes
  <2> QED BY <1>5, <1>7, <1>11, <2>1, <2>2, PutInside
<1>13. keyed \in Seq(Byte) /\ Len(keyed) <= m
  <2>1. at.requestkey + Len(Key) <= m + 1
    BY <1>6, <1>9
  <2>2. Put(counted, at.requestkey, Key) \in Seq(Byte) /\ Len(Put(counted, at.requestkey, Key)) <= m
    BY <1>5, <1>6, <1>7, <1>12, <2>1, PutInside
  <2> QED BY <1>12, <2>2 DEF keyed
<1>14. ended \in Seq(Byte) /\ Len(ended) <= m
  <2>1. used + 1 \in Nat /\ used + 1 > 0 /\ (used + 1) + Len(EndOfData) <= m + 1
    BY <1>3, <1>6, <1>7
  <2> QED BY <1>6, <1>7, <1>13, <2>1, PutInside DEF ended
<1>15. moded \in Seq(Byte) /\ Len(moded) <= m
  <2> DEFINE bytes == Text(Link[server], 0, 3)
  <2>1. bytes \in Seq(Byte) /\ at.mode + Len(bytes) <= m + 1
    BY <1>6, <1>9
  <2>2. moded = Put(ended, at.mode, bytes)
    BY DEF moded
  <2> HIDE DEF bytes
  <2> QED BY <1>5, <1>7, <1>14, <2>1, <2>2, PutInside
<1>16. used' = used + 5
  BY <1>2 DEF HeadLen
<1>17. MemoryType'
  BY <1>1, <1>2, <1>3, <1>15, <1>16 DEF MemoryType, After
<1>18. PointersNoted'
  <2>1. p <= used'
    BY <1>3, <1>4, <1>16
  <2>2. at = Pointers(req) /\ offs = Len(Parameters)
    BY <1>1, <1>2 DEF PointersNoted
  <2> QED BY <1>2, <2>1, <2>2 DEF PointersNoted, p
<1>19. AttemptsBounded'
  <2>1. executed \in Nat /\ failovers \in Nat /\ executed <= failovers
    BY <1>3
  <2>2. executed + 1 <= failovers + 1
    BY ONLY <2>1
  <2>3. failovers <= Cardinality(Servers)
    BY <1>1 DEF AttemptsBounded
  <2> QED BY <1>2, <2>2, <2>3 DEF AttemptsBounded, Before
<1>20. RoomLeft'
  <2>1. Alloc' = a
    BY <1>2 DEF Alloc, a
  <2> DEFINE l == Len(buf')
             x == 5 * executed
             y == 5 * executed'
  <2>2. x \in Nat /\ y = x + 5 /\ used + 1 <= a + x
    <3>1. executed \in Nat /\ executed' = executed + 1 /\ used + 1 <= a + x
      BY <1>2, <1>3
    <3>2. x \in Nat /\ y = x + 5
      BY ONLY <3>1
    <3> QED BY <3>1, <3>2
  <2>3. l \in Nat /\ l <= m
    BY <1>2, <1>15, LenProperties
  <2>4. m = a + 5 \/ m = a + x + 4
    BY DEF m
  <2> HIDE DEF l, x, y
  <2>5. used' + 1 <= a + y
    BY <1>3, <1>4, <1>16, <2>2
  <2>6. l <= a + 5 \/ l + 1 <= a + y
    BY <1>4, <1>7, <2>2, <2>3, <2>4
  <2> QED BY <1>2, <2>1, <2>5, <2>6 DEF RoomLeft, l, y
<1> QED BY <1>17, <1>18, <1>19, <1>20 DEF MemoryInv

\* The steps that leave the memory of the request alone.
ServersTried ==
    /\ UNCHANGED <<req, memory, large, executed>>
    /\ pc \in After /\ pc' \in After /\ (pc' \in {"execute", "sent"} => server' \in Servers)
    /\ failovers' \in Nat /\ failovers' <= Cardinality(Servers) /\ executed <= failovers' + 1
    /\ pc' \in {"obtain", "execute"} => executed <= failovers'

LEMMA TriedMemory == MemoryInv /\ ServersTried => MemoryInv'
<1> SUFFICES ASSUME MemoryInv, ServersTried PROVE MemoryInv'
  OBVIOUS
<1>1. MemoryType /\ PointersNoted /\ AttemptsBounded /\ RoomLeft
  BY DEF MemoryInv
<1>2. /\ req' = req /\ buf' = buf /\ used' = used /\ offs' = offs /\ at' = at /\ long' = long
      /\ content' = content /\ executed' = executed /\ pc \in After /\ pc' \in After
      /\ (pc' \in {"execute", "sent"} => server' \in Servers)
      /\ failovers' \in Nat /\ failovers' <= Cardinality(Servers) /\ executed <= failovers' + 1
      /\ (pc' \in {"obtain", "execute"} => executed <= failovers')
  BY DEF ServersTried, memory, large
<1>3. \A x \in After : x \notin Before /\ x # "pack" /\ x # "content" /\ x # "close"
  BY DEF Before, After
<1>4. MemoryType'
  BY <1>1, <1>2 DEF MemoryType
<1>5. PointersNoted'
  BY <1>1, <1>2, <1>3 DEF PointersNoted
<1>6. AttemptsBounded'
  BY <1>1, <1>2, <1>3 DEF AttemptsBounded
<1>7. RoomLeft'
  <2>1. Alloc' = Alloc
    BY <1>2 DEF Alloc
  <2> QED BY <1>1, <1>2, <1>3, <2>1 DEF RoomLeft
<1> QED BY <1>4, <1>5, <1>6, <1>7 DEF MemoryInv

\* What becomes of an attempt writes nothing.
LEMMA TryServer ==
    ASSUME MemoryInv,
           (\E s \in Servers : Obtain(s) \/ ObtainFails(s)) \/ Delivered \/ SendFails
    PROVE  ServersTried
<1>1. Cardinality(Servers) \in Nat
  BY RequestBufferAssumption, FS_CardinalityType
<1>2. /\ failovers \in Nat /\ executed \in Nat /\ failovers <= Cardinality(Servers)
      /\ executed <= failovers + 1 /\ (pc \in {"obtain", "execute"} => executed <= failovers)
  BY DEF MemoryInv, MemoryType, AttemptsBounded
<1>3. ASSUME FailOver PROVE failovers' \in Nat /\ failovers' = failovers + 1 /\ failovers' <= Cardinality(Servers)
                            /\ pc' = "obtain"
  BY <1>1, <1>2, <1>3 DEF FailOver, CanFailOver
<1>4. ASSUME GiveUp PROVE failovers' = failovers /\ pc' = "failed"
  BY <1>4 DEF GiveUp
<1> USE DEF memory, large, attempt, After
<1>5. ASSUME NEW s \in Servers, Obtain(s) PROVE ServersTried
  BY <1>2, <1>5 DEF Obtain, ServersTried
<1>6. ASSUME NEW s \in Servers, ObtainFails(s) PROVE ServersTried
  <2>1. CASE FailOver
    BY <1>2, <1>3, <1>6, <2>1 DEF ObtainFails, ServersTried
  <2>2. CASE GiveUp
    BY <1>2, <1>4, <1>6, <2>2 DEF ObtainFails, ServersTried
  <2> QED BY <1>6, <2>1, <2>2 DEF ObtainFails
<1>7. CASE Delivered
  BY <1>2, <1>7 DEF Delivered, ServersTried
<1>8. CASE SendFails
  <2>1. CASE FailOver
    BY <1>2, <1>3, <1>8, <2>1 DEF SendFails, ServersTried
  <2>2. CASE GiveUp
    BY <1>2, <1>4, <1>8, <2>2 DEF SendFails, ServersTried
  <2> QED BY <1>8, <2>1, <2>2 DEF SendFails
<1> QED BY <1>5, <1>6, <1>7, <1>8

\* MemoryInv is inductive.
LEMMA MemoryInvariant == Spec => []MemoryInv
<1>1. Init => MemoryInv
  BY InitMemory
<1>2. MemoryInv /\ [Next]_vars => MemoryInv'
  <2> SUFFICES ASSUME MemoryInv, [Next]_vars PROVE MemoryInv'
    OBVIOUS
  <2>1. CASE Pack
    BY <2>1, PackMemory
  <2>2. CASE NoContent \/ InlineContent \/ LongContent \/ ChunkedContent
    BY <2>2, AnyContentTaken, ContentMemory
  <2>3. CASE CloseBlocks
    BY <2>3, CloseMemory
  <2>4. CASE Execute
    BY <2>4, ExecuteMemory
  <2>5. CASE (\E s \in Servers : Obtain(s) \/ ObtainFails(s)) \/ Delivered \/ SendFails
    BY <2>5, TryServer, TriedMemory
  <2>6. CASE UNCHANGED vars
    BY <2>6 DEF vars, memory, large, attempt, MemoryInv, MemoryType, PointersNoted, AttemptsBounded, RoomLeft, Alloc
  <2> QED BY <2>1, <2>2, <2>3, <2>4, <2>5, <2>6 DEF Next
<1> QED BY <1>1, <1>2, PTL DEF Spec

\* Whatever the variables, the fields, the content and the sizes: no write of mg_web,
\* mg_web_process or mg_web_execute leaves what mg_obtain_request_memory allocated, in
\* up to three attempts, and there are no more than one for each failover and the first.
THEOREM MemoryStaysInside == Spec => []StaysInside
<1>1. MemoryInv => StaysInside
  <2> SUFFICES ASSUME MemoryInv PROVE StaysInside
    OBVIOUS
  <2> DEFINE p == Len(Packed(req))
             a == Alloc
             l == Len(buf)
  <2>1. MemoryType /\ PointersNoted /\ AttemptsBounded /\ RoomLeft
    BY DEF MemoryInv
  <2>2. p \in Nat /\ a \in Nat /\ p + 21 <= a
    BY <2>1, SizesLeaveRoom DEF Sizes, MemoryType
  <2>3. l \in Nat /\ executed \in Nat
    BY <2>1, LenProperties DEF MemoryType
  <2>4. executed <= 3 => l <= a + 17
    <3> SUFFICES ASSUME executed <= 3 PROVE l <= a + 17
      OBVIOUS
    <3>1. CASE pc \in After
      <4>1. l <= a + 5 \/ l + 1 <= a + 5 * executed
        BY <2>1, <3>1 DEF RoomLeft
      <4> HIDE DEF l, a
      <4>2. executed = 0 \/ executed = 1 \/ executed = 2 \/ executed = 3
        BY <2>3
      <4>3. l <= a + 5 \/ l + 1 <= a + 15
        <5>1. 5 * executed <= 15 /\ 5 * executed \in Nat
          BY <4>2
        <5> QED BY <2>2, <2>3, <4>1, <5>1
      <4> QED BY <2>2, <2>3, <4>3
    <3>2. CASE pc = "pack"
      <4>1. l = 0
        BY <2>1, <3>2 DEF RoomLeft
      <4> HIDE DEF l, a
      <4> QED BY <2>2, <4>1
    <3>3. CASE pc = "content"
      <4>1. l = p
        BY <2>1, <3>3 DEF RoomLeft
      <4> HIDE DEF l, a, p
      <4> QED BY <2>2, <4>1
    <3>4. CASE pc = "close"
      <4>1. l <= a + 5
        BY <2>1, <3>4 DEF RoomLeft
      <4> HIDE DEF l, a
      <4> QED BY <2>2, <2>3, <4>1
    <3> QED BY <2>1, <3>1, <3>2, <3>3, <3>4 DEF MemoryType, Before
  <2>5. Slack = 17
    BY DEF Slack
  <2> HIDE DEF l, a
  <2>6. executed <= 3 => l <= a + Slack
    BY <2>4, <2>5
  <2> QED BY <2>1, <2>6 DEF StaysInside, AttemptsBounded, l, a
<1> QED BY <1>1, MemoryInvariant, PTL

---------------------------------------------------------------------------
(* What a write leaves as it is. *)

LEMMA PutElement ==
    ASSUME NEW b \in Seq(Byte), NEW p \in Nat, NEW bytes \in Seq(Byte), p > 0
    PROVE  \A i \in 1..Len(Put(b, p, bytes)) :
               Put(b, p, bytes)[i] = IF i \in p..(p + Len(bytes) - 1) THEN bytes[i - p + 1]
                                     ELSE IF i <= Len(b) THEN b[i] ELSE Unwritten
<1> DEFINE q == Put(b, p, bytes)
<1>1. q \in Seq(Byte)
  BY PutType
<1>2. DOMAIN q = 1..Len(q)
  <2> HIDE DEF q
  <2> QED BY <1>1, LenProperties
<1>3. DOMAIN q = 1..Max({Len(b), p + Len(bytes) - 1})
  BY DEF Put
<1> QED BY <1>2, <1>3 DEF Put

\* Two sequences are one after the other.
LEMMA Joined ==
    ASSUME NEW S, NEW u \in Seq(S), NEW t \in Seq(S)
    PROVE  /\ u \o t \in Seq(S) /\ Len(u \o t) = Len(u) + Len(t)
           /\ Len(u) \in Nat /\ Len(t) \in Nat
           /\ \A i \in 1..Len(u) : (u \o t)[i] = u[i]
           /\ \A i \in 1..Len(t) : (u \o t)[Len(u) + i] = t[i]
<1>1. Len(u) \in Nat /\ Len(t) \in Nat
  BY LenProperties
<1>2. u \o t \in Seq(S)
  BY ConcatProperties
<1>3. Len(u \o t) = Len(u) + Len(t)
  BY ConcatProperties
<1>4. \A i \in 1..(Len(u) + Len(t)) : (u \o t)[i] = IF i <= Len(u) THEN u[i] ELSE t[i - Len(u)]
  BY ConcatProperties
<1> DEFINE w == u \o t
           m == Len(u)
           n == Len(t)
<1>5. \A i \in 1..(m + n) : w[i] = IF i <= m THEN u[i] ELSE t[i - m]
  BY <1>4
<1> HIDE DEF w, m, n
<1>6. \A i \in 1..m : w[i] = u[i]
  BY <1>1, <1>5 DEF m, n
<1>7. \A i \in 1..n : w[m + i] = t[i]
  <2> TAKE i \in 1..n
  <2>1. m \in Nat /\ n \in Nat
    BY <1>1 DEF m, n
  <2>2. m + i \in 1..(m + n) /\ ~(m + i <= m) /\ (m + i) - m = i
    BY <2>1
  <2> QED BY <1>5, <2>2
<1> QED BY <1>1, <1>2, <1>3, <1>6, <1>7 DEF w, m, n

\* A write in the second of two sequences, and one in the first.
WritesSecond(u, t, q, bytes) == Put(u \o t, Len(u) + q, bytes) = u \o Put(t, q, bytes)
WritesFirst(u, t, q, bytes) ==
    /\ Put(u \o t, q, bytes) = Put(u, q, bytes) \o t
    /\ Len(Put(u, q, bytes)) = Len(u)

\* A write that begins in the second of two sequences.
LEMMA PutTail ==
    ASSUME NEW u \in Seq(Byte), NEW t \in Seq(Byte), NEW q \in Nat, NEW bytes \in Seq(Byte), q > 0
    PROVE  WritesSecond(u, t, q, bytes)
<1> DEFINE w == u \o t
           m == Len(u)
           n == Len(t)
           c == Len(bytes)
           p == m + q
           a == Put(w, p, bytes)
           d == Put(t, q, bytes)
           z == u \o d
<1>1. /\ w \in Seq(Byte) /\ Len(w) = m + n /\ m \in Nat /\ n \in Nat /\ c \in Nat
      /\ \A i \in 1..m : w[i] = u[i]
      /\ \A i \in 1..n : w[m + i] = t[i]
  BY Joined, LenProperties
<1> HIDE DEF w
<1>2. p \in Nat /\ p > 0
  BY <1>1
<1>3. a \in Seq(Byte) /\ Len(a) = IF p + c - 1 <= Len(w) THEN Len(w) ELSE p + c - 1
  <2> HIDE DEF p
  <2> QED BY <1>1, <1>2, PutType
<1>4. \A i \in 1..Len(a) : a[i] = IF i \in p..(p + c - 1) THEN bytes[i - p + 1]
                                  ELSE IF i <= Len(w) THEN w[i] ELSE Unwritten
  <2>1. w \in Seq(Byte) /\ p \in Nat /\ p > 0 /\ bytes \in Seq(Byte)
    BY <1>1, <1>2
  <2> HIDE DEF p
  <2> QED BY ONLY <2>1, PutElement
<1>5. d \in Seq(Byte) /\ Len(d) = IF q + c - 1 <= n THEN n ELSE q + c - 1
  BY PutType
<1>6. \A i \in 1..Len(d) : d[i] = IF i \in q..(q + c - 1) THEN bytes[i - q + 1]
                                  ELSE IF i <= n THEN t[i] ELSE Unwritten
  BY PutElement
<1> HIDE DEF a, d
<1>7. /\ z \in Seq(Byte) /\ Len(z) = m + Len(d) /\ Len(d) \in Nat
      /\ \A i \in 1..m : z[i] = u[i]
      /\ \A i \in 1..Len(d) : z[m + i] = d[i]
  <2>1. u \in Seq(Byte) /\ d \in Seq(Byte)
    BY <1>5
  <2> QED BY ONLY <2>1, Joined
<1> HIDE DEF z, m, n, c
<1>8. Len(a) = Len(z)
  <2>1. CASE q + c - 1 <= n
    BY <1>1, <1>3, <1>5, <1>7, <2>1
  <2>2. CASE ~(q + c - 1 <= n)
    BY <1>1, <1>3, <1>5, <1>7, <2>2
  <2> QED BY <2>1, <2>2
<1>9. ASSUME NEW i \in 1..Len(z) PROVE a[i] = z[i]
  <2>1. i \in Nat /\ i > 0 /\ i <= m + Len(d) /\ i \in 1..Len(a)
    BY <1>1, <1>7, <1>8
  <2>2. CASE i <= m
    <3>1. i \in 1..m /\ i \notin p..(p + c - 1) /\ i <= Len(w)
      BY <1>1, <2>1, <2>2
    <3>2. a[i] = w[i]
      BY <1>4, <2>1, <3>1
    <3> QED BY <1>1, <1>7, <3>1, <3>2
  <2>3. CASE ~(i <= m)
    <3> DEFINE j == i - m
    <3>1. j \in 1..Len(d) /\ m + j = i /\ j \in Nat
      BY <1>1, <1>7, <2>1, <2>3
    <3>2. z[i] = d[j]
      BY <1>7, <3>1
    <3>3. CASE j \in q..(q + c - 1)
      <4>1. i \in p..(p + c - 1) /\ i - p + 1 = j - q + 1
        BY <1>1, <3>1, <3>3
      <4>2. a[i] = bytes[j - q + 1]
        BY <1>4, <2>1, <4>1
      <4>3. d[j] = bytes[j - q + 1]
        BY <1>6, <3>1, <3>3
      <4> QED BY <3>2, <4>2, <4>3
    <3>4. CASE j \notin q..(q + c - 1)
      <4>1. i \notin p..(p + c - 1)
        BY <1>1, <3>1, <3>4
      <4>2. a[i] = IF i <= Len(w) THEN w[i] ELSE Unwritten
        BY <1>4, <2>1, <4>1
      <4>3. d[j] = IF j <= n THEN t[j] ELSE Unwritten
        BY <1>6, <3>1, <3>4
      <4>4. i <= Len(w) <=> j <= n
        BY <1>1, <3>1
      <4>5. j <= n => w[i] = t[j]
        <5> SUFFICES ASSUME j <= n PROVE w[i] = t[j]
          OBVIOUS
        <5>1. j \in 1..n
          BY <1>1, <3>1
        <5> QED BY <1>1, <3>1, <5>1
      <4> QED BY <3>2, <4>2, <4>3, <4>4, <4>5
    <3> QED BY <3>3, <3>4
  <2> QED BY <2>2, <2>3
<1>10. a = z
  BY <1>3, <1>7, <1>8, <1>9, SeqEqual
<1> QED BY <1>10 DEF WritesSecond, a, z, d, w, p, m

\* A write that ends in the first of two sequences.
LEMMA PutCore ==
    ASSUME NEW u \in Seq(Byte), NEW t \in Seq(Byte), NEW q \in Nat, NEW bytes \in Seq(Byte), q > 0,
           q + Len(bytes) <= Len(u) + 1
    PROVE  WritesFirst(u, t, q, bytes)
<1> DEFINE w == u \o t
           m == Len(u)
           n == Len(t)
           c == Len(bytes)
           a == Put(w, q, bytes)
           d == Put(u, q, bytes)
           z == d \o t
<1>1. /\ w \in Seq(Byte) /\ Len(w) = m + n /\ m \in Nat /\ n \in Nat /\ c \in Nat
      /\ \A i \in 1..m : w[i] = u[i]
      /\ \A i \in 1..n : w[m + i] = t[i]
  BY Joined, LenProperties
<1>2. q + c <= m + 1
  OBVIOUS
<1> HIDE DEF w
<1>3. a \in Seq(Byte) /\ Len(a) = IF q + c - 1 <= Len(w) THEN Len(w) ELSE q + c - 1
  BY <1>1, PutType
<1>4. \A i \in 1..Len(a) : a[i] = IF i \in q..(q + c - 1) THEN bytes[i - q + 1]
                                  ELSE IF i <= Len(w) THEN w[i] ELSE Unwritten
  BY <1>1, PutElement
<1>5. d \in Seq(Byte) /\ Len(d) = IF q + c - 1 <= m THEN m ELSE q + c - 1
  BY PutType
<1>6. \A i \in 1..Len(d) : d[i] = IF i \in q..(q + c - 1) THEN bytes[i - q + 1]
                                  ELSE IF i <= m THEN u[i] ELSE Unwritten
  BY PutElement
<1> HIDE DEF a, d
<1>7. /\ z \in Seq(Byte) /\ Len(z) = Len(d) + n
      /\ \A i \in 1..Len(d) : z[i] = d[i]
      /\ \A i \in 1..n : z[Len(d) + i] = t[i]
  <2>1. d \in Seq(Byte) /\ t \in Seq(Byte)
    BY <1>5
  <2> QED BY ONLY <2>1, Joined
<1> HIDE DEF z, m, n, c
<1>8. Len(d) = m /\ Len(a) = Len(z)
  BY <1>1, <1>2, <1>3, <1>5, <1>7
<1>9. ASSUME NEW i \in 1..Len(z) PROVE a[i] = z[i]
  <2>1. i \in Nat /\ i > 0 /\ i <= m + n /\ i \in 1..Len(a) /\ i <= Len(w)
    BY <1>1, <1>7, <1>8
  <2>2. CASE i <= m
    <3>1. i \in 1..m /\ i \in 1..Len(d)
      BY <1>1, <1>8, <2>1, <2>2
    <3>2. w[i] = u[i] /\ z[i] = d[i]
      BY <1>1, <1>7, <3>1
    <3>3. CASE i \in q..(q + c - 1)
      BY <1>4, <1>6, <2>1, <3>1, <3>2, <3>3
    <3>4. CASE i \notin q..(q + c - 1)
      BY <1>4, <1>6, <2>1, <2>2, <3>1, <3>2, <3>4
    <3> QED BY <3>3, <3>4
  <2>3. CASE ~(i <= m)
    <3> DEFINE j == i - m
    <3>1. j \in 1..n /\ m + j = i
      BY <1>1, <2>1, <2>3
    <3>2. i \notin q..(q + c - 1)
      BY <1>1, <1>2, <2>1, <2>3
    <3>3. a[i] = w[i]
      BY <1>4, <2>1, <3>2
    <3> HIDE DEF j
    <3>4. w[i] = t[j] /\ z[i] = t[j]
      BY <1>1, <1>7, <1>8, <3>1
    <3> QED BY <3>3, <3>4
  <2> QED BY <2>2, <2>3
<1>10. a = z
  BY <1>3, <1>7, <1>8, <1>9, SeqEqual
<1> QED BY <1>8, <1>10 DEF WritesFirst, a, z, d, w, m

\* A write over the whole of a sequence.
LEMMA PutWhole ==
    ASSUME NEW u \in Seq(Byte), NEW bytes \in Seq(Byte), Len(bytes) = Len(u)
    PROVE  Put(u, 1, bytes) = bytes
<1> DEFINE a == Put(u, 1, bytes)
           c == Len(bytes)
<1>1. c \in Nat /\ Len(u) = c
  BY LenProperties
<1>2. a \in Seq(Byte) /\ Len(a) = IF 1 + c - 1 <= Len(u) THEN Len(u) ELSE 1 + c - 1
  BY PutType
<1>3. \A i \in 1..Len(a) : a[i] = IF i \in 1..(1 + c - 1) THEN bytes[i - 1 + 1]
                                  ELSE IF i <= Len(u) THEN u[i] ELSE Unwritten
  BY PutElement
<1> HIDE DEF a, c
<1>4. Len(a) = c
  BY <1>1, <1>2
<1>5. \A i \in 1..c : a[i] = bytes[i]
  <2> TAKE i \in 1..c
  <2>1. i \in 1..(1 + c - 1) /\ i - 1 + 1 = i /\ i \in 1..Len(a)
    BY <1>1, <1>4
  <2> QED BY <1>3, <2>1
<1>6. a = bytes
  BY <1>2, <1>4, <1>5, SeqEqual DEF c
<1> QED BY <1>6 DEF a

---------------------------------------------------------------------------
(* Reading blocks *)

\* A step of BlocksIn at p, where f is what the later ones give.
BlockStep(b, p, f) ==
    IF p + HeadLen - 1 > Len(b) \/ SortAt(b, p) \notin Sorts THEN << Garbled >>
    ELSE IF SortAt(b, p) = "eod" THEN <<>>
    ELSE IF ~WholeAt(b, p) THEN << Garbled >>
    ELSE << [sort |-> SortAt(b, p), text |-> SubSeq(b, p + HeadLen, NextAt(b, p) - 1)] >> \o f[NextAt(b, p)]

Walks(b, f) == f = [p \in 1..(Len(b) + 1) |-> BlockStep(b, p, f)]

\* A block is followed by what comes after its head, or later.
LEMMA NextLater ==
    ASSUME NEW b \in Seq(Byte), NEW p \in 1..Len(b)
    PROVE  NextAt(b, p) \in Nat /\ NextAt(b, p) >= p + 5
<1>1. b[p] \in Byte
  <2> HIDE DEF Byte
  <2> QED BY ElementOfSeq
<1>2. b[p].n \in Nat /\ p \in Nat
  BY <1>1, LenProperties DEF Byte
<1> QED BY <1>2 DEF NextAt, HeadLen

\* A step looks at one later step at the most.
LEMMA StepSame ==
    ASSUME NEW b \in Seq(Byte), NEW p \in 1..(Len(b) + 1), NEW f, NEW g,
           \A q \in (p + 1)..(Len(b) + 1) : f[q] = g[q]
    PROVE  BlockStep(b, p, f) = BlockStep(b, p, g)
<1> DEFINE l == Len(b)
           next == NextAt(b, p)
<1>1. l \in Nat /\ p \in Nat /\ HeadLen = 5
  BY LenProperties DEF HeadLen
<1>2. CASE p + HeadLen - 1 > Len(b)
  BY <1>2 DEF BlockStep
<1>3. CASE ~(p + HeadLen - 1 > Len(b)) /\ WholeAt(b, p)
  <2>1. p \in 1..Len(b)
    BY <1>1, <1>3
  <2>2. next \in Nat /\ next >= p + 5 /\ next <= l + 1
    BY <1>3, <2>1, NextLater DEF WholeAt
  <2> HIDE DEF next
  <2>3. next \in (p + 1)..(Len(b) + 1)
    BY <1>1, <2>2
  <2>4. f[next] = g[next]
    BY <2>3
  <2> QED BY <2>4 DEF BlockStep, next
<1>4. CASE ~(p + HeadLen - 1 > Len(b)) /\ ~WholeAt(b, p)
  BY <1>4 DEF BlockStep
<1> QED BY <1>2, <1>3, <1>4

\* The walk of BlocksIn is a function: it can be filled in from the end of the buffer.
LEMMA WalkExists ==
    ASSUME NEW b \in Seq(Byte)
    PROVE  \E f : Walks(b, f)
<1> DEFINE l == Len(b)
           Ends(m, f) == f = [p \in (l + 1 - m)..(l + 1) |-> BlockStep(b, p, f)]
           T == {m \in Nat : m <= l => \E f : Ends(m, f)}
<1>1. l \in Nat
  BY LenProperties
<1>2. 0 \in T
  <2> DEFINE v == BlockStep(b, l + 1, <<>>)
             f == [p \in (l + 1)..(l + 1) |-> v]
  <2>1. BlockStep(b, l + 1, f) = v
    <3>1. l + 1 \in 1..(Len(b) + 1) /\ \A q \in ((l + 1) + 1)..(Len(b) + 1) : f[q] = <<>>[q]
      BY <1>1
    <3> HIDE DEF f, v
    <3>2. BlockStep(b, l + 1, f) = BlockStep(b, l + 1, <<>>)
      BY <3>1, StepSame
    <3> QED BY <3>2 DEF v
  <2> HIDE DEF v
  <2>2. \A p \in (l + 1)..(l + 1) : p = l + 1
    BY <1>1
  <2>3. f = [p \in (l + 1)..(l + 1) |-> BlockStep(b, p, f)]
    <3>1. \A p \in (l + 1)..(l + 1) : BlockStep(b, p, f) = v
      BY <2>1, <2>2
    <3> QED BY <3>1
  <2> HIDE DEF f
  <2>4. l + 1 - 0 = l + 1
    BY <1>1
  <2>5. Ends(0, f)
    BY <2>3, <2>4
  <2> QED BY <2>5
<1>3. ASSUME NEW m \in Nat, m \in T PROVE m + 1 \in T
  <2> SUFFICES ASSUME m + 1 <= l PROVE \E f : Ends(m + 1, f)
    OBVIOUS
  <2>1. PICK f : Ends(m, f)
    BY <1>1, <1>3
  <2> DEFINE o == l + 1 - m
             k == l + 1 - (m + 1)
             v == BlockStep(b, k, f)
             g == [p \in k..(l + 1) |-> IF p = k THEN v ELSE f[p]]
  <2>2. k \in Nat /\ k >= 1 /\ k <= l + 1 /\ o = k + 1 /\ \A p \in k..(l + 1) : p # k => p \in o..(l + 1)
    BY <1>1
  <2>3. f = [p \in o..(l + 1) |-> BlockStep(b, p, f)]
    BY <2>1
  <2> HIDE DEF k, o, v, g
  <2>4. ASSUME NEW p \in k..(l + 1) PROVE BlockStep(b, p, g) = BlockStep(b, p, f)
    <3>1. p \in 1..(Len(b) + 1)
      BY <1>1, <2>2
    <3>2. \A q \in (p + 1)..(Len(b) + 1) : g[q] = f[q]
      <4> TAKE q \in (p + 1)..(Len(b) + 1)
      <4>1. q \in k..(l + 1) /\ q # k
        BY <1>1, <2>2
      <4> QED BY <4>1 DEF g
    <3> QED BY <3>1, <3>2, StepSame
  <2>5. ASSUME NEW p \in k..(l + 1) PROVE g[p] = BlockStep(b, p, g)
    <3>1. CASE p = k
      BY <2>4, <3>1 DEF g, v
    <3>2. CASE p # k
      <4>1. f[p] = BlockStep(b, p, f)
        BY <2>2, <2>3, <3>2
      <4>2. g[p] = f[p]
        BY <3>2 DEF g
      <4> QED BY <2>4, <4>1, <4>2
    <3> QED BY <3>1, <3>2
  <2>6. g = [p \in k..(l + 1) |-> g[p]]
    BY DEF g
  <2>7. g = [p \in k..(l + 1) |-> BlockStep(b, p, g)]
    BY <2>5, <2>6
  <2>8. Ends(m + 1, g)
    BY <2>7 DEF k
  <2> QED BY <2>8
<1>4. l \in T
  <2> HIDE DEF T
  <2> QED BY <1>1, <1>2, <1>3, NumberInduction
<1>5. PICK f : Ends(l, f)
  BY <1>1, <1>4
<1>6. l + 1 - l = 1
  BY <1>1
<1>7. f = [p \in 1..(l + 1) |-> BlockStep(b, p, f)]
  BY <1>5, <1>6
<1> QED BY <1>7 DEF Walks

\* So BlocksIn is what the walk finds from the first byte on.
LEMMA BlocksWalked ==
    ASSUME NEW b \in Seq(Byte)
    PROVE  \E f : /\ BlocksIn(b) = f[1]
                  /\ \A p \in 1..(Len(b) + 1) : f[p] = BlockStep(b, p, f)
<1> DEFINE h == CHOOSE f : Walks(b, f)
<1>1. BlocksIn(b) = h[1]
  BY DEF BlocksIn, Walks, BlockStep
<1>2. Walks(b, h)
  BY WalkExists
<1> HIDE DEF h
<1>3. \A p \in 1..(Len(b) + 1) : h[p] = BlockStep(b, p, h)
  <2>1. h = [p \in 1..(Len(b) + 1) |-> BlockStep(b, p, h)]
    BY <1>2 DEF Walks
  <2> DEFINE e(p) == BlockStep(b, p, h)
  <2>2. h = [p \in 1..(Len(b) + 1) |-> e(p)]
    BY <2>1
  <2> HIDE DEF e
  <2>3. \A p \in 1..(Len(b) + 1) : h[p] = e(p)
    BY <2>2
  <2> QED BY <2>3 DEF e
<1> QED BY <1>1, <1>3

\* What a block has at each place.
LEMMA BlockElements ==
    ASSUME NEW sort \in Parts, NEW text \in Seq(Byte)
    PROVE  /\ \A i \in 1..4 : Block(sort, text)[i] = [of |-> "length", n |-> Len(text), i |-> i]
           /\ Block(sort, text)[5] = [of |-> sort, n |-> 0, i |-> 5]
           /\ \A i \in 1..Len(text) : Block(sort, text)[5 + i] = text[i]
<1> DEFINE u == Text("length", Len(text), HeadLen - 1)
           x == [of |-> sort, n |-> 0, i |-> HeadLen]
           v == <<x>>
           head == BlockHead(sort, Len(text))
           b == Block(sort, text)
<1>1. Len(text) \in Nat /\ HeadLen = 5 /\ HeadLen - 1 = 4
  BY LenProperties DEF HeadLen
<1>2. u \in Seq(Byte) /\ Len(u) = 4
  <2>1. HeadLen - 1 \in Nat /\ "length" \in Parts
    BY <1>1 DEF Parts
  <2> QED BY <1>1, <2>1, TextType
<1>3. \A i \in 1..4 : u[i] = [of |-> "length", n |-> Len(text), i |-> i]
  BY <1>1 DEF Text
<1>4. v \in Seq(Byte) /\ Len(v) = 1 /\ v[1] = x
  <2>1. x \in Byte
    BY <1>1 DEF Byte
  <2> HIDE DEF x
  <2> QED BY <2>1
<1> HIDE DEF u, v, x
<1>5. head = u \o v
  BY DEF BlockHead, u, v, x
<1>6. /\ Len(u \o v) = Len(u) + Len(v)
      /\ \A i \in 1..Len(u) : (u \o v)[i] = u[i]
      /\ \A i \in 1..Len(v) : (u \o v)[Len(u) + i] = v[i]
  <2>1. u \in Seq(Byte) /\ v \in Seq(Byte)
    BY <1>2, <1>4
  <2> QED BY ONLY <2>1, Joined
<1> HIDE DEF head
<1>7. /\ \A i \in 1..4 : head[i] = [of |-> "length", n |-> Len(text), i |-> i]
      /\ head[5] = x
  <2>1. \A i \in 1..4 : head[i] = u[i]
    BY <1>2, <1>5, <1>6
  <2>2. head[5] = v[1]
    <3>1. 1 \in 1..Len(v) /\ Len(u) + 1 = 5
      BY <1>2, <1>4
    <3>2. (u \o v)[Len(u) + 1] = v[1]
      BY <1>6, <3>1
    <3> QED BY <1>5, <3>1, <3>2
  <2> QED BY <1>3, <1>4, <2>1, <2>2
<1>8. head \in Seq(Byte) /\ Len(head) = 5
  BY <1>1, HeadType DEF head
<1>9. /\ \A i \in 1..Len(head) : (head \o text)[i] = head[i]
      /\ \A i \in 1..Len(text) : (head \o text)[Len(head) + i] = text[i]
  <2>1. head \in Seq(Byte) /\ text \in Seq(Byte)
    BY <1>8
  <2> QED BY ONLY <2>1, Joined
<1>10. b = head \o text
  BY DEF Block, head
<1> HIDE DEF b
<1>11. \A i \in 1..4 : b[i] = [of |-> "length", n |-> Len(text), i |-> i]
  <2>1. \A i \in 1..4 : i \in 1..Len(head)
    BY <1>8
  <2>2. \A i \in 1..4 : b[i] = head[i]
    BY <1>9, <1>10, <2>1
  <2> QED BY <1>7, <2>2
<1>12. b[5] = [of |-> sort, n |-> 0, i |-> 5]
  <2>1. 5 \in 1..Len(head)
    BY <1>8
  <2>2. b[5] = head[5]
    BY <1>9, <1>10, <2>1
  <2> QED BY <1>1, <1>7, <2>2 DEF x
<1>13. \A i \in 1..Len(text) : b[5 + i] = text[i]
  BY <1>8, <1>9, <1>10
<1> QED BY <1>11, <1>12, <1>13 DEF b

\* At p in b is a block of this sort and text.
ReadAs(b, p, sort, text) ==
    /\ b \in Seq(Byte) /\ p \in 1..(Len(b) + 1) /\ p + HeadLen - 1 <= Len(b)
    /\ SortAt(b, p) = sort /\ WholeAt(b, p) /\ NextAt(b, p) = p + 5 + Len(text)
    /\ SubSeq(b, p + HeadLen, NextAt(b, p) - 1) = text

\* A block in a sequence is read as it was written.
LEMMA BlockReadAt ==
    ASSUME NEW u \in Seq(Byte), NEW w \in Seq(Byte), NEW sort \in Parts, NEW text \in Seq(Byte)
    PROVE  ReadAs((u \o Block(sort, text)) \o w, Len(u) + 1, sort, text)
<1> DEFINE m == Len(u)
           n == Len(text)
           c == Block(sort, text)
           uc == u \o c
           b == uc \o w
           p == m + 1
<1>1. m \in Nat /\ n \in Nat /\ HeadLen = 5 /\ Len(w) \in Nat /\ p \in Nat
  BY LenProperties DEF HeadLen
<1>2. c \in Seq(Byte) /\ Len(c) = 5 + n
  BY BlockType
<1>3. /\ \A i \in 1..4 : c[i] = [of |-> "length", n |-> n, i |-> i]
      /\ c[5] = [of |-> sort, n |-> 0, i |-> 5]
      /\ \A i \in 1..n : c[5 + i] = text[i]
  BY BlockElements
<1> HIDE DEF c
<1>4. /\ uc \in Seq(Byte) /\ Len(uc) = m + Len(c)
      /\ \A i \in 1..Len(c) : uc[m + i] = c[i]
  <2>1. u \in Seq(Byte) /\ c \in Seq(Byte)
    BY <1>2
  <2> QED BY ONLY <2>1, Joined
<1>5. b = uc \o w
  OBVIOUS
<1> HIDE DEF uc, b
<1>6. /\ b \in Seq(Byte) /\ Len(b) = Len(uc) + Len(w)
      /\ \A i \in 1..Len(uc) : b[i] = uc[i]
  <2>1. uc \in Seq(Byte) /\ w \in Seq(Byte)
    BY <1>4
  <2>2. /\ uc \o w \in Seq(Byte) /\ Len(uc \o w) = Len(uc) + Len(w)
        /\ \A i \in 1..Len(uc) : (uc \o w)[i] = uc[i]
    BY ONLY <2>1, Joined
  <2> QED BY <1>5, <2>2
<1> HIDE DEF m, n
<1>7. \A i \in 1..(5 + n) : b[m + i] = c[i]
  <2> TAKE i \in 1..(5 + n)
  <2>1. m + i \in 1..Len(uc) /\ i \in 1..Len(c)
    BY <1>1, <1>2, <1>4
  <2> QED BY <1>4, <1>6, <2>1
<1>8. Len(b) >= m + 5 + n /\ Len(b) \in Nat
  BY <1>1, <1>2, <1>4, <1>6
<1>9. \A i \in 1..4 : b[p + i - 1] = [of |-> "length", n |-> n, i |-> i]
  <2> TAKE i \in 1..4
  <2>1. p + i - 1 = m + i /\ i \in 1..(5 + n)
    BY <1>1
  <2>2. b[p + i - 1] = c[i]
    BY <1>7, <2>1
  <2>3. c[i] = [of |-> "length", n |-> n, i |-> i]
    BY <1>3
  <2> QED BY <2>2, <2>3
<1>10. b[p].n = n
  <2>1. 1 \in 1..4 /\ p + 1 - 1 = p
    BY <1>1
  <2>2. b[p] = [of |-> "length", n |-> n, i |-> 1]
    BY <1>9, <2>1
  <2> QED BY <2>2
<1>11. SortAt(b, p) = sort
  <2>1. p + HeadLen - 1 = m + 5 /\ 5 \in 1..(5 + n)
    BY <1>1
  <2>2. b[p + HeadLen - 1] = [of |-> sort, n |-> 0, i |-> 5]
    BY <1>3, <1>7, <2>1
  <2> QED BY <2>2 DEF SortAt
<1>12. NextAt(b, p) = p + 5 + n
  BY <1>1, <1>10 DEF NextAt
<1>13. WholeAt(b, p)
  <2>1. NextAt(b, p) <= Len(b) + 1
    BY <1>1, <1>8, <1>12
  <2>2. 1..(HeadLen - 1) = 1..4
    BY <1>1
  <2> QED BY <1>9, <1>10, <2>1, <2>2 DEF WholeAt
<1>14. SubSeq(b, p + HeadLen, NextAt(b, p) - 1) = text
  <2> DEFINE from == m + 6
             to == m + 5 + n
             s == SubSeq(b, from, to)
  <2>1. p + HeadLen = from /\ NextAt(b, p) - 1 = to
    <3> DEFINE next == NextAt(b, p)
    <3>1. next = p + 5 + n
      BY <1>12
    <3> HIDE DEF next
    <3>2. next - 1 = to
      BY <1>1, <3>1
    <3> QED BY <1>1, <3>2 DEF next
  <2>2. \A i \in from..to : i \in 1..Len(b)
    BY <1>1, <1>8
  <2>3. \A i \in from..to : b[i] \in Byte
    <3> HIDE DEF Byte, from, to
    <3> QED BY <1>6, <2>2, ElementOfSeq
  <2>4. /\ s \in Seq(Byte) /\ Len(s) = (IF from <= to THEN to - from + 1 ELSE 0)
        /\ \A i \in 1..(to - from + 1) : s[i] = b[from + i - 1]
    <3>1. b \in Seq(Byte) /\ from \in Int /\ to \in Int
      BY <1>1, <1>6
    <3> HIDE DEF from, to
    <3> QED BY ONLY <2>3, <3>1, SubSeqProperties
  <2> HIDE DEF s
  <2>5. Len(s) = n
    BY <1>1, <2>4
  <2>6. \A i \in 1..n : s[i] = text[i]
    <3> TAKE i \in 1..n
    <3>1. i \in 1..(to - from + 1) /\ from + i - 1 = m + (5 + i) /\ 5 + i \in 1..(5 + n)
      BY <1>1
    <3> HIDE DEF from, to
    <3>2. s[i] = b[m + (5 + i)]
      BY <2>4, <3>1
    <3> QED BY <1>3, <1>7, <3>1, <3>2
  <2>7. s = text
    BY <2>4, <2>5, <2>6, SeqEqual DEF n
  <2> QED BY <2>1, <2>7 DEF s
<1>15. p \in 1..(Len(b) + 1) /\ p + HeadLen - 1 <= Len(b)
  BY <1>1, <1>8
<1> QED BY <1>6, <1>11, <1>12, <1>13, <1>14, <1>15 DEF ReadAs, b, uc, c, m, n

---------------------------------------------------------------------------
(* A sequence of blocks is read as it was written *)

LEMMA PartOf ==
    ASSUME NEW S, NEW s \in Seq(S), NEW m \in Nat, NEW n \in Nat, m > 0, n <= Len(s)
    PROVE  SubSeq(s, m, n) \in Seq(S)
<1>1. \A i \in m..n : i \in 1..Len(s)
  BY LenProperties
<1>2. \A i \in m..n : s[i] \in S
  BY <1>1, ElementOfSeq
<1>3. m \in Int /\ n \in Int
  OBVIOUS
<1> QED BY <1>2, <1>3, SubSeqProperties

\* A list of sequences is joined in two parts.
LEMMA FlattenSplit ==
    ASSUME NEW S, NEW ss \in Seq(Seq(S)), NEW k \in 0..Len(ss)
    PROVE  /\ FlattenSeq(SubSeq(ss, 1, k)) \in Seq(S)
           /\ FlattenSeq(SubSeq(ss, k + 1, Len(ss))) \in Seq(S)
           /\ FlattenSeq(ss) = FlattenSeq(SubSeq(ss, 1, k)) \o FlattenSeq(SubSeq(ss, k + 1, Len(ss)))
<1> DEFINE X == Seq(S)
           n == Len(ss)
           u == SubSeq(ss, 1, k)
           t == SubSeq(ss, k + 1, n)
<1>1. ss \in Seq(X) /\ n \in Nat /\ k \in Nat /\ k <= n
  BY LenProperties
<1>2. u \in Seq(X) /\ t \in Seq(X)
  <2>1. 1 \in Nat /\ 1 > 0 /\ k + 1 \in Nat /\ k + 1 > 0 /\ n <= Len(ss)
    BY <1>1
  <2> HIDE DEF X
  <2>2. u \in Seq(X)
    BY <1>1, <2>1, PartOf
  <2>3. t \in Seq(X)
    BY <1>1, <2>1, PartOf
  <2> QED BY <2>2, <2>3
<1>3. u \o t = ss
  <2>1. 1 \in 1..(Len(ss) + 1) /\ k \in (1 - 1)..Len(ss) /\ n \in k..Len(ss)
    BY <1>1
  <2> HIDE DEF X
  <2>2. SubSeq(ss, 1, k) \o SubSeq(ss, k + 1, n) = SubSeq(ss, 1, n)
    BY <1>1, <2>1, ConcatAdjacentSubSeq
  <2>3. SubSeq(ss, 1, n) = ss
    BY <1>1, SubSeqFull
  <2> QED BY <2>2, <2>3
<1> HIDE DEF u, t
<1>4. FlattenSeq(u) \in Seq(S) /\ FlattenSeq(t) \in Seq(S)
  BY <1>2, FlattenType
<1>5. FlattenSeq(u \o t) = FlattenSeq(u) \o FlattenSeq(t)
  BY <1>2, FlattenConcat
<1> QED BY <1>3, <1>4, <1>5 DEF u, t

\* One sequence further.
LEMMA FlattenNext ==
    ASSUME NEW S, NEW ss \in Seq(Seq(S)), NEW k \in 1..Len(ss)
    PROVE  FlattenSeq(SubSeq(ss, 1, k)) = FlattenSeq(SubSeq(ss, 1, k - 1)) \o ss[k]
<1> DEFINE X == Seq(S)
           u == SubSeq(ss, 1, k - 1)
<1>1. ss \in Seq(X) /\ Len(ss) \in Nat /\ k \in Nat /\ k >= 1 /\ k <= Len(ss)
  BY LenProperties
<1>2. ss[k] \in X
  <2> HIDE DEF X
  <2> QED BY <1>1, ElementOfSeq
<1>3. u \in Seq(X)
  <2>1. 1 \in Nat /\ 1 > 0 /\ k - 1 \in Nat /\ k - 1 <= Len(ss)
    BY <1>1
  <2> HIDE DEF X
  <2> QED BY <1>1, <2>1, PartOf
<1>4. SubSeq(ss, 1, k) = u \o << ss[k] >>
  <2>1. 1 \in 1..Len(ss) /\ k \in 1..Len(ss)
    BY <1>1
  <2> HIDE DEF X
  <2> QED BY <1>1, <2>1, SubSeqRecursiveSecond
<1>5. Append(u, ss[k]) = u \o << ss[k] >>
  <2> HIDE DEF X, u
  <2> QED BY <1>2, <1>3, AppendIsConcat
<1> HIDE DEF u
<1>6. FlattenSeq(Append(u, ss[k])) = FlattenSeq(u) \o ss[k]
  BY <1>2, <1>3, FlattenAppend
<1> QED BY <1>4, <1>5, <1>6 DEF u

BlockRecord == [sort : Sorts \ {"eod"}, text : Seq(Byte)]
Packing(bs) == [k \in DOMAIN bs |-> Block(bs[k].sort, bs[k].text)]

\* Packed blocks are sequences of bytes, each with the sort and text of its record.
LEMMA PackingType ==
    ASSUME NEW bs \in Seq(BlockRecord)
    PROVE  /\ Packing(bs) \in Seq(Seq(Byte)) /\ Len(Packing(bs)) = Len(bs)
           /\ \A k \in 1..Len(bs) : /\ bs[k] \in BlockRecord /\ bs[k].sort \in Parts
                                    /\ bs[k].sort \in Sorts \ {"eod"} /\ bs[k].text \in Seq(Byte)
                                    /\ bs[k] = [sort |-> bs[k].sort, text |-> bs[k].text]
                                    /\ Packing(bs)[k] = Block(bs[k].sort, bs[k].text)
<1> DEFINE n == Len(bs)
           X == Seq(Byte)
           P == Packing(bs)
<1>1. n \in Nat /\ DOMAIN bs = 1..n
  BY LenProperties
<1>2. ASSUME NEW k \in 1..n
      PROVE  /\ bs[k] \in BlockRecord /\ bs[k].sort \in Parts
             /\ bs[k].sort \in Sorts \ {"eod"} /\ bs[k].text \in X
             /\ bs[k] = [sort |-> bs[k].sort, text |-> bs[k].text]
  <2>1. bs[k] \in BlockRecord
    <3> HIDE DEF BlockRecord
    <3> QED BY ElementOfSeq
  <2> HIDE DEF X
  <2>2. /\ bs[k].sort \in Sorts \ {"eod"} /\ bs[k].text \in X
        /\ bs[k] = [sort |-> bs[k].sort, text |-> bs[k].text]
    BY <2>1 DEF BlockRecord, X
  <2>3. bs[k].sort \in Parts
    BY <2>2 DEF Parts
  <2> QED BY <2>1, <2>2, <2>3
<1>3. P = [k \in 1..n |-> Block(bs[k].sort, bs[k].text)]
  BY <1>1 DEF Packing
<1>4. \A k \in 1..n : Block(bs[k].sort, bs[k].text) \in X
  BY <1>2, BlockType
<1>5. P \in Seq(X) /\ Len(P) = n
  <2> DEFINE e(k) == Block(bs[k].sort, bs[k].text)
  <2>1. P = [k \in 1..n |-> e(k)] /\ \A k \in 1..n : e(k) \in X
    BY <1>3, <1>4
  <2> HIDE DEF e, X, P
  <2> QED BY <1>1, <2>1, IsASeq, LenProperties
<1> QED BY <1>2, <1>3, <1>5

\* mg_add_block_size, mg_get_block_size: whatever blocks are written one after
\* the other, what reads them up to an end of data finds these, each with its
\* sort and its text, and nothing else.
THEOREM BlocksAsWritten ==
    ASSUME NEW bs \in Seq(BlockRecord), NEW end \in Seq(Byte), Len(end) >= HeadLen, end[HeadLen].of = "eod"
    PROVE  BlocksIn(FlattenSeq(Packing(bs)) \o end) = bs
<1> DEFINE n == Len(bs)
           P == Packing(bs)
           F == FlattenSeq(P)
           b == F \o end
           pre(k) == FlattenSeq(SubSeq(P, 1, k))
           post(k) == FlattenSeq(SubSeq(P, k + 1, n))
           rest(k) == SubSeq(bs, k + 1, n)
           pos(k) == Len(pre(k)) + 1
<1>1. /\ P \in Seq(Seq(Byte)) /\ Len(P) = n
      /\ \A k \in 1..n : /\ bs[k] \in BlockRecord /\ bs[k].sort \in Parts
                         /\ bs[k].sort \in Sorts \ {"eod"} /\ bs[k].text \in Seq(Byte)
                         /\ bs[k] = [sort |-> bs[k].sort, text |-> bs[k].text]
                         /\ P[k] = Block(bs[k].sort, bs[k].text)
  BY PackingType
<1>2. n \in Nat /\ HeadLen = 5 /\ Len(end) \in Nat
  BY LenProperties DEF HeadLen
<1> HIDE DEF P
<1>3. ASSUME NEW k \in 0..n
      PROVE  pre(k) \in Seq(Byte) /\ post(k) \in Seq(Byte) /\ F = pre(k) \o post(k) /\ pos(k) \in Nat
  <2>1. k \in 0..Len(P)
    BY <1>1
  <2>2. pre(k) \in Seq(Byte) /\ post(k) \in Seq(Byte) /\ F = pre(k) \o post(k)
    BY <1>1, <2>1, FlattenSplit
  <2> HIDE DEF pre
  <2> QED BY <2>2, LenProperties
<1>4. F \in Seq(Byte)
  BY <1>1, FlattenType
<1> HIDE DEF F
<1>5. /\ b \in Seq(Byte) /\ Len(b) = Len(F) + Len(end) /\ Len(F) \in Nat
      /\ \A i \in 1..Len(end) : b[Len(F) + i] = end[i]
  BY <1>4, Joined
<1>6. PICK f : BlocksIn(b) = f[1] /\ \A p \in 1..(Len(b) + 1) : f[p] = BlockStep(b, p, f)
  <2> HIDE DEF b
  <2> QED BY <1>5, BlocksWalked
<1>7. f[pos(n)] = <<>>
  <2>1. pre(n) = F
    <3>1. SubSeq(P, 1, n) = P
      BY <1>1, SubSeqFull
    <3> QED BY <3>1 DEF F
  <2>2. pos(n) = Len(F) + 1
    BY <2>1
  <2> DEFINE p == Len(F) + 1
  <2> HIDE DEF b
  <2>3. p + HeadLen - 1 = Len(F) + 5 /\ p \in 1..(Len(b) + 1) /\ 5 \in 1..Len(end) /\ p + HeadLen - 1 <= Len(b)
    BY <1>2, <1>5
  <2>4. SortAt(b, p) = "eod"
    BY <1>2, <1>5, <2>3 DEF SortAt
  <2>5. BlockStep(b, p, f) = <<>>
    BY <1>2, <1>5, <2>3, <2>4 DEF BlockStep, Sorts
  <2>6. f[p] = <<>>
    BY <1>6, <2>3, <2>5
  <2> QED BY <2>2, <2>6
<1>8. ASSUME NEW k \in 1..n PROVE f[pos(k - 1)] = << bs[k] >> \o f[pos(k)]
  <2> DEFINE u == pre(k - 1)
             sort == bs[k].sort
             text == bs[k].text
             c == Block(sort, text)
             w == post(k) \o end
             p == Len(u) + 1
  <2>1. k - 1 \in 0..n /\ k \in 0..n /\ k \in 1..Len(P)
    BY <1>1, <1>2
  <2>2. u \in Seq(Byte) /\ post(k) \in Seq(Byte) /\ F = pre(k) \o post(k)
    BY <1>3, <2>1
  <2>3. pre(k) = u \o c
    <3>1. FlattenSeq(SubSeq(P, 1, k)) = FlattenSeq(SubSeq(P, 1, k - 1)) \o P[k]
      BY <1>1, <2>1, FlattenNext
    <3> QED BY <1>1, <3>1
  <2>4. c \in Seq(Byte) /\ Len(c) = 5 + Len(text) /\ Len(text) \in Nat
    BY <1>1, BlockType, LenProperties
  <2>5. sort \in Parts /\ sort \in Sorts /\ sort # "eod" /\ text \in Seq(Byte) /\ bs[k] = [sort |-> sort, text |-> text]
    BY <1>1
  <2> HIDE DEF pre, post, c, sort, text
  <2>6. w \in Seq(Byte) /\ u \o c \in Seq(Byte) /\ Len(u \o c) = Len(u) + Len(c) /\ Len(u) \in Nat
    BY <2>2, <2>4, Joined
  <2>7. b = (u \o c) \o w
    <3> DEFINE x == u \o c
               y == post(k)
    <3>1. F = x \o y /\ x \in Seq(Byte) /\ y \in Seq(Byte)
      BY <2>2, <2>3, <2>6
    <3> HIDE DEF x, y
    <3>2. x \in Seq(Byte) /\ y \in Seq(Byte) /\ end \in Seq(Byte)
      BY <3>1
    <3>3. (x \o y) \o end = x \o (y \o end)
      BY ONLY <3>2, ConcatAssociative, SMTT(30)
    <3> QED BY <3>1, <3>3 DEF x, y
  <2> HIDE DEF u, w, b
  <2>8. /\ b \in Seq(Byte) /\ p \in 1..(Len(b) + 1) /\ p + HeadLen - 1 <= Len(b)
        /\ SortAt(b, p) = sort /\ WholeAt(b, p) /\ NextAt(b, p) = p + 5 + Len(text)
        /\ SubSeq(b, p + HeadLen, NextAt(b, p) - 1) = text
    <3>1. b = (u \o Block(sort, text)) \o w
      BY <2>7 DEF c
    <3>2. u \in Seq(Byte) /\ w \in Seq(Byte) /\ sort \in Parts /\ text \in Seq(Byte)
      BY <2>2, <2>5, <2>6 DEF u
    <3>3. ReadAs((u \o Block(sort, text)) \o w, Len(u) + 1, sort, text)
      BY ONLY <3>2, BlockReadAt
    <3> QED BY <3>1, <3>3 DEF ReadAs
  <2>9. NextAt(b, p) = pos(k)
    <3> DEFINE l == Len(pre(k))
    <3>1. l = Len(u) + (5 + Len(text))
      BY <2>3, <2>4, <2>6
    <3>2. pos(k) = l + 1
      OBVIOUS
    <3> HIDE DEF l, pos
    <3> QED BY <2>4, <2>6, <2>8, <3>1, <3>2
  <2>10. ~(p + HeadLen - 1 > Len(b))
    BY <1>2, <1>5, <2>6, <2>8
  <2>11. BlockStep(b, p, f) = << bs[k] >> \o f[pos(k)]
    <3> DEFINE x == f[NextAt(b, p)]
    <3>1. BlockStep(b, p, f) = << [sort |-> sort, text |-> text] >> \o x
      <4> HIDE DEF x
      <4> QED BY <2>5, <2>8, <2>10 DEF BlockStep, x
    <3> QED BY <2>5, <2>9, <3>1
  <2>12. f[p] = BlockStep(b, p, f)
    BY <1>6, <2>8
  <2> QED BY <2>11, <2>12 DEF u
<1> DEFINE T == {m \in Nat : m <= n => f[pos(n - m)] = rest(n - m)}
<1> HIDE DEF pre, pos
<1>9. 0 \in T
  <2>1. rest(n) = <<>>
    BY <1>2, SubSeqEmpty
  <2>2. n - 0 = n
    BY <1>2
  <2> QED BY <1>7, <2>1, <2>2
<1>10. ASSUME NEW m \in Nat, m \in T PROVE m + 1 \in T
  <2> SUFFICES ASSUME m + 1 <= n PROVE f[pos(n - (m + 1))] = rest(n - (m + 1))
    OBVIOUS
  <2> DEFINE k == n - m
  <2>1. k \in 1..n /\ n - (m + 1) = k - 1 /\ n \in k..n /\ (k - 1) + 1 = k
    BY <1>2
  <2>2. f[pos(k)] = rest(k)
    BY <1>2, <1>10
  <2> HIDE DEF k
  <2>3. f[pos(k - 1)] = << bs[k] >> \o f[pos(k)]
    BY <1>8, <2>1
  <2>4. rest(k - 1) = << bs[k] >> \o rest(k)
    <3>1. SubSeq(bs, k, n) = << bs[k] >> \o SubSeq(bs, k + 1, n)
      <4> HIDE DEF BlockRecord
      <4> QED BY <2>1, SubSeqRecursiveFirst
    <3> QED BY <2>1, <3>1
  <2> QED BY <2>1, <2>2, <2>3, <2>4
<1>11. n \in T
  <2> HIDE DEF T
  <2> QED BY <1>2, <1>9, <1>10, NumberInduction
<1>12. f[pos(0)] = bs
  <2>1. n - n = 0 /\ 0 + 1 = 1
    BY <1>2
  <2>2. rest(0) = bs
    <3> HIDE DEF BlockRecord
    <3> QED BY <2>1, SubSeqFull
  <2>3. f[pos(n - n)] = rest(n - n)
    BY <1>2, <1>11
  <2> QED BY <2>1, <2>2, <2>3
<1>13. pos(0) = 1
  <2>1. SubSeq(P, 1, 0) = <<>>
    BY SubSeqEmpty
  <2>2. pre(0) = <<>>
    BY <2>1, FlattenNone DEF pre
  <2> QED BY <2>2 DEF pos
<1> QED BY <1>6, <1>12, <1>13 DEF F, P

---------------------------------------------------------------------------
(* What the buffer is made up of *)

Flat(bs) == FlattenSeq(Packing(bs))

LEMMA FlatType ==
    ASSUME NEW bs \in Seq(BlockRecord)
    PROVE  Flat(bs) \in Seq(Byte)
BY PackingType, FlattenType DEF Flat

\* Packing two lists of blocks is packing the one, and then the other.
LEMMA FlatConcat ==
    ASSUME NEW bs \in Seq(BlockRecord), NEW cs \in Seq(BlockRecord)
    PROVE  bs \o cs \in Seq(BlockRecord) /\ Flat(bs \o cs) = Flat(bs) \o Flat(cs)
<1> DEFINE m == Len(bs)
           n == Len(cs)
           ds == bs \o cs
           P == Packing(bs)
           Q == Packing(cs)
           R == Packing(ds)
           X == Seq(Byte)
<1>1. /\ ds \in Seq(BlockRecord) /\ Len(ds) = m + n /\ m \in Nat /\ n \in Nat
      /\ \A i \in 1..m : ds[i] = bs[i]
      /\ \A i \in 1..n : ds[m + i] = cs[i]
  <2>1. bs \in Seq(BlockRecord) /\ cs \in Seq(BlockRecord)
    OBVIOUS
  <2> QED BY ONLY <2>1, Joined
<1> HIDE DEF ds
<1>2. P \in Seq(X) /\ Len(P) = m /\ \A k \in 1..m : P[k] = Block(bs[k].sort, bs[k].text)
  BY PackingType
<1>3. Q \in Seq(X) /\ Len(Q) = n /\ \A k \in 1..n : Q[k] = Block(cs[k].sort, cs[k].text)
  BY PackingType
<1>4. R \in Seq(X) /\ Len(R) = m + n /\ \A k \in 1..(m + n) : R[k] = Block(ds[k].sort, ds[k].text)
  BY <1>1, PackingType
<1> HIDE DEF P, Q, R, X, m, n
<1>5. /\ P \o Q \in Seq(X) /\ Len(P \o Q) = m + n
      /\ \A i \in 1..m : (P \o Q)[i] = P[i]
      /\ \A i \in 1..n : (P \o Q)[m + i] = Q[i]
  <2>1. P \in Seq(X) /\ Q \in Seq(X)
    BY <1>2, <1>3
  <2>2. /\ P \o Q \in Seq(X) /\ Len(P \o Q) = Len(P) + Len(Q)
        /\ \A i \in 1..Len(P) : (P \o Q)[i] = P[i]
        /\ \A i \in 1..Len(Q) : (P \o Q)[Len(P) + i] = Q[i]
    BY ONLY <2>1, Joined
  <2> QED BY <1>2, <1>3, <2>2
<1> DEFINE pq == P \o Q
<1> HIDE DEF pq
<1>6. ASSUME NEW k \in 1..(m + n) PROVE R[k] = pq[k]
  <2>1. CASE k \in 1..m
    <3>1. k \in 1..(m + n) /\ ds[k] = bs[k] /\ pq[k] = P[k] /\ P[k] = Block(bs[k].sort, bs[k].text)
      BY <1>1, <1>2, <1>5, <2>1 DEF pq
    <3>2. R[k] = Block(ds[k].sort, ds[k].text)
      BY <1>4
    <3> QED BY <3>1, <3>2
  <2>2. CASE k \notin 1..m
    <3> DEFINE j == k - m
    <3>1. j \in 1..n /\ k = m + j
      BY <1>1, <2>2
    <3> HIDE DEF j
    <3>2. ds[k] = cs[j] /\ pq[k] = Q[j]
      BY <1>1, <1>5, <3>1 DEF pq
    <3> QED BY <1>3, <1>4, <3>1, <3>2
  <2> QED BY <2>1, <2>2
<1>7. R = pq
  <2>1. pq \in Seq(X) /\ Len(pq) = m + n
    BY <1>5 DEF pq
  <2> QED BY <1>4, <1>6, <2>1, SeqEqual
<1>8. FlattenSeq(pq) = FlattenSeq(P) \o FlattenSeq(Q)
  BY <1>2, <1>3, FlattenConcat DEF pq, X
<1> QED BY <1>1, <1>7, <1>8 DEF Flat, P, Q, R, ds

\* The texts of a sort of blocks.
Records(sort, texts) == [k \in DOMAIN texts |-> [sort |-> sort, text |-> texts[k]]]

LEMMA RecordsType ==
    ASSUME NEW sort \in Sorts \ {"eod"}, NEW texts \in Seq(Seq(Byte))
    PROVE  /\ Records(sort, texts) \in Seq(BlockRecord) /\ Len(Records(sort, texts)) = Len(texts)
           /\ \A k \in 1..Len(texts) : Records(sort, texts)[k] = [sort |-> sort, text |-> texts[k]]
           /\ Packing(Records(sort, texts)) = [k \in 1..Len(texts) |-> Block(sort, texts[k])]
<1> DEFINE X == Seq(Byte)
           n == Len(texts)
           e(k) == [sort |-> sort, text |-> texts[k]]
           rs == Records(sort, texts)
<1>1. n \in Nat /\ DOMAIN texts = 1..n
  BY LenProperties
<1>2. \A k \in 1..n : texts[k] \in X
  <2>1. texts \in Seq(X)
    OBVIOUS
  <2> HIDE DEF X
  <2> QED BY <2>1, ElementOfSeq
<1>3. \A k \in 1..n : e(k) \in BlockRecord
  <2> HIDE DEF X
  <2> QED BY <1>2 DEF BlockRecord, X
<1>4. rs = [k \in 1..n |-> e(k)]
  BY <1>1 DEF Records
<1> HIDE DEF rs
<1>5. rs \in Seq(BlockRecord) /\ Len(rs) = n /\ \A k \in 1..n : rs[k] = e(k)
  <2> HIDE DEF e
  <2> QED BY <1>1, <1>3, <1>4, IsASeq
<1>6. DOMAIN rs = 1..n
  BY <1>4
<1>7. \A k \in 1..n : rs[k].sort = sort /\ rs[k].text = texts[k]
  <2> TAKE k \in 1..n
  <2>1. rs[k] = e(k)
    BY <1>5
  <2> QED BY <2>1
<1>8. Packing(rs) = [k \in 1..n |-> Block(sort, texts[k])]
  BY <1>6, <1>7 DEF Packing
<1> QED BY <1>5, <1>8 DEF rs

\* No texts make no bytes.
LEMMA RecordsNone ==
    ASSUME NEW sort
    PROVE  Records(sort, <<>>) = <<>> /\ Flat(Records(sort, <<>>)) = <<>>
<1>1. Records(sort, <<>>) = <<>>
  BY DEF Records
<1>2. Packing(<<>>) = <<>>
  BY DEF Packing
<1> QED BY <1>1, <1>2, FlattenNone DEF Flat

VariableTexts(r) == [k \in DOMAIN r.variables |-> Variable(r, k)]
SseTexts(r) == IF r.sse THEN << Sse >> ELSE <<>>
WebSocketTexts(r) == IF r.websocket THEN WebSocket ELSE <<>>

\* The texts of the variables, of events and of a WebSocket.
LEMMA TextsType ==
    ASSUME NEW r \in RequestRecord
    PROVE  /\ VariableTexts(r) \in Seq(Seq(Byte)) /\ SseTexts(r) \in Seq(Seq(Byte))
           /\ WebSocketTexts(r) \in Seq(Seq(Byte))
<1> DEFINE X == Seq(Byte)
<1>1. "sse" \in Parts /\ "ws" \in Parts /\ "wsfunction" \in Parts /\ "variable" \in Parts
  BY DEF Parts
<1>2. <<>> \in Seq(X)
  BY EmptySeq
<1>3. Sse \in X
  BY <1>1, TextType DEF Sse
<1>4. Text("ws", 0, 4) \in X /\ Text("wsfunction", 0, 12) \in X
  BY <1>1, TextType
<1>5. VariableTexts(r) \in Seq(X)
  <2> DEFINE n == Len(r.variables)
             e(k) == Variable(r, k)
  <2>1. r.variables \in Seq(Nat)
    BY DEF RequestRecord
  <2>2. n \in Nat /\ DOMAIN r.variables = 1..n /\ \A k \in 1..n : r.variables[k] \in Nat
    BY <2>1, LenProperties, ElementOfSeq
  <2> HIDE DEF n
  <2>3. \A k \in 1..n : e(k) \in X
    <3> TAKE k \in 1..n
    <3>1. k \in Nat /\ r.variables[k] \in Nat
      BY <2>2
    <3> QED BY <1>1, <3>1, TextType DEF Variable
  <2>4. VariableTexts(r) = [k \in 1..n |-> e(k)]
    BY <2>2 DEF VariableTexts
  <2> HIDE DEF e, X
  <2> QED BY <2>2, <2>3, <2>4, IsASeq
<1> HIDE DEF X
<1>6. SseTexts(r) \in Seq(X)
  <2> DEFINE s == Sse
  <2>1. s \in X
    BY <1>3
  <2> HIDE DEF s
  <2>2. << s >> \in Seq(X)
    BY <2>1
  <2> QED BY <1>2, <2>2 DEF SseTexts, s
<1>7. WebSocketTexts(r) \in Seq(X)
  <2> DEFINE s == Text("ws", 0, 4)
             t == Text("wsfunction", 0, 12)
  <2>1. s \in X /\ t \in X
    BY <1>4
  <2> HIDE DEF s, t
  <2>2. << s, t >> \in Seq(X)
    BY <2>1
  <2> QED BY <1>2, <2>2 DEF WebSocketTexts, WebSocket, s, t
<1> QED BY <1>5, <1>6, <1>7 DEF X

\* The blocks that mg_web writes are those of these texts.
LEMMA BlocksOfTexts ==
    ASSUME NEW r \in RequestRecord
    PROVE  /\ Flat(Records("cgi", VariableTexts(r))) = FlattenSeq(VariableBlocks(r))
           /\ Flat(Records("sys", SseTexts(r))) = FlattenSeq(SseBlocks(r))
           /\ Flat(Records("sys", WebSocketTexts(r))) = FlattenSeq(WebSocketBlocks(r))
<1>1. "cgi" \in Sorts \ {"eod"} /\ "sys" \in Sorts \ {"eod"}
  BY DEF Sorts
<1>2. Packing(Records("cgi", VariableTexts(r))) = VariableBlocks(r)
  <2> DEFINE n == Len(r.variables)
             t == VariableTexts(r)
  <2>1. r.variables \in Seq(Nat)
    BY DEF RequestRecord
  <2>2. n \in Nat /\ DOMAIN r.variables = 1..n
    BY <2>1, LenProperties
  <2>3. Len(t) = n /\ \A k \in 1..n : t[k] = Variable(r, k)
    BY <2>2 DEF VariableTexts
  <2>4. Packing(Records("cgi", t)) = [k \in 1..Len(t) |-> Block("cgi", t[k])]
    BY <1>1, TextsType, RecordsType
  <2>5. VariableBlocks(r) = [k \in 1..n |-> Block("cgi", Variable(r, k))]
    BY <2>2 DEF VariableBlocks
  <2> HIDE DEF t, n
  <2> QED BY <2>3, <2>4, <2>5 DEF t
<1>3. Packing(Records("sys", SseTexts(r))) = SseBlocks(r)
  <2> DEFINE t == SseTexts(r)
  <2>1. Packing(Records("sys", t)) = [k \in 1..Len(t) |-> Block("sys", t[k])]
    BY <1>1, TextsType, RecordsType
  <2>2. CASE r.sse
    <3>1. t = << Sse >>
      BY <2>2 DEF SseTexts
    <3>2. Len(t) = 1 /\ t[1] = Sse
      BY <3>1
    <3> HIDE DEF t
    <3>3. [k \in 1..1 |-> Block("sys", t[k])] = << Block("sys", Sse) >>
      <4> DEFINE b == Block("sys", Sse)
      <4>1. \A k \in 1..1 : Block("sys", t[k]) = b
        BY <3>2
      <4> HIDE DEF b
      <4>2. [k \in 1..1 |-> b] = << b >>
        OBVIOUS
      <4> QED BY <4>1, <4>2 DEF b
    <3> QED BY <2>1, <2>2, <3>2, <3>3 DEF SseBlocks, t
  <2>3. CASE ~r.sse
    <3>1. t = <<>>
      BY <2>3 DEF SseTexts
    <3> HIDE DEF t
    <3>2. Packing(Records("sys", t)) = <<>>
      BY <2>1, <3>1
    <3> QED BY <2>3, <3>2 DEF SseBlocks, t
  <2> QED BY <2>2, <2>3
<1>4. Packing(Records("sys", WebSocketTexts(r))) = WebSocketBlocks(r)
  <2> DEFINE t == WebSocketTexts(r)
  <2>1. Packing(Records("sys", t)) = [k \in 1..Len(t) |-> Block("sys", t[k])]
    BY <1>1, TextsType, RecordsType
  <2>2. CASE r.websocket
    <3>1. t = WebSocket
      BY <2>2 DEF WebSocketTexts
    <3>2. Len(t) = 2
      BY <3>1 DEF WebSocket
    <3> HIDE DEF t
    <3> QED BY <2>1, <2>2, <3>1, <3>2 DEF WebSocketBlocks, t
  <2>3. CASE ~r.websocket
    <3>1. t = <<>>
      BY <2>3 DEF WebSocketTexts
    <3> HIDE DEF t
    <3>2. Packing(Records("sys", t)) = <<>>
      BY <2>1, <3>1
    <3> QED BY <2>3, <3>2 DEF WebSocketBlocks, t
  <2> QED BY <2>2, <2>3
<1> QED BY <1>2, <1>3, <1>4 DEF Flat

\* What is in the room of each field.
Values == {v \in [1..7 -> Seq(Byte)] : \A k \in 1..7 : Len(v[k]) = Fields[k].room}
FieldTexts(v) == [k \in 1..7 |-> Assigned(k, v[k])]
FirstValues == [k \in 1..7 |-> FirstValue(k)]

LEMMA FieldTextsType ==
    ASSUME NEW v \in Values
    PROVE  /\ FieldTexts(v) \in Seq(Seq(Byte)) /\ Len(FieldTexts(v)) = 7
           /\ Packing(Records("sys", FieldTexts(v))) = [k \in 1..7 |-> Block("sys", Assigned(k, v[k]))]
           /\ Packing(Records("sys", FieldTexts(v))) \in Seq(Seq(Byte))
<1> DEFINE X == Seq(Byte)
           t == FieldTexts(v)
           e(k) == Assigned(k, v[k])
<1>1. \A k \in 1..7 : e(k) \in X
  <2> TAKE k \in 1..7
  <2>1. v[k] \in Seq(Byte) /\ Len(v[k]) = Fields[k].room
    BY DEF Values
  <2> QED BY <2>1, AssignedType
<1>2. t \in Seq(X) /\ Len(t) = 7 /\ \A k \in 1..7 : t[k] = e(k)
  <2>1. t = [k \in 1..7 |-> e(k)]
    BY DEF FieldTexts
  <2> HIDE DEF e, X, t
  <2>2. [k \in 1..7 |-> e(k)] \in Seq(X)
    BY <1>1, IsASeq
  <2>3. Len([k \in 1..7 |-> e(k)]) = 7
    OBVIOUS
  <2> QED BY <2>1, <2>2, <2>3
<1>3. "sys" \in Sorts \ {"eod"}
  BY DEF Sorts
<1> HIDE DEF t
<1>4. Packing(Records("sys", t)) = [k \in 1..Len(t) |-> Block("sys", t[k])]
  BY <1>2, <1>3, RecordsType
<1>5. Packing(Records("sys", t)) = [k \in 1..7 |-> Block("sys", e(k))]
  BY <1>2, <1>4
<1>6. Packing(Records("sys", t)) \in Seq(X)
  BY <1>2, <1>3, RecordsType, PackingType
<1> QED BY <1>2, <1>5, <1>6 DEF t

\* With their first values the fields are what mg_web packs.
LEMMA FirstFieldBlocks ==
    FirstValues \in Values /\ Packing(Records("sys", FieldTexts(FirstValues))) = FieldBlocks
<1> DEFINE v == FirstValues
<1>1. \A k \in 1..7 : v[k] = FirstValue(k)
  BY DEF FirstValues
<1>2. v \in Values
  <2>1. \A k \in 1..7 : FirstValue(k) \in Seq(Byte) /\ Len(FirstValue(k)) = Fields[k].room
    BY FirstValueType
  <2> QED BY <2>1 DEF FirstValues, Values
<1>3. FieldBlocks = [k \in 1..7 |-> Block("sys", Assigned(k, FirstValue(k)))]
  BY FieldPlaces DEF FieldBlocks
<1> HIDE DEF v
<1>4. Packing(Records("sys", FieldTexts(v))) = [k \in 1..7 |-> Block("sys", Assigned(k, v[k]))]
  BY <1>2, FieldTextsType
<1> QED BY <1>1, <1>2, <1>3, <1>4 DEF v

\* The same sequences, one after the other.
Associates(a, b, c) == (a \o b) \o c = a \o (b \o c)

\* Regrouping what is joined.
LEMMA Associative ==
    ASSUME NEW S, NEW a \in Seq(S), NEW b \in Seq(S), NEW c \in Seq(S)
    PROVE  Associates(a, b, c)
BY ConcatAssociative, SMTT(60) DEF Associates

Regroups(a, b, c, d) ==
    /\ (a \o b) \o (c \o d) = ((a \o b) \o c) \o d
    /\ (a \o b) \o (c \o d) = a \o (b \o (c \o d))
    /\ (a \o b) \o (c \o d) = a \o ((b \o c) \o d)
    /\ (a \o b) \o (c \o d) = (a \o (b \o c)) \o d

LEMMA Regroup ==
    ASSUME NEW S, NEW a \in Seq(S), NEW b \in Seq(S), NEW c \in Seq(S), NEW d \in Seq(S)
    PROVE  Regroups(a, b, c, d)
<1> DEFINE ab == a \o b
           bc == b \o c
           cd == c \o d
<1>1. ab \in Seq(S) /\ bc \in Seq(S) /\ cd \in Seq(S)
  BY ConcatProperties
<1>2. Associates(a, b, c) /\ Associates(b, c, d)
  BY Associative
<1> HIDE DEF ab, bc, cd
<1>3. Associates(ab, c, d) /\ Associates(a, b, cd) /\ Associates(a, bc, d)
  BY <1>1, Associative
<1>4. ab \o c = a \o bc /\ bc \o d = b \o cd
  BY <1>2 DEF Associates, ab, bc, cd
<1>5. /\ (ab \o c) \o d = ab \o (c \o d) /\ (a \o b) \o cd = a \o (b \o cd)
      /\ (a \o bc) \o d = a \o (bc \o d)
  BY <1>3 DEF Associates
<1> QED BY <1>4, <1>5 DEF Regroups, ab, bc, cd

FieldPacking(v) == Packing(Records("sys", FieldTexts(v)))
Prefix(v, k) == FlattenSeq(SubSeq(FieldPacking(v), 1, k))
FieldHead(k) == BlockHead("sys", Fields[k].prefix + Fields[k].room) \o Text(Fields[k].name, 0, Fields[k].prefix)

LEMMA FieldHeadType ==
    ASSUME NEW k \in 1..7
    PROVE  FieldHead(k) \in Seq(Byte) /\ Len(FieldHead(k)) = 5 + Fields[k].prefix
<1> DEFINE prefix == Fields[k].prefix
           room == Fields[k].room
           head == BlockHead("sys", prefix + room)
           name == Text(Fields[k].name, 0, prefix)
<1>1. Fields[k].name \in Parts /\ prefix \in Nat /\ room \in Nat /\ 0 \in Nat
  BY FieldLengths
<1>2. "sys" \in Parts
  BY DEF Parts, Sorts
<1>3. name \in Seq(Byte) /\ Len(name) = prefix
  BY <1>1, TextType
<1>4. head \in Seq(Byte) /\ Len(head) = 5
  <2>1. prefix + room \in Nat
    BY <1>1
  <2> QED BY <1>2, <2>1, HeadType
<1> HIDE DEF head, name, prefix
<1>5. head \o name \in Seq(Byte) /\ Len(head \o name) = Len(head) + Len(name)
  BY ONLY <1>3, <1>4, ConcatProperties
<1> QED BY <1>3, <1>4, <1>5 DEF FieldHead, head, name, prefix

\* The place of a value in the blocks of the fields.
LEMMA FieldSplit ==
    ASSUME NEW v \in Values, NEW k \in 1..7
    PROVE  /\ Prefix(v, k - 1) \in Seq(Byte) /\ FlattenSeq(SubSeq(FieldPacking(v), k + 1, 7)) \in Seq(Byte)
           /\ v[k] \in Seq(Byte) /\ Len(v[k]) = Fields[k].room
           /\ Prefix(v, k) = (Prefix(v, k - 1) \o FieldHead(k)) \o v[k]
           /\ Flat(Records("sys", FieldTexts(v)))
                 = ((Prefix(v, k - 1) \o FieldHead(k)) \o v[k]) \o FlattenSeq(SubSeq(FieldPacking(v), k + 1, 7))
<1> DEFINE P == FieldPacking(v)
           pre == Prefix(v, k - 1)
           post == FlattenSeq(SubSeq(P, k + 1, 7))
           prefix == Fields[k].prefix
           room == Fields[k].room
           head == BlockHead("sys", prefix + room)
           name == Text(Fields[k].name, 0, prefix)
           value == v[k]
<1>1. P \in Seq(Seq(Byte)) /\ Len(P) = 7 /\ P[k] = Block("sys", Assigned(k, value))
  <2>1. P = [j \in 1..7 |-> Block("sys", Assigned(j, v[j]))] /\ P \in Seq(Seq(Byte))
    BY FieldTextsType DEF FieldPacking
  <2> HIDE DEF P
  <2> QED BY <2>1
<1>2. value \in Seq(Byte) /\ Len(value) = room
  BY DEF Values
<1>3. P[k] = head \o (name \o value)
  <2>1. Len(Assigned(k, value)) = prefix + room
    BY <1>2, AssignedType
  <2> QED BY <1>1, <2>1 DEF Block, Assigned
<1>4. Fields[k].name \in Parts /\ prefix \in Nat /\ room \in Nat /\ "sys" \in Parts /\ 0 \in Nat
  BY FieldLengths DEF Parts, Sorts
<1> HIDE DEF P
<1>5. pre \in Seq(Byte) /\ Prefix(v, k) \in Seq(Byte) /\ post \in Seq(Byte)
      /\ FlattenSeq(P) = Prefix(v, k) \o post /\ Prefix(v, k) = pre \o P[k]
  <2>1. k - 1 \in 0..Len(P) /\ k \in 0..Len(P) /\ k \in 1..Len(P) /\ Len(P) = 7
    BY <1>1
  <2>2. FlattenSeq(SubSeq(P, 1, k - 1)) \in Seq(Byte)
    BY <1>1, <2>1, FlattenSplit
  <2>3. /\ FlattenSeq(SubSeq(P, 1, k)) \in Seq(Byte) /\ FlattenSeq(SubSeq(P, k + 1, Len(P))) \in Seq(Byte)
        /\ FlattenSeq(P) = FlattenSeq(SubSeq(P, 1, k)) \o FlattenSeq(SubSeq(P, k + 1, Len(P)))
    BY <1>1, <2>1, FlattenSplit
  <2>4. FlattenSeq(SubSeq(P, 1, k)) = FlattenSeq(SubSeq(P, 1, k - 1)) \o P[k]
    BY <1>1, <2>1, FlattenNext
  <2> QED BY <2>1, <2>2, <2>3, <2>4 DEF Prefix, P
<1>6. head \in Seq(Byte) /\ name \in Seq(Byte)
  <2>1. prefix + room \in Nat
    BY <1>4
  <2>2. head \in Seq(Byte)
    BY <1>4, <2>1, HeadType
  <2> QED BY <1>4, <2>2, TextType
<1> HIDE DEF pre, post, head, name, value
<1>7. pre \o (head \o (name \o value)) = (pre \o (head \o name)) \o value
  <2>1. pre \in Seq(Byte) /\ head \in Seq(Byte) /\ name \in Seq(Byte) /\ value \in Seq(Byte)
    BY <1>2, <1>5, <1>6
  <2>2. Regroups(pre, head, name, value)
    BY ONLY <2>1, Regroup
  <2> QED BY <2>2 DEF Regroups
<1>8. FieldHead(k) = head \o name
  BY DEF FieldHead, head, name
<1>9. Prefix(v, k) = (pre \o FieldHead(k)) \o value
  BY <1>3, <1>5, <1>7, <1>8
<1>10. Flat(Records("sys", FieldTexts(v))) = FlattenSeq(P)
  BY DEF Flat, P, FieldPacking
<1> QED BY <1>2, <1>5, <1>9, <1>10 DEF pre, post, value, P

\* What is in the rooms does not move the fields.
LEMMA PrefixLength ==
    ASSUME NEW v \in Values, NEW w \in Values, NEW k \in 0..7
    PROVE  Len(Prefix(v, k)) = Len(Prefix(w, k)) /\ Len(Prefix(v, k)) \in Nat
<1> DEFINE T == {j \in Nat : j <= 7 => Len(Prefix(v, j)) = Len(Prefix(w, j)) /\ Len(Prefix(v, j)) \in Nat}
<1>1. 0 \in T
  <2>1. ASSUME NEW x PROVE Prefix(x, 0) = <<>>
    <3>1. SubSeq(FieldPacking(x), 1, 0) = <<>>
      BY SubSeqEmpty
    <3> QED BY <3>1, FlattenNone DEF Prefix
  <2> QED BY <2>1
<1>2. ASSUME NEW j \in Nat, j \in T PROVE j + 1 \in T
  <2> SUFFICES ASSUME j + 1 <= 7
               PROVE  Len(Prefix(v, j + 1)) = Len(Prefix(w, j + 1)) /\ Len(Prefix(v, j + 1)) \in Nat
    OBVIOUS
  <2> DEFINE i == j + 1
             pv == Prefix(v, j)
             pw == Prefix(w, j)
             prefix == Fields[i].prefix
             room == Fields[i].room
             head == FieldHead(i)
  <2>1. i \in 1..7 /\ i - 1 = j
    OBVIOUS
  <2>2. Len(pv) = Len(pw) /\ Len(pv) \in Nat
    BY <1>2
  <2>3. head \in Seq(Byte) /\ Len(head) = 5 + prefix /\ prefix \in Nat /\ room \in Nat
    BY <2>1, FieldHeadType, FieldLengths
  <2>4. ASSUME NEW x \in Values
        PROVE  LET px == Prefix(x, j) IN Len(Prefix(x, i)) = (Len(px) + (5 + prefix)) + room
    <3> DEFINE px == Prefix(x, j)
               xi == x[i]
    <3>1. px \in Seq(Byte) /\ xi \in Seq(Byte) /\ Len(xi) = room /\ Prefix(x, i) = (px \o head) \o xi
      BY <2>1, FieldSplit
    <3> HIDE DEF px, xi, head
    <3>2. px \o head \in Seq(Byte) /\ Len(px \o head) = Len(px) + Len(head)
      BY <2>3, <3>1, ConcatProperties
    <3>3. Len((px \o head) \o xi) = Len(px \o head) + Len(xi)
      BY <3>1, <3>2, ConcatProperties
    <3> QED BY <2>3, <3>1, <3>2, <3>3 DEF px
  <2> DEFINE lv == Len(pv)
             lw == Len(pw)
             nv == Len(Prefix(v, i))
             nw == Len(Prefix(w, i))
  <2>5. nv = (lv + (5 + prefix)) + room /\ nw = (lw + (5 + prefix)) + room
    BY <2>4
  <2> HIDE DEF lv, lw, nv, nw, prefix, room
  <2>6. nv = nw /\ nv \in Nat
    BY <2>2, <2>3, <2>5 DEF lv, lw
  <2> QED BY <2>6 DEF nv, nw
<1>3. Nat \subseteq T
  <2> HIDE DEF T
  <2> QED BY <1>1, <1>2, NumberInduction
<1>4. k \in T /\ k <= 7
  BY <1>3
<1> QED BY <1>4

\* The buffer, when the rooms of the fields hold these values, and the request these
\* contents: up to the fields, and what follows them.
Start(r, head) == (Parameters \o head) \o Flat(Records("cgi", VariableTexts(r)))
FieldPart(v) == Flat(Records("sys", FieldTexts(v)))
Extras(r) == Flat(Records("sys", SseTexts(r))) \o Flat(Records("sys", WebSocketTexts(r)))
Ending(r, c) == Extras(r) \o Flat(Records("content", c))
Core(r, head, v, c) == (Start(r, head) \o FieldPart(v)) \o Ending(r, c)

\* The parts of the core of a request.
LEMMA PartTypes ==
    ASSUME NEW r \in RequestRecord, NEW head \in Seq(Byte), Len(head) = 5, NEW v \in Values,
           NEW c \in Seq(Seq(Byte))
    PROVE  /\ Parameters \in Seq(Byte) /\ Flat(Records("cgi", VariableTexts(r))) \in Seq(Byte)
           /\ Flat(Records("sys", SseTexts(r))) \in Seq(Byte)
           /\ Flat(Records("sys", WebSocketTexts(r))) \in Seq(Byte)
           /\ Flat(Records("content", c)) \in Seq(Byte)
           /\ FieldPart(v) \in Seq(Byte) /\ Extras(r) \in Seq(Byte) /\ Ending(r, c) \in Seq(Byte)
           /\ Start(r, head) \in Seq(Byte) /\ Len(Start(r, head)) = Len(Opened(r))
           /\ Core(r, head, v, c) \in Seq(Byte) /\ Len(Core(r, head, v, c)) \in Nat
<1> DEFINE P == Parameters
           V == Flat(Records("cgi", VariableTexts(r)))
           S == Flat(Records("sys", SseTexts(r)))
           W == Flat(Records("sys", WebSocketTexts(r)))
           C == Flat(Records("content", c))
           F == FieldPart(v)
           unset == [i \in 1..HeadLen |-> Unwritten]
<1>1. "cgi" \in Sorts \ {"eod"} /\ "sys" \in Sorts \ {"eod"} /\ "content" \in Sorts \ {"eod"}
  BY DEF Sorts
<1>2. P \in Seq(Byte)
  BY OpenedType
<1>3. V \in Seq(Byte)
  BY <1>1, TextsType, RecordsType, FlatType
<1>4. S \in Seq(Byte) /\ W \in Seq(Byte)
  BY <1>1, TextsType, RecordsType, FlatType
<1>5. C \in Seq(Byte)
  BY <1>1, RecordsType, FlatType
<1>6. F \in Seq(Byte)
  BY <1>1, FieldTextsType, RecordsType, FlatType DEF FieldPart
<1>7. unset \in Seq(Byte) /\ Len(unset) = 5
  <2>1. HeadLen = 5
    BY DEF HeadLen
  <2>2. \A i \in 1..5 : Unwritten \in Byte
    BY NulType
  <2>3. [i \in 1..5 |-> Unwritten] \in Seq(Byte) /\ Len([i \in 1..5 |-> Unwritten]) = 5
    BY <2>2, IsASeq
  <2> QED BY <2>1, <2>3
<1>8. Opened(r) = (P \o unset) \o V
  BY BlocksOfTexts DEF Opened
<1>9. Start(r, head) = (P \o head) \o V /\ Extras(r) = S \o W /\ Ending(r, c) = (S \o W) \o C
      /\ Core(r, head, v, c) = (Start(r, head) \o F) \o ((S \o W) \o C)
  BY DEF Start, Extras, Ending, Core
<1> HIDE DEF P, V, S, W, C, F, unset
<1>10. S \o W \in Seq(Byte) /\ (S \o W) \o C \in Seq(Byte)
  BY <1>4, <1>5, ConcatProperties
<1>11. /\ P \o head \in Seq(Byte) /\ Len(P \o head) = Len(P) + 5
       /\ P \o unset \in Seq(Byte) /\ Len(P \o unset) = Len(P) + 5
  <2>1. P \in Seq(Byte) /\ head \in Seq(Byte) /\ unset \in Seq(Byte)
    BY <1>2, <1>7
  <2>2. P \o head \in Seq(Byte) /\ P \o unset \in Seq(Byte)
    BY ONLY <2>1, ConcatProperties
  <2>3. Len(P \o head) = Len(P) + Len(head) /\ Len(P \o unset) = Len(P) + Len(unset)
    BY ONLY <2>1, ConcatProperties
  <2> QED BY <1>7, <2>2, <2>3
<1> DEFINE x == P \o head
           y == P \o unset
<1> HIDE DEF x, y
<1>12. /\ x \o V \in Seq(Byte) /\ Len(x \o V) = Len(x) + Len(V) /\ Len(y \o V) = Len(y) + Len(V)
  <2>1. x \in Seq(Byte) /\ y \in Seq(Byte)
    BY <1>11 DEF x, y
  <2> QED BY <1>3, <2>1, ConcatProperties
<1>13. Start(r, head) \in Seq(Byte) /\ Len(Start(r, head)) = Len(Opened(r))
  BY <1>8, <1>9, <1>11, <1>12 DEF x, y
<1>14. (Start(r, head) \o F) \o ((S \o W) \o C) \in Seq(Byte)
  <2> DEFINE s == Start(r, head)
             e == (S \o W) \o C
  <2>1. s \in Seq(Byte) /\ e \in Seq(Byte)
    BY <1>10, <1>13
  <2> HIDE DEF s, e
  <2>2. s \o F \in Seq(Byte)
    BY <1>6, <2>1, ConcatProperties
  <2>3. (s \o F) \o e \in Seq(Byte)
    BY <2>1, <2>2, ConcatProperties
  <2> QED BY <2>3 DEF s, e
<1>15. Len(Core(r, head, v, c)) \in Nat
  BY <1>9, <1>14, LenProperties
<1> QED BY <1>2, <1>3, <1>4, <1>5, <1>6, <1>9, <1>10, <1>13, <1>14, <1>15 DEF P, V, S, W, C, F

\* Where a field is written.
PlaceOf(r, k) ==
    Len(Opened(r)) + Len(FlattenSeq(SubSeq(FieldBlocks, 1, k - 1))) + HeadLen + Fields[k].prefix + 1

\* A write over a field changes what is in its room, and nothing else.
Rewritten(v, k, bytes) == [v EXCEPT ![k] = Put(v[k], 1, bytes)]

WritesField(r, head, v, c, tail, k, bytes) ==
    /\ Rewritten(v, k, bytes) \in Values
    /\ Put(Core(r, head, v, c) \o tail, PlaceOf(r, k), bytes) = Core(r, head, Rewritten(v, k, bytes), c) \o tail

\* A write into the room of a field changes what is in that room, and nothing else.
LEMMA FieldWrite ==
    ASSUME NEW r \in RequestRecord, NEW head \in Seq(Byte), Len(head) = 5, NEW v \in Values,
           NEW c \in Seq(Seq(Byte)), NEW tail \in Seq(Byte), NEW k \in 1..7,
           NEW bytes \in Seq(Byte), Len(bytes) <= Fields[k].room
    PROVE  WritesField(r, head, v, c, tail, k, bytes)
<1> DEFINE w == Rewritten(v, k, bytes)
           x == v[k]
           y == Put(x, 1, bytes)
           room == Fields[k].room
           prefix == Fields[k].prefix
           a == Start(r, head)
           p == Prefix(v, k - 1)
           h == FieldHead(k)
           post == FlattenSeq(SubSeq(FieldPacking(v), k + 1, 7))
           e == Ending(r, c)
<1> HIDE DEF w
<1>1. /\ p \in Seq(Byte) /\ post \in Seq(Byte) /\ x \in Seq(Byte) /\ Len(x) = room
      /\ FieldPart(v) = ((p \o h) \o x) \o post
  BY FieldSplit DEF FieldPart
<1>2. room \in Nat /\ prefix \in Nat /\ Len(bytes) \in Nat /\ Len(bytes) <= room
  BY FieldLengths, LenProperties
<1>3. h \in Seq(Byte) /\ Len(h) = 5 + prefix
  BY FieldHeadType
<1>4. y \in Seq(Byte) /\ Len(y) = room
  <2> DEFINE l == Len(bytes)
             n == Len(y)
  <2> HIDE DEF x
  <2>1. y \in Seq(Byte) /\ n = IF 1 + l - 1 <= Len(x) THEN Len(x) ELSE 1 + l - 1
    <3>1. x \in Seq(Byte) /\ bytes \in Seq(Byte) /\ 1 \in Nat /\ 1 > 0
      BY <1>1
    <3>2. y \in Seq(Byte)
      BY ONLY <3>1, PutType
    <3>3. Len(y) = IF 1 + Len(bytes) - 1 <= Len(x) THEN Len(x) ELSE 1 + Len(bytes) - 1
      BY ONLY <3>1, PutType
    <3> QED BY <3>2, <3>3
  <2> HIDE DEF y, l, n, room
  <2>2. l \in Nat /\ l <= room /\ Len(x) = room
    BY <1>1, <1>2 DEF l, x
  <2>3. n = room
    BY <1>2, <2>1, <2>2
  <2> QED BY <2>1, <2>3 DEF n
<1>5. w \in Values /\ w[k] = y /\ \A j \in 1..7 : j # k => w[j] = v[j]
  <2>1. v \in [1..7 -> Seq(Byte)] /\ \A j \in 1..7 : Len(v[j]) = Fields[j].room
    BY DEF Values
  <2> HIDE DEF y
  <2>2. w = [v EXCEPT ![k] = y]
    BY DEF y, x, w, Rewritten
  <2>3. w \in [1..7 -> Seq(Byte)] /\ w[k] = y /\ \A j \in 1..7 : j # k => w[j] = v[j]
    BY <1>4, <2>1, <2>2
  <2>4. ASSUME NEW j \in 1..7 PROVE Len(w[j]) = Fields[j].room
    BY <1>4, <2>1, <2>3
  <2> QED BY <2>3, <2>4 DEF Values
<1>6. p = Prefix(w, k - 1) /\ post = FlattenSeq(SubSeq(FieldPacking(w), k + 1, 7))
  <2> DEFINE Q == FieldPacking(v)
             R == FieldPacking(w)
             X == Seq(Byte)
  <2>1. /\ Q \in Seq(X) /\ Len(Q) = 7 /\ \A j \in 1..7 : Q[j] = Block("sys", Assigned(j, v[j]))
        /\ R \in Seq(X) /\ Len(R) = 7 /\ \A j \in 1..7 : R[j] = Block("sys", Assigned(j, w[j]))
    <3>1. ASSUME NEW u \in Values
          PROVE  /\ FieldPacking(u) \in Seq(X) /\ Len(FieldPacking(u)) = 7
                 /\ \A j \in 1..7 : FieldPacking(u)[j] = Block("sys", Assigned(j, u[j]))
      <4> DEFINE U == FieldPacking(u)
      <4>1. U = [j \in 1..7 |-> Block("sys", Assigned(j, u[j]))] /\ U \in Seq(X)
        BY FieldTextsType DEF FieldPacking
      <4> HIDE DEF U, X
      <4> QED BY <4>1 DEF U
    <3> QED BY <1>5, <3>1
  <2>2. ASSUME NEW j \in 1..7, j # k PROVE Q[j] = R[j]
    <3>1. w[j] = v[j]
      BY <1>5, <2>2
    <3>2. Q[j] = Block("sys", Assigned(j, v[j])) /\ R[j] = Block("sys", Assigned(j, w[j]))
      BY <2>1
    <3> QED BY <3>1, <3>2
  <2> HIDE DEF Q, R, X
  <2>3. ASSUME NEW m \in 1..8, NEW n \in 0..7, k \notin m..n PROVE SubSeq(Q, m, n) = SubSeq(R, m, n)
    <3>1. \A j \in m..n : j \in 1..7 /\ j # k
      BY <2>3
    <3>2. \A j \in m..n : Q[j] = R[j] /\ Q[j] \in X /\ R[j] \in X
      BY <2>1, <2>2, <3>1, ElementOfSeq
    <3> DEFINE s == SubSeq(Q, m, n)
               t == SubSeq(R, m, n)
    <3>3. s \in Seq(X) /\ Len(s) = (IF m <= n THEN n - m + 1 ELSE 0) /\ \A i \in 1..(n - m + 1) : s[i] = Q[m + i - 1]
      <4>1. m \in Int /\ n \in Int /\ \A i \in m..n : Q[i] \in X
        BY <3>2
      <4> QED BY ONLY <4>1, SubSeqProperties
    <3>4. t \in Seq(X) /\ Len(t) = (IF m <= n THEN n - m + 1 ELSE 0) /\ \A i \in 1..(n - m + 1) : t[i] = R[m + i - 1]
      <4>1. m \in Int /\ n \in Int /\ \A i \in m..n : R[i] \in X
        BY <3>2
      <4> QED BY ONLY <4>1, SubSeqProperties
    <3> HIDE DEF s, t
    <3>5. \A i \in 1..Len(s) : s[i] = t[i]
      <4> TAKE i \in 1..Len(s)
      <4>1. i \in 1..(n - m + 1) /\ m + i - 1 \in m..n
        BY <3>3
      <4> QED BY <3>2, <3>3, <3>4, <4>1
    <3>6. s = t
      BY <3>3, <3>4, <3>5, SeqEqual
    <3> QED BY <3>6 DEF s, t
  <2>4. SubSeq(Q, 1, k - 1) = SubSeq(R, 1, k - 1)
    <3>1. 1 \in 1..8 /\ k - 1 \in 0..7 /\ k \notin 1..(k - 1)
      OBVIOUS
    <3> QED BY <2>3, <3>1
  <2>5. SubSeq(Q, k + 1, 7) = SubSeq(R, k + 1, 7)
    <3>1. k + 1 \in 1..8 /\ 7 \in 0..7 /\ k \notin (k + 1)..7
      OBVIOUS
    <3> QED BY <2>3, <3>1
  <2> QED BY <2>4, <2>5 DEF Prefix, Q, R
<1>7. FieldPart(w) = ((p \o h) \o y) \o post
  <2>1. FieldPart(w) = ((Prefix(w, k - 1) \o h) \o w[k]) \o FlattenSeq(SubSeq(FieldPacking(w), k + 1, 7))
    BY <1>5, FieldSplit DEF FieldPart
  <2> QED BY <1>5, <1>6, <2>1
<1>8. a \in Seq(Byte) /\ Len(a) = Len(Opened(r)) /\ e \in Seq(Byte) /\ Len(a) \in Nat
  <2>1. a \in Seq(Byte) /\ Len(a) = Len(Opened(r)) /\ e \in Seq(Byte)
    BY PartTypes
  <2> QED BY <2>1, LenProperties
<1>9. Len(p) = Len(FlattenSeq(SubSeq(FieldBlocks, 1, k - 1))) /\ Len(p) \in Nat
  <2>1. FirstValues \in Values /\ FieldPacking(FirstValues) = FieldBlocks
    BY FirstFieldBlocks DEF FieldPacking
  <2>2. Len(p) = Len(Prefix(FirstValues, k - 1)) /\ Len(p) \in Nat
    <3>1. k - 1 \in 0..7
      OBVIOUS
    <3> QED BY <2>1, <3>1, PrefixLength
  <2> QED BY <2>1, <2>2 DEF Prefix
<1> DEFINE place == PlaceOf(r, k)
           ph == p \o h
           u == a \o ph
           rest == post \o (e \o tail)
<1> HIDE DEF x, y, room, prefix, a, p, h, post, e
<1>10. ph \in Seq(Byte) /\ Len(ph) = Len(p) + Len(h) /\ e \o tail \in Seq(Byte)
  BY <1>1, <1>3, <1>8, ConcatProperties
<1> HIDE DEF ph
<1>11. u \in Seq(Byte) /\ Len(u) = Len(a) + Len(ph)
  BY <1>8, <1>10, ConcatProperties
<1>12. rest \in Seq(Byte)
  <2> DEFINE et == e \o tail
  <2>1. et \in Seq(Byte)
    BY <1>10
  <2> HIDE DEF et
  <2> QED BY <1>1, <2>1, ConcatProperties DEF et
<1>13. ASSUME NEW z \in Seq(Byte), NEW s, FieldPart(s) = (ph \o z) \o post
       PROVE  Core(r, head, s, c) \o tail = u \o (z \o rest)
  <2> DEFINE f == (ph \o z) \o post
             phz == ph \o z
             et == e \o tail
             zp == z \o post
  <2>1. phz \in Seq(Byte) /\ et \in Seq(Byte) /\ zp \in Seq(Byte)
    BY <1>1, <1>10, <1>13, ConcatProperties
  <2>2. f \in Seq(Byte) /\ f = phz \o post
    <3> HIDE DEF phz
    <3>1. phz \o post \in Seq(Byte)
      BY <1>1, <2>1, ConcatProperties
    <3> QED BY <3>1 DEF phz
  <2>3. Core(r, head, s, c) = (a \o f) \o e
    BY <1>13 DEF Core, a, e
  <2> HIDE DEF f
  <2>4. Regroups(a, f, e, tail)
    BY <1>8, <2>2, Regroup
  <2>5. ((a \o f) \o e) \o tail = a \o (f \o et)
    BY <2>4 DEF Regroups
  <2>6. Regroups(ph, z, post, et)
    <3> HIDE DEF et
    <3> QED BY <1>1, <1>10, <2>1, <1>13, Regroup
  <2>7. f \o et = ph \o (z \o rest)
    BY <2>2, <2>6 DEF Regroups
  <2>8. Associates(a, ph, z \o rest)
    <3>1. z \o rest \in Seq(Byte)
      <4> HIDE DEF rest
      <4> QED BY <1>12, <1>13, ConcatProperties
    <3> HIDE DEF rest
    <3> DEFINE zr == z \o rest
    <3>2. zr \in Seq(Byte)
      BY <3>1
    <3> HIDE DEF zr
    <3>3. Associates(a, ph, zr)
      BY <1>8, <1>10, <3>2, Associative
    <3> QED BY <3>3 DEF zr
  <2> QED BY <2>3, <2>5, <2>7, <2>8 DEF Associates
<1>14. place = Len(u) + 1
  <2> DEFINE la == Len(a)
             lp == Len(p)
             lh == Len(h)
             lu == Len(u)
  <2>1. place = la + lp + 5 + prefix + 1
    BY <1>8, <1>9 DEF PlaceOf, HeadLen, prefix
  <2>2. lu = la + (lp + lh) /\ lh = 5 + prefix
    BY <1>3, <1>10, <1>11
  <2> HIDE DEF la, lp, lh, lu, place
  <2>3. la \in Nat /\ lp \in Nat /\ prefix \in Nat
    BY <1>2, <1>8, <1>9 DEF la, lp
  <2>4. place = lu + 1
    BY <2>1, <2>2, <2>3
  <2> QED BY <2>4 DEF lu
<1> HIDE DEF u, rest, place
<1>15. Core(r, head, v, c) \o tail = u \o (x \o rest)
  BY <1>1, <1>13 DEF ph
<1>16. Core(r, head, w, c) \o tail = u \o (y \o rest)
  BY <1>4, <1>7, <1>13 DEF ph
<1>17. Put(u \o (x \o rest), Len(u) + 1, bytes) = u \o Put(x \o rest, 1, bytes)
  <2> DEFINE xr == x \o rest
  <2>1. xr \in Seq(Byte)
    BY <1>1, <1>12, ConcatProperties
  <2> HIDE DEF xr
  <2>2. Put(u \o xr, Len(u) + 1, bytes) = u \o Put(xr, 1, bytes)
    <3>1. u \in Seq(Byte) /\ xr \in Seq(Byte) /\ bytes \in Seq(Byte) /\ 1 \in Nat /\ 1 > 0
      BY <1>11, <2>1
    <3>2. WritesSecond(u, xr, 1, bytes)
      BY ONLY <3>1, PutTail
    <3> QED BY <3>2 DEF WritesSecond
  <2> QED BY <2>2 DEF xr
<1>18. Put(x \o rest, 1, bytes) = y \o rest
  <2>1. 1 + Len(bytes) <= Len(x) + 1
    BY <1>1, <1>2
  <2>2. x \in Seq(Byte) /\ rest \in Seq(Byte) /\ bytes \in Seq(Byte) /\ 1 \in Nat /\ 1 > 0
    BY <1>1, <1>12
  <2>3. Put(x \o rest, 1, bytes) = Put(x, 1, bytes) \o rest
    <3>1. WritesFirst(x, rest, 1, bytes)
      BY ONLY <2>1, <2>2, PutCore
    <3> QED BY <3>1 DEF WritesFirst
  <2> QED BY <2>3 DEF y
<1>19. Put(Core(r, head, v, c) \o tail, place, bytes) = Core(r, head, w, c) \o tail
  BY <1>14, <1>15, <1>16, <1>17, <1>18
<1> QED BY <1>5, <1>19 DEF place, w, WritesField

Unset(n) == [i \in 1..n |-> Unwritten]

LEMMA UnsetType ==
    ASSUME NEW n \in Nat
    PROVE  Unset(n) \in Seq(Byte) /\ Len(Unset(n)) = n /\ Unset(HeadLen) = Unset(5)
<1>1. \A i \in 1..n : Unwritten \in Byte
  BY NulType
<1>2. [i \in 1..n |-> Unwritten] \in Seq(Byte) /\ Len([i \in 1..n |-> Unwritten]) = n
  BY <1>1, IsASeq
<1> QED BY <1>2 DEF Unset, HeadLen

\* The length does not depend on what is in the rooms and in the open head.
LEMMA CoreLength ==
    ASSUME NEW r \in RequestRecord, NEW head \in Seq(Byte), Len(head) = 5, NEW v \in Values,
           NEW other \in Seq(Byte), Len(other) = 5, NEW w \in Values, NEW c \in Seq(Seq(Byte))
    PROVE  Len(Core(r, head, v, c)) = Len(Core(r, other, w, c))
<1>1. ASSUME NEW u \in Values PROVE FieldPart(u) = Prefix(u, 7)
  <2>1. FieldPacking(u) \in Seq(Seq(Byte)) /\ Len(FieldPacking(u)) = 7
    <3>1. FieldPacking(u) = [j \in 1..7 |-> Block("sys", Assigned(j, u[j]))] /\ FieldPacking(u) \in Seq(Seq(Byte))
      BY FieldTextsType DEF FieldPacking
    <3> QED BY <3>1
  <2>2. SubSeq(FieldPacking(u), 1, 7) = FieldPacking(u)
    BY <2>1, SubSeqFull
  <2> QED BY <2>2 DEF FieldPart, Flat, Prefix, FieldPacking
<1>2. Len(FieldPart(v)) = Len(FieldPart(w))
  <2>1. 7 \in 0..7
    OBVIOUS
  <2> QED BY <1>1, <2>1, PrefixLength
<1> DEFINE s == Start(r, head)
           t == Start(r, other)
           f == FieldPart(v)
           g == FieldPart(w)
           e == Ending(r, c)
<1>3. s \in Seq(Byte) /\ Len(s) = Len(Opened(r)) /\ f \in Seq(Byte) /\ e \in Seq(Byte)
  BY PartTypes
<1>4. t \in Seq(Byte) /\ Len(t) = Len(Opened(r)) /\ g \in Seq(Byte)
  BY PartTypes
<1> HIDE DEF s, t, f, g, e
<1>5. s \o f \in Seq(Byte) /\ Len(s \o f) = Len(s) + Len(f)
  BY <1>3, ConcatProperties
<1>6. t \o g \in Seq(Byte) /\ Len(t \o g) = Len(t) + Len(g)
  BY <1>4, ConcatProperties
<1> DEFINE sf == s \o f
           tg == t \o g
<1>7. sf \in Seq(Byte) /\ tg \in Seq(Byte) /\ Len(sf) = Len(tg)
  BY <1>2, <1>3, <1>4, <1>5, <1>6 DEF f, g
<1> HIDE DEF sf, tg
<1>8. Len(sf \o e) = Len(sf) + Len(e) /\ Len(tg \o e) = Len(tg) + Len(e)
  BY <1>3, <1>7, ConcatProperties
<1>9. Len(sf \o e) = Len(tg \o e)
  BY <1>7, <1>8
<1> QED BY <1>9 DEF Core, sf, tg, s, t, f, g, e

\* The head of what the variables begin is written over.
WritesHead(r, head, v, c, tail, other) ==
    Put(Core(r, head, v, c) \o tail, Len(Parameters) + 1, other) = Core(r, other, v, c) \o tail

\* A write over the head changes the head, and nothing else.
LEMMA HeadWrite ==
    ASSUME NEW r \in RequestRecord, NEW head \in Seq(Byte), Len(head) = 5, NEW v \in Values,
           NEW other \in Seq(Byte), Len(other) = 5, NEW c \in Seq(Seq(Byte)), NEW tail \in Seq(Byte)
    PROVE  WritesHead(r, head, v, c, tail, other)
<1> DEFINE p == Parameters
           a == Flat(Records("cgi", VariableTexts(r)))
           f == FieldPart(v)
           e == Ending(r, c)
           g == (a \o f) \o e
           rest == g \o tail
<1>1. p \in Seq(Byte) /\ a \in Seq(Byte) /\ f \in Seq(Byte) /\ e \in Seq(Byte)
  BY PartTypes
<1>2. \A h : Core(r, h, v, c) = (((p \o h) \o a) \o f) \o e
  BY DEF Core, Start
<1> HIDE DEF p, a, f, e
<1>3. a \o f \in Seq(Byte)
  BY <1>1, ConcatProperties
<1>4. g \in Seq(Byte)
  <2> DEFINE af == a \o f
  <2>1. af \in Seq(Byte)
    BY <1>3
  <2> HIDE DEF af
  <2>2. af \o e \in Seq(Byte)
    BY <1>1, <2>1, ConcatProperties
  <2> QED BY <2>2 DEF af
<1>5. rest \in Seq(Byte)
  <2> HIDE DEF g
  <2> QED BY <1>4, ConcatProperties
<1>6. ASSUME NEW h \in Seq(Byte) PROVE Core(r, h, v, c) \o tail = p \o (h \o rest)
  <2> DEFINE ph == p \o h
  <2>1. ph \in Seq(Byte)
    BY <1>1, <1>6, ConcatProperties
  <2>2. Core(r, h, v, c) = ((ph \o a) \o f) \o e
    BY <1>2
  <2> HIDE DEF ph
  <2>3. Regroups(ph, a, f, e)
    BY <1>1, <2>1, Regroup
  <2>4. Core(r, h, v, c) = ph \o g
    BY <2>2, <2>3 DEF Regroups
  <2>5. Regroups(p, h, g, tail)
    <3> HIDE DEF g
    <3> QED BY <1>1, <1>4, <1>6, Regroup
  <2> QED BY <2>4, <2>5 DEF Regroups, ph
<1> HIDE DEF rest
<1>7. WritesSecond(p, head \o rest, 1, other)
  <2> DEFINE hr == head \o rest
  <2>1. hr \in Seq(Byte)
    BY <1>5, ConcatProperties
  <2> HIDE DEF hr
  <2>2. p \in Seq(Byte) /\ hr \in Seq(Byte) /\ other \in Seq(Byte) /\ 1 \in Nat /\ 1 > 0
    BY <1>1, <2>1
  <2>3. WritesSecond(p, hr, 1, other)
    BY ONLY <2>2, PutTail
  <2> QED BY <2>3 DEF hr
<1>8. WritesFirst(head, rest, 1, other)
  <2>1. head \in Seq(Byte) /\ rest \in Seq(Byte) /\ other \in Seq(Byte) /\ 1 \in Nat /\ 1 > 0
        /\ 1 + Len(other) <= Len(head) + 1
    BY <1>5
  <2> QED BY ONLY <2>1, PutCore
<1>9. Put(head, 1, other) = other
  BY PutWhole
<1>10. Put(p \o (head \o rest), Len(p) + 1, other) = p \o (other \o rest)
  BY <1>7, <1>8, <1>9 DEF WritesSecond, WritesFirst
<1> QED BY <1>6, <1>10 DEF WritesHead, p

\* What mg_web packs is a core with an open head and the first values.
LEMMA PackedCore ==
    ASSUME NEW r \in RequestRecord
    PROVE  Packed(r) = Core(r, Unset(5), FirstValues, <<>>)
<1> DEFINE a == Start(r, Unset(5))
           f == FieldPart(FirstValues)
           s == Flat(Records("sys", SseTexts(r)))
           w == Flat(Records("sys", WebSocketTexts(r)))
           fb == FieldBlocks
           sb == SseBlocks(r)
           wb == WebSocketBlocks(r)
<1>1. Unset(5) \in Seq(Byte) /\ Len(Unset(5)) = 5 /\ Unset(HeadLen) = Unset(5) /\ <<>> \in Seq(Seq(Byte))
  BY UnsetType, EmptySeq
<1>2. FirstValues \in Values /\ f = FlattenSeq(fb)
  BY FirstFieldBlocks DEF FieldPart, Flat
<1>3. a \in Seq(Byte) /\ f \in Seq(Byte) /\ s \in Seq(Byte) /\ w \in Seq(Byte)
  BY <1>1, <1>2, PartTypes
<1>4. s = FlattenSeq(sb) /\ w = FlattenSeq(wb) /\ Opened(r) = a
  BY <1>1, BlocksOfTexts DEF Opened, Start, Unset
<1>5. Core(r, Unset(5), FirstValues, <<>>) = (a \o f) \o ((s \o w) \o <<>>)
  BY RecordsNone DEF Core, Ending, Extras
<1>6. fb \in Seq(Seq(Byte)) /\ sb \in Seq(Seq(Byte)) /\ wb \in Seq(Seq(Byte))
  BY FieldBlocksType, ExtraBlocksType
<1>7. Packed(r) = Opened(r) \o FlattenSeq((fb \o sb) \o wb)
  BY DEF Packed
<1> HIDE DEF a, f, s, w, fb, sb, wb
<1>8. FlattenSeq((fb \o sb) \o wb) = (f \o s) \o w
  <2> DEFINE X == Seq(Byte)
             fsb == fb \o sb
  <2>1. fsb \in Seq(X)
    <3>1. fb \in Seq(X) /\ sb \in Seq(X)
      BY <1>6
    <3> HIDE DEF X
    <3> QED BY <3>1, ConcatProperties
  <2>2. FlattenSeq(fsb) = FlattenSeq(fb) \o FlattenSeq(sb)
    BY <1>6, FlattenConcat
  <2> HIDE DEF fsb
  <2>3. FlattenSeq(fsb \o wb) = FlattenSeq(fsb) \o FlattenSeq(wb)
    BY <1>6, <2>1, FlattenConcat
  <2> QED BY <1>2, <1>4, <2>2, <2>3 DEF fsb
<1>9. Regroups(a, f, s, w)
  BY <1>3, Regroup
<1>10. (s \o w) \o <<>> = s \o w
  <2> DEFINE sw == s \o w
  <2>1. sw \in Seq(Byte)
    BY <1>3, ConcatProperties
  <2> HIDE DEF sw
  <2>2. sw \o <<>> = sw
    BY <2>1, ConcatEmptySeq
  <2> QED BY <2>2 DEF sw
<1> QED BY <1>4, <1>5, <1>7, <1>8, <1>9, <1>10 DEF Regroups

---------------------------------------------------------------------------
(* What the buffer holds *)

ContentTexts(r, lg) == IF r.how = "length" /\ ~lg THEN << Payload(r.len) >> ELSE <<>>

\* Events that bring a content are the code's exception, see EventsAsTold.
Plain == req.sse => req.how # "length"

Size == Len(Core(req, Unset(5), FirstValues, ContentTexts(req, long)))

\* A long content follows 15 bytes after what is used, before the blocks are closed.
ContentHeld ==
    /\ used = Size
    /\ ~long => buf = Core(req, Unset(5), FirstValues, ContentTexts(req, long))
    /\ long => /\ content = Size + 16
               /\ \E len \in Nat : buf = Core(req, Unset(5), FirstValues, ContentTexts(req, long))
                                           \o (Unset(15) \o Block("content", Payload(len)))

\* Then there are, after what the variables begin, the end of its blocks, the empty
\* parameter, and one end of the request for each attempt; events have their mode
\* written over the length of the first end, which nobody reads.
SizedHead == BlockHead("data", (Size + 5) - (Len(Parameters) + 5))

Held(v, lead, rest) ==
    /\ v \in Values /\ lead \in Seq(Byte) /\ Len(lead) = 5 /\ lead[5].of = "eod" /\ rest \in Seq(Byte)
    /\ used = Size + 10 + 5 * executed
    /\ buf = Core(req, SizedHead, v, ContentTexts(req, long)) \o ((lead \o Block("data", <<>>)) \o rest)
    /\ v[3] = FirstValue(3) /\ v[4] = FirstValue(4)
    /\ v[6][9] = Nul /\ v[6][10] = Nul /\ (~long => v[6] = FirstValue(6))
    /\ req.sse => v[7] = FirstValue(7)
    /\ executed > 0 => Len(rest) >= 5 * executed /\ rest[5].of = "eod"
    /\ long => /\ content = Size + 16
               /\ executed = 0 => \E len \in Nat : rest = Unset(5) \o Block("content", Payload(len))
               /\ executed = 1 => \E len \in Nat : rest = EndOfData \o Block("content", Payload(len))

\* What mg_web_execute has written for the server.
Meant(v) ==
    /\ executed > 0
    /\ v[2] = Text("serverno", server, 2) /\ v[5] = Text("requestno", 0, 4)
    /\ \A i \in 1..(NameLength[server] + 1) : v[1][i] = NameOf(server)[i]
    /\ long => \A i \in 1..8 : v[6][i] = Key[i]
    /\ ~req.sse => v[7] = Text(Link[server], 0, 3)

ContentInv ==
    Plain => /\ pc \in {"pack", "content"} => ~long
             /\ pc = "content" => buf = Packed(req) /\ used = Len(Packed(req))
             /\ pc = "close" => ContentHeld
             /\ pc \in After => \E v, lead, rest : Held(v, lead, rest) /\ (pc = "sent" => Meant(v))

LEMMA ContentTextsType ==
    ASSUME NEW r \in RequestRecord, NEW lg
    PROVE  ContentTexts(r, lg) \in Seq(Seq(Byte))
<1> DEFINE X == Seq(Byte)
           p == Payload(r.len)
<1>1. <<>> \in Seq(X)
  BY EmptySeq
<1>2. p \in X
  <2>1. r.len \in Nat /\ "payload" \in Parts /\ 0 \in Nat
    BY DEF RequestRecord, Parts
  <2> QED BY <2>1, TextType DEF Payload
<1> HIDE DEF X, p
<1>3. << p >> \in Seq(X)
  BY <1>2
<1> QED BY <1>1, <1>3 DEF ContentTexts, p, X

\* The buffer of a request, before its head is filled in.
LEMMA OpenCore ==
    ASSUME NEW r \in RequestRecord, NEW c \in Seq(Seq(Byte))
    PROVE  /\ Core(r, Unset(5), FirstValues, c) \in Seq(Byte)
           /\ Len(Core(r, Unset(5), FirstValues, c)) \in Nat
<1>1. Unset(5) \in Seq(Byte) /\ Len(Unset(5)) = 5 /\ FirstValues \in Values
  BY UnsetType, FirstFieldBlocks
<1> QED BY <1>1, PartTypes

\* The buffer holds what it should when the request is packed.
LEMMA PackContent == MemoryInv /\ ContentInv /\ Pack => ContentInv'
<1> SUFFICES ASSUME MemoryInv, ContentInv, Pack, Plain' PROVE ContentInv'
  BY DEF ContentInv
<1>1. /\ pc = "pack" /\ pc' = "content" /\ buf' = Packed(req) /\ used' = Len(Packed(req)) /\ req' = req
      /\ long' = long
  BY DEF Pack, large
<1>2. Plain
  BY <1>1 DEF Plain
<1> QED BY <1>1, <1>2 DEF ContentInv, After

\* A write at the end of a sequence, and one after it.
LEMMA PutAfter ==
    ASSUME NEW u \in Seq(Byte), NEW n \in Nat, NEW bytes \in Seq(Byte)
    PROVE  Put(u, Len(u) + (n + 1), bytes) = u \o (Unset(n) \o bytes)
<1> DEFINE c == Len(bytes)
           d == Put(<<>>, n + 1, bytes)
           e == Unset(n)
           eb == e \o bytes
<1>1. <<>> \in Seq(Byte) /\ Len(<<>>) = 0 /\ n + 1 \in Nat /\ n + 1 > 0 /\ c \in Nat /\ bytes \in Seq(Byte)
  BY EmptySeq, LenProperties
<1>2. e \in Seq(Byte) /\ Len(e) = n
  BY UnsetType
<1>3. u \o <<>> = u
  BY ConcatEmptySeq
<1>4. WritesSecond(u, <<>>, n + 1, bytes)
  <2> DEFINE q == n + 1
  <2>1. u \in Seq(Byte) /\ <<>> \in Seq(Byte) /\ q \in Nat /\ q > 0 /\ bytes \in Seq(Byte)
    BY <1>1
  <2> HIDE DEF q
  <2>2. WritesSecond(u, <<>>, q, bytes)
    BY ONLY <2>1, PutTail
  <2> QED BY <2>2 DEF q
<1>5. d \in Seq(Byte) /\ Len(d) = IF (n + 1) + c - 1 <= 0 THEN 0 ELSE (n + 1) + c - 1
  <2> DEFINE q == n + 1
  <2>1. <<>> \in Seq(Byte) /\ q \in Nat /\ q > 0 /\ bytes \in Seq(Byte)
    BY <1>1
  <2> HIDE DEF q
  <2>2. Put(<<>>, q, bytes) \in Seq(Byte)
    BY ONLY <2>1, PutType
  <2>3. Len(Put(<<>>, q, bytes)) = IF q + c - 1 <= Len(<<>>) THEN Len(<<>>) ELSE q + c - 1
    BY ONLY <2>1, PutType
  <2> QED BY <1>1, <2>2, <2>3 DEF q
<1>6. \A i \in 1..Len(d) : d[i] = IF i \in (n + 1)..((n + 1) + c - 1) THEN bytes[i - (n + 1) + 1]
                                  ELSE IF i <= 0 THEN <<>>[i] ELSE Unwritten
  <2> DEFINE q == n + 1
  <2>1. <<>> \in Seq(Byte) /\ q \in Nat /\ q > 0 /\ bytes \in Seq(Byte)
    BY <1>1
  <2> HIDE DEF q
  <2>2. \A i \in 1..Len(Put(<<>>, q, bytes)) :
            Put(<<>>, q, bytes)[i] = IF i \in q..(q + c - 1) THEN bytes[i - q + 1]
                                     ELSE IF i <= Len(<<>>) THEN <<>>[i] ELSE Unwritten
    BY ONLY <2>1, PutElement
  <2> QED BY <1>1, <2>2 DEF q
<1>7. /\ eb \in Seq(Byte) /\ Len(eb) = n + c
      /\ \A i \in 1..n : eb[i] = e[i]
      /\ \A i \in 1..c : eb[n + i] = bytes[i]
  <2>1. e \in Seq(Byte) /\ bytes \in Seq(Byte)
    BY <1>2
  <2>2. /\ eb \in Seq(Byte) /\ Len(eb) = Len(e) + Len(bytes)
        /\ \A i \in 1..Len(e) : eb[i] = e[i]
        /\ \A i \in 1..Len(bytes) : eb[Len(e) + i] = bytes[i]
    BY ONLY <2>1, Joined
  <2> QED BY <1>2, <2>2
<1>8. \A i \in 1..n : e[i] = Unwritten
  BY DEF Unset
<1> HIDE DEF d, e, eb, c
<1>9. Len(d) = n + c
  BY <1>1, <1>5
<1>10. ASSUME NEW i \in 1..(n + c) PROVE d[i] = eb[i]
  <2>1. CASE i <= n
    BY <1>1, <1>6, <1>7, <1>8, <1>9, <2>1
  <2>2. CASE ~(i <= n)
    <3> DEFINE j == i - n
    <3>1. j \in 1..c /\ i = n + j /\ i - (n + 1) + 1 = j /\ i \in (n + 1)..((n + 1) + c - 1)
      BY <1>1, <2>2
    <3> HIDE DEF j
    <3>2. d[i] = bytes[j]
      <4>1. d[i] = bytes[i - (n + 1) + 1]
        BY <1>6, <1>9, <3>1
      <4> QED BY <3>1, <4>1
    <3> QED BY <1>7, <3>1, <3>2
  <2> QED BY <2>1, <2>2
<1>11. d = eb
  BY <1>5, <1>7, <1>9, <1>10, SeqEqual
<1> QED BY <1>3, <1>4, <1>11 DEF WritesSecond, d, eb, e

LEMMA FlatOne ==
    ASSUME NEW sort \in Sorts \ {"eod"}, NEW text \in Seq(Byte)
    PROVE  Flat(Records(sort, << text >>)) = Block(sort, text)
<1> DEFINE X == Seq(Byte)
           b == Block(sort, text)
           ts == << text >>
<1>1. ts \in Seq(X)
  <2>1. text \in X
    OBVIOUS
  <2> HIDE DEF X
  <2> QED BY <2>1
<1>2. Len(ts) = 1 /\ ts[1] = text
  OBVIOUS
<1> HIDE DEF ts
<1>3. Packing(Records(sort, ts)) = [k \in 1..Len(ts) |-> Block(sort, ts[k])]
  BY <1>1, RecordsType
<1>4. \A k \in 1..1 : Block(sort, ts[k]) = b
  BY <1>2
<1>5. b \in X
  <2>1. sort \in Parts
    BY DEF Parts
  <2> QED BY <2>1, BlockType
<1> HIDE DEF b
<1>6. [k \in 1..1 |-> b] = << b >> /\ << b >> = Append(<<>>, b)
  OBVIOUS
<1>7. Packing(Records(sort, ts)) = << b >>
  BY <1>2, <1>3, <1>4, <1>6
<1>8. FlattenSeq(Append(<<>>, b)) = FlattenSeq(<<>>) \o b
  <2>1. <<>> \in Seq(X)
    BY EmptySeq
  <2> QED BY <1>5, <2>1, FlattenAppend
<1>9. <<>> \o b = b
  BY <1>5, ConcatEmptySeq
<1> QED BY <1>6, <1>7, <1>8, <1>9, FlattenNone DEF Flat, b, ts

\* A block of content after the core of a request belongs to it.
LEMMA CoreContent ==
    ASSUME NEW r \in RequestRecord, NEW head \in Seq(Byte), Len(head) = 5, NEW v \in Values, NEW text \in Seq(Byte)
    PROVE  Core(r, head, v, <<>>) \o Block("content", text) = Core(r, head, v, << text >>)
<1> DEFINE a == Start(r, head) \o FieldPart(v)
           e == Extras(r)
           b == Block("content", text)
<1>1. <<>> \in Seq(Seq(Byte)) /\ "content" \in Sorts \ {"eod"} /\ "content" \in Parts
  BY EmptySeq DEF Sorts, Parts
<1>2. e \in Seq(Byte) /\ a \in Seq(Byte)
  <2>1. e \in Seq(Byte) /\ Start(r, head) \in Seq(Byte) /\ FieldPart(v) \in Seq(Byte)
    BY <1>1, PartTypes
  <2> QED BY <2>1, ConcatProperties
<1>3. b \in Seq(Byte)
  BY <1>1, BlockType
<1>4. Core(r, head, v, <<>>) = a \o (e \o <<>>)
  BY RecordsNone DEF Core, Ending
<1>5. Core(r, head, v, << text >>) = a \o (e \o b)
  BY <1>1, FlatOne DEF Core, Ending
<1> HIDE DEF a, e, b
<1>6. e \o <<>> = e
  BY <1>2, ConcatEmptySeq
<1>7. Associates(a, e, b)
  BY <1>2, <1>3, Associative
<1> QED BY <1>4, <1>5, <1>6, <1>7 DEF Associates, b

LEMMA PayloadText ==
    ASSUME NEW len \in Nat
    PROVE  Payload(len) \in Seq(Byte) /\ Len(Payload(len)) = len
<1>1. "payload" \in Parts /\ 0 \in Nat
  BY DEF Parts
<1> QED BY <1>1, TextType DEF Payload

\* The first block of a content, or the whole of it, is held as it came.
LEMMA FirstBlockHeld ==
    ASSUME MemoryInv, ContentInv, Plain, pc = "content", NEW len \in Nat, FirstBlock(len)
    PROVE  ContentHeld'
<1> DEFINE u == Core(req, Unset(5), FirstValues, <<>>)
           bytes == Block("content", Payload(len))
<1>1. req \in RequestRecord
  BY RequestBufferAssumption DEF MemoryInv, MemoryType
<1>2. buf = u /\ used = Len(u)
  BY <1>1, PackedCore DEF ContentInv
<1>3. u \in Seq(Byte) /\ Len(u) \in Nat
  BY <1>1, OpenCore, EmptySeq
<1>4. /\ long' = TRUE /\ content' = used + ContentRoom - HeadLen + 1 /\ buf' = Put(buf, content', bytes)
      /\ req' = req /\ used' = used
  BY DEF FirstBlock
<1>5. ContentTexts(req, TRUE) = <<>>
  BY DEF ContentTexts
<1>6. Size' = Len(u)
  BY <1>4, <1>5 DEF Size
<1>7. bytes \in Seq(Byte)
  BY PayloadType
<1>8. content' = Len(u) + 16 /\ content' = Len(u) + (15 + 1)
  BY <1>2, <1>3, <1>4 DEF ContentRoom, HeadLen
<1>9. buf' = u \o (Unset(15) \o bytes)
  <2> HIDE DEF u, bytes
  <2>1. u \in Seq(Byte) /\ 15 \in Nat /\ bytes \in Seq(Byte)
    BY <1>3, <1>7
  <2>2. Put(u, Len(u) + (15 + 1), bytes) = u \o (Unset(15) \o bytes)
    BY ONLY <2>1, PutAfter
  <2> QED BY <1>2, <1>4, <1>8, <2>2
<1>10. u = Core(req', Unset(5), FirstValues, ContentTexts(req', long'))
  BY <1>4, <1>5
<1> HIDE DEF u
<1> QED BY <1>2, <1>4, <1>6, <1>8, <1>9, <1>10 DEF ContentHeld

\* The buffer holds what it should when the content has come.
LEMMA ContentStep ==
    ASSUME MemoryInv, ContentInv, NoContent \/ InlineContent \/ LongContent \/ ChunkedContent
    PROVE  ContentInv'
<1> SUFFICES ASSUME Plain' PROVE ContentInv'
  BY DEF ContentInv
<1> DEFINE u == Core(req, Unset(5), FirstValues, <<>>)
<1>1. pc = "content" /\ pc' = "close" /\ req' = req
  BY DEF NoContent, InlineContent, LongContent, ChunkedContent, FirstBlock
<1>2. Plain /\ ~long
  BY <1>1 DEF Plain, ContentInv
<1>3. req \in RequestRecord /\ req.len \in Nat
  BY RequestBufferAssumption DEF MemoryInv, MemoryType, RequestRecord
<1>4. buf = u /\ used = Len(u)
  BY <1>1, <1>2, <1>3, PackedCore DEF ContentInv
<1>5. u \in Seq(Byte) /\ Len(u) \in Nat
  BY <1>3, OpenCore, EmptySeq
<1>6. BlockSize \in Nat
  <2> DEFINE p == Len(Packed(req))
             a == Alloc
             m == Min({Alloc, req.limit})
  <2>1. req \in Requests /\ used = p
    BY <1>1 DEF MemoryInv, MemoryType, RoomLeft
  <2>2. p \in Nat /\ m \in Nat /\ p + 21 <= m
    BY <2>1, SizesLeaveRoom DEF Sizes
  <2>3. BlockSize = m - (p + 15)
    BY <2>1 DEF BlockSize
  <2> HIDE DEF p, m
  <2> QED BY <2>2, <2>3
<1>7. ContentHeld'
  <2>1. CASE NoContent
    <3>1. req.how = "none" /\ req' = req /\ buf' = buf /\ used' = used /\ long' = long
      BY <2>1 DEF NoContent, memory, large
    <3>2. ContentTexts(req', long') = <<>>
      BY <3>1 DEF ContentTexts
    <3>3. Size' = Len(u)
      BY <3>1, <3>2 DEF Size
    <3> QED BY <1>2, <1>4, <3>1, <3>2, <3>3 DEF ContentHeld
  <2>2. CASE InlineContent
    <3> DEFINE p == Payload(req.len)
               bytes == Block("content", p)
               x == Core(req, Unset(5), FirstValues, << p >>)
    <3>1. /\ req.how = "length" /\ req' = req /\ buf' = Put(buf, used + 1, bytes)
          /\ used' = used + HeadLen + req.len /\ long' = long
      BY <2>2 DEF InlineContent, large
    <3>2. ContentTexts(req', long') = << p >>
      BY <1>2, <3>1 DEF ContentTexts
    <3>3. bytes \in Seq(Byte) /\ Len(bytes) = 5 + req.len /\ p \in Seq(Byte)
      BY <1>3, PayloadType, PayloadText
    <3>4. u \o bytes = x
      <4>1. Unset(5) \in Seq(Byte) /\ Len(Unset(5)) = 5 /\ FirstValues \in Values
        BY UnsetType, FirstFieldBlocks
      <4> QED BY <1>3, <3>3, <4>1, CoreContent
    <3>5. Size' = Len(x)
      BY <3>1, <3>2 DEF Size
    <3>6. buf' = u \o bytes
      <4> HIDE DEF u, bytes
      <4>1. u \in Seq(Byte) /\ 0 \in Nat /\ bytes \in Seq(Byte)
        BY <1>5, <3>3
      <4>2. Put(u, Len(u) + (0 + 1), bytes) = u \o (Unset(0) \o bytes)
        BY ONLY <4>1, PutAfter
      <4>3. Unset(0) = <<>>
        BY DEF Unset
      <4>4. <<>> \o bytes = bytes
        BY <3>3, ConcatEmptySeq
      <4>5. Len(u) + (0 + 1) = used + 1
        BY <1>4, <1>5
      <4> QED BY <1>4, <3>1, <4>2, <4>3, <4>4, <4>5
    <3>7. used' = Len(x)
      <4> HIDE DEF u, bytes, x
      <4>1. Len(u \o bytes) = Len(u) + Len(bytes)
        BY <1>5, <3>3, ConcatProperties
      <4> QED BY <1>3, <1>4, <1>5, <3>1, <3>3, <3>4, <4>1 DEF HeadLen
    <3>8. x = Core(req', Unset(5), FirstValues, ContentTexts(req', long'))
      BY <3>1, <3>2
    <3> HIDE DEF x, u
    <3> QED BY <1>2, <3>1, <3>4, <3>5, <3>6, <3>7, <3>8 DEF ContentHeld
  <2>3. CASE LongContent
    BY <1>1, <1>2, <1>6, <2>3, FirstBlockHeld DEF LongContent
  <2>4. CASE ChunkedContent
    <3>1. PICK len \in {0, 3, BlockSize} : FirstBlock(len)
      BY <2>4 DEF ChunkedContent
    <3>2. len \in Nat
      BY <1>6
    <3> QED BY <1>1, <1>2, <3>1, <3>2, FirstBlockHeld
  <2> QED BY <2>1, <2>2, <2>3, <2>4
<1> QED BY <1>1, <1>7 DEF ContentInv, After

LEMMA UnsetSplit ==
    ASSUME NEW m \in Nat, NEW n \in Nat
    PROVE  Unset(m + n) = Unset(m) \o Unset(n)
<1> DEFINE a == Unset(m + n)
           b == Unset(m)
           c == Unset(n)
           bc == b \o c
<1>1. a \in Seq(Byte) /\ Len(a) = m + n
  <2> DEFINE l == m + n
  <2>1. l \in Nat
    OBVIOUS
  <2> HIDE DEF l
  <2> QED BY <2>1, UnsetType
<1>2. b \in Seq(Byte) /\ Len(b) = m /\ c \in Seq(Byte) /\ Len(c) = n
  BY UnsetType
<1>3. /\ \A i \in 1..(m + n) : a[i] = Unwritten
      /\ \A i \in 1..m : b[i] = Unwritten
      /\ \A i \in 1..n : c[i] = Unwritten
  BY DEF Unset
<1> HIDE DEF a, b, c
<1>4. /\ bc \in Seq(Byte) /\ Len(bc) = m + n
      /\ \A i \in 1..(m + n) : bc[i] = IF i <= m THEN b[i] ELSE c[i - m]
  <2>1. b \in Seq(Byte) /\ c \in Seq(Byte)
    BY <1>2
  <2>2. bc \in Seq(Byte)
    BY ONLY <2>1, ConcatProperties
  <2>3. Len(bc) = Len(b) + Len(c)
    BY ONLY <2>1, ConcatProperties
  <2>4. \A i \in 1..(Len(b) + Len(c)) : bc[i] = IF i <= Len(b) THEN b[i] ELSE c[i - Len(b)]
    BY ONLY <2>1, ConcatProperties
  <2> QED BY <1>2, <2>2, <2>3, <2>4
<1> HIDE DEF bc
<1>5. ASSUME NEW i \in 1..(m + n) PROVE a[i] = bc[i]
  <2>1. CASE i <= m
    BY <1>3, <1>4, <2>1
  <2>2. CASE ~(i <= m)
    <3>1. i - m \in 1..n
      BY <2>2
    <3> QED BY <1>3, <1>4, <2>2, <3>1
  <2> QED BY <2>1, <2>2
<1>6. a = bc
  BY <1>1, <1>4, <1>5, SeqEqual
<1> QED BY <1>6 DEF a, bc, b, c

LEMMA EndElement == EndOfData[5].of = "eod"
<1> DEFINE e == Block("eod", <<>>)
           h == BlockHead("eod", 0)
<1>1. "eod" \in Parts /\ <<>> \in Seq(Byte) /\ Len(<<>>) = 0 /\ 0 \in Nat
  BY EmptySeq DEF Parts, Sorts
<1>2. e[5] = [of |-> "eod", n |-> 0, i |-> 5]
  BY <1>1, BlockElements
<1>3. h \in Seq(Byte)
  BY <1>1, HeadType
<1>4. e = h \o <<>>
  BY <1>1 DEF Block
<1> HIDE DEF e, h
<1>5. h \o <<>> = h
  BY <1>3, ConcatEmptySeq
<1> QED BY <1>2, <1>4, <1>5 DEF EndOfData, h

\* The end of the blocks and the parameter, at the end of the buffer or before a long content.
LEMMA EndsWritten ==
    ASSUME NEW tail \in Seq(Byte), NEW rest \in Seq(Byte),
           (tail = <<>> /\ rest = <<>>) \/ (\E b \in Seq(Byte) : tail = Unset(15) \o b /\ rest = Unset(5) \o b)
    PROVE  Put(Put(tail, 1, EndOfData), 6, Block("data", <<>>)) = (EndOfData \o Block("data", <<>>)) \o rest
<1> DEFINE e == EndOfData
           d == Block("data", <<>>)
           ed == e \o d
           x == Unset(5)
<1>1. e \in Seq(Byte) /\ Len(e) = 5 /\ d \in Seq(Byte) /\ Len(d) = 5
  BY SmallBlocks
<1>2. x \in Seq(Byte) /\ Len(x) = 5
  BY UnsetType
<1>3. ed \in Seq(Byte)
  BY <1>1, ConcatProperties
<1>4. CASE tail = <<>> /\ rest = <<>>
  <2>1. Unset(0) = <<>>
    BY DEF Unset
  <2> HIDE DEF e, d
  <2>2. ASSUME NEW u \in Seq(Byte), NEW b \in Seq(Byte) PROVE Put(u, Len(u) + (0 + 1), b) = u \o b
    <3>1. u \in Seq(Byte) /\ 0 \in Nat /\ b \in Seq(Byte)
      OBVIOUS
    <3>2. Put(u, Len(u) + (0 + 1), b) = u \o (Unset(0) \o b)
      BY ONLY <3>1, PutAfter
    <3>3. <<>> \o b = b
      BY ConcatEmptySeq
    <3> QED BY <2>1, <3>2, <3>3
  <2>3. <<>> \in Seq(Byte) /\ Len(<<>>) + (0 + 1) = 1 /\ Len(e) + (0 + 1) = 6
    BY <1>1, EmptySeq
  <2>4. Put(<<>>, 1, e) = <<>> \o e
    BY <1>1, <2>2, <2>3
  <2>5. Put(e, 6, d) = ed
    BY <1>1, <2>2, <2>3
  <2> HIDE DEF ed
  <2>6. <<>> \o e = e /\ ed \o <<>> = ed
    BY <1>1, <1>3, ConcatEmptySeq
  <2> QED BY <1>4, <2>4, <2>5, <2>6 DEF e, d, ed
<1>5. ASSUME NEW b \in Seq(Byte), tail = Unset(15) \o b, rest = x \o b
      PROVE  Put(Put(tail, 1, e), 6, d) = ed \o rest
  <2> DEFINE xx == x \o x
             r2 == x \o rest
  <2>1. Unset(15) = x \o xx
    <3>1. Unset(5 + 5) = x \o x
      BY UnsetSplit
    <3>2. 5 \in Nat /\ 10 \in Nat /\ 5 + 5 = 10 /\ 5 + 10 = 15
      OBVIOUS
    <3>3. Unset(5 + 10) = Unset(5) \o Unset(10)
      BY <3>2, UnsetSplit
    <3> QED BY <3>1, <3>2, <3>3
  <2> HIDE DEF x
  <2>2. xx \in Seq(Byte) /\ r2 \in Seq(Byte) /\ rest \in Seq(Byte)
    BY <1>2, ConcatProperties
  <2>3. tail = x \o r2
    <3>1. Regroups(x, x, x, b)
      BY <1>2, Regroup
    <3>2. Associates(x, xx, b)
      <4> HIDE DEF xx
      <4> QED BY <1>2, <2>2, Associative
    <3>3. xx \o b = r2
      <4>1. Associates(x, x, b)
        BY <1>2, Associative
      <4> QED BY <1>5, <4>1 DEF Associates
    <3> QED BY <1>5, <2>1, <3>2, <3>3 DEF Associates
  <2> HIDE DEF r2, e, d
  <2>4. Put(x, 1, e) = e /\ Put(x, 1, d) = d
    BY <1>1, <1>2, PutWhole
  <2>5. Put(tail, 1, e) = e \o r2
    <3>1. x \in Seq(Byte) /\ r2 \in Seq(Byte) /\ e \in Seq(Byte) /\ 1 \in Nat /\ 1 > 0 /\ 1 + Len(e) <= Len(x) + 1
      BY <1>1, <1>2, <2>2
    <3>2. WritesFirst(x, r2, 1, e)
      BY ONLY <3>1, PutCore
    <3> QED BY <2>3, <2>4, <3>2 DEF WritesFirst
  <2>6. Put(e \o r2, 6, d) = e \o Put(r2, 1, d)
    <3>1. e \in Seq(Byte) /\ r2 \in Seq(Byte) /\ d \in Seq(Byte) /\ 1 \in Nat /\ 1 > 0
      BY <1>1, <2>2
    <3>2. WritesSecond(e, r2, 1, d)
      BY ONLY <3>1, PutTail
    <3>3. Len(e) + 1 = 6
      BY <1>1
    <3> QED BY <3>2, <3>3 DEF WritesSecond
  <2>7. Put(r2, 1, d) = d \o rest
    <3>1. x \in Seq(Byte) /\ rest \in Seq(Byte) /\ d \in Seq(Byte) /\ 1 \in Nat /\ 1 > 0 /\ 1 + Len(d) <= Len(x) + 1
      BY <1>1, <1>2
    <3>2. WritesFirst(x, rest, 1, d)
      BY ONLY <3>1, PutCore
    <3> QED BY <2>4, <3>2 DEF WritesFirst, r2
  <2>8. Associates(e, d, rest)
    BY <1>1, Associative
  <2> QED BY <2>5, <2>6, <2>7, <2>8 DEF Associates
<1> QED BY <1>4, <1>5

\* The values that mg_web_process relies on.
LEMMA FirstValuesHeld ==
    /\ FirstValues[3] = FirstValue(3) /\ FirstValues[4] = FirstValue(4) /\ FirstValues[6] = FirstValue(6)
    /\ FirstValues[7] = FirstValue(7)
    /\ FirstValues[6][9] = Nul /\ FirstValues[6][10] = Nul
<1>1. \A k \in 1..7 : FirstValues[k] = FirstValue(k)
  BY DEF FirstValues
<1>2. Fields[6].name = "key" /\ Fields[6].room = 10
  BY DEF Fields
<1>3. FirstValue(6) = [i \in 1..10 |-> Nul]
  BY <1>2 DEF FirstValue
<1>4. FirstValue(6)[9] = Nul /\ FirstValue(6)[10] = Nul
  BY <1>3
<1> QED BY <1>1, <1>4

\* The buffer holds what it should when the blocks are closed.
LEMMA CloseContent == MemoryInv /\ ContentInv /\ CloseBlocks => ContentInv'
<1> SUFFICES ASSUME MemoryInv, ContentInv, CloseBlocks, Plain' PROVE ContentInv'
  BY DEF ContentInv
<1> DEFINE c == ContentTexts(req, long)
           u == Core(req, Unset(5), FirstValues, c)
           h == SizedHead
           w == Core(req, h, FirstValues, c)
           e == EndOfData
           d == Block("data", <<>>)
           ended == Put(buf, used + 1, e)
           sized == Put(ended, offs + 1, h)
           last == Put(sized, used + 6, d)
<1>1. /\ pc = "close" /\ pc' = "obtain" /\ req' = req /\ long' = long /\ content' = content
      /\ executed' = executed /\ used' = used + 10
  BY DEF CloseBlocks, large, attempt, HeadLen, MemoryInv, MemoryType
<1>2. /\ req \in RequestRecord /\ long \in BOOLEAN /\ offs = Len(Parameters) /\ executed = 0 /\ used \in Nat
  BY <1>1, RequestBufferAssumption DEF MemoryInv, MemoryType, PointersNoted, AttemptsBounded, Before
<1>3. ContentHeld
  BY <1>1 DEF ContentInv, Plain
<1>4. c \in Seq(Seq(Byte))
  BY <1>2, ContentTextsType
<1>5. Unset(5) \in Seq(Byte) /\ Len(Unset(5)) = 5 /\ FirstValues \in Values
  BY UnsetType, FirstFieldBlocks
<1>6. u \in Seq(Byte) /\ Size = Len(u) /\ Len(u) \in Nat /\ used = Len(u)
  BY <1>2, <1>3, <1>4, OpenCore DEF Size, ContentHeld
<1>7. h \in Seq(Byte) /\ Len(h) = 5
  <2> DEFINE p == Len(Packed(req))
             o == Len(Parameters)
             n == (Size + 5) - (o + 5)
  <2>1. p \in Nat /\ o \in Nat /\ o + 5 <= p /\ p <= used
    BY <1>1, SizesLeaveRoom DEF Sizes, MemoryInv, MemoryType, PointersNoted
  <2>2. Size = used
    BY <1>6
  <2> HIDE DEF p, o
  <2>3. n \in Nat
    BY <1>2, <2>1, <2>2
  <2> HIDE DEF n
  <2>4. "data" \in Parts
    BY DEF Parts, Sorts
  <2>5. BlockHead("data", n) \in Seq(Byte) /\ Len(BlockHead("data", n)) = 5
    BY ONLY <2>3, <2>4, HeadType
  <2> QED BY <2>5 DEF SizedHead, n, o
<1>8. w \in Seq(Byte) /\ Len(w) = Len(u)
  BY <1>2, <1>4, <1>5, <1>7, PartTypes, CoreLength
<1>9. buf' = last
  <2>1. used + HeadLen - (offs + HeadLen) = (Size + 5) - (Len(Parameters) + 5) /\ used + HeadLen + 1 = used + 6
    <3>1. HeadLen = 5 /\ used = Size
      BY <1>6 DEF HeadLen
    <3>2. used + 5 + 1 = used + 6
      BY <1>2
    <3> QED BY <1>2, <3>1, <3>2
  <2> QED BY <2>1 DEF CloseBlocks, SizedHead
<1>10. PICK tail \in Seq(Byte), rest \in Seq(Byte) :
           /\ buf = u \o tail
           /\ (tail = <<>> /\ rest = <<>>) \/ (\E b \in Seq(Byte) : tail = Unset(15) \o b /\ rest = Unset(5) \o b)
           /\ long => content = Size + 16 /\ \E len \in Nat : rest = Unset(5) \o Block("content", Payload(len))
  <2>1. CASE ~long
    <3>1. buf = u
      BY <1>3, <2>1 DEF ContentHeld
    <3>2. u \o <<>> = u /\ <<>> \in Seq(Byte)
      <4> HIDE DEF u
      <4> QED BY <1>6, ConcatEmptySeq, EmptySeq
    <3> QED BY <2>1, <3>1, <3>2
  <2>2. CASE long
    <3>1. PICK len \in Nat : buf = u \o (Unset(15) \o Block("content", Payload(len)))
      BY <1>3, <2>2 DEF ContentHeld
    <3>2. content = Size + 16
      BY <1>3, <2>2 DEF ContentHeld
    <3> DEFINE b == Block("content", Payload(len))
               t == Unset(15) \o b
               s == Unset(5) \o b
    <3>3. b \in Seq(Byte)
      BY PayloadType
    <3>4. t \in Seq(Byte) /\ s \in Seq(Byte)
      <4> DEFINE x == Unset(15)
                 y == Unset(5)
      <4>1. x \in Seq(Byte) /\ y \in Seq(Byte)
        BY UnsetType
      <4> HIDE DEF x, y, b
      <4>2. x \o b \in Seq(Byte) /\ y \o b \in Seq(Byte)
        BY <3>3, <4>1, ConcatProperties
      <4> QED BY <4>2 DEF x, y
    <3> HIDE DEF u
    <3> QED BY <3>1, <3>2, <3>3, <3>4
  <2> QED BY <1>2, <2>1, <2>2
<1> HIDE DEF u
<1>11. ended = u \o Put(tail, 1, e)
  <2>1. u \in Seq(Byte) /\ tail \in Seq(Byte) /\ e \in Seq(Byte) /\ 1 \in Nat /\ 1 > 0
    BY <1>6, SmallBlocks
  <2> HIDE DEF e
  <2>2. WritesSecond(u, tail, 1, e)
    BY ONLY <2>1, PutTail
  <2> QED BY <1>6, <1>10, <2>2 DEF WritesSecond
<1>12. Put(tail, 1, e) \in Seq(Byte)
  <2>1. tail \in Seq(Byte) /\ e \in Seq(Byte) /\ 1 \in Nat /\ 1 > 0
    BY SmallBlocks
  <2> HIDE DEF e
  <2> QED BY ONLY <2>1, PutType
<1>13. sized = w \o Put(tail, 1, e)
  <2> DEFINE t == Put(tail, 1, e)
  <2>1. t \in Seq(Byte)
    BY <1>12
  <2> HIDE DEF t, h, c
  <2>2. WritesHead(req, Unset(5), FirstValues, c, t, h)
    BY <1>2, <1>4, <1>5, <1>7, <2>1, HeadWrite
  <2> QED BY <1>2, <1>11, <2>2 DEF WritesHead, t, u
<1>14. last = w \o Put(Put(tail, 1, e), 6, d)
  <2> DEFINE t == Put(tail, 1, e)
  <2>1. w \in Seq(Byte) /\ t \in Seq(Byte) /\ d \in Seq(Byte) /\ 6 \in Nat /\ 6 > 0
    BY <1>8, <1>12, SmallBlocks
  <2>2. sized = w \o t /\ used = Len(w)
    BY <1>6, <1>8, <1>13
  <2> HIDE DEF t, w, d, sized
  <2>3. WritesSecond(w, t, 6, d)
    BY ONLY <2>1, PutTail
  <2> QED BY <2>2, <2>3 DEF WritesSecond, t
<1>15. last = w \o ((e \o d) \o rest)
  <2>1. Put(Put(tail, 1, e), 6, d) = (e \o d) \o rest
    BY <1>10, EndsWritten
  <2> QED BY <1>14, <2>1
<1>16. Size' = Size /\ SizedHead' = h /\ w = Core(req', SizedHead', FirstValues, ContentTexts(req', long'))
  BY <1>1 DEF Size, SizedHead
<1>17. used' = Size' + 10 + 5 * executed'
  <2>1. used' = Size + 10
    BY <1>1, <1>6
  <2>2. Size + 10 + 5 * 0 = Size + 10
    BY <1>6
  <2> QED BY <1>1, <1>2, <1>16, <2>1, <2>2
<1> HIDE DEF w, h, last
<1>18. Held(FirstValues, e, rest)'
  <2>1. e \in Seq(Byte) /\ Len(e) = 5 /\ e[5].of = "eod"
    BY SmallBlocks, EndElement
  <2>2. buf' = w \o ((e \o d) \o rest)
    BY <1>9, <1>15
  <2> HIDE DEF e, d
  <2>3. executed' = 0
    BY <1>1, <1>2
  <2>4. buf' = Core(req', SizedHead', FirstValues, ContentTexts(req', long')) \o ((e \o Block("data", <<>>)) \o rest)
    BY <1>16, <2>2 DEF d
  <2>5. long' => content' = Size' + 16 /\ \E len \in Nat : rest = Unset(5) \o Block("content", Payload(len))
    BY <1>1, <1>10, <1>16
  <2>6. /\ executed' > 0 => Len(rest) >= 5 * executed' /\ rest[5].of = "eod"
        /\ long' => /\ content' = Size' + 16
                    /\ executed' = 0 => \E len \in Nat : rest = Unset(5) \o Block("content", Payload(len))
                    /\ executed' = 1 => \E len \in Nat : rest = e \o Block("content", Payload(len))
    BY <2>3, <2>5
  <2>7. /\ FirstValues[3] = FirstValue(3) /\ FirstValues[4] = FirstValue(4)
        /\ FirstValues[6][9] = Nul /\ FirstValues[6][10] = Nul /\ (~long' => FirstValues[6] = FirstValue(6))
        /\ req'.sse => FirstValues[7] = FirstValue(7)
    BY FirstValuesHeld
  <2>8. FirstValues \in Values /\ rest \in Seq(Byte)
    BY <1>5
  <2> QED BY ONLY <1>17, <2>1, <2>4, <2>6, <2>7, <2>8 DEF Held, e
<1> QED BY <1>1, <1>18 DEF ContentInv

\* A field after a write: its first bytes are those written.
Overwrites(v, w, k, bytes) ==
    /\ w \in Values
    /\ \A j \in 1..7 : j # k => w[j] = v[j]
    /\ \A i \in 1..Len(bytes) : w[k][i] = bytes[i]
    /\ \A i \in (Len(bytes) + 1)..Fields[k].room : w[k][i] = v[k][i]
    /\ Len(bytes) = Fields[k].room => w[k] = bytes

OverwrittenAt(r, head, v, c, tail, k, bytes) ==
    \E w : /\ Overwrites(v, w, k, bytes)
           /\ Put(Core(r, head, v, c) \o tail, PlaceOf(r, k), bytes) = Core(r, head, w, c) \o tail

\* The same for a text that is shorter than its room: the rest of the room stays.
LEMMA FieldOverwritten ==
    ASSUME NEW r \in RequestRecord, NEW head \in Seq(Byte), Len(head) = 5, NEW v \in Values,
           NEW c \in Seq(Seq(Byte)), NEW tail \in Seq(Byte), NEW k \in 1..7,
           NEW bytes \in Seq(Byte), Len(bytes) <= Fields[k].room
    PROVE  OverwrittenAt(r, head, v, c, tail, k, bytes)
<1> DEFINE x == v[k]
           y == Put(x, 1, bytes)
           w == Rewritten(v, k, bytes)
           n == Len(bytes)
           room == Fields[k].room
<1>1. w \in Values /\ Put(Core(r, head, v, c) \o tail, PlaceOf(r, k), bytes) = Core(r, head, w, c) \o tail
  <2>1. r \in RequestRecord /\ head \in Seq(Byte) /\ Len(head) = 5 /\ v \in Values /\ c \in Seq(Seq(Byte))
        /\ tail \in Seq(Byte) /\ k \in 1..7 /\ bytes \in Seq(Byte) /\ Len(bytes) <= Fields[k].room
    OBVIOUS
  <2>2. WritesField(r, head, v, c, tail, k, bytes)
    BY ONLY <2>1, FieldWrite
  <2> QED BY <2>2 DEF WritesField
<1>2. x \in Seq(Byte) /\ Len(x) = room /\ v \in [1..7 -> Seq(Byte)]
  BY DEF Values
<1>3. w[k] = y /\ \A j \in 1..7 : j # k => w[j] = v[j]
  BY <1>2 DEF Rewritten
<1>4. n \in Nat /\ n <= room /\ room \in Nat
  BY FieldLengths, LenProperties
<1> HIDE DEF w, x
<1>5. Len(y) = room
  <2>1. x \in Seq(Byte) /\ bytes \in Seq(Byte) /\ 1 \in Nat /\ 1 > 0
    BY <1>2
  <2>2. Len(y) = IF 1 + Len(bytes) - 1 <= Len(x) THEN Len(x) ELSE 1 + Len(bytes) - 1
    BY ONLY <2>1, PutType
  <2> HIDE DEF y, n, room
  <2>3. Len(y) = IF 1 + n - 1 <= room THEN room ELSE 1 + n - 1
    BY <1>2, <2>2 DEF n
  <2> QED BY <1>4, <2>3
<1>6. \A i \in 1..room : y[i] = IF i <= n THEN bytes[i] ELSE x[i]
  <2>1. x \in Seq(Byte) /\ bytes \in Seq(Byte) /\ 1 \in Nat /\ 1 > 0
    BY <1>2
  <2>2. \A i \in 1..Len(y) : y[i] = IF i \in 1..(1 + n - 1) THEN bytes[i - 1 + 1]
                                    ELSE IF i <= Len(x) THEN x[i] ELSE Unwritten
    BY ONLY <2>1, PutElement
  <2> HIDE DEF y, n, room
  <2> TAKE i \in 1..room
  <2>3. y[i] = IF i \in 1..(1 + n - 1) THEN bytes[i - 1 + 1] ELSE IF i <= room THEN x[i] ELSE Unwritten
    BY <1>2, <1>5, <2>2
  <2>4. i - 1 + 1 = i /\ (i \in 1..(1 + n - 1) <=> i <= n) /\ i <= room
    BY <1>4
  <2> QED BY <2>3, <2>4
<1>7. n = room => y = bytes
  <2> SUFFICES ASSUME n = room PROVE y = bytes
    OBVIOUS
  <2> QED BY <1>2, PutWhole
<1> HIDE DEF y
<1>8. Overwrites(v, w, k, bytes)
  <2> HIDE DEF n, room
  <2>1. ASSUME NEW i \in 1..n PROVE w[k][i] = bytes[i]
    <3>1. i \in 1..room /\ i <= n
      BY <1>4
    <3> QED BY <1>3, <1>6, <3>1
  <2>2. ASSUME NEW i \in (n + 1)..room PROVE w[k][i] = v[k][i]
    <3>1. i \in 1..room /\ ~(i <= n)
      BY <1>4
    <3> QED BY <1>3, <1>6, <3>1 DEF x
  <2> USE DEF n, room
  <2> QED BY <1>1, <1>3, <1>7, <2>1, <2>2 DEF Overwrites
<1> QED BY <1>1, <1>8 DEF OverwrittenAt

\* The pointers point to the rooms of the fields.
LEMMA ValuePlaces ==
    ASSUME NEW r \in RequestRecord
    PROVE  /\ ValueAt(r, "server") = PlaceOf(r, 1) /\ ValueAt(r, "server_no") = PlaceOf(r, 2)
           /\ ValueAt(r, "no") = PlaceOf(r, 5) /\ ValueAt(r, "key") = PlaceOf(r, 6)
           /\ ValueAt(r, "mode") = PlaceOf(r, 7)
<1>1. /\ Field("server") = 1 /\ Field("server_no") = 2 /\ Field("no") = 5 /\ Field("key") = 6
      /\ Field("mode") = 7
  BY FieldPlaces
<1> QED BY <1>1 DEF ValueAt, PlaceOf

\* The fields after mg_web_execute has written over them, but for the mode.
AddressedAs(v, w) ==
    /\ w \in Values
    /\ w[3] = v[3] /\ w[4] = v[4] /\ w[7] = v[7]
    /\ w[2] = Text("serverno", server, 2) /\ w[5] = Text("requestno", 0, 4)
    /\ \A i \in 1..(NameLength[server] + 1) : w[1][i] = NameOf(server)[i]
    /\ long => \A i \in 1..8 : w[6][i] = Key[i]
    /\ w[6][9] = v[6][9] /\ w[6][10] = v[6][10]
    /\ ~long => w[6] = v[6]

\* Addressing a server fills in three fields, four of a long request, and leaves the others.
LEMMA FieldsAddressed ==
    ASSUME MemoryInv, pc = "execute", NEW head \in Seq(Byte), Len(head) = 5, NEW v \in Values,
           NEW c \in Seq(Seq(Byte)), NEW tail \in Seq(Byte), buf = Core(req, head, v, c) \o tail
    PROVE  \E w : AddressedAs(v, w) /\ Addressed = Core(req, head, w, c) \o tail
<1>1. /\ req \in RequestRecord /\ server \in Servers /\ at = Pointers(req) /\ long \in BOOLEAN
  BY RequestBufferAssumption DEF MemoryInv, MemoryType, PointersNoted
<1>2. /\ at.serverno = PlaceOf(req, 2) /\ at.server = PlaceOf(req, 1) /\ at.requestno = PlaceOf(req, 5)
      /\ at.requestkey = PlaceOf(req, 6)
  BY <1>1, ValuePlaces DEF Pointers
<1>3. /\ Key \in Seq(Byte) /\ Len(Key) = 8
      /\ NameOf(server) \in Seq(Byte) /\ Len(NameOf(server)) <= 32
      /\ Text("serverno", server, 2) \in Seq(Byte) /\ Len(Text("serverno", server, 2)) = 2
      /\ Text("requestno", 0, 4) \in Seq(Byte) /\ Len(Text("requestno", 0, 4)) = 4
  BY <1>1, SmallBlocks, ServerTexts
<1>4. Len(NameOf(server)) = NameLength[server] + 1 /\ NameLength[server] \in Nat
  <2>1. server \in Nat /\ NameLength[server] \in Nat /\ "name" \in Parts
    <3>1. Servers \subseteq Nat /\ NameLength \in [Servers -> 1..31]
      BY RequestBufferAssumption
    <3>2. NameLength[server] \in 1..31
      BY <1>1, <3>1
    <3>3. "name" \in Parts
      BY DEF Parts
    <3>4. server \in Nat
      BY <1>1, <3>1
    <3>5. NameLength[server] \in Nat
      <4>1. \A n \in 1..31 : n \in Nat
        OBVIOUS
      <4> QED BY <3>2, <4>1
    <3> QED BY <3>3, <3>4, <3>5
  <2> DEFINE t == Text("name", server, NameLength[server])
  <2>2. t \in Seq(Byte) /\ Len(t) = NameLength[server]
    BY <2>1, TextType
  <2> HIDE DEF t
  <2>3. << Nul >> \in Seq(Byte) /\ Len(<< Nul >>) = 1
    BY NulType
  <2>4. Len(t \o << Nul >>) = Len(t) + Len(<< Nul >>)
    BY <2>2, <2>3, ConcatProperties
  <2> QED BY <2>1, <2>2, <2>3, <2>4 DEF NameOf, t
<1>5. Fields[1].room = 32 /\ Fields[2].room = 2 /\ Fields[5].room = 4 /\ Fields[6].room = 10
  BY Rooms
<1> DEFINE B(w) == Core(req, head, w, c) \o tail
           no == Text("serverno", server, 2)
           name == NameOf(server)
           num == Text("requestno", 0, 4)
<1>6. ASSUME NEW u \in Values, NEW k \in 1..7, NEW bytes \in Seq(Byte), Len(bytes) <= Fields[k].room
      PROVE  \E w : Overwrites(u, w, k, bytes) /\ Put(B(u), PlaceOf(req, k), bytes) = B(w)
  <2>1. PICK w : /\ Overwrites(u, w, k, bytes)
                 /\ Put(Core(req, head, u, c) \o tail, PlaceOf(req, k), bytes) = Core(req, head, w, c) \o tail
    <3>1. req \in RequestRecord /\ head \in Seq(Byte) /\ Len(head) = 5 /\ u \in Values /\ c \in Seq(Seq(Byte))
          /\ tail \in Seq(Byte) /\ k \in 1..7 /\ bytes \in Seq(Byte) /\ Len(bytes) <= Fields[k].room
      BY <1>1, <1>6
    <3>2. OverwrittenAt(req, head, u, c, tail, k, bytes)
      BY ONLY <3>1, FieldOverwritten
    <3> QED BY <3>2 DEF OverwrittenAt
  <2> QED BY <2>1 DEF B
<1> HIDE DEF B, no, name, num
<1>14. /\ no \in Seq(Byte) /\ Len(no) <= Fields[2].room /\ name \in Seq(Byte) /\ Len(name) <= Fields[1].room
       /\ num \in Seq(Byte) /\ Len(num) <= Fields[5].room /\ Len(Key) <= Fields[6].room
       /\ 1 \in 1..7 /\ 2 \in 1..7 /\ 5 \in 1..7 /\ 6 \in 1..7
  <2>1. no \in Seq(Byte) /\ Len(no) = 2 /\ num \in Seq(Byte) /\ Len(num) = 4
    BY <1>3 DEF no, num
  <2>2. name \in Seq(Byte) /\ Len(name) <= 32
    BY <1>3 DEF name
  <2>3. Len(no) <= Fields[2].room /\ Len(num) <= Fields[5].room
    BY <1>5, <2>1
  <2>4. Len(name) <= Fields[1].room
    BY <1>5, <2>2
  <2>5. Len(Key) <= Fields[6].room
    BY <1>3, <1>5
  <2> QED BY <2>1, <2>2, <2>3, <2>4, <2>5
<1>7. PICK w2 : Overwrites(v, w2, 2, no) /\ Put(B(v), PlaceOf(req, 2), no) = B(w2)
  BY <1>6, <1>14
<1>8. PICK w1 : Overwrites(w2, w1, 1, name) /\ Put(B(w2), PlaceOf(req, 1), name) = B(w1)
  <2>1. w2 \in Values
    BY <1>7 DEF Overwrites
  <2> QED BY <1>6, <1>14, <2>1
<1>9. PICK w5 : Overwrites(w1, w5, 5, num) /\ Put(B(w1), PlaceOf(req, 5), num) = B(w5)
  <2>1. w1 \in Values
    BY <1>8 DEF Overwrites
  <2> QED BY <1>6, <1>14, <2>1
<1>10. Addressed = IF long THEN Put(B(w5), PlaceOf(req, 6), Key) ELSE B(w5)
  <2>1. buf = B(v)
    BY DEF B
  <2> QED BY <1>2, <1>7, <1>8, <1>9, <2>1 DEF Addressed, no, name, num
<1>11. /\ w5 \in Values /\ w5[3] = v[3] /\ w5[4] = v[4] /\ w5[6] = v[6] /\ w5[7] = v[7]
       /\ w5[2] = no /\ w5[5] = num
       /\ \A i \in 1..(NameLength[server] + 1) : w5[1][i] = name[i]
  <2>1. w2[2] = no /\ \A j \in 1..7 : j # 2 => w2[j] = v[j]
    BY <1>3, <1>5, <1>7 DEF Overwrites, no
  <2>2. (\A i \in 1..Len(name) : w1[1][i] = name[i]) /\ \A j \in 1..7 : j # 1 => w1[j] = w2[j]
    BY <1>8 DEF Overwrites
  <2>3. w5 \in Values /\ w5[5] = num /\ \A j \in 1..7 : j # 5 => w5[j] = w1[j]
    BY <1>3, <1>5, <1>9 DEF Overwrites, num
  <2>4. Len(name) = NameLength[server] + 1
    BY <1>4 DEF name
  <2> QED BY <2>1, <2>2, <2>3, <2>4
<1>12. CASE ~long
  <2>1. AddressedAs(v, w5)
    BY <1>11, <1>12 DEF AddressedAs, no, name, num
  <2> QED BY <1>10, <1>12, <2>1 DEF B
<1>13. CASE long
  <2>1. PICK w6 : Overwrites(w5, w6, 6, Key) /\ Put(B(w5), PlaceOf(req, 6), Key) = B(w6)
    BY <1>3, <1>6, <1>11, <1>14
  <2>2. /\ w6 \in Values /\ \A j \in 1..7 : j # 6 => w6[j] = w5[j]
        /\ \A i \in 1..8 : w6[6][i] = Key[i]
        /\ \A i \in 9..10 : w6[6][i] = w5[6][i]
    BY <1>3, <1>5, <2>1 DEF Overwrites
  <2>3. AddressedAs(v, w6)
    BY <1>11, <1>13, <2>2 DEF AddressedAs, no, name, num
  <2> QED BY <1>10, <1>13, <2>1, <2>3 DEF B
<1> QED BY <1>1, <1>12, <1>13

\* The end of the request is written after those of the attempts before.
LEMMA EndAppended ==
    ASSUME NEW rest \in Seq(Byte), NEW n \in Nat, n > 0 => Len(rest) >= 5 * n /\ rest[5].of = "eod"
    PROVE  /\ Put(rest, 5 * n + 1, EndOfData) \in Seq(Byte)
           /\ Len(Put(rest, 5 * n + 1, EndOfData)) >= 5 * (n + 1)
           /\ Put(rest, 5 * n + 1, EndOfData)[5].of = "eod"
<1> DEFINE x == 5 * n
           p == x + 1
           e == EndOfData
           a == Put(rest, p, e)
           y == 5 * (n + 1)
           l == Len(rest)
<1>1. x \in Nat /\ y = x + 5 /\ (n = 0 => x = 0) /\ (n > 0 => x >= 5)
  OBVIOUS
<1>2. e \in Seq(Byte) /\ Len(e) = 5 /\ e[5].of = "eod"
  BY SmallBlocks, EndElement
<1>3. l \in Nat /\ (n > 0 => l >= x)
  BY LenProperties
<1> HIDE DEF x, y, e, l
<1>4. rest \in Seq(Byte) /\ p \in Nat /\ p > 0 /\ e \in Seq(Byte)
  BY <1>1, <1>2
<1> HIDE DEF p
<1>5. a \in Seq(Byte)
  BY ONLY <1>4, PutType
<1>6. Len(a) = IF p + Len(e) - 1 <= Len(rest) THEN Len(rest) ELSE p + Len(e) - 1
  BY ONLY <1>4, PutType
<1>7. \A i \in 1..Len(a) : a[i] = IF i \in p..(p + Len(e) - 1) THEN e[i - p + 1]
                                  ELSE IF i <= Len(rest) THEN rest[i] ELSE Unwritten
  BY ONLY <1>4, PutElement
<1> HIDE DEF a
<1>8. Len(a) >= x + 5 /\ Len(a) \in Nat
  <2>1. Len(a) = IF x + 5 <= l THEN l ELSE x + 5
    <3>1. p + Len(e) - 1 = x + 5
      BY <1>1, <1>2 DEF p
    <3> QED BY <1>6, <3>1 DEF l
  <2> QED BY <1>1, <1>3, <2>1
<1>9. 5 \in 1..Len(a)
  BY <1>1, <1>8
<1>10. CASE n = 0
  <2>1. p = 1 /\ 5 \in p..(p + Len(e) - 1) /\ 5 - p + 1 = 5
    BY <1>1, <1>2, <1>10 DEF p
  <2>2. a[5] = e[5]
    BY <1>7, <1>9, <2>1
  <2> QED BY <1>1, <1>2, <1>5, <1>8, <2>2 DEF a, p, x, e, y
<1>11. CASE n > 0
  <2>1. 5 \notin p..(p + Len(e) - 1) /\ 5 <= Len(rest)
    BY <1>1, <1>2, <1>3, <1>11 DEF p, l
  <2>2. a[5] = rest[5]
    BY <1>7, <1>9, <2>1
  <2> QED BY <1>1, <1>5, <1>8, <1>11, <2>2 DEF a, p, x, e, y
<1> QED BY <1>10, <1>11

\* The first goes before the block of a long content.
LEMMA FirstEndWritten ==
    ASSUME NEW b \in Seq(Byte)
    PROVE  Put(Unset(5) \o b, 5 * 0 + 1, EndOfData) = EndOfData \o b
<1> DEFINE x == Unset(5)
           e == EndOfData
<1>1. x \in Seq(Byte) /\ Len(x) = 5 /\ e \in Seq(Byte) /\ Len(e) = 5
  BY UnsetType, SmallBlocks
<1> HIDE DEF x, e
<1>2. x \in Seq(Byte) /\ b \in Seq(Byte) /\ 1 \in Nat /\ e \in Seq(Byte) /\ 1 > 0 /\ 1 + Len(e) <= Len(x) + 1
  BY <1>1
<1>3. WritesFirst(x, b, 1, e)
  BY ONLY <1>2, PutCore
<1>4. Put(x, 1, e) = e
  BY <1>1, PutWhole
<1>5. 5 * 0 + 1 = 1
  OBVIOUS
<1> QED BY <1>3, <1>4, <1>5 DEF WritesFirst, x, e

\* What mg_web_execute finds after the fields, and where the mode of events is written.
AppendsEnd(w, lead, d, rest, x, e) ==
    Put(w \o ((lead \o d) \o rest), (Len(w) + 10 + x) + 1, e) = w \o ((lead \o d) \o Put(rest, x + 1, e))
WritesLead(w, lead, d, rest, m) ==
    /\ Put(w \o ((lead \o d) \o rest), Len(w) + 1, m) = w \o ((Put(lead, 1, m) \o d) \o rest)
    /\ Put(lead, 1, m) \in Seq(Byte) /\ Len(Put(lead, 1, m)) = 5 /\ Put(lead, 1, m)[5] = lead[5]

\* The end goes after those of the earlier attempts.
LEMMA EndsAddressed ==
    ASSUME NEW w \in Seq(Byte), NEW lead \in Seq(Byte), Len(lead) = 5, NEW d \in Seq(Byte), Len(d) = 5,
           NEW rest \in Seq(Byte), NEW x \in Nat, NEW e \in Seq(Byte)
    PROVE  AppendsEnd(w, lead, d, rest, x, e)
<1> DEFINE ld == lead \o d
           q == x + 1
           t == ld \o rest
           s == 10 + q
<1>1. ld \in Seq(Byte) /\ Len(ld) = 10
  <2>1. ld \in Seq(Byte) /\ Len(ld) = Len(lead) + Len(d)
    BY ConcatProperties
  <2> QED BY <2>1
<1> HIDE DEF ld
<1>2. t \in Seq(Byte)
  BY <1>1, ConcatProperties
<1>3. Len(w) \in Nat
  BY LenProperties
<1>4. q \in Nat /\ q > 0 /\ s \in Nat /\ s > 0 /\ (Len(w) + 10 + x) + 1 = Len(w) + s
  BY <1>3
<1>5. WritesSecond(w, t, s, e)
  <2>1. w \in Seq(Byte) /\ t \in Seq(Byte) /\ s \in Nat /\ e \in Seq(Byte) /\ s > 0
    BY <1>2, <1>4
  <2> HIDE DEF t, s
  <2> QED BY ONLY <2>1, PutTail
<1>6. WritesSecond(ld, rest, q, e)
  <2>1. ld \in Seq(Byte) /\ rest \in Seq(Byte) /\ q \in Nat /\ e \in Seq(Byte) /\ q > 0
    BY <1>1, <1>4
  <2> HIDE DEF q
  <2> QED BY ONLY <2>1, PutTail
<1>7. Put(t, s, e) = ld \o Put(rest, q, e)
  BY <1>1, <1>6 DEF WritesSecond
<1> HIDE DEF t, s, q
<1>8. Put(w \o t, Len(w) + s, e) = w \o (ld \o Put(rest, q, e))
  BY <1>5, <1>7 DEF WritesSecond
<1> QED BY <1>4, <1>8 DEF t, q, ld, AppendsEnd

\* The mode of events is written over the length of the first end.
LEMMA ModeAddressed ==
    ASSUME NEW w \in Seq(Byte), NEW lead \in Seq(Byte), Len(lead) = 5, NEW d \in Seq(Byte),
           NEW rest \in Seq(Byte), NEW m \in Seq(Byte), Len(m) = 3
    PROVE  WritesLead(w, lead, d, rest, m)
<1> DEFINE ld == lead \o d
           t == ld \o rest
           a == Put(lead, 1, m)
<1>1. ld \in Seq(Byte) /\ Len(ld) = 5 + Len(d) /\ Len(d) \in Nat
  <2>1. ld \in Seq(Byte) /\ Len(ld) = Len(lead) + Len(d)
    BY ConcatProperties
  <2> QED BY <2>1, LenProperties
<1> HIDE DEF ld
<1>2. t \in Seq(Byte)
  BY <1>1, ConcatProperties
<1> HIDE DEF t, a
<1>3. WritesSecond(w, t, 1, m)
  <2>1. w \in Seq(Byte) /\ t \in Seq(Byte) /\ 1 \in Nat /\ m \in Seq(Byte) /\ 1 > 0
    BY <1>2
  <2> QED BY ONLY <2>1, PutTail
<1>4. WritesFirst(ld, rest, 1, m)
  <2>1. ld \in Seq(Byte) /\ rest \in Seq(Byte) /\ 1 \in Nat /\ m \in Seq(Byte) /\ 1 > 0 /\ 1 + Len(m) <= Len(ld) + 1
    BY <1>1
  <2> QED BY ONLY <2>1, PutCore
<1>5. WritesFirst(lead, d, 1, m)
  <2>1. lead \in Seq(Byte) /\ d \in Seq(Byte) /\ 1 \in Nat /\ m \in Seq(Byte) /\ 1 > 0 /\ 1 + Len(m) <= Len(lead) + 1
    OBVIOUS
  <2> QED BY ONLY <2>1, PutCore
<1>6. Put(ld, 1, m) = a \o d /\ Len(a) = 5
  BY <1>5 DEF WritesFirst, ld, a
<1>7. Put(t, 1, m) = (a \o d) \o rest
  BY <1>4, <1>6 DEF WritesFirst, t
<1>8. a \in Seq(Byte)
  <2>1. lead \in Seq(Byte) /\ m \in Seq(Byte) /\ 1 \in Nat /\ 1 > 0
    OBVIOUS
  <2>2. Put(lead, 1, m) \in Seq(Byte)
    BY ONLY <2>1, PutType
  <2> QED BY <2>2 DEF a
<1>9. a[5] = lead[5]
  <2>1. lead \in Seq(Byte) /\ m \in Seq(Byte) /\ 1 \in Nat /\ 1 > 0
    OBVIOUS
  <2>2. \A i \in 1..Len(Put(lead, 1, m)) :
            Put(lead, 1, m)[i] = IF i \in 1..(1 + Len(m) - 1) THEN m[i - 1 + 1]
                                 ELSE IF i <= Len(lead) THEN lead[i] ELSE Unwritten
    BY ONLY <2>1, PutElement
  <2>3. 5 \in 1..Len(a) /\ 5 \notin 1..(1 + Len(m) - 1) /\ 5 <= Len(lead)
    BY <1>6
  <2> QED BY <2>2, <2>3 DEF a
<1>10. Put(w \o t, Len(w) + 1, m) = w \o ((a \o d) \o rest)
  BY <1>3, <1>7 DEF WritesSecond
<1> QED BY <1>6, <1>8, <1>9, <1>10 DEF t, ld, a, WritesLead

\* The fields for the server, between a head and what follows, are in the buffer.
ExecutedAs(v, lead, rest, w, m, lead2, r2) ==
    /\ Held(v, lead, rest) /\ AddressedAs(v, w)
    /\ r2 = Put(rest, 5 * executed + 1, EndOfData)
    /\ m \in Values /\ lead2 \in Seq(Byte) /\ Len(lead2) = 5 /\ lead2[5].of = "eod"
    /\ \A j \in 1..6 : m[j] = w[j]
    /\ req.sse => m[7] = FirstValue(7)
    /\ ~req.sse => m[7] = Text(Link[server], 0, 3)
    /\ buf' = Core(req, SizedHead, m, ContentTexts(req, long)) \o ((lead2 \o Block("data", <<>>)) \o r2)

\* After an execution the buffer holds what is meant for the server.
LEMMA EndWrittenHeld ==
    ASSUME MemoryInv, Execute, Plain, NEW v, NEW lead, NEW rest, NEW w, NEW m, NEW lead2, NEW r2,
           ExecutedAs(v, lead, rest, w, m, lead2, r2)
    PROVE  (Held(m, lead2, r2) /\ Meant(m))'
<1> USE DEF ExecutedAs
<1>1. /\ pc' = "sent" /\ req' = req /\ long' = long /\ content' = content /\ server' = server
      /\ executed' = executed + 1 /\ used' = used + 5
  BY DEF Execute, large, HeadLen
<1>2. /\ executed \in Nat /\ rest \in Seq(Byte) /\ used = Size + 10 + 5 * executed
      /\ (executed > 0 => Len(rest) >= 5 * executed /\ rest[5].of = "eod")
  BY DEF MemoryInv, MemoryType, Held
<1>3. r2 \in Seq(Byte) /\ Len(r2) >= 5 * (executed + 1) /\ r2[5].of = "eod"
  BY <1>2, EndAppended
<1>4. Size' = Size /\ SizedHead' = SizedHead /\ ContentTexts(req', long') = ContentTexts(req, long)
  BY <1>1 DEF Size, SizedHead
<1>5. Size \in Nat
  <2>1. req \in RequestRecord
    BY RequestBufferAssumption DEF MemoryInv, MemoryType
  <2>2. ContentTexts(req, long) \in Seq(Seq(Byte))
    BY <2>1, ContentTextsType
  <2> QED BY <2>1, <2>2, OpenCore DEF Size
<1>6. used' = Size' + 10 + 5 * executed'
  <2> DEFINE s == Size
             x == 5 * executed
             y == 5 * (executed + 1)
  <2>1. y = x + 5 /\ x \in Nat
    BY <1>2
  <2>2. used = s + 10 + x /\ s \in Nat
    BY <1>2, <1>5
  <2> HIDE DEF s, x, y
  <2>3. used + 5 = s + 10 + y
    BY <2>1, <2>2
  <2> QED BY <1>1, <1>4, <2>3 DEF s, y
<1>7. buf' = Core(req', SizedHead', m, ContentTexts(req', long')) \o ((lead2 \o Block("data", <<>>)) \o r2)
  BY <1>1, <1>4
<1>8. /\ m[3] = FirstValue(3) /\ m[4] = FirstValue(4) /\ m[6][9] = Nul /\ m[6][10] = Nul
      /\ (~long' => m[6] = FirstValue(6)) /\ (req'.sse => m[7] = FirstValue(7))
  <2>1. m[3] = w[3] /\ m[4] = w[4] /\ m[6] = w[6]
    OBVIOUS
  <2>2. /\ w[3] = v[3] /\ w[4] = v[4] /\ w[6][9] = v[6][9] /\ w[6][10] = v[6][10] /\ (~long => w[6] = v[6])
    BY DEF AddressedAs
  <2>3. /\ v[3] = FirstValue(3) /\ v[4] = FirstValue(4) /\ v[6][9] = Nul /\ v[6][10] = Nul
        /\ (~long => v[6] = FirstValue(6))
    BY DEF Held
  <2> QED BY <1>1, <2>1, <2>2, <2>3
<1>9. executed' > 0 => Len(r2) >= 5 * executed' /\ r2[5].of = "eod"
  BY <1>1, <1>3
<1>10. ASSUME long'
       PROVE  /\ content' = Size' + 16
              /\ executed' # 0
              /\ executed' = 1 => \E len \in Nat : r2 = EndOfData \o Block("content", Payload(len))
  <2>1. content' = Size' + 16 /\ executed' # 0
    BY <1>1, <1>2, <1>4, <1>10 DEF Held
  <2>2. ASSUME executed' = 1 PROVE \E len \in Nat : r2 = EndOfData \o Block("content", Payload(len))
    <3>1. executed = 0 /\ long
      BY <1>1, <1>2, <1>10, <2>2
    <3>2. PICK len \in Nat : rest = Unset(5) \o Block("content", Payload(len))
      BY <3>1 DEF Held
    <3>3. Block("content", Payload(len)) \in Seq(Byte)
      BY PayloadType
    <3>4. Put(rest, 5 * 0 + 1, EndOfData) = EndOfData \o Block("content", Payload(len))
      BY <3>2, <3>3, FirstEndWritten
    <3> QED BY <3>1, <3>4
  <2> QED BY <2>1, <2>2
<1>11. Held(m, lead2, r2)'
  <2>1. /\ m \in Values /\ lead2 \in Seq(Byte) /\ Len(lead2) = 5 /\ lead2[5].of = "eod" /\ r2 \in Seq(Byte)
    BY <1>3
  <2>2. long' => /\ content' = Size' + 16
                 /\ executed' = 0 => \E len \in Nat : r2 = Unset(5) \o Block("content", Payload(len))
                 /\ executed' = 1 => \E len \in Nat : r2 = EndOfData \o Block("content", Payload(len))
    BY <1>10
  <2> QED BY ONLY <1>6, <1>7, <1>8, <1>9, <2>1, <2>2 DEF Held
<1>12. Meant(m)'
  <2>1. /\ m[2] = Text("serverno", server, 2) /\ m[5] = Text("requestno", 0, 4)
        /\ \A i \in 1..(NameLength[server] + 1) : m[1][i] = NameOf(server)[i]
        /\ long => \A i \in 1..8 : m[6][i] = Key[i]
    BY DEF AddressedAs
  <2>2. /\ m[2] = Text("serverno", server', 2) /\ m[5] = Text("requestno", 0, 4)
        /\ \A i \in 1..(NameLength[server'] + 1) : m[1][i] = NameOf(server')[i]
        /\ long' => \A i \in 1..8 : m[6][i] = Key[i]
        /\ ~req'.sse => m[7] = Text(Link[server'], 0, 3)
    BY <1>1, <2>1
  <2>3. executed' > 0
    BY <1>1, <1>2
  <2> QED BY ONLY <2>2, <2>3 DEF Meant
<1> QED BY <1>11, <1>12

\* The buffer holds what it should in each attempt.
LEMMA ExecuteContent == MemoryInv /\ ContentInv /\ Execute => ContentInv'
<1> SUFFICES ASSUME MemoryInv, ContentInv, Execute, Plain' PROVE ContentInv'
  BY DEF ContentInv
<1> DEFINE d == Block("data", <<>>)
           e == EndOfData
           h == SizedHead
           c == ContentTexts(req, long)
           mode == Text(Link[server], 0, 3)
           x == 5 * executed
<1>1. /\ pc = "execute" /\ pc' = "sent" /\ req' = req
      /\ buf' = Put(Put(Addressed, used + 1, e), at.mode, mode)
  BY DEF Execute
<1>2. /\ req \in RequestRecord /\ server \in Servers /\ executed \in Nat /\ at = Pointers(req)
      /\ (req.websocket => ~req.sse)
  BY <1>1, RequestBufferAssumption DEF MemoryInv, MemoryType, PointersNoted
<1>3. Plain
  BY <1>1 DEF Plain
<1>4. PICK v, lead, rest : Held(v, lead, rest)
  BY <1>1, <1>3 DEF ContentInv, After
<1>5. /\ v \in Values /\ lead \in Seq(Byte) /\ Len(lead) = 5 /\ lead[5].of = "eod" /\ rest \in Seq(Byte)
      /\ used = Size + 10 + x /\ buf = Core(req, h, v, c) \o ((lead \o d) \o rest)
  BY <1>4 DEF Held
<1>6. c \in Seq(Seq(Byte)) /\ Size = Len(Core(req, Unset(5), FirstValues, c)) /\ Size \in Nat
  <2>1. c \in Seq(Seq(Byte))
    BY <1>2, ContentTextsType
  <2> QED BY <1>2, <2>1, OpenCore DEF Size
<1>7. h \in Seq(Byte) /\ Len(h) = 5
  <2> DEFINE o == Len(Parameters)
             u == Unset(5)
             n == (Size + 5) - (o + 5)
  <2>1. Parameters \in Seq(Byte) /\ o \in Nat /\ o + 5 <= Len(Opened(req)) /\ Opened(req) \in Seq(Byte)
    BY <1>2, OpenedType, LenProperties
  <2>2. u \in Seq(Byte) /\ Len(u) = 5 /\ FirstValues \in Values
    BY UnsetType, FirstFieldBlocks
  <2>3. n \in Nat
    <3> DEFINE s == Start(req, u)
               f == FieldPart(FirstValues)
               g == Ending(req, c)
    <3>1. s \in Seq(Byte) /\ Len(s) = Len(Opened(req)) /\ f \in Seq(Byte) /\ g \in Seq(Byte)
      BY <1>2, <1>6, <2>2, PartTypes
    <3>2. Core(req, u, FirstValues, c) = (s \o f) \o g
      BY DEF Core
    <3> HIDE DEF s, f, g, u, c
    <3>3. s \o f \in Seq(Byte) /\ Len(s \o f) = Len(s) + Len(f) /\ Len(s) \in Nat /\ Len(f) \in Nat /\ Len(g) \in Nat
      BY <3>1, ConcatProperties, LenProperties
    <3> DEFINE sf == s \o f
    <3>4. sf \in Seq(Byte)
      BY <3>3
    <3> HIDE DEF sf
    <3>5. Len(sf \o g) = Len(sf) + Len(g)
      BY <3>1, <3>4, ConcatProperties
    <3>6. Size = Len(s) + Len(f) + Len(g)
      BY <1>6, <3>2, <3>3, <3>5 DEF sf, u, c
    <3> HIDE DEF o
    <3> QED BY <1>6, <2>1, <3>1, <3>3, <3>6
  <2> HIDE DEF n
  <2>4. "data" \in Parts
    BY DEF Parts, Sorts
  <2>5. BlockHead("data", n) \in Seq(Byte) /\ Len(BlockHead("data", n)) = 5
    BY ONLY <2>3, <2>4, HeadType
  <2> QED BY <2>5 DEF SizedHead, n, o
<1>8. d \in Seq(Byte) /\ Len(d) = 5 /\ e \in Seq(Byte) /\ mode \in Seq(Byte) /\ Len(mode) = 3
  BY <1>2, SmallBlocks, ServerTexts
<1> DEFINE ldr == (lead \o d) \o rest
<1>9. \A z \in Seq(Byte) : (lead \o d) \o z \in Seq(Byte)
  <2> TAKE z \in Seq(Byte)
  <2> DEFINE ld == lead \o d
  <2>1. ld \in Seq(Byte)
    BY <1>5, <1>8, ConcatProperties
  <2> HIDE DEF ld
  <2>2. ld \o z \in Seq(Byte)
    BY <2>1, ConcatProperties
  <2> QED BY <2>2 DEF ld
<1> HIDE DEF h, c, d, e, mode
<1>10. PICK w : AddressedAs(v, w) /\ Addressed = Core(req, h, w, c) \o ldr
  <2>1. ldr \in Seq(Byte) /\ buf = Core(req, h, v, c) \o ldr
    BY <1>5, <1>9
  <2> HIDE DEF ldr
  <2>2. /\ MemoryInv /\ pc = "execute" /\ h \in Seq(Byte) /\ Len(h) = 5 /\ v \in Values
        /\ c \in Seq(Seq(Byte)) /\ ldr \in Seq(Byte) /\ buf = Core(req, h, v, c) \o ldr
    BY <1>1, <1>5, <1>6, <1>7, <2>1
  <2> QED BY ONLY <2>2, FieldsAddressed
<1>17. PICK r2 : r2 = Put(rest, x + 1, e)
  OBVIOUS
<1> DEFINE W == Core(req, h, w, c)
           T == (lead \o d) \o r2
<1>11. W \in Seq(Byte) /\ Len(W) = Size /\ w \in Values
  <2>1. w \in Values
    BY <1>10 DEF AddressedAs
  <2>2. Unset(5) \in Seq(Byte) /\ Len(Unset(5)) = 5 /\ FirstValues \in Values
    BY UnsetType, FirstFieldBlocks
  <2>3. W \in Seq(Byte)
    BY <1>2, <1>6, <1>7, <2>1, PartTypes
  <2>4. Len(Core(req, h, w, c)) = Len(Core(req, Unset(5), FirstValues, c))
    BY <1>2, <1>6, <1>7, <2>1, <2>2, CoreLength
  <2> QED BY <1>6, <2>1, <2>3, <2>4
<1>12. r2 \in Seq(Byte)
  <2>1. executed > 0 => Len(rest) >= 5 * executed /\ rest[5].of = "eod"
    BY <1>4 DEF Held
  <2> QED BY <1>2, <1>5, <1>17, <2>1, EndAppended DEF e
<1>13. Put(Addressed, used + 1, e) = W \o T
  <2> DEFINE q == x
  <2>1. q \in Nat
    BY <1>2
  <2> HIDE DEF W, q
  <2>2. Put(W \o ((lead \o d) \o rest), (Len(W) + 10 + q) + 1, e) = W \o ((lead \o d) \o Put(rest, q + 1, e))
    <3>1. W \in Seq(Byte) /\ lead \in Seq(Byte) /\ Len(lead) = 5 /\ d \in Seq(Byte) /\ Len(d) = 5
          /\ rest \in Seq(Byte) /\ q \in Nat /\ e \in Seq(Byte)
      BY <1>5, <1>8, <1>11, <2>1
    <3>2. AppendsEnd(W, lead, d, rest, q, e)
      BY ONLY <3>1, EndsAddressed
    <3> QED BY <3>2 DEF AppendsEnd
  <2>3. used + 1 = (Len(W) + 10 + q) + 1
    BY <1>5, <1>11 DEF q
  <2> QED BY <1>10, <1>17, <2>2, <2>3 DEF W, q
<1>14. CASE ~req.sse
  <2>1. at.mode = PlaceOf(req, 7)
    BY <1>2, <1>14, ValuePlaces DEF Pointers
  <2>2. Fields[7].room = 3 /\ 7 \in 1..7
    BY Rooms
  <2>3. T \in Seq(Byte)
    BY <1>9, <1>12
  <2> HIDE DEF T
  <2>4. OverwrittenAt(req, h, w, c, T, 7, mode)
    <3>1. req \in RequestRecord /\ h \in Seq(Byte) /\ Len(h) = 5 /\ w \in Values /\ c \in Seq(Seq(Byte))
          /\ T \in Seq(Byte) /\ 7 \in 1..7 /\ mode \in Seq(Byte) /\ Len(mode) <= Fields[7].room
      BY <1>2, <1>6, <1>7, <1>8, <1>11, <2>2, <2>3
    <3> QED BY ONLY <3>1, FieldOverwritten
  <2>5. PICK m : Overwrites(w, m, 7, mode) /\ Put(W \o T, at.mode, mode) = Core(req, h, m, c) \o T
    BY <2>1, <2>4 DEF OverwrittenAt
  <2>6. m \in Values /\ m[7] = mode /\ \A j \in 1..6 : m[j] = w[j]
    <3>1. m \in Values /\ (Len(mode) = Fields[7].room => m[7] = mode) /\ \A j \in 1..7 : j # 7 => m[j] = w[j]
      BY <2>5 DEF Overwrites
    <3>2. \A j \in 1..6 : j \in 1..7 /\ j # 7
      OBVIOUS
    <3> QED BY <1>8, <2>2, <3>1, <3>2
  <2>7. buf' = Core(req, h, m, c) \o ((lead \o d) \o r2)
    BY <1>1, <1>13, <2>5 DEF T
  <2>8. (Held(m, lead, r2) /\ Meant(m))'
    <3>1. m[7] = Text(Link[server], 0, 3)
      BY <2>6 DEF mode
    <3>2. buf' = Core(req, SizedHead, m, ContentTexts(req, long)) \o ((lead \o Block("data", <<>>)) \o r2)
      BY <2>7 DEF h, c, d
    <3>3. r2 = Put(rest, 5 * executed + 1, EndOfData)
      BY <1>17 DEF e
    <3>4. MemoryInv /\ Execute /\ Plain /\ Held(v, lead, rest) /\ AddressedAs(v, w)
          /\ m \in Values /\ lead \in Seq(Byte) /\ Len(lead) = 5 /\ lead[5].of = "eod"
          /\ \A j \in 1..6 : m[j] = w[j]
      BY <1>3, <1>4, <1>5, <1>10, <2>6
    <3>5. (req.sse => m[7] = FirstValue(7)) /\ (~req.sse => m[7] = Text(Link[server], 0, 3))
      BY <1>14, <3>1
    <3>6. ExecutedAs(v, lead, rest, w, m, lead, r2)
      BY ONLY <3>2, <3>3, <3>4, <3>5 DEF ExecutedAs
    <3> QED BY ONLY <3>4, <3>6, EndWrittenHeld
  <2> QED BY <1>1, <2>8 DEF ContentInv, After
<1>15. CASE req.sse
  <2>1. c = <<>> /\ ~req.websocket
    BY <1>2, <1>3, <1>15 DEF Plain, ContentTexts, c
  <2>2. Size = Len(Packed(req))
    BY <1>2, <1>6, <2>1, PackedCore
  <2>3. at.mode = Size + 1
    <3>1. at.mode = Len(Opened(req)) + Len(FlattenSeq(FieldBlocks \o SseBlocks(req))) + 1
      BY <1>2, <1>15 DEF Pointers
    <3>2. Len(Packed(req)) = Len(Opened(req)) + Len(FlattenSeq(FieldBlocks \o SseBlocks(req)))
      BY <1>2, <2>1, PackedType
    <3> QED BY <2>2, <3>1, <3>2
  <2>8. PICK l2 : l2 = Put(lead, 1, mode)
    OBVIOUS
  <2>4. Put(W \o T, Len(W) + 1, mode) = W \o ((l2 \o d) \o r2)
        /\ l2 \in Seq(Byte) /\ Len(l2) = 5 /\ l2[5] = lead[5]
    <3> HIDE DEF W
    <3>1. W \in Seq(Byte) /\ lead \in Seq(Byte) /\ Len(lead) = 5 /\ d \in Seq(Byte)
          /\ r2 \in Seq(Byte) /\ mode \in Seq(Byte) /\ Len(mode) = 3
      BY <1>5, <1>8, <1>11, <1>12
    <3>2. WritesLead(W, lead, d, r2, mode)
      BY ONLY <3>1, ModeAddressed
    <3> QED BY <2>8, <3>2 DEF WritesLead
  <2> HIDE DEF T
  <2>5. buf' = W \o ((l2 \o d) \o r2)
    BY <1>1, <1>11, <1>13, <2>3, <2>4
  <2>6. w[7] = FirstValue(7)
    BY <1>4, <1>10, <1>15 DEF Held, AddressedAs
  <2>7. (Held(w, l2, r2) /\ Meant(w))'
    <3>2. buf' = Core(req, SizedHead, w, ContentTexts(req, long)) \o ((l2 \o Block("data", <<>>)) \o r2)
      BY <2>5 DEF h, c, d
    <3>3. r2 = Put(rest, 5 * executed + 1, EndOfData)
      BY <1>17 DEF e
    <3>4. MemoryInv /\ Execute /\ Plain /\ Held(v, lead, rest) /\ AddressedAs(v, w)
          /\ w \in Values /\ l2 \in Seq(Byte) /\ Len(l2) = 5 /\ l2[5].of = "eod"
          /\ \A j \in 1..6 : w[j] = w[j]
      BY <1>3, <1>4, <1>5, <1>10, <1>11, <2>4
    <3>5. (req.sse => w[7] = FirstValue(7)) /\ (~req.sse => w[7] = Text(Link[server], 0, 3))
      BY <1>15, <2>6
    <3>6. ExecutedAs(v, lead, rest, w, w, l2, r2)
      BY ONLY <3>2, <3>3, <3>4, <3>5 DEF ExecutedAs
    <3> QED BY ONLY <3>4, <3>6, EndWrittenHeld
  <2> QED BY <1>1, <2>7 DEF ContentInv, After
<1>16. req.sse \in BOOLEAN
  BY <1>2 DEF RequestRecord
<1> QED BY <1>14, <1>15, <1>16

\* An attempt that ends before its request is sent leaves the buffer as it was.
LEMMA TriedContent ==
    ASSUME MemoryInv, ContentInv, ServersTried, pc' # "sent"
    PROVE  ContentInv'
<1> SUFFICES ASSUME Plain' PROVE ContentInv'
  BY DEF ContentInv
<1>1. /\ req' = req /\ buf' = buf /\ used' = used /\ long' = long /\ content' = content /\ executed' = executed
      /\ pc \in After /\ pc' \in After
  BY DEF ServersTried, memory, large
<1>2. Plain
  BY <1>1 DEF Plain
<1>3. PICK v, lead, rest : Held(v, lead, rest)
  BY <1>1, <1>2 DEF ContentInv
<1>4. Size' = Size /\ SizedHead' = SizedHead
  BY <1>1 DEF Size, SizedHead
<1>5. Held(v, lead, rest)'
  BY <1>1, <1>3, <1>4 DEF Held
<1>6. pc' \notin {"pack", "content"} /\ pc' # "close"
  BY <1>1 DEF After
<1> QED BY <1>5, <1>6 DEF ContentInv

\* The buffer holds what it should in every state.
LEMMA ContentInvariant == Spec => [](MemoryInv /\ ContentInv)
<1>1. Init => ContentInv
  <2> SUFFICES ASSUME Init PROVE ContentInv
    OBVIOUS
  <2>1. pc = "pack" /\ ~long
    BY DEF Init
  <2> QED BY <2>1 DEF ContentInv, After
<1>2. MemoryInv /\ ContentInv /\ [Next]_vars => ContentInv'
  <2> SUFFICES ASSUME MemoryInv, ContentInv, [Next]_vars PROVE ContentInv'
    OBVIOUS
  <2>1. CASE Pack
    BY <2>1, PackContent
  <2>2. CASE NoContent \/ InlineContent \/ LongContent \/ ChunkedContent
    BY <2>2, ContentStep
  <2>3. CASE CloseBlocks
    BY <2>3, CloseContent
  <2>4. CASE Execute
    BY <2>4, ExecuteContent
  <2>5. CASE (\E s \in Servers : Obtain(s) \/ ObtainFails(s)) \/ Delivered \/ SendFails
    <3>1. pc' # "sent"
      BY <2>5 DEF Obtain, ObtainFails, Delivered, SendFails, FailOver, GiveUp
    <3> QED BY <2>5, <3>1, TryServer, TriedContent
  <2>6. CASE UNCHANGED vars
    <3>1. /\ req' = req /\ buf' = buf /\ used' = used /\ long' = long /\ content' = content /\ executed' = executed
          /\ pc' = pc /\ server' = server
      BY <2>6 DEF vars, memory, large, attempt
    <3>2. Size' = Size /\ SizedHead' = SizedHead /\ (Plain' <=> Plain)
      BY <3>1 DEF Size, SizedHead, Plain
    <3>3. ContentHeld' <=> ContentHeld
      BY <3>1, <3>2 DEF ContentHeld
    <3>4. ASSUME NEW v, NEW lead, NEW rest PROVE Held(v, lead, rest) => Held(v, lead, rest)'
      BY <3>1, <3>2 DEF Held
    <3>5. ASSUME NEW v PROVE Meant(v) => Meant(v)'
      BY <3>1 DEF Meant
    <3>6. ASSUME \E v, lead, rest : Held(v, lead, rest) /\ (pc = "sent" => Meant(v))
          PROVE  (\E v, lead, rest : Held(v, lead, rest) /\ (pc = "sent" => Meant(v)))'
      <4>1. PICK v, lead, rest : Held(v, lead, rest) /\ (pc = "sent" => Meant(v))
        BY <3>6
      <4>2. Held(v, lead, rest)' /\ (pc' = "sent" => Meant(v)')
        BY <3>1, <3>4, <3>5, <4>1
      <4> QED BY <4>2
    <3> QED BY <3>1, <3>2, <3>3, <3>6 DEF ContentInv
  <2> QED BY <2>1, <2>2, <2>3, <2>4, <2>5, <2>6 DEF Next
<1>3. Init => MemoryInv
  BY InitMemory
<1>4. Spec => []MemoryInv
  BY MemoryInvariant
<1> QED BY <1>1, <1>2, <1>4, PTL DEF Spec

---------------------------------------------------------------------------
(* What the DB Server reads there *)

LEMMA OneRecord ==
    ASSUME NEW sort \in Sorts \ {"eod"}, NEW text \in Seq(Byte)
    PROVE  /\ << [sort |-> sort, text |-> text] >> \in Seq(BlockRecord)
           /\ Flat(<< [sort |-> sort, text |-> text] >>) = Block(sort, text)
<1> DEFINE b == [sort |-> sort, text |-> text]
           rs == Records(sort, << text >>)
<1>1. b \in BlockRecord
  BY DEF BlockRecord
<1>2. Flat(rs) = Block(sort, text)
  BY FlatOne
<1>3. rs = << b >>
  BY DEF Records
<1> HIDE DEF b, rs
<1>4. << b >> \in Seq(BlockRecord)
  BY <1>1
<1> QED BY <1>2, <1>3, <1>4 DEF b

\* The four parts of a request.
FourParts(routine, inner) ==
    << [sort |-> "data", text |-> routine], [sort |-> "data", text |-> <<>>],
       [sort |-> "data", text |-> inner], [sort |-> "data", text |-> <<>>] >>

\* A request is four blocks: the routine, nothing, what is in the head's block, nothing.
LEMMA FourPartsFlat ==
    ASSUME NEW routine \in Seq(Byte), NEW inner \in Seq(Byte)
    PROVE  /\ FourParts(routine, inner) \in Seq(BlockRecord)
           /\ Flat(FourParts(routine, inner))
                 = ((Block("data", routine) \o Block("data", <<>>)) \o Block("data", inner)) \o Block("data", <<>>)
<1> DEFINE p == [sort |-> "data", text |-> routine]
           q == [sort |-> "data", text |-> <<>>]
           r == [sort |-> "data", text |-> inner]
           pq == << p >> \o << q >>
           pqr == pq \o << r >>
           all == pqr \o << q >>
<1>1. "data" \in Sorts \ {"eod"} /\ <<>> \in Seq(Byte)
  BY EmptySeq DEF Sorts
<1>2. /\ << p >> \in Seq(BlockRecord) /\ Flat(<< p >>) = Block("data", routine)
      /\ << q >> \in Seq(BlockRecord) /\ Flat(<< q >>) = Block("data", <<>>)
      /\ << r >> \in Seq(BlockRecord) /\ Flat(<< r >>) = Block("data", inner)
  BY <1>1, OneRecord
<1>3. FourParts(routine, inner) = << p, q, r, q >>
  BY DEF FourParts
<1> HIDE DEF p, q, r
<1>4. << p, q, r, q >> = all
  <2>1. /\ << p, q >> = Append(<< p >>, q) /\ << p, q, r >> = Append(<< p, q >>, r)
        /\ << p, q, r, q >> = Append(<< p, q, r >>, q)
    OBVIOUS
  <2>2. /\ p \in BlockRecord /\ q \in BlockRecord /\ r \in BlockRecord
    BY <1>2
  <2>3. \A s \in Seq(BlockRecord), b \in BlockRecord : Append(s, b) = s \o << b >> /\ Append(s, b) \in Seq(BlockRecord)
    BY AppendIsConcat, AppendProperties
  <2>4. pq = << p, q >> /\ pq \in Seq(BlockRecord)
    BY <1>2, <2>1, <2>2, <2>3
  <2> HIDE DEF pq
  <2>5. pqr = << p, q, r >> /\ pqr \in Seq(BlockRecord)
    BY <2>1, <2>2, <2>3, <2>4
  <2> HIDE DEF pqr
  <2> QED BY <2>1, <2>2, <2>3, <2>5
<1>5. pq \in Seq(BlockRecord) /\ Flat(pq) = Flat(<< p >>) \o Flat(<< q >>)
  BY <1>2, FlatConcat
<1> HIDE DEF pq
<1>6. pqr \in Seq(BlockRecord) /\ Flat(pqr) = Flat(pq) \o Flat(<< r >>)
  BY <1>2, <1>5, FlatConcat
<1> HIDE DEF pqr
<1>7. all \in Seq(BlockRecord) /\ Flat(all) = Flat(pqr) \o Flat(<< q >>)
  BY <1>2, <1>6, FlatConcat
<1> HIDE DEF all
<1> QED BY <1>2, <1>3, <1>4, <1>5, <1>6, <1>7

\* The blocks in the third part.
Contents(r, v, c) ==
    (((Records("cgi", VariableTexts(r)) \o Records("sys", FieldTexts(v))) \o Records("sys", SseTexts(r)))
        \o Records("sys", WebSocketTexts(r))) \o Records("content", c)

\* What is in the head's block, as blocks.
LEMMA ContentsFlat ==
    ASSUME NEW r \in RequestRecord, NEW v \in Values, NEW c \in Seq(Seq(Byte))
    PROVE  /\ Contents(r, v, c) \in Seq(BlockRecord)
           /\ Flat(Contents(r, v, c)) = (Flat(Records("cgi", VariableTexts(r))) \o FieldPart(v)) \o Ending(r, c)
<1> DEFINE x == Records("cgi", VariableTexts(r))
           f == Records("sys", FieldTexts(v))
           s == Records("sys", SseTexts(r))
           w == Records("sys", WebSocketTexts(r))
           k == Records("content", c)
           xf == x \o f
           xfs == xf \o s
           xfsw == xfs \o w
           all == xfsw \o k
<1>1. "cgi" \in Sorts \ {"eod"} /\ "sys" \in Sorts \ {"eod"} /\ "content" \in Sorts \ {"eod"}
  BY DEF Sorts
<1>2. x \in Seq(BlockRecord) /\ s \in Seq(BlockRecord) /\ w \in Seq(BlockRecord)
  BY <1>1, TextsType, RecordsType
<1>3. f \in Seq(BlockRecord) /\ k \in Seq(BlockRecord)
  BY <1>1, FieldTextsType, RecordsType
<1>4. Contents(r, v, c) = all
  BY DEF Contents
<1>5. (Flat(x) \o FieldPart(v)) \o Ending(r, c) = (Flat(x) \o Flat(f)) \o ((Flat(s) \o Flat(w)) \o Flat(k))
  BY DEF FieldPart, Ending, Extras
<1> HIDE DEF x, f, s, w, k
<1>6. xf \in Seq(BlockRecord) /\ Flat(xf) = Flat(x) \o Flat(f)
  BY <1>2, <1>3, FlatConcat
<1> HIDE DEF xf
<1>7. xfs \in Seq(BlockRecord) /\ Flat(xfs) = Flat(xf) \o Flat(s)
  BY <1>2, <1>6, FlatConcat
<1> HIDE DEF xfs
<1>8. xfsw \in Seq(BlockRecord) /\ Flat(xfsw) = Flat(xfs) \o Flat(w)
  BY <1>2, <1>7, FlatConcat
<1> HIDE DEF xfsw
<1>9. all \in Seq(BlockRecord) /\ Flat(all) = Flat(xfsw) \o Flat(k)
  BY <1>3, <1>8, FlatConcat
<1> HIDE DEF all
<1>10. Associates(Flat(xf), Flat(s) \o Flat(w), Flat(k)) /\ Associates(Flat(xf), Flat(s), Flat(w))
  <2> DEFINE fs == Flat(s)
             fw == Flat(w)
             fsw == fs \o fw
  <2>1. Flat(xf) \in Seq(Byte) /\ fs \in Seq(Byte) /\ fw \in Seq(Byte) /\ Flat(k) \in Seq(Byte)
    BY <1>2, <1>3, <1>6, FlatType
  <2> HIDE DEF fs, fw
  <2>2. fsw \in Seq(Byte)
    BY <2>1, ConcatProperties
  <2> HIDE DEF fsw
  <2>3. Associates(Flat(xf), fsw, Flat(k)) /\ Associates(Flat(xf), fs, fw)
    BY <2>1, <2>2, Associative
  <2> QED BY <2>3 DEF fsw, fs, fw
<1>11. Flat(all) = Flat(xf) \o ((Flat(s) \o Flat(w)) \o Flat(k))
  BY <1>7, <1>8, <1>9, <1>10 DEF Associates
<1> QED BY <1>4, <1>5, <1>6, <1>9, <1>11 DEF x

Understands(bs) == [k \in DOMAIN bs |-> Understood(bs[k])]
UnderstoodBlocks == {Understood(b) : b \in BlockRecord}

LEMMA UnderstandsType ==
    ASSUME NEW bs \in Seq(BlockRecord)
    PROVE  /\ Understands(bs) \in Seq(UnderstoodBlocks) /\ Len(Understands(bs)) = Len(bs)
           /\ \A k \in 1..Len(bs) : Understands(bs)[k] = Understood(bs[k])
<1> DEFINE n == Len(bs)
           a == [k \in 1..n |-> Understood(bs[k])]
<1>1. DOMAIN bs = 1..n /\ n \in Nat /\ \A k \in 1..n : bs[k] \in BlockRecord
  BY LenProperties, ElementOfSeq
<1>2. \A k \in 1..n : Understood(bs[k]) \in UnderstoodBlocks
  BY <1>1 DEF UnderstoodBlocks
<1> HIDE DEF n
<1>3. a \in Seq(UnderstoodBlocks) /\ Len(a) = n
  BY <1>1, <1>2, IsASeq
<1>4. Understands(bs) = a
  BY <1>1 DEF Understands
<1> QED BY <1>3, <1>4 DEF n

\* Two lists of blocks are understood one after the other.
LEMMA UnderstandsConcat ==
    ASSUME NEW bs \in Seq(BlockRecord), NEW cs \in Seq(BlockRecord)
    PROVE  Understands(bs \o cs) = Understands(bs) \o Understands(cs)
<1> DEFINE m == Len(bs)
           n == Len(cs)
           bc == bs \o cs
           a == Understands(bc)
           u == Understands(bs)
           w == Understands(cs)
           uw == u \o w
<1>1. /\ bc \in Seq(BlockRecord) /\ Len(bc) = m + n /\ m \in Nat /\ n \in Nat
      /\ \A i \in 1..m : bc[i] = bs[i]
      /\ \A i \in 1..n : bc[m + i] = cs[i]
  BY Joined
<1>2. /\ u \in Seq(UnderstoodBlocks) /\ Len(u) = m /\ \A k \in 1..m : u[k] = Understood(bs[k])
  BY UnderstandsType
<1>3. /\ w \in Seq(UnderstoodBlocks) /\ Len(w) = n /\ \A k \in 1..n : w[k] = Understood(cs[k])
  BY UnderstandsType
<1> HIDE DEF bc
<1>4. /\ a \in Seq(UnderstoodBlocks) /\ Len(a) = m + n /\ \A k \in 1..(m + n) : a[k] = Understood(bc[k])
  BY <1>1, UnderstandsType
<1> HIDE DEF a, u, w
<1>5. /\ uw \in Seq(UnderstoodBlocks) /\ Len(uw) = Len(u) + Len(w)
      /\ \A i \in 1..Len(u) : uw[i] = u[i]
      /\ \A i \in 1..Len(w) : uw[Len(u) + i] = w[i]
  <2>1. u \in Seq(UnderstoodBlocks) /\ w \in Seq(UnderstoodBlocks)
    BY <1>2, <1>3
  <2> QED BY ONLY <2>1, Joined
<1> HIDE DEF uw, m, n
<1>6. ASSUME NEW k \in 1..(m + n) PROVE a[k] = uw[k]
  <2>1. CASE k <= m
    <3>1. k \in 1..m
      BY <1>1, <2>1
    <3> QED BY <1>1, <1>2, <1>4, <1>5, <3>1
  <2>2. CASE ~(k <= m)
    <3> DEFINE i == k - m
    <3>1. i \in 1..n /\ k = m + i
      BY <1>1, <2>2
    <3> HIDE DEF i
    <3>2. a[k] = Understood(cs[i]) /\ uw[k] = w[i]
      BY <1>1, <1>2, <1>3, <1>4, <1>5, <3>1
    <3> QED BY <1>3, <3>1, <3>2
  <2> QED BY <2>1, <2>2
<1>7. a = uw
  BY <1>2, <1>3, <1>4, <1>5, <1>6, SeqEqual
<1> QED BY <1>7 DEF a, bc, uw, u, w

\* A block that does not begin as the one with the name of the server is taken as it is.
LEMMA UnderstoodAsIs ==
    ASSUME NEW sort \in Sorts \ {"eod"}, NEW texts \in Seq(Seq(Byte)),
           \A k \in 1..Len(texts) : texts[k] # <<>> => texts[k][1].of # "server"
    PROVE  Understands(Records(sort, texts)) = Records(sort, texts)
<1> DEFINE bs == Records(sort, texts)
           a == Understands(bs)
           n == Len(texts)
<1>1. bs \in Seq(BlockRecord) /\ Len(bs) = n /\ \A k \in 1..n : bs[k] = [sort |-> sort, text |-> texts[k]]
  BY RecordsType
<1>2. DOMAIN bs = 1..n
  BY <1>1, LenProperties
<1> HIDE DEF bs, n
<1>3. \A k \in 1..n : Understood(bs[k]) = bs[k]
  <2> TAKE k \in 1..n
  <2>1. bs[k].text = texts[k]
    BY <1>1
  <2>2. ~(bs[k].text # <<>> /\ bs[k].text[1].of = "server")
    BY <2>1 DEF n
  <2> QED BY <2>2 DEF Understood
<1>4. a = [k \in 1..n |-> bs[k]]
  BY <1>2, <1>3 DEF Understands
<1>5. bs = [k \in 1..n |-> bs[k]]
  <2>1. bs = [k \in DOMAIN bs |-> bs[k]]
    BY <1>1
  <2> QED BY <1>2, <2>1
<1> QED BY <1>4, <1>5 DEF bs

\* None of these texts does.
LEMMA OtherTexts ==
    ASSUME NEW r \in RequestRecord, NEW lg
    PROVE  /\ Understands(Records("cgi", VariableTexts(r))) = Records("cgi", VariableTexts(r))
           /\ Understands(Records("sys", SseTexts(r))) = Records("sys", SseTexts(r))
           /\ Understands(Records("sys", WebSocketTexts(r))) = Records("sys", WebSocketTexts(r))
           /\ Understands(Records("content", ContentTexts(r, lg))) = Records("content", ContentTexts(r, lg))
<1>1. ASSUME NEW of, NEW n, NEW len \in Nat, Text(of, n, len) # <<>> PROVE Text(of, n, len)[1].of = of
  <2>1. len # 0
    <3> SUFFICES ASSUME len = 0 PROVE FALSE
      OBVIOUS
    <3> QED BY <1>1 DEF Text
  <2>2. 1 \in 1..len
    BY <2>1
  <2> QED BY <2>2 DEF Text
<1>2. "cgi" \in Sorts \ {"eod"} /\ "sys" \in Sorts \ {"eod"} /\ "content" \in Sorts \ {"eod"}
  BY DEF Sorts
<1>3. /\ VariableTexts(r) \in Seq(Seq(Byte)) /\ SseTexts(r) \in Seq(Seq(Byte))
      /\ WebSocketTexts(r) \in Seq(Seq(Byte)) /\ ContentTexts(r, lg) \in Seq(Seq(Byte))
  BY TextsType, ContentTextsType
<1>4. r.variables \in Seq(Nat) /\ r.len \in Nat
  BY DEF RequestRecord
<1>5. Understands(Records("cgi", VariableTexts(r))) = Records("cgi", VariableTexts(r))
  <2> DEFINE ts == VariableTexts(r)
             n == Len(r.variables)
  <2>1. n \in Nat /\ DOMAIN r.variables = 1..n /\ \A k \in 1..n : r.variables[k] \in Nat
    BY <1>4, LenProperties, ElementOfSeq
  <2>2. ts = [k \in 1..n |-> Text("variable", k, r.variables[k])]
    BY <2>1 DEF VariableTexts, Variable
  <2>3. Len(ts) = n
    <3>1. DOMAIN ts = 1..n
      BY <2>2
    <3> QED BY <1>3, <2>1, <3>1, LenProperties
  <2>4. \A k \in 1..Len(ts) : ts[k] # <<>> => ts[k][1].of # "server"
    <3> TAKE k \in 1..Len(ts)
    <3> HIDE DEF n
    <3>1. ts[k] = Text("variable", k, r.variables[k]) /\ r.variables[k] \in Nat
      BY <2>1, <2>2, <2>3
    <3> QED BY <1>1, <3>1
  <2> HIDE DEF ts
  <2> QED BY <1>2, <1>3, <2>4, UnderstoodAsIs DEF ts
<1>6. Understands(Records("sys", SseTexts(r))) = Records("sys", SseTexts(r))
  <2> DEFINE ts == SseTexts(r)
  <2>1. Sse[1].of # "server"
    BY DEF Sse, Text
  <2>2. ts = << Sse >> \/ ts = <<>>
    BY DEF SseTexts
  <2>3. \A k \in 1..Len(ts) : ts[k] # <<>> => ts[k][1].of # "server"
    BY <2>1, <2>2
  <2> HIDE DEF ts
  <2> QED BY <1>2, <1>3, <2>3, UnderstoodAsIs DEF ts
<1>7. Understands(Records("sys", WebSocketTexts(r))) = Records("sys", WebSocketTexts(r))
  <2> DEFINE ts == WebSocketTexts(r)
             t == Text("ws", 0, 4)
             f == Text("wsfunction", 0, 12)
  <2>1. t[1].of # "server" /\ f[1].of # "server"
    BY DEF Text
  <2>2. ts = << t, f >> \/ ts = <<>>
    BY DEF WebSocketTexts, WebSocket
  <2> HIDE DEF t, f
  <2>3. \A k \in 1..Len(ts) : ts[k] # <<>> => ts[k][1].of # "server"
    BY <2>1, <2>2
  <2> HIDE DEF ts
  <2> QED BY <1>2, <1>3, <2>3, UnderstoodAsIs DEF ts
<1>8. Understands(Records("content", ContentTexts(r, lg))) = Records("content", ContentTexts(r, lg))
  <2> DEFINE ts == ContentTexts(r, lg)
             p == Payload(r.len)
  <2>1. p # <<>> => p[1].of # "server"
    BY <1>1, <1>4 DEF Payload
  <2>2. ts = << p >> \/ ts = <<>>
    BY DEF ContentTexts
  <2> HIDE DEF p
  <2>3. \A k \in 1..Len(ts) : ts[k] # <<>> => ts[k][1].of # "server"
    BY <2>1, <2>2
  <2> HIDE DEF ts
  <2> QED BY <1>2, <1>3, <2>3, UnderstoodAsIs DEF ts
<1> QED BY <1>5, <1>6, <1>7, <1>8

\* The name of a server ends at its NUL, whatever an earlier one has left after it.
LEMMA NameUnderstood ==
    ASSUME NEW s \in Servers, NEW x \in Seq(Byte), Len(x) = 32,
           \A i \in 1..(NameLength[s] + 1) : x[i] = NameOf(s)[i]
    PROVE  Understood([sort |-> "sys", text |-> Assigned(1, x)])
              = [sort |-> "sys", text |-> Assigned(1, Text("name", s, NameLength[s]))]
<1> DEFINE n == NameLength[s]
           t == Text("server", 0, 7)
           p == Text("name", s, n)
           b == t \o x
           c == t \o p
           ends == {i \in DOMAIN b : b[i] = Nul}
           m == 7 + n
           a == SubSeq(b, 1, m)
           block == [sort |-> "sys", text |-> b]
<1>1. n \in 1..31 /\ n \in Nat /\ s \in Nat
  <2>1. Servers \subseteq Nat /\ NameLength \in [Servers -> 1..31]
    BY RequestBufferAssumption
  <2>2. n \in 1..31
    BY <2>1
  <2>3. \A k \in 1..31 : k \in Nat
    OBVIOUS
  <2> QED BY <2>1, <2>2, <2>3
<1>2. t \in Seq(Byte) /\ Len(t) = 7 /\ p \in Seq(Byte) /\ Len(p) = n
  <2>1. "server" \in Parts /\ "name" \in Parts /\ 0 \in Nat /\ 7 \in Nat
    BY DEF Parts
  <2>2. t \in Seq(Byte) /\ Len(t) = 7
    BY <2>1, TextType
  <2>3. p \in Seq(Byte) /\ Len(p) = n
    <3> HIDE DEF n
    <3> QED BY <1>1, <2>1, TextType
  <2> QED BY <2>2, <2>3
<1>3. (\A i \in 1..7 : t[i].of = "server") /\ (\A i \in 1..n : p[i].of = "name")
  BY DEF Text
<1>4. Assigned(1, x) = b /\ Assigned(1, p) = c
  BY DEF Assigned, Fields
<1>5. (\A i \in 1..n : x[i] = p[i]) /\ x[n + 1] = Nul
  <2>1. NameOf(s) = p \o << Nul >>
    BY DEF NameOf
  <2>2. << Nul >> \in Seq(Byte) /\ Len(<< Nul >>) = 1 /\ << Nul >>[1] = Nul
    BY NulType
  <2> DEFINE e == << Nul >>
             pe == p \o e
  <2> HIDE DEF p, e, n
  <2>3. /\ \A i \in 1..Len(p) : pe[i] = p[i]
        /\ \A i \in 1..Len(e) : pe[Len(p) + i] = e[i]
    <3>1. p \in Seq(Byte) /\ e \in Seq(Byte)
      BY <1>2, <2>2 DEF e
    <3> QED BY ONLY <3>1, Joined
  <2>4. NameOf(s) = pe /\ Len(p) = n /\ Len(e) = 1 /\ e[1] = Nul
    BY <1>2, <2>1, <2>2 DEF p, e, n
  <2>5. pe[n + 1] = Nul
    <3>1. 1 \in 1..Len(e)
      BY <2>4
    <3> QED BY <2>3, <2>4, <3>1
  <2>6. \A i \in 1..(n + 1) : x[i] = pe[i]
    BY <2>4 DEF n
  <2>7. n + 1 \in 1..(n + 1) /\ \A i \in 1..n : i \in 1..(n + 1)
    BY <1>1
  <2> QED BY <2>3, <2>4, <2>5, <2>6, <2>7
<1> HIDE DEF n, t, p
<1>6. /\ b \in Seq(Byte) /\ Len(b) = 39
      /\ \A i \in 1..7 : b[i] = t[i]
      /\ \A i \in 1..32 : b[7 + i] = x[i]
  <2>1. t \in Seq(Byte) /\ x \in Seq(Byte)
    BY <1>2
  <2>2. /\ b \in Seq(Byte) /\ Len(b) = Len(t) + Len(x)
        /\ \A i \in 1..Len(t) : b[i] = t[i]
        /\ \A i \in 1..Len(x) : b[Len(t) + i] = x[i]
    BY ONLY <2>1, Joined
  <2> HIDE DEF b
  <2> QED BY <1>2, <2>2
<1>7. /\ c \in Seq(Byte) /\ Len(c) = m
      /\ \A i \in 1..7 : c[i] = t[i]
      /\ \A i \in 1..n : c[7 + i] = p[i]
  <2>1. t \in Seq(Byte) /\ p \in Seq(Byte)
    BY <1>2
  <2>2. /\ c \in Seq(Byte) /\ Len(c) = Len(t) + Len(p)
        /\ \A i \in 1..Len(t) : c[i] = t[i]
        /\ \A i \in 1..Len(p) : c[Len(t) + i] = p[i]
    BY ONLY <2>1, Joined
  <2> QED BY <1>2, <2>2
<1> HIDE DEF b, c
<1>8. DOMAIN b = 1..39
  BY <1>6, LenProperties
<1>9. ASSUME NEW i \in 1..m PROVE b[i] = c[i] /\ b[i] # Nul
  <2>1. CASE i <= 7
    <3>1. i \in 1..7
      BY <1>1, <2>1 DEF m
    <3>2. b[i] = t[i] /\ c[i] = t[i]
      BY <1>6, <1>7, <3>1
    <3>3. t[i].of = "server"
      BY <1>3, <3>1 DEF t
    <3> QED BY <3>2, <3>3 DEF Nul
  <2>2. CASE ~(i <= 7)
    <3> DEFINE j == i - 7
    <3>1. j \in 1..n /\ j \in 1..32 /\ i = 7 + j
      BY <1>1, <2>2
    <3> HIDE DEF j
    <3>2. b[i] = x[j] /\ c[i] = p[j] /\ x[j] = p[j] /\ p[j].of = "name"
      BY <1>3, <1>5, <1>6, <1>7, <3>1
    <3> QED BY <3>2 DEF Nul
  <2> QED BY <2>1, <2>2
<1>10. b[m + 1] = Nul /\ m + 1 \in 1..39 /\ m \in Nat
  <2>1. n + 1 \in 1..32 /\ m + 1 = 7 + (n + 1)
    BY <1>1
  <2>2. b[7 + (n + 1)] = x[n + 1]
    BY <1>6, <2>1
  <2> QED BY <1>1, <1>5, <2>1, <2>2
<1> HIDE DEF m
<1>11. m + 1 \in ends /\ \A i \in ends : m + 1 <= i
  <2>1. m + 1 \in ends
    BY <1>8, <1>10
  <2>2. ASSUME NEW i \in ends PROVE m + 1 <= i
    <3>1. i \in 1..39 /\ b[i] = Nul
      BY <1>8
    <3>2. i \notin 1..m
      BY <1>9, <3>1
    <3> QED BY <1>10, <3>1, <3>2
  <2> QED BY <2>1, <2>2
<1>12. ends # {} /\ Min(ends) = m + 1
  <2>1. ASSUME NEW i \in ends PROVE i \in Nat
    <3>1. i \in 1..39
      BY <1>8
    <3> QED BY ONLY <3>1
  <2> HIDE DEF ends
  <2>2. Min(ends) \in ends /\ \A y \in ends : Min(ends) <= y
    BY <1>11 DEF Min
  <2>3. Min(ends) <= m + 1 /\ m + 1 <= Min(ends) /\ Min(ends) \in Nat /\ m + 1 \in Nat
    BY <1>11, <2>1, <2>2
  <2> QED BY <1>11, <2>3
<1>13. a = c
  <2>1. \A i \in 1..m : b[i] \in Byte
    <3>1. \A i \in 1..m : i \in 1..39
      BY <1>10
    <3> QED BY <1>6, <1>8, <3>1, ElementOfSeq
  <2>2. 1 \in Int /\ m \in Int
    BY <1>10
  <2>3. a \in Seq(Byte) /\ Len(a) = (IF 1 <= m THEN m - 1 + 1 ELSE 0) /\ \A i \in 1..(m - 1 + 1) : a[i] = b[1 + i - 1]
    BY ONLY <2>1, <2>2, SubSeqProperties
  <2> HIDE DEF a
  <2>4. Len(a) = m /\ \A i \in 1..m : a[i] = b[i]
    <3>1. m - 1 + 1 = m /\ (1 <= m \/ m = 0)
      BY <1>10
    <3>2. \A i \in 1..m : 1 + i - 1 = i
      OBVIOUS
    <3> QED BY <2>3, <3>1, <3>2
  <2> QED BY <1>7, <1>9, <2>3, <2>4, SeqEqual
<1>14. b # <<>> /\ b[1].of = "server"
  <2>2. 1 \in 1..7
    OBVIOUS
  <2>3. b # <<>>
    <3>1. Len(b) = 39 /\ b \in Seq(Byte)
      BY <1>6
    <3>2. b = <<>> => Len(b) = 0
      BY EmptySeq
    <3> QED BY <3>1, <3>2
  <2>4. b[1] = t[1] /\ t[1].of = "server"
    BY <1>3, <1>6, <2>2
  <2> QED BY <2>3, <2>4
<1>15. Understood(block) = [block EXCEPT !.text = a]
  <2>1. block.text = b
    OBVIOUS
  <2>2. m + 1 - 1 = m
    BY <1>10
  <2>3. block.text # <<>> /\ block.text[1].of = "server"
    BY <1>14, <2>1
  <2> DEFINE e == {i \in DOMAIN block.text : block.text[i] = Nul}
  <2>4. e = ends
    BY <2>1
  <2> HIDE DEF block
  <2>5. Understood(block) = [block EXCEPT !.text = IF e = {} THEN @ ELSE SubSeq(@, 1, Min(e) - 1)]
    BY <2>3 DEF Understood
  <2> HIDE DEF e
  <2>6. Understood(block) = [block EXCEPT !.text = SubSeq(block.text, 1, Min(e) - 1)]
    BY <1>12, <2>4, <2>5
  <2>7. Min(e) - 1 = m
    <3> HIDE DEF ends
    <3>1. Min(e) = m + 1 /\ m \in Nat
      BY <1>10, <1>12, <2>4
    <3> HIDE DEF e
    <3> QED BY <3>1
  <2>8. SubSeq(block.text, 1, Min(e) - 1) = a
    BY <2>1, <2>7
  <2> QED BY <2>6, <2>8
<1> HIDE DEF a, b
<1>16. [block EXCEPT !.text = a] = [sort |-> "sys", text |-> a]
  OBVIOUS
<1> QED BY <1>4, <1>13, <1>15, <1>16 DEF p, n

ToldFields == Records("sys", [k \in 1..7 |-> Assigned(k, ValueTold(k))])

\* What stands in the fields is what the server is to be told.
LEMMA ValuesTold ==
    ASSUME MemoryInv, pc = "sent", NEW v, NEW lead, NEW rest, Held(v, lead, rest), Meant(v),
           req.sse => Link[server] = "tcp"
    PROVE  \A k \in 2..7 : v[k] = ValueTold(k)
<1>1. /\ Fields[1].name = "server" /\ Fields[2].name = "server_no" /\ Fields[3].name = "path"
      /\ Fields[4].name = "function" /\ Fields[5].name = "no" /\ Fields[6].name = "key"
      /\ Fields[7].name = "mode" /\ Fields[7].room = 3
  BY DEF Fields
<1>2. v \in Values /\ v[3] = FirstValue(3) /\ v[4] = FirstValue(4)
  BY DEF Held
<1>3. v[2] = ValueTold(2)
  BY <1>1 DEF Meant, ValueTold
<1>4. v[3] = ValueTold(3)
  BY <1>1, <1>2 DEF ValueTold
<1>5. v[4] = ValueTold(4)
  BY <1>1, <1>2 DEF ValueTold
<1>6. v[5] = ValueTold(5)
  BY <1>1 DEF Meant, ValueTold
<1>7. v[6] = ValueTold(6)
  <2>1. CASE ~long
    <3>1. v[6] = FirstValue(6)
      BY <2>1 DEF Held
    <3> QED BY <1>1, <2>1, <3>1 DEF ValueTold
  <2>2. CASE long
    <3> DEFINE x == v[6]
               e == << Nul, Nul >>
               ke == Key \o e
    <3>1. x \in Seq(Byte) /\ Len(x) = 10
      <4>1. 6 \in 1..7 /\ Fields[6].room = 10
        BY Rooms
      <4> QED BY <1>2, <4>1 DEF Values
    <3>2. /\ \A i \in 1..8 : x[i] = Key[i]
          /\ x[9] = Nul /\ x[10] = Nul
      BY <2>2 DEF Held, Meant
    <3>3. e \in Seq(Byte) /\ Len(e) = 2 /\ e[1] = Nul /\ e[2] = Nul
      BY NulType
    <3>4. Key \in Seq(Byte) /\ Len(Key) = 8
      BY SmallBlocks
    <3> HIDE DEF x, e
    <3>5. /\ ke \in Seq(Byte) /\ Len(ke) = Len(Key) + Len(e)
          /\ \A i \in 1..Len(Key) : ke[i] = Key[i]
          /\ \A i \in 1..Len(e) : ke[Len(Key) + i] = e[i]
      <4>1. Key \in Seq(Byte) /\ e \in Seq(Byte)
        BY <3>3, <3>4
      <4> QED BY ONLY <4>1, Joined
    <3> HIDE DEF ke
    <3>6. ke[9] = Nul /\ ke[10] = Nul
      <4>1. 1 \in 1..Len(e) /\ 2 \in 1..Len(e) /\ Len(Key) + 1 = 9 /\ Len(Key) + 2 = 10
        BY <3>3, <3>4
      <4> QED BY <3>3, <3>5, <4>1
    <3>7. ASSUME NEW i \in 1..10 PROVE x[i] = ke[i]
      <4>1. i \in 1..8 \/ i = 9 \/ i = 10
        OBVIOUS
      <4>2. CASE i \in 1..8
        <5>1. i \in 1..Len(Key)
          BY <3>4, <4>2
        <5> QED BY <3>2, <3>5, <4>2, <5>1
      <4> QED BY <3>2, <3>6, <4>1, <4>2
    <3>8. x = ke
      <4>1. Len(ke) = 10
        BY <3>3, <3>4, <3>5
      <4> QED BY <3>1, <3>5, <3>7, <4>1, SeqEqual
    <3>9. ValueTold(6) = Key \o << Nul, Nul >>
      BY <1>1, <2>2 DEF ValueTold
    <3> QED BY <3>8, <3>9 DEF x, ke, e
  <2> QED BY <2>1, <2>2
<1>8. v[7] = ValueTold(7)
  <2>1. ValueTold(7) = Text(Link[server], 0, 3)
    BY <1>1 DEF ValueTold
  <2>2. CASE ~req.sse
    BY <2>1, <2>2 DEF Meant
  <2>3. CASE req.sse
    <3>1. v[7] = FirstValue(7) /\ Link[server] = "tcp"
      BY <2>3 DEF Held
    <3>2. FirstValue(7) = Text("tcp", 0, 3)
      BY <1>1 DEF FirstValue
    <3> QED BY <2>1, <3>1, <3>2
  <2> QED BY <2>2, <2>3
<1> QED BY <1>3, <1>4, <1>5, <1>6, <1>7, <1>8

\* The fields tell the server what they should.
LEMMA FieldsUnderstood ==
    ASSUME MemoryInv, pc = "sent", NEW v, NEW lead, NEW rest, Held(v, lead, rest), Meant(v),
           req.sse => Link[server] = "tcp"
    PROVE  Understands(Records("sys", FieldTexts(v))) = ToldFields
<1> DEFINE bs == Records("sys", FieldTexts(v))
           told == [k \in 1..7 |-> Assigned(k, ValueTold(k))]
           T(k) == [sort |-> "sys", text |-> Assigned(k, ValueTold(k))]
<1>1. v \in Values /\ server \in Servers
  BY DEF Held, MemoryInv, MemoryType
<1>2. DOMAIN bs = 1..7 /\ \A k \in 1..7 : bs[k] = [sort |-> "sys", text |-> Assigned(k, v[k])]
  BY DEF Records, FieldTexts
<1>3. Understood([sort |-> "sys", text |-> Assigned(1, v[1])]) = T(1)
  <2>1. v[1] \in Seq(Byte) /\ Len(v[1]) = 32
    <3>1. 1 \in 1..7 /\ Fields[1].room = 32
      BY Rooms
    <3> QED BY <1>1, <3>1 DEF Values
  <2>2. \A i \in 1..(NameLength[server] + 1) : v[1][i] = NameOf(server)[i]
    BY DEF Meant
  <2>3. Understood([sort |-> "sys", text |-> Assigned(1, v[1])])
           = [sort |-> "sys", text |-> Assigned(1, Text("name", server, NameLength[server]))]
    BY <1>1, <2>1, <2>2, NameUnderstood
  <2>4. ValueTold(1) = Text("name", server, NameLength[server])
    <3>1. Fields[1].name = "server"
      BY DEF Fields
    <3> QED BY <3>1 DEF ValueTold
  <2> QED BY <2>3, <2>4
<1>4. ASSUME NEW k \in 2..7 PROVE Understood([sort |-> "sys", text |-> Assigned(k, v[k])]) = T(k)
  <2> DEFINE t == Text(Fields[k].name, 0, Fields[k].prefix)
             x == v[k]
             a == t \o x
  <2>1. k \in 1..7 /\ Fields[k].name # "server" /\ Fields[k].prefix \in Nat /\ Fields[k].prefix > 0
        /\ Fields[k].name \in Parts
    <3>1. k = 2 \/ k = 3 \/ k = 4 \/ k = 5 \/ k = 6 \/ k = 7
      OBVIOUS
    <3>2. Fields[k].name # "server" /\ Fields[k].prefix > 0
      BY <3>1 DEF Fields
    <3> QED BY <3>1, <3>2, FieldLengths
  <2>2. t \in Seq(Byte) /\ Len(t) = Fields[k].prefix
    <3>1. 0 \in Nat
      OBVIOUS
    <3> QED BY <2>1, <3>1, TextType
  <2>3. t[1].of # "server"
    <3>1. 1 \in 1..Fields[k].prefix
      BY <2>1
    <3> QED BY <2>1, <3>1 DEF Text
  <2>4. x \in Seq(Byte)
    BY <1>1, <2>1 DEF Values
  <2> HIDE DEF t, x
  <2>5. a[1] = t[1]
    <3>1. t \in Seq(Byte) /\ x \in Seq(Byte)
      BY <2>2, <2>4
    <3>2. \A i \in 1..Len(t) : a[i] = t[i]
      BY ONLY <3>1, Joined
    <3>3. 1 \in 1..Len(t)
      BY <2>1, <2>2
    <3> QED BY <3>2, <3>3
  <2>6. Assigned(k, v[k]) = a
    BY DEF Assigned, t, x
  <2> HIDE DEF a
  <2>7. Understood([sort |-> "sys", text |-> a]) = [sort |-> "sys", text |-> a]
    BY <2>3, <2>5 DEF Understood
  <2>8. v[k] = ValueTold(k)
    BY ValuesTold
  <2> QED BY <2>6, <2>7, <2>8
<1>5. ASSUME NEW k \in 1..7 PROVE Understood(bs[k]) = T(k)
  <2>1. k = 1 \/ k \in 2..7
    OBVIOUS
  <2> QED BY <1>2, <1>3, <1>4, <2>1
<1> HIDE DEF bs
<1>6. Understands(bs) = [k \in 1..7 |-> T(k)]
  BY <1>2, <1>5 DEF Understands
<1>7. ToldFields = [k \in 1..7 |-> T(k)]
  BY DEF ToldFields, Records
<1> QED BY <1>6, <1>7 DEF bs

Inner(r, v, c) == (Flat(Records("cgi", VariableTexts(r))) \o FieldPart(v)) \o Ending(r, c)

\* The core of a request, as parameters, head and what the head counts.
LEMMA CoreInner ==
    ASSUME NEW r \in RequestRecord, NEW head \in Seq(Byte), Len(head) = 5, NEW v \in Values, NEW c \in Seq(Seq(Byte))
    PROVE  /\ Inner(r, v, c) \in Seq(Byte)
           /\ Core(r, head, v, c) = (Parameters \o head) \o Inner(r, v, c)
           /\ Len(Core(r, head, v, c)) = Len(Parameters) + 5 + Len(Inner(r, v, c))
<1> DEFINE p == Parameters
           a == Flat(Records("cgi", VariableTexts(r)))
           f == FieldPart(v)
           e == Ending(r, c)
           ph == p \o head
           af == a \o f
           i == af \o e
<1>1. p \in Seq(Byte) /\ a \in Seq(Byte) /\ f \in Seq(Byte) /\ e \in Seq(Byte)
  BY PartTypes
<1>2. Core(r, head, v, c) = ((ph \o a) \o f) \o e /\ Inner(r, v, c) = i
  BY DEF Core, Start, Inner
<1> HIDE DEF p, a, f, e
<1>3. ph \in Seq(Byte) /\ Len(ph) = Len(p) + 5 /\ af \in Seq(Byte)
  <2>1. Len(ph) = Len(p) + Len(head) /\ ph \in Seq(Byte) /\ af \in Seq(Byte)
    BY <1>1, ConcatProperties
  <2> QED BY <2>1
<1> HIDE DEF ph, af
<1>4. i \in Seq(Byte)
  BY <1>1, <1>3, ConcatProperties
<1>5. ((ph \o a) \o f) \o e = ph \o i
  <2>1. Regroups(ph, a, f, e)
    BY <1>1, <1>3, Regroup
  <2> QED BY <2>1 DEF Regroups, af
<1> HIDE DEF i
<1>6. Len(ph \o i) = Len(ph) + Len(i)
  BY <1>3, <1>4, ConcatProperties
<1>7. Len(ph \o i) = Len(p) + 5 + Len(i)
  BY <1>3, <1>6
<1> QED BY <1>2, <1>4, <1>5, <1>7 DEF p, ph

\* With the end that follows them, the blocks are what their head says they are.
LEMMA HeadSaysLength ==
    ASSUME req \in RequestRecord, NEW v \in Values, NEW lead \in Seq(Byte), Len(lead) = 5
    PROVE  /\ SizedHead \in Seq(Byte) /\ Len(SizedHead) = 5
           /\ Size \in Nat /\ Len(Core(req, SizedHead, v, ContentTexts(req, long))) = Size
           /\ Inner(req, v, ContentTexts(req, long)) \o lead \in Seq(Byte)
           /\ Core(req, SizedHead, v, ContentTexts(req, long)) \o lead
                 = Parameters \o Block("data", Inner(req, v, ContentTexts(req, long)) \o lead)
<1> DEFINE c == ContentTexts(req, long)
           p == Parameters
           u == Unset(5)
           i == Inner(req, v, c)
           il == i \o lead
           h == SizedHead
           n == Len(il)
<1>1. c \in Seq(Seq(Byte))
  BY ContentTextsType
<1>2. u \in Seq(Byte) /\ Len(u) = 5 /\ FirstValues \in Values
  BY UnsetType, FirstFieldBlocks
<1>3. p \in Seq(Byte) /\ Len(p) \in Nat
  <2>1. p \in Seq(Byte)
    BY <1>1, <1>2, PartTypes
  <2> QED BY <2>1, LenProperties
<1>4. Size = Len(Core(req, u, v, c))
  <2>1. Len(Core(req, u, FirstValues, c)) = Len(Core(req, u, v, c))
    <3> HIDE DEF u, c
    <3> QED BY <1>1, <1>2, CoreLength
  <2> QED BY <2>1 DEF Size
<1>5. i \in Seq(Byte) /\ Len(Core(req, u, v, c)) = Len(p) + 5 + Len(i)
  <2> HIDE DEF u, c
  <2> QED BY <1>1, <1>2, CoreInner
<1> HIDE DEF u, c, i, p
<1>6. il \in Seq(Byte) /\ n = Len(i) + 5 /\ Len(i) \in Nat /\ n \in Nat
  <2>1. il \in Seq(Byte) /\ n = Len(i) + Len(lead) /\ Len(i) \in Nat
    BY <1>5, ConcatProperties, LenProperties
  <2> QED BY <2>1
<1> HIDE DEF il, n
<1>7. (Size + 5) - (Len(p) + 5) = n /\ Size \in Nat
  BY <1>3, <1>4, <1>5, <1>6
<1>8. h = BlockHead("data", n)
  BY <1>7 DEF SizedHead, p
<1>9. h \in Seq(Byte) /\ Len(h) = 5
  <2>1. "data" \in Parts
    BY DEF Parts, Sorts
  <2> QED BY <1>6, <1>8, <2>1, HeadType
<1> HIDE DEF h
<1>10. Core(req, h, v, c) = (p \o h) \o i /\ Len(Core(req, h, v, c)) = Size
  <2>1. Core(req, h, v, c) = (p \o h) \o i /\ Len(Core(req, h, v, c)) = Len(p) + 5 + Len(i)
    BY <1>1, <1>9, CoreInner DEF p, i
  <2> QED BY <1>4, <1>5, <2>1
<1>11. ((p \o h) \o i) \o lead = p \o (h \o il)
  <2>1. Regroups(p, h, i, lead)
    BY <1>3, <1>5, <1>9, Regroup
  <2> QED BY <2>1 DEF Regroups, il
<1>12. h \o il = Block("data", il)
  BY <1>8 DEF Block, n
<1>13. Core(req, h, v, c) \o lead = p \o Block("data", il)
  BY <1>10, <1>11, <1>12
<1> QED BY <1>6, <1>7, <1>9, <1>10, <1>13 DEF c, i, il, h, p

\* What is sent: the four parts and an end.
LEMMA SentAsFramed ==
    ASSUME MemoryInv, NEW v, NEW lead, NEW rest, Held(v, lead, rest), Meant(v)
    PROVE  /\ Inner(req, v, ContentTexts(req, long)) \o lead \in Seq(Byte)
           /\ \E end \in Seq(Byte) :
                 /\ Len(end) >= HeadLen /\ end[HeadLen].of = "eod"
                 /\ SubSeq(buf, 1, used) = Flat(FourParts(Routine, Inner(req, v, ContentTexts(req, long)) \o lead)) \o end
<1> DEFINE c == ContentTexts(req, long)
           il == Inner(req, v, c) \o lead
           w == Core(req, SizedHead, v, c)
           d == Block("data", <<>>)
           x == 5 * executed
           end == SubSeq(rest, 1, x)
           b == Block("data", il)
           q == Parameters
           all == (w \o lead) \o d
<1>1. req \in RequestRecord /\ executed \in Nat /\ executed > 0
  BY RequestBufferAssumption DEF MemoryInv, MemoryType, Meant
<1>2. /\ v \in Values /\ lead \in Seq(Byte) /\ Len(lead) = 5 /\ rest \in Seq(Byte)
      /\ used = Size + 10 + x /\ buf = w \o ((lead \o d) \o rest)
      /\ Len(rest) >= x /\ rest[5].of = "eod"
  BY <1>1 DEF Held
<1>3. /\ il \in Seq(Byte) /\ Size \in Nat /\ Len(w) = Size
      /\ w \o lead = q \o b
  BY <1>1, <1>2, HeadSaysLength
<1>4. w \in Seq(Byte)
  <2>1. SizedHead \in Seq(Byte) /\ Len(SizedHead) = 5
    BY <1>1, <1>2, HeadSaysLength
  <2> QED BY <1>1, <1>2, <2>1, ContentTextsType, PartTypes
<1>5. d \in Seq(Byte) /\ Len(d) = 5
  BY SmallBlocks
<1>6. x \in Nat /\ x >= 5
  BY <1>1
<1>7. Flat(FourParts(Routine, il)) = all
  <2>1. Routine \in Seq(Byte)
    <3>1. "dbxweb^%zmgsis" \in Parts /\ 0 \in Nat /\ 14 \in Nat
      BY DEF Parts
    <3> QED BY <3>1, TextType DEF Routine
  <2> DEFINE a == Block("data", Routine)
  <2>2. Flat(FourParts(Routine, il)) = ((a \o d) \o b) \o d
    <3> HIDE DEF il
    <3> QED BY <1>3, <2>1, FourPartsFlat
  <2>3. q = a \o d
    BY DEF Parameters
  <2> HIDE DEF a, d, b, w, q
  <2> QED BY <1>3, <2>2, <2>3
<1> HIDE DEF il, w, d, x, b, q
<1>8. all \in Seq(Byte) /\ Len(all) = Size + 10
  <2> DEFINE wl == w \o lead
  <2>1. wl \in Seq(Byte) /\ Len(wl) = Len(w) + Len(lead)
    <3>1. w \in Seq(Byte) /\ lead \in Seq(Byte)
      BY <1>2, <1>4
    <3>2. w \o lead \in Seq(Byte)
      BY ONLY <3>1, ConcatProperties
    <3>3. Len(w \o lead) = Len(w) + Len(lead)
      BY ONLY <3>1, ConcatProperties
    <3> QED BY <3>2, <3>3
  <2> HIDE DEF wl
  <2>2. wl \o d \in Seq(Byte) /\ Len(wl \o d) = Len(wl) + Len(d)
    BY <1>5, <2>1, ConcatProperties
  <2>3. Len(wl \o d) = Size + 10
    BY <1>2, <1>3, <1>5, <2>1, <2>2
  <2> QED BY <2>2, <2>3 DEF wl
<1>9. buf = all \o rest
  <2>1. Associates(w, lead \o d, rest) /\ Associates(w, lead, d)
    <3> DEFINE ld == lead \o d
    <3>1. ld \in Seq(Byte)
      BY <1>2, <1>5, ConcatProperties
    <3> HIDE DEF ld
    <3>2. Associates(w, ld, rest) /\ Associates(w, lead, d)
      BY <1>2, <1>4, <1>5, <3>1, Associative
    <3> QED BY <3>2 DEF ld
  <2> QED BY <1>2, <2>1 DEF Associates
<1> HIDE DEF all
<1>10. end \in Seq(Byte) /\ Len(end) = x /\ \A i \in 1..x : end[i] = rest[i]
  <2>1. \A i \in 1..x : rest[i] \in Byte
    <3>1. Len(rest) \in Nat /\ \A i \in 1..x : i \in 1..Len(rest)
      BY <1>2, <1>6, LenProperties
    <3> QED BY <1>2, <3>1, ElementOfSeq
  <2>2. 1 \in Int /\ x \in Int
    BY <1>6
  <2>3. end \in Seq(Byte) /\ Len(end) = (IF 1 <= x THEN x - 1 + 1 ELSE 0) /\ \A i \in 1..(x - 1 + 1) : end[i] = rest[1 + i - 1]
    BY ONLY <2>1, <2>2, SubSeqProperties
  <2> HIDE DEF end
  <2>4. x - 1 + 1 = x /\ 1 <= x /\ \A i \in 1..x : 1 + i - 1 = i
    BY <1>6
  <2> QED BY <2>3, <2>4
<1>11. SubSeq(buf, 1, used) = all \o end
  <2> DEFINE m == Size + 10
             s == SubSeq(buf, 1, used)
             t == all \o end
  <2>1. m \in Nat /\ used = m + x /\ Len(all) = m
    BY <1>2, <1>3, <1>8
  <2> HIDE DEF m
  <2>2. /\ buf \in Seq(Byte) /\ Len(buf) = m + Len(rest) /\ Len(rest) \in Nat
        /\ \A i \in 1..m : buf[i] = all[i]
        /\ \A i \in 1..Len(rest) : buf[m + i] = rest[i]
    <3>1. all \in Seq(Byte) /\ rest \in Seq(Byte)
      BY <1>2, <1>8
    <3> DEFINE z == all \o rest
    <3>2. /\ z \in Seq(Byte) /\ Len(z) = Len(all) + Len(rest) /\ Len(rest) \in Nat
          /\ \A i \in 1..Len(all) : z[i] = all[i]
          /\ \A i \in 1..Len(rest) : z[Len(all) + i] = rest[i]
      BY ONLY <3>1, Joined
    <3> HIDE DEF z
    <3> QED BY <1>9, <2>1, <3>2 DEF z
  <2> HIDE DEF end
  <2>3. /\ t \in Seq(Byte) /\ Len(t) = m + x
        /\ \A i \in 1..m : t[i] = all[i]
        /\ \A i \in 1..x : t[m + i] = end[i]
    <3>1. all \in Seq(Byte) /\ end \in Seq(Byte)
      BY <1>8, <1>10
    <3>2. /\ t \in Seq(Byte) /\ Len(t) = Len(all) + Len(end)
          /\ \A i \in 1..Len(all) : t[i] = all[i]
          /\ \A i \in 1..Len(end) : t[Len(all) + i] = end[i]
      BY ONLY <3>1, Joined
    <3> HIDE DEF t
    <3> QED BY <1>10, <2>1, <3>2
  <2> DEFINE l == m + x
  <2>4. s \in Seq(Byte) /\ Len(s) = l /\ \A i \in 1..l : s[i] = buf[i]
    <3>1. \A i \in 1..l : buf[i] \in Byte
      <4>1. \A i \in 1..l : i \in 1..Len(buf)
        BY <1>2, <1>6, <2>1, <2>2
      <4> QED BY <2>2, <4>1, ElementOfSeq
    <3>2. 1 \in Int /\ l \in Int /\ l >= 5
      BY <1>6, <2>1
    <3>3. s = SubSeq(buf, 1, l)
      BY <2>1
    <3> HIDE DEF s, l
    <3> DEFINE k == SubSeq(buf, 1, l)
    <3>4. k \in Seq(Byte) /\ Len(k) = (IF 1 <= l THEN l - 1 + 1 ELSE 0) /\ \A i \in 1..(l - 1 + 1) : k[i] = buf[1 + i - 1]
      BY ONLY <3>1, <3>2, SubSeqProperties
    <3> HIDE DEF k
    <3>5. l - 1 + 1 = l /\ 1 <= l /\ \A i \in 1..l : 1 + i - 1 = i
      BY <3>2
    <3> QED BY <3>3, <3>4, <3>5 DEF k
  <2> HIDE DEF s, t
  <2>5. ASSUME NEW i \in 1..l PROVE s[i] = t[i]
    <3>1. CASE i <= m
      <4>1. i \in 1..m
        BY <2>1, <3>1
      <4> QED BY <2>2, <2>3, <2>4, <4>1
    <3>2. CASE ~(i <= m)
      <4> DEFINE j == i - m
      <4>1. j \in 1..x /\ j \in 1..Len(rest) /\ i = m + j
        BY <1>2, <1>6, <2>1, <2>2, <3>2
      <4> HIDE DEF j
      <4>2. s[i] = rest[j] /\ t[i] = end[j]
        BY <2>2, <2>3, <2>4, <4>1
      <4> QED BY <1>10, <4>1, <4>2 DEF end
    <3> QED BY <3>1, <3>2
  <2>6. s = t
    BY <2>3, <2>4, <2>5, SeqEqual
  <2> QED BY <2>6 DEF s, t
<1>12. Len(end) >= HeadLen /\ end[HeadLen].of = "eod"
  <2>1. 5 \in 1..x
    BY <1>6
  <2> HIDE DEF end
  <2>2. end[5] = rest[5]
    BY <1>10, <2>1 DEF end
  <2> QED BY <1>2, <1>6, <1>10, <2>2 DEF HeadLen, end
<1>13. SubSeq(buf, 1, used) = Flat(FourParts(Routine, il)) \o end
  BY <1>7, <1>11
<1> HIDE DEF end
<1> QED BY <1>3, <1>10, <1>12, <1>13 DEF il

\* What it makes of the blocks in the third part.
LEMMA InnerUnderstood ==
    ASSUME MemoryInv, pc = "sent", NEW v, NEW lead, NEW rest, Held(v, lead, rest), Meant(v),
           req.sse => Link[server] = "tcp"
    PROVE  Understands(Contents(req, v, ContentTexts(req, long))) = Told.inner
<1> DEFINE c == ContentTexts(req, long)
           x == Records("cgi", VariableTexts(req))
           f == Records("sys", FieldTexts(v))
           s == Records("sys", SseTexts(req))
           w == Records("sys", WebSocketTexts(req))
           k == Records("content", c)
           xf == x \o f
           xfs == xf \o s
           xfsw == xfs \o w
           all == xfsw \o k
<1>1. "cgi" \in Sorts \ {"eod"} /\ "sys" \in Sorts \ {"eod"} /\ "content" \in Sorts \ {"eod"}
  BY DEF Sorts
<1>2. req \in RequestRecord /\ v \in Values /\ long \in BOOLEAN
  BY RequestBufferAssumption DEF MemoryInv, MemoryType, Held
<1>3. x \in Seq(BlockRecord) /\ s \in Seq(BlockRecord) /\ w \in Seq(BlockRecord)
  BY <1>1, <1>2, TextsType, RecordsType
<1>4. f \in Seq(BlockRecord) /\ k \in Seq(BlockRecord)
  BY <1>1, <1>2, FieldTextsType, ContentTextsType, RecordsType
<1>5. /\ Understands(x) = x /\ Understands(s) = s /\ Understands(w) = w /\ Understands(k) = k
  BY <1>2, OtherTexts
<1>6. Understands(f) = ToldFields
  BY FieldsUnderstood
<1>7. Told.inner = (((x \o ToldFields) \o s) \o w) \o k
  <2>1. DOMAIN Fields = 1..7
    BY FieldPlaces
  <2> DEFINE Of(sort, texts) == [j \in DOMAIN texts |-> [sort |-> sort, text |-> texts[j]]]
             inline == req.how = "length" /\ ~long
  <2>2. Told.inner = (((Of("cgi", [j \in DOMAIN req.variables |-> Variable(req, j)])
                        \o Of("sys", [j \in DOMAIN Fields |-> Assigned(j, ValueTold(j))]))
                        \o Of("sys", IF req.sse THEN << Sse >> ELSE <<>>))
                        \o Of("sys", IF req.websocket THEN WebSocket ELSE <<>>))
                        \o Of("content", IF inline THEN << Payload(req.len) >> ELSE <<>>)
    BY DEF Told
  <2>3. Of("cgi", [j \in DOMAIN req.variables |-> Variable(req, j)]) = x
    BY DEF Records, VariableTexts
  <2>4. Of("sys", [j \in DOMAIN Fields |-> Assigned(j, ValueTold(j))]) = ToldFields
    BY <2>1 DEF Records, ToldFields
  <2>5. Of("sys", IF req.sse THEN << Sse >> ELSE <<>>) = s
    BY DEF Records, SseTexts
  <2>6. Of("sys", IF req.websocket THEN WebSocket ELSE <<>>) = w
    BY DEF Records, WebSocketTexts
  <2>7. Of("content", IF inline THEN << Payload(req.len) >> ELSE <<>>) = k
    BY DEF Records, ContentTexts
  <2> HIDE DEF x, s, w, k, Of
  <2> QED BY <2>2, <2>3, <2>4, <2>5, <2>6, <2>7
<1>8. Contents(req, v, c) = all
  BY DEF Contents
<1> HIDE DEF x, f, s, w, k
<1>9. xf \in Seq(BlockRecord) /\ Understands(xf) = Understands(x) \o Understands(f)
  BY <1>3, <1>4, ConcatProperties, UnderstandsConcat
<1> HIDE DEF xf
<1>10. xfs \in Seq(BlockRecord) /\ Understands(xfs) = Understands(xf) \o Understands(s)
  BY <1>3, <1>9, ConcatProperties, UnderstandsConcat
<1> HIDE DEF xfs
<1>11. xfsw \in Seq(BlockRecord) /\ Understands(xfsw) = Understands(xfs) \o Understands(w)
  BY <1>3, <1>10, ConcatProperties, UnderstandsConcat
<1> HIDE DEF xfsw
<1>12. Understands(all) = Understands(xfsw) \o Understands(k)
  BY <1>4, <1>11, UnderstandsConcat
<1> QED BY <1>5, <1>6, <1>7, <1>8, <1>9, <1>10, <1>11, <1>12

\* A server hears what it is told.
LEMMA RequestHeard ==
    ASSUME MemoryInv, pc = "sent", NEW v, NEW lead, NEW rest, Held(v, lead, rest), Meant(v),
           req.sse => Link[server] = "tcp"
    PROVE  Heard = Told
<1> DEFINE c == ContentTexts(req, long)
           cs == Contents(req, v, c)
           il == Inner(req, v, c) \o lead
           ps == FourParts(Routine, il)
           b == SubSeq(buf, 1, used)
<1>1. req \in RequestRecord /\ v \in Values /\ c \in Seq(Seq(Byte))
  BY RequestBufferAssumption, ContentTextsType DEF MemoryInv, MemoryType, Held
<1>2. lead \in Seq(Byte) /\ Len(lead) >= HeadLen /\ lead[HeadLen].of = "eod"
  BY DEF Held, HeadLen
<1>3. il \in Seq(Byte)
  BY SentAsFramed
<1>4. BlocksIn(b) = ps
  <2>1. PICK end \in Seq(Byte) : Len(end) >= HeadLen /\ end[HeadLen].of = "eod" /\ b = Flat(ps) \o end
    BY SentAsFramed
  <2>2. Routine \in Seq(Byte)
    <3>1. "dbxweb^%zmgsis" \in Parts /\ 0 \in Nat /\ 14 \in Nat
      BY DEF Parts
    <3> QED BY <3>1, TextType DEF Routine
  <2>3. ps \in Seq(BlockRecord)
    <3> HIDE DEF il
    <3> QED BY <1>3, <2>2, FourPartsFlat
  <2> HIDE DEF ps
  <2>4. BlocksIn(FlattenSeq(Packing(ps)) \o end) = ps
    BY <2>1, <2>3, BlocksAsWritten
  <2> QED BY <2>1, <2>4 DEF Flat
<1>5. BlocksIn(il) = cs
  <2>1. cs \in Seq(BlockRecord) /\ Flat(cs) = Inner(req, v, c)
    <3> HIDE DEF c
    <3> QED BY <1>1, ContentsFlat DEF Inner
  <2> HIDE DEF cs
  <2>2. BlocksIn(FlattenSeq(Packing(cs)) \o lead) = cs
    BY <1>2, <2>1, BlocksAsWritten
  <2> QED BY <2>1, <2>2 DEF Flat
<1>6. Understands(cs) = Told.inner
  BY InnerUnderstood
<1> HIDE DEF il, cs, b
<1>7. Len(ps) = 4 /\ ps[3].text = il /\ DOMAIN ps = 1..4
  BY DEF FourParts
<1>8. [j \in DOMAIN ps |-> IF j = 3 THEN <<>> ELSE ps[j]] = Told.parts
  <2> DEFINE p == [sort |-> "data", text |-> Routine]
             q == [sort |-> "data", text |-> <<>>]
             r == [sort |-> "data", text |-> il]
  <2>1. ps = << p, q, r, q >>
    BY DEF FourParts
  <2>2. Told.parts = << p, q, <<>>, q >>
    BY DEF Told
  <2> HIDE DEF p, q, r
  <2> DEFINE e == <<>>
  <2>3. [j \in 1..4 |-> IF j = 3 THEN e ELSE << p, q, r, q >>[j]] = << p, q, e, q >>
    <3> HIDE DEF e
    <3> QED OBVIOUS
  <2> QED BY <1>7, <2>1, <2>2, <2>3
<1> HIDE DEF ps
<1>9. Heard = [parts |-> [j \in DOMAIN ps |-> IF j = 3 THEN <<>> ELSE ps[j]],
               inner |-> [j \in DOMAIN cs |-> Understood(cs[j])]]
  BY <1>4, <1>5, <1>7 DEF Heard, b
<1>10. Heard = [parts |-> Told.parts, inner |-> Told.inner]
  BY <1>6, <1>8, <1>9 DEF Understands
<1>11. Told = [parts |-> Told.parts, inner |-> Told.inner]
  BY DEF Told
<1> QED BY <1>10, <1>11

\* The first block of a long content leaves whole with the first attempt.
LEMMA FirstBlockLeft ==
    ASSUME MemoryInv, NEW v, NEW lead, NEW rest, Held(v, lead, rest), long, executed = 1
    PROVE  FirstBlockWhole
<1> DEFINE c == ContentTexts(req, long)
           w == Core(req, SizedHead, v, c)
           d == Block("data", <<>>)
           e == EndOfData
           ld == lead \o d
           u == w \o (ld \o e)
<1>1. PICK len \in Nat : rest = e \o Block("content", Payload(len))
  BY DEF Held
<1> DEFINE b == Block("content", Payload(len))
           s == SubSeq(buf, content, Len(buf))
           one == << [sort |-> "content", text |-> Payload(len)] >>
<1>2. /\ req \in RequestRecord /\ v \in Values /\ lead \in Seq(Byte) /\ Len(lead) = 5
      /\ buf = w \o (ld \o rest) /\ content = Size + 16
  BY RequestBufferAssumption DEF MemoryInv, MemoryType, Held
<1>3. w \in Seq(Byte) /\ Len(w) = Size /\ Size \in Nat
  <2>1. /\ SizedHead \in Seq(Byte) /\ Len(SizedHead) = 5 /\ Size \in Nat /\ Len(w) = Size
    BY <1>2, HeadSaysLength
  <2> QED BY <1>2, <2>1, ContentTextsType, PartTypes
<1>4. d \in Seq(Byte) /\ Len(d) = 5 /\ e \in Seq(Byte) /\ Len(e) = 5 /\ b \in Seq(Byte) /\ Len(b) = 5 + len
      /\ Payload(len) \in Seq(Byte) /\ Len(Payload(len)) = len
  BY SmallBlocks, PayloadType, PayloadText
<1> HIDE DEF w, d, e, b
<1>5. ld \in Seq(Byte) /\ Len(ld) = 10
  <2>1. ld \in Seq(Byte) /\ Len(ld) = Len(lead) + Len(d)
    BY <1>2, <1>4, ConcatProperties
  <2> QED BY <1>2, <1>4, <2>1
<1> HIDE DEF ld
<1> DEFINE lde == ld \o e
<1>6. lde \in Seq(Byte) /\ Len(lde) = 15
  <2>1. lde \in Seq(Byte) /\ Len(lde) = Len(ld) + Len(e)
    BY <1>4, <1>5, ConcatProperties
  <2> QED BY <1>4, <1>5, <2>1
<1>7. buf = u \o b
  <2>1. Associates(ld, e, b)
    BY <1>4, <1>5, Associative
  <2>2. buf = w \o (lde \o b)
    BY <1>1, <1>2, <2>1 DEF Associates, b
  <2> HIDE DEF lde
  <2>3. Associates(w, lde, b)
    BY <1>3, <1>4, <1>6, Associative
  <2> QED BY <2>2, <2>3 DEF Associates, lde
<1> HIDE DEF lde
<1>8. u \in Seq(Byte) /\ Len(u) = Size + 15
  <2>1. w \o lde \in Seq(Byte) /\ Len(w \o lde) = Len(w) + Len(lde)
    BY <1>3, <1>6, ConcatProperties
  <2> QED BY <1>3, <1>6, <2>1 DEF lde
<1> HIDE DEF u
<1>9. s = b
  <2> DEFINE m == Len(u)
             n == Len(b)
             z == u \o b
             a == SubSeq(z, m + 1, m + n)
  <2>1. /\ z \in Seq(Byte) /\ Len(z) = m + n /\ m \in Nat /\ n \in Nat
        /\ \A i \in 1..m : z[i] = u[i]
        /\ \A i \in 1..n : z[m + i] = b[i]
    <3>1. u \in Seq(Byte) /\ b \in Seq(Byte)
      BY <1>4, <1>8
    <3> QED BY ONLY <3>1, Joined
  <2>2. s = a
    <3>1. content = m + 1
      BY <1>2, <1>3, <1>8
    <3> QED BY <1>7, <2>1, <3>1
  <2>3. n = 5 + len
    BY <1>4
  <2> HIDE DEF m, n, z
  <2> DEFINE x == m + 1
             y == m + n
  <2>4. \A i \in x..y : z[i] \in Byte
    <3>1. \A i \in x..y : i \in 1..Len(z)
      BY <2>1
    <3> QED BY <2>1, <3>1, ElementOfSeq
  <2>5. x \in Int /\ y \in Int /\ x <= y /\ y - x + 1 = n
    BY <2>1, <2>3
  <2> HIDE DEF x, y
  <2>6. /\ SubSeq(z, x, y) \in Seq(Byte) /\ Len(SubSeq(z, x, y)) = (IF x <= y THEN y - x + 1 ELSE 0)
        /\ \A i \in 1..(y - x + 1) : SubSeq(z, x, y)[i] = z[x + i - 1]
    BY ONLY <2>4, <2>5, SubSeqProperties
  <2>7. a = SubSeq(z, x, y)
    BY DEF x, y
  <2> HIDE DEF a
  <2>8. a \in Seq(Byte) /\ Len(a) = n /\ \A i \in 1..n : a[i] = z[x + i - 1]
    BY <2>5, <2>6, <2>7
  <2>9. ASSUME NEW i \in 1..n PROVE a[i] = b[i]
    <3>1. x + i - 1 = m + i
      BY <2>1 DEF x
    <3> QED BY <2>1, <2>8, <3>1
  <2>10. a = b
    BY <1>4, <2>8, <2>9, SeqEqual DEF n
  <2> QED BY <2>2, <2>10
<1> HIDE DEF s
<1>10. BlocksIn(s \o e) = one
  <2>1. "content" \in Sorts \ {"eod"}
    BY DEF Sorts
  <2>2. one \in Seq(BlockRecord) /\ Flat(one) = b
    <3> DEFINE p == Payload(len)
    <3>1. p \in Seq(Byte)
      BY <1>4
    <3> HIDE DEF p
    <3>2. << [sort |-> "content", text |-> p] >> \in Seq(BlockRecord)
          /\ Flat(<< [sort |-> "content", text |-> p] >>) = Block("content", p)
      BY <2>1, <3>1, OneRecord
    <3> QED BY <3>2 DEF b, p
  <2>3. Len(e) >= HeadLen /\ e[HeadLen].of = "eod"
    BY <1>4, EndElement DEF HeadLen, e
  <2> HIDE DEF one
  <2>4. BlocksIn(FlattenSeq(Packing(one)) \o e) = one
    BY <1>4, <2>2, <2>3, BlocksAsWritten
  <2> QED BY <1>9, <2>2, <2>4 DEF Flat
<1>11. Len(one) = 1 /\ one[1].sort = "content" /\ one[1].text = Payload(len)
  OBVIOUS
<1> HIDE DEF one
<1> QED BY <1>4, <1>10, <1>11 DEF FirstBlockWhole, s, e

\* Whatever the variables, the content, the servers and the failures: each DB Server
\* that a request is sent to reads the variables, the fields meant for it and the
\* content, as mg_web, mg_web_process and mg_web_execute were to write them, and the
\* first block of a long content follows the request unharmed.
THEOREM ServersHearWhatTheyAreTold == Spec => []HeardAsTold
<1>1. MemoryInv /\ ContentInv => HeardAsTold
  <2> SUFFICES ASSUME MemoryInv, ContentInv, pc = "sent",
                      req.sse => req.how # "length" /\ Link[server] = "tcp"
               PROVE  Heard = Told /\ (long /\ executed = 1 => FirstBlockWhole)
    BY DEF HeardAsTold
  <2>1. Plain
    BY DEF Plain
  <2>2. PICK v, lead, rest : Held(v, lead, rest) /\ Meant(v)
    BY <2>1 DEF ContentInv, After
  <2>3. Heard = Told
    BY <2>2, RequestHeard
  <2>4. long /\ executed = 1 => FirstBlockWhole
    BY <2>2, FirstBlockLeft
  <2> QED BY <2>3, <2>4
<1> QED BY <1>1, ContentInvariant, PTL
============================================================================
