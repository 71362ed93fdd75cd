------------------------ MODULE AnswerStream_proofs ------------------------
(***************************************************************************)
(* The way of an answer to the client, for any sizes of the buffers and    *)
(* the limits, any number of requests, and the answers and the faults that *)
(* Sound admits.                                                           *)
(***************************************************************************)
EXTENDS AnswerStream, SequenceTheorems, WellFoundedInduction, TLAPS

(* Parts of a sequence: the elements after the lo-th, up to the hi-th. *)

Part(s, lo, hi) == SubSeq(s, lo + 1, hi)
Begin(s, n) == SubSeq(s, 1, n)
Rest(s, n) == SubSeq(s, n + 1, Len(s))

LEMMA PartProperties ==
    ASSUME NEW S, NEW s \in Seq(S), NEW lo \in Nat, NEW hi \in Nat, lo <= hi, hi <= Len(s)
    PROVE  /\ Part(s, lo, hi) \in Seq(S)
           /\ Len(Part(s, lo, hi)) = hi - lo
           /\ \A i \in 1..(hi - lo) : Part(s, lo, hi)[i] = s[lo + i]
<1>1. \A i \in (lo + 1)..hi : s[i] \in S
  BY ElementOfSeq
<1>2. lo + 1 \in Int /\ hi \in Int
  OBVIOUS
<1>3. /\ Part(s, lo, hi) \in Seq(S)
      /\ Len(Part(s, lo, hi)) = IF lo + 1 <= hi THEN hi - (lo + 1) + 1 ELSE 0
      /\ \A i \in 1..(hi - (lo + 1) + 1) : Part(s, lo, hi)[i] = s[(lo + 1) + i - 1]
  BY <1>1, <1>2, SubSeqProperties DEF Part
<1>4. hi - (lo + 1) + 1 = hi - lo /\ \A i \in 1..(hi - lo) : (lo + 1) + i - 1 = lo + i
  OBVIOUS
<1> QED BY <1>3, <1>4

LEMMA PartNone == ASSUME NEW s, NEW n \in Nat PROVE Part(s, n, n) = <<>>
BY SubSeqEmpty DEF Part

LEMMA PartJoin ==
    ASSUME NEW S, NEW s \in Seq(S), NEW lo \in Nat, NEW mid \in Nat, NEW hi \in Nat,
           lo <= mid, mid <= hi, hi <= Len(s)
    PROVE  Part(s, lo, mid) \o Part(s, mid, hi) = Part(s, lo, hi)
<1>1. Len(s) \in Nat
  BY LenProperties
<1>2. lo + 1 \in 1..(Len(s) + 1) /\ mid \in (lo + 1 - 1)..Len(s) /\ hi \in mid..Len(s)
  BY <1>1
<1> QED BY <1>2, ConcatAdjacentSubSeq DEF Part

LEMMA BeginProperties ==
    ASSUME NEW S, NEW s \in Seq(S), NEW n \in 0..Len(s)
    PROVE  /\ Begin(s, n) \in Seq(S) /\ Len(Begin(s, n)) = n
           /\ \A i \in 1..n : Begin(s, n)[i] = s[i]
           /\ Rest(s, n) \in Seq(S) /\ Len(Rest(s, n)) = Len(s) - n
           /\ \A i \in 1..(Len(s) - n) : Rest(s, n)[i] = s[n + i]
<1>1. Len(s) \in Nat /\ n \in Nat /\ n <= Len(s)
  BY LenProperties
<1>2. Part(s, 0, n) = Begin(s, n) /\ Part(s, n, Len(s)) = Rest(s, n)
  BY <1>1 DEF Part, Begin, Rest
<1>3. /\ Part(s, 0, n) \in Seq(S) /\ Len(Part(s, 0, n)) = n - 0
      /\ \A i \in 1..(n - 0) : Part(s, 0, n)[i] = s[0 + i]
  <2>1. 0 \in Nat /\ 0 <= n
    BY <1>1
  <2> QED BY <1>1, <2>1, PartProperties
<1>4. /\ Part(s, n, Len(s)) \in Seq(S) /\ Len(Part(s, n, Len(s))) = Len(s) - n
      /\ \A i \in 1..(Len(s) - n) : Part(s, n, Len(s))[i] = s[n + i]
  <2>1. Len(s) <= Len(s)
    BY <1>1
  <2> QED BY <1>1, <2>1, PartProperties
<1>5. n - 0 = n /\ \A i \in 1..n : 0 + i = i
  BY <1>1
<1> QED BY <1>2, <1>3, <1>4, <1>5

\* The first n elements of a part, and the others.
LEMMA PartSplit ==
    ASSUME NEW S, NEW s \in Seq(S), NEW lo \in Nat, NEW hi \in Nat, lo <= hi, hi <= Len(s),
           NEW n \in 0..(hi - lo)
    PROVE  /\ Begin(Part(s, lo, hi), n) = Part(s, lo, lo + n)
           /\ Rest(Part(s, lo, hi), n) = Part(s, lo + n, hi)
<1> DEFINE p == Part(s, lo, hi)
           begin == Part(s, lo, lo + n)
           rest == Part(s, lo + n, hi)
<1>1. /\ p \in Seq(S) /\ Len(p) = hi - lo
      /\ \A i \in 1..(hi - lo) : p[i] = s[lo + i]
  BY PartProperties
<1>2. lo + n \in Nat /\ lo <= lo + n /\ lo + n <= hi
  OBVIOUS
<1>3. /\ begin \in Seq(S) /\ Len(begin) = (lo + n) - lo
      /\ \A i \in 1..((lo + n) - lo) : begin[i] = s[lo + i]
  <2>1. lo + n <= Len(s)
    BY <1>2, LenProperties
  <2> QED BY <1>2, <2>1, PartProperties
<1>4. /\ rest \in Seq(S) /\ Len(rest) = hi - (lo + n)
      /\ \A i \in 1..(hi - (lo + n)) : rest[i] = s[(lo + n) + i]
  BY <1>2, PartProperties
<1> HIDE DEF p, begin, rest
<1>5. /\ Begin(p, n) \in Seq(S) /\ Len(Begin(p, n)) = n
      /\ \A i \in 1..n : Begin(p, n)[i] = p[i]
      /\ Rest(p, n) \in Seq(S) /\ Len(Rest(p, n)) = (hi - lo) - n
      /\ \A i \in 1..((hi - lo) - n) : Rest(p, n)[i] = p[n + i]
  <2>1. n \in 0..Len(p)
    BY <1>1
  <2>2. /\ Begin(p, n) \in Seq(S) /\ Len(Begin(p, n)) = n
        /\ \A i \in 1..n : Begin(p, n)[i] = p[i]
        /\ Rest(p, n) \in Seq(S) /\ Len(Rest(p, n)) = Len(p) - n
        /\ \A i \in 1..(Len(p) - n) : Rest(p, n)[i] = p[n + i]
    BY <1>1, <2>1, BeginProperties
  <2> QED BY <1>1, <2>2
<1>6. Begin(p, n) = begin
  <2>1. Len(begin) = n /\ \A i \in 1..n : p[i] = begin[i]
    <3>1. (lo + n) - lo = n /\ \A i \in 1..n : i \in 1..(hi - lo)
      OBVIOUS
    <3>2. Len(begin) = n /\ \A i \in 1..n : begin[i] = s[lo + i]
      BY <1>3, <3>1
    <3> QED BY <1>1, <3>1, <3>2
  <2>2. \A i \in 1..n : Begin(p, n)[i] = begin[i]
    BY <1>5, <2>1
  <2> QED BY <1>3, <1>5, <2>1, <2>2, SeqEqual
<1>7. Rest(p, n) = rest
  <2>1. \A i \in 1..((hi - lo) - n) : p[n + i] = rest[i]
    <3> TAKE i \in 1..((hi - lo) - n)
    <3>1. n + i \in 1..(hi - lo) /\ i \in 1..(hi - (lo + n)) /\ lo + (n + i) = (lo + n) + i
      OBVIOUS
    <3> QED BY <1>1, <1>4, <3>1
  <2>2. Len(rest) = (hi - lo) - n
    BY <1>4
  <2> QED BY <1>4, <1>5, <2>1, <2>2, SeqEqual
<1> QED BY <1>6, <1>7 DEF p, begin, rest

\* The same of a sequence that goes on after the part.
LEMMA JoinSplit ==
    ASSUME NEW S, NEW s \in Seq(S), NEW t \in Seq(S), NEW n \in 0..Len(s)
    PROVE  /\ Begin(s \o t, n) = Begin(s, n)
           /\ Rest(s \o t, n) = Rest(s, n) \o t
<1> DEFINE all == s \o t
<1>0. Len(s) \in Nat /\ Len(t) \in Nat
  BY LenProperties
<1>1. /\ all \in Seq(S) /\ Len(all) = Len(s) + Len(t)
      /\ \A i \in 1..(Len(s) + Len(t)) : all[i] = IF i <= Len(s) THEN s[i] ELSE t[i - Len(s)]
  BY ConcatProperties
<1> DEFINE a == Begin(all, n)
           b == Begin(s, n)
           c == Rest(all, n)
           d == Rest(s, n)
<1>2. /\ a \in Seq(S) /\ Len(a) = n /\ \A i \in 1..n : a[i] = all[i]
      /\ c \in Seq(S) /\ Len(c) = Len(all) - n /\ \A i \in 1..(Len(all) - n) : c[i] = all[n + i]
  <2>1. n \in 0..Len(all)
    BY <1>0, <1>1
  <2> HIDE DEF all
  <2> QED BY <1>1, <2>1, BeginProperties
<1>3. /\ b \in Seq(S) /\ Len(b) = n /\ \A i \in 1..n : b[i] = s[i]
      /\ d \in Seq(S) /\ Len(d) = Len(s) - n /\ \A i \in 1..(Len(s) - n) : d[i] = s[n + i]
  BY BeginProperties
<1> HIDE DEF a, b, c, d, all
<1>4. a = b
  <2>1. \A i \in 1..n : all[i] = s[i]
    BY <1>0, <1>1
  <2> QED BY <1>2, <1>3, <2>1, SeqEqual
<1>5. c = d \o t
  <2> DEFINE e == d \o t
  <2>1. e \in Seq(S) /\ Len(e) = Len(d) + Len(t)
        /\ \A i \in 1..(Len(d) + Len(t)) : e[i] = IF i <= Len(d) THEN d[i] ELSE t[i - Len(d)]
    BY <1>3, ConcatProperties
  <2> HIDE DEF e
  <2>2. Len(c) = Len(e) /\ Len(e) = (Len(s) - n) + Len(t)
    BY <1>0, <1>1, <1>2, <1>3, <2>1
  <2>3. ASSUME NEW i \in 1..Len(c) PROVE c[i] = e[i]
    <3>1. c[i] = all[n + i] /\ n + i \in 1..(Len(s) + Len(t)) /\ i \in 1..(Len(d) + Len(t))
      BY <1>0, <1>1, <1>2, <1>3, <2>2
    <3>2. CASE i <= Len(s) - n
      <4>1. n + i <= Len(s) /\ i \in 1..(Len(s) - n) /\ i <= Len(d)
        BY <1>0, <1>3, <3>1, <3>2
      <4>2. all[n + i] = s[n + i] /\ d[i] = s[n + i] /\ e[i] = d[i]
        BY <1>1, <1>3, <2>1, <3>1, <4>1
      <4> QED BY <3>1, <4>2
    <3>3. CASE ~(i <= Len(s) - n)
      <4>1. ~(n + i <= Len(s)) /\ ~(i <= Len(d)) /\ (n + i) - Len(s) = i - Len(d)
        BY <1>0, <1>3, <3>1, <3>3
      <4>2. all[n + i] = t[(n + i) - Len(s)] /\ e[i] = t[i - Len(d)]
        BY <1>1, <2>1, <3>1, <4>1
      <4> QED BY <3>1, <4>1, <4>2
    <3> QED BY <3>2, <3>3
  <2>4. c = e
    BY <1>2, <2>1, <2>2, <2>3, SeqEqual
  <2> QED BY <2>4 DEF e
<1> QED BY <1>4, <1>5 DEF a, b, c, d, all

---------------------------------------------------------------------------
(* Recursion over the numbers up to n, by the least one at which it would   *)
(* fail.                                                                   *)

LEMMA NumberInduction ==
    ASSUME NEW T, 0 \in T, \A n \in Nat : n \in T => n + 1 \in T
    PROVE  Nat \subseteq T
<1> SUFFICES ASSUME Nat \ T # {} PROVE FALSE
  OBVIOUS
<1>1. PICK k \in Nat \ T : \A j \in Nat \ T : ~(<<j, k>> \in OpToRel(<, Nat))
  BY NatLessThanWellFounded, WFMin
<1>2. k # 0 /\ k - 1 \in Nat /\ k - 1 < k /\ (k - 1) + 1 = k
  <2>1. k \in Nat /\ k # 0
    OBVIOUS
  <2> QED BY <2>1
<1>3. k - 1 \notin Nat \ T
  BY <1>1, <1>2 DEF OpToRel
<1> QED BY <1>1, <1>2, <1>3

\* A value for 0, and for each number one from that for the number before.
Unrolls(V, v, G, n, f) ==
    f \in [0..n -> V] /\ f[0] = v /\ \A j \in 1..n : f[j] = G[<<j, f[j - 1]>>]

LEMMA RecursionExists ==
    ASSUME NEW V, NEW v \in V, NEW G \in [Nat \X V -> V], NEW n \in Nat
    PROVE  \E f : Unrolls(V, v, G, n, f)
<1> DEFINE Fits(m, f) == f \in [0..m -> V] /\ f[0] = v /\ \A j \in 1..m : f[j] = G[<<j, f[j - 1]>>]
           T == {m \in Nat : \E f : Fits(m, f)}
<1>1. 0 \in T
  <2>1. Fits(0, [j \in 0..0 |-> v])
    OBVIOUS
  <2> QED BY <2>1
<1>2. ASSUME NEW m \in Nat, m \in T PROVE m + 1 \in T
  <2>1. PICK f : Fits(m, f)
    BY <1>2
  <2> DEFINE g == [j \in 0..(m + 1) |-> IF j <= m THEN f[j] ELSE G[<<m + 1, f[m]>>]]
  <2>2. f[m] \in V /\ G[<<m + 1, f[m]>>] \in V /\ \A j \in 0..m : f[j] \in V
    BY <2>1
  <2>3. g \in [0..(m + 1) -> V] /\ g[0] = v
    BY <2>1, <2>2
  <2>4. ASSUME NEW j \in 1..(m + 1) PROVE g[j] = G[<<j, g[j - 1]>>]
    <3>1. j - 1 \in 0..m /\ g[j - 1] = f[j - 1]
      OBVIOUS
    <3>2. CASE j = m + 1
      <4>1. g[j] = G[<<m + 1, f[m]>>] /\ j - 1 = m
        BY <3>2
      <4> QED BY <3>1, <3>2, <4>1
    <3>3. CASE j # m + 1
      <4>1. j \in 1..m
        BY <3>3
      <4>2. g[j] = f[j] /\ f[j] = G[<<j, f[j - 1]>>]
        BY <2>1, <4>1
      <4> QED BY <3>1, <4>2
    <3> QED BY <3>2, <3>3
  <2> HIDE DEF g
  <2>5. Fits(m + 1, g)
    BY <2>3, <2>4
  <2> QED BY <2>5
<1> HIDE DEF T
<1>3. n \in T
  BY <1>1, <1>2, NumberInduction
<1> QED BY <1>3 DEF T, Unrolls

---------------------------------------------------------------------------
(* Where the pieces of an answer end. *)

LEMMA EndsProperties ==
    ASSUME NEW a, a.parts \in Seq(Nat)
    PROVE  /\ Ends(a) \in [0..Len(a.parts) -> Nat] /\ Ends(a)[0] = 0
           /\ \A j \in 1..Len(a.parts) : Ends(a)[j] = Ends(a)[j - 1] + a.parts[j]
<1> DEFINE n == Len(a.parts)
           add(j) == IF j \in 1..n THEN a.parts[j] ELSE 0
           G == [p \in Nat \X Nat |-> p[2] + add(p[1])]
           Sums(f) == f = [j \in 0..n |-> IF j = 0 THEN 0 ELSE f[j - 1] + a.parts[j]]
<1>1. n \in Nat /\ \A j \in 1..n : a.parts[j] \in Nat
  BY LenProperties, ElementOfSeq
<1> HIDE DEF n
<1>2. G \in [Nat \X Nat -> Nat]
  <2>1. \A p \in Nat \X Nat : p[2] + add(p[1]) \in Nat
    BY <1>1
  <2> QED BY <2>1
<1>3. PICK f : Unrolls(Nat, 0, G, n, f)
  <2> HIDE DEF G
  <2>1. 0 \in Nat
    OBVIOUS
  <2> QED BY <1>1, <1>2, <2>1, RecursionExists
<1>4. f \in [0..n -> Nat] /\ f[0] = 0 /\ \A j \in 1..n : f[j] = G[<<j, f[j - 1]>>]
  BY <1>3 DEF Unrolls
<1>5. \A j \in 1..n : f[j] = f[j - 1] + a.parts[j]
  <2> TAKE j \in 1..n
  <2>1. j \in Nat /\ j - 1 \in 0..n
    BY <1>1
  <2>2. <<j, f[j - 1]>> \in Nat \X Nat
    BY <1>4, <2>1
  <2> QED BY <1>4, <2>2
<1>6. Sums(f)
  BY <1>1, <1>4, <1>5
<1>7. Ends(a) = CHOOSE e : Sums(e)
  BY DEF Ends, n
<1>8. Sums(Ends(a))
  <2> HIDE DEF Sums
  <2> QED BY <1>6, <1>7
<1> HIDE DEF G
<1>9. Ends(a) = f
  <2> DEFINE e == Ends(a)
             T == {k \in Nat : k \in 0..n => e[k] = f[k]}
  <2>1. /\ e = [j \in 0..n |-> e[j]]
        /\ e[0] = 0 /\ \A j \in 1..n : e[j] = e[j - 1] + a.parts[j]
    <3> HIDE DEF e
    <3>1. e = [j \in 0..n |-> IF j = 0 THEN 0 ELSE e[j - 1] + a.parts[j]]
      BY <1>8 DEF e
    <3>2. 0 \in 0..n /\ \A j \in 1..n : j \in 0..n /\ j # 0
      BY <1>1
    <3>3. e = [j \in 0..n |-> e[j]]
      BY <3>1
    <3>4. e[0] = 0
      BY <3>1, <3>2
    <3>5. \A j \in 1..n : e[j] = e[j - 1] + a.parts[j]
      BY <3>1, <3>2
    <3> QED BY <3>3, <3>4, <3>5
  <2> HIDE DEF e
  <2>2. 0 \in T
    BY <1>4, <2>1
  <2>3. ASSUME NEW k \in Nat, k \in T PROVE k + 1 \in T
    <3> SUFFICES ASSUME k + 1 \in 0..n PROVE e[k + 1] = f[k + 1]
      OBVIOUS
    <3>1. k + 1 \in 1..n /\ k \in 0..n /\ (k + 1) - 1 = k
      BY <1>1
    <3> QED BY <1>5, <2>1, <2>3, <3>1
  <2>4. Nat \subseteq T
    <3> HIDE DEF T
    <3> QED BY <2>2, <2>3, NumberInduction
  <2>5. \A k \in 0..n : e[k] = f[k]
    BY <2>4, <1>1
  <2> QED BY <1>4, <2>1, <2>5 DEF e
<1> QED BY <1>4, <1>5, <1>9 DEF n

LEMMA EndsBounded ==
    ASSUME NEW a, a.parts \in Seq(Nat)
    PROVE  /\ Total(a) \in Nat
           /\ \A j \in 0..Len(a.parts) : Ends(a)[j] \in 0..Total(a)
<1> DEFINE n == Len(a.parts)
           T == {k \in Nat : k <= n => Ends(a)[n - k] <= Total(a)}
<1>1. n \in Nat /\ \A j \in 1..n : a.parts[j] \in Nat
  BY LenProperties, ElementOfSeq
<1>2. /\ \A j \in 0..n : Ends(a)[j] \in Nat
      /\ \A j \in 1..n : Ends(a)[j] = Ends(a)[j - 1] + a.parts[j]
  BY EndsProperties
<1> HIDE DEF n
<1>3. Total(a) = Ends(a)[n] /\ Total(a) \in Nat
  BY <1>1, <1>2 DEF Total, n
<1>4. 0 \in T
  BY <1>1, <1>3
<1>5. ASSUME NEW k \in Nat, k \in T PROVE k + 1 \in T
  <2> SUFFICES ASSUME k + 1 <= n PROVE Ends(a)[n - (k + 1)] <= Total(a)
    OBVIOUS
  <2> DEFINE j == n - k
  <2>1. j \in 1..n /\ j - 1 = n - (k + 1) /\ j - 1 \in 0..n /\ j \in 0..n
    BY <1>1
  <2>2. Ends(a)[j] <= Total(a)
    BY <1>1, <1>5
  <2> HIDE DEF j
  <2>3. Ends(a)[j - 1] <= Ends(a)[j]
    <3>1. Ends(a)[j] = Ends(a)[j - 1] + a.parts[j] /\ a.parts[j] \in Nat /\ Ends(a)[j - 1] \in Nat
      BY <1>1, <1>2, <2>1
    <3> QED BY <3>1
  <2> QED BY <1>2, <1>3, <2>1, <2>2, <2>3
<1>6. Nat \subseteq T
  <2> HIDE DEF T
  <2> QED BY <1>4, <1>5, NumberInduction
<1>7. ASSUME NEW j \in 0..n PROVE Ends(a)[j] <= Total(a)
  <2>1. n - j \in Nat /\ n - j <= n /\ n - (n - j) = j
    BY <1>1
  <2> QED BY <1>6, <2>1
<1> QED BY <1>2, <1>3, <1>7 DEF n

---------------------------------------------------------------------------
(* The buffers of an answer, one after the other. *)

LEMMA FlattenNone == FlattenSeq(<<>>) = <<>>
BY DEF FlattenSeq

\* What FlattenSeq makes of each beginning of a sequence that is not empty.
Joins(S, ss, f) ==
    /\ f \in [1..Len(ss) -> Seq(S)] /\ f[1] = ss[1]
    /\ \A i \in 2..Len(ss) : f[i] = f[i - 1] \o ss[i]

LEMMA FlattenSteps ==
    ASSUME NEW S, NEW ss \in Seq(Seq(S)), ss # <<>>
    PROVE  \E f : Joins(S, ss, f) /\ FlattenSeq(ss) = f[Len(ss)]
<1> DEFINE n == Len(ss)
           V == Seq(S)
           more(j) == IF j \in 1..(n - 1) THEN ss[j + 1] ELSE <<>>
           G == [p \in Nat \X V |-> p[2] \o more(p[1])]
           Flat(f) == f = [i \in 1..n |-> IF i = 1 THEN ss[i] ELSE f[i - 1] \o ss[i]]
<1>1. n \in Nat \ {0} /\ \A j \in 1..n : ss[j] \in V
  BY EmptySeq, ElementOfSeq
<1> HIDE DEF n
<1>2. G \in [Nat \X V -> V]
  <2>1. \A j : more(j) \in V
    BY <1>1, EmptySeq
  <2>2. \A p \in Nat \X V : p[2] \o more(p[1]) \in V
    <3> HIDE DEF more
    <3> QED BY <2>1, ConcatProperties
  <2> QED BY <2>2
<1>3. PICK g : Unrolls(V, ss[1], G, n - 1, g)
  <2> HIDE DEF G
  <2>1. ss[1] \in V /\ n - 1 \in Nat
    BY <1>1
  <2> QED BY <1>2, <2>1, RecursionExists
<1>4. g \in [0..(n - 1) -> V] /\ g[0] = ss[1] /\ \A j \in 1..(n - 1) : g[j] = G[<<j, g[j - 1]>>]
  BY <1>3 DEF Unrolls
<1> DEFINE f == [i \in 1..n |-> g[i - 1]]
<1>5. f \in [1..n -> V] /\ f[1] = ss[1]
  BY <1>1, <1>4
<1>6. \A i \in 2..n : f[i] = f[i - 1] \o ss[i]
  <2> TAKE i \in 2..n
  <2>1. i - 1 \in 1..(n - 1) /\ i - 1 \in Nat /\ i - 1 \in 1..n /\ i \in 1..n /\ (i - 1) + 1 = i
        /\ (i - 1) - 1 \in 0..(n - 1)
    BY <1>1
  <2>2. f[i] = g[i - 1] /\ f[i - 1] = g[(i - 1) - 1] /\ g[(i - 1) - 1] \in V
    BY <1>4, <2>1
  <2> HIDE DEF f
  <2>3. g[i - 1] = G[<<i - 1, g[(i - 1) - 1]>>]
    BY <1>4, <2>1
  <2>4. <<i - 1, g[(i - 1) - 1]>> \in Nat \X V
    BY <2>1, <2>2
  <2>5. g[i - 1] = g[(i - 1) - 1] \o more(i - 1) /\ more(i - 1) = ss[i]
    BY <2>1, <2>3, <2>4
  <2> QED BY <2>2, <2>5
<1> HIDE DEF f, G, V
<1>7. Flat(f)
  <2>1. \A i \in 1..n : i # 1 => i \in 2..n
    BY <1>1
  <2>2. \A i \in 1..n : f[i] = IF i = 1 THEN ss[i] ELSE f[i - 1] \o ss[i]
    BY <1>5, <1>6, <2>1
  <2>3. f = [i \in 1..n |-> f[i]]
    BY <1>5
  <2> QED BY <2>2, <2>3
<1>8. FlattenSeq(ss) = (CHOOSE h : Flat(h))[n]
  BY <1>1 DEF FlattenSeq, n
<1>9. PICK h : Flat(h) /\ FlattenSeq(ss) = h[n]
  <2> HIDE DEF Flat
  <2> QED BY <1>7, <1>8
<1>10. h = f
  <2> DEFINE T == {k \in Nat : k + 1 \in 1..n => h[k + 1] = f[k + 1]}
  <2>1. /\ h = [i \in 1..n |-> h[i]]
        /\ h[1] = ss[1] /\ \A i \in 2..n : h[i] = h[i - 1] \o ss[i]
    <3>1. h = [i \in 1..n |-> IF i = 1 THEN ss[i] ELSE h[i - 1] \o ss[i]]
      BY <1>9
    <3>2. 1 \in 1..n /\ \A i \in 2..n : i \in 1..n /\ i # 1
      BY <1>1
    <3>3. h = [i \in 1..n |-> h[i]]
      BY <3>1
    <3>4. h[1] = ss[1]
      BY <3>1, <3>2
    <3>5. \A i \in 2..n : h[i] = h[i - 1] \o ss[i]
      BY <3>1, <3>2
    <3> QED BY <3>3, <3>4, <3>5
  <2>2. 0 \in T
    BY <1>5, <2>1
  <2>3. ASSUME NEW k \in Nat, k \in T PROVE k + 1 \in T
    <3> SUFFICES ASSUME (k + 1) + 1 \in 1..n PROVE h[(k + 1) + 1] = f[(k + 1) + 1]
      OBVIOUS
    <3> DEFINE i == (k + 1) + 1
    <3>1. i \in 2..n /\ k + 1 \in 1..n /\ i - 1 = k + 1
      BY <1>1
    <3>2. h[k + 1] = f[k + 1]
      BY <2>3, <3>1
    <3> HIDE DEF i
    <3> QED BY <1>6, <2>1, <3>1, <3>2 DEF i
  <2>4. Nat \subseteq T
    <3> HIDE DEF T
    <3> QED BY <2>2, <2>3, NumberInduction
  <2>5. \A i \in 1..n : h[i] = f[i]
    <3> TAKE i \in 1..n
    <3>1. i - 1 \in Nat /\ (i - 1) + 1 = i
      BY <1>1
    <3> QED BY <2>4, <3>1
  <2> QED BY <1>5, <2>1, <2>5
<1>11. Joins(S, ss, f)
  BY <1>5, <1>6 DEF Joins, n, V
<1> QED BY <1>9, <1>10, <1>11 DEF n

LEMMA FlattenType ==
    ASSUME NEW S, NEW ss \in Seq(Seq(S))
    PROVE  FlattenSeq(ss) \in Seq(S)
<1>1. CASE ss = <<>>
  BY <1>1, FlattenNone, EmptySeq
<1>2. CASE ss # <<>>
  <2>1. PICK f : Joins(S, ss, f) /\ FlattenSeq(ss) = f[Len(ss)]
    BY <1>2, FlattenSteps
  <2>2. Len(ss) \in 1..Len(ss)
    BY <1>2, EmptySeq
  <2> QED BY <2>1, <2>2 DEF Joins
<1> QED BY <1>1, <1>2

LEMMA FlattenAppend ==
    ASSUME NEW S, NEW ss \in Seq(Seq(S)), NEW s \in Seq(S)
    PROVE  FlattenSeq(Append(ss, s)) = FlattenSeq(ss) \o s
<1> DEFINE tt == Append(ss, s)
           n == Len(ss)
<1>1. /\ tt \in Seq(Seq(S)) /\ tt # <<>> /\ Len(tt) = n + 1 /\ n \in Nat
      /\ \A i \in 1..n : tt[i] = ss[i]
      /\ tt[n + 1] = s
  BY AppendProperties, LenProperties
<1> HIDE DEF tt
<1>2. PICK g : Joins(S, tt, g) /\ FlattenSeq(tt) = g[n + 1]
  BY <1>1, FlattenSteps
<1>3. CASE ss = <<>>
  <2>1. n = 0
    BY <1>3
  <2>2. g[1] = s
    BY <1>1, <1>2, <2>1 DEF Joins
  <2>3. FlattenSeq(ss) \o s = s
    BY <1>3, FlattenNone, ConcatEmptySeq
  <2> QED BY <1>2, <2>1, <2>2, <2>3 DEF tt
<1>4. CASE ss # <<>>
  <2>1. PICK f : Joins(S, ss, f) /\ FlattenSeq(ss) = f[n]
    BY <1>4, FlattenSteps
  <2>2. n \in 1..n /\ n + 1 \in 2..Len(tt) /\ (n + 1) - 1 = n /\ n <= Len(tt) /\ n <= Len(ss)
    BY <1>1, <1>4, EmptySeq
  <2>3. \A i \in 1..n : ss[i] = tt[i]
    BY <1>1
  <2>4. f[n] = g[n]
    <3> DEFINE T == {k \in Nat : k + 1 \in 1..n => f[k + 1] = g[k + 1]}
    <3>1. /\ f[1] = ss[1] /\ \A i \in 2..n : f[i] = f[i - 1] \o ss[i]
          /\ g[1] = tt[1] /\ \A i \in 2..(n + 1) : g[i] = g[i - 1] \o tt[i]
      BY <1>1, <1>2, <2>1 DEF Joins
    <3> HIDE DEF n
    <3>2. 0 \in T
      BY <2>3, <3>1
    <3>3. ASSUME NEW k \in Nat, k \in T PROVE k + 1 \in T
      <4> SUFFICES ASSUME (k + 1) + 1 \in 1..n PROVE f[(k + 1) + 1] = g[(k + 1) + 1]
        OBVIOUS
      <4> DEFINE i == (k + 1) + 1
      <4>1. i \in 1..n /\ i \in 2..n /\ i \in 2..(n + 1) /\ k + 1 \in 1..n /\ i - 1 = k + 1
        BY <1>1
      <4>2. f[k + 1] = g[k + 1]
        BY <3>3, <4>1
      <4> HIDE DEF i
      <4>3. f[i] = f[k + 1] \o ss[i] /\ g[i] = g[k + 1] \o tt[i] /\ ss[i] = tt[i]
        BY <2>3, <3>1, <4>1
      <4>4. f[i] = g[i]
        BY <4>2, <4>3
      <4> QED BY <4>4 DEF i
    <3>4. Nat \subseteq T
      <4> HIDE DEF T
      <4> QED BY <3>2, <3>3, NumberInduction
    <3>5. n - 1 \in Nat /\ (n - 1) + 1 = n
      BY <1>1, <2>2
    <3> QED BY <2>2, <3>4, <3>5
  <2>5. g[n + 1] = g[n] \o tt[n + 1]
    BY <1>2, <2>2 DEF Joins
  <2> QED BY <1>1, <1>2, <2>1, <2>4, <2>5 DEF tt
<1> QED BY <1>3, <1>4

---------------------------------------------------------------------------
(* What the DB Server sends. *)

LEMMA Sizes ==
    /\ Room \in Nat \ {0} /\ Slack \in Nat \ {0} /\ MarkLen \in Nat \ {0} /\ PreLen \in Nat \ {0}
    /\ MaxClen \in Nat \ {0} /\ Width \in Nat \ {0} /\ MaxRequests \in Nat \ {0} /\ Chunking \in Nat
    /\ MarkLen < Room /\ MarkLen <= Slack /\ PreLen <= Room
BY AnswerStreamAssumption DEF AnswerStreamAssumption

LEMMA AnswerType ==
    ASSUME NEW a \in Answers
    PROVE  /\ a.mode \in {"plain", "block", "ascii", "sse"} /\ a.parts \in Seq(Nat)
           /\ a.clen \in BOOLEAN /\ a.broken \in BOOLEAN
           /\ Len(a.parts) \in Nat /\ Total(a) \in Nat
           /\ \A j \in 1..Len(a.parts) : a.parts[j] \in Nat
           /\ Ends(a)[0] = 0 /\ Ends(a)[Len(a.parts)] = Total(a)
           /\ \A j \in 0..Len(a.parts) : Ends(a)[j] \in 0..Total(a)
           /\ \A j \in 1..Len(a.parts) : Ends(a)[j] = Ends(a)[j - 1] + a.parts[j]
<1>1. a \in AnswerRecord
  BY AnswerStreamAssumption DEF AnswerStreamAssumption
<1>2. /\ a.mode \in {"plain", "block", "ascii", "sse"} /\ a.parts \in Seq(Nat)
      /\ a.clen \in BOOLEAN /\ a.broken \in BOOLEAN
  BY <1>1 DEF AnswerRecord
<1>3. Len(a.parts) \in Nat /\ \A j \in 1..Len(a.parts) : a.parts[j] \in Nat
  BY <1>2, LenProperties, ElementOfSeq
<1> QED BY <1>2, <1>3, EndsProperties, EndsBounded DEF Total

LEMMA TokType ==
    ASSUME NEW k \in Kinds, NEW r \in Nat, NEW n \in Nat
    PROVE  Tok(k, r, n) \in Byte /\ Tok(k, r, n).kind = k /\ Tok(k, r, n).n = n
BY DEF Tok, Byte

\* The content of an answer and its marker, whatever is sent of them.
Told(r, a) == Body(r, a) \o Marks(r)
Whole(a) == Total(a) + MarkLen

LEMMA ToldProperties ==
    ASSUME NEW r \in Nat, NEW a \in Answers
    PROVE  /\ Told(r, a) \in Seq(Byte) /\ Len(Told(r, a)) = Whole(a)
           /\ \A i \in 1..Whole(a) : Told(r, a)[i].kind = IF i <= Total(a) THEN "data" ELSE "mark"
           /\ Part(Told(r, a), 0, Total(a)) = Body(r, a)
           /\ Part(Told(r, a), Total(a), Whole(a)) = Marks(r)
           /\ \A j \in 1..Len(a.parts) : Block(r, a, j) = Part(Told(r, a), Ends(a)[j - 1], Ends(a)[j])
<1> DEFINE b == Body(r, a)
           m == Marks(r)
           t == Told(r, a)
           N == Total(a)
<1>1. N \in Nat /\ MarkLen \in Nat
  BY AnswerType, Sizes
<1>2. /\ b \in Seq(Byte) /\ Len(b) = N /\ \A i \in 1..N : b[i] \in Byte /\ b[i].kind = "data"
  <2>1. \A i \in 1..N : Tok("data", r, i) \in Byte /\ Tok("data", r, i).kind = "data"
    BY TokType DEF Kinds
  <2>2. b = [i \in 1..N |-> Tok("data", r, i)]
    BY DEF Body
  <2> HIDE DEF b, N
  <2> QED BY <1>1, <2>1, <2>2
<1>3. /\ m \in Seq(Byte) /\ Len(m) = MarkLen /\ \A i \in 1..MarkLen : m[i] \in Byte /\ m[i].kind = "mark"
  <2>1. Tok("mark", r, 0) \in Byte /\ Tok("mark", r, 0).kind = "mark"
    BY TokType DEF Kinds
  <2>2. m = [i \in 1..MarkLen |-> Tok("mark", r, 0)]
    BY DEF Marks
  <2> HIDE DEF m
  <2> QED BY <1>1, <2>1, <2>2
<1>4. t = b \o m /\ Whole(a) = N + MarkLen
  BY DEF Told, Whole
<1> HIDE DEF b, m, t, N
<1>5. /\ t \in Seq(Byte) /\ Len(t) = N + MarkLen
      /\ \A i \in 1..(N + MarkLen) : t[i] = IF i <= N THEN b[i] ELSE m[i - N]
  BY <1>2, <1>3, <1>4, ConcatProperties
<1>6. \A i \in 1..(N + MarkLen) : t[i].kind = IF i <= N THEN "data" ELSE "mark"
  <2> TAKE i \in 1..(N + MarkLen)
  <2>1. CASE i <= N
    BY <1>1, <1>2, <1>5, <2>1
  <2>2. CASE ~(i <= N)
    <3>1. i - N \in 1..MarkLen
      BY <1>1, <2>2
    <3> QED BY <1>3, <1>5, <2>2, <3>1
  <2> QED BY <2>1, <2>2
<1>7. ASSUME NEW lo \in Nat, NEW hi \in Nat, lo <= hi, hi <= N
      PROVE  SubSeq(b, lo + 1, hi) = Part(t, lo, hi)
  <2> DEFINE p == Part(b, lo, hi)
             q == Part(t, lo, hi)
  <2>1. /\ p \in Seq(Byte) /\ Len(p) = hi - lo /\ \A i \in 1..(hi - lo) : p[i] = b[lo + i]
    BY <1>2, <1>7, PartProperties
  <2>2. /\ q \in Seq(Byte) /\ Len(q) = hi - lo /\ \A i \in 1..(hi - lo) : q[i] = t[lo + i]
    <3>1. hi <= Len(t) /\ lo <= hi /\ t \in Seq(Byte)
      BY <1>1, <1>5, <1>7
    <3> QED BY <3>1, PartProperties
  <2> HIDE DEF p, q
  <2>3. ASSUME NEW i \in 1..(hi - lo) PROVE p[i] = q[i]
    <3>1. lo + i \in 1..(N + MarkLen) /\ lo + i <= N
      BY <1>1, <1>7
    <3>2. t[lo + i] = b[lo + i]
      BY <1>5, <3>1
    <3> QED BY <2>1, <2>2, <3>2
  <2>4. p = q
    BY <2>1, <2>2, <2>3, SeqEqual
  <2> QED BY <2>4 DEF p, q, Part
<1>8. Part(t, 0, N) = b
  <2>1. 0 \in Nat /\ 0 <= N /\ N <= N /\ 0 + 1 = 1
    BY <1>1
  <2>2. SubSeq(b, 0 + 1, N) = Part(t, 0, N)
    BY <1>1, <1>7, <2>1
  <2>3. SubSeq(b, 1, N) = b
    BY <1>2, SubSeqFull
  <2> QED BY <2>1, <2>2, <2>3
<1>9. Part(t, N, N + MarkLen) = m
  <2> DEFINE q == Part(t, N, N + MarkLen)
  <2>1. N + MarkLen \in Nat /\ N <= N + MarkLen /\ N + MarkLen <= Len(t) /\ (N + MarkLen) - N = MarkLen
    BY <1>1, <1>5
  <2>2. q \in Seq(Byte) /\ Len(q) = (N + MarkLen) - N
        /\ \A i \in 1..((N + MarkLen) - N) : q[i] = t[N + i]
    <3>1. t \in Seq(Byte)
      BY <1>5
    <3> QED BY <1>1, <2>1, <3>1, PartProperties
  <2> HIDE DEF q
  <2>3. ASSUME NEW i \in 1..MarkLen PROVE q[i] = m[i]
    <3>1. N + i \in 1..(N + MarkLen) /\ ~(N + i <= N) /\ (N + i) - N = i
      BY <1>1
    <3>2. t[N + i] = m[i]
      BY <1>5, <3>1
    <3> QED BY <2>1, <2>2, <3>2
  <2> QED BY <1>3, <2>1, <2>2, <2>3, SeqEqual DEF q
<1>10. ASSUME NEW j \in 1..Len(a.parts) PROVE Block(r, a, j) = Part(t, Ends(a)[j - 1], Ends(a)[j])
  <2> DEFINE lo == Ends(a)[j - 1]
             hi == Ends(a)[j]
  <2>1. j - 1 \in 0..Len(a.parts) /\ j \in 0..Len(a.parts)
    BY AnswerType
  <2>2. lo \in Nat /\ hi \in Nat /\ hi <= N /\ hi = lo + a.parts[j] /\ a.parts[j] \in Nat
    BY <2>1, AnswerType DEF N
  <2>3. Block(r, a, j) = SubSeq(b, lo + 1, hi)
    BY DEF Block, b
  <2> HIDE DEF lo, hi
  <2>4. lo <= hi
    BY <2>2
  <2> QED BY <1>7, <2>2, <2>3, <2>4 DEF lo, hi
<1> QED BY <1>4, <1>5, <1>6, <1>8, <1>9, <1>10 DEF b, m, t, N

LEMMA AfterUnrolls ==
    ASSUME NEW r \in Nat, NEW a \in Answers
    PROVE  /\ \A j \in 0..Len(a.parts) : After(r, a)[j] \in Seq(Byte)
           /\ After(r, a)[Len(a.parts)] = IF a.broken THEN Marks(r) ELSE <<Tok("end", r, 0)>>
           /\ \A j \in 0..(Len(a.parts) - 1) :
                After(r, a)[j] = (HeadOf(r, a, j + 1) \o Block(r, a, j + 1)) \o After(r, a)[j + 1]
<1> DEFINE n == Len(a.parts)
           V == Seq(Byte)
           last == IF a.broken THEN Marks(r) ELSE <<Tok("end", r, 0)>>
           more(j) == HeadOf(r, a, j) \o Block(r, a, j)
           G == [p \in Nat \X V |-> IF p[1] \in 1..n THEN more((n - p[1]) + 1) \o p[2] ELSE p[2]]
           Falls(f) == f = [j \in 0..n |-> IF j = n THEN last
                                           ELSE HeadOf(r, a, j + 1) \o Block(r, a, j + 1) \o f[j + 1]]
<1>1. n \in Nat /\ \A j \in 1..n : a.parts[j] \in Nat
  BY AnswerType
<1>2. last \in V /\ \A j \in 1..n : more(j) \in V
  <2>1. Marks(r) \in V /\ \A j \in 1..n : Block(r, a, j) \in V
    <3> DEFINE t == Told(r, a)
    <3>1. t \in V /\ Len(t) = Whole(a) /\ Whole(a) \in Nat /\ Total(a) \in Nat /\ Total(a) <= Whole(a)
      BY ToldProperties, AnswerType, Sizes DEF Whole
    <3>2. Part(t, Total(a), Whole(a)) = Marks(r)
      BY ToldProperties
    <3>3. \A j \in 1..n : Block(r, a, j) = Part(t, Ends(a)[j - 1], Ends(a)[j])
      BY ToldProperties
    <3> HIDE DEF t, n
    <3>4. Part(t, Total(a), Whole(a)) \in V
      <4>1. Whole(a) <= Len(t)
        BY <3>1
      <4> QED BY <3>1, <4>1, PartProperties
    <3>5. ASSUME NEW j \in 1..n PROVE Part(t, Ends(a)[j - 1], Ends(a)[j]) \in V
      <4> DEFINE lo == Ends(a)[j - 1]
                 hi == Ends(a)[j]
      <4>1. j - 1 \in 0..n /\ j \in 0..n
        BY <1>1
      <4>2. lo \in 0..Total(a) /\ hi \in 0..Total(a) /\ Total(a) \in Nat
        BY <4>1, AnswerType DEF n
      <4>3. hi = lo + a.parts[j]
        BY AnswerType DEF n
      <4> HIDE DEF lo, hi
      <4>4. lo \in Nat /\ hi \in Nat /\ lo <= hi /\ hi <= Len(t)
        BY <1>1, <3>1, <4>2, <4>3
      <4> QED BY <3>1, <4>4, PartProperties DEF lo, hi
    <3> QED BY <3>2, <3>3, <3>4, <3>5
  <2>2. Tok("end", r, 0) \in Byte /\ \A j \in 1..n : Tok("size", r, a.parts[j]) \in Byte
    BY <1>1, TokType DEF Kinds
  <2>3. \A j \in 1..n : HeadOf(r, a, j) \in V
    BY <2>2, EmptySeq DEF HeadOf
  <2>4. \A j \in 1..n : more(j) \in V
    BY <2>1, <2>3, ConcatProperties
  <2> QED BY <2>1, <2>2, <2>4
<1> HIDE DEF n, last, more
<1>3. G \in [Nat \X V -> V]
  <2>1. ASSUME NEW k \in Nat, NEW v \in V, k \in 1..n PROVE more((n - k) + 1) \o v \in V
    <3>1. (n - k) + 1 \in 1..n
      BY <1>1, <2>1
    <3> QED BY <1>2, <3>1, ConcatProperties
  <2> QED BY <2>1
<1>4. PICK g : Unrolls(V, last, G, n, g)
  <2> HIDE DEF G, V
  <2> QED BY <1>1, <1>2, <1>3, RecursionExists
<1>5. g \in [0..n -> V] /\ g[0] = last /\ \A j \in 1..n : g[j] = G[<<j, g[j - 1]>>]
  BY <1>4 DEF Unrolls
<1> DEFINE f == [j \in 0..n |-> g[n - j]]
<1>6. Falls(f)
  <2>1. f[n] = last
    <3>1. n \in 0..n /\ n - n = 0
      BY <1>1
    <3> QED BY <1>5, <3>1
  <2>2. ASSUME NEW j \in 0..n, j # n PROVE f[j] = HeadOf(r, a, j + 1) \o Block(r, a, j + 1) \o f[j + 1]
    <3> DEFINE k == n - j
    <3>1. k \in 1..n /\ k - 1 = n - (j + 1) /\ k - 1 \in 0..n /\ j + 1 \in 0..n /\ (n - k) + 1 = j + 1
      BY <1>1, <2>2
    <3>2. f[j] = g[k] /\ f[j + 1] = g[k - 1]
      BY <3>1
    <3> HIDE DEF f, k
    <3>3. g[k - 1] \in V /\ k \in Nat
      BY <1>5, <3>1
    <3>4. <<k, g[k - 1]>> \in Nat \X V /\ g[k] = G[<<k, g[k - 1]>>]
      <4> HIDE DEF G, V
      <4> QED BY <1>5, <3>1, <3>3
    <3>5. g[k] = more((n - k) + 1) \o g[k - 1]
      BY <3>1, <3>4
    <3>6. more((n - k) + 1) = HeadOf(r, a, j + 1) \o Block(r, a, j + 1)
      BY <3>1 DEF more
    <3> QED BY <3>2, <3>5, <3>6
  <2>3. f = [j \in 0..n |-> f[j]]
    OBVIOUS
  <2> HIDE DEF f
  <2> QED BY <2>1, <2>2, <2>3
<1>7. After(r, a) = CHOOSE e : Falls(e)
  BY DEF After, n, last
<1>8. Falls(After(r, a))
  <2> HIDE DEF Falls
  <2> QED BY <1>6, <1>7
<1> DEFINE e == After(r, a)
<1>9. /\ e[n] = last
      /\ \A j \in 0..(n - 1) : e[j] = more(j + 1) \o e[j + 1]
  <2> HIDE DEF e
  <2>1. e = [j \in 0..n |-> IF j = n THEN last ELSE HeadOf(r, a, j + 1) \o Block(r, a, j + 1) \o e[j + 1]]
    BY <1>8 DEF e
  <2>2. n \in 0..n /\ \A j \in 0..(n - 1) : j \in 0..n /\ j # n
    BY <1>1
  <2>3. e[n] = last
    BY <2>1, <2>2
  <2>4. \A j \in 0..(n - 1) : e[j] = more(j + 1) \o e[j + 1]
    BY <2>1, <2>2 DEF more
  <2> QED BY <2>3, <2>4
<1> HIDE DEF e, f, G, V
<1>10. \A j \in 0..n : e[j] \in V
  <2> DEFINE T == {k \in Nat : k <= n => e[n - k] \in V}
  <2>1. 0 \in T
    BY <1>1, <1>2, <1>9
  <2>2. ASSUME NEW k \in Nat, k \in T PROVE k + 1 \in T
    <3> SUFFICES ASSUME k + 1 <= n PROVE e[n - (k + 1)] \in V
      OBVIOUS
    <3> DEFINE j == n - (k + 1)
    <3>1. j \in 0..(n - 1) /\ j + 1 = n - k /\ j + 1 \in 1..n
      BY <1>1
    <3>2. e[j + 1] \in V
      BY <1>1, <2>2, <3>1
    <3> HIDE DEF j
    <3>3. e[j] = more(j + 1) \o e[j + 1] /\ more(j + 1) \in V
      BY <1>2, <1>9, <3>1
    <3>4. e[j] \in V
      BY <3>2, <3>3, ConcatProperties DEF V
    <3> QED BY <3>4 DEF j
  <2>3. Nat \subseteq T
    <3> HIDE DEF T
    <3> QED BY <2>1, <2>2, NumberInduction
  <2> TAKE j \in 0..n
  <2>4. n - j \in Nat /\ n - j <= n /\ n - (n - j) = j
    BY <1>1
  <2> QED BY <2>3, <2>4
<1> QED BY <1>9, <1>10 DEF n, last, more, e, V

---------------------------------------------------------------------------
(* Pieces of what was told, and the heads between the blocks. *)

Piece(r, a, lo, hi) == Part(Told(r, a), lo, hi)

LEMMA PieceType ==
    ASSUME NEW r \in Nat, NEW a \in Answers, NEW lo \in Nat, NEW hi \in Nat, lo <= hi, hi <= Whole(a)
    PROVE  Piece(r, a, lo, hi) \in Seq(Byte) /\ Len(Piece(r, a, lo, hi)) = hi - lo
<1> DEFINE t == Told(r, a)
<1>1. t \in Seq(Byte) /\ hi <= Len(t)
  BY ToldProperties
<1> HIDE DEF t
<1>2. Part(t, lo, hi) \in Seq(Byte) /\ Len(Part(t, lo, hi)) = hi - lo
  BY <1>1, PartProperties
<1> QED BY <1>2 DEF Piece, t

LEMMA PieceKinds ==
    ASSUME NEW r \in Nat, NEW a \in Answers, NEW lo \in Nat, NEW hi \in Nat, lo <= hi, hi <= Whole(a),
           NEW i \in 1..(hi - lo)
    PROVE  Piece(r, a, lo, hi)[i].kind = IF lo + i <= Total(a) THEN "data" ELSE "mark"
<1>1. /\ Told(r, a) \in Seq(Byte) /\ Len(Told(r, a)) = Whole(a)
      /\ \A k \in 1..Whole(a) : Told(r, a)[k].kind = IF k <= Total(a) THEN "data" ELSE "mark"
  BY ToldProperties
<1>2. Part(Told(r, a), lo, hi)[i] = Told(r, a)[lo + i]
  BY <1>1, PartProperties
<1>3. Whole(a) \in Nat
  BY <1>1, LenProperties
<1>4. lo + i \in 1..Whole(a)
  BY <1>3
<1> QED BY <1>1, <1>2, <1>4 DEF Piece

LEMMA PieceNone ==
    ASSUME NEW r, NEW a, NEW n \in Nat PROVE Piece(r, a, n, n) = <<>>
BY PartNone DEF Piece

LEMMA PieceJoin ==
    ASSUME NEW r \in Nat, NEW a \in Answers, NEW lo \in Nat, NEW mid \in Nat, NEW hi \in Nat,
           lo <= mid, mid <= hi, hi <= Whole(a)
    PROVE  Piece(r, a, lo, mid) \o Piece(r, a, mid, hi) = Piece(r, a, lo, hi)
<1>1. Told(r, a) \in Seq(Byte) /\ hi <= Len(Told(r, a))
  BY ToldProperties
<1> QED BY <1>1, PartJoin DEF Piece

LEMMA PieceSplit ==
    ASSUME NEW r \in Nat, NEW a \in Answers, NEW lo \in Nat, NEW hi \in Nat, lo <= hi, hi <= Whole(a),
           NEW n \in 0..(hi - lo)
    PROVE  /\ Begin(Piece(r, a, lo, hi), n) = Piece(r, a, lo, lo + n)
           /\ Rest(Piece(r, a, lo, hi), n) = Piece(r, a, lo + n, hi)
<1> DEFINE t == Told(r, a)
<1>1. t \in Seq(Byte) /\ hi <= Len(t)
  BY ToldProperties
<1>2. /\ Begin(Part(t, lo, hi), n) = Part(t, lo, lo + n)
      /\ Rest(Part(t, lo, hi), n) = Part(t, lo + n, hi)
  <2> HIDE DEF t
  <2> QED BY <1>1, PartSplit
<1> QED BY <1>2 DEF Piece

LEMMA PieceJoinSplit ==
    ASSUME NEW r \in Nat, NEW a \in Answers, NEW lo \in Nat, NEW hi \in Nat, lo <= hi, hi <= Whole(a),
           NEW n \in 0..(hi - lo), NEW t \in Seq(Byte)
    PROVE  /\ Begin(Piece(r, a, lo, hi) \o t, n) = Piece(r, a, lo, lo + n)
           /\ Rest(Piece(r, a, lo, hi) \o t, n) = Piece(r, a, lo + n, hi) \o t
<1> DEFINE p == Piece(r, a, lo, hi)
<1>1. p \in Seq(Byte) /\ Len(p) = hi - lo
  BY PieceType
<1>2. Begin(p, n) = Piece(r, a, lo, lo + n) /\ Rest(p, n) = Piece(r, a, lo + n, hi)
  BY PieceSplit
<1> HIDE DEF p
<1>3. n \in 0..Len(p)
  BY <1>1
<1>4. Begin(p \o t, n) = Begin(p, n) /\ Rest(p \o t, n) = Rest(p, n) \o t
  BY <1>1, <1>3, JoinSplit
<1> QED BY <1>2, <1>4 DEF p

\* A sequence whose first element is known, and the others.
LEMMA HeadAndRest ==
    ASSUME NEW S, NEW e \in S, NEW t \in Seq(S)
    PROVE  /\ <<e>> \o t \in Seq(S) /\ Len(<<e>> \o t) >= 1
           /\ Head(<<e>> \o t) = e /\ Rest(<<e>> \o t, 1) = t
<1> DEFINE s == <<e>>
           w == s \o t
<1>1. s \in Seq(S) /\ Len(s) = 1 /\ s[1] = e /\ Len(t) \in Nat
  BY LenProperties
<1> HIDE DEF s
<1>2. Rest(s, 1) = <<>>
  <2>1. 1 + 1 > Len(s)
    BY <1>1
  <2> QED BY <1>1, <2>1, SubSeqEmpty DEF Rest
<1>3. /\ w \in Seq(S) /\ Len(w) = Len(s) + Len(t)
      /\ \A i \in 1..(Len(s) + Len(t)) : w[i] = IF i <= Len(s) THEN s[i] ELSE t[i - Len(s)]
  BY <1>1, ConcatProperties
<1>4. Rest(w, 1) = Rest(s, 1) \o t
  <2>1. 1 \in 0..Len(s)
    BY <1>1
  <2> QED BY <1>1, <2>1, JoinSplit
<1>5. <<>> \o t = t
  BY ConcatEmptySeq
<1> HIDE DEF w
<1>6. Head(w) = w[1] /\ w[1] = s[1]
  <2>1. Len(w) # 0 /\ 1 \in 1..(Len(s) + Len(t)) /\ 1 <= Len(s)
    BY <1>1, <1>3
  <2> QED BY <1>3, <2>1
<1>7. Len(w) >= 1
  BY <1>1, <1>3
<1> QED BY <1>1, <1>2, <1>3, <1>4, <1>5, <1>6, <1>7 DEF s, w

LEMMA SentProperties ==
    ASSUME NEW r \in Nat, NEW a \in Answers
    PROVE  /\ Sent(r, a) \in Seq(Byte)
           /\ Head(Sent(r, a)) = Tok("head", r, IF a.mode = "plain" THEN PreLen + Total(a) ELSE 0)
           /\ Rest(Sent(r, a), 1) =
                CASE a.mode \in {"plain", "sse"} -> Piece(r, a, 0, Total(a))
                  [] a.mode = "ascii"            -> Piece(r, a, 0, Whole(a))
                  [] a.mode = "block"            -> After(r, a)[0]
<1> DEFINE h == Tok("head", r, IF a.mode = "plain" THEN PreLen + Total(a) ELSE 0)
           t == CASE a.mode \in {"plain", "sse"} -> Piece(r, a, 0, Total(a))
                  [] a.mode = "ascii"            -> Piece(r, a, 0, Whole(a))
                  [] a.mode = "block"            -> After(r, a)[0]
<1>1. Total(a) \in Nat /\ Whole(a) \in Nat /\ Total(a) <= Whole(a) /\ PreLen + Total(a) \in Nat
      /\ 0 <= Total(a) /\ 0 <= Whole(a) /\ Whole(a) <= Whole(a)
  BY AnswerType, Sizes DEF Whole
<1>2. h \in Byte
  <2>1. (IF a.mode = "plain" THEN PreLen + Total(a) ELSE 0) \in Nat
    BY <1>1
  <2>2. "head" \in Kinds
    BY DEF Kinds
  <2> QED BY <2>1, <2>2, TokType
<1>3. Body(r, a) = Piece(r, a, 0, Total(a)) /\ Marks(r) = Piece(r, a, Total(a), Whole(a))
  BY ToldProperties DEF Piece
<1>4. Body(r, a) \o Marks(r) = Piece(r, a, 0, Whole(a))
  <2> DEFINE n == Total(a)
             w == Whole(a)
  <2> HIDE DEF n, w
  <2>1. n \in Nat /\ w \in Nat /\ 0 \in Nat /\ 0 <= n /\ n <= w /\ w <= Whole(a)
    BY <1>1 DEF n, w
  <2>2. Piece(r, a, 0, n) \o Piece(r, a, n, w) = Piece(r, a, 0, w)
    BY <2>1, PieceJoin
  <2> QED BY <1>3, <2>2 DEF n, w
<1>5. Sent(r, a) = <<h>> \o t
  BY <1>3, <1>4, AnswerType DEF Sent
<1>6. t \in Seq(Byte)
  <2>1. Piece(r, a, 0, Total(a)) \in Seq(Byte) /\ Piece(r, a, 0, Whole(a)) \in Seq(Byte)
    BY <1>1, PieceType
  <2>2. After(r, a)[0] \in Seq(Byte)
    <3>1. 0 \in 0..Len(a.parts)
      BY AnswerType
    <3> QED BY <3>1, AfterUnrolls
  <2> QED BY <2>1, <2>2, AnswerType
<1> HIDE DEF h, t
<1>7. /\ <<h>> \o t \in Seq(Byte) /\ Head(<<h>> \o t) = h
      /\ Rest(<<h>> \o t, 1) = t
  BY <1>2, <1>6, HeadAndRest
<1> QED BY <1>5, <1>7 DEF h, t

\* What is at the beginning of the blocks that follow the j-th.
LEMMA BlockHeads ==
    ASSUME NEW r \in Nat, NEW a \in Answers, NEW j \in 0..Len(a.parts), NEW w, w = After(r, a)[j]
    PROVE  /\ w \in Seq(Byte)
           /\ Head(w).kind = "size" =>
                /\ j < Len(a.parts) /\ Head(w).n = a.parts[j + 1]
                /\ Rest(w, 1) =
                     Piece(r, a, Ends(a)[j], Ends(a)[j + 1]) \o After(r, a)[j + 1]
           /\ Head(w).kind = "end" =>
                j = Len(a.parts) /\ ~a.broken /\ Rest(w, 1) = <<>>
           /\ Head(w).kind = "data" => a.broken /\ w = Piece(r, a, Ends(a)[j], Whole(a))
<1> DEFINE n == Len(a.parts)
           A(k) == After(r, a)[k]
<1>1. n \in Nat /\ Total(a) \in Nat /\ Whole(a) \in Nat /\ MarkLen \in Nat \ {0}
      /\ Whole(a) = Total(a) + MarkLen /\ a.broken \in BOOLEAN
  BY AnswerType, Sizes DEF Whole
<1>2. /\ \A k \in 0..n : A(k) \in Seq(Byte)
      /\ A(n) = IF a.broken THEN Marks(r) ELSE <<Tok("end", r, 0)>>
      /\ \A k \in 0..(n - 1) : A(k) = (HeadOf(r, a, k + 1) \o Block(r, a, k + 1)) \o A(k + 1)
  BY AfterUnrolls
<1> HIDE DEF n, A
<1>3. w = A(j) /\ j \in 0..n
  BY DEF n, A
<1>4. CASE j = n /\ ~a.broken
  <2> DEFINE e == Tok("end", r, 0)
  <2>1. e \in Byte /\ e.kind = "end"
    BY TokType DEF Kinds
  <2>2. w = <<e>> /\ <<e>> \o <<>> = <<e>>
    <3>1. <<e>> \in Seq(Byte)
      BY <2>1
    <3> QED BY <1>2, <1>3, <1>4, <3>1, ConcatEmptySeq
  <2> HIDE DEF e
  <2>3. Head(w) = e /\ Rest(w, 1) = <<>>
    <3> DEFINE z == <<>>
    <3>1. z \in Seq(Byte) /\ w = <<e>> \o z
      BY <2>2, EmptySeq
    <3> HIDE DEF z
    <3>2. Head(<<e>> \o z) = e /\ Rest(<<e>> \o z, 1) = z
      BY ONLY <2>1, <3>1, HeadAndRest
    <3> QED BY <3>1, <3>2 DEF z
  <2> QED BY <1>2, <1>3, <1>4, <2>1, <2>3 DEF n
<1>5. CASE j = n /\ a.broken
  <2>1. w = Piece(r, a, Total(a), Whole(a))
    BY <1>2, <1>3, <1>5, ToldProperties DEF Piece
  <2>2. w \in Seq(Byte) /\ Len(w) = MarkLen /\ w[1].kind = "mark"
    <3> DEFINE lo == Total(a)
               hi == Whole(a)
               i == 1
    <3>1. lo \in Nat /\ hi \in Nat /\ lo <= hi /\ hi <= Whole(a)
      BY <1>1
    <3>2. hi - lo = MarkLen /\ i \in 1..(hi - lo) /\ ~(lo + i <= Total(a))
      BY <1>1
    <3> HIDE DEF lo, hi, i
    <3>3. Piece(r, a, lo, hi) \in Seq(Byte) /\ Len(Piece(r, a, lo, hi)) = hi - lo
      BY <3>1, PieceType
    <3>4. Piece(r, a, lo, hi)[i].kind = IF lo + i <= Total(a) THEN "data" ELSE "mark"
      BY <3>1, <3>2, PieceKinds
    <3> QED BY <2>1, <3>2, <3>3, <3>4 DEF lo, hi, i
  <2>3. Head(w).kind = "mark"
    BY <1>1, <2>2
  <2> QED BY <2>2, <2>3
<1>6. CASE j # n
  <2>1. /\ j \in 0..(n - 1) /\ j + 1 \in 1..n /\ (j + 1) - 1 = j /\ j + 1 \in 0..n /\ j < n
    BY <1>1, <1>3, <1>6
  <2> DEFINE lo == Ends(a)[j]
             hi == Ends(a)[j + 1]
             b == Piece(r, a, lo, hi)
  <2>2. /\ lo \in Nat /\ hi \in Nat /\ lo <= hi /\ hi <= Total(a) /\ a.parts[j + 1] \in Nat
        /\ Total(a) <= Whole(a) /\ hi <= Whole(a)
    <3>1. lo \in 0..Total(a) /\ hi \in 0..Total(a)
      BY <1>3, <2>1, AnswerType DEF n
    <3>2. hi = lo + a.parts[j + 1] /\ a.parts[j + 1] \in Nat
      BY <2>1, AnswerType DEF n
    <3>3. Total(a) \in Nat /\ Whole(a) \in Nat /\ Total(a) <= Whole(a)
      BY <1>1
    <3> HIDE DEF lo, hi
    <3>4. lo \in Nat /\ hi \in Nat /\ lo <= hi /\ hi <= Total(a)
      BY ONLY <3>1, <3>2, <3>3
    <3> QED BY ONLY <3>2, <3>3, <3>4
  <2>3. Block(r, a, j + 1) = b
    BY <2>1, ToldProperties DEF Piece, n
  <2> HIDE DEF lo, hi
  <2>4. b \in Seq(Byte)
    BY <2>2, PieceType
  <2>5. A(j + 1) \in Seq(Byte) /\ w = (HeadOf(r, a, j + 1) \o b) \o A(j + 1)
    BY <1>2, <1>3, <2>1, <2>3
  <2>6. CASE a.broken /\ j + 1 = n
    <3>1. HeadOf(r, a, j + 1) \o b = b
      BY <2>4, <2>6, ConcatEmptySeq DEF HeadOf, n
    <3>2. A(j + 1) = Piece(r, a, Total(a), Whole(a)) /\ hi = Total(a)
      BY <1>2, <2>6, ToldProperties, AnswerType DEF Piece, hi, n
    <3>3. w = Piece(r, a, lo, Whole(a))
      <4> DEFINE all == Whole(a)
      <4>1. w = Piece(r, a, lo, hi) \o Piece(r, a, hi, all)
        BY <2>5, <3>1, <3>2
      <4>2. lo \in Nat /\ hi \in Nat /\ all \in Nat /\ lo <= hi /\ hi <= all /\ all <= Whole(a)
        BY <1>1, <2>2
      <4> HIDE DEF all
      <4>3. Piece(r, a, lo, hi) \o Piece(r, a, hi, all) = Piece(r, a, lo, all)
        BY <4>2, PieceJoin
      <4> QED BY <4>1, <4>3 DEF all
    <3>4. w \in Seq(Byte) /\ Len(w) = Whole(a) - lo
          /\ w[1].kind = IF lo + 1 <= Total(a) THEN "data" ELSE "mark"
      <4> DEFINE all == Whole(a)
                 i == 1
      <4>1. lo \in Nat /\ all \in Nat /\ lo <= all /\ all <= Whole(a)
        BY <1>1, <2>2
      <4>2. i \in 1..(all - lo)
        BY <1>1, <2>2
      <4> HIDE DEF all, i
      <4>3. Piece(r, a, lo, all) \in Seq(Byte) /\ Len(Piece(r, a, lo, all)) = all - lo
        BY <4>1, PieceType
      <4>4. Piece(r, a, lo, all)[i].kind = IF lo + i <= Total(a) THEN "data" ELSE "mark"
        BY <4>1, <4>2, PieceKinds
      <4> QED BY <3>3, <4>3, <4>4 DEF all, i
    <3>5. Head(w) = w[1]
      <4>1. Len(w) # 0
        BY <1>1, <2>2, <3>4
      <4> QED BY <3>4, <4>1
    <3> QED BY <2>6, <3>3, <3>4, <3>5 DEF lo
  <2>7. CASE ~(a.broken /\ j + 1 = n)
    <3> DEFINE e == Tok("size", r, a.parts[j + 1])
               t == b \o A(j + 1)
    <3>1. e \in Byte /\ e.kind = "size" /\ e.n = a.parts[j + 1]
      <4>1. "size" \in Kinds
        BY DEF Kinds
      <4> QED BY <2>2, <4>1, TokType
    <3>2. HeadOf(r, a, j + 1) = <<e>>
      BY <2>7 DEF HeadOf, n
    <3> HIDE DEF e, b
    <3>3. t \in Seq(Byte) /\ w = <<e>> \o t
      <4>1. <<e>> \in Seq(Byte)
        BY <3>1
      <4>2. (<<e>> \o b) \o A(j + 1) = <<e>> \o (b \o A(j + 1))
        BY <2>4, <2>5, <4>1, ConcatAssociative
      <4>3. t \in Seq(Byte)
        BY <2>4, <2>5, ConcatProperties
      <4> QED BY <2>5, <3>2, <4>2, <4>3
    <3> HIDE DEF t
    <3>4. w \in Seq(Byte) /\ Head(w) = e /\ Rest(w, 1) = t
      BY <3>1, <3>3, HeadAndRest
    <3> QED BY <2>1, <3>1, <3>4 DEF n, A, t, b, lo, hi
  <2> QED BY <2>6, <2>7
<1> QED BY <1>3, <1>4, <1>5, <1>6

---------------------------------------------------------------------------
(* Types, whatever goes wrong.  Two of them need more than themselves: that a *)
(* size counts at least what the buffer and the tail hold, for the           *)
(* subtractions; and that a buffer of blocks is not overrun by more than     *)
(* Slack.                                                                    *)

SizeCovers ==
    /\ pc = "body" => ans.mode \in {"plain", "sse"} /\ mode = "plain" /\ (ans.mode = "sse" => size = 0)
    /\ pc \in {"body", "frame"} /\ ans.mode = "plain" /\ mode = "plain" => size >= PreLen
    /\ mode # "plain" /\ pc \notin {"idle", "failed", "exit"} => size >= PreLen + (Len(buf) + Len(tail))

ModeFits ==
    /\ pc \in {"head", "body", "blockHead"} => buf = <<>> /\ tail = <<>>
    /\ pc = "head" => mode = "plain"
    /\ pc \in {"blockHead", "nextHead", "block"} => mode = "block"
    /\ pc = "ascii" => mode = "ascii"
    /\ pc = "full" => mode # "plain"
    /\ mode = "block" => tail = <<>> /\ Len(buf) <= Room + Slack
    /\ mode = "plain" /\ pc = "frame" => ans.mode \in {"plain", "sse"}

\* The head that is read is the one that was sent for this request.
HeadTrue ==
    pc = "head" /\ wire # <<>> /\ Head(wire).kind = "head"
        => Head(wire) = Tok("head", req, IF ans.mode = "plain" THEN PreLen + Total(ans) ELSE 0)

TypeInv == TypeOK /\ SizeCovers /\ ModeFits

LEMMA TakingType ==
    ASSUME wire \in Seq(Byte), NEW n \in Nat, n <= Len(wire)
    PROVE  /\ Taking(n) \in Seq(Byte) /\ Len(Taking(n)) = n
           /\ Leaving(n) \in Seq(Byte) /\ Len(Leaving(n)) = Len(wire) - n
<1>1. Taking(n) = Begin(wire, n) /\ Leaving(n) = Rest(wire, n)
  BY DEF Taking, Leaving, Begin, Rest
<1>2. n \in 0..Len(wire)
  BY LenProperties
<1>3. /\ Begin(wire, n) \in Seq(Byte) /\ Len(Begin(wire, n)) = n
      /\ Rest(wire, n) \in Seq(Byte) /\ Len(Rest(wire, n)) = Len(wire) - n
  BY <1>2, BeginProperties
<1> QED BY <1>1, <1>3

LEMMA JunkType ==
    ASSUME NEW r \in Nat, NEW k \in Nat
    PROVE  Junk(r, k) \in Seq(Byte) /\ Len(Junk(r, k)) = k
<1>1. Tok("junk", r, 0) \in Byte
  BY TokType DEF Kinds
<1>2. Junk(r, k) = [i \in 1..k |-> Tok("junk", r, 0)]
  BY DEF Junk
<1> QED BY <1>1, <1>2

LEMMA FilledType ==
    ASSUME wire \in Seq(Byte), req \in Nat, NEW k \in Nat, NEW n \in Nat, n <= k, n <= Len(wire)
    PROVE  Filled(k, n) \in Seq(Byte) /\ Len(Filled(k, n)) = k
<1>1. Taking(n) \in Seq(Byte) /\ Len(Taking(n)) = n
  BY TakingType
<1> DEFINE m == k - n
<1>2. m \in Nat /\ n + m = k
  OBVIOUS
<1>3. Filled(k, n) = Taking(n) \o Junk(req, m)
  BY DEF Filled
<1> HIDE DEF m
<1>4. Junk(req, m) \in Seq(Byte) /\ Len(Junk(req, m)) = m
  BY <1>2, JunkType
<1>5. Filled(k, n) \in Seq(Byte) /\ Len(Filled(k, n)) = n + m
  BY <1>1, <1>3, <1>4, ConcatProperties
<1> QED BY <1>2, <1>5

LineType == wire \in Seq(Byte) /\ connected \in BOOLEAN /\ eof \in BOOLEAN

LEMMA ReceiveType ==
    ASSUME LineType, NEW n \in Nat, Receive(n)
    PROVE  LineType' /\ n <= Len(wire)
BY TakingType DEF Receive, LineType

LEMMA ReceiveAllType ==
    ASSUME LineType, late \in BOOLEAN, NEW k \in Nat, NEW n \in Nat, NEW rc, ReceiveAll(k, n, rc)
    PROVE  LineType' /\ late' \in BOOLEAN /\ n <= Len(wire) /\ n <= k
<1>1. n <= Len(wire) /\ n <= k
  BY LenProperties DEF ReceiveAll, Least, LineType
<1>2. Leaving(n) \in Seq(Byte) /\ <<>> \in Seq(Byte)
  BY <1>1, TakingType, EmptySeq DEF LineType
<1>3. wire' \in Seq(Byte)
  BY <1>2 DEF ReceiveAll
<1>4. connected' \in BOOLEAN /\ eof' \in BOOLEAN /\ late' \in BOOLEAN
  BY DEF ReceiveAll, LineType
<1> QED BY <1>1, <1>3, <1>4 DEF LineType

LEMMA NoDataType ==
    ASSUME LineType, NEW rc \in Failures, NEW w, NoData(rc, w)
    PROVE  LineType'
<1>1. CASE rc = "timeout"
  BY <1>1 DEF NoData, line, LineType
<1>2. CASE rc = "eof"
  BY <1>2, EmptySeq DEF NoData, LineType
<1>3. CASE rc = "error"
  BY <1>3, EmptySeq DEF NoData, LineType
<1> QED BY <1>1, <1>2, <1>3 DEF Failures

LEMMA TypeStart == Init => TypeInv
<1> SUFFICES ASSUME Init PROVE TypeInv
  OBVIOUS
<1>1. /\ <<>> \in Seq(Byte) /\ <<>> \in Seq(Seq(Byte)) /\ 0 \in 0..MaxRequests
      /\ Len(<<>>) = 0 /\ Room + Slack \in Nat
  BY Sizes, EmptySeq
<1> QED BY <1>1 DEF Init, TypeInv, TypeOK, SizeCovers, ModeFits

\* Where no read is short, the ten bytes come as a whole.
LEMMA HeadIsWhole ==
    ASSUME Sound, ReadHead
    PROVE  /\ pc = "head" /\ Head(wire).kind = "head" /\ WholeHead
           /\ UNCHANGED <<req, ans, kept, buf, tail, remaining, chunked, maxclen, distressed, resent>>
           /\ UNCHANGED <<reply, closing, client>>
BY DEF ReadHead, PartOfHead, Sound

LEMMA CommandTypes == ASSUME Sound, TypeInv, HeadTrue, Command PROVE TypeInv'
<1> USE DEF TypeInv
<1>1. /\ req \in Nat /\ ans \in Answers /\ LineType /\ late \in BOOLEAN /\ size \in Nat /\ remaining \in Nat
      /\ buf \in Seq(Byte) /\ tail \in Seq(Byte) /\ Len(buf) \in Nat /\ Len(tail) \in Nat
  BY Sizes, LenProperties DEF TypeOK, LineType
<1>2. <<>> \in Seq(Byte) /\ <<>> \in Seq(Seq(Byte)) /\ Len(<<>>) = 0
  BY EmptySeq
<1>3. ASSUME ReadHead PROVE TypeInv'
  <2>1. LineType' /\ 1 <= Len(wire)
    BY <1>1, <1>3, ReceiveType, HeadIsWhole DEF WholeHead
  <2>2. Total(ans) \in Nat /\ PreLen + Total(ans) \in Nat /\ Room + Slack \in Nat
        /\ PreLen + (0 + 0) = PreLen /\ PreLen \in Nat /\ PreLen + Total(ans) >= PreLen
    BY <1>1, AnswerType, Sizes
  <2>3. Head(wire).n = IF ans.mode = "plain" THEN PreLen + Total(ans) ELSE 0
    <3>1. wire # <<>>
      BY <1>2, <2>1
    <3>2. Head(wire) = Tok("head", req, IF ans.mode = "plain" THEN PreLen + Total(ans) ELSE 0)
      BY <1>3, <3>1, HeadIsWhole DEF HeadTrue
    <3> QED BY <3>2 DEF Tok
  <2>s. /\ size' \in Nat /\ (mode' # "plain" => size' = PreLen)
        /\ pc' = "body" => (ans.mode = "sse" => size' = 0) /\ (ans.mode = "plain" => size' >= PreLen)
    BY <1>3, <2>2, <2>3, HeadIsWhole DEF WholeHead, ModeFits
  <2>b. buf' = <<>> /\ tail' = <<>> /\ ans' = ans
    BY <1>3, HeadIsWhole DEF ModeFits
  <2>4. TypeOK'
    BY <1>3, <2>1, <2>s, HeadIsWhole DEF WholeHead, TypeOK, LineType, reply
  <2>5. SizeCovers'
    <3>1. pc' \in {"body", "blockHead", "ascii"} /\ (pc' = "body" => mode' = "plain" /\ ans.mode \in {"plain", "sse"})
      BY <1>3, HeadIsWhole DEF WholeHead, ModeFits
    <3>2. mode' # "plain" => size' >= PreLen + (Len(buf') + Len(tail'))
      BY <1>2, <2>2, <2>s, <2>b
    <3> QED BY <2>s, <2>b, <3>1, <3>2 DEF SizeCovers
  <2>6. ModeFits'
    BY <1>2, <1>3, <2>2, <2>b, HeadIsWhole DEF WholeHead, ModeFits
  <2> QED BY <2>4, <2>5, <2>6
<1>4. ASSUME Resend PROVE TypeInv'
  <2>1. wire' \in Seq(Byte)
    BY <1>1, <1>4, SentProperties DEF Resend
  <2> QED BY <1>4, <2>1 DEF Resend, TypeOK, SizeCovers, ModeFits, buffers, counts, flags, reply
<1>5. ASSUME Failed PROVE TypeInv'
  <2>1. TypeOK'
    <3>1. /\ UNCHANGED <<eof, req, ans, first, tail, size, mode, chunked, maxclen, distressed, resent>>
          /\ UNCHANGED <<out, ended, client, late>>
          /\ framing' = "error" /\ own' = TRUE /\ clen' = 0 /\ remaining' = 0 /\ buf' = <<>> /\ kept' = <<>>
          /\ wire' = <<>> /\ connected' = FALSE /\ closing' = TRUE /\ pc' = "exit"
      BY <1>5 DEF Failed, flags
    <3>2. /\ wire' \in Seq(Byte) /\ connected' \in BOOLEAN /\ eof' \in BOOLEAN /\ req' \in 0..MaxRequests
          /\ ans' \in Answers /\ kept' \in Seq(Seq(Byte)) /\ buf' \in Seq(Byte) /\ first' \in BOOLEAN
          /\ tail' \in Seq(Byte) /\ remaining' \in Nat /\ size' \in Nat
      BY <1>2, <3>1 DEF TypeOK
    <3>3. /\ mode' \in {"plain", "block", "ascii"} /\ chunked' \in BOOLEAN /\ maxclen' \in BOOLEAN
          /\ distressed' \in BOOLEAN /\ resent' \in BOOLEAN /\ own' \in BOOLEAN /\ clen' \in Nat
          /\ out' \in Seq(Byte) /\ ended' \in BOOLEAN /\ closing' \in BOOLEAN /\ client' \in BOOLEAN
          /\ late' \in BOOLEAN
      BY <3>1 DEF TypeOK
    <3> QED BY ONLY <3>1, <3>2, <3>3 DEF TypeOK
  <2>2. Len(buf') <= Room + Slack
    BY <1>2, <1>5, Sizes DEF Failed
  <2> QED BY <1>5, <2>1, <2>2 DEF Failed, SizeCovers, ModeFits, flags
<1>6. ASSUME NEW rc \in Failures, HeadFails(rc) PROVE TypeInv'
  <2>1. LineType' /\ late' \in BOOLEAN
    BY <1>1, <1>6, NoDataType DEF HeadFails, NoteLate
  <2> QED BY <1>6, <2>1 DEF HeadFails, LineType, TypeOK, SizeCovers, ModeFits, buffers, counts, flags, reply
<1>7. ASSUME NEW n \in Lengths, NEW rc \in {"timeout", "eof"}, ReadBody(n, rc) PROVE TypeInv'
  <2>1. BodyLength \in Nat /\ RestOfBody \in Nat /\ n \in Nat
    <3>1. size # 0 => size >= PreLen
      BY <1>7 DEF ReadBody, SizeCovers
    <3>2. BodyLength \in Nat /\ BodyLength + PreLen \in Nat
      BY <1>1, <3>1, Sizes DEF BodyLength
    <3>3. RestOfBody \in Nat
      BY <1>1, <3>2, Sizes DEF RestOfBody
    <3>4. n \in Nat
      BY Sizes DEF Lengths
    <3> QED BY <3>2, <3>3, <3>4
  <2>2. LineType' /\ late' \in BOOLEAN /\ n <= Len(wire) /\ n <= BodyLength
    <3> HIDE DEF TypeInv
    <3> QED BY <1>1, <1>7, <2>1, ReceiveAllType DEF ReadBody
  <2>3. buf' \in Seq(Byte)
    BY <1>1, <1>7, <2>1, <2>2, FilledType DEF ReadBody, LineType
  <2> QED BY <1>7, <2>1, <2>2, <2>3 DEF ReadBody, LineType, TypeOK, SizeCovers, ModeFits, flags, reply
<1>8. ASSUME Frame PROVE TypeInv'
  <2>1. Total(ans) \in Nat
    BY <1>1, AnswerType
  <2>2. framing' = "length" => size - PreLen \in Nat
    <3> SUFFICES ASSUME framing' = "length" PROVE size >= PreLen
      BY <1>1, Sizes
    <3>1. pc = "frame" /\ ans.mode # "sse"
      BY <1>8 DEF Frame
    <3>2. CASE mode = "plain"
      BY <3>1, <3>2 DEF SizeCovers, ModeFits
    <3>3. CASE mode # "plain"
      <4>1. size >= PreLen + (Len(buf) + Len(tail))
        BY <3>1, <3>3 DEF SizeCovers
      <4> QED BY <1>1, <4>1, Sizes
    <3> QED BY <3>2, <3>3
  <2>3. clen' \in Nat
    BY <1>8, <2>1, <2>2 DEF Frame
  <2> QED BY <1>8, <2>3 DEF Frame, TypeOK, SizeCovers, ModeFits, line, buffers, counts
<1> QED BY <1>3, <1>4, <1>5, <1>6, <1>7, <1>8 DEF Command

LEMMA StreamFailsType ==
    ASSUME LineType, late \in BOOLEAN, closing \in BOOLEAN, NEW rc \in Failures, StreamFails(rc)
    PROVE  LineType' /\ late' \in BOOLEAN /\ closing' \in BOOLEAN /\ pc' \in {"failed", "exit"}
<1>1. LineType'
  BY NoDataType DEF StreamFails
<1>2. late' \in BOOLEAN
  BY DEF StreamFails, NoteLate
<1> QED BY <1>1, <1>2 DEF StreamFails

LEMMA AsciiTypes == ASSUME TypeInv, NEW n \in 1..Len(wire), AsciiRead(n) PROVE TypeInv'
<1> DEFINE got == buf \o Taking(n)
           m == Len(got) - MarkLen
<1>1. /\ LineType /\ wire \in Seq(Byte) /\ Len(wire) \in Nat /\ buf \in Seq(Byte) /\ tail \in Seq(Byte)
      /\ Len(buf) \in Nat /\ Len(tail) \in Nat /\ size \in Nat /\ n \in Nat
      /\ MarkLen \in Nat /\ PreLen \in Nat /\ MarkLen < Room /\ Room \in Nat
  BY Sizes, LenProperties DEF TypeInv, TypeOK, LineType
<1>2. LineType' /\ n <= Len(wire)
  BY <1>1, ReceiveType DEF AsciiRead
<1>3. Taking(n) \in Seq(Byte) /\ Len(Taking(n)) = n
  BY <1>1, <1>2, TakingType
<1>4. got \in Seq(Byte) /\ Len(got) = Len(buf) + n
  BY <1>1, <1>3, ConcatProperties
<1>5. pc = "ascii" /\ mode = "ascii" /\ mode' = "ascii"
  BY DEF AsciiRead, TypeInv, ModeFits, flags
<1>6. size >= PreLen + (Len(buf) + Len(tail))
  BY <1>5 DEF TypeInv, SizeCovers
<1> HIDE DEF got
<1>7. ASSUME MarkLen <= Len(got)
      PROVE  /\ Cut(got) \in Seq(Byte) /\ Len(Cut(got)) = Len(got) - MarkLen
             /\ SubSeq(got, Len(got) - MarkLen + 1, Len(got)) \in Seq(Byte)
             /\ Len(SubSeq(got, Len(got) - MarkLen + 1, Len(got))) = MarkLen
  <2>1. m \in 0..Len(got) /\ Len(got) - m = MarkLen
    BY <1>1, <1>4, <1>7
  <2>2. Cut(got) = Begin(got, m) /\ SubSeq(got, Len(got) - MarkLen + 1, Len(got)) = Rest(got, m)
    BY DEF Cut, Begin, Rest
  <2> HIDE DEF m
  <2>3. /\ Begin(got, m) \in Seq(Byte) /\ Len(Begin(got, m)) = m
        /\ Rest(got, m) \in Seq(Byte) /\ Len(Rest(got, m)) = Len(got) - m
    BY <1>4, <2>1, BeginProperties
  <2> QED BY <2>1, <2>2, <2>3 DEF m
<1>8. /\ buf' \in Seq(Byte) /\ tail' \in Seq(Byte) /\ size' \in Nat /\ remaining' \in Nat
      /\ size' >= PreLen + (Len(buf') + Len(tail')) /\ pc' \in {"ascii", "full", "frame", "write"}
  <2>1. CASE EndsInMark(got)
    <3>1. MarkLen <= Len(got)
      BY <2>1 DEF EndsInMark
    <3>2. /\ buf' = (IF distressed THEN got ELSE Cut(got))
          /\ size' = (size + n) - (IF distressed THEN 0 ELSE MarkLen)
          /\ remaining' = 0 /\ tail' = <<>> /\ pc' = Returned
      BY <2>1 DEF AsciiRead, got
    <3>3. Len(tail') = 0 /\ tail' \in Seq(Byte) /\ buf' \in Seq(Byte)
      BY <1>4, <1>7, <3>1, <3>2, EmptySeq
    <3>4. CASE distressed
      <4>1. size' = size + n /\ Len(buf') = Len(buf) + n
        BY <1>1, <1>4, <3>2, <3>4
      <4> QED BY <1>1, <1>6, <3>2, <3>3, <4>1 DEF Returned
    <3>5. CASE ~distressed
      <4>1. size' = size + n - MarkLen /\ Len(buf') = Len(buf) + n - MarkLen /\ Len(buf) + n >= MarkLen
        BY <1>1, <1>4, <1>7, <3>1, <3>2, <3>5
      <4> QED BY <1>1, <1>6, <3>2, <3>3, <4>1 DEF Returned
    <3> QED BY <3>4, <3>5
  <2>2. CASE ~EndsInMark(got) /\ Len(got) = Room
    <3>1. MarkLen <= Len(got)
      BY <1>1, <2>2
    <3>2. /\ buf' = Cut(got) /\ tail' = SubSeq(got, Len(got) - MarkLen + 1, Len(got))
          /\ size' = size + n /\ remaining' = MarkLen /\ pc' = "full"
      BY <2>2 DEF AsciiRead, got
    <3>3. /\ Len(buf') = Len(got) - MarkLen /\ Len(tail') = MarkLen
          /\ buf' \in Seq(Byte) /\ tail' \in Seq(Byte)
      BY <1>7, <3>1, <3>2
    <3> QED BY <1>1, <1>4, <1>6, <3>2, <3>3
  <2>3. CASE ~EndsInMark(got) /\ Len(got) # Room
    <3>1. buf' = got /\ tail' = tail /\ remaining' = remaining /\ pc' = pc /\ size' = size + n
      BY <2>3 DEF AsciiRead, got
    <3>2. remaining \in Nat
      BY DEF TypeInv, TypeOK
    <3> QED BY <1>1, <1>4, <1>5, <1>6, <3>1, <3>2
  <2> QED BY <2>1, <2>2, <2>3
<1>9. UNCHANGED <<req, ans, kept, first, flags, resent, reply, closing, client, late>>
  BY DEF AsciiRead
<1>10. TypeOK'
  BY <1>2, <1>8, <1>9 DEF TypeInv, TypeOK, LineType, flags, reply
<1> QED BY <1>5, <1>8, <1>10 DEF TypeInv, SizeCovers, ModeFits

LEMMA BlockTypes ==
    ASSUME TypeInv, NEW n \in Lengths, NEW rc \in {"timeout", "eof"}, BlockRead(n, rc)
    PROVE  TypeInv'
<1> DEFINE k == BlockGet
           got == buf \o Filled(k, n)
<1>1. /\ LineType /\ wire \in Seq(Byte) /\ buf \in Seq(Byte) /\ Len(buf) \in Nat /\ size \in Nat
      /\ remaining \in Nat /\ n \in Nat /\ PreLen \in Nat /\ Room \in Nat /\ Room + Slack \in Nat
      /\ req \in Nat /\ late \in BOOLEAN
  BY Sizes, LenProperties DEF TypeInv, TypeOK, LineType, Lengths
<1>2. pc = "block" /\ mode = "block" /\ tail = <<>> /\ Len(tail) = 0 /\ Len(buf) <= Room + Slack
  BY EmptySeq DEF BlockRead, TypeInv, ModeFits
<1>3. size >= PreLen + (Len(buf) + Len(tail))
  BY <1>2 DEF TypeInv, SizeCovers
<1>4. k \in Nat /\ k <= remaining /\ Len(buf) + k <= Room + Slack
  <2> DEFINE d == (Room + Slack) - Len(buf)
  <2>1. d \in Nat /\ Len(buf) + d = Room + Slack
    BY <1>1, <1>2
  <2>2. k = IF remaining < d THEN remaining ELSE d
    BY <1>1, Sizes DEF BlockGet, Least
  <2> HIDE DEF d, k
  <2> QED BY <1>1, <2>1, <2>2
<1> HIDE DEF k
<1>5. LineType' /\ late' \in BOOLEAN /\ n <= Len(wire) /\ n <= k
  <2>1. ReceiveAll(k, n, rc)
    BY DEF BlockRead, k
  <2> QED BY <1>1, <1>4, <2>1, ReceiveAllType
<1>6. Filled(k, n) \in Seq(Byte) /\ Len(Filled(k, n)) = k
  BY <1>1, <1>4, <1>5, FilledType
<1>7. got \in Seq(Byte) /\ Len(got) = Len(buf) + k
  BY <1>1, <1>6, ConcatProperties
<1>8. AfterBlock(got, remaining - k) /\ UNCHANGED <<req, ans, kept, first, tail, flags, resent, reply, closing, client>>
  BY DEF BlockRead, k
<1> HIDE DEF got
<1>9. /\ buf' = got /\ size' = size + k /\ remaining' = remaining - k
      /\ pc' \in {"nextHead", "full", "block"}
  BY <1>8 DEF AfterBlock, k
<1>10. TypeOK'
  <2>1. buf' \in Seq(Byte) /\ size' \in Nat /\ remaining' \in Nat
    BY <1>1, <1>4, <1>7, <1>9
  <2> QED BY <1>5, <1>8, <1>9, <2>1 DEF TypeInv, TypeOK, LineType, flags, reply
<1>11. Len(tail') = 0 /\ Len(buf') = Len(buf) + k /\ size' >= PreLen + (Len(buf') + Len(tail'))
  BY <1>1, <1>2, <1>3, <1>4, <1>7, <1>8, <1>9
<1>12. mode' = "block" /\ tail' = <<>> /\ Len(buf') <= Room + Slack
  BY <1>2, <1>4, <1>8, <1>11 DEF flags
<1> QED BY <1>9, <1>10, <1>11, <1>12 DEF TypeInv, SizeCovers, ModeFits

LEMMA StreamTypes == ASSUME TypeInv, Stream PROVE TypeInv'
<1> USE DEF TypeInv
<1>1. /\ req \in Nat /\ ans \in Answers /\ LineType /\ late \in BOOLEAN /\ closing \in BOOLEAN
      /\ size \in Nat /\ remaining \in Nat /\ wire \in Seq(Byte) /\ Len(wire) \in Nat
      /\ buf \in Seq(Byte) /\ tail \in Seq(Byte) /\ Len(buf) \in Nat /\ Len(tail) \in Nat
      /\ kept \in Seq(Seq(Byte))
  BY Sizes, LenProperties DEF TypeOK, LineType
<1>2. <<>> \in Seq(Byte) /\ Len(<<>>) = 0
  BY EmptySeq
<1>3. ASSUME NEW n \in 1..Len(wire), AsciiRead(n) PROVE TypeInv'
  BY <1>3, AsciiTypes
<1>4. ASSUME AsciiNoSpace PROVE TypeInv'
  <2> DEFINE m == Len(buf) - MarkLen
  <2>1. Len(buf) = Room /\ mode = "ascii" /\ pc = "ascii"
    BY <1>4 DEF AsciiNoSpace, ModeFits
  <2>2. m \in 0..Len(buf) /\ MarkLen \in Nat /\ Len(buf) - m = MarkLen /\ m + MarkLen = Len(buf)
    BY <1>1, <2>1, Sizes
  <2>3. buf' = Begin(buf, m) /\ tail' = Rest(buf, m)
    BY <1>4 DEF AsciiNoSpace, Cut, Begin, Rest
  <2> HIDE DEF m
  <2>4. /\ buf' \in Seq(Byte) /\ Len(buf') = m
        /\ tail' \in Seq(Byte) /\ Len(tail') = Len(buf) - m
    BY <1>1, <2>2, <2>3, BeginProperties
  <2>5. size >= PreLen + (Len(buf) + Len(tail))
    BY <2>1 DEF SizeCovers
  <2>6. size' = size /\ size >= PreLen + (Len(buf') + Len(tail'))
    <3>1. size' = size
      BY <1>4 DEF AsciiNoSpace
    <3> QED BY <1>1, <2>2, <2>4, <2>5, <3>1, Sizes
  <2>7. TypeOK'
    BY <1>4, <2>2, <2>4 DEF AsciiNoSpace, TypeOK, line, flags, reply
  <2> QED BY <1>4, <2>1, <2>6, <2>7 DEF AsciiNoSpace, SizeCovers, ModeFits, flags
<1>5. ASSUME HeadOfBlock PROVE TypeInv'
  <2>1. LineType' /\ 1 <= Len(wire)
    BY <1>1, <1>5, ReceiveType DEF HeadOfBlock
  <2>2. Head(wire).n \in Nat
    <3>1. wire[1] \in Byte /\ Head(wire) = wire[1]
      BY <1>1, <2>1, ElementOfSeq
    <3> QED BY <3>1 DEF Byte
  <2> QED BY <1>5, <2>1, <2>2
          DEF HeadOfBlock, AtHead, LineType, TypeOK, SizeCovers, ModeFits, buffers, flags, reply
<1>6. ASSUME EndOfBlocks PROVE TypeInv'
  <2>1. LineType'
    BY <1>1, <1>6, ReceiveType DEF EndOfBlocks
  <2> QED BY <1>6, <2>1
          DEF EndOfBlocks, AtHead, Returned, LineType, TypeOK, SizeCovers, ModeFits, buffers, flags, reply
<1>7. ASSUME HeadMissing PROVE TypeInv'
  <2> DEFINE more == Taking(MarkLen)
  <2>1. LineType' /\ MarkLen <= Len(wire) /\ MarkLen \in Nat
    BY <1>1, <1>7, ReceiveType, Sizes DEF HeadMissing
  <2>2. more \in Seq(Byte) /\ Len(more) = MarkLen
    BY <1>1, <2>1, TakingType
  <2>3. buf' = buf \o more /\ size' = size + MarkLen /\ tail' = <<>> /\ mode = "block"
    BY <1>7 DEF HeadMissing, AtHead, ModeFits
  <2> HIDE DEF more
  <2>4. buf' \in Seq(Byte) /\ Len(buf') = Len(buf) + MarkLen /\ Len(tail') = 0
    BY <1>1, <1>2, <2>2, <2>3, ConcatProperties
  <2>5. size >= PreLen + (Len(buf) + Len(tail))
    BY <1>7, <2>3 DEF HeadMissing, AtHead, SizeCovers
  <2>6. size' \in Nat /\ size' >= PreLen + (Len(buf') + Len(tail'))
    BY <1>1, <2>1, <2>3, <2>4, <2>5, Sizes
  <2>7. TypeOK'
    BY <1>2, <1>7, <2>1, <2>4, <2>6 DEF HeadMissing, LineType, TypeOK, reply
  <2> QED BY <1>7, <2>6, <2>7 DEF HeadMissing, SizeCovers, ModeFits
<1>8. ASSUME NEW n \in Lengths, NEW rc \in {"timeout", "eof"}, BlockRead(n, rc) PROVE TypeInv'
  BY <1>8, BlockTypes
<1>9. ASSUME StartChunking \/ StopCounting PROVE TypeInv'
  <2>1. /\ UNCHANGED <<line, req, ans, buffers, counts, mode, distressed, resent, reply, closing, client, late>>
        /\ pc = "full" /\ pc' \in {"frame", "write"} /\ chunked' \in BOOLEAN /\ maxclen' \in BOOLEAN
    BY <1>9 DEF StartChunking, StopCounting, Returned, TypeOK
  <2>2. TypeOK'
    BY <2>1 DEF TypeOK, line, buffers, counts, reply
  <2> QED BY <2>1, <2>2 DEF SizeCovers, ModeFits, buffers, counts
<1>10. ASSUME Extend PROVE TypeInv'
  <2>1. kept' \in Seq(Seq(Byte))
    BY <1>1, <1>10, AppendProperties DEF Extend
  <2>2. mode \in {"block", "ascii"} /\ pc = "full" /\ size >= PreLen + (Len(buf) + Len(tail))
    BY <1>10 DEF Extend, TypeOK, ModeFits, SizeCovers
  <2>3. size' = size /\ buf' = tail /\ tail' = <<>>
    BY <1>10 DEF Extend
  <2>4. size' >= PreLen + (Len(buf') + Len(tail')) /\ (tail = <<>> => Len(buf') <= Room + Slack)
    BY <1>1, <1>2, <2>2, <2>3, Sizes
  <2>5. TypeOK'
    <3>1. pc' \in {"block", "ascii"} /\ remaining' \in Nat
      BY <1>1, <1>10, <2>2 DEF Extend
    <3>2. buf' \in Seq(Byte) /\ tail' \in Seq(Byte) /\ first' \in BOOLEAN
      BY <1>1, <1>2, <2>3, <1>10 DEF Extend
    <3>3. UNCHANGED <<line, req, ans, size, flags, resent, reply, closing, client, late>>
      BY <1>10 DEF Extend
    <3> QED BY <2>1, <3>1, <3>2, <3>3 DEF TypeOK, line, flags, reply
  <2> QED BY <1>10, <2>2, <2>4, <2>5 DEF Extend, SizeCovers, ModeFits, flags
<1>11. ASSUME ExtendFails PROVE TypeInv'
  <2>1. /\ UNCHANGED <<line, req, ans, buffers, counts, flags, resent, reply, client, late>>
        /\ pc' \in {"failed", "exit"} /\ closing' \in BOOLEAN
    BY <1>1, <1>11 DEF ExtendFails
  <2>2. TypeOK'
    BY <2>1 DEF TypeOK, line, buffers, counts, flags, reply
  <2> QED BY <2>1, <2>2 DEF SizeCovers, ModeFits, buffers, counts, flags
<1>12. ASSUME NEW rc \in Failures, AsciiFails(rc) \/ BlockReadFails(rc) PROVE TypeInv'
  <2>1. LineType' /\ late' \in BOOLEAN /\ closing' \in BOOLEAN /\ pc' \in {"failed", "exit"}
    BY <1>1, <1>12, StreamFailsType DEF AsciiFails, BlockReadFails
  <2>2. UNCHANGED <<req, ans, buffers, counts, flags, resent, reply, client>>
    BY <1>12 DEF AsciiFails, BlockReadFails
  <2> QED BY <2>1, <2>2 DEF LineType, TypeOK, SizeCovers, ModeFits, buffers, counts, flags, reply
<1>13. ASSUME NEW rc \in Failures, HeadOfBlockFails(rc) PROVE TypeInv'
  <2>1. UNCHANGED <<req, ans, buffers, counts, flags, resent, reply, client>> /\ AtHead
    BY <1>13 DEF HeadOfBlockFails
  <2>2. CASE pc = "blockHead" /\ rc = "error"
    <3>1. NoData(rc, 1) /\ pc' = "frame" /\ closing' = closing /\ late' = late
      BY <1>13, <2>2 DEF HeadOfBlockFails
    <3>2. LineType'
      BY <1>1, <3>1, NoDataType
    <3> QED BY <2>1, <2>2, <3>1, <3>2
            DEF LineType, TypeOK, SizeCovers, ModeFits, buffers, counts, flags, reply
  <2>3. CASE ~(pc = "blockHead" /\ rc = "error")
    <3>1. StreamFails(rc)
      BY <1>13, <2>3 DEF HeadOfBlockFails
    <3>2. LineType' /\ late' \in BOOLEAN /\ closing' \in BOOLEAN /\ pc' \in {"failed", "exit"}
      BY <1>1, <3>1, StreamFailsType
    <3> QED BY <2>1, <3>2 DEF LineType, TypeOK, SizeCovers, ModeFits, buffers, counts, flags, reply
  <2> QED BY <2>2, <2>3
<1> QED
  BY <1>3, <1>4, <1>5, <1>6, <1>7, <1>8, <1>9, <1>10, <1>11, <1>12, <1>13 DEF Stream

LEMMA CopyTypes == ASSUME TypeInv, Copy PROVE TypeInv'
<1> USE DEF TypeInv
<1>1. /\ req \in Nat /\ ans \in Answers /\ LineType /\ late \in BOOLEAN /\ closing \in BOOLEAN
      /\ size \in Nat /\ remaining \in Nat /\ wire \in Seq(Byte) /\ Len(wire) \in Nat
      /\ buf \in Seq(Byte) /\ tail \in Seq(Byte) /\ Len(buf) \in Nat /\ Len(tail) \in Nat
      /\ kept \in Seq(Seq(Byte)) /\ out \in Seq(Byte)
  BY Sizes, LenProperties DEF TypeOK, LineType
<1>2. /\ <<>> \in Seq(Byte) /\ <<>> \in Seq(Seq(Byte)) /\ Len(<<>>) = 0
      /\ Room \in Nat /\ Slack \in Nat /\ Room + Slack \in Nat /\ PreLen \in Nat
  BY EmptySeq, Sizes
<1>3. ASSUME NEW bytes \in Seq(Byte), Deliver(bytes)
      PROVE  out' \in Seq(Byte) /\ ended' \in BOOLEAN /\ closing' \in BOOLEAN /\ pc' \in {"rest", "exit"}
  <2>1. out \o bytes \in Seq(Byte)
    BY <1>1, ConcatProperties
  <2> QED BY <1>1, <1>3, <2>1 DEF Deliver, TypeOK
<1>4. ASSUME NEW b \in Seq(Byte), buf' = <<>>, pc' \in {"rest", "exit"}, tail' = tail, pc \in {"open", "write"},
             size' = size, mode' = mode, ans' = ans
      PROVE  SizeCovers' /\ ModeFits'
  <2>1. mode # "plain" => size >= PreLen + (Len(buf) + Len(tail))
    BY <1>4 DEF SizeCovers
  <2>2. mode # "plain" => size >= PreLen + (0 + Len(tail))
    BY <1>1, <1>2, <2>1
  <2> QED BY <1>2, <1>4, <2>2 DEF SizeCovers, ModeFits
<1>5. ASSUME Open PROVE TypeInv'
  <2>1. FlattenSeq(Chain) \in Seq(Byte)
    <3>1. Chain \in Seq(Seq(Byte))
      BY <1>1, AppendProperties DEF Chain
    <3> QED BY <3>1, FlattenType
  <2>2. out' \in Seq(Byte) /\ ended' \in BOOLEAN /\ closing' \in BOOLEAN /\ pc' \in {"rest", "exit"}
    <3>1. CASE Chain[1] = <<>>
      BY <1>5, <3>1 DEF Open, TypeOK
    <3>2. CASE Chain[1] # <<>>
      BY <1>3, <1>5, <2>1, <3>2 DEF Open
    <3> QED BY <3>1, <3>2
  <2>3. /\ kept' = <<>> /\ buf' = <<>> /\ pc = "open"
        /\ UNCHANGED <<line, req, ans, first, tail, counts, flags, resent, framing, own, clen, client, late>>
    BY <1>5 DEF Open
  <2>4. TypeOK'
    BY <1>2, <2>2, <2>3 DEF TypeOK, line, counts, flags
  <2> QED BY <1>2, <1>4, <2>2, <2>3, <2>4 DEF counts, flags
<1>6. ASSUME Write PROVE TypeInv'
  <2>1. out' \in Seq(Byte) /\ ended' \in BOOLEAN /\ closing' \in BOOLEAN /\ pc' \in {"rest", "exit"}
    BY <1>1, <1>3, <1>6 DEF Write
  <2>2. /\ buf' = <<>> /\ pc = "write"
        /\ UNCHANGED <<line, req, ans, kept, first, tail, counts, flags, resent, framing, own, clen, client, late>>
    BY <1>6 DEF Write
  <2>3. TypeOK'
    BY <1>2, <2>1, <2>2 DEF TypeOK, line, counts, flags
  <2> QED BY <1>2, <1>4, <2>1, <2>2, <2>3 DEF counts, flags
<1>7. ASSUME NextRound PROVE TypeInv'
  <2>1. /\ first' = FALSE /\ buf' = tail /\ tail' = <<>> /\ remaining' \in Nat
        /\ mode \in {"block", "ascii"} /\ pc' = mode /\ pc = "rest"
        /\ UNCHANGED <<line, req, ans, kept, size, flags, resent, reply, closing, client, late>>
    BY <1>1, <1>7 DEF NextRound, TypeOK
  <2>2. TypeOK'
    <3>1. /\ buf' \in Seq(Byte) /\ tail' \in Seq(Byte) /\ first' \in BOOLEAN
          /\ pc' \in {"block", "ascii"}
      BY <1>1, <1>2, <2>1
    <3> QED BY <2>1, <3>1 DEF TypeOK, line, flags, reply
  <2>3. size >= PreLen + (Len(buf) + Len(tail))
    BY <2>1 DEF SizeCovers
  <2>4. size' >= PreLen + (Len(buf') + Len(tail')) /\ (tail = <<>> => Len(buf') <= Room + Slack)
    BY <1>1, <1>2, <2>1, <2>3
  <2> QED BY <2>1, <2>2, <2>4 DEF SizeCovers, ModeFits, flags
<1>8. ASSUME NEW n \in Lengths, NEW rc \in {"timeout", "eof"}, ReadRest(n, rc) PROVE TypeInv'
  <2>1. RestGet \in Nat /\ RestGet <= remaining /\ n \in Nat
    BY <1>1, <1>2 DEF RestGet, Least, Lengths
  <2>2. LineType' /\ late' \in BOOLEAN /\ n <= Len(wire) /\ n <= RestGet
    <3> HIDE DEF TypeInv
    <3> QED BY <1>1, <1>8, <2>1, ReceiveAllType DEF ReadRest
  <2>3. Filled(RestGet, n) \in Seq(Byte)
    BY <1>1, <2>1, <2>2, FilledType
  <2>4. /\ buf' \in Seq(Byte) /\ remaining' \in Nat /\ pc' = "write" /\ mode = "plain"
        /\ UNCHANGED <<req, ans, kept, first, tail, size, flags, resent, reply, closing, client>>
    BY <1>1, <1>8, <2>1, <2>3 DEF ReadRest
  <2>5. TypeOK'
    BY <2>2, <2>4 DEF TypeOK, LineType, flags, reply
  <2> QED BY <2>4, <2>5 DEF SizeCovers, ModeFits, flags
<1>9. ASSUME NEW rc \in Failures, ReadRestFails(rc) PROVE TypeInv'
  <2> DEFINE w == IF remaining < Width \div 2 THEN 1 ELSE Len(wire) + 1
  <2>1. NoData(rc, w)
    BY <1>9 DEF ReadRestFails
  <2> HIDE DEF w
  <2>2. LineType'
    BY <1>1, <2>1, NoDataType
  <2>3. /\ closing' = TRUE /\ pc' = "exit"
        /\ UNCHANGED <<req, ans, buffers, counts, flags, resent, reply, client, late>>
    BY <1>9 DEF ReadRestFails
  <2> QED BY <2>2, <2>3 DEF TypeOK, LineType, SizeCovers, ModeFits, buffers, counts, flags, reply
<1> QED BY <1>5, <1>6, <1>7, <1>8, <1>9 DEF Copy

LEMMA OtherTypes ==
    ASSUME TypeInv, Events \/ Exit \/ ClientLeaves \/ (\E a \in Answers, w \in BOOLEAN : Submit(a, w))
    PROVE  TypeInv'
<1> USE DEF TypeInv
<1>1. /\ req \in Nat /\ LineType /\ wire \in Seq(Byte) /\ Len(wire) \in Nat /\ out \in Seq(Byte)
      /\ <<>> \in Seq(Byte) /\ <<>> \in Seq(Seq(Byte)) /\ Len(<<>>) = 0 /\ Room + Slack \in Nat
  BY EmptySeq, LenProperties, Sizes DEF TypeOK, LineType
<1>2. ASSUME NEW n \in 1..Len(wire), SseRead(n) PROVE TypeInv'
  <2>1. LineType' /\ n <= Len(wire) /\ n \in Nat
    BY <1>1, <1>2, ReceiveType DEF SseRead
  <2>2. out \o Taking(n) \in Seq(Byte)
    BY <1>1, <2>1, TakingType, ConcatProperties
  <2>3. /\ out' \in Seq(Byte) /\ pc' \in {"sse", "sseEnd"} /\ pc = "sse"
        /\ UNCHANGED <<req, ans, buffers, counts, flags, resent, framing, own, clen, ended, closing, client, late>>
    BY <1>1, <1>2, <2>2 DEF SseRead
  <2> QED BY <2>1, <2>3 DEF TypeOK, LineType, SizeCovers, ModeFits, buffers, counts, flags
<1>3. ASSUME SseTimeout \/ SseClose PROVE TypeInv'
  <2>1. /\ pc' \in {"sseEnd", "exit"} /\ closing' \in BOOLEAN /\ pc \in {"sse", "sseEnd"}
        /\ UNCHANGED <<line, req, ans, buffers, counts, flags, resent, reply, client, late>>
    BY <1>3 DEF SseTimeout, SseClose, TypeOK
  <2> QED BY <2>1 DEF TypeOK, SizeCovers, ModeFits, line, buffers, counts, flags, reply
<1>4. ASSUME NEW rc \in Failures, SseEnd(rc) PROVE TypeInv'
  <2>1. LineType'
    BY <1>1, <1>4, NoDataType DEF SseEnd
  <2> QED BY <1>4, <2>1 DEF SseEnd, TypeOK, LineType, SizeCovers, ModeFits, buffers, counts, flags, reply
<1>5. ASSUME Exit PROVE TypeInv'
  <2>1. /\ pc' = "idle" /\ wire' \in Seq(Byte) /\ connected' \in BOOLEAN /\ closing' \in BOOLEAN
        /\ UNCHANGED <<eof, req, ans, buffers, counts, flags, resent, reply, client, late>>
    BY <1>1, <1>5 DEF Exit, TypeOK
  <2> QED BY <2>1 DEF TypeOK, SizeCovers, ModeFits, buffers, counts, flags, reply
<1>6. ASSUME ClientLeaves PROVE TypeInv'
  <2>1. /\ client' = FALSE
        /\ UNCHANGED <<line, pc, req, ans, buffers, counts, flags, resent, reply, closing, late>>
    BY <1>6 DEF ClientLeaves
  <2>2. /\ client' \in BOOLEAN
        /\ UNCHANGED <<wire, connected, eof, pc, req, ans, kept, buf, first, tail, remaining, size>>
        /\ UNCHANGED <<mode, chunked, maxclen, distressed, resent, framing, own, clen, out, ended, closing, late>>
    BY <2>1 DEF line, buffers, counts, flags, reply
  <2>3. TypeOK'
    BY <2>2 DEF TypeOK
  <2> QED BY <2>2, <2>3 DEF SizeCovers, ModeFits
<1>7. ASSUME NEW a \in Answers, NEW w \in BOOLEAN, Submit(a, w) PROVE TypeInv'
  <2>1. req + 1 \in Nat /\ req' \in 0..MaxRequests
    BY <1>1, <1>7, Sizes DEF Submit, TypeOK
  <2> DEFINE s == Sent(req + 1, a)
  <2>2. s \in Seq(Byte)
    BY <2>1, SentProperties
  <2>3. wire' = (IF connected THEN wire ELSE <<>>) \o s
    BY <1>7 DEF Submit
  <2> HIDE DEF s
  <2>4. wire' \in Seq(Byte)
    BY <1>1, <2>2, <2>3, ConcatProperties
  <2>5. TypeOK'
    BY <1>1, <1>7, <2>1, <2>4 DEF Submit, TypeOK
  <2> QED BY <1>1, <1>7, <2>5 DEF Submit, SizeCovers, ModeFits
<1> QED BY <1>2, <1>3, <1>4, <1>5, <1>6, <1>7 DEF Events

LEMMA TypeStep == ASSUME Sound, TypeInv, HeadTrue, [Next]_vars PROVE TypeInv'
<1>1. CASE UNCHANGED vars
  BY <1>1 DEF vars, line, buffers, counts, flags, reply, TypeInv, TypeOK, SizeCovers, ModeFits
<1>2. CASE Command
  BY <1>2, CommandTypes
<1>3. CASE Stream
  BY <1>3, StreamTypes
<1>4. CASE Copy
  BY <1>4, CopyTypes
<1>5. CASE Events \/ Exit \/ ClientLeaves \/ (\E a \in Answers, w \in BOOLEAN : Submit(a, w))
  BY <1>5, OtherTypes
<1> QED BY <1>1, <1>2, <1>3, <1>4, <1>5 DEF Next, Thread

---------------------------------------------------------------------------
(* Where the bytes of an answer are.  The numbers say how much of it has been  *)
(* written (o), is in the full buffers (h), in the buffer (b) and in the tail  *)
(* (t); the rest is on the wire.  Without Sound there may be no such numbers.  *)

Distress(a) == a.mode = "block" /\ a.broken
Limit(a) == IF a.mode = "ascii" \/ Distress(a) THEN Whole(a) ELSE Total(a)
Extent(a) == IF Distress(a) THEN Whole(a) ELSE Total(a)

P(lo, hi) == Piece(req, ans, lo, hi)

Done == {"idle", "exit", "failed", "sseEnd"}
Pausing == {"full", "frame", "open", "write", "rest"}
Streaming == {"blockHead", "nextHead", "block", "ascii", "full"}

Reached(o, h, b, t) ==
    /\ o <= h /\ h <= b /\ b <= t /\ t <= Limit(ans) /\ h <= Extent(ans)
    /\ out = P(0, o)
    /\ pc \notin Done => FlattenSeq(kept) = P(o, h) /\ buf = P(h, b) /\ tail = P(b, t)
    /\ pc \in Pausing => b <= Extent(ans)

\* Between two blocks, and in one of which the head has been read.
Between(t, j) == j \in 0..Len(ans.parts) /\ t = Ends(ans)[j] /\ wire = After(req, ans)[j]
Inside(t, j) ==
    /\ j \in 1..Len(ans.parts)
    /\ t + remaining = Ends(ans)[j] /\ wire = P(t, Ends(ans)[j]) \o After(req, ans)[j]

Paused(b, t) ==
    IF remaining = 0 THEN wire = <<>> /\ b = t /\ t = Extent(ans)
    ELSE /\ mode = "plain" => /\ ans.mode = "plain" /\ b = t
                              /\ t + remaining = Total(ans) /\ wire = P(t, Total(ans))
         /\ mode = "block" => \E j \in 1..Len(ans.parts) : Inside(t, j)
         /\ mode = "ascii" => wire = P(t, Limit(ans)) /\ remaining = MarkLen /\ Len(tail) = MarkLen

OnWire(o, b, t) ==
    /\ pc = "idle" /\ connected => wire = <<>>
    /\ pc = "head" => wire = Sent(req, ans) /\ t = 0
    /\ pc = "body" => wire = P(0, Total(ans)) /\ t = 0
    /\ pc = "blockHead" => Between(t, 0)
    /\ pc = "nextHead" => \E j \in 1..Len(ans.parts) : Between(t, j)
    /\ pc = "block" => \E j \in 1..Len(ans.parts) : Inside(t, j)
    /\ pc = "ascii" => wire = P(t, Limit(ans)) /\ b = t
    /\ pc \in Pausing /\ ans.mode # "sse" => Paused(b, t)
    /\ pc \in {"frame", "sse"} /\ ans.mode = "sse" => wire = P(o, Total(ans)) /\ kept = <<>> /\ t = o
    /\ pc = "exit" => closing \/ wire = <<>>

Marked ==
    /\ ans.mode = "sse" => pc \notin {"open", "write", "rest"} /\ mode = "plain"
    /\ pc = "sse" => ans.mode = "sse"
    /\ pc \in {"head", "body"} => ~distressed
    /\ mode = "block" => ans.mode = "block" /\ ~distressed
    /\ mode = "ascii" => /\ ans.mode = "ascii" \/ Distress(ans)
                         /\ distressed <=> ans.mode = "block"

Sized(t) ==
    /\ pc = "body" \/ (pc = "frame" /\ mode = "plain")
         => size = IF ans.mode = "plain" THEN PreLen + Total(ans) ELSE 0
    /\ pc \in Streaming \/ (pc \in Pausing /\ mode # "plain") => size = PreLen + t

\* Once the client has been told something, no buffer is extended.
Long == (chunked /\ Chunking # 0) \/ (maxclen /\ size > MaxClen)

Committed ==
    /\ chunked => Chunking # 0
    /\ mode # "plain" /\ (framing # "none" \/ pc = "frame") /\ pc \in Pausing \cup Streaming
         /\ (pc \in {"frame", "open", "write"} => remaining > 0) => Long

Framed(o) ==
    /\ pc # "idle" => req > 0
    /\ framing = "none" => /\ o = 0 /\ ~ended
                           /\ pc \notin {"open", "write", "rest", "sse", "sseEnd", "exit"}
                           /\ pc = "idle" => req = 0
    /\ pc \in {"head", "body", "blockHead", "frame", "failed"} => framing = "none"
    /\ framing = "error" => o = 0 /\ pc \in {"idle", "exit"}
    /\ framing \in {"length", "server"} => clen = Extent(ans)
    /\ ended => o = Extent(ans)
    /\ late => pc = "failed" \/ framing = "error"

\* The first buffer of the chain has something in it.
Filling ==
    /\ kept # <<>> => kept[1] # <<>>
    /\ framing # "none" /\ pc # "open" => kept = <<>>
    /\ kept = <<>> /\ pc = "full" /\ framing = "none" => buf # <<>>
    /\ pc = "rest" => buf = <<>>
    /\ pc \in {"full", "rest"} => remaining > 0
    /\ pc \in {"head", "body"} => kept = <<>>

Flow(o, h, b, t) ==
    Reached(o, h, b, t) /\ OnWire(o, b, t) /\ Marked /\ Sized(t) /\ Committed /\ Framed(o) /\ Filling

FlowInv == \E o, h, b, t \in Nat : Flow(o, h, b, t)

LEMMA Wrapped == ASSUME NEW w \in Nat \ {0}, NEW d \in 0..(w - 1) PROVE (w + d) % w = d
  OBVIOUS

LEMMA Bounds ==
    ASSUME NEW a \in Answers
    PROVE  /\ Total(a) \in Nat /\ Whole(a) \in Nat /\ Limit(a) \in Nat /\ Extent(a) \in Nat
           /\ Total(a) <= Extent(a) /\ Extent(a) <= Limit(a) /\ Limit(a) <= Whole(a)
           /\ Whole(a) = Total(a) + MarkLen
           /\ a.mode \in {"plain", "sse"} => Limit(a) = Total(a) /\ Extent(a) = Total(a)
           /\ a.mode = "ascii" => Limit(a) = Whole(a) /\ Extent(a) = Total(a)
           /\ Distress(a) => Limit(a) = Whole(a) /\ Extent(a) = Whole(a)
           /\ a.mode = "block" /\ ~a.broken => Limit(a) = Total(a) /\ Extent(a) = Total(a)
<1>1. Total(a) \in Nat /\ MarkLen \in Nat /\ Whole(a) = Total(a) + MarkLen /\ a.mode \in {"plain", "block", "ascii", "sse"}
  BY AnswerType, Sizes DEF Whole
<1>2. Whole(a) \in Nat /\ Total(a) <= Whole(a)
  BY <1>1
<1> QED BY <1>1, <1>2 DEF Limit, Extent, Distress

\* What is read follows what the buffer holds, and what is left follows it.
LEMMA Gain ==
    ASSUME NEW r \in Nat, NEW a \in Answers, NEW h \in Nat, NEW b \in Nat, NEW n \in Nat, NEW lim \in Nat,
           h <= b, b + n <= lim, lim <= Whole(a)
    PROVE  /\ Piece(r, a, h, b) \o Begin(Piece(r, a, b, lim), n) = Piece(r, a, h, b + n)
           /\ Rest(Piece(r, a, b, lim), n) = Piece(r, a, b + n, lim)
<1>1. Whole(a) \in Nat /\ b <= lim /\ n \in 0..(lim - b)
  BY Bounds
<1>2. Begin(Piece(r, a, b, lim), n) = Piece(r, a, b, b + n) /\ Rest(Piece(r, a, b, lim), n) = Piece(r, a, b + n, lim)
  BY <1>1, PieceSplit
<1> DEFINE g == b + n
<1>3. g \in Nat /\ b <= g /\ g <= Whole(a)
  BY <1>1
<1> HIDE DEF g
<1>4. Piece(r, a, h, b) \o Piece(r, a, b, g) = Piece(r, a, h, g)
  BY <1>3, PieceJoin
<1> QED BY <1>2, <1>4 DEF g

\* What Cut leaves off.
Keep(s) == SubSeq(s, Len(s) - MarkLen + 1, Len(s))

LEMMA CutPiece ==
    ASSUME NEW r \in Nat, NEW a \in Answers, NEW h \in Nat, NEW g \in Nat, h + MarkLen <= g, g <= Whole(a)
    PROVE  /\ g - MarkLen \in Nat /\ h <= g - MarkLen
           /\ Cut(Piece(r, a, h, g)) = Piece(r, a, h, g - MarkLen)
           /\ Keep(Piece(r, a, h, g)) = Piece(r, a, g - MarkLen, g)
<1> DEFINE p == Piece(r, a, h, g)
           n == (g - h) - MarkLen
<1>1. MarkLen \in Nat /\ h <= g
  BY Sizes
<1>w. Whole(a) \in Nat
  BY Bounds
<1>2. n \in 0..(g - h) /\ h + n = g - MarkLen
  BY <1>1
<1>3. p \in Seq(Byte) /\ Len(p) = g - h
  <2>1. h <= g
    BY <1>1
  <2> HIDE DEF n
  <2> QED BY <2>1, PieceType
<1>4. Len(p) - MarkLen = n
  BY <1>3
<1>5. Cut(p) = Begin(p, n) /\ Keep(p) = Rest(p, n)
  <2> HIDE DEF p, n
  <2> QED BY <1>4 DEF Cut, Keep, Begin, Rest
<1>6. Begin(p, n) = Piece(r, a, h, h + n) /\ Rest(p, n) = Piece(r, a, h + n, g)
  <2> HIDE DEF n
  <2> QED BY <1>1, <1>2, PieceSplit
<1> QED BY <1>1, <1>2, <1>5, <1>6

LEMMA MarkAtEnd ==
    ASSUME NEW r \in Nat, NEW a \in Answers, NEW h \in Nat, NEW g \in Nat, h <= g, g <= Whole(a),
           EndsInMark(Piece(r, a, h, g))
    PROVE  g = Whole(a) /\ h + MarkLen <= g
<1> DEFINE p == Piece(r, a, h, g)
           i == (Len(p) - MarkLen) + 1
<1>1. p \in Seq(Byte) /\ Len(p) = g - h
  BY PieceType
<1>2. /\ MarkLen \in Nat \ {0} /\ Len(p) >= MarkLen /\ Len(p) \in Nat
      /\ \A k \in (Len(p) - MarkLen + 1)..Len(p) : p[k].kind = "mark"
  BY <1>1, Sizes DEF EndsInMark
<1>3. i \in 1..(g - h) /\ i \in (Len(p) - MarkLen + 1)..Len(p) /\ h + i = (g - MarkLen) + 1
  BY <1>1, <1>2
<1>4. p[i].kind = "mark"
  BY <1>2, <1>3
<1>5. p[i].kind = IF h + i <= Total(a) THEN "data" ELSE "mark"
  <2> HIDE DEF i
  <2> QED BY <1>3, PieceKinds
<1>6. ~((g - MarkLen) + 1 <= Total(a))
  BY <1>3, <1>4, <1>5
<1> QED BY <1>1, <1>2, <1>6, Bounds

LEMMA ReceivesAll ==
    ASSUME "short" \notin Faults, LineType, late \in BOOLEAN, req \in Nat, NEW k \in Nat, NEW n \in Nat, NEW rc,
           k <= Len(wire), ReceiveAll(k, n, rc)
    PROVE  /\ n = k /\ Filled(k, n) = Begin(wire, k) /\ wire' = Rest(wire, k)
           /\ connected' = connected /\ eof' = eof /\ late' = late
<1>1. Len(wire) \in Nat
  BY LenProperties DEF LineType
<1>2. n <= k /\ n <= Len(wire)
  BY <1>1 DEF ReceiveAll, Least
<1>3. ~(n < k)
  BY <1>1, <1>2 DEF ReceiveAll
<1>4. n = k
  BY <1>2, <1>3
<1>5. wire' = Leaving(n) /\ connected' = connected /\ eof' = eof /\ late' = late
  BY <1>3, LineType DEF ReceiveAll, LineType
<1>6. Filled(k, n) = Taking(k)
  <2>1. k - n = 0 /\ Junk(req, 0) = <<>>
    BY <1>4, JunkType, EmptySeq
  <2>2. Taking(k) \in Seq(Byte)
    BY TakingType DEF LineType
  <2> QED BY <1>4, <2>1, <2>2, ConcatEmptySeq DEF Filled
<1> QED BY <1>4, <1>5, <1>6 DEF Taking, Leaving, Begin, Rest

---------------------------------------------------------------------------
(* Each step: where the bytes are after it. *)

LEMMA Known ==
    ASSUME TypeInv
    PROVE  /\ req \in Nat /\ ans \in Answers /\ LineType /\ wire \in Seq(Byte) /\ Len(wire) \in Nat
           /\ kept \in Seq(Seq(Byte)) /\ buf \in Seq(Byte) /\ Len(buf) \in Nat
           /\ tail \in Seq(Byte) /\ Len(tail) \in Nat /\ out \in Seq(Byte)
           /\ remaining \in Nat /\ size \in Nat /\ clen \in Nat
           /\ late \in BOOLEAN /\ closing \in BOOLEAN /\ ended \in BOOLEAN /\ distressed \in BOOLEAN
           /\ chunked \in BOOLEAN /\ maxclen \in BOOLEAN
           /\ mode \in {"plain", "block", "ascii"}
  BY Sizes, LenProperties DEF TypeInv, TypeOK, LineType

\* The thread gives the answer up: what has been written is all that the numbers say.
LEMMA Leaves ==
    ASSUME TypeInv, NEW o \in Nat, NEW h \in Nat, NEW b \in Nat, NEW t \in Nat, Flow(o, h, b, t),
           pc \notin Done \ {"sseEnd"}, pc # "open",
           UNCHANGED <<req, ans, buffers, counts, flags, resent, reply, client>>,
           pc' \in {"failed", "exit", "sseEnd"},
           pc' = "failed" => framing = "none",
           pc' = "exit" => closing' = TRUE /\ framing # "none",
           pc' = "sseEnd" => pc = "sse",
           late' => late \/ pc' = "failed"
    PROVE  Flow(o, o, o, o)'
<1>1. /\ o <= h /\ h <= b /\ b <= t /\ t <= Limit(ans) /\ h <= Extent(ans) /\ out = P(0, o)
      /\ OnWire(o, b, t) /\ Marked /\ Committed /\ Framed(o) /\ Filling
  BY DEF Flow, Reached
<1>2. Limit(ans) \in Nat /\ Extent(ans) \in Nat
  BY Known, Bounds
<1>3. /\ UNCHANGED <<req, ans, kept, buf, first, tail, remaining, size, mode, chunked, maxclen, distressed>>
      /\ UNCHANGED <<framing, own, clen, out, ended>>
  BY DEF buffers, counts, flags, reply
<1>4. pc' \in Done /\ pc' # "idle"
  BY DEF Done
<1>5. Reached(o, o, o, o)'
  <2>1. o <= Limit(ans) /\ o <= Extent(ans)
    BY <1>1, <1>2
  <2>2. pc' \notin Pausing
    BY DEF Pausing
  <2> QED BY <1>1, <1>3, <1>4, <2>1, <2>2 DEF Reached, P
<1>6. OnWire(o, o, o)'
  BY <1>4 DEF OnWire, Done, Pausing
<1>7. Marked'
  BY <1>1, <1>3, <1>4 DEF Marked, Done, Distress
<1>8. Sized(o)'
  BY DEF Sized, Pausing, Streaming
<1>9. Committed'
  BY <1>1, <1>3 DEF Committed, Pausing, Streaming
<1>10. Framed(o)'
  <2>1. framing = "error" => FALSE
    BY <1>1 DEF Framed, Done
  <2>2. pc # "idle"
    BY DEF Done
  <2>3. pc = "sse" => framing # "none"
    BY <1>1 DEF Framed
  <2>4. ~late
    BY <1>1, <2>1 DEF Framed, Done
  <2> QED BY <1>1, <1>3, <1>4, <2>1, <2>2, <2>3, <2>4 DEF Framed
<1>11. Filling'
  BY <1>1, <1>3, <1>4 DEF Filling
<1> QED BY <1>5, <1>6, <1>7, <1>8, <1>9, <1>10, <1>11 DEF Flow

\* Nothing changes but what no number tells.
LEMMA Stays ==
    ASSUME NEW o \in Nat, NEW h \in Nat, NEW b \in Nat, NEW t \in Nat, Flow(o, h, b, t),
           UNCHANGED <<line, pc, req, ans, buffers, counts, flags, reply, closing, late>>
    PROVE  Flow(o, h, b, t)'
<1>1. /\ UNCHANGED <<req, ans, kept, buf, first, tail, remaining, size, mode, chunked, maxclen, distressed>>
      /\ UNCHANGED <<framing, own, clen, out, ended, wire, connected, eof, pc, closing, late>>
  BY DEF line, buffers, counts, flags, reply
<1>2. Reached(o, h, b, t)'
  BY <1>1 DEF Flow, Reached, P
<1>3. OnWire(o, b, t)'
  <2>1. \A j : (Between(t, j)' <=> Between(t, j)) /\ (Inside(t, j)' <=> Inside(t, j))
    BY <1>1 DEF Between, Inside, P
  <2>2. Paused(b, t)' <=> Paused(b, t)
    BY <1>1, <2>1 DEF Paused, P
  <2> QED BY <1>1, <2>1, <2>2 DEF Flow, OnWire, P
<1>4. Marked' /\ Sized(t)' /\ Committed' /\ Framed(o)' /\ Filling'
  BY <1>1 DEF Flow, Marked, Sized, Committed, Framed, Filling, Long
<1> QED BY <1>2, <1>3, <1>4 DEF Flow

LEMMA FailedFlow ==
    ASSUME TypeInv, NEW o \in Nat, NEW h \in Nat, NEW b \in Nat, NEW t \in Nat, Flow(o, h, b, t), Failed
    PROVE  Flow(0, 0, 0, 0)'
<1>1. /\ out = P(0, o) /\ Marked /\ Committed /\ Framed(o)
  BY DEF Flow, Reached
<1>2. /\ pc = "failed" /\ framing' = "error" /\ clen' = 0 /\ remaining' = 0 /\ buf' = <<>> /\ kept' = <<>>
      /\ wire' = <<>> /\ closing' = TRUE /\ pc' = "exit"
      /\ UNCHANGED <<req, ans, size, mode, chunked, maxclen, distressed, out, ended, late>>
  BY DEF Failed, flags
<1>3. framing = "none" /\ o = 0 /\ ~ended /\ req > 0
  BY <1>1, <1>2 DEF Framed
<1>4. Limit(ans) \in Nat /\ Extent(ans) \in Nat
  BY Known, Bounds
<1>5. Reached(0, 0, 0, 0)'
  <2>1. 0 <= Limit(ans) /\ 0 <= Extent(ans)
    BY <1>4
  <2> QED BY <1>1, <1>2, <1>3, <2>1 DEF Reached, P, Done, Pausing
<1>6. OnWire(0, 0, 0)' /\ Sized(0)'
  BY <1>2 DEF OnWire, Pausing, Sized, Streaming
<1>7. Marked'
  BY <1>1, <1>2 DEF Marked, Distress
<1>8. Committed'
  BY <1>1, <1>2 DEF Committed, Pausing, Streaming
<1>9. Framed(0)' /\ Filling'
  BY <1>1, <1>2, <1>3 DEF Framed, Filling
<1> QED BY <1>5, <1>6, <1>7, <1>8, <1>9 DEF Flow

LEMMA ExitFlow ==
    ASSUME TypeInv, NEW o \in Nat, NEW h \in Nat, NEW b \in Nat, NEW t \in Nat, Flow(o, h, b, t), Exit
    PROVE  Flow(o, o, o, o)'
<1>1. /\ o <= h /\ h <= b /\ b <= t /\ t <= Limit(ans) /\ h <= Extent(ans) /\ out = P(0, o)
      /\ OnWire(o, b, t) /\ Marked /\ Committed /\ Framed(o) /\ Filling
  BY DEF Flow, Reached
<1>2. /\ pc = "exit" /\ pc' = "idle"
      /\ connected' => wire' = wire /\ ~closing
      /\ UNCHANGED <<req, ans, kept, buf, tail, remaining, size, mode, chunked, maxclen, distressed>>
      /\ UNCHANGED <<framing, clen, out, ended, late>>
  BY DEF Exit, buffers, counts, flags, reply
<1>3. Limit(ans) \in Nat /\ Extent(ans) \in Nat
  BY Known, Bounds
<1>4. Reached(o, o, o, o)'
  <2>1. o <= Limit(ans) /\ o <= Extent(ans)
    BY <1>1, <1>3
  <2> QED BY <1>1, <1>2, <2>1 DEF Reached, P, Done, Pausing
<1>5. OnWire(o, o, o)'
  BY <1>1, <1>2 DEF OnWire, Pausing
<1>6. Sized(o)' /\ Marked' /\ Committed'
  BY <1>1, <1>2 DEF Pausing, Sized, Streaming, Marked, Distress, Committed
<1>7. Framed(o)'
  BY <1>1, <1>2 DEF Framed
<1>8. Filling'
  BY <1>1, <1>2 DEF Filling
<1> QED BY <1>4, <1>5, <1>6, <1>7, <1>8 DEF Flow

LEMMA SubmitFlow ==
    ASSUME TypeInv, NEW o \in Nat, NEW h \in Nat, NEW b \in Nat, NEW t \in Nat, Flow(o, h, b, t),
           NEW a \in Answers, NEW w \in BOOLEAN, Submit(a, w)
    PROVE  Flow(0, 0, 0, 0)'
<1>1. connected => wire = <<>>
  BY DEF Flow, OnWire, Submit
<1>2. req' = req + 1 /\ req' \in Nat /\ req' > 0 /\ ans' = a
  BY Known DEF Submit
<1> DEFINE s == Sent(req', ans')
<1>3. wire' = s
  <2>1. s \in Seq(Byte)
    BY <1>2, SentProperties
  <2>2. wire' = <<>> \o s
    BY <1>1, <1>2 DEF Submit
  <2> HIDE DEF s
  <2> QED BY <2>1, <2>2, ConcatEmptySeq
<1>4. /\ pc' = "head" /\ kept' = <<>> /\ buf' = <<>> /\ tail' = <<>> /\ remaining' = 0 /\ size' = 0
      /\ mode' = "plain" /\ chunked' = FALSE /\ maxclen' = FALSE /\ distressed' = FALSE
      /\ framing' = "none" /\ clen' = 0 /\ out' = <<>> /\ ended' = FALSE /\ late' = FALSE
  BY DEF Submit
<1>5. Reached(0, 0, 0, 0)'
  <2>1. 0 <= Limit(a) /\ 0 <= Extent(a)
    BY Bounds
  <2>2. Piece(req', ans', 0, 0) = <<>>
    BY PieceNone
  <2> QED BY <1>2, <1>4, <2>1, <2>2, FlattenNone DEF Reached, P, Pausing
<1>6. OnWire(0, 0, 0)'
  BY <1>3, <1>4 DEF OnWire, Pausing
<1>7. Marked' /\ Sized(0)' /\ Committed'
  BY <1>4 DEF Marked, Sized, Committed, Pausing, Streaming
<1>8. Framed(0)' /\ Filling'
  BY <1>2, <1>4 DEF Framed, Filling
<1> QED BY <1>5, <1>6, <1>7, <1>8 DEF Flow

LEMMA Empties ==
    ASSUME NEW r \in Nat, NEW a \in Answers, NEW lo \in Nat, NEW hi \in Nat, lo <= hi, hi <= Whole(a)
    PROVE  Piece(r, a, lo, hi) = <<>> <=> lo = hi
<1>1. Len(Piece(r, a, lo, hi)) = hi - lo
  BY PieceType
<1>2. Len(<<>>) = 0
  BY EmptySeq
<1>3. lo = hi => Piece(r, a, lo, hi) = <<>>
  BY PieceNone
<1> QED BY <1>1, <1>2, <1>3

LEMMA ReadHeadFlow ==
    ASSUME Sound, TypeInv, NEW o \in Nat, NEW h \in Nat, NEW b \in Nat, NEW t \in Nat, Flow(o, h, b, t), ReadHead
    PROVE  Flow(0, 0, 0, 0)'
<1>1. /\ o <= h /\ h <= b /\ b <= t /\ out = P(0, o) /\ OnWire(o, b, t) /\ Marked /\ Committed
      /\ Framed(o) /\ Filling /\ Reached(o, h, b, t)
  BY DEF Flow, Reached
<1>2. pc = "head" /\ wire = Sent(req, ans) /\ t = 0 /\ Head(wire).kind = "head"
  BY <1>1, HeadIsWhole DEF OnWire
<1>3. o = 0 /\ h = 0 /\ b = 0
  BY <1>1, <1>2
<1>4. /\ framing = "none" /\ ~distressed /\ kept = <<>> /\ mode = "plain" /\ ~ended /\ req > 0 /\ ~late
  BY <1>1, <1>2 DEF Framed, Marked, Filling, TypeInv, ModeFits
<1>5. /\ UNCHANGED <<req, ans, kept, buf, tail, remaining, chunked, maxclen, distressed>>
      /\ UNCHANGED <<framing, own, clen, out, ended, late>>
      /\ wire' = Rest(wire, 1)
  BY HeadIsWhole DEF WholeHead, Receive, Leaving, Rest, reply
<1>6. req \in Nat /\ ans \in Answers
  BY Known
<1>7. /\ Head(wire) = Tok("head", req, IF ans.mode = "plain" THEN PreLen + Total(ans) ELSE 0)
      /\ wire' = CASE ans.mode \in {"plain", "sse"} -> Piece(req, ans, 0, Total(ans))
                   [] ans.mode = "ascii"            -> Piece(req, ans, 0, Whole(ans))
                   [] ans.mode = "block"            -> After(req, ans)[0]
  BY <1>2, <1>5, <1>6, SentProperties
<1>8. \/ /\ ans.mode \in {"plain", "sse"} /\ pc' = "body" /\ mode' = "plain"
         /\ size' = IF ans.mode = "plain" THEN PreLen + Total(ans) ELSE 0
         /\ wire' = P(0, Total(ans))
      \/ /\ ans.mode = "block" /\ mode' = "block" /\ pc' = "blockHead" /\ size' = PreLen
         /\ wire' = After(req, ans)[0]
      \/ /\ ans.mode = "ascii" /\ mode' = "ascii" /\ pc' = "ascii" /\ size' = PreLen
         /\ wire' = P(0, Whole(ans))
  BY <1>4, <1>7, HeadIsWhole DEF WholeHead, Tok, P
<1>9. Ends(ans)[0] = 0 /\ 0 \in 0..Len(ans.parts) /\ PreLen + 0 = PreLen
      /\ (ans.mode = "ascii" => Limit(ans) = Whole(ans))
  BY <1>6, AnswerType, Sizes, Bounds
<1>10. Reached(0, 0, 0, 0)'
  BY <1>1, <1>2, <1>3, <1>5, <1>8 DEF Reached, P, Done, Pausing
<1>11. OnWire(0, 0, 0)'
  BY <1>5, <1>8, <1>9 DEF OnWire, Between, P, Pausing
<1>12. Marked'
  BY <1>4, <1>5, <1>8 DEF Marked
<1>13. Sized(0)'
  BY <1>5, <1>8, <1>9 DEF Sized, Pausing, Streaming
<1>14. Committed'
  BY <1>1, <1>4, <1>5, <1>8 DEF Committed
<1>15. Framed(0)' /\ Filling'
  BY <1>1, <1>3, <1>4, <1>5, <1>8 DEF Framed, Filling
<1> QED BY <1>10, <1>11, <1>12, <1>13, <1>14, <1>15 DEF Flow

LEMMA ResendFlow ==
    ASSUME TypeInv, NEW o \in Nat, NEW h \in Nat, NEW b \in Nat, NEW t \in Nat, Flow(o, h, b, t), Resend
    PROVE  Flow(o, h, b, t)'
<1>1. wire' = wire
  BY DEF Flow, OnWire, Resend
<1> QED BY <1>1, Stays DEF Resend, line

LEMMA HeadFailsFlow ==
    ASSUME TypeInv, NEW o \in Nat, NEW h \in Nat, NEW b \in Nat, NEW t \in Nat, Flow(o, h, b, t),
           NEW rc \in Failures, HeadFails(rc)
    PROVE  Flow(o, o, o, o)'
<1>1. framing = "none"
  BY DEF HeadFails, Flow, Framed
<1> QED BY <1>1, Leaves DEF HeadFails, Done

LEMMA ReadBodyFlow ==
    ASSUME Sound, TypeInv, NEW o \in Nat, NEW h \in Nat, NEW b \in Nat, NEW t \in Nat, Flow(o, h, b, t),
           NEW n \in Lengths, NEW rc \in {"timeout", "eof"}, ReadBody(n, rc)
    PROVE  \E k \in Nat : Flow(0, 0, k, k)'
<1>1. /\ o <= h /\ h <= b /\ b <= t /\ t <= Limit(ans) /\ out = P(0, o) /\ OnWire(o, b, t) /\ Marked
      /\ Committed /\ Framed(o) /\ Filling /\ Sized(t) /\ Reached(o, h, b, t)
  BY DEF Flow, Reached
<1>2. pc = "body" /\ pc' = "frame" /\ wire = P(0, Total(ans)) /\ t = 0
  BY <1>1 DEF ReadBody, OnWire
<1>3. o = 0 /\ h = 0 /\ b = 0
  BY <1>1, <1>2
<1>4. /\ framing = "none" /\ ~distressed /\ kept = <<>> /\ mode = "plain" /\ ~ended /\ req > 0 /\ ~late
      /\ ans.mode \in {"plain", "sse"}
      /\ size = IF ans.mode = "plain" THEN PreLen + Total(ans) ELSE 0
  BY <1>1, <1>2 DEF Framed, Marked, Filling, Sized, TypeInv, SizeCovers
<1>5. /\ UNCHANGED <<req, ans, kept, tail, size, mode, chunked, maxclen, distressed>>
      /\ UNCHANGED <<framing, own, clen, out, ended>>
      /\ remaining' = RestOfBody /\ ReceiveAll(BodyLength, n, rc)
      /\ buf' = IF size < PreLen THEN <<>> ELSE Filled(BodyLength, n)
  BY DEF ReadBody, flags, reply
<1>6. req \in Nat /\ ans \in Answers /\ LineType /\ late \in BOOLEAN /\ n \in Nat
  BY Known, Sizes DEF Lengths
<1>7. Total(ans) \in Nat /\ Whole(ans) \in Nat /\ Total(ans) <= Whole(ans)
      /\ Limit(ans) = Total(ans) /\ Extent(ans) = Total(ans)
  BY <1>4, <1>6, Bounds
<1>8. PICK k \in Nat : k = BodyLength /\ k <= Total(ans) /\ (ans.mode = "sse" => k = 0)
                       /\ RestOfBody = IF ans.mode = "plain" THEN Total(ans) - k ELSE 0
  <2>1. CASE ans.mode = "sse"
    <3>1. BodyLength = 0 /\ RestOfBody = 0
      BY <1>4, <2>1, Sizes DEF BodyLength, RestOfBody
    <3> QED BY <1>7, <2>1, <3>1
  <2>2. CASE ans.mode = "plain"
    <3>1. PreLen + Total(ans) < Width /\ (PreLen + Total(ans) <= Room \/ Total(ans) >= Room)
      BY <1>6, <2>2 DEF Sound, Regular
    <3>2. size = PreLen + Total(ans) /\ size # 0
      BY <1>4, <1>7, <2>2, Sizes
    <3>3. CASE size <= Room
      <4>1. BodyLength = Total(ans) /\ RestOfBody = 0
        BY <1>7, <3>2, <3>3, Sizes DEF BodyLength, RestOfBody
      <4> QED BY <1>7, <2>2, <4>1
    <3>4. CASE size > Room
      <4>1. BodyLength = Room /\ Room <= Total(ans)
        BY <1>7, <3>1, <3>2, <3>4, Sizes DEF BodyLength
      <4> DEFINE d == Total(ans) - Room
      <4>2. d \in 0..(Width - 1)
        BY <1>7, <3>1, <4>1, Sizes
      <4>3. RestOfBody = (Width + size - (Room + PreLen)) % Width
        BY <3>4, <4>1 DEF RestOfBody
      <4>4. Width + size - (Room + PreLen) = Width + d
        BY <1>7, <3>2, <4>1, Sizes
      <4> HIDE DEF d
      <4>5. RestOfBody = d
        BY <4>2, <4>3, <4>4, Wrapped, Sizes
      <4> QED BY <2>2, <4>1, <4>5, Sizes DEF d
    <3> QED BY <1>6, <3>2, <3>3, <3>4, <1>7, Sizes
  <2> QED BY <1>4, <2>1, <2>2
<1>9. Len(wire) = Total(ans)
  <2> DEFINE z == 0
  <2>1. z \in Nat /\ z <= Total(ans) /\ Total(ans) - z = Total(ans)
    BY <1>7
  <2>2. wire = Piece(req, ans, z, Total(ans))
    BY <1>2 DEF P
  <2> HIDE DEF z
  <2>3. Len(Piece(req, ans, z, Total(ans))) = Total(ans) - z
    <3> DEFINE w == Total(ans)
    <3>1. w \in Nat /\ z \in Nat /\ z <= w /\ w <= Whole(ans) /\ req \in Nat /\ ans \in Answers
      BY <1>6, <1>7, <2>1
    <3> HIDE DEF w
    <3>2. Len(Piece(req, ans, z, w)) = w - z
      BY ONLY <3>1, PieceType
    <3> QED BY <3>2 DEF w
  <2> QED BY <2>1, <2>2, <2>3
<1>10. n = k /\ buf' = Begin(wire, k) /\ wire' = Rest(wire, k) /\ late' = late
  <2>1. ReceiveAll(k, n, rc) /\ k <= Len(wire) /\ "short" \notin Faults
    BY <1>5, <1>8, <1>9 DEF Sound
  <2>2. /\ n = k /\ Filled(k, n) = Begin(wire, k) /\ wire' = Rest(wire, k) /\ late' = late
    BY <1>6, <2>1, ReceivesAll
  <2>3. buf' = IF size < PreLen THEN <<>> ELSE Begin(wire, k)
    BY <1>5, <1>8, <2>2
  <2>4. CASE ans.mode = "plain"
    <3>1. ~(size < PreLen)
      BY <1>4, <1>7, <2>4, Sizes
    <3> QED BY <2>2, <2>3, <3>1
  <2>5. CASE ans.mode = "sse"
    <3>1. k = 0 /\ size < PreLen
      BY <1>4, <1>8, <2>5, Sizes
    <3>2. Begin(wire, k) = <<>>
      BY <3>1, EmptySeq DEF Begin
    <3> QED BY <2>2, <2>3, <3>1, <3>2
  <2> QED BY <1>4, <2>4, <2>5
<1>11. buf' = P(0, k) /\ wire' = P(k, Total(ans))
  <2> DEFINE z == 0
  <2>1. z \in Nat /\ z <= Total(ans) /\ Total(ans) <= Whole(ans) /\ k \in 0..(Total(ans) - z) /\ z + k = k
    BY <1>7, <1>8
  <2>2. wire = Piece(req, ans, z, Total(ans))
    BY <1>2 DEF P
  <2> HIDE DEF z
  <2>3. Begin(wire, k) = Piece(req, ans, z, z + k) /\ Rest(wire, k) = Piece(req, ans, z + k, Total(ans))
    BY <1>6, <1>7, <2>1, <2>2, PieceSplit
  <2> QED BY <1>10, <2>1, <2>3 DEF P, z
<1>12. Reached(0, 0, k, k)'
  <2>1. P(k, k) = <<>> /\ P(0, 0) = <<>>
    BY PieceNone DEF P
  <2>2. tail = <<>> /\ FlattenSeq(kept) = <<>>
    BY <1>2, <1>4, FlattenNone DEF TypeInv, ModeFits
  <2> QED BY <1>1, <1>2, <1>3, <1>5, <1>7, <1>8, <1>11, <2>1, <2>2 DEF Reached, P, Done, Pausing
<1>13. OnWire(0, k, k)'
  <2>1. ASSUME ans.mode # "sse" PROVE Paused(k, k)'
    <3>1. remaining' = Total(ans) - k /\ ans.mode = "plain"
      BY <1>4, <1>5, <1>8, <2>1
    <3>2. CASE remaining' = 0
      <4>1. k = Total(ans)
        BY <1>7, <3>1, <3>2
      <4>2. wire' = <<>>
        BY <1>11, <4>1, PieceNone DEF P
      <4> QED BY <1>5, <1>7, <3>2, <4>1, <4>2 DEF Paused
    <3>3. CASE remaining' # 0
      <4>1. k + remaining' = Total(ans)
        BY <1>7, <3>1
      <4> QED BY <1>4, <1>5, <1>11, <3>1, <3>3, <4>1 DEF Paused, P
    <3> QED BY <3>2, <3>3
  <2>2. ans.mode = "sse" => wire' = P(0, Total(ans)) /\ kept' = <<>> /\ k = 0
    BY <1>4, <1>5, <1>8, <1>11
  <2> QED BY <1>2, <1>5, <2>1, <2>2 DEF OnWire, P
<1>14. Marked' /\ Committed' /\ Sized(k)'
  BY <1>1, <1>2, <1>4, <1>5 DEF Marked, Committed, Sized, Streaming
<1>15. Framed(0)' /\ Filling'
  BY <1>1, <1>2, <1>3, <1>4, <1>5, <1>10 DEF Framed, Filling
<1>16. Flow(0, 0, k, k)'
  BY <1>12, <1>13, <1>14, <1>15 DEF Flow
<1> QED BY <1>16

LEMMA AsciiEndFlow ==
    ASSUME TypeInv, NEW o \in Nat, NEW h \in Nat, NEW b \in Nat, NEW t \in Nat, Flow(o, h, b, t),
           NEW g \in Nat, h <= g, g <= Extent(ans), pc = "ascii",
           buf' = P(h, g), tail' = <<>>, size' = PreLen + g, remaining' = 0, wire' = <<>>, g = Extent(ans),
           pc' = Returned, UNCHANGED <<connected, eof, req, ans, kept, first, flags, resent, reply, closing, client, late>>
    PROVE  Flow(o, h, g, g)'
<1>1. /\ o <= h /\ h <= b /\ b <= t /\ out = P(0, o) /\ OnWire(o, b, t) /\ Marked /\ h <= Extent(ans)
      /\ Committed /\ Framed(o) /\ Filling /\ FlattenSeq(kept) = P(o, h)
  BY DEF Flow, Reached, Done
<1>2. /\ UNCHANGED <<req, ans, kept, mode, chunked, maxclen, distressed, framing, own, clen, out, ended, late>>
      /\ pc' = IF framing = "none" THEN "frame" ELSE "write"
      /\ mode = "ascii" /\ ans \in Answers
  BY Known DEF flags, reply, Returned, TypeInv, ModeFits
<1>3. Extent(ans) <= Limit(ans) /\ Limit(ans) \in Nat
  BY <1>2, Bounds
<1>4. Reached(o, h, g, g)'
  <2>1. P(g, g) = <<>>
    BY PieceNone DEF P
  <2>2. g <= Limit(ans) /\ g <= g
    BY <1>3
  <2> QED BY <1>1, <1>2, <2>1, <2>2 DEF Reached, P
<1>5. OnWire(o, g, g)'
  <2>1. Paused(g, g)'
    BY <1>2 DEF Paused
  <2>2. ans.mode # "sse"
    BY <1>1, <1>2 DEF Marked
  <2> QED BY <1>2, <2>1, <2>2 DEF OnWire
<1>6. Marked' /\ Sized(g)'
  BY <1>1, <1>2 DEF Marked, Sized, Distress
<1>7. Committed'
  BY <1>1, <1>2 DEF Committed
<1>8. Framed(o)' /\ Filling'
  BY <1>1, <1>2 DEF Framed, Filling
<1> QED BY <1>4, <1>5, <1>6, <1>7, <1>8 DEF Flow

\* A full buffer, whose last bytes are kept back.
LEMMA AsciiFullFlow ==
    ASSUME TypeInv, NEW o \in Nat, NEW h \in Nat, NEW b \in Nat, NEW t \in Nat, Flow(o, h, b, t),
           NEW g \in Nat, t <= g, g = h + Room, g <= Limit(ans), pc = "ascii",
           buf' = Cut(P(h, g)),
           tail' = Keep(P(h, g)),
           size' = PreLen + g, remaining' = MarkLen, wire' = P(g, Limit(ans)), pc' = "full",
           UNCHANGED <<connected, eof, req, ans, kept, first, flags, resent, reply, closing, client, late>>
    PROVE  \E c \in Nat : Flow(o, h, c, g)'
<1>1. /\ o <= h /\ h <= b /\ b <= t /\ out = P(0, o) /\ OnWire(o, b, t) /\ Marked /\ h <= Extent(ans)
      /\ Committed /\ Framed(o) /\ Filling /\ FlattenSeq(kept) = P(o, h) /\ Sized(t)
  BY DEF Flow, Reached, Done
<1>2. /\ UNCHANGED <<req, ans, kept, mode, chunked, maxclen, distressed, framing, own, clen, out, ended, late>>
      /\ mode = "ascii" /\ ans \in Answers /\ req \in Nat
  BY Known DEF flags, reply, TypeInv, ModeFits
<1>3. /\ Total(ans) \in Nat /\ Whole(ans) = Total(ans) + MarkLen /\ g <= Whole(ans)
      /\ Extent(ans) \in Nat /\ Limit(ans) \in Nat /\ Extent(ans) >= Total(ans)
  BY <1>2, Bounds
<1>4. PICK c \in Nat : c = g - MarkLen /\ h < c /\ c < g /\ h + MarkLen <= g /\ g - c = MarkLen
  <2>1. g - MarkLen \in Nat /\ h < g - MarkLen /\ g - MarkLen < g /\ h + MarkLen <= g /\ g - (g - MarkLen) = MarkLen
    BY Sizes
  <2> QED BY <2>1
<1>5. buf' = P(h, c) /\ tail' = P(c, g)
  <2>1. /\ Cut(Piece(req, ans, h, g)) = Piece(req, ans, h, g - MarkLen)
        /\ Keep(Piece(req, ans, h, g)) = Piece(req, ans, g - MarkLen, g)
    <3>1. /\ req \in Nat /\ ans \in Answers /\ h \in Nat /\ g \in Nat /\ h + MarkLen <= g /\ g <= Whole(ans)
      BY <1>2, <1>3, <1>4
    <3> QED BY ONLY <3>1, CutPiece
  <2> QED BY <1>4, <2>1 DEF P
<1>6. c <= Extent(ans) /\ h <= c /\ c <= g
  BY <1>3, <1>4, Sizes
<1>7. Len(tail') = MarkLen /\ buf' # <<>>
  <2>1. /\ req \in Nat /\ ans \in Answers /\ h \in Nat /\ c \in Nat /\ g \in Nat
        /\ c <= g /\ h <= c /\ g <= Whole(ans)
    <3>1. c <= g /\ h <= c
      BY <1>4
    <3> QED BY <1>2, <1>3, <3>1
  <2>w. c <= Whole(ans) /\ h # c
    <3>1. Whole(ans) \in Nat
      BY <1>2, Bounds
    <3> QED BY <1>4, <2>1, <3>1
  <2>2. Len(Piece(req, ans, c, g)) = g - c
    BY ONLY <2>1, PieceType
  <2>3. Piece(req, ans, h, c) # <<>>
    BY ONLY <2>1, <2>w, Empties
  <2> QED BY <1>4, <1>5, <2>2, <2>3 DEF P
<1>8. Reached(o, h, c, g)'
  BY <1>1, <1>2, <1>5, <1>6 DEF Reached, P
<1>9. OnWire(o, c, g)'
  <2>1. Paused(c, g)'
    BY <1>2, <1>7, Sizes DEF Paused, P
  <2> QED BY <2>1 DEF OnWire
<1>10. Marked' /\ Sized(g)'
  BY <1>1, <1>2 DEF Marked, Sized, Distress
<1>11. Committed'
  <2>1. size \in Nat /\ size' >= size /\ size' \in Nat /\ MaxClen \in Nat
    BY <1>1, Known, Sizes DEF Sized, Streaming
  <2>2. framing # "none" => Long
    BY <1>1, <1>2 DEF Committed, Streaming
  <2>3. Long => Long'
    BY <1>2, <2>1 DEF Long
  <2> QED BY <1>1, <1>2, <2>2, <2>3 DEF Committed
<1>12. Framed(o)'
  BY <1>1, <1>2 DEF Framed
<1>13. Filling'
  BY <1>1, <1>2, <1>7, Sizes DEF Filling
<1>14. Flow(o, h, c, g)'
  BY <1>8, <1>9, <1>10, <1>11, <1>12, <1>13 DEF Flow
<1> QED BY <1>14

LEMMA AsciiReadFlow ==
    ASSUME TypeInv, NEW o \in Nat, NEW h \in Nat, NEW b \in Nat, NEW t \in Nat, Flow(o, h, b, t),
           NEW n \in 1..Len(wire), AsciiRead(n)
    PROVE  \E c, g \in Nat : Flow(o, h, c, g)'
<1>1. /\ o <= h /\ h <= b /\ b <= t /\ t <= Limit(ans) /\ out = P(0, o) /\ OnWire(o, b, t) /\ Marked /\ Sized(t)
      /\ h <= Extent(ans) /\ Committed /\ Framed(o) /\ Filling /\ FlattenSeq(kept) = P(o, h) /\ buf = P(h, b)
      /\ tail = P(b, t) /\ Reached(o, h, b, t)
  BY DEF Flow, Reached, Done, AsciiRead
<1>2. /\ pc = "ascii" /\ wire = P(t, Limit(ans)) /\ b = t /\ size = PreLen + t
      /\ UNCHANGED <<connected, eof, req, ans, kept, first, flags, resent, reply, closing, client, late>>
      /\ wire' = Rest(wire, n) /\ n <= Len(wire) /\ Taking(n) = Begin(wire, n)
  BY <1>1 DEF AsciiRead, OnWire, Sized, Streaming, Receive, Leaving, Taking, Rest, Begin
<1>3. /\ UNCHANGED <<mode, chunked, maxclen, distressed, framing, own, clen, out, ended>>
      /\ mode = "ascii" /\ ans \in Answers /\ req \in Nat
      /\ ans.mode = "ascii" \/ Distress(ans)
      /\ distressed <=> ans.mode = "block"
  BY <1>1, <1>2, Known DEF flags, reply, TypeInv, ModeFits, Marked
<1>4. /\ Limit(ans) = Whole(ans) /\ Whole(ans) \in Nat /\ Whole(ans) = Total(ans) + MarkLen /\ Total(ans) \in Nat
      /\ Extent(ans) = IF distressed THEN Whole(ans) ELSE Total(ans)
  BY <1>3, Bounds DEF Distress
<1>5. PICK g \in Nat : g = t + n
  BY <1>1
<1>6. Len(wire) = Whole(ans) - t
  <2> DEFINE w == Whole(ans)
  <2>1. /\ req \in Nat /\ ans \in Answers /\ t \in Nat /\ w \in Nat /\ t <= w /\ w <= Whole(ans)
    BY <1>1, <1>3, <1>4
  <2> HIDE DEF w
  <2>2. Len(Piece(req, ans, t, w)) = w - t
    BY ONLY <2>1, PieceType
  <2> QED BY <1>2, <1>4, <2>2 DEF P, w
<1>7. t <= g /\ g <= Whole(ans) /\ h <= g /\ size + n = PreLen + g /\ n \in Nat
  BY <1>1, <1>2, <1>4, <1>5, <1>6, Sizes
<1> DEFINE got == buf \o Taking(n)
<1>8. got = P(h, g) /\ wire' = P(g, Limit(ans))
  <2> DEFINE w == Whole(ans)
  <2>1. h <= t /\ t + n <= w /\ w <= Whole(ans) /\ w \in Nat
    BY <1>1, <1>4, <1>5, <1>7
  <2> HIDE DEF w
  <2>2. /\ Piece(req, ans, h, t) \o Begin(Piece(req, ans, t, w), n) = Piece(req, ans, h, t + n)
        /\ Rest(Piece(req, ans, t, w), n) = Piece(req, ans, t + n, w)
    <3>1. req \in Nat /\ ans \in Answers /\ h \in Nat /\ t \in Nat /\ n \in Nat
      BY <1>3, <1>7
    <3> QED BY ONLY <2>1, <3>1, Gain
  <2> QED BY <1>1, <1>2, <1>4, <1>5, <2>2 DEF P, w
<1>9. Len(got) = g - h
  <2>1. Len(Piece(req, ans, h, g)) = g - h
    BY <1>3, <1>7, PieceType
  <2> QED BY <1>8, <2>1 DEF P
<1>10. CASE EndsInMark(got)
  <2>1. /\ buf' = (IF distressed THEN got ELSE Cut(got))
        /\ size' = (size + n) - (IF distressed THEN 0 ELSE MarkLen)
        /\ remaining' = 0 /\ tail' = <<>> /\ pc' = Returned
    BY <1>10 DEF AsciiRead
  <2>2. g = Whole(ans) /\ h + MarkLen <= g
    <3>1. EndsInMark(Piece(req, ans, h, g))
      BY <1>8, <1>10 DEF P
    <3> HIDE DEF got
    <3> QED BY <1>3, <1>7, <3>1, MarkAtEnd
  <2>3. wire' = <<>>
    BY <1>4, <1>8, <2>2, PieceNone DEF P
  <2>4. PICK e \in Nat : e = Extent(ans) /\ h <= e /\ e <= Extent(ans)
    BY <1>3, <1>1, Bounds
  <2>5. buf' = P(h, e) /\ size' = PreLen + e
    <3>1. CASE distressed
      BY <1>1, <1>2, <1>4, <1>7, <1>8, <2>1, <2>2, <2>4, <3>1, Sizes
    <3>2. CASE ~distressed
      <4>1. e = g - MarkLen
        BY <1>4, <2>2, <2>4, <3>2, Sizes
      <4>2. Cut(Piece(req, ans, h, g)) = Piece(req, ans, h, g - MarkLen)
        BY <1>3, <1>7, <2>2, CutPiece
      <4>3. size' = (PreLen + g) - MarkLen
        BY <1>7, <2>1, <3>2
      <4>4. size' = PreLen + e
        <5>1. g \in Nat /\ PreLen \in Nat /\ MarkLen \in Nat /\ MarkLen <= g
          BY <1>4, <2>2, Sizes
        <5> QED BY <4>1, <4>3, <5>1
      <4> QED BY <1>8, <2>1, <3>2, <4>1, <4>2, <4>4 DEF P
    <3> QED BY <3>1, <3>2, <1>3
  <2>6. Flow(o, h, e, e)'
    BY <1>2, <2>1, <2>3, <2>4, <2>5, AsciiEndFlow
  <2> QED BY <2>6
<1>11. CASE ~EndsInMark(got) /\ Len(got) = Room
  <2>1. /\ buf' = Cut(got) /\ tail' = Keep(got)
        /\ size' = size + n /\ remaining' = MarkLen /\ pc' = "full"
    BY <1>11 DEF AsciiRead, Keep
  <2>2. g = h + Room /\ g <= Limit(ans) /\ size' = PreLen + g
    BY <1>4, <1>7, <1>9, <1>11, <2>1
  <2>3. /\ buf' = Cut(P(h, g)) /\ tail' = Keep(P(h, g))
    BY <1>8, <2>1
  <2> HIDE DEF got
  <2>4. \E c \in Nat : Flow(o, h, c, g)'
    BY <1>2, <1>7, <1>8, <2>1, <2>2, <2>3, AsciiFullFlow
  <2> QED BY <2>4
<1>12. CASE ~EndsInMark(got) /\ Len(got) # Room
  <2>1. buf' = got /\ tail' = tail /\ remaining' = remaining /\ pc' = pc /\ size' = size + n
    BY <1>12 DEF AsciiRead
  <2>2. Reached(o, h, g, g)'
    <3>1. P(g, g) = <<>> /\ P(b, t) = <<>>
      BY <1>2, PieceNone DEF P
    <3>2. g <= g /\ g <= Limit(ans)
      BY <1>4, <1>7
    <3> QED BY <1>1, <1>2, <1>3, <1>7, <1>8, <2>1, <3>1, <3>2 DEF Reached, P, Done, Pausing
  <2>3. OnWire(o, g, g)'
    BY <1>2, <1>8, <2>1 DEF OnWire, Pausing, P
  <2>4. Marked' /\ Sized(g)'
    BY <1>1, <1>2, <1>3, <1>7, <2>1 DEF Marked, Sized, Distress, Pausing, Streaming
  <2>5. Committed'
    <3>1. size \in Nat /\ size' >= size /\ size' \in Nat /\ MaxClen \in Nat
      <4>1. size \in Nat /\ MaxClen \in Nat
        BY Known, Sizes
      <4> QED BY <1>7, <2>1, <4>1
    <3>2. framing # "none" => Long
      BY <1>1, <1>2, <1>3 DEF Committed, Streaming
    <3>3. Long => Long'
      BY <1>3, <3>1 DEF Long
    <3> QED BY <1>1, <1>2, <1>3, <2>1, <3>2, <3>3 DEF Committed
  <2>6. Framed(o)' /\ Filling'
    BY <1>1, <1>2, <1>3, <2>1 DEF Framed, Filling
  <2>7. Flow(o, h, g, g)'
    BY <2>2, <2>3, <2>4, <2>5, <2>6 DEF Flow
  <2> QED BY <2>7
<1> QED BY <1>10, <1>11, <1>12

LEMMA AsciiNoSpaceFlow ==
    ASSUME TypeInv, NEW o \in Nat, NEW h \in Nat, NEW b \in Nat, NEW t \in Nat, Flow(o, h, b, t), AsciiNoSpace
    PROVE  \E c, g \in Nat : Flow(o, h, c, g)'
<1>1. /\ h <= b /\ t <= Limit(ans) /\ OnWire(o, b, t) /\ Sized(t) /\ buf = P(h, b)
  BY DEF Flow, Reached, Done, AsciiNoSpace
<1>2. /\ pc = "ascii" /\ wire = P(t, Limit(ans)) /\ b = t /\ size = PreLen + t /\ Len(buf) = Room
      /\ buf' = Cut(P(h, t)) /\ tail' = Keep(P(h, t))
      /\ remaining' = MarkLen /\ pc' = "full" /\ wire' = wire /\ size' = size
      /\ UNCHANGED <<connected, eof, req, ans, kept, first, flags, resent, reply, closing, client, late>>
  BY <1>1 DEF AsciiNoSpace, OnWire, Sized, Streaming, line, Keep
<1>3. t = h + Room
  <2>1. h <= t /\ t <= Whole(ans) /\ ans \in Answers /\ req \in Nat
    <3>1. ans \in Answers /\ req \in Nat
      BY Known
    <3>2. Limit(ans) \in Nat /\ Whole(ans) \in Nat /\ Limit(ans) <= Whole(ans)
      BY <3>1, Bounds
    <3> QED BY <1>1, <1>2, <3>1, <3>2
  <2>2. Len(Piece(req, ans, h, t)) = t - h
    BY <2>1, PieceType
  <2> QED BY <1>1, <1>2, <2>1, <2>2, Sizes DEF P
<1>4. t <= t
  OBVIOUS
<1>5. \E c \in Nat : Flow(o, h, c, t)'
  BY <1>1, <1>2, <1>3, <1>4, AsciiFullFlow
<1> QED BY <1>5

\* The same, kind by kind.
LEMMA SizeHead ==
    ASSUME NEW r \in Nat, NEW a \in Answers, NEW j \in 0..Len(a.parts), Head(After(r, a)[j]).kind = "size"
    PROVE  /\ j < Len(a.parts) /\ Head(After(r, a)[j]).n = a.parts[j + 1]
           /\ Rest(After(r, a)[j], 1) = Piece(r, a, Ends(a)[j], Ends(a)[j + 1]) \o After(r, a)[j + 1]
BY BlockHeads

LEMMA EndHead ==
    ASSUME NEW r \in Nat, NEW a \in Answers, NEW j \in 0..Len(a.parts), Head(After(r, a)[j]).kind = "end"
    PROVE  j = Len(a.parts) /\ ~a.broken /\ Rest(After(r, a)[j], 1) = <<>>
BY BlockHeads

LEMMA DataHead ==
    ASSUME NEW r \in Nat, NEW a \in Answers, NEW j \in 0..Len(a.parts), Head(After(r, a)[j]).kind = "data"
    PROVE  a.broken /\ After(r, a)[j] = Piece(r, a, Ends(a)[j], Whole(a))
BY BlockHeads

\* Where the head of a block is awaited, some number of blocks lies behind.
LEMMA AtSomeHead ==
    ASSUME TypeInv, NEW o \in Nat, NEW h \in Nat, NEW b \in Nat, NEW t \in Nat, Flow(o, h, b, t), AtHead
    PROVE  /\ mode = "block" /\ ans.mode = "block" /\ ~distressed /\ tail = <<>> /\ b = t
           /\ size = PreLen + t /\ pc \in Streaming
           /\ framing # "none" => Long
           /\ \E j \in 0..Len(ans.parts) : Between(t, j) /\ (pc = "nextHead" => j > 0)
<1>1. OnWire(o, b, t) /\ Marked /\ Sized(t) /\ Committed /\ b <= t /\ tail = P(b, t) /\ t <= Limit(ans)
  BY DEF Flow, Reached, AtHead, Done
<1>2. mode = "block" /\ tail = <<>> /\ ans \in Answers /\ req \in Nat
  BY Known DEF AtHead, TypeInv, ModeFits
<1>3. ans.mode = "block" /\ ~distressed
  BY <1>1, <1>2 DEF Marked
<1>4. size = PreLen + t /\ pc \in Streaming /\ (framing # "none" => Long)
  BY <1>1, <1>2 DEF Sized, AtHead, Streaming, Committed
<1>5. b = t
  <2>1. t <= Whole(ans)
    <3>1. Limit(ans) \in Nat /\ Whole(ans) \in Nat /\ Limit(ans) <= Whole(ans)
      BY <1>2, Bounds
    <3> QED BY <1>1, <3>1
  <2>2. Piece(req, ans, b, t) = <<>> <=> b = t
    BY <1>1, <1>2, <2>1, Empties
  <2> QED BY <1>1, <1>2, <2>2 DEF P
<1>6. \E j \in 0..Len(ans.parts) : Between(t, j) /\ (pc = "nextHead" => j > 0)
  <2>1. CASE pc = "blockHead"
    <3>1. Between(t, 0)
      BY <1>1, <2>1 DEF OnWire
    <3> QED BY <2>1, <3>1 DEF Between
  <2>2. CASE pc = "nextHead"
    <3>1. PICK j \in 1..Len(ans.parts) : Between(t, j)
      BY <1>1, <2>2 DEF OnWire
    <3>2. Len(ans.parts) \in Nat
      BY <1>2, AnswerType
    <3>3. j \in 0..Len(ans.parts) /\ j > 0
      BY <3>2
    <3> QED BY <3>1, <3>3
  <2> QED BY <2>1, <2>2 DEF AtHead
<1> QED BY <1>2, <1>3, <1>4, <1>5, <1>6

LEMMA HeadOfBlockFlow ==
    ASSUME Sound, TypeInv, NEW o \in Nat, NEW h \in Nat, NEW b \in Nat, NEW t \in Nat, Flow(o, h, b, t),
           HeadOfBlock
    PROVE  Flow(o, h, b, t)'
<1>1. /\ o <= h /\ h <= b /\ b <= t /\ t <= Limit(ans) /\ h <= Extent(ans) /\ out = P(0, o) /\ Marked
      /\ Committed /\ Framed(o) /\ Filling /\ FlattenSeq(kept) = P(o, h) /\ buf = P(h, b) /\ tail = P(b, t)
  BY DEF Flow, Reached, Done, HeadOfBlock, AtHead
<1>2. /\ mode = "block" /\ ans.mode = "block" /\ ~distressed /\ tail = <<>> /\ b = t
      /\ size = PreLen + t /\ (framing # "none" => Long)
      /\ pc \in {"blockHead", "nextHead"} /\ Head(wire).kind = "size"
      /\ wire' = Rest(wire, 1) /\ remaining' = Head(wire).n
      /\ pc' = IF pc = "nextHead" /\ Len(buf) + remaining' > Room THEN "full" ELSE "block"
      /\ req \in Nat /\ ans \in Answers
  BY AtSomeHead, Known DEF HeadOfBlock, AtHead, Receive, Leaving, Rest
<1>3. /\ UNCHANGED <<req, ans, kept, buf, tail, size, mode, chunked, maxclen, distressed>>
      /\ UNCHANGED <<framing, own, clen, out, ended, closing, late>>
  BY DEF HeadOfBlock, buffers, flags, reply
<1>4. PICK j \in 0..Len(ans.parts) : Between(t, j) /\ (pc = "nextHead" => j > 0)
  BY AtSomeHead DEF HeadOfBlock
<1>5. /\ j < Len(ans.parts) /\ remaining' = ans.parts[j + 1]
      /\ wire' = Piece(req, ans, Ends(ans)[j], Ends(ans)[j + 1]) \o After(req, ans)[j + 1]
  <2>1. /\ req \in Nat /\ ans \in Answers /\ j \in 0..Len(ans.parts) /\ wire = After(req, ans)[j]
        /\ Head(wire).kind = "size"
    BY <1>2, <1>4 DEF Between
  <2>2. /\ j < Len(ans.parts) /\ Head(wire).n = ans.parts[j + 1]
        /\ Rest(wire, 1) = Piece(req, ans, Ends(ans)[j], Ends(ans)[j + 1]) \o After(req, ans)[j + 1]
    BY ONLY <2>1, SizeHead
  <2> QED BY <1>2, <2>2
<1>6. PICK i : i = j + 1 /\ i \in 1..Len(ans.parts) /\ j = i - 1
  <2>1. Len(ans.parts) \in Nat
    BY <1>2, AnswerType
  <2>2. j + 1 \in 1..Len(ans.parts) /\ j = (j + 1) - 1
    BY <1>5, <2>1
  <2> QED BY <2>2
<1>7. Inside(t, i)'
  <2>1. t = Ends(ans)[i - 1] /\ Ends(ans)[i] = Ends(ans)[i - 1] + ans.parts[i]
    BY <1>2, <1>4, <1>6, AnswerType DEF Between
  <2>2. t + remaining' = Ends(ans)[i] /\ wire' = Piece(req, ans, t, Ends(ans)[i]) \o After(req, ans)[i]
    BY <1>4, <1>5, <1>6, <2>1 DEF Between
  <2> QED BY <1>3, <1>6, <2>2 DEF Inside, P
<1>8. pc' = "full" => remaining' > 0 /\ (kept = <<>> /\ framing = "none" => buf # <<>>)
  <2> SUFFICES ASSUME pc' = "full"
               PROVE  remaining' > 0 /\ (kept = <<>> /\ framing = "none" => buf # <<>>)
    OBVIOUS
  <2>1. j > 0 /\ Len(buf) + remaining' > Room
    BY <1>2, <1>4
  <2>2. /\ \A k \in 2..Len(ans.parts) : ans.parts[k] > 0
        /\ Len(ans.parts) > 1 /\ ans.parts[1] = 0 => ans.parts[2] <= Room
    BY <1>2 DEF Sound, Regular
  <2>3. Len(ans.parts) \in Nat /\ i \in 2..Len(ans.parts)
    BY <1>2, <1>6, <2>1, AnswerType
  <2>4. remaining' > 0
    BY <1>5, <1>6, <2>2, <2>3
  <2>5. ASSUME kept = <<>>, framing = "none", buf = <<>> PROVE FALSE
    <3>1. o = 0
      BY <1>1, <2>5 DEF Framed
    <3>2. h <= Whole(ans) /\ t <= Whole(ans) /\ o <= Whole(ans)
      <4>1. Limit(ans) \in Nat /\ Whole(ans) \in Nat /\ Limit(ans) <= Whole(ans)
        BY <1>2, Bounds
      <4> QED BY <1>1, <4>1
    <3>3. h = o
      <4>1. Piece(req, ans, o, h) = <<>>
        BY <1>1, <2>5, FlattenNone DEF P
      <4> QED BY <1>1, <1>2, <3>2, <4>1, Empties
    <3>4. t = h
      <4>1. Piece(req, ans, h, t) = <<>> /\ h <= t
        BY <1>1, <1>2, <2>5 DEF P
      <4> QED BY <1>2, <3>2, <4>1, Empties
    <3>5. Ends(ans)[j] = 0 /\ j \in 1..Len(ans.parts)
      BY <1>4, <2>1, <2>3, <3>1, <3>3, <3>4 DEF Between
    <3>6. Ends(ans)[j] = Ends(ans)[j - 1] + ans.parts[j] /\ ans.parts[j] \in Nat
      BY <1>2, <3>5, AnswerType
    <3>7. Ends(ans)[j - 1] \in Nat
      <4>1. j - 1 \in 0..Len(ans.parts) /\ Total(ans) \in Nat
        BY <1>2, <2>3, <3>5, AnswerType
      <4>2. Ends(ans)[j - 1] \in 0..Total(ans)
        BY <1>2, <4>1, AnswerType
      <4> QED BY <4>1, <4>2
    <3>8. ans.parts[j] = 0
      BY <3>5, <3>6, <3>7
    <3>9. j = 1
      BY <2>2, <2>3, <3>5, <3>8
    <3>10. ans.parts[2] <= Room
      BY <2>2, <2>3, <3>8, <3>9
    <3>11. remaining' <= Room /\ Len(buf) = 0 /\ ans.parts[2] \in Nat
      <4>1. ans.parts[2] \in Nat
        BY <1>2, <1>6, <3>9, AnswerType
      <4> QED BY <1>5, <2>5, <3>9, <3>10, <4>1, EmptySeq
    <3> QED BY <1>5, <2>1, <3>9, <3>11, Sizes
  <2> QED BY <2>4, <2>5
<1>9. Reached(o, h, b, t)'
  <2>1. b <= Extent(ans)
    <3>1. t \in 0..Total(ans) /\ Total(ans) \in Nat
      BY <1>2, <1>4, AnswerType DEF Between
    <3>2. Total(ans) <= Extent(ans) /\ Extent(ans) \in Nat
      BY <1>2, Bounds
    <3> QED BY <1>2, <3>1, <3>2
  <2> QED BY <1>1, <1>3, <2>1 DEF Reached, P
<1>10. OnWire(o, b, t)'
  <2>1. pc' = "full" => Paused(b, t)'
    BY <1>2, <1>3, <1>6, <1>7, <1>8 DEF Paused
  <2> QED BY <1>2, <1>3, <1>6, <1>7, <2>1 DEF OnWire, Pausing
<1>11. Marked' /\ Sized(t)'
  BY <1>1, <1>2, <1>3 DEF Marked, Sized
<1>12. Committed'
  <2>1. Long => Long'
    BY <1>3 DEF Long
  <2> QED BY <1>1, <1>2, <1>3, <2>1 DEF Committed
<1>13. Framed(o)' /\ Filling'
  BY <1>1, <1>2, <1>3, <1>8 DEF Framed, Filling
<1> QED BY <1>9, <1>10, <1>11, <1>12, <1>13 DEF Flow

LEMMA EndOfBlocksFlow ==
    ASSUME TypeInv, NEW o \in Nat, NEW h \in Nat, NEW b \in Nat, NEW t \in Nat, Flow(o, h, b, t), EndOfBlocks
    PROVE  Flow(o, h, b, t)'
<1>1. /\ o <= h /\ h <= b /\ b <= t /\ t <= Limit(ans) /\ h <= Extent(ans) /\ out = P(0, o) /\ Marked
      /\ Committed /\ Framed(o) /\ Filling /\ FlattenSeq(kept) = P(o, h) /\ buf = P(h, b) /\ tail = P(b, t)
  BY DEF Flow, Reached, Done, EndOfBlocks, AtHead
<1>2. /\ mode = "block" /\ ans.mode = "block" /\ ~distressed /\ tail = <<>> /\ b = t
      /\ size = PreLen + t
      /\ pc \in {"blockHead", "nextHead"} /\ Head(wire).kind = "end"
      /\ wire' = Rest(wire, 1) /\ remaining' = 0
      /\ pc' = IF framing = "none" THEN "frame" ELSE "write"
      /\ req \in Nat /\ ans \in Answers
  BY AtSomeHead, Known DEF EndOfBlocks, AtHead, Receive, Leaving, Rest, Returned
<1>3. /\ UNCHANGED <<req, ans, kept, buf, tail, size, mode, chunked, maxclen, distressed>>
      /\ UNCHANGED <<framing, own, clen, out, ended, closing, late>>
  BY DEF EndOfBlocks, buffers, flags, reply
<1>4. PICK j \in 0..Len(ans.parts) : Between(t, j)
  BY AtSomeHead DEF EndOfBlocks
<1>5. j = Len(ans.parts) /\ ~ans.broken /\ wire' = <<>>
  <2>1. /\ req \in Nat /\ ans \in Answers /\ j \in 0..Len(ans.parts) /\ wire = After(req, ans)[j]
        /\ Head(wire).kind = "end"
    BY <1>2, <1>4 DEF Between
  <2>2. j = Len(ans.parts) /\ ~ans.broken /\ Rest(wire, 1) = <<>>
    BY ONLY <2>1, EndHead
  <2> QED BY <1>2, <2>2
<1>6. t = Extent(ans)
  BY <1>2, <1>4, <1>5, AnswerType, Bounds DEF Between
<1>7. Reached(o, h, b, t)'
  <2>1. b <= Extent(ans)
    BY <1>2, <1>6
  <2> QED BY <1>1, <1>3, <2>1 DEF Reached, P
<1>8. OnWire(o, b, t)'
  <2>1. Paused(b, t)'
    BY <1>2, <1>3, <1>5, <1>6 DEF Paused
  <2> QED BY <1>2, <1>3, <2>1 DEF OnWire
<1>9. Marked' /\ Sized(t)' /\ Committed'
  BY <1>1, <1>2, <1>3 DEF Marked, Sized, Committed
<1>10. Framed(o)' /\ Filling'
  BY <1>1, <1>2, <1>3 DEF Framed, Filling
<1> QED BY <1>7, <1>8, <1>9, <1>10 DEF Flow

LEMMA HeadMissingFlow ==
    ASSUME TypeInv, NEW o \in Nat, NEW h \in Nat, NEW b \in Nat, NEW t \in Nat, Flow(o, h, b, t), HeadMissing
    PROVE  \E g \in Nat : Flow(o, h, g, g)'
<1>1. /\ o <= h /\ h <= b /\ b <= t /\ t <= Limit(ans) /\ h <= Extent(ans) /\ out = P(0, o) /\ Marked
      /\ Committed /\ Framed(o) /\ Filling /\ FlattenSeq(kept) = P(o, h) /\ buf = P(h, b) /\ tail = P(b, t)
  BY DEF Flow, Reached, Done, HeadMissing, AtHead
<1>2. /\ mode = "block" /\ ans.mode = "block" /\ ~distressed /\ tail = <<>> /\ b = t
      /\ size = PreLen + t /\ (framing # "none" => Long)
      /\ Head(wire).kind = "data"
      /\ MarkLen <= Len(wire) /\ wire' = Rest(wire, MarkLen)
      /\ req \in Nat /\ ans \in Answers
  BY AtSomeHead, Known DEF HeadMissing, Receive, Leaving, Rest
<1>3. /\ UNCHANGED <<req, ans, kept, chunked, maxclen, framing, own, clen, out, ended, closing, late>>
      /\ buf' = buf \o Begin(wire, MarkLen) /\ size' = size + MarkLen
      /\ remaining' = 0 /\ tail' = <<>> /\ distressed' = TRUE /\ mode' = "ascii" /\ pc' = "ascii"
      /\ pc \in {"blockHead", "nextHead"}
  BY DEF HeadMissing, reply, Taking, Begin, AtHead
<1>4. PICK j \in 0..Len(ans.parts) : Between(t, j)
  BY AtSomeHead DEF HeadMissing
<1>5. ans.broken /\ wire = Piece(req, ans, t, Whole(ans))
  <2>1. /\ req \in Nat /\ ans \in Answers /\ j \in 0..Len(ans.parts) /\ wire = After(req, ans)[j]
        /\ Head(wire).kind = "data"
    BY <1>2, <1>4 DEF Between
  <2>2. ans.broken /\ wire = Piece(req, ans, Ends(ans)[j], Whole(ans))
    BY ONLY <2>1, DataHead
  <2> QED BY <1>4, <2>2 DEF Between
<1>6. Distress(ans) /\ Limit(ans) = Whole(ans) /\ Extent(ans) = Whole(ans) /\ Whole(ans) \in Nat
  BY <1>2, <1>5, Bounds DEF Distress
<1>7. Len(wire) = Whole(ans) - t
  <2> DEFINE w == Whole(ans)
  <2>1. /\ req \in Nat /\ ans \in Answers /\ t \in Nat /\ w \in Nat /\ t <= w /\ w <= Whole(ans)
    BY <1>1, <1>2, <1>6
  <2> HIDE DEF w
  <2>2. Len(Piece(req, ans, t, w)) = w - t
    BY ONLY <2>1, PieceType
  <2> QED BY <1>5, <2>2 DEF w
<1>8. PICK g \in Nat : g = t + MarkLen
  BY Sizes
<1>9. t <= g /\ g <= Whole(ans) /\ h <= g
  BY <1>1, <1>2, <1>6, <1>7, <1>8, Sizes
<1>10. buf' = P(h, g) /\ wire' = P(g, Whole(ans))
  <2> DEFINE w == Whole(ans)
             n == MarkLen
  <2>1. /\ req \in Nat /\ ans \in Answers /\ h \in Nat /\ t \in Nat /\ n \in Nat /\ w \in Nat
        /\ h <= t /\ t + n <= w /\ w <= Whole(ans)
    BY <1>1, <1>2, <1>6, <1>8, <1>9, Sizes
  <2> HIDE DEF w, n
  <2>2. /\ Piece(req, ans, h, t) \o Begin(Piece(req, ans, t, w), n) = Piece(req, ans, h, t + n)
        /\ Rest(Piece(req, ans, t, w), n) = Piece(req, ans, t + n, w)
    BY ONLY <2>1, Gain
  <2> QED BY <1>1, <1>2, <1>3, <1>5, <1>8, <2>2 DEF P, w, n
<1>11. Reached(o, h, g, g)'
  <2>1. P(g, g) = <<>>
    BY PieceNone DEF P
  <2>2. g <= Limit(ans) /\ g <= g
    BY <1>6, <1>9
  <2> QED BY <1>1, <1>3, <1>9, <1>10, <2>1, <2>2 DEF Reached, P, Pausing
<1>12. OnWire(o, g, g)'
  BY <1>3, <1>6, <1>10 DEF OnWire, Pausing, P
<1>13. Marked'
  BY <1>2, <1>3, <1>6 DEF Marked
<1>14. Sized(g)'
  <2>1. size' = PreLen + g
    BY <1>2, <1>3, <1>8, Sizes
  <2> QED BY <1>3, <2>1 DEF Sized, Pausing
<1>15. Committed'
  <2>1. size \in Nat /\ size' >= size /\ size' \in Nat /\ MaxClen \in Nat
    <3>1. size \in Nat /\ MaxClen \in Nat /\ MarkLen \in Nat
      BY Known, Sizes
    <3> QED BY <1>3, <3>1
  <2>2. Long => Long'
    BY <1>3, <2>1 DEF Long
  <2> QED BY <1>1, <1>2, <1>3, <2>2 DEF Committed
<1>16. Framed(o)' /\ Filling'
  BY <1>1, <1>3 DEF Framed, Filling
<1>17. Flow(o, h, g, g)'
  BY <1>11, <1>12, <1>13, <1>14, <1>15, <1>16 DEF Flow
<1> QED BY <1>17

LEMMA StreamFailsFlow ==
    ASSUME Sound, TypeInv, NEW o \in Nat, NEW h \in Nat, NEW b \in Nat, NEW t \in Nat, Flow(o, h, b, t),
           NEW rc \in Failures, AsciiFails(rc) \/ HeadOfBlockFails(rc) \/ BlockReadFails(rc)
    PROVE  Flow(o, o, o, o)'
<1>1. /\ StreamFails(rc) /\ pc \in {"ascii", "blockHead", "nextHead", "block"}
      /\ UNCHANGED <<req, ans, buffers, counts, flags, resent, reply, client>>
  BY DEF AsciiFails, HeadOfBlockFails, BlockReadFails, AtHead, Sound
<1>2. /\ pc' \in {"failed", "exit"} /\ (pc' = "failed" => framing = "none")
      /\ pc' = "exit" => closing' = TRUE /\ framing # "none"
  BY <1>1 DEF StreamFails
<1>3. late' => late \/ pc' = "failed"
  BY <1>1 DEF StreamFails, NoteLate
<1> QED BY <1>1, <1>2, <1>3, Leaves DEF Done

LEMMA BlockReadFlow ==
    ASSUME Sound, TypeInv, NEW o \in Nat, NEW h \in Nat, NEW b \in Nat, NEW t \in Nat, Flow(o, h, b, t),
           NEW n \in Lengths, NEW rc \in {"timeout", "eof"}, BlockRead(n, rc)
    PROVE  \E g \in Nat : Flow(o, h, g, g)'
<1>1. /\ o <= h /\ h <= b /\ b <= t /\ t <= Limit(ans) /\ h <= Extent(ans) /\ out = P(0, o) /\ Marked
      /\ OnWire(o, b, t) /\ Committed /\ Framed(o) /\ Filling /\ Sized(t)
      /\ FlattenSeq(kept) = P(o, h) /\ buf = P(h, b) /\ tail = P(b, t)
  BY DEF Flow, Reached, Done, BlockRead
<1>2. /\ req \in Nat /\ ans \in Answers /\ LineType /\ wire \in Seq(Byte) /\ remaining \in Nat /\ size \in Nat
      /\ late \in BOOLEAN /\ n \in Nat /\ Len(buf) \in Nat /\ Room \in Nat \ {0} /\ Slack \in Nat \ {0}
      /\ PreLen \in Nat /\ MaxClen \in Nat
  BY Known, Sizes DEF Lengths
<1>3. /\ pc = "block" /\ mode = "block" /\ tail = <<>> /\ Len(buf) <= Room + Slack
      /\ ans.mode = "block" /\ ~distressed /\ size = PreLen + t
      /\ framing # "none" => Long
  BY <1>1 DEF BlockRead, TypeInv, ModeFits, Marked, Sized, Streaming, Committed
<1>4. Limit(ans) \in Nat /\ Whole(ans) \in Nat /\ Limit(ans) <= Whole(ans) /\ Total(ans) <= Extent(ans)
      /\ Extent(ans) \in Nat /\ Total(ans) \in Nat /\ Extent(ans) <= Limit(ans)
  BY <1>2, Bounds
<1>5. b = t
  <2>1. t <= Whole(ans)
    BY <1>1, <1>4
  <2>2. Piece(req, ans, b, t) = <<>> <=> b = t
    BY <1>1, <1>2, <2>1, Empties
  <2> QED BY <1>1, <1>3, <2>2 DEF P
<1>6. PICK j \in 1..Len(ans.parts) : Inside(t, j)
  BY <1>1, <1>3 DEF OnWire
<1>7. PICK lim \in Nat : lim = Ends(ans)[j] /\ lim <= Total(ans) /\ lim <= Whole(ans) /\ lim <= Extent(ans)
                         /\ t + remaining = lim /\ lim - t = remaining /\ t <= lim
  <2>1. j \in 0..Len(ans.parts) /\ Len(ans.parts) \in Nat
    BY <1>2, AnswerType
  <2>2. Ends(ans)[j] \in 0..Total(ans)
    BY <1>2, <2>1, AnswerType
  <2>3. t + remaining = Ends(ans)[j]
    BY <1>6 DEF Inside
  <2> QED BY <1>2, <1>4, <2>2, <2>3
<1> DEFINE s == After(req, ans)[j]
<1>8. s \in Seq(Byte) /\ Len(s) \in Nat
  <2>1. j \in 0..Len(ans.parts)
    BY <1>2, AnswerType
  <2> QED BY <1>2, <2>1, AfterUnrolls, LenProperties
<1>9. wire = Piece(req, ans, t, lim) \o s
  BY <1>6, <1>7 DEF Inside, P
<1> HIDE DEF s
<1>10. PICK k \in Nat : /\ k = BlockGet /\ k <= remaining
                        /\ k < remaining => Len(buf) + k = Room + Slack
  <2> DEFINE d == (Room + Slack) - Len(buf)
  <2>1. d \in Nat /\ Len(buf) + d = Room + Slack
    BY <1>2, <1>3
  <2>2. BlockGet = IF remaining < d THEN remaining ELSE d
    BY <1>2 DEF BlockGet, Least
  <2> HIDE DEF d
  <2> QED BY <1>2, <2>1, <2>2
<1>11. Len(wire) >= k
  <2>0. req \in Nat /\ ans \in Answers /\ t \in Nat /\ lim \in Nat /\ t <= lim /\ lim <= Whole(ans)
    BY <1>2, <1>7
  <2>1. Len(Piece(req, ans, t, lim)) = lim - t
    BY ONLY <2>0, PieceType
  <2>2. Piece(req, ans, t, lim) \in Seq(Byte)
    BY ONLY <2>0, PieceType
  <2>3. Len(wire) = (lim - t) + Len(s)
    BY <1>8, <1>9, <2>1, <2>2, ConcatProperties
  <2>4. Len(wire) = remaining + Len(s)
    BY <1>7, <2>3
  <2>5. remaining \in Nat /\ Len(s) \in Nat /\ k <= remaining
    BY <1>2, <1>8, <1>10
  <2> QED BY ONLY <2>4, <2>5, k \in Nat
<1>12. n = k /\ Filled(k, n) = Begin(wire, k) /\ wire' = Rest(wire, k) /\ late' = late
  <2>1. ReceiveAll(k, n, rc) /\ "short" \notin Faults /\ k <= Len(wire)
    BY <1>10, <1>11 DEF BlockRead, Sound
  <2> QED BY <1>2, <2>1, ReceivesAll
<1>13. /\ UNCHANGED <<req, ans, kept, tail, mode, chunked, maxclen, distressed>>
       /\ UNCHANGED <<framing, own, clen, out, ended, closing>>
       /\ buf' = buf \o Begin(wire, k) /\ size' = size + k /\ remaining' = remaining - k
       /\ pc' = IF remaining' = 0 THEN "nextHead"
                ELSE IF Len(buf') + remaining' > Room THEN "full" ELSE "block"
  BY <1>10, <1>12 DEF BlockRead, AfterBlock, flags, reply
<1>14. PICK g \in Nat : g = t + k
  OBVIOUS
<1>15. /\ t <= g /\ g <= lim /\ h <= g /\ size' = PreLen + g /\ g + remaining' = lim /\ remaining' \in Nat
       /\ g <= Extent(ans) /\ g <= Limit(ans) /\ o <= h
  <2>1. t <= g /\ g <= lim /\ g + remaining' = lim /\ remaining' \in Nat
    <3>1. remaining \in Nat /\ k <= remaining /\ t + remaining = lim /\ remaining' = remaining - k /\ g = t + k
      BY <1>2, <1>7, <1>10, <1>13, <1>14
    <3> QED BY ONLY <3>1, t \in Nat, k \in Nat, lim \in Nat
  <2>2. h <= g /\ o <= h
    BY <1>1, <1>5, <2>1
  <2>3. g <= Extent(ans) /\ g <= Limit(ans)
    <3>1. /\ Extent(ans) \in Nat /\ Limit(ans) \in Nat
          /\ g <= lim /\ lim <= Extent(ans) /\ Extent(ans) <= Limit(ans)
      BY <1>4, <1>7, <2>1
    <3> QED BY ONLY <3>1, g \in Nat, lim \in Nat
  <2>4. size' = PreLen + g
    BY <1>2, <1>3, <1>13, <1>14
  <2> QED BY <2>1, <2>2, <2>3, <2>4
<1>16. buf' = P(h, g) /\ wire' = P(g, lim) \o s
  <2>1. /\ req \in Nat /\ ans \in Answers /\ h \in Nat /\ t \in Nat /\ k \in Nat /\ lim \in Nat
        /\ h <= t /\ t + k <= lim /\ lim <= Whole(ans) /\ s \in Seq(Byte)
    BY <1>1, <1>2, <1>5, <1>7, <1>8, <1>14, <1>15
  <2>2. Piece(req, ans, h, t) \o Begin(Piece(req, ans, t, lim) \o s, k) = Piece(req, ans, h, t + k)
    <3> DEFINE p == Piece(req, ans, t, lim)
               e == t + k
    <3>1. t <= lim /\ k \in 0..(lim - t)
      BY <2>1
    <3>2. p \in Seq(Byte)
      BY <2>1, <3>1, PieceType
    <3>3. Len(p) = lim - t
      BY <2>1, <3>1, PieceType
    <3>4. Begin(p, k) = Piece(req, ans, t, e)
      BY <2>1, <3>1, PieceSplit
    <3>5. k \in 0..Len(p)
      BY <3>1, <3>3
    <3>6. e \in Nat /\ t <= e /\ e <= Whole(ans)
      <4>1. Whole(ans) \in Nat
        BY <2>1, Bounds
      <4> QED BY <2>1, <4>1
    <3> HIDE DEF p, e
    <3>7. Begin(p \o s, k) = Begin(p, k)
      BY <2>1, <3>2, <3>5, JoinSplit
    <3>8. Piece(req, ans, h, t) \o Piece(req, ans, t, e) = Piece(req, ans, h, e)
      BY ONLY <2>1, <3>6, PieceJoin
    <3> QED BY <3>4, <3>7, <3>8 DEF p, e
  <2>3. Rest(Piece(req, ans, t, lim) \o s, k) = Piece(req, ans, t + k, lim) \o s
    <3> DEFINE p == Piece(req, ans, t, lim)
    <3>1. t <= lim /\ k \in 0..(lim - t)
      BY <2>1
    <3>2. p \in Seq(Byte)
      BY <2>1, <3>1, PieceType
    <3>3. Len(p) = lim - t
      BY <2>1, <3>1, PieceType
    <3>4. Rest(p, k) = Piece(req, ans, t + k, lim)
      BY <2>1, <3>1, PieceSplit
    <3>5. k \in 0..Len(p)
      BY <3>1, <3>3
    <3> HIDE DEF p
    <3>6. Rest(p \o s, k) = Rest(p, k) \o s
      BY <2>1, <3>2, <3>5, JoinSplit
    <3> QED BY <3>4, <3>6 DEF p
  <2> QED BY <1>1, <1>5, <1>9, <1>12, <1>13, <1>14, <2>2, <2>3 DEF P
<1>17. remaining' # 0 => Inside(g, j)'
  BY <1>6, <1>7, <1>13, <1>15, <1>16 DEF Inside, P, s
<1>18. remaining' = 0 => Between(g, j)'
  <2> SUFFICES ASSUME remaining' = 0 PROVE Between(g, j)'
    OBVIOUS
  <2>1. g = lim
    BY <1>15
  <2>2. P(g, lim) = <<>>
    BY <2>1, PieceNone DEF P
  <2>3. wire' = s
    BY <1>8, <1>16, <2>2, ConcatEmptySeq
  <2>4. j \in 0..Len(ans.parts)
    BY <1>2, AnswerType
  <2> QED BY <1>7, <1>13, <2>1, <2>3, <2>4 DEF Between, s
<1>19. pc' = "full" => buf' # <<>> /\ remaining' > 0
  <2> SUFFICES ASSUME pc' = "full" PROVE buf' # <<>> /\ remaining' > 0
    OBVIOUS
  <2>1. remaining' > 0
    BY <1>13, <1>15
  <2>2. k < remaining
    BY <1>2, <1>13, <2>1
  <2>3. Len(buf) + k > 0
    BY <1>2, <1>10, <2>2
  <2>4. Len(buf) = b - h
    <3>1. b <= Whole(ans)
      BY <1>1, <1>4
    <3>2. Len(Piece(req, ans, h, b)) = b - h
      BY <1>1, <1>2, <3>1, PieceType
    <3> QED BY <1>1, <3>2 DEF P
  <2>5. g # h /\ g <= Whole(ans)
    BY <1>4, <1>5, <1>7, <1>14, <1>15, <2>3, <2>4
  <2>6. Piece(req, ans, h, g) # <<>>
    BY <1>2, <1>15, <2>5, Empties
  <2> QED BY <1>16, <2>1, <2>6 DEF P
<1>20. Reached(o, h, g, g)'
  <2>1. P(g, g) = <<>>
    BY PieceNone DEF P
  <2>2. g <= g
    OBVIOUS
  <2> QED BY <1>1, <1>3, <1>13, <1>15, <1>16, <2>1, <2>2 DEF Reached, P
<1>21. OnWire(o, g, g)'
  <2>1. pc' = "full" => Paused(g, g)'
    BY <1>3, <1>13, <1>17, <1>19 DEF Paused
  <2> QED BY <1>13, <1>17, <1>18, <2>1 DEF OnWire, Pausing
<1>22. Marked' /\ Sized(g)'
  BY <1>1, <1>3, <1>13, <1>15 DEF Marked, Sized
<1>23. Committed'
  <2>1. size' >= size /\ size' \in Nat
    BY <1>2, <1>13
  <2>2. Long => Long'
    BY <1>2, <1>13, <2>1 DEF Long
  <2> QED BY <1>1, <1>3, <1>13, <2>2 DEF Committed
<1>24. Framed(o)' /\ Filling'
  BY <1>1, <1>3, <1>12, <1>13, <1>19 DEF Framed, Filling
<1>25. Flow(o, h, g, g)'
  BY <1>20, <1>21, <1>22, <1>23, <1>24 DEF Flow
<1> QED BY <1>25

LEMMA WriteOutFlow ==
    ASSUME TypeInv, NEW o \in Nat, NEW h \in Nat, NEW b \in Nat, NEW t \in Nat, Flow(o, h, b, t),
           StartChunking \/ StopCounting
    PROVE  Flow(o, h, b, t)'
<1>1. /\ Reached(o, h, b, t) /\ OnWire(o, b, t) /\ Marked /\ Sized(t) /\ Committed /\ Framed(o) /\ Filling
      /\ pc = "full" /\ mode # "plain"
  BY DEF Flow, StartChunking, StopCounting, TypeInv, ModeFits
<1>2. /\ UNCHANGED <<wire, connected, eof, req, ans, kept, buf, tail, remaining, size, mode, distressed>>
      /\ UNCHANGED <<framing, own, clen, out, ended, closing, late>>
      /\ pc' = IF framing = "none" THEN "frame" ELSE "write"
  BY DEF StartChunking, StopCounting, line, buffers, counts, reply, Returned
<1>3. (chunked' => Chunking # 0) /\ Long'
  <2>1. CASE StartChunking
    BY <2>1 DEF StartChunking, MayChunk, Long
  <2>2. CASE StopCounting
    <3>1. chunked' = chunked /\ maxclen' = TRUE /\ size' > MaxClen
      BY <1>2, <2>2 DEF StopCounting
    <3> QED BY <1>1, <3>1 DEF Long, Committed
  <2> QED BY <2>1, <2>2
<1>4. Reached(o, h, b, t)'
  BY <1>1, <1>2 DEF Reached, P, Pausing, Done
<1>5. OnWire(o, b, t)'
  <2>1. ans.mode # "sse"
    BY <1>1 DEF Marked
  <2>2. Paused(b, t)
    BY <1>1, <2>1 DEF OnWire, Pausing
  <2>3. \A j : Inside(t, j)' <=> Inside(t, j)
    BY <1>2 DEF Inside, P
  <2>4. Paused(b, t)'
    BY <1>2, <2>2, <2>3 DEF Paused, P
  <2> QED BY <1>2, <2>1, <2>4 DEF OnWire
<1>6. Marked' /\ Sized(t)'
  BY <1>1, <1>2 DEF Marked, Sized, Distress, Pausing, Streaming
<1>7. Committed'
  BY <1>3 DEF Committed
<1>8. Framed(o)' /\ Filling'
  BY <1>1, <1>2 DEF Framed, Filling
<1> QED BY <1>4, <1>5, <1>6, <1>7, <1>8 DEF Flow

\* A buffer is extended before the client is told anything, or not at all.
LEMMA ExtendsUnframed ==
    ASSUME NEW o, Committed, Framed(o), TypeInv, pc = "full", ~MayChunk, size <= MaxClen
    PROVE  framing = "none" /\ req > 0
<1>1. mode # "plain" /\ size \in Nat /\ MaxClen \in Nat /\ Chunking \in Nat
  BY Known, Sizes DEF TypeInv, ModeFits
<1>2. ~(maxclen /\ size > MaxClen)
  BY <1>1
<1>3. ~Long
  BY <1>2 DEF MayChunk, Long
<1>4. framing = "none"
  BY <1>1, <1>3 DEF Committed, Pausing
<1> QED BY <1>4 DEF Framed

LEMMA ExtendFailsFlow ==
    ASSUME TypeInv, NEW o \in Nat, NEW h \in Nat, NEW b \in Nat, NEW t \in Nat, Flow(o, h, b, t), ExtendFails
    PROVE  Flow(o, o, o, o)'
<1>1. framing = "none"
  BY ExtendsUnframed DEF ExtendFails, Flow
<1> QED BY <1>1, Leaves DEF ExtendFails, Done

\* After a pause, on with what was kept back.
LEMMA ResumeFlow ==
    ASSUME TypeInv, NEW o \in Nat, NEW h \in Nat, NEW b \in Nat, NEW t \in Nat, Flow(o, h, b, t),
           pc \in {"full", "rest"}, mode # "plain",
           buf' = tail, tail' = <<>>, remaining' = IF mode = "ascii" THEN 0 ELSE remaining, pc' = mode,
           UNCHANGED <<line, req, ans, size, flags, resent, reply, closing, client, late>>,
           FlattenSeq(kept') = P(o, b), Filling',
           pc = "rest" => kept' = kept,
           pc = "full" => framing = "none"
    PROVE  Flow(o, b, t, t)'
<1>1. /\ o <= h /\ h <= b /\ b <= t /\ t <= Limit(ans) /\ h <= Extent(ans) /\ out = P(0, o) /\ Marked
      /\ OnWire(o, b, t) /\ Committed /\ Framed(o) /\ Filling /\ Sized(t) /\ tail = P(b, t) /\ b <= Extent(ans)
  BY DEF Flow, Reached, Done, Pausing
<1>2. /\ UNCHANGED <<wire, connected, eof, req, ans, size, mode, chunked, maxclen, distressed>>
      /\ UNCHANGED <<framing, own, clen, out, ended, closing, late>>
      /\ mode \in {"block", "ascii"} /\ req \in Nat /\ ans \in Answers /\ remaining \in Nat /\ remaining # 0
  BY <1>1, Known DEF line, flags, reply, Filling
<1>3. Paused(b, t) /\ ans.mode # "sse"
  BY <1>1, <1>2 DEF OnWire, Pausing, Marked
<1>4. Reached(o, b, t, t)'
  <2>1. P(t, t) = <<>>
    BY PieceNone DEF P
  <2>2. o <= b /\ t <= t
    BY <1>1
  <2> QED BY <1>1, <1>2, <2>1, <2>2 DEF Reached, P, Pausing
<1>5. OnWire(o, t, t)'
  <2>1. CASE mode = "block"
    <3>1. PICK j \in 1..Len(ans.parts) : Inside(t, j)
      BY <1>2, <1>3, <2>1 DEF Paused
    <3>2. Inside(t, j)'
      BY <1>2, <2>1, <3>1 DEF Inside, P
    <3> QED BY <1>2, <2>1, <3>2 DEF OnWire, Pausing
  <2>2. CASE mode = "ascii"
    <3>1. wire = P(t, Limit(ans))
      BY <1>2, <1>3, <2>2 DEF Paused
    <3> QED BY <1>2, <2>2, <3>1 DEF OnWire, Pausing, P
  <2> QED BY <1>2, <2>1, <2>2
<1>6. Marked'
  BY <1>1, <1>2 DEF Marked, Distress
<1>7. Sized(t)'
  BY <1>1, <1>2 DEF Sized, Pausing, Streaming
<1>8. Committed'
  <2>1. framing # "none" => Long
    BY <1>1, <1>2 DEF Committed, Pausing
  <2>2. Long => Long'
    BY <1>2 DEF Long
  <2> QED BY <1>1, <1>2, <2>1, <2>2 DEF Committed
<1>9. Framed(o)'
  BY <1>1, <1>2 DEF Framed
<1> QED BY <1>4, <1>5, <1>6, <1>7, <1>8, <1>9 DEF Flow

LEMMA ExtendFlow ==
    ASSUME TypeInv, NEW o \in Nat, NEW h \in Nat, NEW b \in Nat, NEW t \in Nat, Flow(o, h, b, t), Extend
    PROVE  Flow(o, b, t, t)'
<1>1. /\ o <= h /\ h <= b /\ b <= t /\ t <= Limit(ans) /\ FlattenSeq(kept) = P(o, h) /\ buf = P(h, b)
      /\ Committed /\ Framed(o) /\ Filling
  BY DEF Flow, Reached, Done, Extend
<1>2. framing = "none"
  BY <1>1, ExtendsUnframed DEF Extend
<1>3. kept \in Seq(Seq(Byte)) /\ buf \in Seq(Byte) /\ req \in Nat /\ ans \in Answers /\ mode # "plain"
  BY Known DEF Extend, TypeInv, ModeFits
<1>4. pc = "full" /\ kept' = Append(kept, buf) /\ pc' = mode /\ framing' = framing
  BY DEF Extend, reply
<1>5. FlattenSeq(kept') = P(o, b)
  <2>1. FlattenSeq(kept') = P(o, h) \o P(h, b)
    BY <1>1, <1>3, <1>4, FlattenAppend
  <2>2. b <= Whole(ans)
    <3>1. Limit(ans) \in Nat /\ Whole(ans) \in Nat /\ Limit(ans) <= Whole(ans)
      BY <1>3, Bounds
    <3> QED BY <1>1, <3>1
  <2>3. Piece(req, ans, o, h) \o Piece(req, ans, h, b) = Piece(req, ans, o, b)
    BY <1>1, <1>3, <2>2, PieceJoin
  <2> QED BY <2>1, <2>3 DEF P
<1>6. kept'[1] # <<>>
  <2>1. CASE kept = <<>>
    <3>1. buf # <<>>
      BY <1>1, <1>2, <1>4, <2>1 DEF Filling
    <3>2. kept' = <<buf>>
      BY <1>4, <2>1
    <3> QED BY <3>1, <3>2
  <2>2. CASE kept # <<>>
    <3>1. Len(kept) \in Nat /\ Len(kept) # 0
      BY <1>3, <2>2, EmptySeq, LenProperties
    <3>2. kept'[1] = kept[1]
      BY <1>3, <1>4, <3>1, AppendProperties
    <3> QED BY <1>1, <2>2, <3>2 DEF Filling
  <2> QED BY <2>1, <2>2
<1>7. Filling'
  BY <1>2, <1>3, <1>4, <1>6, Known DEF Filling
<1>8. pc = "full" => framing = "none"
  BY <1>2
<1> QED BY <1>3, <1>4, <1>5, <1>7, <1>8, ResumeFlow DEF Extend

LEMMA NextRoundFlow ==
    ASSUME TypeInv, NEW o \in Nat, NEW h \in Nat, NEW b \in Nat, NEW t \in Nat, Flow(o, h, b, t), NextRound
    PROVE  Flow(o, b, t, t)'
<1>1. /\ o <= h /\ h <= b /\ b <= t /\ t <= Limit(ans) /\ FlattenSeq(kept) = P(o, h) /\ buf = P(h, b) /\ Filling
  BY DEF Flow, Reached, Done, NextRound
<1>2. req \in Nat /\ ans \in Answers /\ mode \in {"block", "ascii"} /\ pc = "rest" /\ buf = <<>>
  BY <1>1, Known DEF NextRound, Filling
<1>3. h = b
  <2>1. b <= Whole(ans)
    <3>1. Limit(ans) \in Nat /\ Whole(ans) \in Nat /\ Limit(ans) <= Whole(ans)
      BY <1>2, Bounds
    <3> QED BY <1>1, <3>1
  <2>2. Piece(req, ans, h, b) = <<>> <=> h = b
    BY <1>1, <1>2, <2>1, Empties
  <2> QED BY <1>1, <1>2, <2>2 DEF P
<1>4. kept' = kept /\ framing' = framing /\ pc' = mode
  BY DEF NextRound, reply
<1>5. Filling'
  BY <1>1, <1>2, <1>4 DEF Filling
<1>6. FlattenSeq(kept') = P(o, b)
  BY <1>1, <1>3, <1>4
<1> QED BY <1>2, <1>4, <1>5, <1>6, ResumeFlow DEF NextRound

LEMMA FrameFlow ==
    ASSUME Sound, TypeInv, NEW o \in Nat, NEW h \in Nat, NEW b \in Nat, NEW t \in Nat, Flow(o, h, b, t), Frame
    PROVE  Flow(o, h, b, t)'
<1>1. /\ o <= h /\ h <= b /\ b <= t /\ t <= Limit(ans) /\ h <= Extent(ans) /\ out = P(0, o) /\ Marked
      /\ OnWire(o, b, t) /\ Committed /\ Framed(o) /\ Filling /\ Sized(t) /\ Reached(o, h, b, t)
  BY DEF Flow, Reached
<1>2. /\ pc = "frame" /\ pc' = IF framing' = "sse" THEN "sse" ELSE "open"
      /\ mode' = IF framing' = "length" THEN "plain" ELSE mode
      /\ clen' = CASE framing' = "length" -> IF size > PreLen THEN size - PreLen ELSE 0
                   [] framing' = "server" -> Total(ans)
                   [] OTHER -> 0
      /\ UNCHANGED <<wire, connected, eof, req, ans, kept, buf, tail, remaining, size, chunked, maxclen>>
      /\ UNCHANGED <<distressed, out, ended, closing, late>>
  BY DEF Frame, line, buffers, counts
<1>3. framing = "none" /\ o = 0 /\ ~ended /\ req > 0 /\ ~late
  BY <1>1, <1>2 DEF Framed
<1>4. framing' \in {"sse", "server", "webserver", "chunked", "close", "length"}
      /\ (framing' = "sse" <=> ans.mode = "sse")
      /\ (framing' = "server" => ans.clen)
      /\ (framing' = "length" => ~(More /\ (chunked \/ maxclen)))
  <2>1. CASE ans.mode = "sse"
    BY <2>1 DEF Frame
  <2>2. CASE ans.mode # "sse" /\ Supplied
    BY <2>2 DEF Frame, Supplied
  <2>3. CASE ans.mode # "sse" /\ ~Supplied /\ More /\ chunked
    BY <2>3 DEF Frame
  <2>4. CASE ans.mode # "sse" /\ ~Supplied /\ More /\ ~chunked /\ maxclen
    BY <2>4 DEF Frame
  <2>5. CASE ans.mode # "sse" /\ ~Supplied /\ ~(More /\ (chunked \/ maxclen))
    BY <2>5 DEF Frame
  <2> QED BY <2>1, <2>2, <2>3, <2>4, <2>5
<1>5. /\ req \in Nat /\ ans \in Answers /\ remaining \in Nat /\ size \in Nat
      /\ mode \in {"plain", "block", "ascii"} /\ Chunking \in Nat /\ PreLen \in Nat
      /\ Total(ans) \in Nat
  BY Known, Sizes, AnswerType
<1>6. framing' = "length" => mode = "plain" \/ remaining = 0
  <2> SUFFICES ASSUME framing' = "length", mode # "plain", remaining # 0 PROVE FALSE
    OBVIOUS
  <2>1. More
    BY <1>5 DEF More
  <2>2. Long
    BY <1>1, <1>2, <1>5 DEF Committed, Pausing
  <2> QED BY <1>4, <2>1, <2>2 DEF Long
<1>7. ans.mode # "sse" => Paused(b, t)
  BY <1>1, <1>2 DEF OnWire, Pausing
<1>8. framing' = "length" => clen' = Extent(ans)
  <2> SUFFICES ASSUME framing' = "length" PROVE size - PreLen = Extent(ans)
    <3>1. Extent(ans) \in Nat
      BY <1>5, Bounds
    <3>2. framing' = "length" => clen' = IF size > PreLen THEN size - PreLen ELSE 0
      BY <1>2
    <3>3. size - PreLen = Extent(ans) => Extent(ans) = IF size > PreLen THEN size - PreLen ELSE 0
      BY <1>5, <3>1
    <3> QED BY <3>2, <3>3
  <2>1. CASE mode = "plain"
    <3>1. ans.mode \in {"plain", "sse"} /\ ans.mode # "sse"
      BY <1>2, <1>4, <2>1 DEF TypeInv, ModeFits
    <3>2. size = PreLen + Total(ans) /\ Extent(ans) = Total(ans)
      BY <1>1, <1>2, <1>5, <2>1, <3>1, Bounds DEF Sized
    <3> QED BY <1>5, <3>2
  <2>2. CASE mode # "plain"
    <3>1. t = Extent(ans)
      BY <1>4, <1>6, <1>7, <2>2 DEF Paused
    <3>2. size = PreLen + t
      BY <1>1, <1>2, <2>2 DEF Sized, Pausing
    <3> QED BY <1>5, <3>1, <3>2
  <2> QED BY <2>1, <2>2
<1>9. framing' = "server" => clen' = Extent(ans)
  <2> SUFFICES ASSUME framing' = "server" PROVE Total(ans) = Extent(ans)
    BY <1>2
  <2>1. ~Distress(ans)
    BY <1>4, <1>5 DEF Sound, Regular, Distress
  <2> QED BY <2>1 DEF Extent
<1>10. Reached(o, h, b, t)'
  BY <1>1, <1>2 DEF Reached, P, Pausing, Done
<1>11. OnWire(o, b, t)'
  <2>1. CASE ans.mode = "sse"
    BY <1>1, <1>2, <1>4, <2>1 DEF OnWire, P, Pausing
  <2>2. CASE ans.mode # "sse"
    <3>1. \A j : Inside(t, j)' <=> Inside(t, j)
      BY <1>2 DEF Inside, P
    <3>2. Paused(b, t)'
      BY <1>2, <1>6, <1>7, <2>2, <3>1 DEF Paused, P
    <3> QED BY <1>2, <1>4, <2>2, <3>2 DEF OnWire, Pausing
  <2> QED BY <2>1, <2>2
<1>12. Marked'
  BY <1>1, <1>2, <1>4 DEF Marked, Distress
<1>13. Sized(t)'
  BY <1>1, <1>2, <1>4 DEF Sized, Pausing, Streaming
<1>14. Committed'
  <2>1. mode' # "plain" => mode' = mode
    BY <1>2
  <2>2. Long => Long'
    BY <1>2 DEF Long
  <2>3. mode # "plain" /\ remaining > 0 => Long
    BY <1>1, <1>2 DEF Committed, Pausing
  <2> QED BY <1>1, <1>2, <2>1, <2>2, <2>3 DEF Committed, Pausing, Streaming
<1>15. Framed(o)'
  BY <1>2, <1>3, <1>4, <1>8, <1>9 DEF Framed
<1>16. Filling'
  <2>1. framing' = "sse" => kept = <<>>
    BY <1>1, <1>2, <1>4 DEF OnWire
  <2> QED BY <1>1, <1>2, <2>1 DEF Filling
<1> QED BY <1>10, <1>11, <1>12, <1>13, <1>14, <1>15, <1>16 DEF Flow

\* What is written, is written to the end of the buffer.
LEMMA DeliveredFlow ==
    ASSUME TypeInv, NEW o \in Nat, NEW h \in Nat, NEW b \in Nat, NEW t \in Nat, Flow(o, h, b, t),
           pc \in {"open", "write"}, kept' = <<>>, buf' = <<>>, out' = P(0, b),
           ended' => ended \/ remaining = 0, pc' = IF remaining > 0 THEN "rest" ELSE "exit",
           UNCHANGED <<line, req, ans, tail, counts, flags, framing, clen, closing, late>>
    PROVE  Flow(b, b, b, t)'
<1>1. /\ o <= h /\ h <= b /\ b <= t /\ t <= Limit(ans) /\ h <= Extent(ans) /\ b <= Extent(ans) /\ Marked
      /\ OnWire(o, b, t) /\ Committed /\ Framed(o) /\ Filling /\ Sized(t) /\ tail = P(b, t)
  BY DEF Flow, Reached, Done, Pausing
<1>2. /\ UNCHANGED <<wire, connected, eof, req, ans, tail, remaining, size, mode, chunked, maxclen>>
      /\ UNCHANGED <<distressed, framing, clen, closing, late>>
      /\ req \in Nat /\ ans \in Answers /\ remaining \in Nat
  BY Known DEF line, counts, flags
<1>3. /\ framing \notin {"none", "error"} /\ req > 0 /\ ~late /\ ans.mode # "sse"
  BY <1>1 DEF Framed, Marked
<1>4. Paused(b, t)
  BY <1>1, <1>3 DEF OnWire, Pausing
<1>5. remaining = 0 => wire = <<>> /\ b = Extent(ans)
  BY <1>4 DEF Paused
<1>6. Reached(b, b, b, t)'
  <2>1. P(b, b) = <<>>
    BY PieceNone DEF P
  <2>2. b <= b
    OBVIOUS
  <2> QED BY <1>1, <1>2, <2>1, <2>2, FlattenNone DEF Reached, P, Pausing, Done
<1>7. OnWire(b, b, t)'
  <2>1. \A j : Inside(t, j)' <=> Inside(t, j)
    BY <1>2 DEF Inside, P
  <2>2. Paused(b, t)'
    BY <1>2, <1>4, <2>1 DEF Paused, P
  <2> QED BY <1>2, <1>3, <1>5, <2>2 DEF OnWire
<1>8. Marked'
  BY <1>1, <1>2, <1>3 DEF Marked, Distress
<1>9. Sized(t)'
  BY <1>1, <1>2 DEF Sized, Pausing, Streaming
<1>10. Committed'
  <2>1. Long => Long'
    BY <1>2 DEF Long
  <2>2. remaining > 0 /\ mode # "plain" => Long
    BY <1>1, <1>3 DEF Committed, Pausing
  <2> QED BY <1>1, <1>2, <2>1, <2>2 DEF Committed, Pausing, Streaming
<1>11. Framed(b)'
  <2>1. ended => b = Extent(ans)
    <3>1. ended => o = Extent(ans)
      BY <1>1 DEF Framed
    <3>2. Extent(ans) \in Nat
      BY <1>2, Bounds
    <3> QED BY <1>1, <3>1, <3>2
  <2>2. ended' => b = Extent(ans)
    BY <1>5, <2>1
  <2> QED BY <1>1, <1>2, <1>3, <2>2 DEF Framed
<1>12. Filling'
  BY <1>2 DEF Filling
<1> QED BY <1>6, <1>7, <1>8, <1>9, <1>10, <1>11, <1>12 DEF Flow

\* The browser is gone.
LEMMA UndeliveredFlow ==
    ASSUME TypeInv, NEW o \in Nat, NEW h \in Nat, NEW b \in Nat, NEW t \in Nat, Flow(o, h, b, t),
           pc \in {"open", "write"}, kept' = <<>>, closing' = TRUE, pc' = "exit",
           UNCHANGED <<line, req, ans, flags, framing, clen, out, ended, late>>
    PROVE  Flow(o, o, o, o)'
<1>1. /\ o <= h /\ h <= b /\ b <= t /\ t <= Limit(ans) /\ h <= Extent(ans) /\ out = P(0, o) /\ Marked
      /\ Committed /\ Framed(o)
  BY DEF Flow, Reached
<1>2. /\ UNCHANGED <<wire, connected, eof, req, ans, mode, chunked, maxclen, distressed>>
      /\ UNCHANGED <<framing, clen, out, ended, late>>
      /\ ans \in Answers
  BY Known DEF line, flags
<1>3. Limit(ans) \in Nat /\ Extent(ans) \in Nat
  BY <1>2, Bounds
<1>4. Reached(o, o, o, o)'
  <2>1. o <= Limit(ans) /\ o <= Extent(ans)
    BY <1>1, <1>3
  <2> QED BY <1>1, <1>2, <2>1 DEF Reached, P, Done, Pausing
<1>5. OnWire(o, o, o)' /\ Sized(o)' /\ Filling'
  BY DEF OnWire, Sized, Filling, Pausing, Streaming
<1>6. Marked' /\ Committed'
  BY <1>1, <1>2 DEF Marked, Committed, Distress, Pausing, Streaming
<1>7. Framed(o)'
  BY <1>1, <1>2 DEF Framed
<1> QED BY <1>4, <1>5, <1>6, <1>7 DEF Flow

LEMMA WritingFlow ==
    ASSUME TypeInv, NEW o \in Nat, NEW h \in Nat, NEW b \in Nat, NEW t \in Nat, Flow(o, h, b, t), Open \/ Write
    PROVE  Flow(b, b, b, t)' \/ Flow(o, o, o, o)'
<1>1. /\ o <= h /\ h <= b /\ b <= t /\ t <= Limit(ans) /\ out = P(0, o)
      /\ Framed(o) /\ Filling /\ FlattenSeq(kept) = P(o, h) /\ buf = P(h, b)
      /\ pc \in {"open", "write"}
  BY DEF Flow, Reached, Done, Open, Write
<1>2. /\ kept \in Seq(Seq(Byte)) /\ buf \in Seq(Byte) /\ req \in Nat /\ ans \in Answers
  BY Known
<1>3. h <= Whole(ans) /\ b <= Whole(ans) /\ o <= b /\ o <= Whole(ans)
  <2>1. Limit(ans) \in Nat /\ Whole(ans) \in Nat /\ Limit(ans) <= Whole(ans)
    BY <1>2, Bounds
  <2> QED BY <1>1, <2>1
<1>4. P(0, o) \o P(o, b) = P(0, b) /\ P(o, h) \o P(h, b) = P(o, b)
  <2> DEFINE z == 0
  <2>1. z \in Nat /\ z <= o
    OBVIOUS
  <2> HIDE DEF z
  <2>t. /\ req \in Nat /\ ans \in Answers /\ z \in Nat /\ o \in Nat /\ h \in Nat /\ b \in Nat
        /\ z <= o /\ o <= h /\ h <= b /\ o <= b /\ b <= Whole(ans)
    BY <1>1, <1>2, <1>3, <2>1
  <2>2. Piece(req, ans, z, o) \o Piece(req, ans, o, b) = Piece(req, ans, z, b)
    BY ONLY <2>t, PieceJoin
  <2>3. Piece(req, ans, o, h) \o Piece(req, ans, h, b) = Piece(req, ans, o, b)
    BY ONLY <2>t, PieceJoin
  <2> QED BY <2>2, <2>3 DEF P, z
<1>5. ASSUME NEW bytes, bytes = P(o, b), Deliver(bytes), kept' = <<>>, buf' = <<>>,
             UNCHANGED <<line, req, ans, tail, counts, flags, framing, clen, late>>
      PROVE  Flow(b, b, b, t)' \/ Flow(o, o, o, o)'
  <2>1. CASE out' = out \o bytes /\ ended' = (ended \/ (framing = "chunked" /\ remaining = 0))
             /\ pc' = (IF remaining > 0 THEN "rest" ELSE "exit") /\ closing' = closing
    <3>1. out' = P(0, b)
      BY <1>1, <1>4, <1>5, <2>1
    <3>2. ended' => ended \/ remaining = 0
      BY <2>1
    <3> QED BY <1>1, <1>5, <2>1, <3>1, <3>2, DeliveredFlow
  <2>2. CASE closing' = TRUE /\ pc' = "exit" /\ out' = out /\ ended' = ended
    BY <1>1, <1>5, <2>2, UndeliveredFlow
  <2> QED BY <1>5, <2>1, <2>2 DEF Deliver
<1>6. CASE Write
  <2>1. kept = <<>>
    BY <1>1, <1>6 DEF Framed, Filling, Write
  <2>2. h = o
    <3>1. Piece(req, ans, o, h) = <<>>
      BY <1>1, <2>1, FlattenNone DEF P
    <3> QED BY <1>1, <1>2, <1>3, <3>1, Empties
  <2>3. buf = P(o, b)
    BY <1>1, <2>2
  <2>4. kept' = <<>> /\ buf' = <<>> /\ Deliver(buf)
        /\ UNCHANGED <<line, req, ans, tail, counts, flags, framing, clen, late>>
    BY <1>6, <2>1 DEF Write
  <2> QED BY <1>5, <2>3, <2>4
<1>7. CASE Open
  <2>1. kept' = <<>> /\ buf' = <<>> /\ UNCHANGED <<line, req, ans, tail, counts, flags, framing, clen, late>>
    BY <1>7 DEF Open
  <2>2. CASE Chain[1] # <<>>
    <3>1. Deliver(FlattenSeq(Chain))
      BY <1>7, <2>2 DEF Open
    <3>2. FlattenSeq(Chain) = P(o, b)
      <4>1. FlattenSeq(Append(kept, buf)) = FlattenSeq(kept) \o buf
        BY <1>2, FlattenAppend
      <4> QED BY <1>1, <1>4, <4>1 DEF Chain
    <3> QED BY <1>5, <2>1, <3>1, <3>2
  <2>3. CASE Chain[1] = <<>>
    <3>1. kept = <<>>
      <4> SUFFICES ASSUME kept # <<>> PROVE FALSE
        OBVIOUS
      <4>1. Len(kept) \in Nat /\ Len(kept) # 0
        BY <1>2, EmptySeq, LenProperties
      <4>2. Chain[1] = kept[1]
        BY <1>2, <4>1, AppendProperties DEF Chain
      <4> QED BY <1>1, <2>3, <4>2 DEF Filling
    <3>2. buf = <<>>
      <4>1. Chain = <<buf>>
        BY <3>1 DEF Chain
      <4> QED BY <2>3, <4>1
    <3>3. h = o
      <4>1. Piece(req, ans, o, h) = <<>>
        BY <1>1, <3>1, FlattenNone DEF P
      <4> QED BY <1>1, <1>2, <1>3, <4>1, Empties
    <3>4. b = h
      <4>1. Piece(req, ans, h, b) = <<>>
        BY <1>1, <3>2 DEF P
      <4> QED BY <1>1, <1>2, <1>3, <4>1, Empties
    <3>5. /\ pc' = (IF remaining > 0 THEN "rest" ELSE "exit")
          /\ out' = out /\ ended' = ended /\ closing' = closing
      BY <1>7, <2>3 DEF Open
    <3>6. out' = P(0, b) /\ (ended' => ended \/ remaining = 0)
      BY <1>1, <3>3, <3>4, <3>5
    <3> QED BY <1>1, <2>1, <3>5, <3>6, DeliveredFlow
  <2> QED BY <2>2, <2>3
<1> QED BY <1>6, <1>7

LEMMA ReadRestFlow ==
    ASSUME Sound, TypeInv, NEW o \in Nat, NEW h \in Nat, NEW b \in Nat, NEW t \in Nat, Flow(o, h, b, t),
           NEW n \in Lengths, NEW rc \in {"timeout", "eof"}, ReadRest(n, rc)
    PROVE  \E g \in Nat : Flow(o, h, g, g)'
<1>1. /\ o <= h /\ h <= b /\ b <= t /\ t <= Limit(ans) /\ h <= Extent(ans) /\ b <= Extent(ans)
      /\ out = P(0, o) /\ Marked /\ OnWire(o, b, t) /\ Committed /\ Framed(o) /\ Filling
      /\ FlattenSeq(kept) = P(o, h) /\ buf = P(h, b) /\ tail = P(b, t)
  BY DEF Flow, Reached, Done, Pausing, ReadRest
<1>2. /\ req \in Nat /\ ans \in Answers /\ LineType /\ remaining \in Nat /\ late \in BOOLEAN /\ n \in Nat
      /\ Room + Slack \in Nat /\ Total(ans) \in Nat /\ Whole(ans) \in Nat /\ Total(ans) <= Whole(ans)
      /\ Total(ans) <= Extent(ans) /\ Extent(ans) <= Limit(ans) /\ Extent(ans) \in Nat /\ Limit(ans) \in Nat
      /\ Limit(ans) <= Whole(ans)
  <2>1. req \in Nat /\ ans \in Answers /\ LineType /\ remaining \in Nat /\ late \in BOOLEAN
    BY Known
  <2>2. n \in Nat /\ Room + Slack \in Nat
    BY Sizes DEF Lengths
  <2>3. /\ Total(ans) \in Nat /\ Whole(ans) \in Nat /\ Extent(ans) \in Nat /\ Limit(ans) \in Nat
        /\ Total(ans) <= Extent(ans) /\ Extent(ans) <= Limit(ans) /\ Limit(ans) <= Whole(ans)
    BY <2>1, Bounds
  <2>4. Total(ans) <= Whole(ans)
    BY ONLY <2>3
  <2> QED BY ONLY <2>1, <2>2, <2>3, <2>4
<1>3. pc = "rest" /\ mode = "plain" /\ buf = <<>> /\ remaining # 0 /\ ans.mode # "sse"
  BY <1>1, <1>2 DEF ReadRest, Filling, Marked
<1>4. Paused(b, t)
  BY <1>1, <1>3 DEF OnWire, Pausing
<1>5. /\ ans.mode = "plain" /\ b = t /\ t + remaining = Total(ans) /\ wire = P(t, Total(ans))
  BY <1>3, <1>4 DEF Paused
<1>6. Extent(ans) = Total(ans)
  BY <1>2, <1>5, Bounds
<1>7. PICK lim \in Nat : lim = Total(ans) /\ t + remaining = lim /\ t <= lim /\ lim - t = remaining
                         /\ lim <= Whole(ans)
  BY <1>2, <1>5
<1>8. h = b
  <2>1. b <= Whole(ans)
    BY <1>1, <1>2
  <2>2. Piece(req, ans, h, b) = <<>>
    BY <1>1, <1>3 DEF P
  <2> QED BY <1>1, <1>2, <2>1, <2>2, Empties
<1>9. PICK k \in Nat : k = RestGet /\ k <= remaining
  BY <1>2 DEF RestGet, Least
<1>10. wire = Piece(req, ans, t, lim)
  BY <1>5, <1>7 DEF P
<1>11. k <= Len(wire)
  <2>0. req \in Nat /\ ans \in Answers /\ t \in Nat /\ lim \in Nat /\ t <= lim /\ lim <= Whole(ans)
    BY <1>2, <1>7
  <2>1. Len(Piece(req, ans, t, lim)) = lim - t
    BY ONLY <2>0, PieceType
  <2> QED BY <1>7, <1>9, <1>10, <2>1
<1>12. n = k /\ buf' = Begin(wire, k) /\ wire' = Rest(wire, k) /\ late' = late
  <2>1. ReceiveAll(k, n, rc) /\ "short" \notin Faults /\ buf' = Filled(k, n)
    BY <1>9 DEF ReadRest, Sound
  <2> QED BY <1>2, <1>11, <2>1, ReceivesAll
<1>13. /\ UNCHANGED <<req, ans, kept, tail, size, mode, chunked, maxclen, distressed>>
       /\ UNCHANGED <<framing, own, clen, out, ended, closing>>
       /\ remaining' = remaining - k /\ pc' = "write"
  BY <1>9 DEF ReadRest, flags, reply
<1>14. PICK g \in Nat : g = t + k
  OBVIOUS
<1>15. t <= g /\ g <= lim /\ g + remaining' = lim /\ h <= g
  <2>1. remaining \in Nat /\ k <= remaining /\ t + remaining = lim /\ remaining' = remaining - k /\ g = t + k /\ h = t
    BY <1>2, <1>5, <1>7, <1>8, <1>9, <1>13, <1>14
  <2> QED BY ONLY <2>1, t \in Nat, k \in Nat, lim \in Nat
<1>16. buf' = P(h, g) /\ wire' = P(g, lim)
  <2>1. /\ req \in Nat /\ ans \in Answers /\ t \in Nat /\ lim \in Nat /\ t <= lim /\ lim <= Whole(ans)
        /\ k \in 0..(lim - t)
    BY <1>2, <1>7, <1>9
  <2>2. Begin(Piece(req, ans, t, lim), k) = Piece(req, ans, t, t + k)
    BY ONLY <2>1, PieceSplit
  <2>3. Rest(Piece(req, ans, t, lim), k) = Piece(req, ans, t + k, lim)
    BY ONLY <2>1, PieceSplit
  <2> QED BY <1>5, <1>8, <1>10, <1>12, <1>14, <2>2, <2>3 DEF P
<1>17. Reached(o, h, g, g)'
  <2>1. P(g, g) = <<>> /\ tail = <<>>
    BY <1>1, <1>5, PieceNone DEF P
  <2>2. g <= g /\ g <= Extent(ans) /\ g <= Limit(ans)
    BY <1>2, <1>6, <1>7, <1>15
  <2> QED BY <1>1, <1>13, <1>15, <1>16, <2>1, <2>2 DEF Reached, P
<1>18. OnWire(o, g, g)'
  <2>1. CASE remaining' = 0
    <3>1. g = lim
      BY <1>15, <2>1
    <3>2. wire' = <<>>
      BY <1>16, <3>1, PieceNone DEF P
    <3>3. Paused(g, g)'
      BY <1>6, <1>7, <1>13, <2>1, <3>1, <3>2 DEF Paused
    <3> QED BY <1>13, <3>3 DEF OnWire
  <2>2. CASE remaining' # 0
    <3>1. Paused(g, g)'
      BY <1>3, <1>5, <1>7, <1>13, <1>15, <1>16, <2>2 DEF Paused, P
    <3> QED BY <1>13, <3>1 DEF OnWire
  <2> QED BY <2>1, <2>2
<1>19. Marked' /\ Sized(g)' /\ Committed'
  BY <1>1, <1>3, <1>13 DEF Marked, Sized, Committed, Streaming
<1>20. Framed(o)' /\ Filling'
  BY <1>1, <1>3, <1>12, <1>13 DEF Framed, Filling
<1>21. Flow(o, h, g, g)'
  BY <1>17, <1>18, <1>19, <1>20 DEF Flow
<1> QED BY <1>21

LEMMA ReadRestFailsFlow ==
    ASSUME TypeInv, NEW o \in Nat, NEW h \in Nat, NEW b \in Nat, NEW t \in Nat, Flow(o, h, b, t),
           NEW rc \in Failures, ReadRestFails(rc)
    PROVE  Flow(o, o, o, o)'
<1>1. framing # "none"
  BY DEF ReadRestFails, Flow, Framed
<1> QED BY <1>1, Leaves DEF ReadRestFails, Done

LEMMA SseReadFlow ==
    ASSUME TypeInv, NEW o \in Nat, NEW h \in Nat, NEW b \in Nat, NEW t \in Nat, Flow(o, h, b, t),
           NEW n \in 1..Len(wire), SseRead(n)
    PROVE  \E g \in Nat : o <= g /\ Flow(g, g, g, g)'
<1>1. /\ o <= h /\ h <= b /\ b <= t /\ t <= Limit(ans) /\ h <= Extent(ans)
      /\ out = P(0, o) /\ Marked /\ OnWire(o, b, t) /\ Committed /\ Framed(o) /\ Filling
      /\ buf = P(h, b) /\ tail = P(b, t)
  BY DEF Flow, Reached, Done, SseRead
<1>2. /\ pc = "sse" /\ ans.mode = "sse" /\ mode = "plain" /\ framing \notin {"none", "error"}
      /\ wire = P(o, Total(ans)) /\ kept = <<>> /\ t = o /\ req > 0 /\ ~late
  BY <1>1 DEF SseRead, Marked, OnWire, Framed
<1>3. h = o /\ b = o
  BY <1>1, <1>2
<1>4. /\ req \in Nat /\ ans \in Answers /\ n \in Nat /\ Total(ans) \in Nat /\ Whole(ans) \in Nat
      /\ Total(ans) <= Whole(ans) /\ Extent(ans) = Total(ans) /\ Limit(ans) = Total(ans)
  BY <1>2, Known, Bounds
<1>5. /\ UNCHANGED <<req, ans, kept, buf, tail, remaining, size, mode, chunked, maxclen, distressed>>
      /\ UNCHANGED <<framing, own, clen, ended, closing, late>>
      /\ wire' = Rest(wire, n) /\ Taking(n) = Begin(wire, n) /\ n <= Len(wire)
      /\ \/ out' = out \o Begin(wire, n) /\ pc' = "sse"
         \/ out' = out /\ pc' = "sseEnd"
  BY <1>2 DEF SseRead, Receive, Taking, Leaving, Begin, Rest, buffers, counts, flags
<1>6. PICK lim \in Nat : lim = Total(ans) /\ o <= lim /\ lim <= Whole(ans)
  BY <1>1, <1>2, <1>4
<1>7. Len(wire) = lim - o
  <2>1. req \in Nat /\ ans \in Answers /\ o \in Nat /\ lim \in Nat /\ o <= lim /\ lim <= Whole(ans)
    BY <1>4, <1>6
  <2>2. Len(Piece(req, ans, o, lim)) = lim - o
    BY ONLY <2>1, PieceType
  <2> QED BY <1>2, <1>6, <2>2 DEF P
<1>8. n \in 0..(lim - o) /\ o + n <= lim
  BY <1>4, <1>5, <1>6, <1>7
<1>9. PICK g \in Nat : g = o + n /\ o <= g /\ g <= lim
  BY <1>4, <1>8
<1>10. CASE pc' = "sseEnd"
  <2>1. Reached(o, o, o, o)'
    <3>1. o <= Limit(ans) /\ o <= Extent(ans) /\ o <= o
      BY <1>4, <1>6
    <3> QED BY <1>1, <1>5, <1>10, <3>1 DEF Reached, P, Done, Pausing
  <2>2. OnWire(o, o, o)' /\ Sized(o)'
    BY <1>10 DEF OnWire, Sized, Pausing, Streaming
  <2>3. Marked' /\ Committed'
    BY <1>1, <1>2, <1>5, <1>10 DEF Marked, Committed
  <2>4. Framed(o)' /\ Filling'
    BY <1>1, <1>2, <1>5, <1>10 DEF Framed, Filling
  <2>5. o <= o /\ Flow(o, o, o, o)'
    BY <2>1, <2>2, <2>3, <2>4 DEF Flow
  <2> QED BY <2>5
<1>11. CASE pc' = "sse"
  <2>1. out' = P(0, g) /\ wire' = P(g, lim)
    <3> DEFINE z == 0
    <3>1. /\ req \in Nat /\ ans \in Answers /\ z \in Nat /\ o \in Nat /\ n \in Nat /\ lim \in Nat
          /\ z <= o /\ o + n <= lim /\ lim <= Whole(ans)
      BY <1>4, <1>6, <1>8
    <3> HIDE DEF z
    <3>3. o <= lim /\ n \in 0..(lim - o)
      BY <1>6, <1>8
    <3>4. Rest(Piece(req, ans, o, lim), n) = Piece(req, ans, o + n, lim)
      BY ONLY <3>1, <3>3, PieceSplit
    <3>5. Begin(Piece(req, ans, o, lim), n) = Piece(req, ans, o, o + n)
      BY ONLY <3>1, <3>3, PieceSplit
    <3>6. /\ req \in Nat /\ ans \in Answers /\ z \in Nat /\ o \in Nat /\ g \in Nat
          /\ z <= o /\ o <= g /\ g <= Whole(ans)
      BY <1>4, <1>6, <1>9, <3>1
    <3>7. Piece(req, ans, z, o) \o Piece(req, ans, o, g) = Piece(req, ans, z, g)
      BY ONLY <3>6, PieceJoin
    <3> QED BY <1>1, <1>2, <1>5, <1>6, <1>9, <1>11, <3>4, <3>5, <3>7 DEF P, z
  <2>2. Reached(g, g, g, g)'
    <3>1. P(g, g) = <<>> /\ buf = <<>> /\ tail = <<>>
      BY <1>1, <1>2, <1>3, PieceNone DEF P
    <3>2. g <= Limit(ans) /\ g <= Extent(ans) /\ g <= g
      BY <1>4, <1>6, <1>9
    <3> QED BY <1>2, <1>5, <1>11, <2>1, <3>1, <3>2, FlattenNone DEF Reached, P, Pausing
  <2>3. OnWire(g, g, g)' /\ Sized(g)'
    BY <1>2, <1>5, <1>6, <1>11, <2>1 DEF OnWire, Sized, Pausing, Streaming, P
  <2>4. Marked' /\ Committed'
    BY <1>1, <1>2, <1>5, <1>11 DEF Marked, Committed
  <2>5. Framed(g)'
    <3>1. ended => g = Extent(ans)
      <4>1. ended => o = Extent(ans)
        BY <1>1 DEF Framed
      <4> QED BY <1>4, <1>6, <1>9, <4>1
    <3> QED BY <1>1, <1>2, <1>5, <1>11, <3>1 DEF Framed
  <2>6. Filling'
    BY <1>1, <1>2, <1>5, <1>11 DEF Filling
  <2>7. Flow(g, g, g, g)'
    BY <2>2, <2>3, <2>4, <2>5, <2>6 DEF Flow
  <2> QED BY <1>9, <2>7
<1> QED BY <1>5, <1>10, <1>11

LEMMA SseEndFlow ==
    ASSUME TypeInv, NEW o \in Nat, NEW h \in Nat, NEW b \in Nat, NEW t \in Nat, Flow(o, h, b, t),
           SseTimeout \/ SseClose \/ (\E rc \in Failures : SseEnd(rc))
    PROVE  Flow(o, o, o, o)'
<1>1. /\ pc \in {"sse", "sseEnd"} /\ pc' \in {"sseEnd", "exit"}
      /\ pc' = "sseEnd" => pc = "sse"
      /\ pc' = "exit" => closing' = TRUE
      /\ UNCHANGED <<req, ans, buffers, counts, flags, resent, reply, client, late>>
  BY DEF SseTimeout, SseClose, SseEnd
<1>2. framing # "none"
  BY <1>1 DEF Flow, Framed
<1> QED BY <1>1, <1>2, Leaves DEF Done

---------------------------------------------------------------------------
(* The invariant, and what follows from it. *)

AnswerInv == TypeInv /\ FlowInv

LEMMA HeadIsTrue == ASSUME AnswerInv PROVE HeadTrue
<1>1. pc = "head" => wire = Sent(req, ans)
  BY DEF AnswerInv, FlowInv, Flow, OnWire
<1>2. req \in Nat /\ ans \in Answers
  BY Known DEF AnswerInv
<1>3. Head(Sent(req, ans)) = Tok("head", req, IF ans.mode = "plain" THEN PreLen + Total(ans) ELSE 0)
  BY <1>2, SentProperties
<1> QED BY <1>1, <1>3 DEF HeadTrue

LEMMA FlowStart == Init => FlowInv
<1> SUFFICES ASSUME Init PROVE FlowInv
  OBVIOUS
<1>1. ans \in Answers /\ req = 0 /\ req \in Nat
  BY DEF Init
<1>2. 0 <= Limit(ans) /\ 0 <= Extent(ans)
  BY <1>1, Bounds
<1>3. Piece(req, ans, 0, 0) = <<>>
  BY PieceNone
<1>4. Reached(0, 0, 0, 0)
  BY <1>2, <1>3, FlattenNone DEF Init, Reached, P, Pausing
<1>5. OnWire(0, 0, 0) /\ Sized(0) /\ Marked /\ Committed /\ Filling
  BY DEF Init, OnWire, Sized, Marked, Committed, Filling, Pausing, Streaming
<1>6. Framed(0)
  BY DEF Init, Framed
<1>7. Flow(0, 0, 0, 0)
  BY <1>4, <1>5, <1>6 DEF Flow
<1> QED BY <1>7 DEF FlowInv

\* The numbers after a step, and that no byte that was written is taken back.
LEMMA FlowStep ==
    ASSUME Sound, TypeInv, NEW o \in Nat, NEW h \in Nat, NEW b \in Nat, NEW t \in Nat, Flow(o, h, b, t),
           [Thread \/ ClientLeaves]_vars
    PROVE  \E o1, h1, b1, t1 \in Nat : o <= o1 /\ Flow(o1, h1, b1, t1)'
<1>0. o <= h /\ h <= b
  BY DEF Flow, Reached
<1>w. o <= o /\ o <= b
  BY <1>0
<1>1. CASE UNCHANGED vars
  <2>1. UNCHANGED <<line, pc, req, ans, buffers, counts, flags, reply, closing, late>>
    BY <1>1 DEF vars
  <2> QED BY <1>w, <2>1, Stays
<1>2. CASE ClientLeaves
  <2>1. UNCHANGED <<line, pc, req, ans, buffers, counts, flags, reply, closing, late>>
    BY <1>2 DEF ClientLeaves
  <2> QED BY <1>w, <2>1, Stays
<1>3. CASE Command
  <2>1. CASE ReadHead
    <3>1. o = 0
      BY <2>1 DEF ReadHead, Flow, Framed
    <3> QED BY <1>w, <2>1, <3>1, ReadHeadFlow
  <2>2. CASE Resend
    BY <1>w, <2>2, ResendFlow
  <2>3. CASE Failed
    <3>1. o = 0
      BY <2>3 DEF Failed, Flow, Framed
    <3> QED BY <1>w, <2>3, <3>1, FailedFlow
  <2>4. CASE Frame
    BY <1>w, <2>4, FrameFlow
  <2>5. ASSUME NEW rc \in Failures, HeadFails(rc) PROVE \E o1, h1, b1, t1 \in Nat : o <= o1 /\ Flow(o1, h1, b1, t1)'
    BY <1>w, <2>5, HeadFailsFlow
  <2>6. ASSUME NEW n \in Lengths, NEW rc \in {"timeout", "eof"}, ReadBody(n, rc)
        PROVE  \E o1, h1, b1, t1 \in Nat : o <= o1 /\ Flow(o1, h1, b1, t1)'
    <3>1. o = 0
      BY <2>6 DEF ReadBody, Flow, Framed
    <3>2. \E k \in Nat : Flow(0, 0, k, k)'
      BY <2>6, ReadBodyFlow
    <3> QED BY <1>w, <3>1, <3>2
  <2> QED BY <1>3, <2>1, <2>2, <2>3, <2>4, <2>5, <2>6 DEF Command
<1>4. CASE Stream
  <2>1. ASSUME NEW n \in 1..Len(wire), AsciiRead(n)
        PROVE  \E o1, h1, b1, t1 \in Nat : o <= o1 /\ Flow(o1, h1, b1, t1)'
    <3>1. \E c, g \in Nat : Flow(o, h, c, g)'
      BY <2>1, AsciiReadFlow
    <3> QED BY <1>w, <3>1
  <2>2. CASE AsciiNoSpace
    <3>1. \E c, g \in Nat : Flow(o, h, c, g)'
      BY <2>2, AsciiNoSpaceFlow
    <3> QED BY <1>w, <3>1
  <2>3. CASE HeadOfBlock
    BY <1>w, <2>3, HeadOfBlockFlow
  <2>4. CASE EndOfBlocks
    BY <1>w, <2>4, EndOfBlocksFlow
  <2>5. CASE HeadMissing
    <3>1. \E g \in Nat : Flow(o, h, g, g)'
      BY <2>5, HeadMissingFlow
    <3> QED BY <1>w, <3>1
  <2>6. ASSUME NEW n \in Lengths, NEW rc \in {"timeout", "eof"}, BlockRead(n, rc)
        PROVE  \E o1, h1, b1, t1 \in Nat : o <= o1 /\ Flow(o1, h1, b1, t1)'
    <3>1. \E g \in Nat : Flow(o, h, g, g)'
      BY <2>6, BlockReadFlow
    <3> QED BY <1>w, <3>1
  <2>7. CASE StartChunking \/ StopCounting
    BY <1>w, <2>7, WriteOutFlow
  <2>8. CASE Extend
    BY <1>w, <2>8, ExtendFlow
  <2>9. CASE ExtendFails
    BY <1>w, <2>9, ExtendFailsFlow
  <2>10. ASSUME NEW rc \in Failures, AsciiFails(rc) \/ HeadOfBlockFails(rc) \/ BlockReadFails(rc)
         PROVE  \E o1, h1, b1, t1 \in Nat : o <= o1 /\ Flow(o1, h1, b1, t1)'
    BY <1>w, <2>10, StreamFailsFlow
  <2> QED BY <1>4, <2>1, <2>2, <2>3, <2>4, <2>5, <2>6, <2>7, <2>8, <2>9, <2>10 DEF Stream
<1>5. CASE Copy
  <2>1. CASE Open \/ Write
    <3>1. Flow(b, b, b, t)' \/ Flow(o, o, o, o)'
      BY <2>1, WritingFlow
    <3> QED BY <1>w, <3>1
  <2>2. CASE NextRound
    BY <1>w, <2>2, NextRoundFlow
  <2>3. ASSUME NEW n \in Lengths, NEW rc \in {"timeout", "eof"}, ReadRest(n, rc)
        PROVE  \E o1, h1, b1, t1 \in Nat : o <= o1 /\ Flow(o1, h1, b1, t1)'
    <3>1. \E g \in Nat : Flow(o, h, g, g)'
      BY <2>3, ReadRestFlow
    <3> QED BY <1>w, <3>1
  <2>4. ASSUME NEW rc \in Failures, ReadRestFails(rc)
        PROVE  \E o1, h1, b1, t1 \in Nat : o <= o1 /\ Flow(o1, h1, b1, t1)'
    BY <1>w, <2>4, ReadRestFailsFlow
  <2> QED BY <1>5, <2>1, <2>2, <2>3, <2>4 DEF Copy
<1>6. CASE Events
  <2>1. ASSUME NEW n \in 1..Len(wire), SseRead(n)
        PROVE  \E o1, h1, b1, t1 \in Nat : o <= o1 /\ Flow(o1, h1, b1, t1)'
    <3>1. \E g \in Nat : o <= g /\ Flow(g, g, g, g)'
      BY <2>1, SseReadFlow
    <3> QED BY <3>1
  <2>2. CASE SseTimeout \/ SseClose \/ (\E rc \in Failures : SseEnd(rc))
    BY <1>w, <2>2, SseEndFlow
  <2> QED BY <1>6, <2>1, <2>2 DEF Events
<1>7. CASE Exit
  BY <1>w, <1>7, ExitFlow
<1> QED BY <1>1, <1>2, <1>3, <1>4, <1>5, <1>6, <1>7 DEF Thread

LEMMA AnswerStart == Init => AnswerInv
BY TypeStart, FlowStart DEF AnswerInv

LEMMA AnswerStep == ASSUME Sound, AnswerInv, [Next]_vars PROVE AnswerInv'
<1>1. TypeInv'
  BY HeadIsTrue, TypeStep DEF AnswerInv
<1>2. PICK o \in Nat, h \in Nat, b \in Nat, t \in Nat : Flow(o, h, b, t)
  BY DEF AnswerInv, FlowInv
<1>3. CASE [Thread \/ ClientLeaves]_vars
  <2>1. \E o1, h1, b1, t1 \in Nat : Flow(o1, h1, b1, t1)'
    BY <1>2, <1>3, FlowStep DEF AnswerInv
  <2> QED BY <1>1, <2>1 DEF AnswerInv, FlowInv
<1>4. ASSUME NEW a \in Answers, NEW w \in BOOLEAN, Submit(a, w) PROVE AnswerInv'
  <2>1. Flow(0, 0, 0, 0)'
    BY <1>2, <1>4, SubmitFlow DEF AnswerInv
  <2> QED BY <1>1, <2>1 DEF AnswerInv, FlowInv
<1> QED BY <1>3, <1>4 DEF Next

LEMMA AnswerAlways == ASSUME Sound PROVE Spec => []AnswerInv
<1>1. AnswerInv /\ [Next]_vars => AnswerInv'
  BY AnswerStep
<1> QED BY <1>1, AnswerStart, PTL DEF Spec

\* TypeCorrect: every variable of the answer path keeps its type; the subtractions of
\* netx_tcp_command, netx_tcp_read_stream and the copying loop never go below zero.
THEOREM TypeCorrect == ASSUME Sound PROVE Spec => []TypeOK
<1>1. AnswerInv => TypeOK
  BY DEF AnswerInv, TypeInv
<1> QED BY <1>1, AnswerAlways, PTL

\* ConnectionsReusedClean: mg_release_connection keeps a connection only when the whole
\* of the answer has been read from it, whatever went wrong with it.
THEOREM ConnectionsReusedClean == ASSUME Sound PROVE Spec => []CleanReuse
<1>1. AnswerInv => CleanReuse
  BY DEF AnswerInv, FlowInv, Flow, OnWire, CleanReuse
<1> QED BY <1>1, AnswerAlways, PTL

---------------------------------------------------------------------------
(* The client sees the pipe: what is written is at all times the beginning of *)
(* the content, and the whole of it when the client takes it for that.        *)

LEMMA PiecePrefix ==
    ASSUME NEW r \in Nat, NEW a \in Answers, NEW m \in Nat, NEW n \in Nat, m <= n, n <= Whole(a)
    PROVE  IsPrefix(Piece(r, a, 0, m), Piece(r, a, 0, n))
<1> DEFINE p == Piece(r, a, 0, m)
           q == Piece(r, a, 0, n)
<1>0. r \in Nat /\ a \in Answers /\ m \in Nat /\ n \in Nat /\ 0 \in Nat /\ Whole(a) \in Nat /\ n <= Whole(a)
  BY Bounds
<1>1. 0 <= m /\ 0 <= n /\ m <= Whole(a) /\ m \in 0..(n - 0) /\ m \in 0..(m - 0) /\ 0 + m = m
  BY <1>0
<1>2. Len(p) = m - 0 /\ Len(q) = n - 0
  <2>1. Len(Piece(r, a, 0, m)) = m - 0
    <3>1. r \in Nat /\ a \in Answers /\ m \in Nat /\ 0 \in Nat /\ 0 <= m /\ m <= Whole(a)
      BY <1>0, <1>1
    <3> QED BY ONLY <3>1, PieceType
  <2>2. Len(Piece(r, a, 0, n)) = n - 0
    <3>1. r \in Nat /\ a \in Answers /\ n \in Nat /\ 0 \in Nat /\ 0 <= n /\ n <= Whole(a)
      BY <1>0, <1>1
    <3> QED BY ONLY <3>1, PieceType
  <2> QED BY <2>1, <2>2
<1>3. Begin(q, m) = p
  BY <1>0, <1>1, PieceSplit
<1>4. Begin(p, m) = p
  BY <1>0, <1>1, PieceSplit
<1> HIDE DEF p, q
<1>5. IsPrefix(p, q)
  BY <1>0, <1>2, <1>3, <1>4 DEF IsPrefix, Begin
<1> QED BY <1>5 DEF p, q

LEMMA ContentIsPiece ==
    ASSUME NEW r \in Nat, NEW a \in Answers
    PROVE  Content(r, a) = Piece(r, a, 0, Extent(a))
<1>1. Piece(r, a, 0, Total(a)) = Body(r, a) /\ Piece(r, a, Total(a), Whole(a)) = Marks(r)
  BY ToldProperties DEF Piece
<1>2. CASE Distress(a)
  <2> DEFINE z == 0
             m == Total(a)
             w == Whole(a)
  <2>1. z \in Nat /\ m \in Nat /\ w \in Nat /\ z <= m /\ m <= w /\ w <= w
    <3>1. Total(a) \in Nat /\ Whole(a) \in Nat /\ Total(a) <= Extent(a) /\ Extent(a) <= Limit(a) /\ Limit(a) <= Whole(a)
          /\ Extent(a) \in Nat /\ Limit(a) \in Nat
      BY Bounds
    <3> QED BY <3>1
  <2>2. Extent(a) = w
    BY <1>2 DEF Extent
  <2>3. Content(r, a) = Piece(r, a, z, m) \o Piece(r, a, m, w)
    BY <1>1, <1>2 DEF Content, Distress
  <2>4. w <= Whole(a)
    BY <2>1
  <2> HIDE DEF z, m, w
  <2>5. Piece(r, a, z, m) \o Piece(r, a, m, w) = Piece(r, a, z, w)
    BY ONLY <2>1, <2>4, r \in Nat, a \in Answers, PieceJoin
  <2>6. Content(r, a) = Piece(r, a, z, Extent(a))
    BY <2>2, <2>3, <2>5
  <2> QED BY <2>6 DEF z
<1>3. CASE ~Distress(a)
  BY <1>1, <1>3 DEF Content, Extent, Distress
<1> QED BY <1>2, <1>3

\* What the abstract pipe calls its content.
Asked == IF req = 0 THEN <<>> ELSE Content(req, ans)

LEMMA WrittenGrows ==
    ASSUME TypeInv, NEW o \in Nat, NEW h \in Nat, NEW b \in Nat, NEW t \in Nat, Flow(o, h, b, t),
           NEW o1 \in Nat, NEW h1 \in Nat, NEW b1 \in Nat, NEW t1 \in Nat, Flow(o1, h1, b1, t1)',
           o <= o1, UNCHANGED <<req, ans>>, pc # "idle"
    PROVE  UNCHANGED Asked /\ IsPrefix(out, out') /\ IsPrefix(out', Asked)
<1>1. req \in Nat /\ ans \in Answers
  BY Known
<1>2. Extent(ans) \in Nat /\ Extent(ans) <= Whole(ans)
  BY <1>1, Bounds
<1>3. out = Piece(req, ans, 0, o) /\ req > 0
  BY DEF Flow, Reached, P, Framed
<1>4. out' = Piece(req, ans, 0, o1)
  BY DEF Flow, Reached, P
<1>5. o1 <= Extent(ans)
  <2>1. o1 <= h1 /\ h1 <= Extent(ans)
    BY DEF Flow, Reached
  <2> QED BY <2>1, <1>2
<1>6. o1 <= Whole(ans)
  <2>1. Whole(ans) \in Nat
    BY <1>1, Bounds
  <2> QED BY <1>2, <1>5, <2>1
<1>7. Asked = Piece(req, ans, 0, Extent(ans))
  BY <1>1, <1>3, ContentIsPiece DEF Asked
<1>8. IsPrefix(out, out')
  BY <1>1, <1>3, <1>4, <1>6, PiecePrefix
<1>9. IsPrefix(out', Asked)
  BY <1>1, <1>2, <1>4, <1>5, <1>7, PiecePrefix
<1> QED BY <1>8, <1>9 DEF Asked

\* The end of an answer, as the client understands it.
LEMMA ExitConcludes ==
    ASSUME TypeInv, NEW o \in Nat, NEW h \in Nat, NEW b \in Nat, NEW t \in Nat, Flow(o, h, b, t), Exit
    PROVE  Pipe!Conclude
<1>1. /\ req \in Nat /\ ans \in Answers /\ clen \in Nat /\ ended \in BOOLEAN
      /\ framing \in {"error", "length", "server", "chunked", "webserver", "close", "sse"}
  BY Known DEF TypeInv, TypeOK, Exit, Flow, Framed
<1>2. /\ pc = "exit" /\ pc' = "idle"
      /\ UNCHANGED <<req, ans, framing, clen, out, ended>>
  BY DEF Exit, reply
<1>3. Extent(ans) \in Nat /\ Extent(ans) <= Whole(ans)
  BY <1>1, Bounds
<1>4. out = Piece(req, ans, 0, o) /\ req > 0 /\ o <= Extent(ans)
  BY <1>2, <1>3 DEF Flow, Reached, P, Framed
<1>5. Len(out) = o
  <2>1. 0 \in Nat /\ 0 <= o /\ o <= Whole(ans) /\ o - 0 = o
    <3>1. Whole(ans) \in Nat
      BY <1>1, Bounds
    <3> QED BY <1>3, <1>4, <3>1
  <2>2. Len(Piece(req, ans, 0, o)) = o - 0
    <3>1. req \in Nat /\ ans \in Answers /\ o \in Nat /\ 0 \in Nat /\ 0 <= o /\ o <= Whole(ans)
      BY <1>1, <2>1
    <3> QED BY ONLY <3>1, PieceType
  <2> QED BY <1>4, <2>1, <2>2
<1>6. Asked = Piece(req, ans, 0, Extent(ans))
  BY <1>1, <1>4, ContentIsPiece DEF Asked
<1>7. Verdict = "pending"
  BY <1>2 DEF Verdict
<1>8. Verdict' \in {"whole", "cut", "open", "error"}
  BY <1>1, <1>2 DEF Verdict
<1>9. ASSUME Verdict' = "whole" PROVE out = Asked
  <2>1. ended \/ (framing \in {"length", "server"} /\ ~(Len(out) < clen))
    BY <1>1, <1>2, <1>9 DEF Verdict
  <2>2. o = Extent(ans)
    BY <1>1, <1>3, <1>4, <1>5, <2>1 DEF Flow, Framed
  <2> QED BY <1>4, <1>6, <2>2
<1>10. ASSUME Verdict' = "error" PROVE out = <<>>
  <2>1. framing = "error"
    BY <1>1, <1>2, <1>10 DEF Verdict
  <2>2. o = 0
    BY <2>1 DEF Flow, Framed
  <2> QED BY <1>4, <2>2, PieceNone
<1>11. UNCHANGED Asked
  BY <1>2 DEF Asked
<1> HIDE DEF Verdict
<1> QED BY <1>2, <1>7, <1>8, <1>9, <1>10, <1>11 DEF Pipe!Conclude, Pipe!Verdicts, Asked

\* The steps before the end, all but Submit.
LEMMA BetweenAsks ==
    ASSUME mode \in {"plain", "block", "ascii"}, [Thread \/ ClientLeaves]_vars, ~Exit
    PROVE  (pc # "idle" /\ pc' # "idle" /\ UNCHANGED <<req, ans>>)
           \/ UNCHANGED <<pc, req, ans, framing, clen, out, ended>>
<1>1. CASE UNCHANGED vars
  BY <1>1 DEF vars, reply
<1>2. CASE ClientLeaves
  BY <1>2 DEF ClientLeaves, reply
<1>3. CASE Command
  BY <1>3 DEF Command, ReadHead, WholeHead, PartOfHead, Resend, Failed, Frame, HeadFails, ReadBody
<1>4. CASE Stream
  <2>1. CASE \E n \in 1..Len(wire) : AsciiRead(n)
    BY <2>1 DEF AsciiRead, Returned
  <2>2. CASE AsciiNoSpace \/ HeadOfBlock \/ EndOfBlocks \/ HeadMissing
    BY <2>2 DEF AsciiNoSpace, HeadOfBlock, EndOfBlocks, HeadMissing, AtHead, Returned
  <2>3. CASE \E n \in Lengths, rc \in {"timeout", "eof"} : BlockRead(n, rc)
    BY <2>3 DEF BlockRead, AfterBlock
  <2>4. CASE StartChunking \/ StopCounting \/ Extend \/ ExtendFails
    BY <2>4 DEF StartChunking, StopCounting, Extend, ExtendFails, Returned
  <2>5. CASE \E rc \in Failures : AsciiFails(rc) \/ HeadOfBlockFails(rc) \/ BlockReadFails(rc)
    BY <2>5 DEF AsciiFails, HeadOfBlockFails, BlockReadFails, StreamFails, AtHead
  <2> QED BY <1>4, <2>1, <2>2, <2>3, <2>4, <2>5 DEF Stream
<1>5. CASE Copy
  BY <1>5 DEF Copy, Open, Write, NextRound, ReadRest, ReadRestFails, Deliver
<1>6. CASE Events
  BY <1>6 DEF Events, SseRead, SseTimeout, SseClose, SseEnd
<1> QED BY <1>1, <1>2, <1>3, <1>4, <1>5, <1>6 DEF Thread

LEMMA PipeStep ==
    ASSUME Sound, TypeInv, NEW o \in Nat, NEW h \in Nat, NEW b \in Nat, NEW t \in Nat, Flow(o, h, b, t),
           [Next]_vars
    PROVE  Pipe!Next \/ UNCHANGED <<Asked, out, Verdict>>
<1>1. CASE Exit
  BY <1>1, ExitConcludes DEF Pipe!Next
<1>2. CASE [Thread \/ ClientLeaves]_vars /\ ~Exit
  <2>1. mode \in {"plain", "block", "ascii"}
    BY Known
  <2>2. CASE UNCHANGED <<pc, req, ans, framing, clen, out, ended>>
    BY <2>2 DEF Asked, Verdict
  <2>3. CASE pc # "idle" /\ pc' # "idle" /\ UNCHANGED <<req, ans>>
    <3>1. PICK o1 \in Nat, h1 \in Nat, b1 \in Nat, t1 \in Nat : o <= o1 /\ Flow(o1, h1, b1, t1)'
      BY <1>2, FlowStep
    <3>2. UNCHANGED Asked /\ IsPrefix(out, out') /\ IsPrefix(out', Asked)
      BY <2>3, <3>1, WrittenGrows
    <3>3. Verdict = "pending" /\ Verdict' = "pending"
      BY <2>3 DEF Verdict
    <3> HIDE DEF Verdict
    <3>4. Pipe!Arrive
      BY <3>2, <3>3 DEF Pipe!Arrive, Asked, IsPrefix, Pipe!IsPrefix
    <3> QED BY <3>4 DEF Pipe!Next
  <2> QED BY <1>2, <2>1, <2>2, <2>3, BetweenAsks
<1>3. ASSUME NEW a \in Answers, NEW w \in BOOLEAN, Submit(a, w) PROVE Pipe!Ask
  <2>1. out' = <<>> /\ pc = "idle" /\ pc' = "head"
    BY <1>3 DEF Submit
  <2>2. Verdict' = "pending"
    BY <2>1 DEF Verdict
  <2>3. framing = "none" => req = 0
    BY <2>1 DEF Flow, Framed
  <2>4. framing # "none" => Verdict # "pending"
    BY <2>1, Known DEF Verdict, TypeInv, TypeOK
  <2> HIDE DEF Verdict
  <2> QED BY <2>1, <2>2, <2>3, <2>4 DEF Pipe!Ask
<1>4. \/ [Thread \/ ClientLeaves]_vars
      \/ \E a \in Answers, w \in BOOLEAN : Submit(a, w)
  BY DEF Next
<1> QED BY <1>1, <1>2, <1>3, <1>4 DEF Pipe!Next

\* AnswerImplementsPipe: with the answers and the faults of Sound, what the client
\* is sent is a prefix of the content that the application wrote for this request,
\* it grows in order, and the client takes for whole only what is.
THEOREM AnswerImplementsPipe == ASSUME Sound PROVE Spec => ClientSeesThePipe
<1>1. Init => Pipe!Init
  BY DEF Init, Pipe!Init, Verdict
<1>2. AnswerInv /\ [Next]_vars => [Pipe!Next]_<<Asked, out, Verdict>>
  <2>1. SUFFICES ASSUME AnswerInv, [Next]_vars PROVE Pipe!Next \/ UNCHANGED <<Asked, out, Verdict>>
    OBVIOUS
  <2>2. PICK o \in Nat, h \in Nat, b \in Nat, t \in Nat : Flow(o, h, b, t)
    BY <2>1 DEF AnswerInv, FlowInv
  <2> QED BY <2>1, <2>2, PipeStep DEF AnswerInv
<1>3. Spec => [][Pipe!Next]_<<Asked, out, Verdict>>
  BY <1>2, AnswerAlways, PTL DEF Spec
<1> QED BY <1>1, <1>3, PTL DEF Spec, ClientSeesThePipe, Pipe!Spec, Asked
============================================================================
