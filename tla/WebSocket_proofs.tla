-------------------------- MODULE WebSocket_proofs --------------------------
(***************************************************************************)
(* The decoder of a WebSocket and its two threads, for any clients, any    *)
(* sizes of the blocks and every fault: it is always at the byte of the    *)
(* stream that it takes the next one for, it has understood the frames up  *)
(* to there, and what the DB Server has heard and the client has been      *)
(* answered is what was said in them.                                      *)
(***************************************************************************)
EXTENDS WebSocket, SequenceTheorems, WellFoundedInduction, TLAPS

---------------------------------------------------------------------------
(* Functions that are defined by recursion over the numbers up to n.       *)

\* Numbers: what holds of 0, and of n + 1 when it holds of n, holds of all.
LEMMA NumberInduction ==
    ASSUME NEW T, 0 \in T, \A n \in Nat : n \in T => n + 1 \in T
    PROVE  Nat \subseteq T
<1> SUFFICES ASSUME Nat \ T # {} PROVE FALSE
  OBVIOUS
<1>1. PICK k \in Nat \ T : \A j \in Nat \ T : ~(<<j, k>> \in OpToRel(<, Nat))
  BY NatLessThanWellFounded, WFMin
<1>2. k # 0 /\ k - 1 \in Nat /\ k - 1 < k /\ (k - 1) + 1 = k
  <2>1. k \in Nat /\ k # 0
    OBVIOUS
  <2> QED BY <2>1
<1>3. k - 1 \notin Nat \ T
  BY <1>1, <1>2 DEF OpToRel
<1> QED BY <1>1, <1>2, <1>3

\* f is v at 0, and at each number what G makes of it and of f at the one before.
Unrolls(V, v, G, n, f) ==
    f \in [0..n -> V] /\ f[0] = v /\ \A j \in 1..n : f[j] = G[<<j, f[j - 1]>>]

\* There is such a function: how far one goes has no least number at which it fails.
LEMMA RecursionExists ==
    ASSUME NEW V, NEW v \in V, NEW G \in [Nat \X V -> V], NEW n \in Nat
    PROVE  \E f : Unrolls(V, v, G, n, f)
<1> DEFINE Fits(m, f) == f \in [0..m -> V] /\ f[0] = v /\ \A j \in 1..m : f[j] = G[<<j, f[j - 1]>>]
           T == {m \in Nat : \E f : Fits(m, f)}
<1>1. 0 \in T
  <2>1. Fits(0, [j \in 0..0 |-> v])
    OBVIOUS
  <2> QED BY <2>1
<1>2. ASSUME NEW m \in Nat, m \in T PROVE m + 1 \in T
  <2>1. PICK f : Fits(m, f)
    BY <1>2
  <2> DEFINE g == [j \in 0..(m + 1) |-> IF j <= m THEN f[j] ELSE G[<<m + 1, f[m]>>]]
  <2>2. f[m] \in V /\ G[<<m + 1, f[m]>>] \in V /\ \A j \in 0..m : f[j] \in V
    BY <2>1
  <2>3. g \in [0..(m + 1) -> V] /\ g[0] = v
    BY <2>1, <2>2
  <2>4. ASSUME NEW j \in 1..(m + 1) PROVE g[j] = G[<<j, g[j - 1]>>]
    <3>1. j - 1 \in 0..m /\ g[j - 1] = f[j - 1]
      OBVIOUS
    <3>2. CASE j = m + 1
      <4>1. g[j] = G[<<m + 1, f[m]>>] /\ j - 1 = m
        BY <3>2
      <4> QED BY <3>1, <3>2, <4>1
    <3>3. CASE j # m + 1
      <4>1. j \in 1..m
        BY <3>3
      <4>2. g[j] = f[j] /\ f[j] = G[<<j, f[j - 1]>>]
        BY <2>1, <4>1
      <4> QED BY <3>1, <4>2
    <3> QED BY <3>2, <3>3
  <2> HIDE DEF g
  <2>5. Fits(m + 1, g)
    BY <2>3, <2>4
  <2> QED BY <2>5
<1> HIDE DEF T
<1>3. n \in T
  BY <1>1, <1>2, NumberInduction
<1> QED BY <1>3 DEF T, Unrolls
---------------------------------------------------------------------------
(* The bytes of a stream. *)

\* The larger of two numbers.
LEMMA MaxOfTwo ==
    ASSUME NEW a \in Nat, NEW b \in Nat
    PROVE  Max({a, b}) = IF a >= b THEN a ELSE b
<1> DEFINE best(x) == x \in {a, b} /\ \A y \in {a, b} : x >= y
           m == CHOOSE x \in {a, b} : \A y \in {a, b} : x >= y
<1>1. \E x \in {a, b} : \A y \in {a, b} : x >= y
  BY DEF best
<1>2. m \in {a, b} /\ \A y \in {a, b} : m >= y
  BY <1>1
<1> HIDE DEF m
<1>3. m = IF a >= b THEN a ELSE b
  BY <1>2
<1> QED BY <1>3 DEF Max, m

\* The smaller of two numbers.
LEMMA MinOfTwo ==
    ASSUME NEW a \in Nat, NEW b \in Nat
    PROVE  Min({a, b}) = IF a <= b THEN a ELSE b
<1> DEFINE m == CHOOSE x \in {a, b} : \A y \in {a, b} : x <= y
<1>1. \E x \in {a, b} : \A y \in {a, b} : x <= y
  OBVIOUS
<1>2. m \in {a, b} /\ \A y \in {a, b} : m <= y
  BY <1>1
<1> HIDE DEF m
<1>3. m = IF a <= b THEN a ELSE b
  BY <1>2
<1> QED BY <1>3 DEF Min, m

\* What the length of a huge frame says.
HugeLength == 33554433

\* How many bytes more the length of a frame takes, and what it comes to with
\* the first i of them.
Extra(f) == IF f.huge THEN 8 ELSE f.form
Value(f, i) ==
    IF f.huge THEN CASE i < 5 -> 0 [] i = 5 -> 2 [] i = 6 -> 512 [] i = 7 -> 131072 [] i = 8 -> HugeLength
    ELSE IF i = f.form THEN Len(f.data) ELSE IF i = f.form - 1 THEN HighByte(Len(f.data)) ELSE 0

\* The bytes before the payload.
HeadSize(f) == 2 + Extra(f) + (IF f.masked THEN 4 ELSE 0)

First(f) == [is |-> "first", fin |-> f.fin, rsv |-> f.rsv, op |-> f.op]
Code(f) == CASE f.form = 0 -> Len(f.data) [] f.form = 2 -> 126 [] f.form = 8 -> 127
Second(f) == [is |-> "length", masked |-> f.masked, code |-> Code(f)]
Ext(d) == [is |-> "ext", digit |-> d]
Mask(f) == [is |-> "mask", zero |-> f.zero]
DataByte(b, i) == [is |-> "data", byte |-> b, key |-> (i - 1) % 4]

WireByte ==
    {First(f) : f \in FrameRecord} \cup {Second(f) : f \in FrameRecord} \cup {Ext(d) : d \in Nat}
        \cup {Mask(f) : f \in FrameRecord} \cup {DataByte(b, i) : b \in Byte, i \in Nat}

\* The bytes of a frame after the first b bytes of w.
FrameAt(f, w, b) ==
    /\ w[b + 1] = First(f) /\ w[b + 2] = Second(f)
    /\ \A i \in 1..Extra(f) : w[b + 2 + i] = Ext(Digits(f)[i])
    /\ f.masked => \A i \in 1..4 : w[b + 2 + Extra(f) + i] = Mask(f)
    /\ \A i \in 1..Len(f.data) : w[b + HeadSize(f) + i] = DataByte(f.data[i], i)

\* A length is what its two bytes come to.
LEMMA TwoBytes ==
    ASSUME NEW l \in Nat
    PROVE  HighByte(l) \in Nat /\ LowByte(l) \in Nat /\ l = HighByte(l) * 256 + LowByte(l)
BY SMT DEF HighByte, LowByte

\* The digits of a length come to it, one after the other; a huge one to more than the limit.
LEMMA DigitsType ==
    ASSUME NEW f, WellFormed(f)
    PROVE  /\ Digits(f) \in Seq(Nat) /\ Len(Digits(f)) = Extra(f) /\ Extra(f) \in {0, 2, 8}
           /\ \A i \in 1..Extra(f) : Digits(f)[i] \in Nat /\ Value(f, i) = Value(f, i - 1) * 256 + Digits(f)[i]
           /\ Len(f.data) \in Nat /\ f.data \in Seq(Byte) /\ f.form \in {0, 2, 8}
           /\ ~f.huge => Value(f, Extra(f)) = Len(f.data)
           /\ f.huge => Value(f, Extra(f)) = HugeLength
           /\ \A i \in 0..Extra(f) : Value(f, i) \in Nat
<1>1. /\ f \in FrameRecord /\ Len(f.data) < (IF f.form = 0 THEN 126 ELSE 65536)
      /\ f.huge => f.form = 8 /\ f.data = <<>>
  BY DEF WellFormed
<1>2. f.data \in Seq(Byte) /\ f.form \in {0, 2, 8} /\ f.huge \in BOOLEAN
  BY <1>1 DEF FrameRecord
<1>3. Len(f.data) \in Nat
  BY <1>2, LenProperties
<1> DEFINE l == Len(f.data)
           hi == HighByte(l)
           lo == LowByte(l)
<1>a. hi \in Nat /\ lo \in Nat /\ l = hi * 256 + lo
  BY <1>3, TwoBytes
<1>4. CASE f.huge
  <2>1. Digits(f) = <<0, 0, 0, 0, 2, 0, 0, 1>> /\ Extra(f) = 8
    BY <1>4 DEF Digits, Extra
  <2>2. Digits(f) \in Seq(Nat) /\ Len(Digits(f)) = 8
    BY <2>1
  <2>3. \A i \in 1..8 : Digits(f)[i] \in Nat /\ Digits(f)[i] = IF i = 5 THEN 2 ELSE IF i = 8 THEN 1 ELSE 0
    BY <2>1
  <2>4. \A i \in 1..8 : Value(f, i) = Value(f, i - 1) * 256 + Digits(f)[i]
    <3> TAKE i \in 1..8
    <3>1. i \in {1, 2, 3, 4, 5, 6, 7, 8}
      OBVIOUS
    <3>2. Value(f, 0) = 0 /\ Value(f, 1) = 0 /\ Value(f, 2) = 0 /\ Value(f, 3) = 0 /\ Value(f, 4) = 0
          /\ Value(f, 5) = 2 /\ Value(f, 6) = 512 /\ Value(f, 7) = 131072 /\ Value(f, 8) = HugeLength
      BY <1>4 DEF Value
    <3>3. HugeLength = 131072 * 256 + 1
      BY SMT DEF HugeLength
    <3> QED BY <2>3, <3>1, <3>2, <3>3, SMT
  <2>5. \A i \in 0..8 : Value(f, i) \in Nat
    <3>1. HugeLength \in Nat
      BY SMT DEF HugeLength
    <3> QED BY <1>4, <3>1, SMT DEF Value
  <2>6. Value(f, 8) = HugeLength
    BY <1>4 DEF Value
  <2> QED BY <1>2, <1>3, <1>4, <2>1, <2>2, <2>3, <2>4, <2>5, <2>6
<1>5. CASE ~f.huge
  <2> DEFINE low(i) == IF i = f.form THEN lo ELSE IF i = f.form - 1 THEN hi ELSE 0
             upTo(i) == IF i = f.form THEN l ELSE IF i = f.form - 1 THEN hi ELSE 0
  <2>1. Extra(f) = f.form /\ f.form \in Nat
    BY <1>2, <1>5 DEF Extra
  <2>2. Digits(f) = [i \in 1..f.form |-> low(i)]
    BY <1>5 DEF Digits
  <2>3. \A i : Value(f, i) = upTo(i)
    BY <1>5 DEF Value
  <2> HIDE DEF l, hi, lo
  <2>4. \A i \in 1..f.form : low(i) \in Nat
    BY <1>a
  <2>5. \A i \in 0..f.form : upTo(i) \in Nat
    BY <1>3, <1>a DEF l
  <2>6. \A i \in 1..f.form : upTo(i) = upTo(i - 1) * 256 + low(i)
    <3> TAKE i \in 1..f.form
    <3>1. i \in Int /\ f.form \in Int
      BY <2>1
    <3> DEFINE n == f.form
    <3> HIDE DEF n
    <3>2. n \in Int
      BY <3>1 DEF n
    <3>3. (IF i = n THEN l ELSE IF i = n - 1 THEN hi ELSE 0)
             = (IF i - 1 = n THEN l ELSE IF i - 1 = n - 1 THEN hi ELSE 0) * 256
               + (IF i = n THEN lo ELSE IF i = n - 1 THEN hi ELSE 0) \/ i > n
      BY ONLY <1>a, <3>1, <3>2, SMT
    <3> QED BY <3>1, <3>3, SMT DEF n
  <2> HIDE DEF upTo
  <2>7. upTo(f.form) = l
    BY DEF upTo
  <2>8. Digits(f) \in Seq(Nat) /\ Len(Digits(f)) = f.form /\ \A i \in 1..f.form : Digits(f)[i] = low(i)
    <3> HIDE DEF low
    <3>1. Digits(f) \in Seq(Nat)
      BY ONLY <2>1, <2>2, <2>4, IsASeq
    <3> QED BY <2>1, <2>2, <3>1
  <2> HIDE DEF low
  <2> QED BY <1>2, <1>3, <1>5, <2>1, <2>3, <2>4, <2>5, <2>6, <2>7, <2>8, SMT DEF l
<1> QED BY <1>2, <1>4, <1>5

\* What a frame consists of is bytes of the connection.
LEMMA WireByteType ==
    ASSUME NEW f \in FrameRecord
    PROVE  /\ First(f) \in WireByte /\ Second(f) \in WireByte /\ Mask(f) \in WireByte
           /\ \A d \in Nat : Ext(d) \in WireByte
           /\ \A b \in Byte, i \in Nat : DataByte(b, i) \in WireByte
BY DEF WireByte

\* The bytes of a frame, one after the other.
LEMMA BytesType ==
    ASSUME NEW f, WellFormed(f)
    PROVE  /\ Bytes(f) \in Seq(WireByte) /\ Len(Bytes(f)) = HeadSize(f) + Len(f.data)
           /\ FrameAt(f, Bytes(f), 0)
<1> DEFINE m == IF f.masked THEN 4 ELSE 0
           x0 == <<First(f), Second(f)>>
           x1 == [i \in 1..Extra(f) |-> Ext(Digits(f)[i])]
           x2 == [i \in 1..m |-> Mask(f)]
           x3 == [i \in 1..Len(f.data) |-> DataByte(f.data[i], i)]
<1>1. /\ f \in FrameRecord /\ Len(f.data) \in Nat /\ f.data \in Seq(Byte) /\ Extra(f) \in {0, 2, 8}
      /\ Len(Digits(f)) = Extra(f) /\ \A i \in 1..Extra(f) : Digits(f)[i] \in Nat
  BY DigitsType DEF WellFormed
<1>2. Bytes(f) = ((x0 \o x1) \o x2) \o x3
  BY <1>1 DEF Bytes, First, Second, Ext, Mask, DataByte, Code
<1>3. x0 \in Seq(WireByte) /\ Len(x0) = 2 /\ x0[1] = First(f) /\ x0[2] = Second(f)
  <2>1. First(f) \in WireByte /\ Second(f) \in WireByte
    BY <1>1, WireByteType
  <2> QED BY <2>1
<1>4. x1 \in Seq(WireByte) /\ Len(x1) = Extra(f) /\ \A i \in 1..Extra(f) : x1[i] = Ext(Digits(f)[i])
  <2>1. Extra(f) \in Nat
    BY <1>1
  <2>2. \A i \in 1..Extra(f) : Ext(Digits(f)[i]) \in WireByte
    BY <1>1, WireByteType
  <2>3. x1 \in Seq(WireByte)
    BY <2>1, <2>2, IsASeq
  <2> QED BY <2>1, <2>3
<1>5. x2 \in Seq(WireByte) /\ Len(x2) = m /\ \A i \in 1..m : x2[i] = Mask(f)
  <2>1. m \in Nat
    OBVIOUS
  <2>2. \A i \in 1..m : Mask(f) \in WireByte
    BY <1>1, WireByteType
  <2> HIDE DEF m
  <2>3. x2 \in Seq(WireByte)
    BY <2>1, <2>2, IsASeq
  <2> QED BY <2>1, <2>3
<1>6. x3 \in Seq(WireByte) /\ Len(x3) = Len(f.data) /\ \A i \in 1..Len(f.data) : x3[i] = DataByte(f.data[i], i)
  <2>1. \A i \in 1..Len(f.data) : DataByte(f.data[i], i) \in WireByte
    <3> TAKE i \in 1..Len(f.data)
    <3>1. f.data[i] \in Byte /\ i \in Nat
      BY <1>1, ElementOfSeq
    <3> QED BY <1>1, <3>1, WireByteType
  <2>2. x3 \in Seq(WireByte)
    BY <1>1, <2>1, IsASeq
  <2> QED BY <1>1, <2>2
<1> HIDE DEF x0, x1, x2, x3
<1> DEFINE y == x0 \o x1
           z == y \o x2
           w == z \o x3
<1>7. y \in Seq(WireByte) /\ Len(y) = 2 + Extra(f)
      /\ \A i \in 1..(2 + Extra(f)) : y[i] = IF i <= 2 THEN x0[i] ELSE x1[i - 2]
  <2>1. /\ y \in Seq(WireByte) /\ Len(y) = Len(x0) + Len(x1)
        /\ \A i \in 1..(Len(x0) + Len(x1)) : y[i] = IF i <= Len(x0) THEN x0[i] ELSE x1[i - Len(x0)]
    BY <1>3, <1>4, ConcatProperties
  <2> HIDE DEF y
  <2> QED BY <1>3, <1>4, <2>1
<1> HIDE DEF y
<1>8. z \in Seq(WireByte) /\ Len(z) = (2 + Extra(f)) + m
      /\ \A i \in 1..((2 + Extra(f)) + m) : z[i] = IF i <= 2 + Extra(f) THEN y[i] ELSE x2[i - (2 + Extra(f))]
  <2>1. /\ z \in Seq(WireByte) /\ Len(z) = Len(y) + Len(x2)
        /\ \A i \in 1..(Len(y) + Len(x2)) : z[i] = IF i <= Len(y) THEN y[i] ELSE x2[i - Len(y)]
    BY <1>7, <1>5, ConcatProperties
  <2> HIDE DEF z
  <2> QED BY <1>7, <1>5, <2>1
<1> HIDE DEF z
<1>9. w \in Seq(WireByte) /\ Len(w) = ((2 + Extra(f)) + m) + Len(f.data)
      /\ \A i \in 1..(((2 + Extra(f)) + m) + Len(f.data)) :
            w[i] = IF i <= (2 + Extra(f)) + m THEN z[i] ELSE x3[i - ((2 + Extra(f)) + m)]
  <2>1. /\ w \in Seq(WireByte) /\ Len(w) = Len(z) + Len(x3)
        /\ \A i \in 1..(Len(z) + Len(x3)) : w[i] = IF i <= Len(z) THEN z[i] ELSE x3[i - Len(z)]
    <3>1. z \in Seq(WireByte) /\ x3 \in Seq(WireByte)
      BY <1>6, <1>8
    <3> QED BY <3>1, ConcatProperties
  <2> HIDE DEF w
  <2> QED BY <1>8, <1>6, <2>1
<1> HIDE DEF w
<1>10. m \in Nat /\ Extra(f) \in Nat /\ HeadSize(f) = (2 + Extra(f)) + m
  BY <1>1 DEF HeadSize
<1>11. \A i \in 1..((2 + Extra(f)) + m) : w[i] = z[i]
  BY <1>1, <1>9, <1>10
<1>12. \A i \in 1..(2 + Extra(f)) : w[i] = y[i]
  BY <1>1, <1>8, <1>10, <1>11
<1>13. w[0 + 1] = First(f) /\ w[0 + 2] = Second(f)
  BY <1>3, <1>7, <1>10, <1>12
<1>14. \A i \in 1..Extra(f) : w[0 + 2 + i] = Ext(Digits(f)[i])
  <2> TAKE i \in 1..Extra(f)
  <2>1. 2 + i \in 1..(2 + Extra(f)) /\ ~(2 + i <= 2) /\ (2 + i) - 2 = i /\ 0 + 2 + i = 2 + i
    BY <1>10
  <2>2. w[2 + i] = x1[i]
    BY <1>7, <1>12, <2>1
  <2> QED BY <1>4, <2>1, <2>2
<1>15. \A i \in 1..m : w[0 + 2 + Extra(f) + i] = Mask(f)
  <2> TAKE i \in 1..m
  <2> DEFINE p == (2 + Extra(f)) + i
  <2>1. p \in 1..((2 + Extra(f)) + m) /\ ~(p <= 2 + Extra(f)) /\ p - (2 + Extra(f)) = i /\ 0 + 2 + Extra(f) + i = p
    BY <1>10
  <2> HIDE DEF p
  <2>2. w[p] = x2[i]
    BY <1>8, <1>11, <2>1
  <2> QED BY <1>5, <2>1, <2>2
<1>16. \A i \in 1..Len(f.data) : w[0 + HeadSize(f) + i] = DataByte(f.data[i], i)
  <2> TAKE i \in 1..Len(f.data)
  <2> DEFINE p == ((2 + Extra(f)) + m) + i
  <2>1. p \in 1..(((2 + Extra(f)) + m) + Len(f.data)) /\ ~(p <= (2 + Extra(f)) + m)
        /\ p - ((2 + Extra(f)) + m) = i /\ 0 + HeadSize(f) + i = p
    BY <1>1, <1>10
  <2> HIDE DEF p
  <2>2. w[p] = x3[i]
    BY <1>9, <2>1
  <2> QED BY <1>6, <2>1, <2>2
<1>17. Bytes(f) = w
  BY <1>2 DEF w, z, y
<1>18. FrameAt(f, w, 0)
  BY <1>13, <1>14, <1>15, <1>16 DEF FrameAt
<1> QED BY <1>9, <1>10, <1>17, <1>18

\* A stream is joined frame by frame.
LEMMA WiresUnroll ==
    ASSUME NEW s \in Streams
    PROVE  /\ Len(s) \in Nat /\ Wires[s][0] = <<>>
           /\ \A k \in 0..Len(s) : Wires[s][k] \in Seq(WireByte)
           /\ \A k \in 1..Len(s) : /\ WellFormed(s[k]) /\ s[k] \in FrameRecord
                                   /\ Wires[s][k] = Wires[s][k - 1] \o Bytes(s[k])
<1> DEFINE n == Len(s)
           V == Seq(WireByte)
           G == [p \in Nat \X V |-> IF p[1] \in 1..n THEN p[2] \o Bytes(s[p[1]]) ELSE p[2]]
           Joins(u) == u = [i \in 0..n |-> IF i = 0 THEN <<>> ELSE u[i - 1] \o Bytes(s[i])]
           w == Wires[s]
<1>1. n \in Nat /\ \A k \in 1..n : WellFormed(s[k]) /\ s[k] \in FrameRecord /\ Bytes(s[k]) \in V
  <2>1. s \in Seq(FrameRecord) /\ \A k \in 1..Len(s) : WellFormed(s[k])
    BY WsFramesAssumption
  <2> QED BY <2>1, LenProperties, ElementOfSeq, BytesType
<1> HIDE DEF n
<1>2. G \in [Nat \X V -> V]
  <2>1. ASSUME NEW k \in Nat, NEW v \in V, k \in 1..n PROVE v \o Bytes(s[k]) \in V
    BY <1>1, <2>1, ConcatProperties
  <2> QED BY <2>1
<1>3. PICK f : Unrolls(V, <<>>, G, n, f)
  <2>1. <<>> \in V
    OBVIOUS
  <2> HIDE DEF G, V
  <2> QED BY <1>1, <1>2, <2>1, RecursionExists
<1>4. f \in [0..n -> V] /\ f[0] = <<>> /\ \A j \in 1..n : f[j] = G[<<j, f[j - 1]>>]
  BY <1>3 DEF Unrolls
<1>5. \A j \in 1..n : f[j] = f[j - 1] \o Bytes(s[j])
  <2> TAKE j \in 1..n
  <2>1. j \in Nat /\ j - 1 \in 0..n
    BY <1>1
  <2>2. <<j, f[j - 1]>> \in Nat \X V
    BY <1>4, <2>1
  <2> QED BY <1>4, <2>2
<1>6. Joins(f)
  <2>1. f = [i \in 0..n |-> f[i]]
    BY <1>4
  <2>2. \A i \in 0..n : f[i] = IF i = 0 THEN <<>> ELSE f[i - 1] \o Bytes(s[i])
    <3> TAKE i \in 0..n
    <3>1. CASE i = 0
      BY <1>4, <3>1
    <3>2. CASE i # 0
      <4>1. i \in 1..n
        BY <1>1, <3>2
      <4> QED BY <1>5, <3>2, <4>1
    <3> QED BY <3>1, <3>2
  <2> QED BY <2>1, <2>2
<1>7. w = CHOOSE u : Joins(u)
  BY DEF Wires, n
<1>8. Joins(w)
  <2> HIDE DEF Joins, w
  <2> QED BY <1>6, <1>7
<1> HIDE DEF w
<1>9. w[0] = <<>> /\ \A k \in 1..n : w[k] = w[k - 1] \o Bytes(s[k])
  <2>1. w = [i \in 0..n |-> IF i = 0 THEN <<>> ELSE w[i - 1] \o Bytes(s[i])]
    BY <1>8
  <2>2. 0 \in 0..n /\ \A k \in 1..n : k \in 0..n /\ k # 0
    BY <1>1
  <2>3. w[0] = <<>>
    BY <2>1, <2>2
  <2>4. \A k \in 1..n : w[k] = w[k - 1] \o Bytes(s[k])
    BY <2>1, <2>2
  <2> QED BY <2>3, <2>4
<1> DEFINE T == {k \in Nat : k <= n => w[k] \in V}
<1>10. 0 \in T
  <2>1. <<>> \in V
    OBVIOUS
  <2> HIDE DEF V
  <2> QED BY <1>9, <2>1
<1>11. ASSUME NEW k \in Nat, k \in T PROVE k + 1 \in T
  <2> SUFFICES ASSUME k + 1 <= n PROVE w[k + 1] \in V
    OBVIOUS
  <2>1. k + 1 \in 1..n /\ (k + 1) - 1 = k /\ k <= n
    BY <1>1
  <2>2. w[k] \in V /\ w[k + 1] = w[k] \o Bytes(s[k + 1])
    BY <1>9, <1>11, <2>1
  <2> QED BY <1>1, <2>1, <2>2, ConcatProperties
<1> HIDE DEF T
<1>12. Nat \subseteq T
  BY <1>10, <1>11, NumberInduction
<1>13. \A k \in 0..n : w[k] \in V
  BY <1>1, <1>12 DEF T
<1> QED BY <1>1, <1>9, <1>13 DEF n, w

\* Frame k begins after the frames before it, and its bytes are in the stream.
LEMMA FrameOnWire ==
    ASSUME NEW s \in Streams, NEW k \in 1..Len(s)
    PROVE  /\ Len(Wires[s][k - 1]) \in Nat /\ Len(Wires[s][k]) \in Nat
           /\ Len(Wires[s][k]) = Len(Wires[s][k - 1]) + (HeadSize(s[k]) + Len(s[k].data))
           /\ Len(Wires[s][k]) <= Len(Wires[s][Len(s)])
           /\ FrameAt(s[k], Wires[s][Len(s)], Len(Wires[s][k - 1]))
<1> DEFINE n == Len(s)
           w == Wires[s]
           f == s[k]
           b == Len(w[k - 1])
           x == Bytes(f)
           Holds(j) == Len(w[k]) <= Len(w[j]) /\ \A i \in 1..Len(w[k]) : w[j][i] = w[k][i]
           T == {j \in Nat : k + j <= n => Holds(k + j)}
<1>1. /\ n \in Nat /\ k \in Nat /\ k <= n /\ 1 <= k
      /\ \A j \in 0..n : w[j] \in Seq(WireByte)
      /\ \A j \in 1..n : w[j] = w[j - 1] \o Bytes(s[j]) /\ Bytes(s[j]) \in Seq(WireByte)
      /\ WellFormed(f)
  <2>1. n \in Nat /\ \A j \in 0..n : w[j] \in Seq(WireByte)
    BY WiresUnroll
  <2>2. \A j \in 1..n : WellFormed(s[j]) /\ w[j] = w[j - 1] \o Bytes(s[j])
    BY WiresUnroll
  <2>3. \A j \in 1..n : Bytes(s[j]) \in Seq(WireByte)
    BY <2>2, BytesType
  <2>4. k \in Nat /\ k <= n /\ 1 <= k
    BY <2>1
  <2> HIDE DEF w, n
  <2> QED BY <2>1, <2>2, <2>3, <2>4 DEF n
<1> HIDE DEF w, n
<1>2. \A j \in 0..n : Len(w[j]) \in Nat
  BY <1>1, LenProperties
<1>3. x \in Seq(WireByte) /\ Len(x) = HeadSize(f) + Len(f.data) /\ FrameAt(f, x, 0) /\ Len(x) \in Nat
  BY <1>1, BytesType, LenProperties
<1>4. /\ Len(w[k]) = b + Len(x) /\ b \in Nat
      /\ \A i \in 1..Len(x) : w[k][b + i] = x[i]
  <2>1. w[k - 1] \in Seq(WireByte) /\ k \in 1..n /\ k - 1 \in 0..n
    BY <1>1
  <2>2. w[k] = w[k - 1] \o x
    BY <1>1, <2>1
  <2> DEFINE v == w[k - 1]
  <2> HIDE DEF x
  <2>3. v \in Seq(WireByte) /\ Len(v) \in Nat
    BY <2>1, LenProperties
  <2> HIDE DEF v
  <2>4. /\ Len(v \o x) = Len(v) + Len(x)
        /\ \A i \in 1..(Len(v) + Len(x)) : (v \o x)[i] = IF i <= Len(v) THEN v[i] ELSE x[i - Len(v)]
    BY <1>3, <2>3, ConcatProperties
  <2>5. \A i \in 1..Len(x) : (v \o x)[Len(v) + i] = x[i]
    <3> TAKE i \in 1..Len(x)
    <3>1. Len(v) + i \in 1..(Len(v) + Len(x)) /\ ~(Len(v) + i <= Len(v)) /\ (Len(v) + i) - Len(v) = i
      BY <1>3, <2>3
    <3> QED BY <2>4, <3>1
  <2> QED BY <2>2, <2>3, <2>4, <2>5 DEF v
<1>5. 0 \in T
  BY <1>1, <1>2
<1>6. ASSUME NEW j \in Nat, j \in T PROVE j + 1 \in T
  <2> SUFFICES ASSUME k + (j + 1) <= n PROVE Holds(k + (j + 1))
    OBVIOUS
  <2> DEFINE q == k + (j + 1)
             v == w[k + j]
             y == Bytes(s[q])
  <2>1. q \in 1..n /\ q - 1 = k + j /\ k + j \in 0..n /\ k + j <= n /\ k \in 0..n
    BY <1>1
  <2>2. w[q] = v \o y /\ v \in Seq(WireByte) /\ y \in Seq(WireByte)
    BY <1>1, <2>1
  <2>3. Len(w[k]) <= Len(v) /\ \A i \in 1..Len(w[k]) : v[i] = w[k][i]
    BY <1>6, <2>1
  <2>4. Len(v) \in Nat /\ Len(y) \in Nat /\ Len(w[k]) \in Nat
    BY <1>2, <2>1, <2>2, LenProperties
  <2> HIDE DEF q, v, y
  <2>5. /\ Len(v \o y) = Len(v) + Len(y)
        /\ \A i \in 1..(Len(v) + Len(y)) : (v \o y)[i] = IF i <= Len(v) THEN v[i] ELSE y[i - Len(v)]
    BY <2>2, ConcatProperties
  <2>6. Holds(q)
    <3>1. Len(w[k]) <= Len(w[q])
      BY <2>2, <2>3, <2>4, <2>5
    <3>2. \A i \in 1..Len(w[k]) : w[q][i] = w[k][i]
      <4> TAKE i \in 1..Len(w[k])
      <4>1. i \in 1..(Len(v) + Len(y)) /\ i <= Len(v)
        BY <2>3, <2>4
      <4> QED BY <2>2, <2>3, <2>5, <4>1
    <3> QED BY <3>1, <3>2
  <2> QED BY <2>6 DEF q
<1> HIDE DEF T
<1>7. n - k \in T
  <2>1. Nat \subseteq T
    BY <1>5, <1>6, NumberInduction
  <2> QED BY <1>1, <2>1
<1>8. Holds(n)
  <2>1. n - k \in Nat /\ k + (n - k) = n /\ k + (n - k) <= n
    BY <1>1
  <2>2. Holds(k + (n - k))
    BY <1>7, <2>1 DEF T
  <2> QED BY <2>1, <2>2
<1>9. \A i \in 1..Len(x) : w[n][b + i] = x[i]
  <2> TAKE i \in 1..Len(x)
  <2>1. b + i \in 1..Len(w[k])
    BY <1>3, <1>4
  <2> QED BY <1>4, <1>8, <2>1
<1>10. FrameAt(f, w[n], b)
  <2> DEFINE u == w[n]
  <2> HIDE DEF u, b, x, f
  <2>1. /\ x[0 + 1] = First(f) /\ x[0 + 2] = Second(f)
        /\ \A i \in 1..Extra(f) : x[0 + 2 + i] = Ext(Digits(f)[i])
        /\ f.masked => \A i \in 1..4 : x[0 + 2 + Extra(f) + i] = Mask(f)
        /\ \A i \in 1..Len(f.data) : x[0 + HeadSize(f) + i] = DataByte(f.data[i], i)
    BY <1>3 DEF FrameAt
  <2>2. Extra(f) \in Nat /\ Len(f.data) \in Nat /\ HeadSize(f) \in Nat /\ Len(x) = HeadSize(f) + Len(f.data)
        /\ HeadSize(f) >= 2 + Extra(f) /\ (f.masked => HeadSize(f) = 2 + Extra(f) + 4)
    BY <1>1, <1>3, DigitsType DEF HeadSize
  <2>3. \A i \in 1..Len(x) : u[b + i] = x[i]
    BY <1>9 DEF u
  <2>4. b \in Nat
    BY <1>4
  <2>5. u[b + 1] = First(f) /\ u[b + 2] = Second(f)
    BY <2>1, <2>2, <2>3
  <2>6. \A i \in 1..Extra(f) : u[b + 2 + i] = Ext(Digits(f)[i])
    <3> TAKE i \in 1..Extra(f)
    <3>1. 2 + i \in 1..Len(x) /\ b + 2 + i = b + (2 + i) /\ 0 + 2 + i = 2 + i
      BY <2>2, <2>4
    <3> QED BY <2>1, <2>3, <3>1
  <2>7. f.masked => \A i \in 1..4 : u[b + 2 + Extra(f) + i] = Mask(f)
    <3> SUFFICES ASSUME f.masked, NEW i \in 1..4 PROVE u[b + 2 + Extra(f) + i] = Mask(f)
      OBVIOUS
    <3> DEFINE p == 2 + Extra(f) + i
    <3>0. HeadSize(f) = 2 + Extra(f) + 4
      BY <2>2
    <3>1. p \in 1..Len(x) /\ b + 2 + Extra(f) + i = b + p /\ 0 + 2 + Extra(f) + i = p
      <4>1. Extra(f) \in Nat /\ Len(f.data) \in Nat /\ Len(x) = HeadSize(f) + Len(f.data) /\ b \in Nat
        BY <2>2, <2>4
      <4> DEFINE e == Extra(f)
                 h == HeadSize(f)
                 d == Len(f.data)
                 l == Len(x)
      <4>2. e \in Nat /\ d \in Nat /\ h = 2 + e + 4 /\ l = h + d /\ b \in Nat
        BY <3>0, <4>1
      <4> HIDE DEF e, h, d, l
      <4>3. 2 + e + i \in 1..l
        BY <4>2
      <4>4. b + 2 + e + i = b + (2 + e + i) /\ 0 + 2 + e + i = 2 + e + i
        BY <4>2
      <4> QED BY <4>3, <4>4 DEF e, l
    <3> HIDE DEF p
    <3> QED BY <2>1, <2>3, <3>1
  <2>8. \A i \in 1..Len(f.data) : u[b + HeadSize(f) + i] = DataByte(f.data[i], i)
    <3> TAKE i \in 1..Len(f.data)
    <3> DEFINE p == HeadSize(f) + i
    <3>1. p \in 1..Len(x) /\ b + HeadSize(f) + i = b + p /\ 0 + HeadSize(f) + i = p
      BY <2>2, <2>4
    <3> HIDE DEF p
    <3> QED BY <2>1, <2>3, <3>1
  <2> QED BY <2>5, <2>6, <2>7, <2>8 DEF FrameAt, u
<1> QED BY <1>2, <1>3, <1>4, <1>8, <1>10, <1>1 DEF n, w

---------------------------------------------------------------------------
(* The inductive invariant.                                                *)

\* The types of the state of the decoder and of the frames it fills.
Utf8States == {"S0", "T1", "T2", "T3", "S1", "S2", "S3", "S4", "ER"}

Framings == {"START", "PAYLOAD_LENGTH", "PAYLOAD_LENGTH_EXT", "MASK", "APPLICATION_DATA", "CLOSE"}
Statuses == {"OK", "PROTOCOL_ERROR", "TOO_LARGE", "INTERNAL_ERROR", "INVALID_UTF8"}
StateRecord ==
    [framing : Framings, fin : BOOLEAN, opcode : 0..255, length : Nat, ext : 0..8, masking : BOOLEAN,
     index : 0..3, offset : Nat, frame : {"control", "message"}, status : Statuses]
FrameState == [opcode : 0..15, fin : BOOLEAN, utf8 : Utf8States, data : Seq(Byte)]
BothFrames == [control : FrameState, message : FrameState]

\* Where frame k of the stream ends, and what was said up to there.
EndOf(k) == Len(Wires[stream][k])
Conv(k) == Meanings[stream][k]

\* In state s, after d bytes, the decoder is in frame k + 1 of the stream, at the
\* byte the state says.
InFrame(k, s, d) ==
    LET f == stream[k + 1]
    IN  /\ s.framing # "MASK" => s.index = 0
        /\ s.framing = "START" => d = EndOf(k)
        /\ s.framing # "START" => k < Len(stream)
        /\ s.framing = "PAYLOAD_LENGTH" => d = EndOf(k) + 1
        /\ s.framing = "PAYLOAD_LENGTH_EXT" =>
              /\ f.masked /\ s.ext <= Extra(f) /\ (s.ext = 0 => Extra(f) = 0)
              /\ d = EndOf(k) + 2 + (Extra(f) - s.ext)
              /\ s.length = Value(f, Extra(f) - s.ext)
        /\ s.framing = "MASK" =>
              /\ f.masked /\ ~f.huge /\ s.length = Len(f.data)
              /\ d = EndOf(k) + 2 + Extra(f) + s.index
        /\ s.framing = "APPLICATION_DATA" =>
              /\ f.masked /\ ~f.huge /\ s.length + s.offset = Len(f.data)
              /\ d = EndOf(k) + HeadSize(f) + s.offset

\* NGINX and IIS have read the head of this frame, and remaining_length (r) is what is
\* left of it after t bytes.
FrameRead(k, s, d, t, r) ==
    LET f == stream[k + 1]
    IN  /\ s.framing = "START" /\ t = d => r = 0
        /\ s.framing # "START" \/ t > d =>
              /\ ~f.masked => t >= EndOf(k) + 2
              /\ f.masked /\ f.huge => t >= EndOf(k) + HeadSize(f) - 4
              /\ f.masked /\ ~f.huge => t >= EndOf(k) + HeadSize(f) /\ t + r = EndOf(k + 1)

Decoding(k, s, d, t, r) == InFrame(k, s, d) /\ (host # "apache" => FrameRead(k, s, d, t, r))

\* A session that is to be closed has dropped its block; another is in a frame.
Goes(k, s, d, t, r) ==
    /\ s \in StateRecord /\ d \in 0..t
    /\ IF s.framing = "CLOSE" THEN d = t /\ EndOf(k) <= t ELSE Decoding(k, s, d, t, r)

\* message_frame (m) has what there is of a message that is not complete.
HoldsPart(c, m) ==
    /\ m.fin = ~c.inside
    /\ m.data = c.part
    /\ c.inside => m.opcode = c.op /\ (c.op = Text => m.utf8 = Utf8After("S0", c.part))

\* What has been decoded of the payload of a frame.
PayloadOf(f, s) == IF s.framing = "APPLICATION_DATA" THEN SubSeq(f.data, 1, s.offset) ELSE <<>>

\* In the middle of frame f, in conversation c.
MidFrame(f, c, s, fr) ==
    /\ ~f.rsv /\ s.fin = f.fin
    /\ s.opcode = IF f.op = 0 THEN c.op ELSE f.op
    /\ s.frame = IF f.op >= 8 THEN "control" ELSE "message"
    /\ f.op >= 8 =>
          /\ f.fin /\ (s.framing # "PAYLOAD_LENGTH" => Extra(f) = 0)
          /\ HoldsPart(c, fr.message) /\ fr.control.data = PayloadOf(f, s)
    /\ f.op < 8 =>
          /\ c.inside = (f.op = 0)
          /\ fr.control.data = <<>>
          /\ fr.message.fin = f.fin /\ fr.message.opcode = s.opcode
          /\ fr.message.data = c.part \o PayloadOf(f, s)
          /\ s.opcode = Text => fr.message.utf8 = Utf8After("S0", fr.message.data)

\* The decoder, between two frames or in one, has understood what was said.
Understands(k, s, fr) ==
    /\ Conv(k).on
    /\ s.framing = "START" => HoldsPart(Conv(k), fr.message) /\ fr.control.data = <<>>
    /\ s.framing # "START" => MidFrame(stream[k + 1], Conv(k), s, fr)

\* No message is completed any more by what arrives after frame k.
Settled(k) ==
    \A j \in 0..Len(stream) : k <= j /\ EndOf(j) <= arrived => Conv(j).messages = Conv(k).messages

\* The decoder goes on, or has ended with all of the messages, unless it failed itself.
Stays(k, s, d, t, r, fr) ==
    /\ s.framing # "CLOSE" /\ k \in 0..Len(stream)
    /\ Goes(k, s, d, t, r) /\ fr \in BothFrames /\ Understands(k, s, fr)
Ends(k, s, d, t, r, fr) ==
    /\ s.framing = "CLOSE" /\ k \in 0..Len(stream)
    /\ Goes(k, s, d, t, r) /\ fr \in BothFrames
    /\ s.status # "INTERNAL_ERROR" => Settled(k)
DecoderAt(k, s, d, t, r, fr) == Stays(k, s, d, t, r, fr) \/ Ends(k, s, d, t, r, fr)

\* h is a beginning of m, or all of it.
Follows(h, m, all) ==
    /\ h \in Seq(Seq(Byte)) /\ Len(h) <= Len(m) /\ \A i \in 1..Len(h) : h[i] = m[i]
    /\ all => h = m

\* The DB Server has heard the messages up to frame k, or some of them if it is gone.
HeardUpTo(k) == Follows(heard, Conv(k).messages, dbUp)

\* The PONG about to be sent, and those the client has been sent.
Pending == IF out.type = "PONG" /\ out.data # <<>> THEN <<out.data>> ELSE <<>>
InWrite == framer \in {"header", "payload"} /\ out.type = "PONG" /\ out.data # <<>>
PongsUpTo(k) ==
    /\ Follows(pongs, Conv(k).pings, FALSE)
    /\ ~left /\ (~closing \/ InWrite) => Conv(k).pings = pongs \o Pending

\* Up to some frame everything was decoded, heard and answered.
Understood ==
    \E k \in 0..Len(stream) :
        /\ DecoderAt(k, state, decoded, taken, remaining_length, frames)
        /\ HeardUpTo(k) /\ PongsUpTo(k)

ClientTyped ==
    /\ host \in Hosts /\ stream \in Streams /\ left \in BOOLEAN
    /\ arrived \in 0..EndOf(Len(stream)) /\ taken \in 0..arrived /\ remaining_length \in Nat

SessionTyped ==
    /\ framer \in FramerStages /\ reader \in ReaderStages
    /\ closing \in BOOLEAN /\ connected \in BOOLEAN
    /\ pipe \in {"none", "open", "exit", "closed"}
    /\ dbUp \in BOOLEAN /\ sent \in 0..MaxSent /\ unread \in 0..sent

\* Where the thread of the request is fits where the decoder is: a block is read
\* when the last one has been used up and does not end the session.
Staged ==
    /\ out.data \in Seq(Byte)
    /\ framer \notin {"check", "header", "payload"} => out = NoFrame
    /\ framer = "payload" => out.data # <<>>
    /\ ~Over /\ dbUp => connected
    /\ framer = "start" => state.framing = "START" /\ decoded = taken /\ reader = "none"
    /\ framer = "read" => /\ state.framing # "CLOSE" /\ decoded = taken
                          /\ ~(state.framing = "APPLICATION_DATA" /\ state.length = 0)
    /\ Over /\ reader # "none" => state.framing = "CLOSE"

SessionInv == ClientTyped /\ SessionTyped /\ Staged /\ Understood

---------------------------------------------------------------------------
(* The frame that the decoder is in, and the states it is given. *)

\* Frame k + 1 of this stream and its bytes.
LEMMA NextFrame ==
    ASSUME stream \in Streams, NEW k \in Nat, k < Len(stream)
    PROVE  LET f == stream[k + 1]
               b == EndOf(k)
           IN  /\ WellFormed(f) /\ b \in Nat /\ EndOf(k + 1) \in Nat
               /\ EndOf(k + 1) = b + (HeadSize(f) + Len(f.data)) /\ EndOf(k + 1) <= EndOf(Len(stream))
               /\ Wire(b + 1) = First(f) /\ Wire(b + 2) = Second(f)
               /\ \A i \in 1..Extra(f) : Wire(b + 2 + i) = Ext(Digits(f)[i])
               /\ f.masked => \A i \in 1..4 : Wire(b + 2 + Extra(f) + i) = Mask(f)
               /\ \A i \in 1..Len(f.data) : Wire(b + HeadSize(f) + i) = DataByte(f.data[i], i)
<1> DEFINE q == k + 1
<1>1. q \in 1..Len(stream) /\ q - 1 = k
  BY WiresUnroll
<1> HIDE DEF q
<1>2. WellFormed(stream[q])
  BY <1>1, WiresUnroll
<1>3. /\ Len(Wires[stream][q - 1]) \in Nat /\ Len(Wires[stream][q]) \in Nat
      /\ Len(Wires[stream][q]) = Len(Wires[stream][q - 1]) + (HeadSize(stream[q]) + Len(stream[q].data))
      /\ Len(Wires[stream][q]) <= Len(Wires[stream][Len(stream)])
      /\ FrameAt(stream[q], Wires[stream][Len(stream)], Len(Wires[stream][q - 1]))
  BY <1>1, FrameOnWire
<1> QED BY <1>1, <1>2, <1>3 DEF FrameAt, EndOf, Wire, q

\* What the model reads of its bytes.
LEMMA FrameFields ==
    ASSUME NEW f, WellFormed(f)
    PROVE  /\ f \in FrameRecord /\ f.masked \in BOOLEAN /\ f.huge \in BOOLEAN /\ f.fin \in BOOLEAN
           /\ f.rsv \in BOOLEAN /\ f.zero \in BOOLEAN /\ f.op \in 0..15
           /\ Len(f.data) \in Nat /\ f.data \in Seq(Byte) /\ Extra(f) \in {0, 2, 8} /\ HeadSize(f) \in Nat
           /\ HeadSize(f) = IF f.masked THEN Extra(f) + 6 ELSE Extra(f) + 2
           /\ First(f).is = "first" /\ First(f).fin = f.fin /\ First(f).rsv = f.rsv /\ First(f).op = f.op
           /\ Second(f).is = "length" /\ Second(f).masked = f.masked /\ Second(f).code = Code(f)
           /\ ExtSize(Code(f)) = Extra(f) /\ Code(f) \in Nat /\ (Extra(f) = 0 => Code(f) = Len(f.data) /\ ~f.huge)
           /\ (Code(f) = 126 <=> Extra(f) = 2) /\ (Code(f) = 127 <=> Extra(f) = 8)
           /\ Mask(f).is = "mask" /\ Mask(f).zero = f.zero
           /\ \A d : Ext(d).is = "ext" /\ Ext(d).digit = d
           /\ \A b, i : DataByte(b, i).is = "data" /\ DataByte(b, i).byte = b /\ DataByte(b, i).key = (i - 1) % 4
<1>1. /\ f \in FrameRecord /\ Len(f.data) < (IF f.form = 0 THEN 126 ELSE 65536)
      /\ f.huge => f.form = 8 /\ f.data = <<>>
  BY DEF WellFormed
<1>2. /\ f.masked \in BOOLEAN /\ f.huge \in BOOLEAN /\ f.fin \in BOOLEAN /\ f.rsv \in BOOLEAN /\ f.zero \in BOOLEAN
      /\ f.op \in 0..15 /\ f.form \in {0, 2, 8}
  BY <1>1 DEF FrameRecord
<1>3. Len(f.data) \in Nat /\ f.data \in Seq(Byte) /\ Extra(f) \in {0, 2, 8}
  BY DigitsType
<1>4. HeadSize(f) \in Nat /\ HeadSize(f) = IF f.masked THEN Extra(f) + 6 ELSE Extra(f) + 2
  BY <1>2, <1>3 DEF HeadSize
<1>5. Extra(f) = f.form
  BY <1>1, <1>2 DEF Extra
<1>6. /\ Code(f) = IF f.form = 0 THEN Len(f.data) ELSE IF f.form = 2 THEN 126 ELSE 127
      /\ f.form = 0 => Len(f.data) < 126 /\ ~f.huge
  BY <1>1, <1>2, SMT DEF Code
<1>7. /\ ExtSize(Code(f)) = Extra(f) /\ Code(f) \in Nat /\ (Extra(f) = 0 => Code(f) = Len(f.data) /\ ~f.huge)
      /\ (Code(f) = 126 <=> Extra(f) = 2) /\ (Code(f) = 127 <=> Extra(f) = 8)
  <2> DEFINE c == Code(f)
             e == Extra(f)
  <2>1. ExtSize(c) = IF c = 126 THEN 2 ELSE IF c = 127 THEN 8 ELSE 0
    <3> HIDE DEF c
    <3> QED BY SMT DEF ExtSize
  <2>2. /\ e = f.form /\ f.form \in {0, 2, 8} /\ Len(f.data) \in Nat
        /\ c = IF f.form = 0 THEN Len(f.data) ELSE IF f.form = 2 THEN 126 ELSE 127
        /\ f.form = 0 => Len(f.data) < 126 /\ ~f.huge
    BY <1>2, <1>3, <1>5, <1>6
  <2> HIDE DEF c, e
  <2>3. /\ ExtSize(c) = e /\ c \in Nat /\ (e = 0 => c = Len(f.data))
        /\ (c = 126 <=> e = 2) /\ (c = 127 <=> e = 8)
    <3> DEFINE l == Len(f.data)
               x == ExtSize(c)
               g == f.form
    <3>1. l \in Nat /\ e = g /\ g \in {0, 2, 8} /\ x = (IF c = 126 THEN 2 ELSE IF c = 127 THEN 8 ELSE 0)
          /\ c = (IF g = 0 THEN l ELSE IF g = 2 THEN 126 ELSE 127) /\ (g = 0 => l < 126)
      BY <2>1, <2>2
    <3> HIDE DEF l, x, g
    <3>2. x = e /\ c \in Nat /\ (e = 0 => c = l) /\ (c = 126 <=> e = 2) /\ (c = 127 <=> e = 8)
      BY <3>1, SMT
    <3> QED BY <3>2 DEF l, x
  <2>4. e = 0 => ~f.huge
    BY <2>2
  <2> QED BY <2>3, <2>4 DEF c, e
<1>8. First(f).is = "first" /\ First(f).fin = f.fin /\ First(f).rsv = f.rsv /\ First(f).op = f.op
  BY DEF First
<1>9. Second(f).is = "length" /\ Second(f).masked = f.masked /\ Second(f).code = Code(f)
  BY DEF Second
<1>10. Mask(f).is = "mask" /\ Mask(f).zero = f.zero
  BY DEF Mask
<1>11. \A d : Ext(d).is = "ext" /\ Ext(d).digit = d
  BY DEF Ext
<1>12. \A b, i : DataByte(b, i).is = "data" /\ DataByte(b, i).byte = b /\ DataByte(b, i).key = (i - 1) % 4
  BY DEF DataByte
<1> QED BY <1>1, <1>2, <1>3, <1>4, <1>7, <1>8, <1>9, <1>10, <1>11, <1>12

\* A decoder that has closed the connection.
LEMMA ClosedRecord ==
    ASSUME NEW s \in StateRecord,
           NEW why \in Statuses
    PROVE  CloseFrom(s, why) \in StateRecord /\ CloseFrom(s, why).framing = "CLOSE"
<1>1. "CLOSE" \in Framings
  BY DEF Framings
<1> QED BY <1>1 DEF CloseFrom, StateRecord

---------------------------------------------------------------------------
(* UTF-8: what validate_utf8 accepts is what RFC 3629 calls UTF-8.         *)

\* The states of validate_utf8 along b, beginning with s.
Runs(h, s, b) ==
    h \in [0..Len(b) -> Utf8States] /\ h[0] = s /\ \A j \in 1..Len(b) : h[j] = Utf8(h[j - 1], b[j])

\* The states of validate_utf8.
LEMMA Utf8Type ==
    ASSUME NEW s, NEW c
    PROVE  Utf8(s, c) \in Utf8States
BY Zenon DEF Utf8, Utf8States

\* Utf8After has a state for every byte that it has read.
LEMMA RunExists ==
    ASSUME NEW s \in Utf8States, NEW b \in Seq(Byte)
    PROVE  \E h : Runs(h, s, b) /\ Utf8After(s, b) = h[Len(b)]
<1> DEFINE n == Len(b)
           G == [p \in Nat \X Utf8States |-> Utf8(p[2], b[p[1]])]
           Is(u) == u = [i \in 0..n |-> IF i = 0 THEN s ELSE Utf8(u[i - 1], b[i])]
           w == CHOOSE u : Is(u)
<1>1. n \in Nat
  BY LenProperties
<1> HIDE DEF n
<1>2. G \in [Nat \X Utf8States -> Utf8States]
  BY Utf8Type
<1>3. PICK f : Unrolls(Utf8States, s, G, n, f)
  <2> HIDE DEF G
  <2> QED BY <1>1, <1>2, RecursionExists
<1>4. f \in [0..n -> Utf8States] /\ f[0] = s /\ \A j \in 1..n : f[j] = G[<<j, f[j - 1]>>]
  BY <1>3 DEF Unrolls
<1>5. \A j \in 1..n : f[j] = Utf8(f[j - 1], b[j])
  <2> TAKE j \in 1..n
  <2>1. j \in Nat /\ j - 1 \in 0..n
    BY <1>1
  <2>2. <<j, f[j - 1]>> \in Nat \X Utf8States
    BY <1>4, <2>1
  <2> QED BY <1>4, <2>2
<1>6. Is(f)
  <2>1. f = [i \in 0..n |-> f[i]]
    BY <1>4
  <2>2. \A i \in 0..n : f[i] = IF i = 0 THEN s ELSE Utf8(f[i - 1], b[i])
    <3> TAKE i \in 0..n
    <3>1. CASE i = 0
      BY <1>4, <3>1
    <3>2. CASE i # 0
      <4>1. i \in 1..n
        BY <1>1, <3>2
      <4> QED BY <1>5, <3>2, <4>1
    <3> QED BY <3>1, <3>2
  <2> QED BY <2>1, <2>2
<1>7. Utf8After(s, b) = w[n]
  BY DEF Utf8After, n
<1>8. Is(w)
  <2> HIDE DEF Is
  <2> QED BY <1>6
<1> HIDE DEF w
<1>9. w = [i \in 0..n |-> IF i = 0 THEN s ELSE Utf8(w[i - 1], b[i])]
  BY <1>8
<1>10. w[0] = s /\ \A j \in 1..n : w[j] = Utf8(w[j - 1], b[j])
  <2>1. 0 \in 0..n /\ \A k \in 1..n : k \in 0..n /\ k # 0
    BY <1>1
  <2> QED BY <1>9, <2>1
<1>11. w \in [0..n -> Utf8States]
  <2>1. \A i \in 0..n : w[i] \in Utf8States
    <3> TAKE i \in 0..n
    <3>1. CASE i = 0
      BY <1>10, <3>1
    <3>2. CASE i # 0
      <4>1. i \in 1..n
        BY <1>1, <3>2
      <4> QED BY <1>10, <4>1, Utf8Type
    <3> QED BY <3>1, <3>2
  <2>2. w = [i \in 0..n |-> w[i]]
    BY <1>9
  <2> QED BY <2>1, <2>2
<1>12. Runs(w, s, b)
  BY <1>10, <1>11 DEF Runs, n
<1> QED BY <1>7, <1>12 DEF n

\* There is one such run.
LEMMA RunIs ==
    ASSUME NEW s \in Utf8States, NEW b \in Seq(Byte), NEW h, Runs(h, s, b)
    PROVE  Utf8After(s, b) = h[Len(b)] /\ Utf8After(s, b) \in Utf8States
<1>1. PICK g : Runs(g, s, b) /\ Utf8After(s, b) = g[Len(b)]
  BY RunExists
<1> DEFINE n == Len(b)
           T == {j \in Nat : j <= n => g[j] = h[j]}
<1>2. n \in Nat
  BY LenProperties
<1>3. /\ g[0] = s /\ h[0] = s /\ g \in [0..n -> Utf8States]
      /\ \A j \in 1..n : g[j] = Utf8(g[j - 1], b[j]) /\ h[j] = Utf8(h[j - 1], b[j])
  BY <1>1 DEF Runs
<1> HIDE DEF n
<1>4. 0 \in T
  BY <1>3
<1>5. ASSUME NEW j \in Nat, j \in T PROVE j + 1 \in T
  <2> SUFFICES ASSUME j + 1 <= n PROVE g[j + 1] = h[j + 1]
    OBVIOUS
  <2>1. j + 1 \in 1..n /\ (j + 1) - 1 = j /\ j <= n
    BY <1>2
  <2>2. g[j] = h[j]
    BY <1>5, <2>1
  <2> QED BY <1>3, <2>1, <2>2
<1> HIDE DEF T
<1>6. n \in T
  BY <1>2, <1>4, <1>5, NumberInduction
<1>7. g[n] = h[n] /\ g[n] \in Utf8States
  BY <1>2, <1>3, <1>6 DEF T
<1> QED BY <1>1, <1>7 DEF n

\* ... and they are those of validate_utf8.
LEMMA Utf8AfterType ==
    ASSUME NEW s \in Utf8States, NEW b \in Seq(Byte)
    PROVE  Utf8After(s, b) \in Utf8States
BY RunExists, RunIs

\* What is read in two parts is read as one.
LEMMA Utf8AfterParts ==
    ASSUME NEW s \in Utf8States, NEW a \in Seq(Byte), NEW b \in Seq(Byte)
    PROVE  Utf8After(s, a \o b) = Utf8After(Utf8After(s, a), b)
<1> DEFINE m == Len(a)
           n == Len(b)
           x == a \o b
<1>1. PICK g : Runs(g, s, a) /\ Utf8After(s, a) = g[m]
  BY RunExists
<1>2. Utf8After(s, a) \in Utf8States
  BY Utf8AfterType
<1> DEFINE y == Utf8After(s, a)
<1>3. PICK h : Runs(h, y, b) /\ Utf8After(y, b) = h[n]
  BY <1>2, RunExists
<1>4. /\ m \in Nat /\ n \in Nat /\ x \in Seq(Byte) /\ Len(x) = m + n
      /\ \A i \in 1..(m + n) : x[i] = IF i <= m THEN a[i] ELSE b[i - m]
  BY LenProperties, ConcatProperties
<1>5. /\ g \in [0..m -> Utf8States] /\ g[0] = s /\ \A j \in 1..m : g[j] = Utf8(g[j - 1], a[j])
      /\ h \in [0..n -> Utf8States] /\ h[0] = y /\ \A j \in 1..n : h[j] = Utf8(h[j - 1], b[j])
      /\ g[m] = y
  BY <1>1, <1>3 DEF Runs
<1> HIDE DEF m, n, x, y
<1> DEFINE r == [i \in 0..(m + n) |-> IF i <= m THEN g[i] ELSE h[i - m]]
<1>6. r \in [0..(m + n) -> Utf8States]
  BY <1>4, <1>5
<1>7. r[0] = s
  BY <1>4, <1>5
<1>8. \A j \in 0..n : r[m + j] = h[j]
  <2> TAKE j \in 0..n
  <2>1. m + j \in 0..(m + n) /\ (m + j) - m = j /\ (m + j <= m => j = 0)
    BY <1>4
  <2> QED BY <1>4, <1>5, <2>1
<1>9. ASSUME NEW j \in 1..(m + n) PROVE r[j] = Utf8(r[j - 1], x[j])
  <2>1. CASE j <= m
    <3>1. j \in 1..m /\ j - 1 <= m /\ j \in 0..(m + n) /\ j - 1 \in 0..(m + n)
      BY <1>4, <2>1
    <3>2. r[j] = g[j] /\ r[j - 1] = g[j - 1] /\ x[j] = a[j]
      BY <1>4, <2>1, <3>1
    <3> QED BY <1>5, <3>1, <3>2
  <2>2. CASE ~(j <= m)
    <3> DEFINE q == j - m
    <3>1. q \in 1..n /\ q \in 0..n /\ q - 1 \in 0..n /\ m + q = j /\ m + (q - 1) = j - 1
      BY <1>4, <2>2
    <3>2. x[j] = b[q]
      BY <1>4, <2>2
    <3> HIDE DEF q
    <3>3. r[m + q] = h[q] /\ r[m + (q - 1)] = h[q - 1]
      BY <1>8, <3>1
    <3> HIDE DEF r
    <3> QED BY <1>5, <3>1, <3>2, <3>3
  <2> QED BY <2>1, <2>2
<1>10. Runs(r, s, x)
  <2> HIDE DEF r
  <2> QED BY <1>4, <1>6, <1>7, <1>9 DEF Runs
<1>11. r[m + n] = h[n]
  BY <1>4, <1>8
<1> HIDE DEF r
<1>12. Utf8After(s, x) = r[Len(x)]
  BY <1>4, <1>10, RunIs
<1> QED BY <1>3, <1>4, <1>11, <1>12 DEF x, y, n

\* An error stays one, and nothing changes nothing.
LEMMA Utf8AfterNothing ==
    ASSUME NEW s \in Utf8States
    PROVE  Utf8After(s, <<>>) = s
<1>1. <<>> \in Seq(Byte) /\ Len(<<>>) = 0
  OBVIOUS
<1>2. PICK h : Runs(h, s, <<>>) /\ Utf8After(s, <<>>) = h[0]
  BY <1>1, RunExists
<1> QED BY <1>2 DEF Runs

\* An error is for good.
LEMMA Utf8AfterError ==
    ASSUME NEW b \in Seq(Byte)
    PROVE  Utf8After("ER", b) = "ER"
<1> DEFINE h == [i \in 0..Len(b) |-> "ER"]
<1>1. Len(b) \in Nat /\ "ER" \in Utf8States
  BY LenProperties DEF Utf8States
<1>2. \A c : Utf8("ER", c) = "ER"
  BY Zenon DEF Utf8
<1>3. h \in [0..Len(b) -> Utf8States] /\ h[0] = "ER" /\ \A j \in 1..Len(b) : h[j] = "ER" /\ h[j - 1] = "ER"
  BY <1>1
<1> HIDE DEF h
<1>4. Runs(h, "ER", b)
  BY <1>2, <1>3 DEF Runs
<1>5. h[Len(b)] = "ER"
  BY <1>1, <1>3
<1> QED BY <1>1, <1>4, <1>5, RunIs

\* Character n bytes long that ends at byte e of b.
CharAt(b, n, e) ==
    \/ n = 1 /\ b[e] < 128
    \/ n = 2 /\ b[e - 1] \in 194..223 /\ b[e] \in 128..191
    \/ /\ n = 3 /\ b[e - 2] \in 224..239 /\ b[e - 1] \in 128..191 /\ b[e] \in 128..191
       /\ (b[e - 2] = 224 => b[e - 1] > 159) /\ (b[e - 2] = 237 => b[e - 1] < 160)
    \/ /\ n = 4 /\ b[e - 3] \in 240..244
       /\ b[e - 2] \in 128..191 /\ b[e - 1] \in 128..191 /\ b[e] \in 128..191
       /\ (b[e - 3] = 240 => b[e - 2] > 143) /\ (b[e - 3] = 244 => b[e - 2] < 144)

\* A character, in terms of the bytes it is cut from.
LEMMA CharacterBytes ==
    ASSUME NEW b \in Seq(Byte), NEW e \in 1..Len(b), NEW n \in 1..4, e - n \in Nat
    PROVE  Character(SubSeq(b, e - n + 1, e)) <=> CharAt(b, n, e)
<1> DEFINE c == SubSeq(b, e - n + 1, e)
<1>1. Len(b) \in Nat /\ e \in Nat /\ n \in {1, 2, 3, 4}
  BY LenProperties
<1>2. Len(c) = n /\ \A i \in 1..n : c[i] = b[e - n + i]
  <2>1. e - n + 1 \in 1..(Len(b) + 1) /\ e \in (e - n)..Len(b)
    BY <1>1
  <2>2. Len(c) = IF e - n + 1 <= e THEN e - (e - n + 1) + 1 ELSE 0
    BY <1>1, <2>1, SubSeqProperties
  <2>3. \A i \in 1..(e - (e - n + 1) + 1) : c[i] = b[(e - n + 1) + i - 1]
    BY <1>1, <2>1, SubSeqProperties
  <2>4. \A i \in 1..n : c[i] = b[e - n + i]
    <3> TAKE i \in 1..n
    <3>1. i \in 1..(e - (e - n + 1) + 1) /\ (e - n + 1) + i - 1 = e - n + i
      BY <1>1
    <3> HIDE DEF c
    <3> QED BY <2>3, <3>1
  <2> HIDE DEF c
  <2> QED BY <1>1, <2>2, <2>4
<1> HIDE DEF c
<1>3. CASE n = 1
  <2>1. c[1] = b[e] /\ Len(c) = 1
    BY <1>1, <1>2, <1>3
  <2>2. Character(c) <=> c[1] < 128
    BY <2>1 DEF Character
  <2> QED BY <1>3, <2>1, <2>2 DEF CharAt, c
<1>4. CASE n = 2
  <2>1. c[1] = b[e - 1] /\ c[2] = b[e] /\ Len(c) = 2
    <3>1. e - 2 + 1 = e - 1 /\ e - 2 + 2 = e
      BY <1>1
    <3> QED BY <1>1, <1>2, <1>4, <3>1
  <2>2. Character(c) <=> c[1] \in 194..223 /\ c[2] \in 128..191
    BY <2>1 DEF Character
  <2> QED BY <1>4, <2>1, <2>2 DEF CharAt, c
<1>5. CASE n = 3
  <2>1. c[1] = b[e - 2] /\ c[2] = b[e - 1] /\ c[3] = b[e] /\ Len(c) = 3
    <3>1. e - 3 + 1 = e - 2 /\ e - 3 + 2 = e - 1 /\ e - 3 + 3 = e
      BY <1>1
    <3> QED BY <1>1, <1>2, <1>5, <3>1
  <2>2. Character(c) <=> /\ c[1] \in 224..239 /\ c[2] \in 128..191 /\ c[3] \in 128..191
                         /\ (c[1] = 224 => c[2] > 159) /\ (c[1] = 237 => c[2] < 160)
    BY <2>1 DEF Character
  <2> QED BY <1>5, <2>1, <2>2 DEF CharAt, c
<1>6. CASE n = 4
  <2>1. c[1] = b[e - 3] /\ c[2] = b[e - 2] /\ c[3] = b[e - 1] /\ c[4] = b[e] /\ Len(c) = 4
    <3>1. e - 4 + 1 = e - 3 /\ e - 4 + 2 = e - 2 /\ e - 4 + 3 = e - 1 /\ e - 4 + 4 = e
      BY <1>1
    <3> QED BY <1>1, <1>2, <1>6, <3>1
  <2>2. Character(c) <=> /\ c[1] \in 240..244 /\ c[2] \in 128..191 /\ c[3] \in 128..191 /\ c[4] \in 128..191
                         /\ (c[1] = 240 => c[2] > 143) /\ (c[1] = 244 => c[2] < 144)
    BY <2>1 DEF Character
  <2> QED BY <1>6, <2>1, <2>2 DEF CharAt, c
<1> QED BY <1>1, <1>3, <1>4, <1>5, <1>6

\* validate_utf8, state by state.
LEMMA Utf8Table ==
    ASSUME NEW c \in 0..255
    PROVE  /\ Utf8("S0", c) = IF c < 128 THEN "S0" ELSE IF c \in 194..223 THEN "T1"
                              ELSE IF c = 224 THEN "S1" ELSE IF c = 237 THEN "S2"
                              ELSE IF c \in 225..239 THEN "T2" ELSE IF c = 240 THEN "S3"
                              ELSE IF c \in 241..243 THEN "T3" ELSE IF c = 244 THEN "S4" ELSE "ER"
           /\ Utf8("T1", c) = IF c \in 128..191 THEN "S0" ELSE "ER"
           /\ Utf8("T2", c) = IF c \in 128..191 THEN "T1" ELSE "ER"
           /\ Utf8("S1", c) = IF c \in 160..191 THEN "T1" ELSE "ER"
           /\ Utf8("S2", c) = IF c \in 128..159 THEN "T1" ELSE "ER"
           /\ Utf8("T3", c) = IF c \in 128..191 THEN "T2" ELSE "ER"
           /\ Utf8("S3", c) = IF c \in 144..191 THEN "T2" ELSE "ER"
           /\ Utf8("S4", c) = IF c \in 128..143 THEN "T2" ELSE "ER"
           /\ Utf8("ER", c) = "ER"
<1>1. Utf8("S0", c) = IF c < 128 THEN "S0" ELSE IF c \in 194..223 THEN "T1"
                      ELSE IF c = 224 THEN "S1" ELSE IF c = 237 THEN "S2"
                      ELSE IF c \in 225..239 THEN "T2" ELSE IF c = 240 THEN "S3"
                      ELSE IF c \in 241..243 THEN "T3" ELSE IF c = 244 THEN "S4" ELSE "ER"
  BY SMTT(30) DEF Utf8
<1>2. Utf8("T1", c) = IF c \in 128..191 THEN "S0" ELSE "ER"
  BY SMTT(30) DEF Utf8
<1>3. Utf8("T2", c) = IF c \in 128..191 THEN "T1" ELSE "ER"
  BY SMTT(30) DEF Utf8
<1>4. Utf8("S1", c) = IF c \in 160..191 THEN "T1" ELSE "ER"
  BY SMTT(30) DEF Utf8
<1>5. Utf8("S2", c) = IF c \in 128..159 THEN "T1" ELSE "ER"
  BY SMTT(30) DEF Utf8
<1>6. Utf8("T3", c) = IF c \in 128..191 THEN "T2" ELSE "ER"
  BY SMTT(30) DEF Utf8
<1>7. Utf8("S3", c) = IF c \in 144..191 THEN "T2" ELSE "ER"
  BY SMTT(30) DEF Utf8
<1>8. Utf8("S4", c) = IF c \in 128..143 THEN "T2" ELSE "ER"
  BY SMTT(30) DEF Utf8
<1>9. Utf8("ER", c) = "ER"
  BY SMTT(30) DEF Utf8
<1> QED BY <1>1, <1>2, <1>3, <1>4, <1>5, <1>6, <1>7, <1>8, <1>9

\* From S0 a character of any length leads back to it.
LEMMA TwoByteStates ==
    ASSUME NEW y \in 194..223, NEW z \in 128..191
    PROVE  Utf8(Utf8("S0", y), z) = "S0"
<1>1. y \in 0..255 /\ z \in 0..255
  OBVIOUS
<1>2. Utf8("S0", y) = "T1"
  BY <1>1, Utf8Table
<1> QED BY <1>1, <1>2, Utf8Table

\* validate_utf8 is back at S0 after a character of three bytes ...
LEMMA ThreeByteStates ==
    ASSUME NEW x \in 224..239, NEW y \in 128..191, NEW z \in 128..191, x = 224 => y > 159, x = 237 => y < 160
    PROVE  Utf8(Utf8(Utf8("S0", x), y), z) = "S0"
<1>1. x \in 0..255 /\ y \in 0..255 /\ z \in 0..255
  OBVIOUS
<1>2. Utf8("S0", x) = IF x = 224 THEN "S1" ELSE IF x = 237 THEN "S2" ELSE "T2"
  BY <1>1, Utf8Table
<1>3. Utf8(Utf8("S0", x), y) = "T1"
  <2>1. CASE x = 224
    BY <1>1, <1>2, <2>1, Utf8Table
  <2>2. CASE x = 237
    BY <1>1, <1>2, <2>2, Utf8Table
  <2>3. CASE x # 224 /\ x # 237
    BY <1>1, <1>2, <2>3, Utf8Table
  <2> QED BY <2>1, <2>2, <2>3
<1> QED BY <1>1, <1>3, Utf8Table

\* ... and after one of four.
LEMMA FourByteStates ==
    ASSUME NEW w \in 240..244, NEW x \in 128..191, NEW y \in 128..191, NEW z \in 128..191,
           w = 240 => x > 143, w = 244 => x < 144
    PROVE  Utf8(Utf8(Utf8(Utf8("S0", w), x), y), z) = "S0"
<1>1. w \in 0..255 /\ x \in 0..255 /\ y \in 0..255 /\ z \in 0..255
  OBVIOUS
<1>2. Utf8("S0", w) = IF w = 240 THEN "S3" ELSE IF w = 244 THEN "S4" ELSE "T3"
  BY <1>1, Utf8Table
<1>3. Utf8(Utf8("S0", w), x) = "T2"
  <2>1. CASE w = 240
    BY <1>1, <1>2, <2>1, Utf8Table
  <2>2. CASE w = 244
    BY <1>1, <1>2, <2>2, Utf8Table
  <2>3. CASE w # 240 /\ w # 244
    BY <1>1, <1>2, <2>3, Utf8Table
  <2> QED BY <2>1, <2>2, <2>3
<1>4. Utf8(Utf8(Utf8("S0", w), x), y) = "T1"
  BY <1>1, <1>3, Utf8Table
<1> QED BY <1>1, <1>4, Utf8Table

\* The end of a character is where validate_utf8 is back in S0, once it was there
\* at the end of the character before.
LEMMA CharacterRead ==
    ASSUME NEW b \in Seq(Byte), NEW h, Runs(h, "S0", b), NEW e \in 1..Len(b), NEW n \in 1..4, e - n \in Nat,
           h[e - n] = "S0", CharAt(b, n, e)
    PROVE  h[e] = "S0"
<1> DEFINE w == b[e - 3]
           x == b[e - 2]
           y == b[e - 1]
           z == b[e]
<1>1. Len(b) \in Nat /\ n \in {1, 2, 3, 4} /\ \A j \in 1..Len(b) : b[j] \in 0..255 /\ h[j] = Utf8(h[j - 1], b[j])
  <2>1. \A j \in 1..Len(b) : b[j] \in 0..255
    BY ElementOfSeq DEF Byte
  <2>2. \A j \in 1..Len(b) : h[j] = Utf8(h[j - 1], b[j])
    BY DEF Runs
  <2> QED BY <2>1, <2>2, LenProperties
<1>2. z \in 0..255 /\ h[e] = Utf8(h[e - 1], z)
  BY <1>1
<1>3. CASE n = 1
  <2>1. h[e] = Utf8("S0", z) /\ z < 128
    BY <1>2, <1>3 DEF CharAt
  <2> HIDE DEF z
  <2> QED BY <1>2, <2>1, Utf8Table
<1>4. CASE n = 2
  <2>1. e - 1 \in 1..Len(b) /\ (e - 1) - 1 = e - 2
    BY <1>1, <1>4
  <2>2. h[e - 1] = Utf8("S0", y) /\ y \in 0..255 /\ y \in 194..223 /\ z \in 128..191
    BY <1>1, <1>4, <2>1 DEF CharAt
  <2> HIDE DEF y, z
  <2>3. Utf8(Utf8("S0", y), z) = "S0"
    BY ONLY <2>2, TwoByteStates
  <2> QED BY <1>2, <2>2, <2>3
<1>5. CASE n = 3
  <2>1. e - 1 \in 1..Len(b) /\ (e - 1) - 1 = e - 2 /\ e - 2 \in 1..Len(b) /\ (e - 2) - 1 = e - 3
    BY <1>1, <1>5
  <2>2. h[e - 2] = Utf8("S0", x) /\ h[e - 1] = Utf8(h[e - 2], y) /\ x \in 0..255 /\ y \in 0..255
    BY <1>1, <1>5, <2>1
  <2>3. /\ x \in 224..239 /\ y \in 128..191 /\ z \in 128..191 /\ (x = 224 => y > 159) /\ (x = 237 => y < 160)
    BY <1>5 DEF CharAt
  <2> HIDE DEF x, y, z
  <2>4. Utf8(Utf8(Utf8("S0", x), y), z) = "S0"
    BY ONLY <2>3, ThreeByteStates
  <2> QED BY <1>2, <2>2, <2>4
<1>6. CASE n = 4
  <2>1. /\ e - 1 \in 1..Len(b) /\ (e - 1) - 1 = e - 2 /\ e - 2 \in 1..Len(b) /\ (e - 2) - 1 = e - 3
        /\ e - 3 \in 1..Len(b) /\ (e - 3) - 1 = e - 4
    BY <1>1, <1>6
  <2>2. /\ h[e - 3] = Utf8("S0", w) /\ h[e - 2] = Utf8(h[e - 3], x) /\ h[e - 1] = Utf8(h[e - 2], y)
        /\ w \in 0..255 /\ x \in 0..255 /\ y \in 0..255
    BY <1>1, <1>6, <2>1
  <2>3. /\ w \in 240..244 /\ x \in 128..191 /\ y \in 128..191 /\ z \in 128..191
        /\ (w = 240 => x > 143) /\ (w = 244 => x < 144)
    BY <1>6 DEF CharAt
  <2> HIDE DEF w, x, y, z
  <2>4. Utf8(Utf8(Utf8(Utf8("S0", w), x), y), z) = "S0"
    BY ONLY <2>3, FourByteStates
  <2> QED BY <1>2, <2>2, <2>4
<1> QED BY <1>1, <1>3, <1>4, <1>5, <1>6

\* What a state of validate_utf8 tells of the byte and the state before it.
LEMMA Utf8Before ==
    ASSUME NEW s \in Utf8States, NEW c \in 0..255
    PROVE  /\ Utf8(s, c) = "S0" => (s = "S0" /\ c < 128) \/ (s = "T1" /\ c \in 128..191)
           /\ Utf8(s, c) = "T1" => \/ s = "S0" /\ c \in 194..223
                                   \/ s = "T2" /\ c \in 128..191
                                   \/ s = "S1" /\ c \in 160..191
                                   \/ s = "S2" /\ c \in 128..159
           /\ Utf8(s, c) = "T2" => \/ s = "S0" /\ c \in (225..239) \ {237}
                                   \/ s = "T3" /\ c \in 128..191
                                   \/ s = "S3" /\ c \in 144..191
                                   \/ s = "S4" /\ c \in 128..143
           /\ Utf8(s, c) = "S1" => s = "S0" /\ c = 224
           /\ Utf8(s, c) = "S2" => s = "S0" /\ c = 237
           /\ Utf8(s, c) = "S3" => s = "S0" /\ c = 240
           /\ Utf8(s, c) = "S4" => s = "S0" /\ c = 244
           /\ Utf8(s, c) = "T3" => s = "S0" /\ c \in 241..243
<1>1. CASE s = "S0"
  BY <1>1, Utf8Table
<1>2. CASE s = "T1" \/ s = "T2" \/ s = "T3"
  BY <1>2, Utf8Table
<1>3. CASE s = "S1" \/ s = "S2" \/ s = "S3" \/ s = "S4" \/ s = "ER"
  BY <1>3, Utf8Table
<1> QED BY <1>1, <1>2, <1>3 DEF Utf8States

\* The states before an S0, as far as they are not S0, and the bytes read in them.
LeadToS0(s1, s2, s3, s4, w, x, y, z) ==
    /\ s1 \in Utf8States /\ z \in 0..255 /\ Utf8(s1, z) = "S0"
    /\ s1 # "S0" => s2 \in Utf8States /\ y \in 0..255 /\ Utf8(s2, y) = s1
    /\ s1 # "S0" /\ s2 # "S0" => s3 \in Utf8States /\ x \in 0..255 /\ Utf8(s3, x) = s2
    /\ s1 # "S0" /\ s2 # "S0" /\ s3 # "S0" => s4 \in Utf8States /\ w \in 0..255 /\ Utf8(s4, w) = s3

\* The bytes read since the last S0 are a character.
CharacterSince(s1, s2, s3, s4, w, x, y, z) ==
    \/ s1 = "S0" /\ z < 128
    \/ s1 # "S0" /\ s2 = "S0" /\ y \in 194..223 /\ z \in 128..191
    \/ /\ s1 # "S0" /\ s2 # "S0" /\ s3 = "S0"
       /\ x \in 224..239 /\ y \in 128..191 /\ z \in 128..191
       /\ (x = 224 => y > 159) /\ (x = 237 => y < 160)
    \/ /\ s1 # "S0" /\ s2 # "S0" /\ s3 # "S0" /\ s4 = "S0"
       /\ w \in 240..244 /\ x \in 128..191 /\ y \in 128..191 /\ z \in 128..191
       /\ (w = 240 => x > 143) /\ (w = 244 => x < 144)

\* When four bytes led to S0, the last of them ended a character that began at S0.
LEMMA StatesBefore ==
    ASSUME NEW s1, NEW s2, NEW s3, NEW s4, NEW w, NEW x, NEW y, NEW z,
           LeadToS0(s1, s2, s3, s4, w, x, y, z)
    PROVE  CharacterSince(s1, s2, s3, s4, w, x, y, z)
<1>0. /\ s1 \in Utf8States /\ z \in 0..255 /\ Utf8(s1, z) = "S0"
      /\ s1 # "S0" => s2 \in Utf8States /\ y \in 0..255 /\ Utf8(s2, y) = s1
      /\ s1 # "S0" /\ s2 # "S0" => s3 \in Utf8States /\ x \in 0..255 /\ Utf8(s3, x) = s2
      /\ s1 # "S0" /\ s2 # "S0" /\ s3 # "S0" => s4 \in Utf8States /\ w \in 0..255 /\ Utf8(s4, w) = s3
  BY DEF LeadToS0
<1>1. (s1 = "S0" /\ z < 128) \/ (s1 = "T1" /\ z \in 128..191)
  BY ONLY <1>0, Utf8Before
<1>2. CASE s1 = "T1" /\ z \in 128..191
  <2>1. s2 \in Utf8States /\ y \in 0..255 /\ Utf8(s2, y) = "T1"
    BY <1>0, <1>2
  <2>2. \/ s2 = "S0" /\ y \in 194..223
        \/ s2 = "T2" /\ y \in 128..191
        \/ s2 = "S1" /\ y \in 160..191
        \/ s2 = "S2" /\ y \in 128..159
    BY ONLY <2>1, Utf8Before
  <2>3. CASE s2 = "S0" /\ y \in 194..223
    BY <1>2, <2>3 DEF CharacterSince
  <2>4. CASE s2 = "S1" /\ y \in 160..191
    <3>1. s3 \in Utf8States /\ x \in 0..255 /\ Utf8(s3, x) = "S1"
      BY <1>0, <1>2, <2>4
    <3>2. s3 = "S0" /\ x = 224
      BY ONLY <3>1, Utf8Before
    <3> QED BY <1>2, <2>4, <3>2 DEF CharacterSince
  <2>5. CASE s2 = "S2" /\ y \in 128..159
    <3>1. s3 \in Utf8States /\ x \in 0..255 /\ Utf8(s3, x) = "S2"
      BY <1>0, <1>2, <2>5
    <3>2. s3 = "S0" /\ x = 237
      BY ONLY <3>1, Utf8Before
    <3> QED BY <1>2, <2>5, <3>2 DEF CharacterSince
  <2>6. CASE s2 = "T2" /\ y \in 128..191
    <3>1. s3 \in Utf8States /\ x \in 0..255 /\ Utf8(s3, x) = "T2"
      BY <1>0, <1>2, <2>6
    <3>2. \/ s3 = "S0" /\ x \in (225..239) \ {237}
          \/ s3 = "T3" /\ x \in 128..191
          \/ s3 = "S3" /\ x \in 144..191
          \/ s3 = "S4" /\ x \in 128..143
      BY ONLY <3>1, Utf8Before
    <3>3. CASE s3 = "S0" /\ x \in (225..239) \ {237}
      BY <1>2, <2>6, <3>3 DEF CharacterSince
    <3>4. CASE s3 # "S0"
      <4>1. s4 \in Utf8States /\ w \in 0..255 /\ Utf8(s4, w) = s3
        BY <1>0, <1>2, <2>6, <3>4
      <4>2. /\ s4 = "S0" /\ w \in 240..244 /\ x \in 128..191
            /\ (w = 240 => x > 143) /\ (w = 244 => x < 144)
        <5>1. CASE s3 = "T3" /\ x \in 128..191
          <6>1. s4 = "S0" /\ w \in 241..243
            BY ONLY <4>1, <5>1, Utf8Before
          <6> QED BY <5>1, <6>1
        <5>2. CASE s3 = "S3" /\ x \in 144..191
          <6>1. s4 = "S0" /\ w = 240
            BY ONLY <4>1, <5>2, Utf8Before
          <6> QED BY <5>2, <6>1
        <5>3. CASE s3 = "S4" /\ x \in 128..143
          <6>1. s4 = "S0" /\ w = 244
            BY ONLY <4>1, <5>3, Utf8Before
          <6> QED BY <5>3, <6>1
        <5> QED BY <3>2, <3>4, <5>1, <5>2, <5>3
      <4> QED BY <1>2, <2>6, <3>4, <4>2 DEF CharacterSince
    <3> QED BY <3>2, <3>3, <3>4
  <2> QED BY <2>2, <2>3, <2>4, <2>5, <2>6
<1> QED BY <1>1, <1>2 DEF CharacterSince

\* Where validate_utf8 is in S0 a character ends, and it was there before it.
LEMMA CharacterWasRead ==
    ASSUME NEW b \in Seq(Byte), NEW h, Runs(h, "S0", b), NEW e \in 1..Len(b), h[e] = "S0"
    PROVE  \E n \in 1..4 : e - n \in Nat /\ h[e - n] = "S0" /\ CharAt(b, n, e)
<1> DEFINE s1 == h[e - 1]
           s2 == h[e - 2]
           s3 == h[e - 3]
           s4 == h[e - 4]
           z == b[e]
           y == b[e - 1]
           x == b[e - 2]
           w == b[e - 3]
<1>1. /\ Len(b) \in Nat /\ h[0] = "S0"
      /\ \A j \in 1..Len(b) : b[j] \in 0..255 /\ h[j - 1] \in Utf8States /\ h[j] = Utf8(h[j - 1], b[j])
  <2>1. \A j \in 1..Len(b) : b[j] \in 0..255
    BY ElementOfSeq DEF Byte
  <2>2. h[0] = "S0" /\ \A j \in 1..Len(b) : h[j] = Utf8(h[j - 1], b[j])
    BY DEF Runs
  <2>3. \A j \in 1..Len(b) : h[j - 1] \in Utf8States
    <3>1. h \in [0..Len(b) -> Utf8States] /\ Len(b) \in Nat
      BY LenProperties DEF Runs
    <3> QED BY <3>1
  <2> QED BY <2>1, <2>2, <2>3, LenProperties
<1>2. s1 \in Utf8States /\ z \in 0..255 /\ Utf8(s1, z) = "S0"
  BY <1>1
<1>3. s1 # "S0" => e - 1 \in 1..Len(b) /\ s2 \in Utf8States /\ y \in 0..255 /\ Utf8(s2, y) = s1
  <2> SUFFICES ASSUME s1 # "S0" PROVE e - 1 \in 1..Len(b) /\ s2 \in Utf8States /\ y \in 0..255 /\ Utf8(s2, y) = s1
    OBVIOUS
  <2>1. e - 1 # 0
    BY <1>1
  <2>2. e - 1 \in 1..Len(b) /\ (e - 1) - 1 = e - 2
    BY <1>1, <2>1
  <2> QED BY <1>1, <2>2
<1>4. s1 # "S0" /\ s2 # "S0" => e - 2 \in 1..Len(b) /\ s3 \in Utf8States /\ x \in 0..255 /\ Utf8(s3, x) = s2
  <2> SUFFICES ASSUME s1 # "S0", s2 # "S0"
               PROVE  e - 2 \in 1..Len(b) /\ s3 \in Utf8States /\ x \in 0..255 /\ Utf8(s3, x) = s2
    OBVIOUS
  <2>1. e - 2 # 0
    BY <1>1
  <2>2. e - 2 \in 1..Len(b) /\ (e - 2) - 1 = e - 3
    BY <1>1, <1>3, <2>1
  <2> QED BY <1>1, <2>2
<1>5. s1 # "S0" /\ s2 # "S0" /\ s3 # "S0"
        => e - 3 \in 1..Len(b) /\ s4 \in Utf8States /\ w \in 0..255 /\ Utf8(s4, w) = s3
  <2> SUFFICES ASSUME s1 # "S0", s2 # "S0", s3 # "S0"
               PROVE  e - 3 \in 1..Len(b) /\ s4 \in Utf8States /\ w \in 0..255 /\ Utf8(s4, w) = s3
    OBVIOUS
  <2>1. e - 3 # 0
    BY <1>1
  <2>2. e - 3 \in 1..Len(b) /\ (e - 3) - 1 = e - 4
    BY <1>1, <1>4, <2>1
  <2> QED BY <1>1, <2>2
<1>6. e - 1 \in Nat /\ (s1 # "S0" => e - 2 \in Nat) /\ (s1 # "S0" /\ s2 # "S0" => e - 3 \in Nat)
      /\ (s1 # "S0" /\ s2 # "S0" /\ s3 # "S0" => e - 4 \in Nat)
  BY <1>1, <1>3, <1>4, <1>5
<1> HIDE DEF s1, s2, s3, s4, w, x, y, z
<1>7. \/ s1 = "S0" /\ z < 128
      \/ s1 # "S0" /\ s2 = "S0" /\ y \in 194..223 /\ z \in 128..191
      \/ /\ s1 # "S0" /\ s2 # "S0" /\ s3 = "S0"
         /\ x \in 224..239 /\ y \in 128..191 /\ z \in 128..191
         /\ (x = 224 => y > 159) /\ (x = 237 => y < 160)
      \/ /\ s1 # "S0" /\ s2 # "S0" /\ s3 # "S0" /\ s4 = "S0"
         /\ w \in 240..244 /\ x \in 128..191 /\ y \in 128..191 /\ z \in 128..191
         /\ (w = 240 => x > 143) /\ (w = 244 => x < 144)
  <2>1. LeadToS0(s1, s2, s3, s4, w, x, y, z)
    BY <1>2, <1>3, <1>4, <1>5 DEF LeadToS0
  <2>2. CharacterSince(s1, s2, s3, s4, w, x, y, z)
    BY ONLY <2>1, StatesBefore
  <2> QED BY ONLY <2>2 DEF CharacterSince
<1>8. CASE s1 = "S0" /\ z < 128
  <2>1. CharAt(b, 1, e)
    BY <1>8 DEF CharAt, z
  <2> QED BY <1>6, <1>8, <2>1 DEF s1
<1>9. CASE s1 # "S0" /\ s2 = "S0" /\ y \in 194..223 /\ z \in 128..191
  <2>1. CharAt(b, 2, e)
    BY <1>9 DEF CharAt, z, y
  <2> QED BY <1>6, <1>9, <2>1 DEF s2
<1>10. CASE /\ s1 # "S0" /\ s2 # "S0" /\ s3 = "S0"
            /\ x \in 224..239 /\ y \in 128..191 /\ z \in 128..191
            /\ (x = 224 => y > 159) /\ (x = 237 => y < 160)
  <2>1. CharAt(b, 3, e)
    BY <1>10 DEF CharAt, z, y, x
  <2> QED BY <1>6, <1>10, <2>1 DEF s3
<1>11. CASE /\ s1 # "S0" /\ s2 # "S0" /\ s3 # "S0" /\ s4 = "S0"
            /\ w \in 240..244 /\ x \in 128..191 /\ y \in 128..191 /\ z \in 128..191
            /\ (w = 240 => x > 143) /\ (w = 244 => x < 144)
  <2>1. CharAt(b, 4, e)
    BY <1>11 DEF CharAt, z, y, x, w
  <2> QED BY <1>6, <1>11, <2>1 DEF s4
<1> QED BY <1>7, <1>8, <1>9, <1>10, <1>11

\* The table of validate_utf8 accepts exactly what RFC 3629 calls UTF-8, at any length: no
\* overlong form, no surrogate and nothing beyond the last code point passes.
THEOREM TextIsUtf8 ==
    ASSUME NEW b \in Seq(Byte)
    PROVE  IsText(b) <=> Utf8After("S0", b) = "S0"
<1> DEFINE n == Len(b)
<1>1. n \in Nat /\ "S0" \in Utf8States
  BY LenProperties DEF Utf8States
<1>2. PICK h : Runs(h, "S0", b) /\ Utf8After("S0", b) = h[n]
  BY <1>1, RunExists
<1>3. h[0] = "S0"
  BY <1>2 DEF Runs
<1>4. ASSUME IsText(b) PROVE h[n] = "S0"
  <2>1. PICK ends \in SUBSET (0..n) :
           /\ {0, n} \subseteq ends
           /\ \A e \in ends \ {0} : \E m \in 1..4 : e - m \in ends /\ Character(SubSeq(b, e - m + 1, e))
    BY <1>4 DEF IsText
  <2> DEFINE T == {j \in Nat : \A i \in 0..j : i \in ends => h[i] = "S0"}
  <2>2. 0 \in T
    BY <1>3
  <2>3. ASSUME NEW j \in Nat, j \in T PROVE j + 1 \in T
    <3> SUFFICES ASSUME j + 1 \in ends PROVE h[j + 1] = "S0"
      <4>1. \A i \in 0..(j + 1) : i \in 0..j \/ i = j + 1
        OBVIOUS
      <4> QED BY <2>3, <4>1
    <3> DEFINE e == j + 1
    <3>1. e \in ends \ {0} /\ e \in 1..n /\ e \in Nat
      BY <1>1, <2>1
    <3>2. PICK m \in 1..4 : e - m \in ends /\ Character(SubSeq(b, e - m + 1, e))
      BY <2>1, <3>1
    <3>3. e - m \in 0..j /\ e - m \in Nat
      BY <1>1, <2>1, <3>2
    <3>4. h[e - m] = "S0"
      BY <2>3, <3>2, <3>3
    <3> HIDE DEF e
    <3>5. CharAt(b, m, e)
      BY <3>1, <3>2, <3>3, CharacterBytes
    <3>6. h[e] = "S0"
      BY <1>2, <3>1, <3>3, <3>4, <3>5, CharacterRead
    <3> QED BY <3>6 DEF e
  <2> HIDE DEF T
  <2>4. n \in T
    BY <1>1, <2>2, <2>3, NumberInduction
  <2> QED BY <1>1, <2>1, <2>4 DEF T
<1>5. ASSUME h[n] = "S0" PROVE IsText(b)
  <2> DEFINE ends == {i \in 0..n : h[i] = "S0"}
  <2>1. ends \in SUBSET (0..n) /\ {0, n} \subseteq ends
    BY <1>1, <1>3, <1>5
  <2>2. ASSUME NEW e \in ends \ {0}
        PROVE  \E m \in 1..4 : e - m \in ends /\ Character(SubSeq(b, e - m + 1, e))
    <3>1. e \in 1..n /\ h[e] = "S0"
      BY <1>1
    <3>2. PICK m \in 1..4 : e - m \in Nat /\ h[e - m] = "S0" /\ CharAt(b, m, e)
      BY <1>2, <3>1, CharacterWasRead
    <3>3. e - m \in 0..n
      BY <1>1, <3>1, <3>2
    <3>4. Character(SubSeq(b, e - m + 1, e))
      BY <3>1, <3>2, CharacterBytes
    <3> QED BY <3>2, <3>3, <3>4
  <2> HIDE DEF ends
  <2> QED BY <2>1, <2>2 DEF IsText
<1> QED BY <1>2, <1>4, <1>5

---------------------------------------------------------------------------
(* What was said, frame by frame.                                          *)

Conversation ==
    [on : BOOLEAN, inside : BOOLEAN, op : 0..15, part : Seq(Byte), messages : Seq(Seq(Byte)),
     pings : Seq(Seq(Byte)), bye : BOOLEAN]

\* Only a message that is not complete has a part, and it is a text or is not.
Sensible(c) ==
    /\ c \in Conversation
    /\ c.on /\ ~c.inside => c.part = <<>>
    /\ c.on /\ c.inside => c.op \in {Text, Binary}

\* q has all of p, and perhaps more.
Extends(p, q) ==
    /\ p \in Seq(Seq(Byte)) /\ q \in Seq(Seq(Byte)) /\ Len(p) <= Len(q)
    /\ \A i \in 1..Len(p) : q[i] = p[i]

\* No message of this conversation is completed any more.
Dead(c) == ~c.on \/ (c.inside /\ c.op = Text /\ Utf8After("S0", c.part) = "ER")

\* The kind of message a frame belongs to, and what there is of it with this frame.
OpIn(f, c) == IF f.op = 0 THEN c.op ELSE f.op
PartWith(f, c) == c.part \o f.data

\* What a frame does to the conversation, case by case.
LEMMA MeaningCases ==
    ASSUME NEW f \in FrameRecord, NEW c
    PROVE  LET m == Meaning(f, c)
           IN  /\ ~c.on => m = c
               /\ c.on /\ Forbidden(f, c) => m = [c EXCEPT !.on = FALSE]
               /\ c.on /\ ~Forbidden(f, c) =>
                     /\ f.op \in {0, Text, Binary, CloseOp, PingOp, PongOp}
                     /\ f.op = CloseOp => m = [c EXCEPT !.on = FALSE, !.bye = TRUE]
                     /\ f.op = PingOp => m = [c EXCEPT !.pings = IF f.data = <<>> THEN @ ELSE Append(@, f.data)]
                     /\ f.op = PongOp => m = c
                     /\ f.op < 8 /\ ~f.fin => m = [c EXCEPT !.inside = TRUE, !.op = OpIn(f, c), !.part = PartWith(f, c)]
                     /\ f.op < 8 /\ f.fin =>
                          m = IF OpIn(f, c) = Text /\ ~IsText(PartWith(f, c)) THEN [c EXCEPT !.on = FALSE]
                              ELSE [c EXCEPT !.inside = FALSE, !.part = <<>>,
                                             !.messages = IF PartWith(f, c) = <<>> THEN @
                                                          ELSE Append(@, PartWith(f, c))]
<1> DEFINE m == Meaning(f, c)
           bad == Forbidden(f, c)
           text == IsText(PartWith(f, c))
<1>1. ~c.on => m = c
  BY DEF Meaning
<1>2. c.on /\ bad => m = [c EXCEPT !.on = FALSE]
  BY Zenon DEF Meaning
<1>3. ASSUME c.on, ~bad
      PROVE  f.op \in {0, Text, Binary, CloseOp, PingOp, PongOp}
  BY <1>3 DEF Forbidden
<1>4. ASSUME c.on, ~bad, f.op = CloseOp
      PROVE  m = [c EXCEPT !.on = FALSE, !.bye = TRUE]
  BY <1>4 DEF Meaning, CloseOp, PingOp, PongOp
<1>5. ASSUME c.on, ~bad, f.op = PingOp
      PROVE  m = [c EXCEPT !.pings = IF f.data = <<>> THEN @ ELSE Append(@, f.data)]
  BY <1>5 DEF Meaning, CloseOp, PingOp, PongOp
<1>6. ASSUME c.on, ~bad, f.op = PongOp
      PROVE  m = c
  BY <1>6 DEF Meaning, CloseOp, PingOp, PongOp
<1>7. ASSUME c.on, ~bad, f.op < 8, ~f.fin
      PROVE  m = [c EXCEPT !.inside = TRUE, !.op = OpIn(f, c), !.part = PartWith(f, c)]
  BY <1>7 DEF Meaning, CloseOp, PingOp, PongOp, OpIn, PartWith
<1>8. ASSUME c.on, ~bad, f.op < 8, f.fin
      PROVE  m = IF OpIn(f, c) = Text /\ ~text THEN [c EXCEPT !.on = FALSE]
                 ELSE [c EXCEPT !.inside = FALSE, !.part = <<>>,
                                !.messages = IF PartWith(f, c) = <<>> THEN @ ELSE Append(@, PartWith(f, c))]
  BY <1>8 DEF Meaning, CloseOp, PingOp, PongOp, OpIn, PartWith
<1> HIDE DEF m, bad, text
<1>9. c.on /\ ~bad => f.op \in {0, Text, Binary, CloseOp, PingOp, PongOp}
  BY <1>3
<1> QED BY <1>1, <1>2, <1>4, <1>5, <1>6, <1>7, <1>8, <1>9 DEF m, bad, text

\* The message that a frame is part of is a sequence of bytes.
LEMMA PartWithType ==
    ASSUME NEW f \in FrameRecord, NEW c, Sensible(c)
    PROVE  /\ c.part \in Seq(Byte) /\ f.data \in Seq(Byte) /\ PartWith(f, c) \in Seq(Byte)
           /\ f.op \in 0..15 /\ OpIn(f, c) \in 0..15 /\ f.fin \in BOOLEAN
           /\ c.on \in BOOLEAN /\ c.inside \in BOOLEAN
           /\ c.messages \in Seq(Seq(Byte)) /\ c.pings \in Seq(Seq(Byte))
<1>1. c \in Conversation
  BY DEF Sensible
<1>2. c.part \in Seq(Byte) /\ c.op \in 0..15 /\ c.on \in BOOLEAN /\ c.inside \in BOOLEAN
      /\ c.messages \in Seq(Seq(Byte)) /\ c.pings \in Seq(Seq(Byte))
  BY <1>1 DEF Conversation
<1>3. f.data \in Seq(Byte) /\ f.op \in 0..15 /\ f.fin \in BOOLEAN
  BY DEF FrameRecord
<1>4. PartWith(f, c) \in Seq(Byte)
  BY <1>2, <1>3, ConcatProperties DEF PartWith
<1> QED BY <1>2, <1>3, <1>4 DEF OpIn

\* More said leaves what was said.
LEMMA AppendExtends ==
    ASSUME NEW p \in Seq(Seq(Byte)), NEW x \in Seq(Byte)
    PROVE  Extends(p, Append(p, x)) /\ Extends(p, p)
<1>1. /\ Append(p, x) \in Seq(Seq(Byte)) /\ Len(Append(p, x)) = Len(p) + 1
      /\ \A i \in 1..Len(p) : Append(p, x)[i] = p[i]
  BY AppendProperties
<1>2. Len(p) \in Nat
  BY LenProperties
<1> QED BY <1>1, <1>2 DEF Extends

\* ... and so does more said twice.
LEMMA ExtendsTrans ==
    ASSUME NEW p, NEW q, NEW r, Extends(p, q), Extends(q, r)
    PROVE  Extends(p, r)
<1>1. p \in Seq(Seq(Byte)) /\ q \in Seq(Seq(Byte)) /\ r \in Seq(Seq(Byte))
  BY DEF Extends
<1>2. Len(p) \in Nat /\ Len(q) \in Nat /\ Len(r) \in Nat
  BY <1>1, LenProperties
<1>3. Len(p) <= Len(q) /\ Len(q) <= Len(r) /\ (\A i \in 1..Len(p) : q[i] = p[i]) /\ \A i \in 1..Len(q) : r[i] = q[i]
  BY DEF Extends
<1>4. \A i \in 1..Len(p) : r[i] = p[i]
  <2> TAKE i \in 1..Len(p)
  <2>1. i \in 1..Len(q)
    BY <1>2, <1>3
  <2> QED BY <1>3, <2>1
<1>5. Len(p) <= Len(r)
  BY <1>2, <1>3
<1> QED BY <1>1, <1>4, <1>5 DEF Extends

\* A frame that is said keeps the conversation sensible, and takes nothing back.
LEMMA MeaningKeeps ==
    ASSUME NEW f \in FrameRecord, NEW c, Sensible(c)
    PROVE  LET m == Meaning(f, c)
           IN  /\ Sensible(m) /\ Extends(c.messages, m.messages) /\ Extends(c.pings, m.pings)
               /\ Dead(c) => Dead(m) /\ m.messages = c.messages
<1> DEFINE m == Meaning(f, c)
           Goal == /\ Sensible(m) /\ Extends(c.messages, m.messages) /\ Extends(c.pings, m.pings)
                   /\ Dead(c) => Dead(m) /\ m.messages = c.messages
<1>1. /\ c.part \in Seq(Byte) /\ f.data \in Seq(Byte) /\ PartWith(f, c) \in Seq(Byte)
      /\ f.op \in 0..15 /\ OpIn(f, c) \in 0..15 /\ f.fin \in BOOLEAN
      /\ c.on \in BOOLEAN /\ c.inside \in BOOLEAN
      /\ c.messages \in Seq(Seq(Byte)) /\ c.pings \in Seq(Seq(Byte))
  BY PartWithType
<1>2. c \in Conversation /\ (c.on /\ ~c.inside => c.part = <<>>) /\ (c.on /\ c.inside => c.op \in {Text, Binary})
  BY DEF Sensible
<1>3. \A x \in Seq(Byte) : /\ Extends(c.messages, Append(c.messages, x)) /\ Append(c.messages, x) \in Seq(Seq(Byte))
                           /\ Extends(c.pings, Append(c.pings, x)) /\ Append(c.pings, x) \in Seq(Seq(Byte))
  BY <1>1, AppendExtends, AppendProperties
<1>4. Extends(c.messages, c.messages) /\ Extends(c.pings, c.pings)
  BY <1>1, <1>3, AppendExtends
<1> HIDE DEF m
<1>5. CASE ~c.on
  <2>1. m = c
    BY <1>5, MeaningCases DEF m
  <2> QED BY <1>4, <2>1 DEF m
<1>6. CASE c.on /\ Forbidden(f, c)
  <2>1. m = [c EXCEPT !.on = FALSE]
    BY <1>6, MeaningCases DEF m
  <2>2. m \in Conversation /\ ~m.on /\ m.messages = c.messages /\ m.pings = c.pings
    BY <1>2, <2>1 DEF Conversation
  <2> QED BY <1>4, <2>2 DEF Sensible, Dead, m
<1>7. CASE c.on /\ ~Forbidden(f, c)
  <2>1. /\ f.op \in {0, Text, Binary, CloseOp, PingOp, PongOp}
        /\ f.op = CloseOp => m = [c EXCEPT !.on = FALSE, !.bye = TRUE]
        /\ f.op = PingOp => m = [c EXCEPT !.pings = IF f.data = <<>> THEN @ ELSE Append(@, f.data)]
        /\ f.op = PongOp => m = c
        /\ f.op < 8 /\ ~f.fin => m = [c EXCEPT !.inside = TRUE, !.op = OpIn(f, c), !.part = PartWith(f, c)]
        /\ f.op < 8 /\ f.fin =>
              m = IF OpIn(f, c) = Text /\ ~IsText(PartWith(f, c)) THEN [c EXCEPT !.on = FALSE]
                  ELSE [c EXCEPT !.inside = FALSE, !.part = <<>>,
                                 !.messages = IF PartWith(f, c) = <<>> THEN @ ELSE Append(@, PartWith(f, c))]
    BY <1>7, MeaningCases DEF m
  <2>2. CASE f.op = CloseOp
    <3>1. m \in Conversation /\ ~m.on /\ m.messages = c.messages /\ m.pings = c.pings
      BY <1>2, <2>1, <2>2 DEF Conversation
    <3> QED BY <1>4, <3>1 DEF Sensible, Dead, m
  <2>3. CASE f.op = PingOp
    <3> DEFINE p == IF f.data = <<>> THEN c.pings ELSE Append(c.pings, f.data)
    <3>1. m = [c EXCEPT !.pings = p]
      BY <2>1, <2>3
    <3>2. p \in Seq(Seq(Byte)) /\ Extends(c.pings, p)
      BY <1>1, <1>3, <1>4
    <3> HIDE DEF p
    <3>3. m \in Conversation
      BY <1>2, <3>1, <3>2 DEF Conversation
    <3>4. /\ m.on = c.on /\ m.inside = c.inside /\ m.op = c.op /\ m.part = c.part
          /\ m.messages = c.messages /\ m.pings = p
      BY <1>2, <3>1 DEF Conversation
    <3> QED BY <1>2, <1>4, <3>2, <3>3, <3>4 DEF Sensible, Dead, m
  <2>4. CASE f.op = PongOp
    <3>1. m = c
      BY <2>1, <2>4
    <3> QED BY <1>4, <3>1 DEF m
  <2>5. CASE f.op < 8
    <3>0. f.op \in {0, Text, Binary} /\ (f.op = 0 <=> c.inside)
      BY <1>1, <1>7, <2>1, <2>5 DEF Forbidden, Text, Binary, CloseOp, PingOp, PongOp
    <3>1. OpIn(f, c) \in {Text, Binary}
      BY <1>2, <1>7, <3>0 DEF OpIn
    <3>2. Dead(c) => /\ OpIn(f, c) = Text /\ Utf8After("S0", PartWith(f, c)) = "ER" /\ ~IsText(PartWith(f, c))
      <4> SUFFICES ASSUME Dead(c)
                   PROVE  OpIn(f, c) = Text /\ Utf8After("S0", PartWith(f, c)) = "ER" /\ ~IsText(PartWith(f, c))
        OBVIOUS
      <4>1. c.inside /\ c.op = Text /\ Utf8After("S0", c.part) = "ER"
        BY <1>7 DEF Dead
      <4>2. OpIn(f, c) = Text
        BY <3>0, <4>1 DEF OpIn
      <4>3. "S0" \in Utf8States
        BY DEF Utf8States
      <4>4. Utf8After("S0", PartWith(f, c)) = "ER"
        BY <1>1, <4>1, <4>3, Utf8AfterParts, Utf8AfterError DEF PartWith
      <4> QED BY <1>1, <4>2, <4>4, TextIsUtf8
    <3>3. CASE ~f.fin
      <4>1. m = [c EXCEPT !.inside = TRUE, !.op = OpIn(f, c), !.part = PartWith(f, c)]
        BY <2>1, <2>5, <3>3
      <4>2. m \in Conversation
        BY <1>1, <1>2, <4>1 DEF Conversation
      <4>3. /\ m.on = c.on /\ m.inside = TRUE /\ m.op = OpIn(f, c) /\ m.part = PartWith(f, c)
            /\ m.messages = c.messages /\ m.pings = c.pings
        BY <1>2, <4>1 DEF Conversation
      <4> QED BY <1>4, <3>1, <3>2, <4>2, <4>3 DEF Sensible, Dead, m
    <3>4. CASE f.fin /\ OpIn(f, c) = Text /\ ~IsText(PartWith(f, c))
      <4>1. m = [c EXCEPT !.on = FALSE]
        BY <2>1, <2>5, <3>4
      <4>2. m \in Conversation /\ ~m.on /\ m.messages = c.messages /\ m.pings = c.pings
        BY <1>2, <4>1 DEF Conversation
      <4> QED BY <1>4, <4>2 DEF Sensible, Dead, m
    <3>5. CASE f.fin /\ ~(OpIn(f, c) = Text /\ ~IsText(PartWith(f, c)))
      <4> DEFINE p == IF PartWith(f, c) = <<>> THEN c.messages ELSE Append(c.messages, PartWith(f, c))
      <4>1. m = [c EXCEPT !.inside = FALSE, !.part = <<>>, !.messages = p]
        BY <2>1, <2>5, <3>5
      <4>2. p \in Seq(Seq(Byte)) /\ Extends(c.messages, p)
        BY <1>1, <1>3, <1>4
      <4> HIDE DEF p
      <4>3. m \in Conversation
        <5>1. <<>> \in Seq(Byte)
          OBVIOUS
        <5> QED BY <1>2, <4>1, <4>2, <5>1 DEF Conversation
      <4>4. m.on = c.on /\ m.inside = FALSE /\ m.part = <<>> /\ m.messages = p /\ m.pings = c.pings
        BY <1>2, <4>1 DEF Conversation
      <4> QED BY <1>4, <3>2, <3>5, <4>2, <4>3, <4>4 DEF Sensible, m
    <3> QED BY <1>1, <3>3, <3>4, <3>5
  <2>6. f.op \in {CloseOp, PingOp, PongOp} \/ f.op < 8
    BY <2>1 DEF Text, Binary, CloseOp, PingOp, PongOp
  <2> QED BY <2>2, <2>3, <2>4, <2>5, <2>6
<1> QED BY <1>1, <1>5, <1>6, <1>7 DEF m

\* A stream is understood frame by frame.
LEMMA MeaningsUnroll ==
    ASSUME NEW s \in Streams
    PROVE  /\ Len(s) \in Nat /\ Meanings[s][0] = Silence
           /\ \A k \in 0..Len(s) : Sensible(Meanings[s][k])
           /\ \A k \in 1..Len(s) : s[k] \in FrameRecord /\ Meanings[s][k] = Meaning(s[k], Meanings[s][k - 1])
<1> DEFINE n == Len(s)
           V == {c \in Conversation : Sensible(c)}
           G == [p \in Nat \X V |-> IF p[1] \in 1..n THEN Meaning(s[p[1]], p[2]) ELSE p[2]]
           Means(u) == u = [i \in 0..n |-> IF i = 0 THEN Silence ELSE Meaning(s[i], u[i - 1])]
           w == Meanings[s]
<1>1. n \in Nat /\ \A k \in 1..n : s[k] \in FrameRecord
  BY WiresUnroll
<1> HIDE DEF n
<1>2. Silence \in V
  <2>1. <<>> \in Seq(Byte) /\ <<>> \in Seq(Seq(Byte))
    OBVIOUS
  <2>2. Silence \in Conversation
    BY <2>1 DEF Silence, Conversation
  <2> QED BY <2>2 DEF Silence, Sensible
<1>3. \A k \in 1..n : \A c \in V : Meaning(s[k], c) \in V
  <2> TAKE k \in 1..n
  <2> TAKE c \in V
  <2>1. s[k] \in FrameRecord /\ Sensible(c)
    BY <1>1
  <2>2. Sensible(Meaning(s[k], c))
    BY <2>1, MeaningKeeps
  <2> QED BY <2>2 DEF Sensible
<1>4. G \in [Nat \X V -> V]
  <2> HIDE DEF V
  <2> QED BY <1>3
<1>5. PICK f : Unrolls(V, Silence, G, n, f)
  <2> HIDE DEF G, V
  <2> QED BY <1>1, <1>2, <1>4, RecursionExists
<1>6. f \in [0..n -> V] /\ f[0] = Silence /\ \A j \in 1..n : f[j] = G[<<j, f[j - 1]>>]
  BY <1>5 DEF Unrolls
<1>7. \A j \in 1..n : f[j] = Meaning(s[j], f[j - 1])
  <2> HIDE DEF V
  <2> TAKE j \in 1..n
  <2>1. j \in Nat /\ j - 1 \in 0..n
    BY <1>1
  <2>2. <<j, f[j - 1]>> \in Nat \X V
    BY <1>6, <2>1
  <2> QED BY <1>6, <2>2
<1>8. Means(f)
  <2> HIDE DEF V, G
  <2>1. f = [i \in 0..n |-> f[i]]
    BY <1>6
  <2>2. \A i \in 0..n : f[i] = IF i = 0 THEN Silence ELSE Meaning(s[i], f[i - 1])
    <3> TAKE i \in 0..n
    <3>1. CASE i = 0
      BY <1>6, <3>1
    <3>2. CASE i # 0
      <4>1. i \in 1..n
        BY <1>1, <3>2
      <4> QED BY <1>7, <3>2, <4>1
    <3> QED BY <3>1, <3>2
  <2> QED BY <2>1, <2>2
<1>9. w = CHOOSE u : Means(u)
  BY DEF Meanings, n
<1>10. Means(w)
  <2> HIDE DEF Means, w
  <2> QED BY <1>8, <1>9
<1> HIDE DEF w
<1>11. w[0] = Silence /\ \A k \in 1..n : w[k] = Meaning(s[k], w[k - 1])
  <2>1. w = [i \in 0..n |-> IF i = 0 THEN Silence ELSE Meaning(s[i], w[i - 1])]
    BY <1>10
  <2>2. 0 \in 0..n /\ \A k \in 1..n : k \in 0..n /\ k # 0
    BY <1>1
  <2>3. w[0] = Silence
    BY <2>1, <2>2
  <2>4. \A k \in 1..n : w[k] = Meaning(s[k], w[k - 1])
    BY <2>1, <2>2
  <2> QED BY <2>3, <2>4
<1> DEFINE T == {k \in Nat : k <= n => w[k] \in V}
<1>12. 0 \in T
  BY <1>2, <1>11
<1>13. ASSUME NEW k \in Nat, k \in T PROVE k + 1 \in T
  <2> HIDE DEF V
  <2> SUFFICES ASSUME k + 1 <= n PROVE w[k + 1] \in V
    OBVIOUS
  <2>1. k + 1 \in 1..n /\ (k + 1) - 1 = k /\ k <= n
    BY <1>1
  <2>2. w[k] \in V /\ w[k + 1] = Meaning(s[k + 1], w[k])
    BY <1>11, <1>13, <2>1
  <2> QED BY <1>3, <2>1, <2>2
<1> HIDE DEF T
<1>14. Nat \subseteq T
  BY <1>12, <1>13, NumberInduction
<1>15. \A k \in 0..n : Sensible(w[k])
  BY <1>1, <1>14 DEF T
<1> QED BY <1>1, <1>11, <1>15 DEF n, w

\* What was said stays said, and a dead conversation says no more.
LEMMA ConversationGrows ==
    ASSUME stream \in Streams, NEW i \in 0..Len(stream), NEW j \in 0..Len(stream), i <= j
    PROVE  /\ Extends(Conv(i).messages, Conv(j).messages) /\ Extends(Conv(i).pings, Conv(j).pings)
           /\ Dead(Conv(i)) => Conv(j).messages = Conv(i).messages
<1> DEFINE n == Len(stream)
           c == Conv(i)
           Holds(m) == /\ Extends(c.messages, Conv(m).messages) /\ Extends(c.pings, Conv(m).pings)
                       /\ Dead(c) => Dead(Conv(m)) /\ Conv(m).messages = c.messages
           T == {m \in Nat : i + m <= n => Holds(i + m)}
<1>1. /\ n \in Nat /\ i \in Nat /\ j \in Nat /\ j <= n
      /\ \A k \in 0..n : Sensible(Conv(k))
      /\ \A k \in 1..n : stream[k] \in FrameRecord /\ Conv(k) = Meaning(stream[k], Conv(k - 1))
  BY MeaningsUnroll DEF Conv
<1> HIDE DEF n
<1>2. 0 \in T
  <2>1. Sensible(c) /\ i + 0 = i
    BY <1>1
  <2>2. c.messages \in Seq(Seq(Byte)) /\ c.pings \in Seq(Seq(Byte)) /\ <<>> \in Seq(Byte)
    BY <2>1 DEF Sensible, Conversation
  <2>3. Holds(i)
    BY <2>2, AppendExtends
  <2> HIDE DEF Holds, c
  <2> QED BY <2>1, <2>3
<1>3. ASSUME NEW m \in Nat, m \in T PROVE m + 1 \in T
  <2> SUFFICES ASSUME i + (m + 1) <= n PROVE Holds(i + (m + 1))
    OBVIOUS
  <2> DEFINE k == i + (m + 1)
             d == Conv(i + m)
  <2>1. k \in 1..n /\ k - 1 = i + m /\ i + m \in 0..n /\ i + m <= n
    BY <1>1
  <2>2. Sensible(d) /\ stream[k] \in FrameRecord /\ Conv(k) = Meaning(stream[k], d)
    BY <1>1, <2>1
  <2>3. Holds(i + m)
    BY <1>3, <2>1
  <2>4. /\ Extends(d.messages, Conv(k).messages) /\ Extends(d.pings, Conv(k).pings)
        /\ Dead(d) => Dead(Conv(k)) /\ Conv(k).messages = d.messages
    BY <2>2, MeaningKeeps
  <2>5. Extends(c.messages, Conv(k).messages) /\ Extends(c.pings, Conv(k).pings)
    BY <2>3, <2>4, ExtendsTrans
  <2> HIDE DEF c, k
  <2>6. Holds(k)
    BY <2>3, <2>4, <2>5
  <2> QED BY <2>6 DEF k
<1> HIDE DEF T
<1>4. j - i \in T
  <2>1. Nat \subseteq T
    BY <1>2, <1>3, NumberInduction
  <2> QED BY <1>1, <2>1
<1>5. Holds(j)
  <2> HIDE DEF Holds
  <2>1. j - i \in Nat /\ i + (j - i) = j /\ i + (j - i) <= n
    BY <1>1
  <2>2. Holds(i + (j - i))
    BY <1>4, <2>1 DEF T
  <2> QED BY <2>1, <2>2
<1> QED BY <1>5

\* Streams get longer with each frame.
LEMMA EndsGrow ==
    ASSUME stream \in Streams, NEW i \in 0..Len(stream), NEW j \in 0..Len(stream), i <= j
    PROVE  EndOf(i) \in Nat /\ EndOf(j) \in Nat /\ EndOf(i) <= EndOf(j)
<1> DEFINE n == Len(stream)
           T == {m \in Nat : i + m <= n => EndOf(i) <= EndOf(i + m)}
<1>1. n \in Nat /\ i \in Nat /\ j \in Nat /\ \A k \in 0..n : EndOf(k) \in Nat
  <2>1. n \in Nat /\ \A k \in 0..n : Wires[stream][k] \in Seq(WireByte)
    BY WiresUnroll
  <2> QED BY <2>1, LenProperties DEF EndOf
<1>2. \A k \in Nat : k < n => EndOf(k) <= EndOf(k + 1)
  <2> TAKE k \in Nat
  <2> SUFFICES ASSUME k < n PROVE EndOf(k) <= EndOf(k + 1)
    OBVIOUS
  <2> DEFINE f == stream[k + 1]
  <2>1. WellFormed(f) /\ EndOf(k) \in Nat /\ EndOf(k + 1) = EndOf(k) + (HeadSize(f) + Len(f.data))
    BY NextFrame
  <2>2. HeadSize(f) \in Nat /\ Len(f.data) \in Nat
    BY <2>1, FrameFields
  <2> QED BY <2>1, <2>2
<1> HIDE DEF n
<1>3. 0 \in T
  BY <1>1
<1>4. ASSUME NEW m \in Nat, m \in T PROVE m + 1 \in T
  <2> SUFFICES ASSUME i + (m + 1) <= n PROVE EndOf(i) <= EndOf(i + (m + 1))
    OBVIOUS
  <2>1. i + m \in Nat /\ i + m < n /\ (i + m) + 1 = i + (m + 1) /\ i + m \in 0..n /\ i + (m + 1) \in 0..n
    BY <1>1
  <2>2. EndOf(i) <= EndOf(i + m) /\ EndOf(i + m) <= EndOf(i + (m + 1))
    BY <1>2, <1>4, <2>1
  <2> QED BY <1>1, <2>1, <2>2
<1> HIDE DEF T
<1>5. j - i \in T
  <2>1. Nat \subseteq T
    BY <1>3, <1>4, NumberInduction
  <2> QED BY <1>1, <2>1
<1>6. i + (j - i) = j /\ i + (j - i) <= n
  BY <1>1 DEF n
<1>7. EndOf(i) <= EndOf(j)
  BY <1>5, <1>6 DEF T
<1> QED BY <1>1, <1>7 DEF n

\* A conversation in which frame k + 1 is not allowed is over.
LEMMA SettledWhenDead ==
    ASSUME stream \in Streams, NEW k \in 0..Len(stream), k < Len(stream) => /\ Dead(Conv(k + 1))
                                                            /\ Conv(k + 1).messages = Conv(k).messages
    PROVE  Settled(k)
<1> SUFFICES ASSUME NEW j \in 0..Len(stream), k <= j, EndOf(j) <= arrived
             PROVE  Conv(j).messages = Conv(k).messages
  BY DEF Settled
<1>1. Len(stream) \in Nat
  BY MeaningsUnroll
<1>2. CASE j = k
  BY <1>2
<1>3. CASE j # k
  <2>1. k + 1 \in 0..Len(stream) /\ k + 1 <= j /\ k < Len(stream)
    BY <1>1, <1>3
  <2>2. Conv(j).messages = Conv(k + 1).messages
    BY <2>1, ConversationGrows
  <2> QED BY <2>1, <2>2
<1> QED BY <1>2, <1>3

\* ... and so is one of which frame k + 1 does not arrive.
LEMMA SettledWhenCut ==
    ASSUME stream \in Streams, arrived \in Nat, NEW k \in 0..Len(stream), k < Len(stream) => EndOf(k + 1) > arrived
    PROVE  Settled(k)
<1> SUFFICES ASSUME NEW j \in 0..Len(stream), k <= j, EndOf(j) <= arrived
             PROVE  Conv(j).messages = Conv(k).messages
  BY DEF Settled
<1>1. Len(stream) \in Nat
  BY MeaningsUnroll
<1>2. CASE j = k
  BY <1>2
<1>3. CASE j # k
  <2>1. k + 1 \in 0..Len(stream) /\ k + 1 <= j /\ k < Len(stream)
    BY <1>1, <1>3
  <2>2. EndOf(k + 1) <= EndOf(j) /\ EndOf(k + 1) \in Nat /\ EndOf(j) \in Nat
    BY <2>1, EndsGrow
  <2> QED BY <2>1, <2>2
<1> QED BY <1>2, <1>3

---------------------------------------------------------------------------
(* The steps of mg_websocket_incoming_frame.                               *)

\* The states it comes to.
AfterStart(s, a, w, o) ==
    [s EXCEPT !.fin = a, !.frame = w, !.opcode = o, !.framing = "PAYLOAD_LENGTH", !.length = 0, !.ext = 0]
AfterLength(s, e, l) == [s EXCEPT !.masking = TRUE, !.ext = e, !.length = l, !.framing = "PAYLOAD_LENGTH_EXT"]
AfterExt(s, e, l, g) == [s EXCEPT !.length = l, !.ext = e, !.framing = g]
AfterMask(s, i) == [s EXCEPT !.index = i]
AfterLastMask(s, b) == [s EXCEPT !.index = 0, !.offset = 0, !.masking = b, !.framing = "APPLICATION_DATA"]
AfterPayload(s, l, o) == [s EXCEPT !.length = l, !.offset = o]
AfterFrame(s) == [s EXCEPT !.framing = "START", !.length = 0]

\* The fields of a state.
StateIs(r, g, l, e, i, x, a, w, o) ==
    /\ r \in StateRecord /\ r.framing = g /\ r.length = l /\ r.ext = e /\ r.index = i /\ r.offset = x
    /\ r.fin = a /\ r.frame = w /\ r.opcode = o

\* The fields of the state of the decoder after its first byte,
LEMMA StateAfterStart ==
    ASSUME NEW s \in StateRecord, NEW a \in BOOLEAN, NEW w \in {"control", "message"}, NEW o \in 0..255
    PROVE  StateIs(AfterStart(s, a, w, o), "PAYLOAD_LENGTH", 0, 0, s.index, s.offset, a, w, o)
<1> DEFINE g == "PAYLOAD_LENGTH"
           e == 0..8
           r == [s EXCEPT !.fin = a, !.frame = w, !.opcode = o, !.framing = g, !.length = 0, !.ext = 0]
<1>1. g \in Framings /\ 0 \in e
  BY DEF Framings
<1>2. s \in [framing : Framings, fin : BOOLEAN, opcode : 0..255, length : Nat, ext : e, masking : BOOLEAN,
              index : 0..3, offset : Nat, frame : {"control", "message"}, status : Statuses]
  BY DEF StateRecord
<1> HIDE DEF g, e
<1>3. r \in [framing : Framings, fin : BOOLEAN, opcode : 0..255, length : Nat, ext : e, masking : BOOLEAN,
              index : 0..3, offset : Nat, frame : {"control", "message"}, status : Statuses]
  BY <1>1, <1>2
<1>4. r.framing = g /\ r.length = 0 /\ r.ext = 0 /\ r.index = s.index /\ r.offset = s.offset
  BY <1>2
<1>5. r.fin = a /\ r.frame = w /\ r.opcode = o
  BY <1>2
<1> QED BY <1>3, <1>4, <1>5 DEF StateRecord, AfterStart, StateIs, g, e

\* the second byte,
LEMMA StateAfterLength ==
    ASSUME NEW s \in StateRecord, NEW e \in 0..8, NEW l \in Nat
    PROVE  StateIs(AfterLength(s, e, l), "PAYLOAD_LENGTH_EXT", l, e, s.index, s.offset, s.fin, s.frame, s.opcode)
<1> DEFINE g == "PAYLOAD_LENGTH_EXT"
           r == [s EXCEPT !.masking = TRUE, !.ext = e, !.length = l, !.framing = g]
<1>1. g \in Framings
  BY DEF Framings
<1> HIDE DEF g
<1>2. r \in StateRecord
  BY <1>1 DEF StateRecord
<1>3. r.framing = g /\ r.length = l /\ r.ext = e /\ r.index = s.index /\ r.offset = s.offset
  BY DEF StateRecord
<1>4. r.fin = s.fin /\ r.frame = s.frame /\ r.opcode = s.opcode
  BY DEF StateRecord
<1> QED BY <1>2, <1>3, <1>4 DEF AfterLength, StateIs, g

\* a piece of the length,
LEMMA StateAfterExt ==
    ASSUME NEW s \in StateRecord, NEW e \in 0..8, NEW l \in Nat, NEW g \in {"PAYLOAD_LENGTH_EXT", "MASK"}
    PROVE  StateIs(AfterExt(s, e, l, g), g, l, e, s.index, s.offset, s.fin, s.frame, s.opcode)
<1> DEFINE r == [s EXCEPT !.length = l, !.ext = e, !.framing = g]
<1>1. g \in Framings
  BY DEF Framings
<1>2. r \in StateRecord
  BY <1>1 DEF StateRecord
<1>3. r.framing = g /\ r.length = l /\ r.ext = e /\ r.index = s.index /\ r.offset = s.offset
  BY DEF StateRecord
<1>4. r.fin = s.fin /\ r.frame = s.frame /\ r.opcode = s.opcode
  BY DEF StateRecord
<1> QED BY <1>2, <1>3, <1>4 DEF AfterExt, StateIs

\* a byte of the mask,
LEMMA StateAfterMask ==
    ASSUME NEW s \in StateRecord, NEW i \in 0..3
    PROVE  StateIs(AfterMask(s, i), s.framing, s.length, s.ext, i, s.offset, s.fin, s.frame, s.opcode)
<1> DEFINE r == [s EXCEPT !.index = i]
<1>1. r \in StateRecord
  BY DEF StateRecord
<1>2. r.framing = s.framing /\ r.length = s.length /\ r.ext = s.ext /\ r.index = i /\ r.offset = s.offset
  BY DEF StateRecord
<1>3. r.fin = s.fin /\ r.frame = s.frame /\ r.opcode = s.opcode
  BY DEF StateRecord
<1> QED BY <1>1, <1>2, <1>3 DEF AfterMask, StateIs

\* the last byte of the mask,
LEMMA StateAfterLastMask ==
    ASSUME NEW s \in StateRecord, NEW b \in BOOLEAN
    PROVE  StateIs(AfterLastMask(s, b), "APPLICATION_DATA", s.length, s.ext, 0, 0, s.fin, s.frame, s.opcode)
<1> DEFINE g == "APPLICATION_DATA"
           e == 0..3
           r == [s EXCEPT !.index = 0, !.offset = 0, !.masking = b, !.framing = g]
<1>1. g \in Framings /\ 0 \in e
  BY DEF Framings
<1>2. s \in [framing : Framings, fin : BOOLEAN, opcode : 0..255, length : Nat, ext : 0..8, masking : BOOLEAN,
              index : e, offset : Nat, frame : {"control", "message"}, status : Statuses]
  BY DEF StateRecord
<1> HIDE DEF g, e
<1>3. r \in [framing : Framings, fin : BOOLEAN, opcode : 0..255, length : Nat, ext : 0..8, masking : BOOLEAN,
              index : e, offset : Nat, frame : {"control", "message"}, status : Statuses]
  BY <1>1, <1>2
<1>4. r.framing = g /\ r.length = s.length /\ r.ext = s.ext /\ r.index = 0 /\ r.offset = 0
  BY <1>2
<1>5. r.fin = s.fin /\ r.frame = s.frame /\ r.opcode = s.opcode
  BY <1>2
<1> QED BY <1>3, <1>4, <1>5 DEF StateRecord, AfterLastMask, StateIs, g, e

\* a piece of the payload,
LEMMA StateAfterPayload ==
    ASSUME NEW s \in StateRecord, NEW l \in Nat, NEW o \in Nat
    PROVE  StateIs(AfterPayload(s, l, o), s.framing, l, s.ext, s.index, o, s.fin, s.frame, s.opcode)
<1> DEFINE r == [s EXCEPT !.length = l, !.offset = o]
<1>1. r \in StateRecord
  BY DEF StateRecord
<1>2. r.framing = s.framing /\ r.length = l /\ r.ext = s.ext /\ r.index = s.index /\ r.offset = o
  BY DEF StateRecord
<1>3. r.fin = s.fin /\ r.frame = s.frame /\ r.opcode = s.opcode
  BY DEF StateRecord
<1> QED BY <1>1, <1>2, <1>3 DEF AfterPayload, StateIs

\* and the end of a frame.
LEMMA StateAfterFrame ==
    ASSUME NEW s \in StateRecord
    PROVE  StateIs(AfterFrame(s), "START", 0, s.ext, s.index, s.offset, s.fin, s.frame, s.opcode)
<1> DEFINE g == "START"
           r == [s EXCEPT !.framing = g, !.length = 0]
<1>1. g \in Framings
  BY DEF Framings
<1> HIDE DEF g
<1>2. r \in StateRecord
  BY <1>1 DEF StateRecord
<1>3. r.framing = g /\ r.length = 0 /\ r.ext = s.ext /\ r.index = s.index /\ r.offset = s.offset
  BY DEF StateRecord
<1>4. r.fin = s.fin /\ r.frame = s.frame /\ r.opcode = s.opcode
  BY DEF StateRecord
<1> QED BY <1>2, <1>3, <1>4 DEF AfterFrame, StateIs, g

\* The types of the fields of the state ...
LEMMA StateFields ==
    ASSUME NEW s \in StateRecord
    PROVE  /\ s.fin \in BOOLEAN /\ s.opcode \in 0..255 /\ s.length \in Nat /\ s.ext \in 0..8
           /\ s.masking \in BOOLEAN /\ s.index \in 0..3 /\ s.offset \in Nat /\ s.frame \in {"control", "message"}
           /\ s.framing \in {"START", "PAYLOAD_LENGTH", "PAYLOAD_LENGTH_EXT", "MASK", "APPLICATION_DATA", "CLOSE"}
BY DEF StateRecord, Framings

\* ... and of the two frames it fills.
LEMMA FramesFields ==
    ASSUME NEW fr \in BothFrames
    PROVE  \A w \in {"control", "message"} :
              /\ fr[w] \in FrameState /\ fr[w].opcode \in 0..15 /\ fr[w].fin \in BOOLEAN
              /\ fr[w].utf8 \in Utf8States /\ fr[w].data \in Seq(Byte)
BY DEF BothFrames, FrameState

\* A decoder that has bytes left, or has begun with a frame, is in one of the frames.
LEMMA InSomeFrame ==
    ASSUME ClientTyped, NEW k, Stays(k, state, decoded, taken, remaining_length, frames),
           taken > decoded \/ state.framing # "START"
    PROVE  /\ stream \in Streams /\ k \in Nat /\ k < Len(stream) /\ k \in 0..Len(stream) /\ k + 1 \in 0..Len(stream)
           /\ Len(stream) \in Nat
           /\ state.framing # "CLOSE" /\ state \in StateRecord /\ frames \in BothFrames
           /\ taken \in Nat /\ decoded \in Nat /\ decoded <= taken /\ taken <= arrived /\ arrived \in Nat
           /\ EndOf(k) \in Nat /\ EndOf(k) <= decoded
           /\ Decoding(k, state, decoded, taken, remaining_length) /\ Understands(k, state, frames)
           /\ WellFormed(stream[k + 1]) /\ stream[k + 1] \in FrameRecord
           /\ Sensible(Conv(k)) /\ Conv(k).on /\ Conv(k + 1) = Meaning(stream[k + 1], Conv(k))
<1>1. /\ state.framing # "CLOSE" /\ k \in 0..Len(stream) /\ frames \in BothFrames
      /\ state \in StateRecord /\ decoded \in 0..taken
      /\ Decoding(k, state, decoded, taken, remaining_length) /\ Understands(k, state, frames)
  BY DEF Stays, Goes
<1>2. /\ stream \in Streams /\ taken \in 0..arrived /\ arrived \in 0..EndOf(Len(stream))
  BY DEF ClientTyped
<1>3. /\ Len(stream) \in Nat /\ k \in Nat /\ EndOf(k) \in Nat /\ EndOf(Len(stream)) \in Nat
  <2>1. Len(stream) \in Nat
    BY <1>2, WiresUnroll
  <2>2. Len(stream) \in 0..Len(stream) /\ k <= Len(stream) /\ k \in Nat
    BY <1>1, <2>1
  <2> QED BY <1>1, <1>2, <2>1, <2>2, EndsGrow
<1>4. taken \in Nat /\ decoded \in Nat /\ decoded <= taken /\ taken <= arrived /\ arrived \in Nat
      /\ arrived <= EndOf(Len(stream))
  BY <1>1, <1>2, <1>3
<1>5. k < Len(stream)
  <2>1. CASE state.framing # "START"
    BY <1>1, <2>1 DEF Decoding, InFrame
  <2>2. CASE state.framing = "START"
    <3>1. decoded = EndOf(k) /\ taken > decoded
      BY <1>1, <2>2 DEF Decoding, InFrame
    <3>2. k # Len(stream)
      BY <1>3, <1>4, <3>1
    <3> QED BY <1>1, <1>3, <3>2
  <2> QED BY <2>1, <2>2
<1>6. k + 1 \in 0..Len(stream) /\ k + 1 \in 1..Len(stream) /\ (k + 1) - 1 = k
  BY <1>3, <1>5
<1>7. /\ WellFormed(stream[k + 1]) /\ stream[k + 1] \in FrameRecord
      /\ Sensible(Conv(k)) /\ Conv(k + 1) = Meaning(stream[k + 1], Conv(k))
  <2>1. WellFormed(stream[k + 1])
    BY <1>2, <1>6, WiresUnroll
  <2>2. \A i \in 0..Len(stream) : Sensible(Conv(i))
    BY <1>2, MeaningsUnroll DEF Conv
  <2>3. \A i \in 1..Len(stream) : stream[i] \in FrameRecord /\ Conv(i) = Meaning(stream[i], Conv(i - 1))
    BY <1>2, MeaningsUnroll DEF Conv
  <2>4. stream[k + 1] \in FrameRecord /\ Conv(k + 1) = Meaning(stream[k + 1], Conv((k + 1) - 1))
    BY <1>6, <2>3
  <2> QED BY <1>1, <1>6, <2>1, <2>2, <2>4
<1>8. Conv(k).on
  BY <1>1 DEF Understands
<1>9. EndOf(k) <= decoded
  <2> DEFINE f == stream[k + 1]
  <2>1. HeadSize(f) \in Nat /\ Extra(f) \in Nat
    BY <1>7, FrameFields
  <2>2. InFrame(k, state, decoded) /\ state.index \in 0..3 /\ state.offset \in Nat /\ state.ext \in 0..8
        /\ state.framing \in {"START", "PAYLOAD_LENGTH", "PAYLOAD_LENGTH_EXT", "MASK", "APPLICATION_DATA", "CLOSE"}
    BY <1>1, StateFields DEF Decoding
  <2>3. CASE state.framing = "START"
    BY <1>3, <1>4, <2>2, <2>3 DEF InFrame
  <2>4. CASE state.framing = "PAYLOAD_LENGTH"
    BY <1>3, <1>4, <2>2, <2>4 DEF InFrame
  <2>5. CASE state.framing = "PAYLOAD_LENGTH_EXT"
    <3> DEFINE x == state.ext
               e == Extra(f)
               b == EndOf(k)
    <3>1. x <= e /\ decoded = b + 2 + (e - x)
      BY <2>2, <2>5 DEF InFrame
    <3>2. x \in Nat /\ e \in Nat /\ b \in Nat
      BY <1>3, <2>1, <2>2
    <3> HIDE DEF x, e, b
    <3>3. b <= decoded
      BY <3>1, <3>2
    <3> QED BY <3>3 DEF b
  <2>6. CASE state.framing = "MASK"
    <3>1. decoded = EndOf(k) + 2 + Extra(f) + state.index
      BY <2>2, <2>6 DEF InFrame
    <3> QED BY <1>3, <1>4, <2>1, <2>2, <3>1
  <2>7. CASE state.framing = "APPLICATION_DATA"
    <3>1. decoded = EndOf(k) + HeadSize(f) + state.offset
      BY <2>2, <2>7 DEF InFrame
    <3> QED BY <1>3, <1>4, <2>1, <2>2, <3>1
  <2> QED BY <1>1, <2>2, <2>3, <2>4, <2>5, <2>6, <2>7
<1> QED BY <1>1, <1>2, <1>3, <1>4, <1>5, <1>6, <1>7, <1>8, <1>9

\* A session that is to be closed, and drops its block.
LEMMA Closes ==
    ASSUME NEW k \in 0..Len(stream), NEW s, NEW d, NEW t \in Nat, NEW r, NEW fr \in BothFrames,
           NEW s0 \in StateRecord,
           NEW why \in Statuses,
           s = CloseFrom(s0, why), d = t, EndOf(k) <= t, why = "INTERNAL_ERROR" \/ Settled(k)
    PROVE  Ends(k, s, d, t, r, fr)
<1>1. s \in StateRecord /\ s.framing = "CLOSE"
  BY ClosedRecord
<1>2. s.status = why
  BY DEF CloseFrom, StateRecord
<1>3. d \in 0..t
  OBVIOUS
<1>4. Goes(k, s, d, t, r)
  BY <1>1, <1>3 DEF Goes
<1> QED BY <1>1, <1>2, <1>4 DEF Ends

\* A frame that is not allowed settles what was said.
LEMMA ForbiddenSettles ==
    ASSUME stream \in Streams, NEW k \in 0..Len(stream),
           stream[k + 1] \in FrameRecord, Sensible(Conv(k)), Conv(k).on,
           k < Len(stream) => Conv(k + 1) = Meaning(stream[k + 1], Conv(k)), Forbidden(stream[k + 1], Conv(k))
    PROVE  Settled(k)
<1> DEFINE c == Conv(k)
           m == Conv(k + 1)
<1>1. ASSUME k < Len(stream) PROVE Dead(m) /\ m.messages = c.messages
  <2>1. m = [c EXCEPT !.on = FALSE]
    BY <1>1, MeaningCases
  <2>2. c \in Conversation
    BY DEF Sensible
  <2> HIDE DEF c, m
  <2> QED BY <2>1, <2>2 DEF Conversation, Dead
<1> QED BY <1>1, SettledWhenDead

\* A step inside a frame: it is the same frame, and it has been read before.
LEMMA SameFrame ==
    ASSUME ClientTyped, NEW k, Stays(k, state, decoded, taken, remaining_length, frames), state.framing # "START",
           NEW s \in StateRecord, NEW d \in 0..taken, s.framing \notin {"START", "CLOSE"}, InFrame(k, s, d),
           NEW fr \in BothFrames, MidFrame(stream[k + 1], Conv(k), s, fr)
    PROVE  Stays(k, s, d, taken, remaining_length, fr)
<1>1. /\ k \in 0..Len(stream) /\ Conv(k).on
      /\ Decoding(k, state, decoded, taken, remaining_length)
  BY DEF Stays, Goes, Understands
<1>2. host # "apache" => FrameRead(k, s, d, taken, remaining_length)
  <2> SUFFICES ASSUME host # "apache" PROVE FrameRead(k, s, d, taken, remaining_length)
    OBVIOUS
  <2>1. FrameRead(k, state, decoded, taken, remaining_length)
    BY <1>1 DEF Decoding
  <2> QED BY <2>1 DEF FrameRead
<1>3. Goes(k, s, d, taken, remaining_length)
  BY <1>2 DEF Decoding, Goes
<1>4. Understands(k, s, fr)
  BY <1>1 DEF Understands
<1> QED BY <1>1, <1>3, <1>4 DEF Stays

\* The frames it comes to.
FramesBegun(fr, w, a, z, new, x) ==
    [fr EXCEPT ![w].fin = IF a THEN @ ELSE z, ![w].opcode = IF new THEN x ELSE @,
               ![w].utf8 = IF new THEN "S0" ELSE @]

FramesBegunIs(q, fr, w, z, new, x) ==
    /\ q \in BothFrames
    /\ w = "control" => q.message = fr.message /\ q.control.data = fr.control.data
    /\ w = "message" =>
         /\ q.control = fr.control /\ q.message.data = fr.message.data /\ q.message.fin = z
         /\ q.message.opcode = IF new THEN x ELSE fr.message.opcode
         /\ q.message.utf8 = IF new THEN "S0" ELSE fr.message.utf8

\* The first byte of a frame changes the one frame that it belongs to.
LEMMA FramesAfterStart ==
    ASSUME NEW fr \in BothFrames, NEW w \in {"control", "message"}, NEW a \in BOOLEAN, NEW new \in BOOLEAN,
           NEW x \in 0..15, a => w = "control", NEW z \in BOOLEAN, ~a => w = "message"
    PROVE  FramesBegunIs(FramesBegun(fr, w, a, z, new, x), fr, w, z, new, x)
<1>1. "S0" \in Utf8States
  BY DEF Utf8States
<1>2. CASE w = "control"
  BY <1>1, <1>2 DEF BothFrames, FrameState, FramesBegun, FramesBegunIs
<1>3. CASE w = "message"
  BY <1>1, <1>3 DEF BothFrames, FrameState, FramesBegun, FramesBegunIs
<1> QED BY <1>2, <1>3

\* The first byte of a frame: the decoder is in it, or closes.
LEMMA StartKeeps ==
    ASSUME ClientTyped, NEW k, Stays(k, state, decoded, taken, remaining_length, frames), Start
    PROVE  DecoderAt(k, state', decoded', taken, remaining_length, frames') /\ heard' = heard
<1>1. state.framing = "START" /\ taken - decoded > 0 /\ heard' = heard
  BY DEF Start, Left
<1>2. taken > decoded
  <2>1. taken \in Nat /\ decoded \in Int
    BY DEF ClientTyped, Stays, Goes
  <2> QED BY <1>1, <2>1
<1> DEFINE f == stream[k + 1]
           c == Conv(k)
           b == EndOf(k)
           y == next
<1>3. /\ stream \in Streams /\ k \in Nat /\ k < Len(stream) /\ k \in 0..Len(stream)
      /\ state \in StateRecord /\ frames \in BothFrames
      /\ taken \in Nat /\ decoded \in Nat /\ b \in Nat /\ b <= decoded
      /\ Decoding(k, state, decoded, taken, remaining_length) /\ Understands(k, state, frames)
      /\ WellFormed(f) /\ f \in FrameRecord /\ Sensible(c) /\ c.on /\ Conv(k + 1) = Meaning(f, c)
  BY <1>2, InSomeFrame
<1>4. y = First(f) /\ decoded = b
  <2>1. decoded = b
    BY <1>1, <1>3 DEF Decoding, InFrame
  <2>2. Wire(b + 1) = First(f)
    BY <1>3, NextFrame
  <2> QED BY <2>1, <2>2 DEF next
<1>5. y.fin = f.fin /\ y.op = f.op /\ y.rsv = f.rsv /\ f.fin \in BOOLEAN /\ f.op \in 0..15 /\ f.rsv \in BOOLEAN
  BY <1>3, <1>4, FrameFields
<1>6. HoldsPart(c, frames.message) /\ frames.control.data = <<>>
  BY <1>1, <1>3 DEF Understands
<1>7. /\ frames.message.opcode \in 0..15 /\ frames.message.fin \in BOOLEAN
      /\ c.inside \in BOOLEAN /\ c.part \in Seq(Byte) /\ (~c.inside => c.part = <<>>)
      /\ (c.inside => c.op \in {Text, Binary} /\ frames.message.opcode = c.op)
      /\ frames.message.fin = ~c.inside /\ frames.message.data = c.part
      /\ c.inside /\ c.op = Text => frames.message.utf8 = Utf8After("S0", c.part)
  <2>1. frames.message.opcode \in 0..15 /\ frames.message.fin \in BOOLEAN
    BY <1>3, FramesFields
  <2>2. c.inside \in BOOLEAN /\ c.part \in Seq(Byte)
    BY <1>3, PartWithType
  <2>3. (~c.inside => c.part = <<>>) /\ (c.inside => c.op \in {Text, Binary})
    BY <1>3 DEF Sensible
  <2> QED BY <1>6, <2>1, <2>2, <2>3 DEF HoldsPart
<1> HIDE DEF f, c, b, y
<1>8. CASE y.rsv \/ (y.op >= 8 /\ ~y.fin) \/ Misplaced(y)
  <2>1. state' = CloseFrom(state, "PROTOCOL_ERROR") /\ decoded' = taken /\ frames' = frames
    BY <1>8 DEF Start, DropBlock, y
  <2>2. Forbidden(f, c)
    <3>1. CASE y.rsv
      BY <1>5, <3>1 DEF Forbidden
    <3>2. CASE y.op >= 8 /\ ~y.fin
      BY <1>5, <3>2 DEF Forbidden
    <3>3. CASE Misplaced(y)
      <4>a. c.inside => frames.message.opcode # 0
        BY <1>7 DEF Text, Binary
      <4>b. f.op < 8 /\ ((c.inside /\ f.op # 0) \/ (~c.inside /\ f.op = 0))
        BY ONLY <1>5, <1>7, <3>3, <4>a DEF Misplaced
      <4>1. f.op < 8 /\ c.inside # (f.op = 0)
        BY ONLY <1>7, <4>b
      <4> QED BY <4>1 DEF Forbidden
    <3> QED BY <1>8, <3>1, <3>2, <3>3
  <2>3. Settled(k)
    BY <1>3, <2>2, ForbiddenSettles DEF f, c
  <2>4. "PROTOCOL_ERROR" \in Statuses /\ b <= taken
    BY <1>2, <1>3 DEF Statuses
  <2>5. Ends(k, state', decoded', taken, remaining_length, frames')
    BY <1>3, <2>1, <2>3, <2>4, Closes DEF b
  <2> QED BY <1>1, <2>5 DEF DecoderAt
<1>9. CASE ~(y.rsv \/ (y.op >= 8 /\ ~y.fin) \/ Misplaced(y))
  <2> DEFINE which == IF y.op >= 8 THEN "control" ELSE "message"
             new == y.op # 0
             ctl == y.op >= 8
             code == IF new THEN y.op ELSE frames.message.opcode
  <2>1. /\ state' = [state EXCEPT !.fin = y.fin, !.frame = which, !.opcode = code,
                        !.framing = "PAYLOAD_LENGTH", !.length = 0, !.ext = 0]
        /\ frames' = [frames EXCEPT ![which].fin = IF ctl THEN @ ELSE y.fin,
                                    ![which].opcode = IF new THEN y.op ELSE @,
                                    ![which].utf8 = IF new THEN "S0" ELSE @]
        /\ decoded' = decoded + 1
    BY <1>9 DEF Start, Consume, y
  <2>2. which \in {"control", "message"} /\ new \in BOOLEAN /\ (ctl <=> which = "control") /\ code \in 0..255
    BY <1>5, <1>7
  <2>3. code = IF f.op = 0 THEN c.op ELSE f.op
    <3>1. f.op = 0 => c.inside
      <4>1. SUFFICES ASSUME f.op = 0 PROVE frames.message.fin = FALSE
        BY <1>7
      <4>2. y.op = 0 /\ ~Misplaced(y)
        BY <1>5, <1>9, <4>1
      <4>3. ~frames.message.fin
        BY <4>2 DEF Misplaced
      <4> QED BY <1>7, <4>3
    <3> QED BY <1>5, <1>7, <3>1
  <2>4. f.op < 8 => c.inside = (f.op = 0)
    <3>1. f.op < 8 => (c.inside /\ f.op = 0) \/ (~c.inside /\ f.op # 0)
      BY ONLY <1>5, <1>7, <1>9 DEF Misplaced
    <3> QED BY ONLY <1>7, <3>1
  <2>5. (f.op >= 8 <=> ctl) /\ (f.op < 8 <=> ~ctl) /\ new = (f.op # 0)
    BY <1>5
  <2>0. y.fin \in BOOLEAN /\ y.op \in 0..15 /\ (ctl => which = "control") /\ (~ctl => which = "message") /\ ctl \in BOOLEAN
    BY <1>5
  <2>a. state \in StateRecord /\ frames \in BothFrames
    BY <1>3
  <2>b. which \in {"control", "message"} /\ code \in 0..255 /\ new \in BOOLEAN
    BY <2>2
  <2> HIDE DEF which, new, ctl, code
  <2>6. /\ state' \in StateRecord /\ state'.framing = "PAYLOAD_LENGTH"
        /\ state'.fin = y.fin /\ state'.frame = which /\ state'.opcode = code /\ state'.index = state.index
    <3> DEFINE s == AfterStart(state, y.fin, which, code)
    <3>1. StateIs(s, "PAYLOAD_LENGTH", 0, 0, state.index, state.offset, y.fin, which, code)
      BY ONLY <2>a, <2>0, <2>b, StateAfterStart
    <3>2. state' = s
      BY <2>1 DEF AfterStart
    <3> HIDE DEF s
    <3> QED BY <3>1, <3>2 DEF StateIs
  <2>7. /\ frames' \in BothFrames
        /\ which = "control" => frames'.message = frames.message /\ frames'.control.data = frames.control.data
        /\ which = "message" =>
             /\ frames'.control = frames.control /\ frames'.message.data = frames.message.data
             /\ frames'.message.fin = y.fin
             /\ frames'.message.opcode = IF new THEN y.op ELSE frames.message.opcode
             /\ frames'.message.utf8 = IF new THEN "S0" ELSE frames.message.utf8
    <3> DEFINE q == FramesBegun(frames, which, ctl, y.fin, new, y.op)
    <3>1. FramesBegunIs(q, frames, which, y.fin, new, y.op)
      BY ONLY <2>a, <2>0, <2>b, FramesAfterStart
    <3>2. frames' = q
      BY <2>1 DEF FramesBegun
    <3> HIDE DEF q
    <3> QED BY <3>1, <3>2 DEF FramesBegunIs
  <2>8. InFrame(k, state', decoded')
    <3>1. state.index = 0
      BY <1>1, <1>3 DEF Decoding, InFrame
    <3> QED BY <1>3, <1>4, <2>1, <2>6, <3>1 DEF InFrame, b
  <2>9. host # "apache" => FrameRead(k, state', decoded', taken, remaining_length)
    <3> SUFFICES ASSUME host # "apache" PROVE FrameRead(k, state', decoded', taken, remaining_length)
      OBVIOUS
    <3>1. FrameRead(k, state, decoded, taken, remaining_length)
      BY <1>3 DEF Decoding
    <3> QED BY <1>2, <2>6, <3>1 DEF FrameRead
  <2>10. decoded' \in 0..taken
    BY <1>2, <1>3, <2>1
  <2>11. PayloadOf(f, state') = <<>> /\ c.part \o <<>> = c.part
    <3>1. c.part \o <<>> = c.part
      BY <1>7, ConcatEmptySeq
    <3> QED BY <2>6, <3>1 DEF PayloadOf
  <2>12. MidFrame(f, c, state', frames')
    <3>1. ~f.rsv /\ state'.fin = f.fin /\ (state'.opcode = IF f.op = 0 THEN c.op ELSE f.op)
          /\ (state'.frame = IF f.op >= 8 THEN "control" ELSE "message")
      <4>1. which = IF f.op >= 8 THEN "control" ELSE "message"
        BY <1>5 DEF which
      <4> QED BY <1>5, <1>9, <2>3, <2>6, <4>1
    <3>2. ASSUME f.op >= 8
          PROVE  /\ f.fin /\ (state'.framing # "PAYLOAD_LENGTH" => Extra(f) = 0)
                 /\ HoldsPart(c, frames'.message) /\ frames'.control.data = PayloadOf(f, state')
      <4>1. which = "control"
        BY <2>2, <2>5, <3>2
      <4> QED BY <1>5, <1>6, <1>9, <2>6, <2>7, <2>11, <3>2, <4>1
    <3>3. ASSUME f.op < 8
          PROVE  /\ c.inside = (f.op = 0) /\ frames'.control.data = <<>>
                 /\ frames'.message.fin = f.fin /\ frames'.message.opcode = state'.opcode
                 /\ frames'.message.data = c.part \o PayloadOf(f, state')
                 /\ state'.opcode = Text => frames'.message.utf8 = Utf8After("S0", frames'.message.data)
      <4>1. which = "message"
        BY <2>2, <2>5, <3>3
      <4>2. frames'.message.data = c.part
        BY <1>7, <2>7, <4>1
      <4>3. state'.opcode = Text => frames'.message.utf8 = Utf8After("S0", c.part)
        <5>1. CASE f.op # 0
          <6>1. c.part = <<>> /\ frames'.message.utf8 = "S0"
            BY <1>7, <2>4, <2>5, <2>7, <3>3, <4>1, <5>1
          <6>2. "S0" \in Utf8States
            BY DEF Utf8States
          <6> QED BY <6>1, <6>2, Utf8AfterNothing
        <5>2. CASE f.op = 0
          BY <1>7, <2>3, <2>4, <2>5, <2>6, <2>7, <3>3, <4>1, <5>2
        <5> QED BY <5>1, <5>2
      <4>4. frames'.message.opcode = state'.opcode
        BY <2>6, <2>7, <4>1 DEF code
      <4> QED BY <1>5, <1>6, <2>4, <2>7, <2>11, <3>3, <4>1, <4>2, <4>3, <4>4
    <3> QED BY <3>1, <3>2, <3>3 DEF MidFrame
  <2>13. Stays(k, state', decoded', taken, remaining_length, frames')
    <3>1. Understands(k, state', frames')
      BY <1>3, <2>6, <2>12 DEF Understands, f, c
    <3> QED BY <1>3, <2>6, <2>7, <2>8, <2>9, <2>10, <3>1 DEF Stays, Goes, Decoding
  <2> QED BY <1>1, <2>13 DEF DecoderAt
<1> QED BY <1>8, <1>9

\* The opcode of a frame, or of the message it goes on with.
LEMMA OpcodeOf ==
    ASSUME NEW f \in FrameRecord, NEW c, Sensible(c), c.on, NEW s, NEW fr, MidFrame(f, c, s, fr)
    PROVE  /\ f.op # 0 => s.opcode = f.op
           /\ f.op = 0 => c.inside /\ s.opcode = c.op /\ s.opcode \in {Text, Binary}
           /\ s.opcode = OpIn(f, c) /\ s.opcode \in 0..15
           /\ (s.opcode >= 8 <=> f.op >= 8) /\ f.op \in 0..15 /\ f.fin \in BOOLEAN /\ s.fin = f.fin /\ ~f.rsv
<1>1. f.op \in 0..15 /\ f.fin \in BOOLEAN /\ c.inside \in BOOLEAN
  BY PartWithType
<1>2. /\ ~f.rsv /\ s.fin = f.fin
      /\ s.opcode = IF f.op = 0 THEN c.op ELSE f.op
      /\ f.op < 8 => c.inside = (f.op = 0)
  BY DEF MidFrame
<1>3. c.inside => c.op \in {Text, Binary}
  BY DEF Sensible
<1>4. f.op = 0 => c.inside
  BY <1>1, <1>2
<1>5. f.op = 0 => s.opcode = c.op /\ s.opcode \in {Text, Binary}
  BY <1>2, <1>3, <1>4
<1>6. s.opcode = OpIn(f, c)
  BY <1>2 DEF OpIn
<1>7. f.op # 0 => s.opcode = f.op
  BY <1>2
<1>8. s.opcode \in 0..15 /\ (s.opcode >= 8 <=> f.op >= 8)
  BY <1>1, <1>5, <1>7 DEF Text, Binary
<1> QED BY <1>1, <1>2, <1>4, <1>5, <1>6, <1>7, <1>8

\* In the head of a frame nothing of it has been decoded yet.
LEMMA MidFrameKeeps ==
    ASSUME NEW f, NEW c, NEW s, NEW r, NEW fr, MidFrame(f, c, s, fr), PayloadOf(f, r) = PayloadOf(f, s),
           r.fin = s.fin, r.opcode = s.opcode, r.frame = s.frame, f.op >= 8 => Extra(f) = 0
    PROVE  MidFrame(f, c, r, fr)
BY DEF MidFrame

\* A decoder in the head of a frame, or in its payload.
LEMMA InMidFrame ==
    ASSUME ClientTyped, NEW k, Stays(k, state, decoded, taken, remaining_length, frames), state.framing # "START"
    PROVE  /\ stream \in Streams /\ k \in Nat /\ k < Len(stream) /\ k \in 0..Len(stream)
           /\ state \in StateRecord /\ frames \in BothFrames
           /\ taken \in Nat /\ decoded \in Nat /\ decoded <= taken /\ taken <= arrived /\ arrived \in Nat
           /\ EndOf(k) \in Nat /\ EndOf(k) <= decoded /\ InFrame(k, state, decoded)
           /\ WellFormed(stream[k + 1]) /\ stream[k + 1] \in FrameRecord
           /\ Sensible(Conv(k)) /\ Conv(k).on /\ Conv(k + 1) = Meaning(stream[k + 1], Conv(k))
           /\ MidFrame(stream[k + 1], Conv(k), state, frames)
<1>1. /\ Decoding(k, state, decoded, taken, remaining_length) /\ Understands(k, state, frames)
  BY InSomeFrame
<1>2. MidFrame(stream[k + 1], Conv(k), state, frames)
  BY <1>1 DEF Understands
<1>3. InFrame(k, state, decoded)
  BY <1>1 DEF Decoding
<1> QED BY <1>2, <1>3, InSomeFrame

\* The second byte: a mask, and the length or how many bytes it takes.
LEMMA LengthByteKeeps ==
    ASSUME ClientTyped, NEW k, Stays(k, state, decoded, taken, remaining_length, frames), LengthByte
    PROVE  DecoderAt(k, state', decoded', taken, remaining_length, frames') /\ heard' = heard
<1>1. state.framing = "PAYLOAD_LENGTH" /\ taken - decoded > 0 /\ heard' = heard /\ frames' = frames
  BY DEF LengthByte, Left
<1> DEFINE f == stream[k + 1]
           c == Conv(k)
           b == EndOf(k)
           y == next
           ext == ExtSize(y.code)
<1>2. /\ stream \in Streams /\ k \in Nat /\ k < Len(stream) /\ k \in 0..Len(stream)
      /\ state \in StateRecord /\ frames \in BothFrames
      /\ taken \in Nat /\ decoded \in Nat /\ b \in Nat /\ b <= decoded /\ InFrame(k, state, decoded)
      /\ WellFormed(f) /\ f \in FrameRecord /\ Sensible(c) /\ c.on /\ Conv(k + 1) = Meaning(f, c)
      /\ MidFrame(f, c, state, frames)
  BY <1>1, InMidFrame
<1>4. y = Second(f) /\ decoded = b + 1
  <2>1. decoded = b + 1
    BY <1>1, <1>2 DEF InFrame
  <2>2. Wire(b + 2) = Second(f)
    BY <1>2, NextFrame
  <2>3. decoded + 1 = b + 2
    BY <1>2, <2>1
  <2> QED BY <2>1, <2>2, <2>3 DEF next
<1>5. /\ f.masked = y.masked /\ f.masked \in BOOLEAN /\ ext = Extra(f) /\ Extra(f) \in {0, 2, 8}
      /\ y.code = Code(f) /\ y.code \in Nat /\ (ext = 0 => y.code = Len(f.data) /\ ~f.huge)
      /\ f.huge \in BOOLEAN
  BY <1>2, <1>4, FrameFields
<1>6. (state.opcode >= 8 <=> f.op >= 8) /\ f.op \in 0..15
  BY <1>2, OpcodeOf
<1> HIDE DEF f, c, b, y, ext
<1>7. CASE ~y.masked \/ (state.opcode >= 8 /\ ext # 0)
  <2>1. state' = CloseFrom(state, "PROTOCOL_ERROR") /\ decoded' = taken /\ frames' = frames
    BY <1>7 DEF LengthByte, DropBlock, y, ext
  <2>2. Forbidden(f, c)
    <3>1. CASE ~y.masked
      BY <1>5, <3>1 DEF Forbidden
    <3>2. CASE state.opcode >= 8 /\ ext # 0
      <4>1. f.huge \/ f.form # 0
        BY <1>5, <3>2 DEF Extra
      <4>2. f.op >= 8
        BY <1>6, <3>2
      <4> QED BY <4>1, <4>2 DEF Forbidden
    <3> QED BY <1>7, <3>1, <3>2
  <2>3. Settled(k)
    BY <1>2, <2>2, ForbiddenSettles DEF f, c
  <2>4. "PROTOCOL_ERROR" \in Statuses /\ b <= taken
    BY <1>1, <1>2 DEF Statuses
  <2>5. Ends(k, state', decoded', taken, remaining_length, frames')
    BY <1>2, <2>1, <2>3, <2>4, Closes DEF b
  <2> QED BY <1>1, <2>5 DEF DecoderAt
<1>8. CASE ~(~y.masked \/ (state.opcode >= 8 /\ ext # 0))
  <2> DEFINE l == IF ext = 0 THEN y.code ELSE 0
  <2>1. /\ state' = AfterLength(state, ext, l) /\ decoded' = decoded + 1
    BY <1>8 DEF LengthByte, Consume, AfterLength, y, ext
  <2>2. l \in Nat /\ ext \in 0..8 /\ state \in StateRecord
    BY <1>2, <1>5
  <2>3. l = Value(f, 0)
    <3>1. CASE ext = 0
      <4>1. Extra(f) = 0 /\ ~f.huge /\ f.form = 0
        BY <1>5, <3>1 DEF Extra
      <4>2. Value(f, 0) = Len(f.data)
        BY <4>1 DEF Value
      <4> QED BY <1>5, <3>1, <4>2
    <3>2. CASE ext # 0
      <4>1. CASE f.huge
        <5>1. Value(f, 0) = 0
          BY <4>1, SMT DEF Value
        <5> QED BY <3>2, <5>1
      <4>2. CASE ~f.huge
        <5>1. f.form \in {2, 8}
          BY <1>5, <3>2, <4>2 DEF Extra
        <5>2. 0 # f.form /\ 0 # f.form - 1
          BY <5>1
        <5>3. Value(f, 0) = 0
          BY <4>2, <5>2 DEF Value
        <5> QED BY <3>2, <5>3
      <4> QED BY <4>1, <4>2
    <3> QED BY <3>1, <3>2
  <2> HIDE DEF l
  <2>4. StateIs(AfterLength(state, ext, l), "PAYLOAD_LENGTH_EXT", l, ext, state.index, state.offset, state.fin,
                state.frame, state.opcode)
    BY ONLY <2>2, StateAfterLength
  <2>5. /\ state' \in StateRecord /\ state'.framing = "PAYLOAD_LENGTH_EXT" /\ state'.ext = ext /\ state'.length = l
        /\ state'.fin = state.fin /\ state'.opcode = state.opcode /\ state'.frame = state.frame
        /\ state'.index = state.index
    BY <2>1, <2>4 DEF StateIs
  <2>6. InFrame(k, state', decoded')
    <3>1. Extra(f) - ext = 0 /\ ext <= Extra(f) /\ f.masked /\ (ext = 0 => Extra(f) = 0)
      BY <1>5, <1>8
    <3>2. decoded' = b + 2 + (Extra(f) - ext)
      BY <1>2, <1>4, <2>1, <3>1
    <3>3. l = Value(f, Extra(f) - ext)
      BY <2>3, <3>1
    <3>4. state.index = 0
      BY <1>1, <1>2 DEF InFrame
    <3> QED BY <1>2, <2>5, <3>1, <3>2, <3>3, <3>4 DEF InFrame, f, b
  <2>7. decoded' \in 0..taken
    BY <1>1, <1>2, <2>1
  <2>8. MidFrame(f, c, state', frames')
    <3>1. f.op >= 8 => Extra(f) = 0
      BY <1>5, <1>6, <1>8
    <3>2. PayloadOf(f, state') = PayloadOf(f, state)
      BY <1>1, <2>5 DEF PayloadOf
    <3> QED BY <1>1, <1>2, <2>5, <3>1, <3>2, MidFrameKeeps
  <2>9. Stays(k, state', decoded', taken, remaining_length, frames')
    BY <1>1, <1>2, <2>5, <2>6, <2>7, <2>8, SameFrame DEF f, c
  <2> QED BY <1>1, <2>9 DEF DecoderAt
<1> QED BY <1>7, <1>8

\* What some bytes of a length come to.
LEMMA LengthAfterIs ==
    ASSUME NEW n \in Nat, NEW h, h = [i \in 0..n |-> h[i]], h[0] = state.length,
           \A i \in 1..n : h[i] = h[i - 1] * 256 + Wire(decoded + i).digit
    PROVE  LengthAfter(n) = h[n]
<1> DEFINE w(i) == Wire(decoded + i).digit
           l == state.length
           Is(u) == u = [i \in 0..n |-> IF i = 0 THEN l ELSE u[i - 1] * 256 + w(i)]
           g == CHOOSE u : Is(u)
<1>1. LengthAfter(n) = g[n]
  BY DEF LengthAfter
<1>2. h = [i \in 0..n |-> h[i]] /\ h[0] = l /\ \A i \in 1..n : h[i] = h[i - 1] * 256 + w(i)
  OBVIOUS
<1> HIDE DEF w, l
<1>3. Is(h)
  <2>1. \A i \in 0..n : h[i] = IF i = 0 THEN l ELSE h[i - 1] * 256 + w(i)
    <3> TAKE i \in 0..n
    <3>1. CASE i = 0
      BY <1>2, <3>1
    <3>2. CASE i # 0
      <4>1. i \in 1..n
        BY <3>2
      <4> QED BY <1>2, <3>2, <4>1
    <3> QED BY <3>1, <3>2
  <2> QED BY <1>2, <2>1
<1>4. Is(g)
  <2> HIDE DEF Is
  <2> QED BY <1>3
<1> HIDE DEF g
<1>5. g[0] = l /\ \A i \in 1..n : g[i] = g[i - 1] * 256 + w(i)
  <2>1. 0 \in 0..n /\ \A i \in 1..n : i \in 0..n /\ i # 0
    OBVIOUS
  <2>2. g = [i \in 0..n |-> IF i = 0 THEN l ELSE g[i - 1] * 256 + w(i)]
    BY <1>4
  <2> QED BY <2>1, <2>2
<1> DEFINE T == {j \in Nat : j <= n => g[j] = h[j]}
<1>6. 0 \in T
  BY <1>2, <1>5
<1>7. ASSUME NEW j \in Nat, j \in T PROVE j + 1 \in T
  <2> SUFFICES ASSUME j + 1 <= n PROVE g[j + 1] = h[j + 1]
    OBVIOUS
  <2>1. j + 1 \in 1..n /\ (j + 1) - 1 = j /\ j <= n
    OBVIOUS
  <2>2. g[j] = h[j]
    BY <1>7, <2>1
  <2>3. g[j + 1] = g[(j + 1) - 1] * 256 + w(j + 1) /\ h[j + 1] = h[(j + 1) - 1] * 256 + w(j + 1)
    BY <1>2, <1>5, <2>1
  <2> QED BY <2>1, <2>2, <2>3
<1> HIDE DEF T
<1>8. n \in T
  BY <1>6, <1>7, NumberInduction
<1> QED BY <1>1, <1>8 DEF T

\* Some of the bytes that a longer length takes, or all of them.
LEMMA LengthExtKeeps ==
    ASSUME ClientTyped, NEW k, Stays(k, state, decoded, taken, remaining_length, frames), LengthExt
    PROVE  DecoderAt(k, state', decoded', taken, remaining_length, frames') /\ heard' = heard
<1> DEFINE f == stream[k + 1]
           c == Conv(k)
           b == EndOf(k)
           x == state.ext
           e == Extra(f)
           v == e - x
           n == Min({x, Left})
<1>1. state.framing = "PAYLOAD_LENGTH_EXT" /\ Left > 0 /\ heard' = heard /\ frames' = frames
  BY DEF LengthExt
<1>2. /\ stream \in Streams /\ k \in Nat /\ k < Len(stream) /\ k \in 0..Len(stream)
      /\ state \in StateRecord /\ frames \in BothFrames
      /\ taken \in Nat /\ decoded \in Nat /\ b \in Nat /\ b <= decoded /\ InFrame(k, state, decoded)
      /\ WellFormed(f) /\ f \in FrameRecord /\ Sensible(c) /\ c.on /\ Conv(k + 1) = Meaning(f, c)
      /\ MidFrame(f, c, state, frames)
  BY <1>1, InMidFrame
<1>3. /\ f.masked /\ x <= e /\ (x = 0 => e = 0) /\ decoded = b + 2 + v /\ state.length = Value(f, v)
      /\ state.index = 0 /\ x \in 0..8
  <2>1. x \in 0..8
    BY <1>2, StateFields
  <2> QED BY <1>1, <1>2, <2>1 DEF InFrame
<1>4. /\ e \in {0, 2, 8} /\ f.huge \in BOOLEAN /\ Len(f.data) \in Nat
      /\ \A i \in 1..e : Wire(b + 2 + i) = Ext(Digits(f)[i])
      /\ \A d : Ext(d).digit = d
      /\ \A i \in 1..e : Digits(f)[i] \in Nat /\ Value(f, i) = Value(f, i - 1) * 256 + Digits(f)[i]
      /\ ~f.huge => Value(f, e) = Len(f.data)
      /\ f.huge => Value(f, e) = HugeLength
      /\ \A i \in 0..e : Value(f, i) \in Nat
  <2>1. e \in {0, 2, 8} /\ f.huge \in BOOLEAN /\ Len(f.data) \in Nat /\ \A d : Ext(d).digit = d
    BY <1>2, FrameFields
  <2>2. \A i \in 1..e : Wire(b + 2 + i) = Ext(Digits(f)[i])
    BY <1>2, NextFrame
  <2> QED BY <1>2, <2>1, <2>2, DigitsType
<1>5. Left = taken - decoded /\ Left \in Nat /\ Left > 0
  BY <1>1, <1>2 DEF Left
<1>6. n = (IF x <= Left THEN x ELSE Left) /\ n \in Nat /\ n <= x /\ n <= Left /\ n \in 0..8
      /\ v \in Nat /\ v + n \in 0..e /\ (n = x => v + n = e)
  <2>1. n = IF x <= Left THEN x ELSE Left
    BY <1>3, <1>5, MinOfTwo
  <2> HIDE DEF n
  <2>2. x \in Nat /\ e \in Nat /\ x <= e /\ x <= 8
    BY <1>3, <1>4
  <2>3. n \in Nat /\ n <= x /\ n <= Left
    BY <1>5, <2>1, <2>2
  <2> HIDE DEF x, e
  <2>4. v \in Nat /\ v + n \in 0..e /\ (n = x => v + n = e) /\ n \in 0..8
    BY ONLY <2>2, <2>3
  <2> QED BY ONLY <2>1, <2>3, <2>4
<1>7. (f.op >= 8 <=> state.opcode >= 8) /\ f.op \in 0..15
  BY <1>2, OpcodeOf
<1>8. f.op >= 8 => e = 0
  BY <1>1, <1>2 DEF MidFrame
<1> HIDE DEF f, c, b, x, n, e
<1>13. /\ decoded \in Nat /\ b \in Nat /\ e \in Nat /\ v \in Nat /\ n \in Nat /\ x \in Nat
       /\ decoded = b + 2 + v /\ v = e - x /\ v + n <= e /\ n <= x
  <2>1. e \in Nat
    BY <1>4
  <2>2. x \in Nat
    BY <1>3
  <2>3. v + n <= e /\ n \in Nat /\ v \in Nat /\ n <= x
    <3> HIDE DEF v
    <3> QED BY ONLY <1>6, <2>1
  <2>4. v = e - x
    OBVIOUS
  <2> HIDE DEF v
  <2> QED BY <1>2, <1>3, <2>1, <2>2, <2>3, <2>4
<1> HIDE DEF v
<1>9. LengthAfter(n) = Value(f, v + n)
  <2> DEFINE h == [i \in 0..n |-> Value(f, v + i)]
  <2>1. h[0] = state.length
    <3>1. v + 0 = v /\ 0 \in 0..n
      BY <1>6
    <3> QED BY <1>3, <3>1
  <2>2. ASSUME NEW i \in 1..n PROVE h[i] = h[i - 1] * 256 + Wire(decoded + i).digit
    <3> DEFINE j == v + i
    <3>1. j \in 1..e /\ j - 1 = v + (i - 1) /\ b + 2 + j = decoded + i /\ i \in 0..n /\ i - 1 \in 0..n
      BY ONLY <1>13
    <3>2. h[i] = Value(f, j) /\ h[i - 1] = Value(f, j - 1)
      BY <3>1
    <3> HIDE DEF h, j
    <3>3. Wire(decoded + i).digit = Digits(f)[j]
      BY <1>4, <3>1
    <3>4. Value(f, j) = Value(f, j - 1) * 256 + Digits(f)[j]
      BY <1>4, <3>1
    <3> QED BY <3>2, <3>3, <3>4
  <2>3. h = [i \in 0..n |-> h[i]] /\ h[n] = Value(f, v + n)
    BY <1>6
  <2> HIDE DEF h
  <2>4. LengthAfter(n) = h[n]
    BY <1>6, <2>1, <2>2, <2>3, LengthAfterIs
  <2> QED BY <2>3, <2>4
<1>10. n = x => (f.huge <=> LengthAfter(n) > PayloadLimit)
  <2> SUFFICES ASSUME n = x PROVE f.huge <=> LengthAfter(n) > PayloadLimit
    OBVIOUS
  <2>1. LengthAfter(n) = Value(f, e)
    BY <1>6, <1>9
  <2>2. CASE f.huge
    <3>1. HugeLength > PayloadLimit
      BY SMT DEF HugeLength, PayloadLimit
    <3> QED BY <1>4, <2>1, <2>2, <3>1
  <2>3. CASE ~f.huge
    <3>1. Len(f.data) < (IF f.form = 0 THEN 126 ELSE 65536)
      BY <1>2 DEF WellFormed
    <3> DEFINE l == Len(f.data)
    <3>2. l \in Nat /\ (l < 126 \/ l < 65536)
      BY <1>4, <3>1
    <3> HIDE DEF l
    <3>3. ~(l > PayloadLimit)
      BY <3>2, SMT DEF PayloadLimit
    <3> QED BY <1>4, <2>1, <2>3, <3>3 DEF l
  <2> QED BY <1>4, <2>2, <2>3
<1>11. CASE n = x /\ LengthAfter(n) > PayloadLimit
  <2>1. state' = CloseFrom(state, "TOO_LARGE") /\ decoded' = taken
    BY <1>11 DEF LengthExt, DropBlock, n, x
  <2>2. Forbidden(f, c)
    BY <1>10, <1>11 DEF Forbidden
  <2>3. Settled(k)
    BY <1>2, <2>2, ForbiddenSettles DEF f, c
  <2>4. "TOO_LARGE" \in Statuses /\ b <= taken
    BY <1>2, <1>5 DEF Statuses
  <2>5. Ends(k, state', decoded', taken, remaining_length, frames')
    BY <1>1, <1>2, <2>1, <2>3, <2>4, Closes DEF b
  <2> QED BY <1>1, <2>5 DEF DecoderAt
<1>12. CASE ~(n = x /\ LengthAfter(n) > PayloadLimit)
  <2> DEFINE l == LengthAfter(n)
             g == IF n = x THEN "MASK" ELSE "PAYLOAD_LENGTH_EXT"
             m == x - n
  <2>1. /\ state' = AfterExt(state, m, l, g) /\ decoded' = decoded + n
    <3>1. /\ state' = [state EXCEPT !.length = LengthAfter(n), !.ext = @ - n,
                                !.framing = IF n = state.ext THEN "MASK" ELSE @]
          /\ decoded' = decoded + n
      BY <1>12 DEF LengthExt, Consume, n, x
    <3>2. state' = [state EXCEPT !.length = l, !.ext = m, !.framing = g]
      <4>1. g = IF n = state.ext THEN "MASK" ELSE state.framing
        BY <1>1 DEF x
      <4>2. m = state.ext - n
        BY DEF x
      <4> HIDE DEF l, g, m
      <4> QED BY <3>1, <4>1, <4>2 DEF l
    <3> QED BY <3>1, <3>2 DEF AfterExt
  <2>2. l \in Nat /\ m \in 0..8 /\ g \in {"PAYLOAD_LENGTH_EXT", "MASK"} /\ state \in StateRecord
    <3>1. l \in Nat
      BY <1>4, <1>6, <1>9
    <3>2. m \in 0..8
      BY ONLY <1>3, <1>13
    <3> QED BY <1>2, <3>1, <3>2
  <2>3. /\ l = Value(f, e - m) /\ m <= e /\ decoded' = b + 2 + (e - m)
        /\ (g = "MASK" => m = 0 /\ l = Len(f.data) /\ ~f.huge /\ decoded' = b + 2 + e)
        /\ (g # "MASK" => m # 0)
    <3>1. e - m = v + n /\ m <= e /\ decoded + n = b + 2 + (e - m) /\ (n = x <=> m = 0)
          /\ (n = x => v + n = e /\ decoded + n = b + 2 + e)
      BY ONLY <1>13
    <3>2. l = Value(f, e - m)
      BY <1>9, <3>1
    <3>3. n = x => ~f.huge /\ l = Len(f.data)
      BY <1>4, <1>9, <1>10, <1>12, <3>1
    <3>4. g = "MASK" <=> n = x
      OBVIOUS
    <3> HIDE DEF l, m, g
    <3> QED BY <2>1, <3>1, <3>2, <3>3, <3>4
  <2>4. decoded' \in 0..taken
    BY <1>2, <1>5, <1>6, <2>1
  <2> HIDE DEF l, g, m
  <2>5. StateIs(AfterExt(state, m, l, g), g, l, m, state.index, state.offset, state.fin,
                state.frame, state.opcode)
    BY ONLY <2>2, StateAfterExt
  <2>6. /\ state' \in StateRecord /\ state'.framing = g /\ state'.ext = m /\ state'.length = l
        /\ state'.fin = state.fin /\ state'.opcode = state.opcode /\ state'.frame = state.frame
        /\ state'.index = 0
    BY <1>3, <2>1, <2>5 DEF StateIs
  <2>7. InFrame(k, state', decoded')
    <3>1. CASE g = "MASK"
      <4>1. decoded' = b + 2 + e + 0
        BY <1>2, <1>4, <2>3, <3>1
      <4> QED BY <1>2, <1>3, <2>3, <2>6, <3>1, <4>1 DEF InFrame, f, b, e
    <3>2. CASE g # "MASK"
      BY <1>2, <1>3, <2>2, <2>3, <2>6, <3>2 DEF InFrame, f, b, e
    <3> QED BY <3>1, <3>2
  <2>8. MidFrame(f, c, state', frames')
    <3>1. PayloadOf(f, state') = PayloadOf(f, state)
      BY <1>1, <2>2, <2>6 DEF PayloadOf
    <3> QED BY <1>1, <1>2, <1>8, <2>6, <3>1, MidFrameKeeps DEF e
  <2>9. Stays(k, state', decoded', taken, remaining_length, frames')
    <3>1. state'.framing \notin {"START", "CLOSE"} /\ state.framing # "START"
      BY <1>1, <2>2, <2>6
    <3> QED BY <1>1, <1>2, <2>4, <2>6, <2>7, <2>8, <3>1, SameFrame DEF f, c
  <2> QED BY <1>1, <2>9 DEF DecoderAt
<1> QED BY <1>11, <1>12

\* The frames with other data in one of them.
FramesWith(fr, w, d, u) == [fr EXCEPT ![w].data = d, ![w].utf8 = u]
FramesWithIs(q, fr, w, d, u) ==
    /\ q \in BothFrames
    /\ w = "control" => q.message = fr.message /\ q.control.data = d
    /\ w = "message" => /\ q.control = fr.control /\ q.message.data = d /\ q.message.utf8 = u
                        /\ q.message.fin = fr.message.fin /\ q.message.opcode = fr.message.opcode

\* A piece of the payload is added to one of the frames.
LEMMA FramesWithData ==
    ASSUME NEW fr \in BothFrames, NEW w \in {"control", "message"}, NEW d \in Seq(Byte), NEW u \in Utf8States
    PROVE  FramesWithIs(FramesWith(fr, w, d, u), fr, w, d, u)
<1>1. CASE w = "control"
  BY <1>1 DEF BothFrames, FrameState, FramesWith, FramesWithIs
<1>2. CASE w = "message"
  BY <1>2 DEF BothFrames, FrameState, FramesWith, FramesWithIs
<1> QED BY <1>1, <1>2

\* The bytes of a mask, or some of them.
LEMMA MaskKeeps ==
    ASSUME ClientTyped, NEW k, Stays(k, state, decoded, taken, remaining_length, frames), MaskBytes
    PROVE  DecoderAt(k, state', decoded', taken, remaining_length, frames') /\ heard' = heard
<1> DEFINE f == stream[k + 1]
           c == Conv(k)
           b == EndOf(k)
           i == state.index
           e == Extra(f)
           n == Min({4 - i, Left})
<1>1. state.framing = "MASK" /\ Left > 0 /\ heard' = heard /\ frames' = frames /\ decoded' = decoded + n
  BY DEF MaskBytes, Consume
<1>2. /\ stream \in Streams /\ k \in Nat /\ k < Len(stream) /\ k \in 0..Len(stream)
      /\ state \in StateRecord /\ frames \in BothFrames
      /\ taken \in Nat /\ decoded \in Nat /\ b \in Nat /\ b <= decoded /\ InFrame(k, state, decoded)
      /\ WellFormed(f) /\ f \in FrameRecord /\ Sensible(c) /\ c.on /\ Conv(k + 1) = Meaning(f, c)
      /\ MidFrame(f, c, state, frames)
  BY <1>1, InMidFrame
<1>3. f.masked /\ ~f.huge /\ state.length = Len(f.data) /\ decoded = b + 2 + e + i
  BY <1>1, <1>2 DEF InFrame
<1>4. e \in Nat /\ HeadSize(f) = e + 6 /\ Len(f.data) \in Nat /\ f.data \in Seq(Byte)
  BY <1>2, <1>3, FrameFields
<1>5. i \in 0..3 /\ state.length \in Nat /\ Left \in Nat /\ Left = taken - decoded
  <2>1. i \in 0..3 /\ state.length \in Nat
    BY <1>2, StateFields
  <2>2. Left = taken - decoded
    BY DEF Left
  <2> QED BY <1>1, <1>2, <2>1, <2>2
<1>6. n \in Nat /\ n <= 4 - i /\ n <= Left /\ n \in 0..4
  <2>1. 4 - i \in Nat
    BY <1>5
  <2>2. n = IF 4 - i <= Left THEN 4 - i ELSE Left
    BY <1>5, <2>1, MinOfTwo
  <2> HIDE DEF n
  <2> QED BY <1>5, <2>1, <2>2
<1>7. f.op >= 8 => e = 0
  BY <1>1, <1>2 DEF MidFrame
<1>8. SubSeq(f.data, 1, 0) = <<>>
  BY <1>4
<1> HIDE DEF f, c, b, i, e, n
<1>9. decoded' \in 0..taken
  BY <1>1, <1>2, <1>5, <1>6
<1>10. ASSUME state' \in StateRecord, state'.framing \in {"MASK", "APPLICATION_DATA"}, InFrame(k, state', decoded'),
              PayloadOf(f, state') = <<>>,
              state'.fin = state.fin /\ state'.opcode = state.opcode /\ state'.frame = state.frame
       PROVE  DecoderAt(k, state', decoded', taken, remaining_length, frames') /\ heard' = heard
  <2>1. MidFrame(f, c, state', frames')
    <3>1. PayloadOf(f, state') = PayloadOf(f, state)
      BY <1>1, <1>10 DEF PayloadOf
    <3> QED BY <1>1, <1>2, <1>7, <1>10, <3>1, MidFrameKeeps DEF e
  <2>2. Stays(k, state', decoded', taken, remaining_length, frames')
    <3>1. state'.framing \notin {"START", "CLOSE"} /\ state.framing # "START"
      BY <1>1, <1>10
    <3> QED BY <1>1, <1>2, <1>9, <1>10, <2>1, <3>1, SameFrame DEF f, c
  <2> QED BY <1>1, <2>2 DEF DecoderAt
<1>11. CASE i + n < 4
  <2>1. state' = AfterMask(state, i + n)
    BY <1>11 DEF MaskBytes, AfterMask, i, n
  <2>2. i + n \in 0..3 /\ state \in StateRecord
    BY <1>2, <1>5, <1>6, <1>11
  <2>3. StateIs(AfterMask(state, i + n), state.framing, state.length, state.ext, i + n, state.offset, state.fin,
                state.frame, state.opcode)
    BY ONLY <2>2, StateAfterMask
  <2>4. /\ state' \in StateRecord /\ state'.framing = "MASK" /\ state'.length = state.length /\ state'.index = i + n
        /\ state'.fin = state.fin /\ state'.opcode = state.opcode /\ state'.frame = state.frame
    BY <1>1, <2>1, <2>3 DEF StateIs
  <2>5. decoded' = b + 2 + e + (i + n)
    BY <1>1, <1>2, <1>3, <1>4, <1>5, <1>6
  <2>6. InFrame(k, state', decoded')
    BY <1>2, <1>3, <2>4, <2>5 DEF InFrame, f, b, e
  <2>7. PayloadOf(f, state') = <<>>
    BY <2>4 DEF PayloadOf
  <2> QED BY <1>10, <2>4, <2>6, <2>7
<1>12. CASE ~(i + n < 4)
  <2> DEFINE z == ~next.zero
  <2>1. state' = AfterLastMask(state, z)
    BY <1>12 DEF MaskBytes, AfterLastMask, i, n
  <2>2. z \in BOOLEAN /\ state \in StateRecord
    BY <1>2
  <2> HIDE DEF z
  <2>3. StateIs(AfterLastMask(state, z), "APPLICATION_DATA", state.length, state.ext, 0, 0, state.fin,
                state.frame, state.opcode)
    BY ONLY <2>2, StateAfterLastMask
  <2>4. /\ state' \in StateRecord /\ state'.framing = "APPLICATION_DATA" /\ state'.length = state.length
        /\ state'.index = 0 /\ state'.offset = 0
        /\ state'.fin = state.fin /\ state'.opcode = state.opcode /\ state'.frame = state.frame
    BY <2>1, <2>3 DEF StateIs
  <2>5. decoded' = b + HeadSize(f) + 0 /\ state.length + 0 = Len(f.data)
    BY <1>1, <1>2, <1>3, <1>4, <1>5, <1>6, <1>12
  <2>6. InFrame(k, state', decoded')
    BY <1>2, <1>3, <2>4, <2>5 DEF InFrame, f, b
  <2>7. PayloadOf(f, state') = <<>>
    BY <1>8, <2>4 DEF PayloadOf
  <2> QED BY <1>10, <2>4, <2>6, <2>7
<1> QED BY <1>11, <1>12

\* There is no memory for the payload.
LEMMA MemoryKeeps ==
    ASSUME ClientTyped, NEW k, Stays(k, state, decoded, taken, remaining_length, frames), OutOfMemory
    PROVE  DecoderAt(k, state', decoded', taken, remaining_length, frames') /\ heard' = heard
<1>1. /\ state.framing = "APPLICATION_DATA" /\ heard' = heard
      /\ state' = CloseFrom(state, "INTERNAL_ERROR") /\ decoded' = taken
      /\ frames' = [frames EXCEPT ![state.frame].data = <<>>]
  BY DEF OutOfMemory, DropBlock
<1>2. /\ k \in 0..Len(stream) /\ state \in StateRecord /\ frames \in BothFrames
      /\ taken \in Nat /\ decoded \in Nat /\ EndOf(k) \in Nat /\ EndOf(k) <= decoded /\ decoded <= taken
  BY <1>1, InMidFrame
<1>3. state.frame \in {"control", "message"} /\ <<>> \in Seq(Byte)
  BY <1>2, StateFields
<1>4. frames' \in BothFrames
  <2>1. CASE state.frame = "control"
    BY <1>1, <1>2, <1>3, <2>1 DEF BothFrames, FrameState
  <2>2. CASE state.frame = "message"
    BY <1>1, <1>2, <1>3, <2>2 DEF BothFrames, FrameState
  <2> QED BY <1>3, <2>1, <2>2
<1>5. "INTERNAL_ERROR" \in Statuses /\ EndOf(k) <= taken
  BY <1>2 DEF Statuses
<1>6. Ends(k, state', decoded', taken, remaining_length, frames')
  BY <1>1, <1>2, <1>4, <1>5, Closes
<1> QED BY <1>1, <1>6 DEF DecoderAt

---------------------------------------------------------------------------
(* The payload. *)

\* A byte of payload comes out as it was, whatever block it is in.
LEMMA UnmaskedIs ==
    ASSUME NEW i \in Nat, state.offset \in Nat, NEW v, Wire(decoded + i) = DataByte(v, state.offset + i)
    PROVE  Unmasked(i) = v
<1>1. Wire(decoded + i).byte = v
  BY DEF DataByte
<1>2. Wire(decoded + i).key = ((state.offset + i) - 1) % 4
  BY DEF DataByte
<1>3. (state.offset + i) - 1 = state.offset + i - 1
  OBVIOUS
<1> QED BY <1>1, <1>2, <1>3, Zenon DEF Unmasked

\* What is read of the payload of a frame.
LEMMA ChunkIs ==
    ASSUME ClientTyped, NEW k, Stays(k, state, decoded, taken, remaining_length, frames),
           state.framing = "APPLICATION_DATA"
    PROVE  LET f == stream[k + 1]
               n == Len(Chunk)
               o == state.offset
           IN  /\ n \in Nat /\ o \in Nat /\ n <= state.length /\ n <= taken - decoded /\ state.length \in Nat
               /\ n = (IF state.length <= taken - decoded THEN state.length ELSE taken - decoded)
               /\ state.length + o = Len(f.data) /\ decoded = EndOf(k) + HeadSize(f) + o
               /\ EndOf(k + 1) = EndOf(k) + (HeadSize(f) + Len(f.data)) /\ EndOf(k + 1) \in Nat
               /\ HeadSize(f) \in Nat /\ f.masked /\ ~f.huge
               /\ Chunk = SubSeq(f.data, o + 1, o + n) /\ Chunk \in Seq(Byte)
               /\ f.data \in Seq(Byte) /\ Len(f.data) \in Nat
<1> DEFINE f == stream[k + 1]
           b == EndOf(k)
           o == state.offset
           l == state.length
           h == HeadSize(f)
           m == Min({l, Left})
           d == f.data
<1>1. /\ stream \in Streams /\ k \in Nat /\ k < Len(stream) /\ k \in 0..Len(stream)
      /\ state \in StateRecord
      /\ taken \in Nat /\ decoded \in Nat /\ b \in Nat /\ b <= decoded /\ decoded <= taken
      /\ InFrame(k, state, decoded) /\ WellFormed(f)
  BY InMidFrame
<1>2. f.masked /\ ~f.huge /\ l + o = Len(d) /\ decoded = b + h + o
  BY <1>1 DEF InFrame
<1>3. h \in Nat /\ Len(d) \in Nat /\ d \in Seq(Byte)
  BY <1>1, FrameFields
<1>4. EndOf(k + 1) = b + (h + Len(d)) /\ EndOf(k + 1) \in Nat /\ \A i \in 1..Len(d) : Wire(b + h + i) = DataByte(d[i], i)
  BY <1>1, NextFrame
<1>5. l \in Nat /\ o \in Nat
  BY <1>1, StateFields
<1>6. Left = taken - decoded /\ Left \in Nat
  BY <1>1 DEF Left
<1>7. m = (IF l <= Left THEN l ELSE Left)
  BY <1>5, <1>6, MinOfTwo
<1>8. Chunk = [i \in 1..m |-> Unmasked(i)]
  BY DEF Chunk
<1> HIDE DEF f, b, o, l, h, m, d
<1>9. m \in Nat /\ m <= l /\ m <= Left /\ o + m <= Len(d)
  BY ONLY <1>2, <1>3, <1>5, <1>6, <1>7
<1>10. \A i \in 1..m : Unmasked(i) = d[o + i]
  <2> TAKE i \in 1..m
  <2> DEFINE j == o + i
  <2>1. j \in 1..Len(d) /\ decoded + i = b + h + j
    BY ONLY <1>1, <1>2, <1>3, <1>5, <1>9
  <2>2. Wire(decoded + i) = DataByte(d[j], j)
    <3> HIDE DEF j
    <3> QED BY <1>4, <2>1
  <2>3. Wire(decoded + i) = DataByte(d[j], state.offset + i)
    BY <2>2 DEF o
  <2>4. Unmasked(i) = d[j]
    <3>1. i \in Nat /\ state.offset \in Nat
      BY <1>5 DEF o
    <3> QED BY <2>3, <3>1, UnmaskedIs
  <2> QED BY <2>4
<1>11. Chunk = [i \in 1..m |-> d[o + i]]
  BY <1>8, <1>10
<1>12. SubSeq(d, o + 1, o + m) = [i \in 1..m |-> d[o + i]]
  <2>1. \A i \in (o + 1)..(o + m) : d[i] \in Byte
    <3> TAKE i \in (o + 1)..(o + m)
    <3>1. i \in 1..Len(d)
      BY <1>3, <1>5, <1>9
    <3> QED BY <1>3, <3>1, ElementOfSeq
  <2>2. o + 1 \in Int /\ o + m \in Int
    BY <1>5, <1>9
  <2> DEFINE x == o + 1
             y == o + m
             q == SubSeq(d, x, y)
  <2> HIDE DEF x, y
  <2>a. \A i \in x..y : d[i] \in Byte
    BY <2>1 DEF x, y
  <2>b. x \in Int /\ y \in Int
    BY <2>2 DEF x, y
  <2>c. /\ q \in Seq(Byte)
        /\ Len(q) = IF x <= y THEN y - x + 1 ELSE 0
        /\ \A i \in 1..(y - x + 1) : q[i] = d[x + i - 1]
    BY ONLY <2>a, <2>b, SubSeqProperties
  <2> HIDE DEF q
  <2>3. /\ q \in Seq(Byte)
        /\ Len(q) = IF o + 1 <= o + m THEN ((o + m) - (o + 1)) + 1 ELSE 0
        /\ \A i \in 1..(((o + m) - (o + 1)) + 1) : q[i] = d[(o + 1) + (i - 1)]
    BY <2>c DEF x, y
  <2>4. q \in Seq(Byte) /\ Len(q) = m
    BY <1>5, <1>9, <2>3
  <2>5. \A i \in 1..m : q[i] = d[o + i]
    <3> TAKE i \in 1..m
    <3>1. i \in 1..(((o + m) - (o + 1)) + 1) /\ (o + 1) + (i - 1) = o + i
      BY <1>5, <1>9
    <3> QED BY <2>3, <3>1
  <2>6. q = [i \in 1..m |-> q[i]]
    BY <2>4
  <2> QED BY <2>5, <2>6 DEF q, x, y
<1>13. Chunk \in Seq(Byte) /\ Len(Chunk) = m
  <2>1. \A i \in 1..m : d[o + i] \in Byte
    <3> TAKE i \in 1..m
    <3>1. o + i \in 1..Len(d)
      BY <1>3, <1>5, <1>9
    <3> QED BY <1>3, <3>1, ElementOfSeq
  <2> QED BY <1>9, <1>11, <2>1, IsASeq
<1>14. m \in Nat /\ o \in Nat /\ m <= l /\ m <= taken - decoded /\ l \in Nat
       /\ m = (IF l <= taken - decoded THEN l ELSE taken - decoded)
  BY <1>5, <1>6, <1>7, <1>9
<1>15. Chunk = SubSeq(d, o + 1, o + m)
  BY <1>11, <1>12
<1> QED BY <1>1, <1>2, <1>3, <1>4, <1>13, <1>14, <1>15 DEF f, b, o, l, h, d

\* ... and what there is of it with that.
LEMMA DataRead ==
    ASSUME ClientTyped, NEW k, Stays(k, state, decoded, taken, remaining_length, frames),
           state.framing = "APPLICATION_DATA"
    PROVE  LET f == stream[k + 1]
               p == SubSeq(f.data, 1, state.offset + Len(Chunk))
           IN  /\ state.frame = (IF f.op >= 8 THEN "control" ELSE "message")
               /\ Data = (IF f.op >= 8 THEN p ELSE Conv(k).part \o p)
               /\ p \in Seq(Byte) /\ Data \in Seq(Byte) /\ Checked \in Utf8States
               /\ Checked = (IF state.opcode = Text THEN Utf8After("S0", Data) ELSE "S0")
<1> DEFINE f == stream[k + 1]
           c == Conv(k)
           o == state.offset
           n == Len(Chunk)
           d == f.data
           p == SubSeq(d, 1, o + n)
           a == SubSeq(d, 1, o)
           q == frames[state.frame]
<1>1. /\ state \in StateRecord /\ frames \in BothFrames /\ f \in FrameRecord /\ Sensible(c) /\ c.on
      /\ MidFrame(f, c, state, frames)
  BY InMidFrame
<1>2. /\ n \in Nat /\ o \in Nat /\ n <= state.length /\ state.length \in Nat /\ state.length + o = Len(d)
      /\ Chunk = SubSeq(d, o + 1, o + n) /\ Chunk \in Seq(Byte) /\ d \in Seq(Byte) /\ Len(d) \in Nat
  BY ChunkIs
<1>3. f.op \in 0..15 /\ (state.opcode >= 8 <=> f.op >= 8) /\ state.opcode \in 0..15
  BY <1>1, OpcodeOf
<1>4. c.part \in Seq(Byte)
  BY <1>1, PartWithType
<1>5. q.utf8 \in Utf8States /\ q.data \in Seq(Byte)
  <2>1. state.frame \in {"control", "message"}
    BY <1>1, StateFields
  <2> QED BY <1>1, <2>1, FramesFields
<1>6. a \in Seq(Byte) /\ p \in Seq(Byte) /\ a \o Chunk = p
  <2>1. o \in 0..Len(d) /\ o + n \in 0..Len(d)
    BY <1>2
  <2> HIDE DEF d, o, n
  <2>2. \A i \in 1..o : d[i] \in Byte
    <3> TAKE i \in 1..o
    <3>1. i \in 1..Len(d)
      BY <1>2, <2>1
    <3> QED BY <1>2, <3>1, ElementOfSeq
  <2>3. \A i \in 1..(o + n) : d[i] \in Byte
    <3> TAKE i \in 1..(o + n)
    <3>1. i \in 1..Len(d)
      BY <1>2, <2>1
    <3> QED BY <1>2, <3>1, ElementOfSeq
  <2>4. a \in Seq(Byte) /\ p \in Seq(Byte)
    <3>1. 1 \in Int /\ o \in Int /\ o + n \in Int
      BY <1>2
    <3> QED BY <2>2, <2>3, <3>1, SubSeqProperties
  <2>5. SubSeq(d, 1, o) \o SubSeq(d, o + 1, o + n) = SubSeq(d, 1, o + n)
    <3>1. 1 \in 1..(Len(d) + 1) /\ o \in (1 - 1)..Len(d) /\ o + n \in o..Len(d)
      BY <1>2, <2>1
    <3> QED BY <1>2, <3>1, ConcatAdjacentSubSeq
  <2> QED BY <1>2, <2>4, <2>5 DEF o, n, d
<1>7. Data = q.data \o Chunk
  BY DEF Data
<1>8. PayloadOf(f, state) = a
  BY DEF PayloadOf
<1>9. state.opcode = Text => f.op < 8
  BY <1>3 DEF Text
<1> HIDE DEF f, c, o, n, d, p, a
<1>10. CASE f.op >= 8
  <2>1. state.frame = "control" /\ q.data = a
    BY <1>1, <1>8, <1>10 DEF MidFrame
  <2>2. Data = p
    BY <1>6, <1>7, <2>1
  <2>3. state.opcode # Text
    BY <1>3, <1>9, <1>10
  <2>4. Checked = "S0"
    BY <2>3 DEF Checked
  <2>5. "S0" \in Utf8States
    BY DEF Utf8States
  <2> QED BY <1>6, <1>10, <2>1, <2>2, <2>3, <2>4, <2>5 DEF f, c, p, o, n, d
<1>11. CASE ~(f.op >= 8)
  <2>0. f.op < 8
    BY <1>3, <1>11
  <2>1. state.frame = "message" /\ q.data = c.part \o a /\ (state.opcode = Text => q.utf8 = Utf8After("S0", q.data))
    BY <1>1, <1>8, <1>11, <2>0 DEF MidFrame
  <2>2. Data = c.part \o p
    <3>a. c.part \in Seq(Byte) /\ a \in Seq(Byte) /\ Chunk \in Seq(Byte)
      BY <1>2, <1>4, <1>6
    <3>b. \A s, t, u \in Seq(Byte) : (s \o t) \o u = s \o (t \o u)
      BY ConcatAssociative
    <3>1. (c.part \o a) \o Chunk = c.part \o (a \o Chunk)
      BY <3>a, <3>b
    <3> QED BY <1>6, <1>7, <2>1, <3>1
  <2>3. Data \in Seq(Byte)
    BY <1>4, <1>6, <2>2, ConcatProperties
  <2>4. "S0" \in Utf8States
    BY DEF Utf8States
  <2>5. state.opcode = Text => Checked = Utf8After("S0", Data)
    <3> SUFFICES ASSUME state.opcode = Text PROVE Checked = Utf8After("S0", Data)
      OBVIOUS
    <3>1. Checked = Utf8After(q.utf8, Chunk)
      BY DEF Checked
    <3>2. Utf8After("S0", q.data \o Chunk) = Utf8After(Utf8After("S0", q.data), Chunk)
      BY <1>2, <1>5, <2>4, Utf8AfterParts
    <3> QED BY <1>7, <2>1, <3>1, <3>2
  <2>6. state.opcode # Text => Checked = "S0"
    BY DEF Checked
  <2>7. Checked \in Utf8States
    BY <2>3, <2>4, <2>5, <2>6, Utf8AfterType
  <2> QED BY <1>6, <1>11, <2>1, <2>2, <2>3, <2>5, <2>6, <2>7 DEF f, c, p, o, n, d
<1> QED BY <1>10, <1>11

\* Some of the payload.
LEMMA PayloadKeeps ==
    ASSUME ClientTyped, NEW k, Stays(k, state, decoded, taken, remaining_length, frames), Payload
    PROVE  DecoderAt(k, state', decoded', taken, remaining_length, frames') /\ heard' = heard
<1> DEFINE f == stream[k + 1]
           c == Conv(k)
           n == Len(Chunk)
           o == state.offset
           w == state.frame
           p == SubSeq(f.data, 1, o + n)
           l == state.length - n
           x == o + n
<1>1. /\ state.framing = "APPLICATION_DATA" /\ heard' = heard /\ decoded' = decoded + n
      /\ state' = AfterPayload(state, l, x) /\ frames' = FramesWith(frames, w, Data, Checked)
  BY DEF Payload, Consume, AfterPayload, FramesWith
<1>2. /\ k \in 0..Len(stream) /\ k \in Nat /\ k < Len(stream) /\ state \in StateRecord /\ frames \in BothFrames
      /\ taken \in Nat /\ decoded \in Nat /\ decoded <= taken /\ InFrame(k, state, decoded)
      /\ f \in FrameRecord /\ Sensible(c) /\ c.on /\ MidFrame(f, c, state, frames)
  BY <1>1, InMidFrame
<1>3. /\ n \in Nat /\ o \in Nat /\ n <= state.length /\ n <= taken - decoded /\ state.length \in Nat
      /\ state.length + o = Len(f.data) /\ decoded = EndOf(k) + HeadSize(f) + o
      /\ HeadSize(f) \in Nat /\ f.masked /\ ~f.huge /\ Len(f.data) \in Nat
  BY <1>1, ChunkIs
<1>4. /\ w = (IF f.op >= 8 THEN "control" ELSE "message")
      /\ Data = (IF f.op >= 8 THEN p ELSE c.part \o p)
      /\ Data \in Seq(Byte) /\ Checked \in Utf8States
      /\ Checked = (IF state.opcode = Text THEN Utf8After("S0", Data) ELSE "S0")
  BY <1>1, DataRead
<1>5. EndOf(k) \in Nat /\ (f.op >= 8 => Extra(f) = 0) /\ f.op \in 0..15
  <2>1. EndOf(k) \in Nat
    BY <1>1, InMidFrame
  <2>2. f.op >= 8 => Extra(f) = 0
    BY <1>1, <1>2 DEF MidFrame
  <2>3. f.op \in 0..15
    BY <1>2, OpcodeOf
  <2> QED BY <2>1, <2>2, <2>3
<1> HIDE DEF f, c, n, o, w
<1>6. l \in Nat /\ x \in Nat /\ l + x = Len(f.data) /\ decoded' = EndOf(k) + HeadSize(f) + x /\ decoded' \in 0..taken
  <2> DEFINE sl == state.length
             d == decoded
             t == taken
             h == HeadSize(f)
             b == EndOf(k)
             m == Len(f.data)
  <2>1. /\ n \in Nat /\ o \in Nat /\ n <= sl /\ n <= t - d /\ sl \in Nat /\ sl + o = m /\ d = b + h + o
        /\ h \in Nat /\ m \in Nat /\ b \in Nat /\ t \in Nat /\ d \in Nat
    BY <1>2, <1>3, <1>5
  <2> HIDE DEF sl, d, t, h, b, m
  <2>2. sl - n \in Nat /\ o + n \in Nat /\ (sl - n) + (o + n) = m /\ d + n = b + h + (o + n) /\ d + n \in 0..t
    BY ONLY <2>1
  <2> QED BY <1>1, <2>2 DEF sl, d, t, h, b, m
<1> HIDE DEF l, x
<1>7. StateIs(AfterPayload(state, l, x), state.framing, l, state.ext, state.index, x, state.fin, state.frame, state.opcode)
  BY ONLY <1>2, <1>6, StateAfterPayload
<1>8. /\ state' \in StateRecord /\ state'.framing = "APPLICATION_DATA" /\ state'.length = l /\ state'.offset = x
      /\ state'.fin = state.fin /\ state'.opcode = state.opcode /\ state'.frame = state.frame
      /\ state'.index = state.index
  BY <1>1, <1>7 DEF StateIs
<1>9. FramesWithIs(FramesWith(frames, w, Data, Checked), frames, w, Data, Checked)
  <2>1. w \in {"control", "message"} /\ Data \in Seq(Byte) /\ Checked \in Utf8States /\ frames \in BothFrames
    BY <1>2, <1>4
  <2> QED BY ONLY <2>1, FramesWithData
<1>10. /\ frames' \in BothFrames
       /\ w = "control" => frames'.message = frames.message /\ frames'.control.data = Data
       /\ w = "message" => /\ frames'.control = frames.control /\ frames'.message.data = Data
                           /\ frames'.message.utf8 = Checked
                           /\ frames'.message.fin = frames.message.fin
                           /\ frames'.message.opcode = frames.message.opcode
  BY <1>1, <1>9 DEF FramesWithIs
<1>11. InFrame(k, state', decoded')
  <2>1. state.index = 0
    BY <1>1, <1>2 DEF InFrame
  <2> QED BY <1>2, <1>3, <1>6, <1>8, <2>1 DEF InFrame, f
<1>12. PayloadOf(f, state') = p
  BY <1>8 DEF PayloadOf, x
<1>13. MidFrame(f, c, state', frames')
  <2>1. CASE f.op >= 8
    <3>1. w = "control" /\ Data = p /\ ~(f.op < 8)
      BY <1>4, <1>5, <2>1
    <3>2. frames'.message = frames.message /\ frames'.control.data = p
      BY <1>10, <3>1
    <3> HIDE DEF p
    <3> QED BY <1>2, <1>5, <1>8, <1>12, <2>1, <3>1, <3>2 DEF MidFrame
  <2>2. CASE ~(f.op >= 8)
    <3>1. w = "message" /\ Data = c.part \o p /\ f.op < 8
      BY <1>4, <1>5, <2>2
    <3>2. /\ frames'.control = frames.control /\ frames'.message.data = c.part \o p
          /\ frames'.message.utf8 = Checked /\ frames'.message.fin = frames.message.fin
          /\ frames'.message.opcode = frames.message.opcode
      BY <1>10, <3>1
    <3>3. state'.opcode = Text => frames'.message.utf8 = Utf8After("S0", frames'.message.data)
      BY <1>4, <1>8, <3>1, <3>2
    <3> HIDE DEF p
    <3> QED BY <1>2, <1>8, <1>12, <2>2, <3>1, <3>2, <3>3 DEF MidFrame
  <2> QED BY <2>1, <2>2
<1>14. Stays(k, state', decoded', taken, remaining_length, frames')
  <2>1. state'.framing \notin {"START", "CLOSE"} /\ state.framing # "START"
    BY <1>1, <1>8
  <2> QED BY <1>2, <1>6, <1>8, <1>10, <1>11, <1>13, <2>1, SameFrame DEF f, c
<1> QED BY <1>1, <1>14 DEF DecoderAt

\* A text with a fault in it can not become one without.
LEMMA FaultStays ==
    ASSUME NEW a \in Seq(Byte), NEW b \in Seq(Byte), Utf8After("S0", a) = "ER"
    PROVE  Utf8After("S0", a \o b) = "ER"
<1>1. "S0" \in Utf8States
  BY DEF Utf8States
<1>2. Utf8After("S0", a \o b) = Utf8After(Utf8After("S0", a), b)
  BY <1>1, Utf8AfterParts
<1> QED BY <1>2, Utf8AfterError

\* A text frame that is no text, whole or in part, ends what can be said.
LEMMA NoTextIsDead ==
    ASSUME NEW f \in FrameRecord, NEW c, Sensible(c), c.on, ~Forbidden(f, c), f.op < 8, OpIn(f, c) = Text,
           Utf8After("S0", PartWith(f, c)) = "ER" \/ (f.fin /\ Utf8After("S0", PartWith(f, c)) # "S0")
    PROVE  Dead(Meaning(f, c)) /\ Meaning(f, c).messages = c.messages
<1> DEFINE m == Meaning(f, c)
<1>1. PartWith(f, c) \in Seq(Byte) /\ f.fin \in BOOLEAN
  BY PartWithType
<1>2. c \in Conversation
  BY DEF Sensible
<1>3. CASE f.fin
  <2>1. Utf8After("S0", PartWith(f, c)) # "S0"
    OBVIOUS
  <2>2. ~IsText(PartWith(f, c))
    BY <1>1, <2>1, TextIsUtf8
  <2>3. m = [c EXCEPT !.on = FALSE]
    BY <1>3, <2>2, MeaningCases
  <2> HIDE DEF m
  <2> QED BY <1>2, <2>3 DEF Conversation, Dead, m
<1>4. CASE ~f.fin
  <2>1. m = [c EXCEPT !.inside = TRUE, !.op = OpIn(f, c), !.part = PartWith(f, c)]
    BY <1>4, MeaningCases
  <2>2. Utf8After("S0", PartWith(f, c)) = "ER"
    BY <1>4
  <2> DEFINE q == PartWith(f, c)
  <2> HIDE DEF m, q
  <2>3. m = [c EXCEPT !.inside = TRUE, !.op = Text, !.part = q]
    BY <2>1 DEF q
  <2>4. m.inside = TRUE /\ m.op = Text /\ m.part = q /\ m.messages = c.messages
    BY <1>2, <2>3 DEF Conversation
  <2> QED BY <2>2, <2>4 DEF Dead, m, q
<1> QED BY <1>1, <1>3, <1>4

\* A part of a sequence from its beginning, and what comes after it.
LEMMA BeginningAndRest ==
    ASSUME NEW d \in Seq(Byte), NEW i \in 0..Len(d)
    PROVE  /\ SubSeq(d, 1, i) \in Seq(Byte) /\ SubSeq(d, i + 1, Len(d)) \in Seq(Byte)
           /\ SubSeq(d, 1, i) \o SubSeq(d, i + 1, Len(d)) = d
           /\ i = Len(d) => SubSeq(d, 1, i) = d
<1> DEFINE n == Len(d)
<1>1. n \in Nat
  BY LenProperties
<1> HIDE DEF n
<1>2. \A j \in 1..n : d[j] \in Byte
  BY ElementOfSeq DEF n
<1>3. i \in 0..n
  BY DEF n
<1>4. SubSeq(d, 1, i) \in Seq(Byte)
  <2>1. 1 \in Int /\ i \in Int /\ \A j \in 1..i : d[j] \in Byte
    BY <1>1, <1>2, <1>3
  <2> QED BY <2>1, SubSeqProperties
<1>5. SubSeq(d, i + 1, n) \in Seq(Byte)
  <2> DEFINE q == i + 1
  <2>1. q \in Int /\ n \in Int /\ \A j \in q..n : d[j] \in Byte
    BY <1>1, <1>2, <1>3
  <2> HIDE DEF q
  <2>2. SubSeq(d, q, n) \in Seq(Byte)
    BY <2>1, SubSeqProperties
  <2> QED BY <2>2 DEF q
<1>6. SubSeq(d, 1, n) = d
  BY SubSeqFull DEF n
<1>7. SubSeq(d, 1, i) \o SubSeq(d, i + 1, n) = SubSeq(d, 1, n)
  <2>1. 1 \in 1..(Len(d) + 1) /\ i \in (1 - 1)..Len(d) /\ n \in i..Len(d)
    BY <1>1, <1>3 DEF n
  <2> QED BY <2>1, ConcatAdjacentSubSeq
<1> QED BY <1>4, <1>5, <1>6, <1>7 DEF n

\* What a decoded payload says of the whole frame.
LEMMA DataOfFrame ==
    ASSUME ClientTyped, NEW k, Stays(k, state, decoded, taken, remaining_length, frames),
           state.framing = "APPLICATION_DATA"
    PROVE  LET f == stream[k + 1]
               c == Conv(k)
           IN  /\ Data \in Seq(Byte) /\ Complete \in BOOLEAN
               /\ Complete => Data = (IF f.op >= 8 THEN f.data ELSE PartWith(f, c))
               /\ f.op < 8 => \E rest \in Seq(Byte) : PartWith(f, c) = Data \o rest
<1> DEFINE f == stream[k + 1]
           c == Conv(k)
           i == state.offset + Len(Chunk)
           d == f.data
           p == SubSeq(d, 1, i)
           r == SubSeq(d, i + 1, Len(d))
<1>1. Len(Chunk) \in Nat /\ state.offset \in Nat /\ Len(Chunk) <= state.length /\ state.length \in Nat
      /\ state.length + state.offset = Len(d) /\ d \in Seq(Byte) /\ Len(d) \in Nat
  BY ChunkIs
<1>2. Data = (IF f.op >= 8 THEN p ELSE c.part \o p) /\ Data \in Seq(Byte)
  BY DataRead
<1>3. i \in 0..Len(d) /\ (Complete => i = Len(d)) /\ Complete \in BOOLEAN
  BY <1>1 DEF Complete
<1>4. c.part \in Seq(Byte) /\ f.op \in 0..15
  <2>1. f \in FrameRecord /\ Sensible(c)
    BY InMidFrame
  <2> QED BY <2>1, PartWithType
<1> HIDE DEF i, d, c, f
<1>5. p \in Seq(Byte) /\ r \in Seq(Byte) /\ p \o r = d /\ (i = Len(d) => p = d)
  BY <1>1, <1>3, BeginningAndRest
<1> HIDE DEF p, r
<1>6. ASSUME f.op < 8 PROVE PartWith(f, c) = Data \o r
  <2>1. Data = c.part \o p
    BY <1>2, <1>4, <1>6
  <2>2. \A s, t, u \in Seq(Byte) : (s \o t) \o u = s \o (t \o u)
    BY ConcatAssociative
  <2>3. (c.part \o p) \o r = c.part \o (p \o r)
    BY <1>4, <1>5, <2>2
  <2> QED BY <1>5, <2>1, <2>3 DEF PartWith, d
<1>7. ASSUME Complete PROVE Data = (IF f.op >= 8 THEN d ELSE PartWith(f, c))
  <2>1. p = d
    BY <1>3, <1>5, <1>7
  <2> QED BY <1>2, <2>1 DEF PartWith, d
<1> QED BY <1>2, <1>3, <1>5, <1>6, <1>7 DEF f, c, d

\* A frame that ends the session ends what was said, too.
LEMMA FrameClosesKeeps ==
    ASSUME ClientTyped, NEW k, Stays(k, state, decoded, taken, remaining_length, frames), FrameCloses
    PROVE  DecoderAt(k, state', decoded', taken, remaining_length, frames') /\ heard' = heard
<1> DEFINE f == stream[k + 1]
           c == Conv(k)
           noText == Invalid \/ (Complete /\ state.opcode = Text /\ state.fin /\ Checked # "S0")
           bye == ~Invalid /\ Complete /\ state.opcode = CloseOp
           unknown == ~Invalid /\ Complete /\ state.opcode \notin {Text, Binary, CloseOp, PingOp, PongOp}
           why == CASE noText -> "INVALID_UTF8" [] bye -> "OK" [] unknown -> "PROTOCOL_ERROR" [] OTHER -> "none"
<1>1. /\ state.framing = "APPLICATION_DATA" /\ heard' = heard /\ why # "none"
      /\ state' = CloseFrom(state, why) /\ decoded' = taken /\ frames' = frames
  BY DEF FrameCloses, DropBlock
<1> HIDE DEF noText, bye, unknown
<1>2. (noText \/ bye \/ unknown) /\ why \in {"INVALID_UTF8", "OK", "PROTOCOL_ERROR"}
  <2>1. noText \/ bye \/ unknown
    BY <1>1
  <2> QED BY <2>1, Zenon
<1> HIDE DEF why
<1>3. /\ k \in 0..Len(stream) /\ k \in Nat /\ k < Len(stream) /\ state \in StateRecord /\ frames \in BothFrames
      /\ taken \in Nat /\ decoded \in Nat /\ decoded <= taken /\ EndOf(k) \in Nat /\ EndOf(k) <= decoded
      /\ f \in FrameRecord /\ Sensible(c) /\ c.on /\ MidFrame(f, c, state, frames) /\ stream \in Streams
      /\ Conv(k + 1) = Meaning(f, c)
  BY <1>1, InMidFrame
<1>4. /\ f.op # 0 => state.opcode = f.op
      /\ f.op = 0 => c.inside /\ state.opcode = c.op /\ state.opcode \in {Text, Binary}
      /\ state.opcode = OpIn(f, c) /\ state.opcode \in 0..15
      /\ (state.opcode >= 8 <=> f.op >= 8) /\ f.op \in 0..15 /\ f.fin \in BOOLEAN /\ state.fin = f.fin /\ ~f.rsv
  BY <1>3, OpcodeOf
<1>5. /\ Data \in Seq(Byte)
      /\ Complete => Data = (IF f.op >= 8 THEN f.data ELSE PartWith(f, c))
      /\ f.op < 8 => \E rest \in Seq(Byte) : PartWith(f, c) = Data \o rest
  BY <1>1, DataOfFrame
<1>6. Checked = (IF state.opcode = Text THEN Utf8After("S0", Data) ELSE "S0")
  BY <1>1, DataRead
<1> HIDE DEF f, c
<1>7. Settled(k)
  <2>1. CASE Forbidden(f, c)
    BY <1>3, <2>1, ForbiddenSettles DEF f, c
  <2>2. CASE ~Forbidden(f, c)
    <3>1. CASE noText
      <4>1. state.opcode = Text
        BY <3>1 DEF noText, Invalid
      <4>2. f.op < 8 /\ ~(f.op >= 8) /\ OpIn(f, c) = Text
        BY <1>4, <4>1 DEF Text
      <4>3. Checked = Utf8After("S0", Data)
        BY <1>6, <4>1
      <4>4. Utf8After("S0", PartWith(f, c)) = "ER" \/ (f.fin /\ Utf8After("S0", PartWith(f, c)) # "S0")
        <5>1. CASE Invalid
          <6>1. Utf8After("S0", Data) = "ER"
            BY <4>3, <5>1 DEF Invalid
          <6>2. PICK rest \in Seq(Byte) : PartWith(f, c) = Data \o rest
            BY <1>5, <4>2
          <6> QED BY <1>5, <6>1, <6>2, FaultStays
        <5>2. CASE ~Invalid
          <6>1. Complete /\ state.fin /\ Checked # "S0"
            BY <3>1, <5>2 DEF noText
          <6>2. Data = PartWith(f, c)
            BY <1>5, <4>2, <6>1
          <6> QED BY <1>4, <4>3, <6>1, <6>2
        <5> QED BY <5>1, <5>2
      <4>5. Dead(Meaning(f, c)) /\ Meaning(f, c).messages = c.messages
        BY <1>3, <2>2, <4>2, <4>4, NoTextIsDead
      <4> QED BY <1>3, <4>5, SettledWhenDead DEF c
    <3>2. CASE bye
      <4>1. f.op = CloseOp
        BY <1>4, <3>2 DEF bye, CloseOp, Text, Binary
      <4> DEFINE m == Meaning(f, c)
      <4>2. m = [c EXCEPT !.on = FALSE, !.bye = TRUE]
        BY <1>3, <2>2, <4>1, MeaningCases
      <4>3. c \in Conversation
        BY <1>3 DEF Sensible
      <4> HIDE DEF m
      <4>4. ~m.on /\ m.messages = c.messages
        BY <4>2, <4>3 DEF Conversation
      <4> QED BY <1>3, <4>4, SettledWhenDead DEF c, m, Dead
    <3>3. CASE unknown
      <4>1. state.opcode \notin {Text, Binary, CloseOp, PingOp, PongOp}
        BY <3>3 DEF unknown
      <4>2. f.op \notin {0, Text, Binary, CloseOp, PingOp, PongOp}
        BY <1>4, <4>1
      <4> QED BY <2>2, <4>2 DEF Forbidden
    <3> QED BY <1>2, <3>1, <3>2, <3>3
  <2> QED BY <2>1, <2>2
<1>8. why \in Statuses /\ EndOf(k) <= taken
  BY <1>2, <1>3 DEF Statuses
<1>9. Ends(k, state', decoded', taken, remaining_length, frames')
  BY <1>1, <1>3, <1>7, <1>8, Closes
<1> QED BY <1>1, <1>9 DEF DecoderAt

---------------------------------------------------------------------------
(* The end of a frame. *)

\* The decoder is between this frame and the next.
LEMMA FrameOver ==
    ASSUME ClientTyped, NEW k, Stays(k, state, decoded, taken, remaining_length, frames),
           state.framing = "APPLICATION_DATA", Complete,
           NEW s, s = AfterFrame(state), NEW d, d = decoded + Len(Chunk),
           NEW fr \in BothFrames, Conv(k + 1).on, HoldsPart(Conv(k + 1), fr.message), fr.control.data = <<>>
    PROVE  Stays(k + 1, s, d, taken, remaining_length, fr)
<1> DEFINE f == stream[k + 1]
           n == Len(Chunk)
           q == k + 1
<1>1. /\ k \in Nat /\ k < Len(stream) /\ k \in 0..Len(stream) /\ stream \in Streams
      /\ state \in StateRecord /\ taken \in Nat /\ decoded \in Nat /\ InFrame(k, state, decoded)
  BY InMidFrame
<1>2. q \in 0..Len(stream)
  <2>1. Len(stream) \in Nat
    BY <1>1, WiresUnroll
  <2> QED BY <1>1, <2>1
<1>3. /\ n \in Nat /\ n = state.length /\ n <= taken - decoded /\ state.offset \in Nat
      /\ state.length + state.offset = Len(f.data) /\ decoded = EndOf(k) + HeadSize(f) + state.offset
      /\ EndOf(q) = EndOf(k) + (HeadSize(f) + Len(f.data)) /\ EndOf(q) \in Nat
      /\ HeadSize(f) \in Nat /\ f.masked /\ ~f.huge
  BY ChunkIs DEF Complete
<1>4. EndOf(k) \in Nat
  BY InMidFrame
<1> HIDE DEF f, n
<1>5. d = EndOf(q) /\ d \in 0..taken
  <2> DEFINE h == HeadSize(f)
             b == EndOf(k)
             o == state.offset
             t == taken
             m == Len(f.data)
             e == EndOf(q)
  <2>1. /\ n \in Nat /\ n <= t - decoded /\ o \in Nat /\ n + o = m /\ decoded = b + h + o
        /\ e = b + (h + m) /\ e \in Nat /\ h \in Nat /\ b \in Nat /\ d = decoded + n /\ t \in Nat /\ decoded \in Nat
    BY <1>1, <1>3, <1>4 DEF n
  <2> HIDE DEF h, b, o, t, m, e
  <2>2. d = e /\ d \in 0..t
    BY ONLY <2>1
  <2> QED BY <2>2 DEF e, t
<1>6. StateIs(s, "START", 0, state.ext, state.index, state.offset, state.fin, state.frame, state.opcode)
  BY <1>1, StateAfterFrame
<1>7. s \in StateRecord /\ s.framing = "START" /\ s.index = 0
  <2>1. state.index = 0
    BY <1>1 DEF InFrame
  <2> QED BY <1>6, <2>1 DEF StateIs
<1> HIDE DEF q
<1>8. InFrame(q, s, d)
  BY <1>5, <1>7 DEF InFrame
<1>9. host # "apache" => FrameRead(q, s, d, taken, remaining_length)
  <2> SUFFICES ASSUME host # "apache" PROVE FrameRead(q, s, d, taken, remaining_length)
    OBVIOUS
  <2>1. FrameRead(k, state, decoded, taken, remaining_length)
    BY DEF Stays, Goes, Decoding
  <2>2. taken + remaining_length = EndOf(q)
    BY <1>3, <2>1 DEF FrameRead, f, q
  <2>3. remaining_length \in Nat
    BY DEF ClientTyped
  <2>4. remaining_length = 0 /\ ~(taken > d)
    BY <1>1, <1>5, <2>2, <2>3
  <2> QED BY <1>7, <2>4 DEF FrameRead
<1>10. Goes(q, s, d, taken, remaining_length)
  BY <1>5, <1>7, <1>8, <1>9 DEF Goes, Decoding
<1>11. Understands(q, s, fr)
  BY <1>7 DEF Understands, q
<1> QED BY <1>2, <1>7, <1>10, <1>11 DEF Stays, q

\* A frame that has been decoded and is of a kind that is known is allowed.
LEMMA FrameAllowed ==
    ASSUME ClientTyped, NEW k, Stays(k, state, decoded, taken, remaining_length, frames),
           state.framing = "APPLICATION_DATA", state.opcode \in {Text, Binary, PingOp, PongOp}
    PROVE  ~Forbidden(stream[k + 1], Conv(k))
<1> DEFINE f == stream[k + 1]
           c == Conv(k)
<1>1. f \in FrameRecord /\ Sensible(c) /\ c.on /\ MidFrame(f, c, state, frames)
  BY InMidFrame
<1>2. f.masked /\ ~f.huge
  BY ChunkIs
<1>3. /\ f.op # 0 => state.opcode = f.op
      /\ (state.opcode >= 8 <=> f.op >= 8) /\ f.op \in 0..15 /\ ~f.rsv
  BY <1>1, OpcodeOf
<1>4. f.op < 8 => c.inside = (f.op = 0)
  BY <1>1 DEF MidFrame
<1>5. f.op >= 8 => f.fin /\ f.form = 0
  <2>1. f.op >= 8 => f.fin /\ Extra(f) = 0
    BY <1>1 DEF MidFrame
  <2> QED BY <1>2, <2>1 DEF Extra
<1>6. f.op \in {0, Text, Binary, CloseOp, PingOp, PongOp}
  BY <1>3
<1> HIDE DEF f, c
<1> QED BY <1>2, <1>3, <1>4, <1>5, <1>6 DEF Forbidden, f, c

\* A PING or a PONG is over: only a PING with a payload has said anything.
LEMMA ControlFrameKeeps ==
    ASSUME ClientTyped, NEW k, Stays(k, state, decoded, taken, remaining_length, frames),
           NEW op \in {PingOp, PongOp}, ControlFrame(op)
    PROVE  /\ Stays(k + 1, state', decoded', taken, remaining_length, frames') /\ heard' = heard
           /\ Conv(k + 1).messages = Conv(k).messages /\ Data \in Seq(Byte)
           /\ Conv(k + 1).pings = (IF op = PingOp /\ Data # <<>> THEN Append(Conv(k).pings, Data) ELSE Conv(k).pings)
<1> DEFINE f == stream[k + 1]
           c == Conv(k)
           m == Conv(k + 1)
<1>1. /\ state.framing = "APPLICATION_DATA" /\ Complete /\ state.opcode = op /\ heard' = heard
      /\ state' = AfterFrame(state) /\ decoded' = decoded + Len(Chunk)
      /\ frames' = [frames EXCEPT ![state.frame].data = <<>>]
  BY DEF ControlFrame, Consume, AfterFrame, Ended
<1>2. /\ k \in Nat /\ state \in StateRecord /\ frames \in BothFrames
      /\ f \in FrameRecord /\ Sensible(c) /\ c.on /\ MidFrame(f, c, state, frames) /\ m = Meaning(f, c)
  BY <1>1, InMidFrame
<1>3. /\ f.op # 0 => state.opcode = f.op
      /\ f.op = 0 => state.opcode \in {Text, Binary}
      /\ (state.opcode >= 8 <=> f.op >= 8) /\ f.op \in 0..15
  BY <1>2, OpcodeOf
<1>4. f.op = op /\ f.op >= 8 /\ (op = PingOp <=> ~(op = PongOp))
  <2>1. op \in {9, 10}
    BY DEF PingOp, PongOp
  <2>2. op >= 8 /\ op \notin {1, 2}
    BY <2>1
  <2> QED BY <1>1, <1>3, <2>2 DEF Text, Binary, PingOp, PongOp
<1>5. ~Forbidden(f, c)
  <2>1. state.opcode \in {Text, Binary, PingOp, PongOp}
    BY <1>1
  <2> QED BY <1>1, <2>1, FrameAllowed
<1>6. Data \in Seq(Byte) /\ Data = f.data
  BY <1>1, <1>4, DataOfFrame
<1> DEFINE p == IF op = PingOp /\ Data # <<>> THEN Append(c.pings, Data) ELSE c.pings
<1>7. m = [c EXCEPT !.pings = p]
  <2>1. CASE op = PingOp
    <3>1. m = [c EXCEPT !.pings = IF f.data = <<>> THEN @ ELSE Append(@, f.data)]
      BY <1>2, <1>4, <1>5, <2>1, MeaningCases
    <3> QED BY <1>6, <2>1, <3>1
  <2>2. CASE op = PongOp
    <3>1. m = c
      BY <1>2, <1>4, <1>5, <2>2, MeaningCases
    <3>2. p = c.pings
      BY <1>4, <2>2
    <3>3. c = [c EXCEPT !.pings = c.pings]
      BY <1>2 DEF Sensible, Conversation
    <3> QED BY <3>1, <3>2, <3>3
  <2> QED BY <2>1, <2>2
<1>8. /\ m.on /\ m.inside = c.inside /\ m.op = c.op /\ m.part = c.part /\ m.messages = c.messages /\ m.pings = p
  <2>1. c \in Conversation
    BY <1>2 DEF Sensible
  <2> HIDE DEF m, p
  <2> QED BY <1>2, <1>7, <2>1 DEF Conversation
<1>9. frames' \in BothFrames /\ frames'.message = frames.message /\ frames'.control.data = <<>>
  <2>1. state.frame = "control"
    BY <1>2, <1>4 DEF MidFrame
  <2>2. <<>> \in Seq(Byte)
    OBVIOUS
  <2> QED BY <1>1, <1>2, <2>1, <2>2 DEF BothFrames, FrameState
<1>10. HoldsPart(m, frames'.message)
  <2>1. HoldsPart(c, frames.message)
    BY <1>2, <1>4 DEF MidFrame
  <2> HIDE DEF m
  <2> QED BY <1>8, <1>9, <2>1 DEF HoldsPart
<1>11. Stays(k + 1, state', decoded', taken, remaining_length, frames')
  BY <1>1, <1>8, <1>9, <1>10, FrameOver
<1> QED BY <1>1, <1>6, <1>8, <1>11

\* A frame of a message is over.  It is said with the last one, unless it is empty.
LEMMA MessageFrameKeeps ==
    ASSUME ClientTyped, NEW k, Stays(k, state, decoded, taken, remaining_length, frames), MessageFrame(connected, dbUp)
    PROVE  /\ Stays(k + 1, state', decoded', taken, remaining_length, frames')
           /\ Conv(k + 1).pings = Conv(k).pings /\ Data \in Seq(Byte)
           /\ Conv(k + 1).messages = (IF state.fin /\ Data # <<>> THEN Append(Conv(k).messages, Data)
                                      ELSE Conv(k).messages)
           /\ heard' = IF state.fin /\ Data # <<>> /\ connected /\ dbUp THEN Append(heard, Data) ELSE heard
<1> DEFINE f == stream[k + 1]
           c == Conv(k)
           m == Conv(k + 1)
           d == IF state.fin THEN <<>> ELSE Data
<1>1. /\ state.framing = "APPLICATION_DATA" /\ Complete /\ state.opcode \in {Text, Binary}
      /\ state.opcode = Text /\ state.fin => Checked = "S0"
      /\ heard' = IF state.fin /\ Data # <<>> /\ connected /\ dbUp THEN Append(heard, Data) ELSE heard
      /\ state' = AfterFrame(state) /\ decoded' = decoded + Len(Chunk)
      /\ frames' = FramesWith(frames, state.frame, d, Checked)
  <2>1. state.opcode \in {Text, Binary} /\ (state.opcode = Text /\ state.fin => Checked = "S0")
    BY DEF MessageFrame, Text, Binary
  <2> QED BY <2>1 DEF MessageFrame, Consume, AfterFrame, Ended, FramesWith
<1>2. /\ k \in Nat /\ state \in StateRecord /\ frames \in BothFrames
      /\ f \in FrameRecord /\ Sensible(c) /\ c.on /\ MidFrame(f, c, state, frames) /\ m = Meaning(f, c)
  BY <1>1, InMidFrame
<1>3. /\ (state.opcode >= 8 <=> f.op >= 8) /\ f.op \in 0..15 /\ state.opcode = OpIn(f, c) /\ state.fin = f.fin
      /\ f.fin \in BOOLEAN
  BY <1>2, OpcodeOf
<1>4. f.op < 8 /\ ~(f.op >= 8)
  <2>1. ~(state.opcode >= 8)
    BY <1>1 DEF Text, Binary
  <2> QED BY <1>3, <2>1
<1>5. ~Forbidden(f, c)
  <2>1. state.opcode \in {Text, Binary, PingOp, PongOp}
    BY <1>1
  <2> QED BY <1>1, <2>1, FrameAllowed
<1>6. Data \in Seq(Byte) /\ Data = PartWith(f, c)
  BY <1>1, <1>4, DataOfFrame
<1>7. /\ state.frame = "message" /\ Checked \in Utf8States
      /\ Checked = (IF state.opcode = Text THEN Utf8After("S0", Data) ELSE "S0")
  BY <1>1, <1>4, DataRead
<1>8. c \in Conversation
  BY <1>2 DEF Sensible
<1> DEFINE p == IF state.fin /\ Data # <<>> THEN Append(c.messages, Data) ELSE c.messages
<1>9. /\ m.on /\ m.inside = ~f.fin /\ m.part = d /\ (~f.fin => m.op = state.opcode)
      /\ m.messages = p /\ m.pings = c.pings
  <2>1. CASE ~f.fin
    <3>1. m = [c EXCEPT !.inside = TRUE, !.op = OpIn(f, c), !.part = PartWith(f, c)]
      BY <1>2, <1>4, <1>5, <2>1, MeaningCases
    <3>2. p = c.messages /\ d = PartWith(f, c)
      BY <1>3, <1>6, <2>1
    <3> HIDE DEF m, p, d
    <3>3. m.on = c.on /\ m.inside = TRUE /\ m.op = OpIn(f, c) /\ m.part = PartWith(f, c)
          /\ m.messages = c.messages /\ m.pings = c.pings
      BY <1>8, <3>1 DEF Conversation
    <3> QED BY <1>2, <1>3, <2>1, <3>2, <3>3
  <2>2. CASE f.fin
    <3>1. OpIn(f, c) = Text => IsText(PartWith(f, c))
      <4> SUFFICES ASSUME OpIn(f, c) = Text PROVE IsText(PartWith(f, c))
        OBVIOUS
      <4>1. Utf8After("S0", Data) = "S0"
        BY <1>1, <1>3, <1>7, <2>2
      <4> QED BY <1>6, <4>1, TextIsUtf8
    <3>2. m = [c EXCEPT !.inside = FALSE, !.part = <<>>,
                        !.messages = IF PartWith(f, c) = <<>> THEN @ ELSE Append(@, PartWith(f, c))]
      BY <1>2, <1>4, <1>5, <2>2, <3>1, MeaningCases
    <3>3. m = [c EXCEPT !.inside = FALSE, !.part = <<>>, !.messages = p]
      BY <1>3, <1>6, <2>2, <3>2
    <3>4. d = <<>>
      BY <1>3, <2>2
    <3> HIDE DEF m, p, d
    <3>5. m.on = c.on /\ m.inside = FALSE /\ m.part = <<>> /\ m.messages = p /\ m.pings = c.pings
      BY <1>8, <3>3 DEF Conversation
    <3> QED BY <1>2, <2>2, <3>4, <3>5
  <2> QED BY <1>3, <2>1, <2>2
<1>10. d \in Seq(Byte)
  BY <1>6
<1> HIDE DEF d, m, p
<1>11. FramesWithIs(frames', frames, "message", d, Checked)
  <2>1. FramesWithIs(FramesWith(frames, "message", d, Checked), frames, "message", d, Checked)
    BY ONLY <1>2, <1>7, <1>10, FramesWithData
  <2> QED BY <1>1, <1>7, <2>1
<1>12. /\ frames' \in BothFrames /\ frames'.control = frames.control /\ frames'.message.data = d
       /\ frames'.message.utf8 = Checked /\ frames'.message.fin = f.fin /\ frames'.message.opcode = state.opcode
       /\ frames'.control.data = <<>>
  <2>1. frames.control.data = <<>> /\ frames.message.fin = f.fin /\ frames.message.opcode = state.opcode
    BY <1>2, <1>4 DEF MidFrame
  <2> QED BY <1>11, <2>1 DEF FramesWithIs
<1>13. HoldsPart(m, frames'.message)
  <2>1. frames'.message.fin = ~m.inside
    BY <1>3, <1>9, <1>12
  <2>2. ASSUME m.inside
        PROVE  frames'.message.opcode = m.op /\ (m.op = Text => frames'.message.utf8 = Utf8After("S0", m.part))
    <3>1. ~f.fin /\ m.op = state.opcode
      BY <1>9, <2>2
    <3>2. m.part = Data
      BY <1>3, <1>9, <3>1 DEF d
    <3> QED BY <1>7, <1>12, <3>1, <3>2
  <2> QED BY <1>9, <1>12, <2>1, <2>2 DEF HoldsPart
<1>14. Stays(k + 1, state', decoded', taken, remaining_length, frames')
  BY <1>1, <1>9, <1>12, <1>13, FrameOver DEF m
<1> QED BY <1>1, <1>6, <1>9, <1>14 DEF m, p

---------------------------------------------------------------------------
(* Reading. *)

\* No more is read of a frame than there is of it, and some of it.
LEMMA GetSome ==
    ASSUME NEW r \in Nat, NEW o \in 0..14
    PROVE  Get(r, o) \in Nat /\ Get(r, o) <= r /\ (r > 0 => Get(r, o) > 0)
<1>1. BlockSize \in Nat /\ BlockSize > 15
  BY WsFramesAssumption
<1> DEFINE z == BlockSize
           g == IF r + o + 1 < z THEN r ELSE z - (o + 1)
<1>2. Get(r, o) = g
  BY DEF Get
<1> HIDE DEF z
<1>3. z \in Nat /\ z > 15
  BY <1>1 DEF z
<1>4. g \in Nat /\ g <= r /\ (r > 0 => g > 0)
  BY ONLY <1>3, r \in Nat, o \in 0..14, SMT
<1> QED BY <1>2, <1>4

\* What is read of the head of a frame.
LEMMA HeadRead ==
    ASSUME stream \in Streams, NEW k \in Nat, k < Len(stream), taken = EndOf(k), Arrived(2)
    PROVE  LET f == stream[k + 1]
           IN  /\ HeadLength = 6 + Extra(f) /\ Extra(f) \in {0, 2, 8} /\ PayloadLength \in Nat
               /\ ~f.huge => PayloadLength = Len(f.data)
<1> DEFINE f == stream[k + 1]
           e == Extra(f)
           b == EndOf(k)
           d == Digits(f)
<1>1. /\ WellFormed(f) /\ b \in Nat /\ Wire(b + 2) = Second(f)
      /\ \A i \in 1..e : Wire(b + 2 + i) = Ext(d[i])
  BY NextFrame
<1>2. /\ Second(f).code = Code(f) /\ Code(f) \in Nat /\ (e = 0 => Code(f) = Len(f.data))
      /\ (Code(f) = 126 <=> e = 2) /\ (Code(f) = 127 <=> e = 8) /\ \A x : Ext(x).digit = x
  BY <1>1, FrameFields
<1>3. /\ e \in {0, 2, 8} /\ f.form \in {0, 2, 8} /\ Len(f.data) \in Nat
      /\ \A i \in 1..e : d[i] \in Nat /\ Value(f, i) = Value(f, i - 1) * 256 + d[i]
      /\ \A i \in 0..e : Value(f, i) \in Nat
      /\ ~f.huge => Value(f, e) = Len(f.data)
  BY <1>1, DigitsType
<1>4. ~f.huge => e = f.form
  BY DEF Extra
<1>5. Wire(taken + 2).code = Code(f) /\ \A i \in 1..e : Digit(i) = d[i]
  BY <1>1, <1>2 DEF Digit
<1>a. ASSUME ~f.huge, NEW i, i # f.form, i # f.form - 1 PROVE Value(f, i) = 0
  BY <1>a DEF Value
<1> DEFINE y == Wire(taken + 2).code
           h == HeadLength
           p == PayloadLength
           V(i) == Value(f, i)
           l == Len(f.data)
<1>6. h = 6 + (CASE y = 126 -> 2 [] y = 127 -> 8 [] OTHER -> 0)
  BY DEF HeadLength
<1>7. p = CASE h = 6  -> y
            [] h = 8  -> Digit(1) * 256 + Digit(2)
            [] h = 14 -> ((Digit(5) * 256 + Digit(6)) * 256 + Digit(7)) * 256 + Digit(8)
  BY DEF PayloadLength
<1> HIDE DEF f, e, b, d, y, h, p, V, l
<1>8. h = 6 + e
  <2>1. (y = 126 <=> e = 2) /\ (y = 127 <=> e = 8)
    BY <1>2, <1>5 DEF y
  <2> QED BY <1>3, <1>6, <2>1
<1>9. p \in Nat /\ (~f.huge => p = l)
  <2>1. CASE e = 0
    <3>1. p = y
      BY <1>7, <1>8, <2>1
    <3>2. y = l /\ l \in Nat
      BY <1>2, <1>3, <1>5, <2>1 DEF y, l
    <3> QED BY <3>1, <3>2
  <2>2. CASE e = 2
    <3>1. p = Digit(1) * 256 + Digit(2)
      BY <1>7, <1>8, <2>2
    <3>2. 1 \in 1..e /\ 2 \in 1..e
      BY <2>2
    <3>3. d[1] \in Nat /\ d[2] \in Nat /\ V(1) = V(1 - 1) * 256 + d[1] /\ V(2) = V(2 - 1) * 256 + d[2]
      BY <1>3, <3>2 DEF V
    <3>4. p = d[1] * 256 + d[2]
      BY <1>5, <3>1, <3>2
    <3>5. ASSUME ~f.huge PROVE V(0) = 0 /\ V(2) = l
      <4>1. f.form = 2
        BY <1>4, <2>2, <3>5
      <4>2. V(0) = 0
        BY <1>a, <3>5, <4>1 DEF V
      <4> QED BY <1>3, <2>2, <3>5, <4>2 DEF V, l
    <3>6. V(1 - 1) = V(0) /\ V(2 - 1) = V(1)
      OBVIOUS
    <3>7. ASSUME ~f.huge PROVE p = l
      <4>1. V(1) = d[1]
        BY <3>3, <3>5, <3>6, <3>7
      <4>2. V(2) = d[1] * 256 + d[2]
        BY <3>3, <3>6, <4>1
      <4> QED BY <3>4, <3>5, <3>7, <4>2
    <3> QED BY <3>3, <3>4, <3>7
  <2>3. CASE e = 8
    <3>1. p = ((Digit(5) * 256 + Digit(6)) * 256 + Digit(7)) * 256 + Digit(8)
      BY <1>7, <1>8, <2>3
    <3>2. 5 \in 1..e /\ 6 \in 1..e /\ 7 \in 1..e /\ 8 \in 1..e
      BY <2>3
    <3>3. /\ d[5] \in Nat /\ d[6] \in Nat /\ d[7] \in Nat /\ d[8] \in Nat
          /\ V(5) = V(5 - 1) * 256 + d[5] /\ V(6) = V(6 - 1) * 256 + d[6]
          /\ V(7) = V(7 - 1) * 256 + d[7] /\ V(8) = V(8 - 1) * 256 + d[8]
      BY <1>3, <3>2 DEF V
    <3>4. p = ((d[5] * 256 + d[6]) * 256 + d[7]) * 256 + d[8]
      BY <1>5, <3>1, <3>2
    <3>5. ASSUME ~f.huge PROVE V(4) = 0 /\ V(8) = l
      <4>1. f.form = 8
        BY <1>4, <2>3, <3>5
      <4>2. V(4) = 0
        BY <1>a, <3>5, <4>1 DEF V
      <4> QED BY <1>3, <2>3, <3>5, <4>2 DEF V, l
    <3>6. V(5 - 1) = V(4) /\ V(6 - 1) = V(5) /\ V(7 - 1) = V(6) /\ V(8 - 1) = V(7)
      OBVIOUS
    <3>7. ASSUME ~f.huge PROVE p = l
      <4>1. V(5) = d[5]
        BY <3>3, <3>5, <3>6, <3>7
      <4>2. V(6) = d[5] * 256 + d[6]
        BY <3>3, <3>6, <4>1
      <4>3. V(7) = (d[5] * 256 + d[6]) * 256 + d[7]
        BY <3>3, <3>6, <4>2
      <4>4. V(8) = ((d[5] * 256 + d[6]) * 256 + d[7]) * 256 + d[8]
        BY <3>3, <3>6, <4>3
      <4> QED BY <3>4, <3>5, <3>7, <4>4
    <3>8. p \in Nat
      <4> DEFINE u1 == d[5] * 256 + d[6]
                 u2 == u1 * 256 + d[7]
                 u3 == u2 * 256 + d[8]
      <4>1. u1 \in Nat
        BY <3>3
      <4> HIDE DEF u1
      <4>2. u2 \in Nat
        BY <3>3, <4>1
      <4> HIDE DEF u2
      <4>3. u3 \in Nat
        BY <3>3, <4>2
      <4> QED BY <3>4, <4>3 DEF u1, u2
    <3> QED BY <3>7, <3>8
  <2> QED BY <1>3, <2>1, <2>2, <2>3
<1> QED BY <1>3, <1>8, <1>9 DEF f, e, h, p, l

\* A decoder that has not got all of a frame is before the end of it.
LEMMA BeforeEnd ==
    ASSUME ClientTyped, NEW k, Stays(k, state, decoded, taken, remaining_length, frames), k < Len(stream),
           ~(state.framing = "APPLICATION_DATA" /\ state.length = 0)
    PROVE  LET f == stream[k + 1]
               h == HeadSize(f)
               b == EndOf(k)
           IN  /\ stream \in Streams /\ k \in Nat /\ k \in 0..Len(stream)
               /\ WellFormed(f) /\ f \in FrameRecord /\ f.masked \in BOOLEAN /\ f.huge \in BOOLEAN
               /\ Sensible(Conv(k)) /\ Conv(k).on /\ Conv(k + 1) = Meaning(f, Conv(k))
               /\ h \in Nat /\ h = (IF f.masked THEN Extra(f) + 6 ELSE Extra(f) + 2)
               /\ Extra(f) \in {0, 2, 8} /\ (f.huge => Extra(f) = 8)
               /\ b \in Nat /\ EndOf(k + 1) \in Nat /\ EndOf(k + 1) = b + (h + Len(f.data)) /\ Len(f.data) \in Nat
               /\ taken \in Nat /\ decoded \in Nat /\ arrived \in Nat /\ taken <= arrived /\ decoded <= taken
               /\ arrived <= EndOf(Len(stream)) /\ remaining_length \in Nat
               /\ b <= decoded /\ decoded < EndOf(k + 1)
               /\ state.framing # "START" => /\ ~f.masked => decoded < b + 2
                                             /\ f.masked /\ f.huge => decoded < b + h - 4
                                             /\ decoded < b + h \/ state.framing = "APPLICATION_DATA"
<1> DEFINE f == stream[k + 1]
           h == HeadSize(f)
           b == EndOf(k)
           e == Extra(f)
           n == Len(f.data)
           g == state.framing
           d == decoded
           x == state.ext
           i == state.index
           o == state.offset
           l == state.length
<1>1. /\ g # "CLOSE" /\ k \in 0..Len(stream)
      /\ state \in StateRecord /\ decoded \in 0..taken /\ InFrame(k, state, decoded) /\ Understands(k, state, frames)
  BY DEF Stays, Goes, Decoding
<1>2. /\ stream \in Streams /\ taken \in 0..arrived /\ arrived \in 0..EndOf(Len(stream)) /\ remaining_length \in Nat
  BY DEF ClientTyped
<1>3. Len(stream) \in Nat /\ k \in Nat /\ k + 1 \in 1..Len(stream) /\ (k + 1) - 1 = k
  <2>1. Len(stream) \in Nat
    BY <1>2, WiresUnroll
  <2> QED BY <1>1, <2>1
<1>4. /\ WellFormed(f) /\ b \in Nat /\ EndOf(k + 1) \in Nat
      /\ EndOf(k + 1) = b + (h + n) /\ EndOf(k + 1) <= EndOf(Len(stream))
  BY <1>2, <1>3, NextFrame
<1>5. EndOf(Len(stream)) \in Nat
  <2>1. Len(stream) \in 0..Len(stream)
    BY <1>3
  <2> QED BY <1>2, <2>1, EndsGrow
<1>6. taken \in Nat /\ decoded \in Nat /\ arrived \in Nat /\ taken <= arrived /\ decoded <= taken
      /\ arrived <= EndOf(Len(stream))
  BY <1>1, <1>2, <1>5
<1>7. /\ f \in FrameRecord /\ f.masked \in BOOLEAN /\ f.huge \in BOOLEAN /\ h \in Nat
      /\ h = (IF f.masked THEN e + 6 ELSE e + 2) /\ e \in {0, 2, 8} /\ n \in Nat
  BY <1>4, FrameFields
<1>8. f.huge => e = 8
  BY DEF Extra
<1>9. Sensible(Conv(k)) /\ Conv(k + 1) = Meaning(f, Conv(k)) /\ Conv(k).on
  <2>1. \A j \in 0..Len(stream) : Sensible(Conv(j))
    BY <1>2, MeaningsUnroll DEF Conv
  <2>2. \A j \in 1..Len(stream) : Conv(j) = Meaning(stream[j], Conv(j - 1))
    BY <1>2, MeaningsUnroll DEF Conv
  <2>3. Conv(k + 1) = Meaning(f, Conv((k + 1) - 1))
    BY <1>3, <2>2
  <2> QED BY <1>1, <1>3, <2>1, <2>3 DEF Understands
<1>10. x \in 0..8 /\ i \in 0..3 /\ o \in Nat /\ l \in Nat
       /\ g \in {"START", "PAYLOAD_LENGTH", "PAYLOAD_LENGTH_EXT", "MASK", "APPLICATION_DATA", "CLOSE"}
  BY <1>1, StateFields
<1>11. /\ g = "START" => d = b
       /\ g = "PAYLOAD_LENGTH" => d = b + 1
       /\ g = "PAYLOAD_LENGTH_EXT" => f.masked /\ x <= e /\ (x = 0 => e = 0) /\ d = b + 2 + (e - x)
       /\ g = "MASK" => f.masked /\ ~f.huge /\ d = b + 2 + e + i
       /\ g = "APPLICATION_DATA" => f.masked /\ ~f.huge /\ l + o = n /\ d = b + h + o
  BY <1>1 DEF InFrame
<1>12. ~(g = "APPLICATION_DATA" /\ l = 0)
  OBVIOUS
<1> HIDE DEF f, h, b, e, n, g, d, x, i, o, l
<1>13. /\ b <= d /\ d < b + (h + n)
       /\ g # "START" => /\ ~f.masked => d < b + 2
                         /\ f.masked /\ f.huge => d < b + h - 4
                         /\ d < b + h \/ g = "APPLICATION_DATA"
  <2>0. h >= 2 /\ b \in Nat /\ n \in Nat /\ h \in Nat /\ e \in Nat /\ x \in Nat /\ i \in Nat
    BY <1>4, <1>7, <1>10
  <2>1. CASE g = "START"
    BY <1>11, <2>0, <2>1
  <2>2. CASE g = "PAYLOAD_LENGTH"
    <3>1. d = b + 1
      BY <1>11, <2>2
    <3>2. f.masked /\ f.huge => h = 14
      BY <1>7, <1>8
    <3> QED BY <2>0, <3>1, <3>2
  <2>3. CASE g = "PAYLOAD_LENGTH_EXT"
    <3>1. f.masked /\ x <= e /\ (x = 0 => e = 0) /\ d = b + 2 + (e - x)
      BY <1>11, <2>3
    <3>2. h = e + 6
      BY <1>7, <3>1
    <3>3. f.huge => e = 8 /\ x > 0
      BY <1>8, <2>0, <3>1
    <3> QED BY <2>0, <3>1, <3>2, <3>3
  <2>4. CASE g = "MASK"
    <3>1. f.masked /\ ~f.huge /\ d = b + 2 + e + i
      BY <1>11, <2>4
    <3>2. h = e + 6 /\ i <= 3
      BY <1>7, <1>10, <3>1
    <3> QED BY <2>0, <3>1, <3>2
  <2>5. CASE g = "APPLICATION_DATA"
    <3>1. f.masked /\ ~f.huge /\ l + o = n /\ d = b + h + o /\ l # 0
      BY <1>11, <1>12, <2>5
    <3>2. l \in Nat /\ o \in Nat
      BY <1>10
    <3>3. b <= d /\ d < b + (h + n)
      BY <2>0, <3>1, <3>2
    <3> QED BY <2>5, <3>1, <3>3
  <2> QED BY <1>1, <1>10, <2>1, <2>2, <2>3, <2>4, <2>5 DEF g
<1> QED BY <1>1, <1>2, <1>3, <1>4, <1>6, <1>7, <1>8, <1>9, <1>13 DEF f, h, b, e, n, g, d

\* NGINX and IIS are between two frames when nothing remains of a frame.
LEMMA BetweenFrames ==
    ASSUME ClientTyped, NEW k, Stays(k, state, decoded, taken, remaining_length, frames), decoded = taken,
           ~(state.framing = "APPLICATION_DATA" /\ state.length = 0), host # "apache"
    PROVE  /\ remaining_length = 0 <=> state.framing = "START"
           /\ state.framing = "START" => taken = EndOf(k)
           /\ state.framing # "START" => k < Len(stream)
<1>1. /\ InFrame(k, state, decoded) /\ FrameRead(k, state, decoded, taken, remaining_length)
      /\ remaining_length \in Nat
  BY DEF Stays, Goes, Decoding, ClientTyped
<1>2. state.framing = "START" => remaining_length = 0 /\ taken = EndOf(k)
  BY <1>1 DEF InFrame, FrameRead
<1>3. state.framing # "START" => k < Len(stream)
  BY <1>1 DEF InFrame
<1>4. ASSUME state.framing # "START", remaining_length = 0 PROVE FALSE
  <2> DEFINE f == stream[k + 1]
             h == HeadSize(f)
             b == EndOf(k)
  <2>1. /\ f.masked \in BOOLEAN /\ f.huge \in BOOLEAN /\ h \in Nat /\ b \in Nat /\ EndOf(k + 1) \in Nat
        /\ taken \in Nat /\ decoded < EndOf(k + 1)
        /\ ~f.masked => decoded < b + 2
        /\ f.masked /\ f.huge => decoded < b + h - 4
    BY <1>3, <1>4, BeforeEnd
  <2>2. /\ ~f.masked => taken >= b + 2
        /\ f.masked /\ f.huge => taken >= b + h - 4
        /\ f.masked /\ ~f.huge => taken + remaining_length = EndOf(k + 1)
    BY <1>1, <1>4 DEF FrameRead
  <2> HIDE DEF f, h, b
  <2>3. CASE ~f.masked
    BY <2>1, <2>2, <2>3
  <2>4. CASE f.masked /\ f.huge
    BY <2>1, <2>2, <2>4
  <2>5. CASE f.masked /\ ~f.huge
    <3>1. taken + 0 = EndOf(k + 1)
      BY <1>4, <2>2, <2>5
    <3> QED BY <2>1, <3>1
  <2> QED BY <2>1, <2>3, <2>4, <2>5
<1> QED BY <1>2, <1>3, <1>4

\* A block that is read leaves the decoder where it is.
LEMMA ReadKeeps ==
    ASSUME ClientTyped, NEW k, Stays(k, state, decoded, taken, remaining_length, frames), decoded = taken,
           ~(state.framing = "APPLICATION_DATA" /\ state.length = 0), ReadBlock
    PROVE  /\ taken' \in 0..arrived /\ remaining_length' \in Nat
           /\ Stays(k, state, decoded, taken', remaining_length', frames)
<1> DEFINE f == stream[k + 1]
           t == taken
           r == remaining_length
<1>1. /\ state.framing # "CLOSE" /\ k \in 0..Len(stream) /\ frames \in BothFrames /\ Understands(k, state, frames)
      /\ state \in StateRecord /\ decoded \in 0..taken /\ InFrame(k, state, decoded)
      /\ (host # "apache" => FrameRead(k, state, decoded, taken, remaining_length))
  BY DEF Stays, Goes, Decoding
<1>2. /\ stream \in Streams /\ taken \in 0..arrived /\ arrived \in 0..EndOf(Len(stream)) /\ remaining_length \in Nat
  BY DEF ClientTyped
<1>3. Len(stream) \in Nat /\ k \in Nat /\ EndOf(Len(stream)) \in Nat
  <2>1. Len(stream) \in Nat
    BY <1>2, WiresUnroll
  <2>2. Len(stream) \in 0..Len(stream)
    BY <2>1
  <2> QED BY <1>1, <1>2, <2>1, <2>2, EndsGrow
<1>4. t \in Nat /\ arrived \in Nat /\ t <= arrived /\ r \in Nat /\ arrived <= EndOf(Len(stream))
  BY <1>2, <1>3
<1>5. BlockSize \in Nat /\ Pieces \subseteq 1..BlockSize
  BY WsFramesAssumption
<1>6. ASSUME taken' \in t..arrived, remaining_length' \in Nat,
             host # "apache" => FrameRead(k, state, decoded, taken', remaining_length')
      PROVE  /\ taken' \in 0..arrived /\ remaining_length' \in Nat
             /\ Stays(k, state, decoded, taken', remaining_length', frames)
  <2>1. taken' \in 0..arrived /\ decoded \in 0..taken'
    BY <1>4, <1>6
  <2>2. Goes(k, state, decoded, taken', remaining_length')
    BY <1>1, <1>6, <2>1 DEF Goes, Decoding
  <2> QED BY <1>1, <1>6, <2>1, <2>2 DEF Stays
<1>7. CASE host = "apache"
  <2>1. PICK n \in (Pieces \cup {Min({BlockSize, arrived - taken})}) \ {0} :
            taken + n <= arrived /\ taken' = taken + n /\ remaining_length' = remaining_length
    BY <1>7 DEF ReadBlock, ReadSome, Arrived
  <2>2. n \in Nat
    <3>1. CASE n \in Pieces
      BY <1>5, <3>1
    <3>2. CASE n = Min({BlockSize, arrived - taken})
      <4>1. arrived - taken \in Nat
        BY <1>4
      <4>2. n = IF BlockSize <= arrived - taken THEN BlockSize ELSE arrived - taken
        BY <1>5, <3>2, <4>1, MinOfTwo
      <4> QED BY <1>5, <4>1, <4>2
    <3> QED BY <2>1, <3>1, <3>2
  <2> QED BY <1>4, <1>6, <1>7, <2>1, <2>2
<1>8. CASE host # "apache" /\ ReadHeadAndPayload
  <2> DEFINE e == HeadLength
             p == PayloadLength
             more == Get(p, e)
             n == e + (IF Arrived(e + more) THEN more ELSE 0)
             b == EndOf(k)
  <2>1. /\ r = 0 /\ t + e <= arrived /\ taken' = t + n /\ remaining_length' = p - (n - e)
        /\ Arrived(e + more) <=> t + (e + more) <= arrived
    BY <1>8 DEF ReadHeadAndPayload, Arrived
  <2>2. state.framing = "START" /\ t = b
    BY <1>8, <2>1, BetweenFrames
  <2>3. Arrived(2)
    <3>1. e \in {6, 8, 14}
      BY DEF HeadLength
    <3> QED BY <1>4, <2>1, <3>1 DEF Arrived
  <2>4. k < Len(stream)
    <3>1. e \in {6, 8, 14}
      BY DEF HeadLength
    <3>2. t < arrived
      <4> HIDE DEF e
      <4> QED BY <1>4, <2>1, <3>1
    <3>3. k # Len(stream)
      BY <1>3, <1>4, <2>2, <3>2
    <3> QED BY <1>1, <1>3, <3>3
  <2>5. /\ e = 6 + Extra(f) /\ Extra(f) \in {0, 2, 8} /\ p \in Nat /\ (~f.huge => p = Len(f.data))
    BY <1>2, <1>3, <2>2, <2>3, <2>4, HeadRead
  <2>6. /\ HeadSize(f) \in Nat /\ HeadSize(f) = (IF f.masked THEN Extra(f) + 6 ELSE Extra(f) + 2) /\ b \in Nat
        /\ EndOf(k + 1) = b + (HeadSize(f) + Len(f.data)) /\ Len(f.data) \in Nat
        /\ f.masked \in BOOLEAN /\ f.huge \in BOOLEAN
    BY <2>2, <2>4, BeforeEnd
  <2>7. more \in Nat /\ more <= p
    <3>1. e \in 0..14
      BY <2>5
    <3> HIDE DEF e, p
    <3> QED BY <2>5, <3>1, GetSome
  <2> HIDE DEF e, p, more
  <2>8. n \in Nat /\ n >= e /\ n - e \in Nat /\ n - e <= p /\ t + n <= arrived
    <3>1. CASE Arrived(e + more)
      <4>1. n = e + more /\ t + (e + more) <= arrived
        BY <2>1, <3>1
      <4> QED BY <1>4, <2>5, <2>7, <4>1
    <3>2. CASE ~Arrived(e + more)
      <4>1. n = e
        BY <2>5, <3>2
      <4> QED BY <1>4, <2>1, <2>5, <4>1
    <3> QED BY <3>1, <3>2
  <2> DEFINE h == HeadSize(f)
             l == Len(f.data)
             x == Extra(f)
  <2> HIDE DEF n, h, l, x, b, f
  <2>9. /\ taken' \in t..arrived /\ remaining_length' \in Nat /\ taken' > t
        /\ taken' >= b + x + 6 /\ taken' + remaining_length' = b + e + p
    <3>1. t = b /\ t \in Nat /\ e = 6 + x /\ x \in Nat /\ n \in Nat /\ n >= e /\ n - e \in Nat /\ n - e <= p /\ p \in Nat
          /\ t + n <= arrived /\ arrived \in Nat /\ taken' = t + n /\ remaining_length' = p - (n - e)
      BY <1>4, <2>1, <2>2, <2>5, <2>8 DEF x
    <3> HIDE DEF t
    <3> QED BY ONLY <3>1
  <2>10. /\ ~f.masked => taken' >= b + 2
         /\ f.masked /\ f.huge => taken' >= b + h - 4
         /\ f.masked /\ ~f.huge => taken' >= b + h /\ taken' + remaining_length' = EndOf(k + 1)
    <3>a. taken' \in Nat
      BY <1>4, <2>9
    <3>b. x \in {0, 2, 8} /\ b \in Nat /\ h \in Nat /\ h = (IF f.masked THEN x + 6 ELSE x + 2)
          /\ l \in Nat /\ e = 6 + x
      BY <2>5, <2>6 DEF x, h, l
    <3>c. x \in Nat
      BY <3>b
    <3>0. x \in Nat /\ b \in Nat /\ h \in Nat /\ taken' \in Nat /\ h = (IF f.masked THEN x + 6 ELSE x + 2)
          /\ l \in Nat /\ e = 6 + x
      BY <3>a, <3>b, <3>c
    <3>1. CASE ~f.masked
      BY <2>9, <3>0, <3>1
    <3>2. CASE f.masked /\ f.huge
      BY <2>9, <3>0, <3>2
    <3>3. CASE f.masked /\ ~f.huge
      <4>1. p = l /\ EndOf(k + 1) = b + (h + l)
        BY <2>5, <2>6, <3>3 DEF l, h
      <4>2. h = x + 6
        BY <3>0, <3>3
      <4>3. /\ x \in Nat /\ b \in Nat /\ l \in Nat /\ e = 6 + x /\ p = l /\ EndOf(k + 1) = b + (h + l) /\ h = x + 6
            /\ taken' >= b + x + 6 /\ taken' + remaining_length' = b + e + p
        BY <2>9, <3>0, <4>1, <4>2
      <4>4. taken' >= b + h /\ taken' + remaining_length' = EndOf(k + 1)
        <5> DEFINE y == taken'
                   z == EndOf(k + 1)
                   v == taken' + remaining_length'
        <5>1. y \in Nat
          BY <3>0
        <5> HIDE DEF y, z, v
        <5>2. /\ x \in Nat /\ b \in Nat /\ l \in Nat /\ e = 6 + x /\ p = l /\ z = b + (h + l) /\ h = x + 6
              /\ y >= b + x + 6 /\ v = b + e + p
          BY <4>3 DEF y, z, v
        <5>3. y >= b + h /\ v = z
          BY ONLY <5>1, <5>2
        <5> QED BY <5>3 DEF y, z, v
      <4> QED BY <3>3, <4>4
    <3> QED BY <2>6, <3>1, <3>2, <3>3
  <2>11. FrameRead(k, state, decoded, taken', remaining_length')
    <3>1. taken' # decoded
      BY <1>4, <2>9
    <3> QED BY <2>10, <3>1 DEF FrameRead, f, b, h
  <2> QED BY <1>6, <2>9, <2>11
<1>9. CASE host # "apache" /\ ReadPayload
  <2> DEFINE n == Get(r, 0)
  <2>1. r > 0 /\ t + n <= arrived /\ taken' = t + n /\ remaining_length' = r - n
    BY <1>9 DEF ReadPayload, Arrived
  <2>2. n \in Nat /\ n <= r
    BY <1>4, GetSome
  <2>3. state.framing # "START"
    <3>1. r # 0
      BY <1>4, <2>1
    <3> QED BY <1>9, <3>1, BetweenFrames
  <2> HIDE DEF n
  <2>4. /\ taken' \in t..arrived /\ remaining_length' \in Nat /\ taken' >= t
        /\ taken' + remaining_length' = t + r
    BY <1>4, <2>1, <2>2
  <2>5. FrameRead(k, state, decoded, taken, remaining_length)
    BY <1>1, <1>9
  <2>6. k < Len(stream)
    BY <1>9, <2>3, BetweenFrames
  <2>7. HeadSize(f) \in Nat /\ EndOf(k) \in Nat
    BY <2>6, BeforeEnd
  <2>8. /\ ~f.masked => t >= EndOf(k) + 2
        /\ f.masked /\ f.huge => t >= EndOf(k) + HeadSize(f) - 4
        /\ f.masked /\ ~f.huge => t >= EndOf(k) + HeadSize(f) /\ t + r = EndOf(k + 1)
    BY <2>3, <2>5 DEF FrameRead
  <2> DEFINE h == HeadSize(f)
             b == EndOf(k)
  <2> HIDE DEF f, h, b
  <2>9. /\ t >= b + 2 => taken' >= b + 2
        /\ t >= b + h - 4 => taken' >= b + h - 4
        /\ t >= b + h => taken' >= b + h
    <3>1. taken' \in Nat /\ t \in Nat /\ b \in Nat /\ h \in Nat /\ taken' >= t
      BY <1>4, <2>4, <2>7 DEF h, b
    <3> QED BY ONLY <3>1
  <2>10. /\ ~f.masked => taken' >= b + 2
         /\ f.masked /\ f.huge => taken' >= b + h - 4
         /\ f.masked /\ ~f.huge => taken' >= b + h /\ taken' + remaining_length' = EndOf(k + 1)
    BY <2>4, <2>8, <2>9 DEF b, h
  <2>11. FrameRead(k, state, decoded, taken', remaining_length')
    BY <2>3, <2>10 DEF FrameRead, f, b, h
  <2> QED BY <1>6, <2>4, <2>11
<1>10. host = "apache" \/ ReadHeadAndPayload \/ ReadPayload
  BY DEF ReadBlock
<1> QED BY <1>7, <1>8, <1>9, <1>10

\* When nothing can be read any more, all that arrives has been said, or what comes next is
\* a frame that is not allowed.
LEMMA NothingMore ==
    ASSUME ClientTyped, NEW k, Stays(k, state, decoded, taken, remaining_length, frames), decoded = taken,
           ~(state.framing = "APPLICATION_DATA" /\ state.length = 0), ReadNothing
    PROVE  Settled(k)
<1> DEFINE f == stream[k + 1]
           t == taken
           r == remaining_length
           b == EndOf(k)
           h == HeadSize(f)
           x == Extra(f)
<1>1. stream \in Streams /\ k \in 0..Len(stream) /\ arrived \in Nat /\ Len(stream) \in Nat
  <2>1. stream \in Streams /\ k \in 0..Len(stream)
    BY DEF ClientTyped, Stays
  <2>2. Len(stream) \in Nat /\ EndOf(Len(stream)) \in Nat
    <3>1. Len(stream) \in Nat
      BY <2>1, WiresUnroll
    <3>2. Len(stream) \in 0..Len(stream)
      BY <3>1
    <3> QED BY <2>1, <3>1, <3>2, EndsGrow
  <2> QED BY <2>1, <2>2 DEF ClientTyped
<1>2. CASE ~(k < Len(stream))
  BY <1>1, <1>2, SettledWhenCut
<1>3. CASE k < Len(stream)
  <2>1. /\ f \in FrameRecord /\ f.masked \in BOOLEAN /\ f.huge \in BOOLEAN
        /\ Sensible(Conv(k)) /\ Conv(k).on /\ Conv(k + 1) = Meaning(f, Conv(k))
        /\ h \in Nat /\ h = (IF f.masked THEN x + 6 ELSE x + 2) /\ x \in {0, 2, 8}
        /\ b \in Nat /\ EndOf(k + 1) \in Nat /\ EndOf(k + 1) = b + (h + Len(f.data)) /\ Len(f.data) \in Nat
        /\ t \in Nat /\ t <= arrived /\ r \in Nat /\ t < EndOf(k + 1) /\ k \in Nat
    BY <1>3, BeforeEnd
  <2>2. ASSUME ~f.masked \/ f.huge PROVE Settled(k)
    <3>1. Forbidden(f, Conv(k))
      BY <2>2 DEF Forbidden
    <3> QED BY <1>1, <2>1, <3>1, ForbiddenSettles
  <2>3. ASSUME EndOf(k + 1) > arrived PROVE Settled(k)
    BY <1>1, <2>3, SettledWhenCut
  <2>4. CASE host = "apache"
    <3>1. ~(t + 1 <= arrived)
      BY <2>4 DEF ReadNothing, Arrived
    <3>2. EndOf(k + 1) > arrived
      BY <1>1, <2>1, <3>1
    <3> QED BY <2>3, <3>2
  <2>5. CASE host # "apache" /\ r = 0
    <3>1. t = b
      BY <2>5, BetweenFrames
    <3>2. ~(t + HeadLength <= arrived)
      BY <2>5 DEF ReadNothing, Arrived
    <3>3. CASE ~Arrived(2)
      <4>1. ~(t + 2 <= arrived)
        BY <3>3 DEF Arrived
      <4>2. h >= 2
        BY <2>1
      <4>3. EndOf(k + 1) > arrived
        <5> DEFINE z == EndOf(k + 1)
                   l == Len(f.data)
                   a == arrived
        <5>1. /\ z \in Nat /\ z = b + (h + l) /\ l \in Nat /\ h \in Nat /\ b \in Nat /\ t \in Nat /\ t = b
              /\ a \in Nat /\ ~(t + 2 <= a) /\ h >= 2
          BY <1>1, <2>1, <3>1, <4>1, <4>2
        <5> HIDE DEF z, l, a, h, b, t
        <5>2. z > a
          BY ONLY <5>1
        <5> QED BY <5>2 DEF z, a
      <4> QED BY <2>3, <4>3
    <3>4. CASE Arrived(2)
      <4>1. HeadLength = 6 + x
        BY <1>1, <1>3, <2>1, <3>1, <3>4, HeadRead
      <4>2. CASE ~f.masked
        BY <2>2, <4>2
      <4>3. CASE f.masked
        <5>1. HeadLength = h
          BY <2>1, <4>1, <4>3
        <5>2. EndOf(k + 1) > arrived
          <6> DEFINE z == EndOf(k + 1)
                     l == Len(f.data)
                     a == arrived
          <6>1. /\ z \in Nat /\ z = b + (h + l) /\ l \in Nat /\ h \in Nat /\ b \in Nat /\ t \in Nat /\ t = b
                /\ a \in Nat /\ ~(t + h <= a)
            BY <1>1, <2>1, <3>1, <3>2, <5>1
          <6> HIDE DEF z, l, a, h, b, t
          <6>2. z > a
            BY ONLY <6>1
          <6> QED BY <6>2 DEF z, a
        <5> QED BY <2>3, <5>2
      <4> QED BY <4>2, <4>3
    <3> QED BY <3>3, <3>4
  <2>6. CASE host # "apache" /\ r # 0
    <3>1. state.framing # "START"
      BY <2>6, BetweenFrames
    <3>2. f.masked /\ ~f.huge => t + r = EndOf(k + 1)
      BY <2>6, <3>1 DEF Stays, Goes, Decoding, FrameRead
    <3>3. ~(t + Get(r, 0) <= arrived)
      BY <2>6 DEF ReadNothing, Arrived
    <3>4. Get(r, 0) \in Nat /\ Get(r, 0) <= r
      BY <2>1, GetSome
    <3>5. t + r > arrived
      <4> DEFINE g == Get(r, 0)
      <4> HIDE DEF g, t, r
      <4> QED BY <1>1, <2>1, <3>3, <3>4 DEF g
    <3> QED BY <2>1, <2>2, <2>3, <3>2, <3>5
  <2> QED BY <2>4, <2>5, <2>6
<1> QED BY <1>2, <1>3

\* The session is given up then.
LEMMA ReadFailsKeeps ==
    ASSUME ClientTyped, NEW k, Stays(k, state, decoded, taken, remaining_length, frames), decoded = taken,
           ~(state.framing = "APPLICATION_DATA" /\ state.length = 0), ReadNothing,
           NEW s, s = CloseFrom(state, "PROTOCOL_ERROR")
    PROVE  Ends(k, s, decoded, taken, remaining_length, frames)
<1>1. /\ k \in 0..Len(stream) /\ state \in StateRecord /\ frames \in BothFrames /\ InFrame(k, state, decoded)
  BY DEF Stays, Goes, Decoding
<1>2. taken \in Nat /\ EndOf(k) <= taken
  <2>1. CASE state.framing = "START"
    <3>1. decoded = EndOf(k)
      BY <1>1, <2>1 DEF InFrame
    <3>2. stream \in Streams /\ EndOf(k) \in Nat
      <4>1. stream \in Streams /\ k \in Nat
        BY <1>1 DEF ClientTyped
      <4>2. k <= k
        BY <4>1
      <4> QED BY <1>1, <4>1, <4>2, EndsGrow
    <3> QED BY <3>1, <3>2
  <2>2. CASE state.framing # "START"
    BY <2>2, InMidFrame
  <2> QED BY <2>1, <2>2
<1>3. "PROTOCOL_ERROR" \in Statuses
  BY DEF Statuses
<1>4. Settled(k)
  BY NothingMore
<1> QED BY <1>1, <1>2, <1>3, <1>4, Closes

---------------------------------------------------------------------------
(* The steps of the session. *)

\* The numbers up to one, and the largest of some of them.
LEMMA MaxExists ==
    ASSUME NEW n \in Nat, NEW S, S \subseteq 0..n, S # {}
    PROVE  Max(S) \in S /\ \A y \in S : Max(S) >= y
<1> DEFINE D == {n - x : x \in S}
<1>1. D \subseteq Nat /\ D # {}
  <2>1. \A x \in S : n - x \in Nat
    OBVIOUS
  <2>2. PICK x \in S : TRUE
    OBVIOUS
  <2>3. n - x \in D
    OBVIOUS
  <2>4. D \subseteq Nat
    BY <2>1
  <2> QED BY <2>3, <2>4
<1>2. PICK m \in D : \A j \in D : ~(<<j, m>> \in OpToRel(<, Nat))
  BY <1>1, NatLessThanWellFounded, WFMin
<1>3. PICK x \in S : m = n - x
  BY <1>2
<1>4. \A y \in S : x >= y
  <2> TAKE y \in S
  <2>1. n - y \in D /\ n - y \in Nat /\ m \in Nat
    BY <1>1, <1>2
  <2>2. ~(n - y < m)
    BY <1>2, <2>1 DEF OpToRel
  <2>3. x \in 0..n /\ y \in 0..n
    OBVIOUS
  <2> QED BY <1>3, <2>2, <2>3
<1> DEFINE z == CHOOSE x1 \in S : \A y \in S : x1 >= y
<1>5. z \in S /\ \A y \in S : z >= y
  BY <1>3, <1>4
<1> QED BY <1>5 DEF Max

\* What the decoder has done, and what has been sent, is understood.
LEMMA UnderstoodAfter ==
    ASSUME UNCHANGED client, NEW k \in 0..Len(stream),
           DecoderAt(k, state', decoded', taken', remaining_length', frames'),
           Follows(heard', Conv(k).messages, dbUp'), Follows(pongs', Conv(k).pings, FALSE),
           ~left' /\ (~closing' \/ InWrite') => Conv(k).pings = pongs' \o Pending'
    PROVE  Understood'
<1>1. stream' = stream /\ host' = host /\ arrived' = arrived
  BY DEF client
<1>2. k \in 0..Len(stream') /\ Conv(k)' = Conv(k)
  BY <1>1 DEF Conv
<1>3. DecoderAt(k, state, decoded, taken, remaining_length, frames)'
  BY <1>1 DEF DecoderAt, Stays, Ends, Goes, Decoding, InFrame, FrameRead, Understands, MidFrame, HoldsPart, Conv, EndOf, Settled
<1>4. HeardUpTo(k)'
  BY <1>2 DEF HeardUpTo, Follows
<1>5. PongsUpTo(k)'
  BY <1>2 DEF PongsUpTo, Follows
<1> QED BY <1>2, <1>3, <1>4, <1>5 DEF Understood

\* The types of the client, when only its reading moved.
LEMMA ClientTypedAfter ==
    ASSUME ClientTyped, UNCHANGED client, left' \in BOOLEAN, taken' \in 0..arrived, remaining_length' \in Nat
    PROVE  ClientTyped'
BY DEF ClientTyped, client, EndOf

\* A step that is none of the decoder.
LEMMA IdleKeeps ==
    ASSUME SessionInv, UNCHANGED <<client, reading, decoding>>, left' \in BOOLEAN, dbUp' => dbUp, pongs' = pongs,
           ~left' /\ (~closing' \/ InWrite') => ~left /\ (~closing \/ InWrite) /\ Pending' = Pending
    PROVE  ClientTyped' /\ Understood'
<1>1. ClientTyped /\ Understood
  BY DEF SessionInv
<1>2. /\ UNCHANGED client
      /\ taken' = taken /\ remaining_length' = remaining_length /\ decoded' = decoded /\ state' = state
      /\ frames' = frames /\ heard' = heard
  BY DEF reading, decoding
<1>3. taken \in 0..arrived /\ remaining_length \in Nat
  BY <1>1 DEF ClientTyped
<1>4. ClientTyped'
  BY <1>1, <1>2, <1>3, ClientTypedAfter
<1>5. PICK k \in 0..Len(stream) : /\ DecoderAt(k, state, decoded, taken, remaining_length, frames)
                                  /\ HeardUpTo(k) /\ PongsUpTo(k)
  BY <1>1 DEF Understood
<1>6. DecoderAt(k, state', decoded', taken', remaining_length', frames')
  BY <1>2, <1>5
<1>7. Follows(heard', Conv(k).messages, dbUp')
  BY <1>2, <1>5 DEF HeardUpTo, Follows
<1>8. Follows(pongs', Conv(k).pings, FALSE) /\ (~left /\ (~closing \/ InWrite) => Conv(k).pings = pongs \o Pending)
  BY <1>5 DEF PongsUpTo
<1>9. ~left' /\ (~closing' \/ InWrite') => Conv(k).pings = pongs' \o Pending'
  BY <1>8
<1> QED BY <1>2, <1>4, <1>6, <1>7, <1>8, <1>9, UnderstoodAfter

\* The session begins: the handshake is answered and the threads start.
LEMMA ConnectKeeps ==
    ASSUME SessionInv, Connect
    PROVE  SessionInv'
<1>1. ClientTyped /\ SessionTyped /\ Staged
  BY DEF SessionInv
<1>2. /\ UNCHANGED <<client, reading, decoding>> /\ pongs' = pongs
      /\ state' = state /\ decoded' = decoded /\ taken' = taken
  BY DEF Connect, session, db, decoding, reading
<1>3. SessionTyped'
  BY <1>1 DEF SessionTyped, Connect, session, db, FramerStages, ReaderStages
<1>4. Staged'
  BY <1>1, <1>2 DEF Staged, SessionTyped, Connect, session, db, Over, NoFrame, FramerStages
<1>5. ~left' /\ (~closing' \/ InWrite') => ~left /\ (~closing \/ InWrite) /\ Pending' = Pending
  BY <1>1 DEF Pending, InWrite, Staged, SessionTyped, NoFrame, Connect, session, db
<1>6. left' \in BOOLEAN /\ (dbUp' => dbUp)
  BY <1>1 DEF ClientTyped, Connect, session, db
<1>7. ClientTyped' /\ Understood'
  BY <1>2, <1>5, <1>6, IdleKeeps
<1> QED BY <1>3, <1>4, <1>7 DEF SessionInv

\* The DB Server refuses the connection, and the session ends before it began.
LEMMA RefusedKeeps ==
    ASSUME SessionInv, Refused
    PROVE  SessionInv'
<1>1. ClientTyped /\ SessionTyped /\ Staged
  BY DEF SessionInv
<1>2. /\ UNCHANGED <<client, reading, decoding>> /\ pongs' = pongs
      /\ state' = state /\ decoded' = decoded /\ taken' = taken
  BY DEF Refused, session, db, decoding, reading
<1>3. SessionTyped'
  BY <1>1 DEF SessionTyped, Refused, session, db, FramerStages, ReaderStages
<1>4. Staged'
  BY <1>1, <1>2 DEF Staged, SessionTyped, Refused, session, db, Over, NoFrame, FramerStages
<1>5. ~left' /\ (~closing' \/ InWrite') => ~left /\ (~closing \/ InWrite) /\ Pending' = Pending
  BY <1>1 DEF Pending, InWrite, Staged, SessionTyped, NoFrame, Refused, session, db
<1>6. left' \in BOOLEAN /\ (dbUp' => dbUp)
  BY <1>1 DEF ClientTyped, Refused, session, db
<1>7. ClientTyped' /\ Understood'
  BY <1>2, <1>5, <1>6, IdleKeeps
<1> QED BY <1>3, <1>4, <1>7 DEF SessionInv

\* The block is used up: the thread of the request reads the next or says CLOSE.
LEMMA BlockDoneKeeps ==
    ASSUME SessionInv, BlockDone
    PROVE  SessionInv'
<1>1. ClientTyped /\ SessionTyped /\ Staged
  BY DEF SessionInv
<1>2. /\ UNCHANGED <<client, reading, decoding>> /\ pongs' = pongs
      /\ state' = state /\ decoded' = decoded /\ taken' = taken
  BY DEF BlockDone, session, db, SayClose, Out, decoding, reading
<1>3. SessionTyped'
  BY <1>1 DEF SessionTyped, BlockDone, session, db, SayClose, Out, FramerStages, ReaderStages
<1>4. Staged'
  <2>1. decoded = taken
    <3>1. PICK k \in 0..Len(stream) : DecoderAt(k, state, decoded, taken, remaining_length, frames)
      BY DEF SessionInv, Understood
    <3>2. decoded \in 0..taken
      BY <3>1 DEF DecoderAt, Stays, Ends, Goes
    <3>3. taken \in 0..arrived /\ taken - decoded = 0
      BY <1>1 DEF ClientTyped, BlockDone, Left
    <3> QED BY <3>2, <3>3
  <2>2. /\ framer = "decode" /\ UNCHANGED <<reader, closing, connected, pipe, dbUp, sent, unread>>
        /\ ~(state.framing = "APPLICATION_DATA" /\ state.length = 0)
    BY DEF BlockDone, session, db
  <2>3. CASE state.framing = "CLOSE"
    <3>1. framer' = "check" /\ out' = [type |-> "CLOSE", data |-> <<0, 0>>]
      BY <2>3 DEF BlockDone, SayClose, Out
    <3>2. out'.data \in Seq(Byte)
      BY <3>1 DEF Byte
    <3> QED BY <1>1, <2>2, <3>1, <3>2 DEF Staged, Over
  <2>4. CASE state.framing # "CLOSE"
    <3>1. framer' = "read" /\ out' = out
      BY <2>4 DEF BlockDone
    <3> QED BY <1>1, <1>2, <2>1, <2>2, <2>4, <3>1 DEF Staged, Over
  <2> QED BY <2>3, <2>4
<1>5. ~left' /\ (~closing' \/ InWrite') => ~left /\ (~closing \/ InWrite) /\ Pending' = Pending
  BY <1>1 DEF Pending, InWrite, Staged, SessionTyped, NoFrame, BlockDone, session, db, SayClose, Out
<1>6. left' \in BOOLEAN /\ (dbUp' => dbUp)
  BY <1>1 DEF ClientTyped, BlockDone, session, db, SayClose, Out
<1>7. ClientTyped' /\ Understood'
  BY <1>2, <1>5, <1>6, IdleKeeps
<1> QED BY <1>3, <1>4, <1>7 DEF SessionInv

\* The thread of the request, before it writes its frame ...
LEMMA FramerChecksKeeps ==
    ASSUME SessionInv, FramerChecks
    PROVE  SessionInv'
<1>1. ClientTyped /\ SessionTyped /\ Staged
  BY DEF SessionInv
<1>2. /\ UNCHANGED <<client, reading, decoding>> /\ pongs' = pongs
      /\ state' = state /\ decoded' = decoded /\ taken' = taken
  BY DEF FramerChecks, session, db, Thread, FramerGoesOn, decoding, reading
<1>3. SessionTyped'
  BY <1>1 DEF SessionTyped, FramerChecks, session, db, Thread, FramerGoesOn, FramerStages, ReaderStages
<1>4. Staged'
  <2>1. framer = "check" /\ UNCHANGED <<reader, closing, connected, pipe, dbUp, sent, unread>>
    BY DEF FramerChecks, session, db
  <2>2. CASE closing
    <3>1. framer' = (IF state.framing = "CLOSE" THEN "release" ELSE "decode") /\ out' = NoFrame
      BY <2>2 DEF FramerChecks, FramerGoesOn
    <3>2. out'.data \in Seq(Byte)
      BY <3>1 DEF NoFrame
    <3> QED BY <1>1, <1>2, <2>1, <3>1, <3>2 DEF Staged, Over
  <2>3. CASE ~closing
    <3>1. framer' = "header" /\ out' = out
      BY <2>3 DEF FramerChecks
    <3> QED BY <1>1, <1>2, <2>1, <3>1 DEF Staged, Over
  <2> QED BY <2>2, <2>3
<1>5. ~left' /\ (~closing' \/ InWrite') => ~left /\ (~closing \/ InWrite) /\ Pending' = Pending
  <2>1. framer = "check" /\ UNCHANGED <<left, closing>>
    BY DEF FramerChecks, session, Thread
  <2>2. CASE closing
    <3>1. framer' \in {"release", "decode"}
      BY <2>2 DEF FramerChecks, FramerGoesOn
    <3> QED BY <2>1, <2>2, <3>1 DEF InWrite
  <2>3. CASE ~closing
    <3>1. out' = out
      BY <2>3 DEF FramerChecks
    <3> QED BY <2>1, <2>3, <3>1 DEF Pending
  <2> QED BY <2>2, <2>3
<1>6. left' \in BOOLEAN /\ (dbUp' => dbUp)
  BY <1>1 DEF ClientTyped, FramerChecks, session, db, Thread, FramerGoesOn
<1>7. ClientTyped' /\ Understood'
  BY <1>2, <1>5, <1>6, IdleKeeps
<1> QED BY <1>3, <1>4, <1>7 DEF SessionInv

\* ... and between the head and the payload of one.
LEMMA FramerHeaderKeeps ==
    ASSUME SessionInv, FramerHeader
    PROVE  SessionInv'
<1>1. ClientTyped /\ SessionTyped /\ Staged
  BY DEF SessionInv
<1>2. /\ UNCHANGED <<client, reading, decoding>> /\ pongs' = pongs
      /\ state' = state /\ decoded' = decoded /\ taken' = taken
  BY DEF FramerHeader, session, db, Thread, FramerGoesOn, decoding, reading
<1>3. SessionTyped'
  BY <1>1 DEF SessionTyped, FramerHeader, session, db, Thread, FramerGoesOn, FramerStages, ReaderStages
<1>4. Staged'
  BY <1>1, <1>2 DEF Staged, SessionTyped, FramerHeader, session, db, Thread, FramerGoesOn, Over, NoFrame, FramerStages
<1>5. ~left' /\ (~closing' \/ InWrite') => ~left /\ (~closing \/ InWrite) /\ Pending' = Pending
  BY <1>1 DEF Pending, InWrite, Staged, SessionTyped, NoFrame, FramerHeader, session, db, Thread, FramerGoesOn
<1>6. left' \in BOOLEAN /\ (dbUp' => dbUp)
  BY <1>1 DEF ClientTyped, FramerHeader, session, db, Thread, FramerGoesOn
<1>7. ClientTyped' /\ Understood'
  BY <1>2, <1>5, <1>6, IdleKeeps
<1> QED BY <1>3, <1>4, <1>7 DEF SessionInv

\* The end: the connection is given back,
LEMMA ReleaseKeeps ==
    ASSUME SessionInv, Release
    PROVE  SessionInv'
<1>1. ClientTyped /\ SessionTyped /\ Staged
  BY DEF SessionInv
<1>2. /\ UNCHANGED <<client, reading, decoding>> /\ pongs' = pongs
      /\ state' = state /\ decoded' = decoded /\ taken' = taken
  BY DEF Release, db, Thread, decoding, reading
<1>3. SessionTyped'
  BY <1>1 DEF SessionTyped, Release, db, Thread, FramerStages, ReaderStages
<1>4. Staged'
  BY <1>1, <1>2 DEF Staged, SessionTyped, Release, db, Thread, Over, NoFrame, FramerStages
<1>5. ~left' /\ (~closing' \/ InWrite') => ~left /\ (~closing \/ InWrite) /\ Pending' = Pending
  BY <1>1 DEF Pending, InWrite, Staged, SessionTyped, NoFrame, Release, db, Thread
<1>6. left' \in BOOLEAN /\ (dbUp' => dbUp)
  BY <1>1 DEF ClientTyped, Release, db, Thread
<1>7. ClientTyped' /\ Understood'
  BY <1>2, <1>5, <1>6, IdleKeeps
<1> QED BY <1>3, <1>4, <1>7 DEF SessionInv

\* the reader is told,
LEMMA SignalKeeps ==
    ASSUME SessionInv, Signal
    PROVE  SessionInv'
<1>1. ClientTyped /\ SessionTyped /\ Staged
  BY DEF SessionInv
<1>2. /\ UNCHANGED <<client, reading, decoding>> /\ pongs' = pongs
      /\ state' = state /\ decoded' = decoded /\ taken' = taken
  BY DEF Signal, db, Thread, decoding, reading
<1>3. SessionTyped'
  BY <1>1 DEF SessionTyped, Signal, db, Thread, FramerStages, ReaderStages
<1>4. Staged'
  BY <1>1, <1>2 DEF Staged, SessionTyped, Signal, db, Thread, Over, NoFrame, FramerStages
<1>5. ~left' /\ (~closing' \/ InWrite') => ~left /\ (~closing \/ InWrite) /\ Pending' = Pending
  BY <1>1 DEF Pending, InWrite, Staged, SessionTyped, NoFrame, Signal, db, Thread
<1>6. left' \in BOOLEAN /\ (dbUp' => dbUp)
  BY <1>1 DEF ClientTyped, Signal, db, Thread
<1>7. ClientTyped' /\ Understood'
  BY <1>2, <1>5, <1>6, IdleKeeps
<1> QED BY <1>3, <1>4, <1>7 DEF SessionInv

\* and waited for,
LEMMA JoinKeeps ==
    ASSUME SessionInv, Join
    PROVE  SessionInv'
<1>1. ClientTyped /\ SessionTyped /\ Staged
  BY DEF SessionInv
<1>2. /\ UNCHANGED <<client, reading, decoding>> /\ pongs' = pongs
      /\ state' = state /\ decoded' = decoded /\ taken' = taken
  BY DEF Join, session, db, Thread, decoding, reading
<1>3. SessionTyped'
  BY <1>1 DEF SessionTyped, Join, session, db, Thread, FramerStages, ReaderStages
<1>4. Staged'
  BY <1>1, <1>2 DEF Staged, SessionTyped, Join, session, db, Thread, Over, NoFrame, FramerStages
<1>5. ~left' /\ (~closing' \/ InWrite') => ~left /\ (~closing \/ InWrite) /\ Pending' = Pending
  BY <1>1 DEF Pending, InWrite, Staged, SessionTyped, NoFrame, Join, session, db, Thread
<1>6. left' \in BOOLEAN /\ (dbUp' => dbUp)
  BY <1>1 DEF ClientTyped, Join, session, db, Thread
<1>7. ClientTyped' /\ Understood'
  BY <1>2, <1>5, <1>6, IdleKeeps
<1> QED BY <1>3, <1>4, <1>7 DEF SessionInv

\* which there may not be,
LEMMA JoinNothingKeeps ==
    ASSUME SessionInv, JoinNothing
    PROVE  SessionInv'
<1>1. ClientTyped /\ SessionTyped /\ Staged
  BY DEF SessionInv
<1>2. /\ UNCHANGED <<client, reading, decoding>> /\ pongs' = pongs
      /\ state' = state /\ decoded' = decoded /\ taken' = taken
  BY DEF JoinNothing, session, db, Thread, decoding, reading
<1>3. SessionTyped'
  BY <1>1 DEF SessionTyped, JoinNothing, session, db, Thread, FramerStages, ReaderStages
<1>4. Staged'
  BY <1>1, <1>2 DEF Staged, SessionTyped, JoinNothing, session, db, Thread, Over, NoFrame, FramerStages
<1>5. ~left' /\ (~closing' \/ InWrite') => ~left /\ (~closing \/ InWrite) /\ Pending' = Pending
  BY <1>1 DEF Pending, InWrite, Staged, SessionTyped, NoFrame, JoinNothing, session, db, Thread
<1>6. left' \in BOOLEAN /\ (dbUp' => dbUp)
  BY <1>1 DEF ClientTyped, JoinNothing, session, db, Thread
<1>7. ClientTyped' /\ Understood'
  BY <1>2, <1>5, <1>6, IdleKeeps
<1> QED BY <1>3, <1>4, <1>7 DEF SessionInv

\* and the request is left.
LEMMA LeaveKeeps ==
    ASSUME SessionInv, Leave
    PROVE  SessionInv'
<1>1. ClientTyped /\ SessionTyped /\ Staged
  BY DEF SessionInv
<1>2. /\ UNCHANGED <<client, reading, decoding>> /\ pongs' = pongs
      /\ state' = state /\ decoded' = decoded /\ taken' = taken
  BY DEF Leave, db, Thread, decoding, reading
<1>3. SessionTyped'
  BY <1>1 DEF SessionTyped, Leave, db, Thread, FramerStages, ReaderStages
<1>4. Staged'
  BY <1>1, <1>2 DEF Staged, SessionTyped, Leave, db, Thread, Over, NoFrame, FramerStages
<1>5. ~left' /\ (~closing' \/ InWrite') => ~left /\ (~closing \/ InWrite) /\ Pending' = Pending
  BY <1>1 DEF Pending, InWrite, Staged, SessionTyped, NoFrame, Leave, db, Thread
<1>6. left' \in BOOLEAN /\ (dbUp' => dbUp)
  BY <1>1 DEF ClientTyped, Leave, db, Thread
<1>7. ClientTyped' /\ Understood'
  BY <1>2, <1>5, <1>6, IdleKeeps
<1> QED BY <1>3, <1>4, <1>7 DEF SessionInv

\* The reader takes data from the DB Server,
LEMMA ReadDataKeeps ==
    ASSUME SessionInv, ReadData
    PROVE  SessionInv'
<1>1. ClientTyped /\ SessionTyped /\ Staged
  BY DEF SessionInv
<1>2. /\ UNCHANGED <<client, reading, decoding>> /\ pongs' = pongs
      /\ state' = state /\ decoded' = decoded /\ taken' = taken
  BY DEF ReadData, session, db, Thread, Says, decoding, reading
<1>3. SessionTyped'
  BY <1>1 DEF SessionTyped, ReadData, session, db, Thread, Says, FramerStages, ReaderStages
<1>4. Staged'
  BY <1>1, <1>2 DEF Staged, SessionTyped, ReadData, session, db, Thread, Says, Over, NoFrame, FramerStages
<1>5. ~left' /\ (~closing' \/ InWrite') => ~left /\ (~closing \/ InWrite) /\ Pending' = Pending
  BY <1>1 DEF Pending, InWrite, Staged, SessionTyped, NoFrame, ReadData, session, db, Thread, Says
<1>6. left' \in BOOLEAN /\ (dbUp' => dbUp)
  BY <1>1 DEF ClientTyped, ReadData, session, db, Thread, Says
<1>7. ClientTyped' /\ Understood'
  BY <1>2, <1>5, <1>6, IdleKeeps
<1> QED BY <1>3, <1>4, <1>7 DEF SessionInv

\* or the end of it,
LEMMA ReadEofKeeps ==
    ASSUME SessionInv, ReadEof
    PROVE  SessionInv'
<1>1. ClientTyped /\ SessionTyped /\ Staged
  BY DEF SessionInv
<1>2. /\ UNCHANGED <<client, reading, decoding>> /\ pongs' = pongs
      /\ state' = state /\ decoded' = decoded /\ taken' = taken
  BY DEF ReadEof, db, Thread, Says, decoding, reading
<1>3. SessionTyped'
  BY <1>1 DEF SessionTyped, ReadEof, db, Thread, Says, FramerStages, ReaderStages
<1>4. Staged'
  BY <1>1, <1>2 DEF Staged, SessionTyped, ReadEof, db, Thread, Says, Over, NoFrame, FramerStages
<1>5. ~left' /\ (~closing' \/ InWrite') => ~left /\ (~closing \/ InWrite) /\ Pending' = Pending
  BY <1>1 DEF Pending, InWrite, Staged, SessionTyped, NoFrame, ReadEof, db, Thread, Says
<1>6. left' \in BOOLEAN /\ (dbUp' => dbUp)
  BY <1>1 DEF ClientTyped, ReadEof, db, Thread, Says
<1>7. ClientTyped' /\ Understood'
  BY <1>2, <1>5, <1>6, IdleKeeps
<1> QED BY <1>3, <1>4, <1>7 DEF SessionInv

\* or is told to go,
LEMMA ReadExitKeeps ==
    ASSUME SessionInv, ReadExit
    PROVE  SessionInv'
<1>1. ClientTyped /\ SessionTyped /\ Staged
  BY DEF SessionInv
<1>2. /\ UNCHANGED <<client, reading, decoding>> /\ pongs' = pongs
      /\ state' = state /\ decoded' = decoded /\ taken' = taken
  BY DEF ReadExit, session, db, Thread, Says, decoding, reading
<1>3. SessionTyped'
  BY <1>1 DEF SessionTyped, ReadExit, session, db, Thread, Says, FramerStages, ReaderStages
<1>4. Staged'
  BY <1>1, <1>2 DEF Staged, SessionTyped, ReadExit, session, db, Thread, Says, Over, NoFrame, FramerStages
<1>5. ~left' /\ (~closing' \/ InWrite') => ~left /\ (~closing \/ InWrite) /\ Pending' = Pending
  BY <1>1 DEF Pending, InWrite, Staged, SessionTyped, NoFrame, ReadExit, session, db, Thread, Says
<1>6. left' \in BOOLEAN /\ (dbUp' => dbUp)
  BY <1>1 DEF ClientTyped, ReadExit, session, db, Thread, Says
<1>7. ClientTyped' /\ Understood'
  BY <1>2, <1>5, <1>6, IdleKeeps
<1> QED BY <1>3, <1>4, <1>7 DEF SessionInv

\* or finds the pipe closed,
LEMMA ReadClosedKeeps ==
    ASSUME SessionInv, ReadClosed
    PROVE  SessionInv'
<1>1. ClientTyped /\ SessionTyped /\ Staged
  BY DEF SessionInv
<1>2. /\ UNCHANGED <<client, reading, decoding>> /\ pongs' = pongs
      /\ state' = state /\ decoded' = decoded /\ taken' = taken
  BY DEF ReadClosed, session, db, Thread, Says, decoding, reading
<1>3. SessionTyped'
  BY <1>1 DEF SessionTyped, ReadClosed, session, db, Thread, Says, FramerStages, ReaderStages
<1>4. Staged'
  BY <1>1, <1>2 DEF Staged, SessionTyped, ReadClosed, session, db, Thread, Says, Over, NoFrame, FramerStages
<1>5. ~left' /\ (~closing' \/ InWrite') => ~left /\ (~closing \/ InWrite) /\ Pending' = Pending
  BY <1>1 DEF Pending, InWrite, Staged, SessionTyped, NoFrame, ReadClosed, session, db, Thread, Says
<1>6. left' \in BOOLEAN /\ (dbUp' => dbUp)
  BY <1>1 DEF ClientTyped, ReadClosed, session, db, Thread, Says
<1>7. ClientTyped' /\ Understood'
  BY <1>2, <1>5, <1>6, IdleKeeps
<1> QED BY <1>3, <1>4, <1>7 DEF SessionInv

\* looks whether the session still goes on ...
LEMMA ReaderChecksKeeps ==
    ASSUME SessionInv, ReaderChecks
    PROVE  SessionInv'
<1>1. ClientTyped /\ SessionTyped /\ Staged
  BY DEF SessionInv
<1>2. /\ UNCHANGED <<client, reading, decoding>> /\ pongs' = pongs
      /\ state' = state /\ decoded' = decoded /\ taken' = taken
  BY DEF ReaderChecks, session, db, Thread, ReaderGoesOn, decoding, reading
<1>3. SessionTyped'
  BY <1>1 DEF SessionTyped, ReaderChecks, session, db, Thread, ReaderGoesOn, FramerStages, ReaderStages
<1>4. Staged'
  BY <1>1, <1>2 DEF Staged, SessionTyped, ReaderChecks, session, db, Thread, ReaderGoesOn, Over, NoFrame, FramerStages
<1>5. ~left' /\ (~closing' \/ InWrite') => ~left /\ (~closing \/ InWrite) /\ Pending' = Pending
  BY <1>1 DEF Pending, InWrite, Staged, SessionTyped, NoFrame, ReaderChecks, session, db, Thread, ReaderGoesOn
<1>6. left' \in BOOLEAN /\ (dbUp' => dbUp)
  BY <1>1 DEF ClientTyped, ReaderChecks, session, db, Thread, ReaderGoesOn
<1>7. ClientTyped' /\ Understood'
  BY <1>2, <1>5, <1>6, IdleKeeps
<1> QED BY <1>3, <1>4, <1>7 DEF SessionInv

\* ... and writes.
LEMMA ReaderWritesKeeps ==
    ASSUME SessionInv, ReaderWrites
    PROVE  SessionInv'
<1>1. ClientTyped /\ SessionTyped /\ Staged
  BY DEF SessionInv
<1>2. /\ UNCHANGED <<client, reading, decoding>> /\ pongs' = pongs
      /\ state' = state /\ decoded' = decoded /\ taken' = taken
  BY DEF ReaderWrites, session, db, Thread, ReaderGoesOn, decoding, reading
<1>3. SessionTyped'
  BY <1>1 DEF SessionTyped, ReaderWrites, session, db, Thread, ReaderGoesOn, FramerStages, ReaderStages
<1>4. Staged'
  BY <1>1, <1>2 DEF Staged, SessionTyped, ReaderWrites, session, db, Thread, ReaderGoesOn, Over, NoFrame, FramerStages
<1>5. ~left' /\ (~closing' \/ InWrite') => ~left /\ (~closing \/ InWrite) /\ Pending' = Pending
  BY <1>1 DEF Pending, InWrite, Staged, SessionTyped, NoFrame, ReaderWrites, session, db, Thread, ReaderGoesOn
<1>6. left' \in BOOLEAN /\ (dbUp' => dbUp)
  BY <1>1 DEF ClientTyped, ReaderWrites, session, db, Thread, ReaderGoesOn
<1>7. ClientTyped' /\ Understood'
  BY <1>2, <1>5, <1>6, IdleKeeps
<1> QED BY <1>3, <1>4, <1>7 DEF SessionInv

\* The client leaves.
LEMMA ClientLeavesKeeps ==
    ASSUME SessionInv, ClientLeaves
    PROVE  SessionInv'
<1>1. ClientTyped /\ SessionTyped /\ Staged
  BY DEF SessionInv
<1>2. /\ UNCHANGED <<client, reading, decoding>> /\ pongs' = pongs
      /\ state' = state /\ decoded' = decoded /\ taken' = taken
  BY DEF ClientLeaves, session, db, decoding, reading
<1>3. SessionTyped'
  BY <1>1 DEF SessionTyped, ClientLeaves, session, db, FramerStages, ReaderStages
<1>4. Staged'
  BY <1>1, <1>2 DEF Staged, SessionTyped, ClientLeaves, session, db, Over, NoFrame, FramerStages
<1>5. ~left' /\ (~closing' \/ InWrite') => ~left /\ (~closing \/ InWrite) /\ Pending' = Pending
  BY <1>1 DEF Pending, InWrite, Staged, SessionTyped, NoFrame, ClientLeaves, session, db
<1>6. left' \in BOOLEAN /\ (dbUp' => dbUp)
  BY <1>1 DEF ClientTyped, ClientLeaves, session, db
<1>7. ClientTyped' /\ Understood'
  BY <1>2, <1>5, <1>6, IdleKeeps
<1> QED BY <1>3, <1>4, <1>7 DEF SessionInv

\* The DB Server sends ...
LEMMA DbSendsKeeps ==
    ASSUME SessionInv, DbSends
    PROVE  SessionInv'
<1>1. ClientTyped /\ SessionTyped /\ Staged
  BY DEF SessionInv
<1>2. /\ UNCHANGED <<client, reading, decoding>> /\ pongs' = pongs
      /\ state' = state /\ decoded' = decoded /\ taken' = taken
  BY DEF DbSends, session, db, Thread, decoding, reading
<1>3. SessionTyped'
  <2>1. /\ sent < MaxSent /\ sent' = sent + 1 /\ unread' = unread + 1
        /\ UNCHANGED <<framer, reader, closing, connected, pipe, dbUp>>
    BY DEF DbSends, session
  <2>2. MaxSent \in Nat /\ sent \in 0..MaxSent /\ unread \in 0..sent
    BY <1>1, WebSocketAssumption DEF SessionTyped
  <2>3. sent' \in 0..MaxSent /\ unread' \in 0..sent'
    BY <2>1, <2>2
  <2> QED BY <1>1, <2>1, <2>3 DEF SessionTyped
<1>4. Staged'
  BY <1>1, <1>2 DEF Staged, SessionTyped, DbSends, session, db, Thread, Over, NoFrame, FramerStages
<1>5. ~left' /\ (~closing' \/ InWrite') => ~left /\ (~closing \/ InWrite) /\ Pending' = Pending
  BY <1>1 DEF Pending, InWrite, Staged, SessionTyped, NoFrame, DbSends, session, db, Thread
<1>6. left' \in BOOLEAN /\ (dbUp' => dbUp)
  BY <1>1 DEF ClientTyped, DbSends, session, db, Thread
<1>7. ClientTyped' /\ Understood'
  BY <1>2, <1>5, <1>6, IdleKeeps
<1> QED BY <1>3, <1>4, <1>7 DEF SessionInv

\* ... and leaves: from there it may miss messages.
LEMMA DbLeavesKeeps ==
    ASSUME SessionInv, DbLeaves
    PROVE  SessionInv'
<1>1. ClientTyped /\ SessionTyped /\ Staged
  BY DEF SessionInv
<1>2. /\ UNCHANGED <<client, reading, decoding>> /\ pongs' = pongs
      /\ state' = state /\ decoded' = decoded /\ taken' = taken
  BY DEF DbLeaves, session, db, Thread, decoding, reading
<1>3. SessionTyped'
  <2>1. /\ sent' = sent /\ dbUp' = FALSE /\ unread' \in {0, unread}
        /\ UNCHANGED <<framer, reader, closing, connected, pipe>>
    BY DEF DbLeaves, session
  <2>2. MaxSent \in Nat /\ sent \in 0..MaxSent /\ unread \in 0..sent
    BY <1>1, WebSocketAssumption DEF SessionTyped
  <2>3. sent' \in 0..MaxSent /\ unread' \in 0..sent'
    BY <2>1, <2>2
  <2> QED BY <1>1, <2>1, <2>3 DEF SessionTyped
<1>4. Staged'
  BY <1>1, <1>2 DEF Staged, SessionTyped, DbLeaves, session, db, Thread, Over, NoFrame, FramerStages
<1>5. ~left' /\ (~closing' \/ InWrite') => ~left /\ (~closing \/ InWrite) /\ Pending' = Pending
  BY <1>1 DEF Pending, InWrite, Staged, SessionTyped, NoFrame, DbLeaves, session, db, Thread
<1>6. left' \in BOOLEAN /\ (dbUp' => dbUp)
  BY <1>1 DEF ClientTyped, DbLeaves, session, db, Thread
<1>7. ClientTyped' /\ Understood'
  BY <1>2, <1>5, <1>6, IdleKeeps
<1> QED BY <1>3, <1>4, <1>7 DEF SessionInv

\* The DB Server that has heard all messages hears them all.
LEMMA FollowsSelf ==
    ASSUME NEW m \in Seq(Seq(Byte))
    PROVE  Follows(m, m, TRUE)
<1>1. Len(m) \in Nat
  BY LenProperties
<1> QED BY <1>1 DEF Follows

\* The DB Server that heard all messages but for those since it left still does after one more.
LEMMA FollowsAppend ==
    ASSUME NEW m \in Seq(Seq(Byte)), NEW x \in Seq(Byte), NEW h, NEW a, Follows(h, m, a)
    PROVE  Follows(h, Append(m, x), FALSE)
<1>1. h \in Seq(Seq(Byte)) /\ Len(h) <= Len(m) /\ \A i \in 1..Len(h) : h[i] = m[i]
  BY DEF Follows
<1>2. Len(m) \in Nat /\ Len(h) \in Nat
  BY <1>1, LenProperties
<1>3. Len(Append(m, x)) = Len(m) + 1 /\ \A i \in 1..Len(m) : Append(m, x)[i] = m[i]
  BY AppendProperties
<1>4. \A i \in 1..Len(h) : h[i] = Append(m, x)[i]
  <2> TAKE i \in 1..Len(h)
  <2>1. i \in 1..Len(m)
    BY <1>1, <1>2
  <2> QED BY <1>1, <1>3, <2>1
<1>5. Len(h) <= Len(Append(m, x))
  BY <1>1, <1>2, <1>3
<1> QED BY <1>1, <1>4, <1>5 DEF Follows

\* Where the decoder is, in a session that is not to be closed.
LEMMA WhereItIs ==
    ASSUME SessionInv
    PROVE  \E k \in 0..Len(stream) :
              /\ DecoderAt(k, state, decoded, taken, remaining_length, frames)
              /\ state.framing # "CLOSE" => Stays(k, state, decoded, taken, remaining_length, frames)
              /\ HeardUpTo(k) /\ PongsUpTo(k)
              /\ Conv(k).messages \in Seq(Seq(Byte)) /\ Conv(k).pings \in Seq(Seq(Byte))
<1>1. PICK k \in 0..Len(stream) : DecoderAt(k, state, decoded, taken, remaining_length, frames) /\ HeardUpTo(k) /\ PongsUpTo(k)
  BY DEF SessionInv, Understood
<1>2. state.framing # "CLOSE" => Stays(k, state, decoded, taken, remaining_length, frames)
  BY <1>1 DEF DecoderAt, Ends
<1>3. stream \in Streams
  BY DEF SessionInv, ClientTyped
<1>4. Sensible(Conv(k))
  BY <1>3, MeaningsUnroll DEF Conv
<1>5. Conv(k).messages \in Seq(Seq(Byte)) /\ Conv(k).pings \in Seq(Seq(Byte))
  BY <1>4 DEF Sensible, Conversation
<1> QED BY <1>1, <1>2, <1>5

\* While nothing is being written, all PONGs have been sent.
LEMMA NothingPending ==
    ASSUME SessionInv, framer \notin {"check", "header", "payload"}
    PROVE  out = NoFrame /\ Pending = <<>> /\ ~InWrite
<1>1. out = NoFrame
  BY DEF SessionInv, Staged
<1> QED BY <1>1 DEF Pending, InWrite, NoFrame

\* A piece of the block is decoded, and what it completes is sent to the DB Server.
LEMMA DecodeKeeps ==
    ASSUME SessionInv, Decode
    PROVE  SessionInv'
<1>1. ClientTyped /\ SessionTyped /\ Staged /\ stream \in Streams
  BY DEF SessionInv, ClientTyped
<1>2. /\ framer = "decode" /\ UNCHANGED <<framer, reader, out, answer, closing, connected, pipe, dbUp, sent, unread, pongs>>
      /\ UNCHANGED client /\ left' = left /\ taken' = taken /\ remaining_length' = remaining_length
  BY DEF Decode, session, db, reading
<1>3. SessionTyped'
  BY <1>1, <1>2 DEF SessionTyped
<1>4. Staged'
  BY <1>1, <1>2 DEF Staged, Over
<1>5. ClientTyped'
  BY <1>1, <1>2, ClientTypedAfter DEF ClientTyped
<1>6. Pending' = Pending /\ Pending = <<>> /\ ~InWrite'
  BY <1>2, NothingPending DEF Pending, InWrite
<1>7. state.framing # "CLOSE"
  BY DEF Decode, Start, LengthByte, LengthExt, MaskBytes, OutOfMemory, Payload, FrameCloses, MessageFrame, ControlFrame
<1>8. PICK k \in 0..Len(stream) :
         /\ Stays(k, state, decoded, taken, remaining_length, frames)
         /\ HeardUpTo(k) /\ PongsUpTo(k)
         /\ Conv(k).messages \in Seq(Seq(Byte)) /\ Conv(k).pings \in Seq(Seq(Byte))
  BY <1>7, WhereItIs
<1>9. Follows(heard, Conv(k).messages, dbUp) /\ Follows(pongs, Conv(k).pings, FALSE)
      /\ (~left /\ ~closing => Conv(k).pings = pongs \o Pending)
  BY <1>8 DEF HeardUpTo, PongsUpTo
<1>10. ASSUME DecoderAt(k, state', decoded', taken, remaining_length, frames'), heard' = heard
       PROVE  Understood'
  <2>1. Follows(heard', Conv(k).messages, dbUp') /\ Follows(pongs', Conv(k).pings, FALSE)
    BY <1>2, <1>9, <1>10
  <2>2. DecoderAt(k, state', decoded', taken', remaining_length', frames')
    BY <1>2, <1>10
  <2>3. ~left' /\ (~closing' \/ InWrite') => Conv(k).pings = pongs' \o Pending'
    BY <1>2, <1>6, <1>9
  <2> QED BY <1>2, <2>1, <2>2, <2>3, UnderstoodAfter
<1>11. ASSUME Stays(k + 1, state', decoded', taken, remaining_length, frames'),
              Follows(heard', Conv(k + 1).messages, dbUp), Conv(k + 1).pings = Conv(k).pings
       PROVE  Understood'
  <2> DEFINE q == k + 1
  <2>1. q \in 0..Len(stream)
    BY <1>11 DEF Stays
  <2>2. DecoderAt(q, state', decoded', taken', remaining_length', frames')
    BY <1>2, <1>11 DEF DecoderAt
  <2>3. Follows(heard', Conv(q).messages, dbUp') /\ Follows(pongs', Conv(q).pings, FALSE)
    BY <1>2, <1>9, <1>11
  <2>4. ~left' /\ (~closing' \/ InWrite') => Conv(q).pings = pongs' \o Pending'
    BY <1>2, <1>6, <1>9, <1>11
  <2> HIDE DEF q
  <2> QED BY <1>2, <2>1, <2>2, <2>3, <2>4, UnderstoodAfter
<1>12. Understood'
  <2>1. CASE Start
    BY <1>1, <1>8, <1>10, <2>1, StartKeeps
  <2>2. CASE LengthByte
    BY <1>1, <1>8, <1>10, <2>2, LengthByteKeeps
  <2>3. CASE LengthExt
    BY <1>1, <1>8, <1>10, <2>3, LengthExtKeeps
  <2>4. CASE MaskBytes
    BY <1>1, <1>8, <1>10, <2>4, MaskKeeps
  <2>5. CASE OutOfMemory
    BY <1>1, <1>8, <1>10, <2>5, MemoryKeeps
  <2>6. CASE Payload
    BY <1>1, <1>8, <1>10, <2>6, PayloadKeeps
  <2>7. CASE FrameCloses
    BY <1>1, <1>8, <1>10, <2>7, FrameClosesKeeps
  <2>8. CASE MessageFrame(connected, dbUp)
    <3>1. /\ Stays(k + 1, state', decoded', taken, remaining_length, frames')
          /\ Conv(k + 1).pings = Conv(k).pings /\ Data \in Seq(Byte)
          /\ Conv(k + 1).messages = (IF state.fin /\ Data # <<>> THEN Append(Conv(k).messages, Data)
                                     ELSE Conv(k).messages)
          /\ heard' = IF state.fin /\ Data # <<>> /\ connected /\ dbUp THEN Append(heard, Data) ELSE heard
      BY <1>1, <1>8, <2>8, MessageFrameKeeps
    <3>2. dbUp => connected
      BY <1>1, <1>2 DEF Staged, Over
    <3>3. Follows(heard', Conv(k + 1).messages, dbUp)
      <4> DEFINE m == Conv(k).messages
                 x == Data
                 q == Conv(k + 1).messages
      <4>1. m \in Seq(Seq(Byte)) /\ x \in Seq(Byte) /\ Follows(heard, m, dbUp)
        BY <1>8, <1>9, <3>1
      <4>2. q = (IF state.fin /\ x # <<>> THEN Append(m, x) ELSE m)
        BY <3>1
      <4>3. heard' = (IF state.fin /\ x # <<>> /\ connected /\ dbUp THEN Append(heard, x) ELSE heard)
        BY <3>1
      <4> HIDE DEF m, x, q
      <4>4. CASE ~(state.fin /\ x # <<>>)
        BY <4>1, <4>2, <4>3, <4>4 DEF q
      <4>5. CASE state.fin /\ x # <<>> /\ dbUp
        <5>1. heard = m /\ connected
          BY <3>2, <4>1, <4>5 DEF Follows
        <5>2. heard' = q /\ q = Append(m, x)
          BY <4>2, <4>3, <4>5, <5>1
        <5>3. Append(m, x) \in Seq(Seq(Byte))
          BY <4>1, AppendProperties
        <5>4. Follows(q, q, TRUE)
          BY <5>2, <5>3, FollowsSelf
        <5> QED BY <5>2, <5>4 DEF Follows, q
      <4>6. CASE state.fin /\ x # <<>> /\ ~dbUp
        <5>1. heard' = heard /\ q = Append(m, x)
          BY <4>2, <4>3, <4>6
        <5>2. Follows(heard, q, FALSE)
          BY <4>1, <5>1, FollowsAppend
        <5> QED BY <4>6, <5>1, <5>2 DEF Follows, q
      <4> QED BY <4>4, <4>5, <4>6 DEF q
    <3> QED BY <1>11, <3>1, <3>3
  <2>9. CASE ControlFrame(PongOp)
    <3>1. PongOp \in {PingOp, PongOp} /\ PongOp # PingOp
      BY DEF PingOp, PongOp
    <3>2. /\ Stays(k + 1, state', decoded', taken, remaining_length, frames') /\ heard' = heard
          /\ Conv(k + 1).messages = Conv(k).messages /\ Conv(k + 1).pings = Conv(k).pings
      BY <1>1, <1>8, <2>9, <3>1, ControlFrameKeeps
    <3> QED BY <1>9, <1>11, <3>2
  <2> QED BY <2>1, <2>2, <2>3, <2>4, <2>5, <2>6, <2>7, <2>8, <2>9 DEF Decode
<1> QED BY <1>3, <1>4, <1>5, <1>12 DEF SessionInv

\* A PING that is complete becomes a PONG.
LEMMA PingKeeps ==
    ASSUME SessionInv, Ping
    PROVE  SessionInv'
<1>1. ClientTyped /\ SessionTyped /\ Staged /\ stream \in Streams
  BY DEF SessionInv, ClientTyped
<1>2. /\ framer = "decode" /\ UNCHANGED <<reader, answer, closing, connected, pipe, dbUp, sent, unread, pongs>>
      /\ UNCHANGED client /\ left' = left /\ taken' = taken /\ remaining_length' = remaining_length
      /\ out' = [type |-> "PONG", data |-> Data] /\ framer' = "check" /\ ControlFrame(PingOp)
  BY DEF Ping, session, db, reading, Out
<1>3. Pending = <<>> /\ ~InWrite'
  BY <1>2, NothingPending DEF InWrite
<1>4. state.framing # "CLOSE"
  BY <1>2 DEF ControlFrame
<1>5. PICK k \in 0..Len(stream) :
         /\ Stays(k, state, decoded, taken, remaining_length, frames)
         /\ HeardUpTo(k) /\ PongsUpTo(k)
         /\ Conv(k).messages \in Seq(Seq(Byte)) /\ Conv(k).pings \in Seq(Seq(Byte))
  BY <1>4, WhereItIs
<1>6. Follows(heard, Conv(k).messages, dbUp) /\ Follows(pongs, Conv(k).pings, FALSE)
      /\ (~left /\ ~closing => Conv(k).pings = pongs \o Pending)
  BY <1>5 DEF HeardUpTo, PongsUpTo
<1> DEFINE q == k + 1
<1>7. /\ Stays(q, state', decoded', taken, remaining_length, frames') /\ heard' = heard
      /\ Conv(q).messages = Conv(k).messages /\ Data \in Seq(Byte)
      /\ Conv(q).pings = (IF Data # <<>> THEN Append(Conv(k).pings, Data) ELSE Conv(k).pings)
  BY <1>1, <1>2, <1>5, ControlFrameKeeps
<1> HIDE DEF q
<1>8. Pending' = (IF Data # <<>> THEN <<Data>> ELSE <<>>)
  BY <1>2 DEF Pending
<1>9. SessionTyped'
  BY <1>1, <1>2 DEF SessionTyped, FramerStages
<1>10. Staged'
  <2>1. out'.data \in Seq(Byte)
    BY <1>2, <1>7
  <2> QED BY <1>1, <1>2, <2>1 DEF Staged, Over
<1>11. ClientTyped'
  BY <1>1, <1>2, ClientTypedAfter DEF ClientTyped
<1>12. pongs \in Seq(Seq(Byte)) /\ (pongs \o <<>> = pongs) /\ Append(pongs, Data) = pongs \o <<Data>>
  <2>1. pongs \in Seq(Seq(Byte))
    BY <1>6 DEF Follows
  <2> QED BY <1>7, <2>1
<1>13. ~left' /\ (~closing' \/ InWrite') => Conv(q).pings = pongs' \o Pending'
  <2> SUFFICES ASSUME ~left, ~closing PROVE Conv(q).pings = pongs \o Pending'
    BY <1>2, <1>3
  <2>1. Conv(k).pings = pongs
    BY <1>3, <1>6, <1>12
  <2>2. CASE Data # <<>>
    BY <1>7, <1>8, <1>12, <2>1, <2>2
  <2>3. CASE Data = <<>>
    BY <1>7, <1>8, <1>12, <2>1, <2>3
  <2> QED BY <2>2, <2>3
<1>14. Follows(pongs', Conv(q).pings, FALSE)
  <2>1. CASE Data # <<>>
    <3>1. Follows(pongs, Append(Conv(k).pings, Data), FALSE)
      BY <1>5, <1>6, <1>7, FollowsAppend
    <3> QED BY <1>2, <1>7, <2>1, <3>1
  <2>2. CASE Data = <<>>
    BY <1>2, <1>6, <1>7, <2>2
  <2> QED BY <2>1, <2>2
<1>15. Follows(heard', Conv(q).messages, dbUp')
  BY <1>2, <1>6, <1>7
<1>16. q \in 0..Len(stream) /\ DecoderAt(q, state', decoded', taken', remaining_length', frames')
  BY <1>2, <1>7 DEF Stays, DecoderAt
<1>17. Understood'
  BY <1>2, <1>13, <1>14, <1>15, <1>16, UnderstoodAfter
<1> QED BY <1>9, <1>10, <1>11, <1>17 DEF SessionInv

\* A block is read.
LEMMA ReadFramesKeeps ==
    ASSUME SessionInv, ReadFrames
    PROVE  SessionInv'
<1>1. ClientTyped /\ SessionTyped /\ Staged
  BY DEF SessionInv
<1>2. /\ framer = "read" /\ ReadBlock /\ framer' = "decode"
      /\ UNCHANGED <<reader, out, answer, closing, connected, pipe, dbUp, sent, unread, pongs>>
      /\ UNCHANGED client /\ left' = left
      /\ decoded' = decoded /\ state' = state /\ frames' = frames /\ heard' = heard
  BY DEF ReadFrames, session, db, decoding
<1>3. /\ state.framing # "CLOSE" /\ decoded = taken
      /\ ~(state.framing = "APPLICATION_DATA" /\ state.length = 0)
  BY <1>1, <1>2 DEF Staged
<1>4. PICK k \in 0..Len(stream) :
         Stays(k, state, decoded, taken, remaining_length, frames) /\ HeardUpTo(k) /\ PongsUpTo(k)
  BY <1>3, WhereItIs
<1>5. /\ taken' \in 0..arrived /\ remaining_length' \in Nat
      /\ Stays(k, state, decoded, taken', remaining_length', frames)
  BY <1>1, <1>2, <1>3, <1>4, ReadKeeps
<1>6. SessionTyped'
  BY <1>1, <1>2 DEF SessionTyped, FramerStages
<1>7. Staged'
  BY <1>1, <1>2 DEF Staged, Over
<1>8. ClientTyped'
  BY <1>1, <1>2, <1>5, ClientTypedAfter DEF ClientTyped
<1>9. Pending' = Pending /\ ~InWrite'
  BY <1>2 DEF Pending, InWrite
<1>10. Follows(heard, Conv(k).messages, dbUp) /\ Follows(pongs, Conv(k).pings, FALSE)
       /\ (~left /\ ~closing => Conv(k).pings = pongs \o Pending)
  BY <1>4 DEF HeardUpTo, PongsUpTo
<1>11. DecoderAt(k, state', decoded', taken', remaining_length', frames')
  BY <1>2, <1>5 DEF DecoderAt
<1>12. Follows(heard', Conv(k).messages, dbUp') /\ Follows(pongs', Conv(k).pings, FALSE)
  BY <1>2, <1>10
<1>13. ~left' /\ (~closing' \/ InWrite') => Conv(k).pings = pongs' \o Pending'
  BY <1>2, <1>9, <1>10
<1>14. Understood'
  BY <1>2, <1>11, <1>12, <1>13, UnderstoodAfter
<1> QED BY <1>6, <1>7, <1>8, <1>14 DEF SessionInv

\* A read that fails keeps the invariant.
LEMMA ReadFailsSession ==
    ASSUME SessionInv, ReadFails
    PROVE  SessionInv'
<1>1. ClientTyped /\ SessionTyped /\ Staged
  BY DEF SessionInv
<1>2. /\ framer = "read" /\ ReadNothing /\ framer' = "check" /\ out' = [type |-> "CLOSE", data |-> <<0, 0>>]
      /\ UNCHANGED <<reader, answer, closing, connected, pipe, dbUp, sent, unread, pongs>>
      /\ UNCHANGED client /\ left' = left /\ taken' = taken /\ remaining_length' = remaining_length
      /\ decoded' = decoded /\ frames' = frames /\ heard' = heard /\ state' = CloseFrom(state, "PROTOCOL_ERROR")
  BY DEF ReadFails, SayClose, Out, session, db, reading
<1>3. /\ state.framing # "CLOSE" /\ decoded = taken
      /\ ~(state.framing = "APPLICATION_DATA" /\ state.length = 0)
  BY <1>1, <1>2 DEF Staged
<1>4. PICK k \in 0..Len(stream) :
         Stays(k, state, decoded, taken, remaining_length, frames) /\ HeardUpTo(k) /\ PongsUpTo(k)
  BY <1>3, WhereItIs
<1>5. Ends(k, state', decoded, taken, remaining_length, frames)
  BY <1>1, <1>2, <1>3, <1>4, ReadFailsKeeps
<1>6. SessionTyped'
  BY <1>1, <1>2 DEF SessionTyped, FramerStages
<1>7. Staged'
  <2>1. out'.data \in Seq(Byte)
    BY <1>2 DEF Byte
  <2> QED BY <1>1, <1>2, <2>1 DEF Staged, Over
<1>8. ClientTyped'
  BY <1>1, <1>2, ClientTypedAfter DEF ClientTyped
<1>9. Pending = <<>> /\ Pending' = <<>> /\ ~InWrite'
  <2>1. Pending = <<>>
    BY <1>2, NothingPending
  <2> QED BY <1>2, <2>1 DEF Pending, InWrite
<1>10. Follows(heard, Conv(k).messages, dbUp) /\ Follows(pongs, Conv(k).pings, FALSE)
       /\ (~left /\ ~closing => Conv(k).pings = pongs \o Pending)
  BY <1>4 DEF HeardUpTo, PongsUpTo
<1>11. DecoderAt(k, state', decoded', taken', remaining_length', frames')
  BY <1>2, <1>5 DEF DecoderAt
<1>12. Follows(heard', Conv(k).messages, dbUp') /\ Follows(pongs', Conv(k).pings, FALSE)
  BY <1>2, <1>10
<1>13. ~left' /\ (~closing' \/ InWrite') => Conv(k).pings = pongs' \o Pending'
  BY <1>2, <1>9, <1>10
<1>14. Understood'
  BY <1>2, <1>11, <1>12, <1>13, UnderstoodAfter
<1> QED BY <1>6, <1>7, <1>8, <1>14 DEF SessionInv

\* A PONG is written: it has become one of those the client has been sent.
LEMMA FramerPayloadKeeps ==
    ASSUME SessionInv, FramerPayload
    PROVE  SessionInv'
<1>1. ClientTyped /\ SessionTyped /\ Staged
  BY DEF SessionInv
<1>2. /\ framer = "payload" /\ UNCHANGED <<reader, closing, connected, pipe, dbUp, sent, unread>>
      /\ UNCHANGED client /\ left' = left /\ taken' = taken /\ remaining_length' = remaining_length
      /\ decoded' = decoded /\ state' = state /\ frames' = frames /\ heard' = heard
      /\ pongs' = (IF out.type = "PONG" /\ ~left THEN Append(pongs, out.data) ELSE pongs)
      /\ framer' = (IF state.framing = "CLOSE" THEN "release" ELSE "decode") /\ out' = NoFrame
  BY DEF FramerPayload, FramerGoesOn, Thread, session, db, reading, decoding
<1>3. out.data \in Seq(Byte) /\ out.data # <<>>
  BY <1>1, <1>2 DEF Staged
<1>4. SessionTyped'
  BY <1>1, <1>2 DEF SessionTyped, FramerStages
<1>5. Staged'
  <2>1. out'.data \in Seq(Byte)
    BY <1>2 DEF NoFrame
  <2> QED BY <1>1, <1>2, <2>1 DEF Staged, Over
<1>6. ClientTyped'
  BY <1>1, <1>2, ClientTypedAfter DEF ClientTyped
<1>7. Pending' = <<>> /\ ~InWrite'
  BY <1>2 DEF Pending, InWrite, NoFrame
<1>8. PICK k \in 0..Len(stream) :
         /\ DecoderAt(k, state, decoded, taken, remaining_length, frames)
         /\ HeardUpTo(k) /\ PongsUpTo(k) /\ Conv(k).pings \in Seq(Seq(Byte))
  BY WhereItIs
<1>9. /\ Follows(heard, Conv(k).messages, dbUp) /\ Follows(pongs, Conv(k).pings, FALSE)
      /\ (~left /\ (~closing \/ InWrite) => Conv(k).pings = pongs \o Pending)
  BY <1>8 DEF HeardUpTo, PongsUpTo
<1>10. pongs \in Seq(Seq(Byte)) /\ pongs \o <<>> = pongs /\ Append(pongs, out.data) = pongs \o <<out.data>>
  <2>1. pongs \in Seq(Seq(Byte))
    BY <1>9 DEF Follows
  <2> QED BY <1>3, <2>1
<1> DEFINE p == Conv(k).pings
<1>11. /\ Follows(pongs', p, FALSE)
       /\ ~left' /\ (~closing' \/ InWrite') => p = pongs' \o Pending'
  <2>1. CASE out.type = "PONG" /\ ~left
    <3>1. InWrite /\ Pending = <<out.data>>
      BY <1>2, <1>3, <2>1 DEF InWrite, Pending
    <3>2. p = Append(pongs, out.data) /\ pongs' = Append(pongs, out.data)
      BY <1>2, <1>9, <1>10, <2>1, <3>1
    <3>3. Append(pongs, out.data) \in Seq(Seq(Byte))
      BY <1>3, <1>10, AppendProperties
    <3>4. pongs' \o <<>> = pongs'
      BY <3>2, <3>3
    <3> HIDE DEF p
    <3>5. Follows(p, p, TRUE)
      BY <3>2, <3>3, FollowsSelf
    <3>6. Follows(pongs', p, FALSE)
      BY <3>2, <3>5 DEF Follows
    <3> QED BY <1>7, <3>2, <3>4, <3>6
  <2>2. CASE out.type # "PONG" /\ ~left
    <3>1. Pending = <<>> /\ ~InWrite /\ pongs' = pongs
      BY <1>2, <2>2 DEF InWrite, Pending
    <3> QED BY <1>2, <1>7, <1>9, <2>2, <3>1
  <2>3. CASE left
    <3>1. pongs' = pongs
      BY <1>2, <2>3
    <3> QED BY <1>2, <1>9, <2>3, <3>1
  <2> QED BY <2>1, <2>2, <2>3
<1>12. DecoderAt(k, state', decoded', taken', remaining_length', frames')
  BY <1>2, <1>8
<1>13. Follows(heard', Conv(k).messages, dbUp')
  BY <1>2, <1>9
<1>14. Understood'
  BY <1>2, <1>11, <1>12, <1>13, UnderstoodAfter
<1> QED BY <1>4, <1>5, <1>6, <1>14 DEF SessionInv

\* So does no step at all.
LEMMA StutterKeeps ==
    ASSUME SessionInv, UNCHANGED vars
    PROVE  SessionInv'
<1>1. ClientTyped /\ SessionTyped /\ Staged
  BY DEF SessionInv
<1>2. /\ UNCHANGED <<client, reading, decoding>> /\ pongs' = pongs /\ left' = left
      /\ UNCHANGED <<framer, reader, out, answer, closing, connected, pipe, dbUp, sent, unread>>
      /\ state' = state /\ decoded' = decoded /\ taken' = taken
  BY DEF vars, session, db, reading, decoding
<1>3. SessionTyped'
  BY <1>1, <1>2 DEF SessionTyped
<1>4. Staged'
  BY <1>1, <1>2 DEF Staged, Over
<1>5. ~left' /\ (~closing' \/ InWrite') => ~left /\ (~closing \/ InWrite) /\ Pending' = Pending
  BY <1>2 DEF Pending, InWrite
<1>6. left' \in BOOLEAN /\ (dbUp' => dbUp)
  BY <1>1, <1>2 DEF ClientTyped
<1>7. ClientTyped' /\ Understood'
  BY <1>2, <1>5, <1>6, IdleKeeps
<1> QED BY <1>3, <1>4, <1>7 DEF SessionInv

\* The invariant holds at first ...
LEMMA SessionInit ==
    ASSUME Init
    PROVE  SessionInv
<1>1. /\ host \in Hosts /\ stream \in Streams /\ left = FALSE
      /\ framer = "start" /\ reader = "none" /\ out = NoFrame /\ answer = "none"
      /\ closing = FALSE /\ connected = TRUE /\ pipe = "none"
      /\ dbUp = TRUE /\ sent = 0 /\ unread = 0 /\ pongs = <<>>
      /\ frames = [control |-> EmptyFrame(CloseOp), message |-> EmptyFrame(0)]
      /\ heard = <<>> /\ decoded = 0 /\ taken = 0 /\ remaining_length = 0
      /\ state = [framing |-> "START", fin |-> FALSE, opcode |-> 255, length |-> 0, ext |-> 0,
                  masking |-> FALSE, index |-> 0, offset |-> 0, frame |-> "control", status |-> "OK"]
  BY DEF Init, InitDecoder
<1>2. PICK n \in Lost : arrived = Max({0, Len(Wires[stream][Len(stream)]) - n})
  BY DEF Init
<1>3. Len(stream) \in Nat /\ Wires[stream][0] = <<>> /\ Meanings[stream][0] = Silence
  BY <1>1, WiresUnroll, MeaningsUnroll
<1>4. 0 \in 0..Len(stream) /\ Len(stream) \in 0..Len(stream)
  BY <1>3
<1>5. EndOf(0) = 0 /\ EndOf(Len(stream)) \in Nat
  BY <1>1, <1>3, <1>4, EndsGrow DEF EndOf
<1>6. arrived \in 0..EndOf(Len(stream))
  <2> DEFINE e == EndOf(Len(stream))
             S == {0, e - n}
  <2>1. arrived = Max(S) /\ n \in Nat /\ e \in Nat
    BY <1>2, <1>5, WsFramesAssumption DEF EndOf
  <2> HIDE DEF e
  <2>2. CASE n <= e
    <3>1. e - n \in Nat
      BY <2>1, <2>2
    <3>2. Max(S) = IF 0 >= e - n THEN 0 ELSE e - n
      BY <3>1, MaxOfTwo
    <3> QED BY <2>1, <2>2, <3>1, <3>2 DEF e
  <2>3. CASE ~(n <= e)
    <3> DEFINE m == CHOOSE x \in S : \A y \in S : x >= y
    <3>1. 0 \in S /\ \A y \in S : 0 >= y
      BY <2>1, <2>3
    <3>2. m \in S /\ \A y \in S : m >= y
      BY <3>1
    <3>3. m = 0
      BY <2>1, <2>3, <3>2
    <3>4. Max(S) = m
      BY DEF Max
    <3> QED BY <2>1, <3>3, <3>4 DEF e
  <2> QED BY <2>2, <2>3
<1>7. ClientTyped
  <2>1. arrived \in Nat /\ 0 \in 0..arrived
    BY <1>5, <1>6
  <2> QED BY <1>1, <1>6, <2>1 DEF ClientTyped
<1>8. SessionTyped
  <2>1. 0 \in 0..MaxSent /\ 0 \in 0..0
    BY WebSocketAssumption
  <2>2. framer \in FramerStages /\ reader \in ReaderStages
    BY <1>1 DEF FramerStages, ReaderStages
  <2> QED BY <1>1, <2>1, <2>2 DEF SessionTyped
<1>9. Staged
  BY <1>1 DEF Staged, Over, NoFrame
<1>10. state \in StateRecord /\ frames \in BothFrames
  <2>1. state \in StateRecord
    BY <1>1 DEF StateRecord, Framings, Statuses
  <2>2. <<>> \in Seq(Byte) /\ 8 \in 0..15 /\ 0 \in 0..15 /\ "S0" \in Utf8States
    BY DEF Utf8States
  <2>3. EmptyFrame(CloseOp) \in FrameState /\ EmptyFrame(0) \in FrameState
    BY <2>2 DEF EmptyFrame, FrameState, CloseOp
  <2> QED BY <1>1, <2>1, <2>3 DEF BothFrames
<1>11. Conv(0).messages = <<>> /\ Conv(0).pings = <<>> /\ Conv(0).on /\ ~Conv(0).inside /\ Conv(0).part = <<>>
  BY <1>3 DEF Conv, Silence
<1>12. DecoderAt(0, state, decoded, taken, remaining_length, frames)
  <2>1. InFrame(0, state, decoded)
    BY <1>1, <1>5 DEF InFrame
  <2>2. FrameRead(0, state, decoded, taken, remaining_length)
    BY <1>1 DEF FrameRead
  <2>3. Goes(0, state, decoded, taken, remaining_length)
    BY <1>1, <1>10, <2>1, <2>2 DEF Goes, Decoding
  <2>4. Understands(0, state, frames)
    BY <1>1, <1>11 DEF Understands, HoldsPart, EmptyFrame
  <2> QED BY <1>1, <1>4, <1>10, <2>3, <2>4 DEF DecoderAt, Stays
<1>13. <<>> \in Seq(Seq(Byte)) /\ Follows(<<>>, <<>>, TRUE)
  <2>1. <<>> \in Seq(Seq(Byte))
    OBVIOUS
  <2> QED BY <2>1, FollowsSelf
<1>14. HeardUpTo(0)
  BY <1>1, <1>11, <1>13 DEF HeardUpTo, Follows
<1>15. PongsUpTo(0)
  <2>1. Pending = <<>>
    BY <1>1 DEF Pending, NoFrame
  <2>2. <<>> \o <<>> = <<>>
    OBVIOUS
  <2> QED BY <1>1, <1>11, <1>13, <2>1, <2>2 DEF PongsUpTo, Follows
<1>16. Understood
  BY <1>4, <1>12, <1>14, <1>15 DEF Understood
<1> QED BY <1>7, <1>8, <1>9, <1>16 DEF SessionInv

\* ... and after every step.
LEMMA SessionStep ==
    ASSUME SessionInv, [Next]_vars
    PROVE  SessionInv'
<1>1. CASE Framer
  BY <1>1, ConnectKeeps, RefusedKeeps, ReadFramesKeeps, ReadFailsSession, DecodeKeeps, PingKeeps, BlockDoneKeeps,
     FramerChecksKeeps, FramerHeaderKeeps, FramerPayloadKeeps, ReleaseKeeps, SignalKeeps, JoinKeeps,
     JoinNothingKeeps, LeaveKeeps DEF Framer
<1>2. CASE Reader
  BY <1>2, ReadDataKeeps, ReadEofKeeps, ReadExitKeeps, ReadClosedKeeps, ReaderChecksKeeps, ReaderWritesKeeps DEF Reader
<1>3. CASE ClientLeaves \/ DbSends \/ DbLeaves
  BY <1>3, ClientLeavesKeeps, DbSendsKeeps, DbLeavesKeeps
<1>4. CASE UNCHANGED vars
  BY <1>4, StutterKeeps
<1> QED BY <1>1, <1>2, <1>3, <1>4 DEF Next

---------------------------------------------------------------------------
(* The theorems.                                                           *)

\* The decoder goes on from every state it comes to, between two frames or in one,
\* however the bytes are cut into blocks: mg_websocket_incoming_frame.
THEOREM SessionInvariant == Spec => []SessionInv
<1>1. Init => SessionInv
  BY SessionInit
<1>2. SessionInv /\ [Next]_vars => SessionInv'
  BY SessionStep
<1> QED BY <1>1, <1>2, PTL DEF Spec

\* The next byte of the client is the one the decoder takes it for.
LEMMA NextByte ==
    ASSUME SessionInv, Left > 0
    PROVE  next.is \in
             CASE state.framing = "START" -> {"first"}
               [] state.framing = "PAYLOAD_LENGTH" -> {"length"}
               [] state.framing = "PAYLOAD_LENGTH_EXT" -> {IF state.ext > 0 THEN "ext" ELSE "mask"}
               [] state.framing = "MASK" -> {"mask"}
               [] state.framing = "APPLICATION_DATA" -> IF Complete THEN {"data", "first"} ELSE {"data"}
<1>1. ClientTyped /\ taken - decoded > 0
  BY DEF SessionInv, Left
<1>2. PICK k \in 0..Len(stream) :
         /\ DecoderAt(k, state, decoded, taken, remaining_length, frames)
         /\ state.framing # "CLOSE" => Stays(k, state, decoded, taken, remaining_length, frames)
  BY WhereItIs
<1>3. taken \in Nat /\ decoded \in 0..taken /\ taken > decoded
  <2>1. arrived \in Nat /\ taken \in 0..arrived /\ stream \in Streams
    <3>1. stream \in Streams /\ taken \in 0..arrived /\ arrived \in 0..EndOf(Len(stream))
      BY <1>1 DEF ClientTyped
    <3>2. Len(stream) \in Nat
      BY <3>1, WiresUnroll
    <3>3. Len(stream) \in 0..Len(stream)
      BY <3>2
    <3>4. EndOf(Len(stream)) \in Nat
      BY <3>1, <3>2, <3>3, EndsGrow
    <3> QED BY <3>1, <3>4
  <2>2. decoded \in 0..taken
    BY <1>2 DEF DecoderAt, Stays, Ends, Goes
  <2> QED BY <1>1, <2>1, <2>2
<1>4. state.framing # "CLOSE"
  BY <1>2, <1>3 DEF DecoderAt, Stays, Ends, Goes
<1>5. Stays(k, state, decoded, taken, remaining_length, frames)
  BY <1>2, <1>4
<1> DEFINE f == stream[k + 1]
           b == EndOf(k)
           e == Extra(f)
           h == HeadSize(f)
           n == Len(f.data)
           d == decoded
           g == state.framing
           x == state.ext
           i == state.index
           o == state.offset
           l == state.length
<1>6. /\ stream \in Streams /\ k \in Nat /\ k < Len(stream) /\ Len(stream) \in Nat
      /\ state \in StateRecord /\ arrived \in Nat /\ taken <= arrived /\ WellFormed(f)
      /\ Decoding(k, state, decoded, taken, remaining_length)
  BY <1>1, <1>3, <1>5, InSomeFrame
<1>7. /\ b \in Nat /\ EndOf(k + 1) \in Nat /\ EndOf(k + 1) = b + (h + n)
      /\ Wire(b + 1) = First(f) /\ Wire(b + 2) = Second(f)
      /\ \A j \in 1..e : Wire(b + 2 + j) = Ext(Digits(f)[j])
      /\ f.masked => \A j \in 1..4 : Wire(b + 2 + e + j) = Mask(f)
      /\ \A j \in 1..n : Wire(b + h + j) = DataByte(f.data[j], j)
  BY <1>6, NextFrame
<1>8. /\ First(f).is = "first" /\ Second(f).is = "length" /\ Mask(f).is = "mask"
      /\ \A q : Ext(q).is = "ext"
      /\ \A q, j : DataByte(q, j).is = "data"
      /\ e \in {0, 2, 8} /\ h \in Nat /\ n \in Nat
  BY <1>6, FrameFields
<1>9. x \in 0..8 /\ i \in 0..3 /\ o \in Nat /\ l \in Nat
      /\ g \in {"START", "PAYLOAD_LENGTH", "PAYLOAD_LENGTH_EXT", "MASK", "APPLICATION_DATA", "CLOSE"}
  BY <1>6, StateFields
<1>10. /\ g = "START" => d = b
       /\ g = "PAYLOAD_LENGTH" => d = b + 1
       /\ g = "PAYLOAD_LENGTH_EXT" => f.masked /\ x <= e /\ (x = 0 => e = 0) /\ d = b + 2 + (e - x)
       /\ g = "MASK" => f.masked /\ d = b + 2 + e + i
       /\ g = "APPLICATION_DATA" => l + o = n /\ d = b + h + o
  BY <1>6 DEF Decoding, InFrame
<1>11. next = Wire(d + 1)
  BY DEF next
<1>12. g = "APPLICATION_DATA" /\ l = 0 => Complete
  <2> SUFFICES ASSUME g = "APPLICATION_DATA", l = 0 PROVE Complete
    OBVIOUS
  <2>1. Len(Chunk) \in Nat /\ Len(Chunk) <= l
    BY <1>1, <1>5, ChunkIs
  <2> QED BY <2>1 DEF Complete
<1> HIDE DEF f, b, e, h, n, d, g, x, i, o, l
<1>13. CASE g = "START"
  <2>1. next.is = "first"
    BY <1>7, <1>8, <1>10, <1>11, <1>13
  <2> QED BY <1>13, <2>1 DEF g
<1>14. CASE g = "PAYLOAD_LENGTH"
  <2>1. d + 1 = b + 2
    BY <1>7, <1>10, <1>14
  <2>2. next.is = "length"
    BY <1>7, <1>8, <1>11, <2>1
  <2> QED BY <1>14, <2>2 DEF g
<1>15. CASE g = "PAYLOAD_LENGTH_EXT"
  <2>1. f.masked /\ x <= e /\ (x = 0 => e = 0) /\ d = b + 2 + (e - x) /\ e \in Nat /\ x \in Nat
    BY <1>8, <1>9, <1>10, <1>15
  <2>2. CASE x > 0
    <3> DEFINE j == (e - x) + 1
    <3>1. j \in 1..e /\ d + 1 = b + 2 + j
      BY <1>7, <2>1, <2>2
    <3> HIDE DEF j
    <3>2. next.is = "ext"
      BY <1>7, <1>8, <1>11, <3>1
    <3> QED BY <1>15, <2>2, <3>2 DEF g, x
  <2>3. CASE ~(x > 0)
    <3>1. x = 0 /\ e = 0
      BY <2>1, <2>3
    <3>2. d + 1 = b + 2 + e + 1 /\ 1 \in 1..4
      BY <1>7, <2>1, <3>1
    <3>3. next.is = "mask"
      BY <1>7, <1>8, <1>11, <2>1, <3>2
    <3> QED BY <1>15, <2>3, <3>3 DEF g, x
  <2> QED BY <2>2, <2>3
<1>16. CASE g = "MASK"
  <2> DEFINE j == i + 1
  <2>1. f.masked /\ d = b + 2 + e + i /\ e \in Nat /\ i \in 0..3
    BY <1>8, <1>9, <1>10, <1>16
  <2>2. j \in 1..4 /\ d + 1 = b + 2 + e + j
    BY <1>7, <2>1
  <2> HIDE DEF j
  <2>3. next.is = "mask"
    BY <1>7, <1>8, <1>11, <2>1, <2>2
  <2> QED BY <1>16, <2>3 DEF g
<1>17. CASE g = "APPLICATION_DATA"
  <2>1. l + o = n /\ d = b + h + o
    BY <1>10, <1>17
  <2>2. CASE l # 0
    <3> DEFINE j == o + 1
    <3>1. j \in 1..n /\ d + 1 = b + h + j
      BY <1>7, <1>8, <1>9, <2>1, <2>2
    <3> HIDE DEF j
    <3>2. next.is = "data"
      BY <1>7, <1>8, <1>11, <3>1
    <3> QED BY <1>17, <3>2 DEF g
  <2>3. CASE l = 0
    <3> DEFINE q == k + 1
    <3>1. d = EndOf(q) /\ EndOf(q) \in Nat
      BY <1>7, <1>8, <1>9, <2>1, <2>3
    <3>2. q \in Nat /\ q < Len(stream)
      <4>1. arrived <= EndOf(Len(stream)) /\ EndOf(Len(stream)) \in Nat
        <5>1. Len(stream) \in 0..Len(stream)
          BY <1>6
        <5>2. EndOf(Len(stream)) \in Nat
          BY <1>6, <5>1, EndsGrow
        <5>3. arrived \in 0..EndOf(Len(stream))
          BY <1>1 DEF ClientTyped
        <5> QED BY <5>2, <5>3
      <4>2. d < EndOf(Len(stream))
        BY <1>3, <1>6, <4>1 DEF d
      <4>3. q # Len(stream)
        BY <3>1, <4>1, <4>2
      <4> HIDE DEF q
      <4>4. q \in Nat /\ q <= Len(stream)
        BY <1>6 DEF q
      <4> QED BY <1>6, <4>3, <4>4
    <3>3. WellFormed(stream[q + 1]) /\ Wire(EndOf(q) + 1) = First(stream[q + 1])
      BY <1>6, <3>2, NextFrame
    <3>4. next.is = "first"
      <4>1. First(stream[q + 1]).is = "first"
        BY <3>3, FrameFields
      <4> QED BY <1>11, <3>1, <3>3, <4>1
    <3> QED BY <1>12, <1>17, <2>3, <3>4 DEF g
  <2> QED BY <2>2, <2>3
<1> QED BY <1>4, <1>9, <1>13, <1>14, <1>15, <1>16, <1>17 DEF g

\* The types, and that no byte of payload is taken for the head of a frame, nor one of
\* the head for another: mg_websocket_incoming_frame, for every way to cut the bytes.
THEOREM TypeCorrect == Spec => []TypeOK
<1>1. SessionInv => TypeOK
  <2> SUFFICES ASSUME SessionInv PROVE TypeOK
    OBVIOUS
  <2>1. ClientTyped /\ SessionTyped
    BY DEF SessionInv
  <2>2. PICK k \in 0..Len(stream) : DecoderAt(k, state, decoded, taken, remaining_length, frames)
    BY WhereItIs
  <2>3. state \in StateRecord /\ decoded \in 0..taken /\ frames \in BothFrames
    BY <2>2 DEF DecoderAt, Stays, Ends, Goes
  <2>4. state.length \in Nat /\ state.index \in 0..3 /\ state.ext \in 0..8
    BY <2>3, StateFields
  <2>5. frames.message.data \in Seq(Byte) /\ frames.control.data \in Seq(Byte)
    BY <2>3 DEF BothFrames, FrameState
  <2>6. /\ host \in Hosts /\ stream \in Streams /\ left \in BOOLEAN
        /\ taken \in 0..arrived /\ remaining_length \in Nat
    BY <2>1 DEF ClientTyped
  <2>7. /\ framer \in FramerStages /\ reader \in ReaderStages
        /\ closing \in BOOLEAN /\ connected \in BOOLEAN
        /\ pipe \in {"none", "open", "exit", "closed"}
        /\ dbUp \in BOOLEAN /\ sent \in 0..MaxSent /\ unread \in 0..sent
    BY <2>1 DEF SessionTyped
  <2> QED BY <2>3, <2>4, <2>5, <2>6, <2>7, NextByte DEF TypeOK
<1> QED BY <1>1, SessionInvariant, PTL

\* What has arrived of the stream has at least the frames the decoder has been through.
LEMMA ToldIs ==
    ASSUME ClientTyped
    PROVE  \E m \in 0..Len(stream) :
              /\ Told = Conv(m) /\ EndOf(m) <= arrived
              /\ \A j \in 0..Len(stream) : EndOf(j) <= arrived => j <= m
<1> DEFINE n == Len(stream)
           S == {i \in 0..n : Len(Wires[stream][i]) <= arrived}
           m == Max(S)
<1>1. stream \in Streams /\ arrived \in 0..EndOf(n)
  BY DEF ClientTyped
<1>2. n \in Nat /\ Wires[stream][0] = <<>>
  BY <1>1, WiresUnroll
<1>3. n \in 0..n /\ 0 \in 0..n
  BY <1>2
<1>4. EndOf(n) \in Nat /\ Len(Wires[stream][0]) = 0
  BY <1>1, <1>2, <1>3, EndsGrow
<1>5. 0 \in S
  BY <1>1, <1>3, <1>4
<1>6. S \subseteq 0..n /\ S # {}
  BY <1>5
<1> HIDE DEF S
<1>7. m \in S /\ \A y \in S : m >= y
  BY <1>2, <1>6, MaxExists
<1>8. Told = Conv(m)
  BY DEF Told, Conv, S, n
<1> HIDE DEF m
<1>9. m \in 0..n /\ EndOf(m) <= arrived
  BY <1>7 DEF S, EndOf
<1>10. ASSUME NEW j \in 0..n, EndOf(j) <= arrived PROVE j <= m
  <2>1. j \in S
    BY <1>10 DEF S, EndOf
  <2>2. m >= j
    BY <1>7, <2>1
  <2> QED BY <1>2, <1>9, <2>2
<1> QED BY <1>8, <1>9, <1>10

\* The frame the decoder is in begins in what has arrived.
LEMMA BeginsInTime ==
    ASSUME ClientTyped, NEW k \in 0..Len(stream), DecoderAt(k, state, decoded, taken, remaining_length, frames)
    PROVE  EndOf(k) <= arrived
<1>1. stream \in Streams /\ arrived \in 0..EndOf(Len(stream)) /\ taken \in 0..arrived
  BY DEF ClientTyped
<1>2. Len(stream) \in Nat /\ k \in Nat
  <2>1. Len(stream) \in Nat
    BY <1>1, WiresUnroll
  <2> QED BY <2>1
<1>3. EndOf(k) \in Nat /\ EndOf(Len(stream)) \in Nat
  <2>1. Len(stream) \in 0..Len(stream) /\ k <= Len(stream)
    BY <1>2
  <2> QED BY <1>1, <1>2, <2>1, EndsGrow
<1>4. decoded \in 0..taken
  BY DEF DecoderAt, Stays, Ends, Goes
<1>5. CASE state.framing = "CLOSE"
  <2>1. EndOf(k) <= taken
    BY <1>5 DEF DecoderAt, Stays, Ends, Goes
  <2> QED BY <1>1, <1>3, <2>1
<1>6. CASE state.framing = "START"
  <2>1. decoded = EndOf(k)
    BY <1>6 DEF DecoderAt, Stays, Ends, Goes, Decoding, InFrame
  <2> QED BY <1>1, <1>3, <1>4, <2>1
<1>7. CASE state.framing \notin {"START", "CLOSE"}
  <2>1. Stays(k, state, decoded, taken, remaining_length, frames)
    BY <1>7 DEF DecoderAt, Ends
  <2>2. EndOf(k) <= decoded
    BY <1>7, <2>1, InMidFrame
  <2> QED BY <1>1, <1>3, <1>4, <2>2
<1> QED BY <1>5, <1>6, <1>7

\* What follows what was said up to a frame that has arrived follows what was told.
LEMMA FollowsExtends ==
    ASSUME NEW h, NEW m, NEW q, NEW a, Follows(h, m, a), Extends(m, q)
    PROVE  Extends(h, q)
<1>1. h \in Seq(Seq(Byte)) /\ Len(h) <= Len(m) /\ \A i \in 1..Len(h) : h[i] = m[i]
  BY DEF Follows
<1>2. m \in Seq(Seq(Byte))
  BY DEF Extends
<1>3. Extends(h, m)
  BY <1>1, <1>2 DEF Extends
<1> QED BY <1>3, ExtendsTrans

\* What was said is a prefix of what is said later.
LEMMA ExtendsIsPrefix ==
    ASSUME NEW p, NEW q, Extends(p, q)
    PROVE  IsPrefix(p, q)
<1> DEFINE n == Len(p)
           a == SubSeq(p, 1, n)
           b == SubSeq(q, 1, n)
<1>1. p \in Seq(Seq(Byte)) /\ q \in Seq(Seq(Byte)) /\ n <= Len(q) /\ \A i \in 1..n : q[i] = p[i]
  BY DEF Extends
<1>2. n \in Nat /\ Len(q) \in Nat
  BY <1>1, LenProperties
<1> DEFINE S == Seq(Byte)
<1> HIDE DEF n, S
<1>3. (\A i \in 1..n : p[i] \in S) /\ (\A i \in 1..n : q[i] \in S)
  <2>1. \A i \in 1..n : i \in 1..Len(p) /\ i \in 1..Len(q)
    BY <1>1, <1>2 DEF n
  <2>2. p \in Seq(S) /\ q \in Seq(S)
    BY <1>1 DEF S
  <2> QED BY <2>1, <2>2, ElementOfSeq
<1>4. 1 \in Int /\ n \in Int
  BY <1>2
<1>5. /\ a \in Seq(S) /\ Len(a) = (IF 1 <= n THEN n - 1 + 1 ELSE 0) /\ \A i \in 1..(n - 1 + 1) : a[i] = p[1 + i - 1]
  BY ONLY <1>3, <1>4, SubSeqProperties
<1>6. /\ b \in Seq(S) /\ Len(b) = (IF 1 <= n THEN n - 1 + 1 ELSE 0) /\ \A i \in 1..(n - 1 + 1) : b[i] = q[1 + i - 1]
  BY ONLY <1>3, <1>4, SubSeqProperties
<1> HIDE DEF a, b
<1>7. Len(a) = n /\ Len(b) = n
  BY <1>2, <1>5, <1>6
<1>8. \A i \in 1..n : a[i] = p[i] /\ b[i] = p[i]
  <2> TAKE i \in 1..n
  <2>1. i \in 1..(n - 1 + 1) /\ 1 + i - 1 = i
    BY <1>2
  <2> QED BY <1>1, <1>5, <1>6, <2>1
<1>9. a = b
  <2>1. a = [i \in 1..n |-> a[i]] /\ b = [i \in 1..n |-> b[i]]
    BY <1>5, <1>6, <1>7
  <2>2. [i \in 1..n |-> a[i]] = [i \in 1..n |-> b[i]]
    BY <1>8
  <2> QED BY <2>1, <2>2
<1> QED BY <1>1, <1>9 DEF IsPrefix, a, b, n

\* Every PONG answers the PING of its own, in order, also between the parts of a message:
\* mg_websocket_connection and the two threads' mg_websocket_write_block.
THEOREM PongsCorrect == Spec => []PongsMatch
<1>1. SessionInv => PongsMatch
  <2> SUFFICES ASSUME SessionInv PROVE PongsMatch
    OBVIOUS
  <2>1. ClientTyped /\ stream \in Streams
    BY DEF SessionInv, ClientTyped
  <2>2. PICK k \in 0..Len(stream) : DecoderAt(k, state, decoded, taken, remaining_length, frames) /\ PongsUpTo(k)
    BY WhereItIs
  <2>3. PICK m \in 0..Len(stream) :
           /\ Told = Conv(m) /\ EndOf(m) <= arrived
           /\ \A j \in 0..Len(stream) : EndOf(j) <= arrived => j <= m
    BY <2>1, ToldIs
  <2>4. k <= m
    BY <2>1, <2>2, <2>3, BeginsInTime
  <2>5. Extends(Conv(k).pings, Conv(m).pings)
    BY <2>1, <2>4, ConversationGrows
  <2>6. Extends(pongs, Told.pings)
    BY <2>2, <2>3, <2>5, FollowsExtends DEF PongsUpTo
  <2> QED BY <2>6, ExtendsIsPrefix DEF PongsMatch
<1> QED BY <1>1, SessionInvariant, PTL

---------------------------------------------------------------------------
(* The messages the DB Server hears.                                       *)

\* How the conversation has ended, as WsMessages sees it.
Verdict == IF ~Over THEN "no"
           ELSE IF dbUp /\ reader # "none" /\ state.status # "INTERNAL_ERROR" THEN "whole"
           ELSE "cut"

\* The thread of the request does not come back from the end, and nothing that the
\* verdict is about changes there.
Passive ==
    /\ heard' = heard /\ UNCHANGED client
    /\ Over => /\ Over' /\ state' = state /\ dbUp' = dbUp
               /\ (reader' = "none") = (reader = "none")
    /\ ~Over /\ Over' => state' = state /\ dbUp' = dbUp

\* Every step but that of the decoder leaves the messages alone, or ends the session.
LEMMA StepsArePassive ==
    ASSUME Next, ~Decode
    PROVE  Passive
<1>1. Connect => Passive
  BY DEF Passive, Connect, session, db, decoding, Over
<1>2. Refused => Passive
  BY DEF Passive, Refused, session, db, decoding, Over
<1>3. ReadFrames => Passive
  BY DEF Passive, ReadFrames, session, db, decoding, Over
<1>4. ReadFails => Passive
  BY DEF Passive, ReadFails, session, db, SayClose, Out, decoding, Over
<1>5. Ping => Passive
  BY DEF Passive, Ping, session, db, ControlFrame, Out, decoding, Over
<1>6. BlockDone => Passive
  BY DEF Passive, BlockDone, session, db, SayClose, Out, decoding, Over
<1>7. FramerChecks => Passive
  BY DEF Passive, FramerChecks, session, db, Thread, FramerGoesOn, decoding, Over
<1>8. FramerHeader => Passive
  BY DEF Passive, FramerHeader, db, Thread, FramerGoesOn, decoding, Over
<1>9. FramerPayload => Passive
  BY DEF Passive, FramerPayload, session, db, Thread, FramerGoesOn, decoding, Over
<1>10. Release => Passive
  BY DEF Passive, Release, db, Thread, decoding, Over
<1>11. Signal => Passive
  BY DEF Passive, Signal, db, Thread, decoding, Over
<1>12. Join => Passive
  BY DEF Passive, Join, session, db, Thread, decoding, Over
<1>13. JoinNothing => Passive
  BY DEF Passive, JoinNothing, session, db, Thread, decoding, Over
<1>14. Leave => Passive
  BY DEF Passive, Leave, db, Thread, decoding, Over
<1>15. ReadData => Passive
  BY DEF Passive, ReadData, session, Thread, Says, decoding, Over
<1>16. ReadEof => Passive
  BY DEF Passive, ReadEof, db, Thread, Says, decoding, Over
<1>17. ReadExit => Passive
  BY DEF Passive, ReadExit, session, db, Thread, Says, decoding, Over
<1>18. ReadClosed => Passive
  BY DEF Passive, ReadClosed, session, db, Thread, Says, decoding, Over
<1>19. ReaderChecks => Passive
  BY DEF Passive, ReaderChecks, session, db, Thread, ReaderGoesOn, decoding, Over
<1>20. ReaderWrites => Passive
  BY DEF Passive, ReaderWrites, db, Thread, ReaderGoesOn, decoding, Over
<1>21. ClientLeaves => Passive
  BY DEF Passive, ClientLeaves, session, db, decoding, Over
<1>22. DbSends => Passive
  BY DEF Passive, DbSends, session, Thread, decoding, Over
<1>23. DbLeaves => Passive
  BY DEF Passive, DbLeaves, session, Thread, decoding, Over
<1> QED BY <1>1, <1>2, <1>3, <1>4, <1>5, <1>6, <1>7, <1>8, <1>9, <1>10, <1>11, <1>12, <1>13, <1>14, <1>15, <1>16, <1>17, <1>18, <1>19, <1>20, <1>21, <1>22, <1>23 DEF Next, Framer, Reader

\* A session that is to be closed while the DB Server is there: it has heard everything.
LEMMA AllHeard ==
    ASSUME SessionInv, state.framing = "CLOSE", dbUp, state.status # "INTERNAL_ERROR"
    PROVE  heard = Told.messages
<1>1. ClientTyped /\ stream \in Streams
  BY DEF SessionInv, ClientTyped
<1>2. PICK k \in 0..Len(stream) : DecoderAt(k, state, decoded, taken, remaining_length, frames) /\ HeardUpTo(k)
  BY WhereItIs
<1>3. PICK m \in 0..Len(stream) :
         /\ Told = Conv(m) /\ EndOf(m) <= arrived
         /\ \A j \in 0..Len(stream) : EndOf(j) <= arrived => j <= m
  BY <1>1, ToldIs
<1>4. k <= m
  BY <1>1, <1>2, <1>3, BeginsInTime
<1>5. Settled(k)
  BY <1>2 DEF DecoderAt, Stays, Ends
<1>6. Conv(m).messages = Conv(k).messages
  BY <1>3, <1>4, <1>5 DEF Settled
<1>7. heard = Conv(k).messages
  BY <1>2 DEF HeardUpTo, Follows
<1> QED BY <1>3, <1>6, <1>7

\* What the decoder sends is the next of the messages.
LEMMA NextIsHeard ==
    ASSUME SessionInv, Decode
    PROVE  \/ heard' = heard
           \/ Len(heard) < Len(Told.messages) /\ heard' = Append(heard, Told.messages[Len(heard) + 1])
<1>1. ClientTyped /\ stream \in Streams /\ taken \in 0..arrived
  BY DEF SessionInv, ClientTyped
<1>2. CASE ~MessageFrame(connected, dbUp)
  <2>1. \/ Start \/ LengthByte \/ LengthExt \/ MaskBytes \/ OutOfMemory
        \/ Payload \/ FrameCloses \/ ControlFrame(PongOp)
    BY <1>2 DEF Decode
  <2> QED BY <2>1 DEF Start, LengthByte, LengthExt, MaskBytes, OutOfMemory, Payload, FrameCloses, ControlFrame
<1>3. CASE MessageFrame(connected, dbUp)
  <2>1. state.framing # "CLOSE"
    BY <1>3 DEF MessageFrame
  <2>2. PICK k \in 0..Len(stream) :
           /\ Stays(k, state, decoded, taken, remaining_length, frames)
           /\ HeardUpTo(k) /\ Conv(k).messages \in Seq(Seq(Byte))
    BY <2>1, WhereItIs
  <2> DEFINE q == k + 1
             c == Conv(k).messages
  <2>3. /\ Stays(q, state', decoded', taken, remaining_length, frames') /\ Data \in Seq(Byte)
        /\ Conv(q).messages = (IF state.fin /\ Data # <<>> THEN Append(c, Data) ELSE c)
        /\ heard' = IF state.fin /\ Data # <<>> /\ connected /\ dbUp THEN Append(heard, Data) ELSE heard
    BY <1>1, <1>3, <2>2, MessageFrameKeeps
  <2>4. CASE ~(state.fin /\ Data # <<>> /\ connected /\ dbUp)
    BY <2>3, <2>4
  <2>5. CASE state.fin /\ Data # <<>> /\ connected /\ dbUp
    <3>1. heard = c
      BY <2>2, <2>5 DEF HeardUpTo, Follows
    <3> HIDE DEF q, c
    <3>2. Conv(q).messages = Append(heard, Data) /\ heard' = Append(heard, Data) /\ heard \in Seq(Seq(Byte))
      BY <2>2, <2>3, <2>5, <3>1 DEF c
    <3>3. PICK m \in 0..Len(stream) :
             /\ Told = Conv(m) /\ EndOf(m) <= arrived
             /\ \A j \in 0..Len(stream) : EndOf(j) <= arrived => j <= m
      BY <1>1, ToldIs
    <3>4. q \in 0..Len(stream) /\ EndOf(q) <= arrived
      <4>1. state' = AfterFrame(state)
        BY <1>3 DEF MessageFrame, Ended, AfterFrame
      <4>2. state \in StateRecord
        BY <2>2 DEF Stays, Goes
      <4>3. state'.framing = "START"
        BY <4>1, <4>2, StateAfterFrame DEF StateIs
      <4>4. q \in 0..Len(stream) /\ decoded' \in 0..taken /\ decoded' = EndOf(q)
        BY <2>3, <4>3 DEF Stays, Goes, Decoding, InFrame
      <4>5. arrived \in Nat
        <5>1. Len(stream) \in Nat
          BY <1>1, WiresUnroll
        <5>2. Len(stream) \in 0..Len(stream)
          BY <5>1
        <5>3. EndOf(Len(stream)) \in Nat
          BY <1>1, <5>1, <5>2, EndsGrow
        <5>4. arrived \in 0..EndOf(Len(stream))
          BY <1>1 DEF ClientTyped
        <5> QED BY <5>3, <5>4
      <4> DEFINE z == EndOf(q)
      <4> HIDE DEF z
      <4>6. z \in 0..taken
        BY <4>4 DEF z
      <4>7. z <= arrived
        BY <1>1, <4>5, <4>6
      <4> QED BY <4>4, <4>7 DEF z
    <3>5. q <= m
      BY <3>3, <3>4
    <3> DEFINE t == Told.messages
               n == Len(heard)
    <3>6. Extends(Append(heard, Data), t)
      <4>1. Extends(Conv(q).messages, Conv(m).messages)
        BY <1>1, <3>3, <3>4, <3>5, ConversationGrows
      <4> QED BY <3>2, <3>3, <4>1
    <3>7. n \in Nat /\ Len(Append(heard, Data)) = n + 1 /\ Append(heard, Data)[n + 1] = Data
      BY <2>3, <3>2, LenProperties, AppendProperties
    <3>8. Len(t) \in Nat /\ n + 1 <= Len(t) /\ t[n + 1] = Data
      <4>1. t \in Seq(Seq(Byte)) /\ Len(Append(heard, Data)) <= Len(t)
            /\ \A i \in 1..Len(Append(heard, Data)) : t[i] = Append(heard, Data)[i]
        BY <3>6 DEF Extends
      <4>2. Len(t) \in Nat
        BY <4>1, LenProperties
      <4>3. n + 1 \in 1..(n + 1)
        BY <3>7
      <4> HIDE DEF t, n
      <4> QED BY <3>7, <4>1, <4>2, <4>3
    <3> HIDE DEF t, n
    <3>9. n < Len(t)
      BY <3>7, <3>8
    <3> QED BY <3>2, <3>8, <3>9 DEF t, n
  <2> QED BY <2>4, <2>5
<1> QED BY <1>2, <1>3

\* A step of the session is a message heard, the end, or nothing to the conversation.
LEMMA ConversationStep ==
    ASSUME SessionInv, SessionInv', [Next]_vars
    PROVE  /\ Told' = Told
           /\ \/ heard' = heard /\ Verdict' = Verdict
              \/ /\ Verdict = "no" /\ Verdict' = "no"
                 /\ Len(heard) < Len(Told.messages) /\ heard' = Append(heard, Told.messages[Len(heard) + 1])
              \/ /\ Verdict = "no" /\ Verdict' \in {"whole", "cut"} /\ heard' = heard
                 /\ Verdict' = "whole" => heard = Told.messages
<1>a. UNCHANGED client => Told' = Told
  BY DEF client, Told
<1>1. CASE Decode
  <2>1. framer = "decode" /\ framer' = framer /\ UNCHANGED client
    BY <1>1 DEF Decode
  <2>2. Verdict = "no" /\ Verdict' = "no"
    BY <2>1 DEF Verdict, Over
  <2> QED BY <1>1, <1>a, <2>1, <2>2, NextIsHeard
<1>2. CASE Next /\ ~Decode
  <2>1. Passive
    BY <1>2, StepsArePassive
  <2>2. heard' = heard /\ Told' = Told
    BY <1>a, <2>1 DEF Passive
  <2>3. CASE Over
    <3>1. Verdict' = Verdict
      BY <2>1, <2>3 DEF Passive, Verdict
    <3> QED BY <2>2, <3>1
  <2>4. CASE ~Over /\ ~Over'
    <3>1. Verdict' = Verdict
      BY <2>4 DEF Verdict
    <3> QED BY <2>2, <3>1
  <2>5. CASE ~Over /\ Over'
    <3>1. Verdict = "no" /\ Verdict' \in {"whole", "cut"}
      BY <2>5 DEF Verdict
    <3>2. ASSUME Verdict' = "whole" PROVE heard = Told.messages
      <4>1. dbUp' /\ reader' # "none" /\ state'.status # "INTERNAL_ERROR"
        BY <2>5, <3>2 DEF Verdict
      <4>2. state'.framing = "CLOSE"
        BY <2>5, <4>1 DEF SessionInv, Staged
      <4>3. state' = state /\ dbUp' = dbUp
        BY <2>1, <2>5 DEF Passive
      <4> QED BY <4>1, <4>2, <4>3, AllHeard
    <3> QED BY <2>2, <3>1, <3>2
  <2> QED BY <2>3, <2>4, <2>5
<1>3. CASE UNCHANGED vars
  <2>1. heard' = heard /\ UNCHANGED client /\ framer' = framer /\ dbUp' = dbUp /\ reader' = reader /\ state' = state
    BY <1>3 DEF vars, decoding, db
  <2>2. Verdict' = Verdict
    BY <2>1 DEF Verdict, Over
  <2> QED BY <1>a, <2>1, <2>2
<1> QED BY <1>1, <1>2, <1>3

\* The DB Server hears the messages of the client, each once, whole and in order, and all of
\* them before the end: mg_websocket_incoming_frame and its two callers' loops implement
\* what WsMessages promises.
THEOREM MessagesImplemented == Spec => ImplementsMessages
<1>1. Init => Messages!Init
  <2> SUFFICES ASSUME Init PROVE Messages!Init
    OBVIOUS
  <2>1. heard = <<>> /\ framer = "start" /\ stream \in Streams
    BY DEF Init, InitDecoder
  <2>2. Verdict = "no"
    BY <2>1 DEF Verdict, Over
  <2>3. ClientTyped
    BY SessionInit DEF SessionInv
  <2>4. PICK m \in 0..Len(stream) : Told = Conv(m)
    BY <2>3, ToldIs
  <2>5. Sensible(Told)
    BY <2>1, <2>4, MeaningsUnroll DEF Conv
  <2>6. Told.messages \in Seq(Seq(0..255))
    BY <2>5 DEF Sensible, Conversation, Byte
  <2> QED BY <2>1, <2>2, <2>6 DEF Messages!Init, Verdict
<1>2. SessionInv /\ SessionInv' /\ [Next]_vars => [Messages!Hear \/ Messages!End]_(Messages!vars)
  <2> SUFFICES ASSUME SessionInv, SessionInv', [Next]_vars
               PROVE  [Messages!Hear \/ Messages!End]_(Messages!vars)
    OBVIOUS
  <2>1. /\ Told' = Told
        /\ \/ heard' = heard /\ Verdict' = Verdict
           \/ /\ Verdict = "no" /\ Verdict' = "no"
              /\ Len(heard) < Len(Told.messages) /\ heard' = Append(heard, Told.messages[Len(heard) + 1])
           \/ /\ Verdict = "no" /\ Verdict' \in {"whole", "cut"} /\ heard' = heard
              /\ Verdict' = "whole" => heard = Told.messages
    BY ConversationStep
  <2>2. Told.messages' = Told.messages
    BY <2>1
  <2>3. CASE heard' = heard /\ Verdict' = Verdict
    BY <2>2, <2>3 DEF Messages!vars, Verdict
  <2>4. CASE /\ Verdict = "no" /\ Verdict' = "no"
             /\ Len(heard) < Len(Told.messages) /\ heard' = Append(heard, Told.messages[Len(heard) + 1])
    <3>1. Messages!Hear
      BY <2>2, <2>4 DEF Messages!Hear, Verdict
    <3> QED BY <3>1
  <2>5. CASE /\ Verdict = "no" /\ Verdict' \in {"whole", "cut"} /\ heard' = heard
             /\ Verdict' = "whole" => heard = Told.messages
    <3>1. Messages!End
      BY <2>2, <2>5 DEF Messages!End, Verdict
    <3> QED BY <3>1
  <2> QED BY <2>1, <2>3, <2>4, <2>5
<1> QED BY <1>1, <1>2, SessionInvariant, PTL DEF Spec, ImplementsMessages, Messages!Spec
=============================================================================
