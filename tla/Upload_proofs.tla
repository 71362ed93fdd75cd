---------------------------- MODULE Upload_proofs ----------------------------
(***************************************************************************)
(* The content of a request on its way to the DB Server, for any content,  *)
(* any sizes of the buffer, the strings and the boundary, and any faults,  *)
(* and the search for its server that Upload takes from ServerAffinity.    *)
(***************************************************************************)
EXTENDS Upload, FiniteSetTheorems, SequenceTheorems, TLAPS

---------------------------------------------------------------------------
(* The search for the server of a request, for any list of servers and of  *)
(* variables and for any request.                                          *)

\* The least member of a set of positions.
LEMMA LeastMember ==
    ASSUME NEW I \in SUBSET Nat, I # {}
    PROVE  /\ Min(I) \in I
           /\ \A i \in I : Min(I) <= i
<1> DEFINE below(i) == 0..(i - 1)
           T == {below(i) : i \in I}
<1>1. T \subseteq FiniteSubsetsOf(Nat) /\ T # {}
  <2>1. \A i \in I : below(i) \in SUBSET Nat /\ IsFiniteSet(below(i))
    BY FS_Interval
  <2> QED BY <2>1 DEF FiniteSubsetsOf
<1>2. PICK X \in T : \A Y \in T : <<Y, X>> \notin StrictSubsetOrdering(Nat)
  BY <1>1, FS_StrictSubsetOrderingWellFounded, WFMin
<1>3. PICK x \in I : X = below(x)
  BY <1>2
<1>4. ASSUME NEW y \in I, y < x
      PROVE  FALSE
  <2>1. below(y) \in SUBSET Nat /\ below(x) \in SUBSET Nat
    BY SMT
  <2>2. below(y) \subseteq below(x) /\ y \in below(x) /\ y \notin below(y)
    BY <1>4
  <2>3. <<below(y), below(x)>> \in StrictSubsetOrdering(Nat)
    BY <2>1, <2>2 DEF StrictSubsetOrdering
  <2> QED BY <1>2, <1>3, <2>3
<1>5. \A y \in I : x <= y
  BY <1>4
<1> QED BY <1>5 DEF Min

\* The server a value names is one of the path, or none.
LEMMA ServerOfType ==
    ASSUME NEW v \in Value
    PROVE  ServerOf(v) \in 0..Len(Names)
<1> DEFINE I == {i \in 1..Len(Names) : Names[i] = v.name}
<1>1. Len(Names) \in Nat
  BY ServerAffinityAssumption
<1>2. I # {} => Min(I) \in I
  BY <1>1, LeastMember
<1>3. ServerOf(v) = IF v.numeric THEN (IF v.number < Len(Names) THEN v.number + 1 ELSE 0)
                    ELSE IF I # {} THEN Min(I) ELSE 0
  BY DEF ServerOf, NoAffinity, SelectInSeq
<1>4. v.numeric \in BOOLEAN /\ v.number \in Nat
  BY DEF Value
<1> QED BY <1>1, <1>2, <1>3, <1>4

---------------------------------------------------------------------------
\* The places of a list where a variable names a server.
Naming(assignments, name) ==
    {i \in 1..Len(assignments) : /\ assignments[i].to = name
                                 /\ ServerOf(assignments[i].value) # NoAffinity}

LEMMA NamingPositions ==
    ASSUME NEW assignments \in Seq(Assignment), NEW name
    PROVE  Naming(assignments, name) \in SUBSET Nat
<1>1. Len(assignments) \in Nat
  OBVIOUS
<1> QED BY <1>1 DEF Naming

\* mg_find_sa_variable_ex finds the first of them, if there is any.
LEMMA FirstNamedFound ==
    ASSUME NEW assignments \in Seq(Assignment), NEW name
    PROVE  LET I == Naming(assignments, name) IN
           /\ I = {} => FirstNamed(assignments, name) = NoAffinity
           /\ I # {} => /\ Min(I) \in I /\ \A i \in I : Min(I) <= i
                        /\ FirstNamed(assignments, name) = ServerOf(assignments[Min(I)].value)
                        /\ FirstNamed(assignments, name) # NoAffinity
<1> DEFINE I == Naming(assignments, name)
           first == IF I # {} THEN Min(I) ELSE 0
<1>1. I \in SUBSET Nat /\ 0 \notin I
  BY NamingPositions DEF Naming
<1>2. I # {} => Min(I) \in I /\ \A i \in I : Min(I) <= i
  BY <1>1, LeastMember
<1>3. FirstNamed(assignments, name) = IF first = 0 THEN NoAffinity ELSE ServerOf(assignments[first].value)
  BY DEF FirstNamed, SelectInSeq, Naming
<1>4. I # {} => first \in I /\ first # 0
  BY <1>1, <1>2
<1>5. I # {} => ServerOf(assignments[first].value) # NoAffinity
  BY <1>4 DEF Naming
<1>6. I = {} => FirstNamed(assignments, name) = NoAffinity
  BY <1>3
<1>7. I # {} => FirstNamed(assignments, name) = ServerOf(assignments[Min(I)].value)
  BY <1>3, <1>4
<1> QED BY <1>2, <1>5, <1>6, <1>7

LEMMA FirstNamedType ==
    ASSUME NEW assignments \in Seq(Assignment), NEW name
    PROVE  FirstNamed(assignments, name) \in 0..Len(Names)
<1> DEFINE I == Naming(assignments, name)
<1>1. CASE I = {}
  <2>1. FirstNamed(assignments, name) = 0
    BY <1>1, FirstNamedFound DEF NoAffinity
  <2> QED BY <2>1, ServerAffinityAssumption
<1>2. CASE I # {}
  <2>1. /\ Min(I) \in I
        /\ FirstNamed(assignments, name) = ServerOf(assignments[Min(I)].value)
    BY <1>2, FirstNamedFound
  <2>2. Min(I) \in 1..Len(assignments)
    BY <2>1 DEF Naming
  <2>3. assignments[Min(I)] \in Assignment
    BY <2>2
  <2>4. assignments[Min(I)].value \in Value
    BY <2>3 DEF Assignment
  <2> QED BY <2>1, <2>4, ServerOfType
<1> QED BY <1>1, <1>2

---------------------------------------------------------------------------
\* The variables that name a server, and mg_find_sa_variable.
NamingVariables(asked) == {n \in 1..Len(Variables) : NamedBy(asked, Variables[n]) # NoAffinity}

LEMMA FindVariableFound ==
    ASSUME NEW asked \in AskRecord
    PROVE  LET I == NamingVariables(asked) IN
           /\ I = {} => FindVariable(asked) = NoAffinity
           /\ I # {} => /\ Min(I) \in I /\ \A n \in I : Min(I) <= n
                        /\ FindVariable(asked) = NamedBy(asked, Variables[Min(I)])
<1> DEFINE I == NamingVariables(asked)
           first == IF I # {} THEN Min(I) ELSE 0
<1>1. I \in SUBSET Nat /\ 0 \notin I
  BY ServerAffinityAssumption DEF NamingVariables
<1>2. I # {} => Min(I) \in I /\ \A n \in I : Min(I) <= n
  BY <1>1, LeastMember
<1>3. FindVariable(asked) = IF first = 0 THEN NoAffinity ELSE NamedBy(asked, Variables[first])
  BY DEF FindVariable, SelectInSeq, NamingVariables
<1>4. I # {} => first \in I /\ first # 0
  BY <1>1, <1>2
<1> QED BY <1>2, <1>3, <1>4

LEMMA FindVariableType ==
    ASSUME NEW asked \in AskRecord
    PROVE  FindVariable(asked) \in 0..Len(Names)
<1>1. asked.query \in Seq(Assignment) /\ asked.form \in Seq(Assignment)
  BY DEF AskRecord
<1>2. \A name : NamedBy(asked, name) \in 0..Len(Names)
  BY <1>1, FirstNamedType DEF NamedBy
<1>3. NoAffinity \in 0..Len(Names)
  BY ServerAffinityAssumption DEF NoAffinity
<1> QED BY <1>2, <1>3, FindVariableFound

LEMMA PreferredServerType ==
    ASSUME NEW asked \in AskRecord, NEW by \in {"none", "variable", "cookie"}
    PROVE  PreferredServer(by, asked) \in 0..Len(Names)
<1>1. NoAffinity \in 0..Len(Names)
  BY ServerAffinityAssumption DEF NoAffinity
<1> QED BY <1>1, FindVariableType DEF PreferredServer

---------------------------------------------------------------------------
\* A source is a variable, a part of the request and a place in that part.
LEMMA SourcesNaming ==
    ASSUME NEW asked \in AskRecord, NEW n, NEW part \in {1, 2}, NEW i
    PROVE  <<n, part, i>> \in Sources(asked)
             <=> /\ n \in DOMAIN Variables
                 /\ i \in Naming(Part(asked, <<n, part, i>>), Variables[n])
<1>1. asked.query \in Seq(Assignment) /\ asked.form \in Seq(Assignment)
  BY DEF AskRecord
<1>2. PICK list \in Seq(Assignment) :
          list = Part(asked, <<n, part, i>>) /\ (list = asked.query \/ list = asked.form)
  BY <1>1 DEF Part
<1>3. i \in 1..(Len(asked.query) + Len(asked.form)) /\ i <= Len(list) <=> i \in 1..Len(list)
  <2>1. Len(asked.query) \in Nat /\ Len(asked.form) \in Nat
    BY <1>1
  <2>2. \A q, f \in Nat : /\ i \in 1..(q + f) /\ i <= q <=> i \in 1..q
                          /\ i \in 1..(q + f) /\ i <= f <=> i \in 1..f
    BY SMT
  <2> QED BY <1>2, <2>1, <2>2, Zenon
<1>4. <<n, part, i>> \in Sources(asked)
        <=> /\ n \in DOMAIN Variables /\ i \in 1..(Len(asked.query) + Len(asked.form))
            /\ i <= Len(list)
            /\ list[i].to = Variables[n]
            /\ ServerOf(list[i].value) # NoAffinity
  BY <1>2 DEF Sources
<1> QED BY <1>2, <1>3, <1>4 DEF Naming

\* What mg_find_sa_variable finds is what the request asks for: the server of the
\* first variable of the configuration that names one, in the query before the
\* form, and of its first value that does.
THEOREM VariablesDecide ==
    ASSUME NEW asked \in AskRecord
    PROVE  FindVariable(asked) = AskedByVariable(asked)
<1> DEFINE I == NamingVariables(asked)
           V == Variables[Min(I)]
           inQuery == Naming(asked.query, V)
           inForm == Naming(asked.form, V)
           part == IF inQuery # {} THEN 1 ELSE 2
           place == IF inQuery # {} THEN Min(inQuery) ELSE Min(inForm)
           first == <<Min(I), part, place>>
<1>1. /\ asked.query \in Seq(Assignment) /\ asked.form \in Seq(Assignment)
      /\ DOMAIN Variables = 1..Len(Variables) /\ Len(Variables) \in Nat
  BY ServerAffinityAssumption DEF AskRecord
\* A variable names a server in the query or in the form.
<1>2. \A n \in 1..Len(Variables) :
          n \in I <=> Naming(asked.query, Variables[n]) # {} \/ Naming(asked.form, Variables[n]) # {}
  BY <1>1, FirstNamedFound DEF NamingVariables, NamedBy
<1>3. \A s \in Sources(asked) :
          /\ s[1] \in I /\ s[2] \in {1, 2} /\ s = <<s[1], s[2], s[3]>>
          /\ s[3] \in Naming(IF s[2] = 1 THEN asked.query ELSE asked.form, Variables[s[1]])
  <2> SUFFICES ASSUME NEW s \in Sources(asked)
               PROVE  /\ s[1] \in I /\ s[2] \in {1, 2} /\ s = <<s[1], s[2], s[3]>>
                      /\ s[3] \in Naming(IF s[2] = 1 THEN asked.query ELSE asked.form, Variables[s[1]])
    OBVIOUS
  <2>1. s = <<s[1], s[2], s[3]>> /\ s[2] \in {1, 2} /\ s[1] \in DOMAIN Variables
    BY DEF Sources
  <2>2. s[3] \in Naming(Part(asked, s), Variables[s[1]])
    BY <2>1, SourcesNaming
  <2>3. Part(asked, s) = IF s[2] = 1 THEN asked.query ELSE asked.form
    BY DEF Part
  <2> QED BY <1>1, <1>2, <2>1, <2>2, <2>3
<1>4. CASE I = {}
  BY <1>3, <1>4, FindVariableFound DEF AskedByVariable
<1>5. CASE I # {}
  <2>1. /\ Min(I) \in I /\ Min(I) \in 1..Len(Variables) /\ \A n \in I : Min(I) <= n
        /\ FindVariable(asked) = NamedBy(asked, V)
    BY <1>5, FindVariableFound DEF NamingVariables
  <2>2. inQuery # {} => /\ Min(inQuery) \in inQuery /\ \A i \in inQuery : Min(inQuery) <= i
                        /\ NamedBy(asked, V) = ServerOf(asked.query[Min(inQuery)].value)
    BY <1>1, FirstNamedFound DEF NamedBy
  <2>3. inQuery = {} => /\ Min(inForm) \in inForm /\ \A i \in inForm : Min(inForm) <= i
                        /\ NamedBy(asked, V) = ServerOf(asked.form[Min(inForm)].value)
    BY <1>1, <1>2, <2>1, FirstNamedFound DEF NamedBy
  <2>4. Part(asked, first) = IF inQuery # {} THEN asked.query ELSE asked.form
    BY DEF Part
  <2>5. first \in Sources(asked)
    <3>1. place \in Naming(Part(asked, first), V)
      BY <2>2, <2>3, <2>4
    <3> QED BY <1>1, <2>1, <3>1, SourcesNaming
  <2>6. NamedBy(asked, V) = ServerOf(Part(asked, first)[first[3]].value)
    BY <2>2, <2>3, <2>4
  <2>7. \A t \in Sources(asked) \ {first} : Before(first, t)
    <3> SUFFICES ASSUME NEW t \in Sources(asked), t # first
                 PROVE  Before(first, t)
      OBVIOUS
    <3>1. t[1] \in I /\ t[2] \in {1, 2} /\ t = <<t[1], t[2], t[3]>>
      BY <1>3
    <3>2. t[1] \in Nat /\ Min(I) \in Nat /\ Min(I) <= t[1]
      BY <1>1, <2>1, <3>1 DEF NamingVariables
    <3>3. CASE Min(I) < t[1]
      BY <3>3 DEF Before
    <3>4. CASE Min(I) = t[1]
      <4>1. t[3] \in (IF t[2] = 1 THEN inQuery ELSE inForm) /\ t[3] \in Nat
        BY <1>1, <1>3, <3>1, <3>4, NamingPositions
      <4>2. part < t[2] \/ (part = t[2] /\ place <= t[3])
        BY <2>2, <2>3, <3>1, <4>1
      <4>3. place \in Nat
        BY <1>1, <2>2, <2>3, NamingPositions
      <4> QED BY <3>1, <3>4, <4>1, <4>2, <4>3 DEF Before
    <3> QED BY <3>2, <3>3, <3>4
  <2>8. \A s \in Sources(asked) : (\A t \in Sources(asked) \ {s} : Before(s, t)) => s = first
    <3> SUFFICES ASSUME NEW s \in Sources(asked), Before(s, first), s # first
                 PROVE  FALSE
      BY <2>5
    <3>1. Before(first, s)
      BY <2>7
    <3>2. s[1] \in Nat /\ s[2] \in Nat /\ s[3] \in Nat /\ first[1] \in Nat /\ first[2] \in Nat /\ first[3] \in Nat
      <4>1. \A t \in Sources(asked) : t[1] \in Nat /\ t[2] \in Nat /\ t[3] \in Nat
        BY <1>1 DEF Sources
      <4> QED BY <2>5, <4>1
    <3> QED BY <3>1, <3>2 DEF Before
  <2>9. first = CHOOSE s \in Sources(asked) : \A t \in Sources(asked) \ {s} : Before(s, t)
    BY <2>5, <2>7, <2>8
  <2> QED BY <2>1, <2>5, <2>6, <2>9 DEF AskedByVariable
<1> QED BY <1>4, <1>5

---------------------------------------------------------------------------
\* The n bytes of a content after the first a of them.
Window(a, n) == [i \in 1..n |-> a + i]

LEMMA WindowType ==
    ASSUME NEW a \in Nat, NEW n \in Nat
    PROVE  Window(a, n) \in Seq(Nat) /\ Len(Window(a, n)) = n
<1>1. \A i \in 1..n : a + i \in Nat
  OBVIOUS
<1> QED BY <1>1 DEF Window

LEMMA WindowNone == \A a : Window(a, 0) = <<>>
BY DEF Window

\* Windows that follow each other make one.
LEMMA WindowJoin ==
    ASSUME NEW a \in Nat, NEW m \in Nat, NEW n \in Nat
    PROVE  Window(a, m) \o Window(a + m, n) = Window(a, m + n)
<1> DEFINE one == Window(a, m)
           two == Window(a + m, n)
           both == Window(a, m + n)
<1>1. /\ one \in Seq(Nat) /\ Len(one) = m
      /\ two \in Seq(Nat) /\ Len(two) = n
      /\ both \in Seq(Nat) /\ Len(both) = m + n
  <2>1. a + m \in Nat /\ m + n \in Nat
    OBVIOUS
  <2> QED BY <2>1, WindowType
<1>2. /\ \A i \in 1..m : one[i] = a + i
      /\ \A i \in 1..n : two[i] = a + m + i
      /\ \A i \in 1..(m + n) : both[i] = a + i
  BY DEF Window
<1> HIDE DEF one, two, both
<1>3. /\ one \o two \in Seq(Nat) /\ Len(one \o two) = m + n
      /\ \A i \in 1..(m + n) : (one \o two)[i] = IF i <= m THEN one[i] ELSE two[i - m]
  BY <1>1, ConcatProperties
<1>4. ASSUME NEW i \in 1..(m + n) PROVE (one \o two)[i] = both[i]
  <2>1. both[i] = a + i
    BY <1>2
  <2>2. CASE i <= m
    <3>1. i \in 1..m
      BY <2>2
    <3>2. (one \o two)[i] = one[i]
      BY <1>3, <2>2
    <3> QED BY <1>2, <2>1, <3>1, <3>2
  <2>3. CASE ~(i <= m)
    <3>1. i - m \in 1..n /\ a + m + (i - m) = a + i
      BY <2>3
    <3>2. (one \o two)[i] = two[i - m]
      BY <1>3, <2>3
    <3>3. two[i - m] = a + m + (i - m)
      BY <1>2, <3>1
    <3> QED BY <2>1, <3>1, <3>2, <3>3
  <2> QED BY <2>2, <2>3
<1>5. one \o two = both
  <2> DEFINE joined == one \o two
  <2>1. joined \in Seq(Nat) /\ both \in Seq(Nat) /\ Len(joined) = Len(both)
    BY <1>1, <1>3
  <2>2. \A i \in 1..Len(joined) : joined[i] = both[i]
    BY <1>3, <1>4
  <2> HIDE DEF joined
  <2>3. joined = both
    BY <2>1, <2>2, SeqEqual
  <2> QED BY <2>3 DEF joined
<1> QED BY <1>5 DEF one, two, both

LEMMA WindowBegin ==
    ASSUME NEW a \in Nat, NEW n \in Nat, NEW k \in 0..n
    PROVE  SubSeq(Window(a, n), 1, k) = Window(a, k)
<1> DEFINE all == Window(a, n)
           some == Window(a, k)
<1>1. all \in Seq(Nat) /\ Len(all) = n /\ some \in Seq(Nat) /\ Len(some) = k
  BY WindowType
<1>2. (\A i \in 1..n : all[i] = a + i) /\ (\A i \in 1..k : some[i] = a + i)
  BY DEF Window
<1> HIDE DEF all, some
<1>3. /\ SubSeq(all, 1, k) \in Seq(Nat) /\ Len(SubSeq(all, 1, k)) = k
      /\ \A i \in 1..k : SubSeq(all, 1, k)[i] = all[i]
  <2>1. \A i \in 1..k : all[i] \in Nat
    BY <1>2
  <2> QED BY <2>1, SubSeqProperties
<1>4. SubSeq(all, 1, k) = some
  BY <1>1, <1>2, <1>3, SeqEqual
<1> QED BY <1>4 DEF all, some

---------------------------------------------------------------------------
(* The sizes, and what mg_client_read returns. *)

LEMMA Sizes ==
    /\ 1 \in Servers /\ Servers = 1..Len(Names) /\ Len(Names) \in Nat
    /\ BlockSize \in Nat \ {0} /\ BlockSize <= MaxString[1]
    /\ BoundaryLen \in Nat /\ BoundaryLen <= BlockSize
<1>1. Servers = 1..Len(Names) /\ Len(Names) \in Nat /\ 1 \in Servers
  BY ServerAffinityAssumption DEF Servers
<1>2. MaxString[1] \in Nat \ {0} /\ Alloc \in Nat \ {0}
  BY <1>1, UploadAssumption
<1>3. BlockSize \in Nat \ {0} /\ BlockSize <= MaxString[1]
  BY <1>2 DEF BlockSize, Least
<1> QED BY <1>1, <1>3, UploadAssumption

LEMMA GotType ==
    ASSUME TypeOK, NEW n \in Nat
    PROVE  Got(n) \in 0..n /\ taken + Got(n) \in 0..arrived /\ arrived \in Nat /\ taken \in Nat
<1>1. body.len \in Nat
  BY RequestIntakeAssumption DEF TypeOK, BodyRecord
<1>2. arrived \in Nat /\ taken \in Nat /\ taken <= arrived
  BY <1>1 DEF TypeOK
<1> QED BY <1>2 DEF Got, Least

LEMMA BytesRead ==
    ASSUME TypeOK, NEW n \in Nat
    PROVE  /\ Bytes(n) = Window(taken, Got(n))
           /\ Bytes(n) \in Seq(Nat) /\ Len(Bytes(n)) = Got(n)
<1>1. Got(n) \in Nat /\ taken \in Nat
  BY GotType
<1>2. Bytes(n) = Window(taken, Got(n))
  BY DEF Bytes, Window
<1> QED BY <1>1, <1>2, WindowType

\* A block that is filled has the length asked for, and nothing but the content
\* when that was there.
LEMMA BlockFilled ==
    ASSUME TypeOK, NEW n \in Nat
    PROVE  /\ Filled(n) \in Seq(Nat) /\ Len(Filled(n)) = n
           /\ Got(n) = n => Filled(n) = Window(taken, n)
<1> DEFINE rest == Stale(n - Got(n))
<1>1. Got(n) \in 0..n /\ Bytes(n) = Window(taken, Got(n)) /\ Bytes(n) \in Seq(Nat) /\ Len(Bytes(n)) = Got(n)
  BY GotType, BytesRead
<1>2. rest \in Seq(Nat) /\ Len(rest) = n - Got(n)
  <2>1. n - Got(n) \in Nat
    BY <1>1
  <2> QED BY <2>1 DEF Stale
<1>3. Filled(n) \in Seq(Nat) /\ Len(Filled(n)) = n
  <2> HIDE DEF rest
  <2>1. Bytes(n) \o rest \in Seq(Nat) /\ Len(Bytes(n) \o rest) = Len(Bytes(n)) + Len(rest)
    BY <1>1, <1>2, ConcatProperties, Zenon
  <2> QED BY <1>1, <1>2, <2>1 DEF Filled, rest
<1>4. ASSUME Got(n) = n
      PROVE  Filled(n) = Window(taken, n)
  <2>1. rest = <<>>
    BY <1>4 DEF Stale
  <2> QED BY <1>1, <1>4, <2>1, ConcatEmptySeq DEF Filled
<1> QED BY <1>3, <1>4

LEMMA StatusRead ==
    ASSUME TypeOK, NEW n \in Nat
    PROVE  /\ StatusAfter(n) \in {"more", "end", "error"}
           /\ Got(n) = n => StatusAfter(n) = status
           /\ Got(n) # n /\ ~gone => StatusAfter(n) = "end"
<1>1. adapter \in {"nginx", "apache", "iis"} /\ status \in {"more", "end", "error"}
  BY RequestIntakeAssumption DEF TypeOK
<1>2. /\ NginxEnd = "end" /\ ApacheEnd \in {"more", "end", "error"} /\ IisEnd \in {"more", "end", "error"}
      /\ ~gone => ApacheEnd = "end" /\ IisEnd = "end"
  BY <1>1 DEF NginxEnd, ApacheEnd, IisEnd
<1>3. CASE Got(n) = n
  BY <1>1, <1>3 DEF StatusAfter
<1>4. CASE Got(n) # n
  <2>1. StatusAfter(n) = CASE adapter = "nginx" -> NginxEnd [] adapter = "apache" -> ApacheEnd
                           [] adapter = "iis" -> IisEnd
    BY <1>4 DEF StatusAfter
  <2> QED BY <1>1, <1>2, <1>4, <2>1
<1> QED BY <1>3, <1>4

---------------------------------------------------------------------------
(* Types. *)

DbRecord == [head : BOOLEAN, got : Seq(Nat), eod : BOOLEAN, bad : BOOLEAN]

LEMMA DbTypes ==
    /\ Nothing \in DbRecord /\ Request \in DbRecord
    /\ \A d \in DbRecord, n \in Nat, bytes \in Seq(Nat) : Takes(d, n, bytes) \in DbRecord
    /\ \A d \in DbRecord : TakesEnd(d) \in DbRecord
<1>1. <<>> \in Seq(Nat)
  BY EmptySeq
<1>2. \A d \in DbRecord, bytes \in Seq(Nat) : d.got \o bytes \in Seq(Nat)
  BY ConcatProperties DEF DbRecord
<1>3. Nothing \in DbRecord /\ Request \in DbRecord
  BY <1>1 DEF Nothing, Request, DbRecord
<1>4. \A d \in DbRecord, n \in Nat, bytes \in Seq(Nat) : Takes(d, n, bytes) \in DbRecord
  BY <1>2 DEF Takes, DbRecord
<1>5. \A d \in DbRecord : TakesEnd(d) \in DbRecord
  BY DEF TakesEnd, DbRecord
<1> QED BY <1>3, <1>4, <1>5

\* The part of the content that goes out is the block, or its beginning.
LEMMA OutgoingType ==
    ASSUME TypeOK
    PROVE  /\ Len(content) \in Nat /\ Held \in 0..Len(content)
           /\ Outgoing \in Seq(Nat) /\ Len(Outgoing) = Len(content) - Held
           /\ Held = 0 => Outgoing = content
<1>1. Len(content) \in Nat /\ content \in Seq(Nat) /\ \A i \in 1..Len(content) : content[i] \in Nat
  BY DEF TypeOK
<1>2. body.partial \in Nat
  BY RequestIntakeAssumption DEF TypeOK, BodyRecord
<1>3. Held \in 0..Len(content)
  BY <1>1, <1>2 DEF Held, Least
<1>4. Outgoing \in Seq(Nat) /\ Len(Outgoing) = Len(content) - Held
  <2>1. \A i \in 1..(Len(content) - Held) : content[i] \in Nat
    BY <1>1, <1>3
  <2>2. Len(content) - Held \in Nat
    BY <1>1, <1>3
  <2> QED BY <2>1, <2>2, SubSeqProperties DEF Outgoing
<1>5. Held = 0 => Outgoing = content
  <2>1. Held = 0 => Len(content) - Held = Len(content)
    BY <1>1
  <2> QED BY <1>1, <2>1, SubSeqFull DEF Outgoing
<1> QED BY <1>1, <1>3, <1>4, <1>5

LEMMA InitTypes == Init => TypeOK
<1> SUFFICES ASSUME Init PROVE TypeOK
  OBVIOUS
<1> USE DEF Init, InitIntake
<1>1. content \in Seq(Nat) /\ db \in [head : BOOLEAN, got : Seq(Nat), eod : BOOLEAN, bad : BOOLEAN]
  BY DbTypes, EmptySeq DEF DbRecord
<1>2. adapter \in Adapters /\ body \in Bodies /\ script \in Scripts /\ arrived \in 0..body.len
  <2>1. body \in Bodies /\ body.len \in Nat
    BY RequestIntakeAssumption DEF BodyRecord
  <2> QED BY <2>1
<1>3. /\ stage \in Stages /\ complete \in BOOLEAN
      /\ reply \in {"none", "declined", "error", "admin", "answer"}
  BY DEF Stages
<1>4. taken \in 0..arrived
  <2>1. arrived \in Nat /\ taken = 0
    BY <1>2, RequestIntakeAssumption DEF BodyRecord
  <2> QED BY <2>1
<1> QED BY <1>1, <1>2, <1>3, <1>4 DEF TypeOK

\* The steps of the adapters.
LEMMA IntakeTypes ==
    ASSUME TypeOK, (Arrival \/ Eventing) /\ UNCHANGED <<routing, sending>>
    PROVE  TypeOK'
<1> USE DEF TypeOK, routing, sending, reading, block, request, Stages
<1>1. /\ UNCHANGED <<adapter, body, script, arrived>>
      /\ stage' \in Stages /\ complete' \in BOOLEAN
      /\ reply' \in {"none", "declined", "error", "admin", "answer"}
  <2>1. CASE Arrival
    BY <2>1 DEF Arrival, Decline, NoMemory, Accept, Unconfigured, AdminPage, Prepared, BackToAdapter, Reply
  <2>2. CASE Eventing
    BY <2>2 DEF Eventing, ContentThere, ContentLater, ContentCompletes, ContentNever, PayloadHandler, Reply
  <2> QED BY <2>1, <2>2
<1> QED BY <1>1

LEMMA ReadTypes ==
    ASSUME TypeOK, NoContent \/ ReadInline \/ ReadFirst \/ ReadFirstChunked
    PROVE  TypeOK'
<1> USE DEF TypeOK, routing, reading, block, request, intake
<1>1. CASE NoContent
  BY <1>1 DEF NoContent
<1>2. body.len \in Nat /\ BlockSize \in Nat
  BY RequestIntakeAssumption, Sizes DEF BodyRecord
<1>3. \A n \in Nat : ClientRead(n) => taken' \in 0..arrived /\ status' \in {"more", "end", "error"}
  BY GotType, StatusRead DEF ClientRead
<1>4. CASE ReadInline
  BY <1>2, <1>3, <1>4, BlockFilled DEF ReadInline
<1>5. CASE ReadFirst
  BY <1>2, <1>3, <1>5, BlockFilled DEF ReadFirst
<1>6. CASE ReadFirstChunked
  BY <1>2, <1>3, <1>6, BytesRead, GotType DEF ReadFirstChunked
<1> QED BY <1>1, <1>4, <1>5, <1>6

LEMMA FirstBlockType ==
    ASSUME NEW form \in Seq(Assignment)
    PROVE  InFirstBlock(form, FormFits) \in Seq(Assignment)
<1> DEFINE k == IF FormFits < Len(form) THEN FormFits + 1 ELSE Len(form)
           some == InFirstBlock(form, FormFits)
           part(i) == IF i <= FormFits THEN form[i] ELSE [form[i] EXCEPT !.value = form[i].cut]
<1>1. k \in Nat /\ k <= Len(form)
  BY UploadAssumption
<1>2. \A i \in 1..k : form[i] \in Assignment
  BY <1>1, ElementOfSeq
<1>3. \A i \in 1..k : part(i) \in Assignment
  BY <1>2 DEF Assignment
<1>4. some = [i \in 1..k |-> part(i)]
  BY DEF InFirstBlock
<1> HIDE DEF k, some, part
<1>5. some \in [1..k -> Assignment]
  BY <1>3, <1>4
<1> QED BY <1>1, <1>5, SeqDef DEF some

LEMMA FindTypes ==
    ASSUME TypeOK, FindServer \/ Obtain \/ NoThread \/ Finish
    PROVE  TypeOK'
<1> USE DEF TypeOK, routing, reading, block, request, intake, sending
<1>1. CASE FindServer
  <2> DEFINE seen == [ask' EXCEPT !.form = FormSeen(ask')]
  <2>1. ask' \in Asks /\ ask' \in AskRecord /\ order' \in {"none", "variable", "cookie"} /\ order' \in Orders
    BY <1>1, UploadAssumption DEF FindServer
  <2>2. seen \in AskRecord
    <3>1. FormSeen(ask') \in Seq(Assignment)
      <4>1. ask'.form \in Seq(Assignment)
        BY <2>1 DEF AskRecord
      <4>2. <<>> \in Seq(Assignment)
        BY EmptySeq
      <4> QED BY <4>1, <4>2, FirstBlockType DEF FormSeen
    <3> QED BY <2>1, <3>1 DEF AskRecord
  <2>3. PreferredServer(order', seen) \in 0..Len(Names)
    BY <2>1, <2>2, PreferredServerType
  <2>4. choice' \in Servers \cup {NoAffinity}
    BY <1>1, <2>3, Sizes DEF FindServer, NoAffinity
  <2> QED BY <1>1, <2>1, <2>4 DEF FindServer
<1>2. CASE Obtain
  BY <1>2 DEF Obtain
<1>3. CASE NoThread
  BY <1>3 DEF NoThread, Strand, Stages
<1>4. CASE Finish
  BY <1>4 DEF Finish, Serve, Reply, Stages
<1> QED BY <1>1, <1>2, <1>3, <1>4

\* What changes the DB Server or the block only where the types are plain.
LEMMA SendTypes ==
    ASSUME TypeOK, Send \/ SendFails \/ Prepare \/ Call
    PROVE  TypeOK'
<1> USE DEF TypeOK, routing, reading, block, request, intake
<1>1. Arrives \in DbRecord
  BY DbTypes DEF Arrives, Nothing, DbRecord
<1>2. CASE Send
  BY <1>1, <1>2 DEF Send, DbRecord
<1>3. CASE SendFails
  BY <1>3, DbTypes DEF SendFails, DbRecord
<1>4. CASE Prepare
  BY <1>4 DEF Prepare
<1>5. CASE Call
  <2>1. [db EXCEPT !.head = TRUE] \in DbRecord
    BY DEF DbRecord
  <2>2. Takes([db EXCEPT !.head = TRUE], announced, content) \in DbRecord
    BY <2>1, DbTypes
  <2>3. db' \in DbRecord
    BY <1>5, <2>1, <2>2 DEF Call
  <2> QED BY <1>5, <2>3 DEF Call, DbRecord
<1> QED BY <1>2, <1>3, <1>4, <1>5

LEMMA BlockTypes ==
    ASSUME TypeOK, WriteBlock \/ WriteBlockFails \/ Refill \/ RefillChunked
    PROVE  TypeOK'
<1> USE DEF TypeOK, routing, reading, block, request, intake
<1>1. CASE WriteBlock
  <2>1. announced' \in Nat
    BY <1>1, OutgoingType DEF WriteBlock
  <2>2. db' \in DbRecord
    BY <1>1, <2>1, OutgoingType, DbTypes DEF WriteBlock, DbRecord
  <2>3. pc' \in {"refill", "end", "call"}
    BY <1>1 DEF WriteBlock, AfterLast
  <2> QED BY <1>1, <2>1, <2>2, <2>3 DEF WriteBlock, DbRecord
<1>2. CASE WriteBlockFails
  BY <1>2 DEF WriteBlockFails
<1>3. \A n \in Nat : ClientRead(n) => taken' \in 0..arrived /\ status' \in {"more", "end", "error"}
  BY GotType, StatusRead DEF ClientRead
<1>4. RefillLength \in Nat /\ remaining - RefillLength \in Nat
  BY Sizes DEF RefillLength, Least
<1>5. CASE Refill
  BY <1>3, <1>4, <1>5, BlockFilled DEF Refill
<1>6. CASE RefillChunked
  BY <1>3, <1>6, Sizes, BytesRead, GotType DEF RefillChunked
<1> QED BY <1>1, <1>2, <1>5, <1>6

LEMMA EndTypes ==
    ASSUME TypeOK, WriteEnd \/ Answer \/ Timeout \/ ReadFails
    PROVE  TypeOK'
<1> DEFINE stages == {"read", "launch", "find", "send", "copy", "refill", "end", "call", "await", "done", "failed"}
           others == <<adapter, body, script, arrived, stage, complete, reply, link, server, ask, order,
                       choice, taken, status, long, content, announced, remaining>>
\* What these steps leave alone, and what they write.
<1>1. ASSUME UNCHANGED others, pc' \in stages, intact' \in BOOLEAN, resent' \in BOOLEAN, db' \in DbRecord
      PROVE  TypeOK'
  BY <1>1 DEF TypeOK, DbRecord
<1>2. db \in DbRecord /\ intact \in BOOLEAN /\ resent \in BOOLEAN
  BY DEF TypeOK, DbRecord
<1>3. CASE WriteEnd
  <2>1. db' \in DbRecord
    BY <1>2, <1>3, DbTypes DEF WriteEnd
  <2>2. pc' \in stages /\ intact' \in BOOLEAN /\ resent' \in BOOLEAN
    BY <1>2, <1>3 DEF WriteEnd
  <2>3. UNCHANGED others
    BY <1>3 DEF WriteEnd, routing, reading, block, request, intake
  <2> HIDE DEF others, stages
  <2> QED BY <1>1, <2>1, <2>2, <2>3
<1>4. CASE Answer
  BY <1>4 DEF Answer, TypeOK, routing, reading, block, request, intake
<1>5. CASE Timeout
  BY <1>5 DEF Timeout, TypeOK, routing, reading, block, request, intake
<1>6. CASE ReadFails
  <2>1. db' \in DbRecord
    BY <1>2, <1>6, DbTypes DEF ReadFails
  <2>2. pc' \in stages /\ intact' \in BOOLEAN /\ resent' \in BOOLEAN
    BY <1>2, <1>6 DEF ReadFails
  <2>3. UNCHANGED others
    BY <1>6 DEF ReadFails, routing, reading, block, request, intake
  <2> HIDE DEF others, stages
  <2> QED BY <1>1, <2>1, <2>2, <2>3
<1> QED BY <1>3, <1>4, <1>5, <1>6

LEMMA StepTypes == TypeOK /\ [Next]_vars => TypeOK'
<1> SUFFICES ASSUME TypeOK, [Next]_vars PROVE TypeOK'
  OBVIOUS
<1>1. CASE UNCHANGED vars
  BY <1>1 DEF TypeOK, vars, routing, reading, block, request, intake
<1>2. CASE Next
  BY <1>2, IntakeTypes, FindTypes, ReadTypes, SendTypes, BlockTypes, EndTypes DEF Next
<1> QED BY <1>1, <1>2

\* The variables of a request on its way have their types, with every content and
\* every size.
THEOREM TypeCorrect == Spec => []TypeOK
<1> QED BY InitTypes, StepTypes, PTL DEF Spec

---------------------------------------------------------------------------
(* The frames.  What the DB Server makes of the next block depends on what *)
(* the buffer begins with and on the way the thread has come.              *)

\* The head of the block is the block's, until the end of it is held back.
HeadAgrees ==
    pc \in {"launch", "find"} \/ ~long \/ (pc = "send" /\ intact) \/ (pc = "copy" /\ ~db.bad)
        => announced = Len(content)

\* The request is overwritten only when it is long, and sent again after that.
Overwritten == ~intact => long /\ pc \notin {"read", "launch", "find"} /\ (pc = "send" => resent)

\* Which way a request goes.
Way ==
    /\ pc = "read" => ~long
    /\ pc \notin {"read", "launch", "find"} => link \in Links /\ server \in Servers
    /\ pc \in {"copy", "refill", "end"} => long
    /\ pc \in {"end", "await"} => link = "tcp"
    /\ pc = "call" => link = "api"
    /\ link = "api" => intact
    /\ pc = "await" /\ long => ~intact

\* What the DB Server has had.
Received ==
    /\ pc \in {"read", "launch", "find", "send"} => db = Nothing
    /\ pc \in {"copy", "refill", "end", "await"} /\ link = "tcp" /\ ~db.bad => db.head
    /\ pc \in {"copy", "refill", "end"} /\ ~db.bad => ~db.eod

FrameInv ==
    /\ TypeOK /\ HeadAgrees /\ Overwritten /\ Way /\ Received /\ FramesMatch
    /\ Len(content) <= BlockSize

LEMMA FrameInit == Init => FrameInv
<1> SUFFICES ASSUME Init PROVE FrameInv
  OBVIOUS
<1>1. TypeOK
  BY InitTypes
<1>2. Len(content) = 0 /\ Len(content) <= BlockSize
  <2>1. content = <<>>
    BY DEF Init
  <2> QED BY <2>1, EmptySeq, Sizes
<1>3. HeadAgrees /\ Overwritten /\ Way /\ Received /\ FramesMatch
  BY <1>2 DEF Init, HeadAgrees, Overwritten, Way, Received, FramesMatch, Nothing
<1> QED BY <1>1, <1>2, <1>3 DEF FrameInv

\* The steps that only read.
LEMMA ReadFrames ==
    ASSUME FrameInv, TypeOK', NoContent \/ ReadInline \/ ReadFirst \/ ReadFirstChunked
    PROVE  FrameInv'
<1> USE DEF FrameInv, HeadAgrees, Overwritten, Way, Received, FramesMatch, routing, reading, request, intake, block
<1>1. TypeOK /\ BlockSize \in Nat /\ body.len \in Nat
  BY Sizes, RequestIntakeAssumption DEF TypeOK, BodyRecord
<1> HIDE DEF TypeOK
<1>2. CASE NoContent
  BY <1>1, <1>2, EmptySeq DEF NoContent, Nothing
<1>3. CASE ReadInline
  <2>1. Len(Filled(body.len)) = body.len
    BY <1>1, BlockFilled
  <2> QED BY <1>1, <1>3, <2>1 DEF ReadInline, Nothing
<1>4. CASE ReadFirst
  <2>1. Len(Filled(BlockSize)) = BlockSize
    BY <1>1, BlockFilled
  <2> QED BY <1>1, <1>4, <2>1 DEF ReadFirst, Nothing
<1>5. CASE ReadFirstChunked
  <2>1. Len(Bytes(BlockSize)) = Got(BlockSize) /\ Got(BlockSize) \in 0..BlockSize
    BY <1>1, BytesRead, GotType
  <2> QED BY <1>1, <1>5, <2>1 DEF ReadFirstChunked, Nothing
<1> QED BY <1>2, <1>3, <1>4, <1>5

LEMMA FindFrames ==
    ASSUME FrameInv, TypeOK',
           \/ (Arrival \/ Eventing) /\ UNCHANGED <<routing, sending>>
           \/ FindServer \/ Obtain \/ NoThread \/ Finish
    PROVE  FrameInv'
<1> USE DEF FrameInv, HeadAgrees, Overwritten, Way, Received, FramesMatch, routing, reading, request, intake, block, sending
<1>1. TypeOK
  OBVIOUS
<1> HIDE DEF TypeOK
<1>2. CASE (Arrival \/ Eventing) /\ UNCHANGED <<routing, sending>>
  BY <1>2
<1>3. CASE FindServer
  BY <1>3 DEF FindServer
<1>4. CASE Obtain
  BY <1>4 DEF Obtain
<1>5. CASE NoThread
  BY <1>5 DEF NoThread
<1>6. CASE Finish
  BY <1>6 DEF Finish
<1> QED BY <1>2, <1>3, <1>4, <1>5, <1>6

\* The request is received as it should be, unless its beginning is gone.
LEMMA ArrivesWell ==
    ASSUME FrameInv, pc = "send", link = "tcp"
    PROVE  /\ intact => ~Arrives.bad
           /\ ~Arrives.bad => Arrives.head /\ ~Arrives.eod
           /\ ~intact => Arrives.bad /\ long /\ resent
<1>1. ~intact => Arrives.bad
  BY DEF Arrives, Nothing
<1>2. Request.head /\ ~Request.bad /\ ~Request.eod
  BY DEF Request, Nothing
<1>3. CASE intact /\ (long \/ body.how = "none")
  BY <1>2, <1>3 DEF Arrives
<1>4. CASE intact /\ ~long /\ body.how # "none"
  <2>1. announced = Len(content)
    BY <1>4 DEF FrameInv, HeadAgrees
  <2>2. Arrives = [Request EXCEPT !.got = @ \o content]
    BY <1>2, <1>4, <2>1 DEF Arrives, Takes
  <2> QED BY <1>2, <1>4, <2>2 DEF Request, Nothing
<1> QED BY <1>1, <1>3, <1>4 DEF FrameInv, Overwritten

LEMMA SendFrames ==
    ASSUME FrameInv, TypeOK', Send \/ SendFails \/ Prepare \/ Call
    PROVE  FrameInv'
<1> USE DEF FrameInv, HeadAgrees, Overwritten, Way, Received, FramesMatch, routing, reading, request, intake, block
<1>1. TypeOK
  OBVIOUS
<1> HIDE DEF TypeOK
<1>2. CASE Send
  <2>1. /\ intact => ~Arrives.bad
        /\ ~Arrives.bad => Arrives.head /\ ~Arrives.eod
        /\ ~intact => Arrives.bad /\ long /\ resent
    BY <1>2, ArrivesWell DEF Send
  <2>2. /\ pc = "send" /\ link = "tcp" /\ db' = Arrives /\ pc' = IF long THEN "copy" ELSE "await"
        /\ UNCHANGED <<link, server, long, content, announced, intact, resent>>
    BY <1>2 DEF Send
  <2> QED BY <2>1, <2>2
<1>3. CASE SendFails
  BY <1>3 DEF SendFails, Nothing
<1>4. CASE Prepare
  BY <1>4 DEF Prepare, Nothing
<1>5. CASE Call
  <2>1. link = "api" /\ db'.bad = db.bad
    BY <1>1, <1>5 DEF Call, Takes, TypeOK
  <2> QED BY <1>5, <2>1 DEF Call
<1> QED BY <1>2, <1>3, <1>4, <1>5

LEMMA BlockFrames ==
    ASSUME FrameInv, TypeOK', WriteBlock \/ WriteBlockFails \/ Refill \/ RefillChunked
    PROVE  FrameInv'
<1> USE DEF FrameInv, HeadAgrees, Overwritten, Way, Received, FramesMatch, routing, reading, request, intake, block
<1>1. TypeOK /\ BlockSize \in Nat
  BY Sizes
<1> HIDE DEF TypeOK
<1>2. CASE WriteBlock
  <2>1. announced' = Len(Outgoing) \/ db.bad
    BY <1>1, <1>2, OutgoingType DEF WriteBlock
  <2>2. db' = Takes(db, announced', Outgoing) /\ pc = "copy" /\ pc' \in {"refill", AfterLast}
    BY <1>2 DEF WriteBlock
  <2>3. db'.bad = db.bad /\ db'.head = db.head /\ db'.eod = db.eod
    BY <1>1, <2>1, <2>2 DEF Takes, TypeOK
  <2>4. pc' = "end" => link = "tcp"
    BY <2>2 DEF AfterLast
  <2>5. pc' = "call" => link = "api"
    BY <2>2, UploadAssumption DEF AfterLast
  <2>6. pc' \in {"refill", "end", "call"} /\ UNCHANGED <<link, server, long, content, intact, resent>>
    BY <1>2 DEF WriteBlock, AfterLast
  <2> QED BY <2>2, <2>3, <2>4, <2>5, <2>6
<1>3. CASE WriteBlockFails
  BY <1>3 DEF WriteBlockFails
<1>4. CASE Refill
  <2>1. RefillLength \in Nat /\ RefillLength <= BlockSize
    BY <1>1 DEF RefillLength, Least, TypeOK
  <2>2. Len(Filled(RefillLength)) = RefillLength
    BY <1>1, <2>1, BlockFilled
  <2> QED BY <1>1, <1>4, <2>1, <2>2 DEF Refill
<1>5. CASE RefillChunked
  <2>1. Len(Bytes(BlockSize)) = Got(BlockSize) /\ Got(BlockSize) \in 0..BlockSize
    BY <1>1, BytesRead, GotType
  <2> QED BY <1>1, <1>5, <2>1 DEF RefillChunked
<1> QED BY <1>2, <1>3, <1>4, <1>5

LEMMA EndFrames ==
    ASSUME FrameInv, TypeOK', WriteEnd \/ Answer \/ Timeout \/ ReadFails
    PROVE  FrameInv'
<1> USE DEF FrameInv, HeadAgrees, Overwritten, Way, Received, FramesMatch, routing, reading, request, intake, block
<1>1. TypeOK
  OBVIOUS
<1> HIDE DEF TypeOK
<1>2. CASE WriteEnd
  <2>1. db'.bad = db.bad /\ db'.head = db.head
    BY <1>1, <1>2 DEF WriteEnd, TakesEnd, TypeOK
  <2> QED BY <1>2, <2>1 DEF WriteEnd
<1>3. CASE Answer
  BY <1>3 DEF Answer
<1>4. CASE Timeout
  BY <1>4 DEF Timeout
<1>5. CASE ReadFails
  BY <1>5 DEF ReadFails, Nothing
<1> QED BY <1>2, <1>3, <1>4, <1>5

LEMMA FrameStep == FrameInv /\ [Next]_vars => FrameInv'
<1> SUFFICES ASSUME FrameInv, [Next]_vars PROVE FrameInv'
  OBVIOUS
<1>1. TypeOK'
  BY StepTypes DEF FrameInv
<1>2. CASE UNCHANGED vars
  BY <1>1, <1>2 DEF FrameInv, HeadAgrees, Overwritten, Way, Received, FramesMatch, vars, routing, reading, block
<1>3. CASE Next
  BY <1>1, <1>3, FindFrames, ReadFrames, SendFrames, BlockFrames, EndFrames DEF Next
<1> QED BY <1>2, <1>3

\* Whatever the content and the sizes, and whatever fails: a block is as long as
\* its head says and comes in its place.  Only a long request that is sent again
\* can be garbled.
THEOREM FramesAlwaysMatch == Spec => []FramesMatch
<1>1. FrameInv => FramesMatch
  BY DEF FrameInv
<1> QED BY <1>1, FrameInit, FrameStep, PTL DEF Spec

LEMMA FrameInvariant == Spec => []FrameInv
<1> QED BY FrameInit, FrameStep, PTL DEF Spec

\* Where no server takes shorter strings than the first one of the path, no
\* server is sent a block that is too long for it.
THEOREM BlocksAlwaysFit ==
    ASSUME \A s \in Servers : MaxString[1] <= MaxString[s]
    PROVE  Spec => []BlocksFit
<1>1. FrameInv => BlocksFit
  <2> SUFFICES ASSUME FrameInv, pc \in {"copy", "end"} PROVE Len(content) <= MaxString[server]
    BY DEF BlocksFit
  <2>1. server \in Servers /\ Len(content) <= BlockSize
    BY DEF FrameInv, Way
  <2>2. MaxString[1] <= MaxString[server] /\ BlockSize <= MaxString[1] /\ 1 \in Servers
    BY <2>1, Sizes
  <2>3. MaxString[1] \in Nat /\ MaxString[server] \in Nat /\ BlockSize \in Nat
    BY <2>1, <2>2, UploadAssumption, Sizes
  <2>4. Len(content) \in Nat
    BY OutgoingType DEF FrameInv
  <2> QED BY <2>1, <2>2, <2>3, <2>4
<1> QED BY <1>1, FrameInvariant, PTL

---------------------------------------------------------------------------
(* The content, of a client that stays. *)

\* The block is the part of the content read last, and at first it is nothing.
BlockIsPart ==
    /\ pc = "read" => taken = 0 /\ content = <<>> /\ status = "more"
    /\ Len(content) <= taken /\ content = Window(taken - Len(content), Len(content))

\* How far the reading is.
Progress ==
    /\ pc # "read" /\ ~long => taken = body.len /\ Len(content) = body.len
    /\ long /\ body.how = "length" => taken + remaining = body.len
    /\ body.how = "chunked" /\ pc # "read" =>
           /\ long /\ status \in {"more", "end"}
           /\ status = "more" => Len(content) = BlockSize
           /\ status = "end" => taken = body.len
    /\ long => body.how # "none"
    /\ long /\ pc \in {"end", "call", "await", "done"} => taken = body.len

\* What the DB Server has of it.
Delivered ==
    ~db.bad =>
        /\ pc \in {"launch", "find"} \/ (pc = "send" /\ intact) => taken = Len(content)
        /\ pc = "copy" => db.got = Window(0, taken - Len(content))
        /\ pc = "refill" => db.got = Window(0, taken)
        /\ pc \in {"end", "await", "done"} \/ (pc = "call" /\ long)
               => db.got = Window(0, taken - (IF long THEN Held ELSE 0))
        /\ pc = "call" /\ ~long => db.got = <<>>

InOrder == ~db.bad => \E k \in 0..taken : db.got = Window(0, k)

\* When there is an answer.
Replied ==
    /\ reply = "answer" => pc = "done"
    /\ pc = "done" \/ link = "api" => ~db.bad

ContentInv ==
    /\ FrameInv /\ Replied
    /\ ~gone => BlockIsPart /\ Progress /\ Delivered /\ InOrder

LEMMA BodyFacts ==
    ASSUME TypeOK
    PROVE  /\ body.len \in Nat /\ body.partial \in Nat /\ body.how \in {"none", "length", "chunked"}
           /\ body.how = "none" => body.len = 0
           /\ arrived \in Nat /\ taken \in Nat /\ taken <= arrived /\ arrived <= body.len
           /\ ~gone => arrived = body.len
<1>1. body \in Bodies /\ body \in BodyRecord
  BY RequestIntakeAssumption DEF TypeOK
<1>2. body.len \in Nat /\ arrived \in 0..body.len /\ taken \in 0..arrived
  BY <1>1 DEF TypeOK, BodyRecord
<1>3. ~gone => arrived = body.len
  BY <1>2 DEF gone
<1> QED BY <1>1, <1>2, <1>3, RequestIntakeAssumption DEF BodyRecord

\* A part of the content that ends at a place.
LEMMA PartEnds ==
    ASSUME NEW a \in Nat, NEW n \in Nat, NEW bytes, bytes = Window(a, n), NEW place, place = a + n
    PROVE  Len(bytes) = n /\ n <= place /\ bytes = Window(place - Len(bytes), Len(bytes))
<1>1. Len(bytes) = n
  BY WindowType
<1>2. place - n = a /\ n <= place
  OBVIOUS
<1> QED BY <1>1, <1>2

\* A read from a client that stays returns the next part of the content.
LEMMA NextPart ==
    ASSUME TypeOK, ~gone, NEW n \in Nat, ClientRead(n)
    PROVE  /\ Got(n) \in 0..n /\ taken' = taken + Got(n) /\ taken' \in 0..body.len
           /\ taken + n <= body.len => Got(n) = n
           /\ Got(n) # n => taken' = body.len /\ status' = "end"
           /\ Got(n) = n => status' = status
           /\ Bytes(n) = Window(taken, Got(n))
           /\ Len(Bytes(n)) = Got(n)
<1>1. taken \in Nat /\ body.len \in Nat /\ arrived = body.len /\ taken <= arrived
  BY BodyFacts
<1>2. Got(n) = Least(n, body.len - taken) /\ taken' = taken + Got(n)
  BY <1>1 DEF Got, ClientRead
<1>3. /\ Got(n) \in 0..n /\ taken' \in 0..body.len
      /\ taken + n <= body.len => Got(n) = n
      /\ Got(n) # n => taken' = body.len
  BY <1>1, <1>2 DEF Least
<1>4. status' = StatusAfter(n)
  BY DEF ClientRead
<1> QED BY <1>2, <1>3, <1>4, StatusRead, BytesRead

LEMMA ContentInit == Init => ContentInv
<1> SUFFICES ASSUME Init PROVE ContentInv
  OBVIOUS
<1>1. FrameInv
  BY FrameInit
<1>2. content = <<>> /\ Len(content) = 0 /\ taken = 0 /\ db = Nothing /\ pc = "read" /\ ~long
  BY EmptySeq DEF Init
<1>3. Window(0, 0) = <<>>
  BY WindowNone
<1>4. BlockIsPart
  <2>1. content = Window(0, 0) /\ taken = 0 + 0
    BY <1>2, <1>3
  <2>2. Len(content) <= taken /\ content = Window(taken - Len(content), Len(content))
    BY <2>1, PartEnds
  <2> QED BY <1>2, <2>2 DEF BlockIsPart, Init
<1>5. InOrder
  BY <1>2, <1>3 DEF InOrder, Nothing
<1>6. Progress /\ Delivered /\ Replied
  BY <1>2 DEF Progress, Delivered, Replied, Init, InitIntake, Nothing
<1> QED BY <1>1, <1>4, <1>5, <1>6 DEF ContentInv

\* Until the thread fails, the order follows from where it is.
LEMMA OrderHere == FrameInv /\ BlockIsPart /\ Delivered /\ pc # "failed" => InOrder
<1> SUFFICES ASSUME FrameInv, BlockIsPart, Delivered, pc # "failed", ~db.bad
             PROVE  \E k \in 0..taken : db.got = Window(0, k)
  BY DEF InOrder
<1>1. taken \in Nat /\ Len(content) \in Nat /\ Held \in 0..Len(content) /\ Len(content) <= taken
  BY BodyFacts, OutgoingType DEF FrameInv, BlockIsPart
<1>2. taken - Len(content) \in 0..taken /\ taken \in 0..taken /\ taken - Held \in 0..taken /\ 0 \in 0..taken
  BY <1>1
<1>3. CASE db = Nothing \/ (pc = "call" /\ ~long)
  BY <1>2, <1>3, WindowNone DEF Nothing, Delivered
<1>4. CASE pc \in {"copy", "refill"}
  BY <1>2, <1>4 DEF Delivered
<1>5. CASE pc \in {"end", "await", "done"} \/ (pc = "call" /\ long)
  <2>1. db.got = Window(0, taken - (IF long THEN Held ELSE 0))
    BY <1>5 DEF Delivered
  <2>2. taken - (IF long THEN Held ELSE 0) \in 0..taken
    BY <1>1
  <2> QED BY <2>1, <2>2
<1> QED BY <1>3, <1>4, <1>5 DEF FrameInv, TypeOK, Received

\* The steps that leave the content alone.
LEMMA QuietContent ==
    ASSUME ContentInv, FrameInv',
           \/ (Arrival \/ Eventing) /\ UNCHANGED <<routing, sending>>
           \/ FindServer \/ Obtain \/ NoThread \/ Finish \/ Prepare \/ Answer
    PROVE  ContentInv'
<1> USE DEF ContentInv, routing, reading, request, intake, block, sending
<1>1. /\ UNCHANGED <<adapter, body, arrived, taken, status, long, content, remaining, intact, db>>
      /\ \/ pc' = pc
         \/ pc = "launch" /\ pc' = "find"
         \/ pc = "find" /\ pc' = "send"
         \/ pc = "send" /\ link = "api" /\ pc' = IF long THEN "copy" ELSE "call"
         \/ pc = "await" /\ pc' = "done" /\ Complete
      /\ reply' = "answer" => reply = "answer" \/ pc = "done"
      /\ reply = "answer" => reply' = "answer"
      /\ link' = link \/ (pc = "find" /\ pc' = "send")
  <2>1. CASE Arrival /\ UNCHANGED <<routing, sending>>
    BY <2>1 DEF Arrival, Decline, NoMemory, Accept, Unconfigured, AdminPage, Prepared, Reply
  <2>2. CASE Eventing /\ UNCHANGED <<routing, sending>>
    BY <2>2 DEF Eventing, ContentThere, ContentLater, ContentCompletes, ContentNever, PayloadHandler, Reply
  <2>3. CASE FindServer \/ Obtain
    BY <2>3 DEF FindServer, Obtain
  <2>4. CASE NoThread
    BY <2>4 DEF NoThread, Strand
  <2>5. CASE Finish
    BY <2>5 DEF Finish, Serve, Reply
  <2>6. CASE Prepare \/ Answer
    BY <2>6 DEF Prepare, Answer
  <2> QED BY <2>1, <2>2, <2>3, <2>4, <2>5, <2>6
<1>2. FrameInv /\ (Complete => ~db.bad) /\ (pc = "find" => db = Nothing) /\ (pc = "send" => db = Nothing)
  BY DEF FrameInv, Received, Complete
<1>3. Replied'
  BY <1>1, <1>2 DEF Replied, Nothing
<1>4. ASSUME ~gone
      PROVE  BlockIsPart' /\ Progress' /\ Delivered'
  <2>1. BlockIsPart' /\ Progress'
    BY <1>1, <1>4 DEF BlockIsPart, Progress
  <2>2. pc = "send" /\ link = "api" => intact /\ db.got = <<>>
    BY <1>2 DEF FrameInv, Way, Nothing
  <2>3. Held' = Held
    BY <1>1 DEF Held
  <2>4. Window(0, 0) = <<>> /\ taken \in Nat /\ taken - taken = 0
    BY <1>2, WindowNone, BodyFacts DEF FrameInv
  <2>5. CASE pc' = pc
    BY <1>1, <1>4, <2>1, <2>3, <2>5 DEF Delivered
  <2>6. CASE pc \in {"launch", "find"} /\ pc' \in {"find", "send"}
    BY <1>1, <1>4, <2>1, <2>6 DEF Delivered
  <2>7. CASE pc = "send" /\ link = "api" /\ pc' = IF long THEN "copy" ELSE "call"
    <3>1. ~db.bad => taken = Len(content)
      BY <1>4, <2>2, <2>7 DEF Delivered
    <3>2. ~db.bad => db.got = Window(0, taken - Len(content))
      BY <2>2, <2>4, <2>7, <3>1
    <3> QED BY <1>1, <2>1, <2>2, <2>7, <3>2 DEF Delivered
  <2>8. CASE pc = "await" /\ pc' = "done"
    BY <1>1, <1>4, <2>1, <2>3, <2>8 DEF Delivered
  <2> QED BY <1>1, <2>1, <2>5, <2>6, <2>7, <2>8
<1>5. ~gone => InOrder'
  BY <1>1 DEF InOrder
<1>6. gone' = gone
  BY <1>1 DEF gone
<1> QED BY <1>3, <1>4, <1>5, <1>6

\* Once the parts hold after a step, the invariant does.
LEMMA Together ==
    ASSUME FrameInv', Replied', gone' = gone,
           ~gone => BlockIsPart' /\ Progress' /\ Delivered', pc' # "failed"
    PROVE  ContentInv'
<1>1. (FrameInv /\ BlockIsPart /\ Delivered /\ pc # "failed" => InOrder)'
  BY OrderHere, PTL
<1>2. ~gone => InOrder'
  BY <1>1
<1> QED BY <1>2 DEF ContentInv

LEMMA ReadContent ==
    ASSUME ContentInv, FrameInv', NoContent \/ ReadInline \/ ReadFirst \/ ReadFirstChunked
    PROVE  ContentInv'
<1> USE DEF routing, reading, request, intake, block
<1>1. FrameInv /\ TypeOK /\ Replied /\ pc = "read" /\ ~long /\ db = Nothing
  BY DEF ContentInv, FrameInv, Way, Received, NoContent, ReadInline, ReadFirst, ReadFirstChunked
<1>2. /\ UNCHANGED <<body, arrived, reply, link, db, intact>> /\ pc' = "launch"
  BY DEF NoContent, ReadInline, ReadFirst, ReadFirstChunked
<1>3. Replied' /\ gone' = gone
  BY <1>1, <1>2 DEF Replied, gone
<1>4. ASSUME ~gone PROVE BlockIsPart' /\ Progress' /\ Delivered'
  <2>1. BlockIsPart /\ taken = 0 /\ content = <<>> /\ Len(content) = 0 /\ status = "more"
    BY <1>1, <1>4, EmptySeq DEF ContentInv, BlockIsPart
  <2>2. body.len \in Nat /\ BlockSize \in Nat \ {0} /\ (body.how = "none" => body.len = 0)
        /\ body.how \in {"none", "length", "chunked"}
    BY <1>1, BodyFacts, Sizes
  <2>3. CASE NoContent
    BY <1>1, <1>2, <2>1, <2>2, <2>3 DEF NoContent, BlockIsPart, Progress, Delivered
  <2>4. CASE ReadInline
    <3>1. Got(body.len) = body.len /\ taken' = 0 + body.len
      BY <1>1, <1>4, <2>1, <2>2, <2>4, NextPart DEF ReadInline
    <3>2. content' = Window(0, body.len)
      BY <1>1, <2>1, <2>2, <2>4, <3>1, BlockFilled DEF ReadInline
    <3>3. Len(content') = body.len /\ BlockIsPart'
      <4> DEFINE n == body.len
      <4>1. n \in Nat /\ taken' = 0 + n /\ content' = Window(0, n)
        BY <2>2, <3>1, <3>2
      <4> HIDE DEF n
      <4>2. Len(content') = n /\ n <= taken' /\ content' = Window(taken' - Len(content'), Len(content'))
        BY <4>1, PartEnds
      <4> QED BY <1>2, <4>2 DEF BlockIsPart, n
    <3> QED BY <1>1, <1>2, <2>2, <2>4, <3>1, <3>3 DEF ReadInline, Progress, Delivered
  <2>5. CASE ReadFirst
    <3>1. Got(BlockSize) = BlockSize /\ taken' = 0 + BlockSize
      BY <1>1, <1>4, <2>1, <2>2, <2>5, NextPart DEF ReadFirst
    <3>2. content' = Window(0, BlockSize)
      BY <1>1, <2>1, <2>2, <2>5, <3>1, BlockFilled DEF ReadFirst
    <3>3. Len(content') = BlockSize /\ BlockIsPart'
      BY <1>2, <2>2, <3>1, <3>2, PartEnds DEF BlockIsPart
    <3> QED BY <1>1, <1>2, <2>2, <2>5, <3>1, <3>3 DEF ReadFirst, Progress, Delivered
  <2>6. CASE ReadFirstChunked
    <3>1. /\ Got(BlockSize) \in Nat /\ taken' = 0 + Got(BlockSize)
          /\ Got(BlockSize) # BlockSize => taken' = body.len /\ status' = "end"
          /\ Got(BlockSize) = BlockSize => status' = "more"
      BY <1>1, <1>4, <2>1, <2>2, <2>6, NextPart DEF ReadFirstChunked
    <3>2. content' = Window(0, Got(BlockSize))
      BY <1>1, <1>4, <2>1, <2>2, <2>6, NextPart DEF ReadFirstChunked
    <3>3. Len(content') = Got(BlockSize) /\ BlockIsPart'
      BY <1>2, <2>2, <3>1, <3>2, PartEnds DEF BlockIsPart
    <3> QED BY <1>1, <1>2, <2>2, <2>6, <3>1, <3>3 DEF ReadFirstChunked, Progress, Delivered
  <2> QED BY <2>3, <2>4, <2>5, <2>6
<1> QED BY <1>2, <1>3, <1>4, Together

LEMMA SendContent ==
    ASSUME ContentInv, FrameInv', Send \/ SendFails \/ Call
    PROVE  ContentInv'
<1> USE DEF routing, reading, request, intake, block
<1>1. FrameInv /\ TypeOK /\ Replied /\ (pc = "send" => db = Nothing)
  BY DEF ContentInv, FrameInv, Received
<1>2. UNCHANGED <<body, arrived, reply, link, taken, status, long, content, remaining, intact>> /\ gone' = gone
  BY DEF Send, SendFails, Call, gone
<1>3. taken \in Nat /\ Window(0, 0) = <<>> /\ taken - taken = 0 /\ body.len \in Nat
      /\ (body.how = "none" => body.len = 0)
  BY <1>1, BodyFacts, WindowNone
<1>4. ~gone => BlockIsPart /\ Progress /\ Delivered /\ InOrder
  BY DEF ContentInv
<1>5. content \in Seq(Nat) /\ <<>> \o content = content
  BY <1>1, ConcatEmptySeq DEF TypeOK
<1>6. CASE Send
  <2>1. pc = "send" /\ link = "tcp" /\ db' = Arrives /\ pc' = (IF long THEN "copy" ELSE "await")
    BY <1>6 DEF Send
  <2>2. Replied'
    BY <1>1, <1>2, <2>1 DEF Replied
  <2>3. ASSUME ~gone, ~db'.bad
        PROVE  /\ pc' = "copy" => db'.got = Window(0, taken - Len(content))
               /\ pc' = "await" => db'.got = Window(0, taken)
    <3>1. intact /\ taken = Len(content)
      BY <1>1, <1>4, <2>1, <2>3, ArrivesWell DEF Delivered, Nothing, FrameInv, TypeOK
    <3>2. CASE long
      BY <1>3, <2>1, <3>1, <3>2 DEF Arrives, Request, Nothing
    <3>3. CASE ~long /\ body.how = "none"
      BY <1>3, <1>4, <2>1, <2>3, <3>1, <3>3 DEF Arrives, Request, Nothing, Progress
    <3>4. CASE ~long /\ body.how # "none"
      <4>1. announced = Len(content) /\ Request.head /\ ~Request.eod /\ ~Request.bad /\ Request.got = <<>>
        BY <1>1, <3>4 DEF FrameInv, HeadAgrees, Request, Nothing
      <4>2. db' = [Request EXCEPT !.got = @ \o content]
        BY <2>1, <3>1, <3>4, <4>1 DEF Arrives, Takes
      <4>3. db'.got = content
        BY <1>5, <4>1, <4>2 DEF Request, Nothing
      <4>4. content = Window(taken - taken, taken)
        BY <1>4, <2>3, <3>1 DEF BlockIsPart
      <4> QED BY <1>3, <2>1, <3>4, <4>3, <4>4
    <3> QED BY <3>2, <3>3, <3>4
  <2>4. ASSUME ~gone PROVE BlockIsPart' /\ Progress' /\ Delivered'
    <3>1. BlockIsPart' /\ Progress'
      BY <1>2, <1>4, <2>1, <2>4 DEF BlockIsPart, Progress
    <3>2. taken - 0 = taken
      BY <1>3
    <3> QED BY <1>2, <2>1, <2>3, <2>4, <3>1, <3>2 DEF Delivered
  <2> QED BY <1>2, <2>1, <2>2, <2>4, Together
<1>7. CASE SendFails
  <2>1. pc = "send" /\ db' = Nothing /\ db = Nothing /\ pc' \in {"send", "failed"}
    BY <1>1, <1>7 DEF SendFails
  <2>2. Replied'
    BY <1>1, <1>2, <2>1 DEF Replied, Nothing
  <2>3. ASSUME ~gone PROVE BlockIsPart' /\ Progress' /\ Delivered' /\ InOrder'
    BY <1>2, <1>4, <2>1, <2>3 DEF BlockIsPart, Progress, Delivered, InOrder
  <2> QED BY <1>2, <2>2, <2>3 DEF ContentInv
<1>8. CASE Call
  <2>1. /\ pc = "call" /\ pc' = "done" /\ link = "api" /\ ~db.bad
        /\ db' = IF long THEN [db EXCEPT !.head = TRUE] ELSE Takes([db EXCEPT !.head = TRUE], announced, content)
    BY <1>1, <1>8 DEF Call, FrameInv, Way, Replied
  <2>2. ~db'.bad /\ db'.got = IF long THEN db.got ELSE db.got \o content
    BY <1>1, <2>1 DEF Takes, TypeOK
  <2>3. Replied'
    BY <1>1, <1>2, <2>1, <2>2 DEF Replied
  <2>4. ASSUME ~gone PROVE BlockIsPart' /\ Progress' /\ Delivered'
    <3>1. BlockIsPart' /\ Progress'
      BY <1>2, <1>4, <2>1, <2>4 DEF BlockIsPart, Progress
    <3>2. long => db'.got = Window(0, taken - Held) /\ Held' = Held
      BY <1>2, <1>4, <2>1, <2>2, <2>4 DEF Delivered, Held
    <3>3. ~long => db'.got = Window(0, taken - 0)
      <4>1. ~long => taken = Len(content) /\ content = Window(taken - taken, taken) /\ db.got = <<>>
        BY <1>4, <2>1, <2>4 DEF Progress, BlockIsPart, Delivered
      <4> QED BY <1>3, <1>5, <2>2, <4>1
    <3> QED BY <1>2, <2>1, <3>1, <3>2, <3>3 DEF Delivered
  <2> QED BY <1>2, <2>1, <2>3, <2>4, Together
<1> QED BY <1>6, <1>7, <1>8

LEMMA BlockContent ==
    ASSUME ContentInv, FrameInv', WriteBlock \/ WriteBlockFails \/ Refill \/ RefillChunked
    PROVE  ContentInv'
<1> USE DEF routing, reading, request, intake, block
<1>1. FrameInv /\ TypeOK /\ Replied /\ long
  BY DEF ContentInv, FrameInv, Way, WriteBlock, WriteBlockFails, Refill, RefillChunked
<1>2. UNCHANGED <<body, arrived, reply, link, long, intact>> /\ gone' = gone
  BY DEF WriteBlock, WriteBlockFails, Refill, RefillChunked, gone
<1>3. /\ taken \in Nat /\ body.len \in Nat /\ BlockSize \in Nat \ {0} /\ BoundaryLen <= BlockSize
      /\ BoundaryLen \in Nat /\ taken <= body.len /\ remaining \in Nat
  BY <1>1, BodyFacts, Sizes DEF TypeOK
<1>4. ~gone => BlockIsPart /\ Progress /\ Delivered /\ InOrder
  BY DEF ContentInv
<1>5. CASE WriteBlock
  <2>1. /\ pc = "copy" /\ pc' = (IF LastBlock THEN AfterLast ELSE "refill") /\ AfterLast \in {"end", "call"}
        /\ db' = Takes(db, announced', Outgoing) /\ UNCHANGED <<taken, status, content, remaining>>
    BY <1>5 DEF WriteBlock, AfterLast
  <2>2. (db.bad => db'.bad) /\ (link = "api" /\ ~db.bad => ~db'.bad)
        /\ (~db'.bad => ~db.bad /\ db'.got = db.got \o Outgoing)
    BY <1>1, <2>1 DEF Takes, TypeOK
  <2>3. Replied'
    BY <1>1, <1>2, <2>1, <2>2 DEF Replied
  <2>4. Held \in 0..Len(content) /\ Len(content) \in Nat /\ Held' = Held
    BY <1>1, <1>2, <2>1, OutgoingType DEF Held
  <2>5. ASSUME ~gone PROVE BlockIsPart' /\ Progress' /\ Delivered'
    <3>1. BlockIsPart'
      BY <1>4, <2>1, <2>5 DEF BlockIsPart
    <3>2. LastBlock => taken = body.len
      BY <1>1, <1>3, <1>4, <2>1, <2>5, BodyFacts DEF LastBlock, Progress
    <3>3. ~LastBlock => Held = 0
      <4>1. CASE body.how = "length"
        BY <1>1, <1>3, <1>4, <2>5, <4>1 DEF LastBlock, Progress, Held
      <4>2. CASE body.how = "chunked"
        BY <1>1, <1>3, <1>4, <2>1, <2>5, <4>2 DEF LastBlock, Progress, Held
      <4> QED BY <1>1, <1>4, <2>5, <4>1, <4>2, BodyFacts DEF Progress
    <3>4. Progress'
      BY <1>2, <1>4, <2>1, <2>5, <3>2 DEF Progress
    <3>5. ~db'.bad => db'.got = Window(0, taken - Held)
      <4>1. SUFFICES ASSUME ~db'.bad PROVE db.got \o Outgoing = Window(0, taken - Held)
        BY <2>2
      <4> DEFINE a == taken - Len(content)
                 n == Len(content) - Held
      <4>2. a \in Nat /\ n \in Nat /\ n \in 0..Len(content) /\ a + n = taken - Held /\ 0 + a = a
        BY <1>3, <1>4, <2>4, <2>5 DEF BlockIsPart
      <4>3. db.got = Window(0, a) /\ content = Window(a, Len(content))
        BY <1>4, <2>1, <2>2, <2>5, <4>1 DEF Delivered, BlockIsPart
      <4>4. Outgoing = SubSeq(content, 1, n)
        BY DEF Outgoing
      <4> HIDE DEF a, n
      <4>5. SubSeq(Window(a, Len(content)), 1, n) = Window(a, n)
        BY <2>4, <4>2, WindowBegin
      <4>6. Window(0, a) \o Window(0 + a, n) = Window(0, a + n)
        BY <4>2, WindowJoin
      <4> QED BY <4>2, <4>3, <4>4, <4>5, <4>6
    <3>6. taken - 0 = taken
      BY <1>3
    <3> QED BY <1>1, <1>2, <2>1, <2>4, <3>1, <3>3, <3>4, <3>5, <3>6 DEF Delivered
  <2> QED BY <1>2, <2>1, <2>3, <2>5, Together
<1>6. CASE WriteBlockFails
  <2>1. UNCHANGED <<taken, status, content, remaining, db>> /\ pc = "copy" /\ pc' = "failed"
    BY <1>6 DEF WriteBlockFails
  <2>2. Replied'
    BY <1>1, <1>2, <2>1 DEF Replied
  <2>3. ASSUME ~gone PROVE BlockIsPart' /\ Progress' /\ Delivered' /\ InOrder'
    BY <1>1, <1>2, <1>4, <2>1, <2>3 DEF BlockIsPart, Progress, Delivered, InOrder
  <2> QED BY <1>2, <2>2, <2>3 DEF ContentInv
<1>7. CASE Refill
  <2>1. pc = "refill" /\ pc' = "copy" /\ body.how = "length" /\ db' = db /\ remaining' = remaining - RefillLength
    BY <1>7 DEF Refill
  <2>2. RefillLength \in Nat /\ RefillLength <= remaining
    BY <1>3 DEF RefillLength, Least
  <2>3. Replied'
    BY <1>1, <1>2, <2>1 DEF Replied
  <2>4. ASSUME ~gone PROVE BlockIsPart' /\ Progress' /\ Delivered'
    <3>1. taken + remaining = body.len
      BY <1>1, <1>4, <2>1, <2>4 DEF Progress
    <3>2. Got(RefillLength) = RefillLength /\ taken' = taken + RefillLength
      BY <1>1, <1>3, <1>7, <2>2, <2>4, <3>1, NextPart DEF Refill
    <3>3. content' = Window(taken, RefillLength)
      BY <1>1, <1>7, <2>2, <3>2, BlockFilled DEF Refill
    <3>4. /\ Len(content') = RefillLength /\ RefillLength <= taken'
          /\ content' = Window(taken' - Len(content'), Len(content'))
      BY <1>3, <2>2, <3>2, <3>3, PartEnds
    <3>5. BlockIsPart'
      BY <2>1, <3>4 DEF BlockIsPart
    <3>6. taken' + remaining' = body.len /\ taken' - RefillLength = taken
      BY <1>3, <2>1, <2>2, <3>1, <3>2
    <3>7. Progress'
      BY <1>1, <1>2, <2>1, <3>6 DEF Progress
    <3>8. Delivered'
      BY <1>4, <2>1, <2>4, <3>4, <3>6 DEF Delivered
    <3> QED BY <3>5, <3>7, <3>8
  <2> QED BY <1>2, <2>1, <2>3, <2>4, Together
<1>8. CASE RefillChunked
  <2>1. pc = "refill" /\ pc' = "copy" /\ body.how = "chunked" /\ db' = db /\ content' = Bytes(BlockSize)
    BY <1>8 DEF RefillChunked
  <2>2. Replied'
    BY <1>1, <1>2, <2>1 DEF Replied
  <2>3. ASSUME ~gone PROVE BlockIsPart' /\ Progress' /\ Delivered'
    <3>1. /\ Got(BlockSize) \in Nat /\ taken' = taken + Got(BlockSize) /\ Got(BlockSize) <= BlockSize
          /\ taken + BlockSize <= body.len => Got(BlockSize) = BlockSize
          /\ Got(BlockSize) # BlockSize => taken' = body.len /\ status' = "end"
          /\ Got(BlockSize) = BlockSize => status' = status
          /\ content' = Window(taken, Got(BlockSize))
      BY <1>1, <1>3, <1>8, <2>1, <2>3, NextPart DEF RefillChunked
    <3>2. /\ Len(content') = Got(BlockSize) /\ Got(BlockSize) <= taken'
          /\ content' = Window(taken' - Len(content'), Len(content'))
      BY <1>3, <3>1, PartEnds
    <3>3. BlockIsPart'
      BY <2>1, <3>2 DEF BlockIsPart
    <3>4. taken' <= body.len
      BY <1>1, <1>3, <1>8, <2>3, NextPart DEF RefillChunked
    <3>5. Progress'
      BY <1>1, <1>2, <1>3, <1>4, <2>1, <2>3, <3>1, <3>2, <3>4 DEF Progress
    <3>6. taken' - Got(BlockSize) = taken
      BY <1>3, <3>1
    <3>7. Delivered'
      BY <1>4, <2>1, <2>3, <3>2, <3>6 DEF Delivered
    <3> QED BY <3>3, <3>5, <3>7
  <2> QED BY <1>2, <2>1, <2>2, <2>3, Together
<1> QED BY <1>5, <1>6, <1>7, <1>8

LEMMA EndContent ==
    ASSUME ContentInv, FrameInv', WriteEnd \/ Timeout \/ ReadFails
    PROVE  ContentInv'
<1> USE DEF routing, reading, request, intake, block
<1>1. FrameInv /\ TypeOK /\ Replied /\ link = "tcp" /\ pc \in {"end", "await"}
  BY DEF ContentInv, FrameInv, Way, WriteEnd, Timeout, ReadFails
<1>2. UNCHANGED <<body, arrived, reply, link, taken, status, long, content, remaining>> /\ gone' = gone
  BY DEF WriteEnd, Timeout, ReadFails, gone
<1>3. ~gone => BlockIsPart /\ Progress /\ Delivered /\ InOrder
  BY DEF ContentInv
<1>4. Held' = Held /\ Window(0, 0) = <<>> /\ 0 \in 0..taken
  BY <1>1, <1>2, WindowNone, BodyFacts DEF Held
<1>5. CASE WriteEnd
  <2>1. /\ pc = "end" /\ intact' = FALSE /\ pc' \in {"await", "failed"}
        /\ db'.got = db.got /\ (db.bad => db'.bad)
    BY <1>1, <1>5 DEF WriteEnd, TakesEnd, TypeOK
  <2>2. Replied'
    BY <1>1, <1>2, <2>1, UploadAssumption DEF Replied
  <2>3. ASSUME ~gone PROVE BlockIsPart' /\ Progress' /\ Delivered' /\ InOrder'
    <3>1. BlockIsPart' /\ Progress'
      BY <1>2, <1>3, <2>1, <2>3 DEF BlockIsPart, Progress
    <3>2. Delivered' /\ InOrder'
      BY <1>2, <1>3, <1>4, <2>1, <2>3 DEF Delivered, InOrder
    <3> QED BY <3>1, <3>2
  <2> QED BY <1>2, <2>2, <2>3 DEF ContentInv
<1>6. CASE Timeout
  <2>1. pc' = "failed" /\ db' = db
    BY <1>6 DEF Timeout
  <2>2. Replied' /\ (~gone => BlockIsPart' /\ Progress' /\ Delivered' /\ InOrder')
    BY <1>1, <1>2, <1>3, <2>1 DEF Replied, BlockIsPart, Progress, Delivered, InOrder
  <2> QED BY <1>2, <2>2 DEF ContentInv
<1>7. CASE ReadFails
  <2>1. pc = "await" /\ pc' \in {"send", "failed"} /\ db' = Nothing /\ intact' = intact
    BY <1>7 DEF ReadFails
  <2>2. Replied'
    BY <1>1, <1>2, <2>1 DEF Replied, Nothing
  <2>3. ASSUME ~gone PROVE BlockIsPart' /\ Progress' /\ Delivered' /\ InOrder'
    <3>1. BlockIsPart' /\ Progress'
      BY <1>2, <1>3, <2>1, <2>3 DEF BlockIsPart, Progress
    <3>2. intact' => taken' = Len(content')
      BY <1>1, <1>2, <1>3, <2>1, <2>3 DEF Progress, FrameInv, Way, TypeOK
    <3>3. Delivered' /\ InOrder'
      BY <1>2, <1>4, <2>1, <3>2 DEF Delivered, InOrder, Nothing
    <3> QED BY <3>1, <3>3
  <2> QED BY <1>2, <2>2, <2>3 DEF ContentInv
<1> QED BY <1>5, <1>6, <1>7

LEMMA ContentStep == ContentInv /\ [Next]_vars => ContentInv'
<1> SUFFICES ASSUME ContentInv, [Next]_vars PROVE ContentInv'
  OBVIOUS
<1>1. FrameInv'
  BY FrameStep DEF ContentInv
<1>2. CASE UNCHANGED vars
  BY <1>1, <1>2 DEF ContentInv, Replied, BlockIsPart, Progress, Delivered, InOrder, Held, gone,
                    vars, request, intake, routing, reading, block
<1>3. CASE Next
  BY <1>1, <1>3, QuietContent, ReadContent, SendContent, BlockContent, EndContent DEF Next
<1> QED BY <1>2, <1>3

\* What an invariant of the content says of a request: the bytes arrive in order,
\* and all of them before the answer.
LEMMA ContentGivesOrder == ContentInv => ContentInOrder
<1> SUFFICES ASSUME ContentInv, ~gone, ~db.bad
             PROVE  Len(db.got) <= taken /\ db.got = SubSeq(Content, 1, Len(db.got))
  BY DEF ContentInOrder
<1>1. PICK k \in 0..taken : db.got = Window(0, k)
  BY DEF ContentInv, InOrder
<1>2. body.len \in Nat /\ taken \in Nat /\ taken <= body.len
  BY BodyFacts DEF ContentInv, FrameInv
<1>3. k \in Nat /\ k \in 0..body.len
  BY <1>2
<1>4. Len(db.got) = k
  BY <1>1, <1>3, WindowType
<1>5. Content = Window(0, body.len)
  BY <1>2 DEF Content, Window
<1>6. SubSeq(Content, 1, k) = Window(0, k)
  BY <1>2, <1>3, <1>5, WindowBegin
<1> QED BY <1>1, <1>2, <1>4, <1>6

LEMMA ContentGivesAnswer == ContentInv => AnsweredWhenComplete
<1> SUFFICES ASSUME ContentInv, reply = "answer", ~gone, body.partial = 0
             PROVE  db.got = Content
  BY DEF AnsweredWhenComplete
<1>1. pc = "done" /\ ~db.bad /\ Progress /\ Delivered
  BY DEF ContentInv, Replied
<1>2. body.len \in Nat /\ taken = body.len /\ Len(content) \in Nat
  BY <1>1, BodyFacts, OutgoingType DEF ContentInv, FrameInv, TypeOK, Progress
<1>3. Held = 0
  BY <1>2 DEF Held, Least
<1>4. body.len - 0 = body.len
  BY <1>2
<1>5. db.got = Window(0, body.len)
  BY <1>1, <1>2, <1>3, <1>4 DEF Delivered
<1>6. Content = Window(0, body.len)
  BY <1>2 DEF Content, Window
<1> QED BY <1>5, <1>6

\* Whatever its size and whatever fails, a content whose client stays comes to the
\* DB Server in order, with nothing twice and nothing that is not of it.
THEOREM ContentStaysInOrder == Spec => []ContentInOrder
<1> QED BY ContentInit, ContentStep, ContentGivesOrder, PTL DEF Spec

\* A request whose client stays is answered when the DB Server has all of it.
THEOREM AnswersComeLast == Spec => []AnsweredWhenComplete
<1> QED BY ContentInit, ContentStep, ContentGivesAnswer, PTL DEF Spec

---------------------------------------------------------------------------
(* The server that the request names. *)

\* The choice is the one for what the request says, as far as the buffer shows it.
ChoiceMade ==
    pc = "find" => choice = PreferredServer(order, [ask EXCEPT !.form = FormSeen(ask)]) /\ ask \in Asks

LEMMA ChoiceStep == ChoiceMade /\ [Next]_vars => ChoiceMade'
<1> SUFFICES ASSUME ChoiceMade, [Next]_vars PROVE ChoiceMade'
  OBVIOUS
<1> USE DEF routing, reading, block, request, intake, sending
<1>1. CASE FindServer
  <2>1. FormSeen(ask') = FormSeen(ask)'
    BY <1>1 DEF FindServer, FormSeen
  <2>2. ask' \in Asks /\ choice' = PreferredServer(order', [ask' EXCEPT !.form = FormSeen(ask')])
    BY <1>1 DEF FindServer
  <2>3. choice' = PreferredServer(order', [ask' EXCEPT !.form = FormSeen(ask)'])
    BY <2>1, <2>2
  <2> QED BY <2>2, <2>3 DEF ChoiceMade
<1>2. CASE UNCHANGED <<pc, ask, order, choice, long, body>>
  BY <1>2 DEF ChoiceMade, FormSeen
<1>3. CASE pc' # "find"
  BY <1>3 DEF ChoiceMade
<1>4. FindServer \/ UNCHANGED <<pc, ask, order, choice, long, body>> \/ pc' # "find"
  <2>1. CASE UNCHANGED vars
    BY <2>1 DEF vars
  <2>2. CASE (Arrival \/ Eventing) /\ UNCHANGED <<routing, sending>>
    BY <2>2 DEF Arrival, Decline, NoMemory, Accept, Unconfigured, AdminPage, Prepared,
                Eventing, ContentThere, ContentLater, ContentCompletes, ContentNever
  <2>3. CASE NoThread \/ Finish
    BY <2>3 DEF NoThread, Strand, Finish, Serve
  <2>4. CASE Obtain \/ NoContent \/ ReadInline \/ ReadFirst \/ ReadFirstChunked
    BY <2>4 DEF Obtain, NoContent, ReadInline, ReadFirst, ReadFirstChunked
  <2>5. CASE Send \/ SendFails \/ Prepare \/ Call
    BY <2>5 DEF Send, SendFails, Prepare, Call
  <2>6. CASE WriteBlock \/ WriteBlockFails \/ Refill \/ RefillChunked
    BY <2>6 DEF WriteBlock, WriteBlockFails, Refill, RefillChunked, AfterLast
  <2>7. CASE WriteEnd \/ Answer \/ Timeout \/ ReadFails
    BY <2>7 DEF WriteEnd, Answer, Timeout, ReadFails
  <2> QED BY <2>1, <2>2, <2>3, <2>4, <2>5, <2>6, <2>7 DEF Next
<1> QED BY <1>1, <1>2, <1>3, <1>4

LEMMA ChoiceGivesAffinity == TypeOK /\ ChoiceMade => AffinityFollowed
<1> SUFFICES ASSUME TypeOK, ChoiceMade, pc = "find", Len(Names) > 1, order = "variable",
                    ask.form = <<>> \/ (body.how = "length" /\ ~long)
             PROVE  choice = AskedByVariable(ask)
  BY DEF AffinityFollowed
<1>1. ask \in AskRecord /\ choice = PreferredServer("variable", [ask EXCEPT !.form = FormSeen(ask)])
  BY UploadAssumption DEF ChoiceMade
<1>2. FormSeen(ask) = ask.form
  <2>1. CASE ask.form = <<>>
    <3>1. InFirstBlock(<<>>, FormFits) = <<>>
      <4>1. (IF FormFits < Len(<<>>) THEN FormFits + 1 ELSE Len(<<>>)) = 0
        BY UploadAssumption
      <4> QED BY <4>1 DEF InFirstBlock
    <3> QED BY <2>1, <3>1 DEF FormSeen
  <2>2. CASE body.how = "length" /\ ~long
    BY <2>2 DEF FormSeen
  <2> QED BY <2>1, <2>2
<1>3. [ask EXCEPT !.form = FormSeen(ask)] = ask
  BY <1>1, <1>2 DEF AskRecord
<1>4. Len(Names) # 1
  <2>1. Len(Names) \in Nat /\ \A n \in Nat : n > 1 => n # 1
    BY Sizes
  <2> QED BY <2>1, Zenon
<1>5. PreferredServer("variable", ask) = FindVariable(ask)
  BY <1>4 DEF PreferredServer
<1> QED BY <1>1, <1>3, <1>5, VariablesDecide

\* With any servers, variables and requests: where the variables are looked at
\* first, the server is the one that the first of them names that names one.
THEOREM AffinityIsFollowed == Spec => []AffinityFollowed
<1>1. Init => ChoiceMade
  BY DEF Init, ChoiceMade
<1> QED BY <1>1, InitTypes, StepTypes, ChoiceStep, ChoiceGivesAffinity, PTL DEF Spec
=============================================================================
