--------------------------- MODULE ExchangeProofs ---------------------------
(***************************************************************************)
(* The theorems about one exchange, for every set of requests and answers  *)
(* and every way the network cuts, delays and breaks the stream.  First    *)
(* the codec: what is encoded is decoded to the same message.  Then the    *)
(* exchange around it: it does what Delivery promises.                     *)
(***************************************************************************)
EXTENDS Exchange, SequenceTheorems, FiniteSetTheorems, TLAPS
-----------------------------------------------------------------------------
(* Recursion on the length of a sequence. *)

(* A set of natural numbers has a least one: the intervals 0..i of its members *)
(* are finite sets, so that one of them is minimal under strict inclusion.     *)
LEMMA LeastOf ==
    ASSUME NEW S \in SUBSET Nat, S # {}
    PROVE  \E i \in S : \A j \in S : i <= j
<1> DEFINE Below == {0..i : i \in S}
<1>1. IsWellFoundedOn(StrictSubsetOrdering(Nat), FiniteSubsetsOf(Nat))
  BY FS_StrictSubsetOrderingWellFounded
<1>2. Below \subseteq FiniteSubsetsOf(Nat) /\ Below # {}
  <2>1. ASSUME NEW i \in S PROVE 0..i \in FiniteSubsetsOf(Nat)
    BY FS_Interval, 0..i \subseteq Nat DEF FiniteSubsetsOf
  <2>2. QED
    BY <2>1
<1>3. PICK T \in Below : \A U \in Below : ~(<<U, T>> \in StrictSubsetOrdering(Nat))
  <2> HIDE DEF Below
  <2>1. QED
    BY <1>1, <1>2, WFMin
<1>4. PICK i \in S : T = 0..i
  OBVIOUS
<1>5. ASSUME NEW j \in S, j < i PROVE FALSE
  <2>1. 0..j \subseteq 0..i /\ i \notin 0..j /\ i \in 0..i
    BY <1>5
  <2>2. <<0..j, 0..i>> \in StrictSubsetOrdering(Nat)
    BY <2>1, 0..j \in SUBSET Nat, 0..i \in SUBSET Nat DEF StrictSubsetOrdering
  <2>3. QED
    BY <2>2, <1>3, <1>4
<1>6. QED
  BY <1>5

(* Recursion on the length of a sequence: what f makes of a sequence d is a    *)
(* step h of what it makes of a shorter one, g[d].                             *)
Shrinks(g) == /\ g \in [Seq(Byte) -> Seq(Byte)]
              /\ \A d \in Seq(Byte) : d # <<>> => Len(g[d]) < Len(d)
Recurs(f, V, v0, g, h) ==
    /\ f \in [Seq(Byte) -> V]
    /\ \A d \in Seq(Byte) : f[d] = IF d = <<>> THEN v0 ELSE h[<<d, f[g[d]]>>]

LEMMA LengthRecursion ==
    ASSUME NEW V, NEW v0 \in V, NEW g, Shrinks(g), NEW h \in [Seq(Byte) \X V -> V]
    PROVE  \E f : Recurs(f, V, v0, g, h)
<1> USE DEF Shrinks
<1> DEFINE Up(n)    == {d \in Seq(Byte) : Len(d) <= n}
           Does(f, n) == f = [d \in Up(n) |-> IF d = <<>> THEN v0 ELSE h[<<d, f[g[d]]>>]]
           Good(f, n) == f \in [Up(n) -> V] /\ Does(f, n)
<1>1. \A d \in Seq(Byte) : Len(d) \in Nat /\ (d = <<>> <=> Len(d) = 0)
  BY LenProperties, EmptySeq
<1>2. \A n \in Nat : \A d \in Up(n) : d # <<>> => n > 0 /\ g[d] \in Up(n - 1) /\ g[d] \in Up(n)
  BY <1>1
<1>3. \A n \in Nat : \E f : Good(f, n)
  <2> DEFINE Bad == {n \in Nat : ~\E f : Good(f, n)}
  <2>1. SUFFICES ASSUME Bad # {} PROVE FALSE
    OBVIOUS
  <2>2. PICK n \in Bad : \A k \in Bad : n <= k
    BY <2>1, Bad \in SUBSET Nat, LeastOf
  <2>3. CASE n = 0
    <3> DEFINE f == [d \in Up(0) |-> v0]
    <3>1. \A d \in Up(0) : d = <<>>
      BY <1>1
    <3>2. f = [d \in Up(0) |-> IF d = <<>> THEN v0 ELSE h[<<d, f[g[d]]>>]]
      BY <3>1
    <3>3. Good(f, 0)
      BY <3>2
    <3>4. QED
      BY <3>3, <2>2, <2>3
  <2>4. CASE n > 0
    <3>1. n - 1 \in Nat /\ n - 1 \notin Bad
      <4>1. Bad \subseteq Nat
        OBVIOUS
      <4> HIDE DEF Bad
      <4>2. QED
        BY <4>1, <2>2, <2>4
    <3>2. PICK f : Good(f, n - 1)
      BY <3>1
    <3> DEFINE e == [d \in Up(n) |-> IF d = <<>> THEN v0 ELSE h[<<d, f[g[d]]>>]]
    <3>3. \A d \in Up(n) : d # <<>> => g[d] \in Up(n - 1) /\ f[g[d]] \in V
      BY <1>2, <2>2, <3>2
    <3>4. e \in [Up(n) -> V]
      BY <3>3
    <3>5. \A d \in Up(n - 1) : e[d] = f[d]
      <4>1. \A d \in Up(n - 1) : f[d] = IF d = <<>> THEN v0 ELSE h[<<d, f[g[d]]>>]
        BY <3>2
      <4>2. \A d \in Up(n - 1) : d \in Up(n)
        BY <1>1, <3>1, <2>2
      <4> HIDE DEF Up
      <4>3. QED
        BY <4>1, <4>2
    <3>6. \A d \in Up(n) : d # <<>> => e[g[d]] = f[g[d]]
      <4> HIDE DEF Up, e
      <4>1. QED
        BY <3>3, <3>5
    <3>7. e = [d \in Up(n) |-> IF d = <<>> THEN v0 ELSE h[<<d, e[g[d]]>>]]
      <4>1. \A d \in Up(n) : e[d] = IF d = <<>> THEN v0 ELSE h[<<d, e[g[d]]>>]
        <5> HIDE DEF Up
        <5>1. \A d \in Up(n) : e[d] = IF d = <<>> THEN v0 ELSE h[<<d, f[g[d]]>>]
          OBVIOUS
        <5> HIDE DEF e
        <5>2. QED
          BY <5>1, <3>6
      <4> HIDE DEF e, Up
      <4>2. QED
        BY <4>1, <3>4
    <3>8. QED
      BY <3>4, <3>7, <2>2
  <2>5. QED
    BY <2>2, <2>3, <2>4
<1> DEFINE F(n) == CHOOSE f : Good(f, n)
<1>4. \A n \in Nat : Good(F(n), n)
  BY <1>3
<1>5. \A n \in Nat : \A d \in Up(n) : F(n)[d] = F(Len(d))[d]
  <2> SUFFICES ASSUME NEW n \in Nat PROVE \A d \in Up(n) : F(n)[d] = F(Len(d))[d]
    OBVIOUS
  <2> HIDE DEF F
  <2> DEFINE Differ(k) == {d \in Up(n) : k \in Nat /\ Len(d) <= k /\ F(n)[d] # F(k)[d]}
             Sizes == {i \in Nat : \E k \in Nat : \E d \in Differ(k) : Len(d) = i}
  <2>1. SUFFICES ASSUME Sizes # {} PROVE FALSE
    BY <1>1
  <2>2. PICK i \in Sizes : \A j \in Sizes : i <= j
    BY <2>1, Sizes \in SUBSET Nat, LeastOf
  <2>3. PICK k \in Nat : \E d \in Differ(k) : Len(d) = i
    BY <2>2
  <2>4. PICK d \in Differ(k) : Len(d) = i
    BY <2>3
  <2>5. d \in Up(n) /\ d \in Up(k) /\ F(n)[d] # F(k)[d]
    BY <2>4, <1>1
  <2>6. /\ F(n)[d] = IF d = <<>> THEN v0 ELSE h[<<d, F(n)[g[d]]>>]
        /\ F(k)[d] = IF d = <<>> THEN v0 ELSE h[<<d, F(k)[g[d]]>>]
    BY <1>4, <2>5
  <2>7. d # <<>> /\ F(n)[g[d]] # F(k)[g[d]]
    BY <2>5, <2>6
  <2>8. g[d] \in Differ(k) /\ Len(g[d]) < i
    BY <2>4, <2>5, <2>7, <1>2
  <2>9. QED
    BY <2>2, <2>8, <1>1
<1> DEFINE r == [d \in Seq(Byte) |-> F(Len(d))[d]]
<1>6. r \in [Seq(Byte) -> V]
  <2>1. \A d \in Seq(Byte) : Len(d) \in Nat /\ d \in Up(Len(d))
    BY <1>1
  <2> HIDE DEF F, Up
  <2>2. QED
    BY <2>1, <1>4
<1>7. \A d \in Seq(Byte) : r[d] = IF d = <<>> THEN v0 ELSE h[<<d, r[g[d]]>>]
  <2> SUFFICES ASSUME NEW d \in Seq(Byte) PROVE r[d] = IF d = <<>> THEN v0 ELSE h[<<d, r[g[d]]>>]
    OBVIOUS
  <2> HIDE DEF F
  <2>1. Len(d) \in Nat /\ d \in Up(Len(d)) /\ (d # <<>> => g[d] \in Up(Len(d)))
    BY <1>1, <1>2
  <2>2. F(Len(d))[d] = IF d = <<>> THEN v0 ELSE h[<<d, F(Len(d))[g[d]]>>]
    BY <2>1, <1>4
  <2>3. d # <<>> => F(Len(d))[g[d]] = r[g[d]]
    BY <2>1, <1>5
  <2>4. QED
    BY <2>2, <2>3
<1>8. QED
  BY <1>6, <1>7 DEF Recurs

LEMMA FrontLast ==
    ASSUME NEW A, NEW d \in Seq(A), d # <<>>
    PROVE  /\ Front(d) \in Seq(A) /\ Len(Front(d)) = Len(d) - 1 /\ Last(d) \in A
           /\ \A i \in 1..Len(d) - 1 : Front(d)[i] = d[i]
<1>1. Len(d) \in Nat /\ Len(d) > 0
  BY LenProperties, EmptySeq
<1>2. \A i \in 1..Len(d) : d[i] \in A
  BY ElementOfSeq
<1>3. /\ SubSeq(d, 1, Len(d) - 1) \in Seq(A)
      /\ Len(SubSeq(d, 1, Len(d) - 1)) = IF 1 <= Len(d) - 1 THEN Len(d) - 1 - 1 + 1 ELSE 0
      /\ \A i \in 1..(Len(d) - 1 - 1 + 1) : SubSeq(d, 1, Len(d) - 1)[i] = d[1 + i - 1]
  <2>1. \A i \in 1..Len(d) - 1 : d[i] \in A
    BY <1>1, <1>2
  <2>2. QED
    BY <1>1, <2>1, SubSeqProperties
<1>4. Front(d) = SubSeq(d, 1, Len(d) - 1) /\ Last(d) = d[Len(d)]
  BY DEF Front, Last
<1> DEFINE n == Len(d)  s == SubSeq(d, 1, n - 1)
<1>5. s \in Seq(A) /\ Len(s) = n - 1 /\ \A i \in 1..n - 1 : s[i] = d[i]
  <2> HIDE DEF s, n
  <2>1. n \in Nat /\ n > 0 /\ s \in Seq(A) /\ Len(s) = (IF 1 <= n - 1 THEN n - 1 - 1 + 1 ELSE 0)
        /\ \A i \in 1..(n - 1 - 1 + 1) : s[i] = d[1 + i - 1]
    BY <1>1, <1>3 DEF s, n
  <2>2. \A i \in 1..n - 1 : i \in 1..(n - 1 - 1 + 1) /\ 1 + i - 1 = i
    BY <2>1
  <2>3. QED
    BY <2>1, <2>2
<1>6. d[n] \in A
  BY <1>1, <1>2
<1>7. QED
  BY <1>4, <1>5, <1>6

LEMMA NumberOfSteps ==
    ASSUME NEW d \in Seq(Byte)
    PROVE  /\ NumberOf[d] \in Nat
           /\ NumberOf[d] = IF d = <<>> THEN 0 ELSE NumberOf[Front(d)] * 256 + Last(d)
<1>1. \A b \in Seq(Byte) : b # <<>> => /\ Front(b) \in Seq(Byte) /\ Len(Front(b)) < Len(b)
                                       /\ Last(b) \in Nat
  <2> SUFFICES ASSUME NEW b \in Seq(Byte), b # <<>>
               PROVE  Front(b) \in Seq(Byte) /\ Len(Front(b)) < Len(b) /\ Last(b) \in Nat
    OBVIOUS
  <2>1. Front(b) \in Seq(Byte) /\ Len(Front(b)) = Len(b) - 1 /\ Last(b) \in Byte
    BY FrontLast
  <2>2. Len(b) \in Nat
    BY LenProperties
  <2>3. Last(b) \in Nat
    <3>1. \A x \in Byte : x \in Nat
      BY DEF Byte
    <3>2. QED
      BY <2>1, <3>1, Zenon
  <2>4. QED
    BY <2>1, <2>2, <2>3
<1> DEFINE g == [b \in Seq(Byte) |-> IF b = <<>> THEN <<>> ELSE Front(b)]
           h == [p \in Seq(Byte) \X Nat |-> IF p[1] = <<>> THEN 0 ELSE p[2] * 256 + Last(p[1])]
<1>2. g \in [Seq(Byte) -> Seq(Byte)] /\ \A b \in Seq(Byte) : b # <<>> => Len(g[b]) < Len(b)
  BY <1>1, EmptySeq
<1>3. h \in [Seq(Byte) \X Nat -> Nat]
  <2>1. ASSUME NEW p \in Seq(Byte) \X Nat
        PROVE  (IF p[1] = <<>> THEN 0 ELSE p[2] * 256 + Last(p[1])) \in Nat
    BY <1>1
  <2>2. QED
    BY <2>1
<1> HIDE DEF g, h
<1>4. PICK f : Recurs(f, Nat, 0, g, h)
  BY <1>2, <1>3, LengthRecursion DEF Shrinks
<1>5. ASSUME NEW b \in Seq(Byte)
      PROVE  f[b] = IF b = <<>> THEN 0 ELSE f[Front(b)] * 256 + Last(b)
  <2>1. f[b] = IF b = <<>> THEN 0 ELSE h[<<b, f[g[b]]>>]
    BY <1>4 DEF Recurs
  <2>2. b # <<>> => g[b] = Front(b) /\ f[Front(b)] \in Nat
    BY <1>1, <1>4 DEF g, Recurs
  <2>3. b # <<>> => h[<<b, f[Front(b)]>>] = f[Front(b)] * 256 + Last(b)
    BY <2>2 DEF h
  <2>4. QED
    BY <2>1, <2>2, <2>3
<1>6. f = [b \in Seq(Byte) |-> IF b = <<>> THEN 0 ELSE f[Front(b)] * 256 + Last(b)]
  BY <1>4, <1>5 DEF Recurs
<1>7. NumberOf = [b \in Seq(Byte) |-> IF b = <<>> THEN 0 ELSE NumberOf[Front(b)] * 256 + Last(b)]
  BY <1>6 DEF NumberOf
<1>8. \A b \in Seq(Byte) : NumberOf[b] \in Nat
  <2> DEFINE Bad == {b \in Seq(Byte) : NumberOf[b] \notin Nat}
             Sizes == {Len(b) : b \in Bad}
  <2>1. SUFFICES ASSUME Bad # {} PROVE FALSE
    OBVIOUS
  <2>2. Sizes \in SUBSET Nat /\ Sizes # {}
    <3>1. \A b \in Bad : Len(b) \in Nat
      BY LenProperties
    <3> HIDE DEF Bad
    <3>2. QED
      BY <2>1, <3>1
  <2>3. PICK n \in Sizes : \A k \in Sizes : n <= k
    BY <2>2, LeastOf
  <2>4. PICK b \in Bad : Len(b) = n
    BY <2>3
  <2>5. b # <<>> /\ NumberOf[Front(b)] \notin Nat
    <3>1. b \in Seq(Byte) /\ NumberOf[b] \notin Nat
      BY <2>4
    <3>2. NumberOf[b] = IF b = <<>> THEN 0 ELSE NumberOf[Front(b)] * 256 + Last(b)
      BY <1>7, <3>1
    <3>3. QED
      BY <1>1, <3>1, <3>2
  <2>6. Front(b) \in Bad /\ Len(Front(b)) < n
    BY <1>1, <2>4, <2>5
  <2>7. Len(Front(b)) \in Sizes /\ n \in Nat /\ Len(Front(b)) \in Nat
    BY <2>2, <2>3, <2>6
  <2> HIDE DEF Sizes
  <2>8. QED
    BY <2>3, <2>6, <2>7
<1>9. QED
  BY <1>7, <1>8
-----------------------------------------------------------------------------
(* The chain of nodes in a sequence of bytes: what its first node is.          *)
TagOf(d) == GetTagInfo(d)
LenOf(d) == GetLengthInfo(SubSeq(d, TagOf(d).size + 1, Len(d)))
EndOf(d) == TagOf(d).size + LenOf(d).out.size + LenOf(d).out.value
HasNode(d) == LenOf(d).rv = NoErr /\ EndOf(d) \in 1..Len(d)
NoNode(d)  == Spoilt(IF LenOf(d).rv # NoErr THEN LenOf(d).rv ELSE LengthErr)
NodeOf(d)  == AnyBuf(TagOf(d).value, SubSeq(d, 1, EndOf(d)))
RestOf(d)  == SubSeq(d, EndOf(d) + 1, Len(d))

LEMMA RestShorter ==
    ASSUME NEW d \in Seq(Byte), NEW i \in 1..Len(d)
    PROVE  /\ SubSeq(d, i + 1, Len(d)) \in Seq(Byte) /\ Len(SubSeq(d, i + 1, Len(d))) = Len(d) - i
           /\ SubSeq(d, 1, i) \in Seq(Byte) /\ Len(SubSeq(d, 1, i)) = i
<1> DEFINE n == Len(d)
<1>1. n \in Nat /\ \A j \in 1..n : d[j] \in Byte
  BY LenProperties, ElementOfSeq
<1>2. SubSeq(d, i + 1, n) \in Seq(Byte) /\ Len(SubSeq(d, i + 1, n)) = IF i + 1 <= n THEN n - (i + 1) + 1 ELSE 0
  <2>1. \A j \in (i + 1)..n : d[j] \in Byte
    BY <1>1
  <2>2. QED
    BY <1>1, <2>1, SubSeqProperties
<1>3. SubSeq(d, 1, i) \in Seq(Byte) /\ Len(SubSeq(d, 1, i)) = IF 1 <= i THEN i - 1 + 1 ELSE 0
  <2>1. \A j \in 1..i : d[j] \in Byte
    BY <1>1
  <2>2. QED
    BY <1>1, <2>1, SubSeqProperties
<1> DEFINE a == Len(SubSeq(d, i + 1, n))  b == Len(SubSeq(d, 1, i))
<1>4. a = (IF i + 1 <= n THEN n - (i + 1) + 1 ELSE 0) /\ b = IF 1 <= i THEN i - 1 + 1 ELSE 0
  BY <1>2, <1>3
<1>5. i \in 1..n
  OBVIOUS
<1> HIDE DEF a, b, n
<1>6. a = n - i /\ b = i
  BY <1>1, <1>4, <1>5
<1>7. QED
  BY <1>2, <1>3, <1>6 DEF a, b, n

LEMMA ChainSteps ==
    ASSUME NEW d \in Seq(Byte)
    PROVE  Chain[d] = IF d = <<>> THEN <<>>
                      ELSE IF HasNode(d) THEN <<NodeOf(d)>> \o Chain[RestOf(d)] ELSE NoNode(d)
<1> DEFINE g == [b \in Seq(Byte) |-> IF b # <<>> /\ HasNode(b) THEN RestOf(b) ELSE <<>>]
           T == {LenOf(b).rv : b \in Seq(Byte)} \union {TagOf(b).value : b \in Seq(Byte)} \union {LengthErr}
           N == [dataType : T, data : Seq(Byte)]
           h == [p \in Seq(Byte) \X Seq(N) |->
                   IF HasNode(p[1]) THEN <<NodeOf(p[1])>> \o p[2] ELSE NoNode(p[1])]
<1>1. ASSUME NEW b \in Seq(Byte), HasNode(b)
      PROVE  /\ RestOf(b) \in Seq(Byte) /\ Len(RestOf(b)) < Len(b)
             /\ NodeOf(b) \in N
  <2>1. EndOf(b) \in 1..Len(b)
    BY <1>1 DEF HasNode
  <2>2. /\ RestOf(b) \in Seq(Byte) /\ Len(RestOf(b)) = Len(b) - EndOf(b)
        /\ SubSeq(b, 1, EndOf(b)) \in Seq(Byte)
    BY <2>1, RestShorter DEF RestOf
  <2>3. NodeOf(b) \in N
    BY <2>2 DEF NodeOf, AnyBuf
  <2>4. Len(b) \in Nat
    BY LenProperties
  <2>5. Len(b) - EndOf(b) < Len(b)
    BY <2>1, <2>4
  <2>6. QED
    BY <2>2, <2>3, <2>5
<1>2. ASSUME NEW b \in Seq(Byte) PROVE NoNode(b) \in Seq(N)
  <2>1. (IF LenOf(b).rv # NoErr THEN LenOf(b).rv ELSE LengthErr) \in T
    OBVIOUS
  <2>2. [dataType |-> (IF LenOf(b).rv # NoErr THEN LenOf(b).rv ELSE LengthErr), data |-> <<>>] \in N
    BY <2>1, EmptySeq
  <2> HIDE DEF N, T
  <2>3. QED
    BY <2>2 DEF NoNode, Spoilt, AnyBuf
<1>3. Shrinks(g)
  BY <1>1, EmptySeq DEF Shrinks
<1>4. h \in [Seq(Byte) \X Seq(N) -> Seq(N)]
  <2> HIDE DEF N
  <2>1. ASSUME NEW b \in Seq(Byte), NEW c \in Seq(N), HasNode(b)
        PROVE  <<NodeOf(b)>> \o c \in Seq(N)
    <3>1. <<NodeOf(b)>> \in Seq(N)
      BY <1>1, <2>1
    <3>2. QED
      BY <3>1, ConcatProperties
  <2>2. \A p \in Seq(Byte) \X Seq(N) :
          (IF HasNode(p[1]) THEN <<NodeOf(p[1])>> \o p[2] ELSE NoNode(p[1])) \in Seq(N)
    BY <1>2, <2>1
  <2>3. QED
    BY <2>2
<1>5. <<>> \in Seq(N)
  BY EmptySeq
<1> HIDE DEF g, h, N
<1>6. PICK f : Recurs(f, Seq(N), <<>>, g, h)
  BY <1>3, <1>4, <1>5, LengthRecursion
<1>7. ASSUME NEW b \in Seq(Byte)
      PROVE  f[b] = IF b = <<>> THEN <<>>
                    ELSE IF HasNode(b) THEN <<NodeOf(b)>> \o f[RestOf(b)] ELSE NoNode(b)
  <2>1. f[b] = IF b = <<>> THEN <<>> ELSE h[<<b, f[g[b]]>>]
    BY <1>6 DEF Recurs
  <2>2. g[b] \in Seq(Byte) /\ f[g[b]] \in Seq(N)
    BY <1>3, <1>6 DEF Shrinks, Recurs
  <2>3. h[<<b, f[g[b]]>>] = IF HasNode(b) THEN <<NodeOf(b)>> \o f[g[b]] ELSE NoNode(b)
    BY <2>2 DEF h
  <2>4. b # <<>> /\ HasNode(b) => g[b] = RestOf(b)
    BY DEF g
  <2>5. QED
    BY <2>1, <2>3, <2>4
<1> DEFINE Body(c, b) ==
        IF b = <<>> THEN <<>>
        ELSE LET tag == GetTagInfo(b)
                 len == GetLengthInfo(SubSeq(b, tag.size + 1, Len(b)))
                 end == tag.size + len.out.size + len.out.value
             IN IF len.rv # NoErr THEN Spoilt(len.rv)
                ELSE IF end \notin 1..Len(b) THEN Spoilt(LengthErr)
                ELSE <<AnyBuf(tag.value, SubSeq(b, 1, end))>> \o c[SubSeq(b, end + 1, Len(b))]
<1>8. ASSUME NEW c, NEW b
      PROVE  Body(c, b) = IF b = <<>> THEN <<>>
                          ELSE IF HasNode(b) THEN <<NodeOf(b)>> \o c[RestOf(b)] ELSE NoNode(b)
  BY DEF HasNode, NodeOf, RestOf, NoNode, EndOf, LenOf, TagOf
<1>9. f = [b \in Seq(Byte) |-> Body(f, b)]
  <2>1. \A b \in Seq(Byte) : f[b] = Body(f, b)
    BY <1>7, <1>8
  <2> HIDE DEF Body
  <2>2. QED
    BY <2>1, <1>6 DEF Recurs
<1>10. Chain = [b \in Seq(Byte) |-> Body(Chain, b)]
  BY <1>9 DEF Chain
<1>11. Chain[d] = Body(Chain, d)
  <2> HIDE DEF Body
  <2>1. QED
    BY <1>10
<1>12. QED
  BY <1>8, <1>11
-----------------------------------------------------------------------------
(* Whole numbers and their bytes.                                              *)
LEMMA Powers == 256^0 = 1 /\ 256^1 = 256 /\ 256^2 = 65536 /\ 256^3 = 16777216
  OBVIOUS

LEMMA NumberOfShort ==
    ASSUME NEW s \in Seq(Byte)
    PROVE  /\ Len(s) = 1 => NumberOf[s] = s[1]
           /\ Len(s) = 2 => NumberOf[s] = s[1] * 256 + s[2]
           /\ Len(s) = 3 => NumberOf[s] = (s[1] * 256 + s[2]) * 256 + s[3]
           /\ Len(s) = 4 => NumberOf[s] = ((s[1] * 256 + s[2]) * 256 + s[3]) * 256 + s[4]
<1>1. ASSUME NEW t \in Seq(Byte), t # <<>>
      PROVE  /\ Front(t) \in Seq(Byte) /\ Len(Front(t)) = Len(t) - 1
             /\ \A i \in 1..Len(t) - 1 : Front(t)[i] = t[i]
             /\ NumberOf[t] = NumberOf[Front(t)] * 256 + t[Len(t)]
  BY <1>1, NumberOfSteps, FrontLast DEF Last
<1>2. ASSUME NEW t \in Seq(Byte), Len(t) = 1 PROVE NumberOf[t] = t[1]
  <2> DEFINE u == Front(t)
  <2>1. t # <<>>
    BY <1>2, EmptySeq, Len(t) # 0
  <2>2. /\ u \in Seq(Byte) /\ Len(u) = Len(t) - 1 /\ \A i \in 1..Len(t) - 1 : u[i] = t[i]
        /\ NumberOf[t] = NumberOf[u] * 256 + t[Len(t)]
    BY <1>1, <2>1
  <2> HIDE DEF u
  <2>3. u = <<>> /\ NumberOf[u] = 0 /\ t[1] \in Byte /\ NumberOf[t] = NumberOf[u] * 256 + t[1]
    <3>1. Len(u) = 0 /\ NumberOf[t] = NumberOf[u] * 256 + t[1]
      BY <1>2, <2>2
    <3>2. u = <<>>
      BY <2>2, <3>1, EmptySeq
    <3>3. NumberOf[u] = 0
      BY <3>2, <2>2, NumberOfSteps
    <3>4. t[1] \in Byte
      BY <1>2, ElementOfSeq
    <3>5. QED
      BY <3>1, <3>2, <3>3, <3>4
  <2>4. \A x \in Byte : 0 * 256 + x = x
    BY DEF Byte
  <2>5. QED
    BY <2>3, <2>4
<1>3. ASSUME NEW t \in Seq(Byte), Len(t) = 2 PROVE NumberOf[t] = t[1] * 256 + t[2]
  <2> DEFINE u == Front(t)
  <2>1. t # <<>>
    BY <1>3, EmptySeq, Len(t) # 0
  <2>2. /\ u \in Seq(Byte) /\ Len(u) = Len(t) - 1 /\ \A i \in 1..Len(t) - 1 : u[i] = t[i]
        /\ NumberOf[t] = NumberOf[u] * 256 + t[Len(t)]
    BY <1>1, <2>1
  <2> HIDE DEF u
  <2>3. Len(u) = 1 /\ u[1] = t[1]
        /\ NumberOf[t] = NumberOf[u] * 256 + t[2]
    BY <1>3, <2>2
  <2>4. QED
    BY <1>2, <2>2, <2>3
<1>4. ASSUME NEW t \in Seq(Byte), Len(t) = 3 PROVE NumberOf[t] = (t[1] * 256 + t[2]) * 256 + t[3]
  <2> DEFINE u == Front(t)
  <2>1. t # <<>>
    BY <1>4, EmptySeq, Len(t) # 0
  <2>2. /\ u \in Seq(Byte) /\ Len(u) = Len(t) - 1 /\ \A i \in 1..Len(t) - 1 : u[i] = t[i]
        /\ NumberOf[t] = NumberOf[u] * 256 + t[Len(t)]
    BY <1>1, <2>1
  <2> HIDE DEF u
  <2>3. Len(u) = 2 /\ u[1] = t[1] /\ u[2] = t[2]
        /\ NumberOf[t] = NumberOf[u] * 256 + t[3]
    BY <1>4, <2>2
  <2>4. QED
    BY <1>3, <2>2, <2>3
<1>5. ASSUME NEW t \in Seq(Byte), Len(t) = 4 PROVE NumberOf[t] = ((t[1] * 256 + t[2]) * 256 + t[3]) * 256 + t[4]
  <2> DEFINE u == Front(t)
  <2>1. t # <<>>
    BY <1>5, EmptySeq, Len(t) # 0
  <2>2. /\ u \in Seq(Byte) /\ Len(u) = Len(t) - 1 /\ \A i \in 1..Len(t) - 1 : u[i] = t[i]
        /\ NumberOf[t] = NumberOf[u] * 256 + t[Len(t)]
    BY <1>1, <2>1
  <2> HIDE DEF u
  <2>3. Len(u) = 3 /\ u[1] = t[1] /\ u[2] = t[2] /\ u[3] = t[3]
        /\ NumberOf[t] = NumberOf[u] * 256 + t[4]
    BY <1>5, <2>2
  <2>4. QED
    BY <1>4, <2>2, <2>3
<1>6. QED
  BY <1>2, <1>3, <1>4, <1>5

LEMMA BytesOfBytes ==
    ASSUME NEW v \in Int, NEW n \in 1..4
    PROVE  BytesOf(v, n) \in Seq(Byte) /\ Len(BytesOf(v, n)) = n
<1> DEFINE b(i) == (v \div 256^(n - i)) % 256
<1>1. ASSUME NEW i \in 1..n PROVE b(i) \in Byte
  <2>1. 256^(n - i) \in Nat /\ 256^(n - i) > 0
    <3>1. ASSUME NEW k \in {0, 1, 2, 3} PROVE 256^k \in Nat /\ 256^k > 0
      <4>0. CASE k = 0
        BY <4>0
      <4>1. CASE k = 1
        BY <4>1
      <4>2. CASE k = 2
        BY <4>2
      <4>3. CASE k = 3
        BY <4>3
      <4>4. QED
        BY <4>0, <4>1, <4>2, <4>3
    <3>2. PICK k \in {0, 1, 2, 3} : k = n - i
      OBVIOUS
    <3>3. 256^k = 256^(n - i)
      BY <3>2, Zenon
    <3>4. QED
      BY <3>1, <3>3, ZenonT(30)
  <2>2. v \div 256^(n - i) \in Int
    BY <2>1
  <2>3. QED
    BY <2>2 DEF Byte
<1>2. [i \in 1..n |-> b(i)] \in Seq(Byte) /\ Len([i \in 1..n |-> b(i)]) = n
  <2> HIDE DEF b
  <2>1. QED
    BY <1>1
<1>3. QED
  BY <1>2 DEF BytesOf

(* IntToChar's bytes stand for the number, in as many bytes as it needs.       *)
LEMMA NumberOfBytesOf ==
    ASSUME NEW v \in Nat
    PROVE  /\ v < 256 => NumberOf[BytesOf(v, 1)] = v
           /\ v < 65536 => NumberOf[BytesOf(v, 2)] = v
           /\ v < 16777216 => NumberOf[BytesOf(v, 3)] = v
           /\ v < 4294967296 => NumberOf[BytesOf(v, 4)] = v
<1> DEFINE a == (v \div 16777216) % 256  b == (v \div 65536) % 256
           c == (v \div 256) % 256       d == v % 256
<1>1. /\ v < 256 => v = d
      /\ v < 65536 => v = c * 256 + d
      /\ v < 16777216 => v = (b * 256 + c) * 256 + d
      /\ v < 4294967296 => v = ((a * 256 + b) * 256 + c) * 256 + d
  <2>1. v < 256 => v = d
    OBVIOUS
  <2>2. v < 65536 => v = c * 256 + d
    OBVIOUS
  <2>3. v < 16777216 => v = (b * 256 + c) * 256 + d
    OBVIOUS
  <2>4. v < 4294967296 => v = ((a * 256 + b) * 256 + c) * 256 + d
    OBVIOUS
  <2>5. QED
    BY <2>1, <2>2, <2>3, <2>4
<1>2. v \div 1 = v
  OBVIOUS
<1>3. BytesOf(v, 1)[1] = d
  BY <1>2, Powers DEF BytesOf
<1>4. BytesOf(v, 2)[1] = c /\ BytesOf(v, 2)[2] = d
  BY <1>2, Powers DEF BytesOf
<1>5. BytesOf(v, 3)[1] = b /\ BytesOf(v, 3)[2] = c /\ BytesOf(v, 3)[3] = d
  BY <1>2, Powers DEF BytesOf
<1>6. BytesOf(v, 4)[1] = a /\ BytesOf(v, 4)[2] = b /\ BytesOf(v, 4)[3] = c /\ BytesOf(v, 4)[4] = d
  BY <1>2, Powers DEF BytesOf
<1> HIDE DEF a, b, c, d
<1>7. NumberOf[BytesOf(v, 1)] = d
  BY <1>3, BytesOfBytes, NumberOfShort, SMTT(30)
<1>8. NumberOf[BytesOf(v, 2)] = c * 256 + d
  BY <1>4, BytesOfBytes, NumberOfShort
<1>9. NumberOf[BytesOf(v, 3)] = (b * 256 + c) * 256 + d
  BY <1>5, BytesOfBytes, NumberOfShort
<1>10. NumberOf[BytesOf(v, 4)] = ((a * 256 + b) * 256 + c) * 256 + d
  BY <1>6, BytesOfBytes, NumberOfShort
<1>11. QED
  BY <1>1, <1>7, <1>8, <1>9, <1>10
-----------------------------------------------------------------------------
(* Concatenations of byte strings and what they are cut into.                  *)
LEMMA Regroup ==
    ASSUME NEW S, NEW s \in Seq(S), NEW t \in Seq(S), NEW u \in Seq(S)
    PROVE  s \o (t \o u) = (s \o t) \o u
  BY ConcatAssociative

LEMMA Halves ==
    ASSUME NEW s \in Seq(Byte), NEW t \in Seq(Byte)
    PROVE  /\ s \o t \in Seq(Byte) /\ Len(s \o t) = Len(s) + Len(t)
           /\ \A i \in 1..Len(s) : (s \o t)[i] = s[i]
           /\ \A i \in 1..Len(t) : (s \o t)[Len(s) + i] = t[i]
           /\ SubSeq(s \o t, 1, Len(s)) = s
           /\ SubSeq(s \o t, Len(s) + 1, Len(s) + Len(t)) = t
<1>1. /\ s \o t \in Seq(Byte) /\ Len(s \o t) = Len(s) + Len(t) /\ Len(s) \in Nat /\ Len(t) \in Nat
      /\ \A i \in 1..Len(s) + Len(t) : (s \o t)[i] = IF i <= Len(s) THEN s[i] ELSE t[i - Len(s)]
  BY ConcatProperties, LenProperties
<1> DEFINE u == s \o t  m == Len(s)  n == Len(t)
<1> HIDE DEF u, m, n
<1>2. /\ u \in Seq(Byte) /\ Len(u) = m + n /\ m \in Nat /\ n \in Nat
      /\ \A i \in 1..m + n : u[i] = IF i <= m THEN s[i] ELSE t[i - m]
  BY <1>1 DEF u, m, n
<1>3. (\A i \in 1..m : u[i] = s[i]) /\ \A i \in 1..n : u[m + i] = t[i]
  <2>1. \A i \in 1..m : i \in 1..m + n /\ i <= m
    BY <1>2
  <2>2. \A i \in 1..n : m + i \in 1..m + n /\ ~(m + i <= m) /\ (m + i) - m = i
    BY <1>2
  <2>3. QED
    BY <1>2, <2>1, <2>2
<1>4. \A i \in 1..m + n : u[i] \in Byte
  BY <1>2, ElementOfSeq
<1>5. SubSeq(u, 1, m) = s
  <2>1. /\ SubSeq(u, 1, m) \in Seq(Byte) /\ Len(SubSeq(u, 1, m)) = IF 1 <= m THEN m - 1 + 1 ELSE 0
        /\ \A i \in 1..(m - 1 + 1) : SubSeq(u, 1, m)[i] = u[1 + i - 1]
    BY <1>2, <1>4, SubSeqProperties
  <2>2. Len(SubSeq(u, 1, m)) = m /\ \A i \in 1..m : SubSeq(u, 1, m)[i] = s[i]
    <3>1. \A i \in 1..m : i \in 1..(m - 1 + 1) /\ 1 + i - 1 = i
      BY <1>2
    <3>2. (IF 1 <= m THEN m - 1 + 1 ELSE 0) = m
      BY <1>2
    <3>3. QED
      BY <2>1, <1>3, <3>1, <3>2
  <2>3. QED
    BY <2>1, <2>2, SeqEqual DEF m
<1>6. SubSeq(u, m + 1, m + n) = t
  <2>1. /\ SubSeq(u, m + 1, m + n) \in Seq(Byte)
        /\ Len(SubSeq(u, m + 1, m + n)) = IF m + 1 <= m + n THEN m + n - (m + 1) + 1 ELSE 0
        /\ \A i \in 1..(m + n - (m + 1) + 1) : SubSeq(u, m + 1, m + n)[i] = u[(m + 1) + i - 1]
    BY <1>2, <1>4, SubSeqProperties
  <2>2. Len(SubSeq(u, m + 1, m + n)) = n /\ \A i \in 1..n : SubSeq(u, m + 1, m + n)[i] = t[i]
    <3>1. \A i \in 1..n : i \in 1..(m + n - (m + 1) + 1) /\ (m + 1) + i - 1 = m + i
      BY <1>2
    <3>2. (IF m + 1 <= m + n THEN m + n - (m + 1) + 1 ELSE 0) = n
      BY <1>2
    <3>3. QED
      BY <2>1, <1>3, <3>1, <3>2
  <2>3. QED
    BY <2>1, <2>2, SeqEqual DEF n
<1>7. QED
  BY <1>2, <1>3, <1>5, <1>6 DEF u, m, n
-----------------------------------------------------------------------------
(* One node: tag, length and body.                                             *)
Tlv(t, b) == <<t, Len(b)>> \o b

(* The tags that are their own value, and the bodies with a length of one byte. *)
PlainTags == {2, 19, 48}
ShortBody(b) == b \in Seq(Byte) /\ Len(b) >= 1 /\ Len(b) <= 127

LEMMA Pair ==
    ASSUME NEW S, NEW x \in S, NEW y \in S
    PROVE  <<x>> \o <<y>> = <<x, y>>
<1> DEFINE a == <<x>>  b == <<y>>  z == <<x, y>>
<1>1. /\ a \in Seq(S) /\ Len(a) = 1 /\ a[1] = x /\ b \in Seq(S) /\ Len(b) = 1 /\ b[1] = y
      /\ z \in Seq(S) /\ Len(z) = 2 /\ z[1] = x /\ z[2] = y
  OBVIOUS
<1> HIDE DEF a, b, z
<1>2. /\ a \o b \in Seq(S) /\ Len(a \o b) = Len(a) + Len(b)
      /\ \A i \in 1..Len(a) + Len(b) : (a \o b)[i] = IF i <= Len(a) THEN a[i] ELSE b[i - Len(a)]
  BY <1>1, ConcatProperties
<1>3. ASSUME NEW i \in 1..2 PROVE (a \o b)[i] = z[i]
  <2>1. CASE i = 1
    BY <1>1, <1>2, <2>1
  <2>2. CASE i = 2
    BY <1>1, <1>2, <2>2
  <2>3. i = 1 \/ i = 2
    OBVIOUS
  <2>4. QED
    BY <2>1, <2>2, <2>3, Zenon
<1>4. Len(a \o b) = Len(z)
  BY <1>1, <1>2
<1>5. a \o b = z
  BY <1>1, <1>2, <1>3, <1>4, SeqEqual
<1>6. QED
  BY <1>5 DEF a, b, z

LEMMA TwoBytes ==
    ASSUME NEW x \in Byte, NEW y \in Byte
    PROVE  /\ <<x, y>> \in Seq(Byte) /\ Len(<<x, y>>) = 2
           /\ <<x, y>>[1] = x /\ <<x, y>>[2] = y
  OBVIOUS

LEMMA NodeBytes ==
    ASSUME NEW t \in PlainTags, NEW b, ShortBody(b)
    PROVE  /\ Tlv(t, b) \in Seq(Byte) /\ Len(Tlv(t, b)) = 2 + Len(b)
           /\ Tlv(t, b)[1] = t /\ Tlv(t, b)[2] = Len(b)
           /\ \A i \in 1..Len(b) : Tlv(t, b)[2 + i] = b[i]
<1>1. t \in Byte /\ Len(b) \in Byte /\ b \in Seq(Byte)
  <2>1. t \in Byte
    BY DEF PlainTags, Byte
  <2>2. \A k \in Nat : k <= 127 => k \in Byte
    BY DEF Byte
  <2>3. QED
    BY <2>1, <2>2, LenProperties DEF ShortBody
<1> DEFINE h == <<t, Len(b)>>
<1>2. h \in Seq(Byte) /\ Len(h) = 2 /\ h[1] = t /\ h[2] = Len(b)
  BY <1>1, TwoBytes
<1> HIDE DEF h
<1>3. /\ h \o b \in Seq(Byte) /\ Len(h \o b) = Len(h) + Len(b)
      /\ \A i \in 1..Len(h) : (h \o b)[i] = h[i]
      /\ \A i \in 1..Len(b) : (h \o b)[Len(h) + i] = b[i]
  BY <1>1, <1>2, Halves
<1>4. (h \o b)[1] = h[1] /\ (h \o b)[2] = h[2]
  BY <1>2, <1>3
<1>5. QED
  BY <1>2, <1>3, <1>4 DEF h, Tlv

(* The tag and the length at the head of a string of bytes that begins with a  *)
(* plain tag and a length of one byte.                                         *)
LEMMA HeadOf ==
    ASSUME NEW d \in Seq(Byte), Len(d) >= 2, d[1] \in PlainTags, d[2] <= 127
    PROVE  /\ TagOf(d) = [value |-> IF d[1] = 48 THEN 16 ELSE d[1], size |-> 1]
           /\ LenOf(d) = Ok([value |-> d[2], size |-> 1])
<1>1. d[2] \in Byte /\ Len(d) \in Nat
  BY ElementOfSeq, LenProperties
<1>2. TagOf(d) = [value |-> IF d[1] = 48 THEN 16 ELSE d[1], size |-> 1]
  <2>1. CASE d[1] = 2
    BY <2>1 DEF TagOf, GetTagInfo, ShortId, HighBit
  <2>2. CASE d[1] = 19
    BY <2>2 DEF TagOf, GetTagInfo, ShortId, HighBit
  <2>3. CASE d[1] = 48
    BY <2>3 DEF TagOf, GetTagInfo, ShortId, HighBit
  <2>4. QED
    BY <2>1, <2>2, <2>3 DEF PlainTags
<1> DEFINE r == SubSeq(d, 2, Len(d))
<1>3. r[1] = d[2]
  <2>1. \A i \in 2..Len(d) : d[i] \in Byte
    BY ElementOfSeq
  <2>2. \A i \in 1..(Len(d) - 2 + 1) : r[i] = d[2 + i - 1]
    BY <2>1, <1>1, SubSeqProperties
  <2>3. QED
    BY <2>2, <1>1
<1> HIDE DEF r
<1>4. GetLengthInfo(r) = Ok([value |-> d[2], size |-> 1])
  <2>1. ASSUME NEW x \in Nat, x <= 127 PROVE x % 128 = x /\ ~(x >= 128)
    BY <2>1
  <2>2. d[2] \in Nat
    <3>1. \A x \in Byte : x \in Nat
      BY DEF Byte
    <3>2. QED
      BY <1>1, <3>1, Zenon
  <2>3. r[1] % 128 = d[2] /\ ~(r[1] >= 128)
    BY <1>3, <2>1, <2>2
  <2>4. QED
    BY <2>3 DEF GetLengthInfo, HighBit
<1>5. LenOf(d) = GetLengthInfo(r)
  BY <1>2 DEF LenOf, r
<1>6. QED
  BY <1>2, <1>4, <1>5

(* A node at the head of a string of bytes is read as it was written.          *)
LEMMA NodeRead ==
    ASSUME NEW t \in {2, 19}, NEW b, ShortBody(b), NEW r \in Seq(Byte)
    PROVE  Chain[Tlv(t, b) \o r] = <<AnyBuf(t, Tlv(t, b))>> \o Chain[r]
<1> DEFINE n == Tlv(t, b)
           d == n \o r
<1>1. /\ n \in Seq(Byte) /\ Len(n) = 2 + Len(b) /\ n[1] = t /\ n[2] = Len(b)
      /\ Len(b) \in Nat /\ Len(b) <= 127
  BY NodeBytes, LenProperties DEF PlainTags, ShortBody
<1> HIDE DEF n
<1>2. /\ d \in Seq(Byte) /\ Len(d) = Len(n) + Len(r)
      /\ \A i \in 1..Len(n) : d[i] = n[i]
      /\ SubSeq(d, 1, Len(n)) = n /\ SubSeq(d, Len(n) + 1, Len(n) + Len(r)) = r
  BY <1>1, Halves
<1> HIDE DEF d
<1>3. Len(r) \in Nat /\ Len(d) >= 2 /\ d[1] = t /\ d[2] = Len(b)
  <2>1. 1 \in 1..Len(n) /\ 2 \in 1..Len(n)
    BY <1>1
  <2>2. QED
    BY <1>1, <1>2, <2>1, LenProperties
<1>4. /\ TagOf(d) = [value |-> IF d[1] = 48 THEN 16 ELSE d[1], size |-> 1]
      /\ LenOf(d) = Ok([value |-> d[2], size |-> 1])
  <2>1. d[1] \in PlainTags /\ d[2] <= 127
    <3>1. t \in PlainTags
      BY DEF PlainTags
    <3>2. Len(b) <= 127
      BY <1>1
    <3>3. QED
      BY <1>3, <3>1, <3>2
  <2>2. QED
    BY <1>2, <1>3, <2>1, HeadOf
<1>5. TagOf(d).size = 1 /\ TagOf(d).value = t /\ LenOf(d).rv = NoErr
      /\ LenOf(d).out.size = 1 /\ LenOf(d).out.value = Len(b)
  BY <1>3, <1>4 DEF Ok
<1>6. EndOf(d) = Len(n) /\ Len(n) \in 1..Len(d)
  BY <1>1, <1>2, <1>3, <1>5 DEF EndOf
<1>7. HasNode(d) /\ NodeOf(d) = AnyBuf(t, n) /\ RestOf(d) = r
  BY <1>2, <1>5, <1>6 DEF HasNode, NodeOf, RestOf
<1>8. d # <<>>
  BY <1>3, EmptySeq, Len(d) # 0
<1>9. Chain[d] = <<AnyBuf(t, n)>> \o Chain[r]
  BY <1>2, <1>7, <1>8, ChainSteps
<1>10. QED
  BY <1>9 DEF d, n

(* A number in as few bytes as it needs is read as it was written.             *)
LEMMA Padded ==
    ASSUME NEW v \in Nat, NEW n \in 1..4, NumberOf[BytesOf(v, n)] = v,
           n > 1 => BytesOf(v, n)[1] # 0,
           NEW c, c = IF HighBit(BytesOf(v, n)[1]) THEN << 0 >> \o BytesOf(v, n) ELSE BytesOf(v, n)
    PROVE  ShortBody(c) /\ Len(c) <= 5 /\ CharToInt(c) = v
<1> DEFINE b == BytesOf(v, n)
<1>1. b \in Seq(Byte) /\ Len(b) = n /\ NumberOf[b] = v /\ (n > 1 => b[1] # 0)
  <2>1. v \in Int
    OBVIOUS
  <2>2. b \in Seq(Byte) /\ Len(b) = n
    BY <2>1, BytesOfBytes, Zenon
  <2>3. QED
    BY <2>2, Zenon
<1>2. c = IF HighBit(b[1]) THEN <<0>> \o b ELSE b
  OBVIOUS
<1> HIDE DEF b
<1>3. CASE HighBit(b[1])
  <2>1. 0 \in Byte /\ <<0>> \in Seq(Byte) /\ Len(<<0>>) = 1 /\ <<0>>[1] = 0
    BY DEF Byte
  <2> DEFINE z == <<0>>
  <2> HIDE DEF z
  <2>2. z \in Seq(Byte) /\ Len(z) = 1 /\ z[1] = 0 /\ c = z \o b
    BY <1>2, <1>3, <2>1 DEF z
  <2>3. /\ c \in Seq(Byte) /\ Len(c) = Len(z) + Len(b) /\ \A i \in 1..Len(z) : c[i] = z[i]
        /\ SubSeq(c, Len(z) + 1, Len(z) + Len(b)) = b
    <3>1. /\ z \o b \in Seq(Byte) /\ Len(z \o b) = Len(z) + Len(b)
          /\ \A i \in 1..Len(z) : (z \o b)[i] = z[i]
          /\ SubSeq(z \o b, Len(z) + 1, Len(z) + Len(b)) = b
      BY <1>1, <2>2, Halves, Zenon
    <3>2. QED
      BY <3>1, <2>2, Zenon
  <2>4. Len(c) = n + 1 /\ c[1] = 0 /\ SubSeq(c, 2, Len(c)) = b
    BY <1>1, <2>2, <2>3
  <2>5. Tail(c) = b
    <3>1. c # <<>>
      BY <2>3, <2>4, EmptySeq
    <3>2. Tail(c) = SubSeq(c, 2, Len(c))
      BY <2>3, <3>1, TailIsSubSeq, Zenon
    <3>3. QED
      BY <2>4, <3>2, Zenon
  <2>6. CharToInt(c) = NumberOf[b]
    <3>1. c[1] = 0 /\ Len(c) > 1
      BY <2>4
    <3>2. QED
      BY <3>1, <2>5, Zenon DEF CharToInt
  <2>7. QED
    BY <1>1, <2>3, <2>4, <2>6 DEF ShortBody
<1>4. CASE ~HighBit(b[1])
  <2>1. c = b
    BY <1>2, <1>4
  <2>2. ~(c[1] = 0 /\ Len(c) > 1)
    BY <1>1, <2>1
  <2>3. CharToInt(c) = NumberOf[c]
    BY <2>2 DEF CharToInt
  <2>4. c \in Seq(Byte) /\ Len(c) = n
    BY <1>1, <2>1, Zenon
  <2>5. Len(c) >= 1 /\ Len(c) <= 127 /\ Len(c) <= 5
    BY <2>4
  <2>6. QED
    BY <1>1, <2>1, <2>3, <2>4, <2>5, Zenon DEF ShortBody
<1>5. QED
  BY <1>3, <1>4

LEMMA NumberKept ==
    ASSUME NEW v \in Nat, v <= IntMax
    PROVE  /\ IntToChar(v).rv = NoErr
           /\ ShortBody(IntToChar(v).out) /\ Len(IntToChar(v).out) <= 5
           /\ CharToInt(IntToChar(v).out) = v
<1> DEFINE n == IF v <= 255 THEN 1 ELSE IF v <= 65535 THEN 2 ELSE IF v <= 16777215 THEN 3 ELSE 4
           c == IF HighBit(BytesOf(v, n)[1]) THEN <<0>> \o BytesOf(v, n) ELSE BytesOf(v, n)
<1>1. IntToChar(v) = Ok(c)
  <2>1. ~(v < 0)
    OBVIOUS
  <2>2. QED
    BY <2>1 DEF IntToChar
<1>2. n \in 1..4
  OBVIOUS
<1>3. NumberOf[BytesOf(v, n)] = v
  <2>1. v < 4294967296
    BY SMT DEF IntMax
  <2>2. CASE n = 1
    BY <2>2, NumberOfBytesOf, SMT
  <2>3. CASE n = 2
    BY <2>3, NumberOfBytesOf, SMT
  <2>4. CASE n = 3
    BY <2>4, NumberOfBytesOf, SMT
  <2>5. CASE n = 4
    BY <2>1, <2>5, NumberOfBytesOf, SMT
  <2>6. QED
    BY <1>2, <2>2, <2>3, <2>4, <2>5, SMT
<1>4. n > 1 => BytesOf(v, n)[1] # 0
  <2>1. CASE n = 2
    <3>1. v > 255 /\ v < 65536
      BY <2>1
    <3>2. (v \div 256) % 256 # 0
      BY <3>1
    <3>3. BytesOf(v, 2)[1] = (v \div 256) % 256
      BY Powers DEF BytesOf
    <3>4. QED
      BY <2>1, <3>2, <3>3
  <2>2. CASE n = 3
    <3>1. v > 65535 /\ v < 16777216
      BY <2>2
    <3>2. (v \div 65536) % 256 # 0
      BY <3>1
    <3>3. BytesOf(v, 3)[1] = (v \div 65536) % 256
      BY Powers DEF BytesOf
    <3>4. QED
      BY <2>2, <3>2, <3>3
  <2>3. CASE n = 4
    <3>1. v > 16777215 /\ v <= 2147483647
      BY <2>3, SMT DEF IntMax
    <3>2. (v \div 16777216) % 256 # 0
      BY <3>1, SMT
    <3>3. BytesOf(v, 4)[1] = (v \div 16777216) % 256
      BY Powers, SMT DEF BytesOf
    <3>4. QED
      BY <2>3, <3>2, <3>3
  <2>4. QED
    BY <2>1, <2>2, <2>3
<1> HIDE DEF n, c
<1>5. c = IF HighBit(BytesOf(v, n)[1]) THEN <<0>> \o BytesOf(v, n) ELSE BytesOf(v, n)
  BY DEF c
<1>6. ShortBody(c) /\ Len(c) <= 5 /\ CharToInt(c) = v
  BY <1>2, <1>3, <1>4, <1>5, Padded
<1>7. QED
  BY <1>1, <1>6 DEF Ok

(* The nodes the encoders make, and what the decoders make of them.            *)
Node(t, b) == AnyBuf(t, Tlv(t, b))

LEMMA ShortLength ==
    ASSUME NEW k \in Nat, k <= 127
    PROVE  WriteLength(k) = <<k>>
  BY DEF WriteLength, LengthOfSize

LEMMA StringWritten ==
    ASSUME NEW s, ShortBody(s)
    PROVE  EncodeChar(s) = Ok(Node(19, s))
<1>1. s \in Seq(Byte) /\ Len(s) \in Nat /\ Len(s) >= 1 /\ Len(s) <= 127
  BY LenProperties DEF ShortBody
<1>2. s # <<>>
  BY <1>1, EmptySeq
<1> DEFINE buf == StringToAnyBuf(s)
<1>3. buf.data = s
  BY DEF StringToAnyBuf, AnyBuf
<1>4. 19 = DerOctet.STRING_PRINTABLE /\ 19 = DerTag.STRING_PRINTABLE /\ 19 # DerTag.INTEGER
  BY DEF DerOctet, DerTag
<1> HIDE DEF buf
<1>5. WriteTagAndLength(buf, 19) = <<19, Len(s)>>
  <2> DEFINE w == WriteLength(Len(s) + 0)
  <2>1. WriteTagAndLength(buf, 19) = (<<19>> \o w) \o <<>>
    BY <1>3, <1>4, Zenon DEF WriteTagAndLength
  <2>2. w = <<Len(s)>>
    BY <1>1, ShortLength
  <2> HIDE DEF w
  <2>3. \A k \in Nat : (<<19>> \o <<k>>) \o <<>> = <<19, k>>
    <3>1. ASSUME NEW k \in Nat PROVE (<<19>> \o <<k>>) \o <<>> = <<19, k>>
      <4>1. <<19>> \o <<k>> = <<19, k>> /\ <<19, k>> \in Seq(Nat)
        <5>1. 19 \in Nat
          OBVIOUS
        <5>2. <<19>> \o <<k>> = <<19, k>>
          BY <5>1, Pair, Zenon
        <5>3. QED
          BY <5>2
      <4>2. <<19, k>> \o <<>> = <<19, k>>
        BY <4>1, ConcatEmptySeq
      <4>3. QED
        BY <4>1, <4>2, Zenon
    <3>2. QED
      BY <3>1
  <2>4. QED
    BY <2>1, <2>2, <2>3, <1>1, Zenon
<1>6. EncodeChar(s) = Ok(AnyBuf(19, WriteTagAndLength(buf, 19) \o buf.data))
  BY <1>2, <1>4, Zenon DEF EncodeChar, WritePrintableString, WriteCharString, buf
<1>7. QED
  BY <1>3, <1>5, <1>6, Zenon DEF Node, Tlv

LEMMA NumberWritten ==
    ASSUME NEW v \in Nat, v <= IntMax
    PROVE  WriteInteger(v) = Ok(Node(2, IntToChar(v).out))
<1>1. 2 = DerOctet.INTEGER /\ 2 = DerTag.INTEGER
  BY DEF DerOctet, DerTag
<1>2. QED
  BY <1>1, NumberKept, Zenon DEF WriteInteger, Node, Tlv

(* Tag and length of a node, and its body.                                     *)
LEMMA NodeParts ==
    ASSUME NEW t \in {2, 19}, NEW b, ShortBody(b)
    PROVE  LET d == Tlv(t, b)
           IN /\ TagOf(d).size = 1 /\ TagOf(d).value = t /\ LenOf(d).rv = NoErr
              /\ LenOf(d).out.size = 1 /\ LenOf(d).out.value = Len(b)
              /\ Len(d) = 2 + Len(b) /\ SubSeq(d, 3, 2 + Len(b)) = b
<1> DEFINE d == Tlv(t, b)
<1>1. /\ d \in Seq(Byte) /\ Len(d) = 2 + Len(b) /\ d[1] = t /\ d[2] = Len(b)
      /\ b \in Seq(Byte) /\ Len(b) \in Nat /\ Len(b) <= 127 /\ t \in PlainTags /\ t # 48
  BY NodeBytes, LenProperties DEF PlainTags, ShortBody
<1>2. SubSeq(d, 3, 2 + Len(b)) = b
  <2> DEFINE h == <<t, Len(b)>>
  <2>1. t \in Byte /\ Len(b) \in Byte
    <3>1. \A k \in Nat : k <= 127 => k \in Byte
      BY DEF Byte
    <3>2. QED
      BY <1>1, <3>1 DEF PlainTags
  <2>2. h \in Seq(Byte) /\ Len(h) = 2
    BY <2>1, TwoBytes
  <2>3. d = h \o b
    BY DEF Tlv
  <2> HIDE DEF h, d
  <2>4. SubSeq(h \o b, Len(h) + 1, Len(h) + Len(b)) = b
    <3>1. b \in Seq(Byte) /\ h \in Seq(Byte)
      BY <1>1, <2>2
    <3>2. QED
      BY <3>1, Halves, Zenon
  <2>5. Len(h) + 1 = 3 /\ Len(h) + Len(b) = 2 + Len(b)
    BY <2>2
  <2>6. QED
    BY <2>3, <2>4, <2>5, Zenon
<1> HIDE DEF d
<1>3. /\ TagOf(d) = [value |-> IF d[1] = 48 THEN 16 ELSE d[1], size |-> 1]
      /\ LenOf(d) = Ok([value |-> d[2], size |-> 1])
  BY <1>1, HeadOf
<1>4. QED
  BY <1>1, <1>2, <1>3 DEF Ok, d

LEMMA StringRead ==
    ASSUME NEW s, ShortBody(s)
    PROVE  ReadPrintableString(Node(19, s)).out.data = s
<1> DEFINE d == Tlv(19, s)
<1>1. Node(19, s).data = d /\ 19 # DerTag.INTEGER
  BY DEF Node, AnyBuf, DerTag
<1>2. /\ TagOf(d).size = 1 /\ TagOf(d).value = 19
      /\ LenOf(d).out.size = 1 /\ LenOf(d).out.value = Len(s)
      /\ Len(d) = 2 + Len(s) /\ SubSeq(d, 3, 2 + Len(s)) = s
  BY NodeParts
<1>3. Len(s) \in Nat
  BY LenProperties DEF ShortBody
<1> HIDE DEF d
<1> DEFINE tag == GetTagInfo(d)
           len == GetLengthInfo(SubSeq(d, tag.size + 1, Len(d)))
           from == tag.size + len.out.size + 1
<1>4. TagOf(d) = tag /\ LenOf(d) = len
  BY Zenon DEF TagOf, LenOf
<1>5. ReadPrintableString(Node(19, s)) =
        IF tag.size + len.out.size + len.out.value # Len(d) THEN Err(LengthNotEqual)
        ELSE Ok(AnyBuf(tag.value,
                       IF tag.value = DerTag.INTEGER /\ Len(SubSeq(d, from, Len(d))) > 1
                          /\ SubSeq(d, from, Len(d))[1] = 0 /\ HighBit(SubSeq(d, from, Len(d))[2])
                       THEN Tail(SubSeq(d, from, Len(d))) ELSE SubSeq(d, from, Len(d))))
  BY <1>1, Zenon DEF ReadPrintableString, ReadTagAndLength
<1> HIDE DEF tag, len
<1>6. /\ tag.size + len.out.size + len.out.value = Len(d) /\ from = 3 /\ tag.value = 19
      /\ SubSeq(d, 3, Len(d)) = s
  BY <1>2, <1>3, <1>4
<1> HIDE DEF from
<1>7. ReadPrintableString(Node(19, s)) = Ok(AnyBuf(19, s))
  BY <1>1, <1>5, <1>6, Zenon
<1>8. QED
  BY <1>7 DEF Ok, AnyBuf

LEMMA NumberRead ==
    ASSUME NEW v \in Nat, v <= IntMax
    PROVE  ReadInteger(Node(2, IntToChar(v).out)).out = v
<1> DEFINE c == IntToChar(v).out
           d == Tlv(2, c)
<1>0. ShortBody(c) /\ CharToInt(c) = v
  BY NumberKept
<1> HIDE DEF c
<1>1. Node(2, c).data = d
  BY DEF Node, AnyBuf
<1>2. /\ TagOf(d).size = 1 /\ LenOf(d).rv = NoErr
      /\ LenOf(d).out.size = 1 /\ LenOf(d).out.value = Len(c)
      /\ SubSeq(d, 3, 2 + Len(c)) = c
  BY <1>0, NodeParts
<1>3. Len(c) \in Nat
  BY <1>0, LenProperties DEF ShortBody
<1> HIDE DEF d
<1> DEFINE tag == GetTagInfo(d)
           len == GetLengthInfo(SubSeq(d, tag.size + 1, Len(d)))
           behind == tag.size + len.out.size
<1>4. TagOf(d) = tag /\ LenOf(d) = len
  BY Zenon DEF TagOf, LenOf
<1>5. ReadInteger(Node(2, c)) =
        IF len.rv # NoErr THEN len ELSE Ok(CharToInt(SubSeq(d, behind + 1, behind + len.out.value)))
  BY <1>1, Zenon DEF ReadInteger
<1> HIDE DEF tag, len
<1>6. len.rv = NoErr /\ behind + 1 = 3 /\ behind + len.out.value = 2 + Len(c)
  BY <1>2, <1>3, <1>4
<1> HIDE DEF behind
<1>7. ReadInteger(Node(2, c)) = Ok(v)
  BY <1>0, <1>2, <1>5, <1>6, Zenon
<1>8. QED
  BY <1>7 DEF Ok, c
-----------------------------------------------------------------------------
(* The sequence around the nodes.                                              *)
Nodes == {Node(p[1], p[2]) : p \in {2, 19} \X {b \in Seq(Byte) : ShortBody(b)}}

LEMMA NodeIn ==
    ASSUME NEW t \in {2, 19}, NEW b, ShortBody(b)
    PROVE  Node(t, b) \in Nodes
<1>1. b \in {s \in Seq(Byte) : ShortBody(s)}
  BY DEF ShortBody
<1> DEFINE p == <<t, b>>
<1>2. p \in {2, 19} \X {s \in Seq(Byte) : ShortBody(s)} /\ p[1] = t /\ p[2] = b
  BY <1>1
<1> HIDE DEF p
<1>3. QED
  BY <1>2 DEF Nodes

LEMMA NodeFacts ==
    ASSUME NEW x \in Nodes
    PROVE  /\ x.data \in Seq(Byte) /\ Len(x.data) \in Nat
           /\ Len(x.data) >= 1 /\ Len(x.data) <= 129
           /\ \A r \in Seq(Byte) : Chain[x.data \o r] = <<x>> \o Chain[r]
<1>1. PICK t \in {2, 19}, b \in Seq(Byte) : ShortBody(b) /\ x = Node(t, b)
  BY DEF Nodes
<1>2. x.data = Tlv(t, b) /\ x = AnyBuf(t, Tlv(t, b))
  BY <1>1 DEF Node, AnyBuf
<1>3. t \in PlainTags
  BY DEF PlainTags
<1>4. Tlv(t, b) \in Seq(Byte) /\ Len(Tlv(t, b)) = 2 + Len(b)
  BY <1>1, <1>3, NodeBytes
<1>5. Len(b) \in Nat /\ Len(b) <= 127
  BY <1>1, LenProperties DEF ShortBody
<1>6. \A r \in Seq(Byte) : Chain[x.data \o r] = <<x>> \o Chain[r]
  <2>1. ASSUME NEW r \in Seq(Byte) PROVE Chain[Tlv(t, b) \o r] = <<AnyBuf(t, Tlv(t, b))>> \o Chain[r]
    BY <1>1, NodeRead
  <2>2. QED
    BY <1>2, <2>1, Zenon
<1>7. QED
  BY <1>2, <1>4, <1>5, <1>6

(* The nodes' bytes, one after the other.                                      *)
Flat(c) == FlattenSeq([i \in DOMAIN c |-> c[i].data])

LEMMA FlatSteps ==
    ASSUME NEW c \in Seq(Nodes), NEW n \in {4, 5}, Len(c) = n
    PROVE  \E f : /\ Flat(c) = f[n] /\ f[1] = c[1].data
                  /\ \A i \in 2..n : f[i] = f[i - 1] \o c[i].data
<1> DEFINE s == [i \in DOMAIN c |-> c[i].data]
           f2 == s[1] \o s[2]
           f3 == f2 \o s[3]
           f4 == f3 \o s[4]
           f5 == f4 \o s[5]
           Body(f) == [i \in 1..n |-> IF i = 1 THEN s[i] ELSE f[i - 1] \o s[i]]
           after == [i \in 1..n |-> IF i = 1 THEN s[1] ELSE IF i = 2 THEN f2
                                   ELSE IF i = 3 THEN f3 ELSE IF i = 4 THEN f4 ELSE f5]
           flat == CHOOSE f : f = Body(f)
<1>1. DOMAIN c = 1..n /\ Len(s) = n /\ \A i \in 1..n : s[i] = c[i].data
  BY LenProperties
<1> HIDE DEF s
<1>2. after = Body(after)
  <2>1. f3 = f2 \o s[3] /\ f4 = f3 \o s[4] /\ f5 = f4 \o s[5] /\ f2 = s[1] \o s[2]
    OBVIOUS
  <2> HIDE DEF f2, f3, f4, f5
  <2> DEFINE a == after
  <2>3. a[1] = s[1] /\ a[2] = f2 /\ a[3] = f3 /\ a[4] = f4 /\ (n = 5 => a[5] = f5)
    OBVIOUS
  <2>4. DOMAIN a = 1..n /\ a = [i \in 1..n |-> a[i]]
    OBVIOUS
  <2> HIDE DEF a
  <2>2. ASSUME NEW i \in 1..n
        PROVE  a[i] = IF i = 1 THEN s[i] ELSE a[i - 1] \o s[i]
    <3>1. i = 1 \/ i = 2 \/ i = 3 \/ i = 4 \/ i = 5
      OBVIOUS
    <3>2. CASE i = 1
      BY <2>3, <3>2
    <3>3. CASE i = 2
      <4>1. i - 1 = 1 /\ i # 1
        BY <3>3
      <4>2. QED
        BY <2>1, <2>3, <3>3, <4>1, Zenon
    <3>4. CASE i = 3
      <4>1. i - 1 = 2 /\ i # 1
        BY <3>4
      <4>2. QED
        BY <2>1, <2>3, <3>4, <4>1, Zenon
    <3>5. CASE i = 4
      <4>1. i - 1 = 3 /\ i # 1
        BY <3>5
      <4>2. QED
        BY <2>1, <2>3, <3>5, <4>1, Zenon
    <3>6. CASE i = 5
      <4>1. i - 1 = 4 /\ i # 1 /\ n = 5
        BY <3>6
      <4>2. QED
        BY <2>1, <2>3, <3>6, <4>1, Zenon
    <3>7. QED
      BY <3>1, <3>2, <3>3, <3>4, <3>5, <3>6, Zenon
  <2>5. \A i \in 1..n : a[i] = IF i = 1 THEN s[i] ELSE a[i - 1] \o s[i]
    BY <2>2
  <2>6. a = [i \in 1..n |-> IF i = 1 THEN s[i] ELSE a[i - 1] \o s[i]]
    BY <2>4, <2>5
  <2>7. QED
    BY <2>6 DEF a
<1>3. flat = Body(flat)
  <2> HIDE DEF after, Body
  <2>1. QED
    BY <1>2
<1>4. Flat(c) = flat[n]
  <2>1. Len(s) # 0
    BY <1>1
  <2>2. Flat(c) = FlattenSeq(s)
    BY Zenon DEF Flat, s
  <2>3. QED
    BY <1>1, <2>1, <2>2, Zenon DEF FlattenSeq
<1> HIDE DEF flat
<1>5. flat[1] = s[1] /\ \A i \in 2..n : flat[i] = flat[i - 1] \o s[i]
  <2>1. 1 \in 1..n
    OBVIOUS
  <2>2. flat = [i \in 1..n |-> IF i = 1 THEN s[i] ELSE flat[i - 1] \o s[i]]
    BY <1>3
  <2>3. flat[1] = s[1]
    BY <2>1, <2>2
  <2>4. ASSUME NEW i \in 2..n PROVE flat[i] = flat[i - 1] \o s[i]
    <3>1. i \in 1..n /\ i # 1
      OBVIOUS
    <3>2. QED
      BY <2>2, <3>1, Zenon
  <2>5. QED
    BY <2>3, <2>4
<1>6. flat[1] = c[1].data /\ \A i \in 2..n : flat[i] = flat[i - 1] \o c[i].data
  <2>1. 1 \in 1..n /\ \A i \in 2..n : i \in 1..n
    OBVIOUS
  <2>2. QED
    BY <1>1, <1>5, <2>1, Zenon
<1>7. QED
  BY <1>4, <1>6

LEMMA Prefix ==
    ASSUME NEW S, NEW c \in Seq(S), NEW k \in Nat, k >= 2, k <= Len(c)
    PROVE  /\ SubSeq(c, 1, k - 1) \in Seq(S)
           /\ SubSeq(c, 1, k) = SubSeq(c, 1, k - 1) \o <<c[k]>>
  BY SubSeqRecursiveSecond, LenProperties, ElementOfSeq, SubSeqProperties

(* Nodes written one after the other are read one after the other.             *)
LEMMA ChainRead ==
    ASSUME NEW c \in Seq(Nodes), NEW n \in {4, 5}, Len(c) = n
    PROVE  /\ Flat(c) \in Seq(Byte) /\ Len(Flat(c)) \in Nat /\ Len(Flat(c)) <= 645
           /\ Chain[Flat(c)] = c
<1>1. PICK f : /\ Flat(c) = f[n] /\ f[1] = c[1].data
               /\ \A i \in 2..n : f[i] = f[i - 1] \o c[i].data
  BY FlatSteps
<1> DEFINE Reads(d, s) == \A r \in Seq(Byte) :
                              Chain[r] \in Seq(Nodes) => Chain[d \o r] = s \o Chain[r]
           Sized(k) == f[k] \in Seq(Byte) /\ Len(f[k]) \in Nat /\ Len(f[k]) <= 129 * k
           Good(k) == Sized(k) /\ Reads(f[k], SubSeq(c, 1, k))
<1>2. \A i \in 1..n : c[i] \in Nodes
  BY ElementOfSeq
<1>3. SubSeq(c, 1, n) = c
  BY SubSeqFull
<1>4. Good(1)
  <2>1. c[1] \in Nodes
    BY <1>2
  <2>2. /\ c[1].data \in Seq(Byte) /\ Len(c[1].data) \in Nat
        /\ Len(c[1].data) >= 1 /\ Len(c[1].data) <= 129
        /\ \A r \in Seq(Byte) : Chain[c[1].data \o r] = <<c[1]>> \o Chain[r]
    BY <2>1, NodeFacts
  <2>3. SubSeq(c, 1, 1) = <<c[1]>>
    <3>1. /\ SubSeq(c, 1, 1) \in Seq(Nodes) /\ Len(SubSeq(c, 1, 1)) = 1
          /\ SubSeq(c, 1, 1)[1] = c[1]
      BY <1>2, SubSeqProperties
    <3>2. <<c[1]>> \in Seq(Nodes) /\ Len(<<c[1]>>) = 1 /\ <<c[1]>>[1] = c[1]
      BY <2>1
    <3> DEFINE a == SubSeq(c, 1, 1)  b == <<c[1]>>
    <3>3. \A i \in 1..Len(a) : a[i] = b[i]
      <4>1. \A i \in 1..1 : i = 1
        OBVIOUS
      <4>2. QED
        BY <3>1, <3>2, <4>1, Zenon
    <3> HIDE DEF a, b
    <3>4. a \in Seq(Nodes) /\ b \in Seq(Nodes) /\ Len(a) = Len(b)
      BY <3>1, <3>2 DEF a, b
    <3>5. a = b
      BY <3>3, <3>4, SeqEqual, Zenon
    <3>6. QED
      BY <3>5 DEF a, b
  <2>4. Reads(f[1], SubSeq(c, 1, 1))
    BY <1>1, <2>2, <2>3, Zenon
  <2> HIDE DEF Reads
  <2>5. QED
    BY <1>1, <2>2, <2>4
<1>5. ASSUME NEW k \in 2..n, Good(k - 1) PROVE Good(k)
  <2>1. c[k] \in Nodes /\ f[k] = f[k - 1] \o c[k].data /\ k \in Nat /\ k >= 2 /\ k <= Len(c)
    <3>1. k \in 1..n /\ k \in Nat /\ k >= 2 /\ k <= n
      OBVIOUS
    <3>2. QED
      BY <1>1, <1>2, <3>1, Zenon
  <2> DEFINE x == c[k]  d == c[k].data
  <2>2. /\ d \in Seq(Byte) /\ Len(d) \in Nat
        /\ Len(d) >= 1 /\ Len(d) <= 129
        /\ \A r \in Seq(Byte) : Chain[d \o r] = <<x>> \o Chain[r]
    BY <2>1, NodeFacts
  <2>3. x \in Nodes /\ f[k] = f[k - 1] \o d
    BY <2>1
  <2> DEFINE p == SubSeq(c, 1, k - 1)  g == f[k - 1]
  <2>4. p \in Seq(Nodes) /\ SubSeq(c, 1, k) = p \o <<x>>
    BY <2>1, Prefix
  <2>5. /\ g \in Seq(Byte) /\ Len(g) \in Nat /\ Len(g) <= 129 * (k - 1) /\ Reads(g, p)
        /\ f[k] = g \o d
    BY <1>5, <2>3
  <2> HIDE DEF p, g, x, d
  <2>6. Sized(k)
    <3>1. g \o d \in Seq(Byte) /\ Len(g \o d) = Len(g) + Len(d)
      BY <2>2, <2>5, Halves
    <3>2. Len(g) + Len(d) \in Nat /\ Len(g) + Len(d) <= 129 * k
      BY <2>2, <2>5
    <3>3. QED
      BY <2>5, <3>1, <3>2
  <2>7. ASSUME NEW r \in Seq(Byte), Chain[r] \in Seq(Nodes)
        PROVE  Chain[f[k] \o r] = SubSeq(c, 1, k) \o Chain[r]
    <3>1. <<x>> \in Seq(Nodes)
      BY <2>3
    <3>2. <<x>> \o Chain[r] \in Seq(Nodes) /\ d \o r \in Seq(Byte)
      BY <2>2, <2>7, <3>1, ConcatProperties
    <3>3. Chain[d \o r] = <<x>> \o Chain[r]
      BY <2>2
    <3>4. Chain[g \o (d \o r)] = p \o (<<x>> \o Chain[r])
      BY <2>5, <3>2, <3>3
    <3>5. (g \o d) \o r = g \o (d \o r)
      <4>1. g \in Seq(Byte) /\ d \in Seq(Byte) /\ r \in Seq(Byte)
        BY <2>2, <2>5
      <4>2. QED
        BY <4>1, Regroup, SMTT(30)
    <3>6. p \o (<<x>> \o Chain[r]) = (p \o <<x>>) \o Chain[r]
      <4>1. p \in Seq(Nodes) /\ <<x>> \in Seq(Nodes) /\ Chain[r] \in Seq(Nodes)
        BY <2>4, <2>7, <3>1
      <4> DEFINE z == <<x>>  y == Chain[r]
      <4> HIDE DEF z, y, p, d
      <4>2. p \in Seq(Nodes) /\ z \in Seq(Nodes) /\ y \in Seq(Nodes)
        BY <4>1 DEF z, y
      <4>3. p \o (z \o y) = (p \o z) \o y
        BY <4>2, Regroup, SMTT(30)
      <4>4. QED
        BY <4>3 DEF z, y
    <3>7. QED
      BY <2>4, <2>5, <3>4, <3>5, <3>6, Zenon
  <2>8. QED
    BY <2>6, <2>7
<1>6. Good(n)
  <2> HIDE DEF Good
  <2>1. Good(2)
    BY <1>4, <1>5
  <2>2. Good(3)
    BY <2>1, <1>5
  <2>3. Good(4)
    BY <2>2, <1>5
  <2>4. n = 5 => Good(5)
    BY <2>3, <1>5
  <2>5. QED
    BY <2>3, <2>4
<1>7. Chain[<<>>] = <<>> /\ <<>> \in Seq(Byte) /\ <<>> \in Seq(Nodes)
  BY ChainSteps, EmptySeq
<1>8. Chain[Flat(c) \o <<>>] = c \o <<>>
  BY <1>1, <1>3, <1>6, <1>7
<1>9. Flat(c) \o <<>> = Flat(c) /\ c \o <<>> = c
  BY <1>1, <1>6, ConcatEmptySeq
<1>10. QED
  BY <1>1, <1>6, <1>8, <1>9

(* A length, in its short or in its long form, is read as it was written.      *)
TwoByteLength(m) == m < 65535
LEMMA LengthRead ==
    ASSUME NEW m \in Nat, TwoByteLength(m), NEW r \in Seq(Byte)
    PROVE  LET w == WriteLength(m)
           IN /\ w \in Seq(Byte) /\ Len(w) \in Nat /\ Len(w) >= 1 /\ Len(w) <= 3
              /\ GetLengthInfo(w \o r) = Ok([value |-> m, size |-> Len(w)])
<1> DEFINE w == WriteLength(m)
           d == w \o r
<1>1. CASE m <= 127
  <2>1. w = <<m>>
    BY <1>1, ShortLength
  <2>2. m \in Byte
    BY <1>1 DEF Byte
  <2>3. w \in Seq(Byte) /\ Len(w) = 1 /\ w[1] = m
    BY <2>1, <2>2
  <2> HIDE DEF w
  <2>4. d[1] = m
    BY <2>3, Halves
  <2> HIDE DEF d
  <2>5. d[1] % 128 = m /\ ~(d[1] >= 128)
    <3>1. m % 128 = m /\ ~(m >= 128)
      BY <1>1
    <3>2. QED
      BY <2>4, <3>1
  <2>6. GetLengthInfo(d) = Ok([value |-> m, size |-> 1])
    BY <2>5 DEF GetLengthInfo, HighBit
  <2>7. QED
    BY <2>3, <2>6 DEF w, d
<1>2. CASE m > 127
  <2> DEFINE k == IF m <= 255 THEN 1 ELSE 2
             z == <<128 + k>>
             b == BytesOf(m, k)
  <2>1. LengthOfSize(m) = k + 1 /\ k \in 1..2 /\ k \in 1..4
    BY <1>2, SMT DEF LengthOfSize, TwoByteLength
  <2>2. w = z \o b
    <3>1. k + 1 # 1 /\ 128 + (k + 1) - 1 = 128 + k /\ (k + 1) - 1 = k
      OBVIOUS
    <3> HIDE DEF k
    <3>2. QED
      BY <2>1, <3>1, Zenon DEF WriteLength
  <2>3. b \in Seq(Byte) /\ Len(b) = k
    <3>1. m \in Int
      OBVIOUS
    <3> HIDE DEF k
    <3>2. QED
      BY <2>1, <3>1, BytesOfBytes, Zenon
  <2>4. NumberOf[b] = m
    BY <1>2, NumberOfBytesOf, SMT DEF TwoByteLength
  <2>5. z \in Seq(Byte) /\ Len(z) = 1 /\ z[1] = 128 + k
    <3>1. 128 + k \in Byte
      BY DEF Byte
    <3> HIDE DEF k
    <3>2. QED
      BY <3>1
  <2> HIDE DEF z, b, k, w
  <2>6. /\ w \in Seq(Byte) /\ Len(w) = 1 + k /\ w[1] = 128 + k /\ SubSeq(w, 2, 1 + k) = b
    <3>1. /\ z \o b \in Seq(Byte) /\ Len(z \o b) = Len(z) + Len(b)
          /\ \A i \in 1..Len(z) : (z \o b)[i] = z[i]
          /\ SubSeq(z \o b, Len(z) + 1, Len(z) + Len(b)) = b
      BY <2>3, <2>5, Halves, ZenonT(40)
    <3>2. 1 \in 1..Len(z) /\ Len(z) + 1 = 2 /\ Len(z) + Len(b) = 1 + k
      BY <2>3, <2>5
    <3>3. QED
      BY <2>2, <2>5, <3>1, <3>2, Zenon
  <2>7. /\ d \in Seq(Byte) /\ \A i \in 1..Len(w) : d[i] = w[i]
    BY <2>6, Halves, Zenon
  <2>8. d[1] = 128 + k
    <3>1. 1 \in 1..Len(w)
      BY <2>1, <2>6
    <3>2. QED
      BY <2>6, <2>7, <3>1, Zenon
  <2>9. SubSeq(d, 2, k + 1) = b
    <3>1. 2 \in 1..Len(w) /\ 1 + k \in 1..Len(w) /\ k + 1 = 1 + k
      BY <2>1, <2>6
    <3>2. SubSeq(d, 2, 1 + k) = SubSeq(w, 2, 1 + k)
      BY <2>6, <3>1, SubSeqOfConcat1, Zenon
    <3>3. QED
      BY <2>6, <3>1, <3>2, Zenon
  <2> HIDE DEF d
  <2>10. d[1] % 128 = k /\ d[1] >= 128 /\ ~(k > 4) /\ k # 0
    <3>1. k = 1 \/ k = 2
      BY <2>1
    <3>2. (128 + k) % 128 = k /\ 128 + k >= 128 /\ ~(k > 4) /\ k # 0
      BY <3>1
    <3>3. QED
      BY <2>8, <3>2
  <2>11. GetLengthInfo(d) = Ok([value |-> NumberOf[SubSeq(d, 2, k + 1)], size |-> k + 1])
    BY <2>10, Zenon DEF GetLengthInfo, HighBit
  <2>12. GetLengthInfo(d) = Ok([value |-> m, size |-> Len(w)])
    <3>1. k + 1 = Len(w)
      BY <2>1, <2>6
    <3>2. QED
      BY <2>4, <2>9, <2>11, <3>1, Zenon
  <2>13. Len(w) \in Nat /\ Len(w) >= 1 /\ Len(w) <= 3
    BY <2>1, <2>6
  <2>14. QED
    BY <2>6, <2>12, <2>13 DEF w, d
<1>3. QED
  BY <1>1, <1>2

(* A chain of nodes, packed and unpacked.                                      *)
LEMMA QueueRead ==
    ASSUME NEW obj, NEW n \in {4, 5}, obj.chain \in Seq(Nodes), Len(obj.chain) = n
    PROVE  LET data == PackQueue(obj)
           IN /\ data \in Seq(Byte) /\ Len(data) \in Nat /\ TwoByteLength(Len(data))
              /\ UnpackQueue(data) = [chain |-> obj.chain, next |-> 1]
<1> DEFINE c == obj.chain
           b == Flat(c)
           w == WriteLength(Len(b))
           d == <<48>> \o w \o b
<1>1. b \in Seq(Byte) /\ Len(b) \in Nat /\ Len(b) <= 645 /\ Chain[b] = c /\ c \in Seq(Nodes) /\ Len(c) = n
  <2>1. c \in Seq(Nodes) /\ Len(c) = n
    OBVIOUS
  <2> HIDE DEF c
  <2>2. /\ Flat(c) \in Seq(Byte) /\ Len(Flat(c)) \in Nat /\ Len(Flat(c)) <= 645
        /\ Chain[Flat(c)] = c
    BY <2>1, ChainRead, ZenonT(40)
  <2>3. QED
    BY <2>1, <2>2
<1>2. PackQueue(obj) = d
  <2>1. 48 = DerOctet.SEQUENCE
    BY DEF DerOctet, DerTag
  <2>2. PackQueue(obj) = <<48>> \o WriteLength(Len(Flat(c))) \o Flat(c)
    BY <2>1, Zenon DEF PackQueue, WriteSequence, Flat, Ok, AnyBuf
  <2>3. QED
    BY <2>2
<1> HIDE DEF b, c
<1>3. /\ w \in Seq(Byte) /\ Len(w) \in Nat /\ Len(w) >= 1 /\ Len(w) <= 3
      /\ GetLengthInfo(w \o b) = Ok([value |-> Len(b), size |-> Len(w)])
  <2>1. TwoByteLength(Len(b))
    BY <1>1, SMT DEF TwoByteLength
  <2>2. QED
    BY <1>1, <2>1, LengthRead
<1> HIDE DEF w
<1> DEFINE z == <<48>>  v == w \o b  h == z \o w
<1>4. z \in Seq(Byte) /\ Len(z) = 1 /\ z[1] = 48
  BY DEF Byte
<1>5. d = h \o b
  OBVIOUS
<1> HIDE DEF z
<1>6. h \in Seq(Byte) /\ Len(h) = 1 + Len(w)
  <2>1. h \in Seq(Byte) /\ Len(h) = Len(z) + Len(w)
    BY <1>3, <1>4, Halves, Zenon
  <2>2. QED
    BY <1>4, <2>1
<1>7. d = z \o v
  <2>1. (z \o w) \o b = z \o (w \o b)
    <3>1. z \in Seq(Byte) /\ w \in Seq(Byte) /\ b \in Seq(Byte)
      BY <1>1, <1>3, <1>4
    <3>2. QED
      BY <3>1, ConcatAssociative
  <2>2. QED
    BY <1>5, <2>1 DEF h, v
<1>8. v \in Seq(Byte) /\ Len(v) = Len(w) + Len(b)
  BY <1>1, <1>3, Halves
<1> HIDE DEF v, h, d
<1>9. /\ d \in Seq(Byte) /\ Len(d) = 1 + Len(w) + Len(b) /\ d[1] = 48
      /\ SubSeq(d, 2, Len(d)) = v
  <2>1. /\ z \o v \in Seq(Byte) /\ Len(z \o v) = Len(z) + Len(v)
        /\ \A i \in 1..Len(z) : (z \o v)[i] = z[i]
        /\ SubSeq(z \o v, Len(z) + 1, Len(z) + Len(v)) = v
    BY <1>4, <1>8, Halves, ZenonT(40)
  <2>2. /\ d \in Seq(Byte) /\ Len(d) = Len(z) + Len(v)
        /\ \A i \in 1..Len(z) : d[i] = z[i]
        /\ SubSeq(d, Len(z) + 1, Len(z) + Len(v)) = v
    BY <1>7, <2>1, Zenon
  <2>3. Len(z) + Len(v) = 1 + Len(w) + Len(b) /\ Len(z) + 1 = 2 /\ 1 \in 1..Len(z)
    BY <1>1, <1>3, <1>4, <1>8
  <2>4. QED
    BY <1>4, <2>2, <2>3, Zenon
<1>10. SubSeq(d, 1 + Len(w) + 1, Len(d)) = b
  <2>1. SubSeq(h \o b, Len(h) + 1, Len(h) + Len(b)) = b
    BY <1>1, <1>6, Halves
  <2>2. Len(h) + 1 = 1 + Len(w) + 1 /\ Len(h) + Len(b) = Len(d)
    BY <1>1, <1>3, <1>6, <1>9
  <2>3. QED
    BY <1>5, <2>1, <2>2, Zenon
<1>11. GetTagInfo(d) = [value |-> 16, size |-> 1]
  BY <1>9 DEF GetTagInfo, ShortId, HighBit
<1> DEFINE tag == GetTagInfo(d)
           len == GetLengthInfo(SubSeq(d, tag.size + 1, Len(d)))
<1>12. tag.value = 16 /\ tag.size = 1 /\ 16 = DerTag.SEQUENCE
  BY <1>11 DEF DerTag
<1> HIDE DEF tag
<1>13. len = Ok([value |-> Len(b), size |-> Len(w)])
  <2>1. tag.size + 1 = 2
    BY <1>12
  <2>2. QED
    BY <1>3, <1>9, <2>1, Zenon DEF v
<1> HIDE DEF len
<1>14. len.rv = NoErr /\ len.out.size = Len(w) /\ len.out.value = Len(b)
  BY <1>13 DEF Ok
<1>15. ReadSequence(StringToAnyBuf(d)) =
         IF tag.value # DerTag.SEQUENCE THEN Err(InvalidTag)
         ELSE IF len.rv # NoErr THEN len
         ELSE IF Len(d) # tag.size + len.out.size + len.out.value THEN Err(LengthNotEqual)
         ELSE ReadChain(SubSeq(d, tag.size + len.out.size + 1, Len(d)))
  <2>1. StringToAnyBuf(d).data = d
    BY DEF StringToAnyBuf, AnyBuf
  <2>2. QED
    BY <2>1, Zenon DEF ReadSequence, tag, len
<1>16. ReadSequence(StringToAnyBuf(d)) = ReadChain(b)
  <2>1. Len(d) = tag.size + len.out.size + len.out.value /\ tag.size + len.out.size + 1 = 1 + Len(w) + 1
    BY <1>1, <1>3, <1>9, <1>12, <1>14
  <2>2. QED
    BY <1>10, <1>12, <1>14, <1>15, <2>1, Zenon
<1>17. ReadChain(b) = Ok(c)
  <2>1. Last(c).data # <<>>
    <3>1. n \in 1..Len(c)
      BY <1>1
    <3>2. c[n] \in Nodes
      BY <1>1, <3>1, ElementOfSeq
    <3>3. Last(c) = c[n]
      BY <1>1, Zenon DEF Last
    <3>4. Last(c).data \in Seq(Byte) /\ Len(Last(c).data) >= 1
      BY <3>2, <3>3, NodeFacts
    <3>5. QED
      BY <3>4, EmptySeq
  <2>2. QED
    BY <1>1, <2>1, Zenon DEF ReadChain
<1>18. c # <<>>
  BY <1>1, EmptySeq
<1>19. UnpackQueue(d) = [chain |-> c, next |-> 1]
  <2>1. ReadSequence(StringToAnyBuf(d)).out = c
    BY <1>16, <1>17 DEF Ok
  <2>2. QED
    BY <1>18, <2>1, Zenon DEF UnpackQueue
<1>20. Len(d) \in Nat /\ TwoByteLength(Len(d))
  BY <1>1, <1>3, <1>9, SMT DEF TwoByteLength
<1>21. QED
  BY <1>2, <1>9, <1>19, <1>20, Zenon DEF c
-----------------------------------------------------------------------------
(* The messages of an exchange: what of an array is sent, and the nodes it is  *)
(* sent in.                                                                    *)

(* The arrays of a struct: t is what of the array s is sent.                   *)
Sends(t, s) == /\ ShortBody(t) /\ Len(t) <= Len(s)
               /\ \A i \in 1..Len(s) : s[i] = IF i <= Len(t) THEN t[i] ELSE 0

LEMMA StringSent ==
    ASSUME NEW s \in Seq(Byte), Len(s) <= 127, IsString(s)
    PROVE  Sends(Terminated(s), s)
<1>1. PICK n \in 1..Len(s) : /\ \A i \in 1..(n - 1) : s[i] # 0
                             /\ \A i \in n..Len(s) : s[i] = 0
  BY DEF IsString
<1> DEFINE I == {i \in 1..Len(s) : s[i] = 0}
<1>2. Len(s) \in Nat /\ n \in Nat /\ n >= 1 /\ n <= Len(s) /\ n \in n..Len(s)
  BY LenProperties
<1>3. n \in I /\ \A i \in I : n <= i
  <2>1. n \in I
    BY <1>1, <1>2
  <2>2. ASSUME NEW i \in 1..Len(s), s[i] = 0 PROVE n <= i
    <3>1. ~(i \in 1..(n - 1))
      BY <1>1, <2>2
    <3>2. QED
      BY <1>2, <3>1
  <2>3. QED
    BY <2>1, <2>2
<1>4. SelectInSeq(s, LAMBDA b : b = 0) = n
  <2> DEFINE least == CHOOSE x \in I : \A y \in I : x <= y
  <2>1. SelectInSeq(s, LAMBDA b : b = 0) = least
    BY <1>3 DEF SelectInSeq, Min
  <2>2. least \in I /\ \A y \in I : least <= y
    BY <1>3
  <2> HIDE DEF least
  <2>3. least \in 1..Len(s) /\ least <= n /\ n <= least
    BY <1>3, <2>2
  <2>4. QED
    BY <1>2, <2>1, <2>3
<1>5. Terminated(s) = SubSeq(s, 1, n)
  BY <1>4, Zenon DEF Terminated
<1>6. /\ SubSeq(s, 1, n) \in Seq(Byte) /\ Len(SubSeq(s, 1, n)) = n
      /\ \A i \in 1..n : SubSeq(s, 1, n)[i] = s[i]
  <2>1. \A i \in 1..n : s[i] \in Byte
    BY <1>2, ElementOfSeq
  <2>2. /\ SubSeq(s, 1, n) \in Seq(Byte) /\ Len(SubSeq(s, 1, n)) = IF 1 <= n THEN n - 1 + 1 ELSE 0
        /\ \A i \in 1..(n - 1 + 1) : SubSeq(s, 1, n)[i] = s[1 + i - 1]
    BY <1>2, <2>1, SubSeqProperties
  <2>3. n - 1 + 1 = n /\ 1 <= n /\ \A i \in 1..n : 1 + i - 1 = i
    BY <1>2
  <2>4. QED
    BY <2>2, <2>3
<1> DEFINE t == Terminated(s)
<1>7. t \in Seq(Byte) /\ Len(t) = n /\ \A i \in 1..n : t[i] = s[i]
  BY <1>5, <1>6, Zenon
<1> HIDE DEF t
<1>8. ASSUME NEW i \in 1..Len(s) PROVE s[i] = IF i <= Len(t) THEN t[i] ELSE 0
  <2>1. CASE i <= n
    <3>1. i \in 1..n
      BY <1>2, <2>1
    <3>2. QED
      BY <1>7, <3>1, <2>1
  <2>2. CASE ~(i <= n)
    <3>1. i \in n..Len(s)
      BY <1>2, <2>2
    <3>2. QED
      BY <1>1, <1>7, <3>1, <2>2
  <2>3. QED
    BY <2>1, <2>2
<1>9. ShortBody(t) /\ Len(t) <= Len(s)
  BY <1>2, <1>7 DEF ShortBody
<1>10. QED
  BY <1>8, <1>9 DEF t, Sends

LEMMA ArraySent ==
    ASSUME NEW s \in Seq(Byte), Len(s) >= 1, Len(s) <= 127
    PROVE  Sends(s, s)
<1>1. \A i \in 1..Len(s) : i <= Len(s)
  BY LenProperties
<1>2. Len(s) <= Len(s)
  BY LenProperties
<1>3. QED
  BY <1>1, <1>2 DEF Sends, ShortBody

(* What was sent of an array makes the array again, in a struct that was       *)
(* cleared.                                                                    *)
LEMMA ArrayKept ==
    ASSUME NEW s \in Seq(Byte), NEW t, Sends(t, s)
    PROVE  CopyOver(Zeros(Len(s)), t) = s
<1>1. s = [i \in 1..Len(s) |-> s[i]] /\ DOMAIN Zeros(Len(s)) = 1..Len(s)
  BY LenProperties DEF Zeros
<1> DEFINE z == Zeros(Len(s))
<1>2. \A i \in 1..Len(s) : z[i] = 0
  BY DEF Zeros
<1>3. DOMAIN z \union DOMAIN t = 1..Len(s) /\ \A i \in 1..Len(s) : i \in DOMAIN t <=> i <= Len(t)
  <2>1. t \in Seq(Byte) /\ Len(t) <= Len(s)
    BY DEF Sends, ShortBody
  <2>2. Len(t) \in Nat /\ Len(s) \in Nat /\ DOMAIN t = 1..Len(t)
    BY <2>1, LenProperties
  <2>3. QED
    BY <1>1, <2>1, <2>2
<1> HIDE DEF z
<1>4. \A i \in 1..Len(s) : s[i] = IF i \in DOMAIN t THEN t[i] ELSE z[i]
  BY <1>2, <1>3 DEF Sends
<1>5. CopyOver(z, t) = [i \in 1..Len(s) |-> IF i \in DOMAIN t THEN t[i] ELSE z[i]]
  BY <1>3, Zenon DEF CopyOver
<1>6. QED
  BY <1>1, <1>4, <1>5 DEF z

LEMMA ZerosKept ==
    ASSUME NEW w \in Nat, NEW n \in Nat, n <= w
    PROVE  CopyOver(Zeros(w), Zeros(n)) = Zeros(w)
<1> DEFINE z == Zeros(w)  y == Zeros(n)
<1>1. /\ DOMAIN z = 1..w /\ DOMAIN y = 1..n /\ DOMAIN z \union DOMAIN y = 1..w
      /\ (\A i \in 1..w : z[i] = 0) /\ (\A i \in 1..n : y[i] = 0)
      /\ z = [i \in 1..w |-> 0]
  BY DEF Zeros
<1> HIDE DEF z, y
<1>2. CopyOver(z, y) = [i \in 1..w |-> IF i \in DOMAIN y THEN y[i] ELSE z[i]]
  BY <1>1, Zenon DEF CopyOver
<1>3. ASSUME NEW i \in 1..w PROVE (IF i \in DOMAIN y THEN y[i] ELSE z[i]) = 0
  BY <1>1
<1>4. QED
  BY <1>1, <1>2, <1>3 DEF z, y
-----------------------------------------------------------------------------
(* The members of a message on their way: what of an array is sent, and the    *)
(* node that is made of a member.                                              *)
Sent(e, m, f) == IF e = "client" THEN Terminated(m[f]) ELSE m[f]

MemberNode(e, m, i) ==
    LET f == Outgoing(e)[i]
    IN IF IsInt(f) THEN Node(2, IntToChar(m[f]).out) ELSE Node(19, Sent(e, m, f))

(* A number the codec leaves out; only an answer's last member can be one.     *)
Skips(e, m, i) == IsInt(Outgoing(e)[i]) /\ m[Outgoing(e)[i]] < 0

LEMMA Fields ==
    ASSUME NEW e \in End, NEW i \in 1..5
    PROVE  LET fs == Outgoing(e)
           IN /\ fs[i] \in Range(fs) /\ Range(fs) = {fs[1], fs[2], fs[3], fs[4], fs[5]}
              /\ \A j \in 1..5 : fs[j] = fs[i] => j = i
              /\ IsInt(fs[i]) <=> i = 1 \/ (i = 5 /\ e = "server")
              /\ ~IsInt(fs[i]) => /\ Width[fs[i]] \in Nat /\ Width[fs[i]] >= 4
                                  /\ Width[fs[i]] <= 65
<1>1. i = 1 \/ i = 2 \/ i = 3 \/ i = 4 \/ i = 5
  OBVIOUS
<1>2. CASE e = "client"
  <2>1. Outgoing(e) = RequestFields
    BY <1>2 DEF Outgoing
  <2>2. Range(RequestFields) = {RequestFields[1], RequestFields[2], RequestFields[3], RequestFields[4], RequestFields[5]}
    BY DEF Range, RequestFields
  <2>3. QED
    BY <1>1, <1>2, <2>1, <2>2 DEF RequestFields, IsInt, Width
<1>3. CASE e = "server"
  <2>1. Outgoing(e) = RespondFields
    BY <1>3 DEF Outgoing
  <2>2. Range(RespondFields) = {RespondFields[1], RespondFields[2], RespondFields[3], RespondFields[4], RespondFields[5]}
    BY DEF Range, RespondFields
  <2>3. QED
    BY <1>1, <1>3, <2>1, <2>2 DEF RespondFields, IsInt, Width
<1>4. QED
  BY <1>2, <1>3 DEF End

LEMMA MemberFits ==
    ASSUME NEW e \in End, NEW m \in SentBy(e), NEW i \in 1..5
    PROVE  LET f == Outgoing(e)[i]
           IN /\ IsInt(f) => m[f] \in Int /\ (m[f] >= 0 => m[f] \in Nat /\ m[f] <= IntMax)
              /\ i = 1 => m[f] >= 0
              /\ ~IsInt(f) => /\ m[f] \in Seq(Byte) /\ Len(m[f]) = Width[f]
                              /\ Sends(Sent(e, m, f), m[f])
<1> DEFINE fs == Outgoing(e)  f == fs[i]
<1>1. /\ IsMsg(m, fs) /\ m[fs[1]] >= 0
      /\ e = "client" => \A g \in Range(fs) : IsInt(g) \/ IsString(m[g])
  BY ExchangeAssumption
<1>2. f \in Range(fs) /\ (~IsInt(f) => Width[f] \in Nat /\ Width[f] >= 4 /\ Width[f] <= 65)
  BY Fields
<1> HIDE DEF fs
<1>3. IF IsInt(f) THEN m[f] \in Int /\ m[f] <= IntMax ELSE m[f] \in Seq(Byte) /\ Len(m[f]) = Width[f]
  BY <1>1, <1>2 DEF IsMsg
<1> HIDE DEF f
<1>4. ASSUME ~IsInt(f) PROVE Sends(Sent(e, m, f), m[f])
  <2>1. m[f] \in Seq(Byte) /\ Len(m[f]) >= 1 /\ Len(m[f]) <= 127
    BY <1>2, <1>3, <1>4
  <2>2. CASE e = "client"
    <3>1. IsString(m[f])
      BY <1>1, <1>2, <1>4, <2>2
    <3>2. QED
      BY <2>1, <2>2, <3>1, StringSent DEF Sent
  <2>3. CASE e # "client"
    BY <2>1, <2>3, ArraySent DEF Sent
  <2>4. QED
    BY <2>2, <2>3
<1>5. \A x \in Int : x >= 0 => x \in Nat
  OBVIOUS
<1>6. i = 1 => m[f] >= 0
  BY <1>1 DEF f
<1>7. QED
  BY <1>3, <1>4, <1>5, <1>6 DEF f, fs

LEMMA MemberIn ==
    ASSUME NEW e \in End, NEW m \in SentBy(e), NEW i \in 1..5, ~Skips(e, m, i)
    PROVE  MemberNode(e, m, i) \in Nodes
<1> DEFINE f == Outgoing(e)[i]
<1>1. CASE IsInt(f)
  <2>1. m[f] \in Nat /\ m[f] <= IntMax
    BY <1>1, MemberFits DEF Skips
  <2>2. ShortBody(IntToChar(m[f]).out)
    BY <2>1, NumberKept
  <2>3. MemberNode(e, m, i) = Node(2, IntToChar(m[f]).out)
    BY <1>1, Zenon DEF MemberNode
  <2>4. QED
    BY <2>2, <2>3, NodeIn
<1>2. CASE ~IsInt(f)
  <2>1. ShortBody(Sent(e, m, f))
    BY <1>2, MemberFits DEF Sends
  <2>2. MemberNode(e, m, i) = Node(19, Sent(e, m, f))
    BY <1>2, Zenon DEF MemberNode
  <2>3. QED
    BY <2>1, <2>2, NodeIn
<1>3. QED
  BY <1>1, <1>2

(* Encoding a member puts its node behind the others, or leaves it out.        *)
LEMMA MemberEncoded ==
    ASSUME NEW e \in End, NEW m \in SentBy(e), NEW i \in 1..5, NEW c
    PROVE  /\ i = 1 => EncodeMember(e, c, m, i) = [chain |-> <<MemberNode(e, m, i)>>, next |-> 1]
           /\ i # 1 /\ ~Skips(e, m, i) =>
                EncodeMember(e, c, m, i) = [chain |-> Append(c.chain, MemberNode(e, m, i)), next |-> c.next + 1]
           /\ i # 1 /\ Skips(e, m, i) => EncodeMember(e, c, m, i) = c
<1> DEFINE f == Outgoing(e)[i]
           nr == IF IsInt(f) THEN WriteInteger(m[f]) ELSE EncodeChar(Sent(e, m, f))
<1>1. IsInt(f) /\ m[f] >= 0 => WriteInteger(m[f]) = Ok(MemberNode(e, m, i))
  <2>1. ASSUME IsInt(f), m[f] >= 0 PROVE WriteInteger(m[f]) = Ok(MemberNode(e, m, i))
    <3>1. m[f] \in Nat /\ m[f] <= IntMax
      BY <2>1, MemberFits
    <3>2. WriteInteger(m[f]) = Ok(Node(2, IntToChar(m[f]).out))
      BY <3>1, NumberWritten
    <3>3. MemberNode(e, m, i) = Node(2, IntToChar(m[f]).out)
      BY <2>1, Zenon DEF MemberNode
    <3>4. QED
      BY <3>2, <3>3
  <2>2. QED
    BY <2>1
<1>2. IsInt(f) /\ m[f] < 0 => WriteInteger(m[f]).rv # NoErr
  <2>1. ASSUME m[f] < 0 PROVE IntToChar(m[f]) = Err(DataRangeErr)
    BY <2>1, SMT DEF IntToChar
  <2>2. Err(DataRangeErr).rv # NoErr
    BY DEF Err, DataRangeErr, NoErr
  <2>3. QED
    BY <2>1, <2>2, Zenon DEF WriteInteger
<1>3. ~IsInt(f) => EncodeChar(Sent(e, m, f)) = Ok(MemberNode(e, m, i))
  <2>1. ASSUME ~IsInt(f) PROVE EncodeChar(Sent(e, m, f)) = Ok(MemberNode(e, m, i))
    <3>1. ShortBody(Sent(e, m, f))
      BY <2>1, MemberFits DEF Sends
    <3>2. MemberNode(e, m, i) = Node(19, Sent(e, m, f))
      BY <2>1, Zenon DEF MemberNode
    <3>3. QED
      BY <3>1, <3>2, StringWritten
  <2>2. QED
    BY <2>1
<1>4. /\ IsInt(f) <=> i = 1 \/ (i = 5 /\ e = "server")
      /\ i = 1 => m[f] >= 0
      /\ IsInt(f) => (m[f] >= 0 \/ m[f] < 0)
  BY Fields, MemberFits
<1> HIDE DEF nr
<1>5. i # 1 => EncodeMember(e, c, m, i) = WriteNextNode(c, nr)
  <2>1. CASE e = "client"
    BY <1>4, <2>1, Zenon DEF EncodeMember, EncodeRequest, nr, Outgoing, Sent
  <2>2. CASE e # "client"
    BY <2>2, Zenon DEF EncodeMember, EncodeRespond, nr, Outgoing, Sent
  <2>3. QED
    BY <2>1, <2>2
<1>6. i = 1 => EncodeMember(e, c, m, i) = WriteHeaderNode(m[f])
  BY Zenon DEF EncodeMember, EncodeRequest, EncodeRespond, Outgoing
<1>7. ASSUME NEW x PROVE Ok(x).rv = NoErr /\ Ok(x).out = x
  BY DEF Ok
<1>8. ASSUME i = 1 PROVE EncodeMember(e, c, m, i) = [chain |-> <<MemberNode(e, m, i)>>, next |-> 1]
  <2>1. WriteInteger(m[f]) = Ok(MemberNode(e, m, i))
    BY <1>1, <1>4, <1>8
  <2>2. QED
    BY <1>6, <1>7, <1>8, <2>1, Zenon DEF WriteHeaderNode
<1>9. ASSUME i # 1, ~Skips(e, m, i)
      PROVE  EncodeMember(e, c, m, i) = [chain |-> Append(c.chain, MemberNode(e, m, i)), next |-> c.next + 1]
  <2>1. nr = Ok(MemberNode(e, m, i))
    BY <1>1, <1>3, <1>4, <1>9, Zenon DEF nr, Skips
  <2>2. QED
    BY <1>5, <1>7, <1>9, <2>1, Zenon DEF WriteNextNode
<1>10. ASSUME i # 1, Skips(e, m, i) PROVE EncodeMember(e, c, m, i) = c
  <2>1. nr.rv # NoErr
    BY <1>2, <1>10, Zenon DEF nr, Skips
  <2>2. QED
    BY <1>5, <1>10, <2>1, Zenon DEF WriteNextNode
<1>11. QED
  BY <1>8, <1>9, <1>10
LEMMA Ends ==
    /\ End = {"client", "server"}
    /\ \A e \in End : /\ Peer(e) \in End /\ Peer(e) # e /\ Peer(Peer(e)) = e
                      /\ Len(Outgoing(e)) = 5 /\ Len(Incoming(e)) = 5
<1>1. Len(RequestFields) = 5 /\ Len(RespondFields) = 5
  BY DEF RequestFields, RespondFields
<1>2. QED
  BY <1>1 DEF End, Peer, Outgoing, Incoming


(* What an end has encoded or decoded after each member: five applications of  *)
(* one step solve the recursive definition.                                    *)
LEMMA EncodedSteps ==
    ASSUME NEW e \in End, NEW m
    PROVE  /\ Encoded(e, m)[0] = NewCode
           /\ \A i \in 1..5 : Encoded(e, m)[i] = EncodeMember(e, Encoded(e, m)[i - 1], m, i)
<1> DEFINE Step(c, i) == EncodeMember(e, c, m, i)
           c1 == Step(NewCode, 1)
           c2 == Step(c1, 2)
           c3 == Step(c2, 3)
           c4 == Step(c3, 4)
           c5 == Step(c4, 5)
           Body(f) == [i \in 0..5 |-> IF i = 0 THEN NewCode ELSE Step(f[i - 1], i)]
           after == [i \in 0..5 |-> IF i = 0 THEN NewCode ELSE IF i = 1 THEN c1
                                   ELSE IF i = 2 THEN c2 ELSE IF i = 3 THEN c3
                                   ELSE IF i = 4 THEN c4 ELSE c5]
<1>1. after = Body(after)
  <2> HIDE DEF Step
  <2>1. QED
    OBVIOUS
<1>2. Encoded(e, m) = CHOOSE f : f = Body(f)
  BY Ends, Zenon DEF Encoded
<1>3. Encoded(e, m) = Body(Encoded(e, m))
  <2> HIDE DEF after, Body
  <2>1. QED
    BY <1>1, <1>2
<1>4. QED
  <2> HIDE DEF Step
  <2> DEFINE en == Encoded(e, m)
  <2>1. en = Body(en)
    BY <1>3
  <2> HIDE DEF en
  <2>2. en[0] = NewCode /\ \A i \in 1..5 : en[i] = Step(en[i - 1], i)
    BY <2>1
  <2>3. QED
    BY <2>2 DEF en, Step

LEMMA UnpackedSteps ==
    ASSUME NEW e \in End, NEW data
    PROVE  LET step == Unpacked(e, data)
           IN /\ step[0].code = UnpackQueue(data) /\ step[0].msg = ZeroMsg(Incoming(e))
              /\ \A i \in 1..5 : /\ step[i].code = NextNode(step[i - 1].code)
                                /\ step[i].msg = DecodeField(step[i - 1].code, step[i - 1].msg,
                                                            Incoming(e), i)
<1> DEFINE Start == [code |-> UnpackQueue(data), msg |-> ZeroMsg(Incoming(e))]
           Step(s, i) == [code |-> NextNode(s.code),
                          msg |-> DecodeField(s.code, s.msg, Incoming(e), i)]
           s1 == Step(Start, 1)
           s2 == Step(s1, 2)
           s3 == Step(s2, 3)
           s4 == Step(s3, 4)
           s5 == Step(s4, 5)
           Body(f) == [i \in 0..5 |-> IF i = 0 THEN Start ELSE Step(f[i - 1], i)]
           after == [i \in 0..5 |-> IF i = 0 THEN Start ELSE IF i = 1 THEN s1
                                   ELSE IF i = 2 THEN s2 ELSE IF i = 3 THEN s3
                                   ELSE IF i = 4 THEN s4 ELSE s5]
           un == Unpacked(e, data)
<1>1. after = Body(after)
  <2> HIDE DEF Step, Start
  <2>1. QED
    OBVIOUS
<1>2. un = CHOOSE f : f = Body(f)
  BY Ends, Zenon DEF Unpacked
<1>3. un = Body(un)
  <2> HIDE DEF after, Body, un
  <2>1. QED
    BY <1>1, <1>2
<1>4. un[0] = Start /\ \A i \in 1..5 : un[i] = Step(un[i - 1], i)
  <2> HIDE DEF Step, Start, un
  <2>1. QED
    BY <1>3
<1>5. QED
  <2> HIDE DEF un
  <2>1. un[0].code = UnpackQueue(data) /\ un[0].msg = ZeroMsg(Incoming(e))
    BY <1>4
  <2>2. ASSUME NEW i \in 1..5
        PROVE  /\ un[i].code = NextNode(un[i - 1].code)
               /\ un[i].msg = DecodeField(un[i - 1].code, un[i - 1].msg, Incoming(e), i)
    BY <1>4
  <2>3. QED
    BY <2>1, <2>2 DEF un
(* A message once sent stays the one its sender works with.                    *)
-----------------------------------------------------------------------------
(* A code object that holds the nodes of the first k members.                  *)
Filled(c, k, e, m) == /\ c.chain \in Seq(Nodes) /\ Len(c.chain) = k /\ c.next = k
                      /\ \A j \in 1..k : c.chain[j] = MemberNode(e, m, j)

LEMMA FilledMore ==
    ASSUME NEW e \in End, NEW m \in SentBy(e), NEW i \in 1..5, ~Skips(e, m, i),
           NEW c, Filled(c, i - 1, e, m)
    PROVE  Filled(EncodeMember(e, c, m, i), i, e, m)
<1> DEFINE x == MemberNode(e, m, i)
<1>1. x \in Nodes
  BY MemberIn
<1>2. c.chain \in Seq(Nodes) /\ Len(c.chain) = i - 1 /\ c.next = i - 1
      /\ \A j \in 1..i - 1 : c.chain[j] = MemberNode(e, m, j)
  BY DEF Filled
<1> HIDE DEF x
<1>3. CASE i = 1
  <2>1. EncodeMember(e, c, m, i) = [chain |-> <<x>>, next |-> 1]
    BY <1>3, MemberEncoded DEF x
  <2> DEFINE s == <<x>>
  <2>2. s \in Seq(Nodes) /\ Len(s) = 1 /\ s[1] = x
    BY <1>1
  <2> HIDE DEF s
  <2>3. \A j \in 1..1 : j = 1
    OBVIOUS
  <2>4. \A j \in 1..1 : s[j] = MemberNode(e, m, j)
    BY <1>3, <2>2, <2>3, Zenon DEF x
  <2> DEFINE d == EncodeMember(e, c, m, i)
  <2>5. d.chain = s /\ d.next = 1
    BY <2>1 DEF s
  <2> HIDE DEF d
  <2>6. Filled(d, i, e, m)
    BY <1>3, <2>2, <2>4, <2>5, Zenon DEF Filled
  <2>7. QED
    BY <2>6 DEF d
<1>4. CASE i # 1
  <2> DEFINE s == Append(c.chain, x)  d == EncodeMember(e, c, m, i)
  <2>1. d = [chain |-> s, next |-> c.next + 1]
    BY <1>4, MemberEncoded DEF x
  <2>2. /\ s \in Seq(Nodes) /\ Len(s) = Len(c.chain) + 1
        /\ \A j \in 1..Len(c.chain) : s[j] = c.chain[j]
        /\ s[Len(c.chain) + 1] = x
    BY <1>1, <1>2, AppendProperties
  <2>3. d.chain = s /\ d.next = c.next + 1
    BY <2>1
  <2> HIDE DEF s, d
  <2>4. Len(s) = i /\ s[i] = x /\ c.next + 1 = i /\ \A j \in 1..i - 1 : s[j] = c.chain[j]
    <3>1. i - 1 + 1 = i
      OBVIOUS
    <3>2. QED
      BY <1>2, <2>2, <3>1, Zenon
  <2>5. ASSUME NEW j \in 1..i PROVE s[j] = MemberNode(e, m, j)
    <3>1. CASE j = i
      BY <2>4, <3>1, Zenon DEF x
    <3>2. CASE j # i
      <4>1. j \in 1..i - 1
        BY <3>2
      <4>2. QED
        BY <1>2, <2>4, <4>1, Zenon
    <3>3. QED
      BY <3>1, <3>2
  <2>6. Filled(d, i, e, m)
    BY <2>2, <2>3, <2>4, <2>5, Zenon DEF Filled
  <2>7. QED
    BY <2>6 DEF d
<1>5. QED
  BY <1>3, <1>4

LEMMA EncodedChain ==
    ASSUME NEW e \in End, NEW m \in SentBy(e)
    PROVE  /\ \A i \in 0..4 : Filled(Encoded(e, m)[i], i, e, m)
           /\ Filled(Encoded(e, m)[5], IF Skips(e, m, 5) THEN 4 ELSE 5, e, m)
<1> DEFINE en == Encoded(e, m)
<1>1. en[0] = NewCode /\ \A i \in 1..5 : en[i] = EncodeMember(e, en[i - 1], m, i)
  BY EncodedSteps
<1> HIDE DEF en
<1>2. Filled(en[0], 0, e, m)
  <2>1. NewCode.chain = <<>> /\ NewCode.next = 0
    BY DEF NewCode
  <2>2. <<>> \in Seq(Nodes) /\ Len(<<>>) = 0
    BY EmptySeq
  <2>3. \A j \in 1..0 : FALSE
    OBVIOUS
  <2>4. QED
    BY <1>1, <2>1, <2>2, <2>3, Zenon DEF Filled
<1>3. ASSUME NEW i \in 1..5, ~Skips(e, m, i), Filled(en[i - 1], i - 1, e, m)
      PROVE  Filled(en[i], i, e, m)
  BY <1>1, <1>3, FilledMore, Zenon
<1>4. ASSUME NEW i \in 1..4 PROVE ~Skips(e, m, i)
  <2>1. i \in 1..5 /\ i # 5
    OBVIOUS
  <2> DEFINE f == Outgoing(e)[i]
  <2>2. IsInt(f) => i = 1
    BY <2>1, Fields
  <2>3. IsInt(f) => m[f] \in Int
    BY <2>1, MemberFits
  <2>4. i = 1 => m[f] >= 0
    BY <2>1, MemberFits
  <2> HIDE DEF f
  <2>5. \A x \in Int : x >= 0 => ~(x < 0)
    OBVIOUS
  <2>6. ~(IsInt(f) /\ m[f] < 0)
    BY <2>2, <2>3, <2>4, <2>5, Zenon
  <2>7. QED
    BY <2>6 DEF Skips, f
<1>5. ASSUME NEW i \in 1..4, Filled(en[i - 1], i - 1, e, m) PROVE Filled(en[i], i, e, m)
  <2>1. i \in 1..5
    OBVIOUS
  <2>2. QED
    BY <1>3, <1>4, <1>5, <2>1
<1>6. Filled(en[1], 1, e, m)
  BY <1>2, <1>5
<1>7. Filled(en[2], 2, e, m)
  BY <1>6, <1>5
<1>8. Filled(en[3], 3, e, m)
  BY <1>7, <1>5
<1>9. Filled(en[4], 4, e, m)
  BY <1>8, <1>5
<1>10. Filled(en[5], IF Skips(e, m, 5) THEN 4 ELSE 5, e, m)
  <2>1. CASE Skips(e, m, 5)
    <3>1. 5 \in 1..5 /\ 5 # 1 /\ 5 - 1 = 4
      OBVIOUS
    <3>2. EncodeMember(e, en[4], m, 5) = en[4]
      BY <2>1, <3>1, MemberEncoded, Zenon
    <3>3. en[5] = en[4]
      BY <1>1, <3>1, <3>2, Zenon
    <3>4. QED
      BY <1>9, <2>1, <3>3, Zenon
  <2>2. CASE ~Skips(e, m, 5)
    BY <1>3, <1>9, <2>2
  <2>3. QED
    BY <2>1, <2>2
<1>11. ASSUME NEW i \in 0..4 PROVE Filled(en[i], i, e, m)
  <2>1. i = 0 \/ i = 1 \/ i = 2 \/ i = 3 \/ i = 4
    OBVIOUS
  <2>2. QED
    BY <1>2, <1>6, <1>7, <1>8, <1>9, <2>1, Zenon
<1>12. QED
  BY <1>10, <1>11 DEF en
-----------------------------------------------------------------------------
(* The struct of a decoder that has come behind the first i members.           *)
Blank(f) == IF IsInt(f) THEN 0 ELSE Zeros(Width[f])
Partly(e, m, i) ==
    [f \in Range(Outgoing(e)) |-> IF \E j \in 1..i : Outgoing(e)[j] = f THEN m[f] ELSE Blank(f)]

LEMMA PartlyAt ==
    ASSUME NEW e \in End, NEW m, NEW i \in 0..5, NEW k \in 1..5
    PROVE  Partly(e, m, i)[Outgoing(e)[k]] = IF k <= i THEN m[Outgoing(e)[k]] ELSE Blank(Outgoing(e)[k])
<1> DEFINE fs == Outgoing(e)
<1>1. fs[k] \in Range(fs)
  BY Fields
<1>2. (\E j \in 1..i : fs[j] = fs[k]) <=> k <= i
  <2>1. \A j \in 1..5 : fs[j] = fs[k] => j = k
    BY Fields
  <2> HIDE DEF fs
  <2>2. ASSUME NEW j \in 1..i, fs[j] = fs[k] PROVE k <= i
    <3>1. j \in 1..5 /\ j <= i
      OBVIOUS
    <3>2. j = k
      BY <2>1, <2>2, <3>1
    <3>3. QED
      BY <3>1, <3>2
  <2>3. ASSUME k <= i PROVE k \in 1..i
    BY <2>3
  <2>4. QED
    BY <2>2, <2>3
<1>3. Partly(e, m, i)[fs[k]] = IF \E j \in 1..i : fs[j] = fs[k] THEN m[fs[k]] ELSE Blank(fs[k])
  BY <1>1, Zenon DEF Partly
<1>4. QED
  BY <1>2, <1>3, Zenon

(* Two structs are the same when their five members are.                       *)
LEMMA SameStruct ==
    ASSUME NEW e \in End, NEW a, NEW b,
           DOMAIN a = Range(Outgoing(e)), a = [f \in DOMAIN a |-> a[f]],
           DOMAIN b = Range(Outgoing(e)), b = [f \in DOMAIN b |-> b[f]],
           \A k \in 1..5 : a[Outgoing(e)[k]] = b[Outgoing(e)[k]]
    PROVE  a = b
<1> DEFINE fs == Outgoing(e)
<1>1. Range(fs) = {fs[1], fs[2], fs[3], fs[4], fs[5]}
  <2>1. 1 \in 1..5
    OBVIOUS
  <2>2. QED
    BY <2>1, Fields
<1>2. a[fs[1]] = b[fs[1]] /\ a[fs[2]] = b[fs[2]] /\ a[fs[3]] = b[fs[3]] /\ a[fs[4]] = b[fs[4]]
      /\ a[fs[5]] = b[fs[5]]
  BY 1 \in 1..5, 2 \in 1..5, 3 \in 1..5, 4 \in 1..5, 5 \in 1..5
<1> HIDE DEF fs
<1>3. \A f \in Range(fs) : a[f] = b[f]
  BY <1>1, <1>2
<1>4. QED
  BY <1>3 DEF fs

LEMMA StringStored ==
    ASSUME NEW e \in End, NEW m \in SentBy(e), NEW i \in 1..5, ~IsInt(Outgoing(e)[i])
    PROVE  StoreString(Partly(e, m, i - 1), Outgoing(e), i, Sent(e, m, Outgoing(e)[i])) = Partly(e, m, i)
<1> DEFINE fs == Outgoing(e)  f == fs[i]  t == Sent(e, m, f)
           a == Partly(e, m, i - 1)  b == Partly(e, m, i)
           r == [a EXCEPT ![f] = CopyOver(a[f], t)]
<1>1. StoreString(a, fs, i, t) = r
  BY Zenon DEF StoreString
<1>2. f \in Range(fs) /\ \A k \in 1..5 : fs[k] = f => k = i
  BY Fields
<1>3. DOMAIN a = Range(fs) /\ DOMAIN b = Range(fs) /\ b = [g \in DOMAIN b |-> b[g]]
      /\ a = [g \in DOMAIN a |-> a[g]]
  BY DEF Partly
<1>4. i - 1 \in 0..5 /\ i \in 0..5
  OBVIOUS
<1>5. a[f] = Blank(f) /\ b[f] = m[f]
  BY <1>4, PartlyAt
<1>6. CopyOver(a[f], t) = m[f]
  <2>1. m[f] \in Seq(Byte) /\ Len(m[f]) = Width[f] /\ Sends(t, m[f])
    BY MemberFits
  <2>2. Blank(f) = Zeros(Len(m[f]))
    BY <2>1, Zenon DEF Blank
  <2> HIDE DEF f, t, a, b
  <2>3. QED
    BY <1>5, <2>1, <2>2, ArrayKept
<1>7. ASSUME NEW k \in 1..5, k # i PROVE a[fs[k]] = b[fs[k]]
  <2>1. k <= i - 1 <=> k <= i
    BY <1>7
  <2>2. QED
    BY <1>4, <2>1, PartlyAt
<1> HIDE DEF fs, f, t, a, b
<1>8. DOMAIN r = Range(fs) /\ r = [g \in DOMAIN r |-> r[g]] /\ r[f] = b[f]
  BY <1>2, <1>3, <1>5, <1>6
<1>9. ASSUME NEW k \in 1..5 PROVE r[fs[k]] = b[fs[k]]
  <2>1. CASE k = i
    BY <1>8, <2>1 DEF f
  <2>2. CASE k # i
    <3>1. fs[k] # f
      BY <1>2, <2>2
    <3>2. r[fs[k]] = a[fs[k]]
      <4>1. fs[k] \in DOMAIN a
        BY <1>3, Fields DEF fs
      <4>2. QED
        BY <3>1, <4>1
    <3>3. QED
      BY <1>7, <2>2, <3>2
  <2>3. QED
    BY <2>1, <2>2
<1> HIDE DEF r
<1>10. r = b
  BY <1>3, <1>8, <1>9, SameStruct DEF fs
<1>11. QED
  BY <1>1, <1>10 DEF fs, f, t, a, b

LEMMA NumberStored ==
    ASSUME NEW e \in End, NEW m \in SentBy(e), NEW i \in 1..5, IsInt(Outgoing(e)[i])
    PROVE  StoreInt(Partly(e, m, i - 1), Outgoing(e), i, m[Outgoing(e)[i]]) = Partly(e, m, i)
<1> DEFINE fs == Outgoing(e)  f == fs[i]
           a == Partly(e, m, i - 1)  b == Partly(e, m, i)
           r == [a EXCEPT ![f] = m[f]]
           n == fs[i + 1]
<1>1. Len(fs) = 5 /\ f \in Range(fs) /\ \A k \in 1..5 : fs[k] = f => k = i
  BY Fields, Ends
<1>2. DOMAIN a = Range(fs) /\ DOMAIN b = Range(fs) /\ b = [g \in DOMAIN b |-> b[g]]
      /\ a = [g \in DOMAIN a |-> a[g]]
  BY DEF Partly
<1>3. i - 1 \in 0..5 /\ i \in 0..5
  OBVIOUS
<1>4. b[f] = m[f]
  BY <1>3, PartlyAt
<1>5. ASSUME NEW k \in 1..5, k # i PROVE a[fs[k]] = b[fs[k]]
  <2>1. k <= i - 1 <=> k <= i
    BY <1>5
  <2>2. QED
    BY <1>3, <2>1, PartlyAt
<1>6. \A k \in 1..5 : fs[k] \in Range(fs)
  BY Fields
<1>7. i # 5 => /\ n \in Range(fs) /\ b[n] = Zeros(Width[n]) /\ Width[n] \in Nat /\ 4 <= Width[n]
  <2>1. ASSUME i # 5 PROVE n \in Range(fs) /\ b[n] = Zeros(Width[n]) /\ Width[n] \in Nat /\ 4 <= Width[n]
    <3>1. i = 1
      BY <2>1, Fields
    <3>2. 2 \in 1..5 /\ n = fs[2] /\ ~(2 <= i)
      BY <3>1
    <3>3. ~IsInt(fs[2]) /\ Width[fs[2]] \in Nat /\ 4 <= Width[fs[2]] /\ fs[2] \in Range(fs)
      BY <3>2, Fields
    <3>4. b[fs[2]] = Blank(fs[2])
      BY <1>3, <3>2, PartlyAt
    <3>5. QED
      BY <3>2, <3>3, <3>4, Zenon DEF Blank
  <2>2. QED
    BY <2>1
<1>8. StoreInt(a, fs, i, m[f]) = IF i = 5 THEN r ELSE [r EXCEPT ![n] = CopyOver(r[n], Zeros(4))]
  BY <1>1, Zenon DEF StoreInt
<1> HIDE DEF fs, f, a, b, n
<1>9. DOMAIN r = Range(fs) /\ r = [g \in DOMAIN r |-> r[g]] /\ r[f] = b[f]
  BY <1>1, <1>2, <1>4
<1>10. ASSUME NEW k \in 1..5 PROVE r[fs[k]] = b[fs[k]]
  <2>1. CASE k = i
    BY <1>9, <2>1 DEF f
  <2>2. CASE k # i
    <3>1. fs[k] # f /\ fs[k] \in DOMAIN a
      BY <1>1, <1>2, <1>6, <2>2
    <3>2. r[fs[k]] = a[fs[k]]
      BY <3>1
    <3>3. QED
      BY <1>5, <2>2, <3>2
  <2>3. QED
    BY <2>1, <2>2
<1> HIDE DEF r
<1>11. r = b
  BY <1>2, <1>9, <1>10, SameStruct DEF fs
<1>12. i # 5 => [b EXCEPT ![n] = CopyOver(b[n], Zeros(4))] = b
  <2>1. ASSUME i # 5 PROVE CopyOver(b[n], Zeros(4)) = b[n]
    BY <1>7, <2>1, ZerosKept
  <2>2. QED
    BY <1>2, <2>1
<1>13. StoreInt(a, fs, i, m[f]) = b
  BY <1>8, <1>11, <1>12, Zenon
<1>14. QED
  BY <1>13 DEF fs, f, a, b
-----------------------------------------------------------------------------
(* Decoding what was packed.                                                   *)
Nodeful(e, m) == IF Skips(e, m, 5) THEN 4 ELSE 5

LEMMA PackedChain ==
    ASSUME NEW e \in End, NEW m \in SentBy(e)
    PROVE  LET c == Encoded(e, m)[5].chain  n == Nodeful(e, m)
           IN /\ Packed(e, m) \in Seq(Byte) /\ Len(Packed(e, m)) \in Nat
              /\ TwoByteLength(Len(Packed(e, m)))
              /\ UnpackQueue(Packed(e, m)) = [chain |-> c, next |-> 1]
              /\ Len(c) = n /\ n \in {4, 5} /\ \A j \in 1..n : c[j] = MemberNode(e, m, j)
<1> DEFINE obj == Encoded(e, m)[5]  n == Nodeful(e, m)
<1>1. n \in {4, 5} /\ Filled(obj, n, e, m)
  BY EncodedChain DEF Nodeful
<1>2. Packed(e, m) = PackQueue(obj)
  BY Ends, Zenon DEF Packed
<1> HIDE DEF obj, n
<1>3. obj.chain \in Seq(Nodes) /\ Len(obj.chain) = n /\ \A j \in 1..n : obj.chain[j] = MemberNode(e, m, j)
  BY <1>1 DEF Filled
<1>4. /\ PackQueue(obj) \in Seq(Byte) /\ Len(PackQueue(obj)) \in Nat
      /\ TwoByteLength(Len(PackQueue(obj)))
      /\ UnpackQueue(PackQueue(obj)) = [chain |-> obj.chain, next |-> 1]
  BY <1>1, <1>3, QueueRead, Zenon
<1>5. QED
  BY <1>1, <1>2, <1>3, <1>4, Zenon DEF obj, n

(* A member that was not left out is read from its node as it was.             *)
LEMMA MemberDecoded ==
    ASSUME NEW e \in End, NEW m \in SentBy(e), NEW i \in 1..5, ~Skips(e, m, i),
           NEW obj, obj.chain[obj.next] = MemberNode(e, m, i)
    PROVE  DecodeField(obj, Partly(e, m, i - 1), Outgoing(e), i) = Partly(e, m, i)
<1> DEFINE fs == Outgoing(e)  f == fs[i]  a == Partly(e, m, i - 1)
<1>1. DecodeField(obj, a, fs, i) =
        IF IsInt(f) THEN StoreInt(a, fs, i, ReadInteger(MemberNode(e, m, i)).out)
        ELSE StoreString(a, fs, i, ReadPrintableString(MemberNode(e, m, i)).out.data)
  BY Zenon DEF DecodeField
<1>2. CASE IsInt(f)
  <2>1. m[f] \in Nat /\ m[f] <= IntMax
    BY <1>2, MemberFits DEF Skips
  <2>2. MemberNode(e, m, i) = Node(2, IntToChar(m[f]).out)
    BY <1>2, Zenon DEF MemberNode
  <2>3. ReadInteger(Node(2, IntToChar(m[f]).out)).out = m[f]
    BY <2>1, NumberRead
  <2>4. StoreInt(a, fs, i, m[f]) = Partly(e, m, i)
    BY <1>2, NumberStored
  <2>5. QED
    BY <1>1, <1>2, <2>2, <2>3, <2>4, Zenon
<1>3. CASE ~IsInt(f)
  <2>1. ShortBody(Sent(e, m, f))
    BY <1>3, MemberFits DEF Sends
  <2>2. MemberNode(e, m, i) = Node(19, Sent(e, m, f))
    BY <1>3, Zenon DEF MemberNode
  <2>3. ReadPrintableString(Node(19, Sent(e, m, f))).out.data = Sent(e, m, f)
    BY <2>1, StringRead
  <2>4. StoreString(a, fs, i, Sent(e, m, f)) = Partly(e, m, i)
    BY <1>3, StringStored
  <2>5. QED
    BY <1>1, <1>3, <2>2, <2>3, <2>4, Zenon
<1>4. QED
  BY <1>2, <1>3

(* After i members the decoder has them in its struct and has come to the node *)
(* of the next, if there is one.                                               *)
Decodes(s, i, e, m) ==
    /\ s.code = [chain |-> Encoded(e, m)[5].chain, next |-> IF i < Nodeful(e, m) THEN i + 1 ELSE 0]
    /\ s.msg = Partly(e, m, i)

LEMMA DecodedChain ==
    ASSUME NEW e \in End, NEW m \in SentBy(e), NEW i \in 0..Nodeful(e, m)
    PROVE  Decodes(Unpacked(Peer(e), Packed(e, m))[i], i, e, m)
<1> DEFINE p == Peer(e)  data == Packed(e, m)  un == Unpacked(p, data)
           n == Nodeful(e, m)  c == Encoded(e, m)[5].chain  fs == Outgoing(e)
<1>1. p \in End /\ Incoming(p) = fs
  BY Ends DEF Incoming
<1>2. /\ UnpackQueue(data) = [chain |-> c, next |-> 1] /\ Len(c) = n /\ n \in {4, 5}
      /\ \A j \in 1..n : c[j] = MemberNode(e, m, j)
  BY PackedChain
<1>3. /\ un[0].code = UnpackQueue(data) /\ un[0].msg = ZeroMsg(fs)
      /\ \A k \in 1..5 : /\ un[k].code = NextNode(un[k - 1].code)
                        /\ un[k].msg = DecodeField(un[k - 1].code, un[k - 1].msg, fs, k)
  BY <1>1, UnpackedSteps
<1>4. ZeroMsg(fs) = Partly(e, m, 0)
  <2>1. \A f \in Range(fs) : ~\E j \in 1..0 : fs[j] = f
    OBVIOUS
  <2>2. ZeroMsg(fs) = [f \in Range(fs) |-> Blank(f)]
    BY Zenon DEF ZeroMsg, Blank
  <2>3. Partly(e, m, 0) = [f \in Range(fs) |-> Blank(f)]
    BY <2>1 DEF Partly
  <2>4. QED
    BY <2>2, <2>3
<1> HIDE DEF p, data, un, n, c, fs
<1>5. Decodes(un[0], 0, e, m)
  <2>1. 0 < n /\ 0 + 1 = 1
    BY <1>2
  <2>2. QED
    BY <1>2, <1>3, <1>4, <2>1, Zenon DEF Decodes, n, c
<1>6. ASSUME NEW k \in 1..n, Decodes(un[k - 1], k - 1, e, m)
      PROVE  Decodes(un[k], k, e, m)
  <2>1. k \in 1..5 /\ k - 1 < n /\ (k - 1) + 1 = k
    BY <1>2
  <2>2. un[k - 1].code = [chain |-> c, next |-> k] /\ un[k - 1].msg = Partly(e, m, k - 1)
    BY <1>6, <2>1, Zenon DEF Decodes, n, c
  <2>3. ~Skips(e, m, k)
    <3>1. CASE k = 5
      <4>1. n = 5
        BY <1>2, <3>1
      <4>2. QED
        BY <3>1, <4>1 DEF n, Nodeful
    <3>2. CASE k # 5
      <4>1. IsInt(Outgoing(e)[k]) => k = 1
        BY <2>1, <3>2, Fields
      <4>2. k = 1 => m[Outgoing(e)[k]] >= 0 /\ m[Outgoing(e)[k]] \in Int
        <5>1. IsInt(Outgoing(e)[k]) <=> k = 1 \/ (k = 5 /\ e = "server")
          BY <2>1, Fields
        <5>2. QED
          BY <2>1, <5>1, MemberFits
      <4>3. \A x \in Int : x >= 0 => ~(x < 0)
        OBVIOUS
      <4>4. QED
        BY <4>1, <4>2, <4>3, Zenon DEF Skips
    <3>3. QED
      BY <3>1, <3>2
  <2>4. un[k].msg = Partly(e, m, k)
    <3> DEFINE obj == un[k - 1].code
    <3>1. obj.chain[obj.next] = MemberNode(e, m, k)
      BY <1>2, <2>2
    <3> HIDE DEF obj
    <3>2. DecodeField(obj, Partly(e, m, k - 1), Outgoing(e), k) = Partly(e, m, k)
      BY <2>1, <2>3, <3>1, MemberDecoded
    <3>3. un[k].msg = DecodeField(obj, un[k - 1].msg, fs, k)
      BY <1>3, <2>1, Zenon DEF obj
    <3>4. QED
      BY <2>2, <3>2, <3>3, Zenon DEF fs
  <2>5. un[k].code = [chain |-> c, next |-> IF k < n THEN k + 1 ELSE 0]
    <3>1. un[k].code = NextNode(un[k - 1].code)
      BY <1>3, <2>1
    <3>2. NextNode([chain |-> c, next |-> k]) = [chain |-> c, next |-> IF k < Len(c) THEN k + 1 ELSE 0]
      BY DEF NextNode
    <3>3. QED
      BY <1>2, <2>2, <3>1, <3>2, Zenon
  <2>6. QED
    BY <2>4, <2>5, Zenon DEF Decodes, n, c
<1>7. /\ Decodes(un[1], 1, e, m) /\ Decodes(un[2], 2, e, m) /\ Decodes(un[3], 3, e, m)
      /\ Decodes(un[4], 4, e, m) /\ (n = 5 => Decodes(un[5], 5, e, m))
  <2>1. Decodes(un[1], 1, e, m)
    BY <1>2, <1>5, <1>6
  <2>2. Decodes(un[2], 2, e, m)
    BY <1>2, <2>1, <1>6
  <2>3. Decodes(un[3], 3, e, m)
    BY <1>2, <2>2, <1>6
  <2>4. Decodes(un[4], 4, e, m)
    BY <1>2, <2>3, <1>6
  <2>5. n = 5 => Decodes(un[5], 5, e, m)
    BY <1>2, <2>4, <1>6
  <2>6. QED
    BY <2>1, <2>2, <2>3, <2>4, <2>5
<1>8. i = 0 \/ i = 1 \/ i = 2 \/ i = 3 \/ i = 4 \/ (i = 5 /\ n = 5)
  <2>1. i \in 0..n
    BY DEF n
  <2>2. QED
    BY <1>2, <2>1
<1>9. Decodes(un[i], i, e, m)
  BY <1>5, <1>7, <1>8, Zenon
<1>10. QED
  BY <1>9 DEF un, p, data

(* The codec keeps every message that one of the programs sends: what encode   *)
(* and Pack_queue make of it, unPack_queue and decode turn into that very      *)
(* message again, member by member and without leaving the chain; an answer    *)
(* without a number is the one that leads the decoder off it.                  *)
THEOREM CodecKeeps == CodecFaithful
<1> SUFFICES ASSUME NEW e \in End, NEW m \in SentBy(e),
                    NEW data \in {Packed(e, m)}, NEW step \in {Unpacked(Peer(e), data)}
             PROVE  LET last == Len(Incoming(Peer(e)))
                        Lost(i) == step[i].code.next = 0
                    IN /\ data \in Seq(Byte) /\ NumberOf[BytesOf(Len(data), 4)] = Len(data)
                       /\ \/ (\A i \in 0..(last - 1) : ~Lost(i)) /\ step[last].msg = m
                          \/ e = "server" /\ m.seckeyid < 0 /\ \E i \in 0..(last - 1) : Lost(i)
  BY Zenon DEF CodecFaithful
<1> DEFINE n == Nodeful(e, m)
<1>1. data = Packed(e, m) /\ step = Unpacked(Peer(e), Packed(e, m))
  OBVIOUS
<1>2. Len(Incoming(Peer(e))) = 5 /\ 5 - 1 = 4
  BY Ends
<1>3. data \in Seq(Byte) /\ NumberOf[BytesOf(Len(data), 4)] = Len(data)
  <2>1. data \in Seq(Byte) /\ Len(data) \in Nat /\ TwoByteLength(Len(data))
    BY <1>1, PackedChain
  <2>2. Len(data) < 4294967296
    BY <2>1, SMT DEF TwoByteLength
  <2>3. QED
    BY <2>1, <2>2, NumberOfBytesOf, SMT
<1>4. n \in {4, 5}
  BY DEF Nodeful
<1>5. ASSUME NEW i \in 0..n PROVE Decodes(step[i], i, e, m)
  BY <1>1, <1>5, DecodedChain
<1>6. CASE n = 5
  <2>1. ASSUME NEW i \in 0..4 PROVE step[i].code.next # 0
    <3>1. i \in 0..n /\ i < n /\ i + 1 # 0
      BY <1>6
    <3>2. step[i].code = [chain |-> Encoded(e, m)[5].chain, next |-> IF i < n THEN i + 1 ELSE 0]
      BY <1>5, <3>1, Zenon DEF Decodes
    <3>3. step[i].code.next = i + 1
      BY <3>1, <3>2
    <3>4. QED
      BY <3>1, <3>3
  <2>2. step[5].msg = m
    <3>1. 5 \in 0..n /\ 5 \in 0..5
      BY <1>6
    <3>2. step[5].msg = Partly(e, m, 5)
      BY <1>5, <3>1, Zenon DEF Decodes
    <3> DEFINE a == Partly(e, m, 5)
    <3>3. DOMAIN a = Range(Outgoing(e)) /\ a = [f \in DOMAIN a |-> a[f]]
      BY DEF Partly
    <3>4. DOMAIN m = Range(Outgoing(e)) /\ m = [f \in DOMAIN m |-> m[f]]
      BY ExchangeAssumption, ZenonT(40) DEF IsMsg
    <3>5. ASSUME NEW k \in 1..5 PROVE a[Outgoing(e)[k]] = m[Outgoing(e)[k]]
      BY <3>1, PartlyAt
    <3> HIDE DEF a
    <3>6. a = m
      BY <3>3, <3>4, <3>5, SameStruct
    <3>7. QED
      BY <3>2, <3>6 DEF a
  <2>3. QED
    BY <1>2, <1>3, <2>1, <2>2, Zenon
<1>7. CASE n = 4
  <2>1. Skips(e, m, 5)
    BY <1>7 DEF Nodeful
  <2>2. e = "server" /\ m.seckeyid < 0
    <3>1. IsInt(Outgoing(e)[5]) /\ m[Outgoing(e)[5]] < 0 /\ 5 # 1 /\ 5 \in 1..5
      BY <2>1 DEF Skips
    <3>2. e = "server"
      BY <3>1, Fields
    <3>3. Outgoing(e)[5] = "seckeyid"
      BY <3>2 DEF Outgoing, RespondFields
    <3>4. QED
      BY <3>1, <3>2, <3>3
  <2>3. 4 \in 0..n /\ ~(4 < n)
    BY <1>7
  <2>4. step[4].code.next = 0
    <3>1. step[4].code = [chain |-> Encoded(e, m)[5].chain, next |-> IF 4 < n THEN 4 + 1 ELSE 0]
      BY <1>5, <2>3, Zenon DEF Decodes
    <3>2. QED
      BY <2>3, <3>1
  <2>5. 4 \in 0..4
    OBVIOUS
  <2>6. QED
    BY <1>2, <1>3, <2>2, <2>4, <2>5, Zenon
<1>8. QED
  BY <1>4, <1>6, <1>7
-----------------------------------------------------------------------------
(* The exchange. *)

Steps == {"idle", "encode", "connect", "write", "select", "head", "body", "decode", "handle",
          "close", "done", "failed", "killed", "crashed", "dead"}

(* The order in which an end does its part: the client writes, then reads; the *)
(* server reads, then writes.                                                  *)
Unread(e)  == pc[e] = "idle" \/ (e = "client" /\ pc[e] \in {"encode", "connect", "write", "select"})
Unheard(e) == Unread(e) \/ pc[e] \in {"head", "body", "decode"}
Unsent(e)  == pc[e] = "idle" \/ (e = "server" /\ pc[e] \in {"head", "body", "decode", "handle"})

ControlInv == /\ pc \in [End -> Steps]
              /\ pc["client"] \notin {"handle", "dead"}
              /\ pc["server"] \notin {"connect", "select", "failed", "killed"}

Shapes == /\ DOMAIN msg = End /\ DOMAIN code = End /\ DOMAIN at = End
          /\ DOMAIN sent = End /\ DOMAIN rcvd = End
          /\ DOMAIN frame = End /\ DOMAIN put = End /\ DOMAIN got = End /\ DOMAIN want = End
          /\ DOMAIN pipe = End /\ DOMAIN open = End

(* There is no connection to break before the client asked for one.            *)
ConnInv == pc["client"] \in {"idle", "encode", "connect"} => conn = "none"

(* Who has sent and heard what.                                                *)
HistoryInv(e) ==
    /\ sent[e] \in SentBy(e) \union {NoMsg} /\ (Unsent(e) => sent[e] = NoMsg)
    /\ rcvd[e] \in {NoMsg, sent[Peer(e)]} /\ (Unheard(e) => rcvd[e] = NoMsg)
    /\ pc[e] = "handle" => rcvd[e] # NoMsg
    /\ pc[e] = "crashed" => /\ e = "client" /\ sent["server"] # NoMsg
                            /\ sent["server"].seckeyid < 0

(* A code object holds what encoding or decoding the message up to the member  *)
(* at hand makes of it.                                                        *)
EncodeInv(e) ==
    pc[e] = "encode" => /\ sent[e] # NoMsg /\ msg[e] = sent[e]
                        /\ at[e] \in 1..6 /\ code[e] = Encoded(e, sent[e])[at[e] - 1]

DecodeInv(e) ==
    pc[e] = "decode" =>
        LET step == Unpacked(e, Packed(Peer(e), sent[Peer(e)]))
        IN /\ sent[Peer(e)] # NoMsg
           /\ at[e] \in 1..6 /\ code[e] = step[at[e] - 1].code /\ msg[e] = step[at[e] - 1].msg
           /\ \A i \in 0..at[e] - 2 : step[i].code.next # 0

(* A frame is the one of the message sent.                                     *)
FrameInv(e) ==
    \/ frame[e] = <<>> /\ put[e] = 0
    \/ /\ ~Unsent(e) /\ pc[e] # "encode" /\ sent[e] # NoMsg
       /\ frame[e] = Frame(Packed(e, sent[e])) /\ put[e] \in 0..Len(frame[e])

(* s is what stands in t behind the first n bytes.                             *)
Piece(s, t, n) == /\ s \in Seq(Byte) /\ n + Len(s) <= Len(t)
                  /\ \A i \in 1..Len(s) : s[i] = t[n + i]

(* What arrived from e is its frame from the n bytes read on, as far as it was *)
(* written, or less when e fell silent; unless a reset took it away.           *)
Reach(e, n) == n = put[e] \/ e \in silent

Flow(e, n) == \/ Piece(pipe[e], frame[e], n) /\ Reach(e, n + Len(pipe[e]))
              \/ conn = "broken" /\ pipe[e] = <<>>

(* What e has read of its peer's frame: nothing, its head, or the head and     *)
(* part of the message.                                                        *)
ReadInv(e) ==
    /\ Unread(e) => Flow(Peer(e), 0)
    /\ pc[e] = "head" => /\ Piece(got[e], frame[Peer(e)], 0) /\ want[e] = 4 /\ Len(got[e]) < 4
                         /\ Flow(Peer(e), Len(got[e]))
    /\ pc[e] = "body" => /\ Piece(got[e], frame[Peer(e)], 4)
                         /\ want[e] = Len(frame[Peer(e)]) - 4
                         /\ Flow(Peer(e), 4 + Len(got[e]))

ExchangeInv ==
    /\ Shapes /\ ControlInv /\ ConnInv
    /\ \A e \in End : /\ HistoryInv(e) /\ EncodeInv(e) /\ DecodeInv(e)
                      /\ FrameInv(e) /\ ReadInv(e)
-----------------------------------------------------------------------------
(* The steps of the two programs, one by one.                                  *)
LEMMA StepCases ==
    ASSUME [Next]_vars
    PROVE  \/ \E e \in End : \/ Encode(e) \/ Pack(e) \/ Write(e) \/ WriteFails(e)
                            \/ Select(e) \/ Read(e) \/ ReadFails(e)
                            \/ Decode(e) \/ NullNode(e) \/ Decoded(e) \/ Close(e)
           \/ Ask \/ Connect \/ TimeOut \/ HangUp \/ Handle \/ Refuse \/ Break \/ Silence \/ ServerDies
           \/ UNCHANGED vars
  BY DEF Next, ClientStep, ServerStep, EndStep, End

LEMMA ShapesKept == Shapes /\ [Next]_vars => Shapes'
<1> SUFFICES ASSUME Shapes, [Next]_vars PROVE Shapes'
  OBVIOUS
<1> USE DEF Shapes
<1>1. ASSUME NEW e \in End, Read(e) PROVE Shapes'
  BY <1>1 DEF Read, ReadN, Go, coding
<1>2. ASSUME NEW e \in End, Encode(e) \/ Pack(e) \/ Write(e) \/ WriteFails(e) \/ Select(e)
      PROVE  Shapes'
  BY <1>2 DEF Encode, Pack, Write, WriteFails, Select, ReadN, Go, coding, wire
<1>3. ASSUME NEW e \in End,
             ReadFails(e) \/ Decode(e) \/ NullNode(e) \/ Decoded(e) \/ Close(e)
      PROVE  Shapes'
  BY <1>3 DEF ReadFails, Decode, NullNode, Decoded, Close, Go, coding, wire
<1>4. ASSUME Ask \/ Handle PROVE Shapes'
  BY <1>4 DEF Ask, Handle, Begin, Go, wire
<1>5. ASSUME Connect \/ TimeOut \/ HangUp \/ Refuse \/ Break \/ Silence \/ ServerDies \/ UNCHANGED vars
      PROVE  Shapes'
  BY <1>5 DEF Connect, TimeOut, HangUp, Refuse, Break, Silence, ServerDies, Go, coding, wire, vars
<1>6. QED
  BY <1>1, <1>2, <1>3, <1>4, <1>5, StepCases

LEMMA ControlKept == ControlInv /\ ConnInv /\ [Next]_vars => ControlInv' /\ ConnInv'
<1> SUFFICES ASSUME ControlInv, ConnInv, [Next]_vars PROVE ControlInv' /\ ConnInv'
  OBVIOUS
<1> USE DEF ControlInv, ConnInv, Steps
<1>1. ASSUME NEW e \in End, Read(e) PROVE ControlInv' /\ ConnInv'
  <2>1. pc[e] \in {"head", "body"} /\ conn' = conn
    BY <1>1 DEF Read
  <2>2. pc' = pc \/ \E step \in {"body", "decode"} : pc' = [pc EXCEPT ![e] = step]
    BY <1>1 DEF Read, ReadN, Go
  <2>3. QED
    BY <2>1, <2>2 DEF End
<1>2. ASSUME NEW e \in End, Encode(e) \/ Pack(e) \/ Write(e) \/ WriteFails(e) \/ Select(e)
      PROVE  ControlInv' /\ ConnInv'
  BY <1>2 DEF Encode, Pack, Write, WriteFails, Select, ReadN, Go, wire, End
<1>3. ASSUME NEW e \in End,
             ReadFails(e) \/ Decode(e) \/ NullNode(e) \/ Decoded(e) \/ Close(e)
      PROVE  ControlInv' /\ ConnInv'
  BY <1>3 DEF ReadFails, Decode, NullNode, Decoded, Close, Go, wire, End
<1>4. ASSUME Ask \/ Handle PROVE ControlInv' /\ ConnInv'
  BY <1>4 DEF Ask, Handle, Begin, Go, wire, End
<1>5. ASSUME Connect \/ TimeOut \/ HangUp \/ Refuse \/ Break \/ Silence \/ ServerDies \/ UNCHANGED vars
      PROVE  ControlInv' /\ ConnInv'
  BY <1>5 DEF Connect, TimeOut, HangUp, Refuse, Break, Silence, ServerDies, Go, wire, vars, End
<1>6. QED
  BY <1>1, <1>2, <1>3, <1>4, <1>5, StepCases
-----------------------------------------------------------------------------
(* A message once sent stays the one its sender works with.                    *)
LEMMA SentStays ==
    ASSUME ExchangeInv, [Next]_vars, NEW d \in End, sent[d] # NoMsg
    PROVE  sent'[d] = sent[d]
<1> USE DEF ExchangeInv, HistoryInv, Unsent
<1>1. ASSUME Ask \/ Handle PROVE sent'[d] = sent[d]
  BY <1>1, Ends DEF Ask, Handle, Begin, Shapes
<1>2. ASSUME NEW e \in End, Read(e) PROVE sent'[d] = sent[d]
  BY <1>2 DEF Read, coding
<1>3. ASSUME NEW e \in End, Encode(e) \/ Pack(e) \/ Write(e) \/ WriteFails(e) \/ Select(e)
      PROVE  sent'[d] = sent[d]
  BY <1>3 DEF Encode, Pack, Write, WriteFails, Select, coding
<1>4. ASSUME NEW e \in End,
             ReadFails(e) \/ Decode(e) \/ NullNode(e) \/ Decoded(e) \/ Close(e)
      PROVE  sent'[d] = sent[d]
  BY <1>4 DEF ReadFails, Decode, NullNode, Decoded, Close, coding
<1>5. ASSUME Connect \/ TimeOut \/ HangUp \/ Refuse \/ Break \/ Silence \/ ServerDies \/ UNCHANGED vars
      PROVE  sent'[d] = sent[d]
  BY <1>5 DEF Connect, TimeOut, HangUp, Refuse, Break, Silence, ServerDies, coding, vars
<1>6. QED
  BY <1>1, <1>2, <1>3, <1>4, <1>5, StepCases

(* What a handler may answer is what the server may send.                      *)
LEMMA Answered ==
    ASSUME ExchangeInv, pc["server"] = "handle", NEW m \in AnswersTo(rcvd["server"])
    PROVE  rcvd["server"] \in Requests /\ m \in SentBy("server")
<1>1. rcvd["server"] # NoMsg /\ rcvd["server"] = sent["client"]
  BY Ends DEF ExchangeInv, HistoryInv, Peer
<1>2. rcvd["server"] \in Requests
  BY <1>1, Ends DEF ExchangeInv, HistoryInv, SentBy
<1>3. QED
  BY <1>2 DEF SentBy

LEMMA Sendable ==
    ASSUME NEW e \in End, NEW m \in SentBy(e)
    PROVE  m # NoMsg
  BY ExchangeAssumption

LEMMA EncodeKept ==
    ASSUME ExchangeInv, [Next]_vars, NEW d \in End
    PROVE  EncodeInv(d)'
<1> USE DEF EncodeInv
<1>0. EncodeInv(d) /\ Shapes /\ ControlInv
  BY DEF ExchangeInv
<1>1. ASSUME NEW e \in End, NEW m \in SentBy(e), Begin(e, m) PROVE EncodeInv(d)'
  <2>1. CASE d = e
    <3>1. /\ pc'[d] = "encode" /\ sent'[d] = m /\ msg'[d] = m /\ at'[d] = 1
          /\ code'[d] = NewCode
      BY <1>1, <1>0, <2>1 DEF Begin, Go, Shapes, ControlInv
    <3>2. m # NoMsg /\ Encoded(d, m)[0] = NewCode
      BY <2>1, Sendable, EncodedSteps
    <3>3. QED
      BY <3>1, <3>2
  <2>2. CASE d # e
    <3>1. /\ pc'[d] = pc[d] /\ sent'[d] = sent[d] /\ msg'[d] = msg[d] /\ at'[d] = at[d]
          /\ code'[d] = code[d]
      BY <1>1, <1>0, <2>2 DEF Begin, Go, Shapes, ControlInv
    <3>2. QED
      BY <3>1, <1>0
  <2>3. QED
    BY <2>1, <2>2
<1>2. ASSUME NEW e \in End, Encode(e) PROVE EncodeInv(d)'
  <2>1. CASE d = e
    <3>0. /\ at[d] <= 5 /\ pc[d] = "encode" /\ UNCHANGED <<pc, msg, sent>>
          /\ code' = [code EXCEPT ![d] = EncodeMember(d, code[d], msg[d], at[d])]
          /\ at' = [at EXCEPT ![d] = at[d] + 1]
      BY <1>2, <2>1, Ends DEF Encode
    <3>1. /\ at[d] \in 1..5 /\ at'[d] = at[d] + 1 /\ msg'[d] = msg[d] /\ sent'[d] = sent[d]
          /\ code'[d] = EncodeMember(d, code[d], msg[d], at[d]) /\ pc'[d] = "encode"
      BY <3>0, <1>0 DEF Shapes
    <3>2. Encoded(d, sent[d])[at[d]] = EncodeMember(d, Encoded(d, sent[d])[at[d] - 1], sent[d], at[d])
      BY <3>1, EncodedSteps
    <3>3. at'[d] \in 1..6 /\ at'[d] - 1 = at[d]
      BY <3>1
    <3>4. code[d] = Encoded(d, sent[d])[at[d] - 1] /\ msg[d] = sent[d] /\ sent[d] # NoMsg
      BY <1>2, <1>0, <2>1 DEF Encode
    <3>5. QED
      BY <3>1, <3>2, <3>3, <3>4
  <2>2. CASE d # e
    <3>1. /\ pc'[d] = pc[d] /\ sent'[d] = sent[d] /\ msg'[d] = msg[d] /\ at'[d] = at[d]
          /\ code'[d] = code[d]
      BY <1>2, <1>0, <2>2 DEF Encode, Shapes
    <3>2. QED
      BY <3>1, <1>0
  <2>3. QED
    BY <2>1, <2>2
<1>3. ASSUME NEW e \in End, Read(e) PROVE EncodeInv(d)'
  <2>1. pc' = pc \/ \E step \in {"body", "decode"} : pc' = [pc EXCEPT ![e] = step]
    BY <1>3 DEF Read, ReadN, Go
  <2>2. /\ sent' = sent /\ (d # e => msg'[d] = msg[d] /\ at'[d] = at[d] /\ code'[d] = code[d])
        /\ pc[e] \in {"head", "body"}
    BY <1>3, <1>0 DEF Read, Shapes, coding
  <2>3. pc'[d] = "encode" => d # e /\ pc[d] = "encode"
    BY <2>1, <2>2, <1>0 DEF ControlInv
  <2>4. QED
    BY <2>2, <2>3, <1>0
<1>4. ASSUME NEW e \in End, Pack(e) \/ Write(e) \/ WriteFails(e) \/ Select(e) \/ ReadFails(e)
      PROVE  EncodeInv(d)'
  <2>1. pc'[d] = "encode" => /\ pc[d] = "encode" /\ sent'[d] = sent[d] /\ msg'[d] = msg[d]
                             /\ at'[d] = at[d] /\ code'[d] = code[d]
    BY <1>4, <1>0 DEF Pack, Write, WriteFails, Select, ReadFails, ReadN, Go, ControlInv, coding
  <2>2. QED
    BY <2>1, <1>0
<1>5. ASSUME NEW e \in End, Decode(e) \/ NullNode(e) \/ Decoded(e) \/ Close(e)
      PROVE  EncodeInv(d)'
  <2>1. pc'[d] = "encode" => /\ pc[d] = "encode" /\ sent'[d] = sent[d] /\ msg'[d] = msg[d]
                             /\ at'[d] = at[d] /\ code'[d] = code[d]
    BY <1>5, <1>0 DEF Decode, NullNode, Decoded, Close, Go, Shapes, ControlInv, coding
  <2>2. QED
    BY <2>1, <1>0
<1>6. ASSUME Connect \/ TimeOut \/ HangUp \/ Refuse \/ Break \/ Silence \/ ServerDies \/ UNCHANGED vars
      PROVE  EncodeInv(d)'
  <2>1. pc'[d] = "encode" => /\ pc[d] = "encode" /\ sent'[d] = sent[d] /\ msg'[d] = msg[d]
                             /\ at'[d] = at[d] /\ code'[d] = code[d]
    BY <1>6, <1>0 DEF Connect, TimeOut, HangUp, Refuse, Break, Silence, ServerDies, Go, ControlInv, coding, vars
  <2>2. QED
    BY <2>1, <1>0
<1>7. ASSUME Ask PROVE EncodeInv(d)'
  BY <1>7, <1>1, Ends DEF Ask, SentBy
<1>8. ASSUME Handle PROVE EncodeInv(d)'
  <2>1. PICK m \in AnswersTo(rcvd["server"]) : Begin("server", m)
    BY <1>8 DEF Handle
  <2>2. m \in SentBy("server")
    BY <1>8, <2>1, Answered DEF Handle
  <2>3. QED
    BY <2>1, <2>2, <1>1, Ends
<1>9. QED
  BY <1>1, <1>2, <1>3, <1>4, <1>5, <1>6, <1>7, <1>8, StepCases
-----------------------------------------------------------------------------
(* Pieces of a byte string: two neighbours together are one, one may be cut    *)
(* in two.                                                                     *)
LEMMA PieceAppend ==
    ASSUME NEW s, NEW u, NEW t \in Seq(Byte), NEW n \in Nat, Piece(s, t, n), Piece(u, t, n + Len(s))
    PROVE  Piece(s \o u, t, n) /\ Len(s \o u) = Len(s) + Len(u)
<1>1. s \in Seq(Byte) /\ u \in Seq(Byte) /\ Len(s) \in Nat /\ Len(u) \in Nat /\ Len(t) \in Nat
  BY LenProperties DEF Piece
<1>2. /\ s \o u \in Seq(Byte) /\ Len(s \o u) = Len(s) + Len(u)
      /\ \A i \in 1..Len(s) + Len(u) : (s \o u)[i] = IF i <= Len(s) THEN s[i] ELSE u[i - Len(s)]
  BY <1>1, ConcatProperties
<1>3. ASSUME NEW i \in 1..Len(s) + Len(u) PROVE (s \o u)[i] = t[n + i]
  <2>1. CASE i <= Len(s)
    BY <2>1, <1>1, <1>2 DEF Piece
  <2>2. CASE i > Len(s)
    <3>1. i - Len(s) \in 1..Len(u) /\ n + Len(s) + (i - Len(s)) = n + i
      BY <2>2, <1>1
    <3>2. u[i - Len(s)] = t[n + Len(s) + (i - Len(s))]
      BY <3>1 DEF Piece
    <3>3. QED
      BY <3>1, <3>2, <2>2, <1>1, <1>2
  <2>3. QED
    BY <2>1, <2>2, <1>1
<1>4. n + (Len(s) + Len(u)) <= Len(t)
  BY <1>1 DEF Piece
<1>5. QED
  BY <1>2, <1>3, <1>4 DEF Piece

LEMMA PieceCut ==
    ASSUME NEW s, NEW t \in Seq(Byte), NEW n \in Nat, Piece(s, t, n), NEW k \in 0..Len(s)
    PROVE  /\ Piece(SubSeq(s, 1, k), t, n) /\ Len(SubSeq(s, 1, k)) = k
           /\ Piece(SubSeq(s, k + 1, Len(s)), t, n + k)
           /\ Len(SubSeq(s, k + 1, Len(s))) = Len(s) - k
<1>1. s \in Seq(Byte) /\ Len(s) \in Nat /\ Len(t) \in Nat
  BY LenProperties DEF Piece
<1>2. \A i \in 1..Len(s) : s[i] \in Byte
  BY <1>1, ElementOfSeq
<1>3. /\ SubSeq(s, 1, k) \in Seq(Byte) /\ Len(SubSeq(s, 1, k)) = k
      /\ \A i \in 1..k : SubSeq(s, 1, k)[i] = s[i]
  <2>1. \A i \in 1..k : s[i] \in Byte
    BY <1>1, <1>2
  <2>2. QED
    BY <2>1, <1>1, SubSeqProperties
<1>4. /\ SubSeq(s, k + 1, Len(s)) \in Seq(Byte) /\ Len(SubSeq(s, k + 1, Len(s))) = Len(s) - k
      /\ \A i \in 1..Len(s) - k : SubSeq(s, k + 1, Len(s))[i] = s[k + i]
  <2>1. \A i \in (k + 1)..Len(s) : s[i] \in Byte
    BY <1>1, <1>2
  <2>2. /\ SubSeq(s, k + 1, Len(s)) \in Seq(Byte)
        /\ Len(SubSeq(s, k + 1, Len(s))) = IF k + 1 <= Len(s) THEN Len(s) - (k + 1) + 1 ELSE 0
        /\ \A i \in 1..(Len(s) - (k + 1) + 1) : SubSeq(s, k + 1, Len(s))[i] = s[(k + 1) + i - 1]
    BY <2>1, <1>1, SubSeqProperties
  <2>3. Len(s) - (k + 1) + 1 = Len(s) - k
    BY <1>1
  <2>4. ASSUME NEW i \in 1..Len(s) - k PROVE SubSeq(s, k + 1, Len(s))[i] = s[k + i]
    <3>1. (k + 1) + i - 1 = k + i
      BY <1>1
    <3>2. QED
      BY <2>2, <2>3, <3>1
  <2>5. Len(SubSeq(s, k + 1, Len(s))) = Len(s) - k
    BY <2>2, <1>1
  <2>6. QED
    BY <2>2, <2>4, <2>5
<1>5. \A i \in 1..k : SubSeq(s, 1, k)[i] = t[n + i]
  BY <1>3, <1>1 DEF Piece
<1>6. \A i \in 1..Len(s) - k : SubSeq(s, k + 1, Len(s))[i] = t[n + k + i]
  <2>1. \A i \in 1..Len(s) - k : k + i \in 1..Len(s) /\ n + (k + i) = n + k + i
    BY <1>1
  <2>2. QED
    BY <2>1, <1>4 DEF Piece
<1>7. n + k <= Len(t) /\ n + k + (Len(s) - k) <= Len(t)
  BY <1>1 DEF Piece
<1>8. QED
  BY <1>3, <1>4, <1>5, <1>6, <1>7 DEF Piece

LEMMA PieceOf ==
    ASSUME NEW t \in Seq(Byte), NEW a \in Nat, NEW b \in Nat, a <= b, b <= Len(t)
    PROVE  Piece(SubSeq(t, a + 1, b), t, a) /\ Len(SubSeq(t, a + 1, b)) = b - a
<1>1. Piece(t, t, 0) /\ Len(t) \in Nat
  BY LenProperties DEF Piece
<1>2. /\ Piece(SubSeq(t, 1, b), t, 0) /\ Len(SubSeq(t, 1, b)) = b
  BY <1>1, PieceCut
<1>3. \A i \in 1..Len(t) : t[i] \in Byte
  BY ElementOfSeq
<1>4. /\ SubSeq(t, a + 1, b) \in Seq(Byte)
      /\ Len(SubSeq(t, a + 1, b)) = IF a + 1 <= b THEN b - (a + 1) + 1 ELSE 0
      /\ \A i \in 1..(b - (a + 1) + 1) : SubSeq(t, a + 1, b)[i] = t[(a + 1) + i - 1]
  <2>1. \A i \in (a + 1)..b : t[i] \in Byte
    BY <1>1, <1>3
  <2>2. QED
    BY <2>1, SubSeqProperties
<1>5. b - (a + 1) + 1 = b - a /\ \A i \in 1..b - a : (a + 1) + i - 1 = a + i
  OBVIOUS
<1>6. QED
  BY <1>4, <1>5, <1>1 DEF Piece

(* The head of a frame and the message in it.                                  *)
LEMMA FrameParts ==
    ASSUME NEW data \in Seq(Byte)
    PROVE  /\ Frame(data) \in Seq(Byte) /\ Len(Frame(data)) = 4 + Len(data)
           /\ \A g : Piece(g, Frame(data), 0) /\ Len(g) = 4 => g = BytesOf(Len(data), 4)
           /\ \A g : Piece(g, Frame(data), 4) /\ Len(g) = Len(data) => g = data
<1> DEFINE h == BytesOf(Len(data), 4)
<1>0. Len(data) \in Nat
  BY LenProperties
<1>1. h \in Seq(Byte) /\ Len(h) = 4
  <2>1. Len(data) \in Int /\ 4 \in 1..4
    BY <1>0
  <2>2. QED
    BY <2>1, BytesOfBytes
<1> HIDE DEF h
<1>2. /\ h \o data \in Seq(Byte) /\ Len(h \o data) = 4 + Len(data)
      /\ \A i \in 1..4 + Len(data) : (h \o data)[i] = IF i <= 4 THEN h[i] ELSE data[i - 4]
  <2>1. /\ h \o data \in Seq(Byte) /\ Len(h \o data) = Len(h) + Len(data)
        /\ \A i \in 1..Len(h) + Len(data) : (h \o data)[i] = IF i <= Len(h) THEN h[i]
                                                           ELSE data[i - Len(h)]
    BY <1>1, ConcatProperties
  <2>2. QED
    BY <2>1, <1>1
<1>3. ASSUME NEW g, Piece(g, h \o data, 0), Len(g) = 4 PROVE g = h
  <2>1. \A i \in 1..4 : g[i] = h[i]
    BY <1>0, <1>1, <1>2, <1>3 DEF Piece
  <2>2. QED
    BY <2>1, <1>1, <1>3, SeqEqual DEF Piece
<1>4. ASSUME NEW g, Piece(g, h \o data, 4), Len(g) = Len(data) PROVE g = data
  <2>1. \A i \in 1..Len(data) : g[i] = data[i]
    BY <1>0, <1>1, <1>2, <1>4 DEF Piece
  <2>2. QED
    BY <2>1, <1>1, <1>4, SeqEqual DEF Piece
<1>5. QED
  BY <1>2, <1>3, <1>4 DEF Frame, h
-----------------------------------------------------------------------------
LEMMA Packing ==
    ASSUME NEW e \in End, NEW m \in SentBy(e)
    PROVE  /\ Packed(e, m) \in Seq(Byte)
           /\ NumberOf[BytesOf(Len(Packed(e, m)), 4)] = Len(Packed(e, m))
  BY CodecKeeps DEF CodecFaithful

LEMMA FrameBytes ==
    ASSUME ExchangeInv, NEW e \in End
    PROVE  frame[e] \in Seq(Byte) /\ Len(frame[e]) \in Nat /\ put[e] \in 0..Len(frame[e])
<1>1. FrameInv(e) /\ sent[e] \in SentBy(e) \union {NoMsg}
  BY DEF ExchangeInv, HistoryInv
<1>2. CASE frame[e] = <<>> /\ put[e] = 0
  BY <1>2, EmptySeq
<1>3. CASE /\ sent[e] # NoMsg /\ frame[e] = Frame(Packed(e, sent[e]))
           /\ put[e] \in 0..Len(frame[e])
  <2>1. Packed(e, sent[e]) \in Seq(Byte)
    BY <1>1, <1>3, Packing
  <2>2. QED
    BY <2>1, <1>3, FrameParts, LenProperties
<1>4. QED
  BY <1>1, <1>2, <1>3 DEF FrameInv

(* One read of n of the bytes that arrived, behind what was read before.       *)
LEMMA ReadPiece ==
    ASSUME NEW t \in Seq(Byte), NEW base \in Nat, NEW k \in Nat, NEW g, NEW b, NEW n \in 0..Len(b),
           Piece(g, t, base), k = base + Len(g), Piece(b, t, k)
    PROVE  /\ Piece(g \o SubSeq(b, 1, n), t, base) /\ Len(g \o SubSeq(b, 1, n)) = Len(g) + n
           /\ Piece(SubSeq(b, n + 1, Len(b)), t, k + n)
           /\ Len(SubSeq(b, n + 1, Len(b))) = Len(b) - n
<1>1. Len(g) \in Nat /\ Len(b) \in Nat
  BY LenProperties DEF Piece
<1>2. /\ Piece(SubSeq(b, 1, n), t, k) /\ Len(SubSeq(b, 1, n)) = n
      /\ Piece(SubSeq(b, n + 1, Len(b)), t, k + n)
      /\ Len(SubSeq(b, n + 1, Len(b))) = Len(b) - n
  BY PieceCut
<1>3. Piece(g \o SubSeq(b, 1, n), t, base) /\ Len(g \o SubSeq(b, 1, n)) = Len(g) + n
  BY <1>2, PieceAppend
<1>4. QED
  BY <1>2, <1>3

(* Who has read a byte of a frame: the frame is the one of a message sent.     *)
LEMMA FrameRead ==
    ASSUME ExchangeInv, NEW p \in End, frame[p] # <<>>
    PROVE  LET data == Packed(p, sent[p])
           IN /\ sent[p] # NoMsg /\ frame[p] = Frame(data)
              /\ data \in Seq(Byte) /\ Len(data) \in Nat /\ Len(frame[p]) = 4 + Len(data)
              /\ NumberOf[BytesOf(Len(data), 4)] = Len(data)
<1>1. FrameInv(p) /\ sent[p] \in SentBy(p) \union {NoMsg}
  BY DEF ExchangeInv, HistoryInv
<1>2. sent[p] # NoMsg /\ sent[p] \in SentBy(p) /\ frame[p] = Frame(Packed(p, sent[p]))
  BY <1>1 DEF FrameInv
<1>3. QED
  BY <1>2, Packing, FrameParts, LenProperties

(* What readn has after a read that completes nothing, a head or a message.    *)
LEMMA ReadHead ==
    ASSUME ExchangeInv, NEW e \in End, pc[e] = "head",
           NEW n \in 0..Len(pipe[Peer(e)]), Len(pipe[Peer(e)]) > 0
    PROVE  LET p == Peer(e)
               h == got[e] \o SubSeq(pipe[p], 1, n)
               r == SubSeq(pipe[p], n + 1, Len(pipe[p]))
           IN /\ Piece(h, frame[p], 0) /\ Len(h) = Len(got[e]) + n /\ Len(h) \in Nat
              /\ Piece(r, frame[p], Len(h)) /\ Reach(p, Len(h) + Len(r))
              /\ Len(h) = 4 => NumberOf[h] = Len(frame[p]) - 4
<1> DEFINE p == Peer(e)
           t == frame[p]
           g == got[e]
           b == pipe[p]
           h == g \o SubSeq(b, 1, n)
           r == SubSeq(b, n + 1, Len(b))
<1>1. p \in End /\ n \in 0..Len(b) /\ Len(b) > 0
  BY Ends
<1>2. t \in Seq(Byte) /\ Len(t) \in Nat
  BY <1>1, FrameBytes
<1>3. Piece(g, t, 0) /\ Flow(p, Len(g))
  BY DEF ExchangeInv, ReadInv
<1>4. b # <<>>
  BY <1>1, EmptySeq
<1>5. Piece(b, t, Len(g)) /\ Reach(p, Len(g) + Len(b))
  BY <1>3, <1>4 DEF Flow
<1> HIDE DEF t, g, b
<1>6. Len(g) \in Nat /\ Len(b) \in Nat
  BY <1>3, <1>5, LenProperties DEF Piece
<1>7. /\ Piece(h, t, 0) /\ Len(h) = Len(g) + n
      /\ Piece(r, t, 0 + Len(h)) /\ Reach(p, 0 + Len(h) + Len(r))
  <2> DEFINE k == Len(g)
  <2>1. k \in Nat /\ k = 0 + Len(g) /\ Piece(b, t, k) /\ Reach(p, k + Len(b))
    BY <1>5, <1>6
  <2> HIDE DEF k
  <2>2. Piece(h, t, 0)
    BY <1>1, <1>2, <1>3, <2>1, ReadPiece
  <2>3. Len(h) = Len(g) + n
    BY <1>1, <1>2, <1>3, <2>1, ReadPiece
  <2>4. Piece(r, t, k + n)
    BY <1>1, <1>2, <1>3, <2>1, ReadPiece
  <2>5. Len(r) = Len(b) - n
    BY <1>1, <1>2, <1>3, <2>1, ReadPiece
  <2> HIDE DEF h, r
  <2> DEFINE lh == Len(h)  lr == Len(r)  lb == Len(b)  lg == Len(g)
  <2>6. /\ lg \in Nat /\ lb \in Nat /\ n \in Nat /\ k = 0 + lg
        /\ lh = lg + n /\ lr = lb - n
    BY <1>1, <1>2, <1>6, <2>1, <2>3, <2>5
  <2> HIDE DEF lh, lr, lb, lg
  <2>7. 0 + lh = k + n /\ 0 + lh + lr = k + lb
    BY <2>6
  <2>8. 0 + Len(h) = k + n /\ 0 + Len(h) + Len(r) = k + Len(b)
    BY <2>7 DEF lh, lr, lb
  <2>9. QED
    BY <2>1, <2>2, <2>3, <2>4, <2>8
<1> HIDE DEF h, r
<1>8. Len(h) \in Nat /\ 0 + Len(h) = Len(h)
  BY <1>1, <1>6, <1>7
<1>9. t # <<>>
  <2>1. Len(g) + Len(b) <= Len(t)
    BY <1>5 DEF Piece
  <2>2. Len(t) > 0
    BY <2>1, <1>1, <1>2, <1>6
  <2>3. QED
    BY <2>2, EmptySeq
<1> DEFINE data == Packed(p, sent[p])
<1>10. /\ sent[p] # NoMsg /\ t = Frame(data) /\ data \in Seq(Byte) /\ Len(data) \in Nat
       /\ Len(t) = 4 + Len(data) /\ NumberOf[BytesOf(Len(data), 4)] = Len(data)
  <2>1. frame[p] # <<>>
    BY <1>9 DEF t
  <2>2. QED
    BY <2>1, <1>1, FrameRead DEF t
<1> HIDE DEF data
<1>11. ASSUME Len(h) = 4 PROVE NumberOf[h] = Len(t) - 4
  <2>1. h = BytesOf(Len(data), 4)
    BY <1>7, <1>10, <1>11, FrameParts
  <2>2. QED
    BY <2>1, <1>10
<1>12. QED
  BY <1>7, <1>8, <1>10, <1>11 DEF h, r, t, g, b, data

LEMMA ReadBody ==
    ASSUME ExchangeInv, NEW e \in End, pc[e] = "body",
           NEW n \in 0..Len(pipe[Peer(e)]), Len(pipe[Peer(e)]) > 0
    PROVE  LET p == Peer(e)
               h == got[e] \o SubSeq(pipe[p], 1, n)
               r == SubSeq(pipe[p], n + 1, Len(pipe[p]))
           IN /\ Piece(h, frame[p], 4) /\ Len(h) = Len(got[e]) + n /\ Len(h) \in Nat
              /\ Piece(r, frame[p], 4 + Len(h)) /\ Reach(p, 4 + Len(h) + Len(r))
              /\ sent[p] # NoMsg
              /\ Len(h) = want[e] => h = Packed(p, sent[p])
<1> DEFINE p == Peer(e)
           t == frame[p]
           g == got[e]
           b == pipe[p]
           h == g \o SubSeq(b, 1, n)
           r == SubSeq(b, n + 1, Len(b))
<1>1. p \in End /\ n \in 0..Len(b) /\ Len(b) > 0
  BY Ends
<1>2. t \in Seq(Byte) /\ Len(t) \in Nat
  BY <1>1, FrameBytes
<1>3. Piece(g, t, 4) /\ Flow(p, 4 + Len(g)) /\ want[e] = Len(t) - 4
  BY DEF ExchangeInv, ReadInv
<1>4. b # <<>>
  BY <1>1, EmptySeq
<1>5. Piece(b, t, 4 + Len(g)) /\ Reach(p, 4 + Len(g) + Len(b))
  BY <1>3, <1>4 DEF Flow
<1> HIDE DEF t, g, b
<1>6. Len(g) \in Nat /\ Len(b) \in Nat
  BY <1>3, <1>5, LenProperties DEF Piece
<1>7. /\ Piece(h, t, 4) /\ Len(h) = Len(g) + n
      /\ Piece(r, t, 4 + Len(h)) /\ Reach(p, 4 + Len(h) + Len(r))
  <2> DEFINE k == 4 + Len(g)
  <2>1. k \in Nat /\ k = 4 + Len(g) /\ Piece(b, t, k) /\ Reach(p, k + Len(b))
    BY <1>5, <1>6
  <2> HIDE DEF k
  <2>2. Piece(h, t, 4)
    BY <1>1, <1>2, <1>3, <2>1, ReadPiece
  <2>3. Len(h) = Len(g) + n
    BY <1>1, <1>2, <1>3, <2>1, ReadPiece
  <2>4. Piece(r, t, k + n)
    BY <1>1, <1>2, <1>3, <2>1, PieceCut
  <2>5. Len(r) = Len(b) - n
    BY <1>1, <1>2, <1>3, <2>1, ReadPiece
  <2> HIDE DEF h, r
  <2> DEFINE lh == Len(h)  lr == Len(r)  lb == Len(b)  lg == Len(g)
  <2>6. /\ lg \in Nat /\ lb \in Nat /\ n \in Nat /\ k = 4 + lg
        /\ lh = lg + n /\ lr = lb - n
    BY <1>1, <1>2, <1>6, <2>1, <2>3, <2>5
  <2> HIDE DEF lh, lr, lb, lg
  <2>7. 4 + lh = k + n /\ 4 + lh + lr = k + lb
    BY <2>6
  <2>8. 4 + Len(h) = k + n /\ 4 + Len(h) + Len(r) = k + Len(b)
    BY <2>7 DEF lh, lr, lb
  <2>9. QED
    BY <2>1, <2>2, <2>3, <2>4, <2>8
<1> HIDE DEF h, r
<1>8. Len(h) \in Nat
  BY <1>1, <1>6, <1>7
<1>9. t # <<>>
  <2>1. 4 + Len(g) + Len(b) <= Len(t)
    BY <1>5 DEF Piece
  <2>2. Len(t) > 0
    BY <2>1, <1>1, <1>2, <1>6
  <2>3. QED
    BY <2>2, EmptySeq
<1> DEFINE data == Packed(p, sent[p])
<1>10. /\ sent[p] # NoMsg /\ t = Frame(data) /\ data \in Seq(Byte) /\ Len(data) \in Nat
       /\ Len(t) = 4 + Len(data) /\ NumberOf[BytesOf(Len(data), 4)] = Len(data)
  <2>1. frame[p] # <<>>
    BY <1>9 DEF t
  <2>2. QED
    BY <2>1, <1>1, FrameRead DEF t
<1> HIDE DEF data
<1>11. ASSUME Len(h) = want[e] PROVE h = data
  <2>1. Len(h) = Len(data)
    BY <1>3, <1>10, <1>11
  <2>2. QED
    BY <2>1, <1>7, <1>10, FrameParts
<1>12. QED
  BY <1>7, <1>8, <1>10, <1>11 DEF h, r, t, g, b, data
-----------------------------------------------------------------------------
(* What d has read stays true as long as the bytes it has not read still flow. *)
LEMMA ReadFlows ==
    ASSUME NEW d \in End, NEW p, p = Peer(d), ReadInv(d), frame'[p] = frame[p],
           \A n \in Nat : Flow(p, n) => Flow(p, n)',
           Unread(d)' => Unread(d),
           pc'[d] \in {"head", "body"} => /\ pc'[d] = pc[d] /\ got'[d] = got[d]
                                          /\ want'[d] = want[d]
    PROVE  ReadInv(d)'
<1>1. Unread(d)' => Flow(p, 0)'
  BY DEF ReadInv
<1>2. ASSUME pc'[d] = "head"
      PROVE  /\ Piece(got[d], frame[p], 0)' /\ want'[d] = 4 /\ Len(got'[d]) < 4
             /\ Flow(p, Len(got[d]))'
  <2>1. pc[d] = "head" /\ got'[d] = got[d] /\ want'[d] = want[d]
    BY <1>2
  <2>2. /\ Piece(got[d], frame[p], 0) /\ want[d] = 4 /\ Len(got[d]) < 4
        /\ Flow(p, Len(got[d]))
    BY <2>1 DEF ReadInv
  <2>3. Len(got[d]) \in Nat
    BY <2>2, LenProperties DEF Piece
  <2>4. Flow(p, Len(got[d]))'
    BY <2>1, <2>2, <2>3 DEF Flow, Piece, Reach
  <2>5. Piece(got'[d], frame'[p], 0)
    BY <2>1, <2>2
  <2>6. QED
    BY <2>1, <2>2, <2>4, <2>5
<1>3. ASSUME pc'[d] = "body"
      PROVE  /\ Piece(got[d], frame[p], 4)' /\ want'[d] = Len(frame'[p]) - 4
             /\ Flow(p, 4 + Len(got[d]))'
  <2>1. pc[d] = "body" /\ got'[d] = got[d] /\ want'[d] = want[d]
    BY <1>3
  <2>2. /\ Piece(got[d], frame[p], 4) /\ want[d] = Len(frame[p]) - 4
        /\ Flow(p, 4 + Len(got[d]))
    BY <2>1 DEF ReadInv
  <2>3. 4 + Len(got[d]) \in Nat
    BY <2>2, LenProperties DEF Piece
  <2>4. Flow(p, 4 + Len(got[d]))'
    BY <2>1, <2>2, <2>3 DEF Flow, Piece, Reach
  <2>5. Piece(got'[d], frame'[p], 4)
    BY <2>1, <2>2
  <2>6. QED
    BY <2>1, <2>2, <2>4, <2>5
<1>4. QED
  BY <1>1, <1>2, <1>3 DEF ReadInv

LEMMA ReadStays ==
    ASSUME NEW d \in End, NEW p, p = Peer(d), ReadInv(d),
           pipe'[p] = pipe[p], frame'[p] = frame[p], put'[p] = put[p],
           conn = "broken" => conn' = "broken", silent \subseteq silent',
           Unread(d)' => Unread(d),
           pc'[d] \in {"head", "body"} => /\ pc'[d] = pc[d] /\ got'[d] = got[d]
                                          /\ want'[d] = want[d]
    PROVE  ReadInv(d)'
<1>1. ASSUME NEW n \in Nat, Flow(p, n) PROVE Flow(p, n)'
  BY <1>1 DEF Flow, Piece, Reach
<1>2. QED
  BY <1>1, ReadFlows

(* The steps that move no bytes, a silence among them.                         *)
LEMMA QuietSteps ==
    ASSUME ExchangeInv, NEW d \in End,
           \/ Ask \/ Handle \/ Connect \/ TimeOut \/ HangUp \/ Refuse \/ Silence \/ ServerDies
           \/ UNCHANGED vars
           \/ \E e \in End : \/ Encode(e) \/ WriteFails(e) \/ ReadFails(e)
                             \/ Decode(e) \/ NullNode(e) \/ Decoded(e) \/ Close(e)
    PROVE  ReadInv(d)'
<1> DEFINE p == Peer(d)
<1>1. p \in End /\ ReadInv(d) /\ Shapes /\ ControlInv /\ ConnInv
  BY Ends DEF ExchangeInv
<1> DEFINE Quiet == /\ UNCHANGED <<pipe, frame, put>> /\ (conn = "broken" => conn' = "broken")
                    /\ silent \subseteq silent'
                    /\ Unread(d)' => Unread(d)
                    /\ pc'[d] \in {"head", "body"} => /\ pc'[d] = pc[d] /\ got'[d] = got[d]
                                                      /\ want'[d] = want[d]
<1>2. ASSUME Ask \/ Handle PROVE Quiet
  BY <1>1, <1>2, Ends DEF Ask, Handle, Begin, Go, wire, Unread, ControlInv
<1>3. ASSUME TimeOut \/ HangUp \/ Refuse \/ Silence \/ ServerDies \/ UNCHANGED vars PROVE Quiet
  BY <1>1, <1>3, Ends DEF TimeOut, HangUp, Refuse, Silence, ServerDies, Go, wire, vars, Unread, ControlInv
<1>4. ASSUME Connect PROVE Quiet
  BY <1>1, <1>4, Ends DEF Connect, Go, Unread, ControlInv, ConnInv
<1>5. ASSUME NEW e \in End, Encode(e) \/ WriteFails(e) \/ ReadFails(e) PROVE Quiet
  BY <1>1, <1>5, Ends DEF Encode, WriteFails, ReadFails, Go, wire, Unread, ControlInv, Shapes
<1>6. ASSUME NEW e \in End, Decode(e) \/ NullNode(e) \/ Decoded(e) \/ Close(e) PROVE Quiet
  BY <1>1, <1>6, Ends DEF Decode, NullNode, Decoded, Close, Go, wire, Unread, ControlInv
<1>7. Quiet
  <2> HIDE DEF Quiet
  <2>1. QED
    BY <1>2, <1>3, <1>4, <1>5, <1>6
<1>8. QED
  BY <1>1, <1>7, ReadStays

(* The stream breaks, or grows by the next piece of the frame.                 *)
LEMMA BreakFlows ==
    ASSUME Break, NEW p \in End, NEW n, Flow(p, n)
    PROVE  Flow(p, n)'
<1>1. PICK gone \in SUBSET End : pipe' = [e \in End |-> IF e \in gone THEN <<>> ELSE pipe[e]]
  BY DEF Break
<1>2. conn' = "broken" /\ conn = "up" /\ UNCHANGED <<frame, put, silent>>
  BY DEF Break
<1>3. pipe'[p] \in {<<>>, pipe[p]}
  BY <1>1
<1>4. QED
  BY <1>2, <1>3 DEF Flow, Piece, Reach

LEMMA WriteFlows ==
    ASSUME ExchangeInv, NEW e \in End, Write(e), NEW n \in Nat, Flow(e, n)
    PROVE  Flow(e, n)'
<1> DEFINE t == frame[e]
           b == pipe[e]
           w == put[e]
<1>1. t \in Seq(Byte) /\ Len(t) \in Nat /\ w \in 0..Len(t)
  BY FrameBytes
<1>2. PICK m \in Cuts \cup {Len(t)} :
         /\ w < m /\ m <= Len(t)
         /\ put' = [put EXCEPT ![e] = m]
         /\ pipe' = IF e \in silent THEN pipe
                    ELSE [pipe EXCEPT ![e] = b \o SubSeq(t, w + 1, m)]
  BY DEF Write
<1>3. conn = "up" /\ frame' = frame /\ silent' = silent /\ m \in Nat
  BY <1>1, <1>2, ExchangeAssumption DEF Write
<1>4. CASE e \in silent
  BY <1>2, <1>3, <1>4 DEF Flow, Piece, Reach
<1> SUFFICES ASSUME e \notin silent PROVE Flow(e, n)'
  BY <1>4
<1>5. put'[e] = m /\ pipe'[e] = b \o SubSeq(t, w + 1, m) /\ frame'[e] = t
  BY <1>2, <1>3 DEF ExchangeInv, Shapes
<1>6. Piece(b, t, n) /\ n + Len(b) = w
  BY <1>3 DEF Flow, Reach
<1> HIDE DEF t, b, w
<1>7. Len(b) \in Nat
  BY <1>6, LenProperties DEF Piece
<1>8. Piece(SubSeq(t, w + 1, m), t, w) /\ Len(SubSeq(t, w + 1, m)) = m - w
  BY <1>1, <1>2, <1>3, PieceOf
<1>9. /\ Piece(b \o SubSeq(t, w + 1, m), t, n)
      /\ Len(b \o SubSeq(t, w + 1, m)) = Len(b) + Len(SubSeq(t, w + 1, m))
  <2>1. Piece(SubSeq(t, w + 1, m), t, n + Len(b))
    BY <1>6, <1>8
  <2>2. QED
    BY <2>1, <1>1, <1>6, PieceAppend
<1> DEFINE s == b \o SubSeq(t, w + 1, m)
<1>10. Len(s) = Len(b) + (m - w)
  BY <1>8, <1>9
<1> HIDE DEF s
<1>11. n + Len(s) = m
  BY <1>1, <1>3, <1>6, <1>7, <1>10
<1>12. Piece(pipe'[e], frame'[e], n) /\ n + Len(pipe'[e]) = put'[e]
  BY <1>5, <1>9, <1>11 DEF s
<1>13. QED
  BY <1>12 DEF Flow, Piece, Reach

LEMMA StreamSteps ==
    ASSUME ExchangeInv, NEW d \in End, Break \/ \E e \in End : Write(e)
    PROVE  ReadInv(d)'
<1>1. Peer(d) \in End /\ ReadInv(d) /\ Shapes /\ ControlInv
  BY Ends DEF ExchangeInv
<1>2. CASE Break
  <2>1. \A n \in Nat : Flow(Peer(d), n) => Flow(Peer(d), n)'
    BY <1>1, <1>2, BreakFlows
  <2>2. UNCHANGED <<pc, frame, got, want>> /\ (Unread(d)' => Unread(d))
    BY <1>2 DEF Break, Unread
  <2>3. QED
    BY <2>1, <2>2, <1>1, ReadFlows
<1>3. ASSUME NEW e \in End, Write(e), d = Peer(e) PROVE ReadInv(d)'
  <2>1. Peer(d) = e /\ d # e
    BY <1>3, Ends
  <2>2. \A n \in Nat : Flow(Peer(d), n) => Flow(Peer(d), n)'
    BY <1>3, <2>1, WriteFlows
  <2>3. UNCHANGED <<frame, got, want>> /\ pc'[d] = pc[d]
    BY <1>1, <1>3, <2>1 DEF Write, Go, ControlInv
  <2>4. QED
    BY <2>2, <2>3, <1>1, ReadFlows DEF Unread
<1>4. ASSUME NEW e \in End, Write(e), d = e PROVE ReadInv(d)'
  <2>1. Peer(d) # e
    BY <1>4, Ends
  <2>2. UNCHANGED <<frame, conn, silent>> /\ put'[Peer(d)] = put[Peer(d)] /\ pipe'[Peer(d)] = pipe[Peer(d)]
    BY <1>1, <1>4, <2>1 DEF Write, Shapes
  <2>3. pc[d] = "write" /\ pc'[d] \in {"write", "select", "close"}
        /\ (pc'[d] = "select" => d = "client")
    BY <1>1, <1>4 DEF Write, Go, ControlInv
  <2>4. Unread(d)' => Unread(d)
    BY <1>1, <2>3, Ends DEF Unread, ControlInv
  <2>5. QED
    BY <2>2, <2>3, <2>4, <1>1, ReadStays
<1>5. QED
  BY <1>2, <1>3, <1>4, Ends

(* recvMsg begins with nothing read.                                           *)
LEMMA SelectStep ==
    ASSUME ExchangeInv, NEW d \in End, NEW e \in End, Select(e)
    PROVE  ReadInv(d)'
<1>1. Peer(d) \in End /\ ReadInv(d) /\ Shapes /\ ControlInv
  BY Ends DEF ExchangeInv
<1>2. /\ UNCHANGED <<pipe, frame, put, conn, silent>> /\ pc' = [pc EXCEPT ![e] = "head"]
      /\ want' = [want EXCEPT ![e] = 4] /\ got' = [got EXCEPT ![e] = <<>>] /\ Unread(e)
  BY Ends DEF Select, ReadN, Go, Unread
<1>3. CASE d = e
  <2>1. Flow(Peer(d), 0) /\ Len(frame[Peer(d)]) \in Nat
    BY <1>1, <1>2, <1>3, FrameBytes DEF ReadInv
  <2>2. pc'[d] = "head" /\ want'[d] = 4 /\ got'[d] = <<>>
    BY <1>1, <1>2, <1>3 DEF Shapes, ControlInv
  <2>3. Len(got'[d]) = 0 /\ Flow(Peer(d), Len(got[d]))'
    BY <1>2, <2>1, <2>2 DEF Flow, Piece, Reach
  <2>4. Piece(got'[d], frame'[Peer(d)], 0)
    <3>1. <<>> \in Seq(Byte) /\ Len(<<>>) = 0
      BY EmptySeq
    <3>2. Piece(<<>>, frame[Peer(d)], 0)
      BY <2>1, <3>1 DEF Piece
    <3>3. QED
      BY <1>2, <2>2, <3>2
  <2>5. ~Unread(d)'
    BY <2>2 DEF Unread
  <2>6. QED
    BY <2>2, <2>3, <2>4, <2>5 DEF ReadInv
<1>4. CASE d # e
  <2>1. pc'[d] = pc[d] /\ want'[d] = want[d] /\ got'[d] = got[d]
    BY <1>1, <1>2, <1>4 DEF Shapes, ControlInv
  <2>2. QED
    BY <1>1, <1>2, <2>1, ReadStays DEF Unread
<1>5. QED
  BY <1>3, <1>4

(* Before a frame is packed there is none, and nothing of it was read.         *)
LEMMA PackStep ==
    ASSUME ExchangeInv, NEW d \in End, NEW e \in End, Pack(e)
    PROVE  ReadInv(d)'
<1>1. Peer(d) \in End /\ ReadInv(d) /\ Shapes /\ ControlInv
  BY Ends DEF ExchangeInv
<1>2. /\ UNCHANGED <<pipe, put, conn, silent, got, want>> /\ pc[e] = "encode"
      /\ frame' = [frame EXCEPT ![e] = Frame(PackQueue(code[e]))]
      /\ pc' = [pc EXCEPT ![e] = IF e = "client" THEN "connect" ELSE "write"]
  BY DEF Pack, Go
<1>3. CASE d = e
  <2>1. frame'[Peer(d)] = frame[Peer(d)]
    BY <1>1, <1>2, <1>3, Ends DEF Shapes
  <2>2. pc'[d] = IF e = "client" THEN "connect" ELSE "write"
    BY <1>1, <1>2, <1>3 DEF ControlInv
  <2>3. Unread(d)' => Unread(d)
    BY <1>2, <1>3, <2>2, Ends DEF Unread
  <2>4. QED
    BY <1>1, <1>2, <2>1, <2>2, <2>3, ReadStays
<1>4. CASE d # e
  <2>1. Peer(d) = e /\ pc'[d] = pc[d] /\ got'[d] = got[d] /\ want'[d] = want[d]
    BY <1>1, <1>2, <1>4, Ends DEF ControlInv
  <2>2. frame[e] = <<>> /\ put[e] = 0 /\ Len(frame[e]) = 0
    BY <1>2, EmptySeq DEF ExchangeInv, FrameInv
  <2>3. pc[d] # "body"
    <3>1. ASSUME Piece(got[d], frame[e], 4) PROVE FALSE
      <4>1. Len(got[d]) \in Nat /\ 4 + Len(got[d]) <= 0
        BY <3>1, <2>2, LenProperties DEF Piece
      <4>2. QED
        BY <4>1
    <3>2. QED
      BY <1>1, <2>1, <3>1 DEF ReadInv
  <2>4. Len(frame'[e]) \in Nat
    <3>1. EncodeInv(e) /\ sent[e] \in SentBy(e) \union {NoMsg} /\ at[e] > 5
      BY Ends DEF ExchangeInv, HistoryInv, Pack
    <3>2. at[e] - 1 = 5 /\ sent[e] \in SentBy(e) /\ code[e] = Encoded(e, sent[e])[at[e] - 1]
      BY <1>2, <3>1 DEF EncodeInv
    <3>3. PackQueue(code[e]) \in Seq(Byte)
      BY <3>2, Ends, Packing DEF Packed
    <3>4. QED
      BY <1>1, <1>2, <3>3, FrameParts, LenProperties DEF Shapes
  <2>5. Piece(<<>>, frame'[e], 0)
    BY <2>4, EmptySeq DEF Piece
  <2>6. ASSUME Flow(e, 0) PROVE Flow(e, 0)'
    <3>1. pipe[e] = <<>>
      BY <2>2, <2>6, LenProperties, EmptySeq DEF Flow, Piece
    <3>2. pipe'[e] = <<>> /\ put'[e] = 0 /\ 0 + Len(<<>>) = 0
      BY <1>2, <2>2, <3>1
    <3>3. QED
      BY <2>5, <3>2 DEF Flow, Piece, Reach
  <2>7. ASSUME pc[d] = "head"
        PROVE  /\ Piece(got[d], frame[e], 0)' /\ want'[d] = 4 /\ Len(got'[d]) < 4
               /\ Flow(e, Len(got[d]))'
    <3>1. Piece(got[d], frame[e], 0) /\ want[d] = 4 /\ Len(got[d]) < 4 /\ Flow(e, Len(got[d]))
      BY <1>1, <2>1, <2>7 DEF ReadInv
    <3>2. got[d] = <<>> /\ Len(got[d]) = 0
      BY <2>2, <3>1, LenProperties, EmptySeq DEF Piece
    <3>3. Flow(e, 0)'
      BY <2>6, <3>1, <3>2
    <3>4. Flow(e, Len(got[d]))'
      BY <2>1, <3>2, <3>3 DEF Flow, Piece, Reach
    <3>5. Piece(got'[d], frame'[e], 0)
      BY <2>1, <2>5, <3>2
    <3>6. QED
      BY <2>1, <3>1, <3>4, <3>5
  <2>8. Unread(d)' => Flow(e, 0)'
    BY <1>1, <2>1, <2>6 DEF ReadInv, Unread
  <2>9. QED
    BY <2>1, <2>3, <2>7, <2>8 DEF ReadInv
<1>5. QED
  BY <1>3, <1>4

(* What one read does to the reader: it goes on, or knows the length, or has   *)
(* the message.                                                                *)
LEMMA ReadEffect ==
    ASSUME ExchangeInv, NEW e \in End, Read(e)
    PROVE  LET p == Peer(e)
           IN /\ frame' = frame /\ put' = put /\ conn' = conn /\ silent' = silent
              /\ \A d \in End \ {e} : pc'[d] = pc[d] /\ got'[d] = got[d] /\ want'[d] = want[d]
              /\ pipe'[e] = pipe[e]
              /\ \/ /\ pc[e] = "head" /\ pc'[e] = "head" /\ want'[e] = 4
                    /\ Piece(got'[e], frame[p], 0) /\ Len(got'[e]) < 4
                    /\ Piece(pipe'[p], frame[p], Len(got'[e]))
                    /\ Reach(p, Len(got'[e]) + Len(pipe'[p]))
                    /\ UNCHANGED coding
                 \/ /\ pc[e] = "head" /\ pc'[e] = "body" /\ want'[e] = Len(frame[p]) - 4
                    /\ got'[e] = <<>> /\ Len(frame[p]) >= 4
                    /\ Piece(pipe'[p], frame[p], 4) /\ Reach(p, 4 + Len(pipe'[p]))
                    /\ UNCHANGED coding
                 \/ /\ pc[e] = "body" /\ pc'[e] = "body" /\ want'[e] = want[e]
                    /\ Piece(got'[e], frame[p], 4)
                    /\ Piece(pipe'[p], frame[p], 4 + Len(got'[e]))
                    /\ Reach(p, 4 + Len(got'[e]) + Len(pipe'[p]))
                    /\ UNCHANGED coding
                 \/ /\ pc[e] = "body" /\ pc'[e] = "decode" /\ sent[p] # NoMsg
                    /\ code' = [code EXCEPT ![e] = UnpackQueue(Packed(p, sent[p]))]
                    /\ msg' = [msg EXCEPT ![e] = ZeroMsg(Incoming(e))]
                    /\ at' = [at EXCEPT ![e] = 1] /\ sent' = sent /\ rcvd' = rcvd
                    /\ want'[e] = 0 /\ got'[e] = <<>> /\ pipe'[p] \in Seq(Byte)
<1> DEFINE p == Peer(e)
           k == Len(pipe[p])
           left == want[e] - Len(got[e])
           n == IF k < left THEN k ELSE left
           h == got[e] \o SubSeq(pipe[p], 1, n)
           r == SubSeq(pipe[p], n + 1, k)
<1>1. p \in End /\ p # e /\ Shapes /\ ControlInv
  BY Ends DEF ExchangeInv
<1>2. /\ pc[e] \in {"head", "body"} /\ k > 0 /\ UNCHANGED <<frame, put, conn, silent>>
      /\ pipe' = [pipe EXCEPT ![p] = r]
  BY DEF Read
<1>3. pipe'[p] = r /\ pipe'[e] = pipe[e]
  BY <1>1, <1>2 DEF Shapes
<1>4. k \in Nat /\ left \in Nat /\ want[e] \in Nat /\ Len(got[e]) \in Nat
  <2>1. /\ ReadInv(e) /\ FrameInv(p)
        /\ frame[p] \in Seq(Byte) /\ Len(frame[p]) \in Nat /\ put[p] \in 0..Len(frame[p])
    BY <1>1, FrameBytes DEF ExchangeInv
  <2>2. /\ got[e] \in Seq(Byte) /\ pipe[p] \in Seq(Byte) /\ Len(got[e]) \in Nat /\ Len(pipe[p]) \in Nat
    <3>1. Flow(p, Len(got[e])) \/ Flow(p, 4 + Len(got[e]))
      BY <1>2, <2>1 DEF ReadInv
    <3>2. pipe[p] \in Seq(Byte) /\ got[e] \in Seq(Byte)
      BY <1>2, <2>1, <3>1, EmptySeq DEF ReadInv, Flow, Piece
    <3>3. QED
      BY <3>2, LenProperties
  <2>3. CASE pc[e] = "head"
    <3>1. want[e] = 4 /\ Len(got[e]) < 4
      BY <2>1, <2>3 DEF ReadInv
    <3>2. QED
      BY <2>2, <3>1
  <2>4. CASE pc[e] = "body"
    <3>1. want[e] = Len(frame[p]) - 4 /\ 4 + Len(got[e]) <= Len(frame[p])
      BY <2>1, <2>4 DEF ReadInv, Piece
    <3> DEFINE g == Len(got[e])
               w == want[e]
               l == Len(frame[p])
    <3>2. w = l - 4 /\ 4 + g <= l /\ g \in Nat /\ l \in Nat
      BY <2>1, <2>2, <3>1
    <3> HIDE DEF g, w, l
    <3>3. w - g \in Nat /\ w \in Nat
      BY <3>2
    <3>4. QED
      BY <2>2, <3>3 DEF g, w
  <2>5. QED
    BY <1>2, <2>3, <2>4
<1>5. /\ n \in 0..Len(pipe[p]) /\ n <= left /\ Len(pipe[p]) > 0 /\ (n < left \/ n = left)
      /\ Len(got[e]) + n = want[e] - (left - n)
  <2> DEFINE g == Len(got[e])
             w == want[e]
  <2> HIDE DEF k, g, w
  <2>1. k \in Nat /\ k > 0 /\ g \in Nat /\ w \in Nat /\ w - g \in Nat
    BY <1>2, <1>4 DEF g, w
  <2>2. \A m : m = (IF k < w - g THEN k ELSE w - g) =>
            m \in 0..k /\ m <= w - g /\ (m < w - g \/ m = w - g) /\ g + m = w - (w - g - m)
    BY <2>1
  <2>3. QED
    BY <2>1, <2>2 DEF g, w, k
<1>6. CASE n < left
  <2>1. n # left
    BY <1>4, <1>5, <1>6
  <2>2. got' = [got EXCEPT ![e] = h] /\ UNCHANGED <<pc, want, coding>>
    <3> HIDE DEF n, left, h
    <3>1. QED
      BY <1>6, <2>1 DEF Read, n, left, h
  <2>3. got'[e] = h /\ pc'[e] = pc[e] /\ want'[e] = want[e]
    BY <2>2, <1>1 DEF Shapes
  <2>4. \A d \in End \ {e} : pc'[d] = pc[d] /\ got'[d] = got[d] /\ want'[d] = want[d]
    BY <2>2, <1>1 DEF Shapes
  <2>5. CASE pc[e] = "head"
    <3>1. /\ Piece(h, frame[p], 0) /\ Piece(r, frame[p], Len(h)) /\ Reach(p, Len(h) + Len(r))
          /\ Len(h) = Len(got[e]) + n
      BY <1>5, <2>5, ReadHead
    <3>2. want[e] = 4
      BY <2>5 DEF ExchangeInv, ReadInv
    <3> HIDE DEF n, left, h, r
    <3>3. Len(h) < 4
      BY <1>4, <1>5, <1>6, <3>1, <3>2
    <3>4. QED
      BY <1>2, <1>3, <2>2, <2>3, <2>4, <2>5, <3>1, <3>2, <3>3
  <2>6. CASE pc[e] = "body"
    <3>1. /\ Piece(h, frame[p], 4) /\ Piece(r, frame[p], 4 + Len(h)) /\ Reach(p, 4 + Len(h) + Len(r))
      BY <1>5, <2>6, ReadBody
    <3> HIDE DEF n, left, h, r
    <3>2. QED
      BY <1>2, <1>3, <2>2, <2>3, <2>4, <2>6, <3>1
  <2>7. QED
    BY <1>2, <2>5, <2>6
<1>7. CASE n = left /\ pc[e] = "head"
  <2>1. /\ want' = [want EXCEPT ![e] = NumberOf[h]] /\ got' = [got EXCEPT ![e] = <<>>]
        /\ pc' = [pc EXCEPT ![e] = "body"] /\ UNCHANGED coding
    BY <1>7 DEF Read, ReadN, Go
  <2>2. /\ Piece(h, frame[p], 0) /\ Piece(r, frame[p], Len(h)) /\ Reach(p, Len(h) + Len(r))
        /\ Len(h) = Len(got[e]) + n /\ (Len(h) = 4 => NumberOf[h] = Len(frame[p]) - 4)
    BY <1>5, <1>7, ReadHead
  <2>3. want[e] = 4
    BY <1>7 DEF ExchangeInv, ReadInv
  <2> HIDE DEF n, left, h, r
  <2>4. Len(h) = 4
    BY <1>4, <1>5, <1>7, <2>2, <2>3
  <2>5. /\ pc'[e] = "body" /\ got'[e] = <<>> /\ want'[e] = Len(frame[p]) - 4
        /\ \A d \in End \ {e} : pc'[d] = pc[d] /\ got'[d] = got[d] /\ want'[d] = want[d]
    BY <2>1, <2>2, <2>4, <1>1 DEF Shapes, ControlInv
  <2>6. Len(frame[p]) >= 4
    <3> DEFINE all == Len(frame[p])  rest == Len(r)
    <3>1. all \in Nat
      BY <1>1, FrameBytes
    <3>2. rest \in Nat
      BY <2>2, LenProperties DEF Piece
    <3>3. 4 + rest <= all
      BY <2>2, <2>4 DEF Piece
    <3> HIDE DEF all, rest
    <3>4. all >= 4
      BY <3>1, <3>2, <3>3
    <3>5. QED
      BY <3>4 DEF all
  <2>7. Piece(r, frame[p], 4) /\ Reach(p, 4 + Len(r))
    BY <2>2, <2>4
  <2>8. QED
    BY <1>2, <1>3, <1>7, <2>1, <2>5, <2>6, <2>7
<1>8. CASE n = left /\ pc[e] = "body"
  <2>1. /\ code' = [code EXCEPT ![e] = UnpackQueue(h)]
        /\ msg' = [msg EXCEPT ![e] = ZeroMsg(Incoming(e))]
        /\ at' = [at EXCEPT ![e] = 1] /\ UNCHANGED <<sent, rcvd>>
        /\ want' = [want EXCEPT ![e] = 0] /\ got' = [got EXCEPT ![e] = <<>>]
        /\ pc' = [pc EXCEPT ![e] = "decode"]
    BY <1>8 DEF Read, ReadN, Go
  <2>2. /\ Len(h) = Len(got[e]) + n /\ sent[p] # NoMsg
        /\ Len(h) = want[e] => h = Packed(p, sent[p])
        /\ Piece(r, frame[p], 4 + Len(h))
    BY <1>5, <1>8, ReadBody
  <2> HIDE DEF n, left, h, r
  <2>3. h = Packed(p, sent[p])
    BY <1>4, <1>5, <1>8, <2>2
  <2>4. /\ pc'[e] = "decode" /\ want'[e] = 0 /\ got'[e] = <<>> /\ r \in Seq(Byte)
        /\ \A d \in End \ {e} : pc'[d] = pc[d] /\ got'[d] = got[d] /\ want'[d] = want[d]
    BY <2>1, <2>2, <1>1 DEF Shapes, ControlInv, Piece
  <2>5. QED
    BY <1>2, <1>3, <1>8, <2>1, <2>2, <2>3, <2>4
<1>9. QED
  BY <1>2, <1>5, <1>6, <1>7, <1>8

LEMMA ReadStep ==
    ASSUME ExchangeInv, NEW d \in End, NEW e \in End, Read(e)
    PROVE  ReadInv(d)'
<1>1. Peer(d) \in End /\ ReadInv(d) /\ ControlInv
  BY Ends DEF ExchangeInv
<1>2. CASE d # e
  <2>1. Peer(d) = e
    BY <1>2, Ends
  <2>2. /\ pc'[d] = pc[d] /\ got'[d] = got[d] /\ want'[d] = want[d] /\ pipe'[e] = pipe[e]
        /\ frame' = frame /\ put' = put /\ conn' = conn /\ silent' = silent
    BY <1>2, ReadEffect, ZenonT(40)
  <2>3. QED
    BY <2>1, <2>2, <1>1, ReadStays DEF Unread
<1>3. CASE d = e
  <2> DEFINE p == Peer(e)
  <2>1. frame' = frame /\ put' = put /\ conn' = conn /\ silent' = silent
    BY ReadEffect
  <2>2. CASE /\ pc'[e] = "head" /\ want'[e] = 4 /\ Piece(got'[e], frame[p], 0) /\ Len(got'[e]) < 4
             /\ Piece(pipe'[p], frame[p], Len(got'[e])) /\ Reach(p, Len(got'[e]) + Len(pipe'[p]))
    <3>1. Piece(got[e], frame[p], 0)' /\ Flow(p, Len(got[e]))'
      BY <2>1, <2>2 DEF Flow, Piece, Reach
    <3>2. QED
      BY <1>3, <2>2, <3>1 DEF ReadInv, Unread
  <2>3. CASE /\ pc'[e] = "body" /\ want'[e] = Len(frame[p]) - 4 /\ got'[e] = <<>>
             /\ Len(frame[p]) >= 4
             /\ Piece(pipe'[p], frame[p], 4) /\ Reach(p, 4 + Len(pipe'[p]))
    <3>1. Len(got'[e]) = 0 /\ got'[e] \in Seq(Byte)
      BY <2>3, EmptySeq
    <3>2. Piece(got[e], frame[p], 4)'
      BY <2>1, <2>3, <3>1 DEF Piece
    <3>3. 4 + Len(got'[e]) = 4
      BY <3>1
    <3>4. Flow(p, 4 + Len(got[e]))'
      BY <2>1, <2>3, <3>3 DEF Flow, Piece, Reach
    <3>5. QED
      BY <1>3, <2>1, <2>3, <3>2, <3>4 DEF ReadInv, Unread
  <2>4. CASE /\ pc[e] = "body" /\ pc'[e] = "body" /\ want'[e] = want[e]
             /\ Piece(got'[e], frame[p], 4) /\ Piece(pipe'[p], frame[p], 4 + Len(got'[e]))
             /\ Reach(p, 4 + Len(got'[e]) + Len(pipe'[p]))
    <3>1. Piece(got[e], frame[p], 4)' /\ Flow(p, 4 + Len(got[e]))'
      BY <2>1, <2>4 DEF Flow, Piece, Reach
    <3>2. want'[e] = Len(frame'[p]) - 4
      BY <1>1, <1>3, <2>1, <2>4 DEF ReadInv
    <3>3. QED
      BY <1>3, <2>4, <3>1, <3>2 DEF ReadInv, Unread
  <2>5. CASE pc'[e] = "decode"
    BY <1>3, <2>5 DEF ReadInv, Unread
  <2>6. QED
    BY <2>2, <2>3, <2>4, <2>5, ReadEffect
<1>4. QED
  BY <1>2, <1>3

LEMMA ReadKept ==
    ASSUME ExchangeInv, [Next]_vars, NEW d \in End
    PROVE  ReadInv(d)'
  BY StepCases, QuietSteps, StreamSteps, SelectStep, PackStep, ReadStep
-----------------------------------------------------------------------------
LEMMA FrameKept ==
    ASSUME ExchangeInv, [Next]_vars, NEW d \in End
    PROVE  FrameInv(d)'
<1> DEFINE Later == pc'[d] # "encode" /\ pc'[d] # "idle"
                    /\ (d = "server" => pc'[d] \notin {"head", "body", "decode", "handle"})
           Kept == /\ frame'[d] = frame[d] /\ put'[d] = put[d]
                   /\ (~Unsent(d) /\ pc[d] # "encode" => Later)
<1>1. FrameInv(d) /\ Shapes /\ ControlInv
  BY DEF ExchangeInv
<1>2. sent[d] # NoMsg => sent'[d] = sent[d]
  BY SentStays
<1>3. ASSUME Kept PROVE FrameInv(d)'
  <2>1. Later => ~Unsent(d)' /\ pc'[d] # "encode"
    BY DEF Unsent
  <2>2. QED
    BY <1>1, <1>2, <1>3, <2>1 DEF FrameInv
<1>4. ASSUME NEW e \in End, Pack(e), d = e PROVE FrameInv(d)'
  <2>1. /\ EncodeInv(e) /\ at[e] > 5 /\ pc[e] = "encode"
        /\ sent[e] \in SentBy(e) \union {NoMsg}
    BY <1>4, Ends DEF ExchangeInv, HistoryInv, Pack
  <2>2. /\ at[e] - 1 = 5 /\ sent[e] # NoMsg /\ sent[e] \in SentBy(e)
        /\ code[e] = Encoded(e, sent[e])[at[e] - 1]
    BY <2>1 DEF EncodeInv
  <2>3. PackQueue(code[e]) = Packed(e, sent[e])
    BY <2>2, Ends DEF Packed
  <2>4. /\ frame'[e] = Frame(Packed(e, sent[e])) /\ put' = put /\ sent' = sent
        /\ pc'[e] = IF e = "client" THEN "connect" ELSE "write"
    BY <1>1, <1>4, <2>3 DEF Pack, Go, Shapes, ControlInv, coding
  <2>5. put[e] = 0
    BY <1>1, <1>4, <2>1 DEF FrameInv
  <2>6. Len(frame'[e]) \in Nat
    BY <2>2, <2>4, Packing, FrameParts, LenProperties
  <2>7. ~Unsent(e)' /\ pc'[e] # "encode"
    BY <2>4, Ends DEF Unsent
  <2>8. QED
    BY <1>4, <2>2, <2>4, <2>5, <2>6, <2>7 DEF FrameInv
<1>5. ASSUME NEW e \in End, Pack(e), d # e PROVE Kept
  BY <1>1, <1>5 DEF Pack, Go, Shapes, ControlInv, Unsent
<1>6. ASSUME NEW e \in End, Write(e), d = e PROVE FrameInv(d)'
  <2>1. PICK m \in Cuts \cup {Len(frame[e])} :
           put[e] < m /\ m <= Len(frame[e]) /\ put' = [put EXCEPT ![e] = m]
    BY <1>6 DEF Write
  <2>2. Len(frame[e]) \in Nat /\ m \in Nat /\ put[e] \in Nat
    <3>1. Len(frame[e]) \in Nat /\ put[e] \in 0..Len(frame[e])
      BY FrameBytes
    <3>2. m \in Nat
      BY <3>1, ExchangeAssumption
    <3> DEFINE l == Len(frame[e])
    <3> HIDE DEF l
    <3>3. put[e] \in 0..l /\ l \in Nat
      BY <3>1 DEF l
    <3>4. put[e] \in Nat
      BY <3>3
    <3>5. QED
      BY <3>1, <3>2, <3>4
  <2>3. put'[e] = m /\ frame'[e] = frame[e] /\ m \in 0..Len(frame[e]) /\ put[e] < Len(frame[e])
    BY <1>1, <1>6, <2>1, <2>2 DEF Write, Shapes
  <2>4. frame[e] # <<>>
    <3>1. Len(frame[e]) > 0
      BY <2>2, <2>3
    <3>2. QED
      BY <3>1, EmptySeq
  <2>5. pc[e] = "write" /\ pc'[e] \in {"write", "select", "close"}
    BY <1>1, <1>6 DEF Write, Go, ControlInv
  <2>6. ~Unsent(e)' /\ pc'[e] # "encode"
    BY <2>5 DEF Unsent
  <2>7. QED
    BY <1>1, <1>2, <1>6, <2>3, <2>4, <2>6 DEF FrameInv
<1>7. ASSUME NEW e \in End, Write(e), d # e PROVE Kept
  BY <1>1, <1>7 DEF Write, Go, Shapes, ControlInv, Unsent
<1>8. ASSUME NEW e \in End, Read(e) PROVE Kept
  <2>1. frame' = frame /\ put' = put
    BY <1>8 DEF Read
  <2>2. d # e => pc'[d] = pc[d]
    BY <1>8, <1>1 DEF Read, ReadN, Go, ControlInv
  <2>3. d = e => pc[d] \in {"head", "body"} /\ pc'[d] \in {"head", "body", "decode"}
    BY <1>8, <1>1 DEF Read, ReadN, Go, ControlInv
  <2>4. QED
    BY <2>1, <2>2, <2>3, Ends DEF Unsent
<1>9. ASSUME NEW e \in End, Encode(e) \/ WriteFails(e) \/ Select(e) \/ ReadFails(e) PROVE Kept
  BY <1>9, <1>1, Ends DEF Encode, WriteFails, Select, ReadN, ReadFails, Go, wire, ControlInv, Unsent
<1>10. ASSUME NEW e \in End, Decode(e) \/ NullNode(e) \/ Decoded(e) \/ Close(e) PROVE Kept
  BY <1>10, <1>1, Ends DEF Decode, NullNode, Decoded, Close, Go, wire, ControlInv, Unsent
<1>11. ASSUME Ask \/ Handle PROVE Kept
  BY <1>11, <1>1, Ends DEF Ask, Handle, Begin, Go, wire, ControlInv, Unsent
<1>12. ASSUME Connect \/ TimeOut \/ HangUp \/ Refuse \/ Break \/ Silence \/ ServerDies \/ UNCHANGED vars
       PROVE  Kept
  BY <1>12, <1>1, Ends DEF Connect, TimeOut, HangUp, Refuse, Break, Silence, ServerDies, Go, wire, vars,
                           ControlInv, Unsent
<1>13. QED
  <2> HIDE DEF Kept
  <2>1. QED
    BY <1>3, <1>4, <1>5, <1>6, <1>7, <1>8, <1>9, <1>10, <1>11, <1>12, StepCases
-----------------------------------------------------------------------------
LEMMA DecodeKept ==
    ASSUME ExchangeInv, [Next]_vars, NEW d \in End
    PROVE  DecodeInv(d)'
<1> DEFINE p == Peer(d)
           Kept == pc'[d] = "decode" => /\ pc[d] = "decode" /\ at'[d] = at[d]
                                        /\ code'[d] = code[d] /\ msg'[d] = msg[d]
<1>1. DecodeInv(d) /\ Shapes /\ ControlInv /\ p \in End
  BY Ends DEF ExchangeInv
<1>2. sent[p] # NoMsg => sent'[p] = sent[p]
  BY <1>1, SentStays
<1>3. ASSUME Kept PROVE DecodeInv(d)'
  BY <1>1, <1>2, <1>3 DEF DecodeInv
<1>4. ASSUME NEW e \in End, Read(e) PROVE DecodeInv(d)'
  <2>1. CASE UNCHANGED coding /\ (pc'[d] = "decode" => pc[d] = "decode")
    BY <2>1, <1>3 DEF coding
  <2>2. CASE /\ code' = [code EXCEPT ![e] = UnpackQueue(Packed(Peer(e), sent[Peer(e)]))]
             /\ msg' = [msg EXCEPT ![e] = ZeroMsg(Incoming(e))]
             /\ at' = [at EXCEPT ![e] = 1] /\ sent' = sent /\ sent[Peer(e)] # NoMsg
    <3>1. CASE d # e
      <4>1. pc'[d] = pc[d]
        BY <1>4, <3>1, ReadEffect
      <4>2. at'[d] = at[d] /\ code'[d] = code[d] /\ msg'[d] = msg[d]
        BY <1>1, <2>2, <3>1 DEF Shapes
      <4>3. QED
        BY <4>1, <4>2, <1>3
    <3>2. CASE d = e
      <4> DEFINE step == Unpacked(d, Packed(p, sent[p]))
      <4>1. step[0].code = UnpackQueue(Packed(p, sent[p])) /\ step[0].msg = ZeroMsg(Incoming(d))
        BY UnpackedSteps
      <4>2. /\ at'[d] = 1 /\ code'[d] = UnpackQueue(Packed(p, sent[p]))
            /\ msg'[d] = ZeroMsg(Incoming(d))
        BY <1>1, <2>2, <3>2 DEF Shapes
      <4> HIDE DEF step
      <4>3. /\ at'[d] \in 1..6 /\ code'[d] = step[at'[d] - 1].code /\ msg'[d] = step[at'[d] - 1].msg
            /\ \A i \in 0..at'[d] - 2 : step[i].code.next # 0
        BY <4>1, <4>2
      <4>4. QED
        BY <2>2, <3>2, <4>3 DEF DecodeInv, step
    <3>3. QED
      BY <3>1, <3>2
  <2>3. QED
    BY <1>4, <2>1, <2>2, ReadEffect
<1>5. ASSUME NEW e \in End, Decode(e), d = e PROVE DecodeInv(d)'
  <2> DEFINE step == Unpacked(d, Packed(p, sent[p]))
             i == at[d]
  <2>1. /\ i \in 1..6 /\ code[d] = step[i - 1].code /\ msg[d] = step[i - 1].msg
        /\ \A j \in 0..i - 2 : step[j].code.next # 0
        /\ sent[p] # NoMsg
    BY <1>1, <1>5 DEF DecodeInv, Decode
  <2>2. /\ i <= 5 /\ code[d].next # 0
        /\ msg' = [msg EXCEPT ![d] = DecodeField(code[d], msg[d], Incoming(d), i)]
        /\ code' = [code EXCEPT ![d] = NextNode(code[d])]
        /\ at' = [at EXCEPT ![d] = i + 1] /\ sent' = sent
    BY <1>5, Ends DEF Decode
  <2>3. /\ msg'[d] = DecodeField(code[d], msg[d], Incoming(d), i) /\ code'[d] = NextNode(code[d])
        /\ at'[d] = i + 1
    BY <1>1, <2>2 DEF Shapes
  <2>4. /\ step[i].code = NextNode(step[i - 1].code)
        /\ step[i].msg = DecodeField(step[i - 1].code, step[i - 1].msg, Incoming(d), i)
    BY <2>1, <2>2, UnpackedSteps
  <2> HIDE DEF step, i
  <2>5. at'[d] \in 1..6 /\ at'[d] - 1 = i
    BY <2>1, <2>2, <2>3
  <2>6. code'[d] = step[at'[d] - 1].code /\ msg'[d] = step[at'[d] - 1].msg
    BY <2>1, <2>3, <2>4, <2>5
  <2>7. ASSUME NEW j \in 0..at'[d] - 2 PROVE step[j].code.next # 0
    <3>1. j \in 0..i - 2 \/ j = i - 1
      BY <2>1, <2>5
    <3>2. QED
      BY <2>1, <2>2, <3>1
  <2>8. QED
    BY <2>1, <2>2, <2>5, <2>6, <2>7 DEF DecodeInv, step
<1>6. ASSUME NEW e \in End, Decode(e), d # e PROVE Kept
  BY <1>1, <1>6 DEF Decode, Shapes
<1>7. ASSUME NEW e \in End, Encode(e) PROVE Kept
  BY <1>1, <1>7 DEF Encode, Shapes
<1>8. ASSUME NEW e \in End, Pack(e) \/ Write(e) \/ WriteFails(e) \/ Select(e) \/ ReadFails(e)
      PROVE  Kept
  BY <1>1, <1>8 DEF Pack, Write, WriteFails, Select, ReadFails, ReadN, Go, ControlInv, coding
<1>9. ASSUME NEW e \in End, NullNode(e) \/ Decoded(e) \/ Close(e) PROVE Kept
  BY <1>1, <1>9 DEF NullNode, Decoded, Close, Go, ControlInv, coding
<1>10. ASSUME Ask \/ Handle PROVE Kept
  BY <1>1, <1>10 DEF Ask, Handle, Begin, Go, Shapes, ControlInv
<1>11. ASSUME Connect \/ TimeOut \/ HangUp \/ Refuse \/ Break \/ Silence \/ ServerDies \/ UNCHANGED vars
       PROVE  Kept
  BY <1>1, <1>11 DEF Connect, TimeOut, HangUp, Refuse, Break, Silence, ServerDies, Go, ControlInv, coding, vars
<1>12. QED
  <2> HIDE DEF Kept
  <2>1. QED
    BY <1>3, <1>4, <1>5, <1>6, <1>7, <1>8, <1>9, <1>10, <1>11, StepCases
-----------------------------------------------------------------------------
LEMMA Keeping ==
    ASSUME NEW e \in End, NEW m \in SentBy(e)
    PROVE  LET step == Unpacked(Peer(e), Packed(e, m))
           IN \/ (\A i \in 0..4 : step[i].code.next # 0) /\ step[5].msg = m
              \/ e = "server" /\ m.seckeyid < 0 /\ \E i \in 0..4 : step[i].code.next = 0
<1> DEFINE peer == Peer(e)
           step == Unpacked(peer, Packed(e, m))
           last == Len(Incoming(peer))
<1>1. \/ (\A i \in 0..(last - 1) : ~(step[i].code.next = 0)) /\ step[last].msg = m
      \/ e = "server" /\ m.seckeyid < 0 /\ \E i \in 0..(last - 1) : step[i].code.next = 0
  BY CodecKeeps DEF CodecFaithful
<1>2. last = 5 /\ last - 1 = 4
  BY Ends
<1> HIDE DEF step, last
<1>3. QED
  BY <1>1, <1>2 DEF step

(* Whoever comes to the end of the chain has the message its peer sent; who    *)
(* runs off it had an answer without a number.                                 *)
LEMMA DecodedWhole ==
    ASSUME ExchangeInv, NEW e \in End, Decoded(e)
    PROVE  sent[Peer(e)] # NoMsg /\ msg[e] = sent[Peer(e)]
<1> DEFINE p == Peer(e)
           step == Unpacked(e, Packed(p, sent[p]))
<1>1. p \in End /\ Peer(p) = e /\ pc[e] = "decode" /\ at[e] > 5 /\ Len(Incoming(e)) = 5
  BY Ends DEF Decoded
<1>2. DecodeInv(e) /\ sent[p] \in SentBy(p) \union {NoMsg}
  BY <1>1 DEF ExchangeInv, HistoryInv
<1>3. /\ sent[p] \in SentBy(p) /\ sent[p] # NoMsg /\ at[e] = 6
      /\ msg[e] = step[at[e] - 1].msg /\ \A i \in 0..at[e] - 2 : step[i].code.next # 0
  BY <1>1, <1>2 DEF DecodeInv
<1>4. \/ step[5].msg = sent[p]
      \/ \E i \in 0..4 : step[i].code.next = 0
  BY <1>1, <1>3, Keeping
<1> HIDE DEF step, p
<1>5. msg[e] = step[5].msg /\ \A i \in 0..4 : step[i].code.next # 0
  BY <1>3
<1>6. QED
  BY <1>3, <1>4, <1>5 DEF p

LEMMA NullNumber ==
    ASSUME ExchangeInv, NEW e \in End, NullNode(e)
    PROVE  e = "client" /\ sent["server"] # NoMsg /\ sent["server"].seckeyid < 0
<1> DEFINE p == Peer(e)
           step == Unpacked(e, Packed(p, sent[p]))
<1>1. p \in End /\ Peer(p) = e /\ pc[e] = "decode" /\ at[e] <= 5 /\ code[e].next = 0
      /\ Len(Incoming(e)) = 5
  BY Ends DEF NullNode
<1>2. DecodeInv(e) /\ sent[p] \in SentBy(p) \union {NoMsg}
  BY <1>1 DEF ExchangeInv, HistoryInv
<1>3. /\ sent[p] \in SentBy(p) /\ sent[p] # NoMsg /\ at[e] \in 1..6 /\ code[e] = step[at[e] - 1].code
  BY <1>1, <1>2 DEF DecodeInv
<1>4. \/ \A i \in 0..4 : step[i].code.next # 0
      \/ p = "server" /\ sent[p].seckeyid < 0
  BY <1>1, <1>3, Keeping
<1> HIDE DEF step
<1>5. at[e] - 1 \in 0..4 /\ step[at[e] - 1].code.next = 0
  BY <1>1, <1>3
<1>6. p = "server" /\ sent[p].seckeyid < 0
  BY <1>4, <1>5
<1>7. QED
  BY <1>1, <1>3, <1>6 DEF Peer

LEMMA HistoryKept ==
    ASSUME ExchangeInv, [Next]_vars, NEW d \in End
    PROVE  HistoryInv(d)'
<1> DEFINE p == Peer(d)
           Moves == /\ Unsent(d)' => Unsent(d)
                    /\ Unheard(d)' => Unheard(d)
                    /\ pc'[d] = "handle" => pc[d] = "handle"
                    /\ pc'[d] = "crashed" => pc[d] = "crashed"
           Kept == UNCHANGED <<sent, rcvd>> /\ Moves
<1>1. /\ HistoryInv(d) /\ Shapes /\ ControlInv /\ p \in End /\ p # d /\ Peer(p) = d
      /\ HistoryInv(p)
  BY Ends DEF ExchangeInv
<1>2. ASSUME Kept PROVE HistoryInv(d)'
  BY <1>1, <1>2 DEF HistoryInv
<1>3. ASSUME NEW e \in End, NEW m \in SentBy(e), Begin(e, m), Unsent(e),
             e = "client" => pc[e] = "idle", rcvd[e] # NoMsg \/ pc[e] = "idle"
      PROVE  HistoryInv(d)'
  <2>1. rcvd' = rcvd /\ m # NoMsg /\ sent' = [sent EXCEPT ![e] = m]
        /\ pc' = [pc EXCEPT ![e] = "encode"]
    BY <1>3, Sendable DEF Begin, Go
  <2>2. CASE d = e
    <3>1. sent'[d] = m /\ sent'[p] = sent[p] /\ pc'[d] = "encode"
      BY <1>1, <2>1, <2>2 DEF Shapes, ControlInv
    <3>2. Unheard(d)' => Unheard(d)
      BY <1>3, <2>2, <3>1, Ends DEF Unheard, Unread
    <3>3. ~Unsent(d)'
      BY <3>1 DEF Unsent
    <3>4. QED
      BY <1>1, <2>1, <2>2, <3>1, <3>2, <3>3 DEF HistoryInv
  <2>3. CASE d # e
    <3>1. e = p /\ sent'[d] = sent[d] /\ pc'[d] = pc[d]
      BY <1>1, <2>1, <2>3, Ends DEF Shapes, ControlInv
    <3>2. sent[p] = NoMsg
      BY <1>1, <1>3, <3>1 DEF HistoryInv
    <3>3. rcvd[d] = NoMsg /\ pc[d] # "crashed"
      BY <1>1, <3>2 DEF HistoryInv, Peer
    <3>4. QED
      BY <1>1, <2>1, <3>1, <3>3 DEF HistoryInv, Unsent, Unheard, Unread
  <2>4. QED
    BY <2>2, <2>3
<1>4. ASSUME Ask PROVE HistoryInv(d)'
  <2>1. PICK m \in Requests : Begin("client", m)
    BY <1>4 DEF Ask
  <2>2. pc["client"] = "idle" /\ m \in SentBy("client") /\ "client" \in End
    BY <1>4, Ends DEF Ask, SentBy
  <2>3. QED
    BY <2>1, <2>2, <1>3 DEF Unsent
<1>5. ASSUME Handle PROVE HistoryInv(d)'
  <2>1. PICK m \in AnswersTo(rcvd["server"]) : Begin("server", m)
    BY <1>5 DEF Handle
  <2>2. pc["server"] = "handle" /\ m \in SentBy("server") /\ "server" \in End
    BY <1>5, <2>1, Answered, Ends DEF Handle
  <2>3. rcvd["server"] # NoMsg
    BY <2>2 DEF ExchangeInv, HistoryInv
  <2>4. QED
    BY <2>1, <2>2, <2>3, <1>3 DEF Unsent
<1>6. ASSUME NEW e \in End, Decoded(e) PROVE HistoryInv(d)'
  <2>1. /\ sent' = sent /\ rcvd' = [rcvd EXCEPT ![e] = msg[e]] /\ pc[e] = "decode"
        /\ pc' = [pc EXCEPT ![e] = IF e = "client" THEN "close" ELSE "handle"]
    BY <1>6 DEF Decoded, Go
  <2>2. CASE d # e
    <3>1. rcvd'[d] = rcvd[d] /\ pc'[d] = pc[d]
      BY <1>1, <2>1, <2>2 DEF Shapes, ControlInv
    <3>2. QED
      BY <1>1, <2>1, <3>1 DEF HistoryInv, Unsent, Unheard, Unread
  <2>3. CASE d = e
    <3>1. sent[p] # NoMsg /\ rcvd'[d] = sent[p] /\ pc'[d] = IF d = "client" THEN "close" ELSE "handle"
      BY <1>1, <1>6, <2>1, <2>3, DecodedWhole DEF Shapes, ControlInv
    <3>2. ~Unheard(d)' /\ (Unsent(d)' => Unsent(d)) /\ pc'[d] # "crashed"
      BY <2>1, <2>3, <3>1 DEF Unheard, Unread, Unsent
    <3>3. QED
      BY <1>1, <2>1, <3>1, <3>2 DEF HistoryInv
  <2>4. QED
    BY <2>2, <2>3
<1>7. ASSUME NEW e \in End, NullNode(e) PROVE HistoryInv(d)'
  <2>1. UNCHANGED <<sent, rcvd>> /\ pc[e] = "decode" /\ pc' = [pc EXCEPT ![e] = "crashed"]
    BY <1>7 DEF NullNode, Go, coding
  <2>2. e = "client" /\ sent["server"] # NoMsg /\ sent["server"].seckeyid < 0
    BY <1>7, NullNumber
  <2>3. CASE d # e
    <3>1. pc'[d] = pc[d]
      BY <1>1, <2>1, <2>3 DEF ControlInv
    <3>2. QED
      BY <1>1, <2>1, <3>1 DEF HistoryInv, Unsent, Unheard, Unread
  <2>4. CASE d = e
    <3>1. pc'[d] = "crashed"
      BY <1>1, <2>1, <2>4 DEF ControlInv
    <3>2. QED
      BY <1>1, <2>1, <2>2, <2>4, <3>1 DEF HistoryInv, Unsent, Unheard, Unread
  <2>5. QED
    BY <2>3, <2>4
<1>8. ASSUME NEW e \in End, Read(e) PROVE Kept
  <2>1. UNCHANGED <<sent, rcvd>>
    BY <1>8, ReadEffect DEF coding
  <2>2. d # e => pc'[d] = pc[d]
    BY <1>8, ReadEffect
  <2>3. d = e => pc[d] \in {"head", "body"} /\ pc'[d] \in {"head", "body", "decode"}
    BY <1>8, ReadEffect
  <2>4. QED
    BY <2>1, <2>2, <2>3 DEF Unsent, Unheard, Unread
<1>9. ASSUME NEW e \in End, Encode(e) \/ Pack(e) \/ Write(e) PROVE Kept
  BY <1>1, <1>9, Ends DEF Encode, Pack, Write, Go, coding, ControlInv, Unsent, Unheard, Unread
<1>10. ASSUME NEW e \in End, WriteFails(e) \/ Select(e) \/ ReadFails(e) PROVE Kept
  BY <1>1, <1>10, Ends DEF WriteFails, Select, ReadN, ReadFails, Go, coding, ControlInv,
                           Unsent, Unheard, Unread
<1>11. ASSUME NEW e \in End, Decode(e) \/ Close(e) PROVE Kept
  BY <1>1, <1>11, Ends DEF Decode, Close, Go, coding, ControlInv, Unsent, Unheard, Unread
<1>12. ASSUME Connect \/ TimeOut \/ HangUp \/ Refuse \/ Break \/ Silence \/ ServerDies \/ UNCHANGED vars
       PROVE  Kept
  BY <1>1, <1>12, Ends DEF Connect, TimeOut, HangUp, Refuse, Break, Silence, ServerDies, Go, coding, vars,
                           ControlInv, Unsent, Unheard, Unread
<1>13. QED
  <2> HIDE DEF Kept
  <2>1. QED
    BY <1>2, <1>4, <1>5, <1>6, <1>7, <1>8, <1>9, <1>10, <1>11, <1>12, StepCases
-----------------------------------------------------------------------------
LEMMA InitiallyInv == Init => ExchangeInv
<1> SUFFICES ASSUME Init PROVE ExchangeInv
  OBVIOUS
<1>1. Shapes /\ ControlInv /\ ConnInv
  BY DEF Init, Shapes, ControlInv, ConnInv, Steps, End
<1>2. ASSUME NEW e \in End
      PROVE  HistoryInv(e) /\ EncodeInv(e) /\ DecodeInv(e) /\ FrameInv(e) /\ ReadInv(e)
  <2>1. pc[e] = "idle" /\ sent[e] = NoMsg /\ rcvd[e] = NoMsg /\ frame[e] = <<>> /\ put[e] = 0
    BY DEF Init
  <2>2. Peer(e) \in End
    BY Ends
  <2>3. pipe[Peer(e)] = <<>> /\ frame[Peer(e)] = <<>> /\ put[Peer(e)] = 0
    BY <2>2 DEF Init
  <2>4. <<>> \in Seq(Byte) /\ Len(<<>>) = 0
    BY EmptySeq
  <2>5. Flow(Peer(e), 0)
    BY <2>3, <2>4 DEF Flow, Piece, Reach
  <2>6. HistoryInv(e) /\ EncodeInv(e) /\ DecodeInv(e)
    BY <2>1 DEF HistoryInv, EncodeInv, DecodeInv
  <2>7. FrameInv(e) /\ ReadInv(e)
    BY <2>1, <2>5 DEF FrameInv, ReadInv
  <2>8. QED
    BY <2>6, <2>7
<1>3. QED
  BY <1>1, <1>2 DEF ExchangeInv

(* The invariant of an exchange: whatever the network does, the bytes that     *)
(* were read, those under way and those still to be written make up the one    *)
(* frame of the message that was sent, and the code objects hold what they     *)
(* have made of it so far (writen, readn, recvMsg, encode and decode).         *)
THEOREM ExchangeInvariant == Spec => []ExchangeInv
<1>1. ExchangeInv /\ [Next]_vars => ExchangeInv'
  <2> SUFFICES ASSUME ExchangeInv, [Next]_vars PROVE ExchangeInv'
    OBVIOUS
  <2>1. Shapes' /\ ControlInv' /\ ConnInv'
    BY ShapesKept, ControlKept DEF ExchangeInv
  <2>2. ASSUME NEW e \in End
        PROVE  HistoryInv(e)' /\ EncodeInv(e)' /\ DecodeInv(e)' /\ FrameInv(e)' /\ ReadInv(e)'
    BY HistoryKept, EncodeKept, DecodeKept, FrameKept, ReadKept
  <2>3. QED
    BY <2>1, <2>2 DEF ExchangeInv
<1>2. QED
  BY <1>1, InitiallyInv, PTL DEF Spec

(* Read_Next_node is never called at the end of the chain by the server, and   *)
(* by the client only for an answer without a number.                          *)
THEOREM DecodersOnChain == Spec => []DecodersStayOnChain
<1>1. ExchangeInv => DecodersStayOnChain
  <2> SUFFICES ASSUME ExchangeInv PROVE DecodersStayOnChain
    OBVIOUS
  <2>1. HistoryInv("client") /\ HistoryInv("server")
    BY Ends DEF ExchangeInv
  <2>2. QED
    BY <2>1 DEF HistoryInv, DecodersStayOnChain
<1>2. QED
  BY <1>1, ExchangeInvariant, PTL

(* Whom a step leaves with what they had.                                      *)
LEMMA QuietForThem ==
    ASSUME ExchangeInv,
           \/ \E e \in End : \/ Encode(e) \/ Pack(e) \/ Write(e) \/ WriteFails(e)
                             \/ Select(e) \/ Read(e) \/ ReadFails(e)
                             \/ Decode(e) \/ NullNode(e) \/ Close(e)
           \/ Connect \/ TimeOut \/ HangUp \/ Refuse \/ Break \/ Silence \/ ServerDies \/ UNCHANGED vars
    PROVE  sent' = sent /\ rcvd' = rcvd
<1>1. ASSUME NEW e \in End, Read(e) PROVE sent' = sent /\ rcvd' = rcvd
  BY <1>1, ReadEffect DEF coding
<1>2. ASSUME NEW e \in End, Encode(e) \/ Pack(e) \/ Write(e) \/ WriteFails(e) \/ Select(e)
      PROVE  sent' = sent /\ rcvd' = rcvd
  BY <1>2 DEF Encode, Pack, Write, WriteFails, Select, coding
<1>3. ASSUME NEW e \in End, ReadFails(e) \/ Decode(e) \/ NullNode(e) \/ Close(e)
      PROVE  sent' = sent /\ rcvd' = rcvd
  BY <1>3 DEF ReadFails, Decode, NullNode, Close, coding
<1>4. ASSUME Connect \/ TimeOut \/ HangUp \/ Refuse \/ Break \/ Silence \/ ServerDies \/ UNCHANGED vars
      PROVE  sent' = sent /\ rcvd' = rcvd
  BY <1>4 DEF Connect, TimeOut, HangUp, Refuse, Break, Silence, ServerDies, coding, vars
<1>5. QED
  BY <1>1, <1>2, <1>3, <1>4

LEMMA StepDelivers ==
    ASSUME ExchangeInv, [Next]_vars
    PROVE  [D!Next]_(D!vars)
<1>1. Shapes /\ ControlInv /\ HistoryInv("client") /\ HistoryInv("server")
  BY Ends DEF ExchangeInv
<1>2. ASSUME sent' = sent, rcvd' = rcvd PROVE [D!Next]_(D!vars)
  BY <1>2 DEF D!vars
<1>3. ASSUME Ask PROVE D!Ask
  <2>1. PICK m \in Requests : Begin("client", m)
    BY <1>3 DEF Ask
  <2>2. /\ rcvd' = rcvd /\ sent'["client"] = m /\ sent'["server"] = sent["server"]
    BY <1>1, <2>1, Ends DEF Begin, Shapes
  <2>3. sent["client"] = NoMsg
    BY <1>1, <1>3 DEF Ask, HistoryInv, Unsent
  <2>4. QED
    BY <2>2, <2>3 DEF D!Ask
<1>4. ASSUME Handle PROVE D!Reply
  <2>1. PICK m \in AnswersTo(rcvd["server"]) : Begin("server", m)
    BY <1>4 DEF Handle
  <2>2. pc["server"] = "handle"
    BY <1>4 DEF Handle
  <2>3. rcvd' = rcvd /\ sent'["server"] = m /\ sent'["client"] = sent["client"]
    BY <1>1, <2>1, Ends DEF Begin, Shapes
  <2>4. sent["server"] = NoMsg /\ rcvd["server"] # NoMsg
    BY <1>1, <2>2 DEF HistoryInv, Unsent
  <2>5. rcvd["server"] \in Requests
    BY <2>1, <2>2, Answered
  <2>6. [q \in Requests |-> AnswersTo(q)][rcvd["server"]] = AnswersTo(rcvd["server"])
    BY <2>5
  <2>7. sent'["server"] \in [q \in Requests |-> AnswersTo(q)][rcvd["server"]]
    BY <2>1, <2>3, <2>6
  <2>8. QED
    BY <2>3, <2>4, <2>7 DEF D!Reply
<1>5. ASSUME Decoded("server") PROVE D!Hear
  <2>1. sent["client"] # NoMsg /\ msg["server"] = sent["client"]
    BY <1>5, DecodedWhole, Ends DEF Peer
  <2>2. sent' = sent /\ rcvd'["server"] = msg["server"] /\ rcvd'["client"] = rcvd["client"]
    BY <1>1, <1>5, Ends DEF Decoded, Shapes
  <2>3. rcvd["server"] = NoMsg
    BY <1>1, <1>5 DEF HistoryInv, Unheard, Decoded
  <2>4. QED
    BY <2>1, <2>2, <2>3 DEF D!Hear
<1>6. ASSUME Decoded("client") PROVE D!Tell
  <2>1. sent["server"] # NoMsg /\ msg["client"] = sent["server"]
    BY <1>6, DecodedWhole, Ends DEF Peer
  <2>2. sent' = sent /\ rcvd'["client"] = msg["client"] /\ rcvd'["server"] = rcvd["server"]
    BY <1>1, <1>6, Ends DEF Decoded, Shapes
  <2>3. rcvd["client"] = NoMsg
    BY <1>1, <1>6 DEF HistoryInv, Unheard, Decoded
  <2>4. QED
    BY <2>1, <2>2, <2>3 DEF D!Tell
<1>7. ASSUME NEW e \in End, Decoded(e) PROVE D!Next
  BY <1>5, <1>6, <1>7, Ends DEF D!Next
<1>8. QED
  BY <1>2, <1>3, <1>4, <1>7, QuietForThem, StepCases DEF D!Next

(* An exchange does what Delivery promises: the handler hears the very request *)
(* that was asked or none, and the client is told the very answer or none,     *)
(* wherever the stream is cut, delayed or broken (sendMsg and recvMsg at both  *)
(* ends, with the encoders and decoders around them).                          *)
THEOREM ExchangeDelivers == Spec => ImplementsDelivery
<1>1. Init => D!Init
  BY Ends DEF Init, D!Init
<1>2. ExchangeInv /\ [Next]_vars => [D!Next]_(D!vars)
  BY StepDelivers
<1>3. QED
  BY <1>1, <1>2, ExchangeInvariant, PTL DEF Spec, ImplementsDelivery, D!Spec
-----------------------------------------------------------------------------
(* The types of an exchange.  While an end encodes or decodes, its code object *)
(* and its struct are what Encoded and Unpacked say; else they stay.           *)
CodeTyped(c) == /\ \A i \in DOMAIN c.chain : c.chain[i].data \in Seq(Byte)
                /\ c.next \in 0..Len(c.chain)

CodingTyped(e) == /\ msg[e] = NoMsg \/ \E d \in End : IsMsg(msg[e], Outgoing(d))
                  /\ CodeTyped(code[e]) /\ at[e] \in 1..6

WireTyped(e) == got[e] \in Seq(Byte) /\ want[e] \in Nat /\ pipe[e] \in Seq(Byte)

ExchangeTyped == /\ conn \in {"none", "up", "broken"} /\ silent \subseteq End
                 /\ open \in [End -> BOOLEAN]
                 /\ \A e \in End : CodingTyped(e) /\ WireTyped(e)

LEMMA PartlyTyped ==
    ASSUME NEW e \in End, NEW m \in SentBy(e), NEW i \in 0..5
    PROVE  IsMsg(Partly(e, m, i), Outgoing(e))
<1> DEFINE fs == Outgoing(e)
           w == Partly(e, m, i)
<1>1. IsMsg(m, fs)
  BY ExchangeAssumption
<1>2. DOMAIN w = Range(fs) /\ w = [f \in Range(fs) |-> w[f]]
      /\ \A f \in Range(fs) : w[f] = m[f] \/ w[f] = Blank(f)
  BY Zenon DEF Partly
<1>3. 0 \in Int /\ 0 <= IntMax
  BY SMT DEF IntMax
<1>4. \A f \in Range(fs) : IsInt(f) \/ (Zeros(Width[f]) \in Seq(Byte) /\ Len(Zeros(Width[f])) = Width[f])
  <2>1. ASSUME NEW f \in Range(fs), ~IsInt(f)
        PROVE  Zeros(Width[f]) \in Seq(Byte) /\ Len(Zeros(Width[f])) = Width[f]
    <3>1. Width[f] \in Nat
      <4>1. Range(fs) = {fs[1], fs[2], fs[3], fs[4], fs[5]}
        BY Fields
      <4>2. PICK k \in 1..5 : f = fs[k]
        BY <4>1
      <4>3. QED
        BY <2>1, <4>2, Fields
    <3>2. 0 \in Byte
      BY DEF Byte
    <3> DEFINE n == Width[f]
    <3> HIDE DEF n
    <3>3. n \in Nat
      BY <3>1 DEF n
    <3>4. Zeros(n) \in Seq(Byte) /\ Len(Zeros(n)) = n
      BY <3>2, <3>3 DEF Zeros
    <3>5. QED
      BY <3>4 DEF n
  <2>2. QED
    BY <2>1
<1> HIDE DEF fs, w
<1>5. ASSUME NEW f \in Range(fs)
      PROVE  IF IsInt(f) THEN w[f] \in Int /\ w[f] <= IntMax
             ELSE w[f] \in Seq(Byte) /\ Len(w[f]) = Width[f]
  <2>1. CASE w[f] = m[f]
    BY <1>1, <2>1 DEF IsMsg
  <2>2. CASE w[f] = Blank(f)
    BY <1>3, <1>4, <2>2 DEF Blank
  <2>3. QED
    BY <1>2, <2>1, <2>2
<1>6. QED
  BY <1>2, <1>5, Zenon DEF IsMsg, fs, w

LEMMA FilledTyped ==
    ASSUME NEW c, NEW k, NEW e, NEW m, Filled(c, k, e, m)
    PROVE  /\ CodeTyped(c)
           /\ \A i \in DOMAIN c.chain : c.chain[i].data \in Seq(Byte)
<1>1. c.chain \in Seq(Nodes) /\ Len(c.chain) = k /\ c.next = k
  BY DEF Filled
<1>2. Len(c.chain) \in Nat /\ DOMAIN c.chain = 1..Len(c.chain)
      /\ \A i \in 1..Len(c.chain) : c.chain[i] \in Nodes
  BY <1>1, LenProperties, ElementOfSeq
<1>3. k \in 0..k
  BY <1>1, <1>2
<1>4. QED
  BY <1>1, <1>2, <1>3, NodeFacts DEF CodeTyped

LEMMA EncodedTyped ==
    ASSUME NEW e \in End, NEW m \in SentBy(e), NEW i \in 0..5
    PROVE  CodeTyped(Encoded(e, m)[i])
<1>1. i \in 0..4 \/ i = 5
  OBVIOUS
<1>2. QED
  BY <1>1, EncodedChain, FilledTyped

LEMMA DecodedTyped ==
    ASSUME NEW e \in End, NEW m \in SentBy(e), NEW i \in 0..5,
           \A j \in 0..i - 1 : Unpacked(Peer(e), Packed(e, m))[j].code.next # 0
    PROVE  /\ CodeTyped(Unpacked(Peer(e), Packed(e, m))[i].code)
           /\ IsMsg(Unpacked(Peer(e), Packed(e, m))[i].msg, Outgoing(e))
<1> DEFINE un == Unpacked(Peer(e), Packed(e, m))
           n == Nodeful(e, m)
           c == Encoded(e, m)[5].chain
<1>1. n \in {4, 5} /\ Len(c) = n /\ \A j \in DOMAIN c : c[j].data \in Seq(Byte)
  <2>1. n \in {4, 5} /\ Len(c) = n
    BY PackedChain
  <2>2. Filled(Encoded(e, m)[5], IF Skips(e, m, 5) THEN 4 ELSE 5, e, m)
    BY EncodedChain
  <2>3. QED
    BY <2>1, <2>2, FilledTyped
<1>2. \A j \in 0..n : Decodes(un[j], j, e, m)
  BY DecodedChain
<1> HIDE DEF un, n, c
<1>3. i \in 0..n
  <2>1. ASSUME i \notin 0..n PROVE FALSE
    <3>1. n = 4 /\ i = 5
      BY <1>1, <2>1
    <3>2. un[4].code.next = IF 4 < n THEN 5 ELSE 0
      BY <1>2, <3>1 DEF Decodes, n
    <3>3. un[4].code.next # 0
      BY <3>1 DEF un
    <3>4. QED
      BY <3>1, <3>2, <3>3
  <2>2. QED
    BY <2>1
<1>4. /\ un[i].code = [chain |-> c, next |-> IF i < n THEN i + 1 ELSE 0]
      /\ un[i].msg = Partly(e, m, i)
  BY <1>2, <1>3 DEF Decodes, c, n
<1>5. un[i].code.chain = c /\ un[i].code.next \in 0..n
  BY <1>1, <1>3, <1>4
<1>6. CodeTyped(un[i].code)
  BY <1>1, <1>5 DEF CodeTyped
<1>7. QED
  BY <1>4, <1>6, PartlyTyped DEF un
LEMMA CodingStays ==
    ASSUME ExchangeInv, [Next]_vars, NEW d \in End, pc'[d] \notin {"encode", "decode"}
    PROVE  msg'[d] = msg[d] /\ code'[d] = code[d] /\ at'[d] = at[d]
<1> DEFINE Stays == msg'[d] = msg[d] /\ code'[d] = code[d] /\ at'[d] = at[d]
<1>1. Shapes /\ ControlInv
  BY DEF ExchangeInv
<1>2. ASSUME Ask \/ Handle PROVE Stays
  BY <1>1, <1>2, Ends DEF Ask, Handle, Begin, Go, Shapes, ControlInv
<1>3. ASSUME NEW e \in End, Read(e) PROVE Stays
  <2>1. CASE d # e
    <3>1. UNCHANGED coding \/ (/\ code' = [code EXCEPT ![e] = UnpackQueue(Packed(Peer(e), sent[Peer(e)]))]
                               /\ msg' = [msg EXCEPT ![e] = ZeroMsg(Incoming(e))]
                               /\ at' = [at EXCEPT ![e] = 1])
      BY <1>3, ReadEffect
    <3>2. QED
      BY <1>1, <2>1, <3>1 DEF Shapes, coding
  <2>2. CASE d = e
    <3>1. UNCHANGED coding \/ pc'[e] = "decode"
      BY <1>3, ReadEffect
    <3>2. QED
      BY <2>2, <3>1 DEF coding
  <2>3. QED
    BY <2>1, <2>2
<1>4. ASSUME NEW e \in End, Encode(e) \/ Decode(e) PROVE Stays
  BY <1>1, <1>4 DEF Encode, Decode, Shapes
<1>5. ASSUME NEW e \in End, Pack(e) \/ Write(e) \/ WriteFails(e) \/ Select(e) PROVE Stays
  BY <1>5 DEF Pack, Write, WriteFails, Select, coding
<1>6. ASSUME NEW e \in End, ReadFails(e) \/ NullNode(e) \/ Decoded(e) \/ Close(e) PROVE Stays
  BY <1>6 DEF ReadFails, NullNode, Decoded, Close, coding
<1>7. ASSUME Connect \/ TimeOut \/ HangUp \/ Refuse \/ Break \/ Silence \/ ServerDies \/ UNCHANGED vars
      PROVE  Stays
  BY <1>7 DEF Connect, TimeOut, HangUp, Refuse, Break, Silence, ServerDies, coding, vars
<1>8. QED
  <2> HIDE DEF Stays
  <2>1. Stays
    BY <1>2, <1>3, <1>4, <1>5, <1>6, <1>7, StepCases
  <2>2. QED
    BY <2>1 DEF Stays

LEMMA CodingKept ==
    ASSUME ExchangeInv, ExchangeInv', [Next]_vars, NEW d \in End, CodingTyped(d)
    PROVE  CodingTyped(d)'
<1> DEFINE p == Peer(d)
<1>1. /\ p \in End /\ Peer(p) = d
      /\ HistoryInv(d)' /\ HistoryInv(p)' /\ EncodeInv(d)' /\ DecodeInv(d)'
  BY Ends DEF ExchangeInv
<1>2. CASE pc'[d] = "encode"
  <2>1. /\ sent'[d] \in SentBy(d) /\ msg'[d] = sent'[d] /\ at'[d] \in 1..6
        /\ code'[d] = Encoded(d, sent'[d])[at'[d] - 1]
    BY <1>1, <1>2 DEF EncodeInv, HistoryInv
  <2>2. at'[d] - 1 \in 0..5
    BY <2>1
  <2>3. CodeTyped(code'[d]) /\ IsMsg(msg'[d], Outgoing(d))
    BY <2>1, <2>2, EncodedTyped, ExchangeAssumption
  <2>4. QED
    BY <2>1, <2>3 DEF CodingTyped
<1>3. CASE pc'[d] = "decode"
  <2> DEFINE i == at'[d] - 1
             un == Unpacked(d, Packed(p, sent'[p]))
  <2>1. /\ sent'[p] \in SentBy(p) /\ at'[d] \in 1..6
        /\ code'[d] = un[i].code /\ msg'[d] = un[i].msg
        /\ \A j \in 0..at'[d] - 2 : un[j].code.next # 0
    BY <1>1, <1>3 DEF DecodeInv, HistoryInv
  <2>2. i \in 0..5 /\ i - 1 = at'[d] - 2
    BY <2>1
  <2>3. CodeTyped(un[i].code) /\ IsMsg(un[i].msg, Outgoing(p))
    <3> HIDE DEF i
    <3>1. \A j \in 0..i - 1 : un[j].code.next # 0
      BY <2>1, <2>2
    <3>2. QED
      BY <1>1, <2>1, <2>2, <3>1, DecodedTyped
  <2> HIDE DEF i, un
  <2>4. QED
    BY <1>1, <2>1, <2>3 DEF CodingTyped
<1>4. CASE pc'[d] \notin {"encode", "decode"}
  BY <1>4, CodingStays DEF CodingTyped
<1>5. QED
  BY <1>2, <1>3, <1>4

LEMMA WireKept ==
    ASSUME ExchangeInv, ExchangeTyped, [Next]_vars, NEW d \in End
    PROVE  WireTyped(d)'
<1>1. /\ Shapes /\ got[d] \in Seq(Byte) /\ want[d] \in Nat
      /\ \A e \in End : pipe[e] \in Seq(Byte)
  BY DEF ExchangeInv, ExchangeTyped, WireTyped
<1>2. <<>> \in Seq(Byte)
  BY EmptySeq
<1>3. ASSUME NEW e \in End, Read(e) PROVE WireTyped(d)'
  <2> DEFINE p == Peer(e)
  <2>1. p \in End \ {e} /\ (d = e \/ d = p)
    BY Ends DEF End
  <2>2. frame[p] \in Seq(Byte) /\ Len(frame[p]) \in Nat
    BY <2>1, FrameBytes
  <2>3. pipe'[e] = pipe[e] /\ got'[p] = got[p] /\ want'[p] = want[p]
    <3>1. /\ pipe'[e] = pipe[e]
          /\ \A x \in End \ {e} : pc'[x] = pc[x] /\ got'[x] = got[x] /\ want'[x] = want[x]
      BY <1>3, ReadEffect
    <3> HIDE DEF p
    <3>2. QED
      BY <2>1, <3>1
  <2>4. pipe'[p] \in Seq(Byte)
    BY <1>3, ReadEffect DEF Piece
  <2>5. got'[e] \in Seq(Byte)
    BY <1>2, <1>3, ReadEffect DEF Piece
  <2>6. want'[e] = want[e] \/ want'[e] \in Nat
    <3>1. \/ want'[e] \in {0, 4, want[e]}
          \/ want'[e] = Len(frame[p]) - 4 /\ Len(frame[p]) >= 4
      BY <1>3, ReadEffect
    <3> DEFINE l == Len(frame[p])
    <3> HIDE DEF l, p
    <3>2. l >= 4 => l - 4 \in Nat
      BY <2>2 DEF l
    <3>3. QED
      BY <3>1, <3>2 DEF l
  <2> HIDE DEF p
  <2>7. CASE d = e
    BY <1>1, <2>3, <2>4, <2>5, <2>6, <2>7 DEF WireTyped
  <2>8. CASE d = p
    BY <1>1, <2>3, <2>4, <2>5, <2>6, <2>8 DEF WireTyped
  <2>9. QED
    BY <2>1, <2>7, <2>8
<1>4. ASSUME NEW e \in End, Write(e) PROVE WireTyped(d)'
  <2>1. PICK n \in Cuts \union {Len(frame[e])} :
            /\ put[e] < n /\ n <= Len(frame[e])
            /\ pipe' = IF e \in silent THEN pipe
                       ELSE [pipe EXCEPT ![e] = @ \o SubSeq(frame[e], put[e] + 1, n)]
    BY <1>4 DEF Write
  <2>2. UNCHANGED <<got, want>>
    BY <1>4 DEF Write
  <2>3. /\ frame[e] \in Seq(Byte) /\ put[e] \in Nat /\ n \in Nat
    <3>1. frame[e] \in Seq(Byte) /\ Len(frame[e]) \in Nat /\ put[e] \in 0..Len(frame[e])
      BY FrameBytes
    <3>2. Cuts \subseteq Nat
      BY ExchangeAssumption
    <3> DEFINE l == Len(frame[e])
    <3>3. n \in Cuts \/ n = l
      OBVIOUS
    <3> HIDE DEF l
    <3>4. l \in Nat /\ put[e] \in 0..l
      BY <3>1 DEF l
    <3>5. n \in Nat /\ put[e] \in Nat
      BY <3>2, <3>3, <3>4
    <3>6. QED
      BY <3>1, <3>5
  <2>4. SubSeq(frame[e], put[e] + 1, n) \in Seq(Byte)
    BY <2>1, <2>3, PieceOf DEF Piece
  <2>5. pipe[e] \o SubSeq(frame[e], put[e] + 1, n) \in Seq(Byte)
    BY <1>1, <2>4, ConcatProperties
  <2>6. pipe'[d] \in Seq(Byte)
    BY <1>1, <2>1, <2>5 DEF Shapes
  <2>7. QED
    BY <1>1, <2>2, <2>6 DEF WireTyped
<1>5. ASSUME NEW e \in End, Select(e) \/ ReadFails(e) PROVE WireTyped(d)'
  <2>1. /\ pipe' = pipe /\ got' = [got EXCEPT ![e] = <<>>]
        /\ want' = want \/ want' = [want EXCEPT ![e] = 4]
    BY <1>5 DEF Select, ReadFails, ReadN
  <2>2. got'[d] \in Seq(Byte) /\ want'[d] \in Nat
    BY <1>1, <1>2, <2>1 DEF Shapes
  <2>3. QED
    BY <1>1, <2>1, <2>2 DEF WireTyped
<1>6. ASSUME Break PROVE WireTyped(d)'
  BY <1>1, <1>2, <1>6 DEF Break, WireTyped
<1>7. ASSUME UNCHANGED <<got, want, pipe>> PROVE WireTyped(d)'
  BY <1>1, <1>7 DEF WireTyped
<1>8. ASSUME NEW e \in End, Encode(e) \/ Pack(e) \/ WriteFails(e)
      PROVE  UNCHANGED <<got, want, pipe>>
  BY <1>8 DEF Encode, Pack, WriteFails, wire
<1>9. ASSUME NEW e \in End, Decode(e) \/ NullNode(e) \/ Decoded(e) \/ Close(e)
      PROVE  UNCHANGED <<got, want, pipe>>
  BY <1>9 DEF Decode, NullNode, Decoded, Close, wire
<1>10. ASSUME \/ Ask \/ Handle \/ Connect \/ TimeOut \/ HangUp \/ Refuse \/ Silence
              \/ ServerDies \/ UNCHANGED vars
       PROVE  UNCHANGED <<got, want, pipe>>
  BY <1>10 DEF Ask, Handle, Connect, TimeOut, HangUp, Refuse, Silence, ServerDies, wire, vars
<1>11. QED
  BY <1>3, <1>4, <1>5, <1>6, <1>7, <1>8, <1>9, <1>10, StepCases

LEMMA LinkKept ==
    ASSUME ExchangeInv, ExchangeTyped, [Next]_vars
    PROVE  /\ conn' \in {"none", "up", "broken"} /\ silent' \subseteq End
           /\ open' \in [End -> BOOLEAN]
<1> DEFINE Link(c, s, o) == c \in {"none", "up", "broken"} /\ s \subseteq End /\ o \in [End -> BOOLEAN]
<1>1. Link(conn, silent, open) /\ "server" \in End
  BY Ends DEF ExchangeTyped
<1>2. ASSUME NEW e \in End, WriteFails(e) \/ NullNode(e) \/ Close(e) PROVE Link(conn', silent', open')
  BY <1>1, <1>2 DEF WriteFails, NullNode, Close
<1>3. ASSUME NEW e \in End, Encode(e) \/ Pack(e) \/ Write(e) \/ Select(e) PROVE Link(conn', silent', open')
  BY <1>1, <1>3 DEF Encode, Pack, Write, Select, wire
<1>4. ASSUME NEW e \in End, Read(e) \/ ReadFails(e) \/ Decode(e) \/ Decoded(e) PROVE Link(conn', silent', open')
  BY <1>1, <1>4 DEF Read, ReadFails, Decode, Decoded, wire
<1>5. ASSUME \/ Ask \/ Connect \/ TimeOut \/ HangUp \/ Handle \/ Refuse \/ Break \/ Silence \/ ServerDies
             \/ UNCHANGED vars
      PROVE  Link(conn', silent', open')
  BY <1>1, <1>5 DEF Ask, Connect, TimeOut, HangUp, Handle, Refuse, Break, Silence, ServerDies, wire, vars
<1>6. QED
  <2> HIDE DEF Link
  <2>1. Link(conn', silent', open')
    BY <1>2, <1>3, <1>4, <1>5, StepCases
  <2>2. QED
    BY <2>1 DEF Link

LEMMA InitiallyTyped == Init => ExchangeTyped
<1> SUFFICES ASSUME Init PROVE ExchangeTyped
  OBVIOUS
<1>1. conn \in {"none", "up", "broken"} /\ silent \subseteq End /\ open \in [End -> BOOLEAN]
  BY DEF Init
<1>2. ASSUME NEW e \in End PROVE CodingTyped(e) /\ WireTyped(e)
  <2>1. /\ msg[e] = NoMsg /\ code[e] = NewCode /\ at[e] = 1
        /\ got[e] = <<>> /\ want[e] = 0 /\ pipe[e] = <<>>
    BY DEF Init
  <2>2. NewCode.chain = <<>> /\ NewCode.next = 0 /\ 0 \in 0..Len(<<>>) /\ DOMAIN <<>> = {}
    BY DEF NewCode
  <2>3. CodeTyped(NewCode)
    BY <2>2 DEF CodeTyped
  <2>4. QED
    BY <2>1, <2>3, EmptySeq DEF CodingTyped, WireTyped
<1>3. QED
  BY <1>1, <1>2 DEF ExchangeTyped

LEMMA TypedTypes == ExchangeInv /\ ExchangeTyped => TypeOK
<1> SUFFICES ASSUME ExchangeInv, ExchangeTyped PROVE TypeOK
  OBVIOUS
<1>1. pc \in [End -> Steps] /\ conn \in {"none", "up", "broken"} /\ silent \subseteq End /\ open \in [End -> BOOLEAN]
  BY DEF ExchangeInv, ControlInv, ExchangeTyped
<1>2. ASSUME NEW e \in End
      PROVE  /\ msg[e] = NoMsg \/ \E d \in End : IsMsg(msg[e], Outgoing(d))
             /\ NoneOr(sent[e], Outgoing(e)) /\ NoneOr(rcvd[e], Incoming(e))
             /\ \A i \in DOMAIN code[e].chain : code[e].chain[i].data \in Seq(Byte)
             /\ code[e].next \in 0..Len(code[e].chain) /\ at[e] \in 1..6
             /\ frame[e] \in Seq(Byte) /\ put[e] \in 0..Len(frame[e]) /\ got[e] \in Seq(Byte)
             /\ want[e] \in Nat /\ pipe[e] \in Seq(Byte)
  <2>1. CodingTyped(e) /\ WireTyped(e)
    BY DEF ExchangeTyped
  <2>2. \A d \in End : NoneOr(sent[d], Outgoing(d))
    BY ExchangeAssumption DEF ExchangeInv, HistoryInv, NoneOr
  <2>3. NoneOr(rcvd[e], Incoming(e))
    BY <2>2, Ends DEF ExchangeInv, HistoryInv, NoneOr, Incoming
  <2>4. QED
    BY <2>1, <2>2, <2>3, FrameBytes DEF CodingTyped, CodeTyped, WireTyped
<1>3. QED
  BY <1>1, <1>2, Zenon DEF TypeOK, Steps

(* The types of an exchange: what is written, in flight and read are bytes,    *)
(* and every member of a message, sent, under way or decoded, has as many of   *)
(* them as its array.  Read_Next_node copies as many bytes as the node says    *)
(* and never looks at the array: that none outgrows its own comes from what    *)
(* the peer encoded and from the stream that carries it.                       *)
THEOREM ExchangeTypes == Spec => []TypeOK
<1>1. ExchangeInv /\ ExchangeInv' /\ ExchangeTyped /\ [Next]_vars => ExchangeTyped'
  <2> SUFFICES ASSUME ExchangeInv, ExchangeInv', ExchangeTyped, [Next]_vars PROVE ExchangeTyped'
    OBVIOUS
  <2>1. ASSUME NEW e \in End PROVE CodingTyped(e)' /\ WireTyped(e)'
    BY CodingKept, WireKept DEF ExchangeTyped
  <2>2. QED
    BY <2>1, LinkKept DEF ExchangeTyped
<1>2. QED
  BY <1>1, InitiallyTyped, TypedTypes, ExchangeInvariant, PTL DEF Spec
=============================================================================
