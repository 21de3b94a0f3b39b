------------------------- MODULE LidarLink_proofs -------------------------
(***************************************************************************)
(* Proofs about the link to the LIDAR: it implements the byte stream, and  *)
(* the listener hears what the device sent, for every device of the        *)
(* assumptions, every bound, and every interleaving.  FlattenSeq, of which *)
(* the module is built, is a fold: what it computes is proved from the     *)
(* least counterexample (LeastExists), as the library's induction theorems *)
(* take an operator as a parameter.                                        *)
(***************************************************************************)
EXTENDS LidarLink, Integers, SequenceTheorems, WellFoundedInduction, TLAPS

(***************************************************************************)
(* Sequences of sequences: what FlattenSeq puts together.                  *)
(***************************************************************************)
\* A set of numbers that is not empty has a least element: the form in which these
\* proofs use induction.
LEMMA LeastExists == ASSUME NEW S \in SUBSET Nat, S # {} PROVE \E m \in S : \A k \in S : m <= k
<1> DEFINE R == {ss \in Nat \X Nat : ss[1] < ss[2]}
<1>1. IsWellFoundedOn(R, Nat)
  BY NatLessThanWellFounded DEF OpToRel
<1> HIDE DEF R
<1>2. \E x \in S : \A y \in S : ~ (<<y, x>> \in R)
  BY <1>1, WFMin
<1>3. PICK x \in S : \A y \in S : ~ (<<y, x>> \in R)
  BY <1>2
<1>4. ASSUME NEW y \in S PROVE x <= y
  <2>1. <<y, x>> \notin R /\ x \in Nat /\ y \in Nat  BY <1>3
  <2>2. ~(y < x)  BY <2>1 DEF R
  <2> QED BY <2>1, <2>2
<1> QED BY <1>4

\* what FlattenSeq has put together after each sequence
Joins(s, f) == f = [i \in 1 .. Len(s) |-> IF i = 1 THEN s[i] ELSE f[i - 1] \o s[i]]

\* FlattenSeq is the last of a function of partial results, and there is such a
\* function for every sequence of sequences.
LEMMA FlattenIs ==
    ASSUME NEW S, NEW s \in Seq(Seq(S))
    PROVE  /\ s = <<>> => FlattenSeq(s) = <<>>
           /\ s # <<>> => \E f : Joins(s, f) /\ FlattenSeq(s) = f[Len(s)]
<1>1. Len(s) \in Nat /\ (s = <<>> <=> Len(s) = 0)
  BY EmptySeq, LenProperties
<1>2. s = <<>> => FlattenSeq(s) = <<>>
  BY <1>1 DEF FlattenSeq
<1> DEFINE Upto(n, f) == f = [i \in 1 .. n |-> IF i = 1 THEN s[i] ELSE f[i - 1] \o s[i]]
           Bad == {n \in Nat : ~\E f : Upto(n, f)}
<1>3. Bad = {}
  <2> SUFFICES ASSUME Bad # {} PROVE FALSE
    OBVIOUS
  <2>1. PICK m \in Bad : \A k \in Bad : m <= k
    BY LeastExists
  <2>2. Upto(0, [i \in 1 .. 0 |-> i])
    OBVIOUS
  <2>3. m # 0
    BY <2>2, <2>1
  <2>4. PICK f : Upto(m - 1, f)
    <3>1. m \in Nat /\ m - 1 \in Nat /\ ~(m <= m - 1)
      BY <2>1, <2>3
    <3>2. m - 1 \notin Bad
      BY <2>1, <3>1
    <3> QED
      BY <3>1, <3>2
  <2> DEFINE h == [i \in 1 .. m |-> IF i < m THEN f[i] ELSE IF i = 1 THEN s[i] ELSE f[i - 1] \o s[i]]
             hh == [i \in 1 .. m |-> IF i = 1 THEN s[i] ELSE h[i - 1] \o s[i]]
  <2>5. ASSUME NEW i \in 1 .. m PROVE h[i] = hh[i]
    <3>1. CASE i < m
      <4>1. i \in 1 .. m - 1 /\ h[i] = f[i]
        BY <2>1, <3>1
      <4>2. f[i] = IF i = 1 THEN s[i] ELSE f[i - 1] \o s[i]
        BY <4>1, <2>4
      <4>3. i # 1 => i - 1 \in 1 .. m /\ i - 1 < m
        BY <2>1, <3>1
      <4> QED
        BY <4>1, <4>2, <4>3
    <3>2. CASE i = m
      <4>3. i # 1 => i - 1 \in 1 .. m /\ i - 1 < m
        BY <2>1, <3>2
      <4> QED
        BY <4>3, <3>2
    <3> QED
      BY <2>1, <3>1, <3>2
  <2>6. h = hh
    BY <2>5
  <2>7. Upto(m, h)
    BY <2>6
  <2> QED
    BY <2>1, <2>7
<1>4. \E f : Joins(s, f)
  BY <1>1, <1>3 DEF Joins
<1> DEFINE c == CHOOSE f : Joins(s, f)
<1>5. Joins(s, c)
  BY <1>4
<1>6. s # <<>> => FlattenSeq(s) = c[Len(s)]
  BY <1>1 DEF FlattenSeq, Joins
<1> QED
  BY <1>2, <1>5, <1>6

\* \o as an operator, which the provers take as a whole
Cat(a, b) == a \o b

\* The concatenation of sequences over a set is one.
LEMMA CatType == \A S : \A a, b \in Seq(S) : Cat(a, b) \in Seq(S)
  BY ConcatProperties DEF Cat

\* Concatenation is associative.
LEMMA CatAssociative ==
    \A S : \A a, b, c \in Seq(S) : Cat(Cat(a, b), c) = Cat(a, Cat(b, c))
  BY ConcatAssociative DEF Cat

\* The empty sequence adds nothing.
LEMMA CatEmpty == \A S : \A a \in Seq(S) : Cat(a, <<>>) = a /\ Cat(<<>>, a) = a
  BY ConcatEmptySeq DEF Cat

\* what is put together of s up to each of its sequences
Sums(s, S, j) ==
    /\ \A k \in 0 .. Len(s) : j[k] \in Seq(S)
    /\ j[0] = <<>>
    /\ \A k \in 1 .. Len(s) : j[k] = Cat(j[k - 1], s[k])

\* FlattenSeq is what is put together up to the last of the sequences.
LEMMA FlattenJoins ==
    ASSUME NEW S, NEW s \in Seq(Seq(S))
    PROVE  \E j : Sums(s, S, j) /\ FlattenSeq(s) = j[Len(s)]
<1>1. Len(s) \in Nat /\ (s = <<>> <=> Len(s) = 0) /\ <<>> \in Seq(S)
         /\ \A k \in 1 .. Len(s) : s[k] \in Seq(S)
  BY EmptySeq, LenProperties, ElementOfSeq
<1>2. CASE s = <<>>
  <2>1. Sums(s, S, [k \in 0 .. 0 |-> <<>>])
    BY <1>1, <1>2 DEF Sums
  <2> QED
    BY <2>1, <1>1, <1>2, FlattenIs
<1>3. CASE s # <<>>
  <2>1. PICK f : Joins(s, f) /\ FlattenSeq(s) = f[Len(s)]
    BY <1>3, FlattenIs
  <2> DEFINE j == [k \in 0 .. Len(s) |-> IF k = 0 THEN <<>> ELSE f[k]]
             Bad == {k \in 0 .. Len(s) : j[k] \notin Seq(S)}
  <2>2. \A k \in 1 .. Len(s) : f[k] = IF k = 1 THEN s[k] ELSE f[k - 1] \o s[k]
    BY <2>1 DEF Joins
  <2>3. Bad = {}
    <3> SUFFICES ASSUME Bad # {} PROVE FALSE
      OBVIOUS
    <3>0. Bad \in SUBSET Nat
      BY <1>1
    <3> HIDE DEF Bad
    <3>1. PICK m \in Bad : \A k \in Bad : m <= k
      BY <3>0, LeastExists
    <3> USE DEF Bad
    <3>2. m \in 1 .. Len(s) /\ j[m] = f[m] /\ f[m] \notin Seq(S)
      BY <1>1, <3>1
    <3>3. m # 1
      BY <1>1, <2>2, <3>2
    <3>4. m - 1 \in 1 .. Len(s) /\ ~(m <= m - 1)
      BY <1>1, <3>2, <3>3
    <3>5. f[m - 1] \in Seq(S)
      BY <3>1, <3>4
    <3>6. f[m] = f[m - 1] \o s[m] /\ s[m] \in Seq(S)
      BY <1>1, <2>2, <3>2, <3>3
    <3>7. f[m - 1] \o s[m] \in Seq(S)
      BY <3>5, <3>6, ConcatProperties
    <3> QED
      BY <3>2, <3>6, <3>7
  <2>4. \A k \in 1 .. Len(s) : j[k] = j[k - 1] \o s[k]
    <3> TAKE k \in 1 .. Len(s)
    <3>1. k = 1 => j[k] = s[k] /\ j[k - 1] = <<>>
      BY <1>1, <2>2
    <3>2. k # 1 => k - 1 \in 1 .. Len(s) /\ j[k] = f[k] /\ j[k - 1] = f[k - 1]
      BY <1>1
    <3>3. s[k] = <<>> \o s[k]
      BY <1>1, ConcatEmptySeq
    <3> QED
      BY <2>2, <3>1, <3>2, <3>3
  <2>5. Sums(s, S, j)
    <3>1. j[0] = <<>>
      BY <1>1
    <3>2. \A k \in 0 .. Len(s) : j[k] \in Seq(S)
      BY <2>3
    <3> HIDE DEF j
    <3> QED
      BY <2>4, <3>1, <3>2 DEF Sums, Cat
  <2>6. FlattenSeq(s) = j[Len(s)]
    BY <1>1, <1>3, <2>1
  <2> QED
    BY <2>5, <2>6
<1> QED
  BY <1>2, <1>3

\* sequences that agree up to n
Agree(S, s, t, i, j, n) ==
    /\ n \in Nat /\ Len(s) \in Nat /\ Len(t) \in Nat /\ n <= Len(s) /\ n <= Len(t)
    /\ Sums(s, S, i) /\ Sums(t, S, j) /\ \A k \in 1 .. n : s[k] = t[k]

\* What is put together of the same sequences is the same.
LEMMA JoinedAgree ==
    ASSUME NEW S, NEW s, NEW t, NEW i, NEW j, NEW n, Agree(S, s, t, i, j, n)
    PROVE  i[n] = j[n]
<1> USE DEF Agree
<1> DEFINE Bad == {k \in 0 .. n : i[k] # j[k]}
<1> SUFFICES ASSUME Bad # {} PROVE FALSE
  OBVIOUS
<1>0. Bad \in SUBSET Nat
  OBVIOUS
<1> HIDE DEF Bad
<1>2. PICK b \in Bad : \A k \in Bad : b <= k
  BY <1>0, LeastExists
<1> USE DEF Bad
<1>3. b # 0
  BY <1>2 DEF Sums
<1>4. b - 1 \in 0 .. n /\ ~(b <= b - 1) /\ b \in 1 .. n /\ b \in 1 .. Len(s) /\ b \in 1 .. Len(t)
  BY <1>2, <1>3
<1>5. i[b - 1] = j[b - 1]
  BY <1>2, <1>4
<1> QED
  BY <1>2, <1>4, <1>5 DEF Sums

\* A buffer that is added to the queue comes after all the bytes that it holds.
LEMMA FlattenAppend ==
    ASSUME NEW S, NEW s \in Seq(Seq(S)), NEW c \in Seq(S)
    PROVE  /\ FlattenSeq(s) \in Seq(S)
           /\ FlattenSeq(Append(s, c)) = Cat(FlattenSeq(s), c)
<1>1. \E t, n : t = Append(s, c) /\ n = Len(s)
  OBVIOUS
<1>2. PICK t, n : t = Append(s, c) /\ n = Len(s)
  BY <1>1
<1>3. t \in Seq(Seq(S)) /\ Len(t) = n + 1 /\ t[n + 1] = c /\ n \in Nat
         /\ \A k \in 1 .. n : s[k] = t[k]
  BY <1>2, AppendProperties, LenProperties
<1>4. PICK i : Sums(s, S, i) /\ FlattenSeq(s) = i[n]
  BY <1>2, FlattenJoins
<1>5. PICK j : Sums(t, S, j) /\ FlattenSeq(t) = j[n + 1]
  BY <1>3, FlattenJoins
<1>6. i[n] = j[n]
  <2>1. Len(s) \in Nat /\ Len(t) \in Nat /\ n \in Nat /\ n <= Len(s) /\ n <= Len(t)
    BY <1>2, <1>3
  <2>2. Sums(s, S, i) /\ Sums(t, S, j) /\ \A k \in 1 .. n : s[k] = t[k]
    BY <1>3, <1>4, <1>5
  <2> QED
    <3>1. Agree(S, s, t, i, j, n)
      BY <2>1, <2>2 DEF Agree
    <3> QED
      BY <3>1, JoinedAgree
<1>7. j[n + 1] = Cat(j[n], t[n + 1]) /\ i[n] \in Seq(S)
  <2>1. n + 1 \in 1 .. Len(t) /\ n + 1 - 1 = n /\ n \in 0 .. Len(s)
    BY <1>2, <1>3
  <2> QED
    BY <1>4, <1>5, <2>1 DEF Sums
<1> QED
  BY <1>2, <1>3, <1>4, <1>5, <1>6, <1>7

\* t is s without its first sequence
Behead(S, s, t, i, j, n) ==
    /\ n \in Nat /\ Len(t) = n /\ Len(s) = n + 1
    /\ Sums(s, S, i) /\ Sums(t, S, j)
    /\ \A k \in 1 .. n + 1 : s[k] \in Seq(S)
    /\ \A k \in 1 .. n : t[k] = s[k + 1]

\* What is put together is the first sequence, and what the others give.
LEMMA JoinedTail ==
    ASSUME NEW S, NEW s, NEW t, NEW i, NEW j, NEW n, Behead(S, s, t, i, j, n)
    PROVE  i[n + 1] = Cat(s[1], j[n])
<1> USE DEF Behead
<1> SUFFICES ASSUME NEW m \in Nat, m <= n PROVE i[m + 1] = Cat(s[1], j[m])
  OBVIOUS
<1> DEFINE Bad == {k \in 0 .. n : i[k + 1] # Cat(s[1], j[k])}
<1>1. s[1] \in Seq(S) /\ 1 \in 1 .. Len(s) /\ 1 - 1 = 0
  OBVIOUS
<1>2. i[1] = Cat(s[1], j[0])
  <2>1. i[1] = Cat(i[0], s[1]) /\ i[0] = <<>> /\ j[0] = <<>>
    BY <1>1 DEF Sums
  <2> QED
    BY <1>1, <2>1, CatEmpty
<1> SUFFICES ASSUME Bad # {} PROVE FALSE
  OBVIOUS
<1>3. Bad \in SUBSET Nat
  OBVIOUS
<1> HIDE DEF Bad
<1>4. PICK k \in Bad : \A l \in Bad : k <= l
  BY <1>3, LeastExists
<1>5. k \in 0 .. n /\ i[k + 1] # Cat(s[1], j[k])
  BY <1>4 DEF Bad
<1>6. k # 0
  BY <1>2, <1>5
<1>7. k - 1 \in 0 .. n /\ ~(k <= k - 1) /\ k \in 1 .. n /\ k \in 1 .. Len(s) /\ k + 1 \in 1 .. Len(s)
        /\ k - 1 + 1 = k /\ k + 1 - 1 = k
  BY <1>5, <1>6
<1>8. i[k] = Cat(s[1], j[k - 1])
  BY <1>4, <1>7 DEF Bad
<1>9. i[k + 1] = Cat(i[k], s[k + 1])
  BY <1>7 DEF Sums
<1>10. j[k] = Cat(j[k - 1], t[k]) /\ j[k - 1] \in Seq(S)
  BY <1>7 DEF Sums
<1>11. s[k + 1] = t[k] /\ t[k] \in Seq(S)
  BY <1>7
<1>12. Cat(Cat(s[1], j[k - 1]), t[k]) = Cat(s[1], Cat(j[k - 1], t[k]))
  BY <1>1, <1>10, <1>11, CatAssociative
<1> QED
  BY <1>5, <1>8, <1>9, <1>10, <1>11, <1>12

\* The first buffer of the queue holds the bytes that come first.
LEMMA FlattenHead ==
    ASSUME NEW S, NEW s \in Seq(Seq(S)), s # <<>>
    PROVE  /\ FlattenSeq(s) = Cat(Head(s), FlattenSeq(Tail(s)))
           /\ Head(s) \in Seq(S) /\ Tail(s) \in Seq(Seq(S))
<1>1. \E t, n : t = Tail(s) /\ n = Len(s) - 1
  OBVIOUS
<1>2. PICK t, n : t = Tail(s) /\ n = Len(s) - 1
  BY <1>1
<1>3. t \in Seq(Seq(S)) /\ Len(t) = n /\ Head(s) = s[1] /\ n \in Nat /\ Len(s) = n + 1
         /\ \A k \in 1 .. n : t[k] = s[k + 1]
  BY <1>2, HeadTailProperties, EmptySeq, LenProperties
<1>4. PICK i : Sums(s, S, i) /\ FlattenSeq(s) = i[n + 1]
  BY <1>3, FlattenJoins
<1>5. PICK j : Sums(t, S, j) /\ FlattenSeq(t) = j[n]
  BY <1>3, FlattenJoins
<1>8. \A k \in 1 .. n + 1 : s[k] \in Seq(S)
  BY <1>3, ElementOfSeq
<1>6. n <= n /\ 1 \in 1 .. n + 1
  BY <1>3
<1>7. i[n + 1] = Cat(s[1], j[n])
  <2>1. Behead(S, s, t, i, j, n)
    BY <1>3, <1>4, <1>5, <1>8 DEF Behead
  <2> QED
    BY <2>1, JoinedTail
<1> QED
  BY <1>2, <1>3, <1>4, <1>5, <1>6, <1>7, <1>8

(***************************************************************************)
(* The invariant: types, and which thread may hold bytes.                  *)
(***************************************************************************)
RxStates == {"off", "wait", "read", "push"}
DecStates == {"off", "reset", "check", "wait", "decode", "listen"}
CodecStates == {"sync1", "sync2", "size", "type", "payload"}
Heard == [type : Nat, data : Seq(Nat)]
CodecType == [st : CodecStates, loop : BOOLEAN, pos : Nat, len : Nat, type : Nat, data : Seq(Nat)]
PortType == [kind : {"serial", "tcp", "udp"}, open : BOOLEAN, plugged : BOOLEAN, disposed : BOOLEAN]
RxType == [pc : RxStates, hint : Nat, chunk : Seq(ByteValues)]
DecType == [pc : DecStates, rest : Seq(ByteValues), msg : Heard]
Types ==
    /\ script \in Seq(ByteValues) /\ wire \in Seq(ByteValues) /\ queue \in Seq(Seq(ByteValues))
    /\ port \in PortType
    /\ connected \in BOOLEAN /\ working \in BOOLEAN /\ cut \in BOOLEAN
    /\ closing \in {"no", "disconnect", "negotiate", "crashed"}
    /\ rx \in RxType /\ dec \in DecType /\ codec \in CodecType
    /\ heard \in Seq(Heard)
\* A thread that has ended or waits holds no bytes, and where no call waits for the
\* threads and the driver does not work, there are none.
Waits == closing \in {"disconnect", "negotiate"}
Holds ==
    /\ rx.pc # "push" => rx.chunk = <<>>
    /\ dec.pc \notin {"decode", "listen"} => dec.rest = <<>>
    /\ ~working /\ ~Waits => Joined
    /\ ~connected => ~working /\ ~Waits
    /\ Waits => ~working
LinkInv == Types /\ Holds

\* A script of packets is sent as numbers.
LEMMA SentType ==
    ASSUME NEW ps \in Seq(Packets)
    PROVE  Sent(ps) \in Seq(Nat)
<1>1. \A p \in Packets : Framed(p) \in Seq(Nat)
  <2> SUFFICES ASSUME NEW p \in Packets PROVE Framed(p) \in Seq(Nat)
    OBVIOUS
  <2>1. [i \in 1 .. SizeLen - 1 |-> 0] \in Seq(Nat)
    BY SizeLenAssumption
  <2>2. p.len \in Nat /\ p.type \in Nat /\ p.data \in Seq(Nat)
    BY DEF Packets
  <2>3. <<p.len + (IF p.loop THEN LoopFlag ELSE 0)>> \in Seq(Nat)
    BY <2>2 DEF LoopFlag
  <2>4. SizeField(p) \in Seq(Nat)
    BY <2>1, <2>3, ConcatProperties DEF SizeField
  <2>5. <<Sync1, Sync2>> \in Seq(Nat) /\ <<p.type>> \in Seq(Nat)
    BY <2>2 DEF Sync1, Sync2
  <2>6. <<Sync1, Sync2>> \o SizeField(p) \in Seq(Nat)
    BY <2>4, <2>5, ConcatProperties
  <2>7. <<Sync1, Sync2>> \o SizeField(p) \o <<p.type>> \in Seq(Nat)
    BY <2>5, <2>6, ConcatProperties
  <2> QED
    BY <2>2, <2>7, ConcatProperties DEF Framed
<1>2. [i \in DOMAIN ps |-> Framed(ps[i])] \in Seq(Seq(Nat))
  <2>1. DOMAIN ps = 1 .. Len(ps) /\ Len(ps) \in Nat /\ \A i \in 1 .. Len(ps) : ps[i] \in Packets
    BY LenProperties, ElementOfSeq
  <2> QED
    BY <1>1, <2>1
<1> QED
  BY <1>2, FlattenAppend DEF Sent

\* The bytes of a script of the device are among the byte values.
LEMMA ScriptBytes ==
    ASSUME NEW ps \in Scripts
    PROVE  Sent(ps) \in Seq(ByteValues) /\ Sent(ps) \in Seq(Nat)
<1>1. ps \in Seq(Packets)
  BY LinksAssumption DEF Scripts
<1>2. Sent(ps) \in Seq(Nat)
  BY <1>1, SentType
<1>3. \A i \in 1 .. Len(Sent(ps)) : Sent(ps)[i] \in ByteValues
  BY <1>2, LenProperties DEF ByteValues, ToSet
<1> QED
  BY <1>2, <1>3, LenProperties

\* The byte values are numbers.
LEMMA BytesAreNumbers == ByteValues \in SUBSET Nat
<1> SUFFICES ASSUME NEW ps \in Scripts, NEW b \in ToSet(Sent(ps)) PROVE b \in Nat
  BY DEF ByteValues
<1> QED
  BY ScriptBytes, LenProperties, ElementOfSeq DEF ToSet

\* The codec stays within its type, whatever the byte.
LEMMA DecodeType ==
    ASSUME NEW c \in CodecType, NEW byte \in Nat
    PROVE  DecodeByte(c, byte) \in CodecType
<1>1. c.data \in Seq(Nat) /\ Append(c.data, byte) \in Seq(Nat) /\ <<>> \in Seq(Nat)
  BY DEF CodecType
<1>2. c.st = "payload" => Payload(c, byte) \in CodecType
  <2> DEFINE u == Append(c.data, byte)
  <2>1. u \in Seq(Nat)
    BY <1>1
  <2> HIDE DEF u
  <2>2. [c EXCEPT !.pos = c.pos + 1, !.data = u] \in CodecType
    <3>1. c.pos + 1 \in Nat
      BY DEF CodecType
    <3>2. \A n \in Nat : [c EXCEPT !.pos = n, !.data = u] \in CodecType
      BY <2>1 DEF CodecType
    <3> QED
      BY <3>1, <3>2
  <2>3. [c EXCEPT !.pos = 0, !.data = u] \in CodecType
    BY <2>1 DEF CodecType
  <2>4. [c EXCEPT !.st = "sync1", !.data = u] \in CodecType
    BY <2>1 DEF CodecType, CodecStates
  <2> QED
    BY <2>2, <2>3, <2>4 DEF Payload, u
<1>3. c.st = "type" => TypeByte(c, byte) \in CodecType
  BY <1>1 DEF TypeByte, CodecType, CodecStates
<1>4. byte % LoopFlag \in Nat
  BY DEF LoopFlag
<1>5. c.st = "size" => SizeByte(c, byte) \in CodecType
  <2> DEFINE b == byte % LoopFlag
             f == (byte \div LoopFlag = 1)
  <2>1. b \in Nat /\ f \in BOOLEAN
    BY <1>4
  <2> HIDE DEF b, f
  <2>2. [c EXCEPT !.len = b, !.loop = f] \in CodecType
    BY <2>1 DEF CodecType
  <2>3. ASSUME NEW d \in CodecType
        PROVE  (IF c.pos + 1 = SizeLen THEN [d EXCEPT !.st = "type", !.pos = 0, !.data = <<>>]
                ELSE [d EXCEPT !.pos = @ + 1]) \in CodecType
    <3>1. [d EXCEPT !.pos = d.pos + 1] \in CodecType
      <4>1. d.pos + 1 \in Nat
        BY DEF CodecType
      <4>2. \A n \in Nat : [d EXCEPT !.pos = n] \in CodecType
        BY DEF CodecType
      <4> QED
        BY <4>1, <4>2
    <3>2. <<>> \in Seq(Nat)
      BY <1>1
    <3>3. [d EXCEPT !.st = "type", !.pos = 0, !.data = <<>>] \in CodecType
      BY <3>2 DEF CodecType, CodecStates
    <3> QED
      BY <3>1, <3>3
  <2> QED
    BY <2>2, <2>3 DEF SizeByte, b, f
<1>6. c.st \in {"sync1", "sync2"} => DecodeByte(c, byte) \in CodecType
  BY <1>1 DEF DecodeByte, CodecType, CodecStates
<1>7. c.st \in CodecStates
  BY DEF CodecType
<1>8. c.st = "payload" => DecodeByte(c, byte) = Payload(c, byte)
  BY DEF DecodeByte
<1>9. c.st = "type" => DecodeByte(c, byte) = TypeByte(c, byte)
  BY DEF DecodeByte
<1>10. c.st = "size" => DecodeByte(c, byte) = SizeByte(c, byte)
  BY DEF DecodeByte
<1> QED
  BY <1>2, <1>3, <1>5, <1>6, <1>7, <1>8, <1>9, <1>10 DEF CodecStates

\* The invariant holds initially: nothing is sent, and no thread runs.
LEMMA InitLink == Init => LinkInv
<1> SUFFICES ASSUME Init PROVE LinkInv
  OBVIOUS
<1>1. PICK link \in Links :
        /\ packets = link.script
        /\ port = [kind |-> link.kind, open |-> FALSE, plugged |-> TRUE, disposed |-> FALSE]
  BY DEF Init
<1>2. packets \in Scripts /\ link.kind \in {"serial", "tcp", "udp"}
  BY <1>1, LinksAssumption DEF Scripts
<1>3. script \in Seq(ByteValues)
  BY <1>2, ScriptBytes DEF Init
<1>4. <<>> \in Seq(ByteValues) /\ <<>> \in Seq(Seq(ByteValues)) /\ <<>> \in Seq(Heard) /\ <<>> \in Seq(Nat)
  BY EmptySeq
<1>5. Torn \in Heard /\ CodecReset \in CodecType
  BY <1>4 DEF Torn, Heard, CodecReset, CodecType, CodecStates
<1>6. Types
  BY <1>1, <1>2, <1>3, <1>4, <1>5 DEF Types, Init, RxType, DecType, PortType, RxStates, DecStates
<1>7. Holds
  <2>1. rx = [pc |-> "off", hint |-> 0, chunk |-> <<>>] /\ dec = [pc |-> "off", rest |-> <<>>, msg |-> Torn]
          /\ connected = FALSE /\ closing = "no" /\ working = FALSE
    BY DEF Init
  <2>2. rx.pc = "off" /\ rx.chunk = <<>> /\ dec.pc = "off" /\ dec.rest = <<>>
    BY <2>1
  <2>3. ~Waits /\ Joined
    BY <2>1, <2>2 DEF Joined, Waits
  <2> QED
    BY <2>1, <2>2, <2>3 DEF Holds
<1> QED
  BY <1>6, <1>7 DEF LinkInv

\* Head and tail of a sequence over a set are of it.
LEMMA TailType == \A S : \A s \in Seq(S) : s # <<>> => Tail(s) \in Seq(S) /\ Head(s) \in S
  BY HeadTailProperties

\* A sequence over a set that grows by an element of it is one.
LEMMA AppendType == \A S : \A s \in Seq(S), e \in S : Append(s, e) \in Seq(S)
  BY AppendProperties

\* So is a part of a sequence.
LEMMA SubSeqType ==
    ASSUME NEW S, NEW s \in Seq(S), NEW m \in Nat \ {0}, NEW n \in Nat, n <= Len(s)
    PROVE  SubSeq(s, m, n) \in Seq(S)
<1>1. \A i \in m .. n : s[i] \in S
  BY ElementOfSeq, LenProperties
<1> QED
  BY <1>1, SubSeqProperties

\* What a receive takes and what it leaves are together what the port held.
LEMMA ReceivedIs ==
    ASSUME Types, NEW got \in ReadResults(rx.hint)
    PROVE  /\ got \in Seq(ByteValues)
           /\ SubSeq(wire, Len(got) + 1, Len(wire)) \in Seq(ByteValues)
           /\ Cat(got, SubSeq(wire, Len(got) + 1, Len(wire))) = wire
<1>1. wire \in Seq(ByteValues) /\ Len(wire) \in Nat /\ rx.hint \in Nat
  BY LenProperties DEF Types, RxType
<1>2. \E n \in 0 .. Len(wire) : got = SubSeq(wire, 1, n)
  <2>1. \E n \in 0 .. Len(wire) : Received(rx.hint) = SubSeq(wire, 1, n)
    BY <1>1 DEF Received, Datagram, Taken
  <2>2. <<>> = SubSeq(wire, 1, 0) /\ 0 \in 0 .. Len(wire)
    BY <1>1
  <2> QED BY <2>1, <2>2 DEF ReadResults
<1>3. PICK n \in 0 .. Len(wire) : got = SubSeq(wire, 1, n)
  BY <1>2
<1>4. Len(SubSeq(wire, 1, n)) = n /\ SubSeq(wire, 1, n) \in Seq(ByteValues)
        /\ SubSeq(wire, n + 1, Len(wire)) \in Seq(ByteValues)
  BY <1>1
<1>5. SubSeq(wire, 1, n) \o SubSeq(wire, n + 1, Len(wire)) = SubSeq(wire, 1, Len(wire))
  <2>1. 1 \in 1 .. Len(wire) + 1 /\ n \in 1 - 1 .. Len(wire) /\ Len(wire) \in n .. Len(wire)
    BY <1>1
  <2> QED
    BY <1>1, <2>1, ConcatAdjacentSubSeq
<1>6. SubSeq(wire, 1, Len(wire)) = wire
  BY <1>1
<1> QED
  BY <1>3, <1>4, <1>5, <1>6 DEF Cat

(***************************************************************************)
(* What the steps do to the pipe.                                          *)
(***************************************************************************)
\* the bytes that were received
Ahead == Cat(Cat(dec.rest, FlattenSeq(queue)), rx.chunk)

\* The bytes on their way are those that were received, and then those of the port.
LEMMA PipeIs ==
    /\ Pipe = Cat(Ahead, wire)
    /\ Types => /\ dec.rest \in Seq(ByteValues) /\ FlattenSeq(queue) \in Seq(ByteValues)
                /\ rx.chunk \in Seq(ByteValues) /\ wire \in Seq(ByteValues)
                /\ Ahead \in Seq(ByteValues) /\ Pipe \in Seq(ByteValues)
<1>1. Pipe = Cat(Ahead, wire)
  BY DEF Pipe, Ahead, Cat
<1>2. ASSUME Types
      PROVE  /\ dec.rest \in Seq(ByteValues) /\ rx.chunk \in Seq(ByteValues)
             /\ wire \in Seq(ByteValues) /\ queue \in Seq(Seq(ByteValues))
  BY <1>2 DEF Types, DecType, RxType
<1>3. ASSUME Types PROVE FlattenSeq(queue) \in Seq(ByteValues)
  <2>1. <<>> \in Seq(ByteValues)
    BY EmptySeq
  <2> QED
    BY <1>2, <1>3, <2>1, FlattenAppend
<1>4. ASSUME Types PROVE Ahead \in Seq(ByteValues)
  <2>1. Cat(dec.rest, FlattenSeq(queue)) \in Seq(ByteValues)
    BY <1>2, <1>3, <1>4, CatType
  <2> QED
    BY <1>2, <1>4, <2>1, CatType DEF Ahead
<1>5. ASSUME Types PROVE Pipe \in Seq(ByteValues)
  BY <1>1, <1>2, <1>4, <1>5, CatType
<1> QED
  BY <1>1, <1>2, <1>3, <1>4, <1>5

\* A sequence is a beginning of its concatenation with another one.
LEMMA LosesEnd ==
    ASSUME NEW S, NEW x \in Seq(S), NEW d \in Seq(S)
    PROVE  \E n \in 0 .. Len(Cat(x, d)) : x = SubSeq(Cat(x, d), 1, n)
<1>1. Len(x \o d) = Len(x) + Len(d) /\ Len(x) \in Nat /\ Len(d) \in Nat
        /\ x \o d \in Seq(S) /\ \A i \in 1 .. Len(x) : (x \o d)[i] = x[i]
  BY ConcatProperties, LenProperties
<1>2. \A i \in 1 .. Len(x) : (x \o d)[i] \in S
  BY <1>1, ElementOfSeq
<1>3. SubSeq(x \o d, 1, Len(x)) \in Seq(S) /\ Len(SubSeq(x \o d, 1, Len(x))) = Len(x)
        /\ \A i \in 1 .. Len(x) : SubSeq(x \o d, 1, Len(x))[i] = (x \o d)[i]
  BY <1>1, <1>2, SubSeqProperties
<1>4. SubSeq(x \o d, 1, Len(x)) = x
  BY <1>1, <1>3, SeqEqual
<1>5. Len(x) \in 0 .. Len(x \o d)
  BY <1>1
<1> QED
  BY <1>4, <1>5 DEF Cat

\* A port that is flushed or closed loses the bytes that came last.
LEMMA WireIsLost ==
    ASSUME Types, Ahead' = Ahead, wire' = <<>>
    PROVE  Stream!Lose
<1>1. Ahead \in Seq(ByteValues) /\ wire \in Seq(ByteValues) /\ Pipe = Cat(Ahead, wire)
  BY PipeIs
<1>2. Pipe' = Cat(Ahead', wire')
  BY DEF Pipe, Ahead, Cat
<1>3. Pipe' = Ahead
  BY <1>1, <1>2, CatEmpty
<1>4. \E n \in 0 .. Len(Cat(Ahead, wire)) : Ahead = SubSeq(Cat(Ahead, wire), 1, n)
  BY <1>1, LosesEnd
<1> QED
  BY <1>1, <1>3, <1>4 DEF Stream!Lose

\* A pipe that is empty has lost all its bytes, which is a loss of its end.
LEMMA AllIsLost ==
    ASSUME Types, Pipe' = <<>>
    PROVE  Stream!Lose
<1>1. Pipe \in Seq(ByteValues) /\ Len(Pipe) \in Nat
  BY PipeIs, LenProperties
<1>2. SubSeq(Pipe, 1, 0) = <<>> /\ 0 \in 0 .. Len(Pipe)
  BY <1>1
<1> QED
  BY <1>2 DEF Stream!Lose

\* Where buffers and queue stay, the bytes that were received do.
LEMMA Kept ==
    ASSUME dec'.rest = dec.rest, queue' = queue, rx'.chunk = rx.chunk
    PROVE  Ahead' = Ahead /\ (wire' = wire => Pipe' = Pipe)
<1>1. Ahead' = Ahead
  BY DEF Ahead
<1>2. Pipe' = Cat(Ahead', wire')
  BY DEF Pipe, Ahead, Cat
<1> QED
  BY <1>1, <1>2, PipeIs

\* the bytes that are not decoded yet
Left == Cat(Pipe, script)
\* without a loss, they stay in line until they are decoded
InLine == ~cut' => ~cut /\ (Left' = Left \/ DecByte)
\* what every step has to show
StepOK == Types' /\ Holds' /\ [Stream!Next]_Pipe /\ InLine

\* A step that moves no byte leaves them in line.
LEMMA StaysInLine ==
    ASSUME Pipe' = Pipe, script' = script, ~cut' => ~cut
    PROVE  InLine
BY DEF InLine, Left

\* A port that is opened has been flushed, whether that succeeds or not.
LEMMA OpenedIs ==
    ASSUME Types, NEW ok \in BOOLEAN, Opened(ok)
    PROVE  /\ port' \in PortType
           /\ wire' = <<>>
BY DEF Types, PortType, Opened, Flushed

\* openChannelAndBind starts its threads with nothing in their hands.
LEMMA BindsType ==
    ASSUME Types, Binds
    PROVE  /\ port' \in PortType
           /\ wire' = <<>> /\ working' \in BOOLEAN /\ cut' \in BOOLEAN
           /\ rx' \in RxType
           /\ dec' \in DecType
           /\ rx'.chunk = rx.chunk /\ dec'.rest = dec.rest
           /\ rx'.pc # "push" /\ dec'.pc \notin {"decode", "listen"}
           /\ ~working' => Joined'
<1>1. PICK ok \in BOOLEAN :
        /\ Opened(ok) /\ working' = ok
        /\ signal' = IF ok THEN FALSE ELSE signal
        /\ rx' = [rx EXCEPT !.pc = IF ok THEN "wait" ELSE "off"]
        /\ dec' = [dec EXCEPT !.pc = IF ok THEN "reset" ELSE "off"]
        /\ cut' = (cut \/ wire # <<>> \/ queue # <<>>)
  BY DEF Binds
<1>2. rx' \in RxType /\ rx'.chunk = rx.chunk
        /\ rx'.pc # "push" /\ (~ok => rx'.pc = "off")
  BY <1>1 DEF Types, RxType, RxStates
<1>3. dec' \in DecType /\ dec'.rest = dec.rest
        /\ dec'.pc \notin {"decode", "listen"} /\ (~ok => dec'.pc = "off")
  BY <1>1 DEF Types, DecType, DecStates
<1>4. cut' \in BOOLEAN
  BY <1>1
<1> QED
  BY <1>1, <1>2, <1>3, <1>4, OpenedIs DEF Joined

\* connect keeps the invariant: the bytes that it flushes are the last ones.
LEMMA ConnectOK == ASSUME LinkInv, Connect PROVE StepOK
<1> USE DEF LinkInv
<1>1. Binds /\ connected' = TRUE /\ UNCHANGED <<script, closing, queue, codec, heard>> /\ ~connected
  BY DEF Connect, BindSucceeds
<1>2. Joined
  BY <1>1 DEF Holds
<1>3. rx.chunk = <<>> /\ dec.rest = <<>>
  BY <1>2 DEF Holds, Joined
<1>4. Types'
  <2>1. /\ port' \in PortType /\ working' \in BOOLEAN /\ cut' \in BOOLEAN
        /\ wire' = <<>> /\ rx' \in RxType /\ dec' \in DecType
    BY <1>1, BindsType
  <2>2. wire' \in Seq(ByteValues) /\ connected' \in BOOLEAN
    BY <1>1, <2>1, EmptySeq
  <2> QED
    BY <1>1, <2>1, <2>2 DEF Types
<1>5. Holds'
  BY <1>1, <1>3, BindsType DEF Holds, Waits
<1>6. Stream!Lose
  BY <1>1, BindsType, Kept, WireIsLost
<1>7. InLine
  <2>1. ~cut' => ~cut /\ wire = <<>>
    BY <1>1 DEF Binds
  <2>2. wire = <<>> => Pipe' = Pipe
    BY <1>1, BindsType, Kept
  <2> QED
    BY <1>1, <2>1, <2>2, StaysInLine DEF InLine
<1> QED
  BY <1>4, <1>5, <1>6, <1>7 DEF StepOK, Stream!Next

\* Where no thread and no queue holds a byte, and the port none, there is none.
LEMMA NothingThere ==
    ASSUME rx.chunk = <<>>, dec.rest = <<>>, wire = <<>>, queue = <<>>
    PROVE  Pipe = <<>>
<1>1. FlattenSeq(<<>>) = <<>>
  BY FlattenIs, EmptySeq
<1> QED
  BY <1>1 DEF Pipe

\* The end of negotiateSerialBaudRate keeps the invariant: it discards every byte.
LEMMA NegotiateEndsOK == ASSUME LinkInv, NegotiateEnds PROVE StepOK
<1> USE DEF LinkInv
<1>1. Binds /\ Joined /\ queue' = <<>> /\ closing' = "no" /\ closing = "negotiate"
        /\ UNCHANGED <<script, connected, codec, heard>>
  BY DEF NegotiateEnds
<1>2. rx.chunk = <<>> /\ dec.rest = <<>>
  BY <1>1 DEF Holds, Joined
<1>3. Types'
  BY <1>1, BindsType, EmptySeq DEF Types
<1>4. Holds'
  BY <1>1, <1>2, BindsType DEF Holds, Waits
<1>5. Pipe' = <<>>
  <2>1. FlattenSeq(queue') = <<>>
    BY <1>1, FlattenIs, EmptySeq
  <2> QED
    BY <1>1, <1>2, <2>1, BindsType DEF Pipe
<1>6. InLine
  <2>1. ~cut' => ~cut /\ wire = <<>> /\ queue = <<>>
    BY <1>1 DEF Binds
  <2>2. wire = <<>> /\ queue = <<>> => Pipe = <<>>
    BY <1>2, NothingThere
  <2> QED
    BY <1>1, <1>5, <2>1, <2>2, StaysInLine DEF InLine
<1> QED
  BY <1>3, <1>4, <1>5, <1>6, AllIsLost DEF StepOK, Stream!Next

\* So does a step that neither touches the bytes nor ends a thread.
LEMMA StillOK ==
    ASSUME LinkInv, Types', Holds', dec'.rest = dec.rest,
           UNCHANGED <<queue, wire, script>>, rx'.chunk = rx.chunk, ~cut' => ~cut
    PROVE  StepOK
BY Kept, StaysInLine DEF StepOK

\* So does every step of the caller's thread.
LEMMA CallerOK == ASSUME LinkInv, Caller PROVE StepOK
<1> USE DEF LinkInv
<1>1. ASSUME ConnectDisposed PROVE StepOK
  <2>1. /\ closing' = "crashed" /\ UNCHANGED <<connected, working, device, threads, codec, heard, cut>>
        /\ ~connected
    BY <1>1 DEF ConnectDisposed
  <2>2. Types'
    BY <2>1 DEF Types, device, threads
  <2>3. Holds'
    BY <2>1 DEF Holds, Waits, Joined, threads
  <2> QED
    BY <2>1, <2>2, <2>3, StillOK DEF device, threads
<1>2. ASSUME NEW why \in {"disconnect", "negotiate"}, Begins(why) PROVE StepOK
  <2>1. /\ closing' = why /\ working' = FALSE /\ connected
        /\ UNCHANGED <<connected, device, queue, rx, dec, codec, heard, cut>>
    BY <1>2 DEF Begins
  <2>2. Types'
    BY <2>1 DEF Types, device
  <2>3. Holds'
    BY <2>1 DEF Holds, Waits, Joined
  <2> QED
    BY <2>1, <2>2, <2>3, StillOK DEF device
<1>3. ASSUME DisconnectUnopened PROVE StepOK
  <2>1. /\ ~working /\ closing = "no" /\ connected' = FALSE
        /\ UNCHANGED <<closing, working, device, threads, codec, heard, cut>>
    BY <1>3 DEF DisconnectUnopened
  <2>2. Types'
    BY <2>1 DEF Types, device, threads
  <2>3. Holds'
    BY <2>1 DEF Holds, Waits, Joined, threads
  <2> QED
    BY <2>1, <2>2, <2>3, StillOK DEF device, threads
<1>4. ASSUME DisconnectEnds PROVE StepOK
  <2>1. /\ Joined /\ closing = "disconnect" /\ closing' = "no" /\ connected' = FALSE /\ Closed
        /\ queue' = <<>> /\ UNCHANGED <<script, working, rx, dec, codec, heard>>
        /\ cut' = (cut \/ wire # <<>> \/ queue # <<>>)
    BY <1>4 DEF DisconnectEnds
  <2>2. wire' = <<>> /\ port' \in PortType
    BY <2>1 DEF Closed, Types, PortType, IsSerial
  <2>3. Types'
    BY <2>1, <2>2, EmptySeq DEF Types
  <2>4. rx.chunk = <<>> /\ dec.rest = <<>>
    BY <2>1 DEF Holds, Joined
  <2>5. Holds'
    BY <2>1, <2>4 DEF Holds, Waits, Joined
  <2>6. Pipe' = <<>>
    <3>1. FlattenSeq(queue') = <<>>
      BY <2>1, FlattenIs, EmptySeq
    <3> QED
      BY <2>1, <2>2, <2>4, <3>1 DEF Pipe
  <2>7. InLine
    <3>1. ~cut' => ~cut /\ wire = <<>> /\ queue = <<>>
      BY <2>1
    <3>2. wire = <<>> /\ queue = <<>> => Pipe = <<>>
      BY <2>4, NothingThere
    <3> QED
      BY <2>1, <2>6, <3>1, <3>2, StaysInLine DEF InLine
  <2> QED
    BY <2>3, <2>5, <2>6, <2>7, AllIsLost DEF StepOK, Stream!Next
<1>5. ASSUME ExitLoopMode PROVE StepOK
  <2>1. /\ connected /\ closing = "no" /\ codec' = CodecReset
        /\ dec' \in {dec, [dec EXCEPT !.msg = Torn]} /\ cut' = (cut \/ MidPacket)
        /\ UNCHANGED <<driver, device, queue, rx, heard>>
    BY <1>5 DEF ExitLoopMode
  <2>2. Torn \in Heard /\ CodecReset \in CodecType
    BY EmptySeq DEF Torn, Heard, CodecReset, CodecType, CodecStates
  <2>3. dec' \in DecType /\ dec'.pc = dec.pc /\ dec'.rest = dec.rest
    BY <2>1, <2>2 DEF Types, DecType
  <2>4. Types'
    BY <2>1, <2>2, <2>3 DEF Types, device, driver
  <2>5. Holds'
    BY <2>1, <2>3 DEF Holds, Waits, Joined, driver
  <2> QED
    BY <2>1, <2>3, <2>4, <2>5, StillOK DEF device
<1> QED
  BY <1>1, <1>2, <1>3, <1>4, <1>5, ConnectOK, NegotiateEndsOK DEF Caller, Disconnect, Negotiate

\* The codec finds a byte where the buffer is not empty.
LEMMA ListensType ==
    ASSUME Types, dec.pc = "decode", dec.rest # <<>>
    PROVE  /\ Tail(dec.rest) \in Seq(ByteValues) /\ Head(dec.rest) \in Nat
           /\ DecodeByte(codec, Head(dec.rest)) \in CodecType
<1>1. dec.rest \in Seq(ByteValues) /\ codec \in CodecType
  BY DEF Types, DecType
<1>2. Tail(dec.rest) \in Seq(ByteValues) /\ Head(dec.rest) \in ByteValues
  BY <1>1, TailType
<1>3. Head(dec.rest) \in Nat
  BY <1>2, BytesAreNumbers
<1> QED
  BY <1>1, <1>2, <1>3, DecodeType

\* A beginning of a concatenation can be taken off it.
LEMMA CatFive ==
    ASSUME NEW S, NEW b \in Seq(S), NEW x \in Seq(S), NEW q \in Seq(S), NEW r \in Seq(S),
           NEW w \in Seq(S)
    PROVE  Cat(Cat(Cat(Cat(b, x), q), r), w) = Cat(b, Cat(Cat(Cat(x, q), r), w))
<1>1. Cat(x, q) \in Seq(S)
  BY CatType
<1>2. Cat(Cat(x, q), r) \in Seq(S)
  BY <1>1, CatType
<1>3. Cat(Cat(b, x), q) = Cat(b, Cat(x, q))
  BY CatAssociative
<1>4. Cat(Cat(b, Cat(x, q)), r) = Cat(b, Cat(Cat(x, q), r))
  BY <1>1, CatAssociative
<1>5. Cat(Cat(b, Cat(Cat(x, q), r)), w) = Cat(b, Cat(Cat(Cat(x, q), r), w))
  BY <1>2, CatAssociative
<1> QED
  BY <1>3, <1>4, <1>5

\* onDecodeData takes the first byte of those that are on their way.
LEMMA DecByteOK == ASSUME LinkInv, DecByte PROVE StepOK
<1> USE DEF LinkInv
<1> DEFINE c == DecodeByte(codec, Head(dec.rest))
<1>1. /\ dec.pc = "decode" /\ dec.rest # <<>> /\ UNCHANGED <<decIdle, queue, signal, heard, cut>>
      /\ IF Completes(codec)
         THEN /\ codec' = Emptied(c)
              /\ dec' = [pc |-> "listen", rest |-> Tail(dec.rest), msg |-> [type |-> c.type, data |-> c.data]]
         ELSE codec' = c /\ dec' = [dec EXCEPT !.rest = Tail(dec.rest)]
  BY DEF DecByte
<1>2. c \in CodecType /\ Tail(dec.rest) \in Seq(ByteValues)
  BY <1>1, ListensType
<1> HIDE DEF c
<1>3. Emptied(c) \in CodecType /\ [type |-> c.type, data |-> c.data] \in Heard
  <2>1. <<>> \in Seq(Nat)
    BY EmptySeq
  <2> QED
    BY <1>2, <2>1 DEF Emptied, CodecType, Heard
<1>4. codec' \in CodecType
  BY <1>1, <1>2, <1>3
<1>5. dec' \in DecType /\ dec'.rest = Tail(dec.rest) /\ dec'.pc \in {"decode", "listen"}
  <2>1. Completes(codec) => dec' \in DecType /\ dec'.rest = Tail(dec.rest) /\ dec'.pc = "listen"
    BY <1>1, <1>2, <1>3 DEF DecType, DecStates
  <2>2. ~Completes(codec) => dec' \in DecType /\ dec'.rest = Tail(dec.rest) /\ dec'.pc = "decode"
    BY <1>1, <1>2 DEF Types, DecType, DecStates
  <2> QED
    BY <2>1, <2>2
<1>6. Types'
  BY <1>1, <1>4, <1>5 DEF Types, decIdle, driver, device
<1>7. Holds'
  BY <1>1, <1>5 DEF Holds, Waits, Joined, decIdle, driver
<1>8. Stream!Decode
  <2>1. dec.rest = Cat(<<Head(dec.rest)>>, Tail(dec.rest))
    BY <1>1 DEF Types, DecType, Cat
  <2> DEFINE b == <<Head(dec.rest)>>
             x == Tail(dec.rest)
             q == FlattenSeq(queue)
  <2>2. /\ x \in Seq(ByteValues) /\ b \in Seq(ByteValues) /\ q \in Seq(ByteValues)
        /\ rx.chunk \in Seq(ByteValues) /\ wire \in Seq(ByteValues)
    BY <1>1, <1>2, PipeIs, TailType DEF Types, DecType
  <2>3. Pipe' = Cat(Cat(Cat(x, q), rx.chunk), wire)
    BY <1>1, <1>5 DEF Pipe, Cat, decIdle, device
  <2>4. Pipe = Cat(Cat(Cat(Cat(b, x), q), rx.chunk), wire)
    BY <2>1 DEF Pipe, Cat
  <2> HIDE DEF b, x, q
  <2>5. Cat(Cat(Cat(Cat(b, x), q), rx.chunk), wire) = Cat(b, Cat(Cat(Cat(x, q), rx.chunk), wire))
    BY <2>2, CatFive
  <2>6. Pipe = Cat(b, Pipe')
    BY <2>3, <2>4, <2>5
  <2>7. Cat(Cat(Cat(x, q), rx.chunk), wire) \in Seq(ByteValues)
    BY <2>2, CatType
  <2>8. \A s \in Seq(ByteValues) : b \o s # <<>> /\ Tail(b \o s) = s
    BY DEF b
  <2> QED
    BY <2>3, <2>6, <2>7, <2>8 DEF Stream!Decode, Cat
<1>9. InLine
  BY <1>1 DEF InLine
<1> QED
  BY <1>6, <1>7, <1>8, <1>9 DEF StepOK, Stream!Next

\* The decoding thread takes the first buffer of the queue: no byte moves past another.
LEMMA TakesOK ==
    ASSUME LinkInv, dec.pc = "check", queue # <<>>, UNCHANGED <<decIdle, signal, codec, heard, cut>>,
           dec' = [dec EXCEPT !.pc = "decode", !.rest = Takes(queue).chunk],
           queue' = Takes(queue).rest, working
    PROVE  StepOK
<1> USE DEF LinkInv
<1>1. /\ dec.rest = <<>> /\ queue \in Seq(Seq(ByteValues)) /\ rx.chunk \in Seq(ByteValues)
      /\ wire \in Seq(ByteValues)
  BY PipeIs DEF Holds, Types
<1>2. Takes(queue).chunk = Head(queue) /\ Takes(queue).rest = Tail(queue)
  BY DEF Takes
<1>3. /\ Head(queue) \in Seq(ByteValues) /\ Tail(queue) \in Seq(Seq(ByteValues))
      /\ FlattenSeq(queue) = Cat(Head(queue), FlattenSeq(Tail(queue)))
  BY <1>1, FlattenHead
<1>4. dec' \in DecType /\ dec'.rest = Head(queue) /\ dec'.pc = "decode"
  BY <1>2, <1>3 DEF Types, DecType, DecStates
<1>5. Types'
  BY <1>2, <1>3, <1>4 DEF Types, decIdle, driver, device
<1>6. Holds'
  BY <1>4 DEF Holds, Waits, Joined, decIdle, driver
<1>7. Pipe' = Pipe
  <2>1. Pipe' = Cat(Cat(Cat(Head(queue), FlattenSeq(Tail(queue))), rx.chunk), wire)
    BY <1>2, <1>4 DEF Pipe, Cat, decIdle, device
  <2>2. FlattenSeq(queue) \in Seq(ByteValues)
    BY PipeIs
  <2>3. Cat(<<>>, FlattenSeq(queue)) = FlattenSeq(queue)
    BY <2>2, CatEmpty
  <2>4. Pipe = Cat(Cat(Cat(<<>>, FlattenSeq(queue)), rx.chunk), wire)
    BY <1>1 DEF Pipe, Cat
  <2> QED
    BY <2>1, <2>3, <2>4, <1>3
<1>8. InLine
  BY <1>7, StaysInLine DEF decIdle, device
<1> QED
  BY <1>5, <1>6, <1>7, <1>8 DEF StepOK

\* Every step of the decoding thread keeps the invariant.
LEMMA DecOK == ASSUME LinkInv, Dec PROVE StepOK
<1> USE DEF LinkInv
<1>1. ASSUME NEW pc \in DecStates \ {"decode", "listen"}, dec.pc # "decode",
             dec' = [dec EXCEPT !.pc = pc], UNCHANGED <<decIdle, queue, heard>>,
             codec' \in CodecType, cut' \in BOOLEAN, pc = "off" => ~working, ~cut' => ~cut,
             dec.pc # "listen", pc # "off" => dec.pc # "off"
      PROVE  StepOK
  <2>1. dec' \in DecType /\ dec'.rest = dec.rest /\ dec'.pc = pc
    BY <1>1 DEF Types, DecType
  <2>2. Types'
    BY <1>1, <2>1 DEF Types, decIdle, driver, device
  <2>3. Holds'
    BY <1>1, <2>1 DEF Holds, Waits, Joined, decIdle, driver
  <2> QED
    BY <1>1, <2>1, <2>2, <2>3, StillOK DEF decIdle, device
<1>2. ASSUME DecReset PROVE StepOK
  <2>1. CodecReset \in CodecType
    BY EmptySeq DEF CodecReset, CodecType, CodecStates
  <2> QED
    <3>1. ~cut' => ~cut
      BY <1>2 DEF DecReset
    <3>2. cut' \in BOOLEAN
      BY <1>2 DEF DecReset
    <3> QED
      BY <1>1, <1>2, <2>1, <3>1, <3>2 DEF DecReset, DecStates
<1>3. ASSUME DecCheck PROVE StepOK
  <2>1. CASE ~working
    BY <1>1, <1>3, <2>1 DEF DecCheck, DecStates, Types
  <2>2. CASE working /\ queue = <<>>
    BY <1>1, <1>3, <2>2 DEF DecCheck, DecStates, Types
  <2>3. CASE working /\ queue # <<>>
    BY <1>3, <2>3, TakesOK DEF DecCheck
  <2> QED
    BY <2>1, <2>2, <2>3
<1>4. ASSUME DecWait PROVE StepOK
  BY <1>1, <1>4 DEF DecWait, DecStates, Types
<1>5. ASSUME DecListen PROVE StepOK
  <2>1. /\ dec.pc = "listen" /\ heard' = Append(heard, dec.msg)
        /\ dec' = [dec EXCEPT !.pc = "decode", !.msg = Torn]
        /\ UNCHANGED <<decIdle, queue, codec, cut>>
    BY <1>5 DEF DecListen
  <2>2. Torn \in Heard
    BY EmptySeq DEF Torn, Heard
  <2>3. dec' \in DecType /\ dec'.rest = dec.rest /\ dec'.pc = "decode"
    BY <2>1, <2>2 DEF Types, DecType, DecStates
  <2>4. heard' \in Seq(Heard)
    <3>1. heard \in Seq(Heard) /\ dec.msg \in Heard
      BY DEF Types, DecType
    <3> QED
      BY <2>1, <3>1, AppendType
  <2>5. Types'
    BY <2>1, <2>3, <2>4 DEF Types, decIdle, driver, device
  <2>6. Holds'
    BY <2>1, <2>3 DEF Holds, Waits, Joined, decIdle, driver
  <2> QED
    BY <2>1, <2>3, <2>5, <2>6, StillOK DEF decIdle, device
<1>6. ASSUME DecDone PROVE StepOK
  <2>1. /\ dec.pc = "decode" /\ dec.rest = <<>> /\ dec' = [dec EXCEPT !.pc = "check"]
        /\ UNCHANGED <<decIdle, queue, codec, heard, cut>>
    BY <1>6 DEF DecDone
  <2>2. dec' \in DecType /\ dec'.rest = dec.rest /\ dec'.pc = "check"
    BY <2>1 DEF Types, DecType, DecStates
  <2>3. Types'
    BY <2>1, <2>2 DEF Types, decIdle, driver, device
  <2>4. Holds'
    BY <2>1, <2>2 DEF Holds, Waits, Joined, decIdle, driver
  <2> QED
    BY <2>1, <2>2, <2>3, <2>4, StillOK DEF decIdle, device
<1> QED
  BY <1>2, <1>3, <1>4, <1>5, <1>6, DecByteOK DEF Dec

\* The wait for the port returns one of its results, with a size.
LEMMA WaitHint ==
    ASSUME Types, NEW w \in WaitResults
    PROVE  w.size \in Nat /\ w.ret \in {"ok", "timeout", "error"}
<1>1. Len(wire) \in Nat
  BY LenProperties DEF Types
<1> QED
  BY <1>1, MaxPipeAssumption DEF WaitResults, SerialData, SocketData, Readable, TimesOut, Errs

\* Every step of the receiving thread keeps the invariant and the order of the bytes.
LEMMA RxOK == ASSUME LinkInv, Rx PROVE StepOK
<1> USE DEF LinkInv
<1>1. ASSUME RxStop PROVE StepOK
  <2>1. /\ rx.pc = "wait" /\ ~working /\ rx' = [rx EXCEPT !.pc = "off"]
        /\ UNCHANGED <<rxIdle, wire, queue>>
    BY <1>1 DEF RxStop, RxStops
  <2>2. rx' \in RxType /\ rx'.chunk = rx.chunk /\ rx'.pc = "off"
    BY <2>1 DEF Types, RxType, RxStates
  <2>3. Types'
    BY <2>1, <2>2 DEF Types, rxIdle, driver
  <2>4. Holds'
    BY <2>1, <2>2 DEF Holds, Waits, Joined, rxIdle, driver
  <2> QED
    BY <2>1, <2>2, <2>3, <2>4, StillOK DEF rxIdle
<1>2. ASSUME RxWait PROVE StepOK
  <2>1. PICK w \in WaitResults :
          rx' = CASE w.ret = "ok" -> [rx EXCEPT !.pc = "read", !.hint = w.size]
                  [] w.ret = "timeout" -> rx
                  [] w.ret = "error" -> [rx EXCEPT !.pc = "off"]
    BY <1>2 DEF RxWait
  <2>2. w.size \in Nat /\ w.ret \in {"ok", "timeout", "error"}
    BY WaitHint
  <2>3. rx.pc = "wait" /\ UNCHANGED <<rxIdle, wire, queue>>
    BY <1>2 DEF RxWait
  <2>4. rx' \in RxType /\ rx'.chunk = rx.chunk /\ rx'.pc # "push"
    BY <2>1, <2>2, <2>3 DEF Types, RxType, RxStates
  <2>5. Types'
    BY <2>3, <2>4 DEF Types, rxIdle, driver
  <2>6. Holds'
    BY <2>3, <2>4 DEF Holds, Waits, Joined, rxIdle, driver
  <2> QED
    BY <2>3, <2>4, <2>5, <2>6, StillOK DEF rxIdle
<1>3. ASSUME RxRead PROVE StepOK
  <2>0. PICK got \in ReadResults(rx.hint) :
        /\ rx' = IF got = <<>> THEN [rx EXCEPT !.pc = "off", !.hint = 0]
                 ELSE [pc |-> "push", hint |-> 0, chunk |-> got]
        /\ wire' = SubSeq(wire, Len(got) + 1, Len(wire))
    BY <1>3 DEF RxRead
  <2>1. /\ rx.pc = "read" /\ UNCHANGED <<rxIdle, queue>>
        /\ rx' = IF got = <<>> THEN [rx EXCEPT !.pc = "off", !.hint = 0]
                 ELSE [pc |-> "push", hint |-> 0, chunk |-> got]
        /\ wire' = SubSeq(wire, Len(got) + 1, Len(wire))
    BY <1>3, <2>0 DEF RxRead
  <2>2. got \in Seq(ByteValues) /\ wire' \in Seq(ByteValues) /\ Cat(got, wire') = wire
    BY <2>1, ReceivedIs
  <2>3. rx.chunk = <<>>
    BY <2>1 DEF Holds
  <2>4. rx' \in RxType /\ rx'.chunk = got /\ (rx'.pc = "push" \/ got = <<>>)
    <3>1. got = <<>> => rx' \in RxType /\ rx'.chunk = rx.chunk
      BY <2>1 DEF Types, RxType, RxStates
    <3>2. got # <<>> => rx' \in RxType /\ rx'.chunk = got /\ rx'.pc = "push"
      BY <2>1, <2>2 DEF RxType, RxStates
    <3> QED
      BY <2>3, <3>1, <3>2
  <2>5. Types'
    BY <2>1, <2>2, <2>4 DEF Types, rxIdle, driver
  <2>6. Holds'
    BY <2>1, <2>4 DEF Holds, Waits, Joined, rxIdle, driver
  <2>7. Pipe' = Pipe
    <3> DEFINE f == Cat(dec.rest, FlattenSeq(queue))
    <3>1. dec.rest \in Seq(ByteValues) /\ FlattenSeq(queue) \in Seq(ByteValues)
      BY PipeIs
    <3>2. f \in Seq(ByteValues)
      BY <3>1, CatType
    <3>3. Pipe = Cat(Cat(f, <<>>), wire)
      BY <2>3 DEF Pipe, Cat
    <3>4. Pipe' = Cat(Cat(f, got), wire')
      BY <2>1, <2>4 DEF Pipe, Cat, rxIdle
    <3> HIDE DEF f
    <3>5. Cat(f, <<>>) = f
      BY <3>2, CatEmpty
    <3>6. Cat(Cat(f, got), wire') = Cat(f, Cat(got, wire'))
      BY <2>2, <3>2, CatAssociative
    <3> QED
      BY <2>2, <3>3, <3>4, <3>5, <3>6
  <2>8. InLine
    BY <2>1, <2>7, StaysInLine DEF rxIdle
  <2> QED
    BY <2>5, <2>6, <2>7, <2>8 DEF StepOK
<1>4. ASSUME RxPush PROVE StepOK
  <2>1. /\ rx.pc = "push" /\ queue' = Append(queue, rx.chunk)
        /\ rx' = [pc |-> "wait", hint |-> 0, chunk |-> <<>>] /\ UNCHANGED <<rxIdle, wire>>
    BY <1>4 DEF RxPush
  <2>2. queue \in Seq(Seq(ByteValues)) /\ rx.chunk \in Seq(ByteValues)
    BY PipeIs DEF Types
  <2>3. queue' \in Seq(Seq(ByteValues))
    BY <2>1, <2>2, AppendType
  <2>4. rx' \in RxType /\ rx'.chunk = <<>> /\ rx'.pc = "wait"
    <3>1. <<>> \in Seq(ByteValues)
      BY EmptySeq
    <3> QED
      BY <2>1, <3>1 DEF RxType, RxStates
  <2>5. Types'
    BY <2>1, <2>3, <2>4 DEF Types, rxIdle, driver
  <2>6. Holds'
    BY <2>1, <2>4 DEF Holds, Waits, Joined, rxIdle, driver
  <2>7. Pipe' = Pipe
    <3> DEFINE q == FlattenSeq(queue)
    <3>1. dec.rest \in Seq(ByteValues) /\ q \in Seq(ByteValues)
      BY PipeIs
    <3>2. FlattenSeq(queue') = Cat(q, rx.chunk)
      BY <2>1, <2>2, FlattenAppend
    <3>3. Pipe = Cat(Cat(Cat(dec.rest, q), rx.chunk), wire)
      BY DEF Pipe, Cat
    <3>4. Pipe' = Cat(Cat(Cat(dec.rest, Cat(q, rx.chunk)), <<>>), wire)
      BY <2>1, <2>4, <3>2 DEF Pipe, Cat, rxIdle
    <3> HIDE DEF q
    <3>5. Cat(Cat(dec.rest, q), rx.chunk) = Cat(dec.rest, Cat(q, rx.chunk))
      BY <2>2, <3>1, CatAssociative
    <3>6. Cat(dec.rest, Cat(q, rx.chunk)) \in Seq(ByteValues)
      BY <2>2, <3>1, CatType
    <3>7. Cat(Cat(dec.rest, Cat(q, rx.chunk)), <<>>) = Cat(dec.rest, Cat(q, rx.chunk))
      BY <3>6, CatEmpty
    <3> QED
      BY <3>3, <3>4, <3>5, <3>7
  <2>8. InLine
    BY <2>1, <2>7, StaysInLine DEF rxIdle
  <2> QED
    BY <2>5, <2>6, <2>7, <2>8 DEF StepOK
<1> QED
  BY <1>1, <1>2, <1>3, <1>4 DEF Rx

\* A byte that moves from the script to the port stays in line.
LEMMA MovesOn ==
    ASSUME NEW S, NEW f \in Seq(S), NEW w \in Seq(S), NEW c \in Seq(S), c # <<>>
    PROVE  Cat(Cat(f, Append(w, Head(c))), Tail(c)) = Cat(Cat(f, w), c)
<1> DEFINE h == <<Head(c)>>
           t == Tail(c)
<1>1. Head(c) \in S /\ t \in Seq(S)
  BY TailType
<1>2. h \in Seq(S)
  BY <1>1
<1>3. Append(w, Head(c)) = Cat(w, h)
  BY <1>1, AppendIsConcat DEF Cat
<1>4. c = Cat(h, t)
  BY DEF Cat
<1> HIDE DEF h, t
<1>5. Cat(f, Cat(w, h)) = Cat(Cat(f, w), h)
  BY <1>2, CatAssociative
<1>6. Cat(f, w) \in Seq(S)
  BY CatType
<1>7. Cat(Cat(Cat(f, w), h), t) = Cat(Cat(f, w), Cat(h, t))
  BY <1>1, <1>2, <1>6, CatAssociative
<1> QED
  BY <1>3, <1>4, <1>5, <1>7 DEF t

\* A byte that the device sends comes after all those before it, unless it is lost.
LEMMA DeviceOK == ASSUME LinkInv, DeviceSends PROVE StepOK
<1> USE DEF LinkInv
<1>1. PICK arrives \in (IF port.kind = "udp" /\ port.open THEN BOOLEAN ELSE {port.open}) :
        /\ wire' = IF arrives THEN Append(wire, Head(script)) ELSE wire
        /\ cut' = (cut \/ ~arrives)
  BY DEF DeviceSends
<1>2. /\ script # <<>> /\ script' = Tail(script)
      /\ UNCHANGED <<port, driver, threads, codec, heard>>
  BY DEF DeviceSends
<1>3. script \in Seq(ByteValues) /\ wire \in Seq(ByteValues) /\ Ahead \in Seq(ByteValues)
        /\ Pipe = Cat(Ahead, wire)
  BY PipeIs DEF Types
<1>4. Head(script) \in ByteValues /\ script' \in Seq(ByteValues)
  BY <1>2, <1>3, TailType
<1>5. Append(wire, Head(script)) \in Seq(ByteValues)
  BY <1>3, <1>4, AppendType
<1>6. wire' \in Seq(ByteValues)
  BY <1>1, <1>3, <1>5
<1>7. Types'
  BY <1>1, <1>2, <1>4, <1>6 DEF Types, driver, threads
<1>8. Holds'
  BY <1>2 DEF Holds, Waits, Joined, driver, threads
<1>11. InLine
  <2>1. ASSUME ~cut' PROVE ~cut /\ Left' = Left
    <3>1. ~cut /\ wire' = Append(wire, Head(script))
      BY <1>1, <2>1
    <3>2. Ahead' = Ahead
      BY <1>2, Kept DEF threads
    <3>3. Pipe' = Cat(Ahead', wire')
      BY DEF Pipe, Ahead, Cat
    <3>4. Cat(Cat(Ahead, Append(wire, Head(script))), Tail(script)) = Cat(Cat(Ahead, wire), script)
      BY <1>2, <1>3, MovesOn
    <3> QED
      BY <1>2, <1>3, <3>1, <3>2, <3>3, <3>4 DEF Left
  <2> QED
    BY <2>1 DEF InLine
<1>9. CASE wire' = wire
  <2>1. Pipe' = Pipe
    BY <1>2, <1>9, Kept DEF threads
  <2> QED
    BY <1>7, <1>8, <1>11, <2>1 DEF StepOK
<1>10. CASE wire' = Append(wire, Head(script))
  <2>1. Ahead' = Ahead
    BY <1>2, Kept DEF threads
  <2>2. Pipe' = Cat(Ahead', wire')
    BY DEF Pipe, Ahead, Cat
  <2>3. \A f, w \in Seq(ByteValues), b \in ByteValues : f \o Append(w, b) = Append(f \o w, b)
    OBVIOUS
  <2>4. Pipe' = Append(Pipe, Head(script))
    BY <1>3, <1>4, <1>10, <2>1, <2>2, <2>3 DEF Cat
  <2> QED
    BY <1>4, <1>7, <1>8, <1>11, <2>4 DEF StepOK, Stream!Next, Stream!Send
<1> QED
  BY <1>1, <1>9, <1>10

\* A cable that is pulled loses at most the bytes of the port, which came last.
LEMMA UnplugOK == ASSUME LinkInv, Unplug PROVE StepOK
<1> USE DEF LinkInv
<1>1. /\ port' = [port EXCEPT !.plugged = FALSE]
      /\ wire' \in (IF IsSerial THEN {<<>>} ELSE {wire, <<>>})
      /\ cut' = (cut \/ wire' # wire)
      /\ UNCHANGED <<script, driver, threads, codec, heard>>
  BY DEF Unplug
<1>2. wire' = wire \/ wire' = <<>>
  BY <1>1
<1>3. wire' \in Seq(ByteValues)
  BY <1>2, EmptySeq DEF Types
<1>4. port' \in PortType
  BY <1>1 DEF Types, PortType
<1>5. Types'
  BY <1>1, <1>3, <1>4 DEF Types, driver, threads
<1>6. Holds'
  BY <1>1 DEF Holds, Waits, Joined, driver, threads
<1>9. Ahead' = Ahead /\ (wire' = wire => Pipe' = Pipe)
  BY <1>1, Kept DEF threads
<1>10. InLine
  BY <1>1, <1>9, StaysInLine DEF InLine
<1>7. CASE wire' = wire
  BY <1>5, <1>6, <1>7, <1>9, <1>10 DEF StepOK
<1>8. CASE wire' = <<>>
  BY <1>5, <1>6, <1>8, <1>9, <1>10, WireIsLost DEF StepOK, Stream!Next
<1> QED
  BY <1>2, <1>7, <1>8

\* Every step keeps the invariant, is a step of the byte stream, and leaves the bytes in
\* line where none is lost.
LEMMA StepsOK == LinkInv /\ [Next]_vars => LinkInv' /\ [Stream!Next]_Pipe /\ InLine
<1> SUFFICES ASSUME LinkInv, [Next]_vars PROVE StepOK
  BY DEF StepOK, LinkInv
<1>1. ASSUME UNCHANGED vars PROVE StepOK
  <2>1. UNCHANGED <<script, wire, port, connected, closing, working, queue, rx, dec, codec, heard, cut>>
    BY <1>1 DEF vars, driver, device, threads
  <2>2. Types'
    BY <2>1 DEF LinkInv, Types
  <2>3. Holds'
    BY <2>1 DEF LinkInv, Holds, Waits, Joined
  <2> QED
    BY <2>1, <2>2, <2>3, StillOK
<1> QED
  BY <1>1, CallerOK, RxOK, DecOK, DeviceOK, UnplugOK DEF Next

\* The transceiver implements the byte stream (ByteStream): between the port and the
\* codec, over the buffer that is received, the queue of buffers and the buffer that is
\* decoded, the bytes keep their order; none is decoded twice, and none is lost but
\* those that came last (_proc_rxThread, _proc_decoderThread, openChannelAndBind,
\* unbindAndClose), for every device and however the steps of the threads interleave.
THEOREM LinkIsByteStream == Spec => IsByteStream
<1>1. Init => Stream!Init
  <2> SUFFICES ASSUME Init PROVE Pipe = <<>>
    BY DEF Stream!Init
  <2>1. dec.rest = <<>> /\ queue = <<>> /\ rx.chunk = <<>> /\ wire = <<>>
    BY DEF Init
  <2>2. FlattenSeq(<<>>) = <<>>
    BY FlattenIs, EmptySeq
  <2> QED
    BY <2>1, <2>2 DEF Pipe
<1>2. Spec => []LinkInv
  BY InitLink, StepsOK, PTL DEF Spec
<1> QED
  BY <1>1, <1>2, StepsOK, PTL DEF Spec, IsByteStream, Stream!Spec

(***************************************************************************)
(* Where the parts of a flattened sequence lie.                            *)
(***************************************************************************)
\* o[i] elements lie before the i-th part
Offsets(s, o) ==
    /\ o \in [1 .. Len(s) + 1 -> Nat] /\ o[1] = 0
    /\ \A i \in 1 .. Len(s) : o[i + 1] = o[i] + Len(s[i])
    /\ Len(FlattenSeq(s)) = o[Len(s) + 1]
    /\ \A i \in 1 .. Len(s) : o[i + 1] <= Len(FlattenSeq(s))
    /\ \A i \in 1 .. Len(s) : \A x \in 1 .. Len(s[i]) : FlattenSeq(s)[o[i] + x] = s[i][x]

Consists(c, a, b) ==
    /\ Len(a) \in Nat /\ Len(b) \in Nat /\ Len(c) = Len(a) + Len(b)
    /\ \A x \in 1 .. Len(a) : c[x] = a[x]
    /\ \A x \in 1 .. Len(b) : c[Len(a) + x] = b[x]

\* A concatenation has the elements of its parts, one after the other.
LEMMA CatElements ==
    ASSUME NEW S, NEW a \in Seq(S), NEW b \in Seq(S)
    PROVE  Consists(Cat(a, b), a, b)
<1>1. Len(a) \in Nat /\ Len(b) \in Nat
  BY LenProperties
<1>2. Len(a \o b) = Len(a) + Len(b)
        /\ \A x \in 1 .. Len(a) + Len(b) : (a \o b)[x] = IF x <= Len(a) THEN a[x] ELSE b[x - Len(a)]
  BY ConcatProperties
<1> QED
  BY <1>1, <1>2 DEF Cat, Consists

\* What was put together first stays at the beginning.
LEMMA SumsGrow ==
    ASSUME NEW S, NEW s, NEW j, NEW n \in Nat, Len(s) = n, Sums(s, S, j),
           \A k \in 1 .. n : s[k] \in Seq(S), NEW l \in 0 .. n, NEW m \in l .. n
    PROVE  /\ Len(j[l]) \in Nat /\ Len(j[m]) \in Nat /\ Len(j[l]) <= Len(j[m])
           /\ \A x \in 1 .. Len(j[l]) : j[m][x] = j[l][x]
<1> DEFINE Fits(b) == Len(j[l]) <= Len(j[b]) /\ \A x \in 1 .. Len(j[l]) : j[b][x] = j[l][x]
           Bad == {b \in l .. n : ~Fits(b)}
<1>1. \A b \in 0 .. n : j[b] \in Seq(S) /\ Len(j[b]) \in Nat
  BY LenProperties DEF Sums
<1>2. Bad = {}
  <2> SUFFICES ASSUME Bad # {} PROVE FALSE
    OBVIOUS
  <2> HIDE DEF Fits
  <2>1. Bad \in SUBSET Nat
    OBVIOUS
  <2> HIDE DEF Bad
  <2>2. PICK b \in Bad : \A k \in Bad : b <= k
    BY <2>1, LeastExists
  <2>3. b \in l .. n /\ ~Fits(b)
    BY <2>2 DEF Bad
  <2>4. Fits(l)
    BY <1>1 DEF Fits
  <2>5. b - 1 \in l .. n /\ ~(b <= b - 1) /\ b \in 1 .. n
    BY <2>3, <2>4
  <2>6. Fits(b - 1)
    BY <2>2, <2>5 DEF Bad
  <2>7. j[b] = Cat(j[b - 1], s[b]) /\ s[b] \in Seq(S) /\ j[b - 1] \in Seq(S)
    BY <2>5 DEF Sums
  <2>8. Consists(j[b], j[b - 1], s[b])
    BY <2>7, CatElements
  <2>9. Len(j[l]) \in Nat
    BY <1>1
  <2>10. Fits(b)
    <3>1. Len(j[b - 1]) \in Nat /\ Len(j[b]) \in Nat /\ Len(j[b - 1]) <= Len(j[b])
      <4>1. Len(j[b - 1]) \in Nat /\ Len(s[b]) \in Nat /\ Len(j[b]) = Len(j[b - 1]) + Len(s[b])
        BY <2>8, Zenon DEF Consists
      <4>2. \A a, c \in Nat : a + c \in Nat /\ a <= a + c
        OBVIOUS
      <4> QED
        BY <4>1, <4>2, Zenon
    <3>2. \A x \in 1 .. Len(j[b - 1]) : j[b][x] = j[b - 1][x]
      BY <2>8 DEF Consists
    <3>3. Len(j[l]) <= Len(j[b - 1]) /\ \A x \in 1 .. Len(j[l]) : j[b - 1][x] = j[l][x]
      BY <2>6 DEF Fits
    <3>4. Len(j[l]) <= Len(j[b])
      BY <2>9, <3>1, <3>3
    <3>5. ASSUME NEW x \in 1 .. Len(j[l]) PROVE j[b][x] = j[l][x]
      <4>1. x \in 1 .. Len(j[b - 1])
        BY <2>9, <3>1, <3>3
      <4> QED
        BY <3>2, <3>3, <4>1
    <3> QED
      BY <3>4, <3>5 DEF Fits
  <2> QED
    BY <2>3, <2>10
<1>3. m \in l .. n /\ l \in 0 .. n /\ m \in 0 .. n
  OBVIOUS
<1>4. Fits(m)
  <2> HIDE DEF Fits
  <2> QED
    BY <1>2, <1>3
<1> QED
  BY <1>1, <1>3, <1>4

\* FlattenSeq lays its parts one after the other, from their offsets on.
LEMMA OffsetsExist ==
    ASSUME NEW S, NEW s \in Seq(Seq(S))
    PROVE  \E o : Offsets(s, o)
<1>1. PICK j : Sums(s, S, j) /\ FlattenSeq(s) = j[Len(s)]
  BY FlattenJoins
<1>2. PICK n : n = Len(s)
  OBVIOUS
<1>3. n \in Nat /\ \A k \in 1 .. n : s[k] \in Seq(S)
  BY <1>2, LenProperties, ElementOfSeq
<1> DEFINE o == [i \in 1 .. n + 1 |-> Len(j[i - 1])]
<1>4. \A l \in 0 .. n : Len(j[l]) \in Nat /\ Len(j[l]) <= Len(j[n])
        /\ \A x \in 1 .. Len(j[l]) : j[n][x] = j[l][x]
  BY <1>1, <1>2, <1>3, SumsGrow
<1>5. ASSUME NEW i \in 1 .. n
      PROVE  Consists(j[i], j[i - 1], s[i])
  <2>1. j[i] = Cat(j[i - 1], s[i]) /\ j[i - 1] \in Seq(S) /\ s[i] \in Seq(S)
    BY <1>1, <1>2, <1>3 DEF Sums
  <2> QED
    BY <2>1, CatElements
<1>6. \A i \in 1 .. n + 1 : o[i] = Len(j[i - 1]) /\ i - 1 \in 0 .. n
  BY <1>3
<1>7. o \in [1 .. n + 1 -> Nat]
  BY <1>4, <1>6
<1>8. Len(<<>>) = 0 /\ j[0] = <<>>
  BY <1>1 DEF Sums
<1>9. o[1] = 0 /\ o[n + 1] = Len(j[n])
  BY <1>3, <1>6, <1>8
<1> HIDE DEF o
<1>10. ASSUME NEW i \in 1 .. n
       PROVE  /\ o[i + 1] = o[i] + Len(s[i]) /\ o[i + 1] <= Len(j[n])
              /\ \A x \in 1 .. Len(s[i]) : j[n][o[i] + x] = s[i][x]
  <2>1. i \in 1 .. n + 1 /\ i + 1 \in 1 .. n + 1 /\ i + 1 - 1 = i /\ i \in 0 .. n /\ i - 1 \in 0 .. n
    BY <1>3
  <2>2. o[i] = Len(j[i - 1]) /\ o[i + 1] = Len(j[i])
    BY <1>6, <2>1
  <2>3. Len(j[i - 1]) \in Nat /\ Len(j[i]) \in Nat /\ Len(j[i]) <= Len(j[n])
    BY <1>4, <2>1
  <2>4. Consists(j[i], j[i - 1], s[i])
    BY <1>5
  <2>5. Len(s[i]) \in Nat /\ o[i + 1] = o[i] + Len(s[i]) /\ o[i] \in Nat
    BY <2>2, <2>3, <2>4 DEF Consists
  <2>6. \A y \in 1 .. Len(j[i]) : j[n][y] = j[i][y]
    BY <1>4, <2>1
  <2>7. ASSUME NEW x \in 1 .. Len(s[i]) PROVE j[n][o[i] + x] = s[i][x]
    <3>1. o[i] + x \in 1 .. Len(j[i])
      <4>1. \A a, c \in Nat : \A y \in 1 .. c : a + y \in 1 .. a + c
        OBVIOUS
      <4>2. o[i] + x \in 1 .. o[i] + Len(s[i])
        BY <2>5, <4>1
      <4> QED
        BY <2>2, <2>5, <4>2, Zenon
    <3>2. j[i][o[i] + x] = s[i][x]
      BY <2>2, <2>4 DEF Consists
    <3> QED
      BY <2>6, <3>1, <3>2
  <2> QED
    BY <2>2, <2>3, <2>5, <2>7
<1>11. Offsets(s, o)
  BY <1>1, <1>2, <1>7, <1>9, <1>10 DEF Offsets
<1> QED
  BY <1>11

(***************************************************************************)
(* The frames and the messages of a script.                                *)
(***************************************************************************)
\* the messages of a packet
Number(p) == IF p.len = 0 THEN 0 ELSE Len(p.data) \div p.len
Message(p, k) == [type |-> p.type, data |-> Chunk(p, k)]
Frames(ps) == [i \in DOMAIN ps |-> Framed(ps[i])]
Parts(ps) == [i \in DOMAIN ps |-> [k \in 1 .. Number(ps[i]) |-> Message(ps[i], k)]]
FrameLen(p) == 3 + SizeLen + Len(p.data)
SizeOf(p) == p.len + (IF p.loop THEN LoopFlag ELSE 0)

\* The fields of a packet have their types.
LEMMA PacketType ==
    ASSUME NEW p \in Packets
    PROVE  /\ p.len \in 0 .. LoopFlag - 1 /\ p.len \in Nat /\ p.type \in Nat /\ p.loop \in BOOLEAN
           /\ p.data \in Seq(Nat) /\ Len(p.data) \in Nat /\ SizeOf(p) \in Nat
<1>1. p.len \in 0 .. LoopFlag - 1 /\ p.type \in Nat /\ p.loop \in BOOLEAN /\ p.data \in Seq(Nat)
  BY DEF Packets
<1>2. p.len \in Nat
  <2>1. \A n \in Nat : \A x \in 0 .. n - 1 : x \in Nat
    OBVIOUS
  <2>2. LoopFlag \in Nat
    BY DEF LoopFlag
  <2> QED
    BY <1>1, <2>1, <2>2, Zenon
<1>3. SizeOf(p) \in Nat
  BY <1>2 DEF SizeOf, LoopFlag
<1> QED
  BY <1>1, <1>2, <1>3, LenProperties

\* the bytes of a frame, one by one
FrameIs(p, f) ==
    /\ f \in Seq(Nat) /\ Len(f) = FrameLen(p)
    /\ f[1] = Sync1 /\ f[2] = Sync2 /\ f[3] = SizeOf(p) /\ f[3 + SizeLen] = p.type
    /\ \A y \in 1 .. Len(p.data) : f[3 + SizeLen + y] = p.data[y]

\* A packet is framed: sync bytes, size field, type and payload, at their places.
LEMMA FrameBytes ==
    ASSUME NEW p \in Packets
    PROVE  FrameIs(p, Framed(p))
<1> DEFINE a == <<Sync1, Sync2>>
           z == [i \in 1 .. SizeLen - 1 |-> 0]
           b == <<SizeOf(p)>>
           t == <<p.type>>
           head == Cat(a, Cat(b, z))
           ht == Cat(head, t)
<1>1. /\ SizeLen \in Nat /\ SizeLen >= 1 /\ p.data \in Seq(Nat) /\ Len(p.data) \in Nat
  BY SizeLenAssumption, PacketType
<1>2. z \in Seq(Nat) /\ Len(z) = SizeLen - 1
  BY <1>1
<1>3. b \in Seq(Nat) /\ Len(b) = 1 /\ b[1] = SizeOf(p)
  BY PacketType
<1>4. t \in Seq(Nat) /\ Len(t) = 1 /\ t[1] = p.type
  BY PacketType
<1>5. a \in Seq(Nat) /\ Len(a) = 2 /\ a[1] = Sync1 /\ a[2] = Sync2
  BY DEF Sync1, Sync2
<1>6. Framed(p) = Cat(ht, p.data)
  BY DEF Framed, SizeField, SizeOf, Cat
<1> HIDE DEF a, z, b, t
<1>7. Cat(b, z) \in Seq(Nat) /\ Consists(Cat(b, z), b, z)
  BY <1>2, <1>3, CatType, CatElements
<1>8. head \in Seq(Nat) /\ Consists(head, a, Cat(b, z))
  BY <1>5, <1>7, CatType, CatElements
<1> HIDE DEF head
<1>9. ht \in Seq(Nat) /\ Consists(ht, head, t)
  BY <1>4, <1>8, CatType, CatElements
<1> HIDE DEF ht
<1>10. Framed(p) \in Seq(Nat) /\ Consists(Framed(p), ht, p.data)
  BY <1>1, <1>6, <1>9, CatType, CatElements
<1>11. Len(Cat(b, z)) = SizeLen /\ Cat(b, z)[1] = SizeOf(p)
  BY <1>1, <1>2, <1>3, <1>7 DEF Consists
<1>12. Len(head) = 2 + SizeLen /\ head[1] = Sync1 /\ head[2] = Sync2 /\ head[3] = SizeOf(p)
  <2>1. 1 \in 1 .. Len(a) /\ 2 \in 1 .. Len(a) /\ 1 \in 1 .. Len(Cat(b, z)) /\ Len(a) + 1 = 3
    BY <1>1, <1>5, <1>11
  <2>2. head[Len(a) + 1] = Cat(b, z)[1]
    BY <1>8, <2>1 DEF Consists
  <2> QED
    BY <1>1, <1>5, <1>8, <1>11, <2>1, <2>2 DEF Consists
<1>13. /\ Len(ht) = 3 + SizeLen /\ ht[1] = Sync1 /\ ht[2] = Sync2 /\ ht[3] = SizeOf(p)
       /\ ht[3 + SizeLen] = p.type
  <2>1. 1 \in 1 .. Len(head) /\ 2 \in 1 .. Len(head) /\ 3 \in 1 .. Len(head) /\ 1 \in 1 .. Len(t)
          /\ Len(head) + 1 = 3 + SizeLen
    BY <1>1, <1>4, <1>12
  <2>2. ht[Len(head) + 1] = t[1]
    BY <1>9, <2>1 DEF Consists
  <2>3. Len(ht) = Len(head) + Len(t)
    BY <1>9 DEF Consists
  <2>4. ht[1] = head[1] /\ ht[2] = head[2] /\ ht[3] = head[3]
    BY <1>9, <2>1 DEF Consists
  <2> QED
    BY <1>1, <1>4, <1>12, <2>1, <2>2, <2>3, <2>4
<1>14. \A x \in 1 .. 3 + SizeLen : Framed(p)[x] = ht[x]
  BY <1>10, <1>13 DEF Consists
<1>15. \A y \in 1 .. Len(p.data) : Framed(p)[3 + SizeLen + y] = p.data[y]
  BY <1>10, <1>13 DEF Consists
<1>16. Len(Framed(p)) = 3 + SizeLen + Len(p.data)
  BY <1>10, <1>13 DEF Consists
<1>17. 1 \in 1 .. 3 + SizeLen /\ 2 \in 1 .. 3 + SizeLen /\ 3 \in 1 .. 3 + SizeLen
         /\ 3 + SizeLen \in 1 .. 3 + SizeLen
  BY <1>1
<1> QED
  BY <1>10, <1>13, <1>14, <1>15, <1>16, <1>17, Zenon DEF FrameIs, FrameLen

\* how many bytes and messages come before each packet
Start(ps) == CHOOSE o : Offsets(Frames(ps), o)
Before(ps) == CHOOSE o : Offsets(Parts(ps), o)

\* The packets of a script lie in its bytes at Start.
LEMMA FramesLie == ASSUME NEW ps \in Seq(Packets) PROVE Offsets(Frames(ps), Start(ps))
<1>1. DOMAIN ps = 1 .. Len(ps) /\ Len(ps) \in Nat /\ \A i \in 1 .. Len(ps) : ps[i] \in Packets
  BY LenProperties, ElementOfSeq
<1>2. \A p \in Packets : Framed(p) \in Seq(Nat)
  BY FrameBytes DEF FrameIs
<1>3. Frames(ps) \in Seq(Seq(Nat))
  BY <1>1, <1>2 DEF Frames
<1> QED
  BY <1>3, OffsetsExist DEF Start

\* A packet has a number of messages.
LEMMA NumberType == ASSUME NEW p \in Packets PROVE Number(p) \in Nat
<1>1. p.len \in Nat /\ Len(p.data) \in Nat
  BY PacketType
<1>2. \A a, b \in Nat : b # 0 => a \div b \in Nat
  OBVIOUS
<1> QED
  BY <1>1, <1>2 DEF Number

\* The messages of the packets are sequences.
LEMMA PartsType == ASSUME NEW ps \in Seq(Packets) PROVE \E S : Parts(ps) \in Seq(Seq(S))
<1>1. DOMAIN ps = 1 .. Len(ps) /\ Len(ps) \in Nat /\ \A i \in 1 .. Len(ps) : ps[i] \in Packets
  BY LenProperties, ElementOfSeq
<1> DEFINE S == {Message(ps[i], k) : i \in DOMAIN ps, k \in Nat}
<1>2. ASSUME NEW i \in DOMAIN ps
      PROVE  [k \in 1 .. Number(ps[i]) |-> Message(ps[i], k)] \in Seq(S)
  <2>1. Number(ps[i]) \in Nat
    BY <1>1, NumberType
  <2>2. \A k \in 1 .. Number(ps[i]) : Message(ps[i], k) \in S
    BY <2>1
  <2> HIDE DEF S
  <2> QED
    BY <2>1, <2>2
<1> HIDE DEF S
<1>3. Parts(ps) \in Seq(Seq(S))
  BY <1>1, <1>2 DEF Parts
<1> QED
  BY <1>3, Zenon

\* The messages of a packet are among those of the script, from Before on.
LEMMA PartsLie == ASSUME NEW ps \in Seq(Packets) PROVE Offsets(Parts(ps), Before(ps))
<1>1. PICK S : Parts(ps) \in Seq(Seq(S))
  BY PartsType
<1> QED
  BY <1>1, OffsetsExist DEF Before

(***************************************************************************)
(* Where the codec is in a packet p of which it has taken x bytes and      *)
(* completed j messages.                                                   *)
(***************************************************************************)
Same(p, c) == c.len = p.len /\ c.loop = p.loop
InSync2(p, c, x, j) == c.st = "sync2" /\ x = 1 /\ j = 0
InSize(p, c, x, j) ==
    c.st = "size" /\ c.pos < SizeLen /\ x = 2 + c.pos /\ j = 0 /\ (c.pos # 0 => Same(p, c))
InType(p, c, x, j) ==
    c.st = "type" /\ c.pos = 0 /\ x = 2 + SizeLen /\ j = 0 /\ Same(p, c) /\ c.data = <<>>
InPayload(p, c, x, j) ==
    /\ c.st = "payload" /\ c.pos < c.len /\ x = 3 + SizeLen + j * p.len + c.pos
    /\ j \in Nat /\ (~p.loop => j = 0) /\ Same(p, c) /\ c.type = p.type
    /\ c.data = SubSeq(p.data, j * p.len + 1, j * p.len + c.pos)
InPacket(p, c, x, j) ==
    InSync2(p, c, x, j) \/ InSize(p, c, x, j) \/ InType(p, c, x, j) \/ InPayload(p, c, x, j)

\* The first sync byte brings the codec into the packet.
LEMMA Sync1Step ==
    ASSUME NEW p, NEW c \in CodecType, c.st = "sync1", NEW byte, byte = Sync1
    PROVE  InSync2(p, DecodeByte(c, byte), 1, 0)
BY DEF DecodeByte, InSync2, CodecType

\* The second one brings it to the size field.
LEMMA Sync2Step ==
    ASSUME NEW p, NEW c \in CodecType, NEW x, NEW j, InSync2(p, c, x, j), NEW byte, byte = Sync2
    PROVE  InSize(p, DecodeByte(c, byte), 2, 0) /\ x = 1 /\ j = 0
<1>1. DecodeByte(c, byte) = [c EXCEPT !.st = "size", !.pos = 0] /\ x = 1 /\ j = 0
  BY DEF DecodeByte, InSync2
<1>2. [c EXCEPT !.st = "size", !.pos = 0].st = "size" /\ [c EXCEPT !.st = "size", !.pos = 0].pos = 0
  BY DEF CodecType
<1> QED
  BY <1>1, <1>2, SizeLenAssumption DEF InSize

\* The first byte of the size field is size and loop flag, and the codec can tell them
\* apart: the size is smaller than the flag.
LEMMA SizeFields ==
    ASSUME NEW p \in Packets
    PROVE  SizeOf(p) % LoopFlag = p.len /\ (SizeOf(p) \div LoopFlag = 1) = p.loop
<1>1. \A n \in Nat : n < 64 => /\ n % 64 = n /\ n \div 64 = 0
                              /\ (n + 64) % 64 = n /\ (n + 64) \div 64 = 1
  OBVIOUS
<1>2. p.len \in Nat /\ p.len < 64 /\ p.loop \in BOOLEAN
  <2>1. p.len \in Nat /\ p.len \in 0 .. LoopFlag - 1 /\ p.loop \in BOOLEAN
    BY PacketType
  <2>2. \A n \in Nat : \A x \in 0 .. n - 1 : x < n
    OBVIOUS
  <2>3. LoopFlag \in Nat
    BY DEF LoopFlag
  <2>4. p.len < LoopFlag
    BY <2>1, <2>2, <2>3, Zenon
  <2> QED
    BY <2>1, <2>4 DEF LoopFlag
<1>3. CASE p.loop = TRUE
  BY <1>1, <1>2, <1>3 DEF SizeOf, LoopFlag
<1>4. CASE p.loop = FALSE
  BY <1>1, <1>2, <1>4 DEF SizeOf, LoopFlag
<1> QED
  BY <1>2, <1>3, <1>4

\* The bytes of the size field bring the codec on to the type.
LEMMA SizeStep ==
    ASSUME NEW p \in Packets, NEW c \in CodecType, NEW x, NEW j, InSize(p, c, x, j), NEW byte,
           c.pos = 0 => byte = SizeOf(p)
    PROVE  LET d == DecodeByte(c, byte)
           IN  InSize(p, d, x + 1, 0) \/ InType(p, d, x + 1, 0)
<1> DEFINE d == IF c.pos = 0 THEN [c EXCEPT !.len = byte % LoopFlag, !.loop = (byte \div LoopFlag = 1)]
                ELSE c
           e == IF c.pos + 1 = SizeLen THEN [d EXCEPT !.st = "type", !.pos = 0, !.data = <<>>]
                ELSE [d EXCEPT !.pos = c.pos + 1]
<1>1. c.st = "size" /\ c.pos < SizeLen /\ x = 2 + c.pos /\ j = 0 /\ (c.pos # 0 => Same(p, c))
        /\ c.pos \in Nat /\ SizeLen \in Nat
  BY SizeLenAssumption DEF InSize, CodecType
<1>2. DOMAIN d = {"st", "loop", "pos", "len", "type", "data"} /\ d.st = "size" /\ d.pos = c.pos
  BY <1>1 DEF CodecType
<1>3. Same(p, d)
  <2>1. CASE c.pos = 0
    <3>1. d.len = byte % LoopFlag /\ d.loop = (byte \div LoopFlag = 1)
      BY <2>1 DEF CodecType
    <3> QED
      BY <2>1, <3>1, SizeFields DEF Same
  <2>2. CASE c.pos # 0
    BY <1>1, <2>2
  <2> QED
    BY <2>1, <2>2
<1>4. DecodeByte(c, byte) = e
  BY <1>1, <1>2 DEF DecodeByte, SizeByte
<1> HIDE DEF d
<1>5. CASE c.pos + 1 = SizeLen
  <2>1. e.st = "type" /\ e.pos = 0 /\ e.data = <<>> /\ e.len = d.len /\ e.loop = d.loop
    BY <1>2, <1>5
  <2> QED
    BY <1>1, <1>3, <1>4, <1>5, <2>1 DEF InType, Same
<1>6. CASE c.pos + 1 # SizeLen
  <2>1. e.st = "size" /\ e.pos = c.pos + 1 /\ e.len = d.len /\ e.loop = d.loop
    BY <1>2, <1>6
  <2> QED
    BY <1>1, <1>3, <1>4, <1>6, <2>1 DEF InSize, Same
<1> QED
  BY <1>5, <1>6

\* The type brings it to the payload, or to the next packet if there is none.
LEMMA TypeStep ==
    ASSUME NEW p \in Packets, NEW c \in CodecType, NEW x, NEW j, InType(p, c, x, j), NEW byte,
           byte = p.type
    PROVE  LET d == DecodeByte(c, byte)
           IN  /\ p.len = 0 => d.st = "sync1"
               /\ p.len # 0 => InPayload(p, d, x + 1, 0)
               /\ x = 2 + SizeLen /\ j = 0
<1>1. c.st = "type" /\ c.pos = 0 /\ x = 2 + SizeLen /\ j = 0 /\ Same(p, c) /\ c.data = <<>>
  BY DEF InType
<1>2. DecodeByte(c, byte) = TypeByte(c, byte) /\ c.len = p.len /\ c.loop = p.loop
  BY <1>1 DEF DecodeByte, Same
<1>3. p.len = 0 => TypeByte(c, byte).st = "sync1"
  BY <1>2 DEF TypeByte, CodecType
<1>4. ASSUME p.len # 0 PROVE InPayload(p, TypeByte(c, byte), x + 1, 0)
  <2> DEFINE d == [c EXCEPT !.st = "payload", !.type = byte]
  <2>1. TypeByte(c, byte) = d
    BY <1>2, <1>4 DEF TypeByte
  <2>2. d.st = "payload" /\ d.pos = 0 /\ d.len = p.len /\ d.loop = p.loop /\ d.type = p.type /\ d.data = <<>>
    BY <1>1, <1>2 DEF CodecType
  <2>3. p.len \in Nat /\ SizeLen \in Nat
    BY PacketType, SizeLenAssumption
  <2>4. SubSeq(p.data, 0 * p.len + 1, 0 * p.len + 0) = <<>> /\ 0 * p.len = 0
    BY <2>3
  <2> HIDE DEF d
  <2>5. 0 < p.len /\ x + 1 = 3 + SizeLen + 0 * p.len + 0 /\ 0 \in Nat
    BY <1>1, <1>4, <2>3, <2>4
  <2> QED
    BY <2>1, <2>2, <2>4, <2>5 DEF InPayload, Same
<1> QED
  BY <1>1, <1>2, <1>3, <1>4

\* A part of a sequence grows by the element that follows it.
LEMMA Lengthen ==
    ASSUME NEW s \in Seq(Nat), NEW a \in Nat, NEW n \in Nat, a + n < Len(s)
    PROVE  Append(SubSeq(s, a + 1, a + n), s[a + n + 1]) = SubSeq(s, a + 1, a + n + 1)
<1>1. a + 1 \in 1 .. Len(s) /\ a + n + 1 \in a + 1 .. Len(s) /\ Len(s) \in Nat
  BY LenProperties
<1>2. SubSeq(s, a + 1, a + n + 1) = SubSeq(s, a + 1, a + n + 1 - 1) \o <<s[a + n + 1]>>
  BY <1>1, SubSeqRecursiveSecond
<1>3. a + n + 1 - 1 = a + n
  OBVIOUS
<1>4. SubSeq(s, a + 1, a + n) \in Seq(Nat) /\ s[a + n + 1] \in Nat
  BY <1>1, ElementOfSeq
<1>5. Append(SubSeq(s, a + 1, a + n), s[a + n + 1]) = SubSeq(s, a + 1, a + n) \o <<s[a + n + 1]>>
  BY <1>4, AppendIsConcat
<1> QED
  BY <1>2, <1>3, <1>5

\* The k-th message of a packet begins where the one before ended.
LEMMA ChunkIs ==
    ASSUME NEW p, NEW k, NEW m, k - 1 = m
    PROVE  Chunk(p, k) = SubSeq(p.data, m * p.len + 1, k * p.len)
BY DEF Chunk

\* what a byte of the payload brings
Paid(p, c, x, j, byte) ==
    LET d == DecodeByte(c, byte)
    IN  /\ ~Completes(c) => InPayload(p, d, x + 1, j)
        /\ Completes(c) =>
             /\ [type |-> d.type, data |-> d.data] = Message(p, j + 1)
             /\ p.loop => InPayload(p, Emptied(d), x + 1, j + 1)
             /\ ~p.loop => d.st = "sync1" /\ j = 0 /\ x + 1 = 3 + SizeLen + p.len

\* Arithmetic of the end of a message.
LEMMA MessageEnds ==
    \A k, e, q \in Nat : /\ e + q + 1 = e + (q + 1)
                         /\ 3 + k + e + q + 1 = 3 + k + (e + (q + 1)) + 0
  OBVIOUS

\* A byte of the payload is added to the message; the last one completes it, and the codec
\* goes on to the next message if the packet is a loop.
LEMMA PayloadStep ==
    ASSUME NEW p \in Packets, NEW c \in CodecType, NEW x, NEW j, InPayload(p, c, x, j),
           j * p.len + c.pos < Len(p.data), NEW byte, byte = p.data[j * p.len + c.pos + 1]
    PROVE  Paid(p, c, x, j, byte)
<1> DEFINE a == j * p.len
           u == Append(c.data, byte)
<1>1. /\ c.st = "payload" /\ c.pos < c.len /\ x = 3 + SizeLen + a + c.pos
      /\ j \in Nat /\ (~p.loop => j = 0) /\ c.len = p.len /\ c.loop = p.loop /\ c.type = p.type
      /\ c.data = SubSeq(p.data, a + 1, a + c.pos)
  BY DEF InPayload, Same
<1>2. /\ p.len \in Nat /\ c.pos \in Nat /\ p.data \in Seq(Nat) /\ Len(p.data) \in Nat
      /\ SizeLen \in Nat /\ p.loop \in BOOLEAN
  BY PacketType, SizeLenAssumption DEF CodecType
<1>3. a \in Nat /\ (j = 0 => a = 0) /\ (j + 1) * p.len = a + p.len
  <2>1. \A i, l \in Nat : i * l \in Nat /\ 0 * l = 0 /\ (i + 1) * l = i * l + l
    OBVIOUS
  <2>2. j \in Nat /\ p.len \in Nat 
    BY <1>1, <1>2
  <2> QED
    BY <2>1, <2>2
<1>11. x = 3 + SizeLen + a + c.pos /\ c.len = p.len /\ a + c.pos < Len(p.data)
  BY <1>1
<1>4. u = SubSeq(p.data, a + 1, a + c.pos + 1)
  <2>1. c.data = SubSeq(p.data, a + 1, a + c.pos) /\ byte = p.data[a + c.pos + 1]
    BY <1>1
  <2> HIDE DEF a
  <2>2. Append(SubSeq(p.data, a + 1, a + c.pos), p.data[a + c.pos + 1])
          = SubSeq(p.data, a + 1, a + c.pos + 1)
    BY <1>2, <1>3, <1>11, Lengthen
  <2> QED
    BY <2>1, <2>2
<1> HIDE DEF a
<1> HIDE DEF u
<1>5. DecodeByte(c, byte) = Payload(c, byte)
  BY <1>1 DEF DecodeByte
<1>6. Completes(c) <=> c.pos + 1 = c.len
  BY <1>1 DEF Completes
<1>7. ASSUME ~Completes(c) PROVE InPayload(p, Payload(c, byte), x + 1, j)
  <2> DEFINE d == [c EXCEPT !.pos = c.pos + 1, !.data = u]
  <2>1. Payload(c, byte) = d /\ c.pos + 1 < c.len
    BY <1>1, <1>2, <1>6, <1>7 DEF Payload, u
  <2>2. d.st = "payload" /\ d.pos = c.pos + 1 /\ d.len = p.len /\ d.loop = p.loop
          /\ d.type = p.type /\ d.data = u
    BY <1>1 DEF CodecType
  <2> HIDE DEF d
  <2>3. x + 1 = 3 + SizeLen + a + (c.pos + 1) /\ a + c.pos + 1 = a + (c.pos + 1)
    BY <1>2, <1>3, <1>11
  <2> QED
    BY <1>1, <1>4, <2>1, <2>2, <2>3 DEF InPayload, Same, a
<1>8. ASSUME Completes(c) PROVE u = Chunk(p, j + 1) /\ x + 1 = 3 + SizeLen + (j + 1) * p.len + 0
  <2>1. a + c.pos + 1 = (j + 1) * p.len /\ x + 1 = 3 + SizeLen + (j + 1) * p.len + 0
    <3>1. c.pos + 1 = p.len
      BY <1>6, <1>8, <1>11
    <3> DEFINE b == (j + 1) * p.len
    <3>2. b = a + p.len
      BY <1>3, Zenon
    <3> HIDE DEF b
    <3>3. a + c.pos + 1 = b /\ x + 1 = 3 + SizeLen + b + 0
      <4>1. /\ a + c.pos + 1 = a + (c.pos + 1)
            /\ 3 + SizeLen + a + c.pos + 1 = 3 + SizeLen + (a + (c.pos + 1)) + 0
        <5>1. SizeLen \in Nat /\ a \in Nat /\ c.pos \in Nat
          BY <1>2, <1>3, Zenon
        <5> QED
          BY <5>1, MessageEnds, Zenon
      <4> QED
        BY <1>11, <3>1, <3>2, <4>1, Zenon
    <3> QED
      BY <3>3 DEF b
  <2>2. Chunk(p, j + 1) = SubSeq(p.data, a + 1, (j + 1) * p.len)
    <3>1. (j + 1) - 1 = j
      BY <1>1
    <3>2. Chunk(p, j + 1) = SubSeq(p.data, j * p.len + 1, (j + 1) * p.len)
      BY <3>1, ChunkIs, Zenon
    <3> QED
      BY <3>2, Zenon DEF a
  <2>3. u = SubSeq(p.data, a + 1, (j + 1) * p.len)
    BY <1>4, <2>1, Zenon
  <2> QED
    BY <2>1, <2>2, <2>3
<1>9. ASSUME Completes(c), p.loop PROVE LET d == Payload(c, byte)
                                        IN  /\ d.type = p.type /\ d.data = u
                                            /\ InPayload(p, Emptied(d), x + 1, j + 1)
  <2> DEFINE d == [c EXCEPT !.pos = 0, !.data = u]
  <2>1. Payload(c, byte) = d
    BY <1>1, <1>2, <1>6, <1>9 DEF Payload, u
  <2>2. d.type = p.type /\ d.data = u
    BY <1>1 DEF CodecType
  <2>3. /\ Emptied(d).st = "payload" /\ Emptied(d).pos = 0 /\ Emptied(d).len = p.len
        /\ Emptied(d).loop = p.loop /\ Emptied(d).type = p.type /\ Emptied(d).data = <<>>
    BY <1>1 DEF CodecType, Emptied
  <2> HIDE DEF d
  <2>4. SubSeq(p.data, (j + 1) * p.len + 1, (j + 1) * p.len + 0) = <<>>
    <3> DEFINE b == (j + 1) * p.len
    <3>1. b \in Nat
      BY <1>2, <1>3
    <3> HIDE DEF b
    <3>2. SubSeq(p.data, b + 1, b + 0) = <<>>
      BY <3>1, SubSeqEmpty
    <3> QED
      BY <3>2 DEF b
  <2>5. 0 < p.len /\ j + 1 \in Nat
    BY <1>1, <1>2
  <2>6. InPayload(p, Emptied(d), x + 1, j + 1)
    BY <1>8, <1>9, <2>3, <2>4, <2>5 DEF InPayload, Same
  <2> QED
    BY <2>1, <2>2, <2>6
<1>10. ASSUME Completes(c), ~p.loop PROVE LET d == Payload(c, byte)
                                         IN  /\ d.type = p.type /\ d.data = u /\ d.st = "sync1"
                                             /\ j = 0 /\ x + 1 = 3 + SizeLen + p.len
  <2>1. Payload(c, byte) = [c EXCEPT !.st = "sync1", !.data = u]
    BY <1>1, <1>2, <1>6, <1>10 DEF Payload, u
  <2>2. [c EXCEPT !.st = "sync1", !.data = u].type = p.type
          /\ [c EXCEPT !.st = "sync1", !.data = u].data = u
          /\ [c EXCEPT !.st = "sync1", !.data = u].st = "sync1"
    BY <1>1 DEF CodecType
  <2>3. j = 0 /\ x + 1 = 3 + SizeLen + p.len
    BY <1>1, <1>2, <1>3, <1>6, <1>10
  <2> QED
    BY <2>1, <2>2, <2>3
<1> QED
  BY <1>2, <1>5, <1>7, <1>8, <1>9, <1>10 DEF Message, Paid

(***************************************************************************)
(* Where the codec is in a script, of which it has taken k bytes and       *)
(* completed n messages: before or in its i-th packet.                     *)
(***************************************************************************)
PacketLies(ps, i) ==
    LET p == ps[i]
        f == Start(ps)[i]
        g == Before(ps)[i]
    IN  /\ p \in Packets /\ Carries(p, i = Len(ps)) /\ f \in Nat /\ g \in Nat
        /\ Start(ps)[i + 1] = f + FrameLen(p) /\ Start(ps)[i + 1] <= Len(Sent(ps))
        /\ Before(ps)[i + 1] = g + Number(p) /\ Before(ps)[i + 1] <= Len(Messages(ps))
        /\ \A x \in 1 .. FrameLen(p) : Sent(ps)[f + x] = Framed(p)[x]
        /\ \A y \in 1 .. Number(p) : Messages(ps)[g + y] = Message(p, y)
ScriptLies(ps) ==
    /\ Len(ps) \in Nat /\ Start(ps)[1] = 0 /\ Before(ps)[1] = 0
    /\ Len(Sent(ps)) \in Nat /\ Len(Sent(ps)) = Start(ps)[Len(ps) + 1]
    /\ Len(Messages(ps)) \in Nat /\ Len(Messages(ps)) = Before(ps)[Len(ps) + 1]
    /\ \A i \in 1 .. Len(ps) : PacketLies(ps, i)

\* Packets and messages of every script of the device are laid out so.
LEMMA ScriptLayout == ASSUME NEW ps \in Scripts PROVE ScriptLies(ps)
<1>1. ps \in Seq(Packets) /\ \A i \in DOMAIN ps : Carries(ps[i], i = Len(ps))
  BY LinksAssumption DEF Scripts
<1>2. DOMAIN ps = 1 .. Len(ps) /\ Len(ps) \in Nat /\ \A i \in 1 .. Len(ps) : ps[i] \in Packets
  BY <1>1, LenProperties, ElementOfSeq
<1>3. Sent(ps) = FlattenSeq(Frames(ps)) /\ Messages(ps) = FlattenSeq(Parts(ps))
  BY DEF Sent, Frames, Messages, Parts, Number, Message
<1>4. /\ Len(Frames(ps)) = Len(ps) /\ \A i \in 1 .. Len(ps) : Frames(ps)[i] = Framed(ps[i])
  BY <1>2 DEF Frames
<1>5. /\ Len(Parts(ps)) = Len(ps)
      /\ \A i \in 1 .. Len(ps) : Parts(ps)[i] = [k \in 1 .. Number(ps[i]) |-> Message(ps[i], k)]
  BY <1>2 DEF Parts
<1>6. /\ Start(ps) \in [1 .. Len(ps) + 1 -> Nat] /\ Start(ps)[1] = 0
      /\ Len(Sent(ps)) = Start(ps)[Len(ps) + 1]
      /\ \A i \in 1 .. Len(ps) : Start(ps)[i + 1] = Start(ps)[i] + Len(Frames(ps)[i])
      /\ \A i \in 1 .. Len(ps) : Start(ps)[i + 1] <= Len(Sent(ps))
      /\ \A i \in 1 .. Len(ps) : \A x \in 1 .. Len(Frames(ps)[i]) :
            Sent(ps)[Start(ps)[i] + x] = Frames(ps)[i][x]
  <2>1. Offsets(Frames(ps), Start(ps))
    BY <1>1, FramesLie
  <2> QED
    BY <1>3, <1>4, <2>1, Zenon DEF Offsets
<1>7. /\ Before(ps) \in [1 .. Len(ps) + 1 -> Nat] /\ Before(ps)[1] = 0
      /\ Len(Messages(ps)) = Before(ps)[Len(ps) + 1]
      /\ \A i \in 1 .. Len(ps) : Before(ps)[i + 1] = Before(ps)[i] + Len(Parts(ps)[i])
      /\ \A i \in 1 .. Len(ps) : Before(ps)[i + 1] <= Len(Messages(ps))
      /\ \A i \in 1 .. Len(ps) : \A x \in 1 .. Len(Parts(ps)[i]) :
            Messages(ps)[Before(ps)[i] + x] = Parts(ps)[i][x]
  <2>1. Offsets(Parts(ps), Before(ps))
    BY <1>1, PartsLie
  <2> QED
    BY <1>3, <1>5, <2>1, Zenon DEF Offsets
<1>8. ASSUME NEW i \in 1 .. Len(ps) PROVE PacketLies(ps, i)
  <2>0. i \in 1 .. Len(ps) + 1
    BY <1>2
  <2>1. ps[i] \in Packets /\ Carries(ps[i], i = Len(ps)) /\ i \in 1 .. Len(ps) + 1
    BY <1>1, <1>2, <2>0, Zenon
  <2>2. Len(Frames(ps)[i]) = FrameLen(ps[i]) /\ Number(ps[i]) \in Nat /\ Frames(ps)[i] = Framed(ps[i])
    BY <1>4, <2>1, FrameBytes, NumberType DEF FrameIs
  <2>3. /\ Len(Parts(ps)[i]) = Number(ps[i])
        /\ \A y \in 1 .. Number(ps[i]) : Parts(ps)[i][y] = Message(ps[i], y)
    <3> DEFINE m == Number(ps[i])
               t == [k \in 1 .. m |-> Message(ps[i], k)]
    <3>1. Parts(ps)[i] = t
      BY <1>5, Zenon
    <3>2. m \in Nat
      BY <2>2
    <3> HIDE DEF m
    <3>3. Len(t) = m /\ \A y \in 1 .. m : t[y] = Message(ps[i], y)
      BY <3>2
    <3> QED
      BY <3>1, <3>3, Zenon DEF m
  <2>4. Start(ps)[i] \in Nat /\ Before(ps)[i] \in Nat
    BY <1>6, <1>7, <2>1
  <2>5. /\ Start(ps)[i + 1] = Start(ps)[i] + FrameLen(ps[i]) /\ Start(ps)[i + 1] <= Len(Sent(ps))
        /\ \A x \in 1 .. FrameLen(ps[i]) : Sent(ps)[Start(ps)[i] + x] = Framed(ps[i])[x]
    BY <1>6, <2>2, Zenon
  <2>6. /\ Before(ps)[i + 1] = Before(ps)[i] + Number(ps[i]) /\ Before(ps)[i + 1] <= Len(Messages(ps))
        /\ \A y \in 1 .. Number(ps[i]) : Messages(ps)[Before(ps)[i] + y] = Message(ps[i], y)
    BY <1>7, <2>3, Zenon
  <2> QED
    BY <2>1, <2>4, <2>5, <2>6, Zenon DEF PacketLies
<1>9. Len(ps) + 1 \in 1 .. Len(ps) + 1
  BY <1>2
<1>10. Len(Sent(ps)) \in Nat /\ Len(Messages(ps)) \in Nat
  BY <1>6, <1>7, <1>9
<1> QED
  BY <1>2, <1>6, <1>7, <1>8, <1>10, Zenon DEF ScriptLies

Place(ps, c, k, n, i) ==
    \/ c.st = "sync1" /\ k = Start(ps)[i] /\ n = Before(ps)[i]
    \/ /\ i <= Len(ps)
       /\ \E x, j \in Nat : /\ k = Start(ps)[i] + x /\ n = Before(ps)[i] + j
                           /\ InPacket(ps[i], c, x, j)

\* Products of numbers, for the offset of a message in its packet.
LEMMA Product == \A i, l \in Nat : i * l \in Nat /\ 0 * l = 0 /\ (i + 1) * l = i * l + l
  OBVIOUS

\* The number of messages of a loop packet is the quotient of its size.
LEMMA Quotient ==
    ASSUME NEW j \in Nat, NEW l \in Nat \ {0}, NEW m \in Nat
    PROVE  /\ j * l <= m => j <= m \div l
           /\ \A r \in 0 .. l - 1 : m = j * l + r => m \div l = j
<1> DEFINE q == m \div l
           r == m % l
<1>1. q \in Nat /\ r \in Nat /\ r < l /\ m = l * q + r
  OBVIOUS
<1> HIDE DEF q, r
<1>2. \A a, b \in Nat : a > b => a * l >= b * l + l
  OBVIOUS
<1>3. j * l <= m => j <= q
  <2> SUFFICES ASSUME j * l <= m, j > q PROVE FALSE
    BY <1>1
  <2>1. j * l >= q * l + l
    BY <1>1, <1>2
  <2> QED
    BY <1>1, <2>1
<1>4. ASSUME NEW t \in 0 .. l - 1, m = j * l + t PROVE q = j
  <2>1. ~(j > q)
    BY <1>1, <1>2, <1>4
  <2>2. ~(q > j)
    BY <1>1, <1>2, <1>4
  <2> QED
    BY <1>1, <2>1, <2>2
<1> QED
  BY <1>3, <1>4 DEF q

\* what follows in a packet, by the kind of what it carries
Room(p, c, x, j) ==
    /\ j \in Nat /\ p.len \in Nat \ {0} /\ c.pos \in Nat /\ c.pos < p.len /\ j * p.len \in Nat
    /\ j * p.len + c.pos < Len(p.data)
    /\ x = 3 + SizeLen + j * p.len + c.pos
    /\ ~p.loop => j = 0 /\ Len(p.data) = p.len /\ Number(p) = 1
    /\ c.pos + 1 = p.len => j + 1 <= Number(p)

\* The codec that is in the payload of a packet has bytes of it to come.
LEMMA PayloadRoom ==
    ASSUME NEW p \in Packets, NEW last \in BOOLEAN, Carries(p, last), NEW c \in CodecType, NEW x, NEW j,
           InPayload(p, c, x, j), p.loop => x < FrameLen(p)
    PROVE  Room(p, c, x, j)
<1>1. /\ p.len \in Nat /\ Len(p.data) \in Nat /\ p.loop \in BOOLEAN /\ c.pos \in Nat /\ SizeLen \in Nat
  BY PacketType, SizeLenAssumption DEF CodecType
<1>2. /\ j \in Nat /\ c.pos < p.len /\ (~p.loop => j = 0)
  BY DEF InPayload, Same
<1>3. x = 3 + SizeLen + j * p.len + c.pos
  BY DEF InPayload
<1>4. p.len # 0 /\ j * p.len \in Nat /\ (j + 1) * p.len = j * p.len + p.len /\ (j = 0 => j * p.len = 0)
  BY <1>1, <1>2, Product
<1>5. IF p.loop THEN last ELSE Len(p.data) = p.len
  BY <1>1, <1>4 DEF Carries
<1> DEFINE a == j * p.len
<1>6. a \in Nat /\ (j = 0 => a = 0) /\ x = 3 + SizeLen + a + c.pos /\ (j + 1) * p.len = a + p.len
  BY <1>3, <1>4
<1> HIDE DEF a
<1>7. a + c.pos < Len(p.data)
  <2>1. CASE p.loop
    <3>1. 3 + SizeLen + a + c.pos < 3 + SizeLen + Len(p.data)
      BY <1>6, <2>1 DEF FrameLen
    <3>2. \A k, e, q, l \in Nat : 3 + k + e + q < 3 + k + l => e + q < l
      OBVIOUS
    <3>3. SizeLen \in Nat /\ a \in Nat /\ c.pos \in Nat /\ Len(p.data) \in Nat
      BY <1>1, <1>6, Zenon
    <3> QED
      BY <3>1, <3>2, <3>3, Zenon
  <2>2. CASE ~p.loop
    BY <1>1, <1>2, <1>5, <1>6, <2>2
  <2> QED
    BY <2>1, <2>2
<1>8. Number(p) = Len(p.data) \div p.len
  BY <1>4 DEF Number
<1>9. ASSUME c.pos + 1 = p.len PROVE j + 1 <= Number(p)
  <2> DEFINE b == (j + 1) * p.len
  <2>1. b = a + p.len
    BY <1>6, Zenon
  <2> HIDE DEF b
  <2>2. b <= Len(p.data)
    BY <1>1, <1>6, <1>7, <1>9, <2>1
  <2>3. j + 1 \in Nat /\ p.len \in Nat \ {0}
    BY <1>1, <1>2, <1>4
  <2>4. j + 1 <= Len(p.data) \div p.len
    BY <1>1, <2>2, <2>3, Quotient DEF b
  <2> QED
    BY <1>8, <2>4
<1>10. ASSUME ~p.loop PROVE j = 0 /\ Len(p.data) = p.len /\ Number(p) = 1
  <2>1. \A l \in Nat \ {0} : l \div l = 1
    OBVIOUS
  <2> QED
    BY <1>1, <1>2, <1>4, <1>5, <1>8, <1>10, <2>1
<1>12. a = j * p.len
  BY DEF a
<1> QED
  BY <1>1, <1>2, <1>3, <1>4, <1>7, <1>9, <1>10, <1>12, Zenon DEF Room

(***************************************************************************)
(* The codec along a script.                                               *)
(***************************************************************************)
\* the codec takes the next byte of the script
Follows(ps, c, k, n, byte) ==
    LET d == DecodeByte(c, byte)
    IN  /\ ~Completes(c) => \E l \in 1 .. Len(ps) + 1 : Place(ps, d, k + 1, n, l)
        /\ Completes(c) => /\ \E l \in 1 .. Len(ps) + 1 : Place(ps, Emptied(d), k + 1, n + 1, l)
                           /\ n + 1 <= Len(Messages(ps))
                           /\ Messages(ps)[n + 1] = [type |-> d.type, data |-> d.data]

\* A codec that looks for a packet where one starts finds it.
LEMMA StartsPacket ==
    ASSUME NEW ps \in Scripts, NEW c \in CodecType, NEW i \in 1 .. Len(ps) + 1, NEW k, NEW n,
           c.st = "sync1", k = Start(ps)[i], n = Before(ps)[i], k < Len(Sent(ps))
    PROVE  Follows(ps, c, k, n, Sent(ps)[k + 1])
<1>1. ScriptLies(ps)
  BY ScriptLayout
<1>2. i \in 1 .. Len(ps)
  <2>1. Len(ps) \in Nat /\ Len(Sent(ps)) = Start(ps)[Len(ps) + 1] /\ Len(Sent(ps)) \in Nat
    BY <1>1 DEF ScriptLies
  <2>2. i # Len(ps) + 1
    BY <2>1
  <2> QED
    BY <2>1, <2>2
<1>3. PacketLies(ps, i)
  BY <1>1, <1>2 DEF ScriptLies
<1> DEFINE p == ps[i]
           f == Start(ps)[i]
<1>4. p \in Packets /\ f \in Nat /\ n \in Nat /\ k = f
      /\ \A x \in 1 .. FrameLen(p) : Sent(ps)[f + x] = Framed(p)[x]
  BY <1>3 DEF PacketLies
<1>5. 1 \in 1 .. FrameLen(p) /\ Framed(p)[1] = Sync1
  <2>1. FrameIs(p, Framed(p)) /\ Len(p.data) \in Nat /\ SizeLen \in Nat
    BY <1>4, FrameBytes, PacketType, SizeLenAssumption
  <2> QED
    BY <2>1 DEF FrameLen, FrameIs
<1>6. Sent(ps)[k + 1] = Sync1
  BY <1>4, <1>5
<1>7. InSync2(p, DecodeByte(c, Sent(ps)[k + 1]), 1, 0)
  BY <1>6, Sync1Step
<1>8. k + 1 = f + 1 /\ n = n + 0 /\ i <= Len(ps) /\ i \in 1 .. Len(ps) + 1 /\ 0 \in Nat /\ 1 \in Nat
  BY <1>1, <1>2, <1>4 DEF ScriptLies
<1> DEFINE d == DecodeByte(c, Sent(ps)[k + 1])
<1> HIDE DEF d
<1>11. InPacket(p, d, 1, 0)
  BY <1>7 DEF InPacket, d
<1>9. Place(ps, DecodeByte(c, Sent(ps)[k + 1]), k + 1, n, i)
  BY <1>8, <1>11, Zenon DEF Place, d
<1>10. ~Completes(c)
  BY DEF Completes
<1> QED
  BY <1>8, <1>9, <1>10 DEF Follows

\* Numbers of a frame that the steps of the codec need.
LEMMA FrameFacts ==
    ASSUME NEW p \in Packets
    PROVE  /\ FrameLen(p) \in Nat /\ SizeLen \in Nat /\ SizeLen >= 1 /\ Len(p.data) \in Nat
           /\ FrameLen(p) = 3 + SizeLen + Len(p.data)
           /\ 2 <= FrameLen(p) /\ 3 <= FrameLen(p) /\ 3 + SizeLen <= FrameLen(p)
           /\ Framed(p)[2] = Sync2 /\ Framed(p)[3] = SizeOf(p) /\ Framed(p)[3 + SizeLen] = p.type
           /\ \A y \in 1 .. Len(p.data) : Framed(p)[3 + SizeLen + y] = p.data[y]
<1>1. SizeLen \in Nat /\ SizeLen >= 1 /\ Len(p.data) \in Nat
  BY PacketType, SizeLenAssumption
<1>2. FrameLen(p) = 3 + SizeLen + Len(p.data)
  BY DEF FrameLen
<1>3. FrameLen(p) \in Nat /\ 2 <= FrameLen(p) /\ 3 <= FrameLen(p) /\ 3 + SizeLen <= FrameLen(p)
  <2>1. \A z, l \in Nat : 3 + z + l \in Nat /\ 2 <= 3 + z + l /\ 3 <= 3 + z + l /\ 3 + z <= 3 + z + l
    OBVIOUS
  <2> QED
    BY <1>1, <1>2, <2>1, Zenon
<1>4. FrameIs(p, Framed(p))
  BY FrameBytes
<1> QED
  BY <1>1, <1>2, <1>3, <1>4, Zenon DEF FrameIs

\* the codec has taken x bytes of the packet, and heard j of its messages
Middle(ps, i, c, x, j) ==
    /\ ScriptLies(ps) /\ PacketLies(ps, i) /\ c \in CodecType /\ x \in Nat /\ j \in Nat
    /\ i \in 1 .. Len(ps) /\ i \in 1 .. Len(ps) + 1 /\ i + 1 \in 1 .. Len(ps) + 1 /\ i <= Len(ps)
    /\ ps[i] \in Packets /\ Start(ps)[i] \in Nat /\ Before(ps)[i] \in Nat

\* The byte that follows is the next one of the packet.
LEMMA NextByte ==
    ASSUME NEW ps, NEW i, NEW c, NEW x, NEW j, Middle(ps, i, c, x, j), x + 1 <= FrameLen(ps[i])
    PROVE  Sent(ps)[Start(ps)[i] + x + 1] = Framed(ps[i])[x + 1]
<1>1. /\ x \in Nat /\ Start(ps)[i] \in Nat /\ ps[i] \in Packets
      /\ \A z \in 1 .. FrameLen(ps[i]) : Sent(ps)[Start(ps)[i] + z] = Framed(ps[i])[z]
  BY Zenon DEF Middle, PacketLies
<1>2. FrameLen(ps[i]) \in Nat
  BY <1>1, FrameFacts, Zenon
<1>3. \A m, f, z \in Nat : z + 1 <= m => z + 1 \in 1 .. m /\ f + z + 1 = f + (z + 1)
  OBVIOUS
<1>4. x + 1 \in 1 .. FrameLen(ps[i]) /\ Start(ps)[i] + x + 1 = Start(ps)[i] + (x + 1)
  <2>1. x \in Nat /\ Start(ps)[i] \in Nat
    BY Zenon DEF Middle
  <2> QED
    BY <1>2, <1>3, <2>1, Zenon
<1>5. \A z \in 1 .. FrameLen(ps[i]) : Sent(ps)[Start(ps)[i] + z] = Framed(ps[i])[z]
  BY <1>1, Zenon
<1> DEFINE z == x + 1
<1>6. z \in 1 .. FrameLen(ps[i]) /\ Start(ps)[i] + x + 1 = Start(ps)[i] + z
  BY <1>4, Zenon
<1> HIDE DEF z
<1>7. Sent(ps)[Start(ps)[i] + x + 1] = Framed(ps[i])[z]
  BY <1>5, <1>6, Zenon
<1> QED
  BY <1>7, Zenon DEF z

\* A codec that stays within the packet is at its place.
LEMMA Stays ==
    ASSUME NEW ps, NEW i, NEW c, NEW x, NEW j, Middle(ps, i, c, x, j),
           NEW e, NEW l \in Nat, InPacket(ps[i], e, x + 1, l)
    PROVE  \E m \in 1 .. Len(ps) + 1 :
              Place(ps, e, Start(ps)[i] + x + 1, Before(ps)[i] + l, m)
<1>1. x \in Nat /\ Start(ps)[i] \in Nat /\ i <= Len(ps) /\ i \in 1 .. Len(ps) + 1
  BY Zenon DEF Middle
<1>2. \A f, z \in Nat : f + z + 1 = f + (z + 1) /\ z + 1 \in Nat
  OBVIOUS
<1>3. Start(ps)[i] + x + 1 = Start(ps)[i] + (x + 1) /\ x + 1 \in Nat
  BY <1>1, <1>2, Zenon
<1>4. Place(ps, e, Start(ps)[i] + x + 1, Before(ps)[i] + l, i)
  BY <1>1, <1>3, Zenon DEF Place
<1> QED
  BY <1>1, <1>4, Zenon

\* So is a codec that has taken the last byte of the packet: it is where the next starts.
LEMMA Leaves ==
    ASSUME NEW ps, NEW i, NEW c, NEW x, NEW j, Middle(ps, i, c, x, j),
           NEW e, e.st = "sync1", x + 1 = FrameLen(ps[i])
    PROVE  \E m \in 1 .. Len(ps) + 1 :
              Place(ps, e, Start(ps)[i] + x + 1, Before(ps)[i] + Number(ps[i]), m)
<1>1. /\ x \in Nat /\ Start(ps)[i] \in Nat /\ i + 1 \in 1 .. Len(ps) + 1
      /\ Start(ps)[i + 1] = Start(ps)[i] + FrameLen(ps[i])
      /\ Before(ps)[i + 1] = Before(ps)[i] + Number(ps[i])
  BY Zenon DEF Middle, PacketLies
<1>2. \A f, z \in Nat : f + z + 1 = f + (z + 1)
  OBVIOUS
<1>3. Start(ps)[i] + x + 1 = Start(ps)[i + 1]
  BY <1>1, <1>2, Zenon
<1>4. Place(ps, e, Start(ps)[i] + x + 1, Before(ps)[i] + Number(ps[i]), i + 1)
  BY <1>1, <1>3, Zenon DEF Place
<1> QED
  BY <1>1, <1>4, Zenon

\* The codec follows the script through the sync bytes and the size field,
LEMMA ThroughHeader ==
    ASSUME NEW ps, NEW i, NEW c, NEW x, NEW j, Middle(ps, i, c, x, j),
           InSync2(ps[i], c, x, j) \/ InSize(ps[i], c, x, j)
    PROVE  Follows(ps, c, Start(ps)[i] + x, Before(ps)[i] + j, Sent(ps)[Start(ps)[i] + x + 1])
<1> DEFINE p == ps[i]
           byte == Sent(ps)[Start(ps)[i] + x + 1]
           d == DecodeByte(c, byte)
<1>1. p \in Packets /\ c \in CodecType /\ j \in Nat
  BY Zenon DEF Middle
<1>2. x + 1 <= FrameLen(p) => byte = Framed(p)[x + 1]
  BY NextByte
<1> HIDE DEF byte, p
<1>3. ASSUME InSync2(p, c, x, j) PROVE InPacket(p, d, x + 1, j) /\ ~Completes(c)
  <2>1. x = 1 /\ j = 0 /\ c.st = "sync2" /\ 2 = x + 1
    BY <1>3 DEF InSync2
  <2>2. byte = Sync2
    BY <1>1, <1>2, <2>1, FrameFacts, Zenon
  <2>3. InSize(p, d, 2, 0)
    BY <1>1, <1>3, <2>2, Sync2Step
  <2>4. InPacket(p, d, x + 1, j) /\ ~Completes(c)
    BY <2>1, <2>3 DEF InPacket, Completes
  <2> QED
    BY <2>4, Zenon
<1>4. ASSUME InSize(p, c, x, j) PROVE InPacket(p, d, x + 1, j) /\ ~Completes(c)
  <2>1. c.st = "size" /\ j = 0 /\ x = 2 + c.pos /\ (c.pos = 0 => 3 = x + 1)
    BY <1>4 DEF InSize
  <2>2. c.pos = 0 => byte = SizeOf(p)
    BY <1>1, <1>2, <2>1, FrameFacts, Zenon
  <2>3. InSize(p, d, x + 1, 0) \/ InType(p, d, x + 1, 0)
    BY <1>1, <1>4, <2>2, SizeStep
  <2>4. InPacket(p, d, x + 1, j) /\ ~Completes(c)
    BY <2>1, <2>3 DEF InPacket, Completes
  <2> QED
    BY <2>4, Zenon
<1>5. InPacket(p, d, x + 1, j) /\ ~Completes(c)
  BY <1>3, <1>4, Zenon DEF p
<1>6. \E m \in 1 .. Len(ps) + 1 : Place(ps, d, Start(ps)[i] + x + 1, Before(ps)[i] + j, m)
  BY <1>1, <1>5, Stays, Zenon DEF p
<1> QED
  BY <1>5, <1>6, Zenon DEF Follows, byte

\* through the type,
LEMMA ThroughType ==
    ASSUME NEW ps, NEW i, NEW c, NEW x, NEW j, Middle(ps, i, c, x, j), InType(ps[i], c, x, j)
    PROVE  Follows(ps, c, Start(ps)[i] + x, Before(ps)[i] + j, Sent(ps)[Start(ps)[i] + x + 1])
<1> DEFINE p == ps[i]
           byte == Sent(ps)[Start(ps)[i] + x + 1]
           d == DecodeByte(c, byte)
<1>1. p \in Packets /\ c \in CodecType /\ j \in Nat /\ Before(ps)[i] \in Nat /\ Carries(p, i = Len(ps))
  BY Zenon DEF Middle, PacketLies
<1>2. x + 1 <= FrameLen(p) => byte = Framed(p)[x + 1]
  BY NextByte
<1> HIDE DEF byte, p
<1>3. x = 2 + SizeLen /\ j = 0 /\ c.st = "type"
  BY DEF InType, p
<1>4. 3 + SizeLen = x + 1
  BY <1>3, SizeLenAssumption
<1>5. byte = p.type
  BY <1>1, <1>2, <1>4, FrameFacts, Zenon
<1>6. (p.len = 0 => d.st = "sync1") /\ (p.len # 0 => InPayload(p, d, x + 1, 0))
  BY <1>1, <1>5, TypeStep DEF p
<1>7. ~Completes(c)
  BY <1>3 DEF Completes
<1>8. \E m \in 1 .. Len(ps) + 1 : Place(ps, d, Start(ps)[i] + x + 1, Before(ps)[i] + j, m)
  <2>1. CASE p.len = 0
    <3>1. p.len \in Nat /\ p.loop \in BOOLEAN
      BY <1>1, PacketType
    <3>2. Len(p.data) = 0
      BY <1>1, <2>1, <3>1 DEF Carries
    <3>3. x + 1 = FrameLen(p) /\ Number(p) = j
      BY <1>3, <1>4, <2>1, <3>2, SizeLenAssumption DEF FrameLen, Number
    <3> QED
      BY <1>6, <2>1, <3>3, Leaves, Zenon DEF p
  <2>2. CASE p.len # 0
    <3>1. InPacket(p, d, x + 1, j)
      BY <1>3, <1>6, <2>2 DEF InPacket
    <3> QED
      BY <1>1, <3>1, Stays, Zenon DEF p
  <2> QED
    BY <2>1, <2>2
<1> QED
  BY <1>7, <1>8, Zenon DEF Follows, byte

\* and through the payload, where it hears the messages as they were sent.
LEMMA ThroughPayload ==
    ASSUME NEW ps, NEW i, NEW c, NEW x, NEW j, Middle(ps, i, c, x, j), InPayload(ps[i], c, x, j),
           Start(ps)[i] + x < Len(Sent(ps))
    PROVE  Follows(ps, c, Start(ps)[i] + x, Before(ps)[i] + j, Sent(ps)[Start(ps)[i] + x + 1])
<1> DEFINE p == ps[i]
           f == Start(ps)[i]
           g == Before(ps)[i]
           byte == Sent(ps)[f + x + 1]
           d == DecodeByte(c, byte)
           last == (i = Len(ps))
<1>1. /\ p \in Packets /\ c \in CodecType /\ x \in Nat /\ j \in Nat /\ f \in Nat /\ g \in Nat
      /\ Carries(p, last) /\ f + x < Len(Sent(ps)) /\ last \in BOOLEAN
      /\ g + Number(p) <= Len(Messages(ps))
      /\ last => Len(Sent(ps)) = f + FrameLen(p)
      /\ \A y \in 1 .. Number(p) : Messages(ps)[g + y] = Message(p, y)
  BY Zenon DEF Middle, PacketLies, ScriptLies
<1>2. x + 1 <= FrameLen(p) => byte = Framed(p)[x + 1]
  BY NextByte
<1>3. InPayload(p, c, x, j)
  OBVIOUS
<1> HIDE DEF byte, p, f, g, last
<1>4. p.loop => x < FrameLen(p)
  <2>1. p.len # 0 /\ p.loop \in BOOLEAN
    <3>1. c.pos < p.len /\ c.pos \in Nat /\ p.len \in Nat /\ p.loop \in BOOLEAN
      BY <1>1, <1>3, PacketType DEF InPayload, Same, CodecType
    <3> QED
      BY <3>1
  <2>2. p.loop => last
    <3>1. p.len \in Nat
      BY <1>1, PacketType
    <3>2. p.len > 0
      BY <2>1, <3>1
    <3> QED
      BY <1>1, <3>2, Zenon DEF Carries
  <2>3. \A a, b, l \in Nat : a + b < a + l => b < l
    OBVIOUS
  <2>4. FrameLen(p) \in Nat
    BY <1>1, FrameFacts, Zenon
  <2> QED
    BY <1>1, <2>2, <2>3, <2>4, Zenon
<1>5. /\ p.len \in Nat \ {0} /\ c.pos \in Nat /\ c.pos < p.len /\ j * p.len \in Nat
      /\ j * p.len + c.pos < Len(p.data) /\ x = 3 + SizeLen + j * p.len + c.pos
      /\ ~p.loop => j = 0 /\ Len(p.data) = p.len /\ Number(p) = 1
      /\ c.pos + 1 = p.len => j + 1 <= Number(p)
  <2>1. p \in Packets /\ last \in BOOLEAN /\ Carries(p, last) /\ c \in CodecType
    BY <1>1, Zenon
  <2>2. Room(p, c, x, j)
    BY <1>3, <1>4, <2>1, PayloadRoom
  <2> QED
    BY <2>2, Zenon DEF Room
<1> DEFINE y == j * p.len + c.pos + 1
<1>6. /\ y \in 1 .. Len(p.data) /\ 3 + SizeLen + y = x + 1 /\ 3 + SizeLen + y <= FrameLen(p)
  <2>1. SizeLen \in Nat /\ Len(p.data) \in Nat /\ FrameLen(p) = 3 + SizeLen + Len(p.data)
    BY <1>1, FrameFacts, Zenon
  <2>2. \A a, b, l, z \in Nat : a + b < l =>
           /\ a + b + 1 \in 1 .. l /\ 3 + z + (a + b + 1) = (3 + z + a + b) + 1
           /\ 3 + z + (a + b + 1) <= 3 + z + l
    OBVIOUS
  <2>3. j * p.len \in Nat /\ c.pos \in Nat /\ j * p.len + c.pos < Len(p.data)
    BY <1>5, Zenon
  <2>4. /\ y \in 1 .. Len(p.data) /\ 3 + SizeLen + y = (3 + SizeLen + j * p.len + c.pos) + 1
        /\ 3 + SizeLen + y <= 3 + SizeLen + Len(p.data)
    BY <2>1, <2>2, <2>3, Zenon
  <2> QED
    BY <1>5, <2>1, <2>4, Zenon
<1>7. byte = p.data[y]
  <2>1. byte = Framed(p)[3 + SizeLen + y]
    BY <1>2, <1>6, Zenon
  <2>2. Framed(p)[3 + SizeLen + y] = p.data[y]
    BY <1>1, <1>6, FrameFacts, Zenon
  <2> QED
    BY <2>1, <2>2, Zenon
<1>8. /\ ~Completes(c) => InPayload(p, d, x + 1, j)
      /\ Completes(c) =>
           /\ [type |-> d.type, data |-> d.data] = Message(p, j + 1)
           /\ p.loop => InPayload(p, Emptied(d), x + 1, j + 1)
           /\ ~p.loop => d.st = "sync1" /\ j = 0 /\ x + 1 = 3 + SizeLen + p.len
  <2>1. p \in Packets /\ c \in CodecType /\ j * p.len + c.pos < Len(p.data)
    BY <1>1, <1>5, Zenon
  <2> HIDE DEF d
  <2>2. Paid(p, c, x, j, byte)
    BY <1>3, <1>7, <2>1, PayloadStep
  <2> QED
    BY <2>2, Zenon DEF Paid, d
<1>9. ~Completes(c) => \E m \in 1 .. Len(ps) + 1 : Place(ps, d, f + x + 1, g + j, m)
  <2>1. ~Completes(c) => InPacket(p, d, x + 1, j)
    BY <1>8, Zenon DEF InPacket
  <2> QED
    BY <1>1, <2>1, Stays, Zenon DEF p, f, g
<1>10. ASSUME Completes(c)
       PROVE  /\ g + j + 1 <= Len(Messages(ps))
              /\ Messages(ps)[g + j + 1] = [type |-> d.type, data |-> d.data]
  <2>1. c.pos + 1 = p.len
    BY <1>3, <1>10 DEF Completes, InPayload, Same
  <2>2. j + 1 <= Number(p) /\ Number(p) \in Nat /\ Len(Messages(ps)) \in Nat
    <3>1. Len(Messages(ps)) \in Nat
      BY Zenon DEF Middle, ScriptLies
    <3> QED
      BY <1>1, <1>5, <2>1, <3>1, NumberType, Zenon
  <2>3. \A a, b, m, l \in Nat : b + 1 <= m /\ a + m <= l =>
           b + 1 \in 1 .. m /\ a + b + 1 = a + (b + 1) /\ a + b + 1 <= l
    OBVIOUS
  <2>4. j + 1 \in 1 .. Number(p) /\ g + j + 1 = g + (j + 1) /\ g + j + 1 <= Len(Messages(ps))
    BY <1>1, <2>2, <2>3, Zenon
  <2>5. Messages(ps)[g + j + 1] = Message(p, j + 1)
    BY <1>1, <2>4, Zenon
  <2> QED
    BY <1>8, <1>10, <2>4, <2>5, Zenon
<1>11. ASSUME Completes(c)
       PROVE  \E m \in 1 .. Len(ps) + 1 : Place(ps, Emptied(d), f + x + 1, g + j + 1, m)
  <2>1. g + j + 1 = g + (j + 1) /\ j + 1 \in Nat
    BY <1>1
  <2>2. CASE p.loop
    <3>1. InPacket(p, Emptied(d), x + 1, j + 1)
      BY <1>8, <1>11, <2>2, Zenon DEF InPacket
    <3> QED
      BY <2>1, <3>1, Stays, Zenon DEF p, f, g
  <2>3. CASE ~p.loop
    <3>1. d.st = "sync1" /\ j = 0 /\ x + 1 = 3 + SizeLen + p.len
      BY <1>8, <1>11, <2>3, Zenon
    <3>2. Emptied(d).st = "sync1"
      <4>1. p.data \in Seq(Nat) 
        BY <1>1, PacketType, Zenon
      <4>2. byte \in Nat
        BY <1>6, <1>7, <4>1, ElementOfSeq
      <4>3. d \in CodecType
        BY <1>1, <4>2, DecodeType
      <4> HIDE DEF d
      <4> QED
        BY <3>1, <4>3 DEF Emptied, CodecType
    <3>3. x + 1 = FrameLen(p) /\ j + 1 = Number(p)
      BY <1>5, <2>3, <3>1 DEF FrameLen
    <3>4. \E m \in 1 .. Len(ps) + 1 : Place(ps, Emptied(d), f + x + 1, g + Number(p), m)
      BY <3>2, <3>3, Leaves, Zenon DEF p, f, g
    <3> QED
      BY <2>1, <3>3, <3>4, Zenon
  <2> QED
    BY <2>2, <2>3
<1> QED
  BY <1>9, <1>10, <1>11, Zenon DEF Follows, byte, f, g

\* Together: from its place the codec follows the script by every next byte, and a message
\* that it completes is the next one of the script.
LEMMA StepsThrough ==
    ASSUME NEW ps \in Scripts, NEW c \in CodecType, NEW i \in 1 .. Len(ps) + 1,
           NEW k \in Nat, NEW n \in Nat, Place(ps, c, k, n, i), k < Len(Sent(ps))
    PROVE  Follows(ps, c, k, n, Sent(ps)[k + 1])
<1>1. CASE c.st = "sync1" /\ k = Start(ps)[i] /\ n = Before(ps)[i]
  BY <1>1, StartsPacket
<1>2. ASSUME i <= Len(ps), NEW x \in Nat, NEW j \in Nat, k = Start(ps)[i] + x, n = Before(ps)[i] + j,
             InPacket(ps[i], c, x, j)
      PROVE  Follows(ps, c, k, n, Sent(ps)[k + 1])
  <2>1. ScriptLies(ps)
    BY ScriptLayout
  <2>2. i \in 1 .. Len(ps) /\ i + 1 \in 1 .. Len(ps) + 1
    <3>1. Len(ps) \in Nat
      BY <2>1 DEF ScriptLies
    <3> QED
      BY <1>2, <3>1
  <2>3. PacketLies(ps, i)
    BY <2>1, <2>2 DEF ScriptLies
  <2>4. Middle(ps, i, c, x, j)
    BY <1>2, <2>1, <2>2, <2>3, Zenon DEF Middle, PacketLies
  <2> QED
    BY <1>2, <2>4, ThroughHeader, ThroughType, ThroughPayload, Zenon DEF InPacket
<1> QED
  BY <1>1, <1>2, Zenon DEF Place

\* Arithmetic of the end of a packet.
LEMMA Cancel ==
    ASSUME NEW s \in Nat, NEW b \in Nat, NEW q \in Nat, NEW l \in Nat
    PROVE  /\ 3 + s + l <= 3 + s + b + q => l <= b + q
           /\ 3 + s + b + q <= 3 + s + l => b + q <= l
  OBVIOUS

\* When the codec has taken every byte of the script, it has heard every message.
LEMMA EndsScript ==
    ASSUME NEW ps \in Scripts, NEW c \in CodecType, NEW i \in 1 .. Len(ps) + 1,
           NEW k, NEW n, Place(ps, c, k, n, i), k = Len(Sent(ps))
    PROVE  n = Len(Messages(ps))
<1>1. ScriptLies(ps)
  BY ScriptLayout
<1>2. Len(ps) \in Nat
  BY <1>1 DEF ScriptLies
<1>3. ASSUME i = Len(ps) + 1 PROVE n = Len(Messages(ps))
  <2>1. ~(i <= Len(ps))
    BY <1>2, <1>3
  <2>2. n = Before(ps)[i]
    BY <2>1 DEF Place
  <2> QED
    BY <1>1, <1>3, <2>2 DEF ScriptLies
<1>4. ASSUME i # Len(ps) + 1 PROVE n = Len(Messages(ps))
  <2>1. i \in 1 .. Len(ps)
    BY <1>2, <1>4
  <2>2. PacketLies(ps, i)
    BY <1>1, <2>1 DEF ScriptLies
  <2> DEFINE p == ps[i]
             f == Start(ps)[i]
             last == (i = Len(ps))
  <2>3. /\ p \in Packets /\ Carries(p, last) /\ f \in Nat /\ f + FrameLen(p) <= k
        /\ Before(ps)[i + 1] = Before(ps)[i] + Number(p)
        /\ last => k = f + FrameLen(p) /\ Before(ps)[i + 1] = Len(Messages(ps))
    BY <1>1, <2>2 DEF PacketLies, ScriptLies
  <2> HIDE DEF p, f, last
  <2>4. /\ FrameLen(p) \in Nat /\ SizeLen \in Nat /\ SizeLen >= 1 /\ Len(p.data) \in Nat
        /\ FrameLen(p) = 3 + SizeLen + Len(p.data) /\ p.len \in Nat /\ p.loop \in BOOLEAN
    BY <2>3, FrameFacts, PacketType
  <2>5. k # f
    <3>1. \A m, t \in Nat : t >= 1 => ~(m + (3 + t) <= m) /\ \A l \in Nat : ~(m + (3 + t + l) <= m)
      OBVIOUS
    <3> QED
      BY <2>3, <2>4, <3>1, Zenon
  <2>6. PICK x \in Nat, j \in Nat : k = f + x /\ n = Before(ps)[i] + j /\ InPacket(p, c, x, j)
    BY <2>5 DEF Place, p, f
  <2>7. FrameLen(p) <= x /\ (last => x = FrameLen(p))
    <3>1. \A m, t, y \in Nat : (m + t <= m + y => t <= y) /\ (m + y = m + t => y = t)
      OBVIOUS
    <3>2. f + FrameLen(p) <= f + x /\ (last => f + x = f + FrameLen(p))
      BY <2>3, <2>6
    <3> QED
      BY <2>3, <2>4, <2>6, <3>1, <3>2, Zenon
  <2>8. c.pos \in Nat /\ c.len \in Nat
    BY DEF CodecType
  <2>9. ~InSync2(p, c, x, j) /\ ~InSize(p, c, x, j) /\ ~InType(p, c, x, j)
    <3>1. 3 + SizeLen <= x /\ x \in Nat /\ SizeLen \in Nat
      <4>1. \A s, l, y \in Nat : 3 + s + l <= y => 3 + s <= y
        OBVIOUS
      <4> QED
        BY <2>4, <2>6, <2>7, <4>1, Zenon
    <3>2. c.pos < SizeLen => x # 2 + c.pos
      BY <2>8, <3>1
    <3>3. x # 1 /\ x # 2 + SizeLen
      BY <3>1
    <3> QED
      BY <3>2, <3>3, Zenon DEF InSync2, InSize, InType
  <2>10. InPayload(p, c, x, j)
    BY <2>6, <2>9 DEF InPacket
  <2>11. /\ c.pos < p.len /\ x = 3 + SizeLen + j * p.len + c.pos /\ (~p.loop => j = 0)
    BY <2>10 DEF InPayload, Same
  <2> DEFINE a == j * p.len
  <2>12. a \in Nat /\ (j = 0 => a = 0)
    BY <2>4, <2>6, Product, Zenon
  <2>13. x = 3 + SizeLen + a + c.pos
    BY <2>11, Zenon
  <2> HIDE DEF a
  <2>14. Len(p.data) <= a + c.pos /\ (last => Len(p.data) = a + c.pos) /\ p.len > 0 /\ p.len # 0
    <3>1. SizeLen \in Nat /\ a \in Nat /\ c.pos \in Nat /\ Len(p.data) \in Nat
      BY <2>4, <2>8, <2>12, Zenon
    <3>2. Len(p.data) <= a + c.pos /\ (last => Len(p.data) = a + c.pos)
      <4>1. 3 + SizeLen + Len(p.data) <= 3 + SizeLen + a + c.pos
        BY <2>4, <2>7, <2>13, Zenon
      <4>2. last => 3 + SizeLen + a + c.pos <= 3 + SizeLen + Len(p.data)
        <5>1. FrameLen(p) \in Nat /\ (last => x = FrameLen(p))
          BY <2>4, <2>7, Zenon
        <5>2. last => x <= FrameLen(p)
          BY <5>1
        <5> QED
          BY <2>4, <2>13, <5>2, Zenon
      <4>3. Len(p.data) <= a + c.pos
        BY <3>1, <4>1, Cancel
      <4>4. last => a + c.pos <= Len(p.data)
        BY <3>1, <4>2, Cancel
      <4>5. \A u, v \in Nat : u <= v /\ v <= u => u = v
        OBVIOUS
      <4>6. a + c.pos \in Nat
        BY <3>1
      <4> QED
        BY <3>1, <4>3, <4>4, <4>5, <4>6, Zenon
    <3>3. \A q, l \in Nat : q < l => l > 0 /\ l # 0
      OBVIOUS
    <3> QED
      BY <2>4, <2>8, <2>11, <3>2, <3>3, Zenon
  <2>15. p.loop
    <3> SUFFICES ASSUME ~p.loop PROVE FALSE
      BY <2>4
    <3>1. Len(p.data) = p.len
      BY <2>3 DEF Carries
    <3>2. \A q, l \in Nat : q < l => ~(l <= 0 + q)
      OBVIOUS
    <3> QED
      BY <2>4, <2>8, <2>11, <2>12, <2>14, <3>1, <3>2, Zenon
  <2>16. last
    BY <2>3, <2>14, <2>15 DEF Carries
  <2>17. Number(p) = j
    <3>1. c.pos \in 0 .. p.len - 1 /\ p.len \in Nat \ {0} /\ j \in Nat
      <4>1. \A q, l \in Nat : q < l => q \in 0 .. l - 1 /\ l \in Nat \ {0}
        OBVIOUS
      <4> QED
        BY <2>4, <2>6, <2>8, <2>11, <4>1, Zenon
    <3>2. Len(p.data) = j * p.len + c.pos
      BY <2>14, <2>16 DEF a
    <3>3. Len(p.data) \div p.len = j
      BY <2>4, <3>1, <3>2, Quotient
    <3> QED
      BY <2>14, <3>3 DEF Number
  <2> QED
    BY <2>3, <2>6, <2>16, <2>17
<1> QED
  BY <1>3, <1>4

(***************************************************************************)
(* What the listener has heard, and what it is being told.                 *)
(***************************************************************************)
\* the messages that were heard, and the one that the listener is being told
Said == IF dec.pc = "listen" THEN Append(heard, dec.msg) ELSE heard
SaidIsSent ==
    /\ Len(Said) <= Len(Messages(packets))
    /\ \A y \in 1 .. Len(Said) : Said[y] = Messages(packets)[y]
\* the bytes that are left are the script from its k-th byte on
Remains(k) ==
    /\ k + Len(Left) = Len(Sent(packets))
    /\ \A y \in 1 .. Len(Left) : Left[y] = Sent(packets)[k + y]
\* the codec is where the bytes that are left begin
InStep == \E k \in Nat, i \in 1 .. Len(packets) + 1 :
              Remains(k) /\ Place(packets, codec, k, Len(Said), i)
HeardInv == packets \in Scripts /\ (~cut => SaidIsSent /\ InStep)

\* a step that decodes no byte
Rests ==
    /\ Said' = Said
    /\ codec' = codec \/ (codec.st = "sync1" /\ codec'.st = "sync1")

\* The caller's steps cut nothing only where they leave the codec between packets.
LEMMA CallerRests == ASSUME LinkInv, Caller, ~cut' PROVE packets' = packets /\ Rests
<1> USE DEF LinkInv
<1>1. ASSUME Binds, Joined, UNCHANGED <<packets, codec, heard>> PROVE packets' = packets /\ Rests
  <2>1. dec'.pc \notin {"decode", "listen"}
    BY <1>1, BindsType
  <2> QED
    BY <1>1, <2>1 DEF Rests, Said, Joined
<1>2. ASSUME Connect PROVE packets' = packets /\ Rests
  <2>1. Joined
    BY <1>2 DEF Holds, Connect
  <2> QED
    BY <1>1, <1>2, <2>1 DEF Connect
<1>3. ASSUME NegotiateEnds PROVE packets' = packets /\ Rests
  BY <1>1, <1>3 DEF NegotiateEnds
<1>4. ASSUME ExitLoopMode PROVE packets' = packets /\ Rests
  <2>1. /\ codec' = CodecReset /\ dec' \in {dec, [dec EXCEPT !.msg = Torn]} /\ ~MidPacket
        /\ heard' = heard /\ packets' = packets
    BY <1>4 DEF ExitLoopMode, device
  <2>2. codec.st = "sync1" /\ dec.pc # "listen"
    BY <2>1 DEF MidPacket
  <2>3. dec'.pc = dec.pc
    BY <2>1 DEF Types, DecType
  <2> QED
    BY <2>1, <2>2, <2>3 DEF Rests, Said, CodecReset
<1>5. ASSUME UNCHANGED <<packets, dec, codec, heard>> PROVE packets' = packets /\ Rests
  BY <1>5 DEF Rests, Said
<1>6. ASSUME ConnectDisposed \/ Disconnect \/ DisconnectUnopened \/ DisconnectEnds \/ Negotiate
      PROVE  UNCHANGED <<packets, dec, codec, heard>>
  BY <1>6 DEF ConnectDisposed, Disconnect, Negotiate, Begins, DisconnectUnopened, DisconnectEnds,
     device, threads
<1> QED
  BY <1>2, <1>3, <1>4, <1>5, <1>6, Zenon DEF Caller

\* Every step of the decoding thread but that of a byte leaves codec and messages alone.
LEMMA DecRests ==
    ASSUME LinkInv, Dec, ~cut'
    PROVE  packets' = packets /\ (DecByte \/ Rests)
<1> USE DEF LinkInv
<1>1. packets' = packets
  BY DEF Dec, DecReset, DecCheck, DecWait, DecByte, DecListen, DecDone, decIdle, device
<1>2. dec \in DecType
  BY DEF Types
<1>3. ASSUME dec.pc # "listen", dec'.pc # "listen", heard' = heard, codec' = codec PROVE Rests
  BY <1>3 DEF Rests, Said
<1>4. ASSUME DecReset PROVE Rests
  <2>1. codec.st = "sync1" /\ codec'.st = "sync1" /\ heard' = heard
    BY <1>4 DEF DecReset, CodecReset
  <2>2. dec.pc # "listen" /\ dec'.pc # "listen"
    BY <1>2, <1>4 DEF DecReset, DecType
  <2> QED
    BY <2>1, <2>2 DEF Rests, Said
<1>5. ASSUME DecCheck \/ DecWait \/ DecDone PROVE Rests
  <2>1. dec.pc # "listen" /\ dec'.pc # "listen" /\ heard' = heard /\ codec' = codec
    BY <1>2, <1>5 DEF DecCheck, DecWait, DecDone, DecType
  <2> QED
    BY <1>3, <2>1
<1>6. ASSUME DecListen PROVE Rests
  <2>1. dec.pc = "listen" /\ dec'.pc = "decode" /\ heard' = Append(heard, dec.msg) /\ codec' = codec
    BY <1>2, <1>6 DEF DecListen, DecType
  <2> QED
    BY <2>1 DEF Rests, Said
<1> QED
  BY <1>1, <1>4, <1>5, <1>6 DEF Dec

\* The receiving thread touches neither codec nor listener.
LEMMA RxIdles == Rx => UNCHANGED rxIdle
<1>1. RxStop => UNCHANGED rxIdle
  BY Zenon DEF RxStop
<1>2. RxWait => UNCHANGED rxIdle
  BY Zenon DEF RxWait
<1>3. RxRead => UNCHANGED rxIdle
  BY Zenon DEF RxRead
<1>4. RxPush => UNCHANGED rxIdle
  BY Zenon DEF RxPush
<1> QED
  BY <1>1, <1>2, <1>3, <1>4 DEF Rx

\* The script stays what it was.
LEMMA NextKeepsScript == [Next]_vars => packets' = packets
<1>1. Caller => packets' = packets
  BY DEF Caller, Connect, ConnectDisposed, Disconnect, Negotiate, Begins, DisconnectUnopened,
     DisconnectEnds, NegotiateEnds, ExitLoopMode, device
<1>2. Rx => packets' = packets
  BY RxIdles DEF rxIdle
<1>3. Dec => packets' = packets
  BY DEF Dec, DecReset, DecCheck, DecWait, DecByte, DecListen, DecDone, decIdle, device
<1>4. DeviceSends \/ Unplug \/ UNCHANGED vars => packets' = packets
  BY DEF DeviceSends, Unplug, vars, device
<1> QED
  BY <1>1, <1>2, <1>3, <1>4 DEF Next

\* Every step without a cut decodes a byte or leaves codec and messages alone.
LEMMA OtherwiseRests ==
    ASSUME LinkInv, [Next]_vars, ~cut'
    PROVE  packets' = packets /\ (DecByte \/ Rests)
<1>1. ASSUME UNCHANGED <<packets, dec, codec, heard>> PROVE packets' = packets /\ Rests
  BY <1>1 DEF Rests, Said
<1>2. ASSUME Rx \/ DeviceSends \/ Unplug \/ UNCHANGED vars PROVE packets' = packets /\ Rests
  <2>1. UNCHANGED <<packets, dec, codec, heard>>
    <3>1. CASE Rx
      BY <3>1, RxIdles DEF rxIdle
    <3>2. CASE DeviceSends \/ Unplug
      BY <3>2 DEF DeviceSends, Unplug, threads
    <3>3. CASE UNCHANGED vars
      BY <3>3 DEF vars, device, threads
    <3> QED
      BY <1>2, <3>1, <3>2, <3>3
  <2> QED
    BY <1>1, <2>1
<1> QED
  BY <1>2, CallerRests, DecRests DEF Next

\* A byte that is decoded is the first of those that are left.
LEMMA TakesFirst ==
    ASSUME LinkInv, DecByte
    PROVE  /\ Left = Cat(<<Head(dec.rest)>>, Left') /\ Left' \in Seq(ByteValues)
           /\ <<Head(dec.rest)>> \in Seq(ByteValues)
<1> USE DEF LinkInv
<1> DEFINE b == <<Head(dec.rest)>>
           x == Tail(dec.rest)
           q == FlattenSeq(queue)
           z == Cat(Cat(Cat(x, q), rx.chunk), wire)
<1>1. /\ dec.rest # <<>> /\ dec \in DecType /\ script \in Seq(ByteValues)
      /\ UNCHANGED <<queue, rx, wire, script>>
  BY DEF DecByte, Types, decIdle, device
<1>2. dec'.rest = x
  BY <1>1 DEF DecByte, DecType
<1>3. dec.rest = Cat(b, x) /\ x \in Seq(ByteValues) /\ b \in Seq(ByteValues)
  BY <1>1, TailType DEF DecType, Cat
<1>4. q \in Seq(ByteValues) /\ rx.chunk \in Seq(ByteValues) /\ wire \in Seq(ByteValues)
  BY PipeIs DEF Types
<1>5. Pipe' = z
  BY <1>1, <1>2 DEF Pipe, Cat
<1>6. Pipe = Cat(Cat(Cat(Cat(b, x), q), rx.chunk), wire)
  BY <1>3 DEF Pipe, Cat
<1> HIDE DEF b, x, q
<1>7. Pipe = Cat(b, z)
  BY <1>3, <1>4, <1>6, CatFive
<1>8. z \in Seq(ByteValues)
  BY <1>3, <1>4, CatType
<1> HIDE DEF z
<1>9. Left' = Cat(z, script)
  BY <1>1, <1>5 DEF Left
<1>10. Left = Cat(Cat(b, z), script)
  BY <1>7 DEF Left
<1>11. Left = Cat(b, Left') /\ Left' \in Seq(ByteValues)
  BY <1>1, <1>3, <1>8, <1>9, <1>10, CatType, CatAssociative
<1> QED
  BY <1>3, <1>11 DEF b

\* A step that decodes nothing keeps the codec in step with the script.
LEMMA RestsKeeps ==
    ASSUME HeardInv, LinkInv, packets' = packets, Rests, Left' = Left, ~cut
    PROVE  SaidIsSent' /\ InStep'
<1>1. PICK k \in Nat, i \in 1 .. Len(packets) + 1 :
        Remains(k) /\ Place(packets, codec, k, Len(Said), i)
  BY DEF HeardInv, InStep
<1>2. SaidIsSent /\ Said' = Said /\ packets' = packets
  BY DEF HeardInv, Rests
<1>3. SaidIsSent'
  BY <1>2 DEF SaidIsSent
<1>4. Remains(k)'
  BY <1>1 DEF Remains
<1>5. Place(packets, codec', k, Len(Said), i)
  <2>1. CASE codec' = codec
    BY <1>1, <2>1
  <2>2. CASE codec.st = "sync1" /\ codec'.st = "sync1"
    <3>1. ~\E x, j \in Nat : InPacket(packets[i], codec, x, j)
      BY <2>2 DEF InPacket, InSync2, InSize, InType, InPayload
    <3>2. k = Start(packets)[i] /\ Len(Said) = Before(packets)[i]
      BY <1>1, <3>1, Zenon DEF Place
    <3> QED
      BY <2>2, <3>2, Zenon DEF Place
  <2> QED
    BY <2>1, <2>2 DEF Rests
<1>6. Place(packets, codec, k, Len(Said), i)'
  BY <1>2, <1>5
<1> QED
  BY <1>1, <1>2, <1>3, <1>4, <1>6 DEF InStep

\* When a byte is decoded, the script remains from the next one on.
LEMMA RemainsNext ==
    ASSUME HeardInv, LinkInv, packets' = packets, DecByte, NEW k \in Nat, Remains(k)
    PROVE  /\ k < Len(Sent(packets)) /\ Sent(packets)[k + 1] = Head(dec.rest)
           /\ Remains(k + 1)' /\ k + 1 \in Nat
<1> DEFINE b == <<Head(dec.rest)>>
           z == Left'
           t == Sent(packets)
<1>1. Left = Cat(b, z) /\ z \in Seq(ByteValues) /\ b \in Seq(ByteValues)
  BY TakesFirst
<1>2. b[1] = Head(dec.rest) /\ Len(b) = 1
  OBVIOUS
<1>3. k + Len(Left) = Len(t) /\ \A y \in 1 .. Len(Left) : Left[y] = t[k + y]
  BY DEF Remains
<1>4. packets' = packets
  OBVIOUS
<1> HIDE DEF b, z, t
<1>5. Consists(Left, b, z)
  BY <1>1, CatElements
<1>6. /\ Len(z) \in Nat /\ Len(Left) = 1 + Len(z) /\ Left[1] = b[1]
      /\ \A y \in 1 .. Len(z) : Left[1 + y] = z[y]
  BY <1>2, <1>5 DEF Consists
<1>7. t[k + 1] = Head(dec.rest) /\ k < Len(t)
  <2>1. 1 \in 1 .. Len(Left)
    BY <1>6
  <2>2. Left[1] = t[k + 1]
    BY <1>3, <2>1
  <2>3. k < k + Len(Left)
    BY <1>6
  <2> QED
    BY <1>2, <1>3, <1>6, <2>2, <2>3
<1>8. (k + 1) + Len(z) = Len(t)
  BY <1>3, <1>6
<1>9. ASSUME NEW y \in 1 .. Len(z) PROVE z[y] = t[(k + 1) + y]
  <2>1. 1 + y \in 1 .. Len(Left) /\ k + (1 + y) = (k + 1) + y
    BY <1>6
  <2>2. Left[1 + y] = t[k + (1 + y)]
    BY <1>3, <2>1
  <2> QED
    BY <1>6, <2>1, <2>2
<1>10. Remains(k + 1)'
  BY <1>4, <1>8, <1>9 DEF Remains, z, t
<1> QED
  BY <1>7, <1>10 DEF t

\* A byte that is decoded keeps the codec in step with the script.
LEMMA ByteKeeps ==
    ASSUME HeardInv, LinkInv, packets' = packets, DecByte, ~cut
    PROVE  SaidIsSent' /\ InStep'
<1>1. PICK k \in Nat, i \in 1 .. Len(packets) + 1 :
        Remains(k) /\ Place(packets, codec, k, Len(Said), i)
  BY DEF HeardInv, InStep
<1> DEFINE b == Head(dec.rest)
           d == DecodeByte(codec, b)
           n == Len(heard)
           msg == [type |-> d.type, data |-> d.data]
           k1 == k + 1
<1>2. packets \in Scripts /\ codec \in CodecType /\ dec \in DecType /\ heard \in Seq(Heard) /\ n \in Nat
  BY LenProperties DEF HeardInv, LinkInv, Types
<1>3. dec.pc = "decode" /\ heard' = heard /\ Said = heard
  BY DEF DecByte, Said
<1>4. IF Completes(codec) THEN codec' = Emptied(d) /\ dec'.pc = "listen" /\ dec'.msg = msg
      ELSE codec' = d /\ dec'.pc = "decode"
  BY <1>2, <1>3 DEF DecByte, DecType
<1>5. b = Sent(packets)[k + 1] /\ k < Len(Sent(packets)) /\ Remains(k1)' /\ k1 \in Nat
  BY <1>1, RemainsNext
<1>6. Place(packets, codec, k, n, i)
  BY <1>1, <1>3
<1> HIDE DEF b, d, n
<1>7. Follows(packets, codec, k, n, b)
  BY <1>1, <1>2, <1>5, <1>6, StepsThrough
<1>8. SaidIsSent
  BY DEF HeardInv
<1>9. CASE ~Completes(codec)
  <2>1. PICK l \in 1 .. Len(packets) + 1 : Place(packets, d, k1, n, l)
    BY <1>7, <1>9 DEF Follows, d
  <2>2. Said' = heard /\ codec' = d
    BY <1>3, <1>4, <1>9 DEF Said
  <2>3. Place(packets, codec, k1, Len(Said), l)'
    BY <2>1, <2>2 DEF n
  <2>4. SaidIsSent'
    BY <1>3, <1>8, <2>2 DEF SaidIsSent
  <2> HIDE DEF k1
  <2> QED
    BY <1>5, <2>1, <2>3, <2>4 DEF InStep
<1>10. CASE Completes(codec)
  <2>1. /\ \E l \in 1 .. Len(packets) + 1 : Place(packets, Emptied(d), k1, n + 1, l)
        /\ n + 1 <= Len(Messages(packets)) /\ Messages(packets)[n + 1] = msg
    BY <1>7, <1>10 DEF Follows, d
  <2>2. PICK l \in 1 .. Len(packets) + 1 : Place(packets, Emptied(d), k1, n + 1, l)
    BY <2>1
  <2>3. Said' = Append(heard, msg) /\ codec' = Emptied(d)
    BY <1>3, <1>4, <1>10 DEF Said
  <2>4. msg \in Heard
    <3>1. dec.rest # <<>>
      BY DEF DecByte
    <3>2. d \in CodecType
      BY <1>3, <3>1, ListensType DEF LinkInv, d, b
    <3> QED
      BY <3>2 DEF CodecType, Heard
  <2> HIDE DEF msg
  <2>5. /\ Len(Append(heard, msg)) = n + 1 /\ Append(heard, msg)[n + 1] = msg
        /\ \A y \in 1 .. n : Append(heard, msg)[y] = heard[y]
    BY <1>2, <2>4, AppendProperties DEF n
  <2>6. Place(packets, codec, k1, Len(Said), l)'
    BY <2>2, <2>3, <2>5
  <2>7. SaidIsSent'
    <3>1. \A y \in 1 .. n : heard[y] = Messages(packets)[y]
      BY <1>3, <1>8 DEF SaidIsSent, n
    <3>2. \A y \in 1 .. n + 1 : y \in 1 .. n \/ y = n + 1
      BY <1>2
    <3>3. \A y \in 1 .. n + 1 : Append(heard, msg)[y] = Messages(packets)[y]
      BY <2>1, <2>5, <3>1, <3>2
    <3> QED
      BY <2>1, <2>3, <2>5, <3>3 DEF SaidIsSent
  <2> HIDE DEF k1
  <2> QED
    BY <1>5, <2>2, <2>6, <2>7 DEF InStep
<1> QED
  BY <1>9, <1>10

\* Every step keeps the codec in step with the script, or cuts it.
LEMMA HeardStep == HeardInv /\ LinkInv /\ [Next]_vars => HeardInv'
<1> SUFFICES ASSUME HeardInv, LinkInv, [Next]_vars PROVE HeardInv'
  OBVIOUS
<1>1. packets' = packets
  BY NextKeepsScript
<1>2. ASSUME ~cut' PROVE SaidIsSent' /\ InStep'
  <2>1. ~cut /\ (Left' = Left \/ DecByte) /\ (DecByte \/ Rests)
    BY <1>2, StepsOK, OtherwiseRests DEF InLine
  <2> QED
    BY <1>1, <2>1, RestsKeeps, ByteKeeps
<1> QED
  BY <1>1, <1>2 DEF HeardInv

\* Initially the codec is at the beginning of the script.
LEMMA HeardInit == Init => HeardInv
<1> SUFFICES ASSUME Init PROVE HeardInv
  OBVIOUS
<1>1. packets \in Scripts
  BY DEF Init, Scripts
<1>2. ScriptLies(packets)
  BY <1>1, ScriptLayout
<1>3. Len(packets) \in Nat /\ Len(Messages(packets)) \in Nat
  BY <1>2 DEF ScriptLies
<1>4. Said = <<>>
  BY DEF Init, Said
<1>5. Len(Said) = 0
  BY <1>4
<1>6. SaidIsSent
  BY <1>3, <1>5 DEF SaidIsSent
<1>7. Left = Sent(packets)
  <2>1. dec.rest = <<>> /\ queue = <<>> /\ rx.chunk = <<>> /\ wire = <<>> /\ script = Sent(packets)
    BY DEF Init
  <2>2. FlattenSeq(<<>>) = <<>>
    BY FlattenIs, EmptySeq
  <2>3. Pipe = <<>>
    BY <2>1, <2>2 DEF Pipe
  <2>4. Sent(packets) \in Seq(ByteValues)
    BY <1>1, ScriptBytes
  <2> QED
    BY <2>1, <2>3, <2>4, CatEmpty DEF Left
<1>8. Remains(0)
  <2>1. Len(Sent(packets)) \in Nat
    BY <1>2 DEF ScriptLies
  <2> QED
    BY <1>7, <2>1 DEF Remains
<1>9. Place(packets, codec, 0, 0, 1)
  <2>1. codec.st = "sync1"
    BY DEF Init, CodecReset
  <2> QED
    BY <1>2, <2>1, Zenon DEF Place, ScriptLies
<1>10. 1 \in 1 .. Len(packets) + 1
  BY <1>3
<1>11. Place(packets, codec, 0, Len(Said), 1)
  BY <1>5, <1>9
<1>12. InStep
  BY <1>8, <1>10, <1>11 DEF InStep
<1> QED
  BY <1>1, <1>6, <1>12 DEF HeardInv

\* The messages of a script are a sequence.
LEMMA MessagesType == ASSUME NEW ps \in Scripts PROVE \E S : Messages(ps) \in Seq(S)
<1>1. ps \in Seq(Packets)
  BY LinksAssumption DEF Scripts
<1>2. PICK S : Parts(ps) \in Seq(Seq(S))
  BY <1>1, PartsType
<1>3. Messages(ps) = FlattenSeq(Parts(ps))
  BY DEF Messages, Parts, Number, Message
<1>4. <<>> \in Seq(S)
  BY EmptySeq
<1>5. FlattenSeq(Parts(ps)) \in Seq(S)
  BY <1>2, <1>4, FlattenAppend
<1> QED
  BY <1>3, <1>5

\* A sequence whose elements are the first of another one is its prefix.
LEMMA AgreesIsPrefix ==
    ASSUME NEW S, NEW s \in Seq(S), NEW R, NEW t \in Seq(R), Len(s) <= Len(t),
           \A y \in 1 .. Len(s) : s[y] = t[y]
    PROVE  IsPrefix(s, t) /\ (Len(s) = Len(t) => s = t)
<1>1. Len(s) \in Nat /\ Len(t) \in Nat
  BY LenProperties
<1>2. SubSeq(s, 1, Len(s)) = [y \in 1 .. Len(s) |-> s[y]]
  BY <1>1
<1>3. SubSeq(t, 1, Len(s)) = [y \in 1 .. Len(s) |-> t[y]]
  BY <1>1
<1>4. SubSeq(s, 1, Len(s)) = SubSeq(t, 1, Len(s))
  BY <1>2, <1>3
<1>5. ASSUME Len(s) = Len(t) PROVE s = t
  BY <1>1, <1>5, SeqEqual
<1> QED
  BY <1>4, <1>5 DEF IsPrefix

\* A codec in step with the script has heard what was sent.
LEMMA InvIsSent == HeardInv /\ LinkInv => HeardIsSent
<1> SUFFICES ASSUME HeardInv, LinkInv, ~cut
             PROVE  /\ IsPrefix(heard, Expected[packets])
                    /\ script = <<>> /\ Pipe = <<>> /\ dec.pc # "listen" => heard = Expected[packets]
  BY DEF HeardIsSent
<1> DEFINE t == Messages(packets)
<1>1. packets \in Scripts /\ SaidIsSent /\ heard \in Seq(Heard) /\ Expected[packets] = t
  BY DEF HeardInv, LinkInv, Types, Expected
<1>2. PICK S : t \in Seq(S)
  BY <1>1, MessagesType
<1>3. Len(heard) \in Nat /\ Len(t) \in Nat
  BY <1>1, <1>2, LenProperties
<1>4. Len(Said) <= Len(t) /\ \A y \in 1 .. Len(Said) : Said[y] = t[y]
  BY <1>1 DEF SaidIsSent
<1> HIDE DEF t
<1>5. Len(heard) <= Len(t) /\ \A y \in 1 .. Len(heard) : heard[y] = t[y]
  <2>1. CASE dec.pc = "listen"
    <3> DEFINE m == dec.msg
    <3>1. m \in Heard /\ Said = Append(heard, m)
      BY <2>1 DEF Said, LinkInv, Types, DecType
    <3> HIDE DEF m
    <3>2. Len(Said) = Len(heard) + 1 /\ \A y \in 1 .. Len(heard) : Said[y] = heard[y]
      BY <1>1, <3>1, AppendProperties
    <3> QED
      BY <1>3, <1>4, <3>2
  <2>2. CASE dec.pc # "listen"
    BY <1>4, <2>2 DEF Said
  <2> QED
    BY <2>1, <2>2
<1>6. IsPrefix(heard, t) /\ (Len(heard) = Len(t) => heard = t)
  BY <1>1, <1>2, <1>5, AgreesIsPrefix
<1>7. ASSUME script = <<>>, Pipe = <<>>, dec.pc # "listen" PROVE Len(heard) = Len(t)
  <2>1. PICK k \in Nat, i \in 1 .. Len(packets) + 1 :
          Remains(k) /\ Place(packets, codec, k, Len(Said), i)
    BY DEF HeardInv, InStep
  <2>2. Len(Left) = 0
    BY <1>7 DEF Left, Cat
  <2>3. k = Len(Sent(packets))
    BY <2>1, <2>2 DEF Remains
  <2>4. codec \in CodecType
    BY DEF LinkInv, Types
  <2>5. Len(Said) = Len(t)
    BY <1>1, <2>1, <2>3, <2>4, EndsScript DEF t
  <2> QED
    BY <1>7, <2>5 DEF Said
<1> QED
  BY <1>1, <1>6, <1>7

\* The listener receives exactly the messages that were sent, whole and in their order
\* (HeardIsSent): whatever bytes the payload has, in whatever pieces they arrive, for
\* every script, kind of channel and interleaving, as long as no byte was lost and the
\* codec was not reset within a packet (onDecodeData, _proc_decoderThread).
THEOREM HeardCorrect == Spec => []HeardIsSent
<1>1. Spec => []LinkInv
  BY InitLink, StepsOK, PTL DEF Spec
<1> QED
  BY <1>1, HeardInit, HeardStep, InvIsSent, PTL DEF Spec
===========================================================================
