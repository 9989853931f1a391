------------------------ MODULE MessageCodec_proofs ------------------------
(***************************************************************************)
(* Theorems about MessageCodec, for any options, topics, payloads, header  *)
(* values and datagrams.  First what the bytes of a message are, a         *)
(* concatenation over its options; then the type invariant, to which the   *)
(* others are relative; then one inductive invariant per property: the     *)
(* options differ in type (OneOfEachType), what was read packs back        *)
(* (ReadInv), the header counts (CountInv) and the owner's message arrives *)
(* (TripInv).  Arithmetic leaves name the SMT solver: Zenon writes         *)
(* numerals in unary.                                                      *)
(***************************************************************************)
EXTENDS MessageCodec, SequenceTheorems, WellFoundedInduction, TLAPS

\* A set of numbers has a least one.
LEMMA LeastNumber ==
    ASSUME NEW T \in SUBSET Nat, T # {}
    PROVE  \E k \in T : \A l \in T : k <= l
<1>1. PICK k \in T : \A l \in T : ~ (<<l, k>> \in OpToRel(<, Nat))
  BY NatLessThanWellFounded, WFMin, Zenon
<1>2. \A l \in T : k <= l
  <2> SUFFICES ASSUME NEW l \in T, ~(k <= l)
               PROVE  <<l, k>> \in OpToRel(<, Nat)
    BY <1>1
  <2>1. l \in Nat /\ k \in Nat /\ l < k
    OBVIOUS
  <2> QED BY <2>1 DEF OpToRel
<1> QED BY <1>2

\* Induction over a set of numbers: the library's induction theorems take an
\* operator, and this one is enough for what follows.
LEMMA InductionOverSet ==
    ASSUME NEW T, 0 \in T, \A n \in Nat : n \in T => n + 1 \in T
    PROVE  Nat \subseteq T
<1> SUFFICES ASSUME Nat \ T # {} PROVE FALSE
  OBVIOUS
<1>1. PICK k \in Nat \ T : \A l \in Nat \ T : k <= l
  BY LeastNumber
<1>2. k - 1 \in Nat /\ ~(k <= k - 1) /\ (k - 1) + 1 = k
  <2>1. k # 0
    BY <1>1
  <2> QED BY <1>1, <2>1
<1>3. k - 1 \in T
  BY <1>1, <1>2
<1> QED BY <1>1, <1>2, <1>3

---------------------------------------------------------------------------
(* Sequences of sequences *)

\* What ConcatAssociative says, in a form the provers apply.
LEMMA Associative ==
    \A S : \A s, t, u \in Seq(S) : (s \o t) \o u = s \o (t \o u)
  BY ConcatAssociative

\* f[i]: the first i sequences of t, one after the other.
Flattening(t, f) ==
    f = [i \in 1 .. Len(t) |-> IF i = 1 THEN t[i] ELSE f[i - 1] \o t[i]]

\* What the definition of FlattenSeq says, with its recursion named.
LEMMA FlattenSeqChooses ==
    ASSUME NEW t
    PROVE  FlattenSeq(t) = IF Len(t) = 0 THEN t ELSE (CHOOSE f : Flattening(t, f))[Len(t)]
  BY Zenon DEF FlattenSeq, Flattening

\* The recursive function that FlattenSeq names exists, ...
LEMMA FlatteningExists ==
    ASSUME NEW S, NEW t \in Seq(Seq(S))
    PROVE  \E f \in [1 .. Len(t) -> Seq(S)] : Flattening(t, f)
<1> DEFINE Upto(n, f) == \A i \in 1 .. n : f[i] = IF i = 1 THEN t[i] ELSE f[i - 1] \o t[i]
           Has(n) == n <= Len(t) => \E f \in [1 .. n -> Seq(S)] : Upto(n, f)
           Good == {n \in Nat : Has(n)}
<1>1. Has(0)
  <2>1. <<>> \in [1 .. 0 -> Seq(S)] /\ Upto(0, <<>>)
    OBVIOUS
  <2> QED BY <2>1
<1>2. ASSUME NEW n \in Nat, Has(n)
      PROVE  Has(n + 1)
  <2> SUFFICES ASSUME n + 1 <= Len(t)
               PROVE  \E f \in [1 .. n + 1 -> Seq(S)] : Upto(n + 1, f)
    OBVIOUS
  <2>1. PICK g \in [1 .. n -> Seq(S)] : Upto(n, g)
    <3>1. n <= Len(t)
      BY LenProperties
    <3> QED BY <3>1, <1>2
  <2>2. t[n + 1] \in Seq(S) /\ t[1] \in Seq(S)
    BY LenProperties
  <2> DEFINE next == IF n = 0 THEN t[1] ELSE g[n] \o t[n + 1]
             h == [i \in 1 .. n + 1 |-> IF i = n + 1 THEN next ELSE g[i]]
  <2>3. next \in Seq(S)
    <3>1. CASE n = 0
      BY <2>2, <3>1
    <3>2. CASE n # 0
      <4>1. g[n] \in Seq(S)
        BY <2>1, <3>2
      <4>2. g[n] \o t[n + 1] \in Seq(S)
        BY <2>2, <4>1, ConcatProperties
      <4> QED BY <4>2, <3>2
    <3> QED BY <3>1, <3>2
  <2> HIDE DEF next
  <2>4. h \in [1 .. n + 1 -> Seq(S)]
    BY <2>3
  <2>5. Upto(n + 1, h)
    <3> SUFFICES ASSUME NEW i \in 1 .. n + 1
                 PROVE  h[i] = IF i = 1 THEN t[i] ELSE h[i - 1] \o t[i]
      BY Zenon
    <3>1. CASE i = n + 1 /\ n = 0
      BY <3>1 DEF next
    <3>2. CASE i = n + 1 /\ n # 0
      <4>1. h[i] = next /\ h[i - 1] = g[n] /\ i # 1
        BY <3>2
      <4> QED BY <3>2, <4>1, Zenon DEF next
    <3>3. CASE i # n + 1
      <4>1. i \in 1 .. n /\ h[i] = g[i] /\ (i # 1 => h[i - 1] = g[i - 1])
        BY <3>3
      <4>2. g[i] = IF i = 1 THEN t[i] ELSE g[i - 1] \o t[i]
        BY <4>1, <2>1
      <4> QED BY <4>1, <4>2
    <3> QED BY <3>1, <3>2, <3>3
  <2> QED BY <2>4, <2>5
<1> HIDE DEF Has
<1>3. Nat \subseteq Good
  <2>1. 0 \in Good /\ \A n \in Nat : n \in Good => n + 1 \in Good
    BY <1>1, <1>2
  <2> HIDE DEF Good
  <2> QED BY <2>1, InductionOverSet
<1>4. Len(t) \in Nat
  BY LenProperties
<1>5. Has(Len(t))
  BY <1>3, <1>4
<1>6. PICK f \in [1 .. Len(t) -> Seq(S)] : Upto(Len(t), f)
  BY <1>4, <1>5 DEF Has
<1>7. Flattening(t, f)
  BY <1>6 DEF Flattening
<1> QED BY <1>7

\* ... and is one.
LEMMA FlatteningUnique ==
    ASSUME NEW t, Len(t) \in Nat, NEW f, NEW g, Flattening(t, f), Flattening(t, g)
    PROVE  f = g
<1> DEFINE Good == {n \in Nat : n \in 1 .. Len(t) => f[n] = g[n]}
<1>1. /\ f = [i \in 1 .. Len(t) |-> f[i]]
      /\ g = [i \in 1 .. Len(t) |-> g[i]]
      /\ \A i \in 1 .. Len(t) : /\ f[i] = IF i = 1 THEN t[i] ELSE f[i - 1] \o t[i]
                                /\ g[i] = IF i = 1 THEN t[i] ELSE g[i - 1] \o t[i]
  BY DEF Flattening
<1>2. ASSUME NEW n \in Nat, n \in Good
      PROVE  n + 1 \in Good
  <2> SUFFICES ASSUME n + 1 \in 1 .. Len(t) PROVE f[n + 1] = g[n + 1]
    OBVIOUS
  <2> DEFINE k == n + 1
  <2>1. k \in 1 .. Len(t) /\ k - 1 = n /\ (k # 1 => f[n] = g[n])
    BY <1>2
  <2> HIDE DEF k
  <2>2. /\ f[k] = IF k = 1 THEN t[k] ELSE f[k - 1] \o t[k]
        /\ g[k] = IF k = 1 THEN t[k] ELSE g[k - 1] \o t[k]
    BY <1>1, <2>1, Zenon
  <2>3. f[k] = g[k]
    BY <2>1, <2>2, Zenon
  <2> QED BY <2>3 DEF k
<1>3. 0 \in Good
  OBVIOUS
<1> HIDE DEF Good
<1>4. Nat \subseteq Good
  <2>1. 0 \in Good /\ \A n \in Nat : n \in Good => n + 1 \in Good
    BY <1>2, <1>3
  <2> HIDE DEF Good
  <2> QED BY <2>1, InductionOverSet
<1>5. \A i \in 1 .. Len(t) : f[i] = g[i]
  BY <1>4 DEF Good
<1> QED BY <1>1, <1>5

\* FlattenSeq is the last value of the recursive function.
LEMMA FlattenSeqIs ==
    ASSUME NEW S, NEW t \in Seq(Seq(S)), t # <<>>
    PROVE  \E f \in [1 .. Len(t) -> Seq(S)] :
              Flattening(t, f) /\ FlattenSeq(t) = f[Len(t)]
<1>1. Len(t) \in Nat /\ Len(t) # 0
  BY EmptySeq, LenProperties
<1>2. PICK f \in [1 .. Len(t) -> Seq(S)] : Flattening(t, f)
  BY FlatteningExists
<1>3. Flattening(t, CHOOSE g : Flattening(t, g))
  BY <1>2, Zenon
<1>4. (CHOOSE g : Flattening(t, g)) = f
  BY <1>1, <1>2, <1>3, FlatteningUnique, Zenon
<1>5. FlattenSeq(t) = f[Len(t)]
  BY <1>1, <1>4, FlattenSeqChooses, Zenon
<1> QED BY <1>2, <1>5

\* What FlattenSeq does to the empty sequence, ...
LEMMA FlattenEmpty == FlattenSeq(<<>>) = <<>>
  BY FlattenSeqChooses

\* ... and FlattenSeq is a sequence over the same set, ...
LEMMA FlattenIsSeq ==
    ASSUME NEW S, NEW t \in Seq(Seq(S))
    PROVE  FlattenSeq(t) \in Seq(S)
<1>1. CASE t = <<>>
  BY <1>1, FlattenEmpty, EmptySeq
<1>2. CASE t # <<>>
  <2>1. PICK f \in [1 .. Len(t) -> Seq(S)] : FlattenSeq(t) = f[Len(t)]
    BY <1>2, FlattenSeqIs
  <2>2. Len(t) \in 1 .. Len(t)
    BY <1>2, EmptySeq, LenProperties
  <2> QED BY <2>1, <2>2
<1> QED BY <1>1, <1>2

\* ... one sequence more, ...
LEMMA FlattenAppend ==
    ASSUME NEW S, NEW t \in Seq(Seq(S)), NEW x \in Seq(S)
    PROVE  FlattenSeq(Append(t, x)) = FlattenSeq(t) \o x
<1> DEFINE u == Append(t, x)
<1>1. /\ u \in Seq(Seq(S)) /\ u # <<>> /\ Len(u) = Len(t) + 1 /\ Len(t) \in Nat
      /\ \A i \in 1 .. Len(t) : u[i] = t[i]
      /\ u[Len(t) + 1] = x
  BY AppendProperties, LenProperties
<1> HIDE DEF u
<1>2. PICK f \in [1 .. Len(u) -> Seq(S)] : Flattening(u, f) /\ FlattenSeq(u) = f[Len(u)]
  BY <1>1, FlattenSeqIs
<1>3. \A i \in 1 .. Len(u) : f[i] = IF i = 1 THEN u[i] ELSE f[i - 1] \o u[i]
  BY <1>2 DEF Flattening
<1>4. CASE t = <<>>
  <2>1. Len(t) = 0
    BY <1>4
  <2>2. f[Len(u)] = x
    BY <1>1, <1>3, <2>1
  <2>3. <<>> \o x = x
    BY ConcatEmptySeq
  <2> QED BY <1>2, <1>4, <2>2, <2>3, FlattenEmpty DEF u
<1>5. CASE t # <<>>
  <2>1. Len(t) # 0
    BY <1>5, EmptySeq
  <2>2. PICK g \in [1 .. Len(t) -> Seq(S)] : Flattening(t, g) /\ FlattenSeq(t) = g[Len(t)]
    BY <1>5, FlattenSeqIs
  <2> DEFINE h == [i \in 1 .. Len(t) |-> f[i]]
  <2>3. Flattening(t, h)
    <3>1. \A i \in 1 .. Len(t) : h[i] = IF i = 1 THEN t[i] ELSE h[i - 1] \o t[i]
      <4> SUFFICES ASSUME NEW i \in 1 .. Len(t)
                   PROVE  h[i] = IF i = 1 THEN t[i] ELSE h[i - 1] \o t[i]
        BY Zenon
      <4>1. h[i] = f[i] /\ (i # 1 => h[i - 1] = f[i - 1]) /\ u[i] = t[i] /\ i \in 1 .. Len(u)
        BY <1>1
      <4> QED BY <4>1, <1>3
    <3> QED BY <3>1 DEF Flattening
  <2>4. h = g
    BY <1>1, <2>2, <2>3, FlatteningUnique, Zenon
  <2>5. f[Len(t)] = g[Len(t)]
    BY <1>1, <2>1, <2>4
  <2>6. f[Len(u)] = f[Len(t)] \o x
    <3> DEFINE k == Len(t) + 1
    <3>1. k \in 1 .. Len(u) /\ k # 1 /\ k - 1 = Len(t) /\ u[k] = x /\ Len(u) = k
      BY <1>1, <2>1
    <3> HIDE DEF k
    <3> QED BY <3>1, <1>3, Zenon
  <2> QED BY <1>2, <2>2, <2>5, <2>6 DEF u
<1> QED BY <1>4, <1>5

\* ... and two lists of them.
LEMMA FlattenConcat ==
    ASSUME NEW S, NEW s \in Seq(Seq(S)), NEW t \in Seq(Seq(S))
    PROVE  FlattenSeq(s \o t) = FlattenSeq(s) \o FlattenSeq(t)
<1> DEFINE Splits(n) == \A u \in Seq(Seq(S)) :
               Len(u) = n => FlattenSeq(s \o u) = FlattenSeq(s) \o FlattenSeq(u)
           Good == {n \in Nat : Splits(n)}
<1>1. FlattenSeq(s) \in Seq(S)
  BY FlattenIsSeq
<1>2. Splits(0)
  <2> SUFFICES ASSUME NEW u \in Seq(Seq(S)), Len(u) = 0
               PROVE  FlattenSeq(s \o u) = FlattenSeq(s) \o FlattenSeq(u)
    OBVIOUS
  <2>1. u = <<>>
    BY EmptySeq
  <2>2. s \o <<>> = s /\ FlattenSeq(s) \o <<>> = FlattenSeq(s)
    BY <1>1, ConcatEmptySeq
  <2> QED BY <2>1, <2>2, FlattenEmpty
<1>3. ASSUME NEW n \in Nat, Splits(n)
      PROVE  Splits(n + 1)
  <2> SUFFICES ASSUME NEW u \in Seq(Seq(S)), Len(u) = n + 1
               PROVE  FlattenSeq(s \o u) = FlattenSeq(s) \o FlattenSeq(u)
    BY Zenon
  <2>1. PICK v \in Seq(Seq(S)), x \in Seq(S) : u = Append(v, x)
    <3>1. u # <<>>
      BY EmptySeq
    <3> QED BY <3>1, SequenceEmptyOrAppend, Zenon
  <2>2. Len(v) = n
    BY <2>1, AppendProperties, LenProperties
  <2>3. FlattenSeq(s \o v) = FlattenSeq(s) \o FlattenSeq(v)
    BY <1>3, <2>2, Zenon
  <2> HIDE DEF Splits
  <2>4. s \o v \in Seq(Seq(S)) /\ FlattenSeq(v) \in Seq(S)
    BY ConcatProperties, FlattenIsSeq
  <2>5. s \o u = Append(s \o v, x)
    <3>1. u = v \o <<x>> /\ <<x>> \in Seq(Seq(S))
      BY <2>1, AppendIsConcat
    <3>2. Append(s \o v, x) = (s \o v) \o <<x>>
      BY <2>4, AppendIsConcat
    <3>3. (s \o v) \o <<x>> = s \o (v \o <<x>>)
      BY <3>1, ConcatAssociative, SMTT(30)
    <3> QED BY <3>1, <3>2, <3>3
  <2>6. FlattenSeq(s \o u) = FlattenSeq(s \o v) \o x
    BY <2>4, <2>5, FlattenAppend
  <2>7. FlattenSeq(u) = FlattenSeq(v) \o x
    BY <2>1, FlattenAppend
  <2>8. (FlattenSeq(s) \o FlattenSeq(v)) \o x = FlattenSeq(s) \o (FlattenSeq(v) \o x)
    <3> DEFINE front == FlattenSeq(s)
               middle == FlattenSeq(v)
    <3>1. front \in Seq(S) /\ middle \in Seq(S)
      BY <1>1, <2>4
    <3> HIDE DEF front, middle
    <3>2. (front \o middle) \o x = front \o (middle \o x)
      BY <3>1, ConcatAssociative, SMTT(30)
    <3> QED BY <3>2 DEF front, middle
  <2> QED BY <2>3, <2>6, <2>7, <2>8
<1> HIDE DEF Splits
<1>4. Nat \subseteq Good
  <2>1. 0 \in Good /\ \A n \in Nat : n \in Good => n + 1 \in Good
    BY <1>2, <1>3
  <2> HIDE DEF Good
  <2> QED BY <2>1, InductionOverSet
<1>5. Len(t) \in Nat
  BY LenProperties
<1>6. Splits(Len(t))
  BY <1>4, <1>5
<1> QED BY <1>6 DEF Splits
---------------------------------------------------------------------------
(* The header *)

\* A code is cut after its two high bits, which share a byte with the level.
LEMMA CodeIsCut ==
    ASSUME NEW code \in 0 .. 255, NEW high \in 0 .. 31, NEW low \in 0 .. 3
    PROVE  (((high * 4 + (code \div 64)) % 4) * 64) + (((code % 64) * 4 + low) \div 4) = code
  BY SMT

\* An id is cut into 2, 8, 8 and 6 bits.
LEMMA IdIsCut ==
    ASSUME NEW id \in Nat, id <= MaxMessageId
    PROVE  (id \div 4194304) * 4194304 + ((id \div 16384) % 256) * 16384
               + ((id \div 64) % 256) * 64 + (id % 64) = id
<1>1. id = (id \div 64) * 64 + (id % 64)
  BY SMT
<1>2. id \div 64 = (id \div 16384) * 256 + ((id \div 64) % 256)
  BY SMT
<1>3. id \div 16384 = (id \div 4194304) * 256 + ((id \div 16384) % 256)
  BY SMT
<1> QED BY SMT, <1>1, <1>2, <1>3

\* The fields of a valid message are within the widths the header has for them.
LEMMA ValidFields ==
    ASSUME NEW m \in Message, headerValid(m)
    PROVE  /\ m.version \in Nat /\ m.version <= 1
           /\ m.verb \in 0 .. 3
           /\ m.qos \in Nat /\ m.qos <= 2
           /\ m.code \in 0 .. 255
           /\ m.id \in Nat /\ m.id <= MaxMessageId
           /\ m.count \in 0 .. 255
<1>1. /\ m.version \in 0 .. 255 /\ m.verb \in 0 .. 3 /\ m.qos \in 0 .. 255
      /\ m.code \in 0 .. 255 /\ m.id \in Nat /\ m.count \in 0 .. 255
  BY SMT DEF Message, Byte
<1>2. m.version <= 1 /\ m.qos <= 2 /\ m.id <= MaxMessageId
  BY SMT DEF headerValid
<1> QED BY SMT, <1>1, <1>2

\* The header of every valid message is read back from its eight bytes, bit for
\* bit (header.cpp:22-77).
THEOREM HeaderReadsBack ==
    ASSUME NEW m \in Message, headerValid(m)
    PROVE  LET read == unpackHeader(packHeader(m))
           IN  /\ read.version = m.version
               /\ read.verb = m.verb
               /\ read.qos = m.qos
               /\ read.code = m.code
               /\ read.id = m.id
               /\ read.count = m.count
<1>1. PICK version \in 0 .. 1, verb \in 0 .. 3, qos \in 0 .. 2, code \in 0 .. 255,
           id \in Nat, count \in 0 .. 255 :
             /\ m.version = version /\ m.verb = verb /\ m.qos = qos
             /\ m.code = code /\ m.id = id /\ m.count = count
             /\ id <= MaxMessageId
  <2>1. /\ m.version \in 0 .. 1 /\ m.verb \in 0 .. 3 /\ m.qos \in 0 .. 2
        /\ m.code \in 0 .. 255 /\ m.id \in Nat /\ m.count \in 0 .. 255
        /\ m.id <= MaxMessageId
    BY SMT, ValidFields
  <2> QED BY <2>1, Zenon
<1>2. PICK top \in 0 .. 3, high \in 0 .. 31 :
             top = id \div 4194304 /\ high = version * 16 + verb * 4 + qos
  BY SMT, <1>1 DEF MaxMessageId
<1> DEFINE bytes == packHeader(m)
<1>3. /\ bytes[1] = high * 4 + (code \div 64)
      /\ bytes[2] = (code % 64) * 4 + top
      /\ bytes[3] = (id \div 16384) % 256
      /\ bytes[4] = (id \div 64) % 256
      /\ bytes[5] = (id % 64) * 4 + (count \div 64)
      /\ bytes[6] = (count % 64) * 4
  <2>1. id % 16777216 = id /\ version % 4 = version /\ qos % 4 = qos
    BY SMT, <1>1 DEF MaxMessageId
  <2>2. version * 64 + verb * 16 + qos * 4 + (code \div 64) = high * 4 + (code \div 64)
    BY SMT, <1>2
  <2> QED BY SMT, <1>1, <1>2, <2>1, <2>2 DEF packHeader
<1> HIDE DEF bytes
<1>4. /\ (high * 4 + (code \div 64)) \div 64 = version
      /\ ((high * 4 + (code \div 64)) \div 16) % 4 = verb
      /\ ((high * 4 + (code \div 64)) \div 4) % 4 = qos
  BY SMT, <1>2
<1>5. (((high * 4 + (code \div 64)) % 4) * 64) + (((code % 64) * 4 + top) \div 4) = code
  BY SMT, CodeIsCut
<1>6. (((code % 64) * 4 + top) % 4) * 4194304 + ((id \div 16384) % 256) * 16384
        + ((id \div 64) % 256) * 64 + (((id % 64) * 4 + (count \div 64)) \div 4) = id
  <2>1. ((code % 64) * 4 + top) % 4 = top
    BY SMT
  <2>2. ((id % 64) * 4 + (count \div 64)) \div 4 = id % 64
    BY SMT
  <2>3. top * 4194304 + ((id \div 16384) % 256) * 16384
          + ((id \div 64) % 256) * 64 + (id % 64) = id
    BY SMT, <1>1, <1>2, IdIsCut
  <2> QED BY SMT, <2>1, <2>2, <2>3
<1>7. (((id % 64) * 4 + (count \div 64)) % 4) * 64 + (((count % 64) * 4) \div 4) = count
  BY SMT
<1> QED BY SMT, <1>1, <1>3, <1>4, <1>5, <1>6, <1>7 DEF unpackHeader, bytes

---------------------------------------------------------------------------
(* Integers *)

\* Every 32-bit integer option is read back by the receiver's getIntValue(),
\* through the bytes it is packed into and the kind that unpack() guesses
\* (option.cpp:21-24, 68-73, 115-128, 137-158).
THEOREM IntegerReadsBack ==
    ASSUME NEW n \in Nat, NEW type \in IntegerTypes
    PROVE  getIntValue(decodeOption(type, packInt(n))) = {n}
<1>1. n \div 256 = (n \div 65536) * 256 + ((n \div 256) % 256)
  BY SMT
<1>2. n \div 65536 = (n \div 16777216) * 256 + ((n \div 65536) % 256)
  BY SMT
<1>3. n = (n \div 256) * 256 + (n % 256)
  BY SMT
<1>4. unpackInt(packInt(n)) = n
  <2>1. (n \div 16777216) * 16777216 + ((n \div 65536) % 256) * 65536
          + ((n \div 256) % 256) * 256 + (n % 256) = n
    BY SMT, <1>1, <1>2, <1>3
  <2> QED BY SMT, <2>1 DEF unpackInt, packInt
<1>5. Len(packInt(n)) = 4
  BY SMT DEF packInt
<1> QED BY SMT, <1>4, <1>5 DEF getIntValue, decodeOption

---------------------------------------------------------------------------
(* The list of options *)

\* std::find_if returns an option of the type if there is one.
LEMMA FirstIsOfType ==
    ASSUME NEW m, m.options \in Seq(Option), NEW type, OfType(m, type) # {}
    PROVE  First(m, type) \in OfType(m, type)
<1>1. OfType(m, type) \subseteq Nat
  BY DEF OfType
<1>2. PICK k \in OfType(m, type) : \A l \in OfType(m, type) : k <= l
  BY <1>1, LeastNumber
<1> QED BY <1>2 DEF First

\* Erasing an element keeps the others, in their order.
LEMMA ErasedOptions ==
    ASSUME NEW options \in Seq(Option), NEW i \in 1 .. Len(options)
    PROVE  /\ RemoveAt(options, i) \in Seq(Option)
           /\ Len(RemoveAt(options, i)) = Len(options) - 1
           /\ \A k \in 1 .. Len(options) - 1 :
                 RemoveAt(options, i)[k] = options[IF k < i THEN k ELSE k + 1]
<1> DEFINE front == SubSeq(options, 1, i - 1)
           back == SubSeq(options, i + 1, Len(options))
<1>1. /\ front \in Seq(Option) /\ Len(front) = i - 1
      /\ \A k \in 1 .. i - 1 : front[k] = options[k]
  BY SubSeqProperties
<1>2. /\ back \in Seq(Option) /\ Len(back) = Len(options) - i
      /\ \A k \in 1 .. Len(options) - i : back[k] = options[i + k]
  BY SubSeqProperties
<1>3. RemoveAt(options, i) = front \o back
  BY DEF RemoveAt
<1> HIDE DEF front, back
<1>4. /\ front \o back \in Seq(Option)
      /\ Len(front \o back) = Len(options) - 1
      /\ \A k \in 1 .. Len(options) - 1 :
            (front \o back)[k] = IF k <= i - 1 THEN front[k] ELSE back[k - (i - 1)]
  BY <1>1, <1>2, ConcatProperties
<1>5. ASSUME NEW k \in 1 .. Len(options) - 1
      PROVE  (front \o back)[k] = options[IF k < i THEN k ELSE k + 1]
  <2>1. CASE k < i
    BY <2>1, <1>1, <1>4
  <2>2. CASE ~(k < i)
    <3>1. k - (i - 1) \in 1 .. Len(options) - i /\ i + (k - (i - 1)) = k + 1
      BY <2>2
    <3> QED BY <2>2, <3>1, <1>2, <1>4
  <2> QED BY <2>1, <2>2
<1> QED BY <1>3, <1>4, <1>5

---------------------------------------------------------------------------
(* Types *)

\* What packOption() accepts.
Packable(options) ==
    options \in Seq(Option) /\ \A k \in DOMAIN options : Len(options[k].value) <= 255

\* The fields of an option.
LEMMA OptionFields ==
    ASSUME NEW option \in Option
    PROVE  /\ option.type \in Byte
           /\ option.value \in Seq(Byte) /\ Len(option.value) \in Nat
           /\ option.kind \in Kinds
           /\ option.kind = "int" => Len(option.value) = 4
<1>1. /\ option \in [type : Byte, value : Seq(Byte), kind : Kinds]
      /\ option.kind = "int" => Len(option.value) = 4
  BY DEF Option
<1> QED BY <1>1

\* packOption() writes the type, the length and the value, in this order.
LEMMA OptionIsBytes ==
    ASSUME NEW option \in Option, Len(option.value) <= 255
    PROVE  /\ packOption(option) \in Seq(Byte)
           /\ Len(packOption(option)) = 2 + Len(option.value)
           /\ packOption(option)[1] = option.type
           /\ packOption(option)[2] = Len(option.value)
           /\ \A k \in 1 .. Len(option.value) : packOption(option)[k + 2] = option.value[k]
<1> DEFINE head == <<option.type, Len(option.value)>>
           value == option.value
<1>1. /\ value \in Seq(Byte) /\ Len(value) \in 0 .. 255 /\ option.type \in Byte
  <2>1. value \in Seq(Byte) /\ Len(value) \in Nat /\ option.type \in Byte
    BY OptionFields, Zenon
  <2>2. \A n \in Nat : n <= 255 => n \in 0 .. 255
    OBVIOUS
  <2> QED BY <2>1, <2>2, Zenon
<1>2. /\ head \in Seq(Byte) /\ Len(head) = 2
      /\ head[1] = option.type /\ head[2] = Len(value)
  <2>1. \A a, b \in Byte : <<a, b>> \in Seq(Byte) /\ Len(<<a, b>>) = 2
    OBVIOUS
  <2>2. option.type \in Byte /\ Len(option.value) \in Byte
    BY <1>1 DEF Byte
  <2> QED BY <2>1, <2>2
<1>3. packOption(option) = head \o value
  BY DEF packOption
<1> HIDE DEF head, value
<1>4. /\ head \o value \in Seq(Byte)
      /\ Len(head \o value) = Len(head) + Len(value)
      /\ \A i \in 1 .. Len(head) + Len(value) :
            (head \o value)[i] = IF i <= Len(head) THEN head[i] ELSE value[i - Len(head)]
  BY <1>1, <1>2, ConcatProperties
<1>5. \A k \in 1 .. Len(value) : k + 2 \in 1 .. 2 + Len(value) /\ ~(k + 2 <= 2) /\ k + 2 - 2 = k
  BY <1>1
<1> QED BY <1>1, <1>2, <1>3, <1>4, <1>5 DEF value

\* The packed options, one after the other.
Encoded(options) == [k \in DOMAIN options |-> packOption(options[k])]

\* Every option gives a sequence of bytes.
LEMMA EncodedIsSeq ==
    ASSUME NEW options, Packable(options)
    PROVE  Encoded(options) \in Seq(Seq(Byte)) /\ Len(Encoded(options)) = Len(options)
<1>1. DOMAIN options = 1 .. Len(options) /\ Len(options) \in Nat
  BY LenProperties DEF Packable
<1>2. \A k \in 1 .. Len(options) : packOption(options[k]) \in Seq(Byte)
  BY <1>1, OptionIsBytes DEF Packable
<1>3. Encoded(options) \in [1 .. Len(options) -> Seq(Byte)]
  BY <1>1, <1>2 DEF Encoded
<1> QED BY <1>1, <1>3

\* The options of a message give bytes,
LEMMA PackedIsBytes ==
    ASSUME NEW options, Packable(options)
    PROVE  packOptions(options) \in Seq(Byte)
  BY EncodedIsSeq, FlattenIsSeq DEF packOptions, Encoded

\* none when there are none,
LEMMA PackedNone == packOptions(<<>>) = <<>>
<1>1. Encoded(<<>>) = <<>>
  <2>1. Packable(<<>>)
    BY EmptySeq DEF Packable
  <2> QED BY <2>1, EncodedIsSeq, EmptySeq
<1> QED BY <1>1, FlattenEmpty DEF packOptions, Encoded

\* those of the front before those of the rest,
LEMMA PackedConcat ==
    ASSUME NEW s, Packable(s), NEW t, Packable(t)
    PROVE  Packable(s \o t) /\ packOptions(s \o t) = packOptions(s) \o packOptions(t)
<1>1. /\ s \in Seq(Option) /\ t \in Seq(Option)
      /\ s \o t \in Seq(Option) /\ Len(s \o t) = Len(s) + Len(t)
      /\ Len(s) \in Nat /\ Len(t) \in Nat
      /\ DOMAIN s = 1 .. Len(s) /\ DOMAIN t = 1 .. Len(t)
      /\ DOMAIN (s \o t) = 1 .. Len(s) + Len(t)
  BY ConcatProperties, LenProperties DEF Packable
<1>2. \A k \in 1 .. Len(s) + Len(t) :
         (s \o t)[k] = IF k <= Len(s) THEN s[k] ELSE t[k - Len(s)]
  BY <1>1, ConcatProperties
<1>3. Packable(s \o t)
  <2> SUFFICES ASSUME NEW k \in 1 .. Len(s) + Len(t)
               PROVE  Len((s \o t)[k].value) <= 255
    BY <1>1 DEF Packable
  <2>1. CASE k <= Len(s)
    <3>1. (s \o t)[k] = s[k] /\ k \in DOMAIN s
      BY <1>1, <1>2, <2>1
    <3> QED BY <3>1 DEF Packable
  <2>2. CASE ~(k <= Len(s))
    <3>1. (s \o t)[k] = t[k - Len(s)] /\ k - Len(s) \in DOMAIN t
      BY <1>1, <1>2, <2>2
    <3> QED BY <3>1 DEF Packable
  <2> QED BY <2>1, <2>2
<1> DEFINE u == s \o t
<1>4. /\ Encoded(s) \in Seq(Seq(Byte)) /\ Len(Encoded(s)) = Len(s)
      /\ Encoded(t) \in Seq(Seq(Byte)) /\ Len(Encoded(t)) = Len(t)
      /\ Encoded(u) \in Seq(Seq(Byte)) /\ Len(Encoded(u)) = Len(s) + Len(t)
  BY <1>1, <1>3, EncodedIsSeq
<1> DEFINE a == Encoded(s)
           b == Encoded(t)
           c == Encoded(u)
<1>5. /\ Encoded(s) \o Encoded(t) \in Seq(Seq(Byte))
      /\ Len(Encoded(s) \o Encoded(t)) = Len(s) + Len(t)
      /\ \A k \in 1 .. Len(s) + Len(t) :
            (Encoded(s) \o Encoded(t))[k] =
                IF k <= Len(s) THEN Encoded(s)[k] ELSE Encoded(t)[k - Len(s)]
  <2>1. a \in Seq(Seq(Byte)) /\ b \in Seq(Seq(Byte)) /\ Len(a) = Len(s) /\ Len(b) = Len(t)
    BY <1>4
  <2> HIDE DEF a, b
  <2>2. /\ a \o b \in Seq(Seq(Byte)) /\ Len(a \o b) = Len(a) + Len(b)
        /\ \A k \in 1 .. Len(a) + Len(b) :
              (a \o b)[k] = IF k <= Len(a) THEN a[k] ELSE b[k - Len(a)]
    BY <2>1, ConcatProperties
  <2> QED BY <2>1, <2>2 DEF a, b
<1>6. \A k \in 1 .. Len(s) + Len(t) : Encoded(u)[k] = (Encoded(s) \o Encoded(t))[k]
  <2> SUFFICES ASSUME NEW k \in 1 .. Len(s) + Len(t)
               PROVE  Encoded(u)[k] = (Encoded(s) \o Encoded(t))[k]
    OBVIOUS
  <2>1. Encoded(u)[k] = packOption(u[k])
    BY <1>1 DEF Encoded
  <2>2. CASE k <= Len(s)
    <3>1. u[k] = s[k] /\ Encoded(s)[k] = packOption(s[k])
      BY <1>1, <1>2, <2>2 DEF Encoded
    <3>2. (Encoded(s) \o Encoded(t))[k] = Encoded(s)[k]
      BY <1>5, <2>2
    <3> QED BY <2>1, <3>1, <3>2
  <2>3. CASE ~(k <= Len(s))
    <3>1. k - Len(s) \in DOMAIN t
      BY <1>1, <2>3
    <3>2. u[k] = t[k - Len(s)] /\ Encoded(t)[k - Len(s)] = packOption(t[k - Len(s)])
      BY <1>2, <2>3, <3>1 DEF Encoded
    <3>3. (Encoded(s) \o Encoded(t))[k] = Encoded(t)[k - Len(s)]
      BY <1>5, <2>3
    <3> QED BY <2>1, <3>2, <3>3
  <2> QED BY <2>2, <2>3
<1> HIDE DEF u
<1>7. Encoded(u) = Encoded(s) \o Encoded(t)
  <2>1. /\ a \o b \in Seq(Seq(Byte)) /\ c \in Seq(Seq(Byte)) /\ Len(c) = Len(a \o b)
        /\ \A k \in 1 .. Len(c) : c[k] = (a \o b)[k]
    BY <1>4, <1>5, <1>6
  <2> HIDE DEF a, b, c
  <2>2. c = a \o b
    BY <2>1, SeqEqual
  <2> QED BY <2>2 DEF a, b, c
<1>8. FlattenSeq(Encoded(u)) = FlattenSeq(Encoded(s)) \o FlattenSeq(Encoded(t))
  BY <1>4, <1>7, FlattenConcat
<1> QED BY <1>3, <1>8 DEF u, packOptions, Encoded

\* and those of packOption() when there is one.
LEMMA PackedOne ==
    ASSUME NEW option \in Option, Len(option.value) <= 255
    PROVE  Packable(<<option>>) /\ packOptions(<<option>>) = packOption(option)
<1>1. Packable(<<option>>)
  BY DEF Packable
<1> DEFINE bytes == packOption(option)
<1>2. bytes \in Seq(Byte)
  BY OptionIsBytes
<1>3. Encoded(<<option>>) = <<bytes>>
  BY DEF Encoded
<1> HIDE DEF bytes
<1>4. <<>> \in Seq(Seq(Byte)) /\ Append(<<>>, bytes) = <<bytes>>
  OBVIOUS
<1>5. FlattenSeq(<<bytes>>) = <<>> \o bytes
  BY <1>2, <1>4, FlattenAppend, FlattenEmpty
<1>6. <<>> \o bytes = bytes
  BY <1>2, ConcatEmptySeq
<1> QED BY <1>1, <1>3, <1>5, <1>6 DEF packOptions, Encoded, bytes

\* The fields of a message.
LEMMA MessageFields ==
    ASSUME NEW m \in Message
    PROVE  /\ m.version \in 0 .. 255 /\ m.verb \in 0 .. 3 /\ m.qos \in 0 .. 255
           /\ m.code \in 0 .. 255 /\ m.id \in Nat /\ m.count \in 0 .. 255
           /\ m.options \in Seq(Option) /\ m.payload \in Seq(Byte)
  BY DEF Message, Byte

\* The parts a byte and an id are cut into.
LEMMA ByteParts ==
    ASSUME NEW n \in 0 .. 255
    PROVE  /\ n \div 64 \in 0 .. 3 /\ n % 64 \in 0 .. 63
           /\ n \div 4 \in 0 .. 63 /\ n % 4 \in 0 .. 3
           /\ (n \div 16) % 4 \in 0 .. 3 /\ (n \div 4) % 4 \in 0 .. 3
  BY SMT

\* ... and an id (four parts),
LEMMA IdParts ==
    ASSUME NEW id \in Nat, id <= MaxMessageId
    PROVE  /\ id \div 4194304 \in 0 .. 3
           /\ (id \div 16384) % 256 \in 0 .. 255
           /\ (id \div 64) % 256 \in 0 .. 255
           /\ id % 64 \in 0 .. 63
  BY SMT DEF MaxMessageId

\* ... make bytes again.
LEMMA PartsAreByte ==
    ASSUME NEW a \in 0 .. 3, NEW b \in 0 .. 3, NEW c \in 0 .. 3, NEW d \in 0 .. 3,
           NEW e \in 0 .. 63
    PROVE  /\ a * 64 + b * 16 + c * 4 + d \in 0 .. 255
           /\ e * 4 + d \in 0 .. 255
           /\ e * 4 \in 0 .. 255
           /\ d * 64 + e \in 0 .. 255
  BY SMT

\* packHeader() writes eight bytes.
LEMMA HeaderIsBytes ==
    ASSUME NEW m \in Message
    PROVE  packHeader(m) \in Seq(Byte) /\ Len(packHeader(m)) = 8
<1>1. /\ m.version \in 0 .. 255 /\ m.verb \in 0 .. 3 /\ m.qos \in 0 .. 255
      /\ m.code \in 0 .. 255 /\ m.id \in Nat /\ m.count \in 0 .. 255
  BY SMT, MessageFields
<1>2. PICK id \in Nat : id = m.id % 16777216 /\ id <= MaxMessageId
  BY SMT, <1>1 DEF MaxMessageId
<1>3. /\ m.version % 4 \in 0 .. 3 /\ m.qos % 4 \in 0 .. 3
      /\ m.code \div 64 \in 0 .. 3 /\ m.code % 64 \in 0 .. 63
      /\ m.count \div 64 \in 0 .. 3 /\ m.count % 64 \in 0 .. 63
  BY SMT, <1>1, ByteParts
<1>4. /\ id \div 4194304 \in 0 .. 3 /\ (id \div 16384) % 256 \in 0 .. 255
      /\ (id \div 64) % 256 \in 0 .. 255 /\ id % 64 \in 0 .. 63
  BY SMT, <1>2, IdParts
<1>5. (m.version % 4) * 64 + m.verb * 16 + (m.qos % 4) * 4 + (m.code \div 64) \in 0 .. 255
  BY SMT, <1>1, <1>3
<1>6. /\ (m.code % 64) * 4 + (id \div 4194304) \in 0 .. 255
      /\ (id % 64) * 4 + (m.count \div 64) \in 0 .. 255
      /\ (m.count % 64) * 4 \in 0 .. 255
  BY SMT, <1>3, <1>4
<1> DEFINE b1 == (m.version % 4) * 64 + m.verb * 16 + (m.qos % 4) * 4 + (m.code \div 64)
           b2 == (m.code % 64) * 4 + (id \div 4194304)
           b3 == (id \div 16384) % 256
           b4 == (id \div 64) % 256
           b5 == (id % 64) * 4 + (m.count \div 64)
           b6 == (m.count % 64) * 4
<1>7. packHeader(m) = <<b1, b2, b3, b4, b5, b6, 0, 0>>
  BY SMT, <1>2 DEF packHeader
<1>8. /\ b1 \in Byte /\ b2 \in Byte /\ b3 \in Byte
      /\ b4 \in Byte /\ b5 \in Byte /\ b6 \in Byte /\ 0 \in Byte
  BY SMT, <1>4, <1>5, <1>6 DEF Byte
<1> HIDE DEF b1, b2, b3, b4, b5, b6
<1> QED BY <1>7, <1>8

\* unpackHeader() keeps every field within its width, whatever the bytes.
LEMMA HeaderIsMessage ==
    ASSUME NEW d \in Seq(Byte), Len(d) >= 8
    PROVE  /\ unpackHeader(d) \in Message
           /\ unpackHeader(d).options = <<>>
           /\ unpackHeader(d).payload = <<>>
<1>1. PICK b1 \in 0 .. 255, b2 \in 0 .. 255, b3 \in 0 .. 255,
           b4 \in 0 .. 255, b5 \in 0 .. 255, b6 \in 0 .. 255 :
             b1 = d[1] /\ b2 = d[2] /\ b3 = d[3] /\ b4 = d[4] /\ b5 = d[5] /\ b6 = d[6]
  <2>1. \A i \in 1 .. Len(d) : d[i] \in Byte
    BY ElementOfSeq
  <2>2. /\ d[1] \in Byte /\ d[2] \in Byte /\ d[3] \in Byte
        /\ d[4] \in Byte /\ d[5] \in Byte /\ d[6] \in Byte
    BY <2>1, LenProperties
  <2> QED BY <2>2, Zenon DEF Byte
<1>2. /\ b1 \div 64 \in 0 .. 255 /\ (b1 \div 16) % 4 \in 0 .. 3
      /\ (b1 \div 4) % 4 \in 0 .. 255
  BY SMT, ByteParts
<1>3. /\ (b1 % 4) * 64 + (b2 \div 4) \in 0 .. 255
      /\ (b5 % 4) * 64 + (b6 \div 4) \in 0 .. 255
  BY SMT, ByteParts
<1>4. (b2 % 4) * 4194304 + b3 * 16384 + b4 * 64 + (b5 \div 4) \in Nat
  BY SMT
<1> DEFINE version == b1 \div 64
           verb == (b1 \div 16) % 4
           qos == (b1 \div 4) % 4
           code == (b1 % 4) * 64 + (b2 \div 4)
           id == (b2 % 4) * 4194304 + b3 * 16384 + b4 * 64 + (b5 \div 4)
           count == (b5 % 4) * 64 + (b6 \div 4)
<1>5. unpackHeader(d) =
        [version |-> version, verb |-> verb, qos |-> qos, code |-> code, id |-> id,
         count |-> count, options |-> <<>>, payload |-> <<>>]
  BY SMT, <1>1 DEF unpackHeader
<1>6. /\ version \in Byte /\ verb \in 0 .. 3 /\ qos \in Byte /\ code \in Byte
      /\ id \in Nat /\ count \in Byte
  BY SMT, <1>2, <1>3, <1>4 DEF Byte
<1>7. <<>> \in Seq(Option) /\ <<>> \in Seq(Byte)
  BY EmptySeq
<1> HIDE DEF version, verb, qos, code, id, count
<1> QED BY <1>5, <1>6, <1>7 DEF Message

\* The default constructors give a message.
LEMMA EmptyIsMessage == EmptyMessage \in Message
<1>1. <<>> \in Seq(Option) /\ <<>> \in Seq(Byte)
  BY EmptySeq
<1> QED BY SMT, <1>1 DEF EmptyMessage, Message, Byte, PING

\* Exchanging the list of options gives a message, with the new count.
LEMMA WithOptionsIsMessage ==
    ASSUME NEW m \in Message, NEW options \in Seq(Option)
    PROVE  /\ withOptions(m, options) \in Message
           /\ withOptions(m, options).options = options
           /\ withOptions(m, options).count = Len(options) % 256
<1>1. Len(options) % 256 \in Byte
  <2>1. Len(options) \in Nat
    BY LenProperties
  <2>2. \A n \in Nat : n % 256 \in 0 .. 255
    BY SMT
  <2> QED BY <2>1, <2>2, Zenon DEF Byte
<1> QED BY <1>1 DEF withOptions, Message

\* removeOption() gives a message, and so does addOption().
LEMMA RemovedIsMessage ==
    ASSUME NEW m \in Message, NEW type
    PROVE  removeOption(m, type) \in Message
<1>0. m.options \in Seq(Option)
  BY MessageFields
<1>1. CASE OfType(m, type) = {}
  BY <1>1 DEF removeOption
<1>2. CASE OfType(m, type) # {}
  <2>1. First(m, type) \in DOMAIN m.options
    BY <1>0, <1>2, FirstIsOfType, Zenon DEF OfType
  <2>2. First(m, type) \in 1 .. Len(m.options)
    BY <1>0, <2>1, LenProperties
  <2>3. RemoveAt(m.options, First(m, type)) \in Seq(Option)
    BY <1>0, <2>2, ErasedOptions
  <2> QED BY <1>2, <2>3, WithOptionsIsMessage DEF removeOption
<1> QED BY <1>1, <1>2

\* addOption() gives a message.
LEMMA AddedIsMessage ==
    ASSUME NEW m \in Message, NEW option \in Option
    PROVE  addOption(m, option) \in Message
<1>1. removeOption(m, option.type).options \in Seq(Option)
  BY RemovedIsMessage, MessageFields
<1>2. Append(removeOption(m, option.type).options, option) \in Seq(Option)
  BY <1>1, AppendProperties
<1> QED BY <1>2, WithOptionsIsMessage DEF addOption

\* What can be packed has the type of a datagram.
LEMMA PackedMessage ==
    ASSUME NEW m \in Message, Packable(m.options)
    PROVE  packedBytes(m) \in Seq(Byte)
<1>1. /\ packHeader(m) \in Seq(Byte)
      /\ packOptions(m.options) \in Seq(Byte)
      /\ m.payload \in Seq(Byte)
  BY HeaderIsBytes, PackedIsBytes, MessageFields, Zenon
<1>2. packHeader(m) \o packOptions(m.options) \in Seq(Byte)
  BY <1>1, ConcatProperties
<1> QED BY <1>1, <1>2, ConcatProperties DEF packedBytes

\* pack() throws unless every option fits its length byte.
LEMMA NotThrowing ==
    ASSUME NEW m \in Message, ~packThrows(m)
    PROVE  Packable(m.options)
<1>1. m.options \in Seq(Option)
  BY MessageFields
<1>2. \A k \in DOMAIN m.options : Len(m.options[k].value) <= 255
  <2> SUFFICES ASSUME NEW k \in DOMAIN m.options
               PROVE  Len(m.options[k].value) <= 255
    OBVIOUS
  <2>1. ~(Len(m.options[k].value) > 255)
    BY DEF packThrows, tooLarge
  <2>2. Len(m.options[k].value) \in Nat
    BY <1>1, OptionFields, ElementOfSeq, LenProperties
  <2> QED BY <2>1, <2>2
<1> QED BY <1>1, <1>2 DEF Packable

\* What unpack() reads is an option: an integer has four bytes.
LEMMA DecodedIsOption ==
    ASSUME NEW type \in Byte, NEW value \in Seq(Byte)
    PROVE  decodeOption(type, value) \in Option
<1> DEFINE kind == IF type \in IntegerTypes /\ Len(value) = 4 THEN "int" ELSE "string"
<1>1. kind \in Kinds /\ (kind = "int" => Len(value) = 4)
  BY DEF Kinds
<1>2. decodeOption(type, value) = [type |-> type, value |-> value, kind |-> kind]
  BY DEF decodeOption
<1> HIDE DEF kind
<1> QED BY <1>1, <1>2 DEF Option

\* What the owner goes on with has no datagram.
LEMMA HoldsTyped ==
    ASSUME NEW m \in Message, NEW unpacked \in BOOLEAN, Holds(m, unpacked)
    PROVE  TypeOK'
<1>1. /\ msg' = m /\ received' = unpacked /\ pc' = "build"
      /\ data' = <<>> /\ foreign' = FALSE /\ offset' = 0 /\ left' = 0
      /\ got' = EmptyMessage
  BY DEF Holds, NoDatagram
<1>2. got' \in Message /\ data' \in Seq(Byte) /\ offset' \in 0 .. Len(data')
  BY <1>1, EmptyIsMessage, EmptySeq
<1>3. left' \in Byte /\ pc' \in Phases
  BY <1>1 DEF Byte, Phases
<1> QED BY <1>1, <1>2, <1>3 DEF TypeOK

\* A datagram starts its way through unpack() with nothing read.
LEMMA ArrivesTyped ==
    ASSUME NEW d \in Seq(Byte), NEW elsewhere \in BOOLEAN, Arrives(d, elsewhere),
           msg' \in Message, received' \in BOOLEAN
    PROVE  TypeOK'
<1>1. /\ data' = d /\ foreign' = elsewhere /\ offset' = 0 /\ left' = 0
      /\ got' = EmptyMessage /\ pc' = "header"
  BY DEF Arrives
<1>2. got' \in Message /\ offset' \in 0 .. Len(data')
  BY <1>1, EmptyIsMessage, LenProperties
<1>3. left' \in Byte /\ pc' \in Phases
  BY <1>1 DEF Byte, Phases
<1> QED BY <1>1, <1>2, <1>3 DEF TypeOK

\* The message a factory builds.
LEMMA CreatedIsMessage ==
    ASSUME NEW verb \in 0 .. 3, NEW payload \in Seq(Byte), NEW topic \in Seq(Byte),
           NEW drawn \in Nat, NEW qos \in Byte
    PROVE  LET m == [EmptyMessage EXCEPT !.verb = verb, !.payload = payload,
                                         !.id = drawn, !.qos = qos]
           IN  (IF topic = <<>> THEN m ELSE setTopicPath(m, topic)) \in Message
<1> DEFINE m == [EmptyMessage EXCEPT !.verb = verb, !.payload = payload,
                                     !.id = drawn, !.qos = qos]
           option == [type |-> TOPIC_PATH, value |-> topic, kind |-> "string"]
<1>1. m \in Message
  BY EmptyIsMessage DEF Message
<1>2. option \in Option
  BY DEF Option, Kinds, Byte, TOPIC_PATH
<1> HIDE DEF m, option
<1>3. addOption(m, option) \in Message
  BY <1>1, <1>2, AddedIsMessage
<1> QED BY <1>1, <1>3 DEF setTopicPath, m, option

\* The value of the next option lies within the datagram.
LEMMA NextOption ==
    ASSUME TypeOK, optionFits
    PROVE  LET end == offset + 2 + data[offset + 2]
               value == SubSeq(data, offset + 3, end)
           IN  /\ offset + 1 \in 1 .. Len(data) /\ data[offset + 1] \in Byte
               /\ data[offset + 2] \in 0 .. 255
               /\ end \in offset + 2 .. Len(data)
               /\ value \in Seq(Byte) /\ Len(value) = data[offset + 2]
               /\ \A i \in 1 .. data[offset + 2] : value[i] = data[offset + 2 + i]
<1>1. /\ offset \in Nat /\ Len(data) \in Nat /\ data \in Seq(Byte)
      /\ Len(data) >= offset + 2
      /\ Len(data) >= offset + 2 + data[offset + 2]
  BY LenProperties DEF TypeOK, optionFits
<1>2. offset + 1 \in 1 .. Len(data) /\ offset + 2 \in 1 .. Len(data)
  BY <1>1
<1>3. data[offset + 1] \in Byte /\ data[offset + 2] \in 0 .. 255
  <2>1. \A i \in 1 .. Len(data) : data[i] \in Byte
    BY <1>1, ElementOfSeq
  <2> QED BY <1>2, <2>1, Zenon DEF Byte
<1> DEFINE length == data[offset + 2]
           end == offset + 2 + length
           value == SubSeq(data, offset + 3, end)
<1> HIDE DEF length
<1>4. length \in 0 .. 255 /\ Len(data) >= offset + 2 + length
  BY <1>1, <1>3 DEF length
<1>5. /\ end \in offset + 2 .. Len(data) /\ offset + 3 \in Int /\ end \in Int
      /\ \A i \in offset + 3 .. end : i \in 1 .. Len(data)
  BY <1>1, <1>4
<1>6. \A i \in offset + 3 .. end : data[i] \in Byte
  BY <1>1, <1>5, ElementOfSeq
<1>7. end - (offset + 3) + 1 = length /\ (~(offset + 3 <= end) => length = 0)
  BY <1>1, <1>4
<1> HIDE DEF end
<1>8. /\ value \in Seq(Byte)
      /\ Len(value) = IF offset + 3 <= end THEN end - (offset + 3) + 1 ELSE 0
      /\ \A i \in 1 .. end - (offset + 3) + 1 : value[i] = data[offset + 3 + i - 1]
  BY <1>5, <1>6, SubSeqProperties
<1>9. \A i \in 1 .. length : offset + 3 + i - 1 = offset + 2 + i
  BY <1>1, <1>4
<1>10. Len(value) = length /\ \A i \in 1 .. length : value[i] = data[offset + 2 + i]
  BY <1>7, <1>8, <1>9
<1> HIDE DEF value
<1> QED BY <1>2, <1>3, <1>5, <1>8, <1>10 DEF length, end, value

\* Every step keeps the types, the bounds and the number of options owed.
LEMMA TypeInductive == TypeOK /\ [Next]_vars => TypeOK'
<1> SUFFICES ASSUME TypeOK, [Next]_vars PROVE TypeOK'
  OBVIOUS
<1>0. /\ msg \in Message /\ got \in Message /\ received \in BOOLEAN /\ foreign \in BOOLEAN
      /\ data \in Seq(Byte) /\ offset \in 0 .. Len(data) /\ left \in Byte /\ pc \in Phases
      /\ pc \in {"options", "done"} => left + Len(got.options) = got.count
  BY DEF TypeOK
<1>1. ASSUME NEW verb \in Verbs, NEW payload \in Payloads, NEW topic \in Topics,
             NEW id \in Ids, NEW qos \in QoSLevels,
             Create(verb, payload, topic, id, qos)
      PROVE  TypeOK'
  <2>1. PICK drawn \in Nat :
           LET m == [EmptyMessage EXCEPT !.verb = verb, !.payload = payload,
                                         !.id = drawn, !.qos = qos]
           IN  Holds(IF topic = <<>> THEN m ELSE setTopicPath(m, topic), FALSE)
    BY <1>1, ConstantsAssumption DEF Create
  <2>2. /\ verb \in 0 .. 3 /\ payload \in Seq(Byte) /\ topic \in Seq(Byte) /\ qos \in Byte
    BY ConstantsAssumption
  <2> QED BY <2>1, <2>2, CreatedIsMessage, HoldsTyped
<1>2. ASSUME NEW option \in Options, AddOption(option)
      PROVE  TypeOK'
  <2>1. option \in Option /\ Holds(addOption(msg, option), received)
    BY <1>2, ConstantsAssumption DEF AddOption
  <2> QED BY <1>0, <2>1, AddedIsMessage, HoldsTyped
<1>3. ASSUME NEW option \in Options, RemoveOption(option.type)
      PROVE  TypeOK'
  BY <1>0, <1>3, RemovedIsMessage, HoldsTyped DEF RemoveOption
<1>4. ASSUME NEW payload \in Payloads, SetPayload(payload)
      PROVE  TypeOK'
  <2>1. payload \in Seq(Byte) /\ Holds([msg EXCEPT !.payload = payload], received)
    BY <1>4, ConstantsAssumption DEF SetPayload
  <2>2. [msg EXCEPT !.payload = payload] \in Message
    BY <1>0, <2>1 DEF Message
  <2> QED BY <1>0, <2>1, <2>2, HoldsTyped
<1>5. ASSUME NEW set \in HeaderValues, SetHeader(set[1], set[2])
      PROVE  TypeOK'
  <2>1. Holds([msg EXCEPT ![set[1]] = set[2]], received)
    BY <1>5 DEF SetHeader
  <2>2. \/ set[1] \in {"version", "qos", "code"} /\ set[2] \in Byte
        \/ set[1] = "verb" /\ set[2] \in 0 .. 3
        \/ set[1] = "id" /\ set[2] \in Nat
    BY ConstantsAssumption
  <2>3. [msg EXCEPT ![set[1]] = set[2]] \in Message
    BY <1>0, <2>2 DEF Message
  <2> QED BY <1>0, <2>1, <2>3, HoldsTyped
<1>6. CASE Reuse
  BY <1>0, <1>6, HoldsTyped DEF Reuse
<1>7. ASSUME NEW payload \in Payloads, Respond(payload)
      PROVE  TypeOK'
  <2>1. payload \in Seq(Byte) /\ Holds(createResponse(got, payload), FALSE)
    BY <1>7, ConstantsAssumption DEF Respond
  <2>2. createResponse(got, payload) \in Message
    <3>1. SUCCESS \in Byte /\ 0 \in Byte
      BY DEF Byte, SUCCESS
    <3>2. <<>> \in Seq(Option)
      BY EmptySeq
    <3> HIDE DEF SUCCESS
    <3> QED BY <1>0, <2>1, <3>1, <3>2 DEF createResponse, Message
  <2> QED BY <2>1, <2>2, HoldsTyped
<1>8. CASE Pack
  <2>1. /\ ~packThrows(msg) /\ Arrives(packedBytes(msg), FALSE)
        /\ msg' = msg /\ received' = received
    BY <1>8 DEF Pack
  <2>2. packedBytes(msg) \in Seq(Byte)
    BY <1>0, <2>1, NotThrowing, PackedMessage
  <2> QED BY <1>0, <2>1, <2>2, ArrivesTyped
<1>9. CASE PackThrows
  <2>1. /\ msg' = msg /\ received' = received /\ pc' = "refused"
        /\ data' = <<>> /\ foreign' = FALSE /\ offset' = 0 /\ left' = 0
        /\ got' = EmptyMessage
    BY <1>9 DEF PackThrows, NoDatagram
  <2>2. got' \in Message /\ data' \in Seq(Byte) /\ offset' \in 0 .. Len(data')
    BY <2>1, EmptyIsMessage, EmptySeq
  <2>3. left' \in Byte /\ pc' \in Phases
    BY <2>1 DEF Byte, Phases
  <2> QED BY <1>0, <2>1, <2>2, <2>3 DEF TypeOK
<1>10. ASSUME NEW d \in Datagrams, Foreign(d)
       PROVE  TypeOK'
  BY <1>10, ConstantsAssumption, EmptyIsMessage, ArrivesTyped DEF Foreign
<1>11. CASE UnpackHeader
  <2>1. /\ Len(data) >= 8 /\ got' = unpackHeader(data) /\ left' = got'.count
        /\ offset' = 8 /\ pc' = "options"
        /\ msg' = msg /\ received' = received /\ data' = data /\ foreign' = foreign
    BY <1>11 DEF UnpackHeader, Holding
  <2>2. got' \in Message /\ got'.options = <<>>
    BY <1>0, <2>1, HeaderIsMessage
  <2>3. left' \in 0 .. 255 /\ left' + Len(got'.options) = got'.count
    <3>1. got'.count \in 0 .. 255 /\ Len(got'.options) = 0
      BY <2>2, MessageFields, EmptySeq
    <3>2. \A n \in 0 .. 255 : n + 0 = n
      OBVIOUS
    <3> QED BY <2>1, <3>1, <3>2, Zenon
  <2>4. offset' \in 0 .. Len(data')
    BY <1>0, <2>1, LenProperties
  <2> QED BY <1>0, <2>1, <2>2, <2>3, <2>4 DEF TypeOK, Byte, Phases
<1>12. CASE HeaderThrows \/ OptionThrows
  BY <1>0, <1>12 DEF TypeOK, HeaderThrows, OptionThrows, Holding, Phases
<1>13. CASE UnpackOption
  <2> DEFINE end == offset + 2 + data[offset + 2]
             value == SubSeq(data, offset + 3, end)
             option == decodeOption(data[offset + 1], value)
  <2>1. /\ pc = "options" /\ left > 0 /\ optionFits
        /\ got' = [got EXCEPT !.options = Append(@, option)]
        /\ offset' = end /\ left' = left - 1 /\ pc' = pc
        /\ msg' = msg /\ received' = received /\ data' = data /\ foreign' = foreign
    BY <1>13 DEF UnpackOption, Holding
  <2>2. /\ data[offset + 1] \in Byte /\ value \in Seq(Byte) /\ end \in offset + 2 .. Len(data)
    BY <2>1, NextOption
  <2> HIDE DEF value, end
  <2>3. option \in Option
    BY <2>2, DecodedIsOption
  <2> HIDE DEF option
  <2>4. /\ got.options \in Seq(Option) /\ Append(got.options, option) \in Seq(Option)
        /\ Len(Append(got.options, option)) = Len(got.options) + 1
        /\ Len(got.options) \in Nat /\ got.count \in 0 .. 255
    BY <1>0, <2>3, MessageFields, AppendProperties, LenProperties
  <2>5. /\ got' \in Message /\ got'.count = got.count
        /\ got'.options = Append(got.options, option)
    BY <1>0, <2>1, <2>4 DEF Message
  <2>6. left' \in 0 .. 255 /\ left' + Len(got'.options) = got'.count
    <3>1. left \in 0 .. 255 /\ left + Len(got.options) = got.count
      BY <1>0, <2>1, Zenon DEF Byte
    <3>2. Len(got'.options) = Len(got.options) + 1 /\ got'.count = got.count
      BY <2>4, <2>5, Zenon
    <3>3. \A l \in 0 .. 255, n \in Nat : \A count :
             l > 0 /\ l + n = count => l - 1 \in 0 .. 255 /\ (l - 1) + (n + 1) = count
      OBVIOUS
    <3> QED BY <2>1, <2>4, <3>1, <3>2, <3>3, Zenon
  <2>7. offset' \in 0 .. Len(data')
    BY <1>0, <2>1, <2>2
  <2> QED BY <1>0, <2>1, <2>5, <2>6, <2>7 DEF TypeOK, Byte
<1>14. CASE UnpackPayload
  <2>1. /\ pc = "options" /\ left = 0 /\ pc' = "done" /\ offset' = offset /\ left' = left
        /\ got' = [got EXCEPT !.payload = SubSeq(data, offset + 1, Len(data))]
        /\ msg' = msg /\ received' = received /\ data' = data /\ foreign' = foreign
    BY <1>14 DEF UnpackPayload, Holding
  <2>2. SubSeq(data, offset + 1, Len(data)) \in Seq(Byte)
    <3>1. \A i \in offset + 1 .. Len(data) : data[i] \in Byte
      BY <1>0, ElementOfSeq, LenProperties
    <3> QED BY <1>0, <3>1, SubSeqProperties, LenProperties
  <2>3. got' \in Message /\ got'.options = got.options /\ got'.count = got.count
    BY <1>0, <2>1, <2>2 DEF Message
  <2> QED BY <1>0, <2>1, <2>3 DEF TypeOK, Phases
<1>15. CASE UNCHANGED vars
  BY <1>15 DEF vars, TypeOK
<1> QED BY <1>1, <1>2, <1>3, <1>4, <1>5, <1>6, <1>7, <1>8, <1>9, <1>10, <1>11, <1>12,
           <1>13, <1>14, <1>15 DEF Next, Unpack

\* Every field stays within its C++ type, unpack() never reads beyond the datagram
\* (option.cpp:93-131), and the options read and owed are those the header counts
\* (message.cpp:146-150), for every datagram and every sequence of the owner's calls.
THEOREM TypeCorrect == Spec => []TypeOK
<1>1. Init => TypeOK
  <2>1. <<>> \in Seq(Byte) /\ Len(<<>>) = 0
    BY EmptySeq
  <2>2. 0 \in Byte
    BY DEF Byte
  <2>3. 0 \in 0 .. 0
    OBVIOUS
  <2>4. Init => /\ msg \in Message /\ got \in Message /\ {received, foreign} \subseteq BOOLEAN
                /\ pc \in Phases /\ ~(pc \in {"options", "done"})
    BY EmptyIsMessage DEF Init, Phases
  <2>5. Init => data \in Seq(Byte) /\ offset \in 0 .. Len(data) /\ left \in Byte
    BY <2>1, <2>2, <2>3, Zenon DEF Init
  <2> QED BY <2>4, <2>5, Zenon DEF TypeOK
<1> QED BY <1>1, TypeInductive, PTL DEF Spec

---------------------------------------------------------------------------
(* One option of each type *)

OneEach(options) ==
    \A k, l \in DOMAIN options : options[k].type = options[l].type => k = l

\* removeOption() leaves no option of the type behind, provided there were no
\* two of it.
LEMMA RemovedType ==
    ASSUME NEW m \in Message, OneEach(m.options), NEW type
    PROVE  /\ OneEach(removeOption(m, type).options)
           /\ \A k \in DOMAIN removeOption(m, type).options :
                 removeOption(m, type).options[k].type # type
<1>1. CASE OfType(m, type) = {}
  BY <1>1 DEF removeOption, OfType
<1>2. CASE OfType(m, type) # {}
  <2> DEFINE first == First(m, type)
             rest == RemoveAt(m.options, first)
  <2>1. first \in 1 .. Len(m.options) /\ m.options[first].type = type
    <3>1. m.options \in Seq(Option)
      BY MessageFields
    <3>2. first \in OfType(m, type)
      BY <1>2, <3>1, FirstIsOfType, Zenon
    <3> QED BY <3>1, <3>2 DEF OfType
  <2> HIDE DEF first
  <2>2. /\ rest \in Seq(Option) /\ Len(rest) = Len(m.options) - 1
        /\ \A k \in 1 .. Len(m.options) - 1 :
              rest[k] = m.options[IF k < first THEN k ELSE k + 1]
        /\ m.options \in Seq(Option)
    BY <2>1, MessageFields, ErasedOptions
  <2>3. removeOption(m, type).options = rest
    <3>1. removeOption(m, type) = withOptions(m, rest)
      BY <1>2, Zenon DEF removeOption, first
    <3> HIDE DEF rest
    <3>2. withOptions(m, rest).options = rest
      BY <2>2, WithOptionsIsMessage, ZenonT(30)
    <3> QED BY <3>1, <3>2, Zenon
  <2> HIDE DEF rest
  <2>4. OneEach(rest)
    <3> SUFFICES ASSUME NEW k \in 1 .. Len(m.options) - 1, NEW l \in 1 .. Len(m.options) - 1,
                        rest[k].type = rest[l].type
                 PROVE  k = l
      BY <2>2 DEF OneEach
    <3> DEFINE old(j) == IF j < first THEN j ELSE j + 1
    <3>1. old(k) \in DOMAIN m.options /\ old(l) \in DOMAIN m.options
      BY <2>1, <2>2
    <3>2. m.options[old(k)].type = m.options[old(l)].type
      BY <2>2
    <3>3. old(k) = old(l)
      BY <3>1, <3>2 DEF OneEach
    <3> QED BY <3>3, <2>1, <2>2
  <2>5. \A k \in 1 .. Len(m.options) - 1 : rest[k].type # type
    <3> SUFFICES ASSUME NEW k \in 1 .. Len(m.options) - 1, rest[k].type = type
                 PROVE  FALSE
      OBVIOUS
    <3>1. (IF k < first THEN k ELSE k + 1) \in DOMAIN m.options
      BY <2>1, <2>2
    <3>2. (IF k < first THEN k ELSE k + 1) = first
      BY <3>1, <2>1, <2>2 DEF OneEach
    <3> QED BY <3>2, <2>1
  <2>6. DOMAIN rest = 1 .. Len(m.options) - 1
    BY <2>2
  <2> QED BY <2>3, <2>4, <2>5, <2>6
<1> QED BY <1>1, <1>2

\* addOption() replaces the option of the type.
LEMMA AddedType ==
    ASSUME NEW m \in Message, OneEach(m.options), NEW option \in Option
    PROVE  OneEach(addOption(m, option).options)
<1> DEFINE others == removeOption(m, option.type).options
           whole == Append(others, option)
<1>1. /\ others \in Seq(Option) /\ OneEach(others)
      /\ \A k \in DOMAIN others : others[k].type # option.type
  BY RemovedType, RemovedIsMessage, MessageFields
<1>2. addOption(m, option).options = whole
  <2>1. whole \in Seq(Option)
    BY <1>1, AppendProperties
  <2> QED BY <2>1, WithOptionsIsMessage, Zenon DEF addOption
<1> HIDE DEF others
<1>3. /\ Len(whole) = Len(others) + 1 /\ DOMAIN whole = 1 .. Len(others) + 1
      /\ \A k \in DOMAIN others : whole[k] = others[k]
      /\ whole[Len(others) + 1] = option
  BY <1>1
<1> HIDE DEF whole
<1>4. OneEach(whole)
  <2> SUFFICES ASSUME NEW k \in 1 .. Len(others) + 1, NEW l \in 1 .. Len(others) + 1,
                      whole[k].type = whole[l].type
               PROVE  k = l
    BY <1>3 DEF OneEach
  <2>1. \A j \in 1 .. Len(others) + 1 : j \in DOMAIN others \/ j = Len(others) + 1
    BY <1>1
  <2>2. CASE k \in DOMAIN others /\ l \in DOMAIN others
    BY <2>2, <1>1, <1>3 DEF OneEach
  <2>3. CASE k = Len(others) + 1 /\ l \in DOMAIN others
    BY <2>3, <1>1, <1>3
  <2>4. CASE k \in DOMAIN others /\ l = Len(others) + 1
    BY <2>4, <1>1, <1>3
  <2> QED BY <2>1, <2>2, <2>3, <2>4
<1> QED BY <1>2, <1>4

\* What the owner goes on with has no duplicates, unless it was received.
LEMMA HoldsUnique ==
    ASSUME NEW m, NEW unpacked \in BOOLEAN, Holds(m, unpacked),
           ~unpacked => OneEach(m.options)
    PROVE  OneOfEachType'
  BY DEF Holds, OneOfEachType, OneEach

\* Every step keeps the list of a message that was never unpacked free of
\* duplicates.
LEMMA UniqueInductive == TypeOK /\ OneOfEachType /\ [Next]_vars => OneOfEachType'
<1> SUFFICES ASSUME TypeOK, OneOfEachType, [Next]_vars PROVE OneOfEachType'
  OBVIOUS
<1>0. /\ msg \in Message /\ got \in Message /\ received \in BOOLEAN
      /\ ~received => OneEach(msg.options)
  BY DEF TypeOK, OneOfEachType, OneEach
<1>1. ASSUME NEW verb \in Verbs, NEW payload \in Payloads, NEW topic \in Topics,
             NEW id \in Ids, NEW qos \in QoSLevels,
             Create(verb, payload, topic, id, qos)
      PROVE  OneOfEachType'
  <2>1. PICK drawn \in Nat :
           LET m == [EmptyMessage EXCEPT !.verb = verb, !.payload = payload,
                                         !.id = drawn, !.qos = qos]
           IN  Holds(IF topic = <<>> THEN m ELSE setTopicPath(m, topic), FALSE)
    BY <1>1, ConstantsAssumption DEF Create
  <2> DEFINE m == [EmptyMessage EXCEPT !.verb = verb, !.payload = payload,
                                       !.id = drawn, !.qos = qos]
             option == [type |-> TOPIC_PATH, value |-> topic, kind |-> "string"]
  <2>2. verb \in 0 .. 3 /\ payload \in Seq(Byte) /\ topic \in Seq(Byte) /\ qos \in Byte
    BY ConstantsAssumption
  <2>3. m \in Message /\ m.options = EmptyMessage.options
    BY <2>2, EmptyIsMessage DEF Message
  <2>4. option \in Option
    BY <2>2 DEF Option, Kinds, Byte, TOPIC_PATH
  <2>5. Holds(IF topic = <<>> THEN m ELSE addOption(m, option), FALSE)
    BY <2>1 DEF setTopicPath
  <2> HIDE DEF m, option
  <2>6. OneEach(m.options)
    BY <2>3 DEF EmptyMessage, OneEach
  <2>7. OneEach(addOption(m, option).options)
    BY <2>3, <2>4, <2>6, AddedType
  <2> QED BY <2>5, <2>6, <2>7, HoldsUnique
<1>2. ASSUME NEW option \in Options, AddOption(option)
      PROVE  OneOfEachType'
  <2>1. option \in Option /\ Holds(addOption(msg, option), received)
    BY <1>2, ConstantsAssumption DEF AddOption
  <2> QED BY <1>0, <2>1, AddedType, HoldsUnique
<1>3. ASSUME NEW option \in Options, RemoveOption(option.type)
      PROVE  OneOfEachType'
  BY <1>0, <1>3, RemovedType, HoldsUnique DEF RemoveOption
<1>4. ASSUME NEW payload \in Payloads, SetPayload(payload)
      PROVE  OneOfEachType'
  <2>1. [msg EXCEPT !.payload = payload].options = msg.options
    BY <1>0 DEF Message
  <2> QED BY <1>0, <1>4, <2>1, HoldsUnique DEF SetPayload
<1>5. ASSUME NEW set \in HeaderValues, SetHeader(set[1], set[2])
      PROVE  OneOfEachType'
  <2>1. set[1] # "options"
    BY ConstantsAssumption
  <2>2. [msg EXCEPT ![set[1]] = set[2]].options = msg.options
    BY <1>0, <2>1 DEF Message
  <2> QED BY <1>0, <1>5, <2>2, HoldsUnique DEF SetHeader
<1>6. CASE Reuse
  BY <1>6, HoldsUnique DEF Reuse
<1>7. ASSUME NEW payload \in Payloads, Respond(payload)
      PROVE  OneOfEachType'
  <2>1. createResponse(got, payload).options = <<>>
    BY <1>0 DEF createResponse, Message
  <2>2. OneEach(createResponse(got, payload).options)
    BY <2>1 DEF OneEach
  <2> QED BY <1>7, <2>2, HoldsUnique DEF Respond
<1>8. CASE Pack \/ PackThrows \/ Unpack
  BY <1>8 DEF OneOfEachType, Pack, PackThrows, Arrives, Unpack, UnpackHeader, HeaderThrows,
              UnpackOption, OptionThrows, UnpackPayload, Holding
<1>9. ASSUME NEW d \in Datagrams, Foreign(d)
      PROVE  OneOfEachType'
  BY <1>9 DEF Foreign, EmptyMessage, OneOfEachType
<1>10. CASE UNCHANGED vars
  BY <1>10 DEF vars, OneOfEachType
<1> QED BY <1>1, <1>2, <1>3, <1>4, <1>5, <1>6, <1>7, <1>8, <1>9, <1>10 DEF Next

\* A message that was never unpacked has one option of each type at most
\* (message.cpp:55-62, 83-93), for every set of options and topics.
THEOREM OptionsUnique == Spec => []OneOfEachType
<1>1. Init => OneOfEachType
  BY DEF Init, EmptyMessage, OneOfEachType
<1> QED BY <1>1, TypeCorrect, UniqueInductive, PTL DEF Spec

---------------------------------------------------------------------------
(* Unpacking drops nothing *)

\* Two bits and six bits of a byte.
LEMMA CodeParts ==
    ASSUME NEW a \in 0 .. 3, NEW b \in 0 .. 63
    PROVE  (a * 64 + b) \div 64 = a /\ (a * 64 + b) % 64 = b
  BY SMT

\* A byte is the parts it is cut into.
LEMMA ByteIsParts ==
    ASSUME NEW n \in 0 .. 255
    PROVE  /\ (n \div 64) * 64 + ((n \div 16) % 4) * 16 + ((n \div 4) % 4) * 4 + (n % 4) = n
           /\ (n \div 4) * 4 + (n % 4) = n
           /\ (n \div 64) % 4 = n \div 64 /\ ((n \div 4) % 4) % 4 = (n \div 4) % 4
  BY SMT

\* The id that is cut into these parts.
idOf(a, b, c, d) == a * 4194304 + b * 16384 + c * 64 + d

CutInto(id, a, b, c, d) ==
    /\ id % 16777216 = id
    /\ id \div 4194304 = a
    /\ (id \div 16384) % 256 = b
    /\ (id \div 64) % 256 = c
    /\ id % 64 = d

\* An id put together from parts is cut into them again.
LEMMA IdIsParts ==
    ASSUME NEW a \in 0 .. 3, NEW b \in 0 .. 255, NEW c \in 0 .. 255, NEW d \in 0 .. 63
    PROVE  CutInto(idOf(a, b, c, d), a, b, c, d)
<1>1. PICK id \in Nat : id = idOf(a, b, c, d)
  BY SMT DEF idOf
<1>2. id = (a * 65536 + b * 256 + c) * 64 + d /\ id < 16777216
  BY SMT, <1>1 DEF idOf
<1>3. id \div 64 = a * 65536 + b * 256 + c /\ id % 64 = d
  BY SMT, <1>2
<1>4. id \div 16384 = a * 256 + b /\ id \div 4194304 = a
  BY SMT, <1>1 DEF idOf
<1>5. (a * 256 + b) % 256 = b /\ ((a * 256 + b) * 256 + c) % 256 = c
  BY SMT
<1>6. id % 16777216 = id
  BY SMT, <1>2
<1>7. CutInto(id, a, b, c, d)
  BY SMT, <1>3, <1>4, <1>5, <1>6 DEF CutInto
<1> QED BY <1>1, <1>7, Zenon

\* The bytes of the header that was read from them, up to the unused bits.
LEMMA HeaderPacksBack ==
    ASSUME NEW d \in Seq(Byte), Len(d) >= 8
    PROVE  packHeader(unpackHeader(d)) =
               <<d[1], d[2], d[3], d[4], d[5], (d[6] \div 4) * 4, 0, 0>>
<1>1. PICK b1 \in 0 .. 255, b2 \in 0 .. 255, b3 \in 0 .. 255,
           b4 \in 0 .. 255, b5 \in 0 .. 255, b6 \in 0 .. 255 :
             b1 = d[1] /\ b2 = d[2] /\ b3 = d[3] /\ b4 = d[4] /\ b5 = d[5] /\ b6 = d[6]
  <2>1. \A i \in 1 .. Len(d) : d[i] \in Byte
    BY ElementOfSeq
  <2>2. /\ d[1] \in Byte /\ d[2] \in Byte /\ d[3] \in Byte
        /\ d[4] \in Byte /\ d[5] \in Byte /\ d[6] \in Byte
    BY <2>1, LenProperties
  <2> QED BY <2>2, Zenon DEF Byte
<1> DEFINE m == unpackHeader(d)
<1>2. PICK code \in Nat, id \in Nat, count \in Nat :
         /\ code = (b1 % 4) * 64 + (b2 \div 4)
         /\ id = (b2 % 4) * 4194304 + b3 * 16384 + b4 * 64 + (b5 \div 4)
         /\ count = (b5 % 4) * 64 + (b6 \div 4)
  BY SMT
<1>3. /\ m.version = b1 \div 64 /\ m.verb = (b1 \div 16) % 4 /\ m.qos = (b1 \div 4) % 4
      /\ m.code = code /\ m.id = id /\ m.count = count
  BY SMT, <1>1, <1>2 DEF unpackHeader
<1>4. /\ code \div 64 = b1 % 4 /\ code % 64 = b2 \div 4
      /\ count \div 64 = b5 % 4 /\ count % 64 = b6 \div 4
  BY SMT, <1>2, ByteParts, CodeParts
<1>5. /\ id % 16777216 = id /\ id \div 4194304 = b2 % 4
      /\ (id \div 16384) % 256 = b3 /\ (id \div 64) % 256 = b4 /\ id % 64 = b5 \div 4
  <2>1. PICK a \in 0 .. 3, r \in 0 .. 63 : a = b2 % 4 /\ r = b5 \div 4
    BY SMT, ByteParts
  <2>2. id = idOf(a, b3, b4, r)
    BY SMT, <1>2, <2>1 DEF idOf
  <2>3. CutInto(id, a, b3, b4, r)
    BY <2>2, IdIsParts, Zenon
  <2> QED BY SMT, <2>1, <2>3 DEF CutInto
<1>6. /\ ((b1 \div 64) % 4) * 64 + ((b1 \div 16) % 4) * 16
           + (((b1 \div 4) % 4) % 4) * 4 + (b1 % 4) = b1
      /\ (b2 \div 4) * 4 + (b2 % 4) = b2
      /\ (b5 \div 4) * 4 + (b5 % 4) = b5
  BY SMT, ByteIsParts
<1> HIDE DEF m
<1>7. packHeader(m) = <<b1, b2, b3, b4, b5, (b6 \div 4) * 4, 0, 0>>
  BY SMT, <1>3, <1>4, <1>5, <1>6 DEF packHeader
<1> QED BY SMT, <1>1, <1>7 DEF m

\* A datagram without its unused bits: the header packed again, and the rest.
LEMMA WithoutUnusedBits ==
    ASSUME NEW d \in Seq(Byte), Len(d) >= 8
    PROVE  withoutUnusedBits(d) = packHeader(unpackHeader(d)) \o SubSeq(d, 9, Len(d))
<1> DEFINE header == packHeader(unpackHeader(d))
           rest == SubSeq(d, 9, Len(d))
           whole == withoutUnusedBits(d)
<1>1. \A i \in 1 .. Len(d) : d[i] \in Byte
  BY ElementOfSeq
<1>2. /\ Len(d) \in Nat /\ DOMAIN d = 1 .. Len(d)
  BY LenProperties
<1>3. header \in Seq(Byte) /\ Len(header) = 8
  BY HeaderIsMessage, HeaderIsBytes
<1>4. /\ rest \in Seq(Byte) /\ Len(rest) = Len(d) - 8
      /\ \A i \in 1 .. Len(d) - 8 : rest[i] = d[8 + i]
  <2>1. \A i \in 9 .. Len(d) : d[i] \in Byte
    BY <1>1, <1>2
  <2>2. /\ rest \in Seq(Byte)
        /\ Len(rest) = IF 9 <= Len(d) THEN Len(d) - 9 + 1 ELSE 0
        /\ \A i \in 1 .. Len(d) - 9 + 1 : rest[i] = d[9 + i - 1]
    BY <1>2, <2>1, SubSeqProperties
  <2>3. /\ Len(d) - 9 + 1 = Len(d) - 8 /\ (~(9 <= Len(d)) => Len(d) - 8 = 0)
        /\ \A i \in 1 .. Len(d) - 8 : 9 + i - 1 = 8 + i
    BY <1>2
  <2> HIDE DEF rest
  <2> QED BY <2>2, <2>3
<1>5. /\ header[1] = d[1] /\ header[2] = d[2] /\ header[3] = d[3] /\ header[4] = d[4]
      /\ header[5] = d[5] /\ header[6] = (d[6] \div 4) * 4
      /\ header[7] = 0 /\ header[8] = 0
  BY HeaderPacksBack
<1>6. /\ whole \in Seq(Byte) /\ Len(whole) = Len(d)
      /\ \A k \in 1 .. Len(d) : whole[k] = IF k = 6 THEN (d[k] \div 4) * 4
                                           ELSE IF k \in {7, 8} THEN 0 ELSE d[k]
  <2>1. \A b \in 0 .. 255 : (b \div 4) * 4 \in 0 .. 255
    BY SMT
  <2>2. \A k \in 1 .. Len(d) : (d[k] \div 4) * 4 \in Byte /\ d[k] \in Byte /\ 0 \in Byte
    <3>1. 0 \in Byte /\ \A b \in Byte : (b \div 4) * 4 \in Byte
      BY SMT, <2>1 DEF Byte
    <3> QED BY <1>1, <3>1, Zenon
  <2>3. whole = [k \in 1 .. Len(d) |-> IF k = 6 THEN (d[k] \div 4) * 4
                                       ELSE IF k \in {7, 8} THEN 0 ELSE d[k]]
    BY <1>2, Zenon DEF withoutUnusedBits
  <2>4. whole \in [1 .. Len(d) -> Byte]
    BY <2>2, <2>3, Zenon
  <2>5. whole \in Seq(Byte) /\ Len(whole) = Len(d)
    BY <1>2, <2>4
  <2> QED BY <2>3, <2>5, Zenon
<1> HIDE DEF header, rest, whole
<1>7. /\ header \o rest \in Seq(Byte) /\ Len(header \o rest) = Len(d)
      /\ \A k \in 1 .. Len(d) : (header \o rest)[k] = IF k <= 8 THEN header[k] ELSE rest[k - 8]
  <2>1. /\ header \o rest \in Seq(Byte) /\ Len(header \o rest) = Len(header) + Len(rest)
        /\ \A k \in 1 .. Len(header) + Len(rest) :
              (header \o rest)[k] = IF k <= Len(header) THEN header[k] ELSE rest[k - Len(header)]
    BY <1>3, <1>4, ConcatProperties
  <2>2. Len(header) + Len(rest) = Len(d)
    BY <1>2, <1>3, <1>4
  <2> QED BY <1>3, <2>1, <2>2
<1>8. \A k \in 1 .. Len(d) : whole[k] = (header \o rest)[k]
  <2> SUFFICES ASSUME NEW k \in 1 .. Len(d)
               PROVE  whole[k] = (header \o rest)[k]
    OBVIOUS
  <2>1. CASE k <= 8
    <3>1. k \in {1, 2, 3, 4, 5, 6, 7, 8}
      BY <2>1, <1>2
    <3>2. whole[k] = header[k]
      BY <1>5, <1>6, <3>1
    <3> QED BY <1>7, <2>1, <3>2
  <2>2. CASE ~(k <= 8)
    <3>1. whole[k] = d[k] /\ k - 8 \in 1 .. Len(d) - 8 /\ 8 + (k - 8) = k
      BY <1>2, <1>6, <2>2
    <3> QED BY <1>4, <1>7, <2>2, <3>1
  <2> QED BY <2>1, <2>2
<1>9. whole = header \o rest
  <2> DEFINE both == header \o rest
  <2>1. /\ whole \in Seq(Byte) /\ both \in Seq(Byte) /\ Len(whole) = Len(both)
        /\ \A k \in 1 .. Len(whole) : whole[k] = both[k]
    BY <1>6, <1>7, <1>8
  <2> HIDE DEF both
  <2>2. whole = both
    BY <2>1, SeqEqual
  <2> QED BY <2>2 DEF both
<1> QED BY <1>9 DEF whole, header, rest

\* The bytes that unpack() has not read yet.
Unread == SubSeq(data, offset + 1, Len(data))

\* What is unread is what follows the offset.
LEMMA UnreadBytes ==
    ASSUME TypeOK
    PROVE  /\ Unread \in Seq(Byte) /\ Len(Unread) = Len(data) - offset
           /\ \A i \in 1 .. Len(data) - offset : Unread[i] = data[offset + i]
<1>1. data \in Seq(Byte) /\ offset \in 0 .. Len(data) /\ Len(data) \in Nat
  BY LenProperties DEF TypeOK
<1>2. \A i \in offset + 1 .. Len(data) : data[i] \in Byte
  BY <1>1, ElementOfSeq
<1> DEFINE m == offset + 1
           n == Len(data)
<1>3. m \in Int /\ n \in Int /\ \A i \in m .. n : data[i] \in Byte
  BY <1>1, <1>2
<1>4. n - m + 1 = Len(data) - offset /\ (~(m <= n) => Len(data) - offset = 0)
      /\ \A i \in 1 .. Len(data) - offset : m + i - 1 = offset + i
  BY <1>1
<1> HIDE DEF m, n
<1>5. /\ SubSeq(data, m, n) \in Seq(Byte)
      /\ Len(SubSeq(data, m, n)) = IF m <= n THEN n - m + 1 ELSE 0
      /\ \A i \in 1 .. n - m + 1 : SubSeq(data, m, n)[i] = data[m + i - 1]
  BY <1>3, SubSeqProperties
<1>6. Unread = SubSeq(data, m, n)
  BY DEF Unread, m, n
<1> QED BY <1>4, <1>5, <1>6

\* Packing the next option again gives the bytes it was read from.
LEMMA OptionPacksBack ==
    ASSUME TypeOK, optionFits
    PROVE  LET end == offset + 2 + data[offset + 2]
               option == decodeOption(data[offset + 1], SubSeq(data, offset + 3, end))
           IN  /\ option \in Option /\ Len(option.value) <= 255
               /\ option.kind = "string" \/ option.type \in IntegerTypes
               /\ SubSeq(data, end + 1, Len(data)) \in Seq(Byte)
               /\ Unread = packOption(option) \o SubSeq(data, end + 1, Len(data))
<1> DEFINE end == offset + 2 + data[offset + 2]
           value == SubSeq(data, offset + 3, end)
           option == decodeOption(data[offset + 1], value)
           bytes == packOption(option)
<1>1. /\ offset + 1 \in 1 .. Len(data) /\ data[offset + 1] \in Byte
      /\ data[offset + 2] \in 0 .. 255
      /\ end \in offset + 2 .. Len(data)
      /\ value \in Seq(Byte) /\ Len(value) = data[offset + 2]
      /\ \A i \in 1 .. data[offset + 2] : value[i] = data[offset + 2 + i]
  BY NextOption
<1>2. /\ option.type = data[offset + 1] /\ option.value = value
      /\ option.kind = "string" \/ option.type \in IntegerTypes
  BY DEF decodeOption
<1>3. data \in Seq(Byte) /\ offset \in 0 .. Len(data) /\ Len(data) \in Nat
  BY LenProperties DEF TypeOK
<1>4. end = offset + 2 + Len(value)
  BY <1>1
<1> HIDE DEF end, value
<1>5. option \in Option
  BY <1>1, DecodedIsOption
<1> HIDE DEF option
<1>6. Len(option.value) <= 255
  <2>1. \A n \in 0 .. 255 : n <= 255
    OBVIOUS
  <2> QED BY <1>1, <1>2, <2>1, Zenon
<1>7. /\ bytes \in Seq(Byte) /\ Len(bytes) = 2 + Len(value)
      /\ bytes[1] = data[offset + 1] /\ bytes[2] = data[offset + 2]
      /\ \A k \in 1 .. Len(value) : bytes[k + 2] = value[k]
  BY <1>1, <1>2, <1>5, <1>6, OptionIsBytes
<1> HIDE DEF bytes
<1>8. Len(value) \in 0 .. 255
  BY <1>1
<1> DEFINE read == SubSeq(data, offset + 1, end)
<1>9. /\ read \in Seq(Byte) /\ Len(read) = 2 + Len(value)
      /\ \A i \in 1 .. 2 + Len(value) : read[i] = data[offset + i]
  <2> DEFINE m == offset + 1
  <2>1. /\ m \in Int /\ end \in Int /\ m <= end /\ end - m + 1 = 2 + Len(value)
        /\ \A i \in m .. end : i \in 1 .. Len(data)
        /\ \A i \in 1 .. 2 + Len(value) : m + i - 1 = offset + i
    BY <1>1, <1>3, <1>4, <1>8
  <2> HIDE DEF m
  <2>2. \A i \in m .. end : data[i] \in Byte
    BY <1>3, <2>1, ElementOfSeq
  <2>3. /\ SubSeq(data, m, end) \in Seq(Byte)
        /\ Len(SubSeq(data, m, end)) = IF m <= end THEN end - m + 1 ELSE 0
        /\ \A i \in 1 .. end - m + 1 : SubSeq(data, m, end)[i] = data[m + i - 1]
    BY <2>1, <2>2, SubSeqProperties
  <2>4. read = SubSeq(data, m, end)
    BY DEF m
  <2> HIDE DEF read
  <2> QED BY <2>1, <2>3, <2>4
<1>10. bytes = read
  <2> HIDE DEF read
  <2>1. ASSUME NEW i \in 1 .. 2 + Len(value)
        PROVE  bytes[i] = read[i]
    <3>1. CASE i = 1 \/ i = 2
      BY <1>7, <1>9, <3>1
    <3>2. CASE ~(i = 1 \/ i = 2)
      <4>1. i - 2 \in 1 .. Len(value) /\ (i - 2) + 2 = i /\ offset + 2 + (i - 2) = offset + i
        BY <1>3, <1>8, <3>2
      <4>2. bytes[i] = value[i - 2] /\ value[i - 2] = data[offset + 2 + (i - 2)]
        BY <1>1, <1>7, <4>1
      <4> QED BY <1>9, <4>1, <4>2
    <3> QED BY <3>1, <3>2
  <2> QED BY <1>7, <1>9, <2>1, SeqEqual
<1>11. Unread = read \o SubSeq(data, end + 1, Len(data))
  <2> DEFINE m == offset + 1
             n == Len(data)
  <2>1. \A o \in Nat, l \in Nat : \A e \in o + 2 .. l :
           o + 1 \in 1 .. l + 1 /\ e \in (o + 1) - 1 .. l /\ l \in e .. l
    OBVIOUS
  <2>2. m \in 1 .. Len(data) + 1 /\ end \in m - 1 .. Len(data) /\ n \in end .. Len(data)
    <3>1. offset \in Nat
      BY <1>3
    <3> QED BY <1>1, <1>3, <2>1, <3>1, Zenon
  <2> HIDE DEF m, n
  <2>3. SubSeq(data, m, end) \o SubSeq(data, end + 1, n) = SubSeq(data, m, n)
    BY <1>3, <2>2, ConcatAdjacentSubSeq, Zenon
  <2> QED BY <2>3 DEF Unread, m, n
<1>12. SubSeq(data, end + 1, Len(data)) \in Seq(Byte)
  <2> DEFINE m == end + 1
             n == Len(data)
  <2>1. m \in Int /\ n \in Int /\ \A i \in m .. n : i \in 1 .. Len(data)
    BY <1>1, <1>3
  <2>2. \A i \in m .. n : data[i] \in Byte
    BY <1>3, <2>1, ElementOfSeq
  <2> HIDE DEF m, n
  <2>3. SubSeq(data, m, n) \in Seq(Byte)
    BY <2>1, <2>2, SubSeqProperties
  <2> QED BY <2>3 DEF m, n
<1> QED BY <1>2, <1>5, <1>6, <1>10, <1>11, <1>12 DEF bytes, option, value, end

\* An option added at the end is packed at the end.
LEMMA PackedAppend ==
    ASSUME NEW s, Packable(s), NEW option \in Option, Len(option.value) <= 255
    PROVE  /\ Packable(Append(s, option))
           /\ packOptions(Append(s, option)) = packOptions(s) \o packOption(option)
<1>1. Append(s, option) = s \o <<option>>
  BY AppendIsConcat DEF Packable
<1>2. Packable(<<option>>) /\ packOptions(<<option>>) = packOption(option)
  BY PackedOne
<1>3. /\ Packable(s \o <<option>>)
      /\ packOptions(s \o <<option>>) = packOptions(s) \o packOptions(<<option>>)
  BY <1>2, PackedConcat
<1> QED BY <1>1, <1>2, <1>3

\* The header depends on six fields only.
LEMMA SameHeaderBytes ==
    ASSUME NEW m, NEW n,
           m.version = n.version, m.verb = n.verb, m.qos = n.qos,
           m.code = n.code, m.id = n.id, m.count = n.count
    PROVE  packHeader(m) = packHeader(n)
  BY SMT DEF packHeader

\* Four sequences in a row, grouped the other way.
LEMMA Regrouped ==
    \A S : \A s, t, u, v \in Seq(S) : (s \o t) \o (u \o v) = (s \o (t \o u)) \o v
<1> SUFFICES ASSUME NEW S, NEW s \in Seq(S), NEW t \in Seq(S), NEW u \in Seq(S), NEW v \in Seq(S)
             PROVE  (s \o t) \o (u \o v) = (s \o (t \o u)) \o v
  OBVIOUS
<1> DEFINE st == s \o t
           tu == t \o u
<1>1. st \in Seq(S) /\ tu \in Seq(S)
  BY ConcatProperties
<1>2. st \o u = s \o tu
  BY Associative
<1> HIDE DEF st, tu
<1>3. (st \o u) \o v = st \o (u \o v)
  BY <1>1, Associative, SMTT(30)
<1>4. st \o (u \o v) = (s \o tu) \o v
  BY <1>2, <1>3
<1> QED BY <1>4 DEF st, tu

\* Up to here, what unpack() has read and what it has not are the datagram.
ReadInv ==
    /\ pc \in {"options", "done"} =>
         \A k \in DOMAIN got.options :
            /\ Len(got.options[k].value) <= 255
            /\ got.options[k].kind = "string" \/ got.options[k].type \in IntegerTypes
    /\ pc = "options" =>
         withoutUnusedBits(data) = packHeader(got) \o packOptions(got.options) \o Unread
    /\ pc = "done" => withoutUnusedBits(data) = packedBytes(got)

\* What was read can be packed again.
LEMMA GotPackable ==
    ASSUME TypeOK, ReadInv, pc \in {"options", "done"}
    PROVE  Packable(got.options)
  BY MessageFields DEF TypeOK, ReadInv, Packable

\* Every step of unpack() moves bytes from the unread to the read.
LEMMA ReadInductive == TypeOK /\ TypeOK' /\ ReadInv /\ [Next]_vars => ReadInv'
<1> SUFFICES ASSUME TypeOK, TypeOK', ReadInv, [Next]_vars PROVE ReadInv'
  OBVIOUS
<1>1. CASE pc' \notin {"options", "done"}
  BY <1>1 DEF ReadInv
<1>2. CASE UnpackHeader
  <2>1. /\ Len(data) >= 8 /\ got' = unpackHeader(data) /\ offset' = 8
        /\ pc' = "options" /\ data' = data /\ data \in Seq(Byte)
    BY <1>2 DEF UnpackHeader, Holding, TypeOK
  <2>2. got'.options = <<>> /\ got' \in Message
    BY <2>1, HeaderIsMessage
  <2>3. withoutUnusedBits(data') = packHeader(got') \o Unread'
    BY <2>1, WithoutUnusedBits DEF Unread
  <2>4. packHeader(got') \o packOptions(got'.options) = packHeader(got')
    <3>1. packHeader(got') \in Seq(Byte)
      BY <2>2, HeaderIsBytes
    <3> QED BY <2>2, <3>1, PackedNone, ConcatEmptySeq
  <2>5. DOMAIN got'.options = {}
    BY <2>2
  <2> QED BY <2>1, <2>3, <2>4, <2>5 DEF ReadInv
<1>3. CASE UnpackOption
  <2> DEFINE end == offset + 2 + data[offset + 2]
             option == decodeOption(data[offset + 1], SubSeq(data, offset + 3, end))
             rest == SubSeq(data, end + 1, Len(data))
  <2>1. /\ pc = "options" /\ optionFits
        /\ got' = [got EXCEPT !.options = Append(@, option)]
        /\ offset' = end /\ pc' = pc /\ data' = data
    BY <1>3 DEF UnpackOption, Holding
  <2>2. /\ option \in Option /\ Len(option.value) <= 255
        /\ option.kind = "string" \/ option.type \in IntegerTypes
        /\ Unread = packOption(option) \o rest
    BY <2>1, OptionPacksBack
  <2>3. Unread' = rest
    BY <2>1 DEF Unread
  <2> HIDE DEF end, option, rest
  <2>4. /\ got' \in Message /\ got \in Message /\ got'.options = Append(got.options, option)
        /\ packHeader(got') = packHeader(got)
    <3>1. got \in Message /\ got' \in Message
      BY DEF TypeOK
    <3>2. /\ got'.options = Append(got.options, option)
          /\ got'.version = got.version /\ got'.verb = got.verb /\ got'.qos = got.qos
          /\ got'.code = got.code /\ got'.id = got.id /\ got'.count = got.count
      BY <2>1, <3>1 DEF Message
    <3>3. packHeader(got') = packHeader(got)
      BY <3>2, SameHeaderBytes
    <3> QED BY <3>1, <3>2, <3>3
  <2>5. Packable(got.options)
    BY <2>1, GotPackable
  <2>6. packOptions(got'.options) = packOptions(got.options) \o packOption(option)
    BY <2>2, <2>4, <2>5, PackedAppend
  <2>7. withoutUnusedBits(data') = packHeader(got') \o packOptions(got'.options) \o Unread'
    <3> DEFINE h == packHeader(got)
               p == packOptions(got.options)
               o == packOption(option)
    <3>1. h \in Seq(Byte) /\ p \in Seq(Byte) /\ o \in Seq(Byte)
      BY <2>2, <2>4, <2>5, HeaderIsBytes, PackedIsBytes, OptionIsBytes
    <3>2. rest \in Seq(Byte)
      BY <2>1, <2>2, OptionPacksBack DEF rest, end
    <3>3. withoutUnusedBits(data) = (h \o p) \o (o \o rest)
      BY <2>1, <2>2 DEF ReadInv
    <3> HIDE DEF h, p, o
    <3>4. (h \o p) \o (o \o rest) = (h \o (p \o o)) \o rest
      BY <3>1, <3>2, Regrouped, SMTT(30)
    <3> QED BY <2>1, <2>3, <2>4, <2>6, <3>3, <3>4 DEF h, p, o
  <2>8. \A k \in DOMAIN got'.options :
           /\ Len(got'.options[k].value) <= 255
           /\ got'.options[k].kind = "string" \/ got'.options[k].type \in IntegerTypes
    <3>1. got.options \in Seq(Option)
      BY <2>4, MessageFields
    <3>2. /\ DOMAIN got'.options = 1 .. Len(got.options) + 1
          /\ DOMAIN got.options = 1 .. Len(got.options) /\ Len(got.options) \in Nat
          /\ \A k \in 1 .. Len(got.options) : got'.options[k] = got.options[k]
          /\ got'.options[Len(got.options) + 1] = option
      BY <2>2, <2>4, <3>1, AppendProperties, LenProperties
    <3>3. \A k \in DOMAIN got'.options : k \in DOMAIN got.options \/ k = Len(got.options) + 1
      BY <3>2
    <3>4. \A k \in DOMAIN got.options :
             /\ Len(got.options[k].value) <= 255
             /\ got.options[k].kind = "string" \/ got.options[k].type \in IntegerTypes
      BY <2>1 DEF ReadInv
    <3> QED BY <2>2, <3>2, <3>3, <3>4
  <2> QED BY <2>1, <2>7, <2>8 DEF ReadInv
<1>4. CASE UnpackPayload
  <2>1. /\ pc = "options" /\ pc' = "done" /\ data' = data
        /\ got' = [got EXCEPT !.payload = Unread]
    BY <1>4 DEF UnpackPayload, Holding, Unread
  <2>2. got \in Message
    BY DEF TypeOK
  <2>3. /\ got'.options = got.options /\ got'.payload = Unread
        /\ got'.version = got.version /\ got'.verb = got.verb /\ got'.qos = got.qos
        /\ got'.code = got.code /\ got'.id = got.id /\ got'.count = got.count
    BY <2>1, <2>2 DEF Message
  <2>4. packHeader(got') = packHeader(got)
    BY <2>3, SameHeaderBytes
  <2>5. withoutUnusedBits(data') = packedBytes(got')
    BY <2>1, <2>3, <2>4 DEF ReadInv, packedBytes
  <2> QED BY <2>1, <2>3, <2>5 DEF ReadInv
<1>5. CASE UNCHANGED vars
  BY <1>5 DEF vars, ReadInv, Unread
<1>6. pc' \notin {"options", "done"} \/ UnpackHeader \/ UnpackOption \/ UnpackPayload
        \/ UNCHANGED vars
  BY DEF Next, Unpack, Create, AddOption, RemoveOption, SetPayload, SetHeader, Reuse, Respond,
         Pack, PackThrows, Foreign, Holds, Arrives, HeaderThrows, OptionThrows
<1> QED BY <1>1, <1>2, <1>3, <1>4, <1>5, <1>6

\* Packing what unpack() returns gives the datagram again, for every datagram
\* (message.cpp:130-158), and the topic of what it returns can be read.
THEOREM UnpackLosesNothing == Spec => []NothingLost
<1>1. Init => ReadInv
  BY DEF Init, ReadInv
<1>2. TypeOK /\ ReadInv => NothingLost
  <2> SUFFICES ASSUME TypeOK, ReadInv, pc = "done"
               PROVE  packedBytes(got) = withoutUnusedBits(data) /\ getTopicPath(got) # {}
    BY DEF NothingLost
  <2>1. packedBytes(got) = withoutUnusedBits(data)
    BY DEF ReadInv
  <2>2. getTopicPath(got) # {}
    <3>1. CASE OfType(got, TOPIC_PATH) = {}
      BY <3>1 DEF getTopicPath
    <3>2. CASE OfType(got, TOPIC_PATH) # {}
      <4> DEFINE first == First(got, TOPIC_PATH)
      <4>1. got.options \in Seq(Option)
        BY MessageFields DEF TypeOK
      <4>2. first \in DOMAIN got.options /\ got.options[first].type = TOPIC_PATH
        <5>1. first \in OfType(got, TOPIC_PATH)
          BY <3>2, <4>1, FirstIsOfType, Zenon
        <5> QED BY <5>1 DEF OfType
      <4> HIDE DEF first
      <4>3. got.options[first].kind = "string"
        BY <4>2 DEF ReadInv, TOPIC_PATH, IntegerTypes
      <4> QED BY <3>2, <4>3 DEF getTopicPath, getStringValue, first
    <3> QED BY <3>1, <3>2
  <2> QED BY <2>1, <2>2
<1> QED BY <1>1, <1>2, ReadInductive, TypeCorrect, PTL DEF Spec

---------------------------------------------------------------------------
(* The count *)

Counted(m) == m.count = Len(m.options) % 256

\* The header counts the options modulo 256, and none is owed at the end.
CountInv == Counted(msg) /\ (pc = "done" => left = 0)

\* A new message counts right.
LEMMA EmptyCounted == Counted(EmptyMessage)
<1>1. Len(<<>>) = 0 /\ 0 % 256 = 0
  BY SMT
<1> QED BY <1>1 DEF Counted, EmptyMessage

\* withOptions() sets the count.
LEMMA WithOptionsCounted ==
    ASSUME NEW m \in Message, NEW options \in Seq(Option)
    PROVE  Counted(withOptions(m, options))
<1>1. /\ withOptions(m, options).options = options
      /\ withOptions(m, options).count = Len(options) % 256
  BY WithOptionsIsMessage
<1> QED BY <1>1, Zenon DEF Counted

\* addOption() counts right, ...
LEMMA AddedCounted ==
    ASSUME NEW m \in Message, NEW option \in Option
    PROVE  Counted(addOption(m, option))
<1>1. removeOption(m, option.type).options \in Seq(Option)
  BY RemovedIsMessage, MessageFields
<1>2. Append(removeOption(m, option.type).options, option) \in Seq(Option)
  BY <1>1, AppendProperties
<1> QED BY <1>2, WithOptionsCounted DEF addOption

\* ... and so does removeOption(), if the count was right before.
LEMMA RemovedCounted ==
    ASSUME NEW m \in Message, NEW type, Counted(m)
    PROVE  Counted(removeOption(m, type))
<1>0. m.options \in Seq(Option)
  BY MessageFields
<1>1. CASE OfType(m, type) = {}
  BY <1>1 DEF removeOption
<1>2. CASE OfType(m, type) # {}
  <2>1. First(m, type) \in DOMAIN m.options
    BY <1>0, <1>2, FirstIsOfType, Zenon DEF OfType
  <2>2. First(m, type) \in 1 .. Len(m.options)
    BY <1>0, <2>1, LenProperties
  <2>3. RemoveAt(m.options, First(m, type)) \in Seq(Option)
    BY <1>0, <2>2, ErasedOptions
  <2> QED BY <1>2, <2>3, WithOptionsCounted DEF removeOption
<1> QED BY <1>1, <1>2

\* What the owner goes on with counts right.
LEMMA HoldsCounted ==
    ASSUME NEW m, Counted(m), NEW unpacked, Holds(m, unpacked)
    PROVE  CountInv'
  BY DEF Holds, CountInv, Counted

\* An unpacked message is counted right: it has at most 255 options.
LEMMA ReadCounted ==
    ASSUME TypeOK, pc \in {"options", "done"}, left = 0
    PROVE  Counted(got) /\ Len(got.options) = got.count
<1>1. got.options \in Seq(Option) /\ got.count \in 0 .. 255
  BY MessageFields DEF TypeOK
<1>2. Len(got.options) \in Nat /\ left + Len(got.options) = got.count
  BY <1>1, LenProperties DEF TypeOK
<1>3. Len(got.options) = got.count
  BY <1>2
<1>4. \A n \in 0 .. 255 : n % 256 = n
  BY SMT
<1>5. got.count % 256 = got.count
  BY <1>1, <1>4, Zenon
<1> QED BY <1>3, <1>5, Zenon DEF Counted

\* Every step keeps the count right: a forwarded message has the count it came with.
LEMMA CountInductive == TypeOK /\ CountInv /\ [Next]_vars => CountInv'
<1> SUFFICES ASSUME TypeOK, CountInv, [Next]_vars PROVE CountInv'
  OBVIOUS
<1>0. msg \in Message /\ got \in Message
  BY DEF TypeOK
<1>1. ASSUME NEW verb \in Verbs, NEW payload \in Payloads, NEW topic \in Topics,
             NEW id \in Ids, NEW qos \in QoSLevels,
             Create(verb, payload, topic, id, qos)
      PROVE  CountInv'
  <2>1. PICK drawn \in Nat :
           LET m == [EmptyMessage EXCEPT !.verb = verb, !.payload = payload,
                                         !.id = drawn, !.qos = qos]
           IN  Holds(IF topic = <<>> THEN m ELSE setTopicPath(m, topic), FALSE)
    BY <1>1, ConstantsAssumption DEF Create
  <2> DEFINE m == [EmptyMessage EXCEPT !.verb = verb, !.payload = payload,
                                       !.id = drawn, !.qos = qos]
             option == [type |-> TOPIC_PATH, value |-> topic, kind |-> "string"]
  <2>2. verb \in 0 .. 3 /\ payload \in Seq(Byte) /\ topic \in Seq(Byte) /\ qos \in Byte
    BY ConstantsAssumption
  <2>3. m \in Message /\ m.count = EmptyMessage.count /\ m.options = EmptyMessage.options
    BY <2>2, EmptyIsMessage DEF Message
  <2>4. option \in Option
    BY <2>2 DEF Option, Kinds, Byte, TOPIC_PATH
  <2>5. Holds(IF topic = <<>> THEN m ELSE addOption(m, option), FALSE)
    BY <2>1 DEF setTopicPath
  <2> HIDE DEF m, option
  <2>6. Counted(m) /\ Counted(addOption(m, option))
    BY <2>3, <2>4, AddedCounted, EmptyCounted DEF Counted
  <2> QED BY <2>5, <2>6, HoldsCounted
<1>2. ASSUME NEW option \in Options, AddOption(option)
      PROVE  CountInv'
  <2>1. option \in Option /\ Holds(addOption(msg, option), received)
    BY <1>2, ConstantsAssumption DEF AddOption
  <2> QED BY <1>0, <2>1, AddedCounted, HoldsCounted
<1>3. ASSUME NEW option \in Options, RemoveOption(option.type)
      PROVE  CountInv'
  BY <1>0, <1>3, RemovedCounted, HoldsCounted DEF RemoveOption, CountInv
<1>4. ASSUME NEW payload \in Payloads, SetPayload(payload)
      PROVE  CountInv'
  <2>1. Holds([msg EXCEPT !.payload = payload], received)
    BY <1>4 DEF SetPayload
  <2>2. Counted([msg EXCEPT !.payload = payload])
    BY <1>0 DEF Message, Counted, CountInv
  <2> QED BY <2>1, <2>2, HoldsCounted
<1>5. ASSUME NEW set \in HeaderValues, SetHeader(set[1], set[2])
      PROVE  CountInv'
  <2>1. Holds([msg EXCEPT ![set[1]] = set[2]], received)
    BY <1>5 DEF SetHeader
  <2>2. set[1] \notin {"count", "options"}
    BY ConstantsAssumption
  <2>3. Counted([msg EXCEPT ![set[1]] = set[2]])
    BY <1>0, <2>2 DEF Message, Counted, CountInv
  <2> QED BY <2>1, <2>3, HoldsCounted
<1>6. CASE Reuse
  <2>1. Counted(got) /\ Holds(got, TRUE)
    BY <1>6, ReadCounted DEF Reuse, CountInv
  <2> QED BY <2>1, HoldsCounted
<1>7. ASSUME NEW payload \in Payloads, Respond(payload)
      PROVE  CountInv'
  <2>1. Holds(createResponse(got, payload), FALSE)
    BY <1>7 DEF Respond
  <2>2. Counted(createResponse(got, payload))
    <3>1. /\ createResponse(got, payload).options = EmptyMessage.options
          /\ createResponse(got, payload).count = EmptyMessage.count
      BY <1>0 DEF createResponse, Message, EmptyMessage
    <3> QED BY <3>1, EmptyCounted DEF Counted
  <2> QED BY <2>1, <2>2, HoldsCounted
<1>8. CASE Pack
  BY <1>8 DEF Pack, Arrives, CountInv, Counted
<1>9. CASE PackThrows
  BY <1>9 DEF PackThrows, CountInv, Counted
<1>10. ASSUME NEW d \in Datagrams, Foreign(d)
       PROVE  CountInv'
  BY <1>10, EmptyCounted DEF Foreign, Arrives, CountInv, Counted
<1>11. CASE Unpack
  BY <1>11 DEF Unpack, UnpackHeader, HeaderThrows, UnpackOption, OptionThrows, UnpackPayload,
               Holding, CountInv, Counted
<1>12. CASE UNCHANGED vars
  BY <1>12 DEF vars, CountInv, Counted
<1> QED BY <1>1, <1>2, <1>3, <1>4, <1>5, <1>6, <1>7, <1>8, <1>9, <1>10, <1>11, <1>12
        DEF Next

---------------------------------------------------------------------------
(* The round trip *)

\* What is left of a sequence when its front is cut off.
LEMMA AfterFront ==
    \A S : \A s, t \in Seq(S) : SubSeq(s \o t, Len(s) + 1, Len(s \o t)) = t
<1> SUFFICES ASSUME NEW S, NEW s \in Seq(S), NEW t \in Seq(S)
             PROVE  SubSeq(s \o t, Len(s) + 1, Len(s \o t)) = t
  OBVIOUS
<1> DEFINE st == s \o t
           m == Len(s) + 1
           n == Len(st)
           back == SubSeq(st, m, n)
<1>1. /\ st \in Seq(S) /\ Len(st) = Len(s) + Len(t) /\ Len(s) \in Nat /\ Len(t) \in Nat
      /\ \A i \in 1 .. Len(s) + Len(t) : st[i] = IF i <= Len(s) THEN s[i] ELSE t[i - Len(s)]
  BY ConcatProperties, LenProperties
<1> HIDE DEF st
<1>2. /\ m \in Int /\ n \in Int /\ n - m + 1 = Len(t) /\ (~(m <= n) => Len(t) = 0)
      /\ \A i \in m .. n : i \in 1 .. Len(st)
      /\ \A i \in 1 .. Len(t) : /\ m + i - 1 \in 1 .. Len(s) + Len(t)
                                /\ ~(m + i - 1 <= Len(s)) /\ (m + i - 1) - Len(s) = i
  BY <1>1
<1> HIDE DEF m, n
<1>3. \A i \in m .. n : st[i] \in S
  BY <1>1, <1>2, ElementOfSeq
<1>4. /\ back \in Seq(S) /\ Len(back) = IF m <= n THEN n - m + 1 ELSE 0
      /\ \A i \in 1 .. n - m + 1 : back[i] = st[m + i - 1]
  BY <1>2, <1>3, SubSeqProperties
<1> HIDE DEF back
<1>5. Len(back) = Len(t) /\ \A i \in 1 .. Len(t) : back[i] = st[m + i - 1]
  BY <1>2, <1>4
<1>6. \A i \in 1 .. Len(back) : back[i] = t[i]
  BY <1>1, <1>2, <1>5
<1>7. back = t
  BY <1>4, <1>5, <1>6, SeqEqual
<1> QED BY <1>7 DEF back, m, n, st

\* The datagram of a message begins with its header.
LEMMA PackedHeader ==
    ASSUME NEW m \in Message, Packable(m.options)
    PROVE  /\ packedBytes(m) \in Seq(Byte) /\ Len(packedBytes(m)) >= 8
           /\ unpackHeader(packedBytes(m)) = unpackHeader(packHeader(m))
           /\ SubSeq(packedBytes(m), 9, Len(packedBytes(m))) =
                  packOptions(m.options) \o m.payload
<1> DEFINE header == packHeader(m)
           options == packOptions(m.options)
           payload == m.payload
           rest == options \o payload
           bytes == packedBytes(m)
<1>1. /\ header \in Seq(Byte) /\ Len(header) = 8 /\ options \in Seq(Byte)
      /\ payload \in Seq(Byte)
  BY HeaderIsBytes, PackedIsBytes, MessageFields, Zenon
<1>2. bytes = (header \o options) \o payload
  BY DEF packedBytes
<1> HIDE DEF header, options, payload, bytes
<1>3. rest \in Seq(Byte)
  BY <1>1, ConcatProperties
<1>4. bytes = header \o rest
  BY <1>1, <1>2, Associative
<1> HIDE DEF rest
<1>5. /\ bytes \in Seq(Byte) /\ Len(bytes) = 8 + Len(rest) /\ Len(rest) \in Nat
      /\ \A i \in 1 .. 8 + Len(rest) : i <= 8 => bytes[i] = header[i]
  <2>1. /\ header \o rest \in Seq(Byte) /\ Len(header \o rest) = Len(header) + Len(rest)
        /\ \A i \in 1 .. Len(header) + Len(rest) :
              (header \o rest)[i] = IF i <= Len(header) THEN header[i] ELSE rest[i - Len(header)]
    BY <1>1, <1>3, ConcatProperties
  <2>2. Len(rest) \in Nat
    BY <1>3, LenProperties
  <2> QED BY <1>1, <1>4, <2>1, <2>2
<1>6. /\ bytes[1] = header[1] /\ bytes[2] = header[2] /\ bytes[3] = header[3]
      /\ bytes[4] = header[4] /\ bytes[5] = header[5] /\ bytes[6] = header[6]
  BY <1>5
<1>7. unpackHeader(bytes) = unpackHeader(header)
  BY SMT, <1>6 DEF unpackHeader
<1>8. SubSeq(bytes, 9, Len(bytes)) = rest
  <2>1. SubSeq(header \o rest, Len(header) + 1, Len(header \o rest)) = rest
    BY <1>1, <1>3, AfterFront, Zenon
  <2>2. Len(header) + 1 = 9
    BY <1>1
  <2> QED BY <1>4, <2>1, <2>2
<1>9. Len(bytes) >= 8
  BY <1>5
<1> QED BY <1>5, <1>7, <1>8, <1>9 DEF bytes, rest, options, payload, header

\* The next option of a list, cut off.
LEMMA NextOfPackable ==
    ASSUME NEW options, Packable(options), NEW n \in Nat, n < Len(options)
    PROVE  LET option == options[n + 1]
               others == SubSeq(options, n + 2, Len(options))
           IN  /\ option \in Option /\ Len(option.value) <= 255
               /\ Packable(others)
               /\ packOptions(SubSeq(options, n + 1, Len(options))) =
                      packOption(option) \o packOptions(others)
<1> DEFINE option == options[n + 1]
           others == SubSeq(options, n + 2, Len(options))
           all == SubSeq(options, n + 1, Len(options))
<1>1. options \in Seq(Option) /\ Len(options) \in Nat /\ DOMAIN options = 1 .. Len(options)
  BY LenProperties DEF Packable
<1>2. n + 1 \in 1 .. Len(options) /\ Len(options) \in n + 1 .. Len(options)
  BY <1>1
<1>3. option \in Option /\ Len(option.value) <= 255
  BY <1>1, <1>2, ElementOfSeq DEF Packable
<1>4. all = <<option>> \o others
  <2>1. SubSeq(options, n + 1, Len(options)) =
          <<options[n + 1]>> \o SubSeq(options, (n + 1) + 1, Len(options))
    BY <1>1, <1>2, SubSeqRecursiveFirst, Zenon
  <2>2. (n + 1) + 1 = n + 2
    OBVIOUS
  <2> QED BY <2>1, <2>2
<1>5. Packable(others)
  <2> DEFINE m == n + 2
             l == Len(options)
  <2>1. /\ m \in Int /\ l \in Int /\ \A i \in m .. l : i \in 1 .. Len(options)
        /\ \A i \in 1 .. l - m + 1 : m + i - 1 \in 1 .. Len(options)
        /\ m <= l \/ 0 = 0
    BY <1>1
  <2>2. \A i \in m .. l : options[i] \in Option
    BY <1>1, <2>1, ElementOfSeq
  <2> HIDE DEF m, l
  <2>3. /\ SubSeq(options, m, l) \in Seq(Option)
        /\ Len(SubSeq(options, m, l)) = IF m <= l THEN l - m + 1 ELSE 0
        /\ \A i \in 1 .. l - m + 1 : SubSeq(options, m, l)[i] = options[m + i - 1]
    BY <2>1, <2>2, SubSeqProperties
  <2>4. others = SubSeq(options, m, l)
    BY DEF m, l
  <2> HIDE DEF others
  <2>5. ASSUME NEW i \in DOMAIN others
        PROVE  Len(others[i].value) <= 255
    <3>1. others \in Seq(Option) /\ DOMAIN others = 1 .. Len(others)
      BY <2>3, <2>4, LenProperties
    <3>2. i \in 1 .. l - m + 1
      BY <2>1, <2>3, <2>4, <3>1
    <3>3. others[i] = options[m + i - 1] /\ m + i - 1 \in DOMAIN options
      BY <1>1, <2>1, <2>3, <2>4, <3>2
    <3> QED BY <3>3 DEF Packable
  <2> QED BY <2>3, <2>4, <2>5 DEF Packable
<1> HIDE DEF option, others, all
<1>6. Packable(<<option>>) /\ packOptions(<<option>>) = packOption(option)
  BY <1>3, PackedOne
<1>7. packOptions(<<option>> \o others) = packOptions(<<option>>) \o packOptions(others)
  BY <1>5, <1>6, PackedConcat
<1> QED BY <1>3, <1>4, <1>5, <1>6, <1>7 DEF option, others, all

\* The bytes of an option determine what is read.
LEMMA NextOfSent ==
    ASSUME TypeOK, NEW option \in Option, Len(option.value) <= 255,
           NEW tail \in Seq(Byte), Unread = packOption(option) \o tail
    PROVE  LET end == offset + 2 + data[offset + 2]
               value == SubSeq(data, offset + 3, end)
           IN  /\ optionFits
               /\ data[offset + 1] = option.type
               /\ value = option.value
               /\ SubSeq(data, end + 1, Len(data)) = tail
<1> DEFINE bytes == packOption(option)
           end == offset + 2 + data[offset + 2]
           value == SubSeq(data, offset + 3, end)
           length == Len(option.value)
           rest == SubSeq(data, end + 1, Len(data))
           unread == Unread
<1>1. /\ bytes \in Seq(Byte) /\ Len(bytes) = 2 + length
      /\ bytes[1] = option.type /\ bytes[2] = length
      /\ \A k \in 1 .. length : bytes[k + 2] = option.value[k]
  BY OptionIsBytes, Zenon
<1>2. length \in Nat /\ option.value \in Seq(Byte)
  BY OptionFields, Zenon
<1>3. offset \in Nat /\ Len(data) \in Nat /\ data \in Seq(Byte)
  BY LenProperties DEF TypeOK
<1>4. /\ Len(unread) = Len(data) - offset
      /\ \A i \in 1 .. Len(data) - offset : unread[i] = data[offset + i]
  BY UnreadBytes
<1>5. unread = bytes \o tail
  OBVIOUS
<1>6. decodeOption(option.type, option.value).type = option.type
      /\ decodeOption(option.type, option.value).value = option.value
  BY DEF decodeOption
<1> HIDE DEF bytes, length, unread
<1>7. /\ Len(unread) = 2 + length + Len(tail) /\ Len(tail) \in Nat
      /\ \A i \in 1 .. 2 + length : unread[i] = bytes[i]
  <2>1. /\ Len(bytes \o tail) = Len(bytes) + Len(tail)
        /\ \A i \in 1 .. Len(bytes) + Len(tail) :
              (bytes \o tail)[i] = IF i <= Len(bytes) THEN bytes[i] ELSE tail[i - Len(bytes)]
    BY <1>1, ConcatProperties
  <2>2. Len(tail) \in Nat
    BY LenProperties
  <2> QED BY <1>1, <1>2, <1>5, <2>1, <2>2
<1>8. \A i \in 1 .. 2 + length : data[offset + i] = bytes[i]
  <2>1. \A i \in 1 .. 2 + length : i \in 1 .. Len(data) - offset
    BY <1>2, <1>3, <1>4, <1>7
  <2> QED BY <1>4, <1>7, <2>1
<1>9. data[offset + 1] = option.type /\ data[offset + 2] = length
  <2>1. 1 \in 1 .. 2 + length /\ 2 \in 1 .. 2 + length
    BY <1>2
  <2> QED BY <1>1, <1>8, <2>1
<1>10. optionFits
  <2>1. Len(data) = offset + 2 + length + Len(tail)
    BY <1>2, <1>3, <1>4, <1>7
  <2>2. Len(data) >= offset + 2 /\ Len(data) >= offset + 2 + length
    BY <1>2, <1>3, <1>7, <2>1
  <2> QED BY <1>9, <2>2 DEF optionFits
<1>11. value = option.value
  <2>1. /\ value \in Seq(Byte) /\ Len(value) = data[offset + 2]
        /\ \A i \in 1 .. data[offset + 2] : value[i] = data[offset + 2 + i]
    BY <1>10, NextOption, Zenon
  <2> HIDE DEF value, end
  <2>2. Len(value) = Len(option.value)
    BY <1>9, <2>1 DEF length
  <2>3. ASSUME NEW i \in 1 .. length
        PROVE  value[i] = option.value[i]
    <3>1. i + 2 \in 1 .. 2 + length /\ offset + (i + 2) = offset + 2 + i
      BY <1>2, <1>3
    <3>2. value[i] = data[offset + 2 + i]
      BY <1>9, <2>1
    <3>3. data[offset + (i + 2)] = bytes[i + 2]
      BY <1>8, <3>1
    <3> QED BY <1>1, <3>1, <3>2, <3>3
  <2>4. \A i \in 1 .. Len(value) : value[i] = option.value[i]
    BY <2>2, <2>3 DEF length
  <2> QED BY <1>2, <2>1, <2>2, <2>4, SeqEqual
<1>12. rest = tail
  <2> DEFINE read == decodeOption(data[offset + 1], value)
  <2>1. rest \in Seq(Byte) /\ unread = packOption(read) \o rest
    BY <1>10, OptionPacksBack, Zenon DEF unread
  <2>2. packOption(read) = bytes
    <3>1. read.type = option.type /\ read.value = option.value
      BY <1>6, <1>9, <1>11
    <3> HIDE DEF read
    <3> QED BY <3>1 DEF packOption, bytes
  <2> HIDE DEF rest, read
  <2>3. bytes \o rest = bytes \o tail
    BY <1>5, <2>1, <2>2
  <2>4. \A t, v \in Seq(Byte) : bytes \o t = bytes \o v => t = v
    BY <1>1, ConcatSimplifications, Zenon
  <2> QED BY <2>1, <2>3, <2>4, Zenon
<1> QED BY <1>9, <1>10, <1>11, <1>12

\* The options of msg that the unpacker has not come to.
Remaining == SubSeq(msg.options, Len(got.options) + 1, Len(msg.options))

SameHeader ==
    \A field \in {"version", "verb", "qos", "code", "id", "count"} : got[field] = msg[field]

ReadLikeSent ==
    \A k \in DOMAIN got.options :
        got.options[k] = decodeOption(msg.options[k].type, msg.options[k].value)

\* A datagram of the owner's: it holds what is still to be read of msg.
TripInv ==
    ~foreign =>
        /\ pc # "failed"
        /\ pc \in {"header", "options", "done"} => ~packThrows(msg)
        /\ pc = "header" => data = packedBytes(msg)
        /\ pc = "options" =>
             /\ SameHeader
             /\ ReadLikeSent
             /\ Unread = packOptions(Remaining) \o msg.payload
        /\ pc = "done" =>
             /\ SameHeader
             /\ ReadLikeSent
             /\ got.payload = packOptions(Remaining) \o msg.payload

\* The options still owed are the next of the owner's, as many as the one byte
\* of the count says.
LEMMA OptionsOwed ==
    ASSUME TypeOK, CountInv, SameHeader, pc \in {"options", "done"}
    PROVE  /\ Len(got.options) \in Nat /\ Len(msg.options) \in Nat
           /\ left + Len(got.options) = Len(msg.options) % 256
           /\ Len(msg.options) % 256 \in Nat
           /\ Len(msg.options) % 256 <= Len(msg.options)
<1>1. /\ got.options \in Seq(Option) /\ msg.options \in Seq(Option)
      /\ left + Len(got.options) = got.count
  BY MessageFields DEF TypeOK
<1>2. Len(got.options) \in Nat /\ Len(msg.options) \in Nat
  BY <1>1, LenProperties
<1>3. got.count = msg.count /\ msg.count = Len(msg.options) % 256
  BY DEF SameHeader, CountInv, Counted
<1>4. \A n \in Nat : n % 256 \in Nat /\ n % 256 <= n
  BY SMT
<1>5. Len(msg.options) % 256 \in Nat /\ Len(msg.options) % 256 <= Len(msg.options)
  BY <1>2, <1>4, Zenon
<1> QED BY <1>1, <1>2, <1>3, <1>5, Zenon

\* The next option of the datagram is the next option of msg.
LEMMA OptionArrives ==
    ASSUME TypeOK, CountInv, TripInv, ~foreign, pc = "options", left > 0
    PROVE  LET n == Len(got.options)
               sent == msg.options[n + 1]
               end == offset + 2 + data[offset + 2]
               value == SubSeq(data, offset + 3, end)
               others == SubSeq(msg.options, n + 2, Len(msg.options))
           IN  /\ optionFits
               /\ n \in Nat /\ n < Len(msg.options)
               /\ decodeOption(data[offset + 1], value) = decodeOption(sent.type, sent.value)
               /\ SubSeq(data, end + 1, Len(data)) = packOptions(others) \o msg.payload
<1> DEFINE n == Len(got.options)
           sent == msg.options[n + 1]
           others == SubSeq(msg.options, n + 2, Len(msg.options))
           tail == packOptions(others) \o msg.payload
<1>1. /\ ~packThrows(msg) /\ SameHeader
      /\ Unread = packOptions(Remaining) \o msg.payload
  BY DEF TripInv
<1>2. msg \in Message /\ Packable(msg.options) /\ msg.payload \in Seq(Byte)
  BY <1>1, NotThrowing, MessageFields DEF TypeOK
<1>3. n \in Nat /\ n < Len(msg.options)
  <2>1. /\ n \in Nat /\ Len(msg.options) \in Nat /\ left + n = Len(msg.options) % 256
        /\ Len(msg.options) % 256 \in Nat /\ Len(msg.options) % 256 <= Len(msg.options)
    BY <1>1, OptionsOwed
  <2>2. left \in Nat
    BY DEF TypeOK, Byte
  <2> DEFINE counted == Len(msg.options) % 256
  <2>3. counted \in Nat /\ left + n = counted /\ counted <= Len(msg.options)
    BY <2>1
  <2> HIDE DEF counted
  <2> QED BY <2>1, <2>2, <2>3
<1>4. /\ sent \in Option /\ Len(sent.value) <= 255 /\ Packable(others)
      /\ packOptions(SubSeq(msg.options, n + 1, Len(msg.options))) =
             packOption(sent) \o packOptions(others)
  BY <1>2, <1>3, NextOfPackable, Zenon
<1>5. tail \in Seq(Byte)
  BY <1>2, <1>4, PackedIsBytes, ConcatProperties
<1>6. Unread = packOption(sent) \o tail
  <2> DEFINE first == packOption(sent)
             next == packOptions(others)
             payload == msg.payload
  <2>1. first \in Seq(Byte) /\ next \in Seq(Byte) /\ payload \in Seq(Byte)
    BY <1>2, <1>4, OptionIsBytes, PackedIsBytes, Zenon
  <2>2. Unread = (first \o next) \o payload
    BY <1>1, <1>4 DEF Remaining
  <2> HIDE DEF first, next, payload
  <2>3. (first \o next) \o payload = first \o (next \o payload)
    BY <2>1, Associative
  <2>4. Unread = first \o (next \o payload)
    BY <2>2, <2>3
  <2> QED BY <2>4 DEF first, next, payload
<1> HIDE DEF sent, tail
<1>7. LET end == offset + 2 + data[offset + 2]
          value == SubSeq(data, offset + 3, end)
      IN  /\ optionFits
          /\ data[offset + 1] = sent.type
          /\ value = sent.value
          /\ SubSeq(data, end + 1, Len(data)) = tail
  BY <1>4, <1>5, <1>6, NextOfSent, Zenon
<1> QED BY <1>3, <1>7, Zenon DEF sent, tail

\* Every step of unpack() reads the next of what the owner packed.
LEMMA TripInductive == TypeOK /\ TypeOK' /\ CountInv /\ TripInv /\ [Next]_vars => TripInv'
<1> SUFFICES ASSUME TypeOK, TypeOK', CountInv, TripInv, [Next]_vars, ~foreign'
             PROVE  /\ pc' # "failed"
                    /\ pc' \in {"header", "options", "done"} => ~packThrows(msg')
                    /\ pc' = "header" => data' = packedBytes(msg')
                    /\ pc' = "options" =>
                         /\ SameHeader'
                         /\ ReadLikeSent'
                         /\ Unread' = packOptions(Remaining') \o msg'.payload
                    /\ pc' = "done" =>
                         /\ SameHeader'
                         /\ ReadLikeSent'
                         /\ got'.payload = packOptions(Remaining') \o msg'.payload
  BY DEF TripInv
<1>0. msg \in Message /\ got \in Message
  BY DEF TypeOK
<1>1. CASE pc' \in {"build", "refused"}
  BY <1>1
<1>2. CASE Pack
  BY <1>2 DEF Pack, Arrives
<1>3. CASE \E d \in Datagrams : Foreign(d)
  BY <1>3 DEF Foreign, Arrives
<1>4. ASSUME Unpack
      PROVE  /\ msg' = msg /\ data' = data /\ foreign' = foreign
             /\ ~foreign
             /\ pc \in {"header", "options"} /\ ~packThrows(msg)
             /\ Packable(msg.options)
  <2>1. msg' = msg /\ data' = data /\ foreign' = foreign /\ pc \in {"header", "options"}
    BY <1>4 DEF Unpack, UnpackHeader, HeaderThrows, UnpackOption, OptionThrows, UnpackPayload,
                Holding
  <2>2. ~packThrows(msg)
    BY <2>1 DEF TripInv
  <2> QED BY <1>0, <2>1, <2>2, NotThrowing
<1>5. CASE UnpackHeader
  <2> USE <1>5
  <2>1. /\ pc = "header" /\ got' = unpackHeader(data) /\ offset' = 8 /\ pc' = "options"
        /\ msg' = msg /\ data' = data
    BY DEF UnpackHeader, Holding
  <2>2. data = packedBytes(msg) /\ ~packThrows(msg) /\ Packable(msg.options)
    BY <1>4, <2>1 DEF TripInv, Unpack
  <2>3. /\ data \in Seq(Byte) /\ Len(data) >= 8
        /\ got' = unpackHeader(packHeader(msg))
        /\ SubSeq(data, 9, Len(data)) = packOptions(msg.options) \o msg.payload
    BY <1>0, <2>1, <2>2, PackedHeader
  <2>4. headerValid(msg)
    BY <2>2 DEF packThrows, isValid
  <2>5. /\ got'.version = msg.version /\ got'.verb = msg.verb /\ got'.qos = msg.qos
        /\ got'.code = msg.code /\ got'.id = msg.id /\ got'.count = msg.count
    BY <1>0, <2>3, <2>4, HeaderReadsBack
  <2>6. SameHeader'
    BY <2>1, <2>5 DEF SameHeader
  <2>7. got'.options = <<>>
    BY <2>1, <2>3, HeaderIsMessage
  <2>8. ReadLikeSent'
    <3>1. DOMAIN got'.options = {}
      BY <2>7
    <3> QED BY <3>1 DEF ReadLikeSent
  <2>9. Remaining' = msg.options
    <3>1. msg.options \in Seq(Option)
      BY <1>0, MessageFields
    <3>2. Len(got'.options) + 1 = 1
      BY <2>7
    <3> QED BY <2>1, <3>1, <3>2, SubSeqFull DEF Remaining
  <2>10. Unread' = SubSeq(data, 9, Len(data))
    BY <2>1 DEF Unread
  <2> QED BY <2>1, <2>2, <2>3, <2>6, <2>8, <2>9, <2>10
<1>6. CASE HeaderThrows
  <2>1. pc = "header" /\ Len(data) < 8
    BY <1>6 DEF HeaderThrows
  <2>2. data = packedBytes(msg) /\ Packable(msg.options)
    BY <1>4, <1>6, <2>1 DEF TripInv, Unpack
  <2>3. data \in Seq(Byte) /\ Len(data) >= 8
    BY <1>0, <2>2, PackedHeader
  <2>4. Len(data) \in Nat
    BY <2>3, LenProperties
  <2> QED BY <2>1, <2>3, <2>4
<1>7. CASE UnpackOption
  <2> DEFINE n == Len(got.options)
             sent == msg.options[n + 1]
             end == offset + 2 + data[offset + 2]
             read == decodeOption(data[offset + 1], SubSeq(data, offset + 3, end))
             others == SubSeq(msg.options, n + 2, Len(msg.options))
  <2>1. /\ pc = "options" /\ left > 0 /\ got' = [got EXCEPT !.options = Append(@, read)]
        /\ offset' = end /\ pc' = pc /\ msg' = msg /\ data' = data /\ optionFits
    BY <1>7 DEF UnpackOption, Holding
  <2>2. ~foreign /\ ~packThrows(msg) /\ SameHeader /\ ReadLikeSent
    BY <1>4, <1>7, <2>1 DEF TripInv, Unpack
  <2>3. /\ n \in Nat /\ n < Len(msg.options)
        /\ read = decodeOption(sent.type, sent.value)
        /\ SubSeq(data, end + 1, Len(data)) = packOptions(others) \o msg.payload
    BY <2>1, <2>2, OptionArrives, Zenon
  <2>4. Unread' = packOptions(others) \o msg.payload
    BY <2>1, <2>3 DEF Unread
  <2>5. read \in Option
    BY <2>1, OptionPacksBack, Zenon
  <2> HIDE DEF read, end
  <2>6. /\ got'.options = Append(got.options, read)
        /\ got'.version = got.version /\ got'.verb = got.verb /\ got'.qos = got.qos
        /\ got'.code = got.code /\ got'.id = got.id /\ got'.count = got.count
    BY <1>0, <2>1 DEF Message
  <2>7. SameHeader'
    BY <2>1, <2>2, <2>6 DEF SameHeader
  <2>8. /\ Len(got'.options) = n + 1
        /\ DOMAIN got'.options = 1 .. n + 1 /\ DOMAIN got.options = 1 .. n
        /\ \A k \in 1 .. n : got'.options[k] = got.options[k]
        /\ got'.options[n + 1] = read
    <3>1. got.options \in Seq(Option)
      BY <1>0, MessageFields
    <3> QED BY <2>5, <2>6, <3>1, AppendProperties, LenProperties
  <2>9. ReadLikeSent'
    <3>1. \A k \in 1 .. n + 1 : k \in 1 .. n \/ k = n + 1
      BY <2>3
    <3> HIDE DEF n, sent
    <3>2. ASSUME NEW k \in DOMAIN got'.options
          PROVE  got'.options[k] = decodeOption(msg.options[k].type, msg.options[k].value)
      <4>1. CASE k \in 1 .. n
        BY <2>2, <2>8, <4>1 DEF ReadLikeSent
      <4>2. CASE k = n + 1
        BY <2>3, <2>8, <4>2 DEF sent
      <4> QED BY <2>8, <3>1, <4>1, <4>2
    <3> QED BY <2>1, <3>2 DEF ReadLikeSent
  <2>10. Remaining' = others
    <3>1. Len(got'.options) + 1 = n + 2
      BY <2>3, <2>8
    <3> QED BY <2>1, <3>1 DEF Remaining
  <2> QED BY <2>1, <2>2, <2>4, <2>7, <2>9, <2>10
<1>8. CASE OptionThrows
  <2>1. pc = "options" /\ left > 0 /\ ~optionFits
    BY <1>8 DEF OptionThrows
  <2>2. ~foreign
    BY <1>4, <1>8 DEF Unpack
  <2>3. optionFits
    BY <2>1, <2>2, OptionArrives, Zenon
  <2> QED BY <2>1, <2>3
<1>9. CASE UnpackPayload
  <2>1. /\ pc = "options" /\ pc' = "done" /\ left = 0 /\ msg' = msg
        /\ got' = [got EXCEPT !.payload = Unread]
    BY <1>9 DEF UnpackPayload, Holding, Unread
  <2>2. /\ ~packThrows(msg) /\ SameHeader /\ ReadLikeSent
        /\ Unread = packOptions(Remaining) \o msg.payload
    BY <1>4, <1>9, <2>1 DEF TripInv, Unpack
  <2>3. /\ got'.options = got.options /\ got'.payload = Unread
        /\ got'.version = got.version /\ got'.verb = got.verb /\ got'.qos = got.qos
        /\ got'.code = got.code /\ got'.id = got.id /\ got'.count = got.count
    BY <1>0, <2>1 DEF Message
  <2>4. SameHeader' /\ ReadLikeSent' /\ Remaining' = Remaining
    BY <2>1, <2>2, <2>3 DEF SameHeader, ReadLikeSent, Remaining
  <2> QED BY <2>1, <2>2, <2>3, <2>4
<1>10. CASE UNCHANGED vars
  <2>1. /\ foreign' = foreign /\ pc' = pc /\ msg' = msg /\ data' = data /\ got' = got
        /\ offset' = offset
    BY <1>10 DEF vars
  <2>2. SameHeader' = SameHeader /\ ReadLikeSent' = ReadLikeSent /\ Unread' = Unread
        /\ Remaining' = Remaining
    BY <2>1 DEF SameHeader, ReadLikeSent, Unread, Remaining
  <2> QED BY <2>1, <2>2 DEF TripInv
<1>11. \/ pc' \in {"build", "refused"} \/ Pack \/ \E d \in Datagrams : Foreign(d)
       \/ Unpack \/ UNCHANGED vars
  BY DEF Next, Create, AddOption, RemoveOption, SetPayload, SetHeader, Reuse, Respond,
         PackThrows, Holds
<1> QED BY <1>1, <1>2, <1>3, <1>5, <1>6, <1>7, <1>8, <1>9, <1>10, <1>11 DEF Unpack

\* The integer of an integer option, and the string of any other, come through.
SameValue(sent, read) ==
    IF sent.type \in IntegerTypes
    THEN getIntValue(sent) \subseteq getIntValue(read)
    ELSE getStringValue(sent) \subseteq getStringValue(read)

\* Both getters return what was sent exactly for an option of the kind its
\* bytes stand for, and the getter its type calls for never returns less.
LEMMA ValueReadsBack ==
    ASSUME NEW sent \in Option
    PROVE  LET read == decodeOption(sent.type, sent.value)
           IN  /\ SameValue(sent, read)
               /\ SameRead(sent, read) <=> sent.kind = KindOnWire(sent)
<1> DEFINE read == decodeOption(sent.type, sent.value)
<1>1. (sent.kind = "int" => Len(sent.value) = 4) /\ sent.kind \in Kinds
  BY OptionFields
<1>2. read.value = sent.value /\ read.kind = KindOnWire(sent)
  BY DEF decodeOption, KindOnWire
<1>3. SameValue(sent, read)
  BY <1>1 DEF SameValue, decodeOption, getIntValue, getStringValue
<1> HIDE DEF read
<1>4. SameRead(sent, read) <=> sent.kind = KindOnWire(sent)
  <2>1. CASE sent.kind = KindOnWire(sent)
    BY <1>2, <2>1 DEF SameRead, getIntValue, getStringValue
  <2>2. CASE sent.kind # "int" /\ KindOnWire(sent) = "int"
    <3>1. getIntValue(read) # {} /\ getIntValue(sent) = {}
      BY <1>2, <2>2 DEF getIntValue
    <3> QED BY <2>2, <3>1 DEF SameRead
  <2>3. CASE sent.kind # "string" /\ KindOnWire(sent) = "string"
    <3>1. getStringValue(read) # {} /\ getStringValue(sent) = {}
      BY <1>2, <2>3 DEF getStringValue
    <3> QED BY <2>3, <3>1 DEF SameRead
  <2> QED BY <2>1, <2>2, <2>3 DEF KindOnWire
<1> QED BY <1>3, <1>4 DEF read

\* The getters look at the same option of both messages.
LEMMA SameGetters ==
    ASSUME NEW m \in Message, NEW n \in Message, DOMAIN n.options = DOMAIN m.options,
           \A k \in DOMAIN n.options : /\ n.options[k].type = m.options[k].type
                                       /\ SameValue(m.options[k], n.options[k])
    PROVE  /\ getTopicPath(m) \subseteq getTopicPath(n)
           /\ getContentType(m) \subseteq getContentType(n)
<1>1. ASSUME NEW type
      PROVE  OfType(n, type) = OfType(m, type) /\ First(n, type) = First(m, type)
  <2>1. OfType(n, type) = OfType(m, type)
    BY DEF OfType
  <2> QED BY <2>1 DEF First
<1>2. ASSUME NEW type, OfType(m, type) # {}
      PROVE  /\ m.options[First(m, type)].type = type
             /\ SameValue(m.options[First(m, type)], n.options[First(m, type)])
  <2>1. First(m, type) \in OfType(m, type)
    BY <1>2, MessageFields, FirstIsOfType, Zenon
  <2>2. First(m, type) \in DOMAIN m.options /\ m.options[First(m, type)].type = type
    BY <2>1 DEF OfType
  <2> QED BY <2>2
<1>3. getTopicPath(m) \subseteq getTopicPath(n)
  <2> DEFINE first == First(m, TOPIC_PATH)
  <2>1. CASE OfType(m, TOPIC_PATH) = {}
    BY <1>1, <2>1 DEF getTopicPath
  <2>2. CASE OfType(m, TOPIC_PATH) # {}
    <3>1. /\ m.options[first].type = TOPIC_PATH
          /\ SameValue(m.options[first], n.options[first])
      BY <1>2, <2>2, Zenon
    <3>2. getStringValue(m.options[first]) \subseteq getStringValue(n.options[first])
      BY <3>1 DEF SameValue, TOPIC_PATH, IntegerTypes
    <3>3. OfType(n, TOPIC_PATH) # {} /\ First(n, TOPIC_PATH) = first
      BY <1>1, <2>2
    <3> HIDE DEF first
    <3>4. /\ getTopicPath(n) = getStringValue(n.options[first])
          /\ getTopicPath(m) = getStringValue(m.options[first])
      BY <2>2, <3>3, Zenon DEF getTopicPath, first
    <3> QED BY <3>2, <3>4
  <2> QED BY <2>1, <2>2
<1>4. getContentType(m) \subseteq getContentType(n)
  <2> DEFINE first == First(m, CONTENT_TYPE)
  <2>1. CASE OfType(m, CONTENT_TYPE) = {}
    BY <1>1, <2>1 DEF getContentType
  <2>2. CASE OfType(m, CONTENT_TYPE) # {}
    <3>1. /\ m.options[first].type = CONTENT_TYPE
          /\ SameValue(m.options[first], n.options[first])
      BY <1>2, <2>2, Zenon
    <3>2. getIntValue(m.options[first]) \subseteq getIntValue(n.options[first])
      BY <3>1 DEF SameValue, CONTENT_TYPE, IntegerTypes
    <3>3. OfType(n, CONTENT_TYPE) # {} /\ First(n, CONTENT_TYPE) = first
      BY <1>1, <2>2
    <3> HIDE DEF first
    <3>4. /\ getContentType(n) = getIntValue(n.options[first])
          /\ getContentType(m) = getIntValue(m.options[first])
      BY <2>2, <3>3, Zenon DEF getContentType, first
    <3> QED BY <3>2, <3>4
  <2> QED BY <2>1, <2>2
<1> QED BY <1>3, <1>4

\* At the end the whole of the message was read.
LEMMA TripIsRoundTrip == TypeOK /\ CountInv /\ TripInv => RoundTrip
<1> DEFINE n == Len(msg.options) % 256
<1> SUFFICES ASSUME TypeOK, CountInv, TripInv, ~foreign, pc = "done"
             PROVE  /\ \A field \in {"version", "verb", "qos", "code", "id", "count"} :
                           got[field] = msg[field]
                    /\ Len(got.options) = n
                    /\ \A k \in 1 .. n :
                           /\ got.options[k].type = msg.options[k].type
                           /\ got.options[k].value = msg.options[k].value
                           /\ SameRead(msg.options[k], got.options[k])
                                  <=> msg.options[k].kind = KindOnWire(msg.options[k])
                    /\ got.payload =
                           packOptions(SubSeq(msg.options, n + 1, Len(msg.options))) \o msg.payload
                    /\ n = Len(msg.options) =>
                           /\ getTopicPath(msg) \subseteq getTopicPath(got)
                           /\ getContentType(msg) \subseteq getContentType(got)
  BY DEF RoundTrip, TripInv
<1>1. /\ SameHeader /\ ReadLikeSent
      /\ got.payload = packOptions(Remaining) \o msg.payload
  BY DEF TripInv
<1>2. msg \in Message /\ got \in Message
  BY DEF TypeOK
<1>3. msg.options \in Seq(Option) /\ got.options \in Seq(Option)
  BY <1>2, MessageFields
<1>4. Len(got.options) = n /\ n \in Nat /\ n <= Len(msg.options) /\ Len(msg.options) \in Nat
  <2>1. /\ Len(got.options) \in Nat /\ Len(msg.options) \in Nat
        /\ left + Len(got.options) = n /\ n \in Nat /\ n <= Len(msg.options)
    BY <1>1, OptionsOwed
  <2>2. left = 0
    BY DEF CountInv
  <2> HIDE DEF n
  <2> QED BY <2>1, <2>2
<1> HIDE DEF n
<1>5. DOMAIN got.options = 1 .. n /\ DOMAIN msg.options = 1 .. Len(msg.options)
  BY <1>3, <1>4, LenProperties
<1>6. got.payload =
        packOptions(SubSeq(msg.options, n + 1, Len(msg.options))) \o msg.payload
  BY <1>1, <1>4 DEF Remaining
<1>7. ASSUME NEW k \in 1 .. n
      PROVE  /\ got.options[k].type = msg.options[k].type
             /\ got.options[k].value = msg.options[k].value
             /\ SameRead(msg.options[k], got.options[k])
                    <=> msg.options[k].kind = KindOnWire(msg.options[k])
             /\ SameValue(msg.options[k], got.options[k])
  <2>1. k \in 1 .. Len(msg.options)
    BY <1>4
  <2>2. msg.options[k] \in Option
    BY <1>3, <2>1, ElementOfSeq, LenProperties
  <2>3. got.options[k] = decodeOption(msg.options[k].type, msg.options[k].value)
    BY <1>1, <1>5 DEF ReadLikeSent
  <2>4. got.options[k].type = msg.options[k].type /\ got.options[k].value = msg.options[k].value
    BY <2>3 DEF decodeOption
  <2> QED BY <2>2, <2>3, <2>4, ValueReadsBack
<1>8. ASSUME n = Len(msg.options)
      PROVE  /\ getTopicPath(msg) \subseteq getTopicPath(got)
             /\ getContentType(msg) \subseteq getContentType(got)
  <2>1. DOMAIN got.options = DOMAIN msg.options
    BY <1>5, <1>8
  <2> QED BY <1>2, <1>5, <1>7, <2>1, SameGetters
<1>9. \A field \in {"version", "verb", "qos", "code", "id", "count"} : got[field] = msg[field]
  BY <1>1 DEF SameHeader
<1> QED BY <1>4, <1>6, <1>7, <1>8, <1>9

\* What pack() accepts is unpacked without an exception, as the same header and
\* bytes, with the exceptions RoundTrip names, whatever its owner did to it before
\* (message.cpp:107-158), for every set of options, topics, payloads and header
\* values.
THEOREM MessagesComeBack == Spec => []RoundTrip
<1>1. Init => CountInv /\ TripInv
  BY EmptyCounted DEF Init, CountInv, TripInv
<1> QED BY <1>1, TypeCorrect, CountInductive, TripInductive, TripIsRoundTrip, PTL DEF Spec

---------------------------------------------------------------------------
(* unpack() ends *)

\* The most steps that unpack() can still take: the header, 255 options and the
\* payload.
StepsLeft ==
    IF pc = "header" THEN 257 ELSE IF pc = "options" THEN left + 1 ELSE 0

\* While unpack() is under way every step brings it nearer to its end.
UnpackDrawsNear ==
    [][(pc \in {"header", "options"}) => (StepsLeft' < StepsLeft)]_vars

\* unpack() comes to an end on every datagram: nothing else happens to the codec
\* meanwhile, and each of its steps lowers a number (message.cpp:146).  That it
\* takes its steps is what Decodes assumes.
THEOREM UnpackShrinks == Spec => [](StepsLeft \in 0 .. 257) /\ UnpackDrawsNear
<1> DEFINE Bounded == StepsLeft \in 0 .. 257
           Shrinks == pc \in {"header", "options"} => StepsLeft' < StepsLeft
<1>1. TypeOK => left \in 0 .. 255
  BY DEF TypeOK, Byte
<1>2. TypeOK => Bounded
  BY <1>1 DEF StepsLeft
<1>3. TypeOK /\ TypeOK' /\ [Next]_vars => [Shrinks]_vars
  <2> SUFFICES ASSUME TypeOK, TypeOK', Next, pc \in {"header", "options"}
               PROVE  StepsLeft' < StepsLeft
    OBVIOUS
  <2>1. Unpack
    BY DEF Next, Create, AtRest, AddOption, RemoveOption, SetPayload, SetHeader, Reuse, Respond,
           Pack, PackThrows, Foreign
  <2>2. left \in 0 .. 255 /\ left' \in 0 .. 255
    BY DEF TypeOK, Byte
  <2>3. CASE UnpackHeader
    <3>1. pc = "header" /\ pc' = "options"
      BY <2>3 DEF UnpackHeader
    <3>2. left' + 1 < 257
      <4>1. \A n \in 0 .. 255 : n + 1 < 257
        OBVIOUS
      <4> QED BY <2>2, <4>1, Zenon
    <3> QED BY <3>1, <3>2 DEF StepsLeft
  <2>4. CASE HeaderThrows
    BY <2>4 DEF HeaderThrows, StepsLeft
  <2>5. CASE UnpackOption
    <3>1. pc = "options" /\ pc' = "options" /\ left' = left - 1
      BY <2>5 DEF UnpackOption
    <3> QED BY <2>2, <3>1 DEF StepsLeft
  <2>6. CASE OptionThrows
    BY <2>2, <2>6 DEF OptionThrows, StepsLeft
  <2>7. CASE UnpackPayload
    BY <2>2, <2>7 DEF UnpackPayload, StepsLeft
  <2> QED BY <2>1, <2>3, <2>4, <2>5, <2>6, <2>7 DEF Unpack
<1> QED BY <1>2, <1>3, TypeCorrect, PTL DEF Spec, UnpackDrawsNear
=============================================================================
