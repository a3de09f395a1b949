------------------------ MODULE ExpansionCodecProofs ------------------------
(***************************************************************************)
(* The Expansion codec for every limit on the data, every exclusive or,    *)
(* and any frames: the decoder's buffer never fills, whatever bytes        *)
(* arrive; the fields of an encoded frame are read back as they were       *)
(* written; the reader never loses the frame boundaries, and it reports    *)
(* exactly the frames the line left alone, if the line does a frame no     *)
(* more than noticeable damage.                                            *)
(***************************************************************************)
EXTENDS ExpansionCodec, SequenceTheorems, WellFoundedInduction, TLAPS

-----------------------------------------------------------------------------
(* Induction over data, by the least counterexample                        *)

\* A non-empty set of natural numbers has a least element.
LEMMA LeastNatural ==
    ASSUME NEW T, T \subseteq Nat, T # {}
    PROVE  \E x \in T : \A y \in T : ~(y < x)
<1> DEFINE R == OpToRel(<, Nat)
<1>1. R = {ss \in Nat \X Nat : ss[1] < ss[2]}
  BY DEF OpToRel
<1>2. IsWellFoundedOn(R, Nat)
  BY NatLessThanWellFounded
<1> HIDE DEF R
<1>3. PICK x \in T : \A y \in T : ~(<<y, x>> \in R)
  BY <1>2, WFMin
<1> QED
  BY <1>1, <1>3

\* Induction from 0 to n, for a set in place of a predicate.
LEMMA UpTo ==
    ASSUME NEW P, NEW n \in Nat, 0 \in P, \A k \in 0..(n - 1) : k \in P => k + 1 \in P
    PROVE  \A k \in 0..n : k \in P
<1> DEFINE T == {k \in 0..n : k \notin P}
<1>1. SUFFICES ASSUME T # {} PROVE FALSE
  OBVIOUS
<1>2. PICK x \in T : \A y \in T : ~(y < x)
  <2>1. T \subseteq Nat
    OBVIOUS
  <2> HIDE DEF T
  <2> QED
    BY <1>1, <2>1, LeastNatural
<1>3. x \in 0..n /\ x \notin P /\ x # 0
  BY <1>2
<1>4. x - 1 \in 0..(n - 1) /\ x - 1 < x /\ (x - 1) + 1 = x
  BY <1>3
<1>5. x - 1 \in P
  BY <1>2, <1>4
<1> QED
  BY <1>3, <1>4, <1>5

\* The partial concatenations that FlattenSeq goes through.
Flattens(ss, n, g) ==
    \A i \in 1..n : g[i] = IF i = 1 THEN ss[i] ELSE g[i - 1] \o ss[i]

\* They exist.
LEMMA FlattensExist ==
    ASSUME NEW S, NEW ss \in Seq(Seq(S)), NEW n \in Nat, n <= Len(ss)
    PROVE  \E g \in [1..n -> Seq(S)] : Flattens(ss, n, g)
<1> DEFINE P == {k \in 0..n : \E g \in [1..k -> Seq(S)] : Flattens(ss, k, g)}
<1>1. 0 \in P
  <2> DEFINE e == [i \in 1..0 |-> <<>>]
  <2>1. e \in [1..0 -> Seq(S)]
    BY EmptySeq
  <2> HIDE DEF e
  <2>2. Flattens(ss, 0, e)
    BY DEF Flattens
  <2>3. 0 \in 0..n
    OBVIOUS
  <2> QED
    BY <2>1, <2>2, <2>3
<1>2. ASSUME NEW k \in 0..(n - 1), k \in P PROVE k + 1 \in P
  <2>1. PICK g \in [1..k -> Seq(S)] : Flattens(ss, k, g)
    BY <1>2
  <2> DEFINE last == IF k = 0 THEN ss[1] ELSE g[k] \o ss[k + 1]
             h    == [i \in 1..(k + 1) |-> IF i = k + 1 THEN last ELSE g[i]]
  <2>2. k \in Nat /\ k + 1 \in 1..Len(ss) /\ k + 1 \in 0..n /\ Len(ss) \in Nat
    BY LenProperties
  <2>3. ss[k + 1] \in Seq(S) /\ (k = 0 => ss[1] \in Seq(S))
    BY <2>2, ElementOfSeq
  <2>4. last \in Seq(S)
    <3>1. CASE k = 0
      BY <2>3, <3>1
    <3>2. CASE k # 0
      <4>1. g[k] \in Seq(S)
        BY <2>2, <3>2
      <4> QED
        BY <2>3, <3>2, <4>1, ConcatProperties
    <3> QED
      BY <3>1, <3>2
  <2>5. h \in [1..(k + 1) -> Seq(S)]
    <3>1. \A i \in 1..(k + 1) : i # k + 1 => i \in 1..k
      BY <2>2
    <3> HIDE DEF last
    <3> QED
      BY <2>4, <3>1
  <2>6. ASSUME NEW i \in 1..(k + 1)
        PROVE  h[i] = IF i = 1 THEN ss[i] ELSE h[i - 1] \o ss[i]
    <3>1. CASE i = k + 1
      <4>1. h[i] = last
        BY <3>1
      <4>2. CASE k = 0
        BY <3>1, <4>1, <4>2
      <4>3. CASE k # 0
        <5>1. i # 1 /\ i - 1 \in 1..(k + 1) /\ i - 1 = k /\ i - 1 # k + 1
          BY <2>2, <3>1, <4>3
        <5>2. h[i - 1] = g[k]
          BY <5>1
        <5> QED
          BY <3>1, <4>1, <4>3, <5>1, <5>2
      <4> QED
        BY <4>2, <4>3
    <3>2. CASE i # k + 1
      <4>1. i \in 1..k /\ h[i] = g[i]
        BY <2>2, <3>2
      <4>2. g[i] = IF i = 1 THEN ss[i] ELSE g[i - 1] \o ss[i]
        BY <2>1, <4>1 DEF Flattens
      <4>3. i # 1 => h[i - 1] = g[i - 1]
        <5>1. i # 1 => i - 1 \in 1..(k + 1) /\ i - 1 # k + 1
          BY <2>2, <4>1
        <5> HIDE DEF last
        <5> QED
          BY <5>1
      <4> HIDE DEF h
      <4> QED
        BY <4>1, <4>2, <4>3
    <3> QED
      BY <3>1, <3>2
  <2> HIDE DEF h
  <2>7. Flattens(ss, k + 1, h)
    BY <2>6 DEF Flattens
  <2> QED
    BY <2>2, <2>5, <2>7
<1>3. n \in P
  <2> HIDE DEF P
  <2>1. \A k \in 0..n : k \in P
    BY <1>1, <1>2, UpTo
  <2> QED
    BY <2>1
<1> QED
  BY <1>3

\* FlattenSeq is the last of them.
LEMMA FlattenValue ==
    ASSUME NEW S, NEW ss \in Seq(Seq(S)), ss # <<>>,
           NEW g \in [1..Len(ss) -> Seq(S)], Flattens(ss, Len(ss), g)
    PROVE  FlattenSeq(ss) = g[Len(ss)]
<1> DEFINE n == Len(ss)
           F == CHOOSE f : f = [i \in 1..Len(ss) |->
                                  IF i = 1 THEN ss[i] ELSE f[i - 1] \o ss[i]]
<1>1. n \in Nat \ {0}
  BY EmptySeq
<1>2. FlattenSeq(ss) = F[Len(ss)]
  BY <1>1 DEF FlattenSeq
<1>3. F = [i \in 1..Len(ss) |-> IF i = 1 THEN ss[i] ELSE F[i - 1] \o ss[i]]
  <2>1. g = [i \in 1..Len(ss) |-> IF i = 1 THEN ss[i] ELSE g[i - 1] \o ss[i]]
    <3>1. g = [i \in 1..Len(ss) |-> g[i]]
      OBVIOUS
    <3> QED
      BY <3>1 DEF Flattens
  <2> QED
    BY <2>1, Zenon
<1> HIDE DEF F, n
<1>4. \A i \in 1..n : F[i] = IF i = 1 THEN ss[i] ELSE F[i - 1] \o ss[i]
  BY <1>3 DEF n
<1> DEFINE P == {k \in 0..n : k = 0 \/ F[k] = g[k]}
<1>5. 0 \in P
  BY <1>1
<1>6. ASSUME NEW k \in 0..(n - 1), k \in P PROVE k + 1 \in P
  <2>1. k + 1 \in 1..n /\ k + 1 \in 0..n /\ (k + 1) - 1 = k /\ (k + 1 = 1 <=> k = 0)
    BY <1>1
  <2>2. F[k + 1] = IF k = 0 THEN ss[k + 1] ELSE F[k] \o ss[k + 1]
    BY <1>4, <2>1
  <2>3. g[k + 1] = IF k = 0 THEN ss[k + 1] ELSE g[k] \o ss[k + 1]
    BY <2>1 DEF Flattens, n
  <2> QED
    BY <1>6, <2>1, <2>2, <2>3
<1>7. n \in P
  <2> HIDE DEF P
  <2>1. \A k \in 0..n : k \in P
    BY <1>1, <1>5, <1>6, UpTo
  <2> QED
    BY <1>1, <2>1
<1> QED
  BY <1>1, <1>2, <1>7 DEF n

\* One sequence more.
LEMMA FlattenAppend ==
    ASSUME NEW S, NEW ss \in Seq(Seq(S)), NEW b \in Seq(S)
    PROVE  FlattenSeq(Append(ss, b)) = FlattenSeq(ss) \o b
<1> DEFINE n    == Len(ss)
           more == Append(ss, b)
<1>1. /\ more \in Seq(Seq(S)) /\ more # <<>> /\ Len(more) = n + 1 /\ n \in Nat
      /\ \A i \in 1..n : more[i] = ss[i]
      /\ more[n + 1] = b
  BY AppendProperties, LenProperties
<1> HIDE DEF more, n
<1>2. PICK g \in [1..Len(more) -> Seq(S)] : Flattens(more, Len(more), g)
  <2>1. Len(more) \in Nat /\ Len(more) <= Len(more)
    BY <1>1
  <2> QED
    BY <1>1, <2>1, FlattensExist
<1>3. FlattenSeq(more) = g[n + 1]
  BY <1>1, <1>2, FlattenValue
<1>4. n + 1 \in 1..Len(more) /\ (n + 1) - 1 = n
  BY <1>1
<1>5. g[n + 1] = IF n + 1 = 1 THEN b ELSE g[n] \o b
  BY <1>1, <1>2, <1>4 DEF Flattens
<1>6. CASE n = 0
  <2>1. ss = <<>> /\ FlattenSeq(ss) = <<>>
    BY <1>6, EmptySeq DEF FlattenSeq, n
  <2>2. <<>> \o b = b
    BY ConcatEmptySeq
  <2> QED
    BY <1>3, <1>5, <1>6, <2>1, <2>2 DEF more
<1>7. CASE n # 0
  <2> DEFINE f == [i \in 1..Len(ss) |-> g[i]]
  <2>1. f \in [1..Len(ss) -> Seq(S)] /\ \A i \in 1..n : f[i] = g[i]
    BY <1>1, <1>2 DEF n
  <2> HIDE DEF f
  <2>2. ASSUME NEW i \in 1..n PROVE f[i] = IF i = 1 THEN ss[i] ELSE f[i - 1] \o ss[i]
    <3>1. i \in 1..Len(more) /\ more[i] = ss[i] /\ (i # 1 => i - 1 \in 1..n)
      BY <1>1
    <3>2. g[i] = IF i = 1 THEN more[i] ELSE g[i - 1] \o more[i]
      BY <1>2, <3>1 DEF Flattens
    <3> QED
      BY <2>1, <3>1, <3>2
  <2>3. Flattens(ss, Len(ss), f)
    BY <2>2 DEF Flattens, n
  <2>4. ss # <<>>
    BY <1>7, EmptySeq DEF n
  <2>5. FlattenSeq(ss) = f[Len(ss)]
    BY <2>1, <2>3, <2>4, FlattenValue
  <2>6. FlattenSeq(ss) = g[n]
    BY <1>1, <1>7, <2>1, <2>5 DEF n
  <2> QED
    BY <1>1, <1>3, <1>5, <1>7, <2>6 DEF more
<1> QED
  BY <1>6, <1>7

\* Association, by itself.
LEMMA Associates ==
    ASSUME NEW S, NEW s \in Seq(S), NEW t \in Seq(S), NEW u \in Seq(S)
    PROVE  (s \o t) \o u = s \o (t \o u)
BY ConcatAssociative

\* The first sequence, and the others.
LEMMA FlattenHead ==
    ASSUME NEW S, NEW ss \in Seq(Seq(S)), ss # <<>>
    PROVE  /\ Head(ss) \in Seq(S) /\ Tail(ss) \in Seq(Seq(S))
           /\ FlattenSeq(Tail(ss)) \in Seq(S)
           /\ FlattenSeq(ss) = Head(ss) \o FlattenSeq(Tail(ss))
<1> DEFINE n  == Len(ss)
           hd == Head(ss)
           tl == Tail(ss)
<1>1. /\ hd \in Seq(S) /\ tl \in Seq(Seq(S)) /\ Len(tl) = n - 1 /\ n \in Nat \ {0}
      /\ \A i \in 1..Len(tl) : tl[i] = ss[i + 1]
  BY HeadTailProperties, EmptySeq
<1>2. hd = ss[1]
  OBVIOUS
<1> HIDE DEF hd, tl, n
<1>3. PICK f \in [1..Len(tl) -> Seq(S)] : Flattens(tl, Len(tl), f)
  <2>1. Len(tl) \in Nat /\ Len(tl) <= Len(tl)
    BY <1>1
  <2> QED
    BY <1>1, <2>1, FlattensExist
<1> DEFINE g == [i \in 1..Len(ss) |-> IF i = 1 THEN hd ELSE hd \o f[i - 1]]
<1>4. g \in [1..Len(ss) -> Seq(S)]
  <2>1. ASSUME NEW i \in 1..Len(ss), i # 1 PROVE hd \o f[i - 1] \in Seq(S)
    <3>1. f[i - 1] \in Seq(S)
      <4>1. i - 1 \in 1..Len(tl)
        BY <1>1, <2>1 DEF n
      <4> QED
        BY <1>3, <4>1
    <3> QED
      BY <1>1, <3>1, ConcatProperties
  <2> QED
    BY <1>1, <2>1
<1>5. ASSUME NEW i \in 1..n PROVE g[i] = IF i = 1 THEN ss[i] ELSE g[i - 1] \o ss[i]
  <2>1. CASE i = 1
    BY <1>1, <1>2, <2>1 DEF n
  <2>2. CASE i # 1
    <3>1. i - 1 \in 1..Len(tl) /\ (i - 1) + 1 = i /\ i - 1 \in 1..n
      BY <1>1, <2>2
    <3>2. g[i] = hd \o f[i - 1] /\ tl[i - 1] = ss[i]
      BY <1>1, <2>2, <3>1 DEF n
    <3>3. f[i - 1] = IF i - 1 = 1 THEN tl[i - 1] ELSE f[(i - 1) - 1] \o tl[i - 1]
      BY <1>3, <3>1 DEF Flattens
    <3>4. g[i - 1] = IF i - 1 = 1 THEN hd ELSE hd \o f[(i - 1) - 1]
      BY <3>1 DEF n
    <3> HIDE DEF g
    <3>5. CASE i - 1 = 1
      BY <2>2, <3>2, <3>3, <3>4, <3>5
    <3>6. CASE i - 1 # 1
      <4>1. (i - 1) - 1 \in 1..Len(tl)
        BY <1>1, <3>1, <3>6
      <4>2. f[(i - 1) - 1] \in Seq(S) /\ tl[i - 1] \in Seq(S)
        BY <1>1, <1>3, <3>1, <4>1, ElementOfSeq
      <4> DEFINE x == f[(i - 1) - 1]
                 y == tl[i - 1]
      <4>3. (hd \o x) \o y = hd \o (x \o y)
        <5>1. hd \in Seq(S) /\ x \in Seq(S) /\ y \in Seq(S)
          BY <1>1, <4>2
        <5> HIDE DEF x, y
        <5> QED
          BY ONLY <5>1, Associates, SMTT(60)
      <4> QED
        BY <2>2, <3>2, <3>3, <3>4, <3>6, <4>3
    <3> QED
      BY <3>5, <3>6
  <2> QED
    BY <2>1, <2>2
<1> HIDE DEF g
<1>6. FlattenSeq(ss) = g[n]
  <2>1. Flattens(ss, Len(ss), g)
    BY <1>5 DEF Flattens, n
  <2> QED
    BY <1>4, <2>1, FlattenValue DEF n
<1>7. n \in 1..n /\ g[n] = IF n = 1 THEN hd ELSE hd \o f[n - 1]
  BY <1>1 DEF g, n
<1>8. CASE n = 1
  <2>1. tl = <<>> /\ FlattenSeq(tl) = <<>>
    <3>1. Len(tl) = 0
      BY <1>1, <1>8
    <3> QED
      BY <1>1, <3>1, EmptySeq DEF FlattenSeq
  <2>2. hd \o <<>> = hd /\ <<>> \in Seq(S)
    BY <1>1, ConcatEmptySeq, EmptySeq
  <2> QED
    BY <1>1, <1>6, <1>7, <1>8, <2>1, <2>2 DEF hd, tl
<1>9. CASE n # 1
  <2>1. tl # <<>> /\ Len(tl) \in 1..Len(tl) /\ Len(tl) = n - 1
    BY <1>1, <1>9, EmptySeq
  <2>2. FlattenSeq(tl) = f[Len(tl)]
    BY <1>1, <1>3, <2>1, FlattenValue
  <2>3. f[Len(tl)] \in Seq(S)
    BY <1>3, <2>1
  <2> QED
    BY <1>1, <1>6, <1>7, <1>9, <2>1, <2>2, <2>3 DEF hd, tl
<1> QED
  BY <1>8, <1>9

-----------------------------------------------------------------------------
(* The checksum                                                            *)

\* The sums after each byte of a sequence, up to the k-th.
Sums(b, n, c) ==
    c[0] = 0 /\ \A k \in 1..n : c[k] = Xor(c[k - 1], b[k])

\* FoldLeft goes through the subsets of the sequence's domain: the folds over those
\* of 1..n.
FoldsSets(b, n, g) ==
    \A s \in SUBSET (1..n) :
        g[s] = IF s = {} THEN 0 ELSE Xor(g[s \ {Max(s)}], b[Max(s)])

\* The largest of some numbers up to k + 1, if k + 1 is one of them.
LEMMA MaxIs ==
    ASSUME NEW k \in Nat, NEW s \in SUBSET (1..k), k \in s
    PROVE  Max(s) = k
<1>1. \A y \in s : k >= y
  OBVIOUS
<1>2. \A x \in s : (\A y \in s : x >= y) => x = k
  OBVIOUS
<1> QED
  BY <1>1, <1>2 DEF Max

\* A fold over the first bytes exists, one byte more at a time.
LEMMA FoldsExist ==
    ASSUME NEW b \in Seq(Byte), NEW n \in Nat, n <= Len(b)
    PROVE  \E g \in [SUBSET (1..n) -> Byte] : FoldsSets(b, n, g)
<1> DEFINE P == {k \in 0..n : \E g \in [SUBSET (1..k) -> Byte] : FoldsSets(b, k, g)}
<1>1. 0 \in P
  <2> DEFINE e == [s \in SUBSET (1..0) |-> 0]
  <2>1. e \in [SUBSET (1..0) -> Byte] /\ \A s \in SUBSET (1..0) : s = {} /\ e[s] = 0
    BY DEF Byte
  <2> HIDE DEF e
  <2>2. FoldsSets(b, 0, e)
    BY <2>1 DEF FoldsSets
  <2>3. 0 \in 0..n
    OBVIOUS
  <2> QED
    BY <2>1, <2>2, <2>3
<1>2. ASSUME NEW k \in 0..(n - 1), k \in P PROVE k + 1 \in P
  <2>1. PICK g \in [SUBSET (1..k) -> Byte] : FoldsSets(b, k, g)
    BY <1>2
  <2>2. k \in Nat /\ k + 1 \in 1..Len(b) /\ k + 1 \in 0..n /\ Len(b) \in Nat
    BY LenProperties
  <2>3. b[k + 1] \in Byte
    BY <2>2, ElementOfSeq
  <2> DEFINE h == [s \in SUBSET (1..(k + 1)) |->
                     IF k + 1 \in s THEN Xor(g[s \ {k + 1}], b[k + 1]) ELSE g[s]]
  <2>4. ASSUME NEW s \in SUBSET (1..(k + 1))
        PROVE  s \ {k + 1} \in SUBSET (1..k) /\ (k + 1 \notin s => s \in SUBSET (1..k))
    BY <2>2
  <2>5. h \in [SUBSET (1..(k + 1)) -> Byte]
    <3>1. ASSUME NEW s \in SUBSET (1..(k + 1))
          PROVE  (IF k + 1 \in s THEN Xor(g[s \ {k + 1}], b[k + 1]) ELSE g[s]) \in Byte
      <4>1. g[s \ {k + 1}] \in Byte /\ (k + 1 \notin s => g[s] \in Byte)
        BY <2>4
      <4> QED
        BY <2>3, <4>1, XorAssumption
    <3> QED
      BY <3>1
  <2>6. ASSUME NEW s \in SUBSET (1..(k + 1))
        PROVE  h[s] = IF s = {} THEN 0 ELSE Xor(h[s \ {Max(s)}], b[Max(s)])
    <3>1. CASE k + 1 \in s
      <4>1. Max(s) = k + 1 /\ s # {}
        BY <2>2, <3>1, MaxIs
      <4>2. s \ {k + 1} \in SUBSET (1..(k + 1)) /\ k + 1 \notin s \ {k + 1}
        OBVIOUS
      <4>3. h[s] = Xor(g[s \ {k + 1}], b[k + 1])
        BY <3>1
      <4>4. h[s \ {k + 1}] = g[s \ {k + 1}]
        BY <4>2
      <4> HIDE DEF h
      <4> QED
        BY <4>1, <4>3, <4>4
    <3>2. CASE k + 1 \notin s
      <4>1. s \in SUBSET (1..k)
        BY <2>4, <3>2
      <4>2. h[s] = g[s]
        BY <3>2
      <4>3. g[s] = IF s = {} THEN 0 ELSE Xor(g[s \ {Max(s)}], b[Max(s)])
        BY <2>1, <4>1 DEF FoldsSets
      <4>4. s \ {Max(s)} \in SUBSET (1..(k + 1)) /\ k + 1 \notin s \ {Max(s)}
        BY <3>2
      <4>5. h[s \ {Max(s)}] = g[s \ {Max(s)}]
        BY <4>4
      <4> HIDE DEF h
      <4> QED
        BY <4>2, <4>3, <4>5
    <3> QED
      BY <3>1, <3>2
  <2> HIDE DEF h
  <2>7. FoldsSets(b, k + 1, h)
    BY <2>6 DEF FoldsSets
  <2> QED
    BY <2>2, <2>5, <2>7
<1>3. n \in P
  <2> HIDE DEF P
  <2>1. \A k \in 0..n : k \in P
    BY <1>1, <1>2, UpTo
  <2> QED
    BY <2>1
<1> QED
  BY <1>3

\* The checksum is the last of the sums.
LEMMA ChecksumSums ==
    ASSUME NEW b \in Seq(Byte)
    PROVE  \E c \in [0..Len(b) -> Byte] : Sums(b, Len(b), c) /\ Checksum(b) = c[Len(b)]
<1> DEFINE n == Len(b)
           D == DOMAIN b
           F == CHOOSE iter : iter = [s \in SUBSET D |->
                    IF s = {} THEN 0 ELSE Xor(iter[s \ {Max(s)}], b[Max(s)])]
<1>1. n \in Nat /\ D = 1..n /\ \A k \in 1..n : b[k] \in Byte
  BY LenProperties, ElementOfSeq
<1>2. Checksum(b) = F[D]
  BY Zenon DEF Checksum, FoldLeft, MapThenFoldSet
<1>3. F = [s \in SUBSET D |-> IF s = {} THEN 0 ELSE Xor(F[s \ {Max(s)}], b[Max(s)])]
  <2>1. n <= Len(b)
    BY <1>1
  <2>2. PICK g \in [SUBSET (1..n) -> Byte] : FoldsSets(b, n, g)
    BY <1>1, <2>1, FoldsExist
  <2> HIDE DEF D
  <2>3. g = [s \in SUBSET D |-> IF s = {} THEN 0 ELSE Xor(g[s \ {Max(s)}], b[Max(s)])]
    <3>1. g = [s \in SUBSET D |-> g[s]]
      BY <1>1
    <3>2. \A s \in SUBSET D : g[s] = IF s = {} THEN 0 ELSE Xor(g[s \ {Max(s)}], b[Max(s)])
      BY <1>1, <2>2 DEF FoldsSets
    <3> QED
      BY <3>1, <3>2, Zenon
  <2> QED
    BY <2>3, Zenon
<1> HIDE DEF F, D, n
<1>4. \A s \in SUBSET (1..n) : F[s] = IF s = {} THEN 0 ELSE Xor(F[s \ {Max(s)}], b[Max(s)])
  BY <1>1, <1>3
<1> DEFINE c == [k \in 0..n |-> F[1..k]]
<1>5. c[0] = 0
  <2>1. 1..0 = {} /\ 1..0 \in SUBSET (1..n) /\ 0 \in 0..n
    BY <1>1
  <2> QED
    BY <1>4, <2>1
<1>6. ASSUME NEW k \in 1..n PROVE c[k] = Xor(c[k - 1], b[k])
  <2>1. /\ k \in Nat /\ 1..k \in SUBSET (1..n) /\ k \in 1..k /\ 1..k # {}
        /\ (1..k) \ {k} = 1..(k - 1) /\ k - 1 \in 0..n /\ k \in 0..n
    <3>1. k \in Nat /\ k \in 1..k /\ k - 1 \in 0..n /\ k \in 0..n
      BY <1>1
    <3>2. (\A i \in 1..k : i \in 1..n) /\ 1 \in 1..k
      BY <1>1
    <3>3. \A i : i \in (1..k) \ {k} <=> i \in 1..(k - 1)
      BY <3>1
    <3> QED
      BY <3>1, <3>2, <3>3
  <2>2. Max(1..k) = k
    BY <2>1, MaxIs
  <2>3. F[1..k] = Xor(F[1..(k - 1)], b[k])
    BY <1>4, <2>1, <2>2
  <2> QED
    BY <2>1, <2>3
<1> HIDE DEF c
<1>7. \A k \in 0..n : c[k] \in Byte
  <2> DEFINE P == {k \in 0..n : c[k] \in Byte}
  <2>1. 0 \in P
    BY <1>1, <1>5 DEF Byte
  <2>2. ASSUME NEW k \in 0..(n - 1), k \in P PROVE k + 1 \in P
    <3>1. k + 1 \in 1..n /\ (k + 1) - 1 = k /\ k + 1 \in 0..n
      BY <1>1
    <3>2. c[k + 1] = Xor(c[k], b[k + 1])
      BY <1>6, <3>1
    <3>3. b[k + 1] \in Byte /\ c[k] \in Byte
      BY <1>1, <2>2, <3>1
    <3> QED
      BY <3>1, <3>2, <3>3, XorAssumption
  <2> HIDE DEF P
  <2>3. \A k \in 0..n : k \in P
    BY <1>1, <2>1, <2>2, UpTo
  <2> QED
    BY <2>3 DEF P
<1>8. c \in [0..n -> Byte] /\ Checksum(b) = c[n]
  <2>1. c = [k \in 0..n |-> c[k]]
    BY DEF c
  <2>2. Checksum(b) = c[n]
    BY <1>1, <1>2 DEF c
  <2> QED
    BY <1>7, <2>1, <2>2
<1>9. Sums(b, n, c)
  BY <1>5, <1>6 DEF Sums
<1> QED
  BY <1>8, <1>9 DEF n

\* The checksum of bytes is a byte.
LEMMA ChecksumIsByte == ASSUME NEW b \in Seq(Byte) PROVE Checksum(b) \in Byte
<1>1. PICK c \in [0..Len(b) -> Byte] : Checksum(b) = c[Len(b)]
  BY ChecksumSums
<1>2. Len(b) \in 0..Len(b)
  BY LenProperties
<1> QED
  BY <1>1, <1>2

\* Exclusive or can be undone.
LEMMA XorCancels ==
    ASSUME NEW x \in Byte, NEW y \in Byte, NEW z \in Byte
    PROVE  /\ Xor(x, z) = Xor(y, z) => x = y
           /\ Xor(z, x) = Xor(z, y) => x = y
<1>1. Xor(Xor(x, z), z) = x /\ Xor(Xor(y, z), z) = y
  BY XorAssumption
<1>2. Xor(z, Xor(z, x)) = x /\ Xor(z, Xor(z, y)) = y
  BY XorAssumption
<1> QED
  BY <1>1, <1>2

\* One changed byte changes the checksum, wherever it is and however long the bytes
\* are.
THEOREM OneByteIsNoticed ==
    ASSUME NEW b \in Seq(Byte), NEW j \in 1..Len(b), NEW x \in Byte, x # b[j]
    PROVE  Checksum([b EXCEPT ![j] = x]) # Checksum(b)
<1> DEFINE n == Len(b)
           a == [b EXCEPT ![j] = x]
<1>1. /\ a \in Seq(Byte) /\ Len(a) = n /\ n \in Nat
      /\ \A k \in 1..n : a[k] = IF k = j THEN x ELSE b[k]
  BY ExceptSeq, LenProperties
<1>2. \A k \in 1..n : a[k] \in Byte /\ b[k] \in Byte
  BY <1>1, ElementOfSeq
<1> HIDE DEF a
<1>3. PICK c \in [0..Len(b) -> Byte] : Sums(b, Len(b), c) /\ Checksum(b) = c[Len(b)]
  BY ChecksumSums
<1>4. PICK d \in [0..Len(a) -> Byte] : Sums(a, Len(a), d) /\ Checksum(a) = d[Len(a)]
  BY <1>1, ChecksumSums
<1> HIDE DEF n
<1>5. /\ c[0] = 0 /\ d[0] = 0 /\ j \in 1..n
      /\ \A k \in 1..n : c[k] = Xor(c[k - 1], b[k]) /\ d[k] = Xor(d[k - 1], a[k])
      /\ \A k \in 0..n : c[k] \in Byte /\ d[k] \in Byte
  BY <1>1, <1>3, <1>4 DEF Sums, n
<1> DEFINE P == {k \in 0..n : IF k < j THEN c[k] = d[k] ELSE c[k] # d[k]}
<1>6. 0 \in P
  BY <1>1, <1>5
<1>7. ASSUME NEW k \in 0..(n - 1), k \in P PROVE k + 1 \in P
  <2>1. k + 1 \in 1..n /\ (k + 1) - 1 = k /\ k + 1 \in 0..n /\ k \in 0..n
    BY <1>1
  <2>2. c[k + 1] = Xor(c[k], b[k + 1]) /\ d[k + 1] = Xor(d[k], a[k + 1])
    BY <1>5, <2>1
  <2>3. c[k] \in Byte /\ d[k] \in Byte /\ a[k + 1] \in Byte /\ b[k + 1] \in Byte
    BY <1>2, <1>5, <2>1
  <2>4. CASE k + 1 < j
    <3>1. c[k] = d[k] /\ a[k + 1] = b[k + 1]
      BY <1>1, <1>5, <1>7, <2>1, <2>4
    <3> QED
      BY <2>1, <2>2, <2>4, <3>1
  <2>5. CASE k + 1 = j
    <3>1. c[k] = d[k]
      BY <1>5, <1>7, <2>1, <2>5
    <3>2. a[k + 1] # b[k + 1]
      BY <1>1, <2>1, <2>5
    <3>3. c[k + 1] # d[k + 1]
      BY <2>2, <2>3, <3>1, <3>2, XorCancels
    <3> QED
      BY <1>5, <2>1, <2>5, <3>3
  <2>6. CASE k + 1 > j
    <3>1. c[k] # d[k]
      BY <1>5, <1>7, <2>1, <2>6
    <3>2. a[k + 1] = b[k + 1]
      BY <1>1, <1>5, <2>1, <2>6
    <3>3. c[k + 1] # d[k + 1]
      BY <2>2, <2>3, <3>1, <3>2, XorCancels
    <3> QED
      BY <1>5, <2>1, <2>6, <3>3
  <2> QED
    BY <1>5, <2>1, <2>4, <2>5, <2>6
<1>8. n \in P
  <2> HIDE DEF P
  <2>1. \A k \in 0..n : k \in P
    BY <1>1, <1>6, <1>7, UpTo
  <2> QED
    BY <1>1, <2>1
<1>9. c[n] # d[n]
  BY <1>5, <1>8
<1> QED
  BY <1>1, <1>3, <1>4, <1>9 DEF a, n

-----------------------------------------------------------------------------
(* The decoder's buffer                                                    *)

\* What decoder_set_expected has established once it saw the type byte, and
\* for a DATA frame the length byte.
Framed(bytes, expected) ==
    /\ Len(bytes) = 0 => expected = 0
    /\ Len(bytes) > 0 =>
         /\ bytes[1] \in FrameTypes
         /\ bytes[1] # Data => expected = FixedSize(bytes[1])
         /\ bytes[1] = Data /\ Len(bytes) = 1 => expected = 0
         /\ bytes[1] = Data /\ Len(bytes) > 1 =>
              bytes[2] <= MaxData /\ expected = 3 + bytes[2]

DecoderInv ==
    /\ wire \in Seq(Nat)
    /\ decoder \in [bytes : Seq(Nat), expected : Nat]
    /\ Framed(decoder.bytes, decoder.expected)
    /\ decoder.expected > 0 => Len(decoder.bytes) < decoder.expected
    /\ decoder.expected = 0 => Len(decoder.bytes) <= 1

USE MaxDataAssumption DEF Heartbeat, Status, BaudRate, Control, Data, FrameTypes

\* Bytes are numbers.
LEMMA BytesAreNaturals == Byte \subseteq Nat /\ Seq(Byte) \subseteq Seq(Nat)
<1>1. Byte \subseteq Nat
  BY DEF Byte
<1>2. QED
  BY <1>1, SeqMonotonic

\* A decoder in this condition has room for the next byte.
LEMMA InvFits == DecoderInv => DecoderFits
<1> SUFFICES ASSUME DecoderInv PROVE DecoderFits
  OBVIOUS
<1> DEFINE n == Len(decoder.bytes)
<1>1. /\ n \in Nat
      /\ decoder.expected \in Nat
      /\ decoder.bytes \in Seq(Nat)
  BY DEF DecoderInv
<1>2. CASE n = 0
  BY <1>1, <1>2 DEF DecoderInv, DecoderFits, Framed
<1>3. CASE n > 0 /\ decoder.bytes[1] # Data
  <2>1. decoder.expected \in {2, 3, 6}
    BY <1>3, SMT DEF DecoderInv, Framed, FixedSize
  <2>2. QED
    BY <1>1, <1>3, <2>1 DEF DecoderInv, DecoderFits
<1>4. CASE n > 0 /\ decoder.bytes[1] = Data
  <2>1. decoder.expected <= MaxData + 3
    <3>1. CASE n = 1
      BY <1>1, <1>4, <3>1 DEF DecoderInv, Framed
    <3>2. CASE n > 1
      <4>1. decoder.bytes[2] \in Nat
        BY <1>1, <3>2
      <4>2. QED
        BY <1>1, <1>4, <3>2, <4>1 DEF DecoderInv, Framed
    <3>3. n > 0
      BY <1>4
    <3> HIDE DEF n
    <3>4. QED
      BY <1>1, <3>1, <3>2, <3>3
  <2>2. QED
    BY <1>1, <1>4, <2>1 DEF DecoderInv, DecoderFits
<1>5. QED
  BY <1>1, <1>2, <1>3, <1>4

\* One pushed byte: if the decoder asks for more, what it holds is framed and
\* shorter than what it expects.
LEMMA PushKeeps ==
    ASSUME NEW bytes \in Seq(Nat), NEW expected \in Nat, NEW b \in Nat,
           Framed(bytes, expected),
           expected = 0 => Len(bytes) <= 1,
           ~Unframeable(Append(bytes, b)),
           NEW more, more = Append(bytes, b),
           NEW e, e = Expected(more, expected)
    PROVE  /\ e \in Nat
           /\ Framed(more, e)
           /\ e = 0 => Len(more) <= 1
<1>1. /\ more \in Seq(Nat)
      /\ Len(more) = Len(bytes) + 1
      /\ \A i \in 1..Len(bytes) : more[i] = bytes[i]
      /\ more[Len(bytes) + 1] = b
  BY AppendProperties
<1>2. Len(bytes) \in Nat
  OBVIOUS
<1>3. CASE Len(bytes) = 0
  <2>1. more[1] = b /\ Len(more) = 1 /\ b \in FrameTypes
    BY <1>1, <1>3 DEF Unframeable
  <2>2. e = FixedSize(b)
    BY <2>1 DEF Expected
  <2>3. QED
    BY <2>1, <2>2 DEF Framed, FixedSize
<1>4. CASE Len(bytes) = 1 /\ bytes[1] = Data
  <2>1. more[1] = Data /\ more[2] = b /\ Len(more) = 2 /\ b <= MaxData
    BY <1>1, <1>4 DEF Unframeable
  <2>2. e = 3 + b
    BY <2>1 DEF Expected
  <2>3. QED
    BY <2>1, <2>2 DEF Framed
<1>5. CASE Len(bytes) > 0 /\ (Len(bytes) # 1 \/ bytes[1] # Data)
  <2>a. 1 \in 1..Len(bytes) /\ Len(more) > 1 /\ Len(more) # 1
    BY <1>1, <1>2, <1>5
  <2>b. more[1] = bytes[1]
    BY <1>1, <2>a
  <2>1. more[1] = bytes[1] /\ Len(more) > 1 /\ ~(Len(more) = 2 /\ more[1] = Data)
    <3>1. Len(more) = 2 => Len(bytes) = 1
      <4>1. \A k, m \in Nat : m = k + 1 /\ m = 2 => k = 1
        OBVIOUS
      <4>2. Len(more) \in Nat
        BY <1>1, LenProperties, Zenon
      <4>3. QED
        BY <1>1, <1>2, <4>1, <4>2, Zenon
    <3>2. QED
      BY <1>5, <2>a, <2>b, <3>1, Zenon
  <2>2. e = expected
    BY <2>1, <1>1 DEF Expected
  <2>3. bytes[1] \in FrameTypes /\ (bytes[1] # Data => expected = FixedSize(bytes[1]))
    BY <1>5, <1>2 DEF Framed
  <2>4. CASE bytes[1] # Data
    <3>1. expected > 0
      BY <2>3, <2>4 DEF FixedSize
    <3>2. QED
      BY <2>1, <2>2, <2>3, <2>4, <3>1 DEF Framed
  <2>5. CASE bytes[1] = Data
    <3>a. Len(bytes) > 1 /\ 2 \in 1..Len(bytes)
      <4>1. Len(bytes) # 1 /\ Len(bytes) > 0
        BY <1>5, <2>5, Zenon
      <4>2. \A k \in Nat : k # 1 /\ k > 0 => k > 1 /\ 2 \in 1..k
        OBVIOUS
      <4>3. QED
        BY <1>2, <4>1, <4>2, Zenon
    <3>1. Len(bytes) > 1 /\ more[2] = bytes[2] /\ bytes[2] \in Nat
      BY <1>1, <3>a
    <3>2. bytes[2] <= MaxData /\ expected = 3 + bytes[2]
      BY <2>5, <3>1 DEF Framed
    <3>3. QED
      BY <2>1, <2>2, <2>3, <2>5, <3>1, <3>2, SMTT(60) DEF Framed
  <2>6. QED
    BY <2>4, <2>5
<1>6. QED
  BY <1>2, <1>3, <1>4, <1>5

\* Every step keeps what the decoder expects true of what it holds.
LEMMA DecoderStep == DecoderInv /\ [FrameNext]_frameVars => DecoderInv'
<1> SUFFICES ASSUME DecoderInv, [FrameNext]_frameVars PROVE DecoderInv'
  OBVIOUS
<1>empty. ASSUME decoder' = EmptyDecoder, wire' \in Seq(Nat) PROVE DecoderInv'
  BY <1>empty DEF DecoderInv, EmptyDecoder, Framed
<1>1. ASSUME NEW f \in Frames, NEW bytes, Send(f, bytes) PROVE DecoderInv'
  <2>1. wire' \in Seq(Nat) /\ decoder' = decoder
    BY <1>1, BytesAreNaturals DEF Send, DecoderInv
  <2>2. QED
    BY <2>1 DEF DecoderInv
<1>2. CASE ReadByte
  <2> DEFINE bytes  == Append(decoder.bytes, Head(wire))
             expected == IF Unframeable(bytes) THEN decoder.expected
                         ELSE Expected(bytes, decoder.expected)
  <2>1. Head(wire) \in Nat /\ wire' \in Seq(Nat)
    BY <1>2, HeadTailProperties DEF ReadByte, DecoderInv
  <2>2. CASE decoder' = EmptyDecoder
    BY <1>empty, <2>1, <2>2
  <2>3. CASE decoder' # EmptyDecoder
    <3>1. /\ decoder' = [bytes |-> bytes, expected |-> expected]
          /\ Result(bytes, expected) = "NeedMore"
      BY <1>2, <2>3 DEF ReadByte
    <3>2. ~Unframeable(bytes) /\ (expected = 0 \/ Len(bytes) < expected)
      BY <3>1, Zenon DEF Result
    <3>3. decoder.bytes \in Seq(Nat) /\ decoder.expected \in Nat
      BY DEF DecoderInv
    <3>4. bytes \in Seq(Nat)
      BY <2>1, <3>3, AppendProperties
    <3>5. /\ expected \in Nat
          /\ Framed(bytes, expected)
          /\ expected = 0 => Len(bytes) <= 1
      <4>1. expected = Expected(bytes, decoder.expected)
        BY <3>2
      <4>2. Framed(decoder.bytes, decoder.expected)
            /\ (decoder.expected = 0 => Len(decoder.bytes) <= 1)
        BY DEF DecoderInv
      <4> HIDE DEF bytes, expected
      <4>3. bytes = Append(decoder.bytes, Head(wire))
        BY DEF bytes
      <4>4. QED
        BY <2>1, <3>2, <3>3, <4>1, <4>2, <4>3, PushKeeps
    <3>6. decoder'.bytes = bytes /\ decoder'.expected = expected
          /\ decoder' \in [bytes : Seq(Nat), expected : Nat]
      <4> HIDE DEF bytes, expected
      <4>1. QED
        BY <3>1, <3>4, <3>5
    <3>7. expected > 0 => Len(bytes) < expected
      BY <3>2
    <3> HIDE DEF bytes, expected
    <3>8. QED
      BY <2>1, <3>5, <3>6, <3>7 DEF DecoderInv
  <2>4. QED
    BY <2>2, <2>3
<1>3. CASE Reopen
  BY <1>3, <1>empty DEF Reopen
<1>4. CASE UNCHANGED frameVars
  BY <1>4 DEF DecoderInv, frameVars
<1>5. QED
  BY <1>1, <1>2, <1>3, <1>4 DEF FrameNext, SendFrame, SendDamaged

\* The decoder's buffer never fills and the frame it waits for always fits,
\* for any frames, intact or damaged, and whatever the limit on the data.
THEOREM DecoderNeverFills == FrameSpec => []DecoderFits
<1>1. FrameInit => DecoderInv
  BY DEF FrameInit, DecoderInv, EmptyDecoder, Framed
<1>2. QED
  BY <1>1, DecoderStep, InvFits, PTL DEF FrameSpec

\* External: any bytes at all reach the receive buffer, frames or not.
AnyBytes ==
    \E bytes \in Seq(Byte) : /\ wire' = wire \o bytes
                             /\ UNCHANGED <<inFlight, decoder, reading, delivered>>

NoisySpec == FrameInit /\ [][FrameNext \/ AnyBytes]_frameVars

\* The same with any bytes on the line, the damage that moves the frame
\* boundaries included, which NoticeableDamage leaves out: that
\* expansion_decoder_push stays within its buffer does not depend on where
\* the reader takes the frames to begin.
THEOREM AnyBytesFit == NoisySpec => []DecoderFits
<1>1. FrameInit => DecoderInv
  BY DEF FrameInit, DecoderInv, EmptyDecoder, Framed
<1>2. DecoderInv /\ AnyBytes => DecoderInv'
  <2> SUFFICES ASSUME DecoderInv, AnyBytes PROVE DecoderInv'
    OBVIOUS
  <2>1. PICK bytes \in Seq(Byte) : wire' = wire \o bytes /\ decoder' = decoder
    BY DEF AnyBytes
  <2>2. wire' \in Seq(Nat)
    BY <2>1, BytesAreNaturals DEF DecoderInv
  <2>3. QED
    BY <2>1, <2>2 DEF DecoderInv
<1>3. DecoderInv /\ [FrameNext \/ AnyBytes]_frameVars => DecoderInv'
  BY <1>2, DecoderStep
<1>4. QED
  BY <1>1, <1>3, InvFits, PTL DEF NoisySpec

-----------------------------------------------------------------------------
\* read_u32_le undoes write_u32_le on 32-bit values.
LEMMA U32RoundTrip ==
    ASSUME NEW v \in Nat, v < 256 * 256 * 256 * 256
    PROVE  ReadU32(WriteU32(v)) = v /\ WriteU32(v) \in Seq(Byte) /\ Len(WriteU32(v)) = 4
<1> DEFINE b1 == v % 256
           b2 == (v \div 256) % 256
           b3 == (v \div (256 * 256)) % 256
           b4 == (v \div (256 * 256 * 256)) % 256
<1>1. b1 + 256 * b2 + (256 * 256) * b3 + (256 * 256 * 256) * b4 = v
  BY SMT
<1>2. b1 \in Byte /\ b2 \in Byte /\ b3 \in Byte /\ b4 \in Byte
  BY SMT DEF Byte
<1>3. WriteU32(v) = <<b1, b2, b3, b4>>
  BY DEF WriteU32
<1> HIDE DEF b1, b2, b3, b4
<1>4. QED
  BY <1>1, <1>2, <1>3 DEF ReadU32

\* Appending, whatever the element is.
LEMMA AppendKeeps ==
    ASSUME NEW s \in Seq(Nat), NEW c
    PROVE  /\ Len(Append(s, c)) = Len(s) + 1
           /\ \A i \in 1..Len(s) : Append(s, c)[i] = s[i]
<1>1. s \in Seq(Nat \cup {c})
  BY SeqMonotonic
<1>2. QED
  BY <1>1, AppendProperties

\* For every frame the encoder takes, the decoder's reading of its encoding is
\* the frame, and the length it expects is the length of the encoding.
THEOREM FramesRoundTrip ==
    ASSUME NEW f, WellFormed(f), Encodable(f)
    PROVE  /\ Decode(Encode(f)) = f
           /\ Len(Encode(f)) = IF f.type = Data THEN 3 + Encode(f)[2]
                               ELSE FixedSize(f.type)
<1> DEFINE c == Checksum(Body(f))
           image == Encode(f)
<1>1. f = [type |-> f.type, content |-> f.content] /\ f.content \in Seq(Nat)
      /\ f.type \in FrameTypes
  BY DEF WellFormed
<1>2. image = Append(Body(f), c)
  BY DEF Encode
<1> HIDE DEF c, image
<1>3. SUFFICES /\ image[1] = f.type
               /\ Content(image) = f.content
               /\ Len(image) = IF f.type = Data THEN 3 + image[2] ELSE FixedSize(f.type)
  BY <1>1 DEF Decode, image
<1> DEFINE body == Body(f)
<1>b. ASSUME body \in Seq(Nat)
      PROVE  Len(image) = Len(body) + 1 /\ \A i \in 1..Len(body) : image[i] = body[i]
  BY <1>2, <1>b, AppendKeeps
<1>4. CASE f.type = Heartbeat
  <2>1. body = <<1>>
    BY <1>4 DEF Body
  <2>2. Len(image) = 2 /\ image[1] = 1
    BY <1>b, <2>1
  <2>3. QED
    BY <1>4, <2>2 DEF Content, FixedSize, WellFormed
<1>5. CASE f.type \in {Status, Control}
  <2>1. Len(f.content) = 1 /\ f.content[1] \in Nat /\ f.content = << f.content[1] >>
    BY <1>1, <1>5 DEF WellFormed
  <2>2. body = <<f.type, f.content[1]>>
    BY <1>5 DEF Body
  <2>3. body \in Seq(Nat) /\ Len(body) = 2 /\ body[1] = f.type /\ body[2] = f.content[1]
    BY <1>1, <2>1, <2>2
  <2> HIDE DEF body
  <2>4. Len(image) = 3 /\ image[1] = f.type /\ image[2] = f.content[1]
    BY <1>b, <2>3
  <2>5. QED
    BY <1>5, <2>1, <2>4 DEF Content, FixedSize
<1>6. CASE f.type = BaudRate
  <2> DEFINE v == f.content[1]
             w == WriteU32(v)
  <2>0. v \in Nat /\ v \div (256 * 256) < 256 * 256 /\ f.content = << v >>
    BY <1>1, <1>6 DEF WellFormed
  <2>1. v \in Nat /\ v < 256 * 256 * 256 * 256 /\ f.content = << v >>
    <3> HIDE DEF v
    <3> QED
      BY <2>0
  <2>2. ReadU32(w) = v /\ w \in Seq(Nat) /\ Len(w) = 4
    BY <2>1, U32RoundTrip, BytesAreNaturals
  <2>3. body = <<3>> \o w
    BY <1>6 DEF Body
  <2> HIDE DEF body, w, v
  <2>4. body \in Seq(Nat) /\ Len(body) = 5 /\ body[1] = 3
        /\ \A i \in 1..4 : body[i + 1] = w[i]
    <3>1. <<3>> \in Seq(Nat) /\ Len(<<3>>) = 1 /\ <<3>>[1] = 3
      OBVIOUS
    <3>2. /\ body \in Seq(Nat)
          /\ Len(body) = 1 + 4
          /\ \A i \in 1..5 : body[i] = IF i <= 1 THEN <<3>>[i] ELSE w[i - 1]
      <4> DEFINE s == <<3>>
      <4> HIDE DEF s
      <4>1. s \in Seq(Nat) /\ Len(s) = 1 /\ body = s \o w
        BY <2>3, <3>1 DEF s
      <4>2. /\ s \o w \in Seq(Nat)
            /\ Len(s \o w) = Len(s) + Len(w)
            /\ \A i \in 1 .. Len(s) + Len(w) : (s \o w)[i] =
                   IF i <= Len(s) THEN s[i] ELSE w[i - Len(s)]
        BY <2>2, <4>1, ConcatProperties
      <4>3. /\ body \in Seq(Nat)
            /\ Len(body) = 1 + 4
            /\ \A i \in 1..5 : body[i] = IF i <= 1 THEN s[i] ELSE w[i - 1]
        <5>1. Len(s) + Len(w) = 5 /\ 1 + 4 = 5
          BY <2>2, <4>1
        <5>2. QED
          BY <2>2, <4>1, <4>2, <5>1, Zenon
      <4>4. QED
        BY <4>3 DEF s
    <3>3. QED
      BY <3>1, <3>2
  <2>5. Len(image) = 6 /\ image[1] = 3 /\ \A i \in 1..4 : image[i + 1] = w[i]
    BY <1>b, <2>4
  <2>6. SubSeq(image, 2, 5) = [i \in 1..4 |-> image[i + 1]]
    OBVIOUS
  <2>7. w = [i \in 1..4 |-> w[i]]
    BY <2>2
  <2>8. SubSeq(image, 2, 5) = w
    BY <2>5, <2>6, <2>7
  <2>9. Content(image) = << ReadU32(SubSeq(image, 2, 5)) >>
    BY <2>5 DEF Content
  <2>10. FixedSize(f.type) = 6
    BY <1>6 DEF FixedSize
  <2>11. Content(image) = f.content
    BY <2>1, <2>2, <2>8, <2>9, Zenon
  <2>12. QED
    BY <1>6, <2>5, <2>10, <2>11
<1>7. CASE f.type = Data
  <2> DEFINE n == Len(f.content)
  <2>1. n \in Nat
    BY <1>1
  <2>2. body = <<5, n>> \o f.content
    BY <1>7 DEF Body
  <2> HIDE DEF body
  <2>3. body \in Seq(Nat) /\ Len(body) = n + 2 /\ body[1] = 5 /\ body[2] = n
        /\ \A i \in 1..n : body[i + 2] = f.content[i]
    BY <1>1, <2>1, <2>2, SMTT(60)
  <2>4. Len(image) = n + 3 /\ image[1] = 5 /\ image[2] = n
        /\ \A i \in 1..n : image[i + 2] = f.content[i]
    <3>1. Len(image) = n + 3 /\ \A j \in 1..(n + 2) : image[j] = body[j]
      BY <1>b, <2>1, <2>3
    <3>2. \A i \in 1..n : i + 2 \in 1..(n + 2)
      BY <2>1
    <3>3. 1 \in 1..(n + 2) /\ 2 \in 1..(n + 2)
      BY <2>1
    <3>4. QED
      BY <2>3, <3>1, <3>2, <3>3
  <2>5. SubSeq(image, 3, 2 + n) = f.content
    <3>1. SubSeq(image, 3, 2 + n) = [i \in 1..n |-> image[i + 2]]
      BY <2>1
    <3>2. f.content = [i \in 1..n |-> f.content[i]]
      BY <1>1
    <3>3. QED
      BY <2>4, <3>1, <3>2
  <2>6. QED
    BY <1>7, <2>1, <2>4, <2>5 DEF Content
<1>8. QED
  BY <1>1, <1>4, <1>5, <1>6, <1>7

-----------------------------------------------------------------------------
(* The frame boundaries                                                    *)

\* The bytes of a frame, and where the encoder puts its checksum.
LEMMA EncodedBytes ==
    ASSUME NEW f, WellFormed(f), Encodable(f)
    PROVE  /\ Body(f) \in Seq(Byte) /\ Len(Body(f)) \in Nat \ {0}
           /\ Encode(f) \in Seq(Byte) /\ Len(Encode(f)) = Len(Body(f)) + 1
           /\ \A i \in 1..Len(Body(f)) : Encode(f)[i] = Body(f)[i]
           /\ Encode(f)[Len(Body(f)) + 1] = Checksum(Body(f))
<1>1. Body(f) \in Seq(Byte) /\ Len(Body(f)) \in Nat \ {0}
  <2>1. f.type \in FrameTypes /\ f.type \in Byte /\ f.content \in Seq(Nat)
    BY DEF WellFormed, Byte
  <2>2. CASE f.type = Heartbeat
    <3>1. Body(f) = << 1 >>
      BY <2>2 DEF Body
    <3> QED
      BY <3>1 DEF Byte
  <2>3. CASE f.type \in {Status, Control}
    <3>1. Body(f) = << f.type, f.content[1] >> /\ f.content[1] \in Byte
      BY <2>3 DEF Body, WellFormed
    <3> QED
      BY <2>1, <3>1
  <2>4. CASE f.type = BaudRate
    <3> DEFINE v == f.content[1]
    <3>1. v \in Nat /\ v \div (256 * 256) < 256 * 256
      BY <2>1, <2>4 DEF WellFormed
    <3>2. v \in Nat /\ v < 256 * 256 * 256 * 256
      <4> HIDE DEF v
      <4> QED
        BY <3>1
    <3>3. WriteU32(v) \in Seq(Byte) /\ Len(WriteU32(v)) = 4
      <4> HIDE DEF v
      <4> QED
        BY <3>2, U32RoundTrip
    <3> DEFINE h == << 3 >>
    <3>4. Body(f) = h \o WriteU32(v)
      BY <2>4 DEF Body
    <3>5. h \in Seq(Byte) /\ Len(h) = 1
      BY DEF Byte
    <3> HIDE DEF h, v
    <3> QED
      BY <3>3, <3>4, <3>5, ConcatProperties
  <2>5. CASE f.type = Data
    <3> DEFINE q == f.content
               h == << 5, Len(q) >>
    <3>1. Body(f) = h \o q /\ q \in Seq(Byte) /\ Len(q) <= MaxData
      BY <2>5 DEF Body, WellFormed, Encodable
    <3> HIDE DEF q
    <3>2. Len(q) \in Nat /\ Len(q) <= MaxData
      BY <3>1, LenProperties
    <3>3. \A k \in Nat : k <= MaxData => k \in 0..255
      BY MaxDataAssumption
    <3>4. Len(q) \in 0..255
      BY <3>2, <3>3, Zenon
    <3>5. 5 \in 0..255
      OBVIOUS
    <3>6. 5 \in Byte /\ Len(q) \in Byte
      BY <3>4, <3>5, Zenon DEF Byte
    <3>7. h \in Seq(Byte) /\ Len(h) = 2
      BY <3>6
    <3> HIDE DEF h
    <3>8. h \o q \in Seq(Byte) /\ Len(h \o q) = Len(h) + Len(q)
      BY <3>1, <3>7, ConcatProperties
    <3> QED
      BY <3>1, <3>2, <3>7, <3>8
  <2> QED
    BY <2>1, <2>2, <2>3, <2>4, <2>5
<1>2. Checksum(Body(f)) \in Byte
  BY <1>1, ChecksumIsByte
<1> QED
  BY <1>1, <1>2, AppendProperties DEF Encode

\* What reached the receive buffer for a frame: its encoding, or its encoding with
\* one byte changed in a way the decoder can notice.
OnLine(e) ==
    /\ e.frame \in Frames /\ Encodable(e.frame) /\ e.bytes \in Seq(Byte)
    /\ \/ ~e.damaged /\ e.bytes = Encode(e.frame)
       \/ /\ e.damaged
          /\ \E i \in DOMAIN Encode(e.frame), b \in Noise :
                /\ NoticeableDamage(e.frame, i, b)
                /\ e.bytes = [Encode(e.frame) EXCEPT ![i] = b]

\* How long the decoder will find the bytes s to be.
Sized(s) ==
    /\ Len(s) \in Nat /\ Len(s) >= 2
    /\ s[1] \in FrameTypes /\ s[1] # Data => Len(s) = FixedSize(s[1])
    /\ s[1] = Data => Len(s) >= 3 /\ s[2] \in Nat
    /\ s[1] = Data /\ s[2] <= MaxData => Len(s) = 3 + s[2]

\* The first bytes of an encoding announce its length.
LEMMA EncodingIsSized ==
    ASSUME NEW f, WellFormed(f), Encodable(f)
    PROVE  /\ Encode(f)[1] = f.type /\ f.type \in FrameTypes
           /\ f.type = Data => Encode(f)[2] \in Nat /\ Encode(f)[2] <= MaxData
           /\ Sized(Encode(f))
<1> DEFINE s == Encode(f)
<1>1. Decode(s) = f /\ Len(s) = IF f.type = Data THEN 3 + s[2] ELSE FixedSize(f.type)
  BY FramesRoundTrip
<1>2. s \in Seq(Byte) /\ Len(s) \in Nat /\ Len(s) >= 2
  BY EncodedBytes
<1>3. s[1] = f.type /\ f.type \in FrameTypes
  BY <1>1 DEF Decode, WellFormed
<1>4. CASE f.type = Data
  <2> DEFINE q == f.content
             h == << 5, Len(q) >>
  <2>1. Body(f) = h \o q /\ q \in Seq(Nat) /\ Len(q) <= MaxData
    BY <1>4 DEF Body, WellFormed, Encodable
  <2> HIDE DEF q
  <2>2. h \in Seq(Nat) /\ Len(h) = 2 /\ h[2] = Len(q) /\ Len(q) \in Nat
    BY <2>1
  <2> HIDE DEF h
  <2>3. /\ Len(h \o q) = Len(h) + Len(q)
        /\ \A i \in 1..Len(h) + Len(q) :
              (h \o q)[i] = IF i <= Len(h) THEN h[i] ELSE q[i - Len(h)]
    BY <2>1, <2>2, ConcatProperties
  <2>4. Body(f)[2] = Len(q) /\ 2 \in 1..Len(Body(f))
    <3>1. 2 \in 1..Len(h) + Len(q) /\ 2 <= Len(h)
      BY <2>2
    <3> QED
      BY <2>1, <2>2, <2>3, <3>1
  <2>5. s[2] = Len(q)
    BY <2>4, EncodedBytes
  <2> HIDE DEF s
  <2> QED
    BY <1>1, <1>2, <1>3, <1>4, <2>1, <2>2, <2>5 DEF Sized, s
<1>5. CASE f.type # Data
  <2> HIDE DEF s
  <2> QED
    BY <1>1, <1>2, <1>3, <1>5 DEF Sized, s
<1> QED
  BY <1>4, <1>5

\* No noticeable damage hides where a frame ends, except by making it unframeable.
LEMMA LineIsSized ==
    ASSUME NEW e, OnLine(e)
    PROVE  Sized(e.bytes) /\ Len(e.bytes) = Len(Encode(e.frame)) /\ e.bytes \in Seq(Byte)
<1> DEFINE f == e.frame
           s == Encode(f)
           u == e.bytes
<1>1. WellFormed(f) /\ Encodable(f) /\ u \in Seq(Byte)
  BY FramesAssumption DEF OnLine
<1> HIDE DEF f
<1>2. /\ s[1] = f.type /\ f.type \in FrameTypes /\ Sized(s)
      /\ f.type = Data => s[2] \in Nat /\ s[2] <= MaxData
  BY <1>1, EncodingIsSized
<1>3. s \in Seq(Byte) /\ Len(s) \in Nat /\ Len(s) >= 2 /\ DOMAIN s = 1..Len(s)
  BY <1>1, <1>2, EncodedBytes, LenProperties DEF Sized
<1> HIDE DEF s, u
<1>4. CASE u = s
  BY <1>1, <1>2, <1>4 DEF s, u, f
<1>5. ASSUME NEW i \in DOMAIN s, NEW b, NoticeableDamage(f, i, b), u = [s EXCEPT ![i] = b]
      PROVE  Sized(u) /\ Len(u) = Len(s)
  <2>1. /\ b # s[i] /\ (i = 1 => b \notin FrameTypes)
        /\ i = 2 /\ f.type = Data => b > MaxData
    BY <1>5 DEF NoticeableDamage, s
  <2>2. DOMAIN u = 1..Len(s) /\ \A k \in 1..Len(s) : u[k] = IF k = i THEN b ELSE s[k]
    BY <1>3, <1>5
  <2>3. DOMAIN u = 1..Len(u) /\ Len(u) \in Nat
    BY <1>1, LenProperties
  <2>4. Len(u) = Len(s)
    <3>1. Len(s) \in 1..Len(u) /\ Len(u) \in 1..Len(s)
      BY <1>3, <2>2, <2>3
    <3>2. \A j, k \in Nat : j \in 1..k /\ k \in 1..j => j = k
      OBVIOUS
    <3> QED
      BY <1>3, <2>3, <3>1, <3>2
  <2>5. u[2] \in Nat
    <3>1. 2 \in 1..Len(u)
      BY <1>3, <2>4
    <3>2. u[2] \in Byte
      BY <1>1, <3>1, ElementOfSeq
    <3> QED
      BY <3>2 DEF Byte
  <2>6. CASE i = 1
    <3>1. u[1] \notin FrameTypes
      BY <1>3, <2>1, <2>2, <2>6
    <3> QED
      BY <1>3, <2>4, <3>1 DEF Sized
  <2>7. CASE i # 1
    <3>1. u[1] = s[1]
      BY <1>3, <2>2, <2>7
    <3>2. CASE f.type = Data
      <4>1. Len(s) >= 3 /\ Len(s) = 3 + s[2]
        BY <1>2, <3>2 DEF Sized
      <4>2. i = 2 => u[2] > MaxData
        BY <1>3, <2>1, <2>2, <3>2
      <4>3. i # 2 => u[2] = s[2]
        BY <1>3, <2>2
      <4>4. u[2] <= MaxData => Len(u) = 3 + u[2]
        BY <2>4, <2>5, <4>1, <4>2, <4>3
      <4>5. u[1] = Data
        BY <1>2, <3>1, <3>2
      <4> QED
        BY <1>3, <2>4, <2>5, <4>1, <4>4, <4>5 DEF Sized
    <3>3. CASE f.type # Data
      BY <1>2, <1>3, <2>4, <3>1, <3>3 DEF Sized
    <3> QED
      BY <3>2, <3>3
  <2> QED
    BY <2>4, <2>6, <2>7
<1>6. u = s \/ \E i \in DOMAIN s, b \in Noise :
                   NoticeableDamage(f, i, b) /\ u = [s EXCEPT ![i] = b]
  BY DEF OnLine, s, u, f
<1>7. Sized(u) /\ Len(u) = Len(s)
  BY <1>2, <1>4, <1>5, <1>6
<1> QED
  BY <1>1, <1>7 DEF s, u, f

\* more is d with the next byte of w: still the beginning of h, or all of it.
OneMore(d, w, h, r, more) ==
    /\ more \in Seq(Byte) /\ Len(more) = Len(d) + 1 /\ Len(more) <= Len(h)
    /\ \A i \in 1..Len(more) : more[i] = h[i]
    /\ more \o Tail(w) = h \o r
    /\ Len(more) = Len(h) => more = h /\ Tail(w) = r

\* One byte read where what the decoder holds is the beginning of h.
LEMMA PrefixRead ==
    ASSUME NEW d \in Seq(Byte), NEW w \in Seq(Byte), NEW h \in Seq(Byte),
           NEW r \in Seq(Byte),
           d \o w = h \o r, Len(d) < Len(h), w # <<>>,
           NEW more, more = Append(d, Head(w))
    PROVE  OneMore(d, w, h, r, more)
<1> DEFINE x == Head(w)
           t == Tail(w)
<1>1. Len(d) \in Nat /\ Len(h) \in Nat /\ Len(r) \in Nat /\ Len(w) \in Nat \ {0}
  BY LenProperties, EmptySeq
<1>2. /\ x \in Byte /\ t \in Seq(Byte) /\ Len(t) = Len(w) - 1
      /\ \A i \in 1..Len(t) : t[i] = w[i + 1]
  BY HeadTailProperties
<1>3. x = w[1]
  OBVIOUS
<1> HIDE DEF x, t
<1>4. /\ more \in Seq(Byte) /\ Len(more) = Len(d) + 1
      /\ \A i \in 1..Len(d) : more[i] = d[i]
      /\ more[Len(d) + 1] = x
  BY <1>2, AppendProperties DEF x
<1>5. /\ d \o w \in Seq(Byte) /\ Len(d \o w) = Len(d) + Len(w)
      /\ \A i \in 1..Len(d) + Len(w) :
            (d \o w)[i] = IF i <= Len(d) THEN d[i] ELSE w[i - Len(d)]
  BY ConcatProperties
<1>6. /\ Len(h \o r) = Len(h) + Len(r)
      /\ \A i \in 1..Len(h) + Len(r) :
            (h \o r)[i] = IF i <= Len(h) THEN h[i] ELSE r[i - Len(h)]
  BY ConcatProperties
<1>7. /\ more \o t \in Seq(Byte) /\ Len(more \o t) = Len(more) + Len(t)
      /\ \A i \in 1..Len(more) + Len(t) :
            (more \o t)[i] = IF i <= Len(more) THEN more[i] ELSE t[i - Len(more)]
  BY <1>2, <1>4, ConcatProperties, ZenonT(60)
<1>8. Len(more) + Len(t) = Len(d) + Len(w) /\ Len(more) <= Len(h) /\ Len(more) \in Nat
  BY <1>1, <1>2, <1>4
<1>9. ASSUME NEW i \in 1..Len(d) + Len(w) PROVE (more \o t)[i] = (d \o w)[i]
  <2>1. /\ (more \o t)[i] = IF i <= Len(more) THEN more[i] ELSE t[i - Len(more)]
        /\ (d \o w)[i] = IF i <= Len(d) THEN d[i] ELSE w[i - Len(d)]
    BY <1>5, <1>7, <1>8
  <2>2. CASE i <= Len(d)
    <3>1. i \in 1..Len(d) /\ i <= Len(more)
      BY <1>1, <1>4, <2>2
    <3> QED
      BY <1>4, <2>1, <2>2, <3>1
  <2>3. CASE i = Len(d) + 1
    <3>1. i <= Len(more) /\ ~(i <= Len(d)) /\ i - Len(d) = 1
      BY <1>1, <1>4, <2>3
    <3> QED
      BY <1>3, <1>4, <2>1, <2>3, <3>1
  <2>4. CASE i > Len(d) + 1
    <3>1. /\ ~(i <= Len(more)) /\ ~(i <= Len(d))
          /\ i - Len(more) \in 1..Len(t) /\ (i - Len(more)) + 1 = i - Len(d)
      BY <1>1, <1>2, <1>4, <2>4
    <3>2. t[i - Len(more)] = w[i - Len(d)]
      BY <1>2, <3>1
    <3> QED
      BY <2>1, <3>1, <3>2
  <2>5. i <= Len(d) \/ i = Len(d) + 1 \/ i > Len(d) + 1
    BY <1>1
  <2> QED
    BY <2>2, <2>3, <2>4, <2>5
<1>10. more \o t = d \o w
  <2> DEFINE a == more \o t
             c == d \o w
  <2>1. a \in Seq(Byte) /\ c \in Seq(Byte) /\ Len(a) = Len(c) /\ \A i \in 1..Len(a) : a[i] = c[i]
    BY <1>5, <1>7, <1>8, <1>9
  <2> HIDE DEF a, c
  <2>2. a = c
    BY <2>1, SeqEqual
  <2> QED
    BY <2>2 DEF a, c
<1>11. ASSUME NEW i \in 1..Len(more) PROVE more[i] = h[i]
  <2>1. i \in 1..Len(h) + Len(r) /\ i <= Len(h) /\ i \in 1..Len(more) + Len(t) /\ i <= Len(more)
    BY <1>1, <1>2, <1>8
  <2>2. (more \o t)[i] = more[i] /\ (h \o r)[i] = h[i]
    BY <1>6, <1>7, <2>1
  <2> QED
    BY <1>10, <2>2
<1>12. ASSUME Len(more) = Len(h) PROVE more = h /\ t = r
  <2>1. more = h
    BY <1>4, <1>11, <1>12, SeqEqual
  <2>2. Len(h) + Len(t) = Len(h) + Len(r) /\ Len(t) \in Nat
    <3>1. Len(h) + Len(t) = Len(d) + Len(w)
      BY <1>8, <1>12
    <3>2. Len(d) + Len(w) = Len(h) + Len(r)
      BY <1>5, <1>6
    <3>3. Len(t) \in Nat
      BY <1>1, <1>2
    <3> QED
      BY <3>1, <3>2, <3>3
  <2>3. Len(t) = Len(r)
    BY <1>1, <2>2
  <2>4. ASSUME NEW i \in 1..Len(t) PROVE t[i] = r[i]
    <3>1. /\ i + Len(h) \in 1..Len(more) + Len(t) /\ i + Len(h) \in 1..Len(h) + Len(r)
          /\ ~(i + Len(h) <= Len(h)) /\ (i + Len(h)) - Len(h) = i
      BY <1>1, <1>12, <2>2, <2>3
    <3>2. (more \o t)[i + Len(h)] = t[i] /\ (h \o r)[i + Len(h)] = r[i]
      BY <1>6, <1>7, <1>12, <3>1
    <3> QED
      BY <1>10, <3>2
  <2> QED
    BY <1>2, <2>1, <2>3, <2>4, SeqEqual
<1> QED
  BY <1>4, <1>8, <1>10, <1>11, <1>12 DEF OneMore, t

\* The frames' bytes, one after the other.
LineBytes == [i \in DOMAIN inFlight |-> inFlight[i].bytes]

\* The inductive invariant: every frame under way is on the line as it was sent or
\* with noticeable damage, and what the decoder holds is the beginning of the first.
BoundaryInv ==
    /\ inFlight \in Seq([frame : Frames, bytes : Seq(Byte), damaged : BOOLEAN])
    /\ wire \in Seq(Byte) /\ decoder.bytes \in Seq(Byte)
    /\ \A i \in 1..Len(inFlight) : OnLine(inFlight[i])
    /\ OnFrameBoundaries
    /\ reading /\ inFlight # <<>> => Len(decoder.bytes) < Len(inFlight[1].bytes)

\* The decoder's buffer with the next byte, what it then expects and returns.
Pushed == Append(decoder.bytes, Head(wire))
PushedExpected == IF Unframeable(Pushed) THEN decoder.expected
                  ELSE Expected(Pushed, decoder.expected)
PushedResult == Result(Pushed, PushedExpected)

\* The size check of expansion_decoder_push never decides.
LEMMA ReadByteIs ==
    ASSUME DecoderInv, ReadByte
    PROVE  /\ reading /\ wire # <<>> /\ wire' = Tail(wire)
           /\ decoder' = IF PushedResult = "NeedMore"
                           THEN [bytes |-> Pushed, expected |-> PushedExpected]
                           ELSE EmptyDecoder
           /\ inFlight' = IF PushedResult = "NeedMore" \/ inFlight = <<>>
                            THEN inFlight ELSE Tail(inFlight)
           /\ reading' = (PushedResult \in {"NeedMore", "FrameReady"})
           /\ delivered' = IF PushedResult = "FrameReady" THEN Decode(Pushed) ELSE delivered
<1>1. ~(Len(decoder.bytes) >= MaxData + 3)
  <2>1. DecoderFits
    BY InvFits
  <2>2. Len(decoder.bytes) \in Nat
    BY DEF DecoderInv
  <2> QED
    BY <2>1, <2>2 DEF DecoderFits
<1> QED
  BY <1>1, Zenon DEF ReadByte, Pushed, PushedExpected, PushedResult

\* The lines of an empty and of a non-empty queue.
LEMMA LineTypes ==
    ASSUME BoundaryInv
    PROVE  /\ LineBytes \in Seq(Seq(Byte)) /\ Len(LineBytes) = Len(inFlight)
           /\ \A i \in 1..Len(inFlight) : LineBytes[i] = inFlight[i].bytes
<1>1. DOMAIN inFlight = 1..Len(inFlight) /\ Len(inFlight) \in Nat
  BY LenProperties DEF BoundaryInv
<1>2. ASSUME NEW i \in 1..Len(inFlight) PROVE inFlight[i].bytes \in Seq(Byte)
  <2>1. OnLine(inFlight[i])
    BY DEF BoundaryInv
  <2> QED
    BY <2>1 DEF OnLine
<1>3. LineBytes = [i \in 1..Len(inFlight) |-> inFlight[i].bytes]
  BY <1>1 DEF LineBytes
<1>4. LineBytes \in [1..Len(inFlight) -> Seq(Byte)]
  BY <1>2, <1>3
<1>5. LineBytes \in Seq(Seq(Byte))
  BY <1>1, <1>4, SeqDef
<1>6. Len(LineBytes) = Len(inFlight)
  BY <1>1, <1>4
<1> QED
  BY <1>3, <1>5, <1>6

\* The first frame under way, and the bytes behind it.
LEMMA QueueHead ==
    ASSUME BoundaryInv, reading, inFlight # <<>>
    PROVE  /\ OnLine(inFlight[1]) /\ inFlight[1].bytes \in Seq(Byte)
           /\ Sized(inFlight[1].bytes)
           /\ Len(decoder.bytes) < Len(inFlight[1].bytes)
           /\ FlattenSeq(Tail(LineBytes)) \in Seq(Byte)
           /\ decoder.bytes \o wire = inFlight[1].bytes \o FlattenSeq(Tail(LineBytes))
<1>1. inFlight \in Seq([frame : Frames, bytes : Seq(Byte), damaged : BOOLEAN])
  BY DEF BoundaryInv
<1>2. Len(inFlight) \in Nat \ {0}
  BY <1>1, EmptySeq
<1>3. 1 \in 1..Len(inFlight)
  BY <1>2
<1>4. OnLine(inFlight[1])
  BY <1>3 DEF BoundaryInv
<1>5. Sized(inFlight[1].bytes) /\ inFlight[1].bytes \in Seq(Byte)
  BY <1>4, LineIsSized
<1>6. /\ LineBytes \in Seq(Seq(Byte)) /\ Len(LineBytes) = Len(inFlight)
      /\ LineBytes[1] = inFlight[1].bytes
  BY <1>3, LineTypes
<1>7. LineBytes # <<>>
  BY <1>2, <1>6, EmptySeq
<1>8. /\ FlattenSeq(Tail(LineBytes)) \in Seq(Byte)
      /\ FlattenSeq(LineBytes) = Head(LineBytes) \o FlattenSeq(Tail(LineBytes))
  BY <1>6, <1>7, FlattenHead
<1>9. Head(LineBytes) = inFlight[1].bytes
  BY <1>6
<1>10. decoder.bytes \o wire = FlattenSeq(LineBytes)
  BY DEF BoundaryInv, OnFrameBoundaries, LineBytes
<1>11. Len(decoder.bytes) < Len(inFlight[1].bytes)
  BY DEF BoundaryInv
<1> QED
  BY <1>4, <1>5, <1>8, <1>9, <1>10, <1>11

\* A decoder that knows the length it expects expects the frame's own.
LEMMA FramedSize ==
    ASSUME NEW h, Sized(h), NEW p, Len(p) \in Nat \ {0}, Len(p) <= Len(h),
           \A i \in 1..Len(p) : p[i] = h[i],
           NEW e, Framed(p, e), e # 0
    PROVE  e = Len(h)
<1>1. 1 \in 1..Len(p) /\ Len(p) > 0
  OBVIOUS
<1>2. p[1] = h[1] /\ p[1] \in FrameTypes
  BY <1>1 DEF Framed
<1>3. CASE p[1] # Data
  BY <1>1, <1>2, <1>3 DEF Framed, Sized
<1>4. CASE p[1] = Data
  <2>1. Len(p) # 1
    BY <1>4, <1>1 DEF Framed
  <2>2. 2 \in 1..Len(p) /\ Len(p) > 1
    BY <2>1
  <2>3. p[2] = h[2] /\ p[2] <= MaxData /\ e = 3 + p[2]
    BY <1>1, <1>4, <2>2 DEF Framed
  <2> QED
    BY <1>2, <1>4, <2>3 DEF Sized
<1> QED
  BY <1>3, <1>4

\* What one read byte means for the first frame under way.
LEMMA ReadOutcome ==
    ASSUME DecoderInv, BoundaryInv, ReadByte
    PROVE  /\ inFlight # <<>>
           /\ Pushed \in Seq(Byte)
           /\ Pushed \o Tail(wire) = inFlight[1].bytes \o FlattenSeq(Tail(LineBytes))
           /\ PushedResult = "NeedMore" => Len(Pushed) < Len(inFlight[1].bytes)
           /\ PushedResult = "FrameReady" =>
                 /\ Pushed = inFlight[1].bytes /\ Framed(Pushed, PushedExpected)
                 /\ Tail(wire) = FlattenSeq(Tail(LineBytes))
           /\ PushedResult # "NeedMore" /\ ~inFlight[1].damaged =>
                 /\ Pushed = inFlight[1].bytes /\ ~Unframeable(Pushed)
                 /\ PushedExpected = Len(Pushed) /\ PushedExpected # 0
<1> DEFINE d == decoder.bytes
           h == inFlight[1].bytes
           r == FlattenSeq(Tail(LineBytes))
           p == Pushed
           e == PushedExpected
<1>1. d \in Seq(Byte) /\ wire \in Seq(Byte) /\ reading /\ wire # <<>>
  BY ReadByteIs DEF BoundaryInv
<1>2. inFlight # <<>>
  <2>1. ASSUME inFlight = <<>> PROVE FALSE
    <3>1. LineBytes \in Seq(Seq(Byte)) /\ Len(LineBytes) = Len(inFlight)
      BY LineTypes
    <3>2. Len(LineBytes) = 0
      BY <2>1, <3>1
    <3>3. FlattenSeq(LineBytes) = <<>>
      BY <3>1, <3>2, EmptySeq DEF FlattenSeq
    <3>4. d \o wire = <<>>
      BY <1>1, <3>3 DEF BoundaryInv, OnFrameBoundaries, LineBytes
    <3>5. wire = <<>>
      BY <1>1, <3>4, ConcatEqualIffEmpty
    <3> QED
      BY <1>1, <3>5
  <2> QED
    BY <2>1
<1>3. /\ OnLine(inFlight[1]) /\ h \in Seq(Byte) /\ Sized(h) /\ Len(d) < Len(h)
      /\ r \in Seq(Byte) /\ d \o wire = h \o r
  BY <1>1, <1>2, QueueHead
<1>4. p = Append(d, Head(wire))
  BY DEF Pushed
<1> HIDE DEF d, h, r, p, e
<1>5. /\ p \in Seq(Byte) /\ Len(p) = Len(d) + 1 /\ Len(p) <= Len(h)
      /\ \A i \in 1..Len(p) : p[i] = h[i]
      /\ p \o Tail(wire) = h \o r
      /\ Len(p) = Len(h) => p = h /\ Tail(wire) = r
  <2>1. OneMore(d, wire, h, r, p)
    BY ONLY <1>1, <1>3, <1>4, PrefixRead, Zenon
  <2> QED
    BY ONLY <2>1 DEF OneMore
<1>6. Len(p) \in Nat \ {0} /\ Len(h) \in Nat /\ Len(h) >= 2
  <2>1. Len(d) \in Nat
    BY <1>1, LenProperties
  <2> QED
    BY <1>3, <1>5, <2>1 DEF Sized
<1>7. ASSUME ~Unframeable(p)
      PROVE  e \in Nat /\ Framed(p, e) /\ (e = 0 => Len(p) <= 1) /\ (e # 0 => e = Len(h))
  <2>1. /\ d \in Seq(Nat) /\ decoder.expected \in Nat /\ Framed(d, decoder.expected)
        /\ decoder.expected = 0 => Len(d) <= 1
    BY DEF DecoderInv, d
  <2>2. Head(wire) \in Nat
    <3>1. Head(wire) \in Byte
      BY <1>1, HeadTailProperties
    <3> QED
      BY <3>1 DEF Byte
  <2>3. e = Expected(p, decoder.expected)
    BY <1>7 DEF e, PushedExpected, p
  <2>4. e \in Nat /\ Framed(p, e) /\ (e = 0 => Len(p) <= 1)
    BY <1>4, <1>7, <2>1, <2>2, <2>3, PushKeeps
  <2>5. e # 0 => e = Len(h)
    BY <1>3, <1>5, <1>6, <2>4, FramedSize
  <2> QED
    BY <2>4, <2>5
<1>8. /\ PushedResult = "NeedMore" => ~Unframeable(p) /\ (e = 0 \/ Len(p) < e)
      /\ PushedResult = "FrameReady" => ~Unframeable(p) /\ e # 0 /\ Len(p) = e
      /\ PushedResult # "NeedMore" /\ ~Unframeable(p) => e # 0 /\ ~(Len(p) < e)
  BY Zenon DEF PushedResult, Result, p, e
<1>9. ASSUME PushedResult = "NeedMore" PROVE Len(p) < Len(h)
  BY <1>6, <1>7, <1>8, <1>9
<1>10. ASSUME PushedResult = "FrameReady"
       PROVE  p = h /\ Framed(p, e) /\ Tail(wire) = r
  BY <1>5, <1>7, <1>8, <1>10
<1>11. ASSUME PushedResult # "NeedMore", ~inFlight[1].damaged
       PROVE  p = h /\ ~Unframeable(p) /\ e = Len(p) /\ e # 0
  <2> DEFINE f == inFlight[1].frame
  <2>1. h = Encode(f) /\ WellFormed(f) /\ Encodable(f)
    BY <1>3, <1>11, FramesAssumption DEF OnLine, h
  <2> HIDE DEF f
  <2>2. h[1] \in FrameTypes /\ (h[1] = Data => h[2] <= MaxData /\ h[2] \in Nat)
    BY <2>1, EncodingIsSized
  <2>3. p[1] = h[1] /\ (Len(p) = 2 => p[2] = h[2])
    BY <1>5, <1>6
  <2>4. ~Unframeable(p)
    BY <2>2, <2>3 DEF Unframeable
  <2>5. e # 0 /\ ~(Len(p) < e) /\ e = Len(h)
    BY <1>7, <1>8, <1>11, <2>4
  <2>6. Len(p) = Len(h)
    BY <1>5, <1>6, <2>5
  <2> QED
    BY <1>5, <2>4, <2>5, <2>6
<1> QED
  BY <1>2, <1>5, <1>9, <1>10, <1>11 DEF h, r, p, e

\* The invariant holds wherever the queue and the buffers are empty.
LEMMA EmptyLine ==
    wire = <<>> /\ inFlight = <<>> /\ decoder = EmptyDecoder => BoundaryInv
<1> SUFFICES ASSUME wire = <<>>, inFlight = <<>>, decoder = EmptyDecoder
             PROVE  BoundaryInv
  OBVIOUS
<1>1. decoder.bytes = <<>> /\ <<>> \in Seq(Byte)
  BY EmptySeq DEF EmptyDecoder
<1>2. /\ inFlight \in Seq([frame : Frames, bytes : Seq(Byte), damaged : BOOLEAN])
      /\ Len(inFlight) = 0
  BY EmptySeq
<1>3. LineBytes \in Seq(Seq(Byte)) /\ Len(LineBytes) = 0
  <2>1. LineBytes = <<>>
    BY DEF LineBytes
  <2> QED
    BY <2>1, EmptySeq
<1>4. FlattenSeq(LineBytes) = <<>>
  BY <1>3, EmptySeq DEF FlattenSeq
<1>5. <<>> \o <<>> = <<>>
  BY <1>1, ConcatEmptySeq
<1>6. OnFrameBoundaries
  BY <1>1, <1>4, <1>5 DEF OnFrameBoundaries, LineBytes
<1> QED
  BY <1>1, <1>2, <1>6 DEF BoundaryInv

\* A frame sent joins the end of the line.
LEMMA SendKeepsBoundaries ==
    ASSUME BoundaryInv, NEW f \in Frames, NEW bytes, Send(f, bytes),
           NEW e, e = [frame |-> f, bytes |-> bytes, damaged |-> bytes # Encode(f)],
           OnLine(e)
    PROVE  BoundaryInv'
<1> DEFINE R == [frame : Frames, bytes : Seq(Byte), damaged : BOOLEAN]
           d == decoder.bytes
<1>1. /\ reading /\ bytes \in Seq(Byte) /\ wire' = wire \o bytes
      /\ inFlight' = Append(inFlight, e) /\ decoder' = decoder /\ reading' = reading
  BY DEF Send
<1>2. e \in R /\ e.bytes = bytes
  BY <1>1
<1>3. inFlight \in Seq(R) /\ wire \in Seq(Byte) /\ d \in Seq(Byte)
  BY DEF BoundaryInv
<1> HIDE DEF R, d
<1>4. /\ inFlight' \in Seq(R) /\ Len(inFlight') = Len(inFlight) + 1
      /\ \A i \in 1..Len(inFlight) : inFlight'[i] = inFlight[i]
      /\ inFlight'[Len(inFlight) + 1] = e /\ inFlight' # <<>>
  BY <1>1, <1>2, <1>3, AppendProperties
<1>5. Len(inFlight) \in Nat
  BY <1>3, LenProperties
<1>6. \A i \in 1..Len(inFlight') : OnLine(inFlight'[i])
  <2>1. ASSUME NEW i \in 1..Len(inFlight') PROVE OnLine(inFlight'[i])
    <3>1. CASE i \in 1..Len(inFlight)
      BY <1>4, <3>1 DEF BoundaryInv
    <3>2. CASE i = Len(inFlight) + 1
      BY <1>4, <3>2
    <3> QED
      BY <1>4, <1>5, <3>1, <3>2
  <2> QED
    BY <2>1
<1>7. wire' \in Seq(Byte) /\ decoder'.bytes \in Seq(Byte)
  BY <1>1, <1>3, ConcatProperties DEF d
<1>8. /\ LineBytes \in Seq(Seq(Byte)) /\ Len(LineBytes) = Len(inFlight)
      /\ \A i \in 1..Len(inFlight) : LineBytes[i] = inFlight[i].bytes
  BY LineTypes
<1>9. LineBytes' = Append(LineBytes, bytes)
  <2>1. DOMAIN inFlight' = 1..Len(inFlight')
    BY <1>4, LenProperties
  <2>2. LineBytes' = [i \in 1..Len(inFlight') |-> inFlight'[i].bytes]
    BY <2>1 DEF LineBytes
  <2>3. /\ Append(LineBytes, bytes) \in Seq(Seq(Byte))
        /\ Len(Append(LineBytes, bytes)) = Len(inFlight) + 1
        /\ \A i \in 1..Len(inFlight) : Append(LineBytes, bytes)[i] = LineBytes[i]
        /\ Append(LineBytes, bytes)[Len(inFlight) + 1] = bytes
    BY <1>1, <1>8, AppendProperties
  <2>4. DOMAIN Append(LineBytes, bytes) = 1..Len(inFlight')
    BY <1>4, <2>3, LenProperties
  <2>5. ASSUME NEW i \in 1..Len(inFlight')
        PROVE  inFlight'[i].bytes = Append(LineBytes, bytes)[i]
    <3>1. CASE i \in 1..Len(inFlight)
      BY <1>4, <1>8, <2>3, <3>1
    <3>2. CASE i = Len(inFlight) + 1
      BY <1>2, <1>4, <2>3, <3>2
    <3>3. i \in 1..Len(inFlight) \/ i = Len(inFlight) + 1
      BY ONLY <1>4, <1>5, i \in 1..Len(inFlight')
    <3> QED
      BY <3>1, <3>2, <3>3
  <2> DEFINE a == Append(LineBytes, bytes)
  <2>6. a \in Seq(Seq(Byte)) /\ DOMAIN a = 1..Len(inFlight')
    BY <2>3, <2>4
  <2> HIDE DEF a
  <2>7. a = [i \in 1..Len(inFlight') |-> a[i]]
    BY ONLY <2>6, LenProperties
  <2>8. \A i \in 1..Len(inFlight') : inFlight'[i].bytes = a[i]
    BY <2>5 DEF a
  <2>9. LineBytes' = a
    BY <2>2, <2>7, <2>8
  <2> QED
    BY <2>9 DEF a
<1>10. FlattenSeq(LineBytes') = FlattenSeq(LineBytes) \o bytes
  BY <1>1, <1>8, <1>9, FlattenAppend
<1>11. d \o wire = FlattenSeq(LineBytes)
  BY <1>1 DEF BoundaryInv, OnFrameBoundaries, LineBytes, d
<1>12. (d \o wire) \o bytes = d \o (wire \o bytes)
  BY ONLY <1>1, <1>3, Associates, SMTT(60)
<1>13. decoder'.bytes \o wire' = FlattenSeq(LineBytes')
  BY <1>1, <1>10, <1>11, <1>12 DEF d
<1>14. OnFrameBoundaries'
  BY <1>13 DEF OnFrameBoundaries, LineBytes
<1>15. Len(decoder'.bytes) < Len(inFlight'[1].bytes)
  <2>1. CASE inFlight # <<>>
    <3>1. 1 \in 1..Len(inFlight) /\ Len(decoder.bytes) < Len(inFlight[1].bytes)
      BY <1>1, <1>3, <1>5, <2>1, EmptySeq DEF BoundaryInv
    <3> QED
      BY <1>1, <1>4, <3>1
  <2>2. CASE inFlight = <<>>
    <3>1. Len(inFlight) = 0
      BY <2>2
    <3>2. Len(LineBytes) = 0 /\ LineBytes = <<>>
      BY <1>8, <3>1, EmptySeq
    <3>3. FlattenSeq(LineBytes) = <<>>
      BY <3>2 DEF FlattenSeq
    <3>4. d = <<>>
      BY <1>3, <1>11, <3>3, ConcatEqualIffEmpty
    <3>5. Len(decoder'.bytes) = 0
      BY <1>1, <3>4 DEF d
    <3>6. inFlight'[1].bytes = bytes
      BY <1>2, <1>4, <3>1
    <3>7. Sized(bytes)
      BY <1>2, LineIsSized
    <3> QED
      BY <3>5, <3>6, <3>7 DEF Sized
  <2> QED
    BY <2>1, <2>2
<1> QED
  BY <1>4, <1>6, <1>7, <1>14, <1>15 DEF BoundaryInv, R

\* A read byte keeps the boundaries, whatever it makes of the frame.
LEMMA ReadKeepsBoundaries ==
    ASSUME DecoderInv, BoundaryInv, ReadByte
    PROVE  BoundaryInv'
<1> DEFINE R == [frame : Frames, bytes : Seq(Byte), damaged : BOOLEAN]
<1>1. inFlight \in Seq(R) /\ wire \in Seq(Byte)
  BY DEF BoundaryInv
<1> HIDE DEF R
<1>2. /\ inFlight # <<>> /\ wire # <<>> /\ reading /\ wire' = Tail(wire)
      /\ Pushed \in Seq(Byte)
  BY ReadByteIs, ReadOutcome
<1>3. wire' \in Seq(Byte)
  BY <1>1, <1>2, HeadTailProperties
<1>4. CASE PushedResult = "NeedMore"
  <2>1. /\ decoder' = [bytes |-> Pushed, expected |-> PushedExpected]
        /\ inFlight' = inFlight
    BY <1>4, ReadByteIs
  <2>2. decoder'.bytes = Pushed
    BY <2>1
  <2>3. LineBytes' = LineBytes
    BY <2>1 DEF LineBytes
  <2>4. decoder.bytes \o wire = inFlight[1].bytes \o FlattenSeq(Tail(LineBytes))
    BY <1>2, QueueHead
  <2>5. decoder.bytes \o wire = FlattenSeq(LineBytes)
    BY <1>2 DEF BoundaryInv, OnFrameBoundaries, LineBytes
  <2>6. Pushed \o Tail(wire) = FlattenSeq(LineBytes)
    BY <2>4, <2>5, ReadOutcome
  <2>7. OnFrameBoundaries'
    BY <1>2, <2>2, <2>3, <2>6 DEF OnFrameBoundaries, LineBytes
  <2>8. Len(Pushed) < Len(inFlight[1].bytes)
    BY <1>4, ReadOutcome
  <2>9. \A i \in 1..Len(inFlight) : OnLine(inFlight[i])
    BY DEF BoundaryInv
  <2> QED
    BY <1>1, <1>2, <1>3, <2>1, <2>2, <2>7, <2>8, <2>9 DEF BoundaryInv, R
<1>5. CASE PushedResult # "NeedMore"
  <2>1. /\ decoder' = EmptyDecoder /\ inFlight' = Tail(inFlight)
        /\ reading' = (PushedResult = "FrameReady")
    BY <1>2, <1>5, ReadByteIs
  <2>2. decoder'.bytes = <<>> /\ decoder'.bytes \in Seq(Byte)
    BY <2>1, EmptySeq DEF EmptyDecoder
  <2>3. /\ inFlight' \in Seq(R) /\ Len(inFlight') = Len(inFlight) - 1
        /\ \A i \in 1..Len(inFlight') : inFlight'[i] = inFlight[i + 1]
        /\ Len(inFlight) \in Nat \ {0}
    BY <1>1, <1>2, <2>1, HeadTailProperties, EmptySeq
  <2>4. ASSUME NEW i \in 1..Len(inFlight') PROVE OnLine(inFlight'[i])
    <3>1. i + 1 \in 1..Len(inFlight) /\ inFlight'[i] = inFlight[i + 1]
      BY <2>3
    <3> QED
      BY <3>1 DEF BoundaryInv
  <2>5. /\ LineBytes \in Seq(Seq(Byte)) /\ Len(LineBytes) = Len(inFlight)
        /\ \A i \in 1..Len(inFlight) : LineBytes[i] = inFlight[i].bytes
    BY LineTypes
  <2>6. LineBytes' = Tail(LineBytes)
    <3> DEFINE a == Tail(LineBytes)
    <3>1. LineBytes # <<>>
      BY <2>3, <2>5, EmptySeq
    <3>2. /\ a \in Seq(Seq(Byte)) /\ Len(a) = Len(LineBytes) - 1
          /\ \A i \in 1..Len(a) : a[i] = LineBytes[i + 1]
      BY <2>5, <3>1, HeadTailProperties
    <3> HIDE DEF a
    <3>3. Len(a) = Len(inFlight') /\ DOMAIN inFlight' = 1..Len(inFlight')
      BY <2>3, <2>5, <3>2, LenProperties
    <3>4. a = [i \in 1..Len(inFlight') |-> a[i]]
      BY <3>2, <3>3, LenProperties
    <3>5. ASSUME NEW i \in 1..Len(inFlight') PROVE inFlight'[i].bytes = a[i]
      <4>1. i + 1 \in 1..Len(inFlight)
        BY <2>3
      <4> QED
        BY <2>3, <2>5, <3>2, <3>3, <4>1
    <3>6. LineBytes' = [i \in 1..Len(inFlight') |-> inFlight'[i].bytes]
      BY <3>3 DEF LineBytes
    <3>7. LineBytes' = a
      BY <3>4, <3>5, <3>6
    <3> QED
      BY <3>7 DEF a
  <2>7. ASSUME reading' PROVE decoder'.bytes \o wire' = FlattenSeq(LineBytes')
    <3>1. Tail(wire) = FlattenSeq(Tail(LineBytes))
      BY <2>1, <2>7, ReadOutcome
    <3>2. <<>> \o wire' = wire'
      BY <1>3, ConcatEmptySeq
    <3> QED
      BY <1>2, <2>2, <2>6, <3>1, <3>2
  <2>8. OnFrameBoundaries'
    BY <2>7 DEF OnFrameBoundaries, LineBytes
  <2>9. inFlight' # <<>> => Len(decoder'.bytes) < Len(inFlight'[1].bytes)
    <3>1. ASSUME inFlight' # <<>> PROVE Len(decoder'.bytes) < Len(inFlight'[1].bytes)
      <4>1. 1 \in 1..Len(inFlight')
        <5>1. Len(inFlight') \in Nat \ {0}
          BY <2>3, <3>1, EmptySeq
        <5> QED
          BY <5>1
      <4>2. OnLine(inFlight'[1])
        BY <2>4, <4>1
      <4>3. Sized(inFlight'[1].bytes)
        BY <4>2, LineIsSized
      <4>4. Len(decoder'.bytes) = 0
        BY <2>2, EmptySeq
      <4> QED
        BY <4>3, <4>4 DEF Sized
    <3> QED
      BY <3>1
  <2> QED
    BY <1>3, <2>2, <2>3, <2>4, <2>8, <2>9 DEF BoundaryInv, R
<1> QED
  BY <1>4, <1>5

\* Every step keeps what is on the line whole.
LEMMA BoundaryStep == DecoderInv /\ BoundaryInv /\ [FrameNext]_frameVars => BoundaryInv'
<1> SUFFICES ASSUME DecoderInv, BoundaryInv, [FrameNext]_frameVars PROVE BoundaryInv'
  OBVIOUS
<1>1. ASSUME NEW f \in Frames, SendFrame(f) PROVE BoundaryInv'
  <2> DEFINE s == Encode(f)
             e == [frame |-> f, bytes |-> s, damaged |-> s # Encode(f)]
  <2>1. Encodable(f) /\ Send(f, s) /\ s \in Seq(Byte)
    BY <1>1 DEF SendFrame, Send
  <2>2. OnLine(e)
    BY <2>1 DEF OnLine
  <2> HIDE DEF s
  <2> QED
    BY <2>1, <2>2, SendKeepsBoundaries
<1>2. ASSUME NEW f \in Frames, SendDamaged(f) PROVE BoundaryInv'
  <2> DEFINE s == Encode(f)
  <2>1. PICK i \in DOMAIN s, b \in Noise :
            NoticeableDamage(f, i, b) /\ Send(f, [s EXCEPT ![i] = b])
    BY <1>2 DEF SendDamaged
  <2> DEFINE u == [s EXCEPT ![i] = b]
             e == [frame |-> f, bytes |-> u, damaged |-> u # Encode(f)]
  <2>2. Encodable(f) /\ u \in Seq(Byte)
    BY <1>2, <2>1 DEF SendDamaged, Send
  <2>3. u # s
    <3>1. b # s[i]
      BY <2>1 DEF NoticeableDamage
    <3>2. u[i] = b
      BY <2>1
    <3> HIDE DEF u, s
    <3> QED
      BY <3>1, <3>2
  <2>4. e.frame = f /\ e.bytes = u /\ e.damaged = (u # Encode(f))
    BY Zenon
  <2>5. e.damaged
    BY <2>3, <2>4
  <2>6. OnLine(e)
    <3> HIDE DEF e
    <3> QED
      BY <2>1, <2>2, <2>4, <2>5 DEF OnLine
  <2>7. Send(f, u)
    BY <2>1
  <2> HIDE DEF u
  <2> QED
    BY <2>6, <2>7, SendKeepsBoundaries
<1>3. CASE ReadByte
  BY <1>3, ReadKeepsBoundaries
<1>4. CASE Reopen
  <2>1. wire' = <<>> /\ inFlight' = <<>> /\ decoder' = EmptyDecoder
    BY <1>4 DEF Reopen
  <2>2. (wire = <<>> /\ inFlight = <<>> /\ decoder = EmptyDecoder => BoundaryInv)'
    BY EmptyLine, PTL
  <2> QED
    BY <2>1, <2>2 DEF EmptyDecoder
<1>5. CASE UNCHANGED frameVars
  <2>1. wire' = wire /\ inFlight' = inFlight /\ decoder' = decoder /\ reading' = reading
    BY <1>5 DEF frameVars
  <2>2. OnFrameBoundaries'
    <3>1. OnFrameBoundaries
      BY DEF BoundaryInv
    <3> QED
      BY <2>1, <3>1, Zenon DEF OnFrameBoundaries
  <2>3. (reading /\ inFlight # <<>> => Len(decoder.bytes) < Len(inFlight[1].bytes))'
    BY <2>1 DEF BoundaryInv
  <2>4. /\ inFlight' \in Seq([frame : Frames, bytes : Seq(Byte), damaged : BOOLEAN])
        /\ wire' \in Seq(Byte) /\ decoder'.bytes \in Seq(Byte)
        /\ \A i \in 1..Len(inFlight') : OnLine(inFlight'[i])
    BY <2>1 DEF BoundaryInv
  <2> QED
    BY <2>2, <2>3, <2>4, Zenon DEF BoundaryInv
<1> QED
  BY <1>1, <1>2, <1>3, <1>4, <1>5 DEF FrameNext

\* Both inductive invariants of the line.
THEOREM LineIsKept == FrameSpec => [](DecoderInv /\ BoundaryInv)
<1>1. FrameInit => DecoderInv /\ BoundaryInv
  <2> SUFFICES ASSUME FrameInit PROVE DecoderInv /\ BoundaryInv
    OBVIOUS
  <2>1. DecoderInv
    BY DEF FrameInit, DecoderInv, EmptyDecoder, Framed
  <2>2. BoundaryInv
    BY EmptyLine DEF FrameInit
  <2> QED
    BY <2>1, <2>2
<1> QED
  BY <1>1, DecoderStep, BoundaryStep, PTL DEF FrameSpec

\* The reader never loses the frame boundaries, for every limit on the data, any
\* frames and any number of them under way: even a damaged frame ends the reader no
\* later than at its own last byte.
THEOREM BoundariesAreKept == FrameSpec => []OnFrameBoundaries
<1>1. BoundaryInv => OnFrameBoundaries
  BY DEF BoundaryInv
<1> QED
  BY <1>1, LineIsKept, PTL

-----------------------------------------------------------------------------
(* What is reported is what was sent                                       *)

\* A sequence without its last byte.
LEMMA FrontIs ==
    ASSUME NEW s \in Seq(Byte), NEW n \in Nat, Len(s) = n + 1
    PROVE  /\ Front(s) \in Seq(Byte) /\ Len(Front(s)) = n
           /\ \A i \in 1..n : Front(s)[i] = s[i]
           /\ Last(s) = s[n + 1]
<1>1. Len(s) - 1 = n /\ Front(s) = SubSeq(s, 1, n)
  BY DEF Front
<1>2. /\ SubSeq(s, 1, n) \in Seq(Byte)
      /\ Len(SubSeq(s, 1, n)) = n
      /\ \A i \in 1..n : SubSeq(s, 1, n)[i] = s[i]
  <2>1. 1 \in 1..(Len(s) + 1) /\ n \in 0..Len(s)
    OBVIOUS
  <2>2. /\ SubSeq(s, 1, n) \in Seq(Byte)
        /\ Len(SubSeq(s, 1, n)) = IF 1 <= n THEN n - 1 + 1 ELSE 0
        /\ \A i \in 1..(n - 1 + 1) : SubSeq(s, 1, n)[i] = s[1 + i - 1]
    BY <2>1, SubSeqProperties
  <2> QED
    BY <2>2
<1>3. Last(s) = s[n + 1]
  BY DEF Last
<1> QED
  BY <1>1, <1>2, <1>3

\* The encoder's checksum is the one the decoder compares.
LEMMA EncodingChecks ==
    ASSUME NEW f, WellFormed(f), Encodable(f)
    PROVE  Front(Encode(f)) = Body(f) /\ Checksum(Front(Encode(f))) = Last(Encode(f))
<1> DEFINE s == Encode(f)
           b == Body(f)
<1>1. /\ b \in Seq(Byte) /\ Len(b) \in Nat
      /\ s \in Seq(Byte) /\ Len(s) = Len(b) + 1
      /\ \A i \in 1..Len(b) : s[i] = b[i]
      /\ s[Len(b) + 1] = Checksum(b)
  BY EncodedBytes
<1> HIDE DEF s, b
<1>2. /\ Front(s) \in Seq(Byte) /\ Len(Front(s)) = Len(b)
      /\ \A i \in 1..Len(b) : Front(s)[i] = s[i]
      /\ Last(s) = s[Len(b) + 1]
  BY <1>1, FrontIs
<1>3. Front(s) = b
  BY <1>1, <1>2, SeqEqual
<1> QED
  BY <1>1, <1>2, <1>3 DEF s, b

\* A damaged frame that still looks like one has the wrong checksum: either its
\* last byte changed, or one of the bytes the checksum is taken of.
LEMMA DamageShows ==
    ASSUME NEW e, OnLine(e), e.damaged, e.bytes[1] \in FrameTypes,
           e.bytes[1] = Data => e.bytes[2] <= MaxData
    PROVE  Checksum(Front(e.bytes)) # Last(e.bytes)
<1> DEFINE f == e.frame
           s == Encode(f)
           b == Body(f)
           u == e.bytes
           n == Len(b)
<1>1. WellFormed(f) /\ Encodable(f) /\ u \in Seq(Byte)
  BY FramesAssumption DEF OnLine
<1>2. PICK i \in DOMAIN s, x \in Noise : NoticeableDamage(f, i, x) /\ u = [s EXCEPT ![i] = x]
  BY DEF OnLine
<1> HIDE DEF f
<1>3. /\ b \in Seq(Byte) /\ n \in Nat \ {0}
      /\ s \in Seq(Byte) /\ Len(s) = n + 1
      /\ \A k \in 1..n : s[k] = b[k]
      /\ s[n + 1] = Checksum(b)
  BY <1>1, EncodedBytes
<1>4. s[1] = f.type /\ (f.type = Data => s[2] \in Nat /\ s[2] <= MaxData)
  BY <1>1, EncodingIsSized
<1> HIDE DEF s, b, u, n
<1>5. x # s[i] /\ (i = 1 => x \notin FrameTypes) /\ (i = 2 /\ f.type = Data => x > MaxData)
  BY <1>2 DEF NoticeableDamage, s
<1>6. i \in 1..(n + 1) /\ DOMAIN s = 1..(n + 1)
  BY <1>2, <1>3, LenProperties
<1>7. u[i] = x /\ \A k \in 1..(n + 1) : k # i => u[k] = s[k]
  BY <1>2, <1>6
<1>8. Len(u) = n + 1
  <2>1. DOMAIN u = 1..(n + 1)
    BY <1>2, <1>6
  <2> QED
    BY <1>1, <1>3, <2>1, LenProperties
<1>9. /\ Front(u) \in Seq(Byte) /\ Len(Front(u)) = n
      /\ \A k \in 1..n : Front(u)[k] = u[k]
      /\ Last(u) = u[n + 1]
  BY <1>1, <1>3, <1>8, FrontIs
<1>10. CASE i = n + 1
  <2>1. \A k \in 1..n : k \in 1..(n + 1) /\ k # i
    BY <1>3, <1>10
  <2>2. \A k \in 1..n : Front(u)[k] = b[k]
    BY <1>3, <1>7, <1>9, <2>1
  <2>3. Front(u) = b
    BY ONLY <1>3, <1>9, <2>2, SeqEqual, Len(b) = n DEF n
  <2>4. Last(u) = x /\ Checksum(b) = s[i]
    BY <1>3, <1>7, <1>9, <1>10
  <2> QED
    BY <1>5, <2>3, <2>4 DEF u
<1>11. CASE i \in 1..n
  <2> DEFINE a == [b EXCEPT ![i] = x]
  <2>1. x \in Byte
    BY <1>1, <1>6, <1>7, <1>8, ElementOfSeq
  <2>2. x # b[i] /\ i \in 1..Len(b)
    BY <1>3, <1>5, <1>11 DEF n
  <2>3. /\ a \in Seq(Byte) /\ Len(a) = Len(b)
        /\ \A k \in 1..Len(b) : a[k] = IF k = i THEN x ELSE b[k]
    BY <1>3, <2>1, <2>2, ExceptSeq
  <2>4. Checksum(a) # Checksum(b)
    BY <1>3, <2>1, <2>2, OneByteIsNoticed
  <2> HIDE DEF a
  <2>5. ASSUME NEW k \in 1..n PROVE Front(u)[k] = a[k]
    <3>1. k \in 1..(n + 1) /\ k \in 1..Len(b)
      BY <1>3 DEF n
    <3>2. Front(u)[k] = u[k] /\ s[k] = b[k]
      BY <1>3, <1>9
    <3> QED
      BY <1>7, <2>3, <3>1, <3>2
  <2>6. Front(u) = a
    <3>1. Len(a) = n
      BY <2>3 DEF n
    <3> QED
      BY ONLY <1>9, <2>3, <2>5, <3>1, SeqEqual
  <2>7. Last(u) = Checksum(b)
    <3>1. n + 1 \in 1..(n + 1) /\ n + 1 # i
      BY <1>3, <1>11
    <3> QED
      BY <1>3, <1>7, <1>9, <3>1
  <2> QED
    BY <2>4, <2>6, <2>7 DEF u
<1>12. i = n + 1 \/ i \in 1..n
  BY <1>3, <1>6
<1> QED
  BY <1>10, <1>11, <1>12

\* One step of the codec reports the first frame under way as it was sent, or stops.
LEMMA FaithfulStep ==
    DecoderInv /\ BoundaryInv /\ [FrameNext]_frameVars =>
       (Len(inFlight') < Len(inFlight) /\ reading =>
          /\ reading' <=> ~Head(inFlight).damaged /\ LegalValue(Head(inFlight).frame)
          /\ reading' => delivered' = Head(inFlight).frame)
<1> SUFFICES ASSUME DecoderInv, BoundaryInv, [FrameNext]_frameVars,
                    Len(inFlight') < Len(inFlight), reading
             PROVE  /\ reading' <=> ~Head(inFlight).damaged /\ LegalValue(Head(inFlight).frame)
                    /\ reading' => delivered' = Head(inFlight).frame
  OBVIOUS
<1> DEFINE R == [frame : Frames, bytes : Seq(Byte), damaged : BOOLEAN]
           g == inFlight[1]
           f == g.frame
<1>1. inFlight \in Seq(R) /\ Len(inFlight) \in Nat
  BY LenProperties DEF BoundaryInv
<1>2. ReadByte
  <2>1. ASSUME NEW h \in Frames, SendFrame(h) \/ SendDamaged(h) PROVE FALSE
    <3>1. PICK bytes : bytes \in Seq(Byte) /\ Send(h, bytes)
      BY <2>1 DEF SendFrame, SendDamaged, Send
    <3> DEFINE e == [frame |-> h, bytes |-> bytes, damaged |-> bytes # Encode(h)]
    <3>2. inFlight' = Append(inFlight, e)
      BY <3>1 DEF Send
    <3>3. e \in R
      BY <3>1
    <3> HIDE DEF e, R
    <3>4. Len(Append(inFlight, e)) = Len(inFlight) + 1
      BY <1>1, <3>3, AppendProperties
    <3> QED
      BY <1>1, <3>2, <3>4
  <2>2. ~Reopen
    BY DEF Reopen
  <2>3. ASSUME UNCHANGED frameVars PROVE FALSE
    <3>1. inFlight' = inFlight
      BY <2>3 DEF frameVars
    <3> QED
      BY <1>1, <3>1
  <2> QED
    BY <2>1, <2>2, <2>3 DEF FrameNext
<1>3. PushedResult # "NeedMore"
  <2>1. PushedResult = "NeedMore" => inFlight' = inFlight
    BY <1>2, ReadByteIs
  <2> QED
    BY <1>1, <2>1
<1>4. /\ reading' = (PushedResult = "FrameReady")
      /\ PushedResult = "FrameReady" => delivered' = Decode(Pushed)
  BY <1>2, <1>3, ReadByteIs
<1>5. inFlight # <<>>
  BY <1>2, ReadOutcome
<1>6. Head(inFlight) = g /\ OnLine(g)
  BY <1>5, QueueHead
<1> HIDE DEF g, R
<1>7. WellFormed(f) /\ Encodable(f) /\ g.damaged \in BOOLEAN
  <2>1. g \in R
    BY <1>1, <1>5, EmptySeq, ElementOfSeq DEF g
  <2> QED
    BY <1>6, <2>1, FramesAssumption DEF OnLine, R
<1>8. ~g.damaged => g.bytes = Encode(f)
  BY <1>6 DEF OnLine
<1> HIDE DEF f
<1>9. Decode(Encode(f)) = f /\ Checksum(Front(Encode(f))) = Last(Encode(f))
  BY <1>7, FramesRoundTrip, EncodingChecks
<1>10. /\ PushedResult = "FrameReady" =>
             /\ Checksum(Front(Pushed)) = Last(Pushed) /\ LegalValue(Decode(Pushed))
       /\ (/\ ~Unframeable(Pushed) /\ PushedExpected = Len(Pushed) /\ PushedExpected # 0
           /\ Checksum(Front(Pushed)) = Last(Pushed) /\ LegalValue(Decode(Pushed))
           /\ PushedResult # "NeedMore") => PushedResult = "FrameReady"
  BY Zenon DEF PushedResult, Result
<1>11. ASSUME PushedResult = "FrameReady"
       PROVE  ~g.damaged /\ LegalValue(f) /\ Decode(Pushed) = f
  <2>1. Pushed = g.bytes /\ Framed(Pushed, PushedExpected)
    BY <1>2, <1>11, ReadOutcome DEF g
  <2>2. Len(g.bytes) \in Nat /\ Len(g.bytes) >= 2 /\ (g.bytes[1] = Data => Len(g.bytes) >= 3)
    BY <1>6, LineIsSized DEF Sized
  <2>3. g.bytes[1] \in FrameTypes /\ (g.bytes[1] = Data => g.bytes[2] <= MaxData)
    BY <2>1, <2>2 DEF Framed
  <2>4. ~g.damaged
    BY <1>6, <1>10, <1>11, <2>1, <2>3, DamageShows
  <2> QED
    BY <1>8, <1>9, <1>10, <1>11, <2>1, <2>4
<1>12. ASSUME ~g.damaged, LegalValue(f) PROVE PushedResult = "FrameReady"
  <2>1. /\ Pushed = g.bytes /\ ~Unframeable(Pushed)
        /\ PushedExpected = Len(Pushed) /\ PushedExpected # 0
    BY <1>2, <1>3, <1>12, ReadOutcome DEF g
  <2> QED
    BY <1>3, <1>8, <1>9, <1>10, <1>12, <2>1
<1> QED
  BY <1>4, <1>6, <1>11, <1>12 DEF f

\* For every limit on the data, any frames and any number of them under way: the
\* decoder reports a frame exactly when the line left it alone and its value is
\* legal, and it reports the frame that was sent.
THEOREM FramesArriveFaithfully == FrameSpec => FramesAreFaithful
<1> QED
  BY LineIsKept, FaithfulStep, PTL DEF FrameSpec, FramesAreFaithful
=============================================================================
