--------------------------- MODULE CacheKeyProofs ---------------------------
(***************************************************************************)
(* The hasher and the key builder, for chunks, words and bytes of any size *)
(* and any sets of nodes and lists of fields.                              *)
(*  - DigestIsStandard: no byte is lost or moved by the buffering          *)
(*    (Streamed) and finalize() pads as FIPS 180-4 says at every length.   *)
(*  - KeysTellApart: that padding determines its message, the message      *)
(*    determines the fields (no field's bytes begin another's), and the    *)
(*    fields of an op determine all of its state that its image depends    *)
(*    on.                                                                  *)
(* Induction is over sets of numbers, from the least number of a set.      *)
(***************************************************************************)
EXTENDS CacheKey, Integers, SequenceTheorems, WellFoundedInduction, TLAPS

SequencesInv ==
  /\ state \in Seq(Byte) /\ buffer \in Seq(Byte)
  /\ data \in Seq(Byte) /\ message \in Seq(Byte)
  /\ Len(digest) \in Nat

ShaInv == SequencesInv /\ Streamed /\ DigestIsStandard

-----------------------------------------------------------------------------
(* Induction, over sets of numbers *)

LEMMA LeastNumber ==
  ASSUME NEW T \in SUBSET Nat, T # {}
  PROVE  \E n \in T : \A k \in T : n <= k
<1> DEFINE R == {p \in Nat \X Nat : p[1] < p[2]}
<1>1. IsWellFoundedOn(R, Nat)
  <2>1. R = OpToRel(<, Nat)
    BY DEF OpToRel
  <2> QED BY <2>1, NatLessThanWellFounded, Zenon
<1>2. \A k, n \in Nat : ~ (<<k, n>> \in R) => n <= k
  OBVIOUS
<1> HIDE DEF R
<1>3. T \subseteq Nat
  OBVIOUS
<1>4. \E n \in T : \A k \in T : ~ (<<k, n>> \in R)
  BY <1>1, <1>3, WFMin
<1> QED BY <1>2, <1>3, <1>4

LEMMA Induction ==
  ASSUME NEW P \in SUBSET Nat, 0 \in P, \A n \in P : n + 1 \in P
  PROVE  P = Nat
<1> SUFFICES ASSUME Nat \ P # {} PROVE FALSE
  OBVIOUS
<1>1. PICK n \in Nat \ P : \A k \in Nat \ P : n <= k
  <2> DEFINE T == Nat \ P
  <2>1. T \in SUBSET Nat /\ T # {}
    OBVIOUS
  <2> HIDE DEF T
  <2>2. \E n \in T : \A k \in T : n <= k
    BY <2>1, LeastNumber
  <2> QED BY <2>2 DEF T
<1>2. n - 1 \in P /\ (n - 1) + 1 = n
  <2>1. n # 0
    OBVIOUS
  <2>2. n - 1 \in Nat /\ ~ (n <= n - 1)
    BY <2>1
  <2>3. n - 1 \in P
    BY <1>1, <2>2
  <2> QED BY <2>3
<1> QED BY <1>2

-----------------------------------------------------------------------------
(* Division with remainder, by a number that the provers do not know *)

LEMMA Division ==
  ASSUME NEW m \in Nat \ {0}, NEW a \in Nat
  PROVE  /\ a = m * (a \div m) + (a % m)
         /\ a % m \in 0 .. m - 1
         /\ a \div m \in Nat
  BY SMT

LEMMA RemainderUnique ==
  ASSUME NEW m \in Nat \ {0}, NEW q \in Int, NEW p \in Int,
         NEW r \in 0 .. m - 1, NEW s \in 0 .. m - 1,
         m * q + r = m * p + s
  PROVE  r = s
<1>1. m * (q - p) = s - r
  BY SMT
<1>2. q - p \in Int /\ (q - p = 0 \/ q - p >= 1 \/ q - p <= -1)
  BY SMT
<1> QED BY <1>1, <1>2, SMT

(* A counter of a fixed width can be reduced at every addition. *)
LEMMA RemainderOfSum ==
  ASSUME NEW m \in Nat \ {0}, NEW a \in Nat, NEW b \in Nat
  PROVE  ((a % m) + b) % m = (a + b) % m
<1> DEFINE c == (a % m) + b
           x == a \div m
           y == c \div m
           z == (a + b) \div m
<1>1. a = m * x + (a % m) /\ a % m \in 0 .. m - 1 /\ x \in Nat
  BY Division
<1>2. c \in Nat /\ c = m * y + (c % m) /\ c % m \in 0 .. m - 1 /\ y \in Nat
  <2>1. c \in Nat
    BY <1>1
  <2> QED BY <2>1, Division
<1>3. a + b = m * z + ((a + b) % m) /\ (a + b) % m \in 0 .. m - 1 /\ z \in Nat
  <2>1. a + b \in Nat
    OBVIOUS
  <2> HIDE DEF c
  <2> QED BY <2>1, Division
<1>4. m * (x + y) + (c % m) = m * z + ((a + b) % m)
  <2>1. c = a - m * x + b
    BY <1>1
  <2> HIDE DEF x, y, z, c
  <2>2. m * (x + y) = m * x + m * y
    BY <1>1, <1>2
  <2> QED BY <1>1, <1>2, <1>3, <2>1, <2>2
<1>5. c % m = (a + b) % m
  <2> HIDE DEF x, y, z, c
  <2>1. x + y \in Int /\ z \in Int
    BY <1>1, <1>2, <1>3
  <2> QED BY <1>2, <1>3, <1>4, <2>1, RemainderUnique
<1> QED BY <1>5

LEMMA ZeroRemainder ==
  ASSUME NEW m \in Nat \ {0}
  PROVE  0 % m = 0
  BY SMT

(* Multiples stay multiples. *)
LEMMA NextMultiple ==
  ASSUME NEW m \in Nat \ {0}, NEW a \in Nat, a % m = 0
  PROVE  (a + m) % m = 0
<1>1. a = m * (a \div m) /\ a \div m \in Nat
  BY Division
<1>2. /\ a + m = m * ((a + m) \div m) + ((a + m) % m)
      /\ (a + m) % m \in 0 .. m - 1
      /\ (a + m) \div m \in Nat
  <2>1. a + m \in Nat
    OBVIOUS
  <2> QED BY <2>1, Division
<1>3. m * ((a \div m) + 1) + 0 = m * ((a + m) \div m) + ((a + m) % m)
  BY <1>1, <1>2
<1>4. (a \div m) + 1 \in Int /\ 0 \in 0 .. m - 1 /\ (a + m) \div m \in Int
  BY <1>1, <1>2
<1> QED BY <1>2, <1>3, <1>4, RemainderUnique

-----------------------------------------------------------------------------
(* The constants, as the steps below need them *)
LEMMA Sizes ==
  /\ ChunkLen \in Nat \ {0} /\ LengthLen \in Nat \ {0} /\ LengthLen < ChunkLen
  /\ ByteBits \in Nat \ {0}
  /\ Radix ^ LengthLen \in Nat \ {0}
  BY Sha256Assumption, PowerAssumption

(* The bit counter follows the number of bytes it has counted. *)
LEMMA Counted ==
  ASSUME NEW n \in Nat, NEW k \in Nat
  PROVE  Bits(Bits(ByteBits * n) + k * ByteBits) = Bits(ByteBits * (n + k))
<1> DEFINE m == Radix ^ LengthLen
<1>1. m \in Nat \ {0} /\ ByteBits * n \in Nat /\ k * ByteBits \in Nat
  BY Sizes
<1>2. ByteBits * n + k * ByteBits = ByteBits * (n + k)
  BY Sizes
<1> HIDE DEF m
<1>3. (((ByteBits * n) % m) + k * ByteBits) % m = (ByteBits * n + k * ByteBits) % m
  BY <1>1, RemainderOfSum
<1> QED BY <1>2, <1>3 DEF Bits, m

LEMMA ShaInitInv == ShaInit => ShaInv
<1> SUFFICES ASSUME ShaInit PROVE ShaInv
  OBVIOUS
<1>1. SequencesInv /\ DigestIsStandard
  BY EmptySeq DEF ShaInit, SequencesInv, DigestIsStandard
<1>2. Streamed
  <2>1. 0 % ChunkLen = 0 /\ 0 % Radix ^ LengthLen = 0
    BY Sizes, ZeroRemainder
  <2>2. ByteBits * (0 + 0) = 0
    BY Sizes
  <2> QED BY <2>1, <2>2, Sizes DEF ShaInit, Streamed, Bits
<1> QED BY <1>1, <1>2 DEF ShaInv

(* The argument of update() is appended to the message and not yet read. *)
LEMMA UpdateStep ==
  ASSUME ShaInv, NEW bytes \in Seq(Byte), Update(bytes)
  PROVE  ShaInv'
<1>1. SequencesInv'
  BY ConcatProperties, EmptySeq DEF ShaInv, SequencesInv, Update, hasher
<1>2. message' = state' \o buffer' \o data'
  <2>1. message = state \o buffer
    BY ConcatEmptySeq, ConcatProperties DEF ShaInv, SequencesInv, Streamed, Update
  <2> QED BY <2>1 DEF Update, hasher
<1> QED BY <1>1, <1>2 DEF ShaInv, Streamed, DigestIsStandard, Update, hasher

(* Concatenation as an operator that the provers do not look into: they    *)
(* lose their way among sequences of sequences otherwise.                  *)
Cat(s, t) == s \o t

LEMMA CatType ==
  ASSUME NEW S, NEW s \in Seq(S), NEW t \in Seq(S)
  PROVE  Cat(s, t) \in Seq(S) /\ Len(Cat(s, t)) = Len(s) + Len(t)
  BY ConcatProperties DEF Cat

LEMMA CatEmpty ==
  ASSUME NEW S, NEW s \in Seq(S)
  PROVE  Cat(s, <<>>) = s
  BY ConcatEmptySeq DEF Cat

LEMMA CatAssociative ==
  ASSUME NEW S, NEW s \in Seq(S), NEW t \in Seq(S), NEW u \in Seq(S)
  PROVE  Cat(Cat(s, t), u) = Cat(s, Cat(t, u))
  BY ConcatAssociative DEF Cat

LEMMA Regroup ==
  ASSUME NEW S, NEW s \in Seq(S), NEW t \in Seq(S), NEW u \in Seq(S), NEW v \in Seq(S)
  PROVE  Cat(Cat(s, t), Cat(u, v)) = Cat(Cat(s, Cat(t, u)), v)
<1>1. Cat(s, t) \in Seq(S)
  BY CatType
<1>2. Cat(Cat(s, t), Cat(u, v)) = Cat(Cat(Cat(s, t), u), v)
  BY <1>1, CatAssociative
<1>3. Cat(Cat(s, t), u) = Cat(s, Cat(t, u))
  BY CatAssociative
<1> QED BY <1>2, <1>3

(* The first k elements of d go to the end of b. *)
LEMMA Moved ==
  ASSUME NEW S, NEW s \in Seq(S), NEW b \in Seq(S), NEW d \in Seq(S), NEW k \in 1 .. Len(d)
  PROVE  /\ Cat(b, SubSeq(d, 1, k)) \in Seq(S)
         /\ SubSeq(d, k + 1, Len(d)) \in Seq(S)
         /\ Len(Cat(b, SubSeq(d, 1, k))) = Len(b) + k
         /\ Cat(Cat(s, b), d) = Cat(Cat(s, Cat(b, SubSeq(d, 1, k))), SubSeq(d, k + 1, Len(d)))
<1> DEFINE first == SubSeq(d, 1, k)
           rest == SubSeq(d, k + 1, Len(d))
<1>1. Len(d) \in Nat /\ \A i \in 1 .. Len(d) : d[i] \in S
  BY LenProperties, ElementOfSeq
<1>2. first \in Seq(S) /\ Len(first) = k
  BY <1>1, SubSeqProperties
<1>3. rest \in Seq(S)
  BY <1>1, SubSeqProperties
<1>4. Cat(first, rest) = d
  <2>1. first \o rest = SubSeq(d, 1, Len(d))
    BY <1>1, ConcatAdjacentSubSeq
  <2> QED BY <2>1, SubSeqFull DEF Cat
<1> HIDE DEF first, rest
<1>5. Cat(b, first) \in Seq(S) /\ Len(Cat(b, first)) = Len(b) + k
  BY <1>2, CatType
<1>6. Cat(Cat(s, b), Cat(first, rest)) = Cat(Cat(s, Cat(b, first)), rest)
  BY <1>2, <1>3, Regroup
<1>7. Cat(Cat(s, b), d) = Cat(Cat(s, Cat(b, first)), rest)
  BY <1>4, <1>6
<1> QED BY <1>3, <1>5, <1>7 DEF first, rest

(* One turn of the loop: what leaves data is at the end of state and buffer. *)
LEMMA AbsorbStep ==
  ASSUME ShaInv, Absorb
  PROVE  ShaInv'
<1>1. /\ state \in Seq(Byte) /\ buffer \in Seq(Byte) /\ data \in Seq(Byte)
      /\ Len(state) \in Nat /\ Len(buffer) \in Nat /\ Len(data) \in Nat \ {0}
      /\ Len(buffer) < ChunkLen
  BY LenProperties, EmptySeq DEF ShaInv, SequencesInv, Streamed, Absorb
<1>2. PICK k \in 1 .. Len(data), filled \in Seq(Byte), rest \in Seq(Byte) :
        /\ Len(filled) = Len(buffer) + k
        /\ Len(buffer) + k <= ChunkLen
        /\ message = Cat(Cat(state, filled), rest)
        /\ data' = rest
        /\ bitLength' = Bits(bitLength + k * ByteBits)
        /\ IF Len(filled) = ChunkLen
           THEN state' = Cat(state, filled) /\ buffer' = <<>>
           ELSE state' = state /\ buffer' = filled
  <2> DEFINE room == ChunkLen - Len(buffer)
             k == IF room > Len(data) THEN Len(data) ELSE room
             filled == Cat(buffer, SubSeq(data, 1, k))
             rest == SubSeq(data, k + 1, Len(data))
  <2>1. k \in 1 .. Len(data) /\ Len(buffer) + k <= ChunkLen
    BY <1>1, Sizes
  <2>2. /\ data' = rest
        /\ bitLength' = Bits(bitLength + k * ByteBits)
        /\ IF Len(filled) = ChunkLen
           THEN state' = Cat(state, filled) /\ buffer' = <<>>
           ELSE state' = state /\ buffer' = filled
    BY DEF Absorb, Cat
  <2>3. message = Cat(Cat(state, buffer), data)
    BY DEF ShaInv, Streamed, Cat
  <2> HIDE DEF k
  <2>4. /\ filled \in Seq(Byte) /\ rest \in Seq(Byte)
        /\ Len(filled) = Len(buffer) + k
        /\ Cat(Cat(state, buffer), data) = Cat(Cat(state, filled), rest)
    BY <1>1, <2>1, Moved
  <2>5. message = Cat(Cat(state, filled), rest)
    BY <2>3, <2>4
  <2> HIDE DEF filled, rest
  <2> QED BY <2>1, <2>2, <2>4, <2>5
<1>3. message' = message /\ digest' = digest /\ digested' = digested /\ message \in Seq(Byte)
  BY DEF Absorb, ShaInv, SequencesInv
<1>4. k \in Nat /\ Len(buffer) + k \in Nat
  BY <1>1
<1>5. bitLength' = Bits(ByteBits * (Len(state) + Len(buffer) + k))
  <2>1. bitLength = Bits(ByteBits * (Len(state) + Len(buffer)))
    BY DEF ShaInv, Streamed
  <2>2. Len(state) + Len(buffer) \in Nat
    BY <1>1
  <2> QED BY <1>2, <1>4, <2>1, <2>2, Counted
<1>6. DigestIsStandard'
  BY <1>3 DEF ShaInv, DigestIsStandard
<1>7. CASE Len(filled) = ChunkLen
  <2>1. state' = Cat(state, filled) /\ buffer' = <<>>
    BY <1>2, <1>7
  <2>2. Cat(state, filled) \in Seq(Byte) /\ Len(Cat(state, filled)) = Len(state) + ChunkLen
    BY <1>1, <1>7, CatType
  <2>3. Cat(state', buffer') = state'
    BY <2>1, <2>2, CatEmpty
  <2>4. message' = Cat(Cat(state', buffer'), data')
    BY <1>2, <1>3, <2>1, <2>3
  <2>5. Len(state') % ChunkLen = 0
    <3>1. Len(state) % ChunkLen = 0
      BY DEF ShaInv, Streamed
    <3>2. (Len(state) + ChunkLen) % ChunkLen = 0
      BY <1>1, <3>1, Sizes, NextMultiple
    <3> QED BY <2>1, <2>2, <3>2
  <2>6. Len(buffer') = 0 /\ buffer' \in Seq(Byte)
    BY <2>1, EmptySeq
  <2>7. Len(state') + Len(buffer') = Len(state) + Len(buffer) + k
    BY <1>1, <1>2, <1>4, <1>7, <2>1, <2>2, <2>6
  <2>8. bitLength' = Bits(ByteBits * (Len(state') + Len(buffer')))
    BY <1>5, <2>7
  <2>9. Len(buffer') < ChunkLen
    BY <2>6, Sizes
  <2>10. Streamed'
    BY <2>4, <2>5, <2>8, <2>9 DEF Streamed, Cat
  <2>11. SequencesInv'
    BY <1>2, <1>3, <2>1, <2>2, <2>6 DEF SequencesInv
  <2> QED BY <1>6, <2>10, <2>11 DEF ShaInv
<1>8. CASE Len(filled) # ChunkLen
  <2>1. state' = state /\ buffer' = filled
    BY <1>2, <1>8
  <2>2. Len(buffer') = Len(buffer) + k /\ Len(state') = Len(state)
    BY <1>2, <2>1
  <2>3. Len(buffer') < ChunkLen
    <3>1. Len(buffer) + k # ChunkLen /\ Len(buffer) + k <= ChunkLen
      BY <1>2, <1>8
    <3>2. Len(buffer) + k < ChunkLen
      BY <1>4, <3>1, Sizes
    <3> QED BY <2>2, <3>2
  <2>4. message' = Cat(Cat(state', buffer'), data')
    BY <1>2, <1>3, <2>1
  <2>5. Len(state') % ChunkLen = 0
    BY <2>1 DEF ShaInv, Streamed
  <2>6. Len(state') + Len(buffer') = Len(state) + Len(buffer) + k
    BY <1>1, <1>4, <2>2
  <2>7. bitLength' = Bits(ByteBits * (Len(state') + Len(buffer')))
    BY <1>5, <2>6
  <2>8. Streamed'
    BY <2>3, <2>4, <2>5, <2>7 DEF Streamed, Cat
  <2>9. SequencesInv'
    BY <1>1, <1>2, <1>3, <2>1 DEF SequencesInv
  <2> QED BY <1>6, <2>8, <2>9 DEF ShaInv
<1> QED BY <1>7, <1>8

-----------------------------------------------------------------------------
(* Padding *)

(* The marker and n zeros *)
Filling(n) == [i \in 1 .. n + 1 |-> IF i = 1 THEN Marker ELSE 0]

LEMMA FillingType ==
  ASSUME NEW S, Marker \in S, 0 \in S, NEW n \in Nat
  PROVE  Filling(n) \in Seq(S) /\ Len(Filling(n)) = n + 1
<1>1. Filling(n) \in [1 .. n + 1 -> S] /\ n + 1 \in Nat
  BY DEF Filling
<1> HIDE DEF Filling
<1>2. Filling(n) \in Seq(S)
  BY <1>1, SeqDef
<1> QED BY <1>1, <1>2, LenProperties

LEMMA ZerosType ==
  ASSUME NEW S, 0 \in S, NEW n \in Nat
  PROVE  Zeros(n) \in Seq(S) /\ Len(Zeros(n)) = n
<1>1. Zeros(n) \in [1 .. n -> S]
  BY DEF Zeros
<1> HIDE DEF Zeros
<1>2. Zeros(n) \in Seq(S)
  BY <1>1, SeqDef
<1> QED BY <1>1, <1>2, LenProperties

LEMMA CatElement ==
  ASSUME NEW S, NEW s \in Seq(S), NEW t \in Seq(S), NEW i \in 1 .. Len(s) + Len(t)
  PROVE  Cat(s, t)[i] = IF i <= Len(s) THEN s[i] ELSE t[i - Len(s)]
  BY ConcatProperties DEF Cat

LEMMA MoreZeros ==
  ASSUME NEW S, Marker \in S, 0 \in S, NEW m \in Nat, NEW n \in Nat
  PROVE  Cat(Filling(m), Zeros(n)) = Filling(m + n)
<1>1. /\ Filling(m) \in Seq(S) /\ Len(Filling(m)) = m + 1
      /\ Zeros(n) \in Seq(S) /\ Len(Zeros(n)) = n
      /\ Filling(m + n) \in Seq(S) /\ Len(Filling(m + n)) = m + n + 1
  <2>1. Filling(m) \in Seq(S) /\ Len(Filling(m)) = m + 1
    BY FillingType
  <2>2. Zeros(n) \in Seq(S) /\ Len(Zeros(n)) = n
    BY ZerosType
  <2>3. m + n \in Nat
    OBVIOUS
  <2>4. Filling(m + n) \in Seq(S) /\ Len(Filling(m + n)) = m + n + 1
    BY <2>3, FillingType
  <2> QED BY <2>1, <2>2, <2>4
<1>2. Cat(Filling(m), Zeros(n)) \in Seq(S) /\ Len(Cat(Filling(m), Zeros(n))) = m + n + 1
  <2>1. /\ Cat(Filling(m), Zeros(n)) \in Seq(S)
        /\ Len(Cat(Filling(m), Zeros(n))) = Len(Filling(m)) + Len(Zeros(n))
    BY <1>1, CatType
  <2>2. (m + 1) + n = m + n + 1
    OBVIOUS
  <2> QED BY <1>1, <2>1, <2>2
<1>3. ASSUME NEW i \in 1 .. m + n + 1
      PROVE  Cat(Filling(m), Zeros(n))[i] = Filling(m + n)[i]
  <2>1. i \in 1 .. Len(Filling(m)) + Len(Zeros(n))
    BY <1>1
  <2>2. Cat(Filling(m), Zeros(n))[i] = IF i <= m + 1 THEN Filling(m)[i] ELSE Zeros(n)[i - (m + 1)]
    BY <1>1, <2>1, CatElement
  <2> QED BY <2>2 DEF Filling, Zeros
<1> QED BY <1>1, <1>2, <1>3, SeqEqual

LEMMA Marked ==
  ASSUME NEW S, Marker \in S, 0 \in S, NEW b \in Seq(S)
  PROVE  Append(b, Marker) = Cat(b, Filling(0))
<1>1. Filling(0) \in Seq(S) /\ Len(Filling(0)) = 1
  <2>1. 0 \in Nat /\ 0 + 1 = 1
    OBVIOUS
  <2> QED BY <2>1, FillingType
<1>2. Cat(b, Filling(0)) \in Seq(S) /\ Len(Cat(b, Filling(0))) = Len(b) + 1 /\ Len(b) \in Nat
  BY <1>1, CatType, LenProperties
<1>3. /\ Append(b, Marker) \in Seq(S) /\ Len(Append(b, Marker)) = Len(b) + 1
      /\ \A i \in 1 .. Len(b) : Append(b, Marker)[i] = b[i]
      /\ Append(b, Marker)[Len(b) + 1] = Marker
  BY AppendProperties
<1>4. ASSUME NEW i \in 1 .. Len(b) + 1
      PROVE  Append(b, Marker)[i] = Cat(b, Filling(0))[i]
  <2>1. i \in 1 .. Len(b) + Len(Filling(0))
    BY <1>1
  <2>2. Cat(b, Filling(0))[i] = IF i <= Len(b) THEN b[i] ELSE Filling(0)[i - Len(b)]
    BY <1>1, <2>1, CatElement
  <2>3. Filling(0)[1] = Marker
    BY DEF Filling
  <2> QED BY <1>2, <1>3, <2>2, <2>3
<1> QED BY <1>2, <1>3, <1>4, SeqEqual

(* Both cases of PaddedTo add the marker and the zeros that are missing. *)
LEMMA PaddedIsFilling ==
  ASSUME NEW S, Marker \in S, 0 \in S, NEW b \in Seq(S), Len(b) < ChunkLen
  PROVE  \E n \in 0 .. ChunkLen - 1 :
           /\ PaddedTo(Append(b, Marker)) = Cat(b, Filling(n))
           /\ \/ Len(b) + n + 1 + LengthLen = ChunkLen
              \/ Len(b) + n + 1 + LengthLen = ChunkLen + ChunkLen
<1> DEFINE marked == Append(b, Marker)
<1>1. marked = Cat(b, Filling(0)) /\ Len(b) \in Nat
  BY Marked, LenProperties
<1>2. Len(marked) = Len(b) + 1
  BY <1>1, FillingType, CatType
<1>3. \A m, n \in Nat : Cat(Cat(b, Filling(m)), Zeros(n)) = Cat(b, Filling(m + n))
  <2> TAKE m, n \in Nat
  <2>1. Filling(m) \in Seq(S) /\ Zeros(n) \in Seq(S)
    BY FillingType, ZerosType
  <2>2. Cat(Cat(b, Filling(m)), Zeros(n)) = Cat(b, Cat(Filling(m), Zeros(n)))
    BY <2>1, CatAssociative
  <2> QED BY <2>2, MoreZeros
<1> HIDE DEF marked
<1>4. CASE Len(marked) > ChunkLen - LengthLen
  <2> DEFINE x == ChunkLen - Len(marked)
             y == ChunkLen - LengthLen
  <2>1. PaddedTo(marked) = Cat(Cat(marked, Zeros(x)), Zeros(y))
    BY <1>4 DEF PaddedTo, Cat
  <2>2. /\ x \in Nat /\ y \in Nat /\ 0 + x = x
        /\ x + y \in 0 .. ChunkLen - 1
        /\ Len(b) + (x + y) + 1 + LengthLen = ChunkLen + ChunkLen
    BY <1>1, <1>2, <1>4, Sizes
  <2> HIDE DEF x, y
  <2>3. Cat(marked, Zeros(x)) = Cat(b, Filling(x))
    BY <1>1, <1>3, <2>2
  <2>4. Cat(Cat(marked, Zeros(x)), Zeros(y)) = Cat(b, Filling(x + y))
    BY <1>3, <2>2, <2>3
  <2> QED BY <2>1, <2>2, <2>4 DEF marked
<1>5. CASE ~ (Len(marked) > ChunkLen - LengthLen)
  <2> DEFINE x == ChunkLen - LengthLen - Len(marked)
  <2>1. PaddedTo(marked) = Cat(marked, Zeros(x))
    BY <1>5 DEF PaddedTo, Cat
  <2>2. /\ x \in Nat /\ 0 + x = x
        /\ x \in 0 .. ChunkLen - 1
        /\ Len(b) + x + 1 + LengthLen = ChunkLen
    BY <1>1, <1>2, <1>5, Sizes
  <2> HIDE DEF x
  <2>3. Cat(marked, Zeros(x)) = Cat(b, Filling(x))
    BY <1>1, <1>3, <2>2
  <2> QED BY <2>1, <2>2, <2>3 DEF marked
<1> QED BY <1>4, <1>5

(* whole is m, t and f one after the other *)
PartsOf(whole, m, t, f) ==
  /\ Len(whole) = Len(m) + Len(t) + Len(f)
  /\ SubSeq(whole, 1, Len(m)) = m
  /\ \A i \in 1 .. Len(t) : whole[Len(m) + i] = t[i]
  /\ SubSeq(whole, Len(m) + Len(t) + 1, Len(whole)) = f

LEMMA Parts ==
  ASSUME NEW S, NEW m \in Seq(S), NEW t \in Seq(S), NEW f \in Seq(S), f # <<>>
  PROVE  PartsOf(Cat(Cat(m, t), f), m, t, f)
<1> DEFINE mt == Cat(m, t)
           p == Cat(mt, f)
<1>1. Len(m) \in Nat /\ Len(t) \in Nat /\ Len(f) \in Nat \ {0}
  BY LenProperties, EmptySeq
<1>2. mt \in Seq(S) /\ Len(mt) = Len(m) + Len(t)
  BY CatType
<1>3. \A i \in 1 .. Len(m) + Len(t) : mt[i] = IF i <= Len(m) THEN m[i] ELSE t[i - Len(m)]
  BY CatElement
<1> HIDE DEF mt
<1>4. p \in Seq(S) /\ Len(p) = Len(m) + Len(t) + Len(f)
  <2>1. p \in Seq(S) /\ Len(p) = Len(mt) + Len(f)
    BY <1>2, CatType
  <2> HIDE DEF p
  <2> QED BY <1>2, <2>1
<1>5. \A i \in 1 .. Len(mt) + Len(f) : p[i] = IF i <= Len(mt) THEN mt[i] ELSE f[i - Len(mt)]
  BY <1>2, CatElement
<1> HIDE DEF p
<1>6. \A i \in 1 .. Len(m) + Len(t) : p[i] = IF i <= Len(m) THEN m[i] ELSE t[i - Len(m)]
  <2> TAKE i \in 1 .. Len(m) + Len(t)
  <2>1. i \in 1 .. Len(mt) + Len(f) /\ i <= Len(mt)
    BY <1>1, <1>2
  <2>2. p[i] = mt[i]
    BY <1>5, <2>1
  <2> QED BY <1>3, <2>2
<1>7. \A i \in 1 .. Len(f) : p[Len(m) + Len(t) + i] = f[i]
  BY <1>1, <1>2, <1>5
<1>8. \A i \in 1 .. Len(p) : p[i] \in S
  BY <1>4, ElementOfSeq
<1>9. SubSeq(p, 1, Len(m)) = m
  <2> DEFINE q == SubSeq(p, 1, Len(m))
  <2>1. 1 \in Int /\ Len(m) \in Int /\ \A i \in 1 .. Len(m) : p[i] \in S
    BY <1>1, <1>4, <1>8
  <2>2. q \in Seq(S) /\ Len(q) = Len(m) /\ \A i \in 1 .. Len(m) : q[i] = p[i]
    BY <1>1, <2>1, SubSeqProperties
  <2> HIDE DEF q
  <2>3. \A i \in 1 .. Len(q) : q[i] = m[i]
    <3> TAKE i \in 1 .. Len(q)
    <3>1. i \in 1 .. Len(m) /\ i \in 1 .. Len(m) + Len(t) /\ i <= Len(m)
      BY <1>1, <2>2
    <3>2. p[i] = m[i]
      BY <1>6, <3>1
    <3> QED BY <2>2, <3>1, <3>2
  <2>4. q = m
    BY <2>2, <2>3, SeqEqual
  <2> QED BY <2>4 DEF q
<1>10. \A i \in 1 .. Len(t) : p[Len(m) + i] = t[i]
  <2> TAKE i \in 1 .. Len(t)
  <2>1. Len(m) + i \in 1 .. Len(m) + Len(t) /\ ~ (Len(m) + i <= Len(m)) /\ Len(m) + i - Len(m) = i
    BY <1>1
  <2> QED BY <1>6, <2>1
<1>11. SubSeq(p, Len(m) + Len(t) + 1, Len(p)) = f
  <2> DEFINE a == Len(m) + Len(t) + 1
             q == SubSeq(p, a, Len(p))
  <2>1. a \in Int /\ Len(p) \in Int /\ \A i \in a .. Len(p) : p[i] \in S
    BY <1>1, <1>4, <1>8
  <2>2. Len(p) - a + 1 = Len(f) /\ a <= Len(p)
    BY <1>1, <1>4
  <2>3. \A i \in 1 .. Len(f) : a + i - 1 = Len(m) + Len(t) + i
    BY <1>1
  <2> HIDE DEF a
  <2>4. q \in Seq(S) /\ Len(q) = Len(f) /\ \A i \in 1 .. Len(f) : q[i] = p[a + i - 1]
    BY <2>1, <2>2, SubSeqProperties
  <2> HIDE DEF q
  <2>5. \A i \in 1 .. Len(q) : q[i] = f[i]
    BY <1>7, <2>3, <2>4
  <2>6. q = f
    BY <2>4, <2>5, SeqEqual
  <2> QED BY <2>6 DEF q, a
<1>12. PartsOf(p, m, t, f)
  BY <1>4, <1>9, <1>10, <1>11 DEF PartsOf
<1> QED BY <1>12 DEF p, mt

LEMMA FieldType ==
  ASSUME NEW S, NEW bits, \A i \in 1 .. LengthLen : LengthField(bits)[i] \in S
  PROVE  LengthField(bits) \in Seq(S) /\ Len(LengthField(bits)) = LengthLen
<1>1. LengthField(bits) = [i \in 1 .. LengthLen |-> LengthField(bits)[i]]
  BY DEF LengthField
<1> HIDE DEF LengthField
<1>2. LengthField(bits) \in [1 .. LengthLen -> S] /\ LengthLen \in Nat
  BY <1>1, Sizes
<1>3. LengthField(bits) \in Seq(S)
  BY <1>2, SeqDef
<1> QED BY <1>2, <1>3, LenProperties

(* finalize() from a state where nothing has been lost *)
LEMMA FinalizeStep ==
  ASSUME ShaInv, Finalize
  PROVE  ShaInv' /\ digest' # <<>>
<1> DEFINE field == LengthField(bitLength)
           S == (Byte \cup {Marker, 0}) \cup {field[i] : i \in 1 .. LengthLen}
           m == Cat(state, buffer)
<1>1. Marker \in S /\ 0 \in S /\ Byte \subseteq S /\ \A i \in 1 .. LengthLen : field[i] \in S
  OBVIOUS
<1> HIDE DEF S
<1>2. /\ state \in Seq(Byte) /\ buffer \in Seq(Byte)
      /\ data = <<>> /\ message \in Seq(Byte)
      /\ Len(state) % ChunkLen = 0 /\ Len(buffer) < ChunkLen
      /\ bitLength = Bits(ByteBits * (Len(state) + Len(buffer)))
  BY DEF ShaInv, SequencesInv, Streamed, Finalize
<1>3. state \in Seq(S) /\ buffer \in Seq(S)
  BY <1>1, <1>2, SeqMonotonic
<1>4. field \in Seq(S) /\ Len(field) = LengthLen
  BY <1>1, FieldType
<1>5. field # <<>>
  BY <1>4, Sizes, EmptySeq
<1>6. PICK n \in 0 .. ChunkLen - 1 :
        /\ PaddedTo(Append(buffer, Marker)) = Cat(buffer, Filling(n))
        /\ \/ Len(buffer) + n + 1 + LengthLen = ChunkLen
           \/ Len(buffer) + n + 1 + LengthLen = ChunkLen + ChunkLen
  BY <1>1, <1>2, <1>3, PaddedIsFilling
<1>7. Filling(n) \in Seq(S) /\ Len(Filling(n)) = n + 1 /\ n \in Nat
  <2>1. n \in Nat
    BY Sizes
  <2> QED BY <1>1, <2>1, FillingType
<1>8. m \in Seq(S) /\ Len(m) = Len(state) + Len(buffer) /\ Len(state) \in Nat /\ Len(buffer) \in Nat
  BY <1>3, CatType, LenProperties
<1>9. digest' = Cat(Cat(m, Filling(n)), field)
  <2>1. digest' = Cat(Cat(state, PaddedTo(Append(buffer, Marker))), field)
    BY DEF Finalize, Cat
  <2>2. Cat(Cat(state, buffer), Filling(n)) = Cat(state, Cat(buffer, Filling(n)))
    BY <1>3, <1>7, CatAssociative
  <2> HIDE DEF field
  <2> QED BY <1>6, <2>1, <2>2
<1>10. digested' = m
  <2>1. message = Cat(m, data)
    BY DEF ShaInv, Streamed, Cat
  <2>2. Cat(m, <<>>) = m
    BY <1>8, CatEmpty
  <2>3. digested' = message
    BY DEF Finalize
  <2> HIDE DEF m
  <2> QED BY <1>2, <2>1, <2>2, <2>3
<1> HIDE DEF m
<1>11. Standard(m, digest') /\ Len(digest') \in Nat \ {0}
  <2> DEFINE p == digest'
  <2>1. /\ Len(p) = Len(m) + (n + 1) + LengthLen
        /\ SubSeq(p, 1, Len(m)) = m
        /\ \A i \in 1 .. n + 1 : p[Len(m) + i] = Filling(n)[i]
        /\ SubSeq(p, Len(m) + (n + 1) + 1, Len(p)) = field
    <3> HIDE DEF field
    <3> HIDE DEF p
    <3>1. p = Cat(Cat(m, Filling(n)), field)
      BY <1>9 DEF p
    <3>2. m \in Seq(S) /\ Filling(n) \in Seq(S) /\ field \in Seq(S) /\ field # <<>>
      BY <1>4, <1>5, <1>7, <1>8
    <3>3. PartsOf(p, m, Filling(n), field)
      BY <3>1, <3>2, Parts
    <3> QED BY <1>4, <1>7, <3>3 DEF PartsOf
  <2>2. Len(m) \in Nat /\ n \in Nat /\ LengthLen \in Nat /\ ChunkLen \in Nat
    BY <1>7, <1>8, Sizes
  <2>3. /\ Len(p) - Len(m) - 1 - LengthLen = n
        /\ Len(p) - LengthLen + 1 = Len(m) + (n + 1) + 1
    <3> HIDE DEF p
    <3> QED BY <2>1, <2>2
  <2>4. Len(p) % ChunkLen = 0
    <3>1. Len(p) = Len(state) + (Len(buffer) + n + 1 + LengthLen)
      <4> HIDE DEF p
      <4> QED BY <1>8, <2>1, <2>2
    <3>2. (Len(state) + ChunkLen) % ChunkLen = 0 /\ Len(state) + ChunkLen \in Nat
      <4>1. Len(state) \in Nat /\ Len(state) % ChunkLen = 0 /\ ChunkLen \in Nat \ {0}
        BY <1>2, <1>8, Sizes
      <4>2. (Len(state) + ChunkLen) % ChunkLen = 0
        BY <4>1, NextMultiple
      <4> QED BY <4>1, <4>2
    <3>3. (Len(state) + ChunkLen + ChunkLen) % ChunkLen = 0
      BY <3>2, Sizes, NextMultiple
    <3>4. Len(state) + (ChunkLen + ChunkLen) = Len(state) + ChunkLen + ChunkLen
      BY <1>8, <2>2
    <3> QED BY <1>6, <3>1, <3>2, <3>3, <3>4
  <2>5. p[Len(m) + 1] = Marker
    <3>1. 1 \in 1 .. n + 1 /\ Filling(n)[1] = Marker
      BY <2>2 DEF Filling
    <3> QED BY <2>1, <3>1
  <2>6. \A i \in Len(m) + 2 .. Len(m) + 1 + n : p[i] = 0
    <3> TAKE i \in Len(m) + 2 .. Len(m) + 1 + n
    <3>1. /\ i - Len(m) \in 1 .. n + 1 /\ i - Len(m) # 1
          /\ Len(m) + (i - Len(m)) = i
      BY <2>2
    <3>2. Filling(n)[i - Len(m)] = 0
      BY <3>1 DEF Filling
    <3> QED BY <2>1, <3>1, <3>2
  <2>7. field = LengthField(Bits(ByteBits * Len(m)))
    BY <1>2, <1>8
  <2> HIDE DEF p, field
  <2>8. SubSeq(p, Len(p) - LengthLen + 1, Len(p)) = LengthField(Bits(ByteBits * Len(m)))
    BY <2>1, <2>3, <2>7
  <2>9. Standard(m, p)
    BY <2>1, <2>3, <2>4, <2>5, <2>6, <2>8 DEF Standard
  <2>10. Len(p) \in Nat \ {0}
    BY <2>1, <2>2
  <2> QED BY <2>9, <2>10 DEF p
<1>12. DigestIsStandard'
  BY <1>10, <1>11 DEF DigestIsStandard, Standard
<1>13. state' = <<>> /\ buffer' = <<>> /\ data' = <<>> /\ message' = <<>> /\ bitLength' = 0
  BY <1>2 DEF Finalize, Reset
<1>14. SequencesInv' /\ digest' # <<>>
  BY <1>11, <1>13, EmptySeq DEF SequencesInv
<1>15. Streamed'
  <2>1. 0 % ChunkLen = 0 /\ 0 % Radix ^ LengthLen = 0
    BY Sizes, ZeroRemainder
  <2>2. ByteBits * (0 + 0) = 0
    BY Sizes
  <2> QED BY <1>13, <2>1, <2>2, Sizes DEF Streamed, Bits
<1> QED BY <1>12, <1>14, <1>15 DEF ShaInv

-----------------------------------------------------------------------------
(* Every step keeps the invariant. *)
LEMMA ShaStepInv == ShaInv /\ [ShaNext]_shaVars => ShaInv'
<1> SUFFICES ASSUME ShaInv, [ShaNext]_shaVars PROVE ShaInv'
  OBVIOUS
<1>1. CASE \E bytes \in Seq(Byte) : Update(bytes)
  BY <1>1, UpdateStep
<1>2. CASE Absorb
  BY <1>2, AbsorbStep
<1>3. CASE Finalize
  BY <1>3, FinalizeStep
<1>4. CASE UNCHANGED shaVars
  BY <1>4 DEF shaVars, hasher, ShaInv, SequencesInv, Streamed, DigestIsStandard
<1> QED BY <1>1, <1>2, <1>3, <1>4 DEF ShaNext

(* "FIPS 180-4 reference" (core/include/ai_hash.h:3): for every size of the *)
(* chunks, and however the bytes are cut into calls of update(), what      *)
(* finalize() hashes is the standard's padding of exactly those bytes.     *)
THEOREM PadsAsTheStandard == ShaSpec => []DigestIsStandard
<1>1. ShaInv => DigestIsStandard
  BY DEF ShaInv
<1> QED BY <1>1, ShaInitInv, ShaStepInv, PTL DEF ShaSpec
-----------------------------------------------------------------------------
(* FlattenSeq: its value, its type and how it follows concatenation *)

(* The first k values of the recursion of FlattenSeq *)
Unfolds(f, s, k) ==
  \A i \in 1 .. k : f[i] = IF i = 1 THEN s[i] ELSE Cat(f[i - 1], s[i])

LEMMA UnfoldingExists ==
  ASSUME NEW T, NEW s \in Seq(Seq(T))
  PROVE  \A k \in 0 .. Len(s) : \E f \in [1 .. k -> Seq(T)] : Unfolds(f, s, k)
<1> DEFINE Q == Seq(T)
           P == {k \in Nat : k <= Len(s) => \E f \in [1 .. k -> Q] : Unfolds(f, s, k)}
<1>1. Len(s) \in Nat /\ \A i \in 1 .. Len(s) : s[i] \in Q
  BY LenProperties, ElementOfSeq
<1>2. \A a, b \in Q : Cat(a, b) \in Q
  BY CatType
<1> HIDE DEF Q
<1>3. 0 \in P
  <2>1. Unfolds([i \in 1 .. 0 |-> s[i]], s, 0) /\ [i \in 1 .. 0 |-> s[i]] \in [1 .. 0 -> Q]
    BY DEF Unfolds
  <2> QED BY <2>1
<1>4. ASSUME NEW k \in P PROVE k + 1 \in P
  <2> SUFFICES ASSUME k + 1 <= Len(s)
               PROVE  \E f \in [1 .. k + 1 -> Q] : Unfolds(f, s, k + 1)
    OBVIOUS
  <2>1. k \in Nat /\ k <= Len(s) /\ k + 1 \in 1 .. Len(s)
    BY <1>1
  <2>2. PICK f \in [1 .. k -> Q] : Unfolds(f, s, k)
    BY <2>1
  <2> DEFINE v == IF k + 1 = 1 THEN s[k + 1] ELSE Cat(f[k], s[k + 1])
             g == [i \in 1 .. k + 1 |-> IF i = k + 1 THEN v ELSE f[i]]
  <2>3. v \in Q
    <3>1. k = 0 \/ f[k] \in Q
      BY <2>1
    <3>2. s[k + 1] \in Q
      BY <1>1, <2>1
    <3> QED BY <1>2, <2>1, <3>1, <3>2
  <2>4. g \in [1 .. k + 1 -> Q]
    <3> HIDE DEF v
    <3> QED BY <2>1, <2>3
  <2>5. ASSUME NEW i \in 1 .. k + 1
        PROVE  g[i] = IF i = 1 THEN s[i] ELSE Cat(g[i - 1], s[i])
    <3>1. CASE i = k + 1
      <4>1. i # 1 => i - 1 = k /\ k \in 1 .. k + 1 /\ k # k + 1
        BY <2>1, <3>1
      <4> QED BY <2>1, <3>1, <4>1
    <3>2. CASE i # k + 1
      <4>1. i \in 1 .. k /\ (i # 1 => i - 1 \in 1 .. k + 1 /\ i - 1 # k + 1)
        BY <2>1, <3>2
      <4>2. f[i] = IF i = 1 THEN s[i] ELSE Cat(f[i - 1], s[i])
        BY <2>2, <4>1 DEF Unfolds
      <4> HIDE DEF v
      <4> QED BY <3>2, <4>1, <4>2
    <3> QED BY <3>1, <3>2
  <2> QED BY <2>4, <2>5 DEF Unfolds
<1>5. P = Nat
  <2>1. P \in SUBSET Nat
    OBVIOUS
  <2> HIDE DEF P
  <2> QED BY <1>3, <1>4, <2>1, Induction
<1>6. \A k \in 0 .. Len(s) : k \in P /\ k <= Len(s)
  <2> HIDE DEF P
  <2> QED BY <1>1, <1>5
<1>7. \A k \in 0 .. Len(s) : \E f \in [1 .. k -> Q] : Unfolds(f, s, k)
  BY <1>6
<1> QED BY <1>7 DEF Q

(* Sequences that begin alike unfold alike. *)
LEMMA UnfoldingUnique ==
  ASSUME NEW s, NEW t, NEW f, NEW g, NEW n \in Nat,
         Unfolds(f, s, n), Unfolds(g, t, n), \A i \in 1 .. n : s[i] = t[i]
  PROVE  \A i \in 1 .. n : f[i] = g[i]
<1> DEFINE P == {k \in Nat : k \in 1 .. n => f[k] = g[k]}
<1>1. 0 \in P
  OBVIOUS
<1>2. ASSUME NEW k \in P PROVE k + 1 \in P
  <2> SUFFICES ASSUME k + 1 \in 1 .. n PROVE f[k + 1] = g[k + 1]
    OBVIOUS
  <2>1. k \in Nat /\ (k + 1 # 1 => k \in 1 .. n) /\ (k + 1) - 1 = k
    OBVIOUS
  <2>2. /\ f[k + 1] = IF k + 1 = 1 THEN s[k + 1] ELSE Cat(f[k], s[k + 1])
        /\ g[k + 1] = IF k + 1 = 1 THEN t[k + 1] ELSE Cat(g[k], t[k + 1])
    BY <2>1 DEF Unfolds
  <2>3. s[k + 1] = t[k + 1] /\ (k + 1 # 1 => f[k] = g[k])
    BY <2>1
  <2> QED BY <2>2, <2>3
<1>3. P = Nat
  <2>1. P \in SUBSET Nat
    OBVIOUS
  <2> HIDE DEF P
  <2> QED BY <1>1, <1>2, <2>1, Induction
<1> QED BY <1>3

LEMMA HeadAndTail ==
  ASSUME NEW S, NEW s \in Seq(S), s # <<>>
  PROVE  Head(s) \in S /\ Tail(s) \in Seq(S) /\ s = Cat(<<Head(s)>>, Tail(s))
<1>1. Len(s) \in Nat \ {0} /\ 1 \in 1 .. Len(s)
  BY EmptySeq
<1>2. Head(s) \in S /\ Tail(s) \in Seq(S) /\ Head(s) = s[1] /\ Tail(s) = SubSeq(s, 2, Len(s))
  BY <1>1, HeadTailProperties, TailIsSubSeq
<1>3. SubSeq(s, 1, Len(s)) = <<s[1]>> \o SubSeq(s, 1 + 1, Len(s))
  <2>1. 1 \in 1 .. Len(s) /\ Len(s) \in 1 .. Len(s)
    BY <1>1
  <2> QED BY <2>1, SubSeqRecursiveFirst
<1> QED BY <1>2, <1>3, SubSeqFull DEF Cat

LEMMA FlattenEmpty == FlattenSeq(<<>>) = <<>>
  BY EmptySeq DEF FlattenSeq

LEMMA FlattenUnfolds ==
  ASSUME NEW T, NEW s \in Seq(Seq(T)), s # <<>>
  PROVE  \E f \in [1 .. Len(s) -> Seq(T)] : Unfolds(f, s, Len(s)) /\ FlattenSeq(s) = f[Len(s)]
<1> DEFINE n == Len(s)
           IsFlat(f) == f = [i \in 1 .. n |-> IF i = 1 THEN s[i] ELSE f[i - 1] \o s[i]]
           h == CHOOSE f : IsFlat(f)
<1>1. n \in Nat \ {0}
  BY EmptySeq
<1>2. FlattenSeq(s) = h[n]
  BY <1>1 DEF FlattenSeq
<1>3. PICK f \in [1 .. n -> Seq(T)] : Unfolds(f, s, n)
  <2>1. n \in 0 .. Len(s)
    BY <1>1
  <2>2. \A k \in 0 .. Len(s) : \E f \in [1 .. k -> Seq(T)] : Unfolds(f, s, k)
    BY UnfoldingExists
  <2> HIDE DEF n, h, IsFlat
  <2> QED BY <2>1, <2>2
<1>4. IsFlat(f)
  <2>1. \A i \in 1 .. n : f[i] = IF i = 1 THEN s[i] ELSE f[i - 1] \o s[i]
    BY <1>3 DEF Unfolds, Cat
  <2> QED BY <2>1
<1>5. IsFlat(h)
  <2> HIDE DEF IsFlat
  <2> QED BY <1>4
<1> HIDE DEF h
<1>6. Unfolds(h, s, n)
  BY <1>5 DEF Unfolds, Cat
<1>7. \A i \in 1 .. n : f[i] = h[i]
  <2> HIDE DEF n
  <2> QED BY <1>1, <1>3, <1>6, UnfoldingUnique
<1>8. n \in 1 .. n
  BY <1>1
<1> QED BY <1>2, <1>3, <1>7, <1>8

LEMMA FlattenType ==
  ASSUME NEW T, NEW s \in Seq(Seq(T))
  PROVE  FlattenSeq(s) \in Seq(T)
<1>1. CASE s = <<>>
  BY <1>1, FlattenEmpty, EmptySeq
<1>2. CASE s # <<>>
  <2>1. PICK f \in [1 .. Len(s) -> Seq(T)] : FlattenSeq(s) = f[Len(s)]
    BY <1>2, FlattenUnfolds
  <2>2. Len(s) \in 1 .. Len(s)
    BY <1>2, EmptySeq
  <2> QED BY <2>1, <2>2
<1> QED BY <1>1, <1>2
LEMMA FlattenAppend ==
  ASSUME NEW T, NEW s \in Seq(Seq(T)), NEW e \in Seq(T)
  PROVE  FlattenSeq(Append(s, e)) = Cat(FlattenSeq(s), e)
<1> DEFINE a == Append(s, e)
           n == Len(s)
           Q == Seq(T)
<1>1. n \in Nat
  BY LenProperties
<1>2. /\ a \in Seq(Q) /\ a # <<>> /\ Len(a) = n + 1
      /\ \A i \in 1 .. n : a[i] = s[i]
      /\ a[n + 1] = e
  <2> HIDE DEF Q
  <2>1. s \in Seq(Q) /\ e \in Q
    BY DEF Q
  <2> QED BY <2>1, AppendProperties
<1> HIDE DEF a, n
<1>3. PICK g : Unfolds(g, a, n + 1) /\ FlattenSeq(a) = g[n + 1]
  BY <1>2, FlattenUnfolds
<1>4. n + 1 \in 1 .. n + 1 /\ (n + 1) - 1 = n /\ 1 .. n \subseteq 1 .. n + 1
  BY <1>1
<1>5. g[n + 1] = IF n + 1 = 1 THEN e ELSE Cat(g[n], e)
  BY <1>2, <1>3, <1>4 DEF Unfolds
<1>6. CASE s = <<>>
  <2>1. n = 0
    BY <1>6, EmptySeq DEF n
  <2>2. Cat(<<>>, e) = e
    BY ConcatEmptySeq DEF Cat
  <2> QED BY <1>3, <1>5, <1>6, <2>1, <2>2, FlattenEmpty DEF a
<1>7. CASE s # <<>>
  <2>1. n # 0 /\ n \in 1 .. n
    BY <1>1, <1>7, EmptySeq DEF n
  <2>2. PICK f : Unfolds(f, s, n) /\ FlattenSeq(s) = f[n]
    BY <1>7, FlattenUnfolds DEF n
  <2>3. Unfolds(g, a, n)
    BY <1>3, <1>4 DEF Unfolds
  <2>4. \A i \in 1 .. n : f[i] = g[i]
    BY <1>1, <1>2, <2>2, <2>3, UnfoldingUnique
  <2>5. n + 1 # 1
    BY <1>1, <2>1
  <2> QED BY <1>3, <1>5, <2>1, <2>2, <2>4, <2>5 DEF a
<1> QED BY <1>6, <1>7

(* Flattening follows concatenation, by induction on the second part. *)
LEMMA FlattenCat ==
  ASSUME NEW T, NEW s \in Seq(Seq(T)), NEW t \in Seq(Seq(T))
  PROVE  FlattenSeq(Cat(s, t)) = Cat(FlattenSeq(s), FlattenSeq(t))
<1> DEFINE Q == Seq(T)
           Follows(u) == FlattenSeq(Cat(s, u)) = Cat(FlattenSeq(s), FlattenSeq(u))
           P == {k \in Nat : \A u \in Seq(Q) : Len(u) = k => Follows(u)}
<1>1. s \in Seq(Q) /\ t \in Seq(Q) /\ FlattenSeq(s) \in Q /\ \A u \in Seq(Q) : FlattenSeq(u) \in Q
  BY FlattenType
<1>2. 0 \in P
  <2> SUFFICES ASSUME NEW u \in Seq(Q), Len(u) = 0 PROVE Follows(u)
    OBVIOUS
  <2>1. u = <<>>
    <3> HIDE DEF Q
    <3> QED BY EmptySeq
  <2>2. Cat(s, <<>>) = s
    <3> HIDE DEF Q
    <3> QED BY <1>1, CatEmpty
  <2>3. Cat(FlattenSeq(s), <<>>) = FlattenSeq(s)
    BY <1>1, CatEmpty
  <2> QED BY <2>1, <2>2, <2>3, FlattenEmpty
<1>3. ASSUME NEW k \in P PROVE k + 1 \in P
  <2> SUFFICES ASSUME NEW u \in Seq(Q), Len(u) = k + 1 PROVE Follows(u)
    OBVIOUS
  <2>1. PICK v \in Seq(Q), e \in Q : u = Append(v, e)
    <3> HIDE DEF Q
    <3>1. u # <<>>
      BY EmptySeq
    <3> QED BY <3>1, SequenceEmptyOrAppend
  <2>2. Len(v) = k
    <3> HIDE DEF Q
    <3>1. Len(Append(v, e)) = Len(v) + 1 /\ Len(v) \in Nat
      BY AppendProperties, LenProperties
    <3> QED BY <2>1, <3>1
  <2>3. FlattenSeq(Cat(s, v)) = Cat(FlattenSeq(s), FlattenSeq(v))
    BY <2>2
  <2>4. Cat(s, u) = Append(Cat(s, v), e) /\ Cat(s, v) \in Seq(Q)
    <3> HIDE DEF Q
    <3>1. <<e>> \in Seq(Q)
      OBVIOUS
    <3>2. Append(v, e) = Cat(v, <<e>>)
      BY AppendIsConcat DEF Cat
    <3>3. Cat(s, v) \in Seq(Q)
      BY <1>1, CatType
    <3>4. Append(Cat(s, v), e) = Cat(Cat(s, v), <<e>>)
      BY <3>3, AppendIsConcat DEF Cat
    <3>5. Cat(Cat(s, v), <<e>>) = Cat(s, Cat(v, <<e>>))
      <4> DEFINE w == <<e>>
      <4>1. w \in Seq(Q)
        BY <3>1
      <4> HIDE DEF w
      <4>2. Cat(Cat(s, v), w) = Cat(s, Cat(v, w))
        BY <1>1, <4>1, CatAssociative
      <4> QED BY <4>2 DEF w
    <3> QED BY <2>1, <3>2, <3>3, <3>4, <3>5
  <2>5. /\ FlattenSeq(Append(Cat(s, v), e)) = Cat(FlattenSeq(Cat(s, v)), e)
        /\ FlattenSeq(Append(v, e)) = Cat(FlattenSeq(v), e)
    BY <2>4, FlattenAppend
  <2>6. Cat(Cat(FlattenSeq(s), FlattenSeq(v)), e) = Cat(FlattenSeq(s), Cat(FlattenSeq(v), e))
    BY <1>1, CatAssociative
  <2> QED BY <2>1, <2>3, <2>4, <2>5, <2>6
<1>4. P = Nat
  <2>1. P \in SUBSET Nat
    OBVIOUS
  <2> HIDE DEF P
  <2> QED BY <1>2, <1>3, <2>1, Induction
<1>5. Len(t) \in P
  <2> HIDE DEF P, Q
  <2> QED BY <1>1, <1>4, LenProperties
<1> HIDE DEF Follows
<1>6. Follows(t)
  BY <1>1, <1>5
<1> QED BY <1>6 DEF Follows

LEMMA FlattenSingle ==
  ASSUME NEW T, NEW e \in Seq(T)
  PROVE  FlattenSeq(<<e>>) = e
<1> DEFINE Q == Seq(T)
<1>1. <<>> \in Seq(Q)
  BY EmptySeq
<1>2. Append(<<>>, e) = <<e>>
  <2> HIDE DEF Q
  <2>1. e \in Q
    BY DEF Q
  <2>2. Append(<<>>, e) = <<>> \o <<e>> /\ <<e>> \in Seq(Q)
    BY <1>1, <2>1, AppendIsConcat
  <2> QED BY <2>2, ConcatEmptySeq
<1>3. FlattenSeq(Append(<<>>, e)) = Cat(FlattenSeq(<<>>), e)
  BY <1>1, FlattenAppend
<1>4. Cat(<<>>, e) = e
  BY ConcatEmptySeq DEF Cat
<1> QED BY <1>2, <1>3, <1>4, FlattenEmpty

(* What flattening gives comes from the head and then from the tail. *)
LEMMA FlattenHead ==
  ASSUME NEW T, NEW s \in Seq(Seq(T)), s # <<>>
  PROVE  /\ Head(s) \in Seq(T) /\ Tail(s) \in Seq(Seq(T))
         /\ FlattenSeq(s) = Cat(Head(s), FlattenSeq(Tail(s)))
<1> DEFINE Q == Seq(T)
<1>1. Head(s) \in Q /\ Tail(s) \in Seq(Q) /\ s = Cat(<<Head(s)>>, Tail(s))
  <2> HIDE DEF Q
  <2>1. s \in Seq(Q)
    BY DEF Q
  <2> QED BY <2>1, HeadAndTail
<1>2. <<Head(s)>> \in Seq(Q)
  <2> HIDE DEF Q
  <2> QED BY <1>1
<1>3. FlattenSeq(Cat(<<Head(s)>>, Tail(s))) = Cat(FlattenSeq(<<Head(s)>>), FlattenSeq(Tail(s)))
  BY <1>1, <1>2, FlattenCat
<1>4. FlattenSeq(<<Head(s)>>) = Head(s)
  BY <1>1, FlattenSingle
<1> QED BY <1>1, <1>3, <1>4
-----------------------------------------------------------------------------
(* Words: numbers in positional notation *)

LEMMA Powers == \A i \in 0 .. WordLen : Radix ^ i \in Nat \ {0}
<1> DEFINE P == {k \in Nat : k \in 0 .. WordLen => Radix ^ k \in Nat \ {0}}
<1>1. Radix \in Nat \ {0} /\ WordLen \in Nat
  BY PowerAssumption, CacheKeyAssumption
<1>2. 0 \in P
  BY WordAssumption
<1>3. ASSUME NEW k \in P PROVE k + 1 \in P
  <2> SUFFICES ASSUME k + 1 \in 0 .. WordLen PROVE Radix ^ (k + 1) \in Nat \ {0}
    OBVIOUS
  <2>1. k \in 0 .. WordLen - 1 /\ k \in 0 .. WordLen
    BY <1>1
  <2>2. Radix ^ (k + 1) = Radix * Radix ^ k /\ Radix ^ k \in Nat \ {0}
    BY <2>1, WordAssumption
  <2>3. \A a, b \in Nat \ {0} : a * b \in Nat \ {0}
    OBVIOUS
  <2> QED BY <1>1, <2>2, <2>3
<1>4. P = Nat
  <2>1. P \in SUBSET Nat
    OBVIOUS
  <2> HIDE DEF P
  <2> QED BY <1>2, <1>3, <2>1, Induction
<1> QED BY <1>1, <1>4

LEMMA WordSizes ==
  /\ WordLen \in Nat \ {0} /\ Radix \in Nat /\ Radix > 7
  /\ WordSize \in Nat /\ WordSize > 7
<1>1. WordLen \in Nat \ {0} /\ Radix \in Nat /\ Radix > 7
  BY CacheKeyAssumption, PowerAssumption DEF Byte
<1> DEFINE k == WordLen - 1
<1>2. k \in 0 .. WordLen - 1 /\ k \in 0 .. WordLen /\ k + 1 = WordLen
  BY <1>1
<1>3. WordSize = Radix * Radix ^ k /\ Radix ^ k \in Nat \ {0}
  BY <1>2, WordAssumption, Powers DEF WordSize
<1>4. \A a, b \in Nat : a > 7 /\ b # 0 => a * b \in Nat /\ a * b > 7
  <2> TAKE a, b \in Nat
  <2> HAVE a > 7 /\ b # 0
  <2>1. a * b = a * (b - 1) + a /\ a * (b - 1) \in Nat
    OBVIOUS
  <2> QED BY <2>1
<1> QED BY <1>1, <1>3, <1>4

LEMMA WordType ==
  ASSUME NEW v \in Nat
  PROVE  Word(v) \in Seq(Byte) /\ Len(Word(v)) = WordLen
<1>1. ASSUME NEW i \in 1 .. WordLen
      PROVE  (v \div Radix ^ (i - 1)) % Radix \in Byte
  <2>1. i - 1 \in 0 .. WordLen
    BY WordSizes
  <2>2. Radix ^ (i - 1) \in Nat \ {0} /\ Radix \in Nat \ {0}
    BY <2>1, Powers, WordSizes
  <2> DEFINE m == Radix ^ (i - 1)
  <2> HIDE DEF m
  <2>3. m \in Nat \ {0}
    BY <2>2 DEF m
  <2>4. v \div m \in Nat
    BY <2>3, Division
  <2>5. (v \div m) % Radix \in 0 .. Radix - 1
    BY <2>2, <2>4, Division
  <2> QED BY <2>5 DEF m, Byte
<1>2. Word(v) \in [1 .. WordLen -> Byte] /\ WordLen \in Nat
  BY <1>1, WordSizes DEF Word
<1> HIDE DEF Word
<1>3. Word(v) \in Seq(Byte)
  BY <1>2, SeqDef
<1> QED BY <1>2, <1>3, LenProperties

(* One digit more of a number *)
LEMMA NextDigit ==
  ASSUME NEW r \in Nat \ {0}, NEW m \in Nat \ {0}, NEW v \in Nat
  PROVE  v % (r * m) = m * ((v \div m) % r) + (v % m)
<1> DEFINE q == v \div m
           l == v % m
           d == q % r
           p == q \div r
           n == r * m
           h == v \div n
           k == v % n
<1>1. v = m * q + l /\ l \in 0 .. m - 1 /\ q \in Nat
  BY Division
<1> HIDE DEF q, l
<1>2. q = r * p + d /\ d \in 0 .. r - 1 /\ p \in Nat
  BY <1>1, Division
<1>3. n \in Nat \ {0}
  OBVIOUS
<1> HIDE DEF n
<1>4. v = n * h + k /\ k \in 0 .. n - 1 /\ h \in Nat
  BY <1>3, Division
<1> HIDE DEF p, d, h, k
<1>5. v = n * p + (m * d + l)
  <2>1. m * q = m * (r * p) + m * d
    BY <1>1, <1>2
  <2>2. m * (r * p) = n * p
    BY <1>2 DEF n
  <2> QED BY <1>1, <1>2, <1>3, <2>1, <2>2
<1>6. m * d + l \in 0 .. n - 1
  <2>1. n = m * (r - 1 - d) + m * d + m
    BY <1>2 DEF n
  <2>2. m * (r - 1 - d) \in Nat /\ m * d \in Nat
    BY <1>2
  <2> QED BY <1>1, <1>3, <2>1, <2>2
<1>7. k = m * d + l
  <2>1. n * h + k = n * p + (m * d + l)
    BY <1>4, <1>5
  <2>2. h \in Int /\ p \in Int
    BY <1>2, <1>4
  <2> DEFINE s == m * d + l
  <2> HIDE DEF s
  <2>3. n * h + k = n * p + s /\ s \in 0 .. n - 1
    BY <1>6, <2>1 DEF s
  <2>4. k = s
    BY <1>3, <1>4, <2>2, <2>3, RemainderUnique
  <2> QED BY <2>4 DEF s
<1> QED BY <1>7 DEF k, n, d, q, l

(* A word tells the numbers apart that fit in it. *)
LEMMA WordInjective ==
  ASSUME NEW v \in 0 .. WordSize - 1, NEW w \in 0 .. WordSize - 1, Word(v) = Word(w)
  PROVE  v = w
<1> DEFINE P == {k \in Nat : k \in 0 .. WordLen => v % Radix ^ k = w % Radix ^ k}
<1>1. WordLen \in Nat /\ Radix \in Nat \ {0} /\ v \in Nat /\ w \in Nat /\ WordSize \in Nat
  BY WordSizes
<1>2. 0 \in P
  <2>1. v % 1 = 0 /\ w % 1 = 0
    BY <1>1
  <2> QED BY <2>1, WordAssumption
<1>3. ASSUME NEW k \in P PROVE k + 1 \in P
  <2> SUFFICES ASSUME k + 1 \in 0 .. WordLen PROVE v % Radix ^ (k + 1) = w % Radix ^ (k + 1)
    OBVIOUS
  <2>1. k \in 0 .. WordLen - 1 /\ k \in 0 .. WordLen /\ k + 1 \in 1 .. WordLen /\ (k + 1) - 1 = k
    BY <1>1
  <2> DEFINE m == Radix ^ k
  <2>2. m \in Nat \ {0} /\ Radix ^ (k + 1) = Radix * m /\ v % m = w % m
    BY <2>1, Powers, WordAssumption
  <2>3. (v \div m) % Radix = (w \div m) % Radix
    <3>1. Word(v)[k + 1] = Word(w)[k + 1]
      OBVIOUS
    <3> QED BY <2>1, <3>1 DEF Word
  <2> HIDE DEF m
  <2>4. /\ v % (Radix * m) = m * ((v \div m) % Radix) + (v % m)
        /\ w % (Radix * m) = m * ((w \div m) % Radix) + (w % m)
    BY <1>1, <2>2, NextDigit
  <2> QED BY <2>2, <2>3, <2>4
<1>4. P = Nat
  <2>1. P \in SUBSET Nat
    OBVIOUS
  <2> HIDE DEF P
  <2> QED BY <1>2, <1>3, <2>1, Induction
<1>5. v % WordSize = w % WordSize
  BY <1>1, <1>4 DEF WordSize
<1>6. \A n \in Nat : n < WordSize => n % WordSize = n
  BY <1>1
<1> QED BY <1>1, <1>5, <1>6
-----------------------------------------------------------------------------
(* What add() feeds for one field: no field's bytes begin another's. *)

LEMMA CatCancel ==
  ASSUME NEW S, NEW a \in Seq(S), NEW b \in Seq(S), NEW u \in Seq(S), NEW v \in Seq(S),
         Len(a) = Len(b), Cat(a, u) = Cat(b, v)
  PROVE  a = b /\ u = v
<1>1. Len(a) \in Nat /\ Len(u) \in Nat /\ Len(v) \in Nat
  BY LenProperties
<1>2. Len(u) = Len(v)
  <2>1. Len(Cat(a, u)) = Len(a) + Len(u) /\ Len(Cat(b, v)) = Len(b) + Len(v)
    BY CatType
  <2> QED BY <1>1, <2>1
<1>3. \A i \in 1 .. Len(a) : a[i] = b[i]
  <2> TAKE i \in 1 .. Len(a)
  <2>1. i \in 1 .. Len(a) + Len(u) /\ i \in 1 .. Len(b) + Len(v) /\ i <= Len(a) /\ i <= Len(b)
    BY <1>1
  <2>2. Cat(a, u)[i] = a[i] /\ Cat(b, v)[i] = b[i]
    BY <2>1, CatElement
  <2> QED BY <2>2
<1>4. a = b
  BY <1>3, SeqEqual
<1>5. \A i \in 1 .. Len(u) : u[i] = v[i]
  <2> TAKE i \in 1 .. Len(u)
  <2> DEFINE k == Len(a) + i
  <2>1. /\ k \in 1 .. Len(a) + Len(u) /\ k \in 1 .. Len(b) + Len(v)
        /\ ~ (k <= Len(a)) /\ ~ (k <= Len(b)) /\ k - Len(a) = i /\ k - Len(b) = i
    BY <1>1, <1>2
  <2> HIDE DEF k
  <2>2. Cat(a, u)[k] = IF k <= Len(a) THEN a[k] ELSE u[k - Len(a)]
    BY <2>1, CatElement
  <2>3. Cat(b, v)[k] = IF k <= Len(b) THEN b[k] ELSE v[k - Len(b)]
    BY <2>1, CatElement
  <2> QED BY <2>1, <2>2, <2>3
<1>6. u = v
  BY <1>2, <1>5, SeqEqual
<1> QED BY <1>4, <1>6

LEMMA FlattenTwo ==
  ASSUME NEW T, NEW a \in Seq(T), NEW b \in Seq(T)
  PROVE  FlattenSeq(<<a, b>>) = Cat(a, b)
<1> DEFINE Q == Seq(T)
<1>1. a \in Q /\ b \in Q
  OBVIOUS
<1>2. <<a, b>> \in Seq(Q) /\ <<a, b>> # <<>> /\ Head(<<a, b>>) = a /\ Tail(<<a, b>>) = <<b>>
  <2> HIDE DEF Q
  <2> QED BY <1>1
<1>3. FlattenSeq(<<a, b>>) = Cat(a, FlattenSeq(<<b>>))
  BY <1>2, FlattenHead
<1> QED BY <1>3, FlattenSingle

LEMMA FlattenThree ==
  ASSUME NEW T, NEW a \in Seq(T), NEW b \in Seq(T), NEW c \in Seq(T)
  PROVE  FlattenSeq(<<a, b, c>>) = Cat(a, Cat(b, c))
<1> DEFINE Q == Seq(T)
<1>1. a \in Q /\ b \in Q /\ c \in Q
  OBVIOUS
<1>2. /\ <<a, b, c>> \in Seq(Q) /\ <<a, b, c>> # <<>>
      /\ Head(<<a, b, c>>) = a /\ Tail(<<a, b, c>>) = <<b, c>>
  <2> HIDE DEF Q
  <2> QED BY <1>1
<1>3. FlattenSeq(<<a, b, c>>) = Cat(a, FlattenSeq(<<b, c>>))
  BY <1>2, FlattenHead
<1> QED BY <1>3, FlattenTwo

WordTags == {"int32", "float"}
LongTags == {"int64", "double", "op_hash"}
Words == 0 .. WordSize - 1
Longs == 0 .. WordSize * WordSize - 1

LEMMA FieldFacts ==
  ASSUME NEW f \in Fields
  PROVE  /\ f = Field(f.tag, f.value)
         /\ \/ f.tag = "string" /\ f.value \in Seq(Byte) /\ Len(f.value) \in Words
            \/ f.tag \in WordTags /\ f.value \in Words
            \/ f.tag \in LongTags /\ f.value \in Longs
            \/ f.tag = "bool" /\ f.value \in 0 .. 1
<1>1. CASE f \in [tag : {"string"}, value : Strings]
  <2>1. f.tag = "string" /\ f.value \in Strings /\ f = [tag |-> f.tag, value |-> f.value]
    BY <1>1
  <2>2. f.value \in Seq(Byte) /\ Len(f.value) < WordSize /\ Len(f.value) \in Nat
    BY <2>1, LenProperties DEF Strings
  <2> QED BY <2>1, <2>2, WordSizes DEF Field, Words
<1>2. CASE f \in [tag : WordTags, value : Words]
  BY <1>2 DEF Field
<1>3. CASE f \in [tag : LongTags, value : Longs]
  BY <1>3 DEF Field
<1>4. CASE f \in [tag : {"bool"}, value : 0 .. 1]
  BY <1>4 DEF Field
<1> QED BY <1>1, <1>2, <1>3, <1>4 DEF Fields, WordTags, LongTags, Words, Longs

(* The bytes of a field behind its tag *)
Body(f) ==
  IF f.tag = "string" THEN Cat(Word(Len(f.value)), f.value)
  ELSE IF f.tag \in WordTags THEN Word(f.value)
  ELSE IF f.tag \in LongTags THEN Cat(Word(f.value % WordSize), Word(f.value \div WordSize))
  ELSE <<f.value>>

LEMMA Halves ==
  ASSUME NEW n \in Longs
  PROVE  /\ n % WordSize \in Words /\ n \div WordSize \in Words
         /\ n = WordSize * (n \div WordSize) + (n % WordSize)
<1> DEFINE m == WordSize
           q == n \div m
           r == n % m
<1>1. m \in Nat \ {0} /\ n \in Nat /\ n < m * m
  BY WordSizes DEF Longs
<1> HIDE DEF m
<1>2. n = m * q + r /\ r \in 0 .. m - 1 /\ q \in Nat
  BY <1>1, Division
<1> HIDE DEF q, r
<1>3. q < m
  <2> SUFFICES ASSUME q >= m PROVE FALSE
    BY <1>1, <1>2
  <2>1. m * q = m * m + m * (q - m) /\ m * (q - m) \in Nat
    BY <1>1, <1>2
  <2> QED BY <1>1, <1>2, <2>1
<1> QED BY <1>1, <1>2, <1>3 DEF q, r, m, Words

LEMMA TagType ==
  ASSUME NEW t \in {"string", "int32", "int64", "float", "double", "bool", "op_hash"}
  PROVE  Tag(t) \in Byte /\ <<Tag(t)>> \in Seq(Byte) /\ Len(<<Tag(t)>>) = 1
<1>1. Tag(t) \in 1 .. 7
  BY DEF Tag
<1>2. Tag(t) \in Byte
  BY <1>1, WordSizes DEF Byte
<1> QED BY <1>2

LEMMA BodyType ==
  ASSUME NEW f \in Fields
  PROVE  Body(f) \in Seq(Byte)
<1>1. CASE f.tag = "string"
  <2>1. f.value \in Seq(Byte) /\ Len(f.value) \in Nat
    BY <1>1, FieldFacts, LenProperties DEF WordTags, LongTags
  <2>2. Word(Len(f.value)) \in Seq(Byte)
    BY <2>1, WordType
  <2> QED BY <1>1, <2>1, <2>2, CatType DEF Body
<1>2. CASE f.tag \in WordTags
  <2>1. f.value \in Nat
    BY <1>2, FieldFacts, WordSizes DEF WordTags, LongTags, Words
  <2> QED BY <1>2, <2>1, WordType DEF Body, WordTags
<1>3. CASE f.tag \in LongTags
  <2>1. f.value \in Longs
    BY <1>3, FieldFacts DEF WordTags, LongTags
  <2>2. f.value % WordSize \in Nat /\ f.value \div WordSize \in Nat
    BY <2>1, Halves, WordSizes DEF Words
  <2>3. Word(f.value % WordSize) \in Seq(Byte) /\ Word(f.value \div WordSize) \in Seq(Byte)
    BY <2>2, WordType
  <2>4. Body(f) = Cat(Word(f.value % WordSize), Word(f.value \div WordSize))
    BY <1>3 DEF Body, WordTags, LongTags
  <2> QED BY <2>3, <2>4, CatType
<1>4. CASE f.tag = "bool"
  <2>1. f.value \in Byte
    BY <1>4, FieldFacts, WordSizes DEF WordTags, LongTags, Byte
  <2>2. Body(f) = <<f.value>>
    BY <1>4 DEF Body, WordTags, LongTags
  <2> QED BY <2>1, <2>2
<1> QED BY <1>1, <1>2, <1>3, <1>4, FieldFacts
LEMMA PiecesOfTwo ==
  ASSUME NEW a \in Seq(Byte), NEW b \in Seq(Byte)
  PROVE  <<a, b>> \in Seq(Seq(Byte)) /\ <<a, b>> # <<>>
<1> DEFINE Q == Seq(Byte)
<1>1. a \in Q /\ b \in Q
  OBVIOUS
<1> HIDE DEF Q
<1>2. <<a, b>> \in Seq(Q) /\ <<a, b>> # <<>>
  BY <1>1
<1> QED BY <1>2 DEF Q

LEMMA PiecesOfThree ==
  ASSUME NEW a \in Seq(Byte), NEW b \in Seq(Byte), NEW c \in Seq(Byte)
  PROVE  <<a, b, c>> \in Seq(Seq(Byte)) /\ <<a, b, c>> # <<>>
<1> DEFINE Q == Seq(Byte)
<1>1. a \in Q /\ b \in Q /\ c \in Q
  OBVIOUS
<1> HIDE DEF Q
<1>2. <<a, b, c>> \in Seq(Q) /\ <<a, b, c>> # <<>>
  BY <1>1
<1> QED BY <1>2 DEF Q

LEMMA SmallRemainder ==
  ASSUME NEW n \in Words
  PROVE  n % WordSize = n
  BY WordSizes DEF Words

(* The pieces of a field are its tag and its body. *)
LEMMA Code ==
  ASSUME NEW f \in Fields
  PROVE  /\ Pieces(f) \in Seq(Seq(Byte)) /\ Pieces(f) # <<>>
         /\ FlattenSeq(Pieces(f)) = Cat(<<Tag(f.tag)>>, Body(f))
<1> DEFINE t == <<Tag(f.tag)>>
<1>1. t \in Seq(Byte)
  <2>1. f.tag \in {"string", "int32", "int64", "float", "double", "bool", "op_hash"}
    BY FieldFacts DEF WordTags, LongTags
  <2> QED BY <2>1, TagType
<1>2. CASE f.tag = "string"
  <2> DEFINE w == Word(Len(f.value))
  <2>1. f.value \in Seq(Byte) /\ Len(f.value) \in Words /\ Len(f.value) \in Nat
    BY <1>2, FieldFacts, LenProperties DEF WordTags, LongTags
  <2>2. w \in Seq(Byte)
    BY <2>1, WordType
  <2>3. Pieces(f) = <<t, w, f.value>>
    <3>1. Len(f.value) % WordSize = Len(f.value)
      BY <2>1, SmallRemainder
    <3> QED BY <1>2, <3>1 DEF Pieces
  <2>4. Body(f) = Cat(w, f.value)
    BY <1>2 DEF Body
  <2> HIDE DEF t, w
  <2>5. FlattenSeq(<<t, w, f.value>>) = Cat(t, Cat(w, f.value))
    BY <1>1, <2>1, <2>2, FlattenThree
  <2>6. <<t, w, f.value>> \in Seq(Seq(Byte)) /\ <<t, w, f.value>> # <<>>
    BY <1>1, <2>1, <2>2, PiecesOfThree
  <2> QED BY <2>3, <2>4, <2>5, <2>6 DEF t
<1>3. CASE f.tag \in WordTags
  <2> DEFINE w == Word(f.value)
  <2>1. f.value \in Nat
    BY <1>3, FieldFacts, WordSizes DEF WordTags, LongTags, Words
  <2>2. w \in Seq(Byte)
    BY <2>1, WordType
  <2>3. Pieces(f) = <<t, w>>
    BY <1>3 DEF Pieces, WordTags
  <2>4. Body(f) = w
    BY <1>3 DEF Body, WordTags
  <2> HIDE DEF t, w
  <2>5. FlattenSeq(<<t, w>>) = Cat(t, w)
    BY <1>1, <2>2, FlattenTwo
  <2>6. <<t, w>> \in Seq(Seq(Byte)) /\ <<t, w>> # <<>>
    BY <1>1, <2>2, PiecesOfTwo
  <2> QED BY <2>3, <2>4, <2>5, <2>6 DEF t
<1>4. CASE f.tag \in LongTags
  <2> DEFINE l == Word(f.value % WordSize)
             h == Word(f.value \div WordSize)
  <2>1. f.value \in Longs
    BY <1>4, FieldFacts DEF WordTags, LongTags
  <2>2. f.value % WordSize \in Nat /\ f.value \div WordSize \in Nat
    BY <2>1, Halves, WordSizes DEF Words
  <2>3. l \in Seq(Byte) /\ h \in Seq(Byte)
    BY <2>2, WordType
  <2>4. Pieces(f) = <<t, l, h>>
    BY <1>4 DEF Pieces, LongTags
  <2>5. Body(f) = Cat(l, h)
    BY <1>4 DEF Body, WordTags, LongTags
  <2> HIDE DEF t, l, h
  <2>6. FlattenSeq(<<t, l, h>>) = Cat(t, Cat(l, h))
    BY <1>1, <2>3, FlattenThree
  <2>7. <<t, l, h>> \in Seq(Seq(Byte)) /\ <<t, l, h>> # <<>>
    BY <1>1, <2>3, PiecesOfThree
  <2> QED BY <2>4, <2>5, <2>6, <2>7 DEF t
<1>5. CASE f.tag = "bool"
  <2> DEFINE w == <<f.value>>
  <2>1. f.value \in Byte
    BY <1>5, FieldFacts, WordSizes DEF WordTags, LongTags, Byte
  <2>2. w \in Seq(Byte)
    BY <2>1
  <2>3. Pieces(f) = <<t, w>>
    BY <1>5 DEF Pieces
  <2>4. Body(f) = w
    BY <1>5 DEF Body, WordTags, LongTags
  <2> HIDE DEF t, w
  <2>5. FlattenSeq(<<t, w>>) = Cat(t, w)
    BY <1>1, <2>2, FlattenTwo
  <2>6. <<t, w>> \in Seq(Seq(Byte)) /\ <<t, w>> # <<>>
    BY <1>1, <2>2, PiecesOfTwo
  <2> QED BY <2>3, <2>4, <2>5, <2>6 DEF t
<1> QED BY <1>2, <1>3, <1>4, <1>5, FieldFacts

(* Where the bytes of two fields agree, the fields and the rest agree. *)
LEMMA BodyPrefixFree ==
  ASSUME NEW f \in Fields, NEW g \in Fields, f.tag = g.tag,
         NEW u \in Seq(Byte), NEW v \in Seq(Byte), Cat(Body(f), u) = Cat(Body(g), v)
  PROVE  f.value = g.value /\ u = v
<1>1. CASE f.tag = "string"
  <2> DEFINE x == f.value
             y == g.value
             a == Word(Len(x))
             b == Word(Len(y))
  <2>1. /\ x \in Seq(Byte) /\ Len(x) \in Words /\ Len(x) \in Nat
        /\ y \in Seq(Byte) /\ Len(y) \in Words /\ Len(y) \in Nat
    BY <1>1, FieldFacts, LenProperties DEF WordTags, LongTags
  <2>2. a \in Seq(Byte) /\ b \in Seq(Byte) /\ Len(a) = Len(b)
    BY <2>1, WordType
  <2>3. Body(f) = Cat(a, x) /\ Body(g) = Cat(b, y)
    BY <1>1 DEF Body
  <2>4. Cat(x, u) \in Seq(Byte) /\ Cat(y, v) \in Seq(Byte)
    BY <2>1, CatType
  <2> HIDE DEF a, b, x, y
  <2>5. Cat(a, Cat(x, u)) = Cat(b, Cat(y, v))
    <3>1. Cat(Cat(a, x), u) = Cat(a, Cat(x, u))
      BY <2>1, <2>2, CatAssociative
    <3>2. Cat(Cat(b, y), v) = Cat(b, Cat(y, v))
      BY <2>1, <2>2, CatAssociative
    <3> QED BY <2>3, <3>1, <3>2
  <2>6. a = b /\ Cat(x, u) = Cat(y, v)
    BY <2>2, <2>4, <2>5, CatCancel
  <2>7. Len(x) = Len(y)
    BY <2>1, <2>6, WordInjective DEF a, b, Words
  <2>8. x = y /\ u = v
    BY <2>1, <2>6, <2>7, CatCancel
  <2> QED BY <2>8 DEF x, y
<1>2. CASE f.tag \in WordTags
  <2> DEFINE a == Word(f.value)
             b == Word(g.value)
  <2>1. /\ f.value \in Words /\ f.value \in Nat
        /\ g.value \in Words /\ g.value \in Nat
    BY <1>2, FieldFacts, WordSizes DEF WordTags, LongTags, Words
  <2>2. a \in Seq(Byte) /\ b \in Seq(Byte) /\ Len(a) = Len(b)
    BY <2>1, WordType
  <2>3. Body(f) = a /\ Body(g) = b
    BY <1>2 DEF Body, WordTags
  <2> HIDE DEF a, b
  <2>4. a = b /\ u = v
    BY <2>2, <2>3, CatCancel
  <2>5. f.value = g.value
    BY <2>1, <2>4, WordInjective DEF a, b, Words
  <2> QED BY <2>4, <2>5
<1>3. CASE f.tag \in LongTags
  <2> DEFINE a == Word(f.value % WordSize)
             b == Word(g.value % WordSize)
             c == Word(f.value \div WordSize)
             d == Word(g.value \div WordSize)
  <2>1. f.value \in Longs /\ g.value \in Longs
    BY <1>3, FieldFacts DEF WordTags, LongTags
  <2>2. /\ f.value % WordSize \in Words /\ g.value % WordSize \in Words
        /\ f.value \div WordSize \in Words /\ g.value \div WordSize \in Words
        /\ f.value = WordSize * (f.value \div WordSize) + (f.value % WordSize)
        /\ g.value = WordSize * (g.value \div WordSize) + (g.value % WordSize)
    BY <2>1, Halves
  <2>3. \A n \in Words : n \in Nat
    BY WordSizes DEF Words
  <2>4. a \in Seq(Byte) /\ b \in Seq(Byte) /\ Len(a) = Len(b)
    BY <2>2, <2>3, WordType
  <2>5. c \in Seq(Byte) /\ d \in Seq(Byte) /\ Len(c) = Len(d)
    BY <2>2, <2>3, WordType
  <2>6. Body(f) = Cat(a, c) /\ Body(g) = Cat(b, d)
    BY <1>3 DEF Body, WordTags, LongTags
  <2> HIDE DEF a, b, c, d
  <2>7. Cat(c, u) \in Seq(Byte) /\ Cat(d, v) \in Seq(Byte)
    BY <2>5, CatType
  <2>8. Cat(a, Cat(c, u)) = Cat(b, Cat(d, v))
    <3>1. Cat(Cat(a, c), u) = Cat(a, Cat(c, u))
      BY <2>4, <2>5, CatAssociative
    <3>2. Cat(Cat(b, d), v) = Cat(b, Cat(d, v))
      BY <2>4, <2>5, CatAssociative
    <3> QED BY <2>6, <3>1, <3>2
  <2>9. a = b /\ Cat(c, u) = Cat(d, v)
    BY <2>4, <2>7, <2>8, CatCancel
  <2>10. c = d /\ u = v
    BY <2>5, <2>9, CatCancel
  <2>11. f.value % WordSize = g.value % WordSize
    BY <2>2, <2>9, WordInjective DEF a, b, Words
  <2>12. f.value \div WordSize = g.value \div WordSize
    BY <2>2, <2>10, WordInjective DEF c, d, Words
  <2> QED BY <2>2, <2>10, <2>11, <2>12
<1>4. CASE f.tag = "bool"
  <2> DEFINE a == <<f.value>>
             b == <<g.value>>
  <2>1. f.value \in Byte /\ g.value \in Byte
    <3>1. f.value \in 0 .. 1
      BY <1>4, FieldFacts DEF WordTags, LongTags
    <3>2. g.tag = "bool"
      BY <1>4
    <3>3. g.value \in 0 .. 1
      BY <3>2, FieldFacts DEF WordTags, LongTags
    <3> QED BY <3>1, <3>3, WordSizes DEF Byte
  <2>2. a \in Seq(Byte) /\ b \in Seq(Byte) /\ Len(a) = Len(b)
    BY <2>1
  <2>3. Body(f) = a /\ Body(g) = b
    BY <1>4 DEF Body, WordTags, LongTags
  <2> HIDE DEF a, b
  <2>4. a = b /\ u = v
    BY <2>2, <2>3, CatCancel
  <2>5. a[1] = f.value /\ b[1] = g.value
    BY DEF a, b
  <2> QED BY <2>4, <2>5
<1> QED BY <1>1, <1>2, <1>3, <1>4, FieldFacts

LEMMA PrefixFree ==
  ASSUME NEW f \in Fields, NEW g \in Fields, NEW u \in Seq(Byte), NEW v \in Seq(Byte),
         Cat(FlattenSeq(Pieces(f)), u) = Cat(FlattenSeq(Pieces(g)), v)
  PROVE  f = g /\ u = v
<1> DEFINE a == <<Tag(f.tag)>>
           b == <<Tag(g.tag)>>
<1>1. /\ f.tag \in {"string", "int32", "int64", "float", "double", "bool", "op_hash"}
      /\ g.tag \in {"string", "int32", "int64", "float", "double", "bool", "op_hash"}
  BY FieldFacts DEF WordTags, LongTags
<1>2. a \in Seq(Byte) /\ b \in Seq(Byte) /\ Len(a) = Len(b)
  BY <1>1, TagType
<1>3. Body(f) \in Seq(Byte) /\ Body(g) \in Seq(Byte)
  BY BodyType
<1>4. Cat(Cat(a, Body(f)), u) = Cat(Cat(b, Body(g)), v)
  BY Code
<1> HIDE DEF a, b
<1>5. Cat(a, Cat(Body(f), u)) = Cat(b, Cat(Body(g), v))
  <2>1. Cat(Cat(a, Body(f)), u) = Cat(a, Cat(Body(f), u))
    BY <1>2, <1>3, CatAssociative
  <2>2. Cat(Cat(b, Body(g)), v) = Cat(b, Cat(Body(g), v))
    BY <1>2, <1>3, CatAssociative
  <2> QED BY <1>4, <2>1, <2>2
<1>6. Cat(Body(f), u) \in Seq(Byte) /\ Cat(Body(g), v) \in Seq(Byte)
  BY <1>3, CatType
<1>7. a = b /\ Cat(Body(f), u) = Cat(Body(g), v)
  BY <1>2, <1>5, <1>6, CatCancel
<1>8. f.tag = g.tag
  <2>1. a[1] = Tag(f.tag) /\ b[1] = Tag(g.tag)
    BY DEF a, b
  <2> QED BY <1>1, <1>7, <2>1 DEF Tag
<1>9. f.value = g.value /\ u = v
  BY <1>7, <1>8, BodyPrefixFree
<1> QED BY <1>8, <1>9, FieldFacts DEF Field
-----------------------------------------------------------------------------
(* What is fed for a list of fields *)

Listed(fields) == [i \in 1 .. Len(fields) |-> Pieces(fields[i])]
Fed(fields) == FlattenSeq(Listed(fields))
Encoded(fields) == FlattenSeq(Fed(fields))

LEMMA ListedType ==
  ASSUME NEW fields \in Seq(Fields)
  PROVE  Listed(fields) \in Seq(Seq(Seq(Byte))) /\ Len(Listed(fields)) = Len(fields)
<1> DEFINE Q == Seq(Seq(Byte))
<1>1. \A i \in 1 .. Len(fields) : Pieces(fields[i]) \in Q
  BY ElementOfSeq, Code
<1> HIDE DEF Q
<1>2. Listed(fields) \in [1 .. Len(fields) -> Q] /\ Len(fields) \in Nat
  BY <1>1, LenProperties DEF Listed
<1>3. Listed(fields) \in Seq(Q)
  BY <1>2, SeqDef
<1>4. Len(Listed(fields)) = Len(fields)
  BY <1>2, <1>3, LenProperties
<1> QED BY <1>3, <1>4 DEF Q

LEMMA ListedHead ==
  ASSUME NEW fields \in Seq(Fields), fields # <<>>
  PROVE  /\ Listed(fields) # <<>>
         /\ Head(Listed(fields)) = Pieces(Head(fields))
         /\ Tail(Listed(fields)) = Listed(Tail(fields))
<1> DEFINE Q == Seq(Seq(Byte))
           l == Listed(fields)
           m == Listed(Tail(fields))
<1>1. Head(fields) \in Fields /\ Tail(fields) \in Seq(Fields) /\ Head(fields) = fields[1]
  BY HeadTailProperties
<1>2. /\ Len(fields) \in Nat \ {0} /\ Len(Tail(fields)) = Len(fields) - 1
      /\ \A i \in 1 .. Len(Tail(fields)) : Tail(fields)[i] = fields[i + 1]
  BY EmptySeq, HeadTailProperties
<1>3. l \in Seq(Q) /\ Len(l) = Len(fields) /\ m \in Seq(Q) /\ Len(m) = Len(fields) - 1
  BY <1>1, <1>2, ListedType
<1>4. /\ \A i \in 1 .. Len(fields) : l[i] = Pieces(fields[i])
      /\ \A i \in 1 .. Len(fields) - 1 : m[i] = Pieces(fields[i + 1])
  BY <1>2 DEF Listed
<1> HIDE DEF Q, l, m
<1>5. l # <<>>
  BY <1>2, <1>3, EmptySeq
<1>6. Head(l) = l[1] /\ 1 \in 1 .. Len(fields)
  BY <1>2
<1>7. /\ Tail(l) \in Seq(Q) /\ Len(Tail(l)) = Len(fields) - 1
      /\ \A i \in 1 .. Len(fields) - 1 : Tail(l)[i] = l[i + 1]
  BY <1>3, <1>5, HeadTailProperties
<1>8. \A i \in 1 .. Len(m) : Tail(l)[i] = m[i]
  BY <1>2, <1>3, <1>4, <1>7
<1>9. Tail(l) = m
  BY <1>3, <1>7, <1>8, SeqEqual
<1> QED BY <1>1, <1>4, <1>5, <1>6, <1>9 DEF l, m

LEMMA FedType ==
  ASSUME NEW fields \in Seq(Fields)
  PROVE  Fed(fields) \in Seq(Seq(Byte)) /\ Encoded(fields) \in Seq(Byte)
<1>1. Fed(fields) \in Seq(Seq(Byte))
  <2> DEFINE T == Seq(Byte)
  <2>1. Listed(fields) \in Seq(Seq(T))
    BY ListedType
  <2> HIDE DEF T
  <2>2. FlattenSeq(Listed(fields)) \in Seq(T)
    BY <2>1, FlattenType
  <2> QED BY <2>2 DEF Fed, T
<1> QED BY <1>1, FlattenType DEF Encoded

LEMMA FedHead ==
  ASSUME NEW fields \in Seq(Fields), fields # <<>>
  PROVE  /\ Head(fields) \in Fields /\ Tail(fields) \in Seq(Fields)
         /\ Fed(fields) = Cat(Pieces(Head(fields)), Fed(Tail(fields)))
         /\ Encoded(fields) = Cat(FlattenSeq(Pieces(Head(fields))), Encoded(Tail(fields)))
<1>1. Head(fields) \in Fields /\ Tail(fields) \in Seq(Fields)
  BY HeadTailProperties
<1>2. Fed(fields) = Cat(Pieces(Head(fields)), Fed(Tail(fields)))
  <2> DEFINE T == Seq(Byte)
  <2>1. Listed(fields) \in Seq(Seq(T))
    BY ListedType
  <2>2. Listed(fields) # <<>>
    BY ListedHead
  <2> HIDE DEF T
  <2>3. FlattenSeq(Listed(fields)) = Cat(Head(Listed(fields)), FlattenSeq(Tail(Listed(fields))))
    BY <2>1, <2>2, FlattenHead
  <2> QED BY <2>3, ListedHead DEF Fed
<1>3. Pieces(Head(fields)) \in Seq(Seq(Byte)) /\ Fed(Tail(fields)) \in Seq(Seq(Byte))
  BY <1>1, Code, FedType
<1>4. /\ FlattenSeq(Cat(Pieces(Head(fields)), Fed(Tail(fields))))
         = Cat(FlattenSeq(Pieces(Head(fields))), FlattenSeq(Fed(Tail(fields))))
  BY <1>3, FlattenCat
<1> QED BY <1>1, <1>2, <1>4 DEF Encoded

LEMMA CodeNotEmpty ==
  ASSUME NEW f \in Fields, NEW u \in Seq(Byte)
  PROVE  FlattenSeq(Pieces(f)) \in Seq(Byte) /\ Cat(FlattenSeq(Pieces(f)), u) # <<>>
<1> DEFINE t == <<Tag(f.tag)>>
           c == FlattenSeq(Pieces(f))
<1>1. t \in Seq(Byte) /\ Len(t) = 1
  <2>1. f.tag \in {"string", "int32", "int64", "float", "double", "bool", "op_hash"}
    BY FieldFacts DEF WordTags, LongTags
  <2> QED BY <2>1, TagType
<1>2. Body(f) \in Seq(Byte) /\ c = Cat(t, Body(f))
  BY Code, BodyType
<1> HIDE DEF t, c
<1>3. c \in Seq(Byte) /\ Len(c) = 1 + Len(Body(f))
  BY <1>1, <1>2, CatType
<1>4. Len(Cat(c, u)) = Len(c) + Len(u)
  BY <1>3, CatType
<1>5. Len(Body(f)) \in Nat /\ Len(u) \in Nat
  BY <1>2, LenProperties
<1>6. Len(Cat(c, u)) # 0
  BY <1>3, <1>4, <1>5
<1>7. Cat(c, u) # <<>>
  BY <1>6, EmptySeq
<1> QED BY <1>3, <1>7 DEF c

LEMMA EncodedEmpty ==
  ASSUME NEW fields \in Seq(Fields)
  PROVE  Encoded(fields) = <<>> <=> fields = <<>>
<1>1. CASE fields = <<>>
  <2>1. Listed(<<>>) = <<>>
    BY EmptySeq DEF Listed
  <2> QED BY <1>1, <2>1, FlattenEmpty DEF Encoded, Fed
<1>2. CASE fields # <<>>
  BY <1>2, FedHead, FedType, CodeNotEmpty
<1> QED BY <1>1, <1>2

(* "cannot collide" (core/src/ai_cache.cpp:37): no two lists of typed      *)
(* fields feed the same bytes to the hasher, by induction on the length,   *)
(* as no field's bytes begin another's.                                    *)
THEOREM EncodedInjective ==
  ASSUME NEW a \in Seq(Fields), NEW b \in Seq(Fields), Encoded(a) = Encoded(b)
  PROVE  a = b
<1> DEFINE P == {k \in Nat : \A x, y \in Seq(Fields) :
                               Len(x) = k /\ Encoded(x) = Encoded(y) => x = y}
<1>1. 0 \in P
  <2> SUFFICES ASSUME NEW x \in Seq(Fields), NEW y \in Seq(Fields),
                      Len(x) = 0, Encoded(x) = Encoded(y)
               PROVE  x = y
    OBVIOUS
  <2>1. x = <<>>
    BY EmptySeq
  <2> QED BY <2>1, EncodedEmpty
<1>2. ASSUME NEW k \in P PROVE k + 1 \in P
  <2> SUFFICES ASSUME NEW x \in Seq(Fields), NEW y \in Seq(Fields),
                      Len(x) = k + 1, Encoded(x) = Encoded(y)
               PROVE  x = y
    OBVIOUS
  <2>1. x # <<>>
    BY EmptySeq
  <2>2. y # <<>>
    BY <2>1, EncodedEmpty
  <2>3. /\ Head(x) \in Fields /\ Tail(x) \in Seq(Fields)
        /\ Head(y) \in Fields /\ Tail(y) \in Seq(Fields)
        /\ Encoded(x) = Cat(FlattenSeq(Pieces(Head(x))), Encoded(Tail(x)))
        /\ Encoded(y) = Cat(FlattenSeq(Pieces(Head(y))), Encoded(Tail(y)))
    BY <2>1, <2>2, FedHead
  <2>4. Encoded(Tail(x)) \in Seq(Byte) /\ Encoded(Tail(y)) \in Seq(Byte)
    BY <2>3, FedType
  <2>5. Head(x) = Head(y) /\ Encoded(Tail(x)) = Encoded(Tail(y))
    <3> DEFINE f == Head(x)
               g == Head(y)
               u == Encoded(Tail(x))
               v == Encoded(Tail(y))
    <3>1. /\ f \in Fields /\ g \in Fields /\ u \in Seq(Byte) /\ v \in Seq(Byte)
          /\ Cat(FlattenSeq(Pieces(f)), u) = Cat(FlattenSeq(Pieces(g)), v)
      BY <2>3, <2>4
    <3> HIDE DEF f, g, u, v
    <3>2. f = g /\ u = v
      BY ONLY <3>1, PrefixFree
    <3> QED BY <3>2 DEF f, g, u, v
  <2>6. Len(Tail(x)) = k
    BY <2>1, HeadTailProperties
  <2>7. Tail(x) = Tail(y)
    BY <2>3, <2>5, <2>6
  <2>8. x = Cat(<<Head(x)>>, Tail(x)) /\ y = Cat(<<Head(y)>>, Tail(y))
    BY <2>1, <2>2, HeadAndTail
  <2> QED BY <2>5, <2>7, <2>8
<1>3. P = Nat
  <2>1. P \in SUBSET Nat
    OBVIOUS
  <2> HIDE DEF P
  <2> QED BY <1>1, <1>2, <2>1, Induction
<1>4. Len(a) \in P
  <2> HIDE DEF P
  <2> QED BY <1>3, LenProperties
<1> QED BY <1>4
-----------------------------------------------------------------------------
(* The fields of the two ops *)

LEMMA FieldTypes ==
  /\ \A t \in Strings : Str(t) \in Fields
  /\ \A v \in Words : Int32(v) \in Fields /\ Float(v) \in Fields
  /\ \A v \in Longs : Int64(v) \in Fields /\ OpHash(v) \in Fields
<1>1. \A t \in Strings : Str(t) \in Fields
  BY DEF Str, Field, Fields
<1>2. \A v \in Words : Int32(v) \in Fields /\ Float(v) \in Fields
  BY DEF Int32, Float, Field, Fields, Words
<1>3. \A v \in Longs : Int64(v) \in Fields /\ OpHash(v) \in Fields
  BY DEF Int64, OpHash, Field, Fields, Longs
<1> QED BY <1>1, <1>2, <1>3

LEMMA FieldsDiffer ==
  /\ \A a, b : Str(a) = Str(b) <=> a = b
  /\ \A a, b : Int32(a) = Int32(b) <=> a = b
  /\ \A a, b : Int64(a) = Int64(b) <=> a = b
  /\ \A a, b : Float(a) = Float(b) <=> a = b
  /\ \A a, b : OpHash(a) = OpHash(b) <=> a = b
  /\ \A a, b : Str(a) # Int64(b) /\ Str(a) # Float(b)
  BY DEF Str, Int32, Int64, Float, OpHash, Field

LEMMA Literals ==
  /\ Literal.generate \in Strings /\ Literal.smartfill \in Strings /\ Literal.loras \in Strings
  /\ Literal.img2img \in Strings /\ Literal.controlnet \in Strings /\ Literal.no_input \in Strings
  /\ Literal.generate # Literal.smartfill
<1>1. 1 \in Byte /\ 2 \in Byte
  BY WordSizes DEF Byte
<1>2. /\ <<1>> \in Seq(Byte) /\ <<2>> \in Seq(Byte) /\ Len(<<1>>) = 1 /\ Len(<<2>>) = 1
  BY <1>1
<1>3. \A a, b \in Byte : <<a, b>> \in Seq(Byte) /\ Len(<<a, b>>) = 2
  OBVIOUS
<1>4. /\ <<1>> \in Strings /\ <<2>> \in Strings
      /\ \A a, b \in Byte : <<a, b>> \in Strings
  BY <1>2, <1>3, WordSizes DEF Strings
<1>5. <<1, 1>> # <<1, 2>>
  OBVIOUS
<1> QED BY <1>1, <1>4, <1>5 DEF Literal

Loras == [path : Strings, weight : Words]
PairOf(l) == <<Str(l.path), Float(l.weight)>>
PairList(loras) == [i \in 1 .. Len(loras) |-> PairOf(loras[i])]
Pairs(loras) == FlattenSeq(PairList(loras))

LEMMA PairType ==
  ASSUME NEW l \in Loras
  PROVE  PairOf(l) \in Seq(Fields) /\ Len(PairOf(l)) = 2
<1>1. Str(l.path) \in Fields /\ Float(l.weight) \in Fields
  BY FieldTypes DEF Loras
<1> QED BY <1>1 DEF PairOf

LEMMA PairListType ==
  ASSUME NEW loras \in Seq(Loras)
  PROVE  PairList(loras) \in Seq(Seq(Fields)) /\ Len(PairList(loras)) = Len(loras)
<1> DEFINE Q == Seq(Fields)
<1>1. \A i \in 1 .. Len(loras) : PairOf(loras[i]) \in Q
  BY ElementOfSeq, PairType
<1> HIDE DEF Q
<1>2. PairList(loras) \in [1 .. Len(loras) -> Q] /\ Len(loras) \in Nat
  BY <1>1, LenProperties DEF PairList
<1>3. PairList(loras) \in Seq(Q)
  BY <1>2, SeqDef
<1>4. Len(PairList(loras)) = Len(loras)
  BY <1>2, <1>3, LenProperties
<1> QED BY <1>3, <1>4 DEF Q

LEMMA PairsHead ==
  ASSUME NEW loras \in Seq(Loras), loras # <<>>
  PROVE  /\ Head(loras) \in Loras /\ Tail(loras) \in Seq(Loras)
         /\ Pairs(loras) = Cat(PairOf(Head(loras)), Pairs(Tail(loras)))
<1> DEFINE Q == Seq(Fields)
           l == PairList(loras)
           m == PairList(Tail(loras))
<1>1. Head(loras) \in Loras /\ Tail(loras) \in Seq(Loras) /\ Head(loras) = loras[1]
  BY HeadTailProperties
<1>2. /\ Len(loras) \in Nat \ {0} /\ Len(Tail(loras)) = Len(loras) - 1
      /\ \A i \in 1 .. Len(Tail(loras)) : Tail(loras)[i] = loras[i + 1]
  BY EmptySeq, HeadTailProperties
<1>3. l \in Seq(Q) /\ Len(l) = Len(loras) /\ m \in Seq(Q) /\ Len(m) = Len(loras) - 1
  BY <1>1, <1>2, PairListType
<1>4. /\ \A i \in 1 .. Len(loras) : l[i] = PairOf(loras[i])
      /\ \A i \in 1 .. Len(loras) - 1 : m[i] = PairOf(loras[i + 1])
  BY <1>2 DEF PairList
<1> HIDE DEF Q, l, m
<1>5. l # <<>>
  BY <1>2, <1>3, EmptySeq
<1>6. Head(l) = PairOf(Head(loras))
  <2>1. Head(l) = l[1] /\ 1 \in 1 .. Len(loras)
    BY <1>2
  <2> QED BY <1>1, <1>4, <2>1
<1>7. /\ Tail(l) \in Seq(Q) /\ Len(Tail(l)) = Len(loras) - 1
      /\ \A i \in 1 .. Len(loras) - 1 : Tail(l)[i] = l[i + 1]
  BY <1>3, <1>5, HeadTailProperties
<1>8. \A i \in 1 .. Len(m) : Tail(l)[i] = m[i]
  BY <1>2, <1>3, <1>4, <1>7
<1>9. Tail(l) = m
  BY <1>3, <1>7, <1>8, SeqEqual
<1>10. FlattenSeq(l) = Cat(Head(l), FlattenSeq(Tail(l)))
  BY <1>3, <1>5, FlattenHead DEF Q
<1> QED BY <1>1, <1>6, <1>9, <1>10 DEF l, m, Pairs

LEMMA PairsType ==
  ASSUME NEW loras \in Seq(Loras)
  PROVE  Pairs(loras) \in Seq(Fields)
  BY PairListType, FlattenType DEF Pairs

(* Their number comes before the LoRAs, so that what follows is told apart *)
(* from one more of them.                                                  *)
LEMMA PairsInjective ==
  ASSUME NEW a \in Seq(Loras), NEW b \in Seq(Loras), Len(a) = Len(b),
         NEW u \in Seq(Fields), NEW v \in Seq(Fields), Cat(Pairs(a), u) = Cat(Pairs(b), v)
  PROVE  a = b /\ u = v
<1> DEFINE P == {k \in Nat : \A x, y \in Seq(Loras) :
                               /\ Len(x) = k /\ Len(y) = k
                               /\ Cat(Pairs(x), u) = Cat(Pairs(y), v)
                               => x = y /\ u = v}
<1>1. 0 \in P
  <2> SUFFICES ASSUME NEW x \in Seq(Loras), NEW y \in Seq(Loras), Len(x) = 0, Len(y) = 0,
                      Cat(Pairs(x), u) = Cat(Pairs(y), v)
               PROVE  x = y /\ u = v
    OBVIOUS
  <2>1. x = <<>> /\ y = <<>>
    BY EmptySeq
  <2>2. PairList(<<>>) = <<>>
    BY EmptySeq DEF PairList
  <2>3. Cat(<<>>, u) = u /\ Cat(<<>>, v) = v
    BY ConcatEmptySeq DEF Cat
  <2> QED BY <2>1, <2>2, <2>3, FlattenEmpty DEF Pairs
<1>2. ASSUME NEW k \in P PROVE k + 1 \in P
  <2> SUFFICES ASSUME NEW x \in Seq(Loras), NEW y \in Seq(Loras),
                      Len(x) = k + 1, Len(y) = k + 1,
                      Cat(Pairs(x), u) = Cat(Pairs(y), v)
               PROVE  x = y /\ u = v
    OBVIOUS
  <2>1. x # <<>> /\ y # <<>>
    BY EmptySeq
  <2>2. /\ Head(x) \in Loras /\ Tail(x) \in Seq(Loras)
        /\ Head(y) \in Loras /\ Tail(y) \in Seq(Loras)
        /\ Pairs(x) = Cat(PairOf(Head(x)), Pairs(Tail(x)))
        /\ Pairs(y) = Cat(PairOf(Head(y)), Pairs(Tail(y)))
    BY <2>1, PairsHead
  <2> DEFINE p == PairOf(Head(x))
             q == PairOf(Head(y))
             s == Pairs(Tail(x))
             t == Pairs(Tail(y))
  <2>3. p \in Seq(Fields) /\ q \in Seq(Fields) /\ Len(p) = 2 /\ Len(q) = 2
    BY <2>2, PairType
  <2>4. s \in Seq(Fields) /\ t \in Seq(Fields)
    BY <2>2, PairsType
  <2>5. Cat(Cat(p, s), u) = Cat(Cat(q, t), v)
    BY <2>2
  <2> HIDE DEF p, q, s, t
  <2>6. Cat(p, Cat(s, u)) = Cat(q, Cat(t, v)) /\ Cat(s, u) \in Seq(Fields) /\ Cat(t, v) \in Seq(Fields)
    <3>1. Cat(Cat(p, s), u) = Cat(p, Cat(s, u))
      BY <2>3, <2>4, CatAssociative
    <3>2. Cat(Cat(q, t), v) = Cat(q, Cat(t, v))
      BY <2>3, <2>4, CatAssociative
    <3> QED BY <2>4, <2>5, <3>1, <3>2, CatType
  <2>7. p = q /\ Cat(s, u) = Cat(t, v)
    BY <2>3, <2>6, CatCancel
  <2>8. Head(x) = Head(y)
    <3>1. /\ p[1] = Str(Head(x).path) /\ p[2] = Float(Head(x).weight)
          /\ q[1] = Str(Head(y).path) /\ q[2] = Float(Head(y).weight)
      BY DEF p, q, PairOf
    <3>2. Head(x).path = Head(y).path /\ Head(x).weight = Head(y).weight
      BY <2>7, <3>1, FieldsDiffer
    <3>3. \A l, m \in Loras : l.path = m.path /\ l.weight = m.weight => l = m
      BY DEF Loras
    <3> QED BY <2>2, <3>2, <3>3
  <2>9. Len(Tail(x)) = k /\ Len(Tail(y)) = k
    BY <2>1, HeadTailProperties
  <2>10. Tail(x) = Tail(y) /\ u = v
    BY <2>2, <2>7, <2>9 DEF s, t
  <2>11. x = Cat(<<Head(x)>>, Tail(x)) /\ y = Cat(<<Head(y)>>, Tail(y))
    BY <2>1, HeadAndTail
  <2> QED BY <2>8, <2>10, <2>11
<1>3. P = Nat
  <2>1. P \in SUBSET Nat
    OBVIOUS
  <2> HIDE DEF P
  <2> QED BY <1>1, <1>2, <2>1, Induction
<1>4. Len(a) \in P
  <2> HIDE DEF P
  <2> QED BY <1>3, LenProperties
<1> QED BY <1>4
LEMMA WordsAreLongs == Words \subseteq Longs
<1> DEFINE m == WordSize
<1>1. m \in Nat /\ m > 7
  BY WordSizes
<1> HIDE DEF m
<1>2. m * m = m + m * (m - 1) /\ m * (m - 1) \in Nat /\ m * m \in Nat
  BY <1>1
<1>3. 0 .. m - 1 \subseteq 0 .. m * m - 1
  BY <1>1, <1>2
<1> QED BY <1>3 DEF m, Words, Longs

(* The states of nodes whose paths are as normalize_path writes them; they  *)
(* need not be among the texts of the knobs.                               *)
NormalGenerates ==
  [modelType : Words, prompt : Strings, negative : Strings, size : Words, cfg : Words,
   seed : Longs, models : Strings, loras : {l \in Seq(Loras) : Len(l) \in Words},
   strength : Words, input : Inputs, controlNet : Strings, controlStrength : Words,
   controlInput : Inputs]

NormalFills ==
  [source : Inputs, mask : Inputs, threshold : Words, backend : Words, model : Strings]

LEMMA SlashesType ==
  ASSUME NEW t \in Strings
  PROVE  ForwardSlashes(t) \in Strings
<1> DEFINE u == ForwardSlashes(t)
           n == Len(t)
<1>1. t \in Seq(Byte) /\ n \in Nat /\ n < WordSize
  BY LenProperties DEF Strings
<1>2. \A i \in 1 .. n : u[i] \in Byte
  <2> TAKE i \in 1 .. n
  <2>1. u[i] = IF t[i] = Backslash THEN Slash ELSE t[i]
    BY DEF ForwardSlashes
  <2>2. t[i] \in Byte
    BY <1>1, ElementOfSeq
  <2> QED BY <2>1, <2>2, CacheKeyAssumption
<1>3. u \in [1 .. n -> Byte]
  <2>1. u = [i \in 1 .. n |-> u[i]]
    BY DEF ForwardSlashes
  <2> HIDE DEF u
  <2> QED BY <1>2, <2>1
<1> HIDE DEF u, n
<1>4. u \in Seq(Byte) /\ Len(u) = n
  <2>1. u \in Seq(Byte)
    BY <1>1, <1>3, SeqDef
  <2> QED BY <1>1, <1>3, <2>1, LenProperties
<1> QED BY <1>1, <1>4 DEF u, Strings

LEMMA TrimmedType ==
  ASSUME NEW t \in Strings
  PROVE  Trimmed(t) \in Strings
<1> DEFINE S == {n \in 0 .. Len(t) : \A i \in n + 1 .. Len(t) : t[i] \in Blanks}
           n == CHOOSE n \in S : \A k \in S : n <= k
<1>1. t \in Seq(Byte) /\ Len(t) \in Nat /\ Len(t) < WordSize
  BY LenProperties DEF Strings
<1>2. S \in SUBSET Nat /\ Len(t) \in S
  BY <1>1
<1>3. n \in S
  <2> HIDE DEF S
  <2>1. \E k \in S : \A l \in S : k <= l
    BY <1>2, LeastNumber
  <2> QED BY <2>1
<1>4. n \in 0 .. Len(t)
  BY <1>3
<1>5. Trimmed(t) = SubSeq(t, 1, n)
  BY DEF Trimmed, Min
<1> HIDE DEF n
<1>6. SubSeq(t, 1, n) \in Seq(Byte) /\ Len(SubSeq(t, 1, n)) = n
  BY <1>1, <1>4, SubSeqProperties
<1> DEFINE u == Trimmed(t)
<1>7. u \in Seq(Byte) /\ Len(u) < WordSize
  <2>1. Len(u) = n /\ u \in Seq(Byte)
    BY <1>5, <1>6
  <2>2. WordSize \in Nat
    BY WordSizes
  <2> HIDE DEF u, S
  <2> QED BY <1>1, <1>4, <2>1, <2>2
<1> HIDE DEF u
<1>8. u \in Strings
  BY <1>7 DEF Strings
<1> QED BY <1>8 DEF u

LEMMA SlashedType ==
  ASSUME NEW g \in AnyGenerateState
  PROVE  Slashed(g) \in NormalGenerates
<1>1. Numbers \subseteq Words /\ Numbers \subseteq Longs /\ Texts \subseteq Strings
  BY WordsAreLongs, CacheKeyAssumption DEF Words
<1>2. /\ g.modelType \in Numbers /\ g.size \in Numbers /\ g.cfg \in Numbers
      /\ g.strength \in Numbers /\ g.controlStrength \in Numbers /\ g.seed \in Numbers
      /\ g.prompt \in Texts /\ g.negative \in Texts
      /\ g.models \in Texts /\ g.controlNet \in Texts
      /\ g.loras \in LoraStacks
      /\ g.input \in Inputs /\ g.controlInput \in Inputs
  BY DEF AnyGenerateState
<1> DEFINE l == g.loras
           m == [i \in 1 .. Len(l) |-> [path |-> ForwardSlashes(l[i].path), weight |-> l[i].weight]]
           R == [path : Texts, weight : Numbers]
           a == ForwardSlashes(g.models)
           b == ForwardSlashes(g.controlNet)
<1>3. a \in Strings /\ b \in Strings
  BY <1>1, <1>2, SlashesType
<1>4. m \in Seq(Loras) /\ Len(m) \in Words
  <2>1. l \in Seq(R) /\ Len(l) < WordSize
    BY <1>2, CacheKeyAssumption
  <2> HIDE DEF l
  <2>2. ASSUME NEW i \in 1 .. Len(l) PROVE m[i] \in Loras
    <3>1. l[i] \in R
      BY <2>1, ElementOfSeq
    <3>2. l[i].path \in Strings /\ l[i].weight \in Words
      BY <1>1, <3>1
    <3>3. ForwardSlashes(l[i].path) \in Strings
      BY <3>2, SlashesType
    <3>4. m[i] = [path |-> ForwardSlashes(l[i].path), weight |-> l[i].weight]
      OBVIOUS
    <3> QED BY <3>2, <3>3, <3>4 DEF Loras
  <2>3. Len(l) \in Nat
    BY <2>1, LenProperties
  <2>4. m \in [1 .. Len(l) -> Loras]
    <3>1. m = [i \in 1 .. Len(l) |-> m[i]]
      OBVIOUS
    <3> HIDE DEF m
    <3> QED BY <2>2, <3>1
  <2> HIDE DEF m
  <2>5. m \in Seq(Loras)
    BY <2>3, <2>4, SeqDef
  <2>6. Len(m) = Len(l)
    BY <2>3, <2>4, <2>5, LenProperties
  <2> QED BY <2>1, <2>3, <2>5, <2>6, WordSizes DEF Words
<1>5. Slashed(g) = [g EXCEPT !.models = a, !.controlNet = b, !.loras = m]
  BY DEF Slashed
<1> HIDE DEF l, m, a, b
<1> QED BY <1>1, <1>2, <1>3, <1>4, <1>5 DEF AnyGenerateState, NormalGenerates

LEMMA CleanedType ==
  ASSUME NEW s \in SmartFillStates
  PROVE  Cleaned(s) \in NormalFills
<1> DEFINE a == ForwardSlashes(Trimmed(s.model))
<1>1. s.model \in Strings
  BY CacheKeyAssumption DEF SmartFillStates
<1>2. a \in Strings
  BY <1>1, TrimmedType, SlashesType
<1>3. Numbers \subseteq Words
  BY CacheKeyAssumption DEF Words
<1>4. Cleaned(s) = [s EXCEPT !.model = a]
  BY DEF Cleaned
<1> HIDE DEF a
<1> QED BY <1>2, <1>3, <1>4 DEF SmartFillStates, NormalFills

LEMMA GenerateFacts ==
  ASSUME NEW g \in NormalGenerates
  PROVE  /\ g.modelType \in Words /\ g.size \in Words /\ g.cfg \in Words
         /\ g.strength \in Words /\ g.controlStrength \in Words /\ g.seed \in Longs
         /\ g.prompt \in Strings /\ g.negative \in Strings
         /\ g.models \in Strings /\ g.controlNet \in Strings
         /\ g.loras \in Seq(Loras) /\ Len(g.loras) \in Words
         /\ g.input \in Inputs /\ g.controlInput \in Inputs
  BY DEF NormalGenerates

LEMMA ConnectedFacts ==
  ASSUME NEW a \in Inputs
  PROVE  /\ Connected(a) \in Seq(Fields) /\ Len(Connected(a)) = 1
         /\ HashOf(a) \in Fields
         /\ a # <<>> => a = <<a[1]>> /\ a[1] \in Longs /\ a[1] # 0
<1>1. CASE a = <<>>
  <2>1. Str(Literal.no_input) \in Fields
    BY Literals, FieldTypes
  <2>2. 0 \in Longs
    BY WordSizes, WordsAreLongs DEF Words
  <2>3. Connected(a) = <<Str(Literal.no_input)>> /\ HashOf(a) = OpHash(0)
    BY <1>1 DEF Connected, HashOf
  <2>4. OpHash(0) \in Fields
    BY <2>2, FieldTypes
  <2>5. <<Str(Literal.no_input)>> \in Seq(Fields) /\ Len(<<Str(Literal.no_input)>>) = 1
    BY <2>1
  <2>6. Connected(a) \in Seq(Fields) /\ Len(Connected(a)) = 1
    BY <2>3, <2>5
  <2>7. HashOf(a) \in Fields
    BY <2>3, <2>4
  <2> QED BY <1>1, <2>6, <2>7
<1>2. CASE a # <<>>
  <2>1. PICK h \in Hashes : a = <<h>>
    BY <1>2 DEF Inputs
  <2>2. h \in Longs /\ h # 0
    BY CacheKeyAssumption, WordSizes DEF Longs
  <2>3. Int64(h) \in Fields /\ OpHash(h) \in Fields
    BY <2>2, FieldTypes
  <2>4. a[1] = h
    BY <2>1
  <2>5. Connected(a) = <<Int64(h)>> /\ HashOf(a) = OpHash(h)
    BY <1>2, <2>4 DEF Connected, HashOf
  <2>6. <<Int64(h)>> \in Seq(Fields) /\ Len(<<Int64(h)>>) = 1
    BY <2>3
  <2>7. Connected(a) \in Seq(Fields) /\ Len(Connected(a)) = 1
    BY <2>5, <2>6
  <2>8. HashOf(a) \in Fields
    BY <2>3, <2>5
  <2> QED BY <2>1, <2>2, <2>4, <2>7, <2>8
<1> QED BY <1>1, <1>2

LEMMA ConnectedInjective ==
  ASSUME NEW a \in Inputs, NEW b \in Inputs, Connected(a)[1] = Connected(b)[1]
  PROVE  a = b
<1>1. Connected(a)[1] = IF a = <<>> THEN Str(Literal.no_input) ELSE Int64(a[1])
  BY DEF Connected
<1>2. Connected(b)[1] = IF b = <<>> THEN Str(Literal.no_input) ELSE Int64(b[1])
  BY DEF Connected
<1>3. a = <<>> <=> b = <<>>
  <2>1. Str(Literal.no_input) # Int64(a[1]) /\ Str(Literal.no_input) # Int64(b[1])
    BY FieldsDiffer
  <2> QED BY <1>1, <1>2, <2>1
<1>4. a # <<>> => a[1] = b[1]
  <2>1. a # <<>> => Int64(a[1]) = Int64(b[1])
    BY <1>1, <1>2, <1>3
  <2> QED BY <2>1 DEF Int64, Field
<1>5. a # <<>> => a = <<a[1]>> /\ b = <<b[1]>>
  BY <1>3, ConnectedFacts
<1> QED BY <1>3, <1>4, <1>5

(* The parts of SlashedFields *)
Settings(g) ==
  <<Str(Literal.generate), Int32(g.modelType), Str(g.prompt), Str(g.negative), Int32(g.size),
    Float(g.cfg), Int64(g.seed), Str(g.models)>>
LoraCount(loras) == <<Str(Literal.loras), Int32(Len(loras))>>
Image(g) == IF g.input = <<>> THEN <<>> ELSE <<Float(g.strength)>>
Net(g) == <<Str(Literal.controlnet), Str(g.controlNet)>>
Control(g) ==
  IF g.controlNet = <<>> THEN <<>>
  ELSE Cat(<<Float(g.controlStrength)>>, Connected(g.controlInput))

LEMMA PartTypes ==
  ASSUME NEW g \in NormalGenerates
  PROVE  /\ Settings(g) \in Seq(Fields) /\ Len(Settings(g)) = 8
         /\ LoraCount(g.loras) \in Seq(Fields) /\ Len(LoraCount(g.loras)) = 2
         /\ Pairs(g.loras) \in Seq(Fields)
         /\ <<Str(Literal.img2img)>> \in Seq(Fields) /\ Len(<<Str(Literal.img2img)>>) = 1
         /\ Image(g) \in Seq(Fields)
         /\ Net(g) \in Seq(Fields) /\ Len(Net(g)) = 2
         /\ Control(g) \in Seq(Fields)
<1>1. Settings(g) \in Seq(Fields) /\ Len(Settings(g)) = 8
  <2>1. /\ Str(Literal.generate) \in Fields /\ Int32(g.modelType) \in Fields
        /\ Str(g.prompt) \in Fields /\ Str(g.negative) \in Fields /\ Int32(g.size) \in Fields
        /\ Float(g.cfg) \in Fields /\ Int64(g.seed) \in Fields /\ Str(g.models) \in Fields
    BY GenerateFacts, FieldTypes, Literals
  <2> QED BY <2>1 DEF Settings
<1>2. LoraCount(g.loras) \in Seq(Fields) /\ Len(LoraCount(g.loras)) = 2
  <2>1. Str(Literal.loras) \in Fields /\ Int32(Len(g.loras)) \in Fields
    BY GenerateFacts, FieldTypes, Literals
  <2> QED BY <2>1 DEF LoraCount
<1>3. Pairs(g.loras) \in Seq(Fields)
  BY GenerateFacts, PairsType
<1>4. <<Str(Literal.img2img)>> \in Seq(Fields) /\ Len(<<Str(Literal.img2img)>>) = 1
  <2>1. Str(Literal.img2img) \in Fields
    BY FieldTypes, Literals
  <2> QED BY <2>1
<1>5. Image(g) \in Seq(Fields)
  <2>1. Float(g.strength) \in Fields
    BY GenerateFacts, FieldTypes
  <2>2. <<>> \in Seq(Fields) /\ <<Float(g.strength)>> \in Seq(Fields)
    BY <2>1
  <2> QED BY <2>2 DEF Image
<1>6. Net(g) \in Seq(Fields) /\ Len(Net(g)) = 2
  <2>1. Str(Literal.controlnet) \in Fields /\ Str(g.controlNet) \in Fields
    BY GenerateFacts, FieldTypes, Literals
  <2> QED BY <2>1 DEF Net
<1>7. Control(g) \in Seq(Fields)
  <2>1. Float(g.controlStrength) \in Fields
    BY GenerateFacts, FieldTypes
  <2>2. <<>> \in Seq(Fields) /\ <<Float(g.controlStrength)>> \in Seq(Fields)
    BY <2>1
  <2>3. Connected(g.controlInput) \in Seq(Fields)
    BY GenerateFacts, ConnectedFacts
  <2>4. Cat(<<Float(g.controlStrength)>>, Connected(g.controlInput)) \in Seq(Fields)
    BY <2>2, <2>3, CatType
  <2> QED BY <2>2, <2>4 DEF Control
<1> QED BY <1>1, <1>2, <1>3, <1>4, <1>5, <1>6, <1>7
LEMMA GenerateParts ==
  ASSUME NEW g \in NormalGenerates
  PROVE  SlashedFields(g) =
           Cat(Settings(g), Cat(LoraCount(g.loras), Cat(Pairs(g.loras),
             Cat(<<Str(Literal.img2img)>>, Cat(Image(g), Cat(Connected(g.input),
               Cat(Net(g), Control(g))))))))
<1> DEFINE a == Settings(g)
           b == LoraCount(g.loras)
           c == Pairs(g.loras)
           d == <<Str(Literal.img2img)>>
           e == Image(g)
           f == Connected(g.input)
           h == Net(g)
           i == Control(g)
<1>1. SlashedFields(g) = Cat(Cat(Cat(Cat(Cat(Cat(a, Cat(b, c)), d), e), f), h), i)
  <2>1. LoraFields(g.loras) = Cat(b, c)
    BY DEF LoraFields, LoraCount, Pairs, PairList, PairOf, Cat
  <2>2. i = IF g.controlNet = <<>> THEN <<>>
            ELSE <<Float(g.controlStrength)>> \o Connected(g.controlInput)
    BY DEF Control, Cat
  <2> QED BY <2>1, <2>2, Zenon DEF SlashedFields, Settings, Image, Net, Cat
<1>2. /\ a \in Seq(Fields) /\ b \in Seq(Fields) /\ c \in Seq(Fields) /\ d \in Seq(Fields)
      /\ e \in Seq(Fields) /\ f \in Seq(Fields) /\ h \in Seq(Fields) /\ i \in Seq(Fields)
  BY PartTypes, GenerateFacts, ConnectedFacts
<1> HIDE DEF a, b, c, d, e, f, h, i
<1>3. SlashedFields(g) = Cat(a, Cat(b, Cat(c, Cat(d, Cat(e, Cat(f, Cat(h, i)))))))
  <2> DEFINE l1 == Cat(a, Cat(b, c))
             l2 == Cat(l1, d)
             l3 == Cat(l2, e)
             l4 == Cat(l3, f)
             r5 == Cat(h, i)
             r4 == Cat(f, r5)
             r3 == Cat(e, r4)
             r2 == Cat(d, r3)
             r1 == Cat(c, r2)
  <2>1. /\ l1 \in Seq(Fields) /\ l2 \in Seq(Fields) /\ l3 \in Seq(Fields) /\ l4 \in Seq(Fields)
        /\ Cat(b, c) \in Seq(Fields)
    BY <1>2, CatType
  <2>2. /\ r5 \in Seq(Fields) /\ r4 \in Seq(Fields) /\ r3 \in Seq(Fields)
        /\ r2 \in Seq(Fields) /\ r1 \in Seq(Fields)
    BY <1>2, CatType
  <2> HIDE DEF l1, l2, l3, l4, r1, r2, r3, r4, r5
  <2>3. Cat(Cat(l4, h), i) = Cat(l4, r5)
    <3>1. l4 \in Seq(Fields) /\ h \in Seq(Fields) /\ i \in Seq(Fields)
      BY <1>2, <2>1, <2>2
    <3>2. Cat(Cat(l4, h), i) = Cat(l4, Cat(h, i))
      BY ONLY <3>1, CatAssociative
    <3> QED BY <3>2 DEF r5
  <2>4. Cat(l4, r5) = Cat(l3, r4)
    <3>1. l3 \in Seq(Fields) /\ f \in Seq(Fields) /\ r5 \in Seq(Fields)
      BY <1>2, <2>1, <2>2
    <3>2. Cat(Cat(l3, f), r5) = Cat(l3, Cat(f, r5))
      BY ONLY <3>1, CatAssociative
    <3> QED BY <3>2 DEF l4, r4
  <2>5. Cat(l3, r4) = Cat(l2, r3)
    <3>1. l2 \in Seq(Fields) /\ e \in Seq(Fields) /\ r4 \in Seq(Fields)
      BY <1>2, <2>1, <2>2
    <3>2. Cat(Cat(l2, e), r4) = Cat(l2, Cat(e, r4))
      BY ONLY <3>1, CatAssociative
    <3> QED BY <3>2 DEF l3, r3
  <2>6. Cat(l2, r3) = Cat(l1, r2)
    <3>1. l1 \in Seq(Fields) /\ d \in Seq(Fields) /\ r3 \in Seq(Fields)
      BY <1>2, <2>1, <2>2
    <3>2. Cat(Cat(l1, d), r3) = Cat(l1, Cat(d, r3))
      BY ONLY <3>1, CatAssociative
    <3> QED BY <3>2 DEF l2, r2
  <2>7. Cat(l1, r2) = Cat(a, Cat(Cat(b, c), r2))
    <3>1. a \in Seq(Fields) /\ Cat(b, c) \in Seq(Fields) /\ r2 \in Seq(Fields)
      BY <1>2, <2>1, <2>2
    <3>2. Cat(Cat(a, Cat(b, c)), r2) = Cat(a, Cat(Cat(b, c), r2))
      BY ONLY <3>1, CatAssociative
    <3> QED BY <3>2 DEF l1
  <2>8. Cat(Cat(b, c), r2) = Cat(b, r1)
    <3>1. b \in Seq(Fields) /\ c \in Seq(Fields) /\ r2 \in Seq(Fields)
      BY <1>2, <2>1, <2>2
    <3>2. Cat(Cat(b, c), r2) = Cat(b, Cat(c, r2))
      BY ONLY <3>1, CatAssociative
    <3> QED BY <3>2 DEF r1
  <2>9. SlashedFields(g) = Cat(Cat(l4, h), i)
    BY <1>1 DEF l1, l2, l3, l4
  <2>10. Cat(b, r1) = Cat(b, Cat(c, Cat(d, Cat(e, Cat(f, Cat(h, i))))))
    BY DEF r1, r2, r3, r4, r5
  <2> QED BY <2>3, <2>4, <2>5, <2>6, <2>7, <2>8, <2>9, <2>10
<1> QED BY <1>3 DEF a, b, c, d, e, f, h, i

LEMMA CatFirst ==
  ASSUME NEW S, NEW s \in Seq(S), NEW t \in Seq(S), s # <<>>
  PROVE  Cat(s, t)[1] = s[1]
<1>1. Len(s) \in Nat \ {0} /\ Len(t) \in Nat
  BY EmptySeq, LenProperties
<1>2. 1 \in 1 .. Len(s) + Len(t) /\ 1 <= Len(s)
  BY <1>1
<1> QED BY <1>2, CatElement

(* The input's part: a string where nothing is connected, and otherwise    *)
(* the strength before the hash.                                           *)
LEMMA ImageInjective ==
  ASSUME NEW g \in NormalGenerates, NEW k \in NormalGenerates,
         NEW u \in Seq(Fields), NEW v \in Seq(Fields),
         Cat(Image(g), Cat(Connected(g.input), u)) = Cat(Image(k), Cat(Connected(k.input), v))
  PROVE  g.input = k.input /\ (g.input # <<>> => g.strength = k.strength) /\ u = v
<1> DEFINE a == Connected(g.input)
           b == Connected(k.input)
           s == Cat(Image(g), Cat(a, u))
           t == Cat(Image(k), Cat(b, v))
<1>1. /\ a \in Seq(Fields) /\ Len(a) = 1 /\ b \in Seq(Fields) /\ Len(b) = 1
      /\ Cat(a, u) \in Seq(Fields) /\ Cat(b, v) \in Seq(Fields)
      /\ Image(g) \in Seq(Fields) /\ Image(k) \in Seq(Fields)
  BY GenerateFacts, ConnectedFacts, PartTypes, CatType
<1>2. \A x \in Seq(Fields) : Cat(<<>>, x) = x
  BY ConcatEmptySeq DEF Cat
<1>3. g.input = <<>> => s[1] = Str(Literal.no_input)
  <2> SUFFICES ASSUME g.input = <<>> PROVE s[1] = Str(Literal.no_input)
    OBVIOUS
  <2>1. Image(g) = <<>> /\ a = <<Str(Literal.no_input)>>
    BY DEF Image, Connected
  <2>2. a # <<>> /\ a[1] = Str(Literal.no_input)
    BY <2>1
  <2> HIDE DEF a
  <2>3. s = Cat(a, u)
    BY <1>1, <1>2, <2>1
  <2> QED BY <1>1, <2>2, <2>3, CatFirst
<1>4. k.input = <<>> => t[1] = Str(Literal.no_input)
  <2> SUFFICES ASSUME k.input = <<>> PROVE t[1] = Str(Literal.no_input)
    OBVIOUS
  <2>1. Image(k) = <<>> /\ b = <<Str(Literal.no_input)>>
    BY DEF Image, Connected
  <2>2. b # <<>> /\ b[1] = Str(Literal.no_input)
    BY <2>1
  <2> HIDE DEF b
  <2>3. t = Cat(b, v)
    BY <1>1, <1>2, <2>1
  <2> QED BY <1>1, <2>2, <2>3, CatFirst
<1>5. g.input # <<>> => s[1] = Float(g.strength) /\ Image(g) # <<>>
  <2> SUFFICES ASSUME g.input # <<>> PROVE s[1] = Float(g.strength) /\ Image(g) # <<>>
    OBVIOUS
  <2>1. Image(g) = <<Float(g.strength)>>
    BY DEF Image
  <2>2. Image(g) # <<>> /\ Image(g)[1] = Float(g.strength)
    BY <2>1
  <2> QED BY <1>1, <2>2, CatFirst
<1>6. k.input # <<>> => t[1] = Float(k.strength) /\ Image(k) # <<>>
  <2> SUFFICES ASSUME k.input # <<>> PROVE t[1] = Float(k.strength) /\ Image(k) # <<>>
    OBVIOUS
  <2>1. Image(k) = <<Float(k.strength)>>
    BY DEF Image
  <2>2. Image(k) # <<>> /\ Image(k)[1] = Float(k.strength)
    BY <2>1
  <2> QED BY <1>1, <2>2, CatFirst
<1>7. s = t
  OBVIOUS
<1>8. g.input = <<>> <=> k.input = <<>>
  <2> HIDE DEF s, t
  <2>1. Str(Literal.no_input) # Float(g.strength) /\ Str(Literal.no_input) # Float(k.strength)
    BY FieldsDiffer
  <2> QED BY <1>3, <1>4, <1>5, <1>6, <1>7, <2>1
<1>9. g.input # <<>> => g.strength = k.strength
  <2> HIDE DEF s, t
  <2> QED BY <1>5, <1>6, <1>7, <1>8, FieldsDiffer
<1>10. Len(Image(g)) = Len(Image(k))
  <2>1. CASE g.input = <<>>
    BY <1>8, <2>1 DEF Image
  <2>2. CASE g.input # <<>>
    BY <1>8, <2>2 DEF Image
  <2> QED BY <2>1, <2>2
<1> HIDE DEF a, b
<1>11. Cat(a, u) = Cat(b, v)
  BY <1>1, <1>7, <1>10, CatCancel
<1>12. a = b /\ u = v
  BY <1>1, <1>11, CatCancel
<1>13. g.input = k.input
  <2>1. Connected(g.input)[1] = Connected(k.input)[1]
    BY <1>12 DEF a, b
  <2> QED BY <2>1, GenerateFacts, ConnectedInjective
<1> QED BY <1>9, <1>12, <1>13
LEMMA ControlInjective ==
  ASSUME NEW g \in NormalGenerates, NEW k \in NormalGenerates,
         g.controlNet = k.controlNet, g.controlNet # <<>>, Control(g) = Control(k)
  PROVE  g.controlStrength = k.controlStrength /\ g.controlInput = k.controlInput
<1> DEFINE a == <<Float(g.controlStrength)>>
           b == <<Float(k.controlStrength)>>
           c == Connected(g.controlInput)
           d == Connected(k.controlInput)
<1>1. Cat(a, c) = Cat(b, d)
  BY DEF Control
<1>2. /\ a \in Seq(Fields) /\ Len(a) = 1 /\ b \in Seq(Fields) /\ Len(b) = 1
      /\ a[1] = Float(g.controlStrength) /\ b[1] = Float(k.controlStrength)
  <2>1. Float(g.controlStrength) \in Fields /\ Float(k.controlStrength) \in Fields
    BY GenerateFacts, FieldTypes
  <2> QED BY <2>1
<1>3. c \in Seq(Fields) /\ d \in Seq(Fields)
  BY GenerateFacts, ConnectedFacts
<1> HIDE DEF a, b, c, d
<1>4. a = b /\ c = d
  BY <1>1, <1>2, <1>3, CatCancel
<1>5. g.controlStrength = k.controlStrength
  BY <1>2, <1>4, FieldsDiffer
<1>6. Connected(g.controlInput)[1] = Connected(k.controlInput)[1]
  BY <1>4 DEF c, d
<1>7. g.controlInput = k.controlInput
  BY <1>6, GenerateFacts, ConnectedInjective
<1> QED BY <1>5, <1>7

(* Two states of a node that have the same fields *)
Agree(g, k) ==
  /\ g.modelType = k.modelType /\ g.prompt = k.prompt /\ g.negative = k.negative
  /\ g.size = k.size /\ g.cfg = k.cfg /\ g.seed = k.seed /\ g.models = k.models
  /\ g.loras = k.loras
  /\ g.input = k.input
  /\ g.input # <<>> => g.strength = k.strength
  /\ g.controlNet = k.controlNet
  /\ g.controlNet # <<>> => /\ g.controlStrength = k.controlStrength
                            /\ g.controlInput = k.controlInput

LEMMA GenerateDecoded ==
  ASSUME NEW g \in NormalGenerates, NEW k \in NormalGenerates,
         SlashedFields(g) = SlashedFields(k)
  PROVE  Agree(g, k)
<1> DEFINE d == <<Str(Literal.img2img)>>
           t5g == Cat(Net(g), Control(g))
           t5k == Cat(Net(k), Control(k))
           t4g == Cat(Image(g), Cat(Connected(g.input), t5g))
           t4k == Cat(Image(k), Cat(Connected(k.input), t5k))
           t3g == Cat(d, t4g)
           t3k == Cat(d, t4k)
           t2g == Cat(Pairs(g.loras), t3g)
           t2k == Cat(Pairs(k.loras), t3k)
           t1g == Cat(LoraCount(g.loras), t2g)
           t1k == Cat(LoraCount(k.loras), t2k)
<1>1. Cat(Settings(g), t1g) = Cat(Settings(k), t1k)
  BY GenerateParts
<1>2. Connected(g.input) \in Seq(Fields) /\ Connected(k.input) \in Seq(Fields)
  BY GenerateFacts, ConnectedFacts
<1>3. t5g \in Seq(Fields) /\ t5k \in Seq(Fields)
  BY PartTypes, CatType
<1>4. t4g \in Seq(Fields) /\ t4k \in Seq(Fields)
  <2>1. Cat(Connected(g.input), t5g) \in Seq(Fields) /\ Cat(Connected(k.input), t5k) \in Seq(Fields)
    BY <1>2, <1>3, CatType
  <2> HIDE DEF t5g, t5k
  <2> QED BY <2>1, PartTypes, CatType
<1>5. d \in Seq(Fields) /\ Len(d) = 1
  BY PartTypes
<1>6. t3g \in Seq(Fields) /\ t3k \in Seq(Fields)
  <2> HIDE DEF t4g, t4k, d
  <2> QED BY <1>4, <1>5, CatType
<1>7. t2g \in Seq(Fields) /\ t2k \in Seq(Fields)
  <2> HIDE DEF t3g, t3k
  <2> QED BY <1>6, PartTypes, CatType
<1>8. t1g \in Seq(Fields) /\ t1k \in Seq(Fields)
  <2> HIDE DEF t2g, t2k
  <2> QED BY <1>7, PartTypes, CatType
<1>9. Settings(g) = Settings(k) /\ t1g = t1k
  <2> HIDE DEF t1g, t1k
  <2> QED BY <1>1, <1>8, PartTypes, CatCancel
<1>10. LoraCount(g.loras) = LoraCount(k.loras) /\ t2g = t2k
  <2> HIDE DEF t2g, t2k
  <2> QED BY <1>7, <1>9, PartTypes, CatCancel DEF t1g, t1k
<1>11. Len(g.loras) = Len(k.loras)
  <2>1. LoraCount(g.loras)[2] = Int32(Len(g.loras)) /\ LoraCount(k.loras)[2] = Int32(Len(k.loras))
    BY DEF LoraCount
  <2> QED BY <1>10, <2>1, FieldsDiffer
<1>12. g.loras = k.loras /\ t3g = t3k
  <2> HIDE DEF t3g, t3k
  <2>1. Cat(Pairs(g.loras), t3g) = Cat(Pairs(k.loras), t3k)
    BY <1>10
  <2>2. g.loras \in Seq(Loras) /\ k.loras \in Seq(Loras)
    BY GenerateFacts
  <2> QED BY <1>6, <1>11, <2>1, <2>2, PairsInjective
<1>13. t4g = t4k
  <2> HIDE DEF t4g, t4k, d
  <2> QED BY <1>4, <1>5, <1>12, CatCancel DEF t3g, t3k
<1>14. g.input = k.input /\ (g.input # <<>> => g.strength = k.strength) /\ t5g = t5k
  <2> HIDE DEF t5g, t5k
  <2> QED BY <1>3, <1>13, ImageInjective DEF t4g, t4k
<1>15. Net(g) = Net(k) /\ Control(g) = Control(k)
  BY <1>14, PartTypes, CatCancel
<1>16. g.controlNet = k.controlNet
  <2>1. Net(g)[2] = Str(g.controlNet) /\ Net(k)[2] = Str(k.controlNet)
    BY DEF Net
  <2> QED BY <1>15, <2>1, FieldsDiffer
<1>17. g.controlNet # <<>> => /\ g.controlStrength = k.controlStrength
                              /\ g.controlInput = k.controlInput
  BY <1>15, <1>16, ControlInjective
<1>18. /\ g.modelType = k.modelType /\ g.prompt = k.prompt /\ g.negative = k.negative
       /\ g.size = k.size /\ g.cfg = k.cfg /\ g.seed = k.seed /\ g.models = k.models
  <2>1. \A x \in {g, k} :
          /\ Settings(x)[2] = Int32(x.modelType) /\ Settings(x)[3] = Str(x.prompt)
          /\ Settings(x)[4] = Str(x.negative) /\ Settings(x)[5] = Int32(x.size)
          /\ Settings(x)[6] = Float(x.cfg) /\ Settings(x)[7] = Int64(x.seed)
          /\ Settings(x)[8] = Str(x.models)
    BY DEF Settings
  <2>2. /\ Int32(g.modelType) = Int32(k.modelType) /\ Str(g.prompt) = Str(k.prompt)
        /\ Str(g.negative) = Str(k.negative) /\ Int32(g.size) = Int32(k.size)
        /\ Float(g.cfg) = Float(k.cfg) /\ Int64(g.seed) = Int64(k.seed)
        /\ Str(g.models) = Str(k.models)
    BY <1>9, <2>1
  <2> QED BY <2>2, FieldsDiffer
<1> QED BY <1>12, <1>14, <1>16, <1>17, <1>18 DEF Agree

(* A job is then given the same. *)
LEMMA AgreeGiven ==
  ASSUME NEW g, NEW k, Agree(g, k)
  PROVE  Given(g) = Given(k)
<1>1. (IF g.input = <<>> THEN <<>> ELSE <<g.input, g.strength>>)
        = IF k.input = <<>> THEN <<>> ELSE <<k.input, k.strength>>
  BY DEF Agree
<1>2. (IF g.controlNet = <<>> \/ g.controlInput = <<>> THEN <<>>
       ELSE <<g.controlNet, g.controlInput, g.controlStrength>>)
        = IF k.controlNet = <<>> \/ k.controlInput = <<>> THEN <<>>
          ELSE <<k.controlNet, k.controlInput, k.controlStrength>>
  BY DEF Agree
<1> QED BY <1>1, <1>2 DEF Agree, Given

LEMMA GenerateTyped ==
  ASSUME NEW g \in NormalGenerates
  PROVE  /\ SlashedFields(g) \in Seq(Fields) \ {<<>>}
         /\ SlashedFields(g)[1] = Str(Literal.generate)
<1> DEFINE t5 == Cat(Net(g), Control(g))
           t4 == Cat(Image(g), Cat(Connected(g.input), t5))
           t3 == Cat(<<Str(Literal.img2img)>>, t4)
           t2 == Cat(Pairs(g.loras), t3)
           t1 == Cat(LoraCount(g.loras), t2)
<1>1. SlashedFields(g) = Cat(Settings(g), t1)
  BY GenerateParts
<1>2. t5 \in Seq(Fields)
  BY PartTypes, CatType
<1>3. Connected(g.input) \in Seq(Fields)
  BY GenerateFacts, ConnectedFacts
<1> HIDE DEF t5
<1>4. Cat(Connected(g.input), t5) \in Seq(Fields)
  BY <1>2, <1>3, CatType
<1>5. t4 \in Seq(Fields)
  BY <1>4, PartTypes, CatType
<1> HIDE DEF t4
<1>6. t3 \in Seq(Fields)
  BY <1>5, PartTypes, CatType
<1> HIDE DEF t3
<1>7. t2 \in Seq(Fields)
  BY <1>6, PartTypes, CatType
<1> HIDE DEF t2
<1>8. t1 \in Seq(Fields)
  BY <1>7, PartTypes, CatType
<1> HIDE DEF t1
<1>9. /\ Settings(g) \in Seq(Fields) /\ Len(Settings(g)) = 8 /\ Settings(g) # <<>>
      /\ Settings(g)[1] = Str(Literal.generate)
  <2>1. Settings(g) # <<>> /\ Settings(g)[1] = Str(Literal.generate)
    BY DEF Settings
  <2> QED BY <2>1, PartTypes
<1>10. Cat(Settings(g), t1) \in Seq(Fields) /\ Cat(Settings(g), t1)[1] = Str(Literal.generate)
  BY <1>8, <1>9, CatType, CatFirst
<1>11. Cat(Settings(g), t1) # <<>>
  <2>1. Len(Cat(Settings(g), t1)) = 8 + Len(t1) /\ Len(t1) \in Nat
    BY <1>8, <1>9, CatType, LenProperties
  <2>2. Len(Cat(Settings(g), t1)) # 0
    BY <2>1
  <2> QED BY <2>2, EmptySeq
<1> QED BY <1>1, <1>10, <1>11

LEMMA SmartFillTyped ==
  ASSUME NEW s \in NormalFills
  PROVE  /\ CleanedFields(s) \in Seq(Fields) \ {<<>>}
         /\ CleanedFields(s)[1] = Str(Literal.smartfill)
<1>1. s.source \in Inputs /\ s.mask \in Inputs /\ s.threshold \in Words /\ s.backend \in Words
      /\ s.model \in Strings
  BY DEF NormalFills
<1>2. /\ Str(Literal.smartfill) \in Fields /\ HashOf(s.source) \in Fields
      /\ HashOf(s.mask) \in Fields /\ Float(s.threshold) \in Fields
      /\ Int32(s.backend) \in Fields /\ Str(s.model) \in Fields
  BY <1>1, ConnectedFacts, FieldTypes, Literals
<1> QED BY <1>2 DEF CleanedFields

LEMMA HashOfInjective ==
  ASSUME NEW a \in Inputs, NEW b \in Inputs, HashOf(a) = HashOf(b)
  PROVE  a = b
<1>1. (IF a = <<>> THEN 0 ELSE a[1]) = (IF b = <<>> THEN 0 ELSE b[1])
  BY FieldsDiffer DEF HashOf
<1>2. (a # <<>> => a[1] # 0) /\ (b # <<>> => b[1] # 0)
  BY ConnectedFacts
<1>3. a = <<>> <=> b = <<>>
  BY <1>1, <1>2
<1>4. a # <<>> => a[1] = b[1]
  BY <1>1, <1>3
<1>5. a # <<>> => a = <<a[1]>> /\ b = <<b[1]>>
  BY <1>3, ConnectedFacts
<1> QED BY <1>3, <1>4, <1>5

LEMMA SmartFillDecoded ==
  ASSUME NEW s \in NormalFills, NEW k \in NormalFills,
         CleanedFields(s) = CleanedFields(k)
  PROVE  s = k
<1>1. \A x \in {s, k} :
        /\ CleanedFields(x)[2] = HashOf(x.source) /\ CleanedFields(x)[3] = HashOf(x.mask)
        /\ CleanedFields(x)[4] = Float(x.threshold) /\ CleanedFields(x)[5] = Int32(x.backend)
        /\ CleanedFields(x)[6] = Str(x.model)
  BY DEF CleanedFields
<1>2. /\ HashOf(s.source) = HashOf(k.source) /\ HashOf(s.mask) = HashOf(k.mask)
      /\ Float(s.threshold) = Float(k.threshold) /\ Int32(s.backend) = Int32(k.backend)
      /\ Str(s.model) = Str(k.model)
  BY <1>1
<1>3. s.source = k.source /\ s.mask = k.mask
  <2>1. s.source \in Inputs /\ s.mask \in Inputs /\ k.source \in Inputs /\ k.mask \in Inputs
    BY DEF NormalFills
  <2> QED BY <1>2, <2>1, HashOfInjective
<1>4. s.threshold = k.threshold /\ s.backend = k.backend /\ s.model = k.model
  BY <1>2, FieldsDiffer
<1> QED BY <1>3, <1>4 DEF NormalFills

-----------------------------------------------------------------------------
(* Requests *)

LEMMA RequestFacts ==
  ASSUME NEW r \in Requests
  PROVE  /\ \/ /\ r.by = "AIGenerate" /\ Slashed(r.of) \in NormalGenerates
               /\ FieldsOf(r) = SlashedFields(Slashed(r.of))
            \/ /\ r.by = "AISmartFill" /\ Cleaned(r.of) \in NormalFills
               /\ FieldsOf(r) = CleanedFields(Cleaned(r.of))
            \/ r.by = "builder" /\ FieldsOf(r) = r.of
         /\ FieldsOf(r) \in Seq(Fields) \ {<<>>}
<1>1. CASE r \in {Request("AIGenerate", g) : g \in GenerateStates}
  <2>1. PICK g \in GenerateStates : r = Request("AIGenerate", g)
    BY <1>1
  <2>2. r.by = "AIGenerate" /\ r.of = g
    BY <2>1 DEF Request
  <2>3. FieldsOf(r) = SlashedFields(Slashed(r.of))
    BY <2>2 DEF FieldsOf, GenerateFields
  <2>4. Slashed(r.of) \in NormalGenerates
    BY <2>2, CacheKeyAssumption, SlashedType
  <2> QED BY <2>2, <2>3, <2>4, GenerateTyped
<1>2. CASE r \in {Request("AISmartFill", s) : s \in SmartFillStates}
  <2>1. PICK s \in SmartFillStates : r = Request("AISmartFill", s)
    BY <1>2
  <2>2. r.by = "AISmartFill" /\ r.of = s
    BY <2>1 DEF Request
  <2>3. FieldsOf(r) = CleanedFields(Cleaned(r.of))
    BY <2>2 DEF FieldsOf, SmartFillFields
  <2>4. Cleaned(r.of) \in NormalFills
    BY <2>2, CleanedType
  <2> QED BY <2>2, <2>3, <2>4, SmartFillTyped
<1>3. CASE r \in {Request("builder", fields) : fields \in FieldLists}
  <2>1. PICK fields \in FieldLists : r = Request("builder", fields)
    BY <1>3
  <2>2. r.by = "builder" /\ r.of = fields
    BY <2>1 DEF Request
  <2>3. FieldsOf(r) = r.of
    BY <2>2 DEF FieldsOf
  <2> QED BY <2>2, <2>3, CacheKeyAssumption
<1> QED BY <1>1, <1>2, <1>3 DEF Requests

LEMMA CallsAreFed ==
  ASSUME NEW r \in Requests
  PROVE  /\ Calls(r) = Fed(FieldsOf(r))
         /\ Calls(r) \in Seq(Seq(Byte)) /\ Calls(r) # <<>>
         /\ Message[r] = Encoded(FieldsOf(r)) /\ Message[r] \in Seq(Byte)
<1>1. Calls(r) = Fed(FieldsOf(r))
  BY DEF Calls, Fed, Listed
<1>2. Message[r] = Encoded(FieldsOf(r))
  BY <1>1 DEF Message, Encoded
<1>3. Fed(FieldsOf(r)) \in Seq(Seq(Byte)) /\ Encoded(FieldsOf(r)) \in Seq(Byte)
  BY RequestFacts, FedType
<1>4. Fed(FieldsOf(r)) # <<>>
  <2>1. Encoded(FieldsOf(r)) # <<>>
    BY RequestFacts, EncodedEmpty
  <2> QED BY <2>1, FlattenEmpty DEF Encoded
<1> QED BY <1>1, <1>2, <1>3, <1>4

(* The messages of two requests are the same only if the requests may      *)
(* share a key, and are if they must.                                      *)
LEMMA MessagesTellApart ==
  ASSUME NEW r \in Requests, NEW q \in Requests
  PROVE  /\ Message[r] = Message[q] => MayShare(r, q)
         /\ MustShare(r, q) => Message[r] = Message[q]
<1>1. Message[r] = Message[q] <=> FieldsOf(r) = FieldsOf(q)
  BY CallsAreFed, RequestFacts, EncodedInjective
<1>2. CASE r.by = "builder" \/ q.by = "builder"
  BY <1>1, <1>2 DEF MayShare, MustShare
<1>3. CASE r.by = "AIGenerate" /\ q.by = "AIGenerate"
  <2> DEFINE g == Slashed(r.of)
             k == Slashed(q.of)
  <2>1. /\ g \in NormalGenerates /\ FieldsOf(r) = SlashedFields(g)
        /\ k \in NormalGenerates /\ FieldsOf(q) = SlashedFields(k)
    BY <1>3, RequestFacts
  <2>2. /\ MayShare(r, q) <=> Given(g) = Given(k)
        /\ MustShare(r, q) => g = k
    BY <1>3 DEF MayShare, MustShare
  <2> HIDE DEF g, k
  <2>3. SlashedFields(g) = SlashedFields(k) => Given(g) = Given(k)
    BY <2>1, GenerateDecoded, AgreeGiven
  <2> QED BY <1>1, <2>1, <2>2, <2>3
<1>4. CASE r.by = "AISmartFill" /\ q.by = "AISmartFill"
  <2> DEFINE s == Cleaned(r.of)
             k == Cleaned(q.of)
  <2>1. /\ s \in NormalFills /\ FieldsOf(r) = CleanedFields(s)
        /\ k \in NormalFills /\ FieldsOf(q) = CleanedFields(k)
    BY <1>4, RequestFacts
  <2>2. (MayShare(r, q) <=> s = k) /\ (MustShare(r, q) <=> s = k)
    BY <1>4 DEF MayShare, MustShare
  <2> HIDE DEF s, k
  <2>3. CleanedFields(s) = CleanedFields(k) => s = k
    BY <2>1, SmartFillDecoded
  <2> QED BY <1>1, <2>1, <2>2, <2>3
<1>5. CASE r.by # q.by /\ r.by # "builder" /\ q.by # "builder"
  <2>1. ~ MustShare(r, q)
    BY <1>5 DEF MustShare
  <2>2. FieldsOf(r)[1] # FieldsOf(q)[1]
    <3>1. /\ r.by = "AIGenerate" => FieldsOf(r)[1] = Str(Literal.generate)
          /\ r.by = "AISmartFill" => FieldsOf(r)[1] = Str(Literal.smartfill)
      BY RequestFacts, GenerateTyped, SmartFillTyped
    <3>2. /\ q.by = "AIGenerate" => FieldsOf(q)[1] = Str(Literal.generate)
          /\ q.by = "AISmartFill" => FieldsOf(q)[1] = Str(Literal.smartfill)
      BY RequestFacts, GenerateTyped, SmartFillTyped
    <3>3. Str(Literal.generate) # Str(Literal.smartfill)
      BY Literals, FieldsDiffer
    <3>4. r.by \in {"AIGenerate", "AISmartFill"} /\ q.by \in {"AIGenerate", "AISmartFill"}
      BY <1>5, RequestFacts
    <3> QED BY <1>5, <3>1, <3>2, <3>3, <3>4
  <2> QED BY <1>1, <2>1, <2>2
<1> QED BY <1>2, <1>3, <1>4, <1>5, RequestFacts

(* What finalize() hashes determines the message: the padding says where   *)
(* it ends, as the marker is not a zero.                                   *)
THEOREM StandardUnique ==
  ASSUME NEW m \in Seq(Byte), NEW n \in Seq(Byte), NEW p, Len(p) \in Nat,
         Standard(m, p), Standard(n, p)
  PROVE  m = n
<1>1. Len(m) \in Nat /\ Len(n) \in Nat /\ LengthLen \in Nat /\ Marker # 0
  BY LenProperties, Sizes, PowerAssumption
<1>2. /\ Len(p) - Len(m) - 1 - LengthLen >= 0 /\ p[Len(m) + 1] = Marker
      /\ \A i \in Len(m) + 2 .. Len(m) + 1 + (Len(p) - Len(m) - 1 - LengthLen) : p[i] = 0
      /\ SubSeq(p, 1, Len(m)) = m
  BY <1>1 DEF Standard
<1>3. /\ Len(p) - Len(n) - 1 - LengthLen >= 0 /\ p[Len(n) + 1] = Marker
      /\ \A i \in Len(n) + 2 .. Len(n) + 1 + (Len(p) - Len(n) - 1 - LengthLen) : p[i] = 0
      /\ SubSeq(p, 1, Len(n)) = n
  BY <1>1 DEF Standard
<1>4. ~ (Len(m) < Len(n))
  <2> SUFFICES ASSUME Len(m) < Len(n) PROVE FALSE
    OBVIOUS
  <2>1. Len(n) + 1 \in Len(m) + 2 .. Len(m) + 1 + (Len(p) - Len(m) - 1 - LengthLen)
    BY <1>1, <1>3
  <2> QED BY <1>1, <1>2, <1>3, <2>1
<1>5. ~ (Len(n) < Len(m))
  <2> SUFFICES ASSUME Len(n) < Len(m) PROVE FALSE
    OBVIOUS
  <2>1. Len(m) + 1 \in Len(n) + 2 .. Len(n) + 1 + (Len(p) - Len(n) - 1 - LengthLen)
    BY <1>1, <1>2
  <2> QED BY <1>1, <1>2, <1>3, <2>1
<1>6. Len(m) = Len(n)
  BY <1>1, <1>4, <1>5
<1> QED BY <1>2, <1>3, <1>6
-----------------------------------------------------------------------------
(* The builder over the hasher *)

(* What has been fed and what is still to come make up the message of the  *)
(* request, and a key is of exactly that message.                          *)
KeyInv ==
  /\ request \in Requests \cup {NoRequest}
  /\ pieces \in Seq(Seq(Byte))
  /\ keys \in 0 .. MaxKeys
  /\ request = NoRequest => message = <<>> /\ pieces = <<>> /\ digest = <<>>
  /\ request # NoRequest /\ digest = <<>> =>
       Cat(message, FlattenSeq(pieces)) = Message[request] /\ keys < MaxKeys
  /\ digest # <<>> => digested = Message[request] /\ message = <<>> /\ pieces = <<>>
LEMMA NoRequestIsNone == NoRequest \notin Requests
<1>1. NoRequest.by = "none"
  BY DEF NoRequest, Request
<1> QED BY <1>1, RequestFacts

LEMMA KeyInit == Init => ShaInv /\ KeyInv
<1> SUFFICES ASSUME Init PROVE ShaInv /\ KeyInv
  OBVIOUS
<1>1. ShaInv
  BY ShaInitInv DEF Init
<1>2. <<>> \in Seq(Seq(Byte))
  BY EmptySeq
<1>3. KeyInv
  BY <1>2, CacheKeyAssumption DEF Init, ShaInit, KeyInv
<1> QED BY <1>1, <1>3

(* Pieces fed one by one *)
LEMMA NextPiece ==
  ASSUME NEW p \in Seq(Seq(Byte)), p # <<>>, NEW m \in Seq(Byte)
  PROVE  /\ Head(p) \in Seq(Byte) /\ Tail(p) \in Seq(Seq(Byte))
         /\ Cat(Cat(m, Head(p)), FlattenSeq(Tail(p))) = Cat(m, FlattenSeq(p))
<1>1. Head(p) \in Seq(Byte) /\ Tail(p) \in Seq(Seq(Byte))
      /\ FlattenSeq(p) = Cat(Head(p), FlattenSeq(Tail(p)))
  BY FlattenHead
<1>2. FlattenSeq(Tail(p)) \in Seq(Byte)
  BY <1>1, FlattenType
<1>3. Cat(Cat(m, Head(p)), FlattenSeq(Tail(p))) = Cat(m, Cat(Head(p), FlattenSeq(Tail(p))))
  BY <1>1, <1>2, CatAssociative
<1> QED BY <1>1, <1>3

LEMMA BeginStep ==
  ASSUME ShaInv, KeyInv, NEW r \in Requests, Begin(r)
  PROVE  ShaInv' /\ KeyInv'
<1> DEFINE calls == Calls(r)
<1>1. calls \in Seq(Seq(Byte)) /\ calls # <<>> /\ Message[r] = FlattenSeq(calls)
  BY CallsAreFed DEF Encoded
<1>2. message = <<>> /\ <<>> \in Seq(Byte)
  BY EmptySeq DEF KeyInv, Begin
<1>3. /\ Update(Head(calls)) /\ request' = r /\ pieces' = Tail(calls)
      /\ keys' = keys /\ keys < MaxKeys /\ keys \in 0 .. MaxKeys
  BY DEF Begin, KeyInv
<1> HIDE DEF calls
<1>4. /\ Head(calls) \in Seq(Byte) /\ Tail(calls) \in Seq(Seq(Byte))
      /\ Cat(Cat(<<>>, Head(calls)), FlattenSeq(Tail(calls))) = Cat(<<>>, FlattenSeq(calls))
  BY <1>1, <1>2, NextPiece
<1>5. Cat(<<>>, FlattenSeq(calls)) = FlattenSeq(calls)
  BY <1>1, FlattenType, ConcatEmptySeq DEF Cat
<1>6. message' = Cat(<<>>, Head(calls)) /\ digest' = <<>>
  BY <1>2, <1>3 DEF Update, Cat
<1>7. Cat(message', FlattenSeq(pieces')) = Message[request']
  BY <1>1, <1>3, <1>4, <1>5, <1>6
<1>8. request' # NoRequest
  BY <1>3, NoRequestIsNone
<1>9. KeyInv'
  BY <1>3, <1>4, <1>6, <1>7, <1>8 DEF KeyInv, Message, Requests, Calls, FieldsOf
<1>10. ShaInv'
  BY <1>3, <1>4, UpdateStep
<1> QED BY <1>9, <1>10

LEMMA FeedStep ==
  ASSUME ShaInv, KeyInv, Feed
  PROVE  ShaInv' /\ KeyInv'
<1>1. /\ pieces \in Seq(Seq(Byte)) /\ pieces # <<>> /\ message \in Seq(Byte)
      /\ Update(Head(pieces)) /\ pieces' = Tail(pieces)
      /\ request' = request /\ keys' = keys
  BY DEF Feed, KeyInv, ShaInv, SequencesInv
<1>2. request # NoRequest /\ digest = <<>>
  BY <1>1 DEF KeyInv
<1>3. /\ Head(pieces) \in Seq(Byte) /\ Tail(pieces) \in Seq(Seq(Byte))
      /\ Cat(Cat(message, Head(pieces)), FlattenSeq(Tail(pieces))) = Cat(message, FlattenSeq(pieces))
  BY <1>1, NextPiece
<1>4. message' = Cat(message, Head(pieces)) /\ digest' = <<>>
  BY <1>1 DEF Update, Cat
<1>5. Cat(message', FlattenSeq(pieces')) = Message[request]
  BY <1>1, <1>2, <1>3, <1>4 DEF KeyInv
<1>6. KeyInv'
  BY <1>1, <1>2, <1>3, <1>4, <1>5 DEF KeyInv
<1>7. ShaInv'
  BY <1>1, <1>3, UpdateStep
<1> QED BY <1>6, <1>7

LEMMA HashStep ==
  ASSUME ShaInv, KeyInv, Hash
  PROVE  ShaInv' /\ KeyInv'
<1>1. ShaInv'
  BY AbsorbStep DEF Hash
<1>2. KeyInv'
  BY DEF KeyInv, Hash, Absorb
<1> QED BY <1>1, <1>2

LEMMA FinishStep ==
  ASSUME ShaInv, KeyInv, Finish
  PROVE  ShaInv' /\ KeyInv'
<1>1. ShaInv' /\ digest' # <<>>
  BY FinalizeStep DEF Finish
<1>2. /\ request # NoRequest /\ pieces = <<>> /\ digest = <<>>
      /\ request' = request /\ pieces' = pieces /\ keys' = keys + 1
      /\ digested' = message /\ message' = <<>> /\ message \in Seq(Byte)
  BY DEF Finish, Finalize, ShaInv, SequencesInv
<1>3. Cat(message, FlattenSeq(<<>>)) = message
  BY <1>2, FlattenEmpty, CatEmpty
<1>4. digested' = Message[request] /\ keys < MaxKeys /\ keys \in 0 .. MaxKeys
  BY <1>2, <1>3 DEF KeyInv
<1>5. keys' \in 0 .. MaxKeys
  BY <1>2, <1>4, CacheKeyAssumption
<1>6. KeyInv'
  BY <1>1, <1>2, <1>4, <1>5 DEF KeyInv
<1> QED BY <1>1, <1>6

LEMMA KeyStep == ShaInv /\ KeyInv /\ [Next]_vars => ShaInv' /\ KeyInv'
<1> SUFFICES ASSUME ShaInv, KeyInv, [Next]_vars PROVE ShaInv' /\ KeyInv'
  OBVIOUS
<1>1. CASE \E r \in Requests : Begin(r)
  BY <1>1, BeginStep
<1>2. CASE Feed
  BY <1>2, FeedStep
<1>3. CASE Hash
  BY <1>3, HashStep
<1>4. CASE Finish
  BY <1>4, FinishStep
<1>5. CASE UNCHANGED vars
  <2>1. UNCHANGED shaVars /\ UNCHANGED <<request, pieces, keys>>
    BY <1>5 DEF vars
  <2>2. ShaInv'
    BY <2>1, ShaStepInv
  <2>3. KeyInv'
    BY <2>1 DEF KeyInv, shaVars, hasher
  <2> QED BY <2>2, <2>3
<1> QED BY <1>1, <1>2, <1>3, <1>4, <1>5 DEF Next

LEMMA KeyInvariant == Spec => [](ShaInv /\ KeyInv)
  BY KeyInit, KeyStep, PTL DEF Spec

(* Every key is hashed as the standard says, by a hasher that is used      *)
(* again and again: the builder only ever takes the hasher's own steps.    *)
THEOREM BuilderUsesHasher == Spec => ShaSpec
<1>1. Init => ShaInit
  BY DEF Init
<1>2. KeyInv /\ [Next]_vars => [ShaNext]_shaVars
  <2> SUFFICES ASSUME KeyInv, [Next]_vars PROVE [ShaNext]_shaVars
    OBVIOUS
  <2>1. CASE \E r \in Requests : Begin(r)
    <3>1. PICK r \in Requests : Begin(r)
      BY <2>1
    <3>2. Head(Calls(r)) \in Seq(Byte)
      BY CallsAreFed, FlattenHead
    <3> QED BY <3>1, <3>2 DEF Begin, ShaNext
  <2>2. CASE Feed
    <3>1. Head(pieces) \in Seq(Byte)
      BY <2>2, FlattenHead DEF Feed, KeyInv
    <3> QED BY <2>2, <3>1 DEF Feed, ShaNext
  <2>3. CASE Hash
    BY <2>3 DEF Hash, ShaNext
  <2>4. CASE Finish
    BY <2>4 DEF Finish, ShaNext
  <2>5. CASE UNCHANGED vars
    BY <2>5 DEF vars
  <2> QED BY <2>1, <2>2, <2>3, <2>4, <2>5 DEF Next
<1> QED BY <1>1, <1>2, KeyInvariant, PTL DEF Spec, ShaSpec

(* TypeOK: the hasher is never left with a full buffer, and its counter    *)
(* never leaves its width.                                                 *)
THEOREM KeyTypes == Spec => []TypeOK
<1>1. ShaInv /\ KeyInv => TypeOK
  <2> SUFFICES ASSUME ShaInv, KeyInv PROVE TypeOK
    OBVIOUS
  <2>1. /\ state \in Seq(Byte) /\ buffer \in Seq(Byte) /\ data \in Seq(Byte)
        /\ Len(buffer) < ChunkLen /\ bitLength = Bits(ByteBits * (Len(state) + Len(buffer)))
    BY DEF ShaInv, SequencesInv, Streamed
  <2> DEFINE n == ByteBits * (Len(state) + Len(buffer))
             w == Radix ^ LengthLen
  <2>2. n \in Nat /\ w \in Nat \ {0}
    BY <2>1, Sizes, LenProperties
  <2>3. bitLength = n % w
    BY <2>1 DEF Bits
  <2> HIDE DEF n, w
  <2>4. bitLength \in 0 .. w - 1
    BY <2>2, <2>3, Division
  <2>5. keys \in 0 .. MaxKeys /\ request \in Requests \cup {NoRequest}
    BY DEF KeyInv
  <2> QED BY <2>1, <2>4, <2>5 DEF TypeOK, w
<1> QED BY <1>1, KeyInvariant, PTL

(* "The same fields fed in the same order produce the same key"            *)
(* (core/include/ai_cache.h), however the paths were typed, and no cached  *)
(* image is taken for another: for every width of bytes, words and chunks, *)
(* and every set of texts, numbers, LoRA stacks, nodes and lists of        *)
(* fields, two bakes share a key only if start_bake would hand their jobs  *)
(* the same, paths up to how slashes are written.                          *)
THEOREM KeysAreToldApart == Spec => []KeysTellApart
<1>1. ShaInv /\ KeyInv => KeysTellApart
  <2> SUFFICES ASSUME ShaInv, KeyInv, digest # <<>>, NEW r \in Requests
               PROVE  /\ Standard(Message[r], digest) => MayShare(r, request)
                      /\ MustShare(r, request) => Standard(Message[r], digest)
    BY DEF KeysTellApart
  <2>1. request \in Requests
    BY DEF KeyInv
  <2>2. Standard(Message[request], digest) /\ Len(digest) \in Nat
    BY DEF ShaInv, SequencesInv, DigestIsStandard, KeyInv
  <2>3. Message[r] \in Seq(Byte) /\ Message[request] \in Seq(Byte)
    BY <2>1, CallsAreFed
  <2>4. /\ Message[r] = Message[request] => MayShare(r, request)
        /\ MustShare(r, request) => Message[r] = Message[request]
    BY <2>1, MessagesTellApart
  <2>5. Standard(Message[r], digest) => Message[r] = Message[request]
    BY <2>2, <2>3, StandardUnique
  <2> QED BY <2>2, <2>4, <2>5
<1> QED BY <1>1, KeyInvariant, PTL
=============================================================================
